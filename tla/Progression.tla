---------------------------- MODULE Progression ----------------------------
(***************************************************************************)
(* Progress tracks and their rewards (features/progression,                *)
(* features/huntpass): game servers award points on the tracks of an       *)
(* account, with snapshots of the objectives that earned them, and confirm *)
(* ranks; a confirmation pays the rewards of every rank up to it into the  *)
(* wallet and the inventory.  The premium lane of a track opens with an    *)
(* entitlement, which the store sells.                                     *)
(***************************************************************************)
EXTENDS Store, FiniteSetsExt

CONSTANTS
    Tracks,         \* track -> [costs: points per rank, gate, free, premium: rank -> reward]
    FreeElite,      \* tracks whose premium lane is open to all
    MasteryTracks,
    Awards,         \* POST /progression bodies: [request, user, tracks, objectives]
    NoRequest,      \* the request id of game servers that send none
    Multiplier,     \* what a point awarded on a track counts
    INT32_MAX,      \* where the points of a track end
    MAX_GENERATION  \* bound on resets

ASSUME ProgressionAssumption ==
    /\ MasteryTracks \subseteq DOMAIN Tracks /\ FreeElite \subseteq DOMAIN Tracks /\ MAX_GENERATION \in Nat
    /\ \A t \in DOMAIN Tracks : Tracks[t].costs \in Seq(Nat) /\ Multiplier[t] \in Nat \ {0}
    /\ \A t \in DOMAIN Tracks, kind \in {"free", "premium"} : \A rank \in DOMAIN Tracks[t][kind] :
        /\ Quantities(Tracks[t][kind][rank].lines)
        /\ \A name \in DOMAIN Tracks[t][kind][rank].grants : Tracks[t][kind][rank].grants[name] \in Nat
    /\ \A a \in Awards :
        /\ a.user \in Users
        /\ \A t \in DOMAIN a.tracks : a.tracks[t] \in Nat
        /\ IsFiniteSet(DOMAIN a.objectives)
        /\ \A o \in DOMAIN a.objectives : a.objectives[o] \in [completed : Nat, value : Nat]

VARIABLES
    tracks,         \* user, track -> [points, generation, free, premium]: the last two, ranks confirmed
    objectives,     \* user -> objective -> [completed, value]
    requests,       \* request ids an award was applied under
    claims          \* ranks paid: [user, track, generation, rank, kind]

progressionVars == <<tracks, objectives, requests, claims>>

PointsFor(track, rank) == Total([r \in 1 .. rank |-> Tracks[track].costs[r]])

\* Requirements are per rank: the highest rank whose running total has been paid.
DeriveRank(track, points) ==
    Cardinality({r \in DOMAIN Tracks[track].costs : PointsFor(track, r) <= points})

Earned(u, track) == DeriveRank(track, tracks[u][track].points)

HasPremiumForTrack(u, track) == track \in FreeElite \/ Tracks[track].gate \in DOMAIN entitlements[u]

ProgressionInit ==
    /\ tracks = [u \in Users |-> [t \in DOMAIN Tracks |-> [points |-> 0, generation |-> 0, free |-> 0, premium |-> 0]]]
    /\ objectives = [u \in Users |-> Empty]
    /\ requests = {}
    /\ claims = {}

---------------------------------------------------------------------------
(* Awards *)

\* A repeating objective starts over with each completion.
IsFurther(new, old) ==
    \/ new.completed > old.completed
    \/ new.completed = old.completed /\ new.value > old.value

ObjectiveOf(u, o) == IF o \in DOMAIN objectives[u] THEN objectives[u][o] ELSE [completed |-> 0, value |-> 0]
Advanced(a) == {o \in DOMAIN a.objectives : IsFurther(a.objectives[o], ObjectiveOf(a.user, o))}

\* Slip that breaks MasteryNotInflated: a grant counts whenever it carries its evidence.
CountsAlways(a, track) == TRUE

\* A mastery grant whose evidence is not news has been counted before.
Counts(a, track) ==
    track \in MasteryTracks /\ DOMAIN a.objectives # {} => Advanced(a) # {}

Awarded(a, track) ==
    IF track \in DOMAIN a.tracks /\ Counts(a, track) THEN a.tracks[track] * Multiplier[track] ELSE 0

\* A request id is applied once; too many points refuse the request with all it carries.
ApplyProgressAndObjectives(a) ==
    LET points(t) == tracks[a.user][t].points + Awarded(a, t) IN
    /\ a.request \notin requests
    /\ \A t \in DOMAIN Tracks : points(t) <= INT32_MAX
    /\ tracks' = [tracks EXCEPT ![a.user] = [t \in DOMAIN Tracks |-> [@[t] EXCEPT !.points = points(t)]]]
    /\ objectives' = [objectives EXCEPT ![a.user] = [o \in DOMAIN @ \cup DOMAIN a.objectives |->
            IF o \in Advanced(a) THEN a.objectives[o] ELSE ObjectiveOf(a.user, o)]]
    /\ requests' = requests \cup ({a.request} \ {NoRequest})
    /\ UNCHANGED <<now, inventoryVars, storeVars, claims>>

---------------------------------------------------------------------------
(* Rewards *)

Kinds == {"free", "premium"}
NoReward == [lines |-> Empty, cosmetics |-> {}, grants |-> Empty]
RewardForRank(track, rank, kind) ==
    IF rank \in DOMAIN Tracks[track][kind] THEN Tracks[track][kind][rank] ELSE NoReward

\* Slip that breaks Settles: a rank is paid again by each confirmation that covers it.
DueAgain(u, track, rank, kind) ==
    {[user |-> u, track |-> track, generation |-> tracks[u][track].generation, rank |-> r, kind |-> kind] : r \in 0 .. rank}

\* Every rank up to the one confirmed that was not paid in this generation, rank 0 included.
Due(u, track, rank, kind) == DueAgain(u, track, rank, kind) \ claims

RewardOf(c) == RewardForRank(c.track, c.rank, c.kind)
Rewarded(due) == [c \in CatalogIds |-> Total([d \in due |-> Lines(RewardOf(d).lines, c)])]
ClaimKey(d) == <<"huntpass", d>>
Minted(d) == {[id |-> <<d, c>>, catalog |-> c, kind |-> "stateless", version |-> 0] : c \in RewardOf(d).cosmetics}

\* A rank is recorded by the inventory only if it pays into it.
Recordable(due) == {d \in due : Minted(d) # {} \/ DOMAIN StackLines([items |-> RewardOf(d).lines]) # {}}

\* An entitlement comes with the first rank that grants it, unless one is held, even an ended one.
GrantedBy(name, due) ==
    CHOOSE d \in due : name \in DOMAIN RewardOf(d).grants /\ \A e \in due : name \in DOMAIN RewardOf(e).grants => d.rank <= e.rank

ClaimRanksUpTo(u, ch, track, rank, kind) ==
    LET due == Due(u, track, rank, kind)
        names == UNION {DOMAIN RewardOf(d).grants : d \in due} \ DOMAIN entitlements[u]
        minted == UNION {Minted(d) : d \in due}
    IN  /\ CharacterOf(u, ch)
        /\ kind = "premium" => HasPremiumForTrack(u, track)
        /\ claims' = claims \cup due
        /\ wallet' = WalletAfter(u, Empty, Rewarded(due))
        /\ stacks' = StacksAfter(ch, Empty, Rewarded(due))
        /\ Puttable(items[ch], minted, FALSE)
        /\ items' = [items EXCEPT ![ch] = With(@, minted)]
        /\ ledger' = [x \in DOMAIN ledger \cup {ClaimKey(d) : d \in Recordable(due)} |->
                        IF x \in DOMAIN ledger THEN ledger[x] ELSE [ch |-> ch, put |-> Minted(x[2])]]
        /\ entitlements' = [entitlements EXCEPT ![u] = [name \in DOMAIN @ \cup names |->
                        IF name \in names THEN [duration |-> RewardOf(GrantedBy(name, due)).grants[name], activatedAt |-> now]
                        ELSE @[name]]]
        /\ UNCHANGED revived

\* Confirms no more than was earned, and moves the cursor after the rewards.
ConfirmRank(u, ch, track, rank, kind) ==
    LET confirmable == Min({rank, Earned(u, track)}) IN
    /\ ClaimRanksUpTo(u, ch, track, confirmable, kind)
    /\ tracks' = [tracks EXCEPT ![u][track][kind] = Max({@, confirmable})]
    /\ UNCHANGED <<now, purchases, objectives, requests>>

\* Slip that breaks RewardsHonest: the ranks of a reset track stay paid.
SameGeneration(state) == [state EXCEPT !.points = 0, !.free = 0, !.premium = 0]

\* A new generation starts from nothing; what was paid stays on record.
NextGeneration(state) == [points |-> 0, generation |-> state.generation + 1, free |-> 0, premium |-> 0]

ResetTrack(u, track) ==
    /\ tracks[u][track].generation < MAX_GENERATION
    /\ tracks' = [tracks EXCEPT ![u][track] = NextGeneration(@)]
    /\ UNCHANGED <<now, inventoryVars, storeVars, objectives, requests, claims>>

ProgressionNext ==
    \/ \E a \in Awards : ApplyProgressAndObjectives(a)
    \/ \E u \in Users, ch \in Characters, t \in DOMAIN Tracks, kind \in Kinds :
        \E rank \in 0 .. Len(Tracks[t].costs) : ConfirmRank(u, ch, t, rank, kind)
    \/ \E u \in Users, t \in DOMAIN Tracks : ResetTrack(u, t)

---------------------------------------------------------------------------
\* What a snapshot of objectives proves: every completion and the steps since (an objective of
\* two steps).
Proven(u) ==
    Total([o \in DOMAIN objectives[u] |-> 2 * objectives[u][o].completed + objectives[u][o].value])

\* Native mastery grants carry snapshots and are repeated and delivered late: a mastery never
\* has more points than its objectives prove (ObjectivesAdvanced).
MasteryNotInflated ==
    \A u \in Users, t \in MasteryTracks : tracks[u][t].points <= Proven(u) * Multiplier[t]

\* The cursor and the payments agree in each generation: the ranks paid are exactly those up to
\* the rank confirmed, and none of them was unearned (ConfirmRank, ResetTrack).
PaidRanks(u, t, kind) ==
    {c.rank : c \in {d \in claims : /\ d.user = u /\ d.track = t /\ d.kind = kind
                                    /\ d.generation = tracks[u][t].generation}}
RewardsHonest ==
    \A u \in Users, t \in DOMAIN Tracks, kind \in Kinds :
        LET paid == PaidRanks(u, t, kind) IN
        /\ tracks[u][t][kind] <= Earned(u, t)
        /\ paid = 0 .. tracks[u][t][kind] \/ (paid = {} /\ tracks[u][t][kind] = 0)

\* Value moves as Settlement says: each transaction id, each purchase token and each rank of a
\* generation is settled at most once, whole, and within what is held.
RewardOrder(u, ch, t, generation, kind, ranks) ==
    LET ranked == {[user |-> u, track |-> t, generation |-> generation, rank |-> r, kind |-> kind] : r \in ranks}
    IN  [ids |-> {ClaimKey(c) : c \in ranked}, once |-> {},
         take |-> [s \in Value |-> 0], give |-> Gains(u, ch, Rewarded(ranked))]
RewardOrders ==
    UNION {LET n == Len(Tracks[t].costs) IN
           {RewardOrder(OwnerOf[ch], ch, t, g, kind, ranks) : ch \in Characters, g \in 0 .. MAX_GENERATION,
                kind \in Kinds, ranks \in {from .. to : from, to \in 0 .. n} \ {{}}} : t \in DOMAIN Tracks}

OrderBook == StoreOrders \cup RewardOrders

Abstract == INSTANCE Settlement WITH
    Slots <- Value, Strict <- Users \X Currencies, Orders <- OrderBook,
    holdings <- [s \in Value |-> IF s[1] \in Users THEN wallet[s[1]][s[2]] ELSE stacks[s[1]][s[2]]],
    settled <- Applied \cup Redeemed \cup {ClaimKey(c) : c \in claims}
Settles == Abstract!Spec
=============================================================================
