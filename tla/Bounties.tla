------------------------------ MODULE Bounties ------------------------------
(***************************************************************************)
(* The bounty board of an account (features/challenges): the game servers  *)
(* post the bounties they changed, each with the time it was drafted (its  *)
(* generation) and a version counter, in any order and more than once; the *)
(* board also holds the day's challenge and the season challenges that the *)
(* metagame draws for each week.                                           *)
(***************************************************************************)
EXTENDS Integers, FiniteSets, SequencesExt

CONSTANTS
    KindOf,         \* bounty id -> "drafted", "daily" or "challenge"
    Posts,          \* updates of game servers: [entries, reset]
    Abandoned,      \* bounty ids a player may abandon
    DAILY_RESET, WEEKLY_RESET,      \* ticks between two daily and two weekly resets
    SelectWeekly,   \* for each week, the season challenges drawn, in the order of their slots
    LAST_TICK       \* bound on time

\* What a post may hold of a bounty: drafted 0 is undated, version -1 none.
Entry == [id : DOMAIN KindOf, slot : Nat, drafted : Nat, version : Nat \cup {-1}, claimed : BOOLEAN]

ASSUME BountyAssumption ==
    /\ DAILY_RESET \in Nat \ {0} /\ WEEKLY_RESET \in Nat \ {0, 1}
    /\ LAST_TICK \in Nat /\ LAST_TICK >= WEEKLY_RESET
    /\ \A id \in Abandoned : KindOf[id] # "challenge"
    /\ \A post \in Posts : post.entries \in Seq(Entry)
    /\ \A week \in 0 .. LAST_TICK \div WEEKLY_RESET :
        /\ SelectWeekly[week] \in Seq({id \in DOMAIN KindOf : KindOf[id] = "challenge"})
        /\ IsInjective(SelectWeekly[week])

VARIABLES
    tick,       \* time
    board,      \* stored bounties, of Entry
    window,     \* the week the stored season challenges were drawn for
    retired     \* id -> draft time of the latest generation that is over (0: none)

bountyVars == <<tick, board, window, retired>>

Start(length) == (tick \div length) * length

\* The stamp of every season challenge, whatever its week: long ago.
NativeSeasonWeekStart == 1

Displaces(new, old) ==
    \/ new.id = old.id
    \/ KindOf[new.id] # "challenge" /\ KindOf[new.id] = KindOf[old.id] /\ new.slot = old.slot

LaterDraft(new, old) == old.drafted > 0 /\ new.drafted > old.drafted

\* A later draft is a new generation; within one, the version must grow.
CanReplace(new, old) ==
    \/ new.drafted > old.drafted
    \/ /\ new.drafted = old.drafted
       /\ IF new.id = old.id THEN old.version >= 0 => new.version > old.version ELSE old.drafted = 0

\* Slip that breaks BoardSound: the generation that was retired itself comes back.
IsOlderThanRetired(e, over) == e.drafted < over[e.id]

\* A generation that is over is never taken back.
IsRetired(e, over) == e.drafted <= over[e.id] /\ over[e.id] > 0

Retire(over, entries) ==
    [id \in DOMAIN over |->
        LET times == {over[id]} \cup {e.drafted : e \in {f \in entries : f.id = id}}
        IN  CHOOSE t \in times : \A s \in times : s <= t]

\* Slip that breaks GenerationsFinal: an update of a claimed bounty makes it claimable again.
MergedAsSent(e, matches) == e

\* A claimed generation stays claimed.
MergedEntry(e, matches) ==
    [e EXCEPT !.claimed = @ \/ \E old \in matches : old.id = e.id /\ old.claimed /\ ~LaterDraft(e, old)]

MergeEntry(state, e) ==
    LET matches == {old \in state.kept : Displaces(e, old)}
        over == {old \in matches : old.id # e.id \/ LaterDraft(e, old)}
    IN  IF IsRetired(e, state.retired) \/ \E old \in matches : ~CanReplace(e, old) THEN state
        ELSE [kept |-> (state.kept \ matches) \cup {MergedEntry(e, matches)}, retired |-> Retire(state.retired, over)]

\* A post without entries reports nothing new, unless it announces a reset of the drafted board.
MergeBounties(stored, post) ==
    LET drafted == {e \in stored : KindOf[e.id] = "drafted"}
    IN  IF post.reset THEN [kept |-> stored \ drafted, retired |-> Retire(retired, drafted)]
        ELSE FoldLeft(MergeEntry, [kept |-> stored, retired |-> retired], post.entries)

\* The challenges of the week, with the progress made on them in this very week.
ApplyWeekly(entries, drawnFor) ==
    LET current(e) == drawnFor = Start(WEEKLY_RESET) \/ e.drafted \in Start(WEEKLY_RESET) .. Start(WEEKLY_RESET) + WEEKLY_RESET - 1
        selected == SelectWeekly[tick \div WEEKLY_RESET]
        row(slot) ==
            LET kept == {e \in entries : e.id = selected[slot] /\ current(e)}
            IN  IF kept = {} THEN {[id |-> selected[slot], slot |-> slot, drafted |-> NativeSeasonWeekStart,
                                    version |-> 0, claimed |-> FALSE]}
                ELSE {[e EXCEPT !.slot = slot, !.drafted = NativeSeasonWeekStart] : e \in kept}
    IN  {e \in entries : KindOf[e.id] # "challenge"} \cup UNION {row(slot) : slot \in DOMAIN selected}

WithoutExpiredDaily(entries) ==
    {e \in entries : KindOf[e.id] = "daily" /\ e.drafted > 0 => e.drafted >= Start(DAILY_RESET)}

\* The board as it is shown.
GetBounties == ApplyWeekly(WithoutExpiredDaily(board), window)

---------------------------------------------------------------------------
BountyInit ==
    /\ tick = WEEKLY_RESET
    /\ board = {}
    /\ window = -1
    /\ retired = [id \in DOMAIN KindOf |-> 0]

\* What a game server posts was drafted before.
SaveBounties(post) ==
    LET merged == MergeBounties(GetBounties, post) IN
    /\ \A i \in DOMAIN post.entries : post.entries[i].drafted <= tick
    /\ board' = ApplyWeekly(merged.kept, Start(WEEKLY_RESET))
    /\ window' = Start(WEEKLY_RESET)
    /\ retired' = merged.retired
    /\ UNCHANGED tick

RemoveBounties(id) ==
    LET gone == {e \in GetBounties : e.id = id} IN
    /\ window >= 0
    /\ board' = GetBounties \ gone
    /\ window' = Start(WEEKLY_RESET)
    /\ retired' = Retire(retired, gone)
    /\ UNCHANGED tick

BountyTick ==
    /\ tick < LAST_TICK
    /\ tick' = tick + 1
    /\ UNCHANGED <<board, window, retired>>

BountyNext ==
    \/ \E post \in Posts : SaveBounties(post)
    \/ \E id \in Abandoned : RemoveBounties(id)
    \/ BountyTick

---------------------------------------------------------------------------
(* MergeBounties and its read: whatever order posts arrive in, the board   *)
(* shows an id once, one bounty in a slot of a kind, exactly the season    *)
(* challenges of the week, and no generation that was replaced, reset or   *)
(* abandoned.                                                              *)
BoardSound ==
    LET challenges == {e \in GetBounties : KindOf[e.id] = "challenge"} IN
    /\ \A e, f \in GetBounties : e # f => ~Displaces(e, f)
    /\ {e.id : e \in challenges} = Range(SelectWeekly[tick \div WEEKLY_RESET])
    /\ \A e \in GetBounties \ challenges : e.drafted > 0 => e.drafted > retired[e.id]

(* CanReplace and Retire: a bounty on the board never falls back to an     *)
(* earlier draft or version and never becomes claimable again (a season    *)
(* challenge: within its week), and a drafted one that leaves is over for  *)
(* good.                                                                   *)
GenerationsFinal ==
    [][<<tick, board>>' # <<tick, board>> =>
        LET old == GetBounties
            new == GetBounties'
            sameWeek == Start(WEEKLY_RESET)' = Start(WEEKLY_RESET)
        IN  /\ \A e \in old, f \in new : e.id = f.id /\ (KindOf[e.id] = "challenge" => sameWeek) =>
                /\ f.drafted >= e.drafted
                /\ f.drafted = e.drafted => f.version >= e.version /\ (e.claimed => f.claimed)
            /\ \A e \in old : KindOf[e.id] = "drafted" /\ e.drafted > 0 =>
                e.drafted <= retired'[e.id] \/ \E f \in new : f.id = e.id]_bountyVars
=============================================================================
