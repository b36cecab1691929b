----------------------------- MODULE SlayerLinks -----------------------------
(***************************************************************************)
(* Slayer Links of the metagame (features/slayerLinks/slayerLinks.ts): an  *)
(* invitation reserves a slot of its sender; accepting it forms a link     *)
(* that both accounts list in a slot of their own until each releases its  *)
(* side; hunting together advances the link, the game server stores one    *)
(* prize pool per side and, once the link has ended, collects what the     *)
(* link's rank has earned with an inventory transaction of its own.        *)
(*                                                                         *)
(* The wall clock is two counters: invitations all last INVITE_EXPIRY_HOURS *)
(* and links LINK_DURATION_HOURS, so each kind runs out in the order it    *)
(* was made, and an invitation older than a link runs out before it.       *)
(***************************************************************************)
EXTENDS Naturals, Sequences, FiniteSets, Functions

CONSTANTS
    Players,            \* account ids
    Slots,              \* 1 to LINK_SLOTS (3) in the code
    LINK_RANK_COSTS,    \* a sequence; <<5, 400, 800, 1600>> in the code
    MAX_POINTS,         \* 2147483647 in the code
    Pools,              \* what the generator may roll: functions from some ranks to catalog ids
    Catalog,            \* catalog ids of prizes
    Events,             \* Hunt Pass awards, each of one point
    Asks,               \* who may invite whom into which slot, in this instance
    Collectors,         \* who is awarded points and prizes, in this instance
    MAX_INVITES,        \* bound on invitations ever sent
    MAX_PARTINGS,       \* bound on friendships that end
    MAX_GRANTS          \* bound on grant transactions ever composed

ASSUME LinkAssumption ==
    /\ LINK_RANK_COSTS \in Seq(Nat \ {0})
    /\ MAX_POINTS \in Nat
    /\ Asks \subseteq Players \X Players \X Slots
    /\ Collectors \subseteq Players
    /\ \A p \in Pools :          \* NormalisePool refuses other levels and prizes
        DOMAIN p \subseteq DOMAIN LINK_RANK_COSTS /\ \A r \in DOMAIN p : p[r] \in Catalog

VARIABLES
    invites,     \* slayerlinkinvites, in rowid order
    expired,     \* how many of them are past expiresAt
    links,       \* slayerlinks, by linkId (the id of the invitation accepted)
    ended,       \* how many links, in the order they were formed, are past endsAt
    pools,       \* slayerlinkpools, by linkId and userId
    served,      \* per account: its links by servedAt, the latest last
    xp,          \* slayerlinkxp: award, link
    friendly,    \* pairs of accounts that are friends both ways and not blocked
    grants,      \* grant transactions the game servers composed from an answer
    ledger,      \* inventorytransactions: ids applied
    stash        \* per account: what its inventory and wallet hold of each catalog id

linkVars == <<links, ended, pools, served, xp>>
vars == <<invites, expired, links, ended, pools, served, xp, friendly, grants, ledger, stash>>

Pair(a, b) == {a, b}
AllPairs == {Pair(a, b) : a, b \in Players} \ {{a} : a \in Players}

Init ==
    /\ invites = << >> /\ expired = 0
    /\ links = << >> /\ ended = 0
    /\ pools = << >>
    /\ served = [a \in Players |-> << >>]
    /\ xp = {}
    /\ friendly = AllPairs
    /\ grants = << >>
    /\ ledger = {}
    /\ stash = [a \in Players |-> [c \in Catalog |-> 0]]

---------------------------------------------------------------------------
(* Reads of the tables *)

Total(f) == FoldFunction(+, 0, f)

\* Ranks whose costs, added up, the points have paid.
DeriveLinkRank(points) ==
    Cardinality({r \in DOMAIN LINK_RANK_COSTS : Total(SubSeq(LINK_RANK_COSTS, 1, r)) <= points})

LinksFor(a)    == {l \in DOMAIN links : a \in DOMAIN links[l].slot}
PartnerOf(l, a) == CHOOSE b \in DOMAIN links[l].slot : b # a
HasEnded(l)    == links[l].born <= ended
IsEarning(l)   == ~links[l].canceled /\ ~HasEnded(l)
Occupies(l, a) == ~links[l].canceled /\ a \in DOMAIN links[l].slot /\ a \notin links[l].released

ListedLinks(a) == {l \in DOMAIN links : Occupies(l, a)}
ResolveSide(a, s) == {l \in DOMAIN links : Occupies(l, a) /\ links[l].slot[a] = s}

LinkedTo(a, b) ==
    \E l \in DOMAIN links : DOMAIN links[l].slot = Pair(a, b) /\ (Occupies(l, a) \/ Occupies(l, b))

Pending(i) == i > expired /\ invites[i].status = "PENDING"

ReservedSlot(a, s, except) ==
    \E i \in DOMAIN invites :
        i # except /\ Pending(i) /\ invites[i].sender = a /\ invites[i].slot = s

\* Slip that breaks SlotsExclusive: the recipient's free slots forget the invitations it has sent.
FreeSlotsUnreserved(a) == {s \in Slots : ResolveSide(a, s) = {}}

FreeSlots(a) == {s \in Slots : ResolveSide(a, s) = {} /\ ~ReservedSlot(a, s, 0)}

PendingBetween(a, b) ==
    {i \in DOMAIN invites :
        Pending(i) /\ Pair(invites[i].sender, invites[i].target) = Pair(a, b)}

Friend(a, b) == Pair(a, b) \in friendly

HasPool(l, a) == <<l, a>> \in DOMAIN pools
Claimed(l, a) == HasPool(l, a) /\ pools[<<l, a>>].tx # 0

\* What a side has earned: per catalog id, the prizes of the ranks the link reached.
EarnedRewards(l, a) ==
    [c \in Catalog |->
        IF HasPool(l, a)
        THEN Cardinality({r \in DOMAIN pools[<<l, a>>].pool :
                            pools[<<l, a>>].pool[r] = c /\ r <= DeriveLinkRank(links[l].progress)})
        ELSE 0]
Nothing == [c \in Catalog |-> 0]

---------------------------------------------------------------------------
(* Lists the client polls *)

\* ListInvites: the newest row of each partner and of each own slot, unless the slot is another link's.
NoticeRows(a) == {i \in DOMAIN invites : a \in {invites[i].sender, invites[i].target}}
Other(i, a)   == IF invites[i].sender = a THEN invites[i].target ELSE invites[i].sender
Newest(i, a)  == \A j \in NoticeRows(a) : Other(j, a) = Other(i, a) => j <= i
\* Slip that breaks NoticeShown: historical notices are listed whatever the slot holds now.
KeptHistory(i, a) ==
    Newest(i, a) /\ i > expired /\ (invites[i].status = "PENDING" \/ invites[i].sender = a)

Kept(i, a) ==
    /\ Newest(i, a) /\ i > expired
    /\ invites[i].status = "PENDING" \/ invites[i].sender = a
    /\ invites[i].sender = a =>
         \A l \in ListedLinks(a) : links[l].slot[a] = invites[i].slot => l = i
ListInvites(a) ==
    {i \in NoticeRows(a) :
        /\ Kept(i, a)
        /\ invites[i].sender = a =>
             \A j \in NoticeRows(a) :
                (j > i /\ Kept(j, a) /\ invites[j].sender = a) => invites[j].slot # invites[i].slot}
NoticeStatus(i, a) ==
    IF invites[i].status = "ACCEPTED" /\ i \notin ListedLinks(a) THEN "CANCELED" ELSE invites[i].status

\* Slip that breaks AvailabilityHonest: only links are looked at, not the invitations between the two.
AvailabilityByLinks(a, b) ==
    b # a /\ ~LinkedTo(a, b) /\ Friend(a, b) /\ FreeSlots(a) # {} /\ FreeSlots(b) # {}

ListAvailability(a, b) ==
    /\ b # a /\ ~LinkedTo(a, b) /\ Friend(a, b)
    /\ PendingBetween(a, b) = {}
    /\ FreeSlots(a) # {} /\ FreeSlots(b) # {}

---------------------------------------------------------------------------
(* Invitations *)

\* An identical live invitation is answered with its id, without a second row.
MayInvite(a, b, s) ==
    /\ a # b /\ Friend(a, b)
    /\ ResolveSide(a, s) = {} /\ ~LinkedTo(a, b)
    /\ PendingBetween(a, b) = {}
    /\ ~ReservedSlot(a, s, 0)
    /\ FreeSlots(b) # {}

Invite(a, b, s) ==
    /\ Len(invites) < MAX_INVITES
    /\ MayInvite(a, b, s)
    /\ invites' = Append(invites, [sender |-> a, target |-> b, slot |-> s, status |-> "PENDING"])
    /\ UNCHANGED <<expired, linkVars, friendly, grants, ledger, stash>>

\* The recipient's slot is the one it chose or, when it names none, the first free one.
Accept(i, s) ==
    LET row  == invites[i]
        both == Pair(row.sender, row.target)
        new  == [slot |-> [a \in both |-> IF a = row.sender THEN row.slot ELSE s],
                 born |-> Cardinality(DOMAIN links) + 1, since |-> Len(invites),
                 canceled |-> FALSE, progress |-> 0, released |-> {},
                 confirmed |-> [a \in both |-> 0]] IN
    /\ Pending(i)
    /\ Friend(row.sender, row.target)
    /\ ResolveSide(row.sender, row.slot) = {}
    /\ ~ReservedSlot(row.sender, row.slot, i)
    /\ ~LinkedTo(row.sender, row.target)
    /\ s \in FreeSlots(row.target)
    /\ links' = [l \in DOMAIN links \cup {i} |-> IF l = i THEN new ELSE links[l]]
    /\ invites' = [invites EXCEPT ![i].status = "ACCEPTED"]
    /\ UNCHANGED <<expired, ended, pools, served, xp, friendly, grants, ledger, stash>>

\* Rejected by its target or cancelled by its sender: either way it is no longer pending.
Decline(i) ==
    /\ Pending(i)
    /\ invites' = [invites EXCEPT ![i].status = "CANCELED"]
    /\ UNCHANGED <<expired, linkVars, friendly, grants, ledger, stash>>

ExpireInvite ==
    /\ expired < Len(invites)
    /\ expired' = expired + 1
    /\ UNCHANGED <<invites, linkVars, friendly, grants, ledger, stash>>

\* A friendship ended, or one of the two blocked, while invitations and links stand (Friends.tla).
Part(pair) ==
    /\ Cardinality(AllPairs \ friendly) < MAX_PARTINGS
    /\ friendly' = friendly \ {pair}
    /\ UNCHANGED <<invites, expired, linkVars, grants, ledger, stash>>

---------------------------------------------------------------------------
(* Links *)

EndLink ==
    /\ \E l \in DOMAIN links : links[l].born = ended + 1 /\ links[l].since <= expired
    /\ ended' = ended + 1
    /\ UNCHANGED <<invites, expired, links, pools, served, xp, friendly, grants, ledger, stash>>

\* Before the end, a link without XP is cancelled for both; after it, one side is released.
CancelLink(a, s) ==
    \E l \in ResolveSide(a, s) :
        /\ ~HasEnded(l) /\ links[l].progress = 0
        /\ links' = [links EXCEPT ![l].canceled = TRUE]
        /\ invites' = [invites EXCEPT ![l].status = "CANCELED"]
        /\ UNCHANGED <<expired, ended, pools, served, xp, friendly, grants, ledger, stash>>

\* Slip that breaks NothingForfeited: a side without a pool counts as one that earned nothing.
CollectedUnknown(l, a) == Claimed(l, a) \/ EarnedRewards(l, a) = Nothing

Collected(l, a) ==
    /\ HasPool(l, a) \/ DeriveLinkRank(links[l].progress) = 0
    /\ Claimed(l, a) \/ EarnedRewards(l, a) = Nothing

ReleaseSide(a, s) ==
    \E l \in ResolveSide(a, s) :
        /\ HasEnded(l)
        /\ Collected(l, a)
        /\ links' = [links EXCEPT ![l].released = @ \cup {a}]
        /\ UNCHANGED <<invites, expired, ended, pools, served, xp, friendly, grants, ledger, stash>>

\* Slip that breaks XpCountedOnce: the award is not looked up in slayerlinkxp.
CreditedAgain(a, e, partners) == {l \in LinksFor(a) : IsEarning(l) /\ PartnerOf(l, a) \in partners}

\* A Hunt Pass award to one account counts for its links with the partners online in its party.
Credited(a, e, partners) ==
    {l \in LinksFor(a) : IsEarning(l) /\ PartnerOf(l, a) \in partners /\ <<e, l>> \notin xp}

ApplyHuntPassXpToLinks(a, e, partners) ==
    LET these == Credited(a, e, partners) IN
    /\ these # {}
    /\ \A l \in these : links[l].progress + 1 <= MAX_POINTS
    /\ links' = [l \in DOMAIN links |->
                    IF l \in these THEN [links[l] EXCEPT !.progress = @ + 1] ELSE links[l]]
    /\ xp' = xp \cup {<<e, l>> : l \in these}
    /\ UNCHANGED <<invites, expired, ended, pools, served, friendly, grants, ledger, stash>>

ConfirmLinkTrackRank(a, s) ==
    \E l \in ResolveSide(a, s), rank \in 1 .. Len(LINK_RANK_COSTS) + 1 :
        LET reached == DeriveLinkRank(links[l].progress)
            next == IF rank < reached THEN rank ELSE reached
        IN  /\ next > links[l].confirmed[a]
            /\ links' = [links EXCEPT ![l].confirmed[a] = next]
            /\ UNCHANGED <<invites, expired, ended, pools, served, xp, friendly, grants, ledger, stash>>

---------------------------------------------------------------------------
(* Prize pools and their collection *)

\* The first pool stored for a side stays; the same one again is accepted, another refused.
StoreRewardPools(a, s, p) ==
    \E l \in ResolveSide(a, s) :
        /\ ~HasPool(l, a)
        /\ pools' = [k \in DOMAIN pools \cup {<<l, a>>} |->
                        IF k \in DOMAIN pools THEN pools[k] ELSE [pool |-> p, tx |-> 0]]
        /\ UNCHANGED <<invites, expired, links, ended, served, xp, friendly, grants, ledger, stash>>

\* servedAt of a link is set to now: of the account's links it was served last.
ServedLast(s, l) ==
    LET before == {n \in DOMAIN s : s[n] = l}
        n == CHOOSE n \in before : TRUE
    IN  Append(IF before = {} THEN s ELSE SubSeq(s, 1, n - 1) \o SubSeq(s, n + 1, Len(s)), l)

\* A game server reads the rewards of an ended link and composes the grant under a fresh id.
GetRewardGrant(a, s) ==
    \E l \in ResolveSide(a, s) :
        /\ HasEnded(l)
        /\ HasPool(l, a) /\ ~Claimed(l, a)
        /\ served' = [served EXCEPT ![a] = ServedLast(@, l)]
        /\ IF EarnedRewards(l, a) = Nothing
           THEN UNCHANGED grants
           ELSE /\ Len(grants) < MAX_GRANTS
                /\ grants' = Append(grants, [account |-> a, items |-> EarnedRewards(l, a)])
        /\ UNCHANGED <<invites, expired, links, ended, pools, xp, friendly, ledger, stash>>

Candidates(a) == {l \in LinksFor(a) : ~links[l].canceled /\ HasEnded(l) /\ HasPool(l, a)}

\* Applied under the same id again, an inventory transaction is answered from the ledger.
ApplyInventoryTransaction(a, tx, items) ==
    /\ ledger' = ledger \cup {tx}
    /\ stash' = IF tx \in ledger THEN stash
                ELSE [stash EXCEPT ![a] = [c \in Catalog |-> @[c] + items[c]]]

\* The claim goes to the side served last among those whose rewards these are; 0 when none.
ClaimedBy(a, tx, items) ==
    LET these == {n \in DOMAIN served[a] :
                    LET l == served[a][n] IN
                    l \in Candidates(a) /\ ~Claimed(l, a) /\ a \notin links[l].released
                    /\ EarnedRewards(l, a) = items}
    IN  IF these = {} THEN 0 ELSE served[a][CHOOSE n \in these : \A m \in these : m <= n]

\* Slip that breaks GrantedIsEarned: a repeated transaction is not looked up among the claims first.
GrantUnreplayed(tx) ==
    LET a == grants[tx].account
        l == ClaimedBy(a, tx, grants[tx].items)
    IN  /\ l # 0
        /\ ApplyInventoryTransaction(a, tx, grants[tx].items)
        /\ pools' = [pools EXCEPT ![<<l, a>>].tx = tx]
        /\ UNCHANGED <<invites, expired, links, ended, served, xp, friendly, grants>>

\* A grant may arrive late, twice, or never. The same id again finds its own claim first.
ApplyLinkRewardGrant(tx) ==
    LET a == grants[tx].account
        l == ClaimedBy(a, tx, grants[tx].items)
    IN  /\ ~\E m \in Candidates(a) : pools[<<m, a>>].tx = tx
        /\ l # 0
        /\ ApplyInventoryTransaction(a, tx, grants[tx].items)
        /\ pools' = [pools EXCEPT ![<<l, a>>].tx = tx]
        /\ UNCHANGED <<invites, expired, links, ended, served, xp, friendly, grants>>

---------------------------------------------------------------------------
Next ==
    \/ \E ask \in Asks : Invite(ask[1], ask[2], ask[3])
    \/ \E i \in DOMAIN invites, s \in Slots : Accept(i, s)
    \/ \E i \in DOMAIN invites : Decline(i)
    \/ \E pair \in friendly : Part(pair)
    \/ \E a \in Players, s \in Slots : CancelLink(a, s) \/ ReleaseSide(a, s)
    \/ \E a \in Collectors, s \in Slots :
        \/ ConfirmLinkTrackRank(a, s)
        \/ GetRewardGrant(a, s)
        \/ \E p \in Pools : StoreRewardPools(a, s, p)
    \/ \E a \in Collectors : \E partners \in SUBSET {PartnerOf(l, a) : l \in LinksFor(a)}, e \in Events :
        ApplyHuntPassXpToLinks(a, e, partners)
    \/ \E tx \in DOMAIN grants : ApplyLinkRewardGrant(tx)
    \/ ExpireInvite
    \/ EndLink

Spec == Init /\ [][Next]_vars

---------------------------------------------------------------------------
(* Safety *)

Invitation == [sender : Players, target : Players, slot : Slots,
               status : {"PENDING", "ACCEPTED", "CANCELED"}]
LinkFor(row) == LET both == Pair(row.sender, row.target) IN
    [slot : [both -> Slots], born : Nat, since : Nat, canceled : BOOLEAN,
     progress : Nat, released : SUBSET Players, confirmed : [both -> Nat]]

\* Every table holds what its operations write; a link stands on an answered invitation.
TypeOK ==
    /\ invites \in Seq(Invitation)
    /\ expired \in 0 .. Len(invites)
    /\ \A i \in DOMAIN invites : invites[i].sender # invites[i].target
    /\ DOMAIN links \subseteq DOMAIN invites
    /\ \A l \in DOMAIN links : invites[l].status # "PENDING" /\ links[l] \in LinkFor(invites[l])

\* Native requests name a link by account and slot, so an account lists at most one link in a
\* slot and at most one with a partner; a live invitation keeps its sender's slot to itself, and
\* is the only one between its two accounts, who are not linked (ResolveSide, ReservedSlot,
\* LinkedTo and the checks of Invite and AnswerInvite).
SlotsExclusive ==
    /\ \A a \in Players : \A l, m \in ListedLinks(a) :
        (links[l].slot[a] = links[m].slot[a] \/ DOMAIN links[l].slot = DOMAIN links[m].slot) => l = m
    /\ \A i \in DOMAIN invites : Pending(i) =>
        /\ ResolveSide(invites[i].sender, invites[i].slot) = {}
        /\ ~ReservedSlot(invites[i].sender, invites[i].slot, i)
        /\ PendingBetween(invites[i].sender, invites[i].target) = {i}
        /\ ~LinkedTo(invites[i].sender, invites[i].target)

\* The friend chooser offers an account exactly when an invitation to it, from some slot, would
\* be taken: ListAvailability and Invite repeat the same conditions in two places.
AvailabilityHonest ==
    \A a, b \in Players : a # b =>
        (ListAvailability(a, b) <=> \E s \in Slots : MayInvite(a, b, s))

\* An inviter's client learns of an acceptance from ListInvites alone: until the invitation
\* would have run out, a link its sender lists is in that list as accepted, in its slot, and
\* nothing listed as declined or cancelled names the slot of a link the account lists.
NoticeShown ==
    \A a \in Players : \A l \in ListedLinks(a) :
        /\ (invites[l].sender = a /\ l > expired) =>
              l \in ListInvites(a) /\ NoticeStatus(l, a) = "ACCEPTED"
        /\ \A i \in ListInvites(a) :
              (invites[i].sender = a /\ invites[i].slot = links[l].slot[a]) =>
                 NoticeStatus(i, a) = "ACCEPTED"

\* What collection put into an account's inventory and wallet is exactly what its claimed sides
\* have earned, however often a grant was read, composed, repeated, delayed or lost, and with
\* two links that earned the same (GetRewardGrant, ApplyLinkRewardGrant).
GrantedIsEarned ==
    \A a \in Players, c \in Catalog :
        stash[a][c] = Total([l \in {m \in LinksFor(a) : Claimed(m, a)} |-> EarnedRewards(l, a)[c]])

\* No earned reward is forfeited: a side is released only when its pool is known and what it
\* earned is claimed, and a cancelled link had earned nothing (DeleteSide).
NothingForfeited ==
    \A l \in DOMAIN links :
        /\ links[l].canceled => links[l].progress = 0
        /\ \A a \in links[l].released :
            /\ HasEnded(l)
            /\ DeriveLinkRank(links[l].progress) > 0 => HasPool(l, a)
            /\ EarnedRewards(l, a) # Nothing => Claimed(l, a)

\* An award counts at most once for a link, however often it is replayed, and no celebration is
\* confirmed beyond the chests reached (ApplyHuntPassXpToLinks, ConfirmLinkTrackRank).
XpCountedOnce ==
    \A l \in DOMAIN links :
        /\ links[l].progress = Cardinality({e \in Events : <<e, l>> \in xp})
        /\ \A a \in DOMAIN links[l].confirmed :
            links[l].confirmed[a] <= DeriveLinkRank(links[l].progress)
=============================================================================
