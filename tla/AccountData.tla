---------------------------- MODULE AccountData ----------------------------
(***************************************************************************)
(* The data of an account that game servers and clients write through      *)
(* synchronous requests: value, progress, bounties, an escalation season   *)
(* and saves.  Bounties, escalation and saves share no table with anything *)
(* else, so their interleavings with the rest say nothing: a behaviour     *)
(* exercises one feature.  Rank rewards meet the store, which sells what   *)
(* opens the premium lane of a track, in the wallet, the inventory and the *)
(* entitlements.                                                           *)
(***************************************************************************)
EXTENDS Progression, Bounties, Escalation, CharacterSaves

VARIABLE feature        \* what this behaviour exercises

vars == <<feature, economyVars, progressionVars, bountyVars, escalationVars, saveVars>>

Init ==
    /\ feature \in {"value", "progress", "bounties", "escalation", "saves"}
    /\ StoreInit /\ ProgressionInit /\ BountyInit /\ EscalationInit /\ CharacterInit

SellsElite(sku) == \E t \in DOMAIN Tracks : Tracks[t].gate \in DOMAIN Offers[sku].grants

\* One purchase of what a premium lane asks for.
BuyElite ==
    \/ \E u \in Users, ch \in Characters, sku \in DOMAIN Offers :
        purchases = << >> /\ SellsElite(sku) /\ CreateFreePurchase(u, ch, sku)
    \/ \E t \in DOMAIN purchases : RedeemFreePurchase(t)

Trade ==
    /\ feature = "value" /\ StoreNext
    /\ UNCHANGED <<feature, progressionVars, bountyVars, escalationVars, saveVars>>

Progress ==
    /\ feature = "progress"
    /\ ProgressionNext \/ (BuyElite /\ UNCHANGED progressionVars)
    /\ UNCHANGED <<feature, bountyVars, escalationVars, saveVars>>

BountyBoard ==
    /\ feature = "bounties" /\ BountyNext
    /\ UNCHANGED <<feature, economyVars, progressionVars, escalationVars, saveVars>>

EscalationSeason ==
    /\ feature = "escalation" /\ EscalationNext
    /\ UNCHANGED <<feature, economyVars, progressionVars, bountyVars, saveVars>>

Saves ==
    /\ feature = "saves" /\ CharacterNext
    /\ UNCHANGED <<feature, economyVars, progressionVars, bountyVars, escalationVars>>

Next == Trade \/ Progress \/ BountyBoard \/ EscalationSeason \/ Saves

Spec == Init /\ [][Next]_vars

---------------------------------------------------------------------------
(* What theorems ask of the tables and of what game servers send *)

\* The transaction ids of game servers are their own.
OwnIds == \A t \in Transactions : \A x : t.tx # <<"store", x>> /\ t.tx # ClaimKey(x)

\* Game servers do not take an item and write it in one transaction.
TakenForGood ==
    \A t \in Transactions : \A x \in t.drop, y \in t.put \cup t.save : x.id # y.id

\* A catalog id is held in stacks or in instances.
InstancedOrStacked ==
    /\ \A t \in Transactions : \A x \in t.put \cup t.save : x.catalog \notin Stackables
    /\ \A w \in ItemUpdates : w.item.catalog \notin Stackables
    /\ \A sku \in DOMAIN Offers : Offers[sku].cosmetics \cap Stackables = {}
    /\ \A t \in DOMAIN Tracks, kind \in Kinds : \A rank \in DOMAIN Tracks[t][kind] :
        Tracks[t][kind][rank].cosmetics \cap Stackables = {}

\* What is charged for sells stacks or other currencies, bundles and repeatables always some.
SellsSomething ==
    \A sku \in DOMAIN Offers : LET o == Offers[sku] IN o.price > 0 =>
        /\ \A c \in DOMAIN o.items :
            c \in Stackables \/ (IsCurrency(c) /\ Canonical[c] # o.currency /\ Units[c] > 0)
        /\ o.kind = "unlock" \/ DOMAIN o.items # {}

\* An instance the metagame mints is named after its catalog id, and sent back under both.
MintedAsNamed ==
    /\ \A t \in Transactions : \A x \in t.put \cup t.save : \A p, c : x.id = <<p, c>> => x.catalog = c
    /\ \A w \in ItemUpdates : \A p, c : w.item.id = <<p, c>> => w.item.catalog = c

\* No rank grants for a term what an offer grants for good.
SoldForGood(name) == \E sku \in DOMAIN Offers : name \in DOMAIN Offers[sku].grants /\ Offers[sku].grants[name] = 0
GoodForGood ==
    \A t \in DOMAIN Tracks, kind \in Kinds : \A rank \in DOMAIN Tracks[t][kind] :
        LET grants == Tracks[t][kind][rank].grants IN
        \A name \in DOMAIN grants : SoldForGood(name) => grants[name] = 0

\* A mastery grant is one point, with a snapshot of the objectives that earned it; an objective
\* has two steps.
GrantsCarryEvidence ==
    \A a \in Awards :
        /\ \A o \in DOMAIN a.objectives : a.objectives[o].value <= 1
        /\ \A t \in MasteryTracks \cap DOMAIN a.tracks : a.tracks[t] <= 1 /\ DOMAIN a.objectives # {}

\* Posts of the game servers: a season challenge carries the stamp it was served with, and of the
\* bounties of a post only the first may be undated.
IsSeasonal(e) == KindOf[e.id] = "challenge"
StampedChallenges ==
    \A post \in Posts : \A i \in DOMAIN post.entries :
        IsSeasonal(post.entries[i]) => post.entries[i].drafted = NativeSeasonWeekStart
UndatedFirst ==
    \A post \in Posts : \A i \in DOMAIN post.entries : post.entries[i].drafted = 0 => i = 1

\* Fusion tokens that updates carry are at version zero, as game servers leave them.
UpdatesAtZero == \A w \in ItemUpdates : IsFusion(w.item) => w.item.version = 0
=============================================================================
