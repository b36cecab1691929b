----------------------------- MODULE Escalation -----------------------------
(***************************************************************************)
(* An account's escalation season (features/escalation): the world the     *)
(* player is in loads the season, levels it, spends talent points and      *)
(* collects rewards on its own copy, and posts the whole of it with a      *)
(* version it counts itself.  A post may be lost, repeated, or arrive when *)
(* the player is already in another world.                                 *)
(***************************************************************************)
EXTENDS Integers, FiniteSets, SequencesExt

CONSTANTS
    LevelCosts,     \* the experience each level costs
    Talents,        \* talent -> [gate: points to spend before it unlocks, costs: points per rank]
    UnlockLevel,    \* reward -> level it needs
    STUB_XP,        \* experience of the retired stub season
    MAX_POSTS, MAX_VERSION, MAX_XP      \* bounds on posts that arrive, versions, experience at the last level

ASSUME EscalationAssumption ==
    /\ LevelCosts \in Seq(Nat \ {0})
    /\ IsFiniteSet(DOMAIN Talents)
    /\ \A t \in DOMAIN Talents : Talents[t].gate \in Nat /\ Talents[t].costs \in Seq(Nat)
    /\ \A u \in DOMAIN UnlockLevel : UnlockLevel[u] \in Nat

VARIABLES
    season,         \* stored: [level, xp, ranks, collected, version]; version 0 is no row
    events,         \* version -> content accepted under it
    native,         \* the copy of the world the player is in
    posted          \* snapshots posted so far

escalationVars == <<season, events, native, posted>>

NewSeason == [level |-> 0, xp |-> 0, ranks |-> [t \in DOMAIN Talents |-> 0], collected |-> {}, version |-> 0]
MaxEscalationLevel == Len(LevelCosts)
ExperienceForNextLevel(level) == LevelCosts[level + 1]

TalentRankCost(t, rank) == FoldFunction(+, 0, [r \in 1 .. rank |-> Talents[t].costs[r]])
SpentOn(set, ranks) == FoldFunction(+, 0, [t \in set |-> TalentRankCost(t, ranks[t])])
Spent(ranks) == SpentOn(DOMAIN Talents, ranks)

\* Slip that breaks NativeAccepted: only talents without a gate count towards one.
SpentOnUngated(t, ranks) == SpentOn({o \in DOMAIN Talents : Talents[o].gate = 0}, ranks)

\* What opens a talent are the points in earlier tiers.
SpentBelow(t, ranks) == SpentOn({o \in DOMAIN Talents : Talents[o].gate < Talents[t].gate}, ranks)

\* A snapshot some native season can produce.
Acceptable(s) ==
    /\ s.level <= MaxEscalationLevel
    /\ s.level < MaxEscalationLevel => s.xp < ExperienceForNextLevel(s.level)
    /\ s.version >= 1
    /\ \A t \in DOMAIN Talents : s.ranks[t] <= Len(Talents[t].costs)
    /\ Spent(s.ranks) <= s.level
    /\ \A t \in DOMAIN Talents :
        s.ranks[t] > 0 /\ Talents[t].gate > 0 => SpentBelow(t, s.ranks) >= Talents[t].gate
    /\ \A u \in s.collected : s.level >= UnlockLevel[u]

Content(s) == <<s.level, s.xp, s.ranks, s.collected>>

Lowers(s, to) == to.level < s.level \/ (to.level = s.level /\ to.xp < s.xp)

\* Slip that breaks SeasonKept: a newer copy replaces what was collected.
IsNewer(s) == s.version > season.version /\ ~Lowers(season, s)

\* Replaces the season: newer, and without losing progress or a collection.
IsProgress(s) ==
    /\ IF season.version > 0 THEN s.version > season.version /\ ~Lowers(season, s)
       ELSE ~(s.level = MaxEscalationLevel /\ s.xp = STUB_XP)
    /\ season.collected \subseteq s.collected

---------------------------------------------------------------------------
EscalationInit ==
    /\ season = NewSeason
    /\ events = << >>
    /\ native = NewSeason
    /\ posted = {}

\* A used version is a retry or a conflict: either way nothing is written.
ApplyEscalationSnapshot(s) ==
    /\ Acceptable(s)
    /\ s.version \notin DOMAIN events
    /\ IsProgress(s)
    /\ season' = s
    /\ events' = (s.version :> Content(s)) @@ events
    /\ UNCHANGED <<native, posted>>

\* The player enters a world, which reads the stored season.
GetEscalationState ==
    /\ native' = season
    /\ UNCHANGED <<season, events, posted>>

GrantExperience ==
    /\ IF native.level = MaxEscalationLevel
       THEN native.xp < MAX_XP /\ native' = [native EXCEPT !.xp = @ + 1]
       ELSE IF native.xp + 1 = ExperienceForNextLevel(native.level)
       THEN native' = [native EXCEPT !.level = @ + 1, !.xp = 0]
       ELSE native' = [native EXCEPT !.xp = @ + 1]
    /\ UNCHANGED <<season, events, posted>>

\* The native rule: enough points spent anywhere, and a point per level to spend.
UpgradeTalent(t) ==
    /\ native.ranks[t] < Len(Talents[t].costs)
    /\ Spent(native.ranks) >= Talents[t].gate
    /\ Spent(native.ranks) + Talents[t].costs[native.ranks[t] + 1] <= native.level
    /\ native' = [native EXCEPT !.ranks[t] = @ + 1]
    /\ UNCHANGED <<season, events, posted>>

ResetTalents ==
    /\ native' = [native EXCEPT !.ranks = NewSeason.ranks]
    /\ UNCHANGED <<season, events, posted>>

CollectUnlock(u) ==
    /\ native.level >= UnlockLevel[u]
    /\ native' = [native EXCEPT !.collected = @ \cup {u}]
    /\ UNCHANGED <<season, events, posted>>

\* The world posts its copy; the post may be lost.
UpdateSeasonalEscalation ==
    /\ native.version < MAX_VERSION
    /\ native' = [native EXCEPT !.version = @ + 1]
    /\ \/ posted' = posted
       \/ Cardinality(posted) < MAX_POSTS /\ posted' = posted \cup {native'}
    /\ UNCHANGED <<season, events>>

EscalationNext ==
    \/ \E s \in posted : ApplyEscalationSnapshot(s)
    \/ GetEscalationState
    \/ GrantExperience
    \/ \E t \in DOMAIN Talents : UpgradeTalent(t)
    \/ ResetTalents
    \/ \E u \in DOMAIN UnlockLevel : CollectUnlock(u)
    \/ UpdateSeasonalEscalation

---------------------------------------------------------------------------
(* CanonicaliseSnapshot judges a season without its history: whatever a    *)
(* native season grew through, the rules accept what it would post next.   *)
NativeAccepted == Acceptable([native EXCEPT !.version = @ + 1])

(* ApplyEscalationSnapshot: under lost, repeated and late posts the season *)
(* only changes to a newer version under which nothing was stored before,  *)
(* with no less experience and everything collected so far.                *)
SeasonKept ==
    [][season' # season =>
        /\ season'.version > season.version /\ season'.version \notin DOMAIN events
        /\ ~Lowers(season, season')
        /\ season.collected \subseteq season'.collected]_escalationVars
=============================================================================
