--------------------------- MODULE CharacterSaves ---------------------------
(***************************************************************************)
(* What is saved for one character and its account without being earned:   *)
(* the character itself, its player journey, breadcrumbs, encountered      *)
(* content, loadouts and cooldowns.  Clients and game servers send whole   *)
(* snapshots or single entries, repeat them, and deliver them late; a save *)
(* that is refused or ignored changes nothing and is no step.              *)
(***************************************************************************)
EXTENDS Integers, Sequences, SequencesExt

CONSTANTS
    Journeys, Crumbs,       \* snapshots that are sent: [version, content]
    Encounters,             \* [category, content]
    LoadoutData,            \* what a loadout slot is set to
    CharacterData,          \* saves of the character: [version, facts]
    Cooldowns,              \* [id, started]
    NoRow, DefaultSlot,
    Returning,              \* facts a returning player's character is given (none if FTUE is played)
    MAX_LOADOUT_SLOTS

\* Versions are counters, and NoRow is what a read finds before the first save.
ASSUME SavesAssumption ==
    /\ MAX_LOADOUT_SLOTS \in Nat \ {0}
    /\ \A s \in Journeys \cup CharacterData : s.version \in Int
    /\ NoRow \notin Journeys \cup Crumbs

VARIABLES journey, breadcrumbs, encountered, loadout, character, cooldowns

saveVars == <<journey, breadcrumbs, encountered, loadout, character, cooldowns>>

CharacterInit ==
    /\ journey = NoRow
    /\ breadcrumbs = NoRow
    /\ encountered = << >>
    /\ loadout = NoRow
    /\ character = NoRow
    /\ cooldowns = << >>

---------------------------------------------------------------------------
(* Snapshots with a version *)

\* An equal version is a retry, an older one is late: both are answered with what is stored.
PostPlayerJourney(s) ==
    /\ journey # NoRow => journey.version < s.version
    /\ journey' = s
    /\ UNCHANGED <<breadcrumbs, encountered, loadout, character, cooldowns>>

NoCrumbs == [version |-> 0, content |-> << >>]

\* Reading creates the row.
GetBreadcrumbs ==
    /\ breadcrumbs = NoRow
    /\ breadcrumbs' = NoCrumbs
    /\ UNCHANGED <<journey, encountered, loadout, character, cooldowns>>

\* Slip that breaks SavesKept: a save at the version that is stored replaces it.
IsNotOlder(s) == breadcrumbs # NoRow => s.version >= breadcrumbs.version

\* A save at the stored version or below is a conflict.
IsNewerCrumbs(s) == breadcrumbs # NoRow => s.version > breadcrumbs.version

SetBreadcrumbs(s) ==
    /\ IsNewerCrumbs(s)
    /\ breadcrumbs' = s
    /\ UNCHANGED <<journey, encountered, loadout, character, cooldowns>>

---------------------------------------------------------------------------
(* Entries *)

AddEncounteredContent(e) ==
    /\ e \notin Range(encountered)
    /\ encountered' = Append(encountered, e)
    /\ UNCHANGED <<journey, breadcrumbs, loadout, character, cooldowns>>

\* A batch names the cooldowns it sets; starting one names a single one.
SetCooldowns(batch) ==
    /\ cooldowns' = [id \in DOMAIN cooldowns \cup {c.id : c \in batch} |->
            IF \E c \in batch : c.id = id THEN (CHOOSE c \in batch : c.id = id).started ELSE cooldowns[id]]
    /\ UNCHANGED <<journey, breadcrumbs, encountered, loadout, character>>

---------------------------------------------------------------------------
(* Loadouts *)

ClampSlotCount(n) == IF n < 1 THEN 1 ELSE IF n > MAX_LOADOUT_SLOTS THEN MAX_LOADOUT_SLOTS ELSE n

GetAllLoadouts == IF loadout = NoRow THEN <<DefaultSlot>> ELSE loadout

EnsureCharacterSlotCount(n) ==
    GetAllLoadouts \o [i \in 1 .. ClampSlotCount(n) - Len(GetAllLoadouts) |-> DefaultSlot]

\* A request for more slots names how many more; reading is asking for none.
UnlockAdditionalCharacterSlots(n) ==
    /\ loadout' = EnsureCharacterSlotCount(Len(GetAllLoadouts) + n)
    /\ UNCHANGED <<journey, breadcrumbs, encountered, character, cooldowns>>

\* The slot is made first: json_set past the end of an array writes nothing.
SetLoadoutData(index, data) ==
    /\ index \in 0 .. MAX_LOADOUT_SLOTS - 1
    /\ loadout' = [EnsureCharacterSlotCount(index + 1) EXCEPT ![index + 1] = data]
    /\ UNCHANGED <<journey, breadcrumbs, encountered, character, cooldowns>>

---------------------------------------------------------------------------
(* The character *)

GetCharacters ==
    /\ character = NoRow
    /\ character' = [version |-> 0, facts |-> {}]
    /\ UNCHANGED <<journey, breadcrumbs, encountered, loadout, cooldowns>>

\* The quest of the dojo follows the end of the tutorial.
ProcessTriggers(facts) == facts \cup (IF "tutorial over" \in facts THEN {"dojo"} ELSE {})

\* An equal version is the same client's newer state; an empty save replaces no data.
UpdateCharacter(s) ==
    /\ character # NoRow
    /\ s.version >= character.version
    /\ s.facts = {} => character.facts = {}
    /\ character' = [version |-> s.version, facts |-> ProcessTriggers(s.facts \cup Returning)]
    /\ UNCHANGED <<journey, breadcrumbs, encountered, loadout, cooldowns>>

CharacterNext ==
    \/ \E s \in Journeys : PostPlayerJourney(s)
    \/ GetBreadcrumbs
    \/ \E s \in Crumbs : SetBreadcrumbs(s)
    \/ \E e \in Encounters : AddEncounteredContent(e)
    \/ \E c \in Cooldowns : SetCooldowns({c})
    \/ \E n \in 0 .. MAX_LOADOUT_SLOTS : UnlockAdditionalCharacterSlots(n)
    \/ \E i \in 0 .. MAX_LOADOUT_SLOTS, d \in LoadoutData : SetLoadoutData(i, d)
    \/ GetCharacters
    \/ \E s \in CharacterData : UpdateCharacter(s)

---------------------------------------------------------------------------
Newer(old, new) == old # NoRow /\ new # old => new # NoRow /\ new.version > old.version

\* Late, repeated and conflicting saves: a journey and breadcrumbs change only with their version,
\* a character's version never falls back nor does it become empty, no encounter or cooldown is
\* forgotten or listed twice, and no loadout slot goes away nor comes beyond the limit.  What a
\* slot or a cooldown holds has no version in the code: the last save stays.
SavesKept ==
    [][/\ Newer(journey, journey') /\ Newer(breadcrumbs, breadcrumbs')
       /\ character # NoRow => /\ character'.version >= character.version
                               /\ character'.facts = {} => character.facts = {}
       /\ IsPrefix(encountered, encountered') /\ IsInjective(encountered')
       /\ DOMAIN cooldowns \subseteq DOMAIN cooldowns'
       /\ loadout # NoRow => Len(loadout') \in Len(loadout) .. MAX_LOADOUT_SLOTS]_saveVars
=============================================================================
