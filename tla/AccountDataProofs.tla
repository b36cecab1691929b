-------------------------- MODULE AccountDataProofs --------------------------
(***************************************************************************)
(* What the requests of clients and game servers may never do to the data  *)
(* of an account, for any values of the constants.                         *)
(***************************************************************************)
EXTENDS AccountData, InductionLemmas, SequenceTheorems

---------------------------------------------------------------------------
(* Saves *)

Slot == LoadoutData \cup {DefaultSlot}

\* Loadouts are an array of one to MAX_LOADOUT_SLOTS slots.
Rows(l) == l \in Seq(Slot) /\ Len(l) \in 1 .. MAX_LOADOUT_SLOTS

SaveInv ==
    /\ journey = NoRow \/ journey.version \in Int
    /\ character = NoRow \/ character.version \in Int
    /\ encountered \in Seq(Encounters) /\ IsInjective(encountered)
    /\ loadout = NoRow \/ Rows(loadout)

LEMMA ShownLoadouts ==
    ASSUME SaveInv
    PROVE  Rows(GetAllLoadouts)
<1>1. DefaultSlot \in Slot
  BY DEF Slot
<1>2. <<DefaultSlot>> \in Seq(Slot) /\ Len(<<DefaultSlot>>) = 1
  BY <1>1
<1>3. Rows(<<DefaultSlot>>)
  BY <1>2, SavesAssumption DEF Rows
<1> QED
  BY <1>3 DEF GetAllLoadouts, SaveInv

\* More slots of default content fit the limit, and never take one away.
LEMMA SlotsAreEnsured ==
    ASSUME SaveInv, NEW n \in Int
    PROVE  /\ Rows(EnsureCharacterSlotCount(n))
           /\ loadout # NoRow => Len(loadout) <= Len(EnsureCharacterSlotCount(n))
           /\ ClampSlotCount(n) <= Len(EnsureCharacterSlotCount(n))
<1>. DEFINE l == GetAllLoadouts
            k == ClampSlotCount(n) - Len(l)
            m == IF k > 0 THEN k ELSE 0
            more == [i \in 1 .. k |-> DefaultSlot]
<1>1. Rows(l)
  BY ShownLoadouts
<1>2. ClampSlotCount(n) \in 1 .. MAX_LOADOUT_SLOTS
  BY SavesAssumption DEF ClampSlotCount
<1>3. l \in Seq(Slot) /\ Len(l) \in Nat /\ Len(l) \in 1 .. MAX_LOADOUT_SLOTS
  BY <1>1, SavesAssumption DEF Rows
<1>. HIDE DEF l
<1>4. k \in Int /\ m \in Nat /\ 1 .. k = 1 .. m
  BY <1>2, <1>3, SavesAssumption
<1>5. more \in [1 .. m -> Slot]
  BY <1>4 DEF Slot
<1>6. more \in Seq(Slot) /\ Len(more) = m
  <2>. HIDE DEF more, k, m
  <2>1. more \in Seq(Slot)
    BY <1>4, <1>5, SeqDef
  <2>2. Len(more) \in Nat /\ DOMAIN more = 1 .. Len(more) /\ DOMAIN more = 1 .. m
    BY <2>1, <1>5, LenProperties
  <2>3. ASSUME NEW a \in Nat, NEW b \in Nat, 1 .. a = 1 .. b
        PROVE  a = b
    BY <2>3
  <2>4. Len(more) = m
    BY <1>4, <2>2, <2>3
  <2> QED
    BY <2>1, <2>4
<1>7. EnsureCharacterSlotCount(n) = l \o more
  BY DEF EnsureCharacterSlotCount, l
<1>8. l \o more \in Seq(Slot) /\ Len(l \o more) = Len(l) + m
  <2>. HIDE DEF more, m
  <2> QED
    BY <1>3, <1>6, ConcatProperties
<1>9. Len(l \o more) \in 1 .. MAX_LOADOUT_SLOTS /\ Len(l) <= Len(l \o more) /\ ClampSlotCount(n) <= Len(l \o more)
  <2>. HIDE DEF more
  <2> QED
    BY <1>2, <1>3, <1>8, SavesAssumption
<1>10. loadout # NoRow => l = loadout
  BY DEF l, GetAllLoadouts
<1> QED
  BY <1>7, <1>8, <1>9, <1>10 DEF Rows

LEMMA LonePrefix ==
    ASSUME NEW S, NEW s \in Seq(S), NEW t \in Seq(S), Len(s) <= Len(t),
           \A i \in 1 .. Len(s) : s[i] = t[i]
    PROVE  IsPrefix(s, t)
<1>1. Len(s) \in Nat /\ Len(t) \in Nat /\ \A i \in 1 .. Len(t) : t[i] \in S
  BY LenProperties, ElementOfSeq
<1>2. \A i \in 1 .. Len(s) : s[i] \in S /\ t[i] \in S
  BY <1>1
<1>3. /\ SubSeq(s, 1, Len(s)) \in Seq(S) /\ Len(SubSeq(s, 1, Len(s))) = Len(s)
      /\ \A i \in 1 .. Len(s) : SubSeq(s, 1, Len(s))[i] = s[i]
  BY <1>1, <1>2, SubSeqProperties
<1>4. /\ SubSeq(t, 1, Len(s)) \in Seq(S) /\ Len(SubSeq(t, 1, Len(s))) = Len(s)
      /\ \A i \in 1 .. Len(s) : SubSeq(t, 1, Len(s))[i] = t[i]
  BY <1>1, <1>2, SubSeqProperties
<1>5. SubSeq(s, 1, Len(s)) = SubSeq(t, 1, Len(s))
  BY <1>3, <1>4, SeqEqual
<1> QED
  BY <1>5 DEF IsPrefix

LEMMA EncounterAdded ==
    ASSUME SaveInv, NEW e \in Encounters, AddEncounteredContent(e)
    PROVE  /\ encountered' \in Seq(Encounters) /\ IsInjective(encountered')
           /\ IsPrefix(encountered, encountered')
<1>1. /\ encountered \in Seq(Encounters) /\ Len(encountered) \in Nat
      /\ encountered \in [1 .. Len(encountered) -> Encounters]
      /\ IsInjective(encountered)
  BY LenProperties DEF SaveInv
<1>2. /\ encountered' = Append(encountered, e)
      /\ \A i \in 1 .. Len(encountered) : encountered[i] # e
  BY <1>1 DEF AddEncounteredContent, Range
<1>3. /\ encountered' \in Seq(Encounters) /\ Len(encountered') = Len(encountered) + 1
      /\ \A i \in 1 .. Len(encountered) : encountered'[i] = encountered[i]
      /\ encountered'[Len(encountered) + 1] = e
  BY <1>1, <1>2
<1>4. DOMAIN encountered' = 1 .. Len(encountered) + 1
  BY <1>1, <1>3, LenProperties
<1>5. IsInjective(encountered')
  BY <1>1, <1>2, <1>3, <1>4 DEF IsInjective
<1>6. IsPrefix(encountered, encountered')
  BY <1>1, <1>3, LonePrefix
<1> QED
  BY <1>3, <1>5, <1>6

\* One step of the saves, as SavesKept wants it.
KeepsSaves ==
    /\ Newer(journey, journey') /\ Newer(breadcrumbs, breadcrumbs')
    /\ character # NoRow => /\ character'.version >= character.version
                            /\ character'.facts = {} => character.facts = {}
    /\ IsPrefix(encountered, encountered') /\ IsInjective(encountered')
    /\ DOMAIN cooldowns \subseteq DOMAIN cooldowns'
    /\ loadout # NoRow => Len(loadout') \in Len(loadout) .. MAX_LOADOUT_SLOTS

LEMMA SavesUnchanged ==
    ASSUME SaveInv
    PROVE  /\ IsPrefix(encountered, encountered) /\ IsInjective(encountered)
           /\ character # NoRow => character.version >= character.version
           /\ loadout # NoRow => Len(loadout) \in Len(loadout) .. MAX_LOADOUT_SLOTS
<1>1. encountered \in Seq(Encounters) /\ Len(encountered) \in Nat
  BY LenProperties DEF SaveInv
<1>2. IsPrefix(encountered, encountered)
  BY <1>1, LonePrefix
<1> QED
  BY <1>2, SavesAssumption DEF SaveInv, Rows

LEMMA SaveStep ==
    ASSUME SaveInv, CharacterNext
    PROVE  SaveInv' /\ KeepsSaves
<1>. USE DEF KeepsSaves, Newer
<1>1. ASSUME NEW s \in Journeys, PostPlayerJourney(s)
      PROVE  SaveInv' /\ KeepsSaves
  BY <1>1, SavesUnchanged, SavesAssumption DEF PostPlayerJourney, SaveInv, Rows
<1>2. CASE GetBreadcrumbs
  BY <1>2, SavesUnchanged DEF GetBreadcrumbs, SaveInv, Rows
<1>3. ASSUME NEW s \in Crumbs, SetBreadcrumbs(s)
      PROVE  SaveInv' /\ KeepsSaves
  BY <1>3, SavesUnchanged, SavesAssumption DEF SetBreadcrumbs, IsNewerCrumbs, SaveInv, Rows
<1>4. ASSUME NEW e \in Encounters, AddEncounteredContent(e)
      PROVE  SaveInv' /\ KeepsSaves
  BY <1>4, SavesUnchanged, EncounterAdded DEF AddEncounteredContent, SaveInv, Rows
<1>5. ASSUME NEW c \in Cooldowns, SetCooldowns({c})
      PROVE  SaveInv' /\ KeepsSaves
  <2>1. DOMAIN cooldowns \subseteq DOMAIN cooldowns'
    BY <1>5 DEF SetCooldowns
  <2> QED
    BY <1>5, <2>1, SavesUnchanged DEF SetCooldowns, SaveInv, Rows
<1>6. ASSUME NEW n \in 0 .. MAX_LOADOUT_SLOTS, UnlockAdditionalCharacterSlots(n)
      PROVE  SaveInv' /\ KeepsSaves
  <2>1. Len(GetAllLoadouts) + n \in Int
    <3>1. Rows(GetAllLoadouts)
      BY ShownLoadouts
    <3> QED
      BY <3>1, SavesAssumption DEF Rows
  <2>2. Rows(loadout') /\ (loadout # NoRow => Len(loadout) <= Len(loadout'))
    BY <1>6, <2>1, SlotsAreEnsured DEF UnlockAdditionalCharacterSlots
  <2>3. loadout # NoRow => Len(loadout') \in Len(loadout) .. MAX_LOADOUT_SLOTS
    BY <2>2, SavesAssumption DEF Rows, SaveInv
  <2> QED
    BY <1>6, <2>2, <2>3, SavesUnchanged DEF UnlockAdditionalCharacterSlots, SaveInv
<1>7. ASSUME NEW i \in 0 .. MAX_LOADOUT_SLOTS, NEW d \in LoadoutData, SetLoadoutData(i, d)
      PROVE  SaveInv' /\ KeepsSaves
  <2>1. PICK l : l = EnsureCharacterSlotCount(i + 1)
    OBVIOUS
  <2>2. i + 1 \in Int /\ i + 1 \in 1 .. MAX_LOADOUT_SLOTS /\ d \in Slot
    BY <1>7, SavesAssumption DEF SetLoadoutData, Slot
  <2>3. Rows(l) /\ (loadout # NoRow => Len(loadout) <= Len(l)) /\ i + 1 <= Len(l)
    BY <2>1, <2>2, SlotsAreEnsured, SavesAssumption DEF ClampSlotCount
  <2>4. loadout' = [l EXCEPT ![i + 1] = d]
    BY <1>7, <2>1 DEF SetLoadoutData
  <2>5. l \in Seq(Slot) /\ i + 1 \in 1 .. Len(l)
    BY <2>2, <2>3, SavesAssumption DEF Rows
  <2>6. loadout' \in Seq(Slot) /\ Len(loadout') = Len(l)
    BY <2>2, <2>4, <2>5, ExceptSeq
  <2>7. Rows(loadout') /\ (loadout # NoRow => Len(loadout') \in Len(loadout) .. MAX_LOADOUT_SLOTS)
    BY <2>3, <2>6, SavesAssumption DEF Rows, SaveInv
  <2> QED
    BY <1>7, <2>7, SavesUnchanged DEF SetLoadoutData, SaveInv
<1>8. CASE GetCharacters
  BY <1>8, SavesUnchanged DEF GetCharacters, SaveInv, Rows
<1>9. ASSUME NEW s \in CharacterData, UpdateCharacter(s)
      PROVE  SaveInv' /\ KeepsSaves
  BY <1>9, SavesUnchanged, SavesAssumption DEF UpdateCharacter, ProcessTriggers, SaveInv, Rows
<1> QED
  BY <1>1, <1>2, <1>3, <1>4, <1>5, <1>6, <1>7, <1>8, <1>9 DEF CharacterNext

\* However many saves are sent, repeated, late or in conflict, none takes a version back, empties a
\* character, unlists an entry or removes a loadout slot (SavesKept).
THEOREM SavesStayKept == Spec => SavesKept
<1>1. Init => SaveInv
  BY EmptySeq DEF Init, CharacterInit, SaveInv, IsInjective
<1>2. SaveInv /\ [Next]_vars => SaveInv' /\ [KeepsSaves]_saveVars
  <2>. SUFFICES ASSUME SaveInv, [Next]_vars
                PROVE  SaveInv' /\ (KeepsSaves \/ UNCHANGED saveVars)
    BY DEF saveVars
  <2>1. CASE CharacterNext
    BY <2>1, SaveStep
  <2>2. CASE UNCHANGED saveVars
    BY <2>2 DEF saveVars, SaveInv, Rows
  <2> QED
    BY <2>1, <2>2 DEF Next, Trade, Progress, BountyBoard, EscalationSeason, Saves, vars, saveVars
<1>3. SavesKept <=> [][KeepsSaves]_saveVars
  BY DEF SavesKept, KeepsSaves
<1> QED
  BY <1>1, <1>2, <1>3, PTL DEF Spec

---------------------------------------------------------------------------
(* Instanced items *)

\* What an item may become in one write, as NothingStale wants it.
Advances(x, y) ==
    \/ x = y
    \/ y.version > x.version
    \/ IsFusion(x) /\ IsFusion(y) /\ y.version = x.version /\ y.exchange = x.exchange /\ y.end < x.end

Holds(held) == \A id \in DOMAIN held : held[id].id = id /\ WellFormed(held[id])

ItemsInv ==
    /\ items = [ch \in Characters |-> items[ch]]
    /\ \A ch \in Characters : Holds(items[ch])

LEMMA AdvancesOn ==
    ASSUME NEW x, NEW y, NEW z, WellFormed(x), WellFormed(y), WellFormed(z),
           Advances(x, y), Advances(y, z)
    PROVE  Advances(x, z)
<1>1. x.version \in Nat /\ y.version \in Nat /\ z.version \in Nat
  BY DEF WellFormed
<1>2. ASSUME IsFusion(x), IsFusion(y), IsFusion(z), y.version = x.version, y.exchange = x.exchange,
             y.end < x.end, z.version = y.version, z.exchange = y.exchange, z.end < y.end
      PROVE  z.version = x.version /\ z.exchange = x.exchange /\ z.end < x.end
  <2>1. x.end \in Nat /\ y.end \in Nat /\ z.end \in Nat
    BY <1>2 DEF WellFormed
  <2> QED
    BY <1>2, <2>1
<1> QED
  BY <1>1, <1>2 DEF Advances

LEMMA WriteAdvances ==
    ASSUME NEW x, NEW y, WellFormed(x), WellFormed(y), x.id = y.id,
           NEW saving \in BOOLEAN, MayWrite(x, y, saving)
    PROVE  Advances(x, y)
<1>1. CASE y.version > x.version
  BY <1>1 DEF Advances
<1>2. CASE IsValidFusionSave(x, y)
  <2>1. /\ IsFusion(x) /\ IsFusion(y) /\ y.version = x.version
        /\ y.exchange = x.exchange /\ y.cell = x.cell /\ y.end <= x.end
    BY <1>2 DEF IsValidFusionSave
  <2>2. /\ x \in [id : {x.id}, catalog : {"fusion"}, kind : {"fusion"}, version : Nat,
                  exchange : {x.exchange}, cell : {x.cell}, end : Nat]
        /\ y \in [id : {x.id}, catalog : {"fusion"}, kind : {"fusion"}, version : Nat,
                  exchange : {x.exchange}, cell : {x.cell}, end : Nat]
    BY <2>1 DEF WellFormed
  <2>3. y.end = x.end => x = y
    BY <2>1, <2>2
  <2> QED
    BY <2>1, <2>2, <2>3 DEF Advances
<1> QED
  BY <1>1, <1>2 DEF MayWrite

\* Writes that pass the checks only advance what is held, and lose nothing.
LEMMA WithAdvances ==
    ASSUME NEW held, Holds(held), NEW xs, \A x \in xs : WellFormed(x),
           NEW saving \in BOOLEAN, Puttable(held, xs, saving)
    PROVE  /\ Holds(With(held, xs))
           /\ DOMAIN held \subseteq DOMAIN With(held, xs)
           /\ \A id \in DOMAIN held : Advances(held[id], With(held, xs)[id])
<1>. DEFINE written == {x \in xs : x.id \in DOMAIN held => ~IsSkipped(held[x.id], x)}
            Of(id) == CHOOSE x \in written : x.id = id
<1>1. With(held, xs) = [id \in DOMAIN held \cup {x.id : x \in written} |->
            IF \E x \in written : x.id = id THEN Of(id) ELSE held[id]]
  BY DEF With
<1>2. ASSUME NEW id, \E x \in written : x.id = id
      PROVE  Of(id) \in written /\ Of(id).id = id
  BY <1>2
<1>. HIDE DEF Of
<1>3. Holds(With(held, xs))
  BY <1>1, <1>2 DEF Holds
<1>4. ASSUME NEW id \in DOMAIN held, \E x \in written : x.id = id
      PROVE  Advances(held[id], Of(id))
  <2>1. Of(id) \in xs /\ Of(id).id = id /\ ~IsSkipped(held[id], Of(id))
    BY <1>2, <1>4
  <2>2. MayWrite(held[id], Of(id), saving)
    BY <2>1 DEF Puttable
  <2> QED
    BY <2>1, <2>2, WriteAdvances DEF Holds
<1>5. ASSUME NEW id \in DOMAIN held
      PROVE  Advances(held[id], With(held, xs)[id])
  BY <1>1, <1>4 DEF Advances
<1> QED
  BY <1>1, <1>3, <1>5

LEMMA WithoutKeeps ==
    ASSUME NEW held, Holds(held), NEW xs
    PROVE  /\ Holds(Without(held, xs))
           /\ DOMAIN Without(held, xs) = DOMAIN held \ {x.id : x \in xs}
           /\ \A id \in DOMAIN Without(held, xs) : Without(held, xs)[id] = held[id]
BY DEF Without, Restrict, Holds

\* What the store and rank rewards mint.
LEMMA MintedWellFormed ==
    ASSUME NEW id, NEW c
    PROVE  WellFormed([id |-> id, catalog |-> c, kind |-> "stateless", version |-> 0])
BY DEF WellFormed, IsFusion

\* A character's items after a step.
OnlyAdvances(ch) ==
    \A id \in DOMAIN items[ch] \cap DOMAIN items'[ch] : Advances(items[ch][id], items'[ch][id])

LEMMA WrittenFor ==
    ASSUME ItemsInv, NEW ch \in Characters, NEW xs, \A x \in xs : WellFormed(x),
           NEW saving \in BOOLEAN, Puttable(items[ch], xs, saving),
           items' = [items EXCEPT ![ch] = With(@, xs)]
    PROVE  ItemsInv' /\ \A d \in Characters : OnlyAdvances(d)
<1>1. PICK held : held = items[ch]
  OBVIOUS
<1>2. PICK new : new = With(held, xs)
  OBVIOUS
<1>3. Holds(held) /\ Puttable(held, xs, saving)
  BY <1>1 DEF ItemsInv
<1>4. Holds(new) /\ \A id \in DOMAIN held : Advances(held[id], new[id])
  BY <1>2, <1>3, WithAdvances
<1>5. items' = [items EXCEPT ![ch] = new]
  BY <1>1, <1>2
<1>6. \A d \in Characters : items'[d] = IF d = ch THEN new ELSE items[d]
  BY <1>5 DEF ItemsInv
<1>7. items' = [d \in Characters |-> items'[d]]
  BY <1>5 DEF ItemsInv
<1> QED
  BY <1>1, <1>4, <1>6, <1>7 DEF ItemsInv, OnlyAdvances, Advances

LEMMA TransactionAdvances ==
    ASSUME TakenForGood, ItemsInv, NEW t \in Transactions, RunInventoryTransaction(t)
    PROVE  ItemsInv' /\ \A d \in Characters : OnlyAdvances(d)
<1>1. PICK ch \in Characters : ch = t.ch
  BY InventoryAssumption
<1>2. PICK held : held = items[ch]
  OBVIOUS
<1>3. PICK kept : kept = Without(held, t.drop)
  OBVIOUS
<1>4. PICK saved : saved = With(kept, t.save)
  OBVIOUS
<1>5. PICK new : new = With(saved, t.put)
  OBVIOUS
<1>6. /\ Puttable(kept, t.save, TRUE) /\ Puttable(saved, t.put, FALSE)
      /\ items' = [items EXCEPT ![ch] = new]
  BY <1>1, <1>2, <1>3, <1>4, <1>5 DEF RunInventoryTransaction, ItemsAfter, Kept, Saved
<1>7. (\A x \in t.save : WellFormed(x)) /\ (\A x \in t.put : WellFormed(x))
  BY InventoryAssumption
<1>8. Holds(held)
  BY <1>2 DEF ItemsInv
<1>9. /\ Holds(kept) /\ DOMAIN kept = DOMAIN held \ {x.id : x \in t.drop}
      /\ \A id \in DOMAIN kept : kept[id] = held[id]
  BY <1>3, <1>8, WithoutKeeps
<1>10. Holds(saved) /\ DOMAIN kept \subseteq DOMAIN saved /\ \A id \in DOMAIN kept : Advances(kept[id], saved[id])
  BY <1>4, <1>6, <1>7, <1>9, WithAdvances
<1>11. Holds(new) /\ DOMAIN saved \subseteq DOMAIN new /\ \A id \in DOMAIN saved : Advances(saved[id], new[id])
  BY <1>5, <1>6, <1>7, <1>10, WithAdvances
<1>12. DOMAIN new \subseteq DOMAIN kept \cup {x.id : x \in t.put \cup t.save}
  BY <1>4, <1>5 DEF With
<1>13. ASSUME NEW id \in DOMAIN held \cap DOMAIN new
       PROVE  Advances(held[id], new[id])
  <2>1. id \in DOMAIN kept
    BY <1>9, <1>12, <1>13 DEF TakenForGood
  <2>2. Advances(held[id], saved[id]) /\ Advances(saved[id], new[id])
    BY <1>9, <1>10, <1>11, <2>1
  <2>3. WellFormed(held[id]) /\ WellFormed(saved[id]) /\ WellFormed(new[id])
    BY <1>8, <1>10, <1>11, <1>13, <2>1 DEF Holds
  <2> QED
    BY <2>2, <2>3, AdvancesOn
<1>14. \A d \in Characters : items'[d] = IF d = ch THEN new ELSE items[d]
  BY <1>6 DEF ItemsInv
<1>15. items' = [d \in Characters |-> items'[d]]
  BY <1>6 DEF ItemsInv
<1> QED
  BY <1>2, <1>11, <1>13, <1>14, <1>15 DEF ItemsInv, OnlyAdvances, Advances

ItemsStay == ItemsInv' /\ \A d \in Characters : OnlyAdvances(d)

LEMMA ItemsUnchanged ==
    ASSUME ItemsInv, UNCHANGED items
    PROVE  ItemsStay
BY DEF ItemsInv, ItemsStay, OnlyAdvances, Advances

LEMMA RedeemAdvances ==
    ASSUME ItemsInv, NEW t, purchases[t].ch \in Characters, RedeemFreePurchase(t)
    PROVE  ItemsStay
<1>1. PICK ch \in Characters : ch = purchases[t].ch
  OBVIOUS
<1>2. PICK new : new = Cosmetics(t, ch, Offers[purchases[t].sku])
  OBVIOUS
<1>3. Puttable(items[ch], new, FALSE) /\ items' = [items EXCEPT ![ch] = With(@, new)]
  BY <1>1, <1>2 DEF RedeemFreePurchase
<1>4. \A x \in new : WellFormed(x)
  BY <1>2, MintedWellFormed DEF Cosmetics
<1> QED
  BY <1>3, <1>4, WrittenFor DEF ItemsStay

LEMMA ClaimAdvances ==
    ASSUME ItemsInv, NEW u, NEW ch \in Characters, NEW track, NEW rank, NEW kind,
           ClaimRanksUpTo(u, ch, track, rank, kind)
    PROVE  ItemsStay
<1>1. PICK new : new = UNION {Minted(d) : d \in Due(u, track, rank, kind)}
  OBVIOUS
<1>2. Puttable(items[ch], new, FALSE) /\ items' = [items EXCEPT ![ch] = With(@, new)]
  BY <1>1 DEF ClaimRanksUpTo
<1>3. \A x \in new : WellFormed(x)
  BY <1>1, MintedWellFormed DEF Minted
<1> QED
  BY <1>2, <1>3, WrittenFor DEF ItemsStay

---------------------------------------------------------------------------
(* Purchase tokens *)

OfferHashes == {<<sku>> : sku \in DOMAIN Offers} \cup {<<sku, n>> : sku \in DOMAIN Offers, n \in Int}
Ticket == [user : Users, ch : Characters, sku : DOMAIN Offers, hash : OfferHashes, expiresAt : Nat, redeemedAt : Nat]

TicketsTyped == now \in Nat \ {0} /\ purchases \in Seq(Ticket)

LEMMA TicketOf ==
    ASSUME TicketsTyped, NEW t \in DOMAIN purchases
    PROVE  purchases[t] \in Ticket /\ t \in Nat \ {0} /\ t <= Len(purchases)
BY LenProperties, ElementOfSeq DEF TicketsTyped

\* A token that is taken comes last, and is not redeemed yet.
Issues(ticket) ==
    /\ ticket \in Ticket /\ ticket.redeemedAt = 0
    /\ purchases' = Append(purchases, ticket)
    /\ Len(purchases') = Len(purchases) + 1
    /\ DOMAIN purchases' = DOMAIN purchases \cup {Len(purchases) + 1}
    /\ \A t \in DOMAIN purchases : purchases'[t] = purchases[t]
    /\ purchases'[Len(purchases) + 1] = ticket
    /\ now' = now

LEMMA CreateIssues ==
    ASSUME TicketsTyped, NEW u \in Users, NEW ch \in Characters, NEW sku \in DOMAIN Offers,
           CreateFreePurchase(u, ch, sku)
    PROVE  TicketsTyped' /\ \E ticket : Issues(ticket) /\ ticket.user = u /\ ticket.ch = ch
<1>1. PICK ticket : ticket = [user |-> u, ch |-> ch, sku |-> sku, hash |-> OfferHash(sku),
                              expiresAt |-> now + TOKEN_TERM, redeemedAt |-> 0]
  OBVIOUS
<1>2. WindowStart(WEEK, now) \in Int
  BY StoreAssumption DEF WindowStart, TicketsTyped
<1>3. OfferHash(sku) \in OfferHashes
  BY <1>2 DEF OfferHash, OfferHashes
<1>4. ticket \in Ticket /\ ticket.redeemedAt = 0
  BY <1>1, <1>3, StoreAssumption DEF Ticket, TicketsTyped
<1>5. purchases' = Append(purchases, ticket) /\ now' = now
  BY <1>1 DEF CreateFreePurchase
<1>. HIDE DEF Ticket
<1>6. /\ purchases \in Seq(Ticket) /\ Len(purchases) \in Nat /\ DOMAIN purchases = 1 .. Len(purchases)
  BY LenProperties DEF TicketsTyped
<1>7. /\ purchases' \in Seq(Ticket) /\ Len(purchases') = Len(purchases) + 1
      /\ \A t \in 1 .. Len(purchases) : purchases'[t] = purchases[t]
      /\ purchases'[Len(purchases) + 1] = ticket
  BY <1>4, <1>5, <1>6
<1>8. DOMAIN purchases' = 1 .. Len(purchases) + 1
  BY <1>6, <1>7, LenProperties
<1>9. Issues(ticket)
  BY <1>4, <1>5, <1>6, <1>7, <1>8 DEF Issues
<1> QED
  BY <1>1, <1>5, <1>7, <1>9 DEF TicketsTyped

\* Redeeming a token marks it with the time, and touches no other.
Marks(t) ==
    /\ purchases' = [purchases EXCEPT ![t].redeemedAt = now]
    /\ DOMAIN purchases' = DOMAIN purchases
    /\ purchases'[t] = [purchases[t] EXCEPT !.redeemedAt = now]
    /\ \A p \in DOMAIN purchases : p # t => purchases'[p] = purchases[p]
    /\ now' = now

LEMMA RedeemMarks ==
    ASSUME TicketsTyped, NEW t \in DOMAIN purchases, RedeemFreePurchase(t)
    PROVE  TicketsTyped' /\ Marks(t)
<1>1. purchases' = [purchases EXCEPT ![t] = [purchases[t] EXCEPT !.redeemedAt = now]] /\ now' = now
  BY DEF RedeemFreePurchase
<1>2. purchases[t] \in Ticket /\ purchases \in Seq(Ticket) /\ t \in 1 .. Len(purchases)
  BY TicketOf, LenProperties DEF TicketsTyped
<1>3. [purchases[t] EXCEPT !.redeemedAt = now] \in Ticket
  BY <1>2 DEF Ticket, TicketsTyped
<1>4. purchases' \in Seq(Ticket)
  BY <1>1, <1>2, <1>3, ExceptSeq
<1>5. Marks(t)
  BY <1>1, <1>2 DEF Marks
<1> QED
  BY <1>1, <1>4, <1>5 DEF TicketsTyped

\* The steps of the economy, by what they do to the tokens.
EconomyStep ==
    \/ \E t \in Transactions : RunInventoryTransaction(t) /\ UNCHANGED storeVars /\ UNCHANGED claims
    \/ \E w \in ItemUpdates : UpdateInstancedItem(w) /\ UNCHANGED storeVars /\ UNCHANGED claims
    \/ Tick /\ UNCHANGED storeVars /\ UNCHANGED claims
    \/ \E u \in Users, ch \in Characters, sku \in DOMAIN Offers : CreateFreePurchase(u, ch, sku) /\ UNCHANGED claims
    \/ \E t \in DOMAIN purchases : RedeemFreePurchase(t) /\ UNCHANGED claims
    \/ \E u \in Users, ch \in Characters, track \in DOMAIN Tracks, kind \in Kinds :
        \E rank \in 0 .. Len(Tracks[track].costs) :
            ClaimRanksUpTo(u, ch, track, rank, kind) /\ UNCHANGED <<now, purchases>>
    \/ UNCHANGED economyVars /\ UNCHANGED claims

\* A track has as many ranks as costs, and no more are derived.
LEMMA RanksDerived ==
    ASSUME NEW t \in DOMAIN Tracks, NEW points
    PROVE  DeriveRank(t, points) \in 0 .. Len(Tracks[t].costs)
<1>1. PICK n \in Nat : n = Len(Tracks[t].costs) /\ DOMAIN Tracks[t].costs = 1 .. n
  BY ProgressionAssumption, LenProperties
<1>2. PICK s \in SUBSET (1 .. n) : s = {r \in DOMAIN Tracks[t].costs : PointsFor(t, r) <= points}
  BY <1>1
<1>3. IsFiniteSet(1 .. n) /\ Cardinality(1 .. n) = n
  BY FS_Interval
<1>4. Cardinality(s) \in Nat /\ Cardinality(s) <= n
  BY <1>3, FS_Subset, FS_CardinalityType
<1> QED
  BY <1>1, <1>2, <1>4 DEF DeriveRank

LEMMA SmallerOf ==
    ASSUME NEW a \in Int, NEW b \in Int
    PROVE  /\ Min({a, b}) \in {a, b} /\ Min({a, b}) <= a /\ Min({a, b}) <= b
           /\ Max({a, b}) \in {a, b} /\ a <= Max({a, b}) /\ b <= Max({a, b})
<1>1. \E x \in {a, b} : \A y \in {a, b} : x <= y
  OBVIOUS
<1>2. \E x \in {a, b} : \A y \in {a, b} : x >= y
  OBVIOUS
<1> QED
  BY <1>1, <1>2 DEF Min, Max

LEMMA EconomySteps ==
    ASSUME [Next]_vars
    PROVE  EconomyStep
<1>1. CASE Trade
  BY <1>1 DEF Trade, StoreNext, InventoryNext, EconomyStep, progressionVars
<1>2. CASE Progress
  <2>1. CASE ProgressionNext
    <3>1. ASSUME NEW a \in Awards, ApplyProgressAndObjectives(a)
          PROVE  UNCHANGED economyVars /\ UNCHANGED claims
      BY <3>1 DEF ApplyProgressAndObjectives, economyVars
    <3>2. ASSUME NEW u \in Users, NEW ch \in Characters, NEW t \in DOMAIN Tracks, NEW kind \in Kinds,
                 NEW rank \in 0 .. Len(Tracks[t].costs), ConfirmRank(u, ch, t, rank, kind)
          PROVE  EconomyStep
      <4>1. PICK e \in 0 .. Len(Tracks[t].costs) : e = Earned(u, t)
        BY RanksDerived DEF Earned
      <4>2. rank \in Int /\ e \in Int
        OBVIOUS
      <4>3. Min({rank, e}) \in {rank, e}
        BY <4>2, SmallerOf
      <4>4. Min({rank, Earned(u, t)}) \in 0 .. Len(Tracks[t].costs)
        BY <4>1, <4>3
      <4>5. ClaimRanksUpTo(u, ch, t, Min({rank, Earned(u, t)}), kind) /\ UNCHANGED <<now, purchases>>
        BY <3>2 DEF ConfirmRank
      <4> QED
        BY <4>4, <4>5 DEF EconomyStep
    <3>3. ASSUME NEW u \in Users, NEW t \in DOMAIN Tracks, ResetTrack(u, t)
          PROVE  UNCHANGED economyVars /\ UNCHANGED claims
      BY <3>3 DEF ResetTrack, economyVars
    <3> QED
      BY <2>1, <3>1, <3>2, <3>3 DEF ProgressionNext, EconomyStep
  <2>2. CASE BuyElite /\ UNCHANGED progressionVars
    BY <2>2 DEF BuyElite, EconomyStep, progressionVars
  <2> QED
    BY <1>2, <2>1, <2>2 DEF Progress
<1>3. CASE UNCHANGED economyVars /\ UNCHANGED claims
  BY <1>3 DEF EconomyStep
<1> QED
  BY <1>1, <1>2, <1>3 DEF Next, BountyBoard, EscalationSeason, Saves, vars, economyVars, progressionVars

LEMMA ItemsStep ==
    ASSUME TakenForGood, ItemsInv, TicketsTyped, EconomyStep
    PROVE  ItemsStay
<1>1. ASSUME NEW t \in Transactions, RunInventoryTransaction(t)
      PROVE  ItemsStay
  BY <1>1, TransactionAdvances DEF ItemsStay
<1>2. ASSUME NEW w \in ItemUpdates, UpdateInstancedItem(w)
      PROVE  ItemsStay
  <2>1. w.ch \in Characters /\ \A x \in {w.item} : WellFormed(x)
    BY InventoryAssumption
  <2>2. Puttable(items[w.ch], {w.item}, TRUE) /\ items' = [items EXCEPT ![w.ch] = With(@, {w.item})]
    BY <1>2 DEF UpdateInstancedItem
  <2> QED
    BY <2>1, <2>2, WrittenFor DEF ItemsStay
<1>3. CASE Tick
  BY <1>3, ItemsUnchanged DEF Tick, inventoryVars
<1>4. ASSUME NEW u \in Users, NEW ch \in Characters, NEW sku \in DOMAIN Offers, CreateFreePurchase(u, ch, sku)
      PROVE  ItemsStay
  BY <1>4, ItemsUnchanged DEF CreateFreePurchase, inventoryVars
<1>5. ASSUME NEW t \in DOMAIN purchases, RedeemFreePurchase(t)
      PROVE  ItemsStay
  BY <1>5, TicketOf, RedeemAdvances DEF Ticket
<1>6. ASSUME NEW u \in Users, NEW ch \in Characters, NEW track \in DOMAIN Tracks, NEW kind \in Kinds,
             NEW rank \in Nat, ClaimRanksUpTo(u, ch, track, rank, kind)
      PROVE  ItemsStay
  BY <1>6, ClaimAdvances
<1>7. CASE UNCHANGED economyVars
  BY <1>7, ItemsUnchanged DEF economyVars, inventoryVars
<1> QED
  BY <1>1, <1>2, <1>3, <1>4, <1>5, <1>6, <1>7 DEF EconomyStep

LEMMA TicketsStep ==
    ASSUME TicketsTyped, EconomyStep
    PROVE  TicketsTyped'
<1>1. ASSUME NEW t \in Transactions, RunInventoryTransaction(t), UNCHANGED storeVars
      PROVE  UNCHANGED <<now, purchases>>
  BY <1>1 DEF RunInventoryTransaction, storeVars
<1>2. ASSUME NEW w \in ItemUpdates, UpdateInstancedItem(w), UNCHANGED storeVars
      PROVE  UNCHANGED <<now, purchases>>
  BY <1>2 DEF UpdateInstancedItem, storeVars
<1>3. CASE Tick /\ UNCHANGED storeVars
  BY <1>3 DEF Tick, storeVars, TicketsTyped
<1>4. CASE UNCHANGED <<now, purchases>>
  BY <1>4 DEF TicketsTyped
<1> QED
  BY <1>1, <1>2, <1>3, <1>4, CreateIssues, RedeemMarks DEF EconomyStep, economyVars, storeVars

\* Window numbers grow with time: what was redeemed before this window began is in another.
LEMMA EarlierWindow ==
    ASSUME NEW l \in Nat \ {0}, NEW r \in Nat, NEW t \in Nat, r < WindowStart(l, t)
    PROVE  r \div l # t \div l
<1>1. r \div l \in Int /\ l * (r \div l) <= r
  OBVIOUS
<1>2. WindowStart(l, t) = l * (t \div l)
  BY DEF WindowStart
<1> QED
  BY <1>1, <1>2

OnceInv == TicketsTyped /\ OncePerWindow

LEMMA OnceStep ==
    ASSUME OnceInv, EconomyStep
    PROVE  OnceInv'
<1>1. TicketsTyped'
  BY TicketsStep DEF OnceInv
<1>2. CASE UNCHANGED purchases
  BY <1>1, <1>2 DEF OnceInv, OncePerWindow
<1>3. ASSUME NEW ticket, Issues(ticket)
      PROVE  OncePerWindow'
  <2>1. ASSUME NEW p \in DOMAIN purchases', purchases'[p].redeemedAt > 0
        PROVE  p \in DOMAIN purchases /\ purchases'[p] = purchases[p]
    BY <1>3, <2>1 DEF Issues
  <2> QED
    BY <2>1 DEF OnceInv, OncePerWindow
<1>4. ASSUME NEW t \in DOMAIN purchases, RedeemFreePurchase(t)
      PROVE  OncePerWindow'
  <2>1. Marks(t) /\ purchases[t] \in Ticket /\ now \in Nat \ {0}
    BY <1>4, RedeemMarks, TicketOf DEF OnceInv, TicketsTyped
  <2>2. PICK sku \in DOMAIN Offers, u \in Users : sku = purchases[t].sku /\ u = purchases[t].user
    BY <2>1 DEF Ticket
  <2>3. ASSUME NEW q \in DOMAIN purchases, q # t, Offers[sku].window > 0,
               purchases[q].user = u, purchases[q].sku = sku, purchases[q].redeemedAt > 0
        PROVE  purchases[q].redeemedAt \div Offers[sku].window # now \div Offers[sku].window
    <3>1. Offers[sku].window \in Nat \ {0} /\ Offers[sku].kind = "bundle"
      BY <2>3, StoreAssumption
    <3>2. ~BoughtThisWindow(u, sku, t)
      BY <1>4, <2>2, <3>1 DEF RedeemFreePurchase, StillDue
    <3>3. purchases[q].redeemedAt \in Nat /\ purchases[q] \in Ticket
      BY TicketOf DEF Ticket, OnceInv
    <3>4. WindowStart(Offers[sku].window, now) \in Int
      BY <2>1, <3>1 DEF WindowStart
    <3>5. purchases[q].redeemedAt < WindowStart(Offers[sku].window, now)
      BY <2>3, <3>2, <3>3, <3>4 DEF BoughtThisWindow
    <3> QED
      BY <2>1, <3>1, <3>3, <3>5, EarlierWindow
  <2>4. /\ purchases'[t].user = u /\ purchases'[t].sku = sku /\ purchases'[t].redeemedAt = now
        /\ \A q \in DOMAIN purchases : q # t => purchases'[q] = purchases[q]
        /\ DOMAIN purchases' = DOMAIN purchases
    BY <2>1, <2>2 DEF Marks, Ticket
  <2> QED
    BY <2>3, <2>4 DEF OncePerWindow, OnceInv
<1>5. UNCHANGED purchases \/ (\E ticket : Issues(ticket)) \/ \E t \in DOMAIN purchases : RedeemFreePurchase(t)
  BY CreateIssues DEF EconomyStep, economyVars, storeVars, OnceInv
<1> QED
  BY <1>1, <1>2, <1>3, <1>4, <1>5 DEF OnceInv

LEMMA TicketsFirst == Init => TicketsTyped
<1>1. << >> \in Seq(Ticket)
  BY EmptySeq
<1> QED
  BY <1>1 DEF Init, StoreInit, InventoryInit, TicketsTyped

\* One window, one purchase: for any offers, windows and accounts, and tokens carried over.
THEOREM SoldOncePerWindow == Spec => []OncePerWindow
<1>1. Init => OnceInv
  BY TicketsFirst DEF Init, StoreInit, OnceInv, OncePerWindow
<1>2. OnceInv /\ [Next]_vars => OnceInv'
  BY EconomySteps, OnceStep
<1>3. OnceInv => OncePerWindow
  BY DEF OnceInv
<1> QED
  BY <1>1, <1>2, <1>3, PTL DEF Spec

\* Writes that arrive late change nothing, for any transactions a game server composes that
\* do not take an item and write it at once.
THEOREM ItemsNeverGoStale ==
    ASSUME TakenForGood
    PROVE  Spec => NothingStale
<1>1. Init => ItemsInv /\ TicketsTyped
  <2>1. Init => ItemsInv
    BY DEF Init, StoreInit, InventoryInit, ItemsInv, Holds, Empty
  <2> QED
    BY <2>1, TicketsFirst
<1>2. ItemsInv /\ TicketsTyped /\ [Next]_vars =>
        /\ ItemsInv' /\ TicketsTyped'
        /\ [\A d \in Characters : OnlyAdvances(d)]_items
  BY EconomySteps, ItemsStep, TicketsStep DEF ItemsStay
<1>3. ASSUME NEW x, NEW y, Advances(x, y)
      PROVE  \/ x = y
             \/ y.version > x.version
             \/ IsFusion(x) /\ y.version = x.version /\ y.exchange = x.exchange /\ y.end < x.end
  BY <1>3 DEF Advances
<1>4. [][\A d \in Characters : OnlyAdvances(d)]_items => NothingStale
  <2>1. [\A d \in Characters : OnlyAdvances(d)]_items =>
        [\A ch \in Characters : \A id \in DOMAIN items[ch] \cap DOMAIN items'[ch] :
            LET x == items[ch][id]
                y == items'[ch][id]
            IN  \/ x = y
                \/ y.version > x.version
                \/ IsFusion(x) /\ y.version = x.version /\ y.exchange = x.exchange /\ y.end < x.end]_items
    BY <1>3 DEF OnlyAdvances
  <2> QED
    BY <2>1, PTL DEF NothingStale
<1> QED
  BY <1>1, <1>2, <1>4, PTL DEF Spec

---------------------------------------------------------------------------
(* Entitlements *)

Row == [duration : Nat, activatedAt : Nat]

EntitlementsTyped ==
    /\ entitlements = [u \in Users |-> entitlements[u]]
    /\ \A u \in Users : \A name \in DOMAIN entitlements[u] : entitlements[u][name] \in Row

\* A row lasts for good, or at least so long.
LastsAtLeast(row, t) == row.duration = 0 \/ row.activatedAt + row.duration >= t

LEMMA ExtendedLasts ==
    ASSUME EntitlementsTyped, now \in Nat, NEW u \in Users, NEW name, NEW d \in Nat
    PROVE  /\ Extended(u, name, d) \in Row
           /\ LastsAtLeast(Extended(u, name, d), d + now)
           /\ name \in DOMAIN entitlements[u] /\ entitlements[u][name].duration = 0 =>
                Extended(u, name, d).duration = 0
           /\ name \in DOMAIN entitlements[u] /\ entitlements[u][name].duration # 0 =>
                LastsAtLeast(Extended(u, name, d), d + entitlements[u][name].activatedAt + entitlements[u][name].duration)
<1>1. PICK new : new = [duration |-> d, activatedAt |-> now]
  OBVIOUS
<1>2. new \in Row /\ LastsAtLeast(new, d + now)
  BY <1>1 DEF Row, LastsAtLeast
<1>3. CASE name \notin DOMAIN entitlements[u]
  <2>1. Extended(u, name, d) = new
    BY <1>1, <1>3 DEF Extended
  <2> QED
    BY <1>2, <1>3, <2>1
<1>4. CASE name \in DOMAIN entitlements[u]
  <2>1. PICK row \in Row : row = entitlements[u][name]
    BY <1>4 DEF EntitlementsTyped
  <2>2. row.duration = 0 => Extended(u, name, d) = row
    BY <1>4, <2>1 DEF Extended
  <2>3. row.duration # 0 /\ (d = 0 \/ ~IsEntitlementActive(row)) => Extended(u, name, d) = new
    BY <1>1, <1>4, <2>1 DEF Extended
  <2>4. row.duration # 0 /\ d # 0 /\ IsEntitlementActive(row) => Extended(u, name, d) = [row EXCEPT !.duration = @ + d]
    BY <1>4, <2>1 DEF Extended
  <2> QED
    BY <1>1, <1>2, <1>4, <2>1, <2>2, <2>3, <2>4 DEF Row, LastsAtLeast, IsEntitlementActive
<1> QED
  BY <1>3, <1>4

\* What NothingShortened wants of redeeming t.
TermsKept(t) ==
    LET u == purchases[t].user
        grants == Offers[purchases[t].sku].grants
    IN  \A name \in DOMAIN grants :
            \/ LastsTo(u, name)' = Forever
            \/ LastsTo(u, name)' >= grants[name] + (IF LastsTo(u, name) > now THEN LastsTo(u, name) ELSE now)

LEMMA RedeemKeepsTerms ==
    ASSUME EntitlementsTyped, TicketsTyped, NEW t \in DOMAIN purchases, RedeemFreePurchase(t)
    PROVE  EntitlementsTyped' /\ TermsKept(t)
<1>1. purchases[t] \in Ticket /\ now \in Nat
  BY TicketOf DEF TicketsTyped
<1>2. PICK u \in Users, sku \in DOMAIN Offers : u = purchases[t].user /\ sku = purchases[t].sku
  BY <1>1 DEF Ticket
<1>3. PICK grants : grants = Offers[sku].grants
  OBVIOUS
<1>4. \A name \in DOMAIN grants : grants[name] \in Nat
  BY <1>3, StoreAssumption
<1>5. PICK held : held = entitlements[u]
  OBVIOUS
<1>6. PICK new : new = [name \in DOMAIN held \cup DOMAIN grants |->
        IF name \in DOMAIN grants THEN Extended(u, name, grants[name]) ELSE held[name]]
  OBVIOUS
<1>7. entitlements' = [entitlements EXCEPT ![u] = new]
  BY <1>2, <1>3, <1>5, <1>6 DEF RedeemFreePurchase, EntitlementsAfter
<1>8. /\ entitlements' = [v \in Users |-> entitlements'[v]]
      /\ entitlements'[u] = new
      /\ \A v \in Users : v # u => entitlements'[v] = entitlements[v]
  BY <1>7 DEF EntitlementsTyped
<1>9. ASSUME NEW name \in DOMAIN grants
      PROVE  /\ new[name] = Extended(u, name, grants[name])
             /\ new[name] \in Row
             /\ LastsAtLeast(new[name], grants[name] + now)
             /\ name \in DOMAIN held /\ held[name].duration = 0 => new[name].duration = 0
             /\ name \in DOMAIN held /\ held[name].duration # 0 =>
                    LastsAtLeast(new[name], grants[name] + held[name].activatedAt + held[name].duration)
  BY <1>1, <1>4, <1>5, <1>6, <1>9, ExtendedLasts
<1>10. EntitlementsTyped'
  BY <1>5, <1>6, <1>8, <1>9 DEF EntitlementsTyped
<1>11. \A name \in DOMAIN held : held[name] \in Row
  BY <1>5 DEF EntitlementsTyped
<1>12. ASSUME NEW name \in DOMAIN grants
       PROVE  \/ LastsTo(u, name)' = Forever
              \/ LastsTo(u, name)' >= grants[name] + (IF LastsTo(u, name) > now THEN LastsTo(u, name) ELSE now)
  <2>1. LastsTo(u, name)' = IF new[name].duration = 0 THEN Forever ELSE new[name].activatedAt + new[name].duration
    BY <1>6, <1>8, <1>12 DEF LastsTo, Forever
  <2>2. LastsTo(u, name) = IF name \notin DOMAIN held THEN 0
                           ELSE IF held[name].duration = 0 THEN Forever ELSE held[name].activatedAt + held[name].duration
    BY <1>5 DEF LastsTo
  <2>3. grants[name] \in Nat /\ now \in Nat
    BY <1>1, <1>4, <1>12
  <2>4. CASE new[name].duration = 0
    BY <2>1, <2>4
  <2>5. CASE new[name].duration # 0
    <3>1. name \in DOMAIN held => held[name] \in Row /\ held[name].duration # 0
      BY <1>9, <1>11, <2>5
    <3>2. new[name] \in Row
      BY <1>9
    <3>3. LastsTo(u, name)' >= grants[name] + now
      BY <1>9, <2>1, <2>5 DEF LastsAtLeast
    <3>4. name \in DOMAIN held => LastsTo(u, name)' >= grants[name] + LastsTo(u, name)
      BY <1>9, <1>11, <2>1, <2>2, <2>3, <2>5, <3>1, <3>2 DEF LastsAtLeast, Row
    <3>5. name \notin DOMAIN held => LastsTo(u, name) = 0
      BY <2>2
    <3> QED
      BY <2>3, <3>3, <3>4, <3>5
  <2> QED
    BY <2>4, <2>5
<1>13. purchases'[t].user = u
  BY <1>1, <1>2, RedeemMarks DEF Marks, Ticket
<1>14. TermsKept(t)
  BY <1>2, <1>3, <1>12, <1>13 DEF TermsKept
<1> QED
  BY <1>10, <1>14

\* An entitlement that comes with rank rewards.
LEMMA GrantsNumber ==
    ASSUME NEW u, NEW track \in DOMAIN Tracks, NEW kind \in Kinds, NEW rank \in Nat,
           NEW due \in SUBSET DueAgain(u, track, rank, kind),
           NEW name \in UNION {DOMAIN RewardOf(d).grants : d \in due}
    PROVE  /\ GrantedBy(name, due) \in due
           /\ name \in DOMAIN RewardOf(GrantedBy(name, due)).grants
           /\ RewardOf(GrantedBy(name, due)).grants[name] \in Nat
<1>. DEFINE N == {d \in due : name \in DOMAIN RewardOf(d).grants}
            R == {d.rank : d \in N}
<1>1. \A d \in due : d.rank \in Nat /\ d.track = track /\ d.kind = kind
  BY DEF DueAgain
<1>2. R \subseteq Nat /\ R # {}
  BY <1>1
<1>3. PICK m \in R : \A n \in R : m <= n
  BY <1>2, LeastNumber
<1>4. \E d \in due : name \in DOMAIN RewardOf(d).grants /\ \A e \in due : name \in DOMAIN RewardOf(e).grants => d.rank <= e.rank
  BY <1>3
<1>5. GrantedBy(name, due) \in due /\ name \in DOMAIN RewardOf(GrantedBy(name, due)).grants
  BY <1>4 DEF GrantedBy
<1>6. ASSUME NEW d \in due, name \in DOMAIN RewardOf(d).grants
      PROVE  RewardOf(d).grants[name] \in Nat
  <2>1. RewardOf(d) = RewardForRank(track, d.rank, kind)
    BY <1>1 DEF RewardOf
  <2>2. d.rank \in DOMAIN Tracks[track][kind] /\ RewardOf(d) = Tracks[track][kind][d.rank]
    BY <1>6, <2>1 DEF RewardForRank, NoReward, Empty
  <2> QED
    BY <1>6, <2>2, ProgressionAssumption DEF Kinds
<1> QED
  BY <1>5, <1>6

LEMMA ClaimKeepsTypes ==
    ASSUME EntitlementsTyped, now \in Nat, NEW u \in Users, NEW ch, NEW track \in DOMAIN Tracks,
           NEW kind \in Kinds, NEW rank \in Nat, ClaimRanksUpTo(u, ch, track, rank, kind)
    PROVE  EntitlementsTyped'
<1>1. PICK due : due = Due(u, track, rank, kind)
  OBVIOUS
<1>2. PICK held : held = entitlements[u]
  OBVIOUS
<1>3. PICK names : names = UNION {DOMAIN RewardOf(d).grants : d \in due} \ DOMAIN held
  OBVIOUS
<1>4. PICK new : new = [name \in DOMAIN held \cup names |->
        IF name \in names THEN [duration |-> RewardOf(GrantedBy(name, due)).grants[name], activatedAt |-> now]
        ELSE held[name]]
  OBVIOUS
<1>5. entitlements' = [entitlements EXCEPT ![u] = new]
  BY <1>1, <1>2, <1>3, <1>4 DEF ClaimRanksUpTo
<1>6. due \in SUBSET DueAgain(u, track, rank, kind)
  BY <1>1 DEF Due
<1>7. ASSUME NEW name \in names
      PROVE  new[name] \in Row
  <2>1. RewardOf(GrantedBy(name, due)).grants[name] \in Nat
    BY <1>3, <1>6, <1>7, GrantsNumber
  <2> QED
    BY <1>4, <1>7, <2>1 DEF Row
<1>8. \A name \in DOMAIN held : held[name] \in Row
  BY <1>2 DEF EntitlementsTyped
<1> QED
  BY <1>4, <1>5, <1>7, <1>8 DEF EntitlementsTyped

EntInv == EntitlementsTyped /\ TicketsTyped
RedeemsKeepTerms == \A t \in DOMAIN purchases : Redeems(t) => TermsKept(t)

LEMMA EntitlementsStep ==
    ASSUME EntInv, EconomyStep
    PROVE  EntInv' /\ RedeemsKeepTerms
<1>1. TicketsTyped'
  BY TicketsStep DEF EntInv
<1>2. ASSUME UNCHANGED entitlements
      PROVE  EntitlementsTyped'
  BY <1>2 DEF EntInv, EntitlementsTyped
<1>3. ASSUME UNCHANGED purchases
      PROVE  RedeemsKeepTerms
  BY <1>3 DEF RedeemsKeepTerms, Redeems
<1>5. ASSUME NEW u \in Users, NEW ch \in Characters, NEW sku \in DOMAIN Offers, CreateFreePurchase(u, ch, sku)
      PROVE  EntInv' /\ RedeemsKeepTerms
  <2>1. UNCHANGED entitlements
    BY <1>5 DEF CreateFreePurchase
  <2>2. \A t \in DOMAIN purchases : purchases'[t] = purchases[t]
    BY <1>5, CreateIssues DEF Issues, EntInv
  <2> QED
    BY <1>1, <1>2, <2>1, <2>2 DEF EntInv, RedeemsKeepTerms, Redeems
<1>6. ASSUME NEW t \in DOMAIN purchases, RedeemFreePurchase(t)
      PROVE  EntInv' /\ RedeemsKeepTerms
  <2>1. EntitlementsTyped' /\ TermsKept(t)
    BY <1>6, RedeemKeepsTerms DEF EntInv
  <2>2. \A p \in DOMAIN purchases : p # t => purchases'[p] = purchases[p]
    BY <1>6, RedeemMarks DEF Marks, EntInv
  <2> QED
    BY <1>1, <2>1, <2>2 DEF EntInv, RedeemsKeepTerms, Redeems
<1>7. ASSUME NEW u \in Users, NEW ch \in Characters, NEW track \in DOMAIN Tracks, NEW kind \in Kinds,
             NEW rank \in Nat, ClaimRanksUpTo(u, ch, track, rank, kind), UNCHANGED purchases
      PROVE  EntInv' /\ RedeemsKeepTerms
  BY <1>1, <1>3, <1>7, ClaimKeepsTypes DEF EntInv, TicketsTyped
<1>8. ASSUME UNCHANGED storeVars
      PROVE  EntInv' /\ RedeemsKeepTerms
  BY <1>1, <1>2, <1>3, <1>8 DEF EntInv, storeVars
<1> QED
  BY <1>5, <1>6, <1>7, <1>8 DEF EconomyStep, economyVars

\* No bought time is lost, for any offers, rewards and order of purchases.
THEOREM TermsNeverShortened == Spec => NothingShortened
<1>1. Init => EntInv
  <2>1. Init => EntitlementsTyped
    BY DEF Init, StoreInit, EntitlementsTyped, Empty
  <2> QED
    BY <2>1, TicketsFirst DEF EntInv
<1>2. EntInv /\ [Next]_vars => EntInv' /\ [RedeemsKeepTerms]_economyVars
  BY EconomySteps, EntitlementsStep
<1>3. NothingShortened <=> [][RedeemsKeepTerms]_economyVars
  BY DEF NothingShortened, RedeemsKeepTerms, TermsKept
<1> QED
  BY <1>1, <1>2, <1>3, PTL DEF Spec

---------------------------------------------------------------------------
(* Escalation seasons *)

Season == [level : Nat, xp : Nat, ranks : [DOMAIN Talents -> Nat],
           collected : SUBSET DOMAIN UnlockLevel, version : Nat]

\* A season whose next snapshot is accepted.
Grown(s) == s \in Season /\ Acceptable([s EXCEPT !.version = @ + 1])

\* Acceptable, but for the version.
LevelRight(s) ==
    /\ s.level <= MaxEscalationLevel
    /\ s.level < MaxEscalationLevel => s.xp < ExperienceForNextLevel(s.level)
RanksRight(ranks, level) ==
    /\ \A t \in DOMAIN Talents : ranks[t] <= Len(Talents[t].costs)
    /\ Spent(ranks) <= level
    /\ \A t \in DOMAIN Talents : ranks[t] > 0 /\ Talents[t].gate > 0 => SpentBelow(t, ranks) >= Talents[t].gate
CollectedRight(s) == \A u \in s.collected : s.level >= UnlockLevel[u]

LEMMA GrownParts ==
    ASSUME NEW s \in Season
    PROVE  Grown(s) <=> LevelRight(s) /\ RanksRight(s.ranks, s.level) /\ CollectedRight(s)
<1>1. PICK n : n = [s EXCEPT !.version = @ + 1]
  OBVIOUS
<1>2. /\ n.level = s.level /\ n.xp = s.xp /\ n.ranks = s.ranks /\ n.collected = s.collected
      /\ n.version = s.version + 1 /\ s.version \in Nat
  BY <1>1 DEF Season
<1>3. n.version >= 1
  BY <1>2
<1>4. Acceptable(n) <=> LevelRight(s) /\ RanksRight(s.ranks, s.level) /\ CollectedRight(s)
  BY <1>2, <1>3 DEF Acceptable, LevelRight, RanksRight, CollectedRight
<1> QED
  BY <1>1, <1>4 DEF Grown

AcceptableIsGrown == \A s \in Season : Acceptable(s) => Grown(s)

LEMMA AcceptedIsGrown == AcceptableIsGrown
<1>1. ASSUME NEW s \in Season, Acceptable(s)
      PROVE  LevelRight(s) /\ RanksRight(s.ranks, s.level) /\ CollectedRight(s)
  BY <1>1 DEF Acceptable, LevelRight, RanksRight, CollectedRight
<1> QED
  BY <1>1, GrownParts DEF AcceptableIsGrown

---------------------------------------------------------------------------
(* Points spent on talents *)

Ranks == [DOMAIN Talents -> Nat]

\* Ranks that a talent has.
Within(ranks) == ranks \in Ranks /\ \A t \in DOMAIN Talents : ranks[t] <= Len(Talents[t].costs)

LEMMA CostIsNat ==
    ASSUME NEW t \in DOMAIN Talents, NEW r \in Nat, r <= Len(Talents[t].costs)
    PROVE  /\ [k \in 1 .. r |-> Talents[t].costs[k]] \in [1 .. r -> Nat]
           /\ TalentRankCost(t, r) \in Nat
           /\ r = 0 => TalentRankCost(t, r) = 0
           /\ r < Len(Talents[t].costs) => /\ Talents[t].costs[r + 1] \in Nat
                                            /\ TalentRankCost(t, r + 1) = Talents[t].costs[r + 1] + TalentRankCost(t, r)
<1>0. PICK n \in Nat : n = Len(Talents[t].costs) /\ Talents[t].costs \in [1 .. n -> Nat]
  BY EscalationAssumption, LenProperties
<1>1. PICK costs \in [1 .. n -> Nat] : costs = Talents[t].costs /\ n = Len(costs)
  BY <1>0
<1>. DEFINE f(k) == [j \in 1 .. k |-> costs[j]]
<1>2. ASSUME NEW k \in 0 .. n
      PROVE  f(k) \in [1 .. k -> Nat] /\ IsFiniteSet(1 .. k)
  <2>1. 1 \in Int /\ k \in Int
    OBVIOUS
  <2>2. IsFiniteSet(1 .. k)
    BY <2>1, FS_Interval
  <2> QED
    BY <2>2
<1>3. \A k : TalentRankCost(t, k) = SumOf(f(k))
  BY <1>1, Zenon DEF TalentRankCost, SumOf
<1>4. ASSUME r < n
      PROVE  SumOf(f(r + 1)) = costs[r + 1] + SumOf(f(r))
  <2>1. r + 1 \in 0 .. n /\ r + 1 \in 1 .. r + 1 /\ (1 .. r + 1) \ {r + 1} = 1 .. r
    BY <1>4
  <2>2. f(r + 1)[r + 1] = costs[r + 1] /\ AllBut(f(r), f(r + 1), 1 .. r + 1, r + 1)
    BY <1>2, <2>1 DEF AllBut
  <2>3. f(r + 1) \in [1 .. r + 1 -> Nat] /\ IsFiniteSet(1 .. r + 1)
    BY <1>2, <2>1
  <2>. HIDE DEF f
  <2> QED
    BY <2>1, <2>2, <2>3, SumTakesOneOut
<1>5. r \in 0 .. n
  BY <1>1
<1>6. SumOf(f(r)) \in Nat
  <2>1. f(r) \in [1 .. r -> Nat] /\ IsFiniteSet(1 .. r)
    BY <1>2, <1>5
  <2>. HIDE DEF f
  <2> QED
    BY <2>1, SumIsNat
<1>7. r = 0 => SumOf(f(r)) = 0
  <2>1. r = 0 => f(r) \in [{} -> Nat]
    OBVIOUS
  <2>. HIDE DEF f
  <2> QED
    BY <2>1, SumOfNothing
<1> QED
  <2>1. [k \in 1 .. r |-> Talents[t].costs[k]] \in [1 .. r -> Nat]
    BY <1>1, <1>2, <1>5
  <2>2. TalentRankCost(t, r) \in Nat /\ (r = 0 => TalentRankCost(t, r) = 0)
    BY <1>3, <1>6, <1>7
  <2>3. r < Len(Talents[t].costs) => /\ Talents[t].costs[r + 1] \in Nat
                                      /\ TalentRankCost(t, r + 1) = Talents[t].costs[r + 1] + TalentRankCost(t, r)
    <3>1. TalentRankCost(t, r + 1) = SumOf(f(r + 1)) /\ TalentRankCost(t, r) = SumOf(f(r))
      BY <1>3
    <3>2. r < n => costs[r + 1] \in Nat
      OBVIOUS
    <3>. HIDE DEF f
    <3> QED
      BY <1>1, <1>4, <3>1, <3>2
  <2> QED
    BY <2>1, <2>2, <2>3

CostOf(ranks, set) == [t \in set |-> TalentRankCost(t, ranks[t])]

LEMMA SpentIsSum ==
    ASSUME NEW ranks, Within(ranks), NEW set \in SUBSET DOMAIN Talents
    PROVE  /\ IsFiniteSet(set) /\ CostOf(ranks, set) \in [set -> Nat]
           /\ SpentOn(set, ranks) = SumOf(CostOf(ranks, set)) /\ SpentOn(set, ranks) \in Nat
<1>1. IsFiniteSet(set)
  BY EscalationAssumption, FS_Subset
<1>2. CostOf(ranks, set) \in [set -> Nat]
  BY CostIsNat DEF CostOf, Within, Ranks
<1>3. SpentOn(set, ranks) = SumOf(CostOf(ranks, set))
  BY Zenon DEF SpentOn, SumOf, CostOf
<1> QED
  BY <1>1, <1>2, <1>3, SumIsNat

\* Talents without a rank cost nothing.
LEMMA UnspentLeftOut ==
    ASSUME NEW ranks, Within(ranks), NEW set \in SUBSET DOMAIN Talents, NEW part \in SUBSET set,
           \A o \in set \ part : ranks[o] = 0
    PROVE  SpentOn(set, ranks) = SpentOn(part, ranks)
<1>1. PICK f : f = CostOf(ranks, set)
  OBVIOUS
<1>2. PICK g : g = CostOf(ranks, part)
  OBVIOUS
<1>3. IsFiniteSet(set) /\ f \in [set -> Nat] /\ SpentOn(set, ranks) = SumOf(f)
  BY <1>1, SpentIsSum
<1>4. g \in [part -> Nat] /\ SpentOn(part, ranks) = SumOf(g)
  <2>1. part \in SUBSET DOMAIN Talents
    OBVIOUS
  <2> QED
    BY <1>2, <2>1, SpentIsSum
<1>5. \A o \in part : g[o] = f[o]
  BY <1>1, <1>2 DEF CostOf
<1>6. ASSUME NEW o \in set \ part
      PROVE  f[o] = 0
  <2>1. ranks[o] = 0 /\ 0 \in Nat /\ 0 <= Len(Talents[o].costs)
    BY EscalationAssumption, LenProperties
  <2>2. TalentRankCost(o, 0) = 0
    BY <2>1, CostIsNat
  <2> QED
    BY <1>1, <2>1, <2>2 DEF CostOf
<1> QED
  BY <1>3, <1>4, <1>5, <1>6, SumOfPart

LEMMA RankRaised ==
    ASSUME NEW ranks, Within(ranks), NEW t \in DOMAIN Talents, ranks[t] < Len(Talents[t].costs),
           NEW new, new = [ranks EXCEPT ![t] = @ + 1]
    PROVE  /\ Within(new)
           /\ Spent(new) = Spent(ranks) + Talents[t].costs[ranks[t] + 1]
           /\ \A set \in SUBSET DOMAIN Talents : SpentOn(set, ranks) <= SpentOn(set, new)
<1>1. \A o \in DOMAIN Talents : Len(Talents[o].costs) \in Nat
  BY EscalationAssumption, LenProperties
<1>2. /\ new \in Ranks /\ new[t] = ranks[t] + 1 /\ ranks[t] \in Nat
      /\ \A o \in DOMAIN Talents : o # t => new[o] = ranks[o]
  BY DEF Within, Ranks
<1>3. Within(new)
  BY <1>1, <1>2 DEF Within
<1>4. /\ TalentRankCost(t, ranks[t] + 1) = Talents[t].costs[ranks[t] + 1] + TalentRankCost(t, ranks[t])
      /\ Talents[t].costs[ranks[t] + 1] \in Nat /\ TalentRankCost(t, ranks[t]) \in Nat
  BY <1>1, <1>2, CostIsNat
<1>5. ASSUME NEW o \in DOMAIN Talents
      PROVE  TalentRankCost(o, ranks[o]) <= TalentRankCost(o, new[o])
  <2>1. TalentRankCost(o, ranks[o]) \in Nat
    BY CostIsNat DEF Within, Ranks
  <2> QED
    BY <1>2, <1>4, <2>1
<1>6. ASSUME NEW set \in SUBSET DOMAIN Talents
      PROVE  SpentOn(set, ranks) <= SpentOn(set, new)
  <2>1. PICK f : f = CostOf(ranks, set)
    OBVIOUS
  <2>2. PICK g : g = CostOf(new, set)
    OBVIOUS
  <2>3. IsFiniteSet(set) /\ f \in [set -> Nat] /\ SpentOn(set, ranks) = SumOf(f)
    BY <2>1, SpentIsSum
  <2>4. g \in [set -> Nat] /\ SpentOn(set, new) = SumOf(g)
    BY <1>3, <2>2, SpentIsSum
  <2>5. \A o \in set : f[o] <= g[o]
    BY <1>5, <2>1, <2>2 DEF CostOf
  <2> QED
    BY <2>3, <2>4, <2>5, SumGrows
<1>7. Spent(new) = Spent(ranks) + Talents[t].costs[ranks[t] + 1]
  <2>1. PICK S : S = DOMAIN Talents
    OBVIOUS
  <2>2. PICK f : f = CostOf(ranks, S)
    OBVIOUS
  <2>3. PICK g : g = CostOf(new, S)
    OBVIOUS
  <2>4. PICK h : h = CostOf(ranks, S \ {t})
    OBVIOUS
  <2>5. IsFiniteSet(S) /\ f \in [S -> Nat] /\ SpentOn(S, ranks) = SumOf(f)
    BY <2>1, <2>2, SpentIsSum
  <2>6. g \in [S -> Nat] /\ SpentOn(S, new) = SumOf(g)
    BY <1>3, <2>1, <2>3, SpentIsSum
  <2>7. h \in [S \ {t} -> Nat]
    <3>1. S \ {t} \in SUBSET DOMAIN Talents
      BY <2>1
    <3> QED
      BY <2>4, <3>1, SpentIsSum
  <2>8. AllBut(h, f, S, t) /\ AllBut(h, g, S, t)
    BY <1>2, <2>1, <2>2, <2>3, <2>4, <2>7 DEF AllBut, CostOf
  <2>9. SumOf(f) = f[t] + SumOf(h) /\ SumOf(g) = g[t] + SumOf(h)
    BY <2>1, <2>5, <2>6, <2>8, SumTakesOneOut
  <2>10. SumOf(h) \in Nat
    <3>1. IsFiniteSet(S \ {t})
      BY <2>5, FS_Subset
    <3> QED
      BY <2>7, <3>1, SumIsNat
  <2>11. f[t] = TalentRankCost(t, ranks[t]) /\ g[t] = TalentRankCost(t, ranks[t] + 1)
    BY <1>2, <2>1, <2>2, <2>3 DEF CostOf
  <2> QED
    BY <1>4, <2>1, <2>5, <2>6, <2>9, <2>10, <2>11 DEF Spent
<1> QED
  BY <1>3, <1>6, <1>7

\* The native rule counts points spent anywhere, the rules of a snapshot only those in earlier
\* tiers: in a season that respects the latter, enough of the former are enough of the latter.
LEMMA TiersOpenInOrder ==
    ASSUME NEW ranks, Within(ranks), NEW t \in DOMAIN Talents, Spent(ranks) >= Talents[t].gate,
           \A o \in DOMAIN Talents : ranks[o] > 0 /\ Talents[o].gate > 0 => SpentBelow(o, ranks) >= Talents[o].gate
    PROVE  SpentBelow(t, ranks) >= Talents[t].gate \/ Talents[t].gate = 0
<1>. DEFINE Below(o) == {x \in DOMAIN Talents : Talents[x].gate < Talents[o].gate}
            Later == {o \in DOMAIN Talents : ranks[o] > 0 /\ Talents[o].gate >= Talents[t].gate}
            Gates == {Talents[o].gate : o \in Later}
<1>1. \A o \in DOMAIN Talents : Talents[o].gate \in Nat /\ ranks[o] \in Nat
  BY EscalationAssumption DEF Within, Ranks
<1>2. \A o \in DOMAIN Talents : SpentBelow(o, ranks) = SpentOn(Below(o), ranks)
  BY DEF SpentBelow
<1>3. CASE Later = {}
  <2>1. \A x \in DOMAIN Talents \ Below(t) : ranks[x] = 0
    BY <1>1, <1>3
  <2>2. SpentOn(DOMAIN Talents, ranks) = SpentOn(Below(t), ranks)
    BY <2>1, UnspentLeftOut
  <2> QED
    BY <1>2, <2>2 DEF Spent
<1>4. CASE Later # {}
  <2>1. Gates # {} /\ Gates \subseteq Nat
    BY <1>1, <1>4
  <2>2. PICK m \in Gates : \A n \in Gates : m <= n
    BY <2>1, LeastNumber
  <2>3. PICK o \in Later : m = Talents[o].gate
    BY <2>2
  <2>4. \A x \in Later : Talents[o].gate <= Talents[x].gate
    BY <2>2, <2>3
  <2>5. Below(t) \subseteq Below(o) /\ \A x \in Below(o) \ Below(t) : ranks[x] = 0
    BY <1>1, <2>3, <2>4
  <2>6. SpentOn(Below(o), ranks) = SpentOn(Below(t), ranks)
    BY <2>5, UnspentLeftOut
  <2>7. SpentOn(Below(o), ranks) \in Nat
    BY SpentIsSum
  <2>8. Talents[o].gate > 0 => SpentBelow(o, ranks) >= Talents[o].gate
    BY <2>3
  <2> QED
    BY <1>1, <1>2, <2>3, <2>6, <2>7, <2>8
<1> QED
  BY <1>3, <1>4

LEMMA NothingSpent ==
    /\ NewSeason \in Season /\ Grown(NewSeason)
    /\ \A level \in Nat : RanksRight(NewSeason.ranks, level)
<1>1. PICK none : none = [t \in DOMAIN Talents |-> 0]
  OBVIOUS
<1>2. NewSeason.ranks = none /\ NewSeason \in Season
  BY <1>1 DEF NewSeason, Season
<1>3. Within(none)
  BY <1>1, EscalationAssumption, LenProperties DEF Within, Ranks
<1>4. Spent(none) = 0
  <2>1. SpentOn(DOMAIN Talents, none) = SpentOn({}, none)
    BY <1>1, <1>3, UnspentLeftOut
  <2>2. CostOf(none, {}) \in [{} -> Nat] /\ SpentOn({}, none) = SumOf(CostOf(none, {}))
    BY <1>3, SpentIsSum
  <2>3. SumOf(CostOf(none, {})) = 0
    BY <2>2, SumOfNothing
  <2> QED
    BY <2>1, <2>2, <2>3 DEF Spent
<1>5. ASSUME NEW level \in Nat
      PROVE  RanksRight(none, level)
  BY <1>1, <1>3, <1>4 DEF RanksRight, Within
<1>6. LevelRight(NewSeason) /\ CollectedRight(NewSeason) /\ NewSeason.level = 0
  <2>1. Len(LevelCosts) \in Nat /\ (0 < Len(LevelCosts) => LevelCosts[0 + 1] \in Nat \ {0})
    BY EscalationAssumption, LenProperties
  <2> QED
    BY <2>1 DEF LevelRight, CollectedRight, NewSeason, MaxEscalationLevel, ExperienceForNextLevel
<1>7. Grown(NewSeason)
  BY <1>2, <1>5, <1>6, GrownParts
<1> QED
  BY <1>2, <1>5, <1>7

EscalationInv ==
    /\ Grown(native) /\ Grown(season) /\ posted \subseteq Season
    /\ season.version = 0 => season = NewSeason

LEMMA NativeRight ==
    ASSUME NEW s, Grown(s)
    PROVE  /\ s \in Season /\ LevelRight(s) /\ RanksRight(s.ranks, s.level) /\ CollectedRight(s)
           /\ Within(s.ranks)
           /\ Spent(s.ranks) \in Nat
<1>1. s \in Season
  BY DEF Grown
<1>2. LevelRight(s) /\ RanksRight(s.ranks, s.level) /\ CollectedRight(s)
  BY <1>1, GrownParts
<1>3. Within(s.ranks)
  BY <1>1, <1>2 DEF Within, Ranks, RanksRight, Season
<1> QED
  BY <1>1, <1>2, <1>3, SpentIsSum DEF Spent

LEMMA ExperienceGrows ==
    ASSUME Grown(native), GrantExperience
    PROVE  Grown(native')
<1>1. PICK s : s = native
  OBVIOUS
<1>2. PICK n : n = native'
  OBVIOUS
<1>3. s \in Season /\ LevelRight(s) /\ RanksRight(s.ranks, s.level) /\ CollectedRight(s) /\ Spent(s.ranks) \in Nat
  BY <1>1, NativeRight
<1>4. Len(LevelCosts) \in Nat /\ \A i \in 1 .. Len(LevelCosts) : LevelCosts[i] \in Nat \ {0}
  BY EscalationAssumption, LenProperties
<1>5. s.level \in Nat /\ s.xp \in Nat /\ s.level <= Len(LevelCosts)
  BY <1>3 DEF Season, LevelRight, MaxEscalationLevel
<1>6. CASE s.level = Len(LevelCosts)
  <2>1. n = [s EXCEPT !.xp = @ + 1]
    BY <1>1, <1>2, <1>6 DEF GrantExperience, MaxEscalationLevel
  <2>2. n \in Season /\ n.level = s.level /\ n.ranks = s.ranks /\ n.collected = s.collected
    BY <1>3, <2>1 DEF Season
  <2>3. LevelRight(n) /\ CollectedRight(n)
    BY <1>3, <1>4, <1>6, <2>2 DEF LevelRight, CollectedRight, MaxEscalationLevel
  <2> QED
    BY <1>2, <1>3, <2>2, <2>3, GrownParts
<1>7. CASE s.level # Len(LevelCosts) /\ s.xp + 1 = LevelCosts[s.level + 1]
  <2>1. n = [s EXCEPT !.level = @ + 1, !.xp = 0]
    BY <1>1, <1>2, <1>7 DEF GrantExperience, MaxEscalationLevel, ExperienceForNextLevel
  <2>2. n \in Season /\ n.level = s.level + 1 /\ n.xp = 0 /\ n.ranks = s.ranks /\ n.collected = s.collected
    <3>1. PICK m \in Nat : m = s.level + 1
      BY <1>5
    <3>2. n = [s EXCEPT !.level = m, !.xp = 0]
      BY <1>3, <2>1, <3>1 DEF Season
    <3> QED
      BY <1>3, <3>1, <3>2 DEF Season
  <2>3. LevelRight(n)
    <3>1. n.level <= Len(LevelCosts)
      BY <1>4, <1>5, <1>7, <2>2
    <3>2. n.level < Len(LevelCosts) => n.level + 1 \in 1 .. Len(LevelCosts)
      BY <1>4, <1>5, <2>2
    <3> QED
      BY <1>4, <2>2, <3>1, <3>2 DEF LevelRight, MaxEscalationLevel, ExperienceForNextLevel
  <2>4. CollectedRight(n)
    <3>1. \A u \in s.collected : UnlockLevel[u] \in Nat
      BY <1>3, EscalationAssumption DEF Season
    <3> QED
      BY <1>3, <1>5, <2>2, <3>1 DEF CollectedRight
  <2>5. RanksRight(n.ranks, n.level)
    BY <1>3, <1>5, <2>2 DEF RanksRight
  <2> QED
    BY <1>2, <2>2, <2>3, <2>4, <2>5, GrownParts
<1>8. CASE s.level # Len(LevelCosts) /\ s.xp + 1 # LevelCosts[s.level + 1]
  <2>1. n = [s EXCEPT !.xp = @ + 1]
    BY <1>1, <1>2, <1>8 DEF GrantExperience, MaxEscalationLevel, ExperienceForNextLevel
  <2>2. n \in Season /\ n.level = s.level /\ n.xp = s.xp + 1 /\ n.ranks = s.ranks /\ n.collected = s.collected
    BY <1>3, <2>1 DEF Season
  <2>3. s.level + 1 \in 1 .. Len(LevelCosts)
    BY <1>4, <1>5, <1>8
  <2>4. s.xp < LevelCosts[s.level + 1]
    BY <1>3, <1>5, <1>4, <1>8 DEF LevelRight, MaxEscalationLevel, ExperienceForNextLevel
  <2>5. LevelRight(n)
    BY <1>4, <1>5, <1>8, <2>2, <2>3, <2>4 DEF LevelRight, MaxEscalationLevel, ExperienceForNextLevel
  <2>6. CollectedRight(n)
    BY <1>3, <2>2 DEF CollectedRight
  <2> QED
    BY <1>2, <1>3, <2>2, <2>5, <2>6, GrownParts
<1> QED
  BY <1>6, <1>7, <1>8

LEMMA TalentGrows ==
    ASSUME Grown(native), NEW t \in DOMAIN Talents, UpgradeTalent(t)
    PROVE  Grown(native')
<1>1. PICK s : s = native
  OBVIOUS
<1>2. PICK n : n = native'
  OBVIOUS
<1>3. /\ s \in Season /\ LevelRight(s) /\ RanksRight(s.ranks, s.level) /\ CollectedRight(s)
      /\ Within(s.ranks) /\ Spent(s.ranks) \in Nat
  BY <1>1, NativeRight
<1>4. PICK ranks : ranks = s.ranks
  OBVIOUS
<1>5. PICK new : new = [ranks EXCEPT ![t] = @ + 1]
  OBVIOUS
<1>6. /\ ranks[t] < Len(Talents[t].costs) /\ Spent(ranks) >= Talents[t].gate
      /\ Spent(ranks) + Talents[t].costs[ranks[t] + 1] <= s.level
      /\ n = [s EXCEPT !.ranks[t] = @ + 1]
  BY <1>1, <1>2, <1>4 DEF UpgradeTalent
<1>7. n = [s EXCEPT !.ranks = new]
  BY <1>4, <1>5, <1>6
<1>8. /\ Within(new) /\ Spent(new) = Spent(ranks) + Talents[t].costs[ranks[t] + 1]
      /\ \A set \in SUBSET DOMAIN Talents : SpentOn(set, ranks) <= SpentOn(set, new)
  BY <1>3, <1>4, <1>5, <1>6, RankRaised
<1>9. n \in Season /\ n.level = s.level /\ n.xp = s.xp /\ n.ranks = new /\ n.collected = s.collected
  BY <1>3, <1>7, <1>8 DEF Season, Within, Ranks
<1>10. LevelRight(n) /\ CollectedRight(n)
  BY <1>3, <1>9 DEF LevelRight, CollectedRight
<1>11. ASSUME NEW o \in DOMAIN Talents
       PROVE  /\ SpentBelow(o, ranks) \in Nat /\ SpentBelow(o, new) \in Nat
              /\ SpentBelow(o, ranks) <= SpentBelow(o, new)
  <2>1. PICK set \in SUBSET DOMAIN Talents : set = {x \in DOMAIN Talents : Talents[x].gate < Talents[o].gate}
    OBVIOUS
  <2>2. SpentBelow(o, ranks) = SpentOn(set, ranks) /\ SpentBelow(o, new) = SpentOn(set, new)
    BY <2>1 DEF SpentBelow
  <2> QED
    BY <1>3, <1>4, <1>8, <2>2, SpentIsSum
<1>12. ASSUME NEW o \in DOMAIN Talents, new[o] > 0, Talents[o].gate > 0
       PROVE  SpentBelow(o, new) >= Talents[o].gate
  <2>1. Talents[o].gate \in Nat
    BY EscalationAssumption
  <2>2. SpentBelow(o, ranks) >= Talents[o].gate
    <3>1. CASE ranks[o] > 0
      BY <1>3, <1>4, <1>12, <3>1 DEF RanksRight
    <3>2. CASE ~(ranks[o] > 0)
      <4>1. o = t
        BY <1>3, <1>4, <1>5, <1>12, <3>2 DEF Within, Ranks
      <4>2. \A x \in DOMAIN Talents : ranks[x] > 0 /\ Talents[x].gate > 0 => SpentBelow(x, ranks) >= Talents[x].gate
        BY <1>3, <1>4 DEF RanksRight
      <4>3. SpentBelow(t, ranks) >= Talents[t].gate \/ Talents[t].gate = 0
        BY <1>3, <1>4, <1>6, <4>2, TiersOpenInOrder
      <4> QED
        BY <1>12, <4>1, <4>3
    <3> QED
      BY <3>1, <3>2
  <2> QED
    BY <1>11, <2>1, <2>2
<1>13. RanksRight(n.ranks, n.level)
  BY <1>6, <1>8, <1>9, <1>12 DEF RanksRight, Within
<1> QED
  BY <1>2, <1>9, <1>10, <1>13, GrownParts

KeepsSeason ==
    season' # season =>
        /\ season'.version > season.version /\ season'.version \notin DOMAIN events
        /\ ~Lowers(season, season')
        /\ season.collected \subseteq season'.collected

LEMMA SeasonApplied ==
    ASSUME EscalationInv, NEW s \in posted, ApplyEscalationSnapshot(s)
    PROVE  EscalationInv' /\ KeepsSeason
<1>1. s \in Season /\ Acceptable(s) /\ season' = s /\ UNCHANGED <<native, posted>>
  BY DEF EscalationInv, ApplyEscalationSnapshot
<1>2. Grown(s) /\ s.version >= 1
  BY <1>1, AcceptedIsGrown DEF AcceptableIsGrown, Acceptable
<1>3. EscalationInv'
  BY <1>1, <1>2 DEF EscalationInv, Season
<1>4. s.version \notin DOMAIN events /\ IsProgress(s)
  BY DEF ApplyEscalationSnapshot
<1>5. season \in Season
  BY DEF EscalationInv, Grown
<1>6. s.version > season.version /\ ~Lowers(season, s)
  <2>1. CASE season.version > 0
    BY <1>4, <2>1 DEF IsProgress
  <2>2. CASE season.version = 0
    <3>1. season.level = 0 /\ season.xp = 0
      BY <2>2 DEF EscalationInv, NewSeason
    <3> QED
      BY <1>1, <1>2, <2>2, <3>1 DEF Lowers, Season
  <2> QED
    BY <1>5, <2>1, <2>2 DEF Season
<1> QED
  BY <1>1, <1>3, <1>4, <1>6 DEF KeepsSeason, IsProgress

LEMMA EscalationStep ==
    ASSUME EscalationInv, EscalationNext
    PROVE  EscalationInv' /\ KeepsSeason
<1>1. ASSUME Grown(native'), UNCHANGED season, posted' \subseteq Season
      PROVE  EscalationInv' /\ KeepsSeason
  BY <1>1 DEF EscalationInv, KeepsSeason
<1>2. native \in Season /\ season \in Season
  BY DEF EscalationInv, Grown
<1>3. CASE GetEscalationState
  BY <1>1, <1>3 DEF GetEscalationState, EscalationInv
<1>4. CASE GrantExperience
  <2>1. Grown(native')
    BY <1>4, ExperienceGrows DEF EscalationInv
  <2> QED
    BY <1>1, <1>4, <2>1 DEF GrantExperience, EscalationInv
<1>5. ASSUME NEW t \in DOMAIN Talents, UpgradeTalent(t)
      PROVE  EscalationInv' /\ KeepsSeason
  <2>1. Grown(native')
    BY <1>5, TalentGrows DEF EscalationInv
  <2> QED
    BY <1>1, <1>5, <2>1 DEF UpgradeTalent, EscalationInv
<1>6. CASE ResetTalents
  <2>1. PICK s : s = native
    OBVIOUS
  <2>2. PICK n : n = native'
    OBVIOUS
  <2>3. n = [s EXCEPT !.ranks = NewSeason.ranks]
    BY <1>6, <2>1, <2>2 DEF ResetTalents
  <2>4. s \in Season /\ LevelRight(s) /\ CollectedRight(s)
    BY <2>1, NativeRight DEF EscalationInv
  <2>5. /\ n \in Season /\ n.level = s.level /\ n.xp = s.xp /\ n.ranks = NewSeason.ranks
        /\ n.collected = s.collected /\ n.level \in Nat
    BY <2>3, <2>4, NothingSpent DEF Season
  <2>6. LevelRight(n) /\ CollectedRight(n)
    BY <2>4, <2>5 DEF LevelRight, CollectedRight
  <2>7. RanksRight(n.ranks, n.level)
    BY <2>5, NothingSpent
  <2>8. Grown(native')
    BY <2>2, <2>5, <2>6, <2>7, GrownParts
  <2> QED
    BY <1>1, <1>6, <2>8 DEF ResetTalents, EscalationInv
<1>7. ASSUME NEW u \in DOMAIN UnlockLevel, CollectUnlock(u)
      PROVE  EscalationInv' /\ KeepsSeason
  <2>1. PICK s : s = native
    OBVIOUS
  <2>2. PICK n : n = native'
    OBVIOUS
  <2>3. n = [s EXCEPT !.collected = @ \cup {u}] /\ s.level >= UnlockLevel[u]
    BY <1>7, <2>1, <2>2 DEF CollectUnlock
  <2>4. s \in Season /\ LevelRight(s) /\ RanksRight(s.ranks, s.level) /\ CollectedRight(s)
    BY <2>1, NativeRight DEF EscalationInv
  <2>5. /\ n \in Season /\ n.level = s.level /\ n.xp = s.xp /\ n.ranks = s.ranks
        /\ n.collected = s.collected \cup {u}
    BY <2>3, <2>4 DEF Season
  <2>6. LevelRight(n) /\ CollectedRight(n)
    BY <2>3, <2>4, <2>5 DEF LevelRight, CollectedRight
  <2>7. Grown(native')
    BY <2>2, <2>4, <2>5, <2>6, GrownParts
  <2> QED
    BY <1>1, <1>7, <2>7 DEF CollectUnlock, EscalationInv
<1>8. CASE UpdateSeasonalEscalation
  <2>1. PICK s : s = native
    OBVIOUS
  <2>2. PICK n : n = native'
    OBVIOUS
  <2>3. n = [s EXCEPT !.version = @ + 1]
    BY <1>8, <2>1, <2>2 DEF UpdateSeasonalEscalation
  <2>4. s \in Season /\ LevelRight(s) /\ RanksRight(s.ranks, s.level) /\ CollectedRight(s)
    BY <2>1, NativeRight DEF EscalationInv
  <2>5. /\ n \in Season /\ n.level = s.level /\ n.xp = s.xp /\ n.ranks = s.ranks
        /\ n.collected = s.collected
    BY <2>3, <2>4 DEF Season
  <2>6. LevelRight(n) /\ CollectedRight(n)
    BY <2>4, <2>5 DEF LevelRight, CollectedRight
  <2>7. Grown(native')
    BY <2>2, <2>4, <2>5, <2>6, GrownParts
  <2>8. posted' \subseteq Season
    BY <1>8, <2>2, <2>5 DEF UpdateSeasonalEscalation, EscalationInv
  <2> QED
    BY <1>1, <1>8, <2>7, <2>8 DEF UpdateSeasonalEscalation
<1> QED
  BY <1>3, <1>4, <1>5, <1>6, <1>7, <1>8, SeasonApplied DEF EscalationNext

LEMMA EscalationKept ==
    /\ Init => EscalationInv
    /\ EscalationInv /\ [Next]_vars => EscalationInv' /\ [KeepsSeason]_escalationVars
<1>1. Init => EscalationInv
  BY NothingSpent DEF Init, EscalationInit, EscalationInv
<1>2. ASSUME EscalationInv, UNCHANGED escalationVars
      PROVE  EscalationInv'
  BY <1>2 DEF EscalationInv, escalationVars
<1>3. [Next]_vars => EscalationNext \/ UNCHANGED escalationVars
  BY DEF Next, Trade, Progress, BountyBoard, EscalationSeason, Saves, vars, escalationVars
<1> QED
  BY <1>1, <1>2, <1>3, EscalationStep

\* Whatever a native season grew through, on whichever copy of the stored one, the metagame's
\* rules accept what it posts next: for any level costs, talents, tiers and rewards.
THEOREM NativeAlwaysAccepted == Spec => []NativeAccepted
<1>1. EscalationInv => NativeAccepted
  BY DEF EscalationInv, Grown, NativeAccepted
<1> QED
  BY <1>1, EscalationKept, PTL DEF Spec

\* A stored season only ever gains, whichever posts are lost, repeated or late.
THEOREM SeasonsStayKept == Spec => SeasonKept
<1>1. SeasonKept <=> [][KeepsSeason]_escalationVars
  BY DEF SeasonKept, KeepsSeason
<1> QED
  BY <1>1, EscalationKept, PTL DEF Spec

---------------------------------------------------------------------------
(* Tracks and their rewards *)

TrackRow == [points : Nat, generation : Nat, free : Nat, premium : Nat]
Claim == [user : Users, track : DOMAIN Tracks, generation : Nat, rank : Nat, kind : Kinds]

\* What was paid belongs to this generation of its track or to an earlier one: the next is
\* all unpaid.
RewardsInv ==
    /\ tracks \in [Users -> [DOMAIN Tracks -> TrackRow]]
    /\ claims \subseteq Claim
    /\ \A d \in claims : d.generation <= tracks[d.user][d.track].generation
    /\ RewardsHonest

LEMMA PointsAreNumbers ==
    ASSUME NEW t \in DOMAIN Tracks, NEW r \in DOMAIN Tracks[t].costs
    PROVE  PointsFor(t, r) \in Nat
<1>. DEFINE f == [k \in 1 .. r |-> Tracks[t].costs[k]]
<1>1. Tracks[t].costs \in Seq(Nat)
  BY ProgressionAssumption
<1>2. r \in 1 .. Len(Tracks[t].costs) /\ Len(Tracks[t].costs) \in Nat
  BY <1>1, LenProperties
<1>3. \A k \in 1 .. r : Tracks[t].costs[k] \in Nat
  BY <1>1, <1>2, ElementOfSeq
<1>4. f \in [1 .. r -> Nat] /\ IsFiniteSet(1 .. r)
  <2>1. r \in Int /\ 1 \in Int
    BY <1>2
  <2> QED
    BY <1>3, <2>1, FS_Interval
<1>5. PointsFor(t, r) = SumOf(f)
  BY Zenon DEF PointsFor, Total, SumOf
<1>. HIDE DEF f
<1> QED
  BY <1>4, <1>5, SumIsNat

LEMMA RanksGrow ==
    ASSUME NEW t \in DOMAIN Tracks, NEW p \in Nat, NEW q \in Nat, p <= q
    PROVE  DeriveRank(t, p) \in Nat /\ DeriveRank(t, p) <= DeriveRank(t, q)
<1>. DEFINE Reached(n) == {r \in DOMAIN Tracks[t].costs : PointsFor(t, r) <= n}
<1>1. Tracks[t].costs \in Seq(Nat)
  BY ProgressionAssumption
<1>2. IsFiniteSet(DOMAIN Tracks[t].costs)
  BY <1>1, LenProperties, FS_Interval
<1>3. \A n \in Nat : IsFiniteSet(Reached(n)) /\ Cardinality(Reached(n)) \in Nat
  BY <1>2, FS_Subset, FS_CardinalityType
<1>4. Reached(p) \subseteq Reached(q)
  BY PointsAreNumbers
<1>5. Cardinality(Reached(p)) <= Cardinality(Reached(q))
  <2>. HIDE DEF Reached
  <2> QED
    BY <1>3, <1>4, FS_Subset
<1>6. \A n \in Nat : DeriveRank(t, n) = Cardinality(Reached(n))
  BY DEF DeriveRank
<1>. HIDE DEF Reached
<1> QED
  BY <1>3, <1>5, <1>6

LEMMA TrackTypes ==
    ASSUME RewardsInv, NEW u \in Users, NEW t \in DOMAIN Tracks
    PROVE  /\ tracks[u][t] \in TrackRow
           /\ tracks[u][t].points \in Nat /\ tracks[u][t].generation \in Nat
           /\ tracks[u][t].free \in Nat /\ tracks[u][t].premium \in Nat
           /\ \A kind \in Kinds : tracks[u][t][kind] \in Nat
           /\ Earned(u, t) \in Nat
<1>1. tracks[u][t] \in TrackRow
  BY DEF RewardsInv
<1>2. /\ tracks[u][t].points \in Nat /\ tracks[u][t].generation \in Nat
      /\ tracks[u][t].free \in Nat /\ tracks[u][t].premium \in Nat
  BY <1>1 DEF TrackRow
<1>3. Earned(u, t) \in Nat
  BY <1>2, RanksGrow DEF Earned
<1> QED
  BY <1>1, <1>2, <1>3 DEF Kinds

LEMMA HonestOf ==
    ASSUME RewardsInv, NEW u \in Users, NEW t \in DOMAIN Tracks, NEW kind \in Kinds
    PROVE  /\ tracks[u][t][kind] <= Earned(u, t)
           /\ PaidRanks(u, t, kind) = 0 .. tracks[u][t][kind] \/ (PaidRanks(u, t, kind) = {} /\ tracks[u][t][kind] = 0)
BY DEF RewardsInv, RewardsHonest

\* A confirmed rank pays 0 up to it: what was paid stays without a gap.
LEMMA RewardsConfirmed ==
    ASSUME RewardsInv, NEW u \in Users, NEW ch, NEW t \in DOMAIN Tracks, NEW kind \in Kinds,
           NEW rank \in Nat, ConfirmRank(u, ch, t, rank, kind)
    PROVE  RewardsInv'
<1>1. PICK n : n = Min({rank, Earned(u, t)})
  OBVIOUS
<1>2. /\ tracks[u][t] \in TrackRow /\ tracks[u][t].generation \in Nat
      /\ tracks[u][t][kind] \in Nat /\ Earned(u, t) \in Nat
  BY TrackTypes
<1>3. n \in Nat /\ n <= Earned(u, t)
  BY <1>1, <1>2 DEF Min
<1>4. PICK g : g = tracks[u][t].generation
  OBVIOUS
<1>5. PICK m : m = Max({tracks[u][t][kind], n})
  OBVIOUS
<1>6. m \in Nat /\ m >= n /\ m >= tracks[u][t][kind] /\ m \in {n, tracks[u][t][kind]}
  BY <1>2, <1>3, <1>5 DEF Max
<1>7. tracks' = [tracks EXCEPT ![u][t][kind] = m]
  BY <1>1, <1>5 DEF ConfirmRank
<1>8. claims' = claims \cup {[user |-> u, track |-> t, generation |-> g, rank |-> r, kind |-> kind] : r \in 0 .. n}
  <2>1. ClaimRanksUpTo(u, ch, t, n, kind)
    BY <1>1 DEF ConfirmRank
  <2>2. claims' = claims \cup Due(u, t, n, kind)
    BY <2>1 DEF ClaimRanksUpTo
  <2> QED
    BY <1>4, <2>2 DEF Due, DueAgain
<1>9. PICK row : row = [tracks[u][t] EXCEPT ![kind] = m]
  OBVIOUS
<1>10. row \in TrackRow /\ row.points = tracks[u][t].points /\ row.generation = g /\ row[kind] = m
       /\ \A k \in Kinds \ {kind} : row[k] = tracks[u][t][k]
  <2>1. CASE kind = "free"
    BY <1>2, <1>4, <1>6, <1>9, <2>1 DEF TrackRow, Kinds
  <2>2. CASE kind = "premium"
    BY <1>2, <1>4, <1>6, <1>9, <2>2 DEF TrackRow, Kinds
  <2> QED
    BY <2>1, <2>2 DEF Kinds
<1>11. /\ tracks' \in [Users -> [DOMAIN Tracks -> TrackRow]]
       /\ tracks'[u][t] = row
       /\ \A v \in Users, s \in DOMAIN Tracks : <<v, s>> # <<u, t>> => tracks'[v][s] = tracks[v][s]
  <2>1. tracks \in [Users -> [DOMAIN Tracks -> TrackRow]]
    BY DEF RewardsInv
  <2>2. tracks' = [tracks EXCEPT ![u][t] = row]
    BY <1>7, <1>9, <2>1
  <2>3. row \in TrackRow
    BY <1>10
  <2>. HIDE DEF TrackRow
  <2> QED
    BY <2>1, <2>2, <2>3
<1>12. ASSUME NEW v \in Users, NEW s \in DOMAIN Tracks
       PROVE  /\ tracks'[v][s].generation = tracks[v][s].generation
              /\ tracks'[v][s].points = tracks[v][s].points
              /\ \A k \in Kinds : <<v, s, k>> # <<u, t, kind>> => tracks'[v][s][k] = tracks[v][s][k]
  <2>1. CASE v = u /\ s = t
    BY <1>4, <1>10, <1>11, <2>1
  <2>2. CASE ~(v = u /\ s = t)
    BY <1>11, <2>2
  <2> QED
    BY <2>1, <2>2
<1>13. claims' \subseteq Claim
  BY <1>2, <1>3, <1>4, <1>8 DEF Claim, RewardsInv
<1>14. \A d \in claims' : d.generation <= tracks'[d.user][d.track].generation
  <2>1. ASSUME NEW d \in claims' PROVE d.generation <= tracks'[d.user][d.track].generation
    <3>1. d.user \in Users /\ d.track \in DOMAIN Tracks
      BY <1>13 DEF Claim
    <3>2. tracks'[d.user][d.track].generation = tracks[d.user][d.track].generation
      BY <1>12, <3>1
    <3>3. CASE d \in claims
      BY <3>2, <3>3 DEF RewardsInv
    <3>4. CASE d \notin claims
      BY <1>2, <1>4, <1>8, <3>2, <3>4
    <3> QED
      BY <3>3, <3>4
  <2> QED
    BY <2>1
<1>15. ASSUME NEW v \in Users, NEW s \in DOMAIN Tracks, NEW k \in Kinds
       PROVE  LET paid == PaidRanks(v, s, k)' IN
              /\ tracks'[v][s][k] <= Earned(v, s)'
              /\ paid = 0 .. tracks'[v][s][k] \/ (paid = {} /\ tracks'[v][s][k] = 0)
  <2>1. Earned(v, s)' = Earned(v, s)
    BY <1>12 DEF Earned
  <2>2. /\ tracks[v][s][k] <= Earned(v, s)
        /\ PaidRanks(v, s, k) = 0 .. tracks[v][s][k] \/ (PaidRanks(v, s, k) = {} /\ tracks[v][s][k] = 0)
    BY DEF RewardsInv, RewardsHonest
  <2>3. PICK old : old = PaidRanks(v, s, k)
    OBVIOUS
  <2>4. PICK new : new = PaidRanks(v, s, k)'
    OBVIOUS
  <2>5. new = {c.rank : c \in {d \in claims' : d.user = v /\ d.track = s /\ d.kind = k
                                               /\ d.generation = tracks[v][s].generation}}
    BY <1>12, <2>4 DEF PaidRanks
  <2>6. old = {c.rank : c \in {d \in claims : d.user = v /\ d.track = s /\ d.kind = k
                                              /\ d.generation = tracks[v][s].generation}}
    BY <2>3 DEF PaidRanks
  <2>7. CASE <<v, s, k>> # <<u, t, kind>>
    <3>1. new = old
      BY <1>8, <2>5, <2>6, <2>7
    <3>2. tracks'[v][s][k] = tracks[v][s][k]
      BY <1>12, <2>7
    <3> QED
      BY <2>1, <2>2, <2>3, <2>4, <3>1, <3>2
  <2>8. CASE <<v, s, k>> = <<u, t, kind>>
    <3>1. v = u /\ s = t /\ k = kind
      BY <2>8
    <3>2. new = old \cup 0 .. n
      <4>1. ASSUME NEW r \in 0 .. n PROVE r \in new
        <5>1. PICK c : c = [user |-> u, track |-> t, generation |-> g, rank |-> r, kind |-> kind]
          OBVIOUS
        <5>2. c \in claims' /\ c.user = v /\ c.track = s /\ c.kind = k
              /\ c.generation = tracks[v][s].generation /\ c.rank = r
          BY <1>4, <1>8, <3>1, <5>1
        <5> QED
          BY <2>5, <5>2
      <4>2. old \subseteq new
        BY <1>8, <2>5, <2>6
      <4>3. ASSUME NEW r \in new, r \notin old PROVE r \in 0 .. n
        <5>1. PICK c \in claims' : c.user = v /\ c.track = s /\ c.kind = k
                                   /\ c.generation = tracks[v][s].generation /\ c.rank = r
          BY <2>5
        <5>2. c \notin claims
          BY <2>6, <4>3, <5>1
        <5> QED
          BY <1>8, <5>1, <5>2
      <4> QED
        BY <4>1, <4>2, <4>3
    <3>3. tracks'[v][s][k] = m
      BY <1>10, <1>11, <3>1
    <3>4. m <= Earned(v, s)
      BY <1>3, <1>6, <2>2, <3>1
    <3>5. new = 0 .. m
      <4>1. CASE old = 0 .. tracks[u][t][kind]
        BY <1>2, <1>3, <1>6, <3>2, <4>1
      <4>2. CASE old = {} /\ tracks[u][t][kind] = 0
        BY <1>3, <1>6, <3>2, <4>2
      <4> QED
        BY <2>2, <2>3, <3>1, <4>1, <4>2
    <3> QED
      BY <2>1, <2>4, <3>3, <3>4, <3>5
  <2> QED
    BY <2>7, <2>8
<1>16. RewardsHonest'
  BY <1>15 DEF RewardsHonest
<1> QED
  BY <1>11, <1>13, <1>14, <1>16 DEF RewardsInv

LEMMA RewardsReset ==
    ASSUME RewardsInv, NEW u \in Users, NEW t \in DOMAIN Tracks, ResetTrack(u, t)
    PROVE  RewardsInv'
<1>1. PICK g : g = tracks[u][t].generation
  OBVIOUS
<1>2. PICK row : row = [points |-> 0, generation |-> g + 1, free |-> 0, premium |-> 0]
  OBVIOUS
<1>3. g \in Nat /\ row \in TrackRow
  BY <1>1, <1>2, TrackTypes DEF TrackRow
<1>4. tracks' = [tracks EXCEPT ![u][t] = row] /\ claims' = claims
  BY <1>1, <1>2 DEF ResetTrack, NextGeneration
<1>5. tracks \in [Users -> [DOMAIN Tracks -> TrackRow]]
  BY DEF RewardsInv
<1>6. /\ tracks' \in [Users -> [DOMAIN Tracks -> TrackRow]]
      /\ tracks'[u][t] = row
      /\ \A v \in Users, s \in DOMAIN Tracks : <<v, s>> # <<u, t>> => tracks'[v][s] = tracks[v][s]
  <2>. HIDE DEF TrackRow
  <2> QED
    BY <1>3, <1>4, <1>5
<1>7. ASSUME NEW d \in claims
      PROVE  d.generation <= tracks'[d.user][d.track].generation
             /\ (d.user = u /\ d.track = t => d.generation < g + 1)
  <2>1. d.user \in Users /\ d.track \in DOMAIN Tracks /\ d.generation \in Nat
        /\ d.generation <= tracks[d.user][d.track].generation
    BY DEF RewardsInv, Claim
  <2> QED
    BY <1>1, <1>2, <1>3, <1>6, <2>1
<1>8. ASSUME NEW v \in Users, NEW s \in DOMAIN Tracks, NEW k \in Kinds
      PROVE  LET paid == PaidRanks(v, s, k)' IN
             /\ tracks'[v][s][k] <= Earned(v, s)'
             /\ paid = 0 .. tracks'[v][s][k] \/ (paid = {} /\ tracks'[v][s][k] = 0)
  <2>1. CASE v = u /\ s = t
    <3>1. PaidRanks(v, s, k)' = {}
      BY <1>2, <1>4, <1>6, <1>7, <1>3, <2>1 DEF PaidRanks, RewardsInv, Claim
    <3>2. tracks'[v][s][k] = 0 /\ tracks'[v][s].points = 0
      BY <1>2, <1>6, <2>1 DEF Kinds
    <3>3. Earned(v, s)' \in Nat
      BY <3>2, RanksGrow DEF Earned
    <3> QED
      BY <3>1, <3>2, <3>3
  <2>2. CASE ~(v = u /\ s = t)
    <3>1. tracks'[v][s] = tracks[v][s]
      BY <1>6, <2>2
    <3>2. PaidRanks(v, s, k)' = PaidRanks(v, s, k)
      BY <1>4, <3>1 DEF PaidRanks
    <3>3. Earned(v, s)' = Earned(v, s)
      BY <3>1 DEF Earned
    <3> QED
      BY <3>1, <3>2, <3>3, HonestOf
  <2> QED
    BY <2>1, <2>2
<1>9. RewardsHonest'
  BY <1>8 DEF RewardsHonest
<1> QED
  BY <1>4, <1>6, <1>7, <1>9 DEF RewardsInv

LEMMA AwardsAreNumbers ==
    ASSUME NEW a \in Awards, NEW t \in DOMAIN Tracks
    PROVE  Awarded(a, t) \in Nat
<1>1. Multiplier[t] \in Nat /\ (t \in DOMAIN a.tracks => a.tracks[t] \in Nat)
  BY ProgressionAssumption
<1>2. t \in DOMAIN a.tracks => a.tracks[t] * Multiplier[t] \in Nat
  BY <1>1
<1> QED
  BY <1>2 DEF Awarded

\* More points earn no fewer ranks.
LEMMA RewardsAwarded ==
    ASSUME RewardsInv, NEW a \in Awards, ApplyProgressAndObjectives(a)
    PROVE  RewardsInv'
<1>1. PICK u \in Users : u = a.user
  BY ProgressionAssumption
<1>2. /\ tracks' = [tracks EXCEPT ![u] = [t \in DOMAIN Tracks |->
            [@[t] EXCEPT !.points = tracks[u][t].points + Awarded(a, t)]]]
      /\ claims' = claims
  BY <1>1 DEF ApplyProgressAndObjectives
<1>3. tracks \in [Users -> [DOMAIN Tracks -> TrackRow]]
  BY DEF RewardsInv
<1>4. ASSUME NEW t \in DOMAIN Tracks
      PROVE  /\ tracks'[u][t] \in TrackRow
             /\ tracks'[u][t].generation = tracks[u][t].generation
             /\ tracks'[u][t].free = tracks[u][t].free
             /\ tracks'[u][t].premium = tracks[u][t].premium
             /\ tracks[u][t].points <= tracks'[u][t].points
  <2>1. PICK p : p = tracks[u][t].points + Awarded(a, t)
    OBVIOUS
  <2>2. tracks[u][t] \in TrackRow /\ tracks[u][t].points \in Nat /\ Awarded(a, t) \in Nat
    BY TrackTypes, AwardsAreNumbers
  <2>3. p \in Nat /\ tracks[u][t].points <= p
    BY <2>1, <2>2
  <2>4. tracks'[u][t] = [tracks[u][t] EXCEPT !.points = p]
    BY <1>2, <1>3, <2>1
  <2> QED
    BY <2>2, <2>3, <2>4 DEF TrackRow
<1>5. /\ DOMAIN tracks' = Users
      /\ \A v \in Users : v # u => tracks'[v] = tracks[v]
      /\ tracks'[u] \in [DOMAIN Tracks -> TrackRow]
  <2>1. DOMAIN tracks'[u] = DOMAIN Tracks /\ DOMAIN tracks' = Users
        /\ \A v \in Users : v # u => tracks'[v] = tracks[v]
    BY <1>2, <1>3
  <2>2. tracks'[u] = [t \in DOMAIN Tracks |-> tracks'[u][t]]
    BY <1>2, <1>3
  <2>. HIDE DEF TrackRow
  <2> QED
    BY <1>4, <2>1, <2>2
<1>6. tracks' \in [Users -> [DOMAIN Tracks -> TrackRow]]
  <2>1. tracks' = [v \in Users |-> tracks'[v]]
    BY <1>2, <1>3
  <2>. HIDE DEF TrackRow
  <2> QED
    BY <1>3, <1>5, <2>1
<1>7. ASSUME NEW v \in Users, NEW t \in DOMAIN Tracks
      PROVE  /\ tracks'[v][t].generation = tracks[v][t].generation
             /\ \A k \in Kinds : tracks'[v][t][k] = tracks[v][t][k]
             /\ Earned(v, t) \in Nat /\ Earned(v, t)' \in Nat /\ Earned(v, t) <= Earned(v, t)'
  <2>1. /\ tracks'[v][t].generation = tracks[v][t].generation
        /\ tracks'[v][t].free = tracks[v][t].free
        /\ tracks'[v][t].premium = tracks[v][t].premium
        /\ tracks[v][t].points \in Nat /\ tracks'[v][t].points \in Nat
        /\ tracks[v][t].points <= tracks'[v][t].points
    <3>1. tracks[v][t] \in TrackRow /\ tracks[v][t].points \in Nat
      BY TrackTypes
    <3>2. CASE v = u
      <4>1. tracks'[v][t] \in TrackRow
        BY <1>4, <3>2
      <4>2. tracks'[v][t].points \in Nat
        BY <4>1 DEF TrackRow
      <4> QED
        BY <1>4, <3>1, <3>2, <4>2
    <3>3. CASE v # u
      <4>1. tracks'[v][t] = tracks[v][t]
        BY <1>5, <3>3
      <4> QED
        BY <3>1, <4>1
    <3> QED
      BY <3>2, <3>3
  <2>2. Earned(v, t) = DeriveRank(t, tracks[v][t].points) /\ Earned(v, t)' = DeriveRank(t, tracks'[v][t].points)
    BY DEF Earned
  <2>3. PICK p \in Nat : p = tracks[v][t].points
    BY <2>1
  <2>4. PICK q \in Nat : q = tracks'[v][t].points
    BY <2>1
  <2>5. DeriveRank(t, p) \in Nat /\ DeriveRank(t, q) \in Nat /\ DeriveRank(t, p) <= DeriveRank(t, q)
    BY <2>1, <2>3, <2>4, RanksGrow
  <2> QED
    BY <2>1, <2>2, <2>3, <2>4, <2>5 DEF Kinds
<1>8. ASSUME NEW d \in claims
      PROVE  d.generation <= tracks'[d.user][d.track].generation
  BY <1>7 DEF RewardsInv, Claim
<1>9. ASSUME NEW v \in Users, NEW t \in DOMAIN Tracks, NEW k \in Kinds
      PROVE  LET paid == PaidRanks(v, t, k)' IN
             /\ tracks'[v][t][k] <= Earned(v, t)'
             /\ paid = 0 .. tracks'[v][t][k] \/ (paid = {} /\ tracks'[v][t][k] = 0)
  <2>1. PaidRanks(v, t, k)' = PaidRanks(v, t, k)
    BY <1>2, <1>7 DEF PaidRanks
  <2>2. /\ tracks[v][t][k] <= Earned(v, t)
        /\ PaidRanks(v, t, k) = 0 .. tracks[v][t][k] \/ (PaidRanks(v, t, k) = {} /\ tracks[v][t][k] = 0)
    BY DEF RewardsInv, RewardsHonest
  <2>3. tracks[v][t][k] \in Nat
    BY TrackTypes
  <2> QED
    BY <1>7, <2>1, <2>2, <2>3
<1>10. RewardsHonest'
  BY <1>9 DEF RewardsHonest
<1> QED
  BY <1>2, <1>6, <1>8, <1>10 DEF RewardsInv

LEMMA RewardsKept ==
    /\ Init => RewardsInv
    /\ RewardsInv /\ [Next]_vars => RewardsInv'
<1>1. ASSUME Init PROVE RewardsInv
  <2>1. \A u \in Users, t \in DOMAIN Tracks :
            tracks[u][t] = [points |-> 0, generation |-> 0, free |-> 0, premium |-> 0]
    BY <1>1 DEF Init, ProgressionInit
  <2>2. tracks \in [Users -> [DOMAIN Tracks -> TrackRow]] /\ claims = {}
    BY <1>1 DEF Init, ProgressionInit, TrackRow
  <2>3. ASSUME NEW u \in Users, NEW t \in DOMAIN Tracks
        PROVE  Earned(u, t) \in Nat
    BY <2>1, RanksGrow DEF Earned
  <2>4. RewardsHonest
    BY <2>1, <2>2, <2>3 DEF RewardsHonest, PaidRanks, Kinds
  <2> QED
    BY <2>2, <2>4 DEF RewardsInv
<1>2. ASSUME RewardsInv, UNCHANGED <<tracks, claims>>
      PROVE  RewardsInv'
  <2>1. tracks' = tracks /\ claims' = claims
    BY <1>2
  <2>2. ASSUME NEW u, NEW t, NEW kind
        PROVE  PaidRanks(u, t, kind)' = PaidRanks(u, t, kind) /\ Earned(u, t)' = Earned(u, t)
    BY <2>1 DEF PaidRanks, Earned
  <2>3. RewardsHonest'
    BY <1>2, <2>1, <2>2, HonestOf DEF RewardsHonest
  <2> QED
    BY <1>2, <2>1, <2>3 DEF RewardsInv
<1>3. ASSUME RewardsInv, ProgressionNext
      PROVE  RewardsInv'
  <2>1. ASSUME NEW u \in Users, NEW ch \in Characters, NEW t \in DOMAIN Tracks, NEW kind \in Kinds,
               NEW rank \in 0 .. Len(Tracks[t].costs), ConfirmRank(u, ch, t, rank, kind)
        PROVE  RewardsInv'
    <3>1. rank \in Nat
      OBVIOUS
    <3> QED
      BY <1>3, <2>1, <3>1, RewardsConfirmed
  <2> QED
    BY <1>3, <2>1, RewardsAwarded, RewardsReset DEF ProgressionNext
<1>4. [Next]_vars => ProgressionNext \/ UNCHANGED <<tracks, claims>>
  BY DEF Next, Trade, Progress, BountyBoard, EscalationSeason, Saves, vars, progressionVars
<1> QED
  BY <1>1, <1>2, <1>3, <1>4

\* For any costs, awards, resets and order of confirmations: a cursor never passes what was
\* earned, and the ranks paid in a generation are exactly those up to it.
THEOREM RewardsStayHonest == Spec => []RewardsHonest
<1>1. RewardsInv => RewardsHonest
  BY DEF RewardsInv
<1> QED
  BY <1>1, RewardsKept, PTL DEF Spec

---------------------------------------------------------------------------
(* Settlement: what is held, and the orders of the game servers, the store *)
(* and the rewards.                                                        *)

Holdings == [s \in Value |-> IF s[1] \in Users THEN wallet[s[1]][s[2]] ELSE stacks[s[1]][s[2]]]
Settled == Applied \cup Redeemed \cup {ClaimKey(c) : c \in claims}

DueAt(o, s)   == IF s \notin Users \X Currencies /\ Holdings[s] = 0 THEN 0 ELSE o.take[s]
YieldAt(o, s) == IF s \in o.once /\ Holdings[s] > 0 THEN 0 ELSE o.give[s]

ValueTyped ==
    /\ wallet \in [Users -> [Currencies -> Nat]]
    /\ stacks \in [Characters -> [Stackables -> Nat]]

\* One step at the slots of value: an order is due in full, and yields in full.
Moves(o) ==
    \A s \in Value : DueAt(o, s) <= Holdings[s] /\ Holdings'[s] = Holdings[s] - DueAt(o, s) + YieldAt(o, s)

SettlesOne(o) ==
    /\ o \in OrderBook /\ o.ids # {} /\ o.ids \cap Settled = {} /\ Settled' = Settled \cup o.ids
    /\ Moves(o)

LEMMA OneIsNext ==
    ASSUME NEW o, SettlesOne(o)
    PROVE  Abstract!Next
<1>1. Holdings' = [s \in Value |-> Holdings'[s]]
  BY DEF Holdings
<1>2. Holdings' = [s \in Value |-> Holdings[s] - DueAt(o, s) + YieldAt(o, s)]
  BY <1>1 DEF SettlesOne, Moves
<1>3. Settled' \ Settled = o.ids
  BY DEF SettlesOne
<1> QED
  BY <1>2, <1>3 DEF SettlesOne, Moves, Abstract!Next, Abstract!Settle, Abstract!Due, Abstract!Yield,
                    Holdings, Settled, DueAt, YieldAt

\* Lines as the money and the stacks are computed from, which may name what there is none of.
Amounts(lines) ==
    IsFiniteSet(DOMAIN lines) /\ \A c \in DOMAIN lines : c \in CatalogIds /\ lines[c] \in Nat

LEMMA WhatIsSentAddsUp ==
    /\ \A t \in Transactions : Amounts(t.add) /\ Amounts(t.remove)
    /\ \A sku \in DOMAIN Offers : Amounts(Offers[sku].items)
    /\ \A t \in DOMAIN Tracks, kind \in Kinds : \A rank \in DOMAIN Tracks[t][kind] : Amounts(Tracks[t][kind][rank].lines)
<1>1. \A lines : Quantities(lines) => Amounts(lines)
  BY DEF Quantities, Amounts
<1> QED
  BY <1>1, InventoryAssumption, StoreAssumption, ProgressionAssumption DEF Kinds

LEMMA QuantitiesAddUp ==
    ASSUME NEW lines, Amounts(lines), NEW c
    PROVE  Debit(lines, c) \in Nat /\ Credit(lines, c) \in Nat /\ Lines(lines, c) \in Nat
<1>. DEFINE s == SpelledAs(lines, c)
            f == [id \in s |-> lines[id]]
            g == [id \in s |-> lines[id] * Units[id]]
<1>1. IsFiniteSet(s)
  BY FS_Subset DEF Amounts, SpelledAs
<1>2. \A id \in s : lines[id] \in Nat /\ Units[id] \in Nat
  BY InventoryAssumption DEF Amounts, SpelledAs
<1>3. Debit(lines, c) = SumOf(f) /\ Credit(lines, c) = SumOf(g)
  BY Zenon DEF Debit, Credit, Total, SumOf
<1>. HIDE DEF s
<1>4. f \in [s -> Nat] /\ g \in [s -> Nat]
  BY <1>2
<1>5. SumOf(f) \in Nat /\ SumOf(g) \in Nat
  <2>. HIDE DEF f, g
  <2> QED
    BY <1>1, <1>4, SumIsNat
<1> QED
  BY <1>3, <1>5 DEF Lines, Amounts

LEMMA NothingIsDebited ==
    ASSUME NEW c
    PROVE  Debit(Empty, c) = 0 /\ Lines(Empty, c) = 0
<1>. DEFINE f == [id \in SpelledAs(Empty, c) |-> Empty[id]]
<1>1. SpelledAs(Empty, c) = {}
  BY DEF SpelledAs, Empty
<1>2. f \in [{} -> Nat]
  BY <1>1
<1>3. Debit(Empty, c) = SumOf(f)
  BY Zenon DEF Debit, Total, SumOf
<1>. HIDE DEF f
<1> QED
  BY <1>2, <1>3, SumOfNothing DEF Lines, Empty

LEMMA SlotsApart ==
    /\ \A u \in Users, c \in Currencies : /\ <<u, c>> \in Value /\ <<u, c>> \in Users \X Currencies
                                          /\ Holdings[<<u, c>>] = wallet[u][c]
    /\ \A ch \in Characters, c \in Stackables : /\ <<ch, c>> \in Value /\ <<ch, c>> \notin Users \X Currencies
                                               /\ Holdings[<<ch, c>>] = stacks[ch][c]
    /\ \A s \in Value : \/ \E u \in Users, c \in Currencies : s = <<u, c>>
                        \/ \E ch \in Characters, c \in Stackables : s = <<ch, c>>
BY InventoryAssumption DEF Value, Holdings

\* What an account and a character give and get, at the slots: the same as wallet and stacks
\* after the step say.
LEMMA OrderMoves ==
    ASSUME ValueTyped, NEW u \in Users, NEW ch \in Characters,
           NEW taken, NEW given, NEW money, NEW removed, NEW stacked, NEW o,
           o.take = Debts(u, ch, taken), o.give = Gains(u, ch, given),
           o.once \subseteq {ch} \X CatalogIds,
           wallet' = WalletAfter(u, taken, money), stacks' = StacksAfter(ch, removed, stacked),
           \A c \in Currencies : /\ Debit(taken, c) \in Nat /\ Debit(taken, c) <= wallet[u][c]
                                 /\ Credit(money, c) \in Nat /\ Credit(money, c) = Worth(given, c),
           \A c \in Stackables :
               /\ StackTaken(ch, removed, c) \in Nat /\ StackTaken(ch, removed, c) <= stacks[ch][c]
               /\ StackTaken(ch, removed, c) = IF stacks[ch][c] = 0 THEN 0 ELSE Lines(taken, c)
               /\ Lines(stacked, c) \in Nat
               /\ Lines(stacked, c) = IF <<ch, c>> \in o.once /\ stacks[ch][c] > 0 THEN 0 ELSE Lines(given, c)
    PROVE  ValueTyped' /\ Moves(o)
<1>1. u \notin Characters /\ ch \notin Users /\ u # ch
  BY InventoryAssumption
<1>2. ASSUME NEW v \in Users, NEW c \in Currencies
      PROVE  /\ wallet'[v][c] \in Nat
             /\ DueAt(o, <<v, c>>) <= wallet[v][c]
             /\ wallet'[v][c] = wallet[v][c] - DueAt(o, <<v, c>>) + YieldAt(o, <<v, c>>)
  <2>1. v # ch /\ <<v, c>> \in Value /\ <<v, c>> \notin o.once /\ wallet[v][c] \in Nat
    BY <1>1, SlotsApart DEF ValueTyped
  <2>2. /\ DueAt(o, <<v, c>>) = IF v = u THEN Debit(taken, c) ELSE 0
        /\ YieldAt(o, <<v, c>>) = IF v = u THEN Worth(given, c) ELSE 0
    BY <2>1, SlotsApart DEF DueAt, YieldAt, Debts, Gains
  <2>3. wallet'[v][c] = IF v = u THEN wallet[v][c] - Debit(taken, c) + Credit(money, c) ELSE wallet[v][c]
    BY DEF WalletAfter, ValueTyped
  <2> QED
    BY <2>1, <2>2, <2>3
<1>3. ASSUME NEW d \in Characters, NEW c \in Stackables
      PROVE  /\ stacks'[d][c] \in Nat
             /\ DueAt(o, <<d, c>>) <= stacks[d][c]
             /\ stacks'[d][c] = stacks[d][c] - DueAt(o, <<d, c>>) + YieldAt(o, <<d, c>>)
  <2>1. d # u /\ <<d, c>> \in Value /\ Holdings[<<d, c>>] = stacks[d][c] /\ stacks[d][c] \in Nat
    BY <1>1, SlotsApart DEF ValueTyped
  <2>2. /\ DueAt(o, <<d, c>>) = IF d = ch THEN StackTaken(ch, removed, c) ELSE 0
        /\ YieldAt(o, <<d, c>>) = IF d = ch THEN Lines(stacked, c) ELSE 0
    BY <2>1, SlotsApart DEF DueAt, YieldAt, Debts, Gains
  <2>3. stacks'[d][c] = IF d = ch THEN stacks[d][c] - StackTaken(ch, removed, c) + Lines(stacked, c) ELSE stacks[d][c]
    BY DEF StacksAfter, ValueTyped
  <2> QED
    BY <2>1, <2>2, <2>3
<1>4. ValueTyped'
  <2>1. wallet' \in [Users -> [Currencies -> Nat]]
    <3>1. wallet' = [v \in Users |-> wallet'[v]]
      BY DEF WalletAfter, ValueTyped
    <3>2. ASSUME NEW v \in Users
          PROVE  wallet'[v] \in [Currencies -> Nat]
      <4>1. wallet'[v] = [c \in Currencies |-> wallet'[v][c]]
        BY DEF WalletAfter, ValueTyped
      <4>2. \A c \in Currencies : wallet'[v][c] \in Nat
        BY <1>2
      <4> QED
        BY <4>1, <4>2
    <3> QED
      BY <3>1, <3>2
  <2>2. stacks' \in [Characters -> [Stackables -> Nat]]
    <3>1. stacks' = [d \in Characters |-> stacks'[d]]
      BY DEF StacksAfter, ValueTyped
    <3>2. ASSUME NEW d \in Characters
          PROVE  stacks'[d] \in [Stackables -> Nat]
      <4>1. stacks'[d] = [c \in Stackables |-> stacks'[d][c]]
        BY DEF StacksAfter, ValueTyped
      <4>2. \A c \in Stackables : stacks'[d][c] \in Nat
        BY <1>3
      <4> QED
        BY <4>1, <4>2
    <3> QED
      BY <3>1, <3>2
  <2> QED
    BY <2>1, <2>2 DEF ValueTyped
<1>5. /\ \A v \in Users, c \in Currencies : Holdings[<<v, c>>] = wallet[v][c] /\ Holdings'[<<v, c>>] = wallet'[v][c]
      /\ \A d \in Characters, c \in Stackables : Holdings[<<d, c>>] = stacks[d][c] /\ Holdings'[<<d, c>>] = stacks'[d][c]
  BY InventoryAssumption DEF Holdings, Value
<1>6. ASSUME NEW s \in Value
      PROVE  DueAt(o, s) <= Holdings[s] /\ Holdings'[s] = Holdings[s] - DueAt(o, s) + YieldAt(o, s)
  <2>1. CASE \E v \in Users, c \in Currencies : s = <<v, c>>
    BY <1>2, <1>5, <2>1
  <2>2. CASE \E d \in Characters, c \in Stackables : s = <<d, c>>
    BY <1>3, <1>5, <2>2
  <2> QED
    BY <2>1, <2>2, SlotsApart
<1> QED
  BY <1>4, <1>6 DEF Moves

\* What is credited is what the lines are worth.
LEMMA CreditsAreWorth ==
    ASSUME NEW lines, NEW c
    PROVE  Credit(lines, c) = Worth(lines, c)
BY DEF Credit, Worth, SpelledAs

LEMMA TransactionSettles ==
    ASSUME OwnIds, ValueTyped, NEW t \in Transactions, RunInventoryTransaction(t),
           UNCHANGED <<purchases, claims>>
    PROVE  ValueTyped' /\ SettlesOne(TransactionOrder(t))
<1>1. PICK u \in Users, ch \in Characters : u = t.user /\ ch = t.ch
  BY InventoryAssumption DEF RunInventoryTransaction
<1>2. PICK taken : taken = t.remove
  OBVIOUS
<1>3. PICK given : given = t.add
  OBVIOUS
<1>4. PICK o : o = TransactionOrder(t)
  OBVIOUS
<1>5. o.take = Debts(u, ch, taken) /\ o.give = Gains(u, ch, given) /\ o.once = {} /\ o.ids = {t.tx}
  BY <1>1, <1>2, <1>3, <1>4 DEF TransactionOrder
<1>6. Amounts(taken) /\ Amounts(given)
  BY <1>2, <1>3, WhatIsSentAddsUp
<1>7. /\ wallet' = WalletAfter(u, taken, given) /\ stacks' = StacksAfter(ch, taken, given)
      /\ Affordable(u, taken) /\ StacksCover(ch, taken)
  BY <1>1, <1>2, <1>3 DEF RunInventoryTransaction
<1>8. \A c \in Currencies : /\ Debit(taken, c) \in Nat /\ Debit(taken, c) <= wallet[u][c]
                            /\ Credit(given, c) \in Nat /\ Credit(given, c) = Worth(given, c)
  BY <1>6, <1>7, QuantitiesAddUp, CreditsAreWorth DEF Affordable
<1>9. \A c \in Stackables :
        /\ StackTaken(ch, taken, c) \in Nat /\ StackTaken(ch, taken, c) <= stacks[ch][c]
        /\ StackTaken(ch, taken, c) = IF stacks[ch][c] = 0 THEN 0 ELSE Lines(taken, c)
        /\ Lines(given, c) \in Nat
        /\ Lines(given, c) = IF <<ch, c>> \in o.once /\ stacks[ch][c] > 0 THEN 0 ELSE Lines(given, c)
  BY <1>5, <1>6, <1>7, QuantitiesAddUp DEF StackTaken, StacksCover
<1>10. ValueTyped' /\ Moves(o)
  BY <1>5, <1>7, <1>8, <1>9, OrderMoves
<1>11. o \in OrderBook
  BY <1>4 DEF OrderBook, StoreOrders
<1>12. o.ids \cap Settled = {} /\ Settled' = Settled \cup o.ids
  <2>1. t.tx \notin DOMAIN ledger /\ DOMAIN ledger' = DOMAIN ledger \cup {t.tx}
    BY DEF RunInventoryTransaction, IsNew, Recorded
  <2>2. Redeemed' = Redeemed /\ claims' = claims
    BY DEF Redeemed
  <2>3. (\A x : t.tx # <<"store", x>>) /\ \A x : t.tx # ClaimKey(x)
    BY DEF OwnIds
  <2>4. t.tx \notin Settled
    BY <2>1, <2>3 DEF Settled, Applied, Redeemed
  <2>5. Applied' = Applied \cup {t.tx}
    BY <2>1, <2>3 DEF Applied
  <2>6. Settled' = Settled \cup {t.tx}
    BY <2>2, <2>5 DEF Settled
  <2> QED
    BY <1>5, <2>4, <2>6
<1> QED
  BY <1>4, <1>5, <1>10, <1>11, <1>12 DEF SettlesOne

\* Tokens are few enough, and the character of each belongs to its user.
TokensInv ==
    /\ TicketsTyped /\ Len(purchases) <= MAX_TOKENS
    /\ \A p \in DOMAIN purchases : purchases[p].user = OwnerOf[purchases[p].ch]

LEMMA TokensStep ==
    ASSUME TokensInv, EconomyStep
    PROVE  TokensInv'
<1>1. TicketsTyped'
  BY TicketsStep DEF TokensInv
<1>2. CASE UNCHANGED purchases
  BY <1>1, <1>2 DEF TokensInv
<1>3. ASSUME NEW u \in Users, NEW ch \in Characters, NEW sku \in DOMAIN Offers, CreateFreePurchase(u, ch, sku)
      PROVE  TokensInv'
  <2>1. PICK ticket : Issues(ticket) /\ ticket.user = u /\ ticket.ch = ch
    BY <1>3, CreateIssues DEF TokensInv
  <2>2. Len(purchases) < MAX_TOKENS /\ OwnerOf[ch] = u
    BY <1>3 DEF CreateFreePurchase, CharacterOf
  <2>3. Len(purchases) \in Nat
    BY LenProperties DEF TokensInv, TicketsTyped
  <2>4. Len(purchases') <= MAX_TOKENS
    BY <2>1, <2>2, <2>3, StoreAssumption DEF Issues
  <2>5. \A p \in DOMAIN purchases' : purchases'[p].user = OwnerOf[purchases'[p].ch]
    BY <2>1, <2>2 DEF Issues, TokensInv
  <2> QED
    BY <1>1, <2>4, <2>5 DEF TokensInv
<1>4. ASSUME NEW t \in DOMAIN purchases, RedeemFreePurchase(t)
      PROVE  TokensInv'
  <2>1. Marks(t) /\ purchases[t] \in Ticket
    BY <1>4, RedeemMarks, TicketOf DEF TokensInv
  <2>2. purchases'[t].user = purchases[t].user /\ purchases'[t].ch = purchases[t].ch
    BY <2>1 DEF Marks, Ticket
  <2>3. \A p \in DOMAIN purchases' : purchases'[p].user = OwnerOf[purchases'[p].ch]
    BY <2>1, <2>2 DEF Marks, TokensInv
  <2>4. Len(purchases') = Len(purchases)
    <3>1. purchases \in Seq(Ticket) /\ purchases' \in Seq(Ticket) /\ DOMAIN purchases' = DOMAIN purchases
      BY <1>1, <2>1 DEF TokensInv, TicketsTyped, Marks
    <3>2. /\ Len(purchases) \in Nat /\ DOMAIN purchases = 1 .. Len(purchases)
          /\ Len(purchases') \in Nat /\ DOMAIN purchases' = 1 .. Len(purchases')
      BY <3>1, LenProperties
    <3>3. ASSUME NEW a \in Nat, NEW b \in Nat, 1 .. a = 1 .. b
          PROVE  a = b
      BY <3>3
    <3> QED
      BY <3>1, <3>2, <3>3
  <2> QED
    BY <1>1, <2>3, <2>4 DEF TokensInv
<1> QED
  BY <1>2, <1>3, <1>4 DEF EconomyStep, economyVars, storeVars, RunInventoryTransaction

\* No instance is of a catalog id that is held in stacks.
ItemsApart ==
    /\ items = [ch \in Characters |-> items[ch]]
    /\ \A ch \in Characters : \A id \in DOMAIN items[ch] : items[ch][id].catalog \notin Stackables

Apart(held) == \A id \in DOMAIN held : held[id].catalog \notin Stackables

LEMMA WithApart ==
    ASSUME NEW held, Apart(held), NEW xs, \A x \in xs : x.catalog \notin Stackables
    PROVE  Apart(With(held, xs))
<1>. DEFINE written == {x \in xs : x.id \in DOMAIN held => ~IsSkipped(held[x.id], x)}
            Of(id) == CHOOSE x \in written : x.id = id
<1>1. With(held, xs) = [id \in DOMAIN held \cup {x.id : x \in written} |->
            IF \E x \in written : x.id = id THEN Of(id) ELSE held[id]]
  BY DEF With
<1>2. ASSUME NEW id, \E x \in written : x.id = id
      PROVE  Of(id) \in xs
  BY <1>2
<1>. HIDE DEF Of
<1> QED
  BY <1>1, <1>2 DEF Apart

LEMMA ApartWritten ==
    ASSUME ItemsApart, NEW ch \in Characters, NEW new, Apart(new), items' = [items EXCEPT ![ch] = new]
    PROVE  ItemsApart'
<1>1. \A d \in Characters : items'[d] = IF d = ch THEN new ELSE items[d]
  BY DEF ItemsApart
<1>2. items' = [d \in Characters |-> items'[d]]
  BY DEF ItemsApart
<1> QED
  BY <1>1, <1>2 DEF ItemsApart, Apart

LEMMA ItemsStayApart ==
    ASSUME InstancedOrStacked, TicketsTyped, ItemsApart, EconomyStep
    PROVE  ItemsApart'
<1>1. ASSUME NEW t \in Transactions, RunInventoryTransaction(t)
      PROVE  ItemsApart'
  <2>1. PICK ch \in Characters : ch = t.ch
    BY InventoryAssumption
  <2>2. PICK kept : kept = Without(items[ch], t.drop)
    OBVIOUS
  <2>3. PICK saved : saved = With(kept, t.save)
    OBVIOUS
  <2>4. PICK new : new = With(saved, t.put)
    OBVIOUS
  <2>5. (\A x \in t.save : x.catalog \notin Stackables) /\ (\A x \in t.put : x.catalog \notin Stackables)
    BY DEF InstancedOrStacked
  <2>6. Apart(kept)
    BY <2>2 DEF Without, Restrict, Apart, ItemsApart
  <2>7. Apart(saved)
    BY <2>3, <2>5, <2>6, WithApart
  <2>8. Apart(new)
    BY <2>4, <2>5, <2>7, WithApart
  <2>9. items' = [items EXCEPT ![ch] = new]
    BY <1>1, <2>1, <2>2, <2>3, <2>4 DEF RunInventoryTransaction, ItemsAfter, Kept, Saved
  <2> QED
    BY <2>8, <2>9, ApartWritten
<1>2. ASSUME NEW ch \in Characters, NEW xs, \A x \in xs : x.catalog \notin Stackables,
             items' = [items EXCEPT ![ch] = With(@, xs)]
      PROVE  ItemsApart'
  <2>1. PICK new : new = With(items[ch], xs)
    OBVIOUS
  <2>2. Apart(items[ch])
    BY DEF Apart, ItemsApart
  <2>3. Apart(new)
    BY <1>2, <2>1, <2>2, WithApart
  <2> QED
    BY <1>2, <2>1, <2>3, ApartWritten
<1>3. ASSUME NEW w \in ItemUpdates, UpdateInstancedItem(w)
      PROVE  ItemsApart'
  <2>1. PICK ch \in Characters : ch = w.ch
    BY InventoryAssumption
  <2>2. PICK xs : xs = {w.item}
    OBVIOUS
  <2>3. items' = [items EXCEPT ![ch] = With(@, xs)] /\ \A x \in xs : x.catalog \notin Stackables
    BY <1>3, <2>1, <2>2 DEF UpdateInstancedItem, InstancedOrStacked
  <2> QED
    BY <1>2, <2>3
<1>4. CASE UNCHANGED items
  BY <1>4 DEF ItemsApart
<1>5. ASSUME NEW t \in DOMAIN purchases, RedeemFreePurchase(t)
      PROVE  ItemsApart'
  <2>1. PICK ch \in Characters, sku \in DOMAIN Offers : ch = purchases[t].ch /\ sku = purchases[t].sku
    BY TicketOf DEF Ticket
  <2>2. PICK xs : xs = Cosmetics(t, ch, Offers[sku])
    OBVIOUS
  <2>3. items' = [items EXCEPT ![ch] = With(@, xs)]
    BY <1>5, <2>1, <2>2 DEF RedeemFreePurchase
  <2>4. \A x \in xs : x.catalog \notin Stackables
    BY <2>2 DEF Cosmetics, InstancedOrStacked
  <2> QED
    BY <1>2, <2>3, <2>4
<1>6. ASSUME NEW u \in Users, NEW ch \in Characters, NEW track \in DOMAIN Tracks, NEW kind \in Kinds, NEW rank,
             ClaimRanksUpTo(u, ch, track, rank, kind)
      PROVE  ItemsApart'
  <2>1. PICK due : due = Due(u, track, rank, kind)
    OBVIOUS
  <2>2. PICK xs : xs = UNION {Minted(d) : d \in due}
    OBVIOUS
  <2>3. items' = [items EXCEPT ![ch] = With(@, xs)]
    BY <1>6, <2>1, <2>2 DEF ClaimRanksUpTo
  <2>4. ASSUME NEW d \in due PROVE RewardOf(d).cosmetics \cap Stackables = {}
    <3>1. RewardOf(d) = RewardForRank(track, d.rank, kind)
      BY <2>1 DEF Due, DueAgain, RewardOf
    <3> QED
      BY <3>1 DEF RewardForRank, NoReward, InstancedOrStacked
  <2>5. \A x \in xs : x.catalog \notin Stackables
    BY <2>2, <2>4 DEF Minted
  <2> QED
    BY <1>2, <2>3, <2>5
<1> QED
  BY <1>1, <1>3, <1>4, <1>5, <1>6
  DEF EconomyStep, Tick, CreateFreePurchase, economyVars, inventoryVars

\* The price is one quantity, and what is granted of the items is what is not held.
LEMMA PriceAddsUp ==
    ASSUME NEW sku \in DOMAIN Offers
    PROVE  /\ Amounts(Price(Offers[sku]))
           /\ \A c \in Stackables : Lines(Price(Offers[sku]), c) = 0
<1>1. PICK o : o = Offers[sku]
  OBVIOUS
<1>2. o.currency \in Currencies /\ o.price \in Nat /\ o.currency \in CatalogIds
      /\ Canonical[o.currency] = o.currency
  BY <1>1, InventoryAssumption, StoreAssumption
<1>3. IsFiniteSet({o.currency})
  BY FS_Singleton
<1>4. \A c \in Stackables : c # o.currency
  BY <1>2, InventoryAssumption DEF IsCurrency
<1> QED
  BY <1>1, <1>2, <1>3, <1>4 DEF Price, Amounts, Lines

LEMMA GrantedStacks ==
    ASSUME ItemsApart, NEW ch \in Characters, NEW sku \in DOMAIN Offers, NEW o, o = Offers[sku],
           NEW c \in Stackables, stacks[ch][c] \in Nat
    PROVE  LET given == ToGrant(ch, o, StackLines(o)) IN
           /\ Lines(given, c) \in Nat
           /\ Lines(given, c) = IF o.kind = "unlock" /\ c \in DOMAIN o.items /\ stacks[ch][c] > 0
                                THEN 0 ELSE Lines(o.items, c)
<1>1. PICK given : given = ToGrant(ch, o, StackLines(o))
  OBVIOUS
<1>2. Amounts(o.items) /\ ~IsCurrency(c)
  BY WhatIsSentAddsUp, InventoryAssumption
<1>3. Lines(o.items, c) \in Nat
  BY <1>2, QuantitiesAddUp
<1>4. PICK lines : lines = StackLines(o)
  OBVIOUS
<1>5. /\ c \in DOMAIN lines <=> c \in DOMAIN o.items
      /\ c \in DOMAIN lines => lines[c] = o.items[c]
  BY <1>2, <1>4 DEF StackLines, Restrict
<1>6. c \in HeldCatalogIds(ch) <=> stacks[ch][c] > 0
  BY DEF HeldCatalogIds, ItemsApart
<1>7. given = IF o.kind = "unlock" THEN Restrict(lines, DOMAIN lines \ HeldCatalogIds(ch)) ELSE lines
  BY <1>1, <1>4 DEF ToGrant
<1>8. CASE o.kind = "unlock"
  <2>1. /\ c \in DOMAIN given <=> c \in DOMAIN o.items /\ ~(stacks[ch][c] > 0)
        /\ c \in DOMAIN given => given[c] = o.items[c]
    BY <1>5, <1>6, <1>7, <1>8 DEF Restrict
  <2> QED
    BY <1>1, <1>3, <1>8, <2>1 DEF Lines
<1>9. CASE o.kind # "unlock"
  BY <1>1, <1>3, <1>5, <1>7, <1>9 DEF Lines
<1> QED
  BY <1>8, <1>9

\* The currencies of an offer are credited, the stacks left out of them.
LEMMA MoneyIsWorth ==
    ASSUME NEW sku \in DOMAIN Offers, NEW o, o = Offers[sku], NEW c \in Currencies
    PROVE  Credit(MoneyLines(o), c) \in Nat /\ Credit(MoneyLines(o), c) = Worth(o.items, c)
<1>1. PICK lines : lines = MoneyLines(o)
  OBVIOUS
<1>2. Amounts(o.items)
  BY WhatIsSentAddsUp
<1>3. SpelledAs(lines, c) = SpelledAs(o.items, c)
  BY <1>1 DEF SpelledAs, MoneyLines, Restrict, IsCurrency
<1>4. \A id \in SpelledAs(lines, c) : lines[id] = o.items[id]
  BY <1>1 DEF SpelledAs, MoneyLines, Restrict
<1>5. [id \in SpelledAs(lines, c) |-> lines[id] * Units[id]] = [id \in SpelledAs(o.items, c) |-> o.items[id] * Units[id]]
  BY <1>3, <1>4
<1>6. Credit(lines, c) = Credit(o.items, c)
  BY <1>5 DEF Credit
<1> QED
  BY <1>1, <1>2, <1>6, QuantitiesAddUp, CreditsAreWorth

LEMMA PurchaseSettles ==
    ASSUME TokensInv, ItemsApart, ValueTyped, NEW t \in DOMAIN purchases, RedeemFreePurchase(t), UNCHANGED claims
    PROVE  ValueTyped' /\ \E o : SettlesOne(o)
<1>1. /\ Marks(t) /\ purchases[t] \in Ticket /\ purchases[t].user = OwnerOf[purchases[t].ch]
      /\ t \in Nat \ {0} /\ t <= Len(purchases) /\ now \in Nat \ {0}
  BY RedeemMarks, TicketOf DEF TokensInv, TicketsTyped
<1>2. PICK u \in Users, ch \in Characters : u = purchases[t].user /\ ch = purchases[t].ch
  BY <1>1 DEF Ticket
<1>3. PICK sku \in DOMAIN Offers : sku = purchases[t].sku
  BY <1>1 DEF Ticket
<1>4. PICK o : o = Offers[sku]
  OBVIOUS
<1>5. t \in 1 .. MAX_TOKENS /\ u = OwnerOf[ch]
  <2>1. Len(purchases) \in Nat /\ Len(purchases) <= MAX_TOKENS
    BY LenProperties DEF TokensInv, TicketsTyped
  <2> QED
    BY <1>1, <1>2, <2>1, StoreAssumption
<1>6. PICK order : order = PurchaseOrder(t, u, ch, o)
  OBVIOUS
<1>7. order \in OrderBook
  BY <1>4, <1>5, <1>6 DEF OrderBook, StoreOrders
<1>8. PICK taken : taken = Price(o)
  OBVIOUS
<1>9. PICK given : given = ToGrant(ch, o, StackLines(o))
  OBVIOUS
<1>10. /\ order.ids = {<<"store", t>>} /\ order.take = Debts(u, ch, taken) /\ order.give = Gains(u, ch, o.items)
       /\ order.once = IF o.kind = "unlock" THEN {ch} \X DOMAIN o.items ELSE {}
  BY <1>6, <1>8 DEF PurchaseOrder
<1>11. /\ Affordable(u, taken) /\ wallet' = WalletAfter(u, taken, MoneyLines(o))
       /\ stacks' = StacksAfter(ch, Empty, given)
  BY <1>2, <1>3, <1>4, <1>8, <1>9 DEF RedeemFreePurchase
<1>12. \A c \in Currencies :
        /\ Debit(taken, c) \in Nat /\ Debit(taken, c) <= wallet[u][c]
        /\ Credit(MoneyLines(o), c) \in Nat /\ Credit(MoneyLines(o), c) = Worth(o.items, c)
  BY <1>4, <1>8, <1>11, PriceAddsUp, QuantitiesAddUp, MoneyIsWorth DEF Affordable
<1>13. ASSUME NEW c \in Stackables
       PROVE  /\ StackTaken(ch, Empty, c) \in Nat /\ StackTaken(ch, Empty, c) <= stacks[ch][c]
              /\ StackTaken(ch, Empty, c) = IF stacks[ch][c] = 0 THEN 0 ELSE Lines(taken, c)
              /\ Lines(given, c) \in Nat
              /\ Lines(given, c) = IF <<ch, c>> \in order.once /\ stacks[ch][c] > 0 THEN 0 ELSE Lines(o.items, c)
  <2>1. stacks[ch][c] \in Nat
    BY DEF ValueTyped
  <2>2. StackTaken(ch, Empty, c) = 0 /\ Lines(taken, c) = 0
    BY <1>4, <1>8, NothingIsDebited, PriceAddsUp DEF StackTaken
  <2>3. <<ch, c>> \in order.once <=> o.kind = "unlock" /\ c \in DOMAIN o.items
    BY <1>10
  <2>4. /\ Lines(given, c) \in Nat
        /\ Lines(given, c) = IF o.kind = "unlock" /\ c \in DOMAIN o.items /\ stacks[ch][c] > 0
                             THEN 0 ELSE Lines(o.items, c)
    BY <1>4, <1>9, <2>1, GrantedStacks
  <2> QED
    BY <2>1, <2>2, <2>3, <2>4
<1>14. order.once \subseteq {ch} \X CatalogIds
  <2>1. DOMAIN o.items \subseteq CatalogIds
    BY <1>4, WhatIsSentAddsUp DEF Amounts
  <2> QED
    BY <1>10, <2>1
<1>15. ValueTyped' /\ Moves(order)
  BY <1>10, <1>11, <1>12, <1>13, <1>14, OrderMoves
<1>16. order.ids \cap Settled = {} /\ Settled' = Settled \cup order.ids
  <2>1. purchases[t].redeemedAt = 0
    BY DEF RedeemFreePurchase, StillDue
  <2>2. purchases'[t].redeemedAt = now
    BY <1>1 DEF Marks, Ticket
  <2>3. Redeemed' = Redeemed \cup {<<"store", t>>}
    <3>1. PICK due : due = {p \in DOMAIN purchases : purchases[p].redeemedAt > 0}
      OBVIOUS
    <3>2. {p \in DOMAIN purchases' : purchases'[p].redeemedAt > 0} = due \cup {t}
      BY <1>1, <2>2, <3>1 DEF Marks
    <3> QED
      BY <3>1, <3>2 DEF Redeemed
  <2>4. <<"store", t>> \notin Redeemed
    BY <2>1 DEF Redeemed
  <2>5. DOMAIN ledger' \ {<<"store", t>>} = DOMAIN ledger \ {<<"store", t>>}
    BY DEF RedeemFreePurchase, Recorded
  <2>6. Applied' = Applied /\ <<"store", t>> \notin Applied
    BY <1>5, <2>5 DEF Applied
  <2>7. \A d : <<"store", t>> # ClaimKey(d)
    BY DEF ClaimKey
  <2>8. <<"store", t>> \notin Settled
    BY <2>4, <2>6, <2>7 DEF Settled
  <2>9. Settled' = Settled \cup {<<"store", t>>}
    BY <2>3, <2>6 DEF Settled
  <2> QED
    BY <1>10, <2>8, <2>9
<1> QED
  BY <1>7, <1>10, <1>15, <1>16 DEF SettlesOne

\* The claims of some ranks of a track.
Ranked(u, t, g, kind, ranks) ==
    {[user |-> u, track |-> t, generation |-> g, rank |-> r, kind |-> kind] : r \in ranks}

\* What some ranks pay are quantities: finitely many ranks, each paying some of each.
LEMMA RewardsAddUp ==
    ASSUME NEW u, NEW t \in DOMAIN Tracks, NEW g, NEW kind \in Kinds,
           NEW n \in Nat, NEW ranks \in SUBSET (0 .. n), NEW due, due = Ranked(u, t, g, kind, ranks)
    PROVE  Amounts(Rewarded(due))
<1>1. IsFiniteSet(due)
  <2>1. IsFiniteSet(ranks)
    <3>1. 0 \in Int /\ n \in Int
      OBVIOUS
    <3>2. IsFiniteSet(0 .. n)
      BY <3>1, FS_Interval
    <3> QED
      BY <3>2, FS_Subset
  <2>2. PICK claim : claim = [r \in ranks |-> [user |-> u, track |-> t, generation |-> g, rank |-> r, kind |-> kind]]
    OBVIOUS
  <2>3. due = {claim[r] : r \in ranks}
    BY <2>2 DEF Ranked
  <2>4. claim \in Surjection(ranks, due)
    BY <2>2, <2>3 DEF Surjection
  <2> QED
    BY <2>1, <2>4, FS_Surjection
<1>2. ASSUME NEW c \in CatalogIds
      PROVE  Rewarded(due)[c] \in Nat
  <2>. DEFINE f == [d \in due |-> Lines(RewardOf(d).lines, c)]
  <2>1. ASSUME NEW d \in due
        PROVE  Lines(RewardOf(d).lines, c) \in Nat
    <3>1. PICK rank : RewardOf(d) = RewardForRank(t, rank, kind)
      BY DEF Ranked, RewardOf
    <3>2. CASE rank \in DOMAIN Tracks[t][kind]
      <4>1. Amounts(Tracks[t][kind][rank].lines)
        BY <3>2, WhatIsSentAddsUp
      <4> QED
        BY <3>1, <3>2, <4>1, QuantitiesAddUp DEF RewardForRank
    <3>3. CASE rank \notin DOMAIN Tracks[t][kind]
      <4>1. RewardOf(d).lines = Empty
        BY <3>1, <3>3 DEF RewardForRank, NoReward
      <4> QED
        BY <4>1, NothingIsDebited
    <3> QED
      BY <3>2, <3>3
  <2>2. f \in [due -> Nat]
    BY <2>1
  <2>3. Rewarded(due)[c] = SumOf(f)
    BY Zenon DEF Rewarded, Total, SumOf
  <2>. HIDE DEF f
  <2> QED
    BY <1>1, <2>2, <2>3, SumIsNat
<1>3. DOMAIN Rewarded(due) = CatalogIds /\ IsFiniteSet(CatalogIds)
  BY InventoryAssumption DEF Rewarded
<1> QED
  BY <1>2, <1>3 DEF Amounts

\* No ranks pay nothing.
LEMMA NoRanksNothing ==
    ASSUME NEW c
    PROVE  Worth(Rewarded({}), c) = 0 /\ Lines(Rewarded({}), c) = 0
<1>1. ASSUME NEW id \in CatalogIds
      PROVE  Rewarded({})[id] = 0
  <2>. DEFINE f == [d \in {} |-> Lines(RewardOf(d).lines, id)]
  <2>1. f \in [{} -> Nat]
    OBVIOUS
  <2>2. Rewarded({})[id] = SumOf(f)
    BY Zenon DEF Rewarded, Total, SumOf
  <2>. HIDE DEF f
  <2> QED
    BY <2>1, <2>2, SumOfNothing
<1>2. PICK lines : lines = Rewarded({})
  OBVIOUS
<1>3. DOMAIN lines = CatalogIds /\ \A id \in CatalogIds : lines[id] = 0
  BY <1>1, <1>2 DEF Rewarded
<1>4. Worth(lines, c) = 0
  <2>. DEFINE s == {i \in DOMAIN lines : Canonical[i] = c}
              f == [id \in s |-> lines[id] * Units[id]]
  <2>1. Worth(lines, c) = SumOf(f)
    BY Zenon DEF Worth, Total, SumOf
  <2>2. IsFiniteSet(s) /\ \A id \in s : lines[id] * Units[id] = 0
    BY <1>3, FS_Subset, InventoryAssumption
  <2>3. f \in [s -> Nat] /\ \A id \in s : f[id] = 0
    BY <2>2
  <2>4. PICK g : g = [id \in {} |-> 0]
    OBVIOUS
  <2>5. g \in [{} -> Nat] /\ {} \in SUBSET s
    BY <2>4
  <2>. HIDE DEF s, f
  <2>6. SumOf(f) = SumOf(g)
    <3>1. PICK T \in SUBSET s : T = {}
      BY <2>5
    <3>2. /\ g \in [T -> Nat] /\ \A x \in T : g[x] = f[x]
          /\ \A x \in s \ T : f[x] = 0
      BY <2>3, <2>5, <3>1
    <3> QED
      BY <2>2, <2>3, <3>2, SumOfPart
  <2> QED
    BY <2>1, <2>5, <2>6, SumOfNothing
<1> QED
  BY <1>2, <1>3, <1>4 DEF Lines

LEMMA ClaimMoves ==
    ASSUME ValueTyped, NEW u \in Users, NEW ch \in Characters, NEW t \in DOMAIN Tracks, NEW kind \in Kinds,
           NEW rank \in Nat, ClaimRanksUpTo(u, ch, t, rank, kind),
           NEW g, g = tracks[u][t].generation,
           NEW ranks \in SUBSET (0 .. rank), Due(u, t, rank, kind) = Ranked(u, t, g, kind, ranks),
           NEW o, o = RewardOrder(u, ch, t, g, kind, ranks)
    PROVE  ValueTyped' /\ Moves(o)
<1>1. PICK due : due = Ranked(u, t, g, kind, ranks)
  OBVIOUS
<1>2. PICK given : given = Rewarded(due)
  OBVIOUS
<1>3. Amounts(given)
  BY <1>1, <1>2, RewardsAddUp
<1>4. wallet' = WalletAfter(u, Empty, given) /\ stacks' = StacksAfter(ch, Empty, given)
  BY <1>1, <1>2 DEF ClaimRanksUpTo
<1>5. o.once = {} /\ o.give = Gains(u, ch, given) /\ o.take = Debts(u, ch, Empty)
  <2>1. o.once = {} /\ o.give = Gains(u, ch, given) /\ o.take = [s \in Value |-> 0]
    BY <1>1, <1>2 DEF RewardOrder, Ranked
  <2>2. Debts(u, ch, Empty) = [s \in Value |-> 0]
    BY NothingIsDebited DEF Debts
  <2> QED
    BY <2>1, <2>2
<1>6. \A c \in Currencies :
        /\ Debit(Empty, c) \in Nat /\ Debit(Empty, c) <= wallet[u][c]
        /\ Credit(given, c) \in Nat /\ Credit(given, c) = Worth(given, c)
  BY <1>3, NothingIsDebited, QuantitiesAddUp, CreditsAreWorth DEF ValueTyped
<1>7. \A c \in Stackables :
        /\ StackTaken(ch, Empty, c) \in Nat /\ StackTaken(ch, Empty, c) <= stacks[ch][c]
        /\ StackTaken(ch, Empty, c) = IF stacks[ch][c] = 0 THEN 0 ELSE Lines(Empty, c)
        /\ Lines(given, c) \in Nat
        /\ Lines(given, c) = IF <<ch, c>> \in o.once /\ stacks[ch][c] > 0 THEN 0 ELSE Lines(given, c)
  BY <1>3, <1>5, NothingIsDebited, QuantitiesAddUp DEF StackTaken, ValueTyped
<1> QED
  BY <1>4, <1>5, <1>6, <1>7, OrderMoves

\* The ranks of this generation that were not paid yet are a range up to the one confirmed.
LEMMA DueIsRange ==
    ASSUME RewardsInv, NEW u \in Users, NEW t \in DOMAIN Tracks, NEW kind \in Kinds, NEW rank \in Nat
    PROVE  \E from \in Nat : Due(u, t, rank, kind) = Ranked(u, t, tracks[u][t].generation, kind, from .. rank)
<1>1. PICK g : g = tracks[u][t].generation
  OBVIOUS
<1>2. PICK k \in Nat : k = tracks[u][t][kind]
  BY TrackTypes
<1>3. PICK paid : paid = PaidRanks(u, t, kind)
  OBVIOUS
<1>4. paid = 0 .. k \/ paid = {}
  BY <1>2, <1>3, HonestOf
<1>5. Due(u, t, rank, kind) = Ranked(u, t, g, kind, 0 .. rank) \ claims
  BY <1>1 DEF Due, DueAgain, Ranked
<1>6. ASSUME NEW r
      PROVE  r \in paid <=> [user |-> u, track |-> t, generation |-> g, rank |-> r, kind |-> kind] \in claims
  <2>1. paid = {c.rank : c \in {d \in claims : d.user = u /\ d.track = t /\ d.kind = kind /\ d.generation = g}}
    BY <1>1, <1>3 DEF PaidRanks
  <2>2. PICK e : e = [user |-> u, track |-> t, generation |-> g, rank |-> r, kind |-> kind]
    OBVIOUS
  <2>3. e.user = u /\ e.track = t /\ e.kind = kind /\ e.generation = g /\ e.rank = r
    BY <2>2
  <2>4. ASSUME e \in claims PROVE r \in paid
    BY <2>1, <2>3, <2>4
  <2>5. ASSUME r \in paid PROVE e \in claims
    <3>1. PICK c \in claims : c.user = u /\ c.track = t /\ c.kind = kind /\ c.generation = g /\ c.rank = r
      BY <2>1, <2>5
    <3>2. c \in Claim
      BY DEF RewardsInv
    <3>3. c = e
      BY <2>2, <3>1, <3>2 DEF Claim
    <3> QED
      BY <3>3
  <2> QED
    BY <2>2, <2>4, <2>5
<1>7. PICK from \in Nat : (0 .. rank) \ paid = from .. rank
  <2>1. CASE paid = 0 .. k
    <3>1. (0 .. rank) \ paid = (k + 1) .. rank /\ k + 1 \in Nat
      BY <1>2, <2>1
    <3> QED
      BY <3>1
  <2>2. CASE paid = {}
    <3>1. (0 .. rank) \ paid = 0 .. rank
      BY <2>2
    <3> QED
      BY <3>1
  <2> QED
    BY <1>4, <2>1, <2>2
<1>8. Due(u, t, rank, kind) = Ranked(u, t, g, kind, (0 .. rank) \ paid)
  BY <1>5, <1>6 DEF Ranked
<1> QED
  BY <1>1, <1>7, <1>8

\* What rank rewards put on record are claims that were paid.
LedgerHonest == \A d : ClaimKey(d) \in DOMAIN ledger => d \in claims

GenerationsBounded ==
    \A u \in Users, t \in DOMAIN Tracks : tracks[u][t].generation <= MAX_GENERATION

LEMMA RewardSettles ==
    ASSUME RewardsInv, GenerationsBounded, LedgerHonest, ValueTyped,
           NEW u \in Users, NEW ch \in Characters, NEW t \in DOMAIN Tracks, NEW kind \in Kinds,
           NEW rank \in 0 .. Len(Tracks[t].costs), ClaimRanksUpTo(u, ch, t, rank, kind),
           UNCHANGED purchases
    PROVE  ValueTyped' /\ ((\E o : SettlesOne(o)) \/ UNCHANGED <<Holdings, Settled>>)
<1>1. PICK n \in Nat : n = Len(Tracks[t].costs)
  BY ProgressionAssumption, LenProperties
<1>2. rank \in Nat /\ rank <= n /\ OwnerOf[ch] = u
  BY <1>1 DEF ClaimRanksUpTo, CharacterOf
<1>3. PICK g : g = tracks[u][t].generation
  OBVIOUS
<1>4. g \in 0 .. MAX_GENERATION
  <2>1. g \in Nat /\ g <= MAX_GENERATION
    BY <1>3, TrackTypes DEF GenerationsBounded
  <2> QED
    BY <2>1, ProgressionAssumption
<1>5. PICK from \in Nat : Due(u, t, rank, kind) = Ranked(u, t, g, kind, from .. rank)
  BY <1>2, <1>3, DueIsRange
<1>6. PICK ranks \in SUBSET (0 .. rank) : ranks = from .. rank
  BY <1>2
<1>7. PICK due : due = Ranked(u, t, g, kind, ranks)
  OBVIOUS
<1>8. Due(u, t, rank, kind) = due /\ due \cap claims = {}
  BY <1>5, <1>6, <1>7 DEF Due
<1>9. PICK o : o = RewardOrder(u, ch, t, g, kind, ranks)
  OBVIOUS
<1>10. ValueTyped' /\ Moves(o)
  <2>1. Due(u, t, rank, kind) = Ranked(u, t, g, kind, ranks) /\ rank \in Nat
    BY <1>2, <1>5, <1>6
  <2> QED
    BY <1>3, <1>9, <2>1, ClaimMoves
<1>11. o.ids = {ClaimKey(d) : d \in due}
  BY <1>7, <1>9 DEF RewardOrder, Ranked
<1>12. Settled' = Settled \cup o.ids
  <2>1. claims' = claims \cup due
    BY <1>8 DEF ClaimRanksUpTo
  <2>2. DOMAIN ledger' = DOMAIN ledger \cup {ClaimKey(d) : d \in Recordable(due)}
    BY <1>8 DEF ClaimRanksUpTo
  <2>3. Redeemed' = Redeemed
    BY DEF Redeemed
  <2>4. Recordable(due) \subseteq due /\ \A d, p : ClaimKey(d) # <<"store", p>>
    BY DEF Recordable, ClaimKey
  <2>5. Applied' = Applied \cup {ClaimKey(d) : d \in Recordable(due)}
    BY <2>2, <2>4 DEF Applied
  <2>6. {ClaimKey(d) : d \in claims'} = {ClaimKey(d) : d \in claims} \cup {ClaimKey(d) : d \in due}
    BY <2>1
  <2>7. {ClaimKey(d) : d \in Recordable(due)} \subseteq {ClaimKey(d) : d \in due}
    BY <2>4
  <2> QED
    BY <1>11, <2>3, <2>5, <2>6, <2>7 DEF Settled
<1>13. o.ids \cap Settled = {}
  <2>1. ASSUME NEW d \in due PROVE ClaimKey(d) \notin Settled
    <3>1. d \notin claims
      BY <1>8
    <3>2. ClaimKey(d) \notin DOMAIN ledger
      BY <3>1 DEF LedgerHonest
    <3>3. \A c \in claims : ClaimKey(d) # ClaimKey(c)
      BY <3>1 DEF ClaimKey
    <3>4. \A p : ClaimKey(d) # <<"store", p>>
      BY DEF ClaimKey
    <3> QED
      BY <3>2, <3>3, <3>4 DEF Settled, Applied, Redeemed
  <2> QED
    BY <1>11, <2>1
<1>14. CASE ranks # {}
  <2>1. o.ids # {}
    BY <1>7, <1>11, <1>14 DEF Ranked
  <2>2. from \in 0 .. n /\ rank \in 0 .. n
    BY <1>2, <1>6, <1>14
  <2>3. o \in RewardOrders
    <3>1. ranks \in {a .. b : a, b \in 0 .. n} \ {{}}
      BY <1>6, <1>14, <2>2
    <3>2. o = RewardOrder(OwnerOf[ch], ch, t, g, kind, ranks)
      BY <1>2, <1>9
    <3>3. o \in {RewardOrder(OwnerOf[c], c, t, e, k, r) : c \in Characters, e \in 0 .. MAX_GENERATION, k \in Kinds,
                     r \in {a .. b : a, b \in 0 .. n} \ {{}}}
      BY <1>4, <3>1, <3>2
    <3> QED
      BY <1>1, <3>3 DEF RewardOrders
  <2>4. SettlesOne(o)
    BY <1>10, <1>12, <1>13, <2>1, <2>3 DEF SettlesOne, OrderBook
  <2> QED
    BY <1>10, <2>4
<1>15. CASE ranks = {}
  <2>1. due = {}
    BY <1>7, <1>15 DEF Ranked
  <2>2. Settled' = Settled
    BY <1>11, <1>12, <2>1
  <2>3. o.give = Gains(u, ch, Rewarded({})) /\ o.take = [s \in Value |-> 0] /\ o.once = {}
    BY <1>7, <1>9, <2>1 DEF RewardOrder, Ranked
  <2>4. \A s \in Value : o.give[s] = 0
    BY <2>3, NoRanksNothing DEF Gains
  <2>5. ASSUME NEW s \in Value PROVE Holdings'[s] = Holdings[s]
    <3>1. DueAt(o, s) = 0 /\ YieldAt(o, s) = 0
      BY <2>3, <2>4 DEF DueAt, YieldAt
    <3>2. Holdings[s] \in Nat
      <4>1. CASE \E v \in Users, c \in Currencies : s = <<v, c>>
        BY <4>1, SlotsApart DEF ValueTyped
      <4>2. CASE \E d \in Characters, c \in Stackables : s = <<d, c>>
        BY <4>2, SlotsApart DEF ValueTyped
      <4> QED
        BY <4>1, <4>2, SlotsApart
    <3>3. Holdings'[s] = Holdings[s] - DueAt(o, s) + YieldAt(o, s)
      BY <1>10 DEF Moves
    <3> QED
      BY <3>1, <3>2, <3>3
  <2>6. Holdings' = [s \in Value |-> Holdings'[s]] /\ Holdings = [s \in Value |-> Holdings[s]]
    BY DEF Holdings
  <2>7. Holdings' = Holdings
    BY <2>5, <2>6
  <2> QED
    BY <1>10, <2>2, <2>7
<1> QED
  BY <1>14, <1>15

LEMMA GenerationsStep ==
    ASSUME RewardsInv, GenerationsBounded, [Next]_vars
    PROVE  GenerationsBounded'
<1>1. ASSUME NEW a \in Awards, ApplyProgressAndObjectives(a), NEW v \in Users, NEW s \in DOMAIN Tracks
      PROVE  tracks'[v][s].generation = tracks[v][s].generation
  <2>1. PICK u \in Users : u = a.user
    BY ProgressionAssumption
  <2>2. PICK p : p = tracks[u][s].points + Awarded(a, s)
    OBVIOUS
  <2>3. tracks' = [tracks EXCEPT ![u] = [t \in DOMAIN Tracks |->
            [@[t] EXCEPT !.points = tracks[u][t].points + Awarded(a, t)]]]
    BY <1>1, <2>1 DEF ApplyProgressAndObjectives
  <2>4. tracks \in [Users -> [DOMAIN Tracks -> TrackRow]] /\ tracks[v][s] \in TrackRow
    BY TrackTypes DEF RewardsInv
  <2>5. tracks'[v][s] = IF v = u THEN [tracks[v][s] EXCEPT !.points = p] ELSE tracks[v][s]
    <3>. HIDE DEF TrackRow
    <3> QED
      BY <2>2, <2>3, <2>4
  <2> QED
    BY <2>4, <2>5 DEF TrackRow
<1>2. ASSUME NEW u \in Users, NEW t \in DOMAIN Tracks, NEW kind \in Kinds, NEW m,
             tracks' = [tracks EXCEPT ![u][t][kind] = m], NEW v \in Users, NEW s \in DOMAIN Tracks
      PROVE  tracks'[v][s].generation = tracks[v][s].generation
  <2>1. tracks \in [Users -> [DOMAIN Tracks -> TrackRow]] /\ tracks[v][s] \in TrackRow
    BY TrackTypes DEF RewardsInv
  <2>2. tracks'[v][s] = IF v = u /\ s = t THEN [tracks[v][s] EXCEPT ![kind] = m] ELSE tracks[v][s]
    <3>. HIDE DEF TrackRow
    <3> QED
      BY <1>2, <2>1
  <2> QED
    BY <2>1, <2>2 DEF TrackRow, Kinds
<1>3. ASSUME NEW u \in Users, NEW t \in DOMAIN Tracks, ResetTrack(u, t), NEW v \in Users, NEW s \in DOMAIN Tracks
      PROVE  tracks'[v][s].generation <= MAX_GENERATION
  <2>1. tracks \in [Users -> [DOMAIN Tracks -> TrackRow]]
    BY DEF RewardsInv
  <2>2. PICK g : g = tracks[u][t].generation
    OBVIOUS
  <2>3. g \in Nat /\ g < MAX_GENERATION
    BY <1>3, <2>2, TrackTypes DEF ResetTrack
  <2>4. PICK row : row = NextGeneration(tracks[u][t])
    OBVIOUS
  <2>5. row.generation = g + 1
    BY <2>2, <2>4 DEF NextGeneration
  <2>6. tracks'[v][s] = IF v = u /\ s = t THEN row ELSE tracks[v][s]
    <3>1. tracks' = [tracks EXCEPT ![u][t] = row]
      BY <1>3, <2>4 DEF ResetTrack
    <3>. HIDE DEF TrackRow
    <3> QED
      BY <2>1, <3>1
  <2> QED
    BY <2>3, <2>5, <2>6, ProgressionAssumption DEF GenerationsBounded
<1>4. ASSUME NEW u \in Users, NEW ch \in Characters, NEW t \in DOMAIN Tracks, NEW kind \in Kinds, NEW rank,
             ConfirmRank(u, ch, t, rank, kind)
      PROVE  \E m : tracks' = [tracks EXCEPT ![u][t][kind] = m]
  <2>1. PICK n : n = Max({tracks[u][t][kind], Min({rank, Earned(u, t)})})
    OBVIOUS
  <2>2. tracks' = [tracks EXCEPT ![u][t][kind] = n]
    BY <1>4, <2>1 DEF ConfirmRank
  <2> QED
    BY <2>2
<1>5. CASE UNCHANGED tracks
  BY <1>5 DEF GenerationsBounded
<1>6. CASE ProgressionNext
  <2>1. CASE \E a \in Awards : ApplyProgressAndObjectives(a)
    BY <1>1, <2>1 DEF GenerationsBounded
  <2>2. CASE \E u \in Users, ch \in Characters, t \in DOMAIN Tracks, kind \in Kinds :
                \E rank \in 0 .. Len(Tracks[t].costs) : ConfirmRank(u, ch, t, rank, kind)
    <3>1. PICK u \in Users, ch \in Characters, t \in DOMAIN Tracks, kind \in Kinds :
                \E rank \in 0 .. Len(Tracks[t].costs) : ConfirmRank(u, ch, t, rank, kind)
      BY <2>2
    <3>2. PICK m : tracks' = [tracks EXCEPT ![u][t][kind] = m]
      BY <1>4, <3>1
    <3> QED
      BY <1>2, <3>2 DEF GenerationsBounded
  <2>3. CASE \E u \in Users, t \in DOMAIN Tracks : ResetTrack(u, t)
    BY <1>3, <2>3 DEF GenerationsBounded
  <2> QED
    BY <1>6, <2>1, <2>2, <2>3 DEF ProgressionNext
<1> QED
  BY <1>5, <1>6 DEF Next, Trade, Progress, BountyBoard, EscalationSeason, Saves, vars, progressionVars

LEMMA LedgerStep ==
    ASSUME OwnIds, LedgerHonest, EconomyStep
    PROVE  LedgerHonest'
<1>1. ASSUME NEW t \in Transactions, RunInventoryTransaction(t), UNCHANGED claims
      PROVE  LedgerHonest'
  <2>1. DOMAIN ledger' = DOMAIN ledger \cup {t.tx} /\ claims' = claims
    BY <1>1 DEF RunInventoryTransaction, Recorded
  <2> QED
    BY <2>1 DEF OwnIds, LedgerHonest
<1>2. ASSUME NEW t \in DOMAIN purchases, RedeemFreePurchase(t), UNCHANGED claims
      PROVE  LedgerHonest'
  <2>1. DOMAIN ledger' \subseteq DOMAIN ledger \cup {<<"store", t>>} /\ claims' = claims
    BY <1>2 DEF RedeemFreePurchase, Recorded
  <2>2. \A d : ClaimKey(d) # <<"store", t>>
    BY DEF ClaimKey
  <2> QED
    BY <2>1, <2>2 DEF LedgerHonest
<1>3. ASSUME NEW u, NEW ch, NEW t, NEW kind, NEW rank, ClaimRanksUpTo(u, ch, t, rank, kind)
      PROVE  LedgerHonest'
  <2>1. PICK due : due = Due(u, t, rank, kind)
    OBVIOUS
  <2>2. DOMAIN ledger' = DOMAIN ledger \cup {ClaimKey(d) : d \in Recordable(due)} /\ claims' = claims \cup due
    BY <1>3, <2>1 DEF ClaimRanksUpTo
  <2>3. Recordable(due) \subseteq due /\ \A d, e : ClaimKey(d) = ClaimKey(e) => d = e
    BY DEF Recordable, ClaimKey
  <2> QED
    BY <2>2, <2>3 DEF LedgerHonest
<1>4. CASE UNCHANGED <<ledger, claims>>
  BY <1>4 DEF LedgerHonest
<1> QED
  BY <1>1, <1>2, <1>3, <1>4
  DEF EconomyStep, UpdateInstancedItem, Tick, CreateFreePurchase, economyVars, inventoryVars

ValueInv ==
    TokensInv /\ ItemsApart /\ RewardsInv /\ GenerationsBounded /\ LedgerHonest /\ ValueTyped

LEMMA ValueStep ==
    ASSUME OwnIds, ValueInv, EconomyStep
    PROVE  ValueTyped' /\ ((\E o : SettlesOne(o)) \/ UNCHANGED <<Holdings, Settled>>)
<1>1. ASSUME NEW t \in Transactions, RunInventoryTransaction(t), UNCHANGED storeVars, UNCHANGED claims
      PROVE  ValueTyped' /\ \E o : SettlesOne(o)
  BY <1>1, TransactionSettles DEF storeVars, ValueInv
<1>2. ASSUME UNCHANGED <<wallet, stacks, ledger, purchases, claims>>
      PROVE  ValueTyped' /\ UNCHANGED <<Holdings, Settled>>
  BY <1>2 DEF ValueInv, ValueTyped, Holdings, Settled, Applied, Redeemed
<1>3. ASSUME NEW u \in Users, NEW ch \in Characters, NEW sku \in DOMAIN Offers,
             CreateFreePurchase(u, ch, sku), UNCHANGED claims
      PROVE  ValueTyped' /\ UNCHANGED <<Holdings, Settled>>
  <2>1. PICK ticket : Issues(ticket)
    BY <1>3, CreateIssues DEF ValueInv, TokensInv
  <2>2. Redeemed' = Redeemed
    <3>1. \A p \in DOMAIN purchases' : purchases'[p].redeemedAt > 0 => p \in DOMAIN purchases
      BY <2>1 DEF Issues
    <3>2. {p \in DOMAIN purchases' : purchases'[p].redeemedAt > 0} = {p \in DOMAIN purchases : purchases[p].redeemedAt > 0}
      BY <2>1, <3>1 DEF Issues
    <3> QED
      BY <3>2 DEF Redeemed
  <2>3. UNCHANGED <<wallet, stacks, ledger>>
    BY <1>3 DEF CreateFreePurchase, inventoryVars
  <2> QED
    BY <1>3, <2>2, <2>3 DEF ValueInv, ValueTyped, Holdings, Settled, Applied
<1>4. ASSUME NEW t \in DOMAIN purchases, RedeemFreePurchase(t), UNCHANGED claims
      PROVE  ValueTyped' /\ \E o : SettlesOne(o)
  BY <1>4, PurchaseSettles DEF ValueInv
<1>5. ASSUME NEW u \in Users, NEW ch \in Characters, NEW t \in DOMAIN Tracks, NEW kind \in Kinds,
             NEW rank \in 0 .. Len(Tracks[t].costs), ClaimRanksUpTo(u, ch, t, rank, kind), UNCHANGED <<now, purchases>>
      PROVE  ValueTyped' /\ ((\E o : SettlesOne(o)) \/ UNCHANGED <<Holdings, Settled>>)
  BY <1>5, RewardSettles DEF ValueInv
<1>6. CASE \E w \in ItemUpdates : UpdateInstancedItem(w) /\ UNCHANGED storeVars /\ UNCHANGED claims
  BY <1>2, <1>6 DEF UpdateInstancedItem, storeVars
<1>7. CASE Tick /\ UNCHANGED storeVars /\ UNCHANGED claims
  BY <1>2, <1>7 DEF Tick, inventoryVars, storeVars
<1>8. CASE UNCHANGED economyVars /\ UNCHANGED claims
  BY <1>2, <1>8 DEF economyVars, inventoryVars, storeVars
<1> QED
  BY <1>1, <1>3, <1>4, <1>5, <1>6, <1>7, <1>8 DEF EconomyStep

LEMMA ValueKept ==
    ASSUME OwnIds, InstancedOrStacked
    PROVE  /\ Init => ValueInv
           /\ ValueInv /\ [Next]_vars => ValueInv' /\ (Abstract!Next \/ UNCHANGED <<Holdings, Settled>>)
<1>1. Init => ValueInv
  <2>1. ASSUME Init PROVE TokensInv
    BY <2>1, TicketsFirst, StoreAssumption DEF Init, StoreInit, TokensInv
  <2>2. ASSUME Init PROVE ValueTyped /\ ItemsApart /\ LedgerHonest
    BY <2>2, InventoryAssumption DEF Init, StoreInit, InventoryInit, ValueTyped, ItemsApart, LedgerHonest, Empty
  <2>3. ASSUME Init PROVE GenerationsBounded
    BY <2>3, ProgressionAssumption DEF Init, ProgressionInit, GenerationsBounded
  <2> QED
    BY <2>1, <2>2, <2>3, RewardsKept DEF ValueInv
<1>2. ASSUME ValueInv, [Next]_vars
      PROVE  ValueInv' /\ (Abstract!Next \/ UNCHANGED <<Holdings, Settled>>)
  <2>1. EconomyStep
    BY <1>2, EconomySteps
  <2>2. TokensInv' /\ LedgerHonest'
    BY <1>2, <2>1, TokensStep, LedgerStep DEF ValueInv
  <2>3. ItemsApart'
    BY <1>2, <2>1, ItemsStayApart DEF ValueInv, TokensInv
  <2>4. RewardsInv' /\ GenerationsBounded'
    BY <1>2, RewardsKept, GenerationsStep DEF ValueInv
  <2>5. ValueTyped' /\ ((\E o : SettlesOne(o)) \/ UNCHANGED <<Holdings, Settled>>)
    BY <1>2, <2>1, ValueStep
  <2> QED
    BY <2>2, <2>3, <2>4, <2>5, OneIsNext DEF ValueInv
<1> QED
  BY <1>1, <1>2

\* The account data implements Settlement: for any transactions, offers, tracks and awards, each
\* id, token and rank settles once, as one whole order, and never with more than is held.
THEOREM ValueIsSettled ==
    ASSUME OwnIds, InstancedOrStacked
    PROVE  Spec => Settles
<1>1. Init => Abstract!Init
  <2>1. ASSUME Init PROVE Holdings \in [Value -> Nat]
    <3>1. ASSUME NEW s \in Value PROVE Holdings[s] \in Nat
      <4>1. ValueTyped
        BY <2>1, ValueKept DEF ValueInv
      <4>2. CASE \E v \in Users, c \in Currencies : s = <<v, c>>
        BY <4>1, <4>2, SlotsApart DEF ValueTyped
      <4>3. CASE \E d \in Characters, c \in Stackables : s = <<d, c>>
        BY <4>1, <4>3, SlotsApart DEF ValueTyped
      <4> QED
        BY <4>2, <4>3, SlotsApart
    <3> QED
      BY <3>1 DEF Holdings
  <2>2. ASSUME Init PROVE Settled = {}
    BY <2>2 DEF Init, StoreInit, InventoryInit, ProgressionInit, Settled, Applied, Redeemed, Empty
  <2> QED
    BY <2>1, <2>2 DEF Abstract!Init, Holdings, Settled
<1>2. ValueInv /\ [Next]_vars => [Abstract!Next]_<<Holdings, Settled>>
  BY ValueKept
<1>3. Settles <=> Abstract!Init /\ [][Abstract!Next]_<<Holdings, Settled>>
  BY DEF Settles, Abstract!Spec, Holdings, Settled
<1> QED
  BY <1>1, <1>2, <1>3, ValueKept, PTL DEF Spec

---------------------------------------------------------------------------
(* Bounties *)

\* Nothing on a board displaces anything else.
Lone(entries) == \A e, f \in entries : e # f => ~Displaces(e, f)

\* Nothing on a board is of a generation that is over.
Fresh(entries, over) == \A e \in entries : ~IsSeasonal(e) /\ e.drafted > 0 => e.drafted > over[e.id]

Retirements == [DOMAIN KindOf -> Nat]
BoardState == [kept : SUBSET Entry, retired : Retirements]
Sound(state) == Lone(state.kept) /\ Fresh(state.kept, state.retired)

\* A lone board has an id once: retiring some of it records their drafts, and no other.
LEMMA RetireRecords ==
    ASSUME NEW over \in Retirements, NEW entries, entries \subseteq Entry, Lone(entries)
    PROVE  /\ Retire(over, entries) \in Retirements
           /\ \A id \in DOMAIN KindOf : over[id] <= Retire(over, entries)[id]
           /\ \A e \in entries : /\ e.drafted <= Retire(over, entries)[e.id]
                                 /\ Retire(over, entries)[e.id] \in {over[e.id], e.drafted}
           /\ \A id \in DOMAIN KindOf : (\A e \in entries : e.id # id) => Retire(over, entries)[id] = over[id]
<1>. DEFINE Times(id) == {over[id]} \cup {e.drafted : e \in {f \in entries : f.id = id}}
            Latest(id) == CHOOSE t \in Times(id) : \A s \in Times(id) : s <= t
<1>1. Retire(over, entries) = [id \in DOMAIN KindOf |-> Latest(id)]
  BY DEF Retire, Retirements
<1>2. \A e \in entries : e.drafted \in Nat /\ e.id \in DOMAIN KindOf
  BY DEF Entry
<1>3. \A id \in DOMAIN KindOf : over[id] \in Nat
  BY DEF Retirements
<1>4. ASSUME NEW id \in DOMAIN KindOf, NEW e \in entries, e.id = id
      PROVE  Times(id) = {over[id], e.drafted}
  <2>1. \A f \in entries : f.id = id => f = e
    BY <1>4 DEF Lone, Displaces
  <2> QED
    BY <1>4, <2>1
<1>5. ASSUME NEW id \in DOMAIN KindOf, \A e \in entries : e.id # id
      PROVE  Times(id) = {over[id]}
  BY <1>5
<1>. HIDE DEF Times
<1>6. ASSUME NEW id \in DOMAIN KindOf, NEW a \in Nat, NEW b \in Nat, Times(id) = {a, b}
      PROVE  Latest(id) \in {a, b} /\ a <= Latest(id) /\ b <= Latest(id)
  <2>1. \E t \in Times(id) : \A s \in Times(id) : s <= t
    BY <1>6
  <2> QED
    BY <1>6, <2>1
<1>. HIDE DEF Latest
<1>7. ASSUME NEW e \in entries
      PROVE  /\ Latest(e.id) \in {over[e.id], e.drafted}
             /\ over[e.id] <= Latest(e.id) /\ e.drafted <= Latest(e.id)
  BY <1>2, <1>3, <1>4, <1>6
<1>8. ASSUME NEW id \in DOMAIN KindOf, \A e \in entries : e.id # id
      PROVE  Latest(id) = over[id]
  <2>1. Times(id) = {over[id], over[id]}
    BY <1>5, <1>8
  <2> QED
    BY <1>3, <1>6, <2>1
<1>9. \A id \in DOMAIN KindOf : Latest(id) \in Nat /\ over[id] <= Latest(id)
  BY <1>2, <1>3, <1>7, <1>8
<1> QED
  BY <1>1, <1>2, <1>7, <1>8, <1>9 DEF Retirements

LEMMA LonePart ==
    ASSUME NEW entries, Lone(entries), NEW part, part \subseteq entries
    PROVE  Lone(part)
BY DEF Lone

\* Who an entry displaces, displaces it.
LEMMA DisplacesBoth ==
    ASSUME NEW e \in Entry, NEW f \in Entry
    PROVE  /\ Displaces(e, f) <=> Displaces(f, e)
           /\ e.id = f.id => Displaces(e, f)
BY DEF Displaces, Entry

\* A merge takes an entry for those it displaces, or changes nothing.
LEMMA MergeStep ==
    ASSUME NEW state \in BoardState, Sound(state), NEW e \in Entry, MergeEntry(state, e) # state
    PROVE  \E x \in Entry, over \in SUBSET state.kept :
        /\ x.id = e.id /\ x.slot = e.slot /\ x.drafted = e.drafted /\ x.version = e.version
        /\ over = {old \in state.kept : Displaces(e, old) /\ (old.id # e.id \/ LaterDraft(e, old))}
        /\ \A old \in state.kept : Displaces(e, old) => CanReplace(e, old)
        /\ \A old \in state.kept : old.id = e.id /\ old.claimed /\ ~LaterDraft(e, old) => x.claimed
        /\ state.retired[e.id] = 0 \/ e.drafted > state.retired[e.id]
        /\ MergeEntry(state, e) =
            [kept |-> {old \in state.kept : ~Displaces(e, old)} \cup {x}, retired |-> Retire(state.retired, over)]
<1>1. PICK matches \in SUBSET state.kept : matches = {old \in state.kept : Displaces(e, old)}
  OBVIOUS
<1>2. PICK over \in SUBSET state.kept : over = {old \in matches : old.id # e.id \/ LaterDraft(e, old)}
  OBVIOUS
<1>3. PICK x : x = MergedEntry(e, matches)
  OBVIOUS
<1>4. /\ ~IsRetired(e, state.retired) /\ \A old \in matches : CanReplace(e, old)
      /\ MergeEntry(state, e) = [kept |-> (state.kept \ matches) \cup {x}, retired |-> Retire(state.retired, over)]
  BY <1>1, <1>2, <1>3 DEF MergeEntry
<1>5. x \in Entry /\ x.id = e.id /\ x.slot = e.slot /\ x.drafted = e.drafted /\ x.version = e.version
  <2>1. PICK c \in BOOLEAN : x = [e EXCEPT !.claimed = c]
    <3>1. PICK c : c = (e.claimed \/ \E old \in matches : old.id = e.id /\ old.claimed /\ ~LaterDraft(e, old))
      OBVIOUS
    <3> QED
      BY <1>3, <3>1 DEF MergedEntry
  <2> QED
    BY <2>1 DEF Entry
<1>6. \A old \in matches : old.id = e.id /\ old.claimed /\ ~LaterDraft(e, old) => x.claimed
  BY <1>3 DEF MergedEntry, Entry
<1>7. \A old \in state.kept : old.id = e.id => old \in matches
  BY <1>1 DEF Displaces
<1>8. state.kept \ matches = {old \in state.kept : ~Displaces(e, old)}
  BY <1>1
<1>9. state.retired[e.id] = 0 \/ e.drafted > state.retired[e.id]
  <2>1. state.retired[e.id] \in Nat /\ e.drafted \in Nat
    BY DEF BoardState, Retirements, Entry
  <2> QED
    BY <1>4, <2>1 DEF IsRetired
<1>10. over = {old \in state.kept : Displaces(e, old) /\ (old.id # e.id \/ LaterDraft(e, old))}
  BY <1>1, <1>2
<1> QED
  BY <1>1, <1>4, <1>5, <1>6, <1>7, <1>8, <1>9, <1>10

LEMMA MergeSound ==
    ASSUME NEW state \in BoardState, Sound(state), NEW e \in Entry
    PROVE  MergeEntry(state, e) \in BoardState /\ Sound(MergeEntry(state, e))
<1>1. CASE MergeEntry(state, e) = state
  BY <1>1
<1>2. CASE MergeEntry(state, e) # state
  <2>1. PICK x \in Entry, over \in SUBSET state.kept :
        /\ x.id = e.id /\ x.slot = e.slot /\ x.drafted = e.drafted /\ x.version = e.version
        /\ over = {old \in state.kept : Displaces(e, old) /\ (old.id # e.id \/ LaterDraft(e, old))}
        /\ state.retired[e.id] = 0 \/ e.drafted > state.retired[e.id]
        /\ MergeEntry(state, e) =
            [kept |-> {old \in state.kept : ~Displaces(e, old)} \cup {x}, retired |-> Retire(state.retired, over)]
    BY <1>2, MergeStep
  <2>2. PICK rest \in SUBSET state.kept : rest = {old \in state.kept : ~Displaces(e, old)}
    OBVIOUS
  <2>3. /\ state.kept \subseteq Entry /\ over \subseteq Entry /\ Lone(over) /\ state.retired \in Retirements
        /\ Lone(rest) /\ rest \subseteq Entry
    BY LonePart DEF BoardState, Sound
  <2>4. PICK after : after = Retire(state.retired, over)
    OBVIOUS
  <2>5. /\ after \in Retirements
        /\ \A old \in over : after[old.id] \in {state.retired[old.id], old.drafted}
        /\ \A id \in DOMAIN KindOf : (\A old \in over : old.id # id) => after[id] = state.retired[id]
    BY <2>3, <2>4, RetireRecords
  <2>6. MergeEntry(state, e) = [kept |-> rest \cup {x}, retired |-> after]
    BY <2>1, <2>2, <2>4
  <2>7. MergeEntry(state, e) \in BoardState
    BY <2>3, <2>5, <2>6 DEF BoardState
  <2>8. Lone(rest \cup {x})
    <3>1. ASSUME NEW f \in rest PROVE ~Displaces(x, f) /\ ~Displaces(f, x)
      <4>1. ~Displaces(e, f) /\ f \in Entry
        BY <2>2, <2>3
      <4>2. ~Displaces(x, f)
        BY <2>1, <4>1 DEF Displaces
      <4> QED
        BY <4>1, <4>2, DisplacesBoth
    <3> QED
      BY <2>3, <3>1 DEF Lone
  <2>9. ASSUME NEW f \in rest \cup {x}, ~IsSeasonal(f), f.drafted > 0
        PROVE  f.drafted > after[f.id]
    <3>1. CASE f = x
      <4>1. e.id \in DOMAIN KindOf /\ e.drafted \in Nat /\ state.retired[e.id] \in Nat
        BY <2>3 DEF Entry, Retirements
      <4>2. ASSUME NEW old \in over, old.id = e.id
            PROVE  e.drafted > old.drafted
        BY <2>1, <4>2 DEF LaterDraft
      <4>3. CASE \E old \in over : old.id = e.id
        BY <2>1, <2>5, <2>9, <3>1, <4>1, <4>2, <4>3
      <4>4. CASE \A old \in over : old.id # e.id
        BY <2>1, <2>5, <2>9, <3>1, <4>1, <4>4
      <4> QED
        BY <4>3, <4>4
    <3>2. CASE f \in rest
      <4>1. f \in state.kept /\ f.id \in DOMAIN KindOf /\ ~Displaces(e, f)
        BY <2>2, <2>3, <3>2 DEF Entry
      <4>2. \A old \in over : old.id # f.id
        BY <2>1, <4>1 DEF Sound, Lone, Displaces
      <4>3. f.drafted > state.retired[f.id]
        BY <2>9, <4>1 DEF Sound, Fresh
      <4> QED
        BY <2>5, <4>1, <4>2, <4>3
    <3> QED
      BY <3>1, <3>2
  <2>10. Sound(MergeEntry(state, e))
    BY <2>6, <2>8, <2>9 DEF Sound, Fresh
  <2> QED
    BY <2>7, <2>10
<1> QED
  BY <1>1, <1>2

\* What the entries of a post make of a board, one after the other.
Merges(run, base, entries) ==
    /\ run[0] = base
    /\ \A i \in 1 .. Len(entries) : run[i] = MergeEntry(run[i - 1], entries[i])
    /\ run[Len(entries)] = FoldLeft(MergeEntry, base, entries)

SoundStates == {state \in BoardState : Sound(state)}

LEMMA MergedInOrder ==
    ASSUME NEW entries \in Seq(Entry), NEW base \in SoundStates
    PROVE  \E run : Merges(run, base, entries) /\ \A i \in 0 .. Len(entries) : run[i] \in SoundStates
<1>. DEFINE n == Len(entries)
            V == SoundStates
            G == [p \in V \X (1 .. n) |-> MergeEntry(p[1], entries[p[2]])]
            Body(it) == [q \in SUBSET (1 .. n) |->
                            IF q = {} THEN base ELSE MergeEntry(it[q \ {LargestOf(q)}], entries[LargestOf(q)])]
            done == CHOOSE it : it = Body(it)
<1>1. n \in Nat /\ DOMAIN entries = 1 .. n /\ \A i \in 1 .. n : entries[i] \in Entry
  BY LenProperties, ElementOfSeq
<1>2. FoldLeft(MergeEntry, base, entries) = done[1 .. n]
  BY <1>1, Zenon DEF FoldLeft, MapThenFoldSet, Max, LargestOf
<1>3. Chooses(LastOf(n), 1 .. n) /\ IsFiniteSet(1 .. n)
  BY <1>1, LastOfChooses
<1>4. G \in [V \X (1 .. n) -> V]
  BY <1>1, MergeSound DEF SoundStates
<1>5. PICK f : IsFold(f, 1 .. n, LastOf(n), V, base, G)
  <2>. HIDE DEF G, V
  <2>1. base \in V
    BY DEF V
  <2> QED
    BY <1>3, <1>4, <2>1, FoldExists
<1>6. f = Body(f)
  BY <1>5, <1>3 DEF IsFold, LastOf, Chooses
<1>7. done = Body(done)
  <2>. HIDE DEF Body
  <2> QED
    BY <1>6
<1>. HIDE DEF done
<1>. DEFINE run == [i \in 0 .. n |-> done[1 .. i]]
<1>8. 1 .. 0 = {} /\ 0 \in 0 .. n /\ n \in 0 .. n
  BY <1>1
<1>9. run[0] = base
  BY <1>7, <1>8
<1>10. ASSUME NEW i \in 1 .. n
       PROVE  run[i] = MergeEntry(run[i - 1], entries[i]) /\ i - 1 \in 0 .. n
  <2>1. i \in Nat /\ i # 0 /\ 1 .. i \in SUBSET (1 .. n) /\ 1 .. i # {} /\ i \in 0 .. n /\ i - 1 \in 0 .. n
    BY <1>1
  <2>2. LargestOf(1 .. i) = i /\ (1 .. i) \ {i} = 1 .. (i - 1)
    BY <2>1, LargestOfPrefix
  <2>3. done[1 .. i] = MergeEntry(done[1 .. (i - 1)], entries[i])
    BY <1>7, <2>1, <2>2
  <2> QED
    BY <2>1, <2>3
<1>11. run[n] = FoldLeft(MergeEntry, base, entries)
  BY <1>2, <1>8
<1>12. PICK r : r = run
  OBVIOUS
<1>13. /\ r[0] = base /\ r[n] = FoldLeft(MergeEntry, base, entries)
       /\ \A i \in 1 .. n : r[i] = MergeEntry(r[i - 1], entries[i])
  BY <1>9, <1>10, <1>11, <1>12
<1>. HIDE DEF run, n
<1>14. Merges(r, base, entries)
  BY <1>13 DEF Merges, n
<1>. DEFINE T == {i \in Nat : i <= n => r[i] \in SoundStates}
<1>15. 0 \in T
  BY <1>13 DEF T
<1>16. ASSUME NEW i \in Nat, i \in T
       PROVE  i + 1 \in T
  <2>1. CASE i + 1 <= n
    <3>1. i + 1 \in 1 .. n /\ i <= n /\ (i + 1) - 1 = i
      BY <1>1, <2>1
    <3>2. r[i + 1] = MergeEntry(r[i], entries[i + 1]) /\ r[i] \in SoundStates /\ entries[i + 1] \in Entry
      BY <1>1, <1>13, <1>16, <3>1
    <3> QED
      BY <3>2, MergeSound DEF SoundStates
  <2> QED
    BY <2>1
<1>17. \A i \in Nat : i \in T
  <2>. HIDE DEF T
  <2> QED
    BY <1>15, <1>16, SetInduction
<1>18. \A i \in 0 .. n : r[i] \in SoundStates
  BY <1>1, <1>17
<1> QED
  BY <1>14, <1>18 DEF n

\* Of which week an entry is.
Current(e, drawnFor) ==
    \/ drawnFor = Start(WEEKLY_RESET)
    \/ e.drafted \in Start(WEEKLY_RESET) .. Start(WEEKLY_RESET) + WEEKLY_RESET - 1

Ticking == tick \in Nat /\ WEEKLY_RESET <= tick /\ tick <= LAST_TICK

DrawnNow == SelectWeekly[tick \div WEEKLY_RESET]

LEMMA DrawnIsSeasonal ==
    ASSUME Ticking
    PROVE  /\ DrawnNow \in Seq({id \in DOMAIN KindOf : KindOf[id] = "challenge"}) /\ IsInjective(DrawnNow)
           /\ DOMAIN DrawnNow \subseteq Nat
           /\ \A slot \in DOMAIN DrawnNow : DrawnNow[slot] \in DOMAIN KindOf /\ KindOf[DrawnNow[slot]] = "challenge"
<1>1. tick \div WEEKLY_RESET \in 0 .. LAST_TICK \div WEEKLY_RESET
  <2>1. ASSUME NEW a \in Nat, NEW b \in Nat, NEW l \in Nat \ {0}, a <= b
        PROVE  a \div l \in Nat /\ b \div l \in Nat /\ a \div l <= b \div l
    <3>1. /\ a \div l \in Int /\ b \div l \in Int
          /\ l * (a \div l) <= a /\ a < l * (a \div l) + l
          /\ l * (b \div l) <= b /\ b < l * (b \div l) + l
      BY <2>1
    <3>2. l * (a \div l) < l * (b \div l) + l
      BY <2>1, <3>1
    <3> QED
      BY <2>1, <3>1, <3>2
  <2>2. LAST_TICK \in Nat /\ WEEKLY_RESET \in Nat \ {0}
    BY BountyAssumption
  <2>3. tick \div WEEKLY_RESET \in Nat /\ LAST_TICK \div WEEKLY_RESET \in Nat
        /\ tick \div WEEKLY_RESET <= LAST_TICK \div WEEKLY_RESET
    BY <2>1, <2>2 DEF Ticking
  <2> QED
    BY <2>3
<1>2. DrawnNow \in Seq({id \in DOMAIN KindOf : KindOf[id] = "challenge"}) /\ IsInjective(DrawnNow)
  BY <1>1, BountyAssumption DEF DrawnNow
<1>3. /\ Len(DrawnNow) \in Nat /\ DOMAIN DrawnNow = 1 .. Len(DrawnNow)
      /\ \A slot \in DOMAIN DrawnNow : DrawnNow[slot] \in {id \in DOMAIN KindOf : KindOf[id] = "challenge"}
  BY <1>2, LenProperties, ElementOfSeq
<1> QED
  BY <1>2, <1>3

\* What the board shows of stored entries.
Shows(shown, entries, drawnFor) ==
    /\ shown \subseteq Entry /\ Lone(shown)
    /\ \A e : e \in shown /\ ~IsSeasonal(e) <=> e \in entries /\ ~IsSeasonal(e)
    /\ {e.id : e \in {f \in shown : IsSeasonal(f)}} = Range(DrawnNow)
    /\ \A e \in shown : IsSeasonal(e) =>
        /\ e.drafted = NativeSeasonWeekStart
        /\ \A k \in entries : k.id = e.id /\ Current(k, drawnFor) => e.version = k.version /\ e.claimed = k.claimed
        /\ (\A k \in entries : k.id = e.id => ~Current(k, drawnFor)) => e.version = 0 /\ e.claimed = FALSE

LEMMA WeeklyShows ==
    ASSUME Ticking, NEW entries, entries \subseteq Entry, Lone(entries), NEW drawnFor
    PROVE  Shows(ApplyWeekly(entries, drawnFor), entries, drawnFor)
<1>. DEFINE kept(slot) == {e \in entries : e.id = DrawnNow[slot] /\ Current(e, drawnFor)}
            row(slot) ==
                IF kept(slot) = {} THEN {[id |-> DrawnNow[slot], slot |-> slot, drafted |-> NativeSeasonWeekStart,
                                          version |-> 0, claimed |-> FALSE]}
                ELSE {[e EXCEPT !.slot = slot, !.drafted = NativeSeasonWeekStart] : e \in kept(slot)}
            shown == {e \in entries : KindOf[e.id] # "challenge"} \cup UNION {row(slot) : slot \in DOMAIN DrawnNow}
<1>1. ApplyWeekly(entries, drawnFor) = shown
  BY DEF ApplyWeekly, DrawnNow, Current
<1>2. ASSUME NEW slot \in DOMAIN DrawnNow
      PROVE  \E r \in Entry :
                /\ row(slot) = {r} /\ r.id = DrawnNow[slot] /\ r.drafted = NativeSeasonWeekStart
                /\ \A k \in entries : k.id = r.id /\ Current(k, drawnFor) => r.version = k.version /\ r.claimed = k.claimed
                /\ (\A k \in entries : k.id = r.id => ~Current(k, drawnFor)) => r.version = 0 /\ r.claimed = FALSE
  <2>1. slot \in Nat /\ DrawnNow[slot] \in DOMAIN KindOf /\ NativeSeasonWeekStart \in Nat
    BY DrawnIsSeasonal DEF NativeSeasonWeekStart
  <2>2. CASE kept(slot) = {}
    <3>1. PICK r : r = [id |-> DrawnNow[slot], slot |-> slot, drafted |-> NativeSeasonWeekStart,
                        version |-> 0, claimed |-> FALSE]
      OBVIOUS
    <3>2. r \in Entry /\ r.id = DrawnNow[slot] /\ r.drafted = NativeSeasonWeekStart
          /\ r.version = 0 /\ r.claimed = FALSE
      BY <2>1, <3>1 DEF Entry
    <3>3. row(slot) = {r}
      BY <2>2, <3>1
    <3>4. \A k \in entries : ~(k.id = r.id /\ Current(k, drawnFor))
      BY <2>2, <3>2
    <3> QED
      BY <3>2, <3>3, <3>4
  <2>3. CASE kept(slot) # {}
    <3>1. PICK k \in entries : k.id = DrawnNow[slot] /\ Current(k, drawnFor)
      BY <2>3
    <3>2. \A j \in kept(slot) : j = k
      BY <3>1 DEF Lone, Displaces
    <3>3. kept(slot) = {k}
      BY <3>1, <3>2
    <3>4. PICK r : r = [k EXCEPT !.slot = slot, !.drafted = NativeSeasonWeekStart]
      OBVIOUS
    <3>5. r \in Entry /\ r.id = DrawnNow[slot] /\ r.drafted = NativeSeasonWeekStart
          /\ r.version = k.version /\ r.claimed = k.claimed
      BY <2>1, <3>1, <3>4 DEF Entry
    <3>6. row(slot) = {r}
      BY <3>3, <3>4
    <3>7. \A j \in entries : j.id = r.id /\ Current(j, drawnFor) => j = k
      BY <3>2, <3>5
    <3> QED
      BY <3>1, <3>5, <3>6, <3>7
  <2> QED
    BY <2>2, <2>3
<1>. HIDE DEF kept, row
<1>3. PICK r : \A slot \in DOMAIN DrawnNow :
            /\ r[slot] \in Entry
            /\ row(slot) = {r[slot]} /\ r[slot].id = DrawnNow[slot] /\ r[slot].drafted = NativeSeasonWeekStart
            /\ \A k \in entries : k.id = r[slot].id /\ Current(k, drawnFor) =>
                r[slot].version = k.version /\ r[slot].claimed = k.claimed
            /\ (\A k \in entries : k.id = r[slot].id => ~Current(k, drawnFor)) =>
                r[slot].version = 0 /\ r[slot].claimed = FALSE
  <2>. DEFINE IsRow(slot, x) ==
                /\ row(slot) = {x} /\ x.id = DrawnNow[slot] /\ x.drafted = NativeSeasonWeekStart
                /\ \A k \in entries : k.id = x.id /\ Current(k, drawnFor) => x.version = k.version /\ x.claimed = k.claimed
                /\ (\A k \in entries : k.id = x.id => ~Current(k, drawnFor)) => x.version = 0 /\ x.claimed = FALSE
  <2>1. \A slot \in DOMAIN DrawnNow : \E x \in Entry : IsRow(slot, x)
    BY <1>2
  <2>. HIDE DEF IsRow
  <2>2. PICK r : r = [slot \in DOMAIN DrawnNow |-> CHOOSE x \in Entry : IsRow(slot, x)]
    OBVIOUS
  <2>3. \A slot \in DOMAIN DrawnNow : r[slot] \in Entry /\ IsRow(slot, r[slot])
    BY <2>1, <2>2
  <2> QED
    BY <2>3 DEF IsRow
<1>4. shown = {e \in entries : KindOf[e.id] # "challenge"} \cup {r[slot] : slot \in DOMAIN DrawnNow}
  BY <1>3
<1>. HIDE DEF shown
<1>5. \A slot \in DOMAIN DrawnNow : KindOf[r[slot].id] = "challenge"
  BY <1>3, DrawnIsSeasonal
<1>6. shown \subseteq Entry
  BY <1>3, <1>4
<1>7. Lone(shown)
  <2>1. ASSUME NEW e \in entries, KindOf[e.id] # "challenge", NEW slot \in DOMAIN DrawnNow
        PROVE  ~Displaces(e, r[slot]) /\ ~Displaces(r[slot], e)
    BY <1>5, <2>1 DEF Displaces
  <2>2. ASSUME NEW a \in DOMAIN DrawnNow, NEW b \in DOMAIN DrawnNow, r[a] # r[b]
        PROVE  ~Displaces(r[a], r[b])
    <3>1. DrawnNow[a] # DrawnNow[b]
      BY <2>2, DrawnIsSeasonal DEF IsInjective
    <3> QED
      BY <1>3, <1>5, <3>1 DEF Displaces
  <2> QED
    BY <1>4, <2>1, <2>2 DEF Lone
<1>8. ASSUME NEW e
      PROVE  e \in shown /\ ~IsSeasonal(e) <=> e \in entries /\ ~IsSeasonal(e)
  BY <1>4, <1>5 DEF IsSeasonal
<1>9. {e.id : e \in {f \in shown : IsSeasonal(f)}} = Range(DrawnNow)
  <2>1. {f \in shown : IsSeasonal(f)} = {r[slot] : slot \in DOMAIN DrawnNow}
    BY <1>4, <1>5 DEF IsSeasonal
  <2> QED
    BY <1>3, <2>1 DEF Range
<1>10. ASSUME NEW e \in shown, IsSeasonal(e)
       PROVE  /\ e.drafted = NativeSeasonWeekStart
              /\ \A k \in entries : k.id = e.id /\ Current(k, drawnFor) => e.version = k.version /\ e.claimed = k.claimed
              /\ (\A k \in entries : k.id = e.id => ~Current(k, drawnFor)) => e.version = 0 /\ e.claimed = FALSE
  <2>1. PICK slot \in DOMAIN DrawnNow : e = r[slot]
    BY <1>4, <1>10 DEF IsSeasonal
  <2> QED
    BY <1>3, <2>1
<1> QED
  BY <1>1, <1>6, <1>7, <1>8, <1>9, <1>10 DEF Shows

BoardInv ==
    /\ Ticking
    /\ board \subseteq Entry /\ retired \in Retirements
    /\ Lone(board) /\ Fresh(board, retired)

LEMMA BoardShown ==
    ASSUME BoardInv
    PROVE  /\ Shows(GetBounties, WithoutExpiredDaily(board), window)
           /\ WithoutExpiredDaily(board) \subseteq board
           /\ [kept |-> GetBounties, retired |-> retired] \in SoundStates
<1>1. WithoutExpiredDaily(board) \subseteq board
  BY DEF WithoutExpiredDaily
<1>2. Shows(GetBounties, WithoutExpiredDaily(board), window)
  BY <1>1, LonePart, WeeklyShows DEF BoardInv, GetBounties
<1>3. GetBounties \subseteq Entry /\ Lone(GetBounties)
  BY <1>2 DEF Shows
<1>4. \A e \in GetBounties : ~IsSeasonal(e) => e \in board
  BY <1>1, <1>2 DEF Shows
<1>5. Fresh(GetBounties, retired)
  BY <1>4 DEF Fresh, BoardInv
<1>. HIDE DEF GetBounties
<1> QED
  BY <1>1, <1>2, <1>3, <1>5 DEF SoundStates, BoardState, Sound, BoardInv

LEMMA BoardIsSound ==
    ASSUME BoardInv
    PROVE  BoardSound
<1>1. PICK shown : shown = GetBounties
  OBVIOUS
<1>2. Shows(shown, WithoutExpiredDaily(board), window) /\ Fresh(shown, retired)
  BY <1>1, BoardShown DEF SoundStates, Sound
<1>3. PICK challenges : challenges = {e \in shown : KindOf[e.id] = "challenge"}
  OBVIOUS
<1>4. {e.id : e \in challenges} = Range(SelectWeekly[tick \div WEEKLY_RESET])
  BY <1>2, <1>3 DEF Shows, IsSeasonal, DrawnNow
<1>5. \A e \in shown \ challenges : e.drafted > 0 => e.drafted > retired[e.id]
  BY <1>2, <1>3 DEF Fresh, IsSeasonal
<1>6. \A e, f \in shown : e # f => ~Displaces(e, f)
  BY <1>2 DEF Shows, Lone
<1> QED
  BY <1>1, <1>3, <1>4, <1>5, <1>6 DEF BoardSound

LEMMA MergedIsSound ==
    ASSUME NEW stored, [kept |-> stored, retired |-> retired] \in SoundStates, NEW post \in Posts
    PROVE  MergeBounties(stored, post) \in SoundStates
<1>1. PICK base \in SoundStates : base = [kept |-> stored, retired |-> retired]
  OBVIOUS
<1>2. stored \subseteq Entry /\ retired \in Retirements /\ Lone(stored) /\ Fresh(stored, retired)
  BY DEF SoundStates, BoardState, Sound
<1>3. CASE post.reset
  <2>1. PICK drafted \in SUBSET stored : drafted = {e \in stored : KindOf[e.id] = "drafted"}
    OBVIOUS
  <2>2. PICK after : after = Retire(retired, drafted)
    OBVIOUS
  <2>3. MergeBounties(stored, post) = [kept |-> stored \ drafted, retired |-> after]
    BY <1>3, <2>1, <2>2 DEF MergeBounties
  <2>4. Lone(drafted) /\ Lone(stored \ drafted) /\ drafted \subseteq Entry
    BY <1>2, LonePart
  <2>5. /\ after \in Retirements
        /\ \A id \in DOMAIN KindOf : (\A e \in drafted : e.id # id) => after[id] = retired[id]
    BY <1>2, <2>2, <2>4, RetireRecords
  <2>6. ASSUME NEW e \in stored \ drafted
        PROVE  after[e.id] = retired[e.id]
    <3>1. \A f \in drafted : f.id # e.id
      BY <1>2 DEF Lone, Displaces
    <3>2. e.id \in DOMAIN KindOf
      BY <1>2 DEF Entry
    <3> QED
      BY <2>5, <3>1, <3>2
  <2>7. Fresh(stored \ drafted, after)
    BY <1>2, <2>6 DEF Fresh
  <2> QED
    BY <1>2, <2>3, <2>4, <2>5, <2>7 DEF SoundStates, BoardState, Sound
<1>4. CASE ~post.reset
  <2>1. PICK entries : entries = post.entries
    OBVIOUS
  <2>2. entries \in Seq(Entry)
    BY <2>1, BountyAssumption
  <2>3. PICK run : Merges(run, base, entries) /\ \A i \in 0 .. Len(entries) : run[i] \in SoundStates
    BY <2>2, MergedInOrder
  <2>4. Len(entries) \in 0 .. Len(entries)
    BY <2>2, LenProperties
  <2>5. run[Len(entries)] \in SoundStates /\ run[Len(entries)] = FoldLeft(MergeEntry, base, entries)
    BY <2>3, <2>4 DEF Merges
  <2>6. MergeBounties(stored, post) = FoldLeft(MergeEntry, base, entries)
    BY <1>1, <1>4, <2>1 DEF MergeBounties
  <2> QED
    BY <2>5, <2>6
<1> QED
  BY <1>3, <1>4

LEMMA BoardStep ==
    ASSUME BoardInv, BountyNext
    PROVE  BoardInv'
<1>1. PICK shown : shown = GetBounties
  OBVIOUS
<1>2. [kept |-> shown, retired |-> retired] \in SoundStates /\ Shows(shown, WithoutExpiredDaily(board), window)
  BY <1>1, BoardShown
<1>3. shown \subseteq Entry /\ retired \in Retirements /\ Lone(shown) /\ Fresh(shown, retired)
  BY <1>2 DEF SoundStates, BoardState, Sound
<1>4. ASSUME NEW post \in Posts, SaveBounties(post)
      PROVE  BoardInv'
  <2>1. PICK merged \in SoundStates : merged = MergeBounties(shown, post)
    BY <1>2, MergedIsSound
  <2>2. board' = ApplyWeekly(merged.kept, Start(WEEKLY_RESET)) /\ retired' = merged.retired /\ tick' = tick
    BY <1>1, <1>4, <2>1 DEF SaveBounties
  <2>3. merged.kept \subseteq Entry /\ merged.retired \in Retirements /\ Lone(merged.kept) /\ Fresh(merged.kept, merged.retired)
    BY DEF SoundStates, BoardState, Sound
  <2>4. Shows(board', merged.kept, Start(WEEKLY_RESET))
    BY <2>2, <2>3, WeeklyShows DEF BoardInv
  <2>5. board' \subseteq Entry /\ Lone(board') /\ Fresh(board', retired')
    BY <2>2, <2>3, <2>4 DEF Shows, Fresh
  <2> QED
    BY <2>2, <2>3, <2>5 DEF BoardInv, Ticking
<1>5. ASSUME NEW id \in Abandoned, RemoveBounties(id)
      PROVE  BoardInv'
  <2>1. PICK gone \in SUBSET shown : gone = {e \in shown : e.id = id}
    OBVIOUS
  <2>2. board' = shown \ gone /\ retired' = Retire(retired, gone) /\ tick' = tick
    BY <1>1, <1>5, <2>1 DEF RemoveBounties
  <2>3. Lone(gone) /\ gone \subseteq Entry /\ Lone(shown \ gone)
    BY <1>3, LonePart
  <2>4. /\ retired' \in Retirements
        /\ \A i \in DOMAIN KindOf : (\A e \in gone : e.id # i) => retired'[i] = retired[i]
    BY <1>3, <2>2, <2>3, RetireRecords
  <2>5. ASSUME NEW e \in shown \ gone PROVE retired'[e.id] = retired[e.id]
    <3>1. e.id \in DOMAIN KindOf /\ \A f \in gone : f.id # e.id
      BY <1>3, <2>1 DEF Entry
    <3> QED
      BY <2>4, <3>1
  <2>6. Fresh(board', retired')
    BY <1>3, <2>2, <2>5 DEF Fresh
  <2> QED
    BY <1>3, <2>2, <2>3, <2>4, <2>6 DEF BoardInv, Ticking
<1>6. CASE BountyTick
  BY <1>6, BountyAssumption DEF BountyTick, BoardInv, Ticking
<1> QED
  BY <1>4, <1>5, <1>6 DEF BountyNext

LEMMA BoardKept ==
    /\ Init => BoardInv
    /\ BoardInv /\ [Next]_vars => BoardInv'
<1>1. ASSUME Init PROVE BoardInv
  BY <1>1, BountyAssumption DEF Init, BountyInit, BoardInv, Ticking, Lone, Fresh, Retirements
<1>2. ASSUME BoardInv, UNCHANGED bountyVars PROVE BoardInv'
  BY <1>2 DEF bountyVars, BoardInv, Ticking
<1> QED
  BY <1>1, <1>2, BoardStep DEF Next, Trade, Progress, BountyBoard, EscalationSeason, Saves, vars

\* Whatever order posts arrive in: an id once, one bounty in a slot of a kind, the season
\* challenges of the week, and no generation that is over.
THEOREM BoardStaysSound == Spec => []BoardSound
<1>1. BoardInv => BoardSound
  BY BoardIsSound
<1> QED
  BY <1>1, BoardKept, PTL DEF Spec

NoFallback(e, f) ==
    /\ f.drafted >= e.drafted
    /\ f.drafted = e.drafted => f.version >= e.version /\ (e.claimed => f.claimed)

\* What may become of the bounties of a board while posts are merged into it.
Follows(start, state) ==
    \A e \in start :
        /\ \A f \in state.kept : f.id = e.id => NoFallback(e, f)
        /\ ~IsSeasonal(e) /\ e.drafted > 0 =>
            e.drafted <= state.retired[e.id] \/ \E f \in state.kept : f.id = e.id
        /\ IsSeasonal(e) => \E f \in state.kept : f.id = e.id

Stamped(entries) == \A e \in entries : IsSeasonal(e) => e.drafted = NativeSeasonWeekStart

LEMMA MergeFollows ==
    ASSUME NEW start, start \subseteq Entry, NEW state \in SoundStates, Follows(start, state), Stamped(state.kept),
           NEW x \in Entry, x.drafted > 0 \/ state.kept = start,
           IsSeasonal(x) => x.drafted = NativeSeasonWeekStart
    PROVE  Follows(start, MergeEntry(state, x)) /\ Stamped(MergeEntry(state, x).kept)
<1>1. CASE MergeEntry(state, x) = state
  BY <1>1
<1>2. CASE MergeEntry(state, x) # state
  <2>1. state \in BoardState /\ Sound(state)
    BY DEF SoundStates
  <2>2. PICK y \in Entry, over \in SUBSET state.kept :
        /\ y.id = x.id /\ y.slot = x.slot /\ y.drafted = x.drafted /\ y.version = x.version
        /\ over = {old \in state.kept : Displaces(x, old) /\ (old.id # x.id \/ LaterDraft(x, old))}
        /\ \A old \in state.kept : Displaces(x, old) => CanReplace(x, old)
        /\ \A old \in state.kept : old.id = x.id /\ old.claimed /\ ~LaterDraft(x, old) => y.claimed
        /\ state.retired[x.id] = 0 \/ x.drafted > state.retired[x.id]
        /\ MergeEntry(state, x) =
            [kept |-> {old \in state.kept : ~Displaces(x, old)} \cup {y}, retired |-> Retire(state.retired, over)]
    BY <1>2, <2>1, MergeStep
  <2>3. PICK rest \in SUBSET state.kept : rest = {old \in state.kept : ~Displaces(x, old)}
    OBVIOUS
  <2>4. PICK after : after = Retire(state.retired, over)
    OBVIOUS
  <2>5. /\ state.kept \subseteq Entry /\ state.retired \in Retirements
        /\ over \subseteq Entry /\ Lone(over)
    BY <2>1, LonePart DEF BoardState, Sound
  <2>6. /\ after \in Retirements
        /\ \A id \in DOMAIN KindOf : state.retired[id] <= after[id]
        /\ \A old \in over : old.drafted <= after[old.id]
    BY <2>4, <2>5, RetireRecords
  <2>7. PICK next : next = MergeEntry(state, x)
    OBVIOUS
  <2>8. next.kept = rest \cup {y} /\ next.retired = after
    BY <2>2, <2>3, <2>4, <2>7
  <2>9. ASSUME NEW e \in start
        PROVE  /\ \A f \in next.kept : f.id = e.id => NoFallback(e, f)
               /\ ~IsSeasonal(e) /\ e.drafted > 0 =>
                    e.drafted <= next.retired[e.id] \/ \E f \in next.kept : f.id = e.id
               /\ IsSeasonal(e) => \E f \in next.kept : f.id = e.id
    <3>1. /\ \A f \in state.kept : f.id = e.id => NoFallback(e, f)
          /\ ~IsSeasonal(e) /\ e.drafted > 0 =>
                e.drafted <= state.retired[e.id] \/ \E f \in state.kept : f.id = e.id
          /\ IsSeasonal(e) => \E f \in state.kept : f.id = e.id
      BY DEF Follows
    <3>2. /\ e.id \in DOMAIN KindOf /\ e.drafted \in Nat /\ state.retired[e.id] \in Nat /\ after[e.id] \in Nat
          /\ x.drafted \in Nat /\ x.version \in Int /\ e.version \in Int /\ x.version >= -1
      BY <2>5, <2>6 DEF Entry, Retirements
    <3>3. ASSUME x.id = e.id
          PROVE  NoFallback(e, y)
      <4>1. ASSUME NEW g \in state.kept, g.id = e.id
            PROVE  NoFallback(e, y)
        <5>1. Displaces(x, g)
          BY <3>3, <4>1 DEF Displaces
        <5>2. CanReplace(x, g) /\ NoFallback(e, g) /\ (g.claimed /\ ~LaterDraft(x, g) => y.claimed)
          BY <2>2, <3>1, <3>3, <4>1, <5>1
        <5>3. g.drafted \in Nat /\ g.version \in Int /\ g.version >= -1 /\ g.claimed \in BOOLEAN
          BY <2>5 DEF Entry
        <5>4. x.drafted > g.drafted \/ (x.drafted = g.drafted /\ x.version >= g.version)
          BY <3>2, <3>3, <4>1, <5>2, <5>3 DEF CanReplace
        <5>5. x.drafted = g.drafted => (g.claimed => y.claimed)
          BY <5>2, <5>3 DEF LaterDraft
        <5>6. y.drafted >= e.drafted
          BY <2>2, <3>2, <5>2, <5>3, <5>4 DEF NoFallback
        <5>7. ASSUME y.drafted = e.drafted
              PROVE  y.version >= e.version /\ (e.claimed => y.claimed)
          <6>1. x.drafted = g.drafted /\ g.drafted = e.drafted
            BY <2>2, <3>2, <5>2, <5>3, <5>4, <5>7 DEF NoFallback
          <6>2. y.version >= e.version
            BY <2>2, <3>2, <5>2, <5>3, <5>4, <6>1 DEF NoFallback
          <6>3. e.claimed => y.claimed
            BY <5>2, <5>5, <6>1 DEF NoFallback
          <6> QED
            BY <6>2, <6>3
        <5> QED
          BY <5>6, <5>7 DEF NoFallback
      <4>2. CASE \A g \in state.kept : g.id # e.id
        <5>1. state.kept # start
          BY <4>2
        <5>2. x.drafted > 0
          BY <5>1
        <5>3. y.drafted > e.drafted
          BY <2>2, <3>1, <3>2, <3>3, <4>2, <5>2
        <5> QED
          BY <2>2, <3>2, <5>3 DEF NoFallback
      <4> QED
        BY <4>1, <4>2
    <3>4. \A f \in next.kept : f.id = e.id => NoFallback(e, f)
      BY <2>2, <2>8, <3>1, <3>3
    <3>5. ASSUME NEW f \in state.kept, f.id = e.id
          PROVE  e.drafted <= after[e.id] \/ \E g \in next.kept : g.id = e.id
      <4>1. CASE ~Displaces(x, f)
        BY <2>3, <2>8, <3>5, <4>1
      <4>2. CASE x.id = f.id
        BY <2>2, <2>8, <3>5, <4>2
      <4>3. CASE Displaces(x, f) /\ x.id # f.id
        <5>1. f \in over
          BY <2>2, <4>3
        <5>2. f.drafted <= after[e.id] /\ f.drafted \in Nat
          BY <2>5, <2>6, <3>5, <5>1 DEF Entry
        <5>3. e.drafted <= f.drafted
          BY <3>1, <3>5, <3>2, <5>2 DEF NoFallback
        <5> QED
          BY <3>2, <5>2, <5>3
      <4> QED
        BY <4>1, <4>2, <4>3
    <3>6. ASSUME IsSeasonal(e)
          PROVE  \E g \in next.kept : g.id = e.id
      <4>1. PICK f \in state.kept : f.id = e.id
        BY <3>1, <3>6
      <4>2. CASE ~Displaces(x, f)
        BY <2>3, <2>8, <4>1, <4>2
      <4>3. CASE Displaces(x, f)
        <5>1. x.id = f.id
          BY <3>6, <4>1, <4>3 DEF Displaces, IsSeasonal
        <5> QED
          BY <2>2, <2>8, <4>1, <5>1
      <4> QED
        BY <4>2, <4>3
    <3>7. ASSUME ~IsSeasonal(e), e.drafted > 0
          PROVE  e.drafted <= next.retired[e.id] \/ \E g \in next.kept : g.id = e.id
      <4>1. CASE e.drafted <= state.retired[e.id]
        BY <2>6, <2>8, <3>2, <4>1
      <4>2. CASE \E f \in state.kept : f.id = e.id
        BY <2>8, <3>5, <4>2
      <4> QED
        BY <3>1, <3>7, <4>1, <4>2
    <3> QED
      BY <3>4, <3>6, <3>7
  <2>10. Stamped(next.kept)
    BY <2>2, <2>8 DEF Stamped, IsSeasonal
  <2> QED
    BY <2>7, <2>9, <2>10 DEF Follows
<1> QED
  BY <1>1, <1>2

LEMMA MergedFollows ==
    ASSUME StampedChallenges, UndatedFirst,
           NEW stored, [kept |-> stored, retired |-> retired] \in SoundStates, Stamped(stored), NEW post \in Posts
    PROVE  Follows(stored, MergeBounties(stored, post)) /\ Stamped(MergeBounties(stored, post).kept)
<1>1. PICK base \in SoundStates : base = [kept |-> stored, retired |-> retired]
  OBVIOUS
<1>2. stored \subseteq Entry /\ retired \in Retirements /\ Lone(stored)
  BY DEF SoundStates, BoardState, Sound
<1>3. \A e, f \in stored : e.id = f.id => e = f
  BY <1>2 DEF Lone, Displaces
<1>4. \A e \in stored : NoFallback(e, e)
  BY <1>2 DEF NoFallback, Entry
<1>5. CASE post.reset
  <2>1. PICK drafted \in SUBSET stored : drafted = {e \in stored : KindOf[e.id] = "drafted"}
    OBVIOUS
  <2>2. PICK after : after = Retire(retired, drafted)
    OBVIOUS
  <2>3. PICK merged : merged = [kept |-> stored \ drafted, retired |-> after]
    OBVIOUS
  <2>4. MergeBounties(stored, post) = merged /\ merged.kept = stored \ drafted /\ merged.retired = after
    BY <1>5, <2>1, <2>2, <2>3 DEF MergeBounties
  <2>5. Lone(drafted) /\ drafted \subseteq Entry
    BY <1>2, LonePart
  <2>6. \A e \in drafted : e.drafted <= after[e.id]
    BY <1>2, <2>2, <2>5, RetireRecords
  <2>7. \A e \in stored : IsSeasonal(e) => e \in stored \ drafted
    BY <2>1 DEF IsSeasonal
  <2> QED
    BY <1>3, <1>4, <2>4, <2>6, <2>7 DEF Follows, Stamped
<1>6. CASE ~post.reset
  <2>1. PICK entries : entries = post.entries
    OBVIOUS
  <2>2. entries \in Seq(Entry)
    BY <2>1, BountyAssumption
  <2>3. PICK run : Merges(run, base, entries) /\ \A i \in 0 .. Len(entries) : run[i] \in SoundStates
    BY <2>2, MergedInOrder
  <2>4. PICK n \in Nat : n = Len(entries)
    BY <2>2, LenProperties
  <2>5. \A i \in 1 .. n : entries[i] \in Entry /\ i \in DOMAIN entries
    BY <2>2, <2>4, LenProperties, ElementOfSeq
  <2>6. /\ run[0] = base /\ \A i \in 1 .. n : run[i] = MergeEntry(run[i - 1], entries[i])
        /\ \A i \in 0 .. n : run[i] \in SoundStates
        /\ run[n] = FoldLeft(MergeEntry, base, entries)
    BY <2>3, <2>4 DEF Merges
  <2>7. DEFINE T == {i \in Nat : i <= n => Follows(stored, run[i]) /\ Stamped(run[i].kept)}
  <2>8. 0 \in T
    BY <1>1, <1>3, <1>4, <2>6 DEF Follows, Stamped
  <2>9. ASSUME NEW i \in Nat, i \in T
        PROVE  i + 1 \in T
    <3>1. CASE i + 1 <= n
      <4>1. i + 1 \in 1 .. n /\ i <= n /\ (i + 1) - 1 = i /\ i \in 0 .. n
        BY <3>1
      <4>2. PICK x \in Entry : x = entries[i + 1]
        BY <2>5, <4>1
      <4>3. PICK state \in SoundStates : state = run[i]
        BY <2>6, <4>1
      <4>4. run[i + 1] = MergeEntry(state, x)
        BY <2>6, <4>1, <4>2, <4>3
      <4>5. Follows(stored, state) /\ Stamped(state.kept)
        BY <2>9, <4>1, <4>3
      <4>6. x.drafted > 0 \/ state.kept = stored
        <5>1. CASE i = 0
          BY <1>1, <2>6, <4>3, <5>1
        <5>2. CASE i # 0
          <6>1. x.drafted # 0
            BY <2>1, <2>5, <4>1, <4>2, <5>2 DEF UndatedFirst
          <6> QED
            BY <6>1 DEF Entry
        <5> QED
          BY <5>1, <5>2
      <4>7. IsSeasonal(x) => x.drafted = NativeSeasonWeekStart
        BY <2>1, <2>5, <4>1, <4>2 DEF StampedChallenges
      <4>8. Follows(stored, MergeEntry(state, x)) /\ Stamped(MergeEntry(state, x).kept)
        BY <1>2, <4>5, <4>6, <4>7, MergeFollows
      <4> QED
        BY <4>4, <4>8
    <3> QED
      BY <3>1
  <2>10. \A i \in Nat : i \in T
    <3>. HIDE DEF T
    <3> QED
      BY <2>8, <2>9, SetInduction
  <2>11. Follows(stored, run[n]) /\ Stamped(run[n].kept)
    BY <2>10
  <2>12. MergeBounties(stored, post) = run[n]
    BY <1>1, <1>6, <2>1, <2>6 DEF MergeBounties
  <2> QED
    BY <2>11, <2>12
<1> QED
  BY <1>5, <1>6

\* The step of GenerationsFinal.
NeverBack ==
    <<tick, board>>' # <<tick, board>> =>
        LET old == GetBounties
            new == GetBounties'
            sameWeek == Start(WEEKLY_RESET)' = Start(WEEKLY_RESET)
        IN  /\ \A e \in old, f \in new : e.id = f.id /\ (KindOf[e.id] = "challenge" => sameWeek) =>
                /\ f.drafted >= e.drafted
                /\ f.drafted = e.drafted => f.version >= e.version /\ (e.claimed => f.claimed)
            /\ \A e \in old : KindOf[e.id] = "drafted" /\ e.drafted > 0 =>
                e.drafted <= retired'[e.id] \/ \E f \in new : f.id = e.id

LEMMA BoardShownThen == BoardInv' => Shows(GetBounties, WithoutExpiredDaily(board), window)'
<1>1. BoardInv => Shows(GetBounties, WithoutExpiredDaily(board), window)
  BY BoardShown
<1> QED
  BY <1>1, PTL

\* What is shown after a step.
LEMMA ShownNext ==
    ASSUME BoardInv'
    PROVE  \E new : /\ new = GetBounties' /\ new \subseteq Entry
                    /\ \A e : e \in new /\ ~IsSeasonal(e) => e \in board'
                    /\ \A e \in board' : KindOf[e.id] = "drafted" => e \in new
                    /\ \A e \in new : IsSeasonal(e) =>
                        /\ e.drafted = NativeSeasonWeekStart
                        /\ \A k \in board' : k.id = e.id /\ Current(k, window)' =>
                            e.version = k.version /\ e.claimed = k.claimed
                        /\ (\A k \in board' : k.id = e.id => ~Current(k, window)') => e.version = 0 /\ e.claimed = FALSE
                    /\ {e.id : e \in {f \in new : IsSeasonal(f)}} = Range(DrawnNow')
<1>2. Shows(GetBounties, WithoutExpiredDaily(board), window)'
  BY BoardShownThen
<1>3. PICK new : new = GetBounties'
  OBVIOUS
<1>4. PICK stored : stored = WithoutExpiredDaily(board)'
  OBVIOUS
<1>5. stored \subseteq board' /\ \A e \in board' : KindOf[e.id] # "daily" => e \in stored
  BY <1>4 DEF WithoutExpiredDaily
<1>6. /\ new \subseteq Entry
      /\ \A e : e \in new /\ ~IsSeasonal(e) <=> e \in stored /\ ~IsSeasonal(e)
      /\ {e.id : e \in {f \in new : IsSeasonal(f)}} = Range(DrawnNow')
      /\ \A e \in new : IsSeasonal(e) =>
            /\ e.drafted = NativeSeasonWeekStart
            /\ \A k \in stored : k.id = e.id /\ Current(k, window)' => e.version = k.version /\ e.claimed = k.claimed
            /\ (\A k \in stored : k.id = e.id => ~Current(k, window)') => e.version = 0 /\ e.claimed = FALSE
  BY <1>2, <1>3, <1>4 DEF Shows, IsSeasonal, NativeSeasonWeekStart
<1>7. \A e \in board' : KindOf[e.id] = "drafted" => e \in new
  BY <1>5, <1>6 DEF IsSeasonal
<1>8. \A e \in new, k \in board' : IsSeasonal(e) /\ k.id = e.id => k \in stored
  BY <1>5 DEF IsSeasonal
<1> QED
  BY <1>3, <1>5, <1>6, <1>7, <1>8

LEMMA BoardNeverBack ==
    ASSUME StampedChallenges, UndatedFirst, BoardInv, BoardInv', BountyNext
    PROVE  NeverBack
<1>1. PICK old : old = GetBounties
  OBVIOUS
<1>2. PICK stored : stored = WithoutExpiredDaily(board)
  OBVIOUS
<1>3. /\ [kept |-> old, retired |-> retired] \in SoundStates /\ Shows(old, stored, window)
      /\ stored \subseteq board
  BY <1>1, <1>2, BoardShown
<1>4. /\ old \subseteq Entry /\ Stamped(old) /\ retired \in Retirements
      /\ Lone(old)
      /\ \A e \in old : ~IsSeasonal(e) => e \in board
      /\ \A e, f \in old : e.id = f.id => e = f
  BY <1>3 DEF Shows, Lone, Displaces, Stamped, SoundStates, BoardState
<1>5. PICK new :
        /\ new = GetBounties' /\ new \subseteq Entry
        /\ \A e : e \in new /\ ~IsSeasonal(e) => e \in board'
        /\ \A e \in board' : KindOf[e.id] = "drafted" => e \in new
        /\ \A e \in new : IsSeasonal(e) =>
            /\ e.drafted = NativeSeasonWeekStart
            /\ \A k \in board' : k.id = e.id /\ Current(k, window)' =>
                e.version = k.version /\ e.claimed = k.claimed
            /\ (\A k \in board' : k.id = e.id => ~Current(k, window)') => e.version = 0 /\ e.claimed = FALSE
        /\ {e.id : e \in {f \in new : IsSeasonal(f)}} = Range(DrawnNow')
  BY ShownNext
<1>6. \A e, f \in Entry : NoFallback(e, e) /\ (IsSeasonal(e) /\ e.id = f.id => IsSeasonal(f))
  BY DEF NoFallback, Entry, IsSeasonal
<1>. DEFINE Same == Start(WEEKLY_RESET)' = Start(WEEKLY_RESET)
            Bound == /\ \A e \in old, f \in new : e.id = f.id /\ (IsSeasonal(e) => Same) => NoFallback(e, f)
                     /\ \A e \in old : KindOf[e.id] = "drafted" /\ e.drafted > 0 =>
                            e.drafted <= retired'[e.id] \/ \E f \in new : f.id = e.id
<1>7. Bound => NeverBack
  BY <1>1, <1>5 DEF NeverBack, NoFallback, IsSeasonal
<1>8. ASSUME NEW post \in Posts, SaveBounties(post)
      PROVE  Bound
  <2>1. PICK merged \in SoundStates : merged = MergeBounties(old, post)
    BY <1>3, MergedIsSound
  <2>2. /\ board' = ApplyWeekly(merged.kept, Start(WEEKLY_RESET)) /\ retired' = merged.retired /\ tick' = tick
        /\ window' = Start(WEEKLY_RESET)
    BY <1>1, <1>8, <2>1 DEF SaveBounties
  <2>3. Follows(old, merged)  /\ Stamped(merged.kept)
    BY <1>3, <1>4, <2>1, MergedFollows
  <2>4. merged.kept \subseteq Entry /\ Lone(merged.kept)
    BY DEF SoundStates, BoardState, Sound
  <2>5. PICK saved : saved = ApplyWeekly(merged.kept, Start(WEEKLY_RESET))
    OBVIOUS
  <2>8. saved = board' /\ Shows(saved, merged.kept, Start(WEEKLY_RESET))
    BY <2>2, <2>4, <2>5, WeeklyShows DEF BoardInv
  <2>6. ASSUME NEW e \in old, NEW f \in new, e.id = f.id
        PROVE  NoFallback(e, f)
    <3>1. CASE ~IsSeasonal(f)
      <4>1. f \in merged.kept
        BY <1>5, <2>8, <3>1 DEF Shows
      <4> QED
        BY <2>3, <2>6, <4>1 DEF Follows
    <3>2. CASE IsSeasonal(f)
      <4>1. IsSeasonal(e) /\ e.drafted = NativeSeasonWeekStart /\ f.drafted = NativeSeasonWeekStart
        BY <1>4, <1>5, <2>6, <3>2 DEF Stamped, IsSeasonal
      <4>2. PICK k \in merged.kept : k.id = e.id /\ NoFallback(e, k)
        BY <2>3, <4>1 DEF Follows
      <4>3. k.drafted = NativeSeasonWeekStart
        BY <2>3, <4>1, <4>2 DEF Stamped, IsSeasonal
      <4>4. DrawnNow' = DrawnNow
        BY <2>2 DEF DrawnNow
      <4>5. f.id \in {g.id : g \in {h \in new : IsSeasonal(h)}}
        BY <3>2
      <4>6. PICK j \in saved : IsSeasonal(j) /\ j.id = f.id
        <5>1. {g.id : g \in {h \in saved : IsSeasonal(h)}} = Range(DrawnNow)
          BY <2>8 DEF Shows
        <5>2. f.id \in {g.id : g \in {h \in saved : IsSeasonal(h)}}
          BY <1>5, <4>4, <4>5, <5>1
        <5> QED
          BY <5>2
      <4>7. Current(k, Start(WEEKLY_RESET)) /\ Current(j, window)'
        BY <2>2 DEF Current, Start
      <4>8. j.version = k.version /\ j.claimed = k.claimed
        BY <2>8, <2>6, <4>2, <4>6, <4>7 DEF Shows
      <4>9. f.version = j.version /\ f.claimed = j.claimed
        BY <1>5, <2>8, <3>2, <4>6, <4>7
      <4> QED
        BY <4>1, <4>2, <4>3, <4>8, <4>9 DEF NoFallback
    <3> QED
      BY <3>1, <3>2
  <2>7. ASSUME NEW e \in old, KindOf[e.id] = "drafted", e.drafted > 0
        PROVE  e.drafted <= retired'[e.id] \/ \E f \in new : f.id = e.id
    <3>1. ASSUME NEW f \in merged.kept, f.id = e.id
          PROVE  f \in new
      BY <1>5, <2>8, <2>7, <3>1 DEF Shows, IsSeasonal
    <3> QED
      BY <2>2, <2>3, <2>7, <3>1 DEF Follows, IsSeasonal
  <2> QED
    BY <2>6, <2>7
<1>9. ASSUME NEW id \in Abandoned, RemoveBounties(id)
      PROVE  Bound
  <2>1. PICK gone \in SUBSET old : gone = {e \in old : e.id = id}
    OBVIOUS
  <2>2. board' = old \ gone /\ retired' = Retire(retired, gone) /\ tick' = tick /\ window' = Start(WEEKLY_RESET)
    BY <1>1, <1>9, <2>1 DEF RemoveBounties
  <2>3. KindOf[id] # "challenge"
    BY BountyAssumption
  <2>4. Lone(gone) /\ gone \subseteq Entry
    BY <1>4, LonePart
  <2>5. \A e \in gone : e.drafted <= retired'[e.id]
    BY <1>4, <2>2, <2>4, RetireRecords
  <2>6. ASSUME NEW e \in old, NEW f \in new, e.id = f.id
        PROVE  NoFallback(e, f)
    <3>1. CASE ~IsSeasonal(f)
      <4>1. f = e
        BY <1>4, <1>5, <2>2, <2>6, <3>1
      <4> QED
        BY <1>4, <1>6, <4>1
    <3>2. CASE IsSeasonal(f)
      <4>1. IsSeasonal(e) /\ e.drafted = NativeSeasonWeekStart /\ f.drafted = NativeSeasonWeekStart
        BY <1>4, <1>5, <2>6, <3>2 DEF Stamped, IsSeasonal
      <4>2. e \in board'
        BY <2>1, <2>2, <2>3, <4>1 DEF IsSeasonal
      <4>3. Current(e, window)'
        BY <2>2 DEF Current, Start
      <4>4. f.version = e.version /\ f.claimed = e.claimed
        BY <1>5, <2>6, <3>2, <4>2, <4>3
      <4> QED
        BY <1>4, <1>6, <4>1, <4>4 DEF NoFallback
    <3> QED
      BY <3>1, <3>2
  <2>7. ASSUME NEW e \in old, KindOf[e.id] = "drafted", e.drafted > 0
        PROVE  e.drafted <= retired'[e.id] \/ \E f \in new : f.id = e.id
    BY <1>5, <2>2, <2>5, <2>7
  <2> QED
    BY <2>6, <2>7
<1>10. ASSUME BountyTick
       PROVE  Bound
  <2>1. tick' = tick + 1 /\ board' = board /\ window' = window /\ retired' = retired
    BY <1>10 DEF BountyTick
  <2>2. \A e, f \in board : e.id = f.id => e = f
    BY DEF BoardInv, Lone, Displaces
  <2>3. ASSUME NEW e \in old, NEW f \in new, e.id = f.id, IsSeasonal(e) => Same
        PROVE  NoFallback(e, f)
    <3>1. CASE ~IsSeasonal(f)
      <4>1. f = e
        BY <1>4, <1>5, <2>1, <2>2, <2>3, <3>1 DEF IsSeasonal
      <4> QED
        BY <1>4, <1>6, <4>1
    <3>2. CASE IsSeasonal(f)
      <4>1. IsSeasonal(e) /\ e.drafted = NativeSeasonWeekStart /\ f.drafted = NativeSeasonWeekStart
        BY <1>4, <1>5, <2>3, <3>2 DEF Stamped, IsSeasonal
      <4>2. \A k : Current(k, window)' <=> Current(k, window)
        BY <2>1, <2>3, <4>1 DEF Current
      <4>3. \A k \in board : k.id = e.id => k \in stored
        BY <1>2, <4>1 DEF WithoutExpiredDaily, IsSeasonal
      <4>4. f.version = e.version /\ f.claimed = e.claimed
        <5>1. CASE \E k \in board : k.id = e.id /\ Current(k, window)
          <6>1. PICK k \in board : k.id = e.id /\ Current(k, window)
            BY <5>1
          <6>2. e.version = k.version /\ e.claimed = k.claimed
            BY <1>3, <4>1, <4>3, <6>1 DEF Shows
          <6>3. f.version = k.version /\ f.claimed = k.claimed
            BY <1>5, <2>1, <2>3, <3>2, <4>2, <6>1
          <6> QED
            BY <6>2, <6>3
        <5>2. CASE \A k \in board : k.id = e.id => ~Current(k, window)
          <6>1. e.version = 0 /\ e.claimed = FALSE
            BY <1>3, <4>1, <5>2 DEF Shows
          <6>2. f.version = 0 /\ f.claimed = FALSE
            BY <1>5, <2>1, <2>3, <3>2, <4>2, <5>2
          <6> QED
            BY <6>1, <6>2
        <5> QED
          BY <5>1, <5>2
      <4> QED
        BY <1>4, <1>6, <4>1, <4>4 DEF NoFallback
    <3> QED
      BY <3>1, <3>2
  <2>4. ASSUME NEW e \in old, KindOf[e.id] = "drafted"
        PROVE  e \in new
    BY <1>4, <1>5, <2>1, <2>4 DEF IsSeasonal
  <2> QED
    BY <2>3, <2>4
<1>11. Bound
  BY <1>8, <1>9, <1>10 DEF BountyNext
<1> QED
  BY <1>7, <1>11

\* A generation of a bounty is final: no later draft gives way to an earlier one, no version to an
\* older one, nothing claimed becomes claimable, and a drafted bounty that leaves is over for good.
THEOREM GenerationsStayFinal ==
    ASSUME StampedChallenges, UndatedFirst
    PROVE  Spec => GenerationsFinal
<1>1. BoardInv /\ [Next]_vars /\ BoardInv' => [NeverBack]_bountyVars
  <2>1. ASSUME BoardInv, BoardInv', BountyNext PROVE NeverBack
    BY <2>1, BoardNeverBack
  <2> QED
    BY <2>1 DEF Next, Trade, Progress, BountyBoard, EscalationSeason, Saves, vars, bountyVars
<1>2. GenerationsFinal <=> [][NeverBack]_bountyVars
  BY DEF GenerationsFinal, NeverBack
<1> QED
  BY <1>1, <1>2, BoardKept, PTL DEF Spec

---------------------------------------------------------------------------
(* Mastery *)

Progressed == [completed : Nat, value : {0, 1}]
Proof(row) == 2 * row.completed + row.value

MasteryInv ==
    /\ objectives = [u \in Users |-> objectives[u]]
    /\ \A u \in Users : /\ IsFiniteSet(DOMAIN objectives[u])
                        /\ objectives[u] \in [DOMAIN objectives[u] -> Progressed]
    /\ MasteryNotInflated

LEMMA ProvenIsSum ==
    ASSUME NEW held, IsFiniteSet(DOMAIN held), held \in [DOMAIN held -> Progressed]
    PROVE  /\ [o \in DOMAIN held |-> Proof(held[o])] \in [DOMAIN held -> Nat]
           /\ \A u : objectives[u] = held => Proven(u) = SumOf([o \in DOMAIN held |-> Proof(held[o])])
<1>1. \A o \in DOMAIN held : Proof(held[o]) \in Nat
  BY DEF Progressed, Proof
<1>2. ASSUME NEW u, objectives[u] = held
      PROVE  Proven(u) = SumOf([o \in DOMAIN held |-> Proof(held[o])])
  BY <1>2, Zenon DEF Proven, Proof, Total, SumOf
<1> QED
  BY <1>1, <1>2

LEMMA ProvenNext ==
    ASSUME NEW u
    PROVE  (Proven(u) = SumOf([o \in DOMAIN objectives[u] |-> Proof(objectives[u][o])]))'
<1>1. Proven(u) = SumOf([o \in DOMAIN objectives[u] |-> Proof(objectives[u][o])])
  BY Zenon DEF Proven, Proof, Total, SumOf
<1> QED
  BY <1>1, PTL

\* Newer snapshots prove more, and as much for the rest.
LEMMA MoreIsProven ==
    ASSUME NEW old, IsFiniteSet(DOMAIN old), old \in [DOMAIN old -> Progressed],
           NEW news, IsFiniteSet(news),
           NEW new, DOMAIN new = DOMAIN old \cup news, new \in [DOMAIN new -> Progressed],
           \A o \in DOMAIN old : Proof(old[o]) <= Proof(new[o])
    PROVE  LET p == SumOf([o \in DOMAIN old |-> Proof(old[o])])
               q == SumOf([o \in DOMAIN new |-> Proof(new[o])])
           IN  /\ p \in Nat /\ q \in Nat /\ p <= q
               /\ \A o \in DOMAIN new : (IF o \in DOMAIN old THEN Proof(old[o]) ELSE 0) < Proof(new[o]) => p < q
<1>. DEFINE D == DOMAIN new
            f == [o \in DOMAIN old |-> Proof(old[o])]
            h == [o \in D |-> IF o \in DOMAIN old THEN Proof(old[o]) ELSE 0]
            g == [o \in D |-> Proof(new[o])]
<1>1. \A x \in Progressed : Proof(x) \in Nat
  BY DEF Progressed, Proof
<1>2. IsFiniteSet(D) /\ DOMAIN old \in SUBSET D
  BY FS_Union
<1>3. f \in [DOMAIN old -> Nat] /\ h \in [D -> Nat] /\ g \in [D -> Nat]
  BY <1>1
<1>4. (\A o \in DOMAIN old : f[o] = h[o]) /\ \A o \in D \ DOMAIN old : h[o] = 0
  OBVIOUS
<1>5. \A o \in D : h[o] <= g[o]
  BY <1>1
<1>6. /\ SumOf(f) = SumOf(h) /\ SumOf(f) \in Nat /\ SumOf(g) \in Nat /\ SumOf(h) <= SumOf(g)
  <2>. HIDE DEF f, g, h, D
  <2>1. SumOf(f) = SumOf(h)
    <3>1. PICK T \in SUBSET D : T = DOMAIN old
      BY <1>2
    <3>2. f \in [T -> Nat] /\ (\A x \in T : f[x] = h[x]) /\ \A x \in D \ T : h[x] = 0
      BY <1>3, <1>4, <3>1
    <3> QED
      BY <1>2, <1>3, <3>2, SumOfPart
  <2>2. SumOf(f) \in Nat /\ SumOf(g) \in Nat
    BY <1>2, <1>3, SumIsNat
  <2>3. SumOf(h) <= SumOf(g)
    BY <1>2, <1>3, <1>5, SumGrows
  <2> QED
    BY <2>1, <2>2, <2>3
<1>7. ASSUME NEW o \in D, h[o] < g[o]
      PROVE  SumOf(h) < SumOf(g)
  <2>. DEFINE hr == [x \in D \ {o} |-> h[x]]
              gr == [x \in D \ {o} |-> g[x]]
  <2>1. AllBut(hr, h, D, o) /\ AllBut(gr, g, D, o) /\ \A x \in D \ {o} : hr[x] <= gr[x]
    BY <1>3, <1>5 DEF AllBut
  <2>2. hr \in [D \ {o} -> Nat] /\ gr \in [D \ {o} -> Nat] /\ IsFiniteSet(D \ {o})
    BY <1>2, <1>3, FS_Subset
  <2>. HIDE DEF f, g, h, D, hr, gr
  <2>3. SumOf(h) = h[o] + SumOf(hr) /\ SumOf(g) = g[o] + SumOf(gr)
    BY <1>2, <1>3, <1>7, <2>1, SumTakesOneOut
  <2>4. SumOf(hr) <= SumOf(gr) /\ SumOf(hr) \in Nat /\ SumOf(gr) \in Nat
    BY <2>1, <2>2, SumGrows, SumIsNat
  <2>5. h[o] \in Nat /\ g[o] \in Nat
    BY <1>3, <1>7
  <2> QED
    BY <1>7, <2>3, <2>4, <2>5
<1>8. ASSUME NEW o \in D, (IF o \in DOMAIN old THEN Proof(old[o]) ELSE 0) < Proof(new[o])
      PROVE  SumOf(f) < SumOf(g)
  <2>1. h[o] < g[o]
    BY <1>8
  <2>. HIDE DEF f, g, h
  <2> QED
    BY <1>6, <1>7, <2>1
<1> QED
  BY <1>6, <1>8

LEMMA MasteryAwarded ==
    ASSUME GrantsCarryEvidence, RewardsInv, MasteryInv, NEW a \in Awards, ApplyProgressAndObjectives(a)
    PROVE  MasteryInv'
<1>1. PICK u \in Users : u = a.user
  BY ProgressionAssumption
<1>2. PICK old : old = objectives[u]
  OBVIOUS
<1>3. PICK news : news = DOMAIN a.objectives
  OBVIOUS
<1>4. PICK new : new = [o \in DOMAIN old \cup news |-> IF o \in Advanced(a) THEN a.objectives[o] ELSE ObjectiveOf(u, o)]
  OBVIOUS
<1>5. objectives' = [objectives EXCEPT ![u] = new]
  BY <1>1, <1>2, <1>3, <1>4 DEF ApplyProgressAndObjectives
<1>6. /\ objectives' = [v \in Users |-> objectives'[v]]
      /\ objectives'[u] = new /\ \A v \in Users : v # u => objectives'[v] = objectives[v]
  BY <1>5 DEF MasteryInv
<1>7. IsFiniteSet(DOMAIN old) /\ old \in [DOMAIN old -> Progressed] /\ IsFiniteSet(news)
  BY <1>2, <1>3, ProgressionAssumption DEF MasteryInv
<1>8. \A o \in news : a.objectives[o] \in Progressed
  <2>1. ASSUME NEW o \in news
        PROVE  a.objectives[o] \in [completed : Nat, value : Nat] /\ a.objectives[o].value <= 1
    BY <1>3, ProgressionAssumption DEF GrantsCarryEvidence
  <2> QED
    BY <2>1 DEF Progressed
<1>9. \A o : /\ o \in DOMAIN old => ObjectiveOf(u, o) = old[o] /\ ObjectiveOf(u, o) \in Progressed
             /\ o \notin DOMAIN old => Proof(ObjectiveOf(u, o)) = 0 /\ ObjectiveOf(u, o) \in Progressed
  BY <1>2, <1>7 DEF ObjectiveOf, Progressed, Proof
<1>10. \A o \in Advanced(a) : o \in news /\ Proof(ObjectiveOf(u, o)) < Proof(a.objectives[o])
  <2>1. ASSUME NEW o \in news, NEW x \in Progressed, NEW y \in Progressed, IsFurther(x, y)
        PROVE  Proof(y) < Proof(x)
    BY <2>1 DEF IsFurther, Progressed, Proof
  <2>2. ASSUME NEW o \in Advanced(a)
        PROVE  o \in news /\ IsFurther(a.objectives[o], ObjectiveOf(u, o))
    BY <1>1, <1>3 DEF Advanced
  <2> QED
    BY <1>8, <1>9, <2>1, <2>2
<1>11. DOMAIN new = DOMAIN old \cup news /\ new \in [DOMAIN new -> Progressed]
  <2>1. \A o \in DOMAIN old \cup news : new[o] \in Progressed
    BY <1>4, <1>8, <1>9, <1>10
  <2>2. new = [o \in DOMAIN old \cup news |-> new[o]]
    BY <1>4
  <2>. HIDE DEF Progressed
  <2> QED
    BY <2>1, <2>2
<1>12. \A o \in Advanced(a) : new[o] = a.objectives[o]
  BY <1>4, <1>10
<1>13. \A o \in DOMAIN old : Proof(old[o]) <= Proof(new[o])
  <2>1. ASSUME NEW o \in DOMAIN old
        PROVE  Proof(old[o]) \in Nat /\ Proof(new[o]) \in Nat
    BY <1>7, <1>11 DEF Progressed, Proof
  <2>2. ASSUME NEW o \in DOMAIN old, o \notin Advanced(a)
        PROVE  new[o] = old[o]
    BY <1>4, <1>9, <2>2
  <2>3. ASSUME NEW o \in DOMAIN old, o \in Advanced(a)
        PROVE  Proof(old[o]) < Proof(new[o])
    BY <1>9, <1>10, <1>12, <2>3
  <2> QED
    BY <2>1, <2>2, <2>3
<1>14. PICK p \in Nat : p = SumOf([o \in DOMAIN old |-> Proof(old[o])])
  BY <1>7, <1>11, <1>13, MoreIsProven
<1>15. PICK q \in Nat : q = SumOf([o \in DOMAIN new |-> Proof(new[o])])
  BY <1>7, <1>11, <1>13, MoreIsProven
<1>16. p <= q /\ (Advanced(a) # {} => p < q)
  <2>1. /\ p <= q
        /\ \A o \in DOMAIN new : (IF o \in DOMAIN old THEN Proof(old[o]) ELSE 0) < Proof(new[o]) => p < q
    BY <1>7, <1>11, <1>13, <1>14, <1>15, MoreIsProven
  <2>2. \A o \in Advanced(a) : o \in DOMAIN new /\ (IF o \in DOMAIN old THEN Proof(old[o]) ELSE 0) < Proof(new[o])
    BY <1>9, <1>10, <1>11, <1>12
  <2> QED
    BY <2>1, <2>2
<1>17. Proven(u) = p
  BY <1>2, <1>7, <1>14, ProvenIsSum
<1>18. Proven(u)' = q
  <2>1. Proven(u)' = SumOf([o \in DOMAIN objectives'[u] |-> Proof(objectives'[u][o])])
    BY ProvenNext
  <2> QED
    BY <1>6, <1>15, <2>1
<1>19. tracks' = [tracks EXCEPT ![u] = [t \in DOMAIN Tracks |-> [@[t] EXCEPT !.points = tracks[u][t].points + Awarded(a, t)]]]
  BY <1>1 DEF ApplyProgressAndObjectives
<1>20. ASSUME NEW t \in MasteryTracks
       PROVE  tracks'[u][t].points <= q * Multiplier[t]
  <2>1. t \in DOMAIN Tracks /\ Multiplier[t] \in Nat /\ tracks[u][t].points \in Nat /\ Awarded(a, t) \in Nat
    BY ProgressionAssumption, TrackTypes, AwardsAreNumbers
  <2>2. tracks'[u][t].points = tracks[u][t].points + Awarded(a, t)
    BY <1>19, <2>1, TrackTypes DEF RewardsInv, TrackRow
  <2>3. tracks[u][t].points <= p * Multiplier[t]
    BY <1>17 DEF MasteryInv, MasteryNotInflated
  <2>4. CASE Advanced(a) = {}
    <3>1. Awarded(a, t) = 0
      BY <2>4 DEF Awarded, Counts, GrantsCarryEvidence
    <3>2. p * Multiplier[t] <= q * Multiplier[t]
      BY <1>16, <2>1
    <3> QED
      BY <2>1, <2>2, <2>3, <3>1, <3>2
  <2>5. CASE Advanced(a) # {}
    <3>1. Awarded(a, t) <= Multiplier[t]
      <4>1. t \in DOMAIN a.tracks => a.tracks[t] \in {0, 1}
        BY ProgressionAssumption DEF GrantsCarryEvidence
      <4> QED
        BY <2>1, <4>1 DEF Awarded
    <3>2. p * Multiplier[t] + Multiplier[t] <= q * Multiplier[t]
      <4>1. PICK k \in Nat : q = p + 1 + k
        <5>1. q - (p + 1) \in Nat /\ q = p + 1 + (q - (p + 1))
          BY <1>16, <2>5
        <5> QED
          BY <5>1
      <4>2. PICK m \in Nat : m = Multiplier[t]
        BY <2>1
      <4>3. k * m \in Nat /\ (p + 1 + k) * m = p * m + m + k * m /\ p * m \in Nat
        OBVIOUS
      <4> QED
        BY <4>1, <4>2, <4>3
    <3>3. p * Multiplier[t] \in Nat /\ q * Multiplier[t] \in Nat
      BY <2>1
    <3> QED
      BY <2>1, <2>2, <2>3, <3>1, <3>2, <3>3
  <2> QED
    BY <2>4, <2>5
<1>21. ASSUME NEW v \in Users, v # u, NEW t \in MasteryTracks
       PROVE  tracks'[v][t].points <= Proven(v)' * Multiplier[t]
  <2>1. tracks'[v] = tracks[v]
    BY <1>19, <1>21 DEF RewardsInv
  <2>2. Proven(v)' = Proven(v)
    BY <1>6, <1>21 DEF Proven
  <2> QED
    BY <2>1, <2>2 DEF MasteryInv, MasteryNotInflated
<1>22. MasteryNotInflated'
  BY <1>18, <1>20, <1>21 DEF MasteryNotInflated
<1>23. ASSUME NEW v \in Users
       PROVE  IsFiniteSet(DOMAIN objectives'[v]) /\ objectives'[v] \in [DOMAIN objectives'[v] -> Progressed]
  <2>1. IsFiniteSet(DOMAIN new)
    BY <1>7, <1>11, FS_Union
  <2> QED
    BY <1>6, <1>11, <2>1 DEF MasteryInv
<1> QED
  BY <1>6, <1>22, <1>23 DEF MasteryInv

LEMMA MasteryStep ==
    ASSUME GrantsCarryEvidence
    PROVE  /\ Init => MasteryInv
           /\ RewardsInv /\ MasteryInv /\ [Next]_vars => MasteryInv'
<1>1. ASSUME Init
      PROVE  MasteryInv
  <2>1. /\ objectives = [u \in Users |-> Empty]
        /\ \A u \in Users, t \in DOMAIN Tracks : tracks[u][t].points = 0
    BY <1>1 DEF Init, ProgressionInit
  <2>2. DOMAIN Empty = {} /\ IsFiniteSet({}) /\ Empty \in [{} -> Progressed]
    BY FS_EmptySet DEF Empty
  <2>3. ASSUME NEW u \in Users
        PROVE  Proven(u) = 0
    <3>1. Proven(u) = SumOf([o \in DOMAIN Empty |-> Proof(Empty[o])])
      BY <2>1, <2>2, <2>3, ProvenIsSum
    <3>2. [o \in DOMAIN Empty |-> Proof(Empty[o])] \in [{} -> Nat]
      BY <2>2
    <3> QED
      BY <3>1, <3>2, SumOfNothing
  <2>4. MasteryNotInflated
    BY <2>1, <2>3, ProgressionAssumption DEF MasteryNotInflated
  <2> QED
    BY <2>1, <2>2, <2>4 DEF MasteryInv
<1>2. ASSUME MasteryInv, UNCHANGED objectives,
             \A u \in Users, t \in MasteryTracks : tracks'[u][t].points \in {0, tracks[u][t].points},
             RewardsInv
      PROVE  MasteryInv'
  <2>1. ASSUME NEW u \in Users, NEW t \in MasteryTracks
        PROVE  tracks'[u][t].points <= Proven(u)' * Multiplier[t]
    <3>1. Proven(u)' = Proven(u) /\ tracks[u][t].points <= Proven(u) * Multiplier[t]
      BY <1>2 DEF Proven, MasteryInv, MasteryNotInflated
    <3>2. Proven(u) \in Nat
      <4>1. PICK held : held = objectives[u]
        OBVIOUS
      <4>2. IsFiniteSet(DOMAIN held) /\ held \in [DOMAIN held -> Progressed]
        BY <1>2, <4>1 DEF MasteryInv
      <4>3. PICK f : f = [o \in DOMAIN held |-> Proof(held[o])]
        OBVIOUS
      <4>4. f \in [DOMAIN held -> Nat] /\ Proven(u) = SumOf(f)
        BY <4>1, <4>2, <4>3, ProvenIsSum
      <4> QED
        BY <4>2, <4>4, SumIsNat
    <3>3. t \in DOMAIN Tracks /\ Multiplier[t] \in Nat /\ tracks[u][t].points \in Nat
      BY <1>2, ProgressionAssumption, TrackTypes
    <3>4. Proven(u) * Multiplier[t] \in Nat
      BY <3>2, <3>3
    <3> QED
      BY <1>2, <3>1, <3>3, <3>4
  <2> QED
    BY <1>2, <2>1 DEF MasteryInv, MasteryNotInflated
<1>3. ASSUME RewardsInv, MasteryInv, ProgressionNext
      PROVE  MasteryInv'
  <2>1. ASSUME NEW u \in Users, NEW ch \in Characters, NEW t \in DOMAIN Tracks, NEW kind \in Kinds,
               NEW rank, ConfirmRank(u, ch, t, rank, kind)
        PROVE  MasteryInv'
    <3>1. PICK n : tracks' = [tracks EXCEPT ![u][t][kind] = n]
      BY <2>1 DEF ConfirmRank
    <3>2. \A v \in Users, s \in MasteryTracks : tracks'[v][s].points = tracks[v][s].points
      <4>1. kind # "points"
        BY DEF Kinds
      <4> QED
        BY <1>3, <3>1, <4>1, ProgressionAssumption DEF RewardsInv, TrackRow
    <3> QED
      BY <1>2, <1>3, <2>1, <3>2 DEF ConfirmRank
  <2>2. ASSUME NEW u \in Users, NEW t \in DOMAIN Tracks, ResetTrack(u, t)
        PROVE  MasteryInv'
    <3>1. tracks' = [tracks EXCEPT ![u][t] = NextGeneration(@)]
      BY <2>2 DEF ResetTrack
    <3>2. \A v \in Users, s \in MasteryTracks : tracks'[v][s].points \in {0, tracks[v][s].points}
      BY <1>3, <3>1, ProgressionAssumption DEF RewardsInv, NextGeneration
    <3> QED
      BY <1>2, <1>3, <2>2, <3>2 DEF ResetTrack
  <2> QED
    BY <1>3, <2>1, <2>2, MasteryAwarded DEF ProgressionNext
<1>4. ASSUME MasteryInv, UNCHANGED <<tracks, objectives>>
      PROVE  MasteryInv'
  BY <1>4 DEF MasteryInv, MasteryNotInflated, Proven
<1>5. [Next]_vars => ProgressionNext \/ UNCHANGED <<tracks, objectives>>
  BY DEF Next, Trade, Progress, BountyBoard, EscalationSeason, Saves, vars, progressionVars
<1> QED
  BY <1>1, <1>3, <1>4, <1>5

\* Repeated, late and reordered grants never give a mastery more points than its objectives prove.
THEOREM MasteryStaysProven ==
    ASSUME GrantsCarryEvidence
    PROVE  Spec => []MasteryNotInflated
<1>1. MasteryInv => MasteryNotInflated
  BY DEF MasteryInv
<1> QED
  BY <1>1, RewardsKept, MasteryStep, PTL DEF Spec

---------------------------------------------------------------------------
(* What a purchase is charged for *)

Named(held) == \A p, c : <<p, c>> \in DOMAIN held => held[<<p, c>>].catalog = c
ItemsNamed ==
    /\ items = [ch \in Characters |-> items[ch]]
    /\ \A ch \in Characters : Named(items[ch])

LEMMA WithNamed ==
    ASSUME NEW held, Named(held), NEW xs, \A x \in xs : \A p, c : x.id = <<p, c>> => x.catalog = c
    PROVE  Named(With(held, xs))
<1>. DEFINE written == {x \in xs : x.id \in DOMAIN held => ~IsSkipped(held[x.id], x)}
            Of(id) == CHOOSE x \in written : x.id = id
<1>1. With(held, xs) = [id \in DOMAIN held \cup {x.id : x \in written} |->
            IF \E x \in written : x.id = id THEN Of(id) ELSE held[id]]
  BY DEF With
<1>2. ASSUME NEW id, \E x \in written : x.id = id
      PROVE  Of(id) \in xs /\ Of(id).id = id
  BY <1>2
<1>. HIDE DEF Of
<1> QED
  BY <1>1, <1>2 DEF Named

LEMMA NamedWritten ==
    ASSUME ItemsNamed, NEW ch \in Characters, NEW new, Named(new), items' = [items EXCEPT ![ch] = new]
    PROVE  ItemsNamed'
<1>1. \A d \in Characters : items'[d] = IF d = ch THEN new ELSE items[d]
  BY DEF ItemsNamed
<1>2. items' = [d \in Characters |-> items'[d]]
  BY DEF ItemsNamed
<1> QED
  BY <1>1, <1>2 DEF ItemsNamed, Named

LEMMA ItemsStayNamed ==
    ASSUME MintedAsNamed, TicketsTyped, ItemsNamed, EconomyStep
    PROVE  ItemsNamed'
<1>1. ASSUME NEW t \in Transactions, RunInventoryTransaction(t)
      PROVE  ItemsNamed'
  <2>1. PICK ch \in Characters : ch = t.ch
    BY InventoryAssumption
  <2>2. PICK kept : kept = Without(items[ch], t.drop)
    OBVIOUS
  <2>3. PICK saved : saved = With(kept, t.save)
    OBVIOUS
  <2>4. PICK new : new = With(saved, t.put)
    OBVIOUS
  <2>5. /\ \A x \in t.save : \A p, c : x.id = <<p, c>> => x.catalog = c
        /\ \A x \in t.put : \A p, c : x.id = <<p, c>> => x.catalog = c
    BY DEF MintedAsNamed
  <2>6. Named(kept)
    BY <2>2 DEF Without, Restrict, Named, ItemsNamed
  <2>7. Named(saved)
    BY <2>3, <2>5, <2>6, WithNamed
  <2>8. Named(new)
    BY <2>4, <2>5, <2>7, WithNamed
  <2>9. items' = [items EXCEPT ![ch] = new]
    BY <1>1, <2>1, <2>2, <2>3, <2>4 DEF RunInventoryTransaction, ItemsAfter, Kept, Saved
  <2> QED
    BY <2>8, <2>9, NamedWritten
<1>2. ASSUME NEW ch \in Characters, NEW xs, \A x \in xs : \A p, c : x.id = <<p, c>> => x.catalog = c,
             items' = [items EXCEPT ![ch] = With(@, xs)]
      PROVE  ItemsNamed'
  <2>1. PICK new : new = With(items[ch], xs)
    OBVIOUS
  <2>2. Named(new)
    BY <1>2, <2>1, WithNamed DEF ItemsNamed
  <2> QED
    BY <1>2, <2>1, <2>2, NamedWritten
<1>3. ASSUME NEW w \in ItemUpdates, UpdateInstancedItem(w)
      PROVE  ItemsNamed'
  <2>1. PICK ch \in Characters : ch = w.ch
    BY InventoryAssumption
  <2>2. PICK xs : xs = {w.item}
    OBVIOUS
  <2>3. items' = [items EXCEPT ![ch] = With(@, xs)] /\ \A x \in xs : \A p, c : x.id = <<p, c>> => x.catalog = c
    BY <1>3, <2>1, <2>2 DEF UpdateInstancedItem, MintedAsNamed
  <2> QED
    BY <1>2, <2>3
<1>4. CASE UNCHANGED items
  BY <1>4 DEF ItemsNamed
<1>5. ASSUME NEW t \in DOMAIN purchases, RedeemFreePurchase(t)
      PROVE  ItemsNamed'
  <2>1. PICK ch \in Characters, sku \in DOMAIN Offers : ch = purchases[t].ch /\ sku = purchases[t].sku
    BY TicketOf DEF Ticket
  <2>2. PICK xs : xs = Cosmetics(t, ch, Offers[sku])
    OBVIOUS
  <2>3. items' = [items EXCEPT ![ch] = With(@, xs)]
    BY <1>5, <2>1, <2>2 DEF RedeemFreePurchase
  <2>4. \A x \in xs : \A p, c : x.id = <<p, c>> => x.catalog = c
    BY <2>2 DEF Cosmetics
  <2> QED
    BY <1>2, <2>3, <2>4
<1>6. ASSUME NEW u \in Users, NEW ch \in Characters, NEW track, NEW kind, NEW rank,
             ClaimRanksUpTo(u, ch, track, rank, kind)
      PROVE  ItemsNamed'
  <2>1. PICK xs : xs = UNION {Minted(d) : d \in Due(u, track, rank, kind)}
    OBVIOUS
  <2>2. items' = [items EXCEPT ![ch] = With(@, xs)]
    BY <1>6, <2>1 DEF ClaimRanksUpTo
  <2>3. \A x \in xs : \A p, c : x.id = <<p, c>> => x.catalog = c
    BY <2>1 DEF Minted
  <2> QED
    BY <1>2, <2>2, <2>3
<1> QED
  BY <1>1, <1>3, <1>4, <1>5, <1>6
  DEF EconomyStep, Tick, CreateFreePurchase, economyVars, inventoryVars

\* What is sold for good is held for good.
HeldForGood ==
    \A u \in Users : \A name \in DOMAIN entitlements[u] : SoldForGood(name) => entitlements[u][name].duration = 0

LEMMA GrantedForGood ==
    ASSUME GoodForGood, EntInv, HeldForGood, EconomyStep
    PROVE  HeldForGood'
<1>1. ASSUME NEW t \in DOMAIN purchases, RedeemFreePurchase(t)
      PROVE  HeldForGood'
  <2>1. PICK u \in Users, sku \in DOMAIN Offers : u = purchases[t].user /\ sku = purchases[t].sku
    BY TicketOf DEF Ticket, EntInv
  <2>2. PICK grants : grants = Offers[sku].grants
    OBVIOUS
  <2>3. entitlements' = [entitlements EXCEPT ![u] = [name \in DOMAIN @ \cup DOMAIN grants |->
            IF name \in DOMAIN grants THEN Extended(u, name, grants[name]) ELSE @[name]]]
    BY <1>1, <2>1, <2>2 DEF RedeemFreePurchase, EntitlementsAfter
  <2>4. ASSUME NEW name \in DOMAIN grants, SoldForGood(name)
        PROVE  Extended(u, name, grants[name]).duration = 0
    <3>1. grants[name] = 0
      BY <2>2, <2>4, StoreAssumption DEF SoldForGood
    <3>2. name \in DOMAIN entitlements[u] => entitlements[u][name].duration = 0
      BY <2>4 DEF HeldForGood
    <3> QED
      BY <3>1, <3>2 DEF Extended
  <2> QED
    BY <2>3, <2>4 DEF HeldForGood, EntInv, EntitlementsTyped
<1>2. ASSUME NEW u \in Users, NEW ch, NEW track \in DOMAIN Tracks, NEW kind \in Kinds, NEW rank \in Nat,
             ClaimRanksUpTo(u, ch, track, rank, kind)
      PROVE  HeldForGood'
  <2>1. PICK due : due = Due(u, track, rank, kind)
    OBVIOUS
  <2>2. PICK names : names = UNION {DOMAIN RewardOf(d).grants : d \in due} \ DOMAIN entitlements[u]
    OBVIOUS
  <2>3. entitlements' = [entitlements EXCEPT ![u] = [name \in DOMAIN @ \cup names |->
            IF name \in names THEN [duration |-> RewardOf(GrantedBy(name, due)).grants[name], activatedAt |-> now]
            ELSE @[name]]]
    BY <1>2, <2>1, <2>2 DEF ClaimRanksUpTo
  <2>4. due \in SUBSET DueAgain(u, track, rank, kind)
    BY <2>1 DEF Due
  <2>5. ASSUME NEW name \in names, SoldForGood(name)
        PROVE  RewardOf(GrantedBy(name, due)).grants[name] = 0
    <3>1. PICK d \in due : d = GrantedBy(name, due) /\ name \in DOMAIN RewardOf(d).grants
      BY <2>2, <2>4, <2>5, GrantsNumber
    <3>2. d.track = track /\ d.kind = kind
      BY <2>4 DEF DueAgain
    <3>3. RewardOf(d) = RewardForRank(track, d.rank, kind)
      BY <3>2 DEF RewardOf
    <3>4. d.rank \in DOMAIN Tracks[track][kind] /\ RewardOf(d) = Tracks[track][kind][d.rank]
      BY <3>1, <3>3 DEF RewardForRank, NoReward, Empty
    <3> QED
      BY <2>5, <3>1, <3>4 DEF GoodForGood
  <2> QED
    BY <2>3, <2>5 DEF HeldForGood, EntInv, EntitlementsTyped
<1>3. CASE UNCHANGED entitlements
  BY <1>3 DEF HeldForGood
<1>4. \/ \E t \in DOMAIN purchases : RedeemFreePurchase(t)
      \/ \E u \in Users, ch \in Characters, track \in DOMAIN Tracks, kind \in Kinds, rank \in Nat :
            ClaimRanksUpTo(u, ch, track, rank, kind)
      \/ UNCHANGED entitlements
  <2>1. ASSUME NEW u \in Users, NEW ch \in Characters, NEW sku \in DOMAIN Offers, CreateFreePurchase(u, ch, sku)
        PROVE  UNCHANGED entitlements
    BY <2>1 DEF CreateFreePurchase
  <2>2. ASSUME UNCHANGED economyVars \/ UNCHANGED storeVars
        PROVE  UNCHANGED entitlements
    BY <2>2 DEF economyVars, storeVars
  <2>3. \A n : \A rank \in 0 .. n : rank \in Nat
    OBVIOUS
  <2> QED
    BY <2>1, <2>2, <2>3 DEF EconomyStep
<1> QED
  BY <1>1, <1>2, <1>3, <1>4

LEMMA SumOfZeros ==
    ASSUME NEW S, IsFiniteSet(S), NEW f \in [S -> Nat], \A x \in S : f[x] = 0
    PROVE  SumOf(f) = 0
<1>1. PICK T \in SUBSET S : T = {}
  OBVIOUS
<1>2. PICK g : g = [x \in T |-> f[x]]
  OBVIOUS
<1>3. g \in [T -> Nat] /\ (\A x \in T : g[x] = f[x]) /\ \A x \in S \ T : f[x] = 0
  BY <1>1, <1>2
<1>4. SumOf(f) = SumOf(g)
  BY <1>3, SumOfPart
<1> QED
  BY <1>1, <1>3, <1>4, SumOfNothing

LEMMA PriceIs ==
    ASSUME NEW sku \in DOMAIN Offers, NEW o, o = Offers[sku], NEW c \in Currencies, c # o.currency \/ o.price = 0
    PROVE  Debit(Price(o), c) = 0
<1>. DEFINE s == SpelledAs(Price(o), c)
            f == [id \in s |-> Price(o)[id]]
<1>1. o.currency \in Currencies /\ o.price \in Nat /\ Canonical[o.currency] = o.currency
  BY StoreAssumption, InventoryAssumption
<1>2. s \subseteq {o.currency} /\ IsFiniteSet(s)
  BY FS_Singleton, FS_Subset DEF SpelledAs, Price
<1>3. Debit(Price(o), c) = SumOf(f)
  BY Zenon DEF Debit, Total, SumOf
<1>4. \A id \in s : f[id] = 0
  BY <1>1, <1>2 DEF SpelledAs, Price
<1>. HIDE DEF s
<1>5. f \in [s -> Nat]
  BY <1>4
<1>6. SumOf(f) = 0
  <2>. HIDE DEF f
  <2> QED
    BY <1>2, <1>4, <1>5, SumOfZeros
<1> QED
  BY <1>3, <1>6

LEMMA CreditedFor ==
    ASSUME NEW lines, Amounts(lines), NEW c \in DOMAIN lines, lines[c] > 0, Units[c] > 0
    PROVE  Credit(lines, Canonical[c]) > 0
<1>. DEFINE s == SpelledAs(lines, Canonical[c])
            f == [id \in s |-> lines[id] * Units[id]]
            g == [id \in s \ {c} |-> lines[id] * Units[id]]
<1>1. c \in s /\ IsFiniteSet(s)
  BY FS_Subset DEF Amounts, SpelledAs
<1>2. \A id \in s : lines[id] \in Nat /\ Units[id] \in Nat
  BY InventoryAssumption DEF Amounts, SpelledAs
<1>3. \A id \in s : lines[id] * Units[id] \in Nat
  BY <1>2
<1>4. Credit(lines, Canonical[c]) = SumOf(f)
  BY Zenon DEF Credit, Total, SumOf
<1>5. f[c] > 0
  <2>1. \A m, n \in Nat : m > 0 /\ n > 0 => m * n > 0
    OBVIOUS
  <2> QED
    BY <1>1, <1>2, <2>1
<1>. HIDE DEF s
<1>6. f \in [s -> Nat] /\ g \in [s \ {c} -> Nat] /\ AllBut(g, f, s, c) /\ IsFiniteSet(s \ {c})
  BY <1>1, <1>3, FS_Subset DEF AllBut
<1>7. SumOf(f) = f[c] + SumOf(g) /\ SumOf(g) \in Nat /\ f[c] \in Nat
  <2>. HIDE DEF f, g
  <2> QED
    BY <1>1, <1>6, SumTakesOneOut, SumIsNat
<1>. HIDE DEF f, g
<1> QED
  BY <1>4, <1>5, <1>7

\* What ChargedForSomething wants of redeeming t.
PaidFor(t) ==
    LET p == purchases[t] IN
    (\E c \in Currencies : wallet'[p.user][c] < wallet[p.user][c]) =>
        \/ \E c \in Stackables : stacks'[p.ch][c] > stacks[p.ch][c]
        \/ \E c \in Currencies : wallet'[p.user][c] > wallet[p.user][c]
        \/ DOMAIN items'[p.ch] # DOMAIN items[p.ch]
        \/ \E name \in DOMAIN entitlements'[p.user] : LastsTo(p.user, name)' > LastsTo(p.user, name)

\* A cosmetic that is not held is a new instance.
LEMMA CosmeticIsNew ==
    ASSUME NEW t, NEW ch, NEW o, NEW c \in o.cosmetics, c \notin HeldCatalogIds(ch), Named(items[ch])
    PROVE  DOMAIN With(items[ch], Cosmetics(t, ch, o)) # DOMAIN items[ch]
<1>1. PICK x : x = [id |-> <<t, c>>, catalog |-> c, kind |-> "stateless", version |-> 0]
  OBVIOUS
<1>2. x \in Cosmetics(t, ch, o) /\ x.id = <<t, c>>
  BY <1>1 DEF Cosmetics
<1>3. <<t, c>> \notin DOMAIN items[ch]
  BY DEF HeldCatalogIds, Named
<1>4. <<t, c>> \in DOMAIN With(items[ch], Cosmetics(t, ch, o))
  BY <1>2, <1>3 DEF With
<1> QED
  BY <1>3, <1>4

\* An entitlement that is not held for good lasts longer once granted again.
LEMMA EntitlementGrows ==
    ASSUME EntInv, HeldForGood, NEW u \in Users, NEW sku \in DOMAIN Offers, NEW o, o = Offers[sku],
           NEW name \in DOMAIN o.grants, ~(name \in Entitled(u) /\ entitlements[u][name].duration = 0),
           entitlements' = EntitlementsAfter(u, o)
    PROVE  name \in DOMAIN entitlements'[u] /\ LastsTo(u, name)' > LastsTo(u, name)
<1>1. PICK d \in Nat : d = o.grants[name]
  BY StoreAssumption
<1>2. entitlements'[u] = [n \in DOMAIN entitlements[u] \cup DOMAIN o.grants |->
            IF n \in DOMAIN o.grants THEN Extended(u, n, o.grants[n]) ELSE entitlements[u][n]]
  BY DEF EntitlementsAfter, EntInv, EntitlementsTyped
<1>3. name \in DOMAIN entitlements'[u] /\ entitlements'[u][name] = Extended(u, name, d)
  BY <1>1, <1>2
<1>4. PICK row \in Row : row = Extended(u, name, d)
  BY <1>1, ExtendedLasts DEF EntInv, TicketsTyped
<1>5. LastsTo(u, name)' = IF row.duration = 0 THEN Forever ELSE row.activatedAt + row.duration
  BY <1>3, <1>4 DEF LastsTo, Forever
<1>6. now \in Nat \ {0} /\ Forever \in Nat /\ Forever > 0
  BY InventoryAssumption DEF EntInv, TicketsTyped, Forever
<1>7. CASE name \notin DOMAIN entitlements[u]
  <2>1. row = [duration |-> d, activatedAt |-> now]
    BY <1>4, <1>7 DEF Extended
  <2>2. LastsTo(u, name) = 0
    BY <1>7 DEF LastsTo
  <2> QED
    BY <1>3, <1>5, <1>6, <2>1, <2>2
<1>8. CASE name \in DOMAIN entitlements[u]
  <2>1. PICK held \in Row : held = entitlements[u][name]
    BY <1>8 DEF EntInv, EntitlementsTyped
  <2>2. held.duration # 0
    BY <1>8, <2>1 DEF Entitled, IsEntitlementActive
  <2>3. d # 0
    BY <1>1, <1>8, <2>1, <2>2 DEF HeldForGood, SoldForGood
  <2>4. row = IF ~IsEntitlementActive(held) THEN [duration |-> d, activatedAt |-> now] ELSE [held EXCEPT !.duration = @ + d]
    BY <1>4, <1>8, <2>1, <2>2, <2>3 DEF Extended
  <2>5. LastsTo(u, name) = held.activatedAt + held.duration
    BY <1>8, <2>1, <2>2 DEF LastsTo
  <2>6. CASE ~IsEntitlementActive(held)
    <3>1. held.activatedAt + held.duration <= now
      BY <1>6, <2>6 DEF IsEntitlementActive, Row
    <3>2. row.duration = d /\ row.activatedAt = now
      BY <2>4, <2>6
    <3> QED
      BY <1>1, <1>3, <1>5, <1>6, <2>3, <2>5, <3>1, <3>2 DEF Row
  <2>7. CASE IsEntitlementActive(held)
    <3>1. row.duration = held.duration + d /\ row.activatedAt = held.activatedAt
      BY <2>4, <2>7 DEF Row
    <3>2. held.duration \in Nat /\ held.activatedAt \in Nat
      BY DEF Row
    <3> QED
      BY <1>1, <1>3, <1>5, <2>2, <2>3, <2>5, <3>1, <3>2
  <2> QED
    BY <2>6, <2>7
<1> QED
  BY <1>7, <1>8

\* A line of an offer that was not held before is held after it.
LEMMA LineArrives ==
    ASSUME SellsSomething, ValueTyped, ItemsApart, NEW u \in Users, NEW ch \in Characters,
           NEW sku \in DOMAIN Offers, NEW o, o = Offers[sku], o.price > 0,
           NEW c \in DOMAIN o.items, o.kind # "unlock" \/ c \notin HeldCatalogIds(ch),
           wallet' = WalletAfter(u, Price(o), MoneyLines(o)),
           stacks' = StacksAfter(ch, Empty, ToGrant(ch, o, StackLines(o)))
    PROVE  \/ \E k \in Stackables : stacks'[ch][k] > stacks[ch][k]
           \/ \E k \in Currencies : wallet'[u][k] > wallet[u][k]
<1>1. (c \in Stackables \/ (IsCurrency(c) /\ Canonical[c] # o.currency /\ Units[c] > 0))
  BY DEF SellsSomething
<1>2. Amounts(o.items) /\ o.items[c] \in Nat /\ o.items[c] > 0
  BY WhatIsSentAddsUp, StoreAssumption DEF Quantities
<1>3. CASE c \in Stackables
  <2>1. PICK n \in Nat : n = stacks[ch][c]
    BY <1>3 DEF ValueTyped
  <2>2. Lines(ToGrant(ch, o, StackLines(o)), c) = o.items[c]
    <3>1. o.kind = "unlock" => n = 0
      BY <1>3, <2>1 DEF HeldCatalogIds
    <3> QED
      BY <1>3, <2>1, <3>1, GrantedStacks DEF Lines
  <2>3. StackTaken(ch, Empty, c) = 0
    BY NothingIsDebited DEF StackTaken
  <2>4. stacks'[ch][c] = n - 0 + o.items[c]
    BY <1>3, <2>1, <2>2, <2>3 DEF StacksAfter, ValueTyped
  <2> QED
    BY <1>2, <1>3, <2>1, <2>4
<1>4. CASE IsCurrency(c) /\ Canonical[c] # o.currency /\ Units[c] > 0
  <2>1. PICK k \in Currencies : k = Canonical[c]
    BY <1>4 DEF IsCurrency
  <2>2. PICK n \in Nat : n = wallet[u][k]
    BY DEF ValueTyped
  <2>3. Debit(Price(o), k) = 0
    BY <1>4, <2>1, PriceIs
  <2>4. PICK lines : lines = MoneyLines(o)
    OBVIOUS
  <2>5. c \in DOMAIN lines /\ lines[c] = o.items[c] /\ Amounts(lines)
    <3>1. IsFiniteSet({x \in DOMAIN o.items : IsCurrency(x)})
      BY <1>2, FS_Subset DEF Amounts
    <3> QED
      BY <1>2, <1>4, <2>4, <3>1 DEF MoneyLines, Restrict, Amounts
  <2>6. Credit(lines, k) > 0 /\ Credit(lines, k) \in Nat
    BY <1>2, <1>4, <2>1, <2>5, CreditedFor, QuantitiesAddUp
  <2>7. wallet'[u][k] = n - 0 + Credit(lines, k)
    BY <2>2, <2>3, <2>4 DEF WalletAfter, ValueTyped
  <2> QED
    BY <2>2, <2>6, <2>7
<1> QED
  BY <1>1, <1>3, <1>4

LEMMA RedeemPays ==
    ASSUME SellsSomething, ValueTyped, EntInv, ItemsApart, ItemsNamed, HeldForGood,
           NEW t \in DOMAIN purchases, RedeemFreePurchase(t)
    PROVE  PaidFor(t)
<1>1. purchases[t] \in Ticket
  BY TicketOf DEF EntInv
<1>2. PICK u \in Users, ch \in Characters, sku \in DOMAIN Offers :
        u = purchases[t].user /\ ch = purchases[t].ch /\ sku = purchases[t].sku
  BY <1>1 DEF Ticket
<1>3. PICK o : o = Offers[sku]
  OBVIOUS
<1>4. /\ wallet' = WalletAfter(u, Price(o), MoneyLines(o))
      /\ stacks' = StacksAfter(ch, Empty, ToGrant(ch, o, StackLines(o)))
      /\ items' = [items EXCEPT ![ch] = With(@, Cosmetics(t, ch, o))]
      /\ entitlements' = EntitlementsAfter(u, o)
      /\ o.price > 0 => ~GrantsNothing(u, ch, o)
  BY <1>2, <1>3 DEF RedeemFreePurchase, StillDue
<1>. DEFINE Gain == \/ \E c \in Stackables : stacks'[ch][c] > stacks[ch][c]
                    \/ \E c \in Currencies : wallet'[u][c] > wallet[u][c]
                    \/ DOMAIN items'[ch] # DOMAIN items[ch]
                    \/ \E name \in DOMAIN entitlements'[u] : LastsTo(u, name)' > LastsTo(u, name)
<1>5. ASSUME NEW c \in Currencies, wallet'[u][c] < wallet[u][c]
      PROVE  o.price > 0
  <2>1. wallet[u][c] \in Nat /\ Credit(MoneyLines(o), c) \in Nat
    BY <1>3, MoneyIsWorth DEF ValueTyped
  <2>2. wallet'[u][c] = wallet[u][c] - Debit(Price(o), c) + Credit(MoneyLines(o), c)
    BY <1>4 DEF WalletAfter, ValueTyped
  <2>3. o.price \in Nat
    BY <1>3, StoreAssumption
  <2>4. o.price = 0 => Debit(Price(o), c) = 0
    BY <1>3, PriceIs
  <2> QED
    BY <1>5, <2>1, <2>2, <2>3, <2>4
<1>6. ASSUME o.price > 0
      PROVE  Gain
  <2>1. ASSUME NEW c \in DOMAIN o.items, o.kind # "unlock" \/ c \notin HeldCatalogIds(ch)
        PROVE  Gain
    BY <1>3, <1>4, <1>6, <2>1, LineArrives
  <2>2. CASE o.kind # "unlock"
    <3>1. DOMAIN o.items # {}
      BY <1>3, <1>6, <2>2 DEF SellsSomething
    <3> QED
      BY <2>1, <2>2, <3>1
  <2>3. CASE o.kind = "unlock"
    <3>1. \/ \E c \in DOMAIN o.items : c \notin HeldCatalogIds(ch)
          \/ \E c \in o.cosmetics : c \notin HeldCatalogIds(ch)
          \/ \E name \in DOMAIN o.grants : ~(name \in Entitled(u) /\ entitlements[u][name].duration = 0)
      BY <1>4, <1>6, <2>3 DEF GrantsNothing
    <3>2. ASSUME NEW c \in o.cosmetics, c \notin HeldCatalogIds(ch)
          PROVE  Gain
      <4>1. Named(items[ch]) /\ items'[ch] = With(items[ch], Cosmetics(t, ch, o))
        BY <1>4 DEF ItemsNamed
      <4>2. DOMAIN items'[ch] # DOMAIN items[ch]
        BY <3>2, <4>1, CosmeticIsNew
      <4> QED
        BY <4>2
    <3>3. ASSUME NEW name \in DOMAIN o.grants, ~(name \in Entitled(u) /\ entitlements[u][name].duration = 0)
          PROVE  Gain
      <4>1. name \in DOMAIN entitlements'[u] /\ LastsTo(u, name)' > LastsTo(u, name)
        BY <1>3, <1>4, <3>3, EntitlementGrows
      <4> QED
        BY <4>1
    <3> QED
      BY <2>1, <3>1, <3>2, <3>3
  <2> QED
    BY <2>2, <2>3
<1>7. (\E c \in Currencies : wallet'[u][c] < wallet[u][c]) => Gain
  BY <1>5, <1>6
<1>8. purchases'[t].user = u
  BY <1>1, <1>2 DEF RedeemFreePurchase, Ticket
<1>9. PaidFor(t) <=> ((\E c \in Currencies : wallet'[u][c] < wallet[u][c]) => Gain)
  BY <1>2, <1>8 DEF PaidFor, LastsTo
<1> QED
  BY <1>7, <1>9

RedeemsPay == \A t \in DOMAIN purchases : Redeems(t) => PaidFor(t)

\* For any offers that sell something, and whatever was bought, granted or refilled between the
\* request for a token and its redemption: nobody pays for nothing.
THEOREM NobodyPaysForNothing ==
    ASSUME SellsSomething, MintedAsNamed, GoodForGood, OwnIds, InstancedOrStacked
    PROVE  Spec => ChargedForSomething
<1>. DEFINE PayInv == ValueInv /\ EntInv /\ ItemsNamed /\ HeldForGood
<1>1. Init => PayInv
  <2>1. Init => EntInv
    <3>1. Init => EntitlementsTyped
      BY DEF Init, StoreInit, EntitlementsTyped, Empty
    <3> QED
      BY <3>1, TicketsFirst DEF EntInv
  <2>2. Init => ItemsNamed /\ HeldForGood
    BY DEF Init, StoreInit, InventoryInit, ItemsNamed, Named, HeldForGood, Empty
  <2> QED
    BY <2>1, <2>2, ValueKept
<1>2. PayInv /\ [Next]_vars => PayInv' /\ [RedeemsPay]_economyVars
  <2>. SUFFICES ASSUME PayInv, [Next]_vars PROVE PayInv' /\ RedeemsPay
    OBVIOUS
  <2>1. EconomyStep
    BY EconomySteps
  <2>2. ValueInv' /\ EntInv' /\ ItemsNamed' /\ HeldForGood'
    BY <2>1, ValueKept, EntitlementsStep, ItemsStayNamed, GrantedForGood DEF EntInv
  <2>3. ASSUME NEW t \in DOMAIN purchases, Redeems(t)
        PROVE  PaidFor(t)
    <3>1. ASSUME UNCHANGED purchases
          PROVE  FALSE
      BY <2>3, <3>1 DEF Redeems
    <3>2. ASSUME NEW u \in Users, NEW ch \in Characters, NEW sku \in DOMAIN Offers, CreateFreePurchase(u, ch, sku)
          PROVE  FALSE
      BY <2>3, <3>2, CreateIssues DEF Redeems, Issues, EntInv
    <3>3. ASSUME NEW p \in DOMAIN purchases, RedeemFreePurchase(p)
          PROVE  PaidFor(t)
      <4>1. t = p
        BY <2>3, <3>3, RedeemMarks DEF Redeems, Marks, EntInv
      <4> QED
        BY <3>3, <4>1, RedeemPays DEF ValueInv
    <3> QED
      BY <2>1, <3>1, <3>2, <3>3 DEF EconomyStep, storeVars, economyVars
  <2> QED
    BY <2>2, <2>3 DEF RedeemsPay
<1>3. ChargedForSomething <=> [][RedeemsPay]_economyVars
  BY DEF ChargedForSomething, RedeemsPay, PaidFor
<1> QED
  BY <1>1, <1>2, <1>3, PTL DEF Spec

---------------------------------------------------------------------------
(* Exchanges of cells *)

\* The fusion tokens held for a cell.
HeldFor(held, c) == {id \in DOMAIN held : IsFusion(held[id]) /\ held[id].cell = c}

Versioned(held) == \A id \in DOMAIN held : held[id].version \in Nat

\* Each payment and each token held was begun or put back, and no two by the same write.
ExchangesOf(ch) ==
    \A c : /\ IsFiniteSet(HeldFor(items[ch], c)) /\ IsFiniteSet(Revealed(ch, c))
           /\ IsFiniteSet(Begun(ch, c)) /\ IsFiniteSet(Revived(ch, c))
           /\ Cardinality(Revealed(ch, c)) + Cardinality(HeldFor(items[ch], c))
                <= Cardinality(Begun(ch, c)) + Cardinality(Revived(ch, c))

ExchangesInv ==
    /\ items = [ch \in Characters |-> items[ch]]
    /\ \A l \in revived : l[1].tx \in DOMAIN ledger
    /\ \A ch \in Characters : ExchangesOf(ch) /\ Versioned(items[ch])

\* An item after a write is what was written, or what was there.
LEMMA WrittenOrThere ==
    ASSUME NEW held, NEW xs, NEW id \in DOMAIN With(held, xs)
    PROVE  \/ With(held, xs)[id] \in xs /\ With(held, xs)[id].id = id
           \/ id \in DOMAIN held /\ With(held, xs)[id] = held[id]
<1>. DEFINE written == {x \in xs : x.id \in DOMAIN held => ~IsSkipped(held[x.id], x)}
            Of(i) == CHOOSE x \in written : x.id = i
<1>1. PICK new : new = With(held, xs)
  OBVIOUS
<1>2. new = [i \in DOMAIN held \cup {x.id : x \in written} |->
            IF \E x \in written : x.id = i THEN Of(i) ELSE held[i]]
  BY <1>1 DEF With
<1>3. ASSUME \E x \in written : x.id = id
      PROVE  Of(id) \in xs /\ Of(id).id = id
  BY <1>3
<1>. HIDE DEF Of
<1>4. CASE \E x \in written : x.id = id
  BY <1>1, <1>2, <1>3, <1>4
<1>5. CASE ~ \E x \in written : x.id = id
  BY <1>1, <1>2, <1>5
<1> QED
  BY <1>4, <1>5

LEMMA VersionsWritten ==
    ASSUME NEW held, Versioned(held), NEW xs, \A x \in xs : x.version \in Nat
    PROVE  Versioned(With(held, xs))
<1>. SUFFICES ASSUME NEW id \in DOMAIN With(held, xs)
              PROVE  With(held, xs)[id].version \in Nat
  BY DEF Versioned
<1>1. PICK x : x = With(held, xs)[id]
  OBVIOUS
<1>2. x \in xs \/ (id \in DOMAIN held /\ x = held[id])
  BY <1>1, WrittenOrThere
<1> QED
  BY <1>1, <1>2 DEF Versioned

LEMMA TokensWritten ==
    ASSUME NEW held, NEW xs, NEW c
    PROVE  HeldFor(With(held, xs), c) \subseteq HeldFor(held, c) \cup {x.id : x \in {y \in Tokens(xs) : y.cell = c}}
<1>. SUFFICES ASSUME NEW id \in HeldFor(With(held, xs), c)
              PROVE  id \in HeldFor(held, c) \cup {x.id : x \in {y \in Tokens(xs) : y.cell = c}}
  OBVIOUS
<1>1. PICK x : x = With(held, xs)[id]
  OBVIOUS
<1>2. id \in DOMAIN With(held, xs) /\ IsFusion(x) /\ x.cell = c
  BY <1>1 DEF HeldFor
<1>3. (x \in xs /\ x.id = id) \/ (id \in DOMAIN held /\ x = held[id])
  BY <1>1, <1>2, WrittenOrThere
<1> QED
  BY <1>2, <1>3 DEF HeldFor, Tokens

\* The ids that pairs of a write and an item name are no more than the pairs.
LEMMA IdsCounted ==
    ASSUME NEW P, IsFiniteSet(P)
    PROVE  /\ IsFiniteSet({p[2].id : p \in P})
           /\ Cardinality({p[2].id : p \in P}) <= Cardinality(P)
<1>1. [p \in P |-> p[2].id] \in Surjection(P, {p[2].id : p \in P})
  BY DEF Surjection
<1> QED
  BY <1>1, FS_Surjection

\* Tokens that stay or come with new writes are outnumbered by those writes.
LEMMA GrowthCovered ==
    ASSUME NEW H, NEW B, NEW L, NEW P, NEW Q, NEW G,
           IsFiniteSet(H), IsFiniteSet(B), IsFiniteSet(L), IsFiniteSet(P), IsFiniteSet(Q),
           B \cap P = {}, L \cap Q = {}, G \subseteq H \cup {p[2].id : p \in P} \cup {q[2].id : q \in Q}
    PROVE  /\ IsFiniteSet(G) /\ IsFiniteSet(B \cup P) /\ IsFiniteSet(L \cup Q)
           /\ Cardinality(G) + Cardinality(B) + Cardinality(L)
                <= Cardinality(H) + Cardinality(B \cup P) + Cardinality(L \cup Q)
<1>1. PICK I : I = {p[2].id : p \in P}
  OBVIOUS
<1>2. PICK J : J = {q[2].id : q \in Q}
  OBVIOUS
<1>3. IsFiniteSet(I) /\ Cardinality(I) <= Cardinality(P)
  BY <1>1, IdsCounted
<1>4. IsFiniteSet(J) /\ Cardinality(J) <= Cardinality(Q)
  BY <1>2, IdsCounted
<1>5. /\ IsFiniteSet(H \cup I)
      /\ Cardinality(H \cup I) = Cardinality(H) + Cardinality(I) - Cardinality(H \cap I)
  BY <1>3, FS_Union
<1>6. /\ IsFiniteSet((H \cup I) \cup J)
      /\ Cardinality((H \cup I) \cup J) = Cardinality(H \cup I) + Cardinality(J) - Cardinality((H \cup I) \cap J)
  BY <1>4, <1>5, FS_Union
<1>7. G \in SUBSET ((H \cup I) \cup J)
  BY <1>1, <1>2
<1>8. IsFiniteSet(G) /\ Cardinality(G) <= Cardinality((H \cup I) \cup J)
  BY <1>6, <1>7, FS_Subset
<1>9. /\ IsFiniteSet(B \cup P)
      /\ Cardinality(B \cup P) = Cardinality(B) + Cardinality(P) - Cardinality(B \cap P)
  BY FS_Union
<1>10. /\ IsFiniteSet(L \cup Q)
       /\ Cardinality(L \cup Q) = Cardinality(L) + Cardinality(Q) - Cardinality(L \cap Q)
  BY FS_Union
<1>11. Cardinality(B \cap P) = 0 /\ Cardinality(L \cap Q) = 0
  BY FS_EmptySet
<1>12. IsFiniteSet(H \cap I) /\ IsFiniteSet((H \cup I) \cap J)
  <2>1. H \cap I \in SUBSET H /\ (H \cup I) \cap J \in SUBSET J
    OBVIOUS
  <2> QED
    BY <1>4, <2>1, FS_Subset
<1>13. /\ Cardinality(H) \in Nat /\ Cardinality(I) \in Nat /\ Cardinality(H \cap I) \in Nat
       /\ Cardinality(J) \in Nat /\ Cardinality((H \cup I) \cap J) \in Nat
       /\ Cardinality(H \cup I) \in Nat /\ Cardinality((H \cup I) \cup J) \in Nat /\ Cardinality(G) \in Nat
       /\ Cardinality(B) \in Nat /\ Cardinality(P) \in Nat /\ Cardinality(L) \in Nat /\ Cardinality(Q) \in Nat
       /\ Cardinality(B \cup P) \in Nat /\ Cardinality(L \cup Q) \in Nat
  BY <1>3, <1>4, <1>5, <1>6, <1>8, <1>9, <1>10, <1>12, FS_CardinalityType
<1>14. Cardinality(G) + Cardinality(B) + Cardinality(L)
            <= Cardinality(H) + Cardinality(B \cup P) + Cardinality(L \cup Q)
  BY <1>3, <1>4, <1>5, <1>6, <1>8, <1>9, <1>10, <1>11, <1>13
<1> QED
  BY <1>8, <1>9, <1>10, <1>14

\* What runs no transaction and writes no token.
LEMMA NothingBegun ==
    ASSUME NEW ch, ExchangesOf(ch), Receipts(ch)' = Receipts(ch), \A c : Revived(ch, c)' = Revived(ch, c),
           \A c : HeldFor(items'[ch], c) \subseteq HeldFor(items[ch], c)
    PROVE  ExchangesOf(ch)'
<1>. SUFFICES ASSUME NEW c
              PROVE  /\ IsFiniteSet(HeldFor(items'[ch], c)) /\ IsFiniteSet(Revealed(ch, c)')
                     /\ IsFiniteSet(Begun(ch, c)') /\ IsFiniteSet(Revived(ch, c)')
                     /\ Cardinality(Revealed(ch, c)') + Cardinality(HeldFor(items'[ch], c))
                            <= Cardinality(Begun(ch, c)') + Cardinality(Revived(ch, c)')
  BY DEF ExchangesOf
<1>1. Begun(ch, c)' = Begun(ch, c) /\ Revealed(ch, c)' = Revealed(ch, c) /\ Revived(ch, c)' = Revived(ch, c)
  BY DEF Begun, Revealed
<1>2. /\ IsFiniteSet(HeldFor(items[ch], c)) /\ IsFiniteSet(Revealed(ch, c))
      /\ IsFiniteSet(Begun(ch, c)) /\ IsFiniteSet(Revived(ch, c))
      /\ Cardinality(Revealed(ch, c)) + Cardinality(HeldFor(items[ch], c))
            <= Cardinality(Begun(ch, c)) + Cardinality(Revived(ch, c))
  BY DEF ExchangesOf
<1>3. HeldFor(items'[ch], c) \in SUBSET HeldFor(items[ch], c)
  OBVIOUS
<1>4. /\ IsFiniteSet(HeldFor(items'[ch], c))
      /\ Cardinality(HeldFor(items'[ch], c)) <= Cardinality(HeldFor(items[ch], c))
  BY <1>2, <1>3, FS_Subset
<1>5. /\ Cardinality(HeldFor(items'[ch], c)) \in Nat /\ Cardinality(HeldFor(items[ch], c)) \in Nat
      /\ Cardinality(Revealed(ch, c)) \in Nat /\ Cardinality(Begun(ch, c)) \in Nat
      /\ Cardinality(Revived(ch, c)) \in Nat
  BY <1>2, <1>4, FS_CardinalityType
<1>6. Cardinality(Revealed(ch, c)) + Cardinality(HeldFor(items'[ch], c))
            <= Cardinality(Begun(ch, c)) + Cardinality(Revived(ch, c))
  BY <1>2, <1>4, <1>5
<1> QED
  BY <1>1, <1>2, <1>4, <1>6

\* A transaction that runs gets the one receipt there is of it.
LEMMA ReceiptsOfTransaction ==
    ASSUME NEW t \in Transactions, t.tx \notin DOMAIN ledger, ledger' = Recorded(t.tx, t)
    PROVE  /\ \A ch \in Characters : Receipts(ch)' = IF ch = t.ch THEN Receipts(ch) \cup {t} ELSE Receipts(ch)
           /\ \A ch \in Characters : t \notin Receipts(ch)
           /\ DOMAIN ledger' = DOMAIN ledger \cup {t.tx}
<1>1. /\ DOMAIN ledger' = DOMAIN ledger \cup {t.tx} /\ ledger'[t.tx] = t
      /\ \A x \in DOMAIN ledger : ledger'[x] = ledger[x]
  BY DEF Recorded
<1>2. ASSUME NEW u \in Transactions
      PROVE  u.tx \in DOMAIN ledger' /\ ledger'[u.tx] = u <=> u = t \/ (u.tx \in DOMAIN ledger /\ ledger[u.tx] = u)
  BY <1>1, <1>2
<1>3. ASSUME NEW ch \in Characters
      PROVE  Receipts(ch)' = IF ch = t.ch THEN Receipts(ch) \cup {t} ELSE Receipts(ch)
  BY <1>2 DEF Receipts
<1> QED
  BY <1>1, <1>3 DEF Receipts

\* The writes by which a transaction brings tokens for a cell.
Begins(t, c) == {<<t, x>> : x \in {y \in Tokens(t.put) : y.cell = c}}
PutsBack(t, c) == {l \in Revives(t) : l[2].cell = c}

LEMMA WritesAreFinite ==
    ASSUME NEW t \in Transactions, NEW c
    PROVE  IsFiniteSet(Begins(t, c)) /\ IsFiniteSet(PutsBack(t, c))
<1>1. PICK all : all = {<<t, x>> : x \in t.put \cup t.save}
  OBVIOUS
<1>2. [x \in t.put \cup t.save |-> <<t, x>>] \in Surjection(t.put \cup t.save, all)
  BY <1>1 DEF Surjection
<1>3. IsFiniteSet(all)
  BY <1>2, FS_Surjection, InventoryAssumption
<1>4. Begins(t, c) \in SUBSET all
  BY <1>1 DEF Begins, Tokens
<1>5. PutsBack(t, c) \in SUBSET all
  BY <1>1 DEF PutsBack, Revives, Tokens
<1> QED
  BY <1>3, <1>4, <1>5, FS_Subset

\* The tokens of a character after a transaction: those not taken, and those it brought.
LEMMA TokensOfTransaction ==
    ASSUME NEW t \in Transactions, RunInventoryTransaction(t), items = [ch \in Characters |-> items[ch]]
    PROVE  /\ items' = [ch \in Characters |-> items'[ch]]
           /\ \A ch \in Characters : ch # t.ch => items'[ch] = items[ch]
           /\ Versioned(items[t.ch]) => Versioned(items'[t.ch])
           /\ \A c : \A id \in HeldFor(items'[t.ch], c) :
                \/ id \in HeldFor(items[t.ch], c) /\ \A x \in t.drop : id # x.id
                \/ id \in {p[2].id : p \in Begins(t, c)}
                \/ id \in {p[2].id : p \in PutsBack(t, c)}
<1>1. PICK kept : kept = Kept(t.ch, t)
  OBVIOUS
<1>2. PICK saved : saved = With(kept, t.save)
  OBVIOUS
<1>3. PICK new : new = With(saved, t.put)
  OBVIOUS
<1>4. items' = [items EXCEPT ![t.ch] = new] /\ t.ch \in Characters
  BY <1>1, <1>2, <1>3, InventoryAssumption DEF RunInventoryTransaction, ItemsAfter, Saved
<1>5. items'[t.ch] = new /\ (\A ch \in Characters : ch # t.ch => items'[ch] = items[ch])
  BY <1>4
<1>6. items' = [ch \in Characters |-> items'[ch]]
  BY <1>4
<1>7. /\ DOMAIN kept \subseteq DOMAIN items[t.ch]
      /\ \A id \in DOMAIN kept : kept[id] = items[t.ch][id] /\ \A x \in t.drop : id # x.id
  BY <1>1 DEF Kept, Without, Restrict
<1>8. ASSUME NEW c, NEW id \in HeldFor(kept, c)
      PROVE  id \in HeldFor(items[t.ch], c) /\ \A x \in t.drop : id # x.id
  BY <1>7, <1>8 DEF HeldFor
<1>9. ASSUME NEW c, NEW id \in HeldFor(saved, c)
      PROVE  id \in HeldFor(kept, c) \/ id \in {p[2].id : p \in PutsBack(t, c)}
  <2>1. PICK x : x = saved[id]
    OBVIOUS
  <2>2. id \in DOMAIN saved /\ IsFusion(x) /\ x.cell = c
    BY <1>9, <2>1 DEF HeldFor
  <2>3. (x \in t.save /\ x.id = id) \/ (id \in DOMAIN kept /\ x = kept[id])
    BY <1>2, <2>1, <2>2, WrittenOrThere
  <2>4. CASE x \in t.save /\ x.id = id
    <3>1. CASE HoldsToken(kept, x)
      BY <2>2, <2>4, <3>1 DEF HoldsToken, HeldFor
    <3>2. CASE ~HoldsToken(kept, x)
      <4>1. <<t, x>> \in PutsBack(t, c)
        BY <1>1, <2>2, <2>4, <3>2 DEF PutsBack, Revives, Tokens
      <4>2. <<t, x>>[2].id = id
        BY <2>4
      <4> QED
        BY <4>1, <4>2
    <3> QED
      BY <3>1, <3>2
  <2>5. CASE id \in DOMAIN kept /\ x = kept[id]
    BY <2>2, <2>5 DEF HeldFor
  <2> QED
    BY <2>3, <2>4, <2>5
<1>10. ASSUME NEW c, NEW id \in HeldFor(new, c)
       PROVE  id \in HeldFor(saved, c) \/ id \in {p[2].id : p \in Begins(t, c)}
  <2>1. HeldFor(new, c) \subseteq HeldFor(saved, c) \cup {x.id : x \in {y \in Tokens(t.put) : y.cell = c}}
    BY <1>3, TokensWritten
  <2>2. ASSUME NEW x \in Tokens(t.put), x.cell = c, x.id = id
        PROVE  id \in {p[2].id : p \in Begins(t, c)}
    <3>1. <<t, x>> \in Begins(t, c) /\ <<t, x>>[2].id = id
      BY <2>2 DEF Begins
    <3> QED
      BY <3>1
  <2> QED
    BY <1>10, <2>1, <2>2
<1>11. ASSUME Versioned(items[t.ch])
       PROVE  Versioned(new)
  <2>1. \A x \in t.put \cup t.save : x.version \in Nat
    BY InventoryAssumption DEF WellFormed
  <2>2. Versioned(kept)
    BY <1>7, <1>11 DEF Versioned
  <2>3. Versioned(saved)
    BY <1>2, <2>1, <2>2, VersionsWritten
  <2> QED
    BY <1>3, <2>1, <2>3, VersionsWritten
<1> QED
  BY <1>5, <1>6, <1>8, <1>9, <1>10, <1>11

LEMMA TransactionKeepsExchanges ==
    ASSUME NEW t \in Transactions, RunInventoryTransaction(t), ExchangesInv
    PROVE  ExchangesInv'
<1>1. PICK ch \in Characters : ch = t.ch
  BY InventoryAssumption
<1>2. t.tx \notin DOMAIN ledger /\ ledger' = Recorded(t.tx, t) /\ revived' = revived \cup Revives(t)
  BY DEF RunInventoryTransaction, IsNew
<1>3. /\ \A d \in Characters : Receipts(d)' = IF d = ch THEN Receipts(d) \cup {t} ELSE Receipts(d)
      /\ t \notin Receipts(ch) /\ DOMAIN ledger' = DOMAIN ledger \cup {t.tx}
  BY <1>1, <1>2, ReceiptsOfTransaction
<1>4. /\ items' = [d \in Characters |-> items'[d]] /\ \A d \in Characters : d # ch => items'[d] = items[d]
      /\ \A c : \A id \in HeldFor(items'[ch], c) :
            \/ id \in HeldFor(items[ch], c) /\ \A x \in t.drop : id # x.id
            \/ id \in {p[2].id : p \in Begins(t, c)}
            \/ id \in {p[2].id : p \in PutsBack(t, c)}
  BY <1>1, TokensOfTransaction DEF ExchangesInv
<1>5. \A l \in Revives(t) : l[1] = t
  BY DEF Revives
<1>6. \A l \in revived' : l[1].tx \in DOMAIN ledger'
  BY <1>2, <1>3, <1>5 DEF ExchangesInv
<1>7. ASSUME NEW d \in Characters, d # ch
      PROVE  ExchangesOf(d)'
  <2>1. ExchangesOf(d) /\ Receipts(d)' = Receipts(d) /\ \A c : HeldFor(items'[d], c) \subseteq HeldFor(items[d], c)
    BY <1>3, <1>4, <1>7 DEF ExchangesInv
  <2>2. \A c : Revived(d, c)' = Revived(d, c)
    BY <1>1, <1>2, <1>5, <1>7 DEF Revived
  <2> QED
    BY <2>1, <2>2, NothingBegun
<1>8. ASSUME NEW c
      PROVE  /\ IsFiniteSet(HeldFor(items'[ch], c)) /\ IsFiniteSet(Revealed(ch, c)')
             /\ IsFiniteSet(Begun(ch, c)') /\ IsFiniteSet(Revived(ch, c)')
             /\ Cardinality(Revealed(ch, c)') + Cardinality(HeldFor(items'[ch], c))
                    <= Cardinality(Begun(ch, c)') + Cardinality(Revived(ch, c)')
  <2>1. /\ IsFiniteSet(HeldFor(items[ch], c)) /\ IsFiniteSet(Revealed(ch, c))
        /\ IsFiniteSet(Begun(ch, c)) /\ IsFiniteSet(Revived(ch, c))
        /\ Cardinality(Revealed(ch, c)) + Cardinality(HeldFor(items[ch], c))
                <= Cardinality(Begun(ch, c)) + Cardinality(Revived(ch, c))
    BY DEF ExchangesInv, ExchangesOf
  <2>2. Begun(ch, c)' = Begun(ch, c) \cup Begins(t, c) /\ Begun(ch, c) \cap Begins(t, c) = {}
    <3>1. Begun(ch, c)' = Begun(ch, c) \cup Begins(t, c)
      BY <1>3 DEF Begun, Begins
    <3>2. \A p \in Begun(ch, c) : p[1] \in Receipts(ch)
      BY DEF Begun
    <3>3. \A p \in Begins(t, c) : p[1] = t
      BY DEF Begins
    <3> QED
      BY <1>3, <3>1, <3>2, <3>3
  <2>3. Revived(ch, c)' = Revived(ch, c) \cup PutsBack(t, c) /\ Revived(ch, c) \cap PutsBack(t, c) = {}
    <3>1. Revived(ch, c)' = Revived(ch, c) \cup PutsBack(t, c)
      BY <1>1, <1>2, <1>5 DEF Revived, PutsBack
    <3>2. \A l \in Revived(ch, c) : l[1].tx # t.tx
      BY <1>2 DEF Revived, ExchangesInv
    <3>3. \A l \in PutsBack(t, c) : l[1] = t
      BY <1>5 DEF PutsBack
    <3> QED
      BY <3>1, <3>2, <3>3
  <2>4. IsFiniteSet(Begins(t, c)) /\ IsFiniteSet(PutsBack(t, c))
    BY WritesAreFinite
  <2>5. HeldFor(items'[ch], c)
            \subseteq HeldFor(items[ch], c) \cup {p[2].id : p \in Begins(t, c)} \cup {p[2].id : p \in PutsBack(t, c)}
    BY <1>4
  <2>6. /\ IsFiniteSet(HeldFor(items'[ch], c)) /\ IsFiniteSet(Begun(ch, c)') /\ IsFiniteSet(Revived(ch, c)')
        /\ Cardinality(HeldFor(items'[ch], c)) + Cardinality(Begun(ch, c)) + Cardinality(Revived(ch, c))
            <= Cardinality(HeldFor(items[ch], c)) + Cardinality(Begun(ch, c)') + Cardinality(Revived(ch, c)')
    <3>1. PICK H, B, L, P, Q, G :
            /\ H = HeldFor(items[ch], c) /\ B = Begun(ch, c) /\ L = Revived(ch, c)
            /\ P = Begins(t, c) /\ Q = PutsBack(t, c) /\ G = HeldFor(items'[ch], c)
      OBVIOUS
    <3>2. /\ IsFiniteSet(H) /\ IsFiniteSet(B) /\ IsFiniteSet(L) /\ IsFiniteSet(P) /\ IsFiniteSet(Q)
          /\ B \cap P = {} /\ L \cap Q = {} /\ G \subseteq H \cup {p[2].id : p \in P} \cup {q[2].id : q \in Q}
      BY <2>1, <2>2, <2>3, <2>4, <2>5, <3>1
    <3>3. /\ IsFiniteSet(G) /\ IsFiniteSet(B \cup P) /\ IsFiniteSet(L \cup Q)
          /\ Cardinality(G) + Cardinality(B) + Cardinality(L)
                <= Cardinality(H) + Cardinality(B \cup P) + Cardinality(L \cup Q)
      BY <3>2, GrowthCovered
    <3>4. Begun(ch, c)' = B \cup P /\ Revived(ch, c)' = L \cup Q
      BY <2>2, <2>3, <3>1
    <3> QED
      BY <3>1, <3>3, <3>4
  <2>7. IsFiniteSet(Revealed(ch, c)')
    <3>1. Revealed(ch, c)' \in SUBSET (Revealed(ch, c) \cup {t})
      BY <1>3 DEF Revealed
    <3> QED
      BY <2>1, <3>1, FS_AddElement, FS_Subset
  <2>8. /\ Cardinality(HeldFor(items[ch], c)) \in Nat /\ Cardinality(HeldFor(items'[ch], c)) \in Nat
        /\ Cardinality(Begun(ch, c)) \in Nat /\ Cardinality(Begun(ch, c)') \in Nat
        /\ Cardinality(Revived(ch, c)) \in Nat /\ Cardinality(Revived(ch, c)') \in Nat
        /\ Cardinality(Revealed(ch, c)) \in Nat /\ Cardinality(Revealed(ch, c)') \in Nat
    BY <2>1, <2>6, <2>7, FS_CardinalityType
  <2>9. Cardinality(Revealed(ch, c)') + Cardinality(HeldFor(items'[ch], c))
                <= Cardinality(Begun(ch, c)') + Cardinality(Revived(ch, c)')
    <3>1. CASE Tokens(t.drop) # {} /\ c \in DOMAIN t.add
      <4>1. PICK x \in Tokens(t.drop) : TRUE
        BY <3>1
      <4>2. CompletesFusion(ch, x, t)
        BY <1>1, <4>1 DEF RunInventoryTransaction, Droppable, Tokens
      <4>3. x.id \in HeldFor(items[ch], c) /\ x \in t.drop /\ t.put = {} /\ t.save = {}
        BY <3>1, <4>1, <4>2 DEF CompletesFusion, HeldFor, Tokens
      <4>4. Begins(t, c) = {} /\ PutsBack(t, c) = {}
        BY <4>3 DEF Begins, PutsBack, Revives, Tokens
      <4>5. x.id \notin HeldFor(items'[ch], c) /\ HeldFor(items'[ch], c) \cup {x.id} \in SUBSET HeldFor(items[ch], c)
        BY <1>4, <4>3, <4>4
      <4>6. Cardinality(HeldFor(items'[ch], c) \cup {x.id}) = Cardinality(HeldFor(items'[ch], c)) + 1
        BY <2>6, <4>5, FS_AddElement
      <4>7. Cardinality(HeldFor(items'[ch], c) \cup {x.id}) <= Cardinality(HeldFor(items[ch], c))
        BY <2>1, <4>5, FS_Subset
      <4>8. Begun(ch, c)' = Begun(ch, c) /\ Revived(ch, c)' = Revived(ch, c)
        BY <2>2, <2>3, <4>4
      <4>9. Revealed(ch, c)' = Revealed(ch, c) \cup {t} /\ t \notin Revealed(ch, c)
        BY <1>3, <3>1 DEF Revealed
      <4>10. Cardinality(Revealed(ch, c)') = Cardinality(Revealed(ch, c)) + 1
        BY <2>1, <4>9, FS_AddElement
      <4> QED
        BY <2>1, <2>8, <4>6, <4>7, <4>8, <4>10
    <3>2. CASE ~(Tokens(t.drop) # {} /\ c \in DOMAIN t.add)
      <4>1. Revealed(ch, c)' = Revealed(ch, c)
        BY <1>3, <3>2 DEF Revealed
      <4> QED
        BY <2>1, <2>6, <2>8, <4>1
    <3> QED
      BY <3>1, <3>2
  <2> QED
    BY <2>6, <2>7, <2>9
<1>9. ExchangesOf(ch)'
  BY <1>8 DEF ExchangesOf
<1>10. \A d \in Characters : Versioned(items'[d])
  BY <1>1, <1>4, TokensOfTransaction DEF ExchangesInv
<1> QED
  BY <1>4, <1>6, <1>7, <1>9, <1>10 DEF ExchangesInv

\* Writes of tokens that are held already, or of other items, and records under ids that are no transaction's.
OthersRecorded ==
    /\ DOMAIN ledger \subseteq DOMAIN ledger'
    /\ \A t \in Transactions : t.tx \in DOMAIN ledger' => t.tx \in DOMAIN ledger /\ ledger'[t.tx] = ledger[t.tx]

LEMMA OthersKeepExchanges ==
    ASSUME ExchangesInv, NEW ch \in Characters, NEW xs,
           \A x \in xs : x.version \in Nat, \A x \in Tokens(xs) : HoldsToken(items[ch], x),
           items' = [items EXCEPT ![ch] = With(@, xs)], OthersRecorded, UNCHANGED revived
    PROVE  ExchangesInv'
<1>1. PICK new : new = With(items[ch], xs)
  OBVIOUS
<1>2. items' = [items EXCEPT ![ch] = new]
  BY <1>1
<1>3. /\ items' = [d \in Characters |-> items'[d]]
      /\ items'[ch] = new /\ \A d \in Characters : d # ch => items'[d] = items[d]
  BY <1>2 DEF ExchangesInv
<1>4. \A c : HeldFor(new, c) \subseteq HeldFor(items[ch], c)
  <2>. SUFFICES ASSUME NEW c PROVE HeldFor(new, c) \subseteq HeldFor(items[ch], c)
    OBVIOUS
  <2>1. HeldFor(new, c) \subseteq HeldFor(items[ch], c) \cup {x.id : x \in {y \in Tokens(xs) : y.cell = c}}
    BY <1>1, TokensWritten
  <2>2. ASSUME NEW x \in Tokens(xs), x.cell = c
        PROVE  x.id \in HeldFor(items[ch], c)
    BY <2>2 DEF HoldsToken, HeldFor
  <2> QED
    BY <2>1, <2>2
<1>5. \A l \in revived' : l[1].tx \in DOMAIN ledger'
  BY DEF ExchangesInv, OthersRecorded
<1>6. ASSUME NEW d \in Characters
      PROVE  ExchangesOf(d)'
  <2>1. \A c : HeldFor(items'[d], c) \subseteq HeldFor(items[d], c)
    BY <1>3, <1>4
  <2>2. Receipts(d)' = Receipts(d)
    BY DEF Receipts, OthersRecorded
  <2>3. ExchangesOf(d) /\ \A c : Revived(d, c)' = Revived(d, c)
    BY DEF ExchangesInv, Revived
  <2> QED
    BY <2>1, <2>2, <2>3, NothingBegun
<1>7. Versioned(new)
  BY <1>1, VersionsWritten DEF ExchangesInv
<1>8. \A d \in Characters : Versioned(items'[d])
  BY <1>3, <1>7 DEF ExchangesInv
<1> QED
  BY <1>3, <1>5, <1>6, <1>8 DEF ExchangesInv

LEMMA ExchangesStep ==
    ASSUME OwnIds, UpdatesAtZero, TicketsTyped, ExchangesInv, EconomyStep
    PROVE  ExchangesInv'
<1>1. ASSUME NEW t \in Transactions, RunInventoryTransaction(t)
      PROVE  ExchangesInv'
  BY <1>1, TransactionKeepsExchanges
<1>2. ASSUME NEW w \in ItemUpdates, UpdateInstancedItem(w)
      PROVE  ExchangesInv'
  <2>1. PICK ch \in Characters : ch = w.ch
    BY InventoryAssumption
  <2>2. PICK xs : xs = {w.item}
    OBVIOUS
  <2>3. items' = [items EXCEPT ![ch] = With(@, xs)] /\ OthersRecorded /\ UNCHANGED revived
    BY <1>2, <2>1, <2>2 DEF UpdateInstancedItem, OthersRecorded
  <2>4. \A x \in xs : x.version \in Nat
    BY <2>2, InventoryAssumption DEF WellFormed
  <2>5. ASSUME IsFusion(w.item)
        PROVE  HoldsToken(items[ch], w.item)
    <3>1. PICK current : current = items[ch][w.item.id]
      OBVIOUS
    <3>2. w.item.id \in DOMAIN items[ch] /\ (IsSkipped(current, w.item) \/ MayWrite(current, w.item, TRUE))
      BY <1>2, <2>1, <3>1 DEF UpdateInstancedItem, Puttable
    <3>3. ~IsStateless(w.item) /\ w.item.version = 0
      BY <2>5 DEF IsFusion, IsStateless, UpdatesAtZero
    <3>4. current.version \in Nat
      BY <3>1, <3>2 DEF ExchangesInv, Versioned
    <3>5. IsValidFusionSave(current, w.item)
      BY <3>2, <3>3, <3>4 DEF IsSkipped, MayWrite
    <3> QED
      BY <3>1, <3>2, <3>5 DEF IsValidFusionSave, HoldsToken
  <2>6. \A x \in Tokens(xs) : HoldsToken(items[ch], x)
    BY <2>2, <2>5 DEF Tokens
  <2> QED
    BY <2>3, <2>4, <2>6, OthersKeepExchanges
<1>3. CASE UNCHANGED <<items, ledger, revived>>
  <2>1. ASSUME NEW d \in Characters
        PROVE  ExchangesOf(d)'
    <3>1. Receipts(d)' = Receipts(d) /\ \A c : HeldFor(items'[d], c) \subseteq HeldFor(items[d], c)
      BY <1>3 DEF Receipts
    <3>2. ExchangesOf(d) /\ \A c : Revived(d, c)' = Revived(d, c)
      BY <1>3 DEF ExchangesInv, Revived
    <3> QED
      BY <3>1, <3>2, NothingBegun
  <2> QED
    BY <1>3, <2>1 DEF ExchangesInv
<1>4. ASSUME NEW t \in DOMAIN purchases, RedeemFreePurchase(t)
      PROVE  ExchangesInv'
  <2>1. PICK ch \in Characters, sku \in DOMAIN Offers : ch = purchases[t].ch /\ sku = purchases[t].sku
    BY TicketOf DEF Ticket
  <2>2. PICK xs : xs = Cosmetics(t, ch, Offers[sku])
    OBVIOUS
  <2>3. items' = [items EXCEPT ![ch] = With(@, xs)] /\ UNCHANGED revived
    BY <1>4, <2>1, <2>2 DEF RedeemFreePurchase
  <2>4. Tokens(xs) = {} /\ \A x \in xs : x.version \in Nat
    BY <2>2 DEF Tokens, IsFusion, Cosmetics
  <2>5. ledger' = ledger \/ \E r : ledger' = Recorded(<<"store", t>>, r)
    BY <1>4 DEF RedeemFreePurchase
  <2>6. OthersRecorded
    BY <2>5 DEF OthersRecorded, Recorded, OwnIds
  <2> QED
    BY <2>3, <2>4, <2>6, OthersKeepExchanges
<1>5. ASSUME NEW u \in Users, NEW ch \in Characters, NEW track, NEW kind, NEW rank,
             ClaimRanksUpTo(u, ch, track, rank, kind)
      PROVE  ExchangesInv'
  <2>1. PICK due : due = Due(u, track, rank, kind)
    OBVIOUS
  <2>2. PICK xs : xs = UNION {Minted(d) : d \in due}
    OBVIOUS
  <2>3. items' = [items EXCEPT ![ch] = With(@, xs)] /\ UNCHANGED revived
    BY <1>5, <2>1, <2>2 DEF ClaimRanksUpTo
  <2>4. Tokens(xs) = {} /\ \A x \in xs : x.version \in Nat
    BY <2>2 DEF Tokens, IsFusion, Minted
  <2>5. /\ DOMAIN ledger' = DOMAIN ledger \cup {ClaimKey(d) : d \in Recordable(due)}
        /\ \A x \in DOMAIN ledger : ledger'[x] = ledger[x]
    BY <1>5, <2>1 DEF ClaimRanksUpTo
  <2>6. OthersRecorded
    BY <2>5 DEF OthersRecorded, OwnIds
  <2> QED
    BY <2>3, <2>4, <2>6, OthersKeepExchanges
<1> QED
  BY <1>1, <1>2, <1>3, <1>4, <1>5
  DEF EconomyStep, Tick, CreateFreePurchase, economyVars, inventoryVars

\* For any transactions of game servers, in any order, sent late, twice or under a second id: no
\* more cells are paid than fusion tokens were begun, and put back by speed-ups that came too late
\* (CellPaidOnce).
THEOREM ExchangesPayOnce ==
    ASSUME OwnIds, UpdatesAtZero
    PROVE  Spec => []CellPaidOnce
<1>1. Init => ExchangesInv /\ TicketsTyped
  <2>. SUFFICES ASSUME Init PROVE ExchangesInv /\ TicketsTyped
    OBVIOUS
  <2>1. DOMAIN ledger = {} /\ revived = {} /\ items = [ch \in Characters |-> Empty] /\ DOMAIN Empty = {}
    BY DEF Init, StoreInit, InventoryInit, Empty
  <2>2. \A ch : Receipts(ch) = {}
    BY <2>1 DEF Receipts
  <2>3. \A ch, c : Begun(ch, c) = {} /\ Revealed(ch, c) = {} /\ Revived(ch, c) = {}
    BY <2>1, <2>2 DEF Begun, Revealed, Revived
  <2>4. \A ch \in Characters : \A c : HeldFor(items[ch], c) = {}
    BY <2>1 DEF HeldFor
  <2>5. ASSUME NEW ch \in Characters
        PROVE  ExchangesOf(ch) /\ Versioned(items[ch])
    <3>1. DOMAIN items[ch] = {}
      BY <2>1
    <3>2. Versioned(items[ch])
      BY <3>1, Zenon DEF Versioned
    <3>3. IsFiniteSet({}) /\ Cardinality({}) = 0
      BY FS_EmptySet
    <3>4. 0 + 0 <= 0 + 0
      OBVIOUS
    <3>5. ExchangesOf(ch)
      BY <2>3, <2>4, <3>3, <3>4, Zenon DEF ExchangesOf
    <3> QED
      BY <3>2, <3>5
  <2> QED
    BY <2>1, <2>5, TicketsFirst DEF ExchangesInv
<1>2. ExchangesInv /\ TicketsTyped /\ [Next]_vars => (ExchangesInv /\ TicketsTyped)'
  <2>. SUFFICES ASSUME ExchangesInv, TicketsTyped, [Next]_vars
                PROVE  ExchangesInv' /\ TicketsTyped'
    OBVIOUS
  <2>1. EconomyStep
    BY EconomySteps
  <2> QED
    BY <2>1, ExchangesStep, TicketsStep
<1>3. ExchangesInv => CellPaidOnce
  <2>. SUFFICES ASSUME ExchangesInv, NEW ch \in Characters, NEW c \in FusedCells
                PROVE  Cardinality(Revealed(ch, c)) <= Cardinality(Begun(ch, c)) + Cardinality(Revived(ch, c))
    BY DEF CellPaidOnce
  <2>1. /\ IsFiniteSet(HeldFor(items[ch], c)) /\ IsFiniteSet(Revealed(ch, c))
        /\ IsFiniteSet(Begun(ch, c)) /\ IsFiniteSet(Revived(ch, c))
        /\ Cardinality(Revealed(ch, c)) + Cardinality(HeldFor(items[ch], c))
                <= Cardinality(Begun(ch, c)) + Cardinality(Revived(ch, c))
    BY DEF ExchangesInv, ExchangesOf
  <2>2. /\ Cardinality(HeldFor(items[ch], c)) \in Nat /\ Cardinality(Revealed(ch, c)) \in Nat
        /\ Cardinality(Begun(ch, c)) \in Nat /\ Cardinality(Revived(ch, c)) \in Nat
    BY <2>1, FS_CardinalityType
  <2> QED
    BY <2>1, <2>2
<1> QED
  BY <1>1, <1>2, <1>3, PTL DEF Spec
=============================================================================
