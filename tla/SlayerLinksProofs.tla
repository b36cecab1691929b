-------------------------- MODULE SlayerLinksProofs --------------------------
(***************************************************************************)
(* Slayer Links, for any number of accounts, slots, invitations, links and *)
(* grants.  Slots are exclusive: every step but sending and accepting an   *)
(* invitation only makes sides leave and invitations end (Shrinking), and  *)
(* those two check what the invariant says.  What standing links show in   *)
(* the invitations follows in the same way (NoticeInv).  Progress is the   *)
(* number of awards counted (XpInv); what a side earned lasts until it is  *)
(* claimed (ForfeitInv, Lasting); and a stash is the sum of what the       *)
(* claimed sides earned, each claim adding exactly one summand (GrantInv). *)
(***************************************************************************)
EXTENDS SlayerLinks, InductionLemmas, SequenceTheorems

IInv == TypeOK /\ SlotsExclusive

\* No step adds a side or an invitation, or moves one.
Shrinks ==
    /\ Len(invites') = Len(invites) /\ DOMAIN invites' = DOMAIN invites
    /\ \A i \in DOMAIN invites :
        /\ invites'[i].sender = invites[i].sender
        /\ invites'[i].target = invites[i].target
        /\ invites'[i].slot = invites[i].slot
        /\ invites'[i].status = "PENDING" => invites[i].status = "PENDING"
    /\ expired \in Nat /\ expired' \in Nat /\ expired <= expired'
    /\ DOMAIN links' = DOMAIN links
    /\ \A l \in DOMAIN links :
        /\ links'[l].slot = links[l].slot
        /\ links[l].canceled => links'[l].canceled
        /\ links[l].released \subseteq links'[l].released

\* Exclusiveness survives a step that only lets go.
LEMMA Shrinking ==
    ASSUME TypeOK, SlotsExclusive, Shrinks
    PROVE  SlotsExclusive'
<1>1. \A l \in DOMAIN links : \A a : (Occupies(l, a))' => Occupies(l, a)
    BY DEF Shrinks, Occupies
<1>2. \A i \in DOMAIN invites : (Pending(i))' => Pending(i)
  <2>1. expired \in Nat /\ \A i \in DOMAIN invites : i \in Nat
    BY DEF TypeOK
  <2> QED
    BY <2>1 DEF Shrinks, Pending
<1>3. \A a, s : (ResolveSide(a, s))' \subseteq ResolveSide(a, s)
    BY <1>1 DEF Shrinks, ResolveSide
<1>4. \A a, s, e : (ReservedSlot(a, s, e))' => ReservedSlot(a, s, e)
    BY <1>2 DEF Shrinks, ReservedSlot
<1>5. \A a, b : (PendingBetween(a, b))' \subseteq PendingBetween(a, b)
    BY <1>2 DEF Shrinks, PendingBetween, Pair
<1>6. \A a, b : (LinkedTo(a, b))' => LinkedTo(a, b)
    BY <1>1 DEF Shrinks, LinkedTo, Pair
<1>7. \A a : (ListedLinks(a))' \subseteq ListedLinks(a)
    BY <1>1 DEF Shrinks, ListedLinks
<1>8. ASSUME NEW a \in Players, NEW l \in (ListedLinks(a))', NEW m \in (ListedLinks(a))',
             (links[l].slot[a] = links[m].slot[a] \/ DOMAIN links[l].slot = DOMAIN links[m].slot)'
      PROVE  l = m
    BY <1>7, <1>8 DEF SlotsExclusive, Shrinks, ListedLinks
<1>9. ASSUME NEW i \in DOMAIN invites', (Pending(i))'
      PROVE  /\ (ResolveSide(invites[i].sender, invites[i].slot))' = {}
             /\ ~(ReservedSlot(invites[i].sender, invites[i].slot, i))'
             /\ (PendingBetween(invites[i].sender, invites[i].target))' = {i}
             /\ ~(LinkedTo(invites[i].sender, invites[i].target))'
  <2>1. /\ i \in DOMAIN invites /\ Pending(i)
        /\ invites'[i].sender = invites[i].sender
        /\ invites'[i].target = invites[i].target
        /\ invites'[i].slot = invites[i].slot
    BY <1>2, <1>9 DEF Shrinks
  <2>2. i \in (PendingBetween(invites[i].sender, invites[i].target))'
    BY <1>9, <2>1 DEF PendingBetween, Pending, Shrinks
  <2> QED
    BY <1>3, <1>4, <1>5, <1>6, <2>1, <2>2 DEF SlotsExclusive
<1> QED
    BY <1>8, <1>9 DEF SlotsExclusive

LEMMA InitInv == Init => IInv
  BY DEF Init, IInv, TypeOK, SlotsExclusive, ListedLinks, Pending

\* The link step of TypeOK: links change in place, invitations stay.
LEMMA LinksInPlace ==
    ASSUME TypeOK, UNCHANGED <<invites, expired>>, DOMAIN links' = DOMAIN links,
           \A l \in DOMAIN links : links'[l] \in LinkFor(invites[l])
    PROVE  TypeOK'
  BY DEF TypeOK

\* The invitation step of TypeOK: one invitation is answered.
LEMMA Answered ==
    ASSUME TypeOK, NEW i \in DOMAIN invites, NEW v \in {"ACCEPTED", "CANCELED"},
           invites' = [invites EXCEPT ![i].status = v]
    PROVE  /\ invites' \in Seq(Invitation) /\ Len(invites') = Len(invites)
           /\ DOMAIN invites' = DOMAIN invites
           /\ \A j \in DOMAIN invites :
                /\ invites'[j].sender = invites[j].sender /\ invites'[j].target = invites[j].target
                /\ invites'[j].slot = invites[j].slot
                /\ invites'[j].status = IF j = i THEN v ELSE invites[j].status
                /\ LinkFor(invites'[j]) = LinkFor(invites[j])
<1>1. Len(invites) \in Nat /\ DOMAIN invites = 1 .. Len(invites)
      /\ \A j \in DOMAIN invites : invites[j] \in Invitation
    BY DEF TypeOK
<1>2. DOMAIN invites' = DOMAIN invites
      /\ \A j \in DOMAIN invites :
            invites'[j] = IF j = i THEN [invites[i] EXCEPT !.status = v] ELSE invites[j]
    OBVIOUS
<1>3. \A j \in DOMAIN invites : invites'[j] \in Invitation
    BY <1>1, <1>2 DEF Invitation
<1>4. invites' \in [1 .. Len(invites) -> Invitation]
    BY <1>1, <1>2, <1>3
<1>5. invites' \in Seq(Invitation) /\ Len(invites') = Len(invites)
    BY <1>1, <1>4
<1> QED
    BY <1>1, <1>2, <1>5 DEF Invitation, LinkFor

\* The type invariant is inductive.
LEMMA TypeInductive ==
    ASSUME TypeOK, [Next]_vars
    PROVE  TypeOK'
<1>0. /\ Len(invites) \in Nat /\ DOMAIN invites = 1 .. Len(invites) /\ expired \in 0 .. Len(invites)
      /\ \A i \in DOMAIN invites : invites[i] \in Invitation
      /\ \A l \in DOMAIN links : links[l] \in LinkFor(invites[l])
    BY DEF TypeOK
<1>1. ASSUME NEW ask \in Asks, Invite(ask[1], ask[2], ask[3])
      PROVE  TypeOK'
  <2> DEFINE row == [sender |-> ask[1], target |-> ask[2], slot |-> ask[3], status |-> "PENDING"]
  <2>1. /\ row \in Invitation
        /\ row.sender # row.target
        /\ invites' = Append(invites, row)
        /\ expired' = expired /\ links' = links
    BY <1>1, LinkAssumption DEF Invite, MayInvite, linkVars, Invitation
  <2> HIDE DEF row
  <2>2. /\ Len(invites') = Len(invites) + 1
        /\ invites' \in Seq(Invitation)
        /\ \A i \in DOMAIN invites : invites'[i] = invites[i]
        /\ invites'[Len(invites) + 1] = row
    BY <2>1 DEF TypeOK
  <2>3. DOMAIN invites' = 1 .. Len(invites) + 1
    BY <2>2
  <2>4. \A l \in DOMAIN links' : l \in DOMAIN invites /\ invites'[l] = invites[l] /\ links'[l] = links[l]
    BY <2>1, <2>2 DEF TypeOK
  <2>5. \A i \in DOMAIN invites' : invites'[i].sender # invites'[i].target
    BY <1>0, <2>1, <2>2, <2>3 DEF TypeOK
  <2> QED
    BY <1>0, <2>1, <2>2, <2>3, <2>4, <2>5 DEF TypeOK
<1>2. ASSUME NEW i \in DOMAIN invites, NEW s \in Slots, Accept(i, s)
      PROVE  TypeOK'
  <2> DEFINE row  == invites[i]
             both == Pair(row.sender, row.target)
             new  == [slot |-> [a \in both |-> IF a = row.sender THEN row.slot ELSE s],
                      born |-> Cardinality(DOMAIN links) + 1, since |-> Len(invites),
                      canceled |-> FALSE, progress |-> 0, released |-> {},
                      confirmed |-> [a \in both |-> 0]]
  <2>1. invites' = [invites EXCEPT ![i].status = "ACCEPTED"] /\ expired' = expired
        /\ links' = [l \in DOMAIN links \cup {i} |-> IF l = i THEN new ELSE links[l]]
    BY <1>2 DEF Accept
  <2>2. Cardinality(DOMAIN links) \in Nat
    <3>1. DOMAIN links \subseteq 1 .. Len(invites)
      BY <1>0 DEF TypeOK
    <3>2. IsFiniteSet(1 .. Len(invites))
      BY <1>0, FS_Interval
    <3> QED
      BY <3>1, <3>2, FS_Subset, FS_CardinalityType
  <2>3. row.slot \in Slots
    BY <1>0 DEF Invitation
  <2>4. new \in LinkFor(row)
    BY <1>0, <2>2, <2>3 DEF LinkFor
  <2> HIDE DEF new
  <2>5. /\ invites' \in Seq(Invitation) /\ Len(invites') = Len(invites)
        /\ DOMAIN invites' = DOMAIN invites
        /\ \A j \in DOMAIN invites :
             /\ invites'[j].sender = invites[j].sender /\ invites'[j].target = invites[j].target
             /\ invites'[j].slot = invites[j].slot
             /\ invites'[j].status = IF j = i THEN "ACCEPTED" ELSE invites[j].status
             /\ LinkFor(invites'[j]) = LinkFor(invites[j])
    BY <2>1, Answered
  <2> QED
    BY <1>0, <2>1, <2>4, <2>5 DEF TypeOK
<1>3. ASSUME NEW i \in DOMAIN invites, Decline(i)
      PROVE  TypeOK'
  <2>1. invites' = [invites EXCEPT ![i].status = "CANCELED"] /\ expired' = expired /\ links' = links
    BY <1>3 DEF Decline, linkVars
  <2>2. /\ invites' \in Seq(Invitation) /\ Len(invites') = Len(invites)
        /\ DOMAIN invites' = DOMAIN invites
        /\ \A j \in DOMAIN invites :
             /\ invites'[j].sender = invites[j].sender /\ invites'[j].target = invites[j].target
             /\ invites'[j].slot = invites[j].slot
             /\ invites'[j].status = IF j = i THEN "CANCELED" ELSE invites[j].status
             /\ LinkFor(invites'[j]) = LinkFor(invites[j])
    BY <2>1, Answered
  <2> QED
    BY <2>1, <2>2, <1>0 DEF TypeOK
<1>4. ASSUME NEW a \in Players, NEW s \in Slots, CancelLink(a, s)
      PROVE  TypeOK'
  <2>1. PICK l \in DOMAIN links : /\ links' = [links EXCEPT ![l].canceled = TRUE]
                                  /\ invites' = [invites EXCEPT ![l].status = "CANCELED"]
                                  /\ expired' = expired
    BY <1>4 DEF CancelLink, ResolveSide
  <2>2. \A m \in DOMAIN links : links'[m] \in LinkFor(invites[m])
    BY <1>0, <2>1 DEF LinkFor
  <2>3. l \in DOMAIN invites
    BY DEF TypeOK
  <2>4. /\ invites' \in Seq(Invitation) /\ Len(invites') = Len(invites)
        /\ DOMAIN invites' = DOMAIN invites
        /\ \A j \in DOMAIN invites :
             /\ invites'[j].sender = invites[j].sender /\ invites'[j].target = invites[j].target
             /\ invites'[j].slot = invites[j].slot
             /\ invites'[j].status = IF j = l THEN "CANCELED" ELSE invites[j].status
             /\ LinkFor(invites'[j]) = LinkFor(invites[j])
    BY <2>1, <2>3, Answered
  <2>5. DOMAIN links' = DOMAIN links /\ DOMAIN links \subseteq DOMAIN invites
    BY <2>1 DEF TypeOK
  <2>6. \A m \in DOMAIN links' : invites'[m].status # "PENDING" /\ links'[m] \in LinkFor(invites'[m])
    BY <2>2, <2>4, <2>5 DEF TypeOK
  <2>7. \A j \in DOMAIN invites' : invites'[j].sender # invites'[j].target
    BY <2>4 DEF TypeOK
  <2> QED
    BY <1>0, <2>1, <2>4, <2>5, <2>6, <2>7 DEF TypeOK
<1>5. ASSUME NEW a \in Players, NEW s \in Slots, ReleaseSide(a, s)
      PROVE  TypeOK'
  <2>1. PICK l \in DOMAIN links : links' = [links EXCEPT ![l].released = @ \cup {a}]
    BY <1>5 DEF ReleaseSide, ResolveSide
  <2>2. \A m \in DOMAIN links : links'[m] \in LinkFor(invites[m])
    BY <1>0, <2>1 DEF LinkFor
  <2> QED
    BY <1>5, <2>1, <2>2, LinksInPlace DEF ReleaseSide
<1>6. ASSUME NEW a \in Collectors, NEW partners, NEW e \in Events,
             ApplyHuntPassXpToLinks(a, e, partners)
      PROVE  TypeOK'
  <2> DEFINE these == Credited(a, e, partners)
  <2>1. links' = [l \in DOMAIN links |->
                    IF l \in these THEN [links[l] EXCEPT !.progress = @ + 1] ELSE links[l]]
    BY <1>6 DEF ApplyHuntPassXpToLinks
  <2> HIDE DEF these
  <2>2. ASSUME NEW m \in DOMAIN links
        PROVE  links'[m] \in LinkFor(invites[m])
    <3>1. links[m] \in LinkFor(invites[m]) /\ links[m].progress + 1 \in Nat
      BY <1>0 DEF LinkFor
    <3>2. [links[m] EXCEPT !.progress = @ + 1] \in LinkFor(invites[m])
      BY <3>1 DEF LinkFor
    <3> QED
      BY <2>1, <3>1, <3>2
  <2> QED
    BY <1>6, <2>1, <2>2, LinksInPlace DEF ApplyHuntPassXpToLinks
<1>7. ASSUME NEW a \in Collectors, NEW s \in Slots, ConfirmLinkTrackRank(a, s)
      PROVE  TypeOK'
  <2>1. PICK l \in DOMAIN links, n \in Nat : links' = [links EXCEPT ![l].confirmed[a] = n]
    <3>1. PICK l \in ResolveSide(a, s), rank \in 1 .. Len(LINK_RANK_COSTS) + 1 :
            links' = [links EXCEPT ![l].confirmed[a] =
                        IF rank < DeriveLinkRank(links[l].progress) THEN rank
                        ELSE DeriveLinkRank(links[l].progress)]
      BY <1>7 DEF ConfirmLinkTrackRank
    <3>2. IsFiniteSet(DOMAIN LINK_RANK_COSTS)
      BY LinkAssumption, FS_Interval
    <3>3. DeriveLinkRank(links[l].progress) \in Nat
      BY <3>2, FS_Subset, FS_CardinalityType DEF DeriveLinkRank
    <3> QED
      <4>1. Len(LINK_RANK_COSTS) \in Nat
        BY LinkAssumption
      <4>2. rank \in Nat /\ l \in DOMAIN links
        BY <4>1 DEF ResolveSide
      <4> QED
        BY <3>1, <3>3, <4>2
  <2>2. \A m \in DOMAIN links : links'[m] \in LinkFor(invites[m])
    BY <1>0, <2>1 DEF LinkFor
  <2> QED
    BY <1>7, <2>1, <2>2, LinksInPlace DEF ConfirmLinkTrackRank
<1>8. ASSUME UNCHANGED <<invites, links>>, expired' \in 0 .. Len(invites)
      PROVE  TypeOK'
  BY <1>8 DEF TypeOK
<1>9. ASSUME NEW a \in Collectors, NEW s \in Slots, NEW p, StoreRewardPools(a, s, p) \/ GetRewardGrant(a, s)
      PROVE  UNCHANGED <<invites, links>> /\ expired' \in 0 .. Len(invites)
  BY <1>0, <1>9 DEF StoreRewardPools, GetRewardGrant
<1>10. ASSUME (\E pair \in friendly : Part(pair)) \/ (\E tx \in DOMAIN grants : ApplyLinkRewardGrant(tx))
              \/ EndLink \/ UNCHANGED vars
       PROVE  UNCHANGED <<invites, links>> /\ expired' \in 0 .. Len(invites)
  <2>1. UNCHANGED <<invites, links, expired>>
    BY <1>10 DEF Part, ApplyLinkRewardGrant, EndLink, vars, linkVars
  <2> QED
    BY <1>0, <2>1
<1>11. ASSUME ExpireInvite
       PROVE  UNCHANGED <<invites, links>> /\ expired' \in 0 .. Len(invites)
  BY <1>0, <1>11 DEF ExpireInvite, linkVars
<1> QED
  BY <1>1, <1>2, <1>3, <1>4, <1>5, <1>6, <1>7, <1>8, <1>9, <1>10, <1>11 DEF Next

---------------------------------------------------------------------------
\* Sending an invitation: the new one has a slot, and a pair, to itself.
LEMMA InviteExclusive ==
    ASSUME TypeOK, SlotsExclusive, NEW a, NEW b, NEW s, Invite(a, b, s)
    PROVE  SlotsExclusive'
<1> DEFINE n == Len(invites) + 1
           row == [sender |-> a, target |-> b, slot |-> s, status |-> "PENDING"]
<1>1. /\ Len(invites) \in Nat /\ DOMAIN invites = 1 .. Len(invites) /\ expired \in 0 .. Len(invites)
      /\ n \in Nat /\ n \notin DOMAIN invites
    BY DEF TypeOK
<1>2. /\ invites' = Append(invites, row)
      /\ expired' = expired /\ links' = links
      /\ ResolveSide(a, s) = {} /\ ~LinkedTo(a, b) /\ PendingBetween(a, b) = {}
      /\ ~ReservedSlot(a, s, 0)
    BY DEF Invite, MayInvite, linkVars
<1>3. /\ DOMAIN invites' = DOMAIN invites \cup {n}
      /\ invites'[n] = row
      /\ \A i \in DOMAIN invites : invites'[i] = invites[i]
    BY <1>1, <1>2 DEF TypeOK
<1> HIDE DEF n, row
<1>4. \A i \in DOMAIN invites : (Pending(i))' <=> Pending(i)
    BY <1>2, <1>3 DEF Pending
<1>5. /\ \A c : (ListedLinks(c))' = ListedLinks(c)
      /\ \A c, d : (LinkedTo(c, d))' <=> LinkedTo(c, d)
      /\ \A c, t : (ResolveSide(c, t))' = ResolveSide(c, t)
    BY <1>2 DEF ListedLinks, LinkedTo, ResolveSide, Occupies
<1>6. ASSUME NEW i \in DOMAIN invites, Pending(i)
      PROVE  /\ ~(invites[i].sender = a /\ invites[i].slot = s)
             /\ {invites[i].sender, invites[i].target} # {a, b}
  <2>1. i # 0
    BY <1>1
  <2>2. ~(invites[i].sender = a /\ invites[i].slot = s)
    BY <1>2, <1>6, <2>1 DEF ReservedSlot
  <2>3. {invites[i].sender, invites[i].target} # {a, b}
    BY <1>2, <1>6 DEF PendingBetween, Pair
  <2> QED
    BY <2>2, <2>3
<1>7. ASSUME NEW i \in DOMAIN invites', (Pending(i))'
      PROVE  /\ (ResolveSide(invites[i].sender, invites[i].slot))' = {}
             /\ ~(ReservedSlot(invites[i].sender, invites[i].slot, i))'
             /\ (PendingBetween(invites[i].sender, invites[i].target))' = {i}
             /\ ~(LinkedTo(invites[i].sender, invites[i].target))'
  <2>1. CASE i \in DOMAIN invites
    <3>1. Pending(i) /\ invites'[i] = invites[i]
      BY <1>3, <1>4, <1>7, <2>1
    <3>2. ~(ReservedSlot(invites[i].sender, invites[i].slot, i))'
      BY <1>3, <1>4, <1>6, <2>1, <3>1 DEF SlotsExclusive, ReservedSlot, row
    <3>3. (PendingBetween(invites[i].sender, invites[i].target))' = {i}
      BY <1>3, <1>4, <1>6, <1>7, <2>1, <3>1 DEF SlotsExclusive, PendingBetween, Pair, row
    <3> QED
      BY <1>5, <2>1, <3>1, <3>2, <3>3 DEF SlotsExclusive
  <2>2. CASE i = n
    <3>1. invites'[i] = row
      BY <1>3, <2>2
    <3>2. ~(ReservedSlot(invites[i].sender, invites[i].slot, i))'
      BY <1>3, <1>4, <1>6, <2>2, <3>1 DEF ReservedSlot, row
    <3>3. (PendingBetween(invites[i].sender, invites[i].target))' = {i}
      BY <1>3, <1>4, <1>6, <1>7, <2>2, <3>1 DEF PendingBetween, Pair, row
    <3> QED
      BY <1>2, <1>5, <3>1, <3>2, <3>3 DEF row
  <2> QED
    BY <1>3, <1>7, <2>1, <2>2
<1> QED
  BY <1>2, <1>5, <1>7 DEF SlotsExclusive, ListedLinks

\* Accepting: the two slots the link takes are nobody's, and neither is the pair.
LEMMA AcceptExclusive ==
    ASSUME TypeOK, SlotsExclusive, NEW i \in DOMAIN invites, NEW s \in Slots, Accept(i, s)
    PROVE  SlotsExclusive'
<1> DEFINE from == invites[i].sender
           to   == invites[i].target
           at   == invites[i].slot
<1>1. /\ Len(invites) \in Nat /\ DOMAIN invites = 1 .. Len(invites)
      /\ Pending(i) /\ i \notin DOMAIN links /\ from # to
    BY DEF TypeOK, Accept, Pending
<1>2. /\ invites' = [invites EXCEPT ![i].status = "ACCEPTED"] /\ expired' = expired
      /\ DOMAIN links' = DOMAIN links \cup {i}
      /\ \A l \in DOMAIN links : links'[l] = links[l]
      /\ links'[i].slot = [a \in {from, to} |-> IF a = from THEN at ELSE s]
      /\ links'[i].canceled = FALSE /\ links'[i].released = {}
    BY <1>1 DEF Accept, Pair
<1>3. /\ ResolveSide(from, at) = {} /\ ~ReservedSlot(from, at, i)
      /\ ResolveSide(to, s) = {} /\ ~ReservedSlot(to, s, 0)
      /\ ~LinkedTo(from, to)
    BY DEF Accept, FreeSlots
<1>4. /\ DOMAIN invites' = DOMAIN invites
      /\ \A j \in DOMAIN invites :
            /\ invites'[j].sender = invites[j].sender /\ invites'[j].target = invites[j].target
            /\ invites'[j].slot = invites[j].slot
            /\ (Pending(j))' <=> (Pending(j) /\ j # i)
  <2>1. \A j \in DOMAIN invites : invites[j] \in Invitation
    BY DEF TypeOK
  <2> QED
    BY <1>2, <2>1 DEF Pending, Invitation
<1>5. /\ \A l \in DOMAIN links : \A c : (Occupies(l, c))' <=> Occupies(l, c)
      /\ \A c : (Occupies(i, c))' <=> c \in {from, to}
    BY <1>1, <1>2 DEF Occupies
<1> HIDE DEF from, to, at
<1>6. ASSUME NEW c, NEW m \in ListedLinks(c), c \in {from, to}
      PROVE  links[m].slot[c] # links'[i].slot[c] /\ DOMAIN links[m].slot # DOMAIN links'[i].slot
    BY <1>1, <1>2, <1>3, <1>6 DEF ListedLinks, ResolveSide, LinkedTo, Pair
<1>7. ASSUME NEW c \in Players, NEW l \in (ListedLinks(c))', NEW m \in (ListedLinks(c))',
             (links[l].slot[c] = links[m].slot[c] \/ DOMAIN links[l].slot = DOMAIN links[m].slot)'
      PROVE  l = m
  <2>1. /\ l \in ListedLinks(c) \/ (l = i /\ c \in {from, to})
        /\ m \in ListedLinks(c) \/ (m = i /\ c \in {from, to})
    BY <1>2, <1>5, <1>7 DEF ListedLinks
  <2>2. CASE l \in ListedLinks(c) /\ m \in ListedLinks(c)
    BY <1>2, <1>7, <2>2 DEF SlotsExclusive, ListedLinks
  <2>3. CASE l = i /\ c \in {from, to} /\ m \in ListedLinks(c)
    BY <1>2, <1>6, <1>7, <2>3 DEF ListedLinks
  <2>4. CASE m = i /\ c \in {from, to} /\ l \in ListedLinks(c)
    BY <1>2, <1>6, <1>7, <2>4 DEF ListedLinks
  <2> QED
    BY <2>1, <2>2, <2>3, <2>4
<1>8. ASSUME NEW j \in DOMAIN invites', (Pending(j))'
      PROVE  /\ (ResolveSide(invites[j].sender, invites[j].slot))' = {}
             /\ ~(ReservedSlot(invites[j].sender, invites[j].slot, j))'
             /\ (PendingBetween(invites[j].sender, invites[j].target))' = {j}
             /\ ~(LinkedTo(invites[j].sender, invites[j].target))'
  <2>0. PICK a, b, t : a = invites[j].sender /\ b = invites[j].target /\ t = invites[j].slot
    OBVIOUS
  <2>1. /\ j \in DOMAIN invites /\ Pending(j) /\ j # i /\ j # 0
        /\ invites'[j].sender = a /\ invites'[j].target = b /\ invites'[j].slot = t
    BY <1>1, <1>4, <1>8, <2>0
  <2>2. /\ ResolveSide(a, t) = {} /\ ~ReservedSlot(a, t, j)
        /\ PendingBetween(a, b) = {j} /\ ~LinkedTo(a, b)
    BY <2>0, <2>1 DEF SlotsExclusive
  <2>3. ~(a = from /\ t = at) /\ ~(a = to /\ t = s)
    BY <1>3, <2>0, <2>1 DEF ReservedSlot
  <2>4. {a, b} # {from, to}
    BY <1>1, <2>1, <2>2 DEF PendingBetween, Pair, from, to
  <2>5. (ResolveSide(a, t))' = {}
    BY <1>2, <1>5, <2>2, <2>3 DEF ResolveSide
  <2>6. ~(ReservedSlot(a, t, j))'
    BY <1>4, <2>2 DEF ReservedSlot
  <2>7. (PendingBetween(a, b))' = {j}
    BY <1>4, <1>8, <2>1, <2>2 DEF PendingBetween, Pair
  <2>8. ~(LinkedTo(a, b))'
    BY <1>2, <1>5, <2>2, <2>4 DEF LinkedTo, Pair
  <2> QED
    BY <2>1, <2>5, <2>6, <2>7, <2>8 DEF ResolveSide, ReservedSlot, PendingBetween, LinkedTo
<1> QED
  BY <1>7, <1>8 DEF SlotsExclusive

\* Every other step only lets go.
LEMMA OtherStepsShrink ==
    ASSUME TypeOK, [Next]_vars
    PROVE  \/ \E ask \in Asks : Invite(ask[1], ask[2], ask[3])
           \/ \E i \in DOMAIN invites, s \in Slots : Accept(i, s)
           \/ Shrinks
<1>0. /\ Len(invites) \in Nat /\ DOMAIN invites = 1 .. Len(invites) /\ expired \in Nat
      /\ \A i \in DOMAIN invites : invites[i] \in Invitation
      /\ DOMAIN links \subseteq DOMAIN invites
      /\ \A l \in DOMAIN links : links[l] \in LinkFor(invites[l])
    BY DEF TypeOK
<1>1. ASSUME NEW i \in DOMAIN invites, Decline(i)
      PROVE  Shrinks
  <2>1. invites' = [invites EXCEPT ![i].status = "CANCELED"] /\ UNCHANGED <<expired, links>>
    BY <1>1 DEF Decline, linkVars
  <2> QED
    BY <1>0, <2>1, Answered DEF Shrinks
<1>2. ASSUME NEW a \in Players, NEW s \in Slots, CancelLink(a, s)
      PROVE  Shrinks
  <2>1. PICK l \in DOMAIN links : /\ links' = [links EXCEPT ![l].canceled = TRUE]
                                  /\ invites' = [invites EXCEPT ![l].status = "CANCELED"]
                                  /\ expired' = expired
    BY <1>2 DEF CancelLink, ResolveSide
  <2>2. l \in DOMAIN invites
    BY <1>0
  <2>3. /\ DOMAIN links' = DOMAIN links
        /\ \A m \in DOMAIN links : /\ links'[m].slot = links[m].slot
                                   /\ links[m].canceled => links'[m].canceled
                                   /\ links[m].released \subseteq links'[m].released
    BY <1>0, <2>1 DEF LinkFor
  <2> QED
    BY <1>0, <2>1, <2>2, <2>3, Answered DEF Shrinks
<1>3. ASSUME NEW a \in Players, NEW s \in Slots, ReleaseSide(a, s)
      PROVE  Shrinks
  <2>1. PICK l \in DOMAIN links : /\ links' = [links EXCEPT ![l].released = @ \cup {a}]
                                  /\ UNCHANGED <<invites, expired>>
    BY <1>3 DEF ReleaseSide, ResolveSide
  <2> QED
    BY <1>0, <2>1 DEF LinkFor, Shrinks
<1>4. ASSUME NEW a, NEW partners, NEW e, ApplyHuntPassXpToLinks(a, e, partners)
      PROVE  Shrinks
  <2>1. /\ links' = [l \in DOMAIN links |->
                        IF l \in Credited(a, e, partners)
                        THEN [links[l] EXCEPT !.progress = @ + 1] ELSE links[l]]
        /\ UNCHANGED <<invites, expired>>
    BY <1>4 DEF ApplyHuntPassXpToLinks
  <2> QED
    BY <1>0, <2>1 DEF LinkFor, Shrinks
<1>5. ASSUME NEW a, NEW s, ConfirmLinkTrackRank(a, s)
      PROVE  Shrinks
  <2>1. PICK l, n : links' = [links EXCEPT ![l].confirmed[a] = n] /\ UNCHANGED <<invites, expired>>
    BY <1>5 DEF ConfirmLinkTrackRank
  <2> QED
    BY <1>0, <2>1 DEF LinkFor, Shrinks
<1>6. ASSUME UNCHANGED <<invites, links>>, expired' \in {expired, expired + 1}
      PROVE  Shrinks
  BY <1>0, <1>6 DEF Shrinks
<1>7. ASSUME \/ \E a \in Collectors, s \in Slots : GetRewardGrant(a, s) \/ \E p \in Pools : StoreRewardPools(a, s, p)
             \/ \E pair \in friendly : Part(pair)
             \/ \E tx \in DOMAIN grants : ApplyLinkRewardGrant(tx)
             \/ ExpireInvite \/ EndLink \/ UNCHANGED vars
      PROVE  UNCHANGED <<invites, links>> /\ expired' \in {expired, expired + 1}
  BY <1>7 DEF StoreRewardPools, GetRewardGrant, Part, ApplyLinkRewardGrant, ExpireInvite, EndLink,
              vars, linkVars
<1> QED
  BY <1>1, <1>2, <1>3, <1>4, <1>5, <1>6, <1>7 DEF Next

\* Slots and partners are exclusive, for any accounts, slots and invitations: what lets native
\* requests name a link by account and slot (slayerLinks.ts, ResolveSide).
LEMMA ExclusiveInductive ==
    ASSUME IInv, [Next]_vars
    PROVE  IInv'
  BY TypeInductive, OtherStepsShrink, InviteExclusive, AcceptExclusive, Shrinking DEF IInv

THEOREM SlotsStayExclusive == Spec => []SlotsExclusive
<1>1. IInv => SlotsExclusive
  BY DEF IInv
<1> QED
  BY <1>1, InitInv, ExclusiveInductive, PTL DEF Spec

\* The friend chooser and Invite agree in every state, on whom and from which slots.
THEOREM AvailabilityStaysHonest == Spec => []AvailabilityHonest
<1>1. AvailabilityHonest
  BY DEF AvailabilityHonest, ListAvailability, MayInvite, FreeSlots
<1> QED
  BY <1>1, PTL

---------------------------------------------------------------------------
(* Points and ranks *)

LEMMA LinksFinite ==
    ASSUME TypeOK
    PROVE  IsFiniteSet(DOMAIN links) /\ DOMAIN links \subseteq Nat
<1>1. Len(invites) \in Nat /\ DOMAIN links \subseteq 1 .. Len(invites)
    BY DEF TypeOK
<1>2. IsFiniteSet(1 .. Len(invites))
    BY <1>1, FS_Interval
<1> QED
  BY <1>1, <1>2, FS_Subset

LEMMA TotalIsNat ==
    ASSUME NEW S, IsFiniteSet(S), NEW f \in [S -> Nat]
    PROVE  Total(f) \in Nat
<1>1. Total(f) = SumOf(f)
    BY Zenon DEF Total, SumOf
<1> QED
  BY <1>1, SumIsNat

\* A link's rank never falls as its points grow, and stays within the track.
LEMMA RankGrows ==
    ASSUME NEW p \in Nat
    PROVE  /\ DeriveLinkRank(p) \in Nat
           /\ DeriveLinkRank(p + 1) \in Nat
           /\ DeriveLinkRank(p) <= DeriveLinkRank(p + 1)
<1> DEFINE Paid(n) == {r \in DOMAIN LINK_RANK_COSTS : Total(SubSeq(LINK_RANK_COSTS, 1, r)) <= n}
<1>1. IsFiniteSet(DOMAIN LINK_RANK_COSTS)
  BY LinkAssumption, FS_Interval
<1>2. IsFiniteSet(Paid(p)) /\ IsFiniteSet(Paid(p + 1))
  BY <1>1, FS_Subset
<1>3. ASSUME NEW r \in DOMAIN LINK_RANK_COSTS
      PROVE  Total(SubSeq(LINK_RANK_COSTS, 1, r)) \in Nat
  <2>0. /\ Len(LINK_RANK_COSTS) \in Nat /\ DOMAIN LINK_RANK_COSTS = 1 .. Len(LINK_RANK_COSTS)
        /\ \A n \in DOMAIN LINK_RANK_COSTS : LINK_RANK_COSTS[n] \in Nat
    BY LinkAssumption
  <2>1. r \in Nat /\ SubSeq(LINK_RANK_COSTS, 1, r) \in [1 .. r -> Nat] /\ IsFiniteSet(1 .. r)
    <3>1. r \in Nat /\ 1 .. r \subseteq DOMAIN LINK_RANK_COSTS
      BY <2>0
    <3>2. /\ SubSeq(LINK_RANK_COSTS, 1, r) \in Seq(Nat)
          /\ Len(SubSeq(LINK_RANK_COSTS, 1, r)) = IF 1 <= r THEN r - 1 + 1 ELSE 0
      BY <2>0, <3>1, SubSeqProperties
    <3>3. Len(SubSeq(LINK_RANK_COSTS, 1, r)) = r
      BY <2>0, <3>1, <3>2
    <3>4. \A q \in Seq(Nat) : q \in [1 .. Len(q) -> Nat]
      OBVIOUS
    <3>5. SubSeq(LINK_RANK_COSTS, 1, r) \in [1 .. r -> Nat]
      BY <3>2, <3>3, <3>4, Zenon
    <3>6. IsFiniteSet(1 .. r)
      BY <3>1, FS_Interval
    <3> QED
      BY <3>1, <3>5, <3>6
  <2> QED
    BY <2>1, TotalIsNat
<1>4. Paid(p) \subseteq Paid(p + 1)
  BY <1>3
<1>5. DeriveLinkRank(p) = Cardinality(Paid(p)) /\ DeriveLinkRank(p + 1) = Cardinality(Paid(p + 1))
  BY DEF DeriveLinkRank
<1> HIDE DEF Paid
<1> QED
  BY <1>2, <1>4, <1>5, FS_Subset, FS_CardinalityType

\* What accepting an invitation does to the links.
LEMMA Formed ==
    ASSUME TypeOK, NEW i \in DOMAIN invites, NEW s \in Slots, Accept(i, s)
    PROVE  /\ i \notin DOMAIN links /\ DOMAIN links' = DOMAIN links \cup {i}
           /\ \A l \in DOMAIN links : links'[l] = links[l]
           /\ links'[i].progress = 0 /\ links'[i].released = {} /\ links'[i].canceled = FALSE
           /\ DOMAIN links'[i].slot = Pair(invites[i].sender, invites[i].target)
           /\ links'[i].slot[invites[i].sender] = invites[i].slot
           /\ \A a \in DOMAIN links'[i].confirmed : links'[i].confirmed[a] = 0
           /\ invites' = [invites EXCEPT ![i].status = "ACCEPTED"]
           /\ UNCHANGED <<expired, ended, pools, served, xp, grants, ledger, stash>>
<1> DEFINE row  == invites[i]
           both == Pair(row.sender, row.target)
           new  == [slot |-> [a \in both |-> IF a = row.sender THEN row.slot ELSE s],
                    born |-> Cardinality(DOMAIN links) + 1, since |-> Len(invites),
                    canceled |-> FALSE, progress |-> 0, released |-> {},
                    confirmed |-> [a \in both |-> 0]]
<1>1. i \notin DOMAIN links
  BY DEF Accept, Pending, TypeOK
<1>2. /\ links' = [l \in DOMAIN links \cup {i} |-> IF l = i THEN new ELSE links[l]]
      /\ invites' = [invites EXCEPT ![i].status = "ACCEPTED"]
      /\ UNCHANGED <<expired, ended, pools, served, xp, grants, ledger, stash>>
  BY DEF Accept
<1>3. links'[i] = new
  BY <1>2
<1>4. /\ DOMAIN new.slot = both /\ new.slot[row.sender] = row.slot
      /\ \A a \in DOMAIN new.confirmed : new.confirmed[a] = 0
  BY DEF Pair
<1>5. /\ links'[i].slot = new.slot /\ links'[i].confirmed = new.confirmed
      /\ links'[i].progress = 0 /\ links'[i].released = {} /\ links'[i].canceled = FALSE
  BY <1>3
<1>6. DOMAIN links' = DOMAIN links \cup {i} /\ \A l \in DOMAIN links : links'[l] = links[l]
  <2> HIDE DEF new
  <2> QED
    BY <1>1, <1>2
<1> HIDE DEF new
<1> QED
  BY <1>1, <1>2, <1>4, <1>5, <1>6

---------------------------------------------------------------------------
(* An award counts once for a link *)

XpInv ==
    /\ xp \subseteq Events \X (DOMAIN links)
    /\ \A l \in DOMAIN links : IsFiniteSet({e \in Events : <<e, l>> \in xp})
    /\ XpCountedOnce

\* Points and celebrations stay as they are.
LEMMA XpStays ==
    ASSUME XpInv, xp' = xp, DOMAIN links' = DOMAIN links,
           \A l \in DOMAIN links : /\ links'[l].progress = links[l].progress
                                   /\ links'[l].confirmed = links[l].confirmed
    PROVE  XpInv'
  BY DEF XpInv, XpCountedOnce, DeriveLinkRank

LEMMA XpInductive ==
    ASSUME TypeOK, XpInv, [Next]_vars
    PROVE  XpInv'
<1>0. ASSUME NEW l \in DOMAIN links
      PROVE  links[l] \in LinkFor(invites[l]) /\ links[l].progress \in Nat
  BY DEF TypeOK, LinkFor
<1>1. ASSUME NEW i \in DOMAIN invites, NEW s \in Slots, Accept(i, s)
      PROVE  XpInv'
  <2>1. /\ i \notin DOMAIN links /\ DOMAIN links' = DOMAIN links \cup {i}
        /\ \A l \in DOMAIN links : links'[l] = links[l]
        /\ links'[i].progress = 0 /\ xp' = xp
        /\ \A a \in DOMAIN links'[i].confirmed : links'[i].confirmed[a] = 0
    BY <1>1, Formed
  <2>2. {e \in Events : <<e, i>> \in xp} = {}
    BY <2>1 DEF XpInv
  <2>3. DeriveLinkRank(0) \in Nat
    BY RankGrows
  <2>4. IsFiniteSet({}) /\ Cardinality({}) = 0
    BY FS_EmptySet
  <2>5. xp' \subseteq Events \X (DOMAIN links')
    BY <2>1 DEF XpInv
  <2>6. ASSUME NEW l \in DOMAIN links'
        PROVE  /\ IsFiniteSet({e \in Events : <<e, l>> \in xp'})
               /\ links'[l].progress = Cardinality({e \in Events : <<e, l>> \in xp'})
               /\ \A a \in DOMAIN links'[l].confirmed :
                     links'[l].confirmed[a] <= (DeriveLinkRank(links[l].progress))'
    <3>1. CASE l = i
      <4>1. {e \in Events : <<e, l>> \in xp'} = {}
        BY <2>1, <2>2, <3>1
      <4>2. (DeriveLinkRank(links[l].progress))' = DeriveLinkRank(0)
        BY <2>1, <3>1 DEF DeriveLinkRank
      <4>3. IsFiniteSet({e \in Events : <<e, l>> \in xp'})
            /\ Cardinality({e \in Events : <<e, l>> \in xp'}) = 0
        BY <2>4, <4>1, Zenon
      <4> QED
        BY <2>1, <2>3, <3>1, <4>2, <4>3
    <3>2. CASE l \in DOMAIN links
      BY <2>1, <3>2 DEF XpInv, XpCountedOnce, DeriveLinkRank
    <3> QED
      BY <2>1, <3>1, <3>2
  <2> QED
    BY <2>5, <2>6 DEF XpInv, XpCountedOnce
<1>2. ASSUME NEW a, NEW partners, NEW e \in Events, ApplyHuntPassXpToLinks(a, e, partners)
      PROVE  XpInv'
  <2> DEFINE these == Credited(a, e, partners)
             Awards(l) == {d \in Events : <<d, l>> \in xp}
  <2>1. /\ links' = [l \in DOMAIN links |->
                       IF l \in these THEN [links[l] EXCEPT !.progress = @ + 1] ELSE links[l]]
        /\ xp' = xp \cup {<<e, l>> : l \in these}
        /\ these \subseteq DOMAIN links /\ \A l \in these : <<e, l>> \notin xp
    BY <1>2 DEF ApplyHuntPassXpToLinks, Credited, LinksFor
  <2> HIDE DEF these
  <2>2. xp' \subseteq Events \X (DOMAIN links') /\ DOMAIN links' = DOMAIN links
    BY <2>1 DEF XpInv
  <2>3. ASSUME NEW l \in DOMAIN links
        PROVE  /\ IsFiniteSet({d \in Events : <<d, l>> \in xp'})
               /\ links'[l].progress = Cardinality({d \in Events : <<d, l>> \in xp'})
               /\ \A b \in DOMAIN links'[l].confirmed :
                     links'[l].confirmed[b] <= (DeriveLinkRank(links[l].progress))'
    <3>1. /\ IsFiniteSet(Awards(l)) /\ links[l].progress = Cardinality(Awards(l))
          /\ \A b \in DOMAIN links[l].confirmed :
                links[l].confirmed[b] <= DeriveLinkRank(links[l].progress)
      BY DEF XpInv, XpCountedOnce
    <3>2. CASE l \in these
      <4>1. links'[l].progress = links[l].progress + 1 /\ links'[l].confirmed = links[l].confirmed
        BY <1>0, <2>1, <3>2 DEF LinkFor
      <4>2. {d \in Events : <<d, l>> \in xp'} = Awards(l) \cup {e} /\ e \notin Awards(l)
        BY <2>1, <3>2
      <4>3. IsFiniteSet(Awards(l) \cup {e}) /\ Cardinality(Awards(l) \cup {e}) = Cardinality(Awards(l)) + 1
        <5> HIDE DEF Awards
        <5> QED
          BY <3>1, <4>2, FS_AddElement
      <4>4. (DeriveLinkRank(links[l].progress))' = DeriveLinkRank(links[l].progress + 1)
        BY <4>1 DEF DeriveLinkRank
      <4>5. /\ DeriveLinkRank(links[l].progress) \in Nat
            /\ DeriveLinkRank(links[l].progress + 1) \in Nat
            /\ DeriveLinkRank(links[l].progress) <= DeriveLinkRank(links[l].progress + 1)
        BY <1>0, RankGrows
      <4>6. \A b \in DOMAIN links[l].confirmed : links[l].confirmed[b] \in Nat
        BY <1>0 DEF LinkFor
      <4>7. Cardinality({d \in Events : <<d, l>> \in xp'}) = Cardinality(Awards(l)) + 1
            /\ IsFiniteSet({d \in Events : <<d, l>> \in xp'})
        BY <4>2, <4>3, Zenon
      <4> HIDE DEF Awards
      <4>8. links'[l].progress = Cardinality({d \in Events : <<d, l>> \in xp'})
        BY <3>1, <4>1, <4>7
      <4> QED
        BY <3>1, <4>1, <4>4, <4>5, <4>6, <4>7, <4>8
    <3>3. CASE l \notin these
      <4>1. links'[l] = links[l] /\ {d \in Events : <<d, l>> \in xp'} = Awards(l)
        BY <2>1, <3>3
      <4> QED
        BY <3>1, <4>1 DEF DeriveLinkRank
    <3> QED
      BY <3>2, <3>3
  <2> QED
    BY <2>2, <2>3 DEF XpInv, XpCountedOnce
<1>3. ASSUME NEW a, NEW s, ConfirmLinkTrackRank(a, s)
      PROVE  XpInv'
  <2>1. PICK l \in DOMAIN links, rank \in 1 .. Len(LINK_RANK_COSTS) + 1 :
          /\ links' = [links EXCEPT ![l].confirmed[a] =
                         IF rank < DeriveLinkRank(links[l].progress) THEN rank
                         ELSE DeriveLinkRank(links[l].progress)]
          /\ xp' = xp
    BY <1>3 DEF ConfirmLinkTrackRank, ResolveSide
  <2>2. rank \in Nat /\ DeriveLinkRank(links[l].progress) \in Nat
    <3>1. Len(LINK_RANK_COSTS) \in Nat
      BY LinkAssumption
    <3>2. links[l].progress \in Nat
      BY <1>0
    <3> QED
      <4>1. rank \in Nat
        BY <3>1
      <4>2. DeriveLinkRank(links[l].progress) \in Nat
        BY <3>2, RankGrows
      <4> QED
        BY <4>1, <4>2
  <2> DEFINE reached == DeriveLinkRank(links[l].progress)
             least == IF rank < reached THEN rank ELSE reached
  <2>3. PICK n \in Nat : n <= reached /\ links' = [links EXCEPT ![l].confirmed[a] = n]
    <3>1. least \in Nat /\ least <= reached /\ links' = [links EXCEPT ![l].confirmed[a] = least]
      BY <2>1, <2>2
    <3> QED
      BY <3>1
  <2>4. DOMAIN links' = DOMAIN links
        /\ \A m \in DOMAIN links : links'[m].progress = links[m].progress
    BY <1>0, <2>3 DEF LinkFor
  <2>5. ASSUME NEW m \in DOMAIN links, NEW b \in DOMAIN links'[m].confirmed
        PROVE  links'[m].confirmed[b] <= DeriveLinkRank(links[m].progress)
    <3>1. b \in DOMAIN links[m].confirmed
          /\ (links'[m].confirmed[b] = links[m].confirmed[b]
                \/ (m = l /\ links'[m].confirmed[b] = n))
      BY <1>0, <2>3, <2>5 DEF LinkFor
    <3> QED
      BY <2>3, <3>1 DEF XpInv, XpCountedOnce
  <2>6. \A m \in DOMAIN links : (DeriveLinkRank(links[m].progress))' = DeriveLinkRank(links[m].progress)
    BY <2>4 DEF DeriveLinkRank
  <2>7. xp' = xp
    BY <2>1
  <2> QED
    BY <2>4, <2>5, <2>6, <2>7 DEF XpInv, XpCountedOnce
<1>4. ASSUME NEW a, NEW s, CancelLink(a, s) \/ ReleaseSide(a, s)
      PROVE  XpInv'
  <2>1. PICK l \in DOMAIN links : /\ \/ links' = [links EXCEPT ![l].canceled = TRUE]
                                     \/ links' = [links EXCEPT ![l].released = @ \cup {a}]
                                  /\ xp' = xp
    BY <1>4 DEF CancelLink, ReleaseSide, ResolveSide
  <2> QED
    BY <1>0, <2>1, XpStays DEF LinkFor
<1>5. ASSUME UNCHANGED <<links, xp>>
      PROVE  XpInv'
  BY <1>5, XpStays
<1>6. ASSUME \/ \E ask \in Asks : Invite(ask[1], ask[2], ask[3])
             \/ \E i \in DOMAIN invites : Decline(i)
             \/ \E pair \in friendly : Part(pair)
             \/ \E a \in Collectors, s \in Slots : GetRewardGrant(a, s) \/ \E p \in Pools : StoreRewardPools(a, s, p)
             \/ \E tx \in DOMAIN grants : ApplyLinkRewardGrant(tx)
             \/ ExpireInvite \/ EndLink \/ UNCHANGED vars
      PROVE  UNCHANGED <<links, xp>>
  BY <1>6 DEF Invite, Decline, Part, GetRewardGrant, StoreRewardPools, ApplyLinkRewardGrant,
              ExpireInvite, EndLink, vars, linkVars
<1> QED
  BY <1>1, <1>2, <1>3, <1>4, <1>5, <1>6 DEF Next

\* An award advances a link by one point at most, however often it is reported and whoever is
\* online by then, and no chest is celebrated before it is reached.
THEOREM XpStaysCountedOnce == Spec => []XpCountedOnce
<1>1. Init => XpInv
  BY DEF Init, XpInv, XpCountedOnce
<1>2. XpInv => XpCountedOnce
  BY DEF XpInv
<1>3. IInv => TypeOK
  BY DEF IInv
<1> QED
  BY <1>1, <1>2, <1>3, InitInv, ExclusiveInductive, XpInductive, PTL DEF Spec
---------------------------------------------------------------------------
(* No earned reward is forfeited *)

Grant == [account : Players, items : [Catalog -> Nat]]

PoolsTyped ==
    /\ ended \in Nat
    /\ DOMAIN pools \subseteq (DOMAIN links) \X Players
    /\ \A k \in DOMAIN pools : pools[k] \in [pool : Pools, tx : Nat]
    /\ grants \in Seq(Grant)

ForfeitInv == PoolsTyped /\ NothingForfeited

\* Nothing is taken back: links stay, what has ended earns no more, a pool stays, a claim too.
Lasting ==
    /\ DOMAIN links \subseteq DOMAIN links' /\ DOMAIN pools \subseteq DOMAIN pools'
    /\ ended' \in Nat /\ ended <= ended'
    /\ \A l \in DOMAIN links :
        /\ links'[l].slot = links[l].slot /\ links'[l].born = links[l].born
        /\ HasEnded(l) => /\ links'[l].progress = links[l].progress
                          /\ links'[l].canceled = links[l].canceled
    /\ \A k \in DOMAIN pools :
        pools'[k].pool = pools[k].pool /\ (pools[k].tx # 0 => pools'[k].tx = pools[k].tx)
    /\ \A k \in DOMAIN pools' : k \notin DOMAIN pools => pools'[k].tx = 0

\* What a side has earned is settled when its pool is stored and the link has ended.
LEMMA EarnedLasts ==
    ASSUME TypeOK, PoolsTyped, Lasting
    PROVE  \A l \in DOMAIN links : \A a : HasEnded(l) =>
             /\ (HasEnded(l))'
             /\ (DeriveLinkRank(links[l].progress))' = DeriveLinkRank(links[l].progress)
             /\ HasPool(l, a) => (HasPool(l, a))' /\ (EarnedRewards(l, a))' = EarnedRewards(l, a)
             /\ Claimed(l, a) => (Claimed(l, a))'
<1> SUFFICES ASSUME NEW l \in DOMAIN links, NEW a, HasEnded(l)
             PROVE  /\ (HasEnded(l))'
                    /\ (DeriveLinkRank(links[l].progress))' = DeriveLinkRank(links[l].progress)
                    /\ HasPool(l, a) => (HasPool(l, a))' /\ (EarnedRewards(l, a))' = EarnedRewards(l, a)
                    /\ Claimed(l, a) => (Claimed(l, a))'
  OBVIOUS
<1>1. (HasEnded(l))'
  <2>1. links[l].born \in Nat /\ ended \in Nat
    BY DEF TypeOK, LinkFor, PoolsTyped
  <2> QED
    BY <2>1 DEF HasEnded, Lasting
<1>2. (DeriveLinkRank(links[l].progress))' = DeriveLinkRank(links[l].progress)
  BY DEF Lasting, DeriveLinkRank
<1>3. HasPool(l, a) => (HasPool(l, a))' /\ (EarnedRewards(l, a))' = EarnedRewards(l, a)
  <2> SUFFICES ASSUME HasPool(l, a)
               PROVE  (HasPool(l, a))' /\ (EarnedRewards(l, a))' = EarnedRewards(l, a)
    OBVIOUS
  <2>1. (HasPool(l, a))' /\ pools'[<<l, a>>].pool = pools[<<l, a>>].pool
    BY DEF HasPool, Lasting
  <2> QED
    BY <1>2, <2>1 DEF EarnedRewards
<1>4. Claimed(l, a) => (Claimed(l, a))'
  BY DEF Claimed, HasPool, Lasting
<1> QED
  BY <1>1, <1>2, <1>3, <1>4

LEMMA EarnedTyped ==
    ASSUME PoolsTyped, NEW l, NEW a
    PROVE  EarnedRewards(l, a) \in [Catalog -> Nat]
<1> DEFINE prizes(c) == {r \in DOMAIN pools[<<l, a>>].pool :
                           pools[<<l, a>>].pool[r] = c /\ r <= DeriveLinkRank(links[l].progress)}
<1>1. ASSUME NEW c, HasPool(l, a)
      PROVE  Cardinality(prizes(c)) \in Nat
  <2>1. DOMAIN pools[<<l, a>>].pool \subseteq DOMAIN LINK_RANK_COSTS
    BY <1>1, LinkAssumption DEF HasPool, PoolsTyped
  <2>2. IsFiniteSet(DOMAIN LINK_RANK_COSTS)
    BY LinkAssumption, FS_Interval
  <2>3. IsFiniteSet(prizes(c))
    BY <2>1, <2>2, FS_Subset
  <2> QED
    BY <2>3, FS_CardinalityType
<1> QED
  BY <1>1 DEF EarnedRewards

\* The side a grant is claimed for was served, earned it and has not been paid.
LEMMA ClaimFound ==
    ASSUME NEW a, NEW tx, NEW items, served[a] \in Seq(Nat),
           ClaimedBy(a, tx, items) # 0
    PROVE  LET l == ClaimedBy(a, tx, items) IN
           l \in Candidates(a) /\ ~Claimed(l, a) /\ a \notin links[l].released
           /\ EarnedRewards(l, a) = items
<1> DEFINE these == {n \in DOMAIN served[a] :
                      served[a][n] \in Candidates(a) /\ ~Claimed(served[a][n], a)
                      /\ a \notin links[served[a][n]].released
                      /\ EarnedRewards(served[a][n], a) = items}
<1>1. ClaimedBy(a, tx, items) =
        IF these = {} THEN 0 ELSE served[a][CHOOSE n \in these : \A m \in these : m <= n]
  BY DEF ClaimedBy
<1>2. these # {} /\ ClaimedBy(a, tx, items) = served[a][LargestOf(these)]
  <2> HIDE DEF these
  <2> QED
    BY <1>1 DEF LargestOf
<1>3. Len(served[a]) \in Nat /\ these \in SUBSET (1 .. Len(served[a]))
  OBVIOUS
<1>4. LargestOf(these) \in these
  <2> HIDE DEF these
  <2> QED
    BY <1>2, <1>3, LargestOfRange
<1> QED
  BY <1>2, <1>4

LEMMA StepsLast ==
    ASSUME TypeOK, PoolsTyped, served \in [Players -> Seq(Nat)], [Next]_vars
    PROVE  Lasting /\ PoolsTyped'
<1>0. ASSUME NEW l \in DOMAIN links
      PROVE  links[l] \in LinkFor(invites[l])
  BY DEF TypeOK
<1>1. ASSUME DOMAIN links' = DOMAIN links, UNCHANGED <<ended, pools, grants>>,
             \A l \in DOMAIN links :
                /\ links'[l].slot = links[l].slot /\ links'[l].born = links[l].born
                /\ HasEnded(l) => /\ links'[l].progress = links[l].progress
                                  /\ links'[l].canceled = links[l].canceled
      PROVE  Lasting /\ PoolsTyped'
  <2>1. ended <= ended
    BY DEF PoolsTyped
  <2> QED
    BY <1>1, <2>1 DEF Lasting, PoolsTyped
<1>2. ASSUME NEW i \in DOMAIN invites, NEW s \in Slots, Accept(i, s)
      PROVE  Lasting /\ PoolsTyped'
  <2>1. /\ DOMAIN links \subseteq DOMAIN links' /\ \A l \in DOMAIN links : links'[l] = links[l]
        /\ UNCHANGED <<ended, pools, grants>>
    BY <1>2, Formed
  <2>2. ended <= ended
    BY DEF PoolsTyped
  <2> QED
    BY <2>1, <2>2 DEF Lasting, PoolsTyped
<1>3. ASSUME NEW a, NEW s, CancelLink(a, s) \/ ReleaseSide(a, s)
      PROVE  Lasting /\ PoolsTyped'
  <2>1. PICK l \in DOMAIN links : /\ \/ links' = [links EXCEPT ![l].canceled = TRUE] /\ ~HasEnded(l)
                                     \/ links' = [links EXCEPT ![l].released = @ \cup {a}]
                                  /\ UNCHANGED <<ended, pools, grants>>
    BY <1>3 DEF CancelLink, ReleaseSide, ResolveSide
  <2>2. /\ DOMAIN links' = DOMAIN links
        /\ \A m \in DOMAIN links : /\ links'[m].slot = links[m].slot /\ links'[m].born = links[m].born
                                   /\ links'[m].progress = links[m].progress
    <3>1. CASE links' = [links EXCEPT ![l].canceled = TRUE]
      BY <1>0, <3>1 DEF LinkFor
    <3>2. CASE links' = [links EXCEPT ![l].released = @ \cup {a}]
      BY <1>0, <3>2 DEF LinkFor
    <3> QED
      BY <2>1, <3>1, <3>2
  <2>3. \A m \in DOMAIN links : HasEnded(m) => links'[m].canceled = links[m].canceled
    BY <1>0, <2>1 DEF LinkFor
  <2> QED
    BY <1>1, <2>1, <2>2, <2>3
<1>4. ASSUME NEW a, NEW partners, NEW e, ApplyHuntPassXpToLinks(a, e, partners)
      PROVE  Lasting /\ PoolsTyped'
  <2>1. /\ links' = [l \in DOMAIN links |->
                        IF l \in Credited(a, e, partners)
                        THEN [links[l] EXCEPT !.progress = @ + 1] ELSE links[l]]
        /\ \A l \in Credited(a, e, partners) : ~HasEnded(l)
        /\ UNCHANGED <<ended, pools, grants>>
    BY <1>4 DEF ApplyHuntPassXpToLinks, Credited, IsEarning
  <2> QED
    BY <1>0, <1>1, <2>1 DEF LinkFor
<1>5. ASSUME NEW a, NEW s, ConfirmLinkTrackRank(a, s)
      PROVE  Lasting /\ PoolsTyped'
  <2>1. PICK l, n : links' = [links EXCEPT ![l].confirmed[a] = n] /\ UNCHANGED <<ended, pools, grants>>
    BY <1>5 DEF ConfirmLinkTrackRank
  <2> QED
    BY <1>0, <1>1, <2>1 DEF LinkFor
<1>6. ASSUME NEW a \in Collectors, NEW s \in Slots, NEW p \in Pools, StoreRewardPools(a, s, p)
      PROVE  Lasting /\ PoolsTyped'
  <2>1. PICK l \in DOMAIN links : /\ ~HasPool(l, a)
                                  /\ pools' = [k \in DOMAIN pools \cup {<<l, a>>} |->
                                                IF k \in DOMAIN pools THEN pools[k] ELSE [pool |-> p, tx |-> 0]]
                                  /\ UNCHANGED <<links, ended, grants>>
    BY <1>6 DEF StoreRewardPools, ResolveSide
  <2>2. /\ DOMAIN pools' = DOMAIN pools \cup {<<l, a>>}
        /\ \A k \in DOMAIN pools : pools'[k] = pools[k]
        /\ pools'[<<l, a>>] = [pool |-> p, tx |-> 0]
    BY <2>1 DEF HasPool
  <2>3. ended <= ended /\ a \in Players
    BY LinkAssumption DEF PoolsTyped
  <2>4. Lasting
    BY <2>1, <2>2, <2>3 DEF Lasting, PoolsTyped
  <2>5. PoolsTyped'
    BY <2>1, <2>2, <2>3 DEF PoolsTyped
  <2> QED
    BY <2>4, <2>5
<1>7. ASSUME NEW a \in Collectors, NEW s \in Slots, GetRewardGrant(a, s)
      PROVE  Lasting /\ PoolsTyped'
  <2>1. UNCHANGED <<links, ended, pools>>
    BY <1>7 DEF GetRewardGrant
  <2>2. PICK l : \/ UNCHANGED grants
                 \/ grants' = Append(grants, [account |-> a, items |-> EarnedRewards(l, a)])
    BY <1>7 DEF GetRewardGrant
  <2>3. [account |-> a, items |-> EarnedRewards(l, a)] \in Grant
    BY EarnedTyped, LinkAssumption DEF Grant
  <2>4. grants' \in Seq(Grant)
    BY <2>2, <2>3 DEF PoolsTyped
  <2>5. ended <= ended
    BY DEF PoolsTyped
  <2> QED
    BY <2>1, <2>4, <2>5 DEF Lasting, PoolsTyped
<1>8. ASSUME NEW tx \in DOMAIN grants, ApplyLinkRewardGrant(tx)
      PROVE  Lasting /\ PoolsTyped'
  <2> DEFINE a == grants[tx].account
             l == ClaimedBy(a, tx, grants[tx].items)
  <2>1. l # 0 /\ pools' = [pools EXCEPT ![<<l, a>>].tx = tx] /\ UNCHANGED <<links, ended, grants>>
    BY <1>8 DEF ApplyLinkRewardGrant
  <2>2. a \in Players /\ tx \in Nat /\ ended \in Nat
    <3>1. grants[tx] \in Grant /\ tx \in Nat
      BY DEF PoolsTyped
    <3> QED
      BY <3>1 DEF Grant, PoolsTyped
  <2>3. HasPool(l, a) /\ ~Claimed(l, a)
    <3>1. served[a] \in Seq(Nat)
      BY <2>2
    <3> HIDE DEF a
    <3>2. l \in Candidates(a) /\ ~Claimed(l, a)
      BY <2>1, <3>1, ClaimFound
    <3> QED
      BY <3>2 DEF Candidates
  <2> HIDE DEF a, l
  <2>4. \A k \in DOMAIN pools : pools[k] \in [pool : Pools, tx : Nat]
    BY DEF PoolsTyped
  <2>5. /\ DOMAIN pools' = DOMAIN pools /\ <<l, a>> \in DOMAIN pools /\ pools[<<l, a>>].tx = 0
        /\ \A k \in DOMAIN pools : pools'[k] = IF k = <<l, a>> THEN [pools[k] EXCEPT !.tx = tx] ELSE pools[k]
    BY <2>1, <2>3 DEF HasPool, Claimed
  <2>6. \A k \in DOMAIN pools : /\ pools'[k].pool = pools[k].pool
                                /\ pools'[k] \in [pool : Pools, tx : Nat]
                                /\ pools[k].tx # 0 => pools'[k].tx = pools[k].tx
    BY <2>2, <2>4, <2>5
  <2>7. Lasting
    BY <2>1, <2>2, <2>5, <2>6 DEF Lasting, PoolsTyped
  <2>8. PoolsTyped'
    BY <2>1, <2>5, <2>6 DEF PoolsTyped
  <2> QED
    BY <2>7, <2>8
<1>9. ASSUME EndLink
      PROVE  Lasting /\ PoolsTyped'
  <2>1. ended' = ended + 1 /\ UNCHANGED <<links, pools, grants>>
    BY <1>9 DEF EndLink
  <2>2. ended' \in Nat /\ ended <= ended'
    BY <2>1 DEF PoolsTyped
  <2> QED
    BY <2>1, <2>2 DEF Lasting, PoolsTyped
<1>10. ASSUME \/ \E ask \in Asks : Invite(ask[1], ask[2], ask[3])
              \/ \E i \in DOMAIN invites : Decline(i)
              \/ \E pair \in friendly : Part(pair)
              \/ ExpireInvite \/ UNCHANGED vars
       PROVE  Lasting /\ PoolsTyped'
  <2>1. UNCHANGED <<links, ended, pools, grants>>
    BY <1>10 DEF Invite, Decline, Part, ExpireInvite, vars, linkVars
  <2> QED
    BY <1>1, <2>1
<1> QED
  BY <1>2, <1>3, <1>4, <1>5, <1>6, <1>7, <1>8, <1>9, <1>10 DEF Next
\* A reward is forfeited by no step: what lasts keeps the promise to the sides released before,
\* and a side is released, or a link cancelled, only when there is nothing left to collect.
LEMMA KeepsForfeit ==
    ASSUME TypeOK, PoolsTyped, NothingForfeited, Lasting,
           \A l \in DOMAIN links' :
             /\ links'[l].canceled => \/ links'[l].progress = 0
                                      \/ l \in DOMAIN links /\ links[l].canceled
                                         /\ links'[l].progress = links[l].progress
             /\ \A a \in links'[l].released :
                  \/ l \in DOMAIN links /\ a \in links[l].released
                  \/ l \in DOMAIN links /\ HasEnded(l) /\ Collected(l, a) /\ UNCHANGED pools
           ,
           \A l \in DOMAIN links : \A a \in links[l].released :
             ~HasPool(l, a) => ~(HasPool(l, a))'
    PROVE  NothingForfeited'
<1> SUFFICES ASSUME NEW l \in DOMAIN links'
             PROVE  /\ links'[l].canceled => links'[l].progress = 0
                    /\ \A a \in links'[l].released :
                         /\ (HasEnded(l))'
                         /\ (DeriveLinkRank(links[l].progress))' > 0 => (HasPool(l, a))'
                         /\ (EarnedRewards(l, a))' # Nothing => (Claimed(l, a))'
  BY DEF NothingForfeited, Nothing
<1>1. links'[l].canceled => links'[l].progress = 0
  BY DEF NothingForfeited
<1>2. ASSUME NEW a \in links'[l].released
      PROVE  /\ (HasEnded(l))'
             /\ (DeriveLinkRank(links[l].progress))' > 0 => (HasPool(l, a))'
             /\ (EarnedRewards(l, a))' # Nothing => (Claimed(l, a))'
  <2>1. /\ l \in DOMAIN links /\ HasEnded(l)
        /\ DeriveLinkRank(links[l].progress) > 0 => HasPool(l, a)
        /\ EarnedRewards(l, a) # Nothing => Claimed(l, a)
        /\ ~HasPool(l, a) => ~(HasPool(l, a))'
    <3>1. CASE l \in DOMAIN links /\ a \in links[l].released
      BY <3>1 DEF NothingForfeited
    <3>2. CASE l \in DOMAIN links /\ HasEnded(l) /\ Collected(l, a) /\ UNCHANGED pools
      BY <3>2 DEF Collected, HasPool
    <3> QED
      BY <1>2, <3>1, <3>2
  <2>2. /\ (HasEnded(l))'
        /\ (DeriveLinkRank(links[l].progress))' = DeriveLinkRank(links[l].progress)
        /\ HasPool(l, a) => (HasPool(l, a))' /\ (EarnedRewards(l, a))' = EarnedRewards(l, a)
        /\ Claimed(l, a) => (Claimed(l, a))'
    BY <2>1, EarnedLasts
  <2>3. ~(HasPool(l, a))' => (EarnedRewards(l, a))' = Nothing
    BY DEF EarnedRewards, Nothing, HasPool
  <2> QED
    BY <2>1, <2>2, <2>3
<1> QED
  BY <1>1, <1>2

LEMMA ForfeitInductive ==
    ASSUME TypeOK, ForfeitInv, served \in [Players -> Seq(Nat)], [Next]_vars
    PROVE  ForfeitInv'
<1>0. ASSUME NEW l \in DOMAIN links
      PROVE  links[l] \in LinkFor(invites[l]) /\ links[l].progress \in Nat
  BY DEF TypeOK, LinkFor
<1>1. PoolsTyped /\ NothingForfeited /\ Lasting /\ PoolsTyped'
  BY StepsLast DEF ForfeitInv
<1>2. ASSUME UNCHANGED links,
             \A l \in DOMAIN links : \A a \in links[l].released : (HasPool(l, a))' => HasPool(l, a)
      PROVE  ForfeitInv'
  BY <1>1, <1>2, KeepsForfeit DEF ForfeitInv
<1>3. ASSUME DOMAIN links' = DOMAIN links, UNCHANGED pools,
             \A l \in DOMAIN links :
                /\ links'[l].canceled => \/ links'[l].progress = 0
                                         \/ links[l].canceled /\ links'[l].progress = links[l].progress
                /\ \A a \in links'[l].released :
                     a \in links[l].released \/ (HasEnded(l) /\ Collected(l, a))
      PROVE  ForfeitInv'
  <2>1. \A l \in DOMAIN links : \A a \in links[l].released : (HasPool(l, a))' => HasPool(l, a)
    BY <1>3 DEF HasPool
  <2> QED
    BY <1>1, <1>3, <2>1, KeepsForfeit DEF ForfeitInv
<1>4. ASSUME NEW i \in DOMAIN invites, NEW s \in Slots, Accept(i, s)
      PROVE  ForfeitInv'
  <2>1. /\ DOMAIN links' = DOMAIN links \cup {i} /\ \A l \in DOMAIN links : links'[l] = links[l]
        /\ links'[i].canceled = FALSE /\ links'[i].released = {} /\ UNCHANGED pools
    BY <1>4, Formed
  <2>2. \A l \in DOMAIN links : \A a \in links[l].released : (HasPool(l, a))' => HasPool(l, a)
    BY <2>1 DEF HasPool
  <2> QED
    BY <1>1, <2>1, <2>2, KeepsForfeit DEF ForfeitInv
<1>5. ASSUME NEW a, NEW s, CancelLink(a, s)
      PROVE  ForfeitInv'
  <2>1. PICK l \in DOMAIN links : /\ links' = [links EXCEPT ![l].canceled = TRUE]
                                  /\ links[l].progress = 0 /\ UNCHANGED pools
    BY <1>5 DEF CancelLink, ResolveSide
  <2> QED
    BY <1>0, <1>3, <2>1 DEF LinkFor
<1>6. ASSUME NEW a, NEW s, ReleaseSide(a, s)
      PROVE  ForfeitInv'
  <2>1. PICK l \in DOMAIN links : /\ links' = [links EXCEPT ![l].released = @ \cup {a}]
                                  /\ HasEnded(l) /\ Collected(l, a) /\ UNCHANGED pools
    BY <1>6 DEF ReleaseSide, ResolveSide
  <2> QED
    BY <1>0, <1>3, <2>1 DEF LinkFor
<1>7. ASSUME NEW a, NEW partners, NEW e, ApplyHuntPassXpToLinks(a, e, partners)
      PROVE  ForfeitInv'
  <2>1. /\ links' = [l \in DOMAIN links |->
                        IF l \in Credited(a, e, partners)
                        THEN [links[l] EXCEPT !.progress = @ + 1] ELSE links[l]]
        /\ \A l \in Credited(a, e, partners) : ~links[l].canceled
        /\ UNCHANGED pools
    BY <1>7 DEF ApplyHuntPassXpToLinks, Credited, IsEarning
  <2> QED
    BY <1>0, <1>3, <2>1 DEF LinkFor
<1>8. ASSUME NEW a, NEW s, ConfirmLinkTrackRank(a, s)
      PROVE  ForfeitInv'
  <2>1. PICK l, n : links' = [links EXCEPT ![l].confirmed[a] = n] /\ UNCHANGED pools
    BY <1>8 DEF ConfirmLinkTrackRank
  <2> QED
    BY <1>0, <1>3, <2>1 DEF LinkFor
<1>9. ASSUME NEW a \in Collectors, NEW s, NEW p, StoreRewardPools(a, s, p)
      PROVE  ForfeitInv'
  <2>1. PICK l \in DOMAIN links : /\ pools' = [k \in DOMAIN pools \cup {<<l, a>>} |->
                                                IF k \in DOMAIN pools THEN pools[k] ELSE [pool |-> p, tx |-> 0]]
                                  /\ a \notin links[l].released /\ UNCHANGED links
    BY <1>9 DEF StoreRewardPools, ResolveSide, Occupies
  <2>2. DOMAIN pools' = DOMAIN pools \cup {<<l, a>>}
    BY <2>1
  <2>3. \A m \in DOMAIN links : \A b \in links[m].released : (HasPool(m, b))' => HasPool(m, b)
    BY <2>1, <2>2 DEF HasPool
  <2> QED
    BY <1>2, <2>1, <2>3
<1>10. ASSUME NEW tx \in DOMAIN grants, ApplyLinkRewardGrant(tx)
       PROVE  ForfeitInv'
  <2>1. DOMAIN pools' = DOMAIN pools /\ UNCHANGED links
    BY <1>10 DEF ApplyLinkRewardGrant
  <2> QED
    BY <1>2, <2>1 DEF HasPool
<1>11. ASSUME \/ \E ask \in Asks : Invite(ask[1], ask[2], ask[3])
              \/ \E i \in DOMAIN invites : Decline(i)
              \/ \E pair \in friendly : Part(pair)
              \/ \E a \in Collectors, s \in Slots : GetRewardGrant(a, s)
              \/ ExpireInvite \/ EndLink \/ UNCHANGED vars
       PROVE  ForfeitInv'
  <2>1. UNCHANGED <<links, pools>>
    BY <1>11 DEF Invite, Decline, Part, GetRewardGrant, ExpireInvite, EndLink, vars, linkVars
  <2> QED
    BY <1>2, <2>1 DEF HasPool
<1> QED
  BY <1>4, <1>5, <1>6, <1>7, <1>8, <1>9, <1>10, <1>11 DEF Next

LEMMA ServedTyped ==
    ASSUME TypeOK, served \in [Players -> Seq(Nat)], [Next]_vars
    PROVE  served' \in [Players -> Seq(Nat)]
<1>1. ASSUME NEW q \in Seq(Nat), NEW l \in Nat
      PROVE  ServedLast(q, l) \in Seq(Nat)
  <2> DEFINE before == {n \in DOMAIN q : q[n] = l}
             n == CHOOSE n \in before : TRUE
  <2>1. ServedLast(q, l) = Append(IF before = {} THEN q ELSE SubSeq(q, 1, n - 1) \o SubSeq(q, n + 1, Len(q)), l)
    BY DEF ServedLast
  <2>2. ASSUME before # {}
        PROVE  SubSeq(q, 1, n - 1) \in Seq(Nat) /\ SubSeq(q, n + 1, Len(q)) \in Seq(Nat)
    <3>1. n \in 1 .. Len(q) /\ Len(q) \in Nat /\ \A k \in 1 .. Len(q) : q[k] \in Nat
      BY <2>2
    <3> HIDE DEF n
    <3>2. /\ n - 1 \in Int /\ n + 1 \in Int /\ Len(q) \in Int
          /\ \A k \in 1 .. n - 1 : q[k] \in Nat
          /\ \A k \in n + 1 .. Len(q) : q[k] \in Nat
      BY <3>1
    <3> QED
      BY <3>2, SubSeqProperties
  <2> HIDE DEF n
  <2>3. before # {} => SubSeq(q, 1, n - 1) \o SubSeq(q, n + 1, Len(q)) \in Seq(Nat)
    BY <2>2
  <2> HIDE DEF before
  <2> QED
    BY <2>1, <2>3
<1>2. ASSUME NEW a \in Collectors, NEW s \in Slots, GetRewardGrant(a, s)
      PROVE  served' \in [Players -> Seq(Nat)]
  <2>1. PICK l \in DOMAIN links : served' = [served EXCEPT ![a] = ServedLast(@, l)]
    BY <1>2 DEF GetRewardGrant, ResolveSide
  <2>2. l \in Nat /\ a \in Players
    BY LinksFinite, LinkAssumption
  <2>3. ServedLast(served[a], l) \in Seq(Nat)
    BY <1>1, <2>2
  <2> QED
    BY <2>1, <2>2, <2>3
<1>3. ASSUME \/ \E ask \in Asks : Invite(ask[1], ask[2], ask[3])
             \/ \E i \in DOMAIN invites, s \in Slots : Accept(i, s)
             \/ \E i \in DOMAIN invites : Decline(i)
             \/ \E pair \in friendly : Part(pair)
             \/ \E a \in Players, s \in Slots : CancelLink(a, s) \/ ReleaseSide(a, s)
             \/ \E a \in Collectors, s \in Slots :
                  ConfirmLinkTrackRank(a, s) \/ \E p \in Pools : StoreRewardPools(a, s, p)
             \/ \E a \in Collectors : \E partners \in SUBSET {PartnerOf(l, a) : l \in LinksFor(a)}, e \in Events :
                  ApplyHuntPassXpToLinks(a, e, partners)
             \/ \E tx \in DOMAIN grants : ApplyLinkRewardGrant(tx)
             \/ ExpireInvite \/ EndLink \/ UNCHANGED vars
      PROVE  served' = served
  BY <1>3 DEF Invite, Accept, Decline, Part, CancelLink, ReleaseSide, ConfirmLinkTrackRank,
              StoreRewardPools, ApplyHuntPassXpToLinks, ApplyLinkRewardGrant, ExpireInvite, EndLink,
              vars, linkVars
<1> QED
  BY <1>2, <1>3 DEF Next

\* What a side has earned can be collected as long as it is not released, however late its pool
\* comes, and a link that earned something is never cancelled.
THEOREM NothingIsForfeited == Spec => []NothingForfeited
<1> DEFINE FInv == ForfeitInv /\ served \in [Players -> Seq(Nat)]
<1>1. Init => FInv
  BY DEF Init, ForfeitInv, PoolsTyped, NothingForfeited
<1>2. TypeOK /\ FInv /\ [Next]_vars => FInv'
  BY ForfeitInductive, ServedTyped
<1>3. FInv => NothingForfeited
  BY DEF ForfeitInv
<1>4. IInv => TypeOK
  BY DEF IInv
<1> HIDE DEF FInv
<1> QED
  BY <1>1, <1>2, <1>3, <1>4, InitInv, ExclusiveInductive, PTL DEF Spec
---------------------------------------------------------------------------
(* What collection paid out is what was earned *)

ClaimedLinks(a) == {l \in LinksFor(a) : Claimed(l, a)}
Earnings(a, c)  == [l \in ClaimedLinks(a) |-> EarnedRewards(l, a)[c]]
PaidFor(tx)     == \E m \in Candidates(grants[tx].account) : pools[<<m, grants[tx].account>>].tx = tx

GrantInv ==
    /\ stash \in [Players -> [Catalog -> Nat]]
    /\ \A a \in Players : \A l \in ClaimedLinks(a) : HasEnded(l) /\ ~links[l].canceled
    /\ ledger \subseteq DOMAIN grants
    /\ \A tx \in ledger : PaidFor(tx)
    /\ \A a \in Players, c \in Catalog : stash[a][c] = Total(Earnings(a, c))

\* A claim once made keeps its transaction, and a transaction its claim.
LEMMA PaidLasts ==
    ASSUME TypeOK, PoolsTyped, Lasting, NEW tx \in DOMAIN grants, PaidFor(tx),
           tx \in DOMAIN grants', grants'[tx] = grants[tx]
    PROVE  (PaidFor(tx))'
<1>0. PICK a : a = grants[tx].account
  OBVIOUS
<1>1. PICK m \in Candidates(a) : pools[<<m, a>>].tx = tx
  BY <1>0 DEF PaidFor
<1>2. tx # 0
  BY DEF PoolsTyped
<1>3. m \in DOMAIN links /\ HasEnded(m) /\ ~links[m].canceled /\ HasPool(m, a)
      /\ a \in DOMAIN links[m].slot
  BY <1>1 DEF Candidates, LinksFor
<1>4. (HasEnded(m))' /\ (HasPool(m, a))'
  BY <1>3, EarnedLasts
<1>5. m \in DOMAIN links' /\ links'[m].slot = links[m].slot /\ links'[m].canceled = links[m].canceled
  BY <1>3 DEF Lasting
<1>6. pools'[<<m, a>>].tx = tx
  BY <1>1, <1>2, <1>3 DEF Lasting, HasPool
<1>7. a = grants'[tx].account
  BY <1>0
<1>8. m \in (Candidates(a))'
  BY <1>3, <1>4, <1>5 DEF Candidates, LinksFor
<1> QED
  BY <1>6, <1>7, <1>8 DEF PaidFor

\* As long as no claim is added, what is claimed and what it was worth stay.
LEMMA EarningsLast ==
    ASSUME TypeOK, PoolsTyped, PoolsTyped', Lasting, NEW a \in Players,
           \A l \in ClaimedLinks(a) : HasEnded(l),
           \A l \in DOMAIN links : HasPool(l, a) /\ pools'[<<l, a>>].tx # 0 => pools[<<l, a>>].tx # 0
    PROVE  /\ (ClaimedLinks(a))' = ClaimedLinks(a)
           /\ \A c : (Earnings(a, c))' = Earnings(a, c)
<1>1. ASSUME NEW l \in (ClaimedLinks(a))'
      PROVE  l \in ClaimedLinks(a)
  <2>1. l \in DOMAIN links' /\ a \in DOMAIN links'[l].slot /\ <<l, a>> \in DOMAIN pools'
        /\ pools'[<<l, a>>].tx # 0
    BY <1>1 DEF ClaimedLinks, LinksFor, Claimed, HasPool
  <2>2. <<l, a>> \in DOMAIN pools
    BY <2>1 DEF Lasting
  <2>3. l \in DOMAIN links
    BY <2>2 DEF PoolsTyped
  <2> QED
    BY <2>1, <2>2, <2>3 DEF ClaimedLinks, LinksFor, Claimed, HasPool, Lasting
<1>2. ASSUME NEW l \in ClaimedLinks(a)
      PROVE  l \in (ClaimedLinks(a))' /\ (EarnedRewards(l, a))' = EarnedRewards(l, a)
  <2>1. l \in DOMAIN links /\ a \in DOMAIN links[l].slot /\ Claimed(l, a) /\ HasPool(l, a) /\ HasEnded(l)
    BY <1>2 DEF ClaimedLinks, LinksFor, Claimed
  <2>2. (Claimed(l, a))' /\ (EarnedRewards(l, a))' = EarnedRewards(l, a)
    BY <2>1, EarnedLasts
  <2>3. l \in DOMAIN links' /\ a \in DOMAIN links'[l].slot
    BY <2>1 DEF Lasting
  <2> QED
    BY <2>2, <2>3 DEF ClaimedLinks, LinksFor
<1>3. (ClaimedLinks(a))' = ClaimedLinks(a)
  BY <1>1, <1>2
<1>4. ASSUME NEW c
      PROVE  (Earnings(a, c))' = Earnings(a, c)
  <2>1. (Earnings(a, c))' = [l \in (ClaimedLinks(a))' |-> (EarnedRewards(l, a))'[c]]
    BY DEF Earnings
  <2>2. Earnings(a, c) = [l \in ClaimedLinks(a) |-> EarnedRewards(l, a)[c]]
    BY DEF Earnings
  <2> QED
    BY <1>2, <1>3, <2>1, <2>2
<1> QED
  BY <1>3, <1>4

\* A step that claims nothing and pays nothing.
LEMMA KeepsGrants ==
    ASSUME TypeOK, PoolsTyped, PoolsTyped', GrantInv, Lasting,
           UNCHANGED <<ledger, stash>>,
           \A k \in DOMAIN pools : pools'[k].tx # 0 => pools[k].tx # 0,
           DOMAIN grants \subseteq DOMAIN grants', \A tx \in DOMAIN grants : grants'[tx] = grants[tx]
    PROVE  GrantInv'
<1>1. ASSUME NEW a \in Players
      PROVE  /\ (ClaimedLinks(a))' = ClaimedLinks(a)
             /\ \A c : (Earnings(a, c))' = Earnings(a, c)
  <2>1. \A l \in ClaimedLinks(a) : HasEnded(l)
    BY DEF GrantInv
  <2>2. \A l \in DOMAIN links : HasPool(l, a) /\ pools'[<<l, a>>].tx # 0 => pools[<<l, a>>].tx # 0
    BY DEF HasPool
  <2> QED
    BY <2>1, <2>2, EarningsLast
<1>2. ASSUME NEW a \in Players, NEW l \in (ClaimedLinks(a))'
      PROVE  (HasEnded(l))' /\ ~links'[l].canceled
  <2>1. l \in DOMAIN links /\ HasEnded(l) /\ ~links[l].canceled
    BY <1>1 DEF GrantInv, ClaimedLinks, LinksFor
  <2> QED
    BY <2>1, EarnedLasts DEF Lasting
<1>3. ASSUME NEW tx \in ledger
      PROVE  (PaidFor(tx))'
  BY PaidLasts DEF GrantInv
<1>4. ASSUME NEW a \in Players, NEW c \in Catalog
      PROVE  stash'[a][c] = Total((Earnings(a, c))')
  BY <1>1 DEF GrantInv
<1>5. stash' \in [Players -> [Catalog -> Nat]] /\ ledger' \subseteq DOMAIN grants'
  BY DEF GrantInv
<1> QED
  BY <1>2, <1>3, <1>4, <1>5 DEF GrantInv

\* A grant that is applied pays one more side exactly what it earned.
LEMMA PaysOne ==
    ASSUME TypeOK, PoolsTyped, PoolsTyped', GrantInv, Lasting, served \in [Players -> Seq(Nat)],
           NEW tx \in DOMAIN grants, ApplyLinkRewardGrant(tx)
    PROVE  GrantInv'
<1>0. PICK a, items, l : /\ a = grants[tx].account /\ items = grants[tx].items
                         /\ l = ClaimedBy(a, tx, items)
  OBVIOUS
<1>1. /\ ~\E m \in Candidates(a) : pools[<<m, a>>].tx = tx
      /\ l # 0
      /\ ApplyInventoryTransaction(a, tx, items)
      /\ pools' = [pools EXCEPT ![<<l, a>>].tx = tx]
      /\ UNCHANGED <<links, ended, grants>>
  BY <1>0 DEF ApplyLinkRewardGrant
<1>2. a \in Players /\ items \in [Catalog -> Nat] /\ tx \in Nat \ {0}
  <2>1. grants[tx] \in Grant /\ tx \in Nat \ {0}
    BY DEF PoolsTyped
  <2> QED
    BY <1>0, <2>1 DEF Grant
<1>3. tx \notin ledger
  BY <1>0, <1>1 DEF GrantInv, PaidFor
<1>4. /\ ledger' = ledger \cup {tx}
      /\ stash' = [stash EXCEPT ![a] = [c \in Catalog |-> @[c] + items[c]]]
  BY <1>1, <1>3 DEF ApplyInventoryTransaction
<1>6. (PaidFor(tx))' <=> \E m \in (Candidates(a))' : pools'[<<m, a>>].tx = tx
  BY <1>0, <1>1 DEF PaidFor
<1>7. l \in Candidates(a) /\ ~Claimed(l, a) /\ EarnedRewards(l, a) = items
  BY <1>0, <1>1, <1>2, ClaimFound
<1>8. /\ l \in DOMAIN links /\ a \in DOMAIN links[l].slot /\ ~links[l].canceled
      /\ HasEnded(l) /\ HasPool(l, a) /\ pools[<<l, a>>].tx = 0
  BY <1>7 DEF Candidates, LinksFor, Claimed
<1>9. /\ DOMAIN pools' = DOMAIN pools /\ <<l, a>> \in DOMAIN pools
      /\ pools'[<<l, a>>].tx = tx
      /\ \A k \in DOMAIN pools : k # <<l, a>> => pools'[k] = pools[k]
  <2>1. pools[<<l, a>>] \in [pool : Pools, tx : Nat]
    BY <1>8 DEF HasPool, PoolsTyped
  <2> QED
    BY <1>1, <1>8, <2>1 DEF HasPool
<1>10. ASSUME NEW b \in Players, b # a
       PROVE  /\ (ClaimedLinks(b))' = ClaimedLinks(b)
              /\ \A c : (Earnings(b, c))' = Earnings(b, c)
  <2>1. \A m \in ClaimedLinks(b) : HasEnded(m)
    BY DEF GrantInv
  <2>2. \A m \in DOMAIN links : HasPool(m, b) /\ pools'[<<m, b>>].tx # 0 => pools[<<m, b>>].tx # 0
    BY <1>9, <1>10 DEF HasPool
  <2> QED
    BY <2>1, <2>2, EarningsLast
<1>11. (ClaimedLinks(a))' = ClaimedLinks(a) \cup {l} /\ l \notin ClaimedLinks(a)
  <2>1. l \notin ClaimedLinks(a)
    BY <1>7 DEF ClaimedLinks
  <2>2. ASSUME NEW m
        PROVE  m \in (ClaimedLinks(a))' <=> m \in ClaimedLinks(a) \cup {l}
    <3>1. CASE m = l
      BY <1>1, <1>2, <1>8, <1>9, <3>1 DEF ClaimedLinks, LinksFor, Claimed, HasPool
    <3>2. CASE m # l
      BY <1>1, <1>9, <3>2 DEF ClaimedLinks, LinksFor, Claimed, HasPool
    <3> QED
      BY <3>1, <3>2
  <2> QED
    BY <2>1, <2>2
<1>12. ASSUME NEW c \in Catalog
       PROVE  Total((Earnings(a, c))') = Total(Earnings(a, c)) + items[c]
  <2>0. PICK S, f, g : S = (ClaimedLinks(a))' /\ f = (Earnings(a, c))' /\ g = Earnings(a, c)
    OBVIOUS
  <2>1. \A m \in S : m \in DOMAIN links /\ HasEnded(m) /\ HasPool(m, a)
    <3>1. \A m \in ClaimedLinks(a) : m \in DOMAIN links /\ HasEnded(m) /\ HasPool(m, a)
      BY <1>2 DEF GrantInv, ClaimedLinks, LinksFor, Claimed
    <3> QED
      BY <1>8, <1>11, <2>0, <3>1
  <2>2. \A m \in S : (EarnedRewards(m, a))' = EarnedRewards(m, a)
    BY <2>1, EarnedLasts
  <2>3. f = [m \in S |-> (EarnedRewards(m, a))'[c]] /\ g = [m \in ClaimedLinks(a) |-> EarnedRewards(m, a)[c]]
    BY <2>0 DEF Earnings
  <2>4. IsFiniteSet(S)
    <3>1. IsFiniteSet(DOMAIN links)
      BY LinksFinite
    <3> QED
      BY <2>1, <3>1, FS_Subset
  <2>5. \A m \in S : EarnedRewards(m, a)[c] \in Nat
    BY EarnedTyped
  <2>6. ClaimedLinks(a) = S \ {l} /\ l \in S
    BY <1>11, <2>0
  <2>7. f \in [S -> Nat] /\ f[l] = items[c] /\ \A m \in S \ {l} : g[m] = f[m]
    BY <1>7, <2>2, <2>3, <2>5, <2>6
  <2>8. g \in [S \ {l} -> Nat]
    BY <2>3, <2>5, <2>6
  <2>9. SumOf(f) = f[l] + SumOf(g)
    <3>1. l \in S
      BY <2>6
    <3>2. f \in [S -> Nat]
      BY <2>7
    <3>3. AllBut(g, f, S, l)
      BY <2>7, <2>8 DEF AllBut
    <3> QED
      BY <2>4, <3>1, <3>2, <3>3, SumTakesOneOut
  <2>10. SumOf(g) \in Nat /\ items[c] \in Nat
    <3>1. IsFiniteSet(S \ {l})
      BY <2>4, FS_Subset
    <3> QED
      BY <1>2, <2>8, <3>1, SumIsNat
  <2>11. Total(f) = SumOf(f) /\ Total(g) = SumOf(g)
    BY Zenon DEF Total, SumOf
  <2> QED
    BY <2>0, <2>7, <2>9, <2>10, <2>11
<1>13. ASSUME NEW b \in Players, NEW c \in Catalog
       PROVE  stash'[b][c] = Total((Earnings(b, c))')
  <2>0. stash[b] \in [Catalog -> Nat] /\ stash[b][c] = Total(Earnings(b, c))
    BY DEF GrantInv
  <2>1. CASE b = a
    <3>1. stash'[b][c] = stash[b][c] + items[c]
      BY <1>2, <1>4, <2>1 DEF GrantInv
    <3> QED
      BY <1>12, <2>0, <2>1, <3>1
  <2>2. CASE b # a
    <3>1. stash'[b] = stash[b]
      BY <1>2, <1>4, <2>2 DEF GrantInv
    <3> QED
      BY <1>10, <2>0, <2>2, <3>1
  <2> QED
    BY <2>1, <2>2
<1>14. stash' \in [Players -> [Catalog -> Nat]]
  <2>1. stash \in [Players -> [Catalog -> Nat]]
    BY DEF GrantInv
  <2>2. [c \in Catalog |-> stash[a][c] + items[c]] \in [Catalog -> Nat]
    BY <1>2, <2>1
  <2> QED
    BY <1>2, <1>4, <2>1, <2>2
<1>15. ASSUME NEW b \in Players, NEW m \in (ClaimedLinks(b))'
       PROVE  (HasEnded(m))' /\ ~links'[m].canceled
  <2>1. HasEnded(m) /\ ~links[m].canceled
    <3>1. CASE b = a
      BY <1>2, <1>8, <1>11, <1>15, <3>1 DEF GrantInv
    <3>2. CASE b # a
      BY <1>10, <1>15, <3>2 DEF GrantInv
    <3> QED
      BY <3>1, <3>2
  <2> QED
    BY <1>1, <2>1 DEF HasEnded
<1>16. ASSUME NEW t \in ledger'
       PROVE  (PaidFor(t))'
  <2>1. CASE t = tx
    <3>1. l \in (Candidates(a))'
      BY <1>1, <1>8, <1>9 DEF Candidates, LinksFor, HasEnded, HasPool
    <3> QED
      BY <1>6, <1>9, <2>1, <3>1
  <2>2. CASE t \in ledger
    BY <1>1, <2>2, PaidLasts DEF GrantInv
  <2> QED
    BY <1>4, <2>1, <2>2
<1>17. ledger' \subseteq DOMAIN grants'
  BY <1>1, <1>4 DEF GrantInv
<1> QED
  BY <1>13, <1>14, <1>15, <1>16, <1>17 DEF GrantInv

LEMMA GrantInductive ==
    ASSUME TypeOK, PoolsTyped, PoolsTyped', Lasting, GrantInv, served \in [Players -> Seq(Nat)], [Next]_vars
    PROVE  GrantInv'
<1>1. ASSUME NEW a \in Collectors, NEW s \in Slots, GetRewardGrant(a, s)
      PROVE  GrantInv'
  <2>1. PICK l : \/ UNCHANGED grants
                 \/ grants' = Append(grants, [account |-> a, items |-> EarnedRewards(l, a)])
    BY <1>1 DEF GetRewardGrant
  <2>2. UNCHANGED <<pools, ledger, stash>>
    BY <1>1 DEF GetRewardGrant
  <2>3. DOMAIN grants \subseteq DOMAIN grants' /\ \A tx \in DOMAIN grants : grants'[tx] = grants[tx]
    <3>1. grants \in Seq(Grant) /\ [account |-> a, items |-> EarnedRewards(l, a)] \in Grant
      BY EarnedTyped, LinkAssumption DEF PoolsTyped, Grant
    <3>2. \A g \in Grant : /\ Append(grants, g) \in Seq(Grant)
                            /\ Len(Append(grants, g)) = Len(grants) + 1
                            /\ \A n \in 1 .. Len(grants) : Append(grants, g)[n] = grants[n]
      BY <3>1
    <3> HIDE DEF Grant
    <3> QED
      BY <2>1, <3>1, <3>2
  <2> QED
    BY <2>2, <2>3, KeepsGrants
<1>2. ASSUME NEW a \in Collectors, NEW s \in Slots, NEW p \in Pools, StoreRewardPools(a, s, p)
      PROVE  GrantInv'
  <2>1. UNCHANGED <<grants, ledger, stash>> /\ \A k \in DOMAIN pools : pools'[k] = pools[k]
    BY <1>2 DEF StoreRewardPools
  <2> QED
    BY <2>1, KeepsGrants
<1>3. ASSUME UNCHANGED <<pools, grants, ledger, stash>>
      PROVE  GrantInv'
  BY <1>3, KeepsGrants
<1>4. ASSUME \/ \E ask \in Asks : Invite(ask[1], ask[2], ask[3])
             \/ \E i \in DOMAIN invites, s \in Slots : Accept(i, s)
             \/ \E i \in DOMAIN invites : Decline(i)
             \/ \E pair \in friendly : Part(pair)
             \/ \E a \in Players, s \in Slots : CancelLink(a, s) \/ ReleaseSide(a, s)
             \/ \E a \in Collectors, s \in Slots : ConfirmLinkTrackRank(a, s)
             \/ \E a \in Collectors : \E partners \in SUBSET {PartnerOf(l, a) : l \in LinksFor(a)}, e \in Events :
                  ApplyHuntPassXpToLinks(a, e, partners)
             \/ ExpireInvite \/ EndLink \/ UNCHANGED vars
      PROVE  UNCHANGED <<pools, grants, ledger, stash>>
  BY <1>4 DEF Invite, Accept, Decline, Part, CancelLink, ReleaseSide, ConfirmLinkTrackRank,
              ApplyHuntPassXpToLinks, ExpireInvite, EndLink, vars, linkVars
<1> QED
  BY <1>1, <1>2, <1>3, <1>4, PaysOne DEF Next

\* Nothing is paid twice and nothing but what was earned: for any number of grants read,
\* composed, repeated, delayed or lost, and links that earned the same.
THEOREM GrantsStayEarned == Spec => []GrantedIsEarned
<1> DEFINE GInv == PoolsTyped /\ served \in [Players -> Seq(Nat)] /\ GrantInv
<1>1. Init => GInv
  <2> SUFFICES ASSUME Init PROVE GInv
    OBVIOUS
  <2>1. PoolsTyped /\ served \in [Players -> Seq(Nat)] /\ stash \in [Players -> [Catalog -> Nat]]
    BY DEF Init, PoolsTyped
  <2>2. \A a \in Players : ClaimedLinks(a) = {}
    BY DEF Init, ClaimedLinks, LinksFor
  <2>3. ASSUME NEW a \in Players, NEW c \in Catalog
        PROVE  stash[a][c] = Total(Earnings(a, c))
    <3>1. Earnings(a, c) \in [{} -> Nat]
      BY <2>2 DEF Earnings
    <3>2. SumOf(Earnings(a, c)) = 0
      BY <3>1, SumOfNothing
    <3>3. Total(Earnings(a, c)) = SumOf(Earnings(a, c))
      BY Zenon DEF Total, SumOf
    <3> QED
      BY <3>2, <3>3 DEF Init
  <2>4. ledger = {}
    BY DEF Init
  <2> QED
    BY <2>1, <2>2, <2>3, <2>4 DEF GrantInv
<1>2. TypeOK /\ GInv /\ [Next]_vars => GInv'
  BY GrantInductive, StepsLast, ServedTyped
<1>3. GInv => GrantedIsEarned
  <2> SUFFICES ASSUME GrantInv, NEW a \in Players, NEW c \in Catalog
               PROVE  stash[a][c] = Total([l \in {m \in LinksFor(a) : Claimed(m, a)} |-> EarnedRewards(l, a)[c]])
    BY DEF GrantedIsEarned
  <2>1. stash[a][c] = Total(Earnings(a, c))
    BY DEF GrantInv
  <2> QED
    BY <2>1 DEF Earnings, ClaimedLinks
<1>4. IInv => TypeOK
  BY DEF IInv
<1> HIDE DEF GInv
<1> QED
  BY <1>1, <1>2, <1>3, <1>4, InitInv, ExclusiveInductive, PTL DEF Spec
---------------------------------------------------------------------------
(* The lists the client polls *)

SamePair(i, j) == Pair(invites[i].sender, invites[i].target) = Pair(invites[j].sender, invites[j].target)

\* What the rows of one pair of accounts say, as a list that keeps the newest of them may trust:
\* an older invitation is answered and its link listed by nobody any more.
NoticeInv ==
    /\ \A i, j \in DOMAIN invites : (i < j /\ SamePair(i, j)) =>
        /\ ~Pending(i)
        /\ i \in DOMAIN links => \A a : ~Occupies(i, a)
    /\ \A l \in DOMAIN links :
        /\ links[l].slot[invites[l].sender] = invites[l].slot
        /\ ~links[l].canceled => invites[l].status = "ACCEPTED"

LEMMA NoticeImplied ==
    ASSUME TypeOK, SlotsExclusive, NoticeInv
    PROVE  NoticeShown
<1> SUFFICES ASSUME NEW a \in Players, NEW l \in ListedLinks(a)
             PROVE  /\ (invites[l].sender = a /\ l > expired) =>
                          l \in ListInvites(a) /\ NoticeStatus(l, a) = "ACCEPTED"
                    /\ \A i \in ListInvites(a) :
                          (invites[i].sender = a /\ invites[i].slot = links[l].slot[a]) =>
                             NoticeStatus(i, a) = "ACCEPTED"
  BY DEF NoticeShown
<1>1. /\ DOMAIN invites \subseteq Nat /\ DOMAIN links \subseteq DOMAIN invites /\ expired \in Nat
      /\ l \in DOMAIN invites /\ l \in DOMAIN links /\ Occupies(l, a)
  BY DEF TypeOK, ListedLinks
<1>2. NoticeStatus(l, a) = "ACCEPTED"
  BY <1>1 DEF NoticeInv, Occupies, NoticeStatus
<1>3. ASSUME invites[l].sender = a, l > expired
      PROVE  l \in ListInvites(a)
  <2>1. l \in NoticeRows(a)
    BY <1>1, <1>3 DEF NoticeRows
  <2>2. Newest(l, a)
    <3> SUFFICES ASSUME NEW j \in NoticeRows(a), Other(j, a) = Other(l, a), ~(j <= l)
                 PROVE  FALSE
      BY DEF Newest
    <3>1. j \in DOMAIN invites /\ l < j /\ a \in {invites[j].sender, invites[j].target}
      BY <1>1 DEF NoticeRows
    <3>2. SamePair(l, j)
      BY <1>3, <3>1 DEF Other, SamePair, Pair
    <3> QED
      BY <1>1, <3>1, <3>2 DEF NoticeInv
  <2>3. links[l].slot[a] = invites[l].slot
    BY <1>1, <1>3 DEF NoticeInv
  <2>4. \A m \in ListedLinks(a) : links[m].slot[a] = invites[l].slot => m = l
    BY <2>3 DEF SlotsExclusive
  <2>5. Kept(l, a)
    BY <1>3, <2>2, <2>4 DEF Kept
  <2>6. ASSUME NEW j \in NoticeRows(a), j > l, Kept(j, a), invites[j].sender = a
        PROVE  invites[j].slot # invites[l].slot
    <3>1. links[l].slot[a] = invites[j].slot => l = j
      BY <2>6 DEF Kept
    <3>2. j # l
      BY <1>1, <2>6 DEF NoticeRows
    <3> QED
      BY <2>3, <3>1, <3>2
  <2> QED
    BY <2>1, <2>5, <2>6 DEF ListInvites
<1>4. ASSUME NEW i \in ListInvites(a), invites[i].sender = a, invites[i].slot = links[l].slot[a]
      PROVE  i = l
  BY <1>4 DEF ListInvites, Kept
<1> QED
  BY <1>2, <1>3, <1>4

\* A step that lets go of sides and ends invitations keeps it.
LEMMA NoticeShrinking ==
    ASSUME TypeOK, NoticeInv, Shrinks,
           \A l \in DOMAIN links : ~links'[l].canceled => invites'[l].status = invites[l].status
    PROVE  NoticeInv'
<1>1. \A l \in DOMAIN links : \A a : (Occupies(l, a))' => Occupies(l, a)
    BY DEF Shrinks, Occupies
<1>2. \A i \in DOMAIN invites : (Pending(i))' => Pending(i)
  <2>1. expired \in Nat /\ \A i \in DOMAIN invites : i \in Nat
    BY DEF TypeOK
  <2> QED
    BY <2>1 DEF Shrinks, Pending
<1>3. \A i, j \in DOMAIN invites : (SamePair(i, j))' <=> SamePair(i, j)
  BY DEF Shrinks, SamePair
<1>4. ASSUME NEW i \in DOMAIN invites', NEW j \in DOMAIN invites', i < j, (SamePair(i, j))'
      PROVE  ~(Pending(i))' /\ (i \in DOMAIN links' => \A a : ~(Occupies(i, a))')
  <2>1. i \in DOMAIN invites /\ j \in DOMAIN invites /\ DOMAIN links' = DOMAIN links
    BY DEF Shrinks
  <2> QED
    BY <1>1, <1>2, <1>3, <1>4, <2>1 DEF NoticeInv
<1>5. ASSUME NEW l \in DOMAIN links'
      PROVE  /\ links'[l].slot[invites'[l].sender] = invites'[l].slot
             /\ ~links'[l].canceled => invites'[l].status = "ACCEPTED"
  <2>1. l \in DOMAIN links /\ l \in DOMAIN invites
    BY DEF Shrinks, TypeOK
  <2> QED
    BY <2>1 DEF NoticeInv, Shrinks
<1> QED
  BY <1>4, <1>5 DEF NoticeInv

LEMMA NoticeInvite ==
    ASSUME TypeOK, NoticeInv, NEW a, NEW b, NEW s, Invite(a, b, s)
    PROVE  NoticeInv'
<1> DEFINE n == Len(invites) + 1
<1>1. /\ Len(invites) \in Nat /\ DOMAIN invites = 1 .. Len(invites)
      /\ DOMAIN links \subseteq DOMAIN invites
      /\ \A l \in DOMAIN links : DOMAIN links[l].slot = Pair(invites[l].sender, invites[l].target)
  BY DEF TypeOK, LinkFor
<1>2. PICK row : /\ row.sender = a /\ row.target = b
                 /\ invites' = Append(invites, row) /\ UNCHANGED <<expired, links>>
                 /\ ~LinkedTo(a, b) /\ PendingBetween(a, b) = {}
  BY DEF Invite, MayInvite, linkVars
<1>3. /\ DOMAIN invites' = DOMAIN invites \cup {n} /\ n \notin DOMAIN invites
      /\ invites'[n] = row
      /\ \A i \in DOMAIN invites : invites'[i] = invites[i] /\ i < n
  BY <1>1, <1>2 DEF TypeOK
<1> HIDE DEF n
<1>4. ASSUME NEW i \in DOMAIN invites', NEW j \in DOMAIN invites', i < j, (SamePair(i, j))'
      PROVE  ~(Pending(i))' /\ (i \in DOMAIN links' => \A c : ~(Occupies(i, c))')
  <2>1. i \in DOMAIN invites /\ (j \in DOMAIN invites \/ j = n)
    <3>1. n \in Nat /\ DOMAIN invites \subseteq Nat
      BY <1>1 DEF n
    <3> QED
      BY <1>3, <1>4, <3>1
  <2>2. CASE j \in DOMAIN invites
    <3>1. SamePair(i, j)
      BY <1>3, <1>4, <2>1, <2>2 DEF SamePair
    <3>2. ~Pending(i) /\ (i \in DOMAIN links => \A c : ~Occupies(i, c))
      BY <1>4, <2>1, <2>2, <3>1 DEF NoticeInv
    <3> QED
      BY <1>2, <1>3, <2>1, <3>2 DEF Pending, Occupies
  <2>3. CASE j = n
    <3>1. Pair(invites[i].sender, invites[i].target) = Pair(a, b)
      BY <1>2, <1>3, <1>4, <2>1, <2>3 DEF SamePair
    <3>2. ~Pending(i)
      BY <1>2, <2>1, <3>1 DEF PendingBetween
    <3>3. ASSUME i \in DOMAIN links, NEW c
          PROVE  ~Occupies(i, c)
      <4>1. DOMAIN links[i].slot = Pair(a, b)
        BY <1>1, <3>1, <3>3
      <4>2. ~Occupies(i, a) /\ ~Occupies(i, b)
        BY <1>2, <3>3, <4>1 DEF LinkedTo
      <4> QED
        BY <4>1, <4>2 DEF Occupies, Pair
    <3> QED
      BY <1>2, <1>3, <2>1, <3>2, <3>3 DEF Pending, Occupies
  <2> QED
    BY <2>1, <2>2, <2>3
<1>5. ASSUME NEW l \in DOMAIN links'
      PROVE  /\ links'[l].slot[invites'[l].sender] = invites'[l].slot
             /\ ~links'[l].canceled => invites'[l].status = "ACCEPTED"
  BY <1>1, <1>2, <1>3 DEF NoticeInv
<1> QED
  BY <1>4, <1>5 DEF NoticeInv

LEMMA NoticeAccept ==
    ASSUME TypeOK, NoticeInv, NEW i \in DOMAIN invites, NEW s \in Slots, Accept(i, s)
    PROVE  NoticeInv'
<1>1. /\ i \notin DOMAIN links /\ DOMAIN links' = DOMAIN links \cup {i}
      /\ \A l \in DOMAIN links : links'[l] = links[l]
      /\ links'[i].slot[invites[i].sender] = invites[i].slot
      /\ invites' = [invites EXCEPT ![i].status = "ACCEPTED"] /\ UNCHANGED expired
  BY Formed
<1>2. Pending(i)
  BY DEF Accept
<1>3. /\ DOMAIN invites' = DOMAIN invites
      /\ \A j \in DOMAIN invites :
           /\ invites'[j].sender = invites[j].sender /\ invites'[j].target = invites[j].target
           /\ invites'[j].slot = invites[j].slot
           /\ invites'[j].status = IF j = i THEN "ACCEPTED" ELSE invites[j].status
  BY <1>1, Answered
<1>4. ASSUME NEW k \in DOMAIN invites', NEW j \in DOMAIN invites', k < j, (SamePair(k, j))'
      PROVE  ~(Pending(k))' /\ (k \in DOMAIN links' => \A a : ~(Occupies(k, a))')
  <2>1. SamePair(k, j) /\ k \in DOMAIN invites /\ j \in DOMAIN invites
    BY <1>3, <1>4 DEF SamePair
  <2>2. ~Pending(k) /\ (k \in DOMAIN links => \A a : ~Occupies(k, a))
    BY <1>4, <2>1 DEF NoticeInv
  <2>3. k # i
    BY <1>2, <2>2
  <2> QED
    BY <1>1, <1>3, <2>1, <2>2, <2>3 DEF Pending, Occupies
<1>5. ASSUME NEW l \in DOMAIN links'
      PROVE  /\ links'[l].slot[invites'[l].sender] = invites'[l].slot
             /\ ~links'[l].canceled => invites'[l].status = "ACCEPTED"
  <2>1. DOMAIN links \subseteq DOMAIN invites
    BY DEF TypeOK
  <2> QED
    BY <1>1, <1>3, <2>1 DEF NoticeInv
<1> QED
  BY <1>4, <1>5 DEF NoticeInv

\* The steps that let go leave the invitation of a link alone as long as the link stands.
LEMMA StandingStays ==
    ASSUME TypeOK, [Next]_vars
    PROVE  \/ \E ask \in Asks : Invite(ask[1], ask[2], ask[3])
           \/ \E i \in DOMAIN invites, s \in Slots : Accept(i, s)
           \/ \A l \in DOMAIN links : ~links'[l].canceled => invites'[l].status = invites[l].status
<1>0. DOMAIN links \subseteq DOMAIN invites /\ \A l \in DOMAIN links : links[l] \in LinkFor(invites[l])
  BY DEF TypeOK
<1>1. ASSUME NEW i \in DOMAIN invites, Decline(i), NEW l \in DOMAIN links
      PROVE  invites'[l].status = invites[l].status
  <2>1. invites' = [invites EXCEPT ![i].status = "CANCELED"] /\ l # i
    BY <1>1 DEF Decline, Pending, TypeOK
  <2> QED
    BY <1>0, <2>1, Answered
<1>2. ASSUME NEW a \in Players, NEW s \in Slots, CancelLink(a, s), NEW m \in DOMAIN links
      PROVE  ~links'[m].canceled => invites'[m].status = invites[m].status
  <2>1. PICK l \in DOMAIN links : /\ links' = [links EXCEPT ![l].canceled = TRUE]
                                  /\ invites' = [invites EXCEPT ![l].status = "CANCELED"]
    BY <1>2 DEF CancelLink, ResolveSide
  <2>2. links'[l].canceled
    BY <1>0, <2>1 DEF LinkFor
  <2>3. m # l => invites'[m] = invites[m]
    BY <1>0, <2>1
  <2> QED
    BY <2>2, <2>3
<1>3. ASSUME \/ \E pair \in friendly : Part(pair)
             \/ \E a \in Players, s \in Slots : ReleaseSide(a, s)
             \/ \E a \in Collectors, s \in Slots :
                  ConfirmLinkTrackRank(a, s) \/ GetRewardGrant(a, s) \/ \E p \in Pools : StoreRewardPools(a, s, p)
             \/ \E a \in Collectors : \E partners \in SUBSET {PartnerOf(l, a) : l \in LinksFor(a)}, e \in Events :
                  ApplyHuntPassXpToLinks(a, e, partners)
             \/ \E tx \in DOMAIN grants : ApplyLinkRewardGrant(tx)
             \/ ExpireInvite \/ EndLink \/ UNCHANGED vars
      PROVE  invites' = invites
  BY <1>3 DEF Part, ReleaseSide, ConfirmLinkTrackRank, GetRewardGrant, StoreRewardPools,
              ApplyHuntPassXpToLinks, ApplyLinkRewardGrant, ExpireInvite, EndLink, vars
<1> QED
  BY <1>1, <1>2, <1>3 DEF Next

LEMMA NoticeInductive ==
    ASSUME TypeOK, NoticeInv, [Next]_vars
    PROVE  NoticeInv'
  BY OtherStepsShrink, StandingStays, NoticeShrinking, NoticeInvite, NoticeAccept

\* An inviter whose link stands reads it as accepted in its invitations, and nothing it reads
\* names the slot of a link it lists as declined, cancelled or pending.
THEOREM NoticesStayShown == Spec => []NoticeShown
<1>1. Init => NoticeInv
  BY DEF Init, NoticeInv
<1>2. IInv /\ NoticeInv => NoticeShown
  BY NoticeImplied DEF IInv
<1>3. IInv => TypeOK
  BY DEF IInv
<1> QED
  BY <1>1, <1>2, <1>3, InitInv, ExclusiveInductive, NoticeInductive, PTL DEF Spec
=============================================================================
