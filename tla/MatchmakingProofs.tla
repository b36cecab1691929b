-------------------------- MODULE MatchmakingProofs --------------------------
(***************************************************************************)
(* What holds of parties for any players, any number of party ids and any  *)
(* size limit, and of the matchmaking on top of them for any hunts and any *)
(* queue size.                                                             *)
(***************************************************************************)
EXTENDS Matchmaking, InductionLemmas

----------------------------------------------------------------------------
(* Parties.  The five invariants are inductive together: that an           *)
(* invitation never addresses a member rests on the agreement of the maps, *)
(* and that on the leaders and types of the parties.                       *)

Good(s) == Typed(s) /\ Consistent(s) /\ Led(s) /\ Bounded(s) /\ Fresh(s)

(* A party that exists has a leader and so members; one that does not has  *)
(* neither.                                                                *)
LEMMA ExistingHasMembers ==
  ASSUME NEW s, Good(s), NEW k \in PartyId
  PROVE  /\ Exists(s, k) <=> Members(s, k) # {}
         /\ Exists(s, k) <=> s.parties[k].leader \in Player
         /\ Members(s, k) \subseteq Player
         /\ IsFiniteSet(Members(s, k)) /\ Cardinality(Members(s, k)) \in Nat
<1>1. s.parties[k] \in Party /\ Members(s, k) \subseteq Player
  BY DEF Good, Typed, Registry, Party, Members
<1>2. IsFiniteSet(Members(s, k)) /\ Cardinality(Members(s, k)) \in Nat
  BY <1>1, PlayerAssumption, FS_Subset, FS_CardinalityType
<1>3. Exists(s, k) <=> Members(s, k) # {}
  BY DEF Good, Led, Exists, Dissolved, Members
<1>4. Exists(s, k) <=> s.parties[k].leader \in Player
  <2>1. s.parties[k].leader \in Player \cup {NoPlayer}
    BY <1>1 DEF Party
  <2>2. s.parties[k].leader = NoPlayer <=> s.parties[k] = Dissolved
    BY DEF Good, Typed, Dissolved
  <2>. QED  BY <2>1, <2>2, PlayerAssumption DEF Exists
<1>. QED  BY <1>1, <1>2, <1>3, <1>4

(* A party of one keeps everything as it should be.                        *)
LEMMA CreatedKeeps ==
  ASSUME NEW s, Good(s), NEW p \in Player, NEW k \in PartyId,
         ~Exists(s, s.membership[p]), ~Exists(s, k)
  PROVE  Good(Created(s, p, k))
<1>. DEFINE t == Created(s, p, k)
<1>0. s.parties \in [PartyId -> Party] /\ s.membership \in [Player -> PartyId \cup {NoParty}]
      /\ s.invites \subseteq Invite
  BY DEF Good, Typed, Registry
<1>1. /\ t.parties = [s.parties EXCEPT ![k] = [leader |-> p, members |-> {p}]]
      /\ t.membership = [s.membership EXCEPT ![p] = k]
      /\ t.invites = s.invites
      /\ t \in Registry
  BY <1>0 DEF Created, Registry, Party, Good, Typed
<1>2. Members(s, k) = {} /\ \A j \in PartyId : p \notin Members(s, j)
  BY ExistingHasMembers DEF Good, Consistent
<1>. HIDE DEF t
<1>3. Typed(t)
  BY <1>0, <1>1, PlayerAssumption DEF Good, Typed
<1>4. Consistent(t)
  BY <1>0, <1>1, <1>2, IdAssumption DEF Good, Consistent, Members
<1>5. Led(t)
  BY <1>0, <1>1 DEF Good, Led, Exists, Members
<1>6. Bounded(t)
  <2>0. Cardinality({p}) = 1
    BY FS_Singleton, Zenon
  <2>1. Cardinality({p}) <= MAX_MEMBERS
    BY <2>0, SizeAssumption
  <2>2. \A j \in PartyId : Members(t, j) = IF j = k THEN {p} ELSE Members(s, j)
    BY <1>0, <1>1 DEF Members
  <2>. QED  BY <2>1, <2>2 DEF Good, Bounded
<1>7. \A i \in s.invites : i.party # k
  BY DEF Good, Fresh
<1>8. Fresh(t)
  BY <1>0, <1>1, <1>7 DEF Good, Fresh, Exists, Members
<1>. QED  BY <1>3, <1>4, <1>5, <1>6, <1>8 DEF Good, t

(* So does a departure, whoever of the others succeeds.  The player is     *)
(* then in no party, and the parties the player was not in are untouched.  *)
LEMMA LeftKeeps ==
  ASSUME NEW s, Good(s), NEW p \in Player, NEW next \in Successors(s, p)
  PROVE  /\ Good(Left(s, p, next))
         /\ Left(s, p, next).membership[p] = NoParty
         /\ \A j \in PartyId : j # s.membership[p] =>
              Left(s, p, next).parties[j] = s.parties[j]
<1>. DEFINE k == s.membership[p]
            rest == Members(s, k) \ {p}
            t == Left(s, p, next)
<1>0. s.parties \in [PartyId -> Party] /\ s.membership \in [Player -> PartyId \cup {NoParty}]
      /\ s.invites \subseteq Invite /\ s \in Registry
  BY DEF Good, Typed, Registry
<1>1. CASE ~Exists(s, k)
  <2>1. t = s
    BY <1>1 DEF Left
  <2>2. k = NoParty
    BY <1>0, <1>1, ExistingHasMembers DEF Good, Consistent
  <2>. QED  BY <2>1, <2>2
<1>2. CASE Exists(s, k)
  <2>. DEFINE heir == IF s.parties[k].leader = p THEN next ELSE s.parties[k].leader
              after == IF rest = {} THEN Dissolved ELSE [leader |-> heir, members |-> rest]
  <2>1. /\ t.parties = [s.parties EXCEPT ![k] = after]
        /\ t.membership = [s.membership EXCEPT ![p] = NoParty]
        /\ t.invites = IF rest = {} THEN {i \in s.invites : i.party # k} ELSE s.invites
    BY <1>2 DEF Left
  <2>2. k \in PartyId /\ p \in Members(s, k) /\ rest \subseteq Player
    BY <1>2, ExistingHasMembers DEF Exists, Good, Consistent
  <2>3. rest # {} => heir \in rest
    <3>1. Group(s, p) = Members(s, k)
      BY <1>2 DEF Group
    <3>2. rest # {} => next \in rest
      BY <3>1 DEF Successors
    <3>3. s.parties[k].leader \in Members(s, k)
      BY <1>2, <2>2 DEF Good, Led
    <3>. QED  BY <3>2, <3>3
  <2>4. after \in Party /\ after.members = rest
    BY <2>2, <2>3, PlayerAssumption DEF Party, Dissolved
  <2>5. after # Dissolved <=> rest # {}
    BY <2>3 DEF Dissolved
  <2>6. rest # {} => after.leader \in rest
    BY <2>3
  <2>7. t = [parties |-> t.parties, membership |-> t.membership, invites |-> t.invites]
    BY <1>2 DEF Left
  <2>8. Cardinality(rest) <= MAX_MEMBERS
    <3>1. IsFiniteSet(Members(s, k)) /\ Cardinality(Members(s, k)) \in Nat
      BY <2>2, ExistingHasMembers
    <3>2. IsFiniteSet(rest) /\ Cardinality(rest) <= Cardinality(Members(s, k))
      BY <3>1, FS_Subset
    <3>3. Cardinality(rest) \in Nat
      BY <3>2, FS_CardinalityType
    <3>4. Cardinality(Members(s, k)) <= MAX_MEMBERS
      BY <2>2 DEF Good, Bounded
    <3>. QED  BY <3>1, <3>2, <3>3, <3>4, SizeAssumption
  <2>. HIDE DEF t, after, rest, k
  <2>9. t \in Registry
    BY <1>0, <2>1, <2>2, <2>4, <2>7 DEF Registry
  <2>10. Typed(t)
    BY <1>0, <2>1, <2>4, <2>5, <2>6, <2>9, <2>2, PlayerAssumption DEF Typed, Good
  <2>11. \A j \in PartyId : Members(t, j) = IF j = k THEN rest ELSE Members(s, j)
    BY <1>0, <2>1, <2>2, <2>4 DEF Members
  <2>12. rest = Members(s, k) \ {p} /\ k = s.membership[p]
    BY DEF rest, k
  <2>13. Consistent(t)
    BY <1>0, <2>1, <2>2, <2>11, <2>12, IdAssumption DEF Good, Consistent
  <2>14. \A j \in PartyId : Exists(t, j) <=> IF j = k THEN rest # {} ELSE Exists(s, j)
    BY <1>0, <2>1, <2>2, <2>5 DEF Exists
  <2>15. Led(t)
    BY <1>0, <2>1, <2>2, <2>6, <2>11, <2>14 DEF Good, Led
  <2>16. Bounded(t)
    BY <2>8, <2>11 DEF Good, Bounded
  <2>17. Fresh(t)
    <3>. SUFFICES ASSUME NEW i \in t.invites
                  PROVE  Exists(t, i.party) /\ i.to \notin Members(t, i.party)
      BY DEF Fresh
    <3>1. i \in s.invites /\ i.party \in PartyId /\ (rest = {} => i.party # k)
      BY <1>0, <2>1 DEF Invite
    <3>2. Exists(s, i.party) /\ i.to \notin Members(s, i.party)
      BY <3>1 DEF Good, Fresh
    <3>. QED  BY <3>1, <3>2, <2>11, <2>12, <2>14
  <2>18. t.membership[p] = NoParty /\ \A j \in PartyId : j # k => t.parties[j] = s.parties[j]
    BY <1>0, <2>1, <2>2
  <2>. QED  BY <2>10, <2>13, <2>15, <2>16, <2>17, <2>18 DEF Good, t, k
<1>. QED  BY <1>1, <1>2

(* And an arrival in a party with room, by a player who is in no other.    *)
LEMMA EnteredKeeps ==
  ASSUME NEW s, Good(s), NEW p \in Player, NEW k \in PartyId,
         s.membership[p] = NoParty, Exists(s, k), Cardinality(Members(s, k)) < MAX_MEMBERS
  PROVE  Good(Entered(s, p, k))
<1>. DEFINE t == Entered(s, p, k)
            after == [leader |-> s.parties[k].leader, members |-> Members(s, k) \cup {p}]
<1>0. s.parties \in [PartyId -> Party] /\ s.membership \in [Player -> PartyId \cup {NoParty}]
      /\ s.invites \subseteq Invite
  BY DEF Good, Typed, Registry
<1>1. /\ t.parties = [s.parties EXCEPT ![k] = after]
      /\ t.membership = [s.membership EXCEPT ![p] = k]
      /\ t.invites = {i \in s.invites : i.to # p}
      /\ t = [parties |-> t.parties, membership |-> t.membership, invites |-> t.invites]
  BY DEF Entered
<1>2. after \in Party /\ after.leader \in after.members /\ after.leader \in Player
  <2>1. s.parties[k].leader \in Player /\ Members(s, k) \subseteq Player
    BY ExistingHasMembers
  <2>2. s.parties[k].leader \in Members(s, k)
    BY DEF Good, Led
  <2>. QED  BY <2>1, <2>2 DEF Party
<1>3. Cardinality(Members(s, k) \cup {p}) <= MAX_MEMBERS
  <2>1. IsFiniteSet(Members(s, k)) /\ Cardinality(Members(s, k)) \in Nat
    BY ExistingHasMembers
  <2>2. Cardinality(Members(s, k) \cup {p}) \in {Cardinality(Members(s, k)), Cardinality(Members(s, k)) + 1}
    BY <2>1, FS_AddElement
  <2>. QED  BY <2>1, <2>2, SizeAssumption
<1>4. after.members = Members(s, k) \cup {p} /\ after # Dissolved
  BY <1>2, PlayerAssumption DEF Dissolved
<1>. HIDE DEF t, after
<1>5. t \in Registry
  BY <1>0, <1>1, <1>2 DEF Registry
<1>6. Typed(t)
  BY <1>0, <1>1, <1>2, <1>5, PlayerAssumption DEF Typed, Good
<1>7. \A j \in PartyId : Members(t, j) = IF j = k THEN Members(s, k) \cup {p} ELSE Members(s, j)
  BY <1>0, <1>1, <1>4 DEF Members
<1>8. Consistent(t)
  BY <1>0, <1>1, <1>7, IdAssumption DEF Good, Consistent
<1>9. \A j \in PartyId : Exists(t, j) <=> j = k \/ Exists(s, j)
  BY <1>0, <1>1, <1>4 DEF Exists
<1>10. Led(t)
  BY <1>0, <1>1, <1>2, <1>4, <1>7, <1>9 DEF Good, Led
<1>11. Bounded(t)
  BY <1>3, <1>7 DEF Good, Bounded
<1>12. Fresh(t)
  <2>. SUFFICES ASSUME NEW i \in t.invites
                PROVE  Exists(t, i.party) /\ i.to \notin Members(t, i.party)
    BY DEF Fresh
  <2>1. i \in s.invites /\ i.party \in PartyId /\ i.to # p
    BY <1>0, <1>1 DEF Invite
  <2>2. Exists(s, i.party) /\ i.to \notin Members(s, i.party)
    BY <2>1 DEF Good, Fresh
  <2>. QED  BY <2>1, <2>2, <1>7, <1>9
<1>. QED  BY <1>6, <1>8, <1>10, <1>11, <1>12 DEF Good, t

(* Invitations alone change nothing about parties.                         *)
LEMMA InvitedKeeps ==
  ASSUME NEW s, Good(s), NEW I \in SUBSET Invite,
         \A i \in I : Exists(s, i.party) /\ i.to \notin Members(s, i.party)
  PROVE  Good([s EXCEPT !.invites = I])
<1>. DEFINE t == [s EXCEPT !.invites = I]
<1>1. t \in Registry /\ t.parties = s.parties /\ t.membership = s.membership /\ t.invites = I
  BY DEF Good, Typed, Registry
<1>. HIDE DEF t
<1>. QED
  BY <1>1 DEF Good, Typed, Consistent, Led, Bounded, Fresh, Exists, Members, t

IInv == Good(reg)

LEMMA InitGood == PartyInit => IInv
<1>. SUFFICES ASSUME PartyInit PROVE Good(reg)
  BY DEF IInv
<1>1. reg \in Registry
  BY PlayerAssumption DEF PartyInit, Registry, Party, Dissolved
<1>2. Typed(reg) /\ Consistent(reg) /\ Led(reg) /\ Fresh(reg)
  BY <1>1, IdAssumption DEF PartyInit, Typed, Consistent, Led, Fresh, Exists, Members, Dissolved
<1>3. Bounded(reg)
  BY FS_EmptySet, SizeAssumption DEF PartyInit, Bounded, Members, Dissolved
<1>. QED  BY <1>2, <1>3 DEF Good

LEMMA StepGood == IInv /\ [PartyNext]_reg => IInv'
<1>. SUFFICES ASSUME Good(reg), [PartyNext]_reg PROVE Good(reg')
  BY DEF IInv
<1>0. reg.invites \subseteq Invite /\ reg \in Registry
  BY DEF Good, Typed, Registry
<1>1. ASSUME NEW p \in Player, GetOrCreateParty(p) PROVE Good(reg')
  BY <1>1, CreatedKeeps DEF GetOrCreateParty
<1>2. ASSUME NEW p \in Player, LeaveParty(p) PROVE Good(reg')
  BY <1>2, LeftKeeps DEF LeaveParty
<1>3. ASSUME NEW p \in Player, NEW q \in Player, InviteToParty(p, q) PROVE Good(reg')
  <2>. DEFINE new == [party |-> reg.membership[p], from |-> p, to |-> q, expired |-> FALSE]
  <2>1. Exists(reg, new.party) /\ new.to \notin Members(reg, new.party) /\ new \in Invite
    BY <1>3 DEF InviteToParty, Leads, Exists, Invite
  <2>2. reg' = [reg EXCEPT !.invites = reg.invites \cup {new}]
    BY <1>3 DEF InviteToParty
  <2>3. reg.invites \cup {new} \in SUBSET Invite
    BY <1>0, <2>1
  <2>. HIDE DEF new
  <2>4. \A i \in reg.invites \cup {new} : Exists(reg, i.party) /\ i.to \notin Members(reg, i.party)
    BY <2>1 DEF Good, Fresh
  <2>. QED  BY <2>2, <2>3, <2>4, InvitedKeeps
<1>4. ASSUME NEW p \in Player, NEW q \in Player, KickPartyMember(p, q) PROVE Good(reg')
  BY <1>4, <1>2 DEF KickPartyMember
<1>5. ASSUME NEW p \in Player, NEW q \in Player, PromotePartyMember(p, q) PROVE Good(reg')
  <2>. DEFINE k == reg.membership[p]
              after == [leader |-> q, members |-> Members(reg, k)]
  <2>1. k \in PartyId /\ q \in Members(reg, k) /\ after \in Party
    BY <1>5, ExistingHasMembers DEF PromotePartyMember, Leads, Exists, Party
  <2>2. /\ reg'.parties = [reg.parties EXCEPT ![k] = after]
        /\ reg'.membership = reg.membership /\ reg'.invites = reg.invites
        /\ reg' \in Registry
    BY <1>0, <1>5, <2>1 DEF PromotePartyMember, Registry
  <2>3. after # Dissolved /\ after.leader = q /\ after.members = Members(reg, k)
    BY <2>1, PlayerAssumption DEF Dissolved
  <2>4. Exists(reg, k)
    BY <1>5 DEF PromotePartyMember, Leads
  <2>. HIDE DEF k, after
  <2>5. \A j \in PartyId : Members(reg', j) = Members(reg, j) /\ (Exists(reg', j) <=> Exists(reg, j))
    BY <1>0, <2>1, <2>2, <2>3, <2>4 DEF Registry, Members, Exists
  <2>6. Typed(reg')
    BY <1>0, <2>1, <2>2, <2>3, PlayerAssumption DEF Good, Typed, Registry
  <2>7. Led(reg')
    BY <1>0, <2>1, <2>2, <2>3, <2>5 DEF Good, Led, Registry
  <2>8. Consistent(reg') /\ Bounded(reg')
    BY <2>2, <2>5 DEF Good, Consistent, Bounded
  <2>9. Fresh(reg')
    BY <1>0, <2>2, <2>5 DEF Good, Fresh, Invite
  <2>. QED  BY <2>6, <2>7, <2>8, <2>9 DEF Good
<1>6. ASSUME NEW i \in reg.invites, InviteExpires(i) PROVE Good(reg')
  <2>. DEFINE old == [i EXCEPT !.expired = TRUE]
  <2>1. old \in Invite /\ old.party = i.party /\ old.to = i.to
    BY <1>0 DEF Invite
  <2>2. reg' = [reg EXCEPT !.invites = (reg.invites \ {i}) \cup {old}]
    BY <1>6 DEF InviteExpires
  <2>. HIDE DEF old
  <2>3. \A j \in (reg.invites \ {i}) \cup {old} :
          Exists(reg, j.party) /\ j.to \notin Members(reg, j.party)
    BY <2>1 DEF Good, Fresh
  <2>. QED  BY <1>0, <2>1, <2>2, <2>3, InvitedKeeps
<1>7. ASSUME NEW i \in reg.invites, NEW p \in Player, AcceptPartyInvite(p, i) PROVE Good(reg')
  <2>1. i.party \in PartyId
    BY <1>0 DEF Invite
  <2>2. Exists(reg, i.party) /\ reg.membership[p] # i.party
        /\ Cardinality(Members(reg, i.party)) < MAX_MEMBERS
    BY <1>7 DEF AcceptPartyInvite, Acceptable
  <2>3. PICK next \in Successors(reg, p) : reg' = Entered(Left(reg, p, next), p, i.party)
    BY <1>7 DEF AcceptPartyInvite
  <2>. DEFINE s == Left(reg, p, next)
  <2>4. Good(s) /\ s.membership[p] = NoParty /\ s.parties[i.party] = reg.parties[i.party]
    BY <2>1, <2>2, LeftKeeps
  <2>. HIDE DEF s
  <2>5. Exists(s, i.party) /\ Cardinality(Members(s, i.party)) < MAX_MEMBERS
    BY <2>2, <2>4 DEF Exists, Members
  <2>6. reg' = Entered(s, p, i.party)
    BY <2>3 DEF s
  <2>. QED  BY <2>1, <2>4, <2>5, <2>6, EnteredKeeps
<1>8. CASE UNCHANGED reg
  BY <1>8
<1>. QED  BY <1>1, <1>2, <1>3, <1>4, <1>5, <1>6, <1>7, <1>8 DEF PartyNext

(* No sequence of invitations, accepts, kicks, promotions and departures   *)
(* breaks any of the five invariants.                                      *)
THEOREM PartiesGood == PartySpec => []IInv
<1>. QED  BY InitGood, StepGood, PTL DEF PartySpec

----------------------------------------------------------------------------
(* The maps keep their types, and every party that exists has a leader.    *)
THEOREM TypeCorrect == PartySpec => []PartyTypeOK
<1>1. IInv => PartyTypeOK
  BY DEF IInv, Good, PartyTypeOK
<1>. QED  BY <1>1, PartiesGood, PTL

(* Nobody is in two parties, whatever moves from party to party.           *)
THEOREM NobodyInTwoParties == PartySpec => []MembershipConsistent
<1>1. IInv => MembershipConsistent
  BY DEF IInv, Good, MembershipConsistent
<1>. QED  BY <1>1, PartiesGood, PTL

(* Every party is led by one of its members.                               *)
THEOREM LedFromWithin == PartySpec => []LeaderIsMember
<1>1. IInv => LeaderIsMember
  BY DEF IInv, Good, LeaderIsMember
<1>. QED  BY <1>1, PartiesGood, PTL

(* No party outgrows the places of a hunt.                                 *)
THEOREM NeverTooLarge == PartySpec => []SizeBounded
<1>1. IInv => SizeBounded
  BY DEF IInv, Good, SizeBounded
<1>. QED  BY <1>1, PartiesGood, PTL

(* An invitation neither outlives its party nor addresses a member of it.  *)
THEOREM InvitationsFresh == PartySpec => []InvitesFresh
<1>1. IInv => InvitesFresh
  BY DEF IInv, Good, InvitesFresh
<1>. QED  BY <1>1, PartiesGood, PTL

(* All of it: what matchmaking relies on when it asks for a group.         *)
THEOREM PartiesStaySound == PartySpec => []PartiesSound
<1>1. IInv => PartiesSound
  BY DEF IInv, Good, PartiesSound, MembershipConsistent, LeaderIsMember, SizeBounded, InvitesFresh
<1>. QED  BY <1>1, PartiesGood, PTL

----------------------------------------------------------------------------
(* Matchmaking implements Parties: whatever joins, launches, queues and    *)
(* cancellations do in between, the parties change only by an operation of *)
(* party.ts.  What is proved of Parties holds of Matchmaking with it.      *)

LEMMA MatchmakingStepsAreParties == [Next]_vars => [PartyNext]_reg
<1>. SUFFICES ASSUME [Next]_vars PROVE PartyNext \/ UNCHANGED reg
  OBVIOUS
<1>1. ASSUME NEW p \in Player, NEW h \in Hunt, QueuePlayers(p, h) \/ LaunchNow(p, h)
      PROVE  UNCHANGED reg
  BY <1>1 DEF QueuePlayers, LaunchNow
<1>2. ASSUME NEW p \in Player, NEW ok \in BOOLEAN, LaunchDone(p, ok) PROVE UNCHANGED reg
  BY <1>2 DEF LaunchDone
<1>3. ASSUME NEW h \in Hunt, Ages(h) \/ \E ok \in BOOLEAN : PopQueue(h, ok)
      PROVE  UNCHANGED reg
  BY <1>3 DEF Ages, PopQueue
<1>4. ASSUME NEW p \in Player, CandidateStatus(p) \/ RetryAccept(p) PROVE UNCHANGED reg
  BY <1>4 DEF CandidateStatus, RetryAccept
<1>5. ASSUME NEW p \in Player, SendPartyState(p) \/ Leave(p) PROVE PartyNext
  BY <1>5 DEF SendPartyState, Leave, PartyNext
<1>6. ASSUME NEW p \in Player, NEW q \in Player, InviteOrPromote(p, q) \/ Kick(p, q)
      PROVE  PartyNext
  BY <1>6 DEF InviteOrPromote, Kick, PartyNext
<1>7. ASSUME NEW i \in reg.invites, InvitationExpires(i) \/ \E p \in Player : Accept(p, i)
      PROVE  PartyNext
  BY <1>7 DEF InvitationExpires, Accept, PartyNext
<1>8. CASE UNCHANGED vars
  BY <1>8 DEF vars
<1>. QED  BY <1>1, <1>2, <1>3, <1>4, <1>5, <1>6, <1>7, <1>8 DEF Next

(* Matchmaking never changes a party but by a request for it: the detailed *)
(* specification implements the one of Parties.                            *)
THEOREM MatchmakingRefinesParties == Spec => PartySpec
<1>1. Init => PartyInit
  BY DEF Init
<1>. QED  BY <1>1, MatchmakingStepsAreParties, PTL DEF Spec, PartySpec

(* While players queue, launch, cancel and move between parties, the maps  *)
(* of parties agree, leaders are members, nothing outgrows its places and  *)
(* invitations are fresh, for any players, hunts and bounds.               *)
THEOREM MatchmakingKeepsParties == Spec => []PartiesSound
<1>. QED  BY MatchmakingRefinesParties, PartiesStaySound, PTL

----------------------------------------------------------------------------
(* Who waits.  A cancelled candidate takes every player of its group out   *)
(* of the queue and of the wait at once, so that nobody waits without a    *)
(* place; and whoever enters or leaves a party cancels for all of it, so   *)
(* that nobody waits with another group.                                   *)

ResultOK(r) ==
  /\ r \in Result
  /\ r.status = "none" <=> r = NoResult
  /\ r.status = "ready" <=> r.world # NoHunt
  /\ r.status # "none" => r.hunt \in Hunt

QueueOK(q) == q \in Queue /\ (q.players = {} => q = NoQueue)

(* Results and queues s are typed, and whoever waits has a place.          *)
Placed(s) ==
  /\ s \in [result : [Player -> Result], queue : [Hunt -> Queue]]
  /\ \A p \in Player : ResultOK(s.result[p])
  /\ \A h \in Hunt : QueueOK(s.queue[h])
  /\ \A p \in Player :
       s.result[p].status = "waiting" => p \in s.queue[s.result[p].hunt].players

Now == [result |-> result, queue |-> queue]

LaunchOK(l) == l = NoLaunch \/ (l.players \subseteq Player /\ l.hunt \in Hunt)

WaitInv ==
  /\ IInv
  /\ Placed(Now)
  /\ direct \in [Player -> [players : SUBSET Player, hunt : Hunt \cup {NoHunt}]]
  /\ \A p \in Player : LaunchOK(direct[p])
  /\ joins \in 0 .. MAX_JOINS
  /\ \A p \in Player : Waits(p) => result[p].mates = Group(reg, p)

(* No result, and a queue that is absent, are what they should be.         *)
LEMMA Absent ==
  /\ NoResult \in Result /\ ResultOK(NoResult) /\ NoResult.status = "none"
  /\ NoQueue \in Queue /\ QueueOK(NoQueue)
BY HuntAssumption DEF NoResult, NoQueue, Result, Queue, ResultOK, QueueOK

(* Cancelling p's candidate leaves everybody who still waits in place.     *)
LEMMA CancelledKeeps ==
  ASSUME NEW s, Placed(s), NEW p \in Player
  PROVE  /\ Placed(Cancelled(s, p))
         /\ Cancelled(s, p).result[p].status # "waiting"
         /\ \A q \in Player : Cancelled(s, p).result[q] \in {s.result[q], NoResult}
<1>. DEFINE r == s.result[p]
            left == [q \in Player |-> IF s.result[q].mates = r.mates THEN NoResult ELSE s.result[q]]
            kept == {q \in s.queue[r.hunt].players : left[q] # NoResult}
            t == Cancelled(s, p)
<1>1. ResultOK(r) /\ s.result \in [Player -> Result] /\ s.queue \in [Hunt -> Queue]
  BY DEF Placed
<1>2. CASE r.status \in {"none", "ready"}
  BY <1>2 DEF Cancelled
<1>3. CASE r.status \notin {"none", "ready"}
  <2>1. r.hunt \in Hunt /\ r.status \in {"waiting", "failed"}
    BY <1>1, <1>3 DEF ResultOK, Result
  <2>2. t = [result |-> left,
             queue |-> IF s.queue[r.hunt].resolved THEN s.queue
                       ELSE [s.queue EXCEPT ![r.hunt] =
                               IF kept = {} THEN NoQueue ELSE [@ EXCEPT !.players = kept]]]
    BY <1>3 DEF Cancelled
  <2>3. left \in [Player -> Result] /\ \A q \in Player : left[q] \in {s.result[q], NoResult}
    BY <1>1, Absent
  <2>4. left[p] = NoResult
    OBVIOUS
  <2>5. \A q \in Player : ResultOK(left[q])
    BY <2>3, Absent DEF Placed
  <2>6. QueueOK(s.queue[r.hunt]) /\ s.queue[r.hunt] \in Queue
    BY <2>1 DEF Placed, QueueOK
  <2>7. \A q \in Player : left[q].status = "waiting" =>
          /\ left[q] = s.result[q] /\ left[q] # NoResult /\ left[q].hunt \in Hunt
          /\ q \in s.queue[left[q].hunt].players
    BY <2>3, Absent DEF Placed, ResultOK
  <2>. HIDE DEF left
  <2>8. t.queue \in [Hunt -> Queue] /\ \A h \in Hunt : QueueOK(t.queue[h])
    <3>1. [s.queue[r.hunt] EXCEPT !.players = kept] \in Queue
      BY <2>6 DEF Queue
    <3>2. kept # {} => QueueOK([s.queue[r.hunt] EXCEPT !.players = kept])
      BY <2>6, <3>1 DEF Queue, QueueOK
    <3>. HIDE DEF kept, r
    <3>. QED  BY <1>1, <2>1, <2>2, <3>1, <3>2, Absent DEF Placed
  <2>9. ASSUME NEW q \in Player, left[q].status = "waiting"
        PROVE  q \in t.queue[left[q].hunt].players
    <3>1. CASE left[q].hunt # r.hunt \/ s.queue[r.hunt].resolved
      <4>. HIDE DEF kept, r
      <4>1. left[q].hunt \in Hunt /\ q \in s.queue[left[q].hunt].players
        BY <2>7, <2>9
      <4>2. t.queue[left[q].hunt] = s.queue[left[q].hunt]
        BY <1>1, <2>1, <2>2, <3>1, <4>1
      <4>. QED  BY <4>1, <4>2
    <3>2. CASE left[q].hunt = r.hunt /\ ~s.queue[r.hunt].resolved
      <4>1. q \in kept
        BY <2>7, <2>9, <3>2
      <4>2. t.queue[r.hunt] = [s.queue[r.hunt] EXCEPT !.players = kept]
        <5>. HIDE DEF kept, r
        <5>. QED  BY <1>1, <2>1, <2>2, <3>2, <4>1
      <4>3. t.queue[r.hunt].players = kept
        BY <2>6, <4>2 DEF Queue
      <4>. QED  BY <3>2, <4>1, <4>3
    <3>. QED  BY <3>1, <3>2
  <2>10. t \in [result : [Player -> Result], queue : [Hunt -> Queue]] /\ t.result = left
    <3>. HIDE DEF kept, r
    <3>. QED  BY <2>2, <2>3, <2>8
  <2>. HIDE DEF t
  <2>11. Placed(t)
    BY <2>5, <2>8, <2>9, <2>10 DEF Placed
  <2>. QED  BY <2>3, <2>4, <2>10, <2>11, Absent DEF t
<1>. QED  BY <1>2, <1>3

(* A sequence of all elements of a finite set has each of them somewhere.  *)
LEMMA OrderCovers ==
  ASSUME NEW S, IsFiniteSet(S), NEW order \in SetToSeqs(S)
  PROVE  /\ Cardinality(S) \in Nat /\ order \in Seq(S) /\ Len(order) = Cardinality(S)
         /\ \A x \in S : \E i \in 1 .. Len(order) : order[i] = x
<1>. DEFINE D == 1 .. Cardinality(S)
<1>1. Cardinality(S) \in Nat
  BY FS_CardinalityType
<1>2. order \in [D -> S] /\ \A i, j \in D : i # j => order[i] # order[j]
  BY DEF SetToSeqs
<1>3. order \in Injection(D, S)
  BY <1>2 DEF Injection, IsInjective
<1>4. IsFiniteSet(D) /\ Cardinality(D) = Cardinality(S)
  BY <1>1, FS_Interval
<1>5. order \in Surjection(D, S)
  <2>. HIDE DEF D
  <2>. QED  BY <1>3, <1>4, FS_Injection
<1>6. \A x \in S : \E i \in D : order[i] = x
  BY <1>5 DEF Surjection
<1>7. order \in Seq(S) /\ Len(order) = Cardinality(S)
  BY <1>1, <1>2
<1>. QED  BY <1>1, <1>6, <1>7

(* After the candidates of all of S are cancelled nobody in S waits, and   *)
(* nobody else waits for anything new or has lost the place in the queue.  *)
LEMMA CancelKeeps ==
  ASSUME Placed(Now), NEW S \in SUBSET Player, Cancel(S)
  PROVE  /\ Placed(Now)'
         /\ \A p \in S : ~Waits(p)'
         /\ \A p \in Player : result'[p] \in {result[p], NoResult}
<1>1. PICK order \in SetToSeqs(S) :
        LET s == FoldLeft(Cancelled, [result |-> result, queue |-> queue], order) IN
          result' = s.result /\ queue' = s.queue
  BY DEF Cancel
<1>. DEFINE n == Len(order)
            V == {s \in [result : [Player -> Result], queue : [Hunt -> Queue]] : Placed(s)}
            G == [x \in V \X (1 .. n) |-> Cancelled(x[1], order[x[2]])]
            Body(it) == [q \in SUBSET (1 .. n) |->
                           IF q = {} THEN Now
                           ELSE Cancelled(it[q \ {LargestOf(q)}], order[LargestOf(q)])]
            done == CHOOSE it : it = Body(it)
<1>2. /\ n \in Nat /\ DOMAIN order = 1 .. n /\ \A i \in 1 .. n : order[i] \in Player
      /\ \A x \in S : \E i \in 1 .. n : order[i] = x
  <2>1. IsFiniteSet(S)
    BY PlayerAssumption, FS_Subset
  <2>. QED  BY <2>1, OrderCovers
<1>3. result' = done[1 .. n].result /\ queue' = done[1 .. n].queue
  <2>1. FoldLeft(Cancelled, Now, order) = done[1 .. n]
    BY <1>2, Zenon DEF FoldLeft, MapThenFoldSet, Max, LargestOf
  <2>. QED  BY <1>1, <2>1 DEF Now
<1>4. Chooses(LastOf(n), 1 .. n) /\ IsFiniteSet(1 .. n)
  BY <1>2, LastOfChooses
<1>5. done = Body(done)
  <2>1. Now \in V /\ G \in [V \X (1 .. n) -> V]
    <3>1. ASSUME NEW s \in V, NEW i \in 1 .. n PROVE Cancelled(s, order[i]) \in V
      <4>1. Placed(Cancelled(s, order[i]))
        BY <1>2, CancelledKeeps
      <4>. QED  BY <4>1 DEF Placed
    <3>2. Now \in V
      BY DEF Placed
    <3>. HIDE DEF V
    <3>. QED  BY <3>1, <3>2
  <2>2. PICK f : IsFold(f, 1 .. n, LastOf(n), V, Now, G)
    <3>. HIDE DEF G, V
    <3>. QED  BY <1>4, <2>1, FoldExists
  <2>3. f = Body(f)
    <3>. HIDE DEF V
    <3>. QED  BY <2>2, <1>4 DEF IsFold, LastOf, Chooses
  <2>. HIDE DEF Body
  <2>. QED  BY <2>3
<1>. HIDE DEF done
<1>. DEFINE Q == {q \in SUBSET (1 .. n) :
                    /\ Placed(done[q])
                    /\ \A p \in Player : done[q].result[p] \in {result[p], NoResult}
                    /\ \A i \in q : done[q].result[order[i]].status # "waiting"}
<1>6. {} \in Q
  <2>1. done[{}] = Now
    BY <1>5
  <2>. QED  BY <2>1 DEF Now
<1>7. ASSUME NEW q \in SUBSET (1 .. n), q # {}, q \ {LastOf(n)[q]} \in Q
      PROVE  q \in Q
  <2>. DEFINE i == LargestOf(q)
              before == done[q \ {i}]
              after == done[q]
  <2>1. LastOf(n)[q] = i /\ i \in q
    BY <1>4, <1>7 DEF LastOf, Chooses
  <2>2. /\ Placed(before)
        /\ \A p \in Player : before.result[p] \in {result[p], NoResult}
        /\ \A j \in q \ {i} : before.result[order[j]].status # "waiting"
    BY <1>7, <2>1
  <2>3. after = Cancelled(before, order[i])
    BY <1>5, <1>7
  <2>. HIDE DEF i, before, after
  <2>4. order[i] \in Player
    BY <1>2, <2>1
  <2>5. /\ Placed(after)
        /\ after.result[order[i]].status # "waiting"
        /\ \A p \in Player : after.result[p] \in {before.result[p], NoResult}
    BY <2>2, <2>3, <2>4, CancelledKeeps
  <2>6. \A p \in Player : after.result[p] \in {result[p], NoResult}
    BY <2>2, <2>5
  <2>7. ASSUME NEW j \in q PROVE after.result[order[j]].status # "waiting"
    <3>1. CASE j = i
      BY <2>5, <3>1
    <3>2. CASE j # i
      BY <1>2, <2>2, <2>5, <3>2, Absent
    <3>. QED  BY <3>1, <3>2
  <2>. QED  BY <2>5, <2>6, <2>7 DEF after
<1>8. 1 .. n \in Q
  <2>1. 1 .. n \in SUBSET (1 .. n)
    OBVIOUS
  <2>. HIDE DEF Q, n
  <2>. QED  BY <1>4, <1>6, <1>7, <2>1, SubsetInduction, Zenon
<1>9. Now' = done[1 .. n]
  BY <1>3, <1>8 DEF Now, Placed
<1>. QED  BY <1>2, <1>3, <1>8, <1>9 DEF Waits

(* A player is of the own group, and its group is that of all of it.       *)
LEMMA GroupShared ==
  ASSUME NEW s, Good(s), NEW p \in Player
  PROVE  /\ Group(s, p) \subseteq Player /\ p \in Group(s, p)
         /\ \A q \in Group(s, p) : Group(s, q) = Group(s, p)
<1>1. s.membership[p] \in PartyId \cup {NoParty}
  BY DEF Good, Typed, Registry
<1>2. CASE Exists(s, s.membership[p])
  <2>1. s.membership[p] \in PartyId
    BY <1>2 DEF Exists
  <2>2. Members(s, s.membership[p]) \subseteq Player /\ p \in Members(s, s.membership[p])
    BY <2>1, ExistingHasMembers DEF Good, Consistent
  <2>3. \A q \in Members(s, s.membership[p]) : s.membership[q] = s.membership[p]
    BY <2>1, <2>2 DEF Good, Consistent
  <2>. QED  BY <1>2, <2>2, <2>3 DEF Group
<1>3. CASE ~Exists(s, s.membership[p])
  BY <1>3 DEF Group
<1>. QED  BY <1>2, <1>3

(* A group changes only with the player's membership or party.             *)
LEMMA GroupKept ==
  ASSUME NEW s, NEW t, NEW q, t.membership[q] = s.membership[q],
         s.membership[q] \in PartyId => t.parties[s.membership[q]] = s.parties[s.membership[q]]
  PROVE  Group(t, q) = Group(s, q)
BY DEF Group, Exists, Members

(* Whose group an operation of party.ts can change.                        *)
LEMMA GroupsAfterCreated ==
  ASSUME NEW s, Good(s), NEW p \in Player, NEW k \in PartyId,
         ~Exists(s, s.membership[p]), ~Exists(s, k), NEW q \in Player
  PROVE  Group(Created(s, p, k), q) = Group(s, q)
<1>. DEFINE t == Created(s, p, k)
<1>1. /\ s.parties \in [PartyId -> Party] /\ s.membership \in [Player -> PartyId \cup {NoParty}]
      /\ t.parties = [s.parties EXCEPT ![k] = [leader |-> p, members |-> {p}]]
      /\ t.membership = [s.membership EXCEPT ![p] = k]
  BY DEF Created, Good, Typed, Registry
<1>. HIDE DEF t
<1>2. CASE q = p
  <2>1. Group(s, q) = {p}
    BY <1>2 DEF Group
  <2>2. t.membership[q] = k /\ t.parties[k] = [leader |-> p, members |-> {p}]
    BY <1>1, <1>2
  <2>3. Exists(t, k) /\ Members(t, k) = {p}
    BY <2>2 DEF Exists, Dissolved, Members
  <2>. QED  BY <2>1, <2>2, <2>3 DEF Group, t
<1>3. CASE q # p
  <2>1. t.membership[q] = s.membership[q]
    BY <1>1, <1>3
  <2>2. CASE s.membership[q] = k
    <3>1. q \in Members(s, k) /\ Members(s, k) # {}
      BY <2>2 DEF Good, Consistent
    <3>. QED  BY <3>1, ExistingHasMembers
  <2>3. CASE s.membership[q] # k
    BY <1>1, <2>1, <2>3, GroupKept DEF t
  <2>. QED  BY <2>2, <2>3
<1>. QED  BY <1>2, <1>3

LEMMA GroupsAfterLeft ==
  ASSUME NEW s, Good(s), NEW p \in Player, NEW next \in Successors(s, p),
         NEW q \in Player, q \notin Group(s, p)
  PROVE  Group(Left(s, p, next), q) = Group(s, q)
<1>. DEFINE k == s.membership[p]
            t == Left(s, p, next)
<1>0. s.membership \in [Player -> PartyId \cup {NoParty}] /\ q # p
  BY GroupShared DEF Good, Typed, Registry
<1>1. CASE ~Exists(s, k)
  BY <1>1 DEF Left
<1>2. CASE Exists(s, k)
  <2>1. t.membership = [s.membership EXCEPT ![p] = NoParty]
    BY <1>2 DEF Left
  <2>2. t.membership[q] = s.membership[q]
    BY <1>0, <2>1
  <2>3. s.membership[q] # k
    BY <1>2 DEF Group, Good, Consistent, Exists
  <2>4. \A j \in PartyId : j # k => t.parties[j] = s.parties[j]
    BY LeftKeeps
  <2>. HIDE DEF t, k
  <2>. QED  BY <2>2, <2>3, <2>4, GroupKept DEF t
<1>. QED  BY <1>1, <1>2

LEMMA GroupsAfterEntered ==
  ASSUME NEW s, Good(s), NEW p \in Player, NEW k \in PartyId,
         NEW q \in Player, q # p, q \notin Members(s, k)
  PROVE  Group(Entered(s, p, k), q) = Group(s, q)
<1>1. /\ s.parties \in [PartyId -> Party]
      /\ s.membership \in [Player -> PartyId \cup {NoParty}] /\ s.membership[q] # k
  BY DEF Good, Typed, Registry, Consistent
<1>2. /\ Entered(s, p, k).membership[q] = s.membership[q]
      /\ \A j \in PartyId : j # k => Entered(s, p, k).parties[j] = s.parties[j]
  BY <1>1 DEF Entered
<1>. QED  BY <1>1, <1>2, GroupKept

(* An invitation, its end and a promotion leave every group as it is.      *)
LEMMA GroupsAfterInviteOrPromote ==
  ASSUME Good(reg), NEW p \in Player, NEW r \in Player, NEW i,
         \/ InviteToParty(p, r) \/ PromotePartyMember(p, r) \/ InviteExpires(i),
         NEW q \in Player
  PROVE  Group(reg', q) = Group(reg, q)
<1>1. reg \in Registry
  BY DEF Good, Typed
<1>2. CASE InviteToParty(p, r) \/ InviteExpires(i)
  BY <1>1, <1>2, GroupKept DEF InviteToParty, InviteExpires, Registry
<1>3. CASE PromotePartyMember(p, r)
  <2>. DEFINE k == reg.membership[p]
  <2>1. /\ k \in PartyId /\ Exists(reg, k)
        /\ reg'.membership = reg.membership
        /\ reg'.parties = [reg.parties EXCEPT ![k] = [leader |-> r, members |-> Members(reg, k)]]
        /\ reg.parties \in [PartyId -> Party] /\ reg.membership \in [Player -> PartyId \cup {NoParty}]
    BY <1>1, <1>3 DEF PromotePartyMember, Leads, Exists, Registry
  <2>. HIDE DEF k
  <2>2. CASE reg.membership[q] = k
    <3>1. Members(reg', k) = Members(reg, k) /\ Exists(reg', k)
      BY <2>1, PlayerAssumption DEF Members, Exists, Dissolved
    <3>. QED  BY <2>1, <2>2, <3>1 DEF Group
  <2>3. CASE reg.membership[q] # k
    BY <2>1, <2>3, GroupKept
  <2>. QED  BY <2>2, <2>3
<1>. QED  BY <1>2, <1>3

(* Nobody starts to wait, and whoever still does has the same group.       *)
LEMMA WaitersKept ==
  ASSUME WaitInv, IInv', Placed(Now)', UNCHANGED <<direct, joins>>,
         \A p \in Player : Waits(p)' => result'[p] = result[p] /\ Group(reg', p) = Group(reg, p)
  PROVE  WaitInv'
BY DEF WaitInv, Waits

LEMMA QueuePlayersKeeps ==
  ASSUME WaitInv, NEW p \in Player, NEW h \in Hunt, QueuePlayers(p, h)
  PROVE  WaitInv'
<1>. DEFINE group == Group(reg, p)
            players == queue[h].players \cup group
            entry == [mates |-> group, hunt |-> h, status |-> "waiting", world |-> NoHunt]
            place == [players |-> players, aged |-> FALSE, resolved |-> Cardinality(players) = QUEUE_SIZE]
<1>1. group \subseteq Player /\ p \in group /\ \A q \in group : Group(reg, q) = group
  BY GroupShared DEF WaitInv, IInv
<1>2. /\ result' = [q \in Player |-> IF q \in group THEN entry ELSE result[q]]
      /\ queue' = [queue EXCEPT ![h] = place]
      /\ UNCHANGED <<reg, direct>> /\ joins' = joins + 1 /\ joins < MAX_JOINS
  BY DEF QueuePlayers, MayAsk
<1>3. /\ result \in [Player -> Result] /\ queue \in [Hunt -> Queue]
      /\ \A q \in Player : ResultOK(result[q]) /\ (Waits(q) => q \in queue[result[q].hunt].players)
      /\ \A k \in Hunt : QueueOK(queue[k])
  BY DEF WaitInv, Placed, Now, Waits
<1>4. entry \in Result /\ ResultOK(entry)
  BY <1>1, HuntAssumption DEF Result, ResultOK, NoResult
<1>5. place \in Queue /\ QueueOK(place)
  BY <1>1, <1>3 DEF Queue, QueueOK
<1>. HIDE DEF entry, place, group, players
<1>6. /\ result' \in [Player -> Result] /\ queue' \in [Hunt -> Queue]
      /\ \A q \in Player : ResultOK(result'[q])
      /\ \A k \in Hunt : QueueOK(queue'[k])
  BY <1>2, <1>3, <1>4, <1>5
<1>7. ASSUME NEW q \in Player, result'[q].status = "waiting"
      PROVE  /\ q \in queue'[result'[q].hunt].players
             /\ result'[q].mates = Group(reg, q)
  <2>1. queue'[h].players = queue[h].players \cup group
    BY <1>2, <1>3 DEF place, players
  <2>2. CASE q \in group
    <3>1. result'[q] = entry
      BY <1>2, <2>2
    <3>2. entry.hunt = h /\ entry.mates = group
      BY DEF entry
    <3>. QED  BY <1>1, <2>1, <2>2, <3>1, <3>2
  <2>3. CASE q \notin group
    <3>1. result'[q] = result[q] /\ Waits(q) /\ result[q].hunt \in Hunt
      BY <1>2, <1>3, <1>7, <2>3 DEF Waits, ResultOK
    <3>2. q \in queue[result[q].hunt].players /\ result[q].mates = Group(reg, q)
      BY <1>3, <3>1 DEF WaitInv
    <3>3. CASE result[q].hunt = h
      BY <2>1, <3>1, <3>2, <3>3
    <3>4. CASE result[q].hunt # h
      BY <1>2, <1>3, <3>1, <3>2, <3>4
    <3>. QED  BY <3>2, <3>1, <3>3, <3>4
  <2>. QED  BY <2>2, <2>3
<1>8. Placed(Now)'
  BY <1>6, <1>7 DEF Placed, Now
<1>9. joins' \in 0 .. MAX_JOINS
  BY <1>2, QueueAssumption DEF WaitInv
<1>. QED  BY <1>2, <1>7, <1>8, <1>9 DEF WaitInv, IInv, Waits

(* The outcome of a launch ends the wait of those it is written for.       *)
LEMMA Launched ==
  ASSUME NEW r, r \in Result, r.hunt \in Hunt, NEW h \in Hunt, NEW ok \in BOOLEAN
  PROVE  ResultOK(ApplyLaunch(r, h, ok)) /\ ApplyLaunch(r, h, ok).status # "waiting"
BY HuntAssumption DEF ResultOK, Result, ApplyLaunch, NoResult

LEMMA LaunchDoneKeeps ==
  ASSUME WaitInv, NEW p \in Player, NEW ok \in BOOLEAN, LaunchDone(p, ok)
  PROVE  WaitInv'
<1>. DEFINE l == direct[p]
            r == [NoResult EXCEPT !.mates = l.players, !.hunt = l.hunt]
            outcome == ApplyLaunch(r, l.hunt, ok)
<1>1. l # NoLaunch /\ l.players \subseteq Player /\ l.hunt \in Hunt
  BY DEF LaunchDone, WaitInv, LaunchOK
<1>2. /\ result' = [q \in Player |-> IF q \in l.players THEN outcome ELSE result[q]]
      /\ direct' = [direct EXCEPT ![p] = NoLaunch]
      /\ UNCHANGED <<reg, queue, joins>>
  BY DEF LaunchDone
<1>3. ResultOK(outcome) /\ outcome.status # "waiting"
  <2>1. r \in Result /\ r.hunt = l.hunt
    BY <1>1, HuntAssumption DEF Result, NoResult
  <2>. HIDE DEF r
  <2>. QED  BY <1>1, <2>1, Launched
<1>4. /\ result \in [Player -> Result] /\ queue \in [Hunt -> Queue]
      /\ \A q \in Player : ResultOK(result[q]) /\ (Waits(q) => q \in queue[result[q].hunt].players)
      /\ \A k \in Hunt : QueueOK(queue[k])
  BY DEF WaitInv, Placed, Now, Waits
<1>. HIDE DEF outcome, l
<1>5. outcome \in Result
  BY <1>3 DEF ResultOK
<1>6. /\ result' \in [Player -> Result]
      /\ \A q \in Player : ResultOK(result'[q])
      /\ \A q \in Player : result'[q].status = "waiting" => result'[q] = result[q] /\ Waits(q)
  BY <1>2, <1>3, <1>4, <1>5 DEF Waits
<1>7. Placed(Now)'
  BY <1>2, <1>4, <1>6 DEF Placed, Now
<1>8. /\ direct' \in [Player -> [players : SUBSET Player, hunt : Hunt \cup {NoHunt}]]
      /\ \A q \in Player : LaunchOK(direct'[q])
  BY <1>2 DEF WaitInv, LaunchOK, NoLaunch
<1>. QED  BY <1>2, <1>6, <1>7, <1>8 DEF WaitInv, IInv, Waits

LEMMA PopQueueKeeps ==
  ASSUME WaitInv, NEW h \in Hunt, NEW ok \in BOOLEAN, PopQueue(h, ok)
  PROVE  WaitInv'
<1>1. /\ result \in [Player -> Result] /\ queue \in [Hunt -> Queue]
      /\ \A q \in Player : ResultOK(result[q]) /\ (Waits(q) => q \in queue[result[q].hunt].players)
      /\ \A k \in Hunt : QueueOK(queue[k])
  BY DEF WaitInv, Placed, Now, Waits
<1>2. /\ result' = [q \in Player |-> IF q \in queue[h].players /\ result[q] # NoResult
                                     THEN ApplyLaunch(result[q], h, ok) ELSE result[q]]
      /\ queue' = [queue EXCEPT ![h] = NoQueue]
      /\ UNCHANGED <<reg, direct, joins>>
  BY DEF PopQueue
<1>3. ASSUME NEW q \in Player
      PROVE  /\ ResultOK(result'[q])
             /\ result'[q].status = "waiting" =>
                  result'[q] = result[q] /\ Waits(q) /\ q \notin queue[h].players
  <2>1. CASE q \in queue[h].players /\ result[q] # NoResult
    <3>1. result'[q] = ApplyLaunch(result[q], h, ok)
      BY <1>2, <2>1
    <3>2. result[q].hunt \in Hunt
      BY <1>1, <2>1 DEF ResultOK
    <3>. QED  BY <1>1, <2>1, <3>1, <3>2, Launched DEF ResultOK
  <2>2. CASE q \notin queue[h].players \/ result[q] = NoResult
    BY <1>1, <1>2, <2>2, Absent DEF Waits
  <2>. QED  BY <2>1, <2>2
<1>4. result' \in [Player -> Result]
  BY <1>2, <1>3 DEF ResultOK
<1>5. queue' \in [Hunt -> Queue] /\ \A k \in Hunt : QueueOK(queue'[k])
  BY <1>1, <1>2, Absent
<1>6. ASSUME NEW q \in Player, result'[q].status = "waiting"
      PROVE  q \in queue'[result'[q].hunt].players
  BY <1>1, <1>2, <1>3, <1>6 DEF ResultOK, Waits
<1>7. Placed(Now)'
  BY <1>3, <1>4, <1>5, <1>6 DEF Placed, Now
<1>. QED  BY <1>2, <1>3, <1>7, WaitersKept DEF WaitInv, IInv, Waits

(* A join that launches at once, a queue that ages and a look at the own   *)
(* candidate end no wait and begin none.                                   *)
LEMMA LaunchNowKeeps ==
  ASSUME WaitInv, NEW p \in Player, NEW h \in Hunt, LaunchNow(p, h)
  PROVE  WaitInv'
<1>. DEFINE l == [players |-> Group(reg, p), hunt |-> h]
<1>1. /\ direct' = [direct EXCEPT ![p] = l]
      /\ UNCHANGED <<reg, queue, result>> /\ joins' = joins + 1 /\ joins < MAX_JOINS
  BY DEF LaunchNow, MayAsk
<1>2. l.players \subseteq Player /\ l.hunt \in Hunt
      /\ l \in [players : SUBSET Player, hunt : Hunt \cup {NoHunt}]
  BY GroupShared DEF WaitInv, IInv
<1>3. LaunchOK(l)
  BY <1>2 DEF LaunchOK
<1>. HIDE DEF l
<1>4. /\ direct' \in [Player -> [players : SUBSET Player, hunt : Hunt \cup {NoHunt}]]
      /\ \A q \in Player : LaunchOK(direct'[q])
  BY <1>1, <1>2, <1>3 DEF WaitInv
<1>5. joins' \in 0 .. MAX_JOINS
  BY <1>1, QueueAssumption DEF WaitInv
<1>6. Placed(Now)'
  BY <1>1 DEF WaitInv, Placed, Now
<1>. QED  BY <1>1, <1>4, <1>5, <1>6 DEF WaitInv, IInv, Waits

(* Only the flags of a queue that has players change.                      *)
LEMMA FlagsKeep ==
  ASSUME WaitInv, IInv', NEW h \in Hunt, queue[h].players # {},
         NEW f \in Queue, f.players = queue[h].players,
         queue' = [queue EXCEPT ![h] = f], UNCHANGED <<result, direct, joins>>,
         \A p \in Player : Group(reg', p) = Group(reg, p)
  PROVE  WaitInv'
<1>1. QueueOK(f)
  BY DEF QueueOK
<1>2. Placed(Now)'
  BY <1>1 DEF WaitInv, Placed, Now
<1>. QED  BY <1>2, WaitersKept

LEMMA CheckedKeeps ==
  ASSUME WaitInv, IInv', NEW p \in Player, Checked(p) \/ UNCHANGED queue,
         UNCHANGED <<result, direct, joins>>,
         \A q \in Player : Group(reg', q) = Group(reg, q)
  PROVE  WaitInv'
<1>1. CASE UNCHANGED queue
  <2>1. Placed(Now)'
    BY <1>1 DEF WaitInv, Placed, Now
  <2>. QED  BY <2>1, WaitersKept
<1>2. CASE Checked(p) /\ Due(p)
  <2>. DEFINE h == result[p].hunt
              f == [queue[h] EXCEPT !.resolved = TRUE]
  <2>1. h \in Hunt /\ p \in queue[h].players /\ queue[h] \in Queue
    BY <1>2 DEF WaitInv, Placed, Now, Due, Waits, ResultOK
  <2>2. f \in Queue /\ f.players = queue[h].players
    BY <2>1 DEF Queue
  <2>3. queue' = [queue EXCEPT ![h] = f]
    BY <1>2 DEF Checked
  <2>. HIDE DEF f, h
  <2>. QED  BY <2>1, <2>2, <2>3, FlagsKeep
<1>. QED  BY <1>1, <1>2 DEF Checked

LEMMA AgesKeeps ==
  ASSUME WaitInv, NEW h \in Hunt, Ages(h)
  PROVE  WaitInv'
<1>. DEFINE f == [queue[h] EXCEPT !.aged = TRUE]
<1>1. queue[h] \in Queue /\ IInv' /\ queue[h].players # {}
  BY DEF WaitInv, Placed, Now, Ages, IInv
<1>2. f \in Queue /\ f.players = queue[h].players
  BY <1>1 DEF Queue
<1>3. queue' = [queue EXCEPT ![h] = f] /\ UNCHANGED <<reg, result, direct, joins>>
  BY DEF Ages
<1>. HIDE DEF f
<1>. QED  BY <1>1, <1>2, <1>3, FlagsKeep

(* Whoever's group may change is cancelled for.                            *)
LEMMA PartyChangeKeeps ==
  ASSUME WaitInv, IInv', NEW S \in SUBSET Player, Cancel(S),
         \A p \in Player : p \notin S => Group(reg', p) = Group(reg, p)
  PROVE  WaitInv'
<1>1. /\ Placed(Now)'
      /\ \A p \in S : ~Waits(p)'
      /\ \A p \in Player : result'[p] \in {result[p], NoResult}
  BY CancelKeeps DEF WaitInv
<1>2. \A p \in Player : Waits(p)' => result'[p] = result[p]
  BY <1>1, Absent DEF Waits
<1>3. UNCHANGED <<direct, joins>>
  BY DEF Cancel
<1>. QED  BY <1>1, <1>2, <1>3, WaitersKept

LEMMA LeaveKeeps ==
  ASSUME WaitInv, IInv', NEW p \in Player, NEW q \in Player,
         Group(reg, q) = Group(reg, p), LeaveParty(q), Cancel(Group(reg, p))
  PROVE  WaitInv'
<1>1. PICK next \in Successors(reg, q) : reg' = Left(reg, q, next)
  BY DEF LeaveParty
<1>2. \A r \in Player : r \notin Group(reg, p) => Group(reg', r) = Group(reg, r)
  BY <1>1, GroupsAfterLeft DEF WaitInv, IInv
<1>3. Group(reg, p) \subseteq Player
  BY GroupShared DEF WaitInv, IInv
<1>. QED  BY <1>2, <1>3, PartyChangeKeeps

LEMMA AcceptKeeps ==
  ASSUME WaitInv, IInv', NEW i \in reg.invites, NEW p \in Player, Accept(p, i)
  PROVE  WaitInv'
<1>. DEFINE S == Group(reg, p) \cup Members(reg, i.party)
<1>1. PICK next \in Successors(reg, p) : reg' = Entered(Left(reg, p, next), p, i.party)
  BY DEF Accept, AcceptPartyInvite
<1>2. i.party \in PartyId /\ i.party # reg.membership[p] /\ Good(reg)
  BY DEF Accept, AcceptPartyInvite, Acceptable, Exists, WaitInv, IInv
<1>3. Group(reg, p) \subseteq Player /\ p \in Group(reg, p)
  BY <1>2, GroupShared
<1>4. Members(reg, i.party) \subseteq Player
  BY <1>2 DEF Members, Good, Typed, Registry, Party
<1>. DEFINE t == Left(reg, p, next)
<1>5. Good(t) /\ t.parties[i.party] = reg.parties[i.party]
  BY <1>2, LeftKeeps
<1>. HIDE DEF t
<1>6. Members(t, i.party) = Members(reg, i.party)
  BY <1>5 DEF Members
<1>7. ASSUME NEW q \in Player, q \notin S PROVE Group(reg', q) = Group(reg, q)
  <2>1. Group(t, q) = Group(reg, q)
    BY <1>2, <1>7, GroupsAfterLeft DEF t
  <2>2. Group(Entered(t, p, i.party), q) = Group(t, q)
    BY <1>2, <1>3, <1>5, <1>6, <1>7, GroupsAfterEntered
  <2>. QED  BY <1>1, <2>1, <2>2 DEF t
<1>8. Cancel(S)
  BY DEF Accept
<1>. QED  BY <1>3, <1>4, <1>7, <1>8, PartyChangeKeeps

LEMMA WaitInit == Init => WaitInv
<1>. SUFFICES ASSUME Init PROVE WaitInv
  OBVIOUS
<1>1. IInv
  BY InitGood DEF Init
<1>2. /\ queue = [h \in Hunt |-> NoQueue] /\ result = [p \in Player |-> NoResult]
      /\ direct = [p \in Player |-> NoLaunch] /\ joins = 0
  BY DEF Init
<1>3. Placed(Now)
  BY <1>2, Absent DEF Placed, Now
<1>4. \A p \in Player : ~Waits(p)
  BY <1>2, Absent DEF Waits
<1>5. /\ direct \in [Player -> [players : SUBSET Player, hunt : Hunt \cup {NoHunt}]]
      /\ \A p \in Player : LaunchOK(direct[p])
  BY <1>2 DEF LaunchOK, NoLaunch
<1>6. joins \in 0 .. MAX_JOINS
  BY <1>2, QueueAssumption
<1>. QED  BY <1>1, <1>3, <1>4, <1>5, <1>6 DEF WaitInv

LEMMA WaitStep == WaitInv /\ [Next]_vars => WaitInv'
<1>. SUFFICES ASSUME WaitInv, [Next]_vars PROVE WaitInv'
  OBVIOUS
<1>0. IInv' /\ Good(reg)
  BY StepGood, MatchmakingStepsAreParties DEF WaitInv, IInv
<1>1. ASSUME NEW p \in Player, NEW h \in Hunt, QueuePlayers(p, h) \/ LaunchNow(p, h)
      PROVE  WaitInv'
  BY <1>1, QueuePlayersKeeps, LaunchNowKeeps
<1>2. ASSUME NEW p \in Player, NEW ok \in BOOLEAN, LaunchDone(p, ok) PROVE WaitInv'
  BY <1>2, LaunchDoneKeeps
<1>3. ASSUME NEW h \in Hunt, Ages(h) \/ \E ok \in BOOLEAN : PopQueue(h, ok) PROVE WaitInv'
  BY <1>3, AgesKeeps, PopQueueKeeps
<1>4. ASSUME NEW p \in Player, CandidateStatus(p) PROVE WaitInv'
  BY <1>0, <1>4, CheckedKeeps DEF CandidateStatus
<1>5. ASSUME NEW p \in Player, SendPartyState(p) PROVE WaitInv'
  <2>1. \A q \in Player : Group(reg', q) = Group(reg, q)
    BY <1>0, <1>5, GroupsAfterCreated DEF SendPartyState, GetOrCreateParty
  <2>. QED  BY <1>0, <1>5, <2>1, CheckedKeeps DEF SendPartyState
<1>6. ASSUME NEW p \in Player, Leave(p) PROVE WaitInv'
  BY <1>0, <1>6, LeaveKeeps DEF Leave
<1>7. ASSUME NEW p \in Player, RetryAccept(p) PROVE WaitInv'
  <2>1. Group(reg, p) \in SUBSET Player /\ reg' = reg /\ Cancel(Group(reg, p))
    BY <1>0, <1>7, GroupShared DEF RetryAccept
  <2>. QED  BY <1>0, <2>1, PartyChangeKeeps
<1>8. ASSUME NEW p \in Player, NEW q \in Player, InviteOrPromote(p, q) PROVE WaitInv'
  <2>1. \A r \in Player : Group(reg', r) = Group(reg, r)
    BY <1>0, <1>8, GroupsAfterInviteOrPromote DEF InviteOrPromote
  <2>. QED  BY <1>0, <1>8, <2>1, CheckedKeeps DEF InviteOrPromote
<1>9. ASSUME NEW p \in Player, NEW q \in Player, Kick(p, q) PROVE WaitInv'
  <2>1. /\ Leads(reg, p) /\ q \in Members(reg, reg.membership[p])
        /\ LeaveParty(q) /\ Cancel(Group(reg, p))
    BY <1>9 DEF Kick, KickPartyMember
  <2>2. q \in Group(reg, p)
    BY <2>1 DEF Leads, Group
  <2>3. Group(reg, q) = Group(reg, p)
    BY <1>0, <2>2, GroupShared
  <2>. QED  BY <1>0, <2>1, <2>3, LeaveKeeps
<1>10. ASSUME NEW i \in reg.invites, InvitationExpires(i) PROVE WaitInv'
  <2>1. ASSUME NEW p \in Player PROVE Group(reg', p) = Group(reg, p)
    BY <1>0, <1>10, GroupsAfterInviteOrPromote DEF InvitationExpires
  <2>2. Placed(Now)' /\ UNCHANGED <<queue, result, direct, joins>>
    BY <1>10 DEF InvitationExpires, WaitInv, Placed, Now
  <2>. QED  BY <1>0, <2>1, <2>2, WaitersKept
<1>11. ASSUME NEW i \in reg.invites, NEW p \in Player, Accept(p, i) PROVE WaitInv'
  BY <1>0, <1>11, AcceptKeeps
<1>12. CASE UNCHANGED vars
  <2>1. Placed(Now)' /\ UNCHANGED <<reg, queue, result, direct, joins>>
    BY <1>12 DEF vars, WaitInv, Placed, Now
  <2>. QED  BY <1>0, <2>1, WaitersKept
<1>. QED
  BY <1>1, <1>2, <1>3, <1>4, <1>5, <1>6, <1>7, <1>8, <1>9, <1>10, <1>11, <1>12 DEF Next

(* Queues, results and launches stay typed, and every wait has its place   *)
(* and its group, through all operations.                                  *)
THEOREM WaitsStaySound == Spec => []WaitInv
<1>. QED  BY WaitInit, WaitStep, PTL DEF Spec

(* An absent queue is the only empty one and a result is ready exactly     *)
(* when it has a world, for any players, parties, hunts and queue size.    *)
THEOREM MatchmakingTyped == Spec => []TypeOK
<1>1. WaitInv => TypeOK
  BY DEF WaitInv, IInv, Good, PartyTypeOK, Placed, Now, ResultOK, QueueOK, TypeOK
<1>. QED  BY <1>1, WaitsStaySound, PTL

(* Whoever is told MATCHING has a place in the queue of that hunt and      *)
(* waits with the whole party, whatever joins, launches, cancellations and *)
(* changes of parties come in between, in any order of cancelling.         *)
THEOREM WaitingStaysHonest == Spec => []WaitingHonest
<1>1. WaitInv => WaitingHonest
  BY DEF WaitInv, Placed, Now, WaitingHonest, Waits
<1>. QED  BY <1>1, WaitsStaySound, PTL
=============================================================================
