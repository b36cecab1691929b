------------------------------ MODULE Parties ------------------------------
(***************************************************************************)
(* Parties and their invitations (party.ts), which live in three maps of   *)
(* the metagame's memory.  Every operation is one synchronous handler.     *)
(*                                                                         *)
(* Members are kept in join order only so that a leader who leaves is      *)
(* succeeded by the oldest member; here the successor is any member.       *)
(* Invitation ids are random and never reused: an invitation is its        *)
(* contents, and an accept names any invitation to the player.             *)
(***************************************************************************)
EXTENDS Naturals, FiniteSets

CONSTANTS
  Player,
  PartyId,    \* enough ids for every player to have a party
  NoParty,    \* undefined, where a party id could be
  NoPlayer,   \* the leader of a party that does not exist
  MAX_MEMBERS \* 4

ASSUME PlayerAssumption == IsFiniteSet(Player) /\ NoPlayer \notin Player
ASSUME IdAssumption == NoParty \notin PartyId
ASSUME SizeAssumption == MAX_MEMBERS \in Nat \ {0}

VARIABLE reg   \* parties, membership and invites

Dissolved == [leader |-> NoPlayer, members |-> {}]

PartyInit ==
  reg = [parties |-> [k \in PartyId |-> Dissolved],
         membership |-> [p \in Player |-> NoParty],
         invites |-> {}]

Members(s, k) == s.parties[k].members
Exists(s, k) == k \in PartyId /\ s.parties[k] # Dissolved
Leads(s, p) == Exists(s, s.membership[p]) /\ s.parties[s.membership[p]].leader = p

(* GetPartyForPlayer(p)?.members ?? [p]                                    *)
Group(s, p) == IF Exists(s, s.membership[p]) THEN Members(s, s.membership[p]) ELSE {p}

----------------------------------------------------------------------------
(* The state after each operation on state s. *)

(* GetOrCreateParty when p has no party.                                   *)
Created(s, p, k) ==
  [s EXCEPT !.parties = [s.parties EXCEPT ![k] = [leader |-> p, members |-> {p}]],
            !.membership = [s.membership EXCEPT ![p] = k]]

(* Mutant of Left: a dissolved party's invitations stay.                   *)
LeftInvitesStay(s, p, next) ==
  LET k == s.membership[p]
      rest == Members(s, k) \ {p}
  IN  IF ~Exists(s, k) THEN s
      ELSE [parties |-> [s.parties EXCEPT ![k] =
              IF rest = {} THEN Dissolved
              ELSE [leader |-> IF s.parties[k].leader = p THEN next ELSE s.parties[k].leader,
                    members |-> rest]],
            membership |-> [s.membership EXCEPT ![p] = NoParty],
            invites |-> s.invites]

(* LeaveParty; next succeeds p if p leads.                                 *)
Left(s, p, next) ==
  LET k == s.membership[p]
      rest == Members(s, k) \ {p}
  IN  IF ~Exists(s, k) THEN s
      ELSE [parties |-> [s.parties EXCEPT ![k] =
              IF rest = {} THEN Dissolved
              ELSE [leader |-> IF s.parties[k].leader = p THEN next ELSE s.parties[k].leader,
                    members |-> rest]],
            membership |-> [s.membership EXCEPT ![p] = NoParty],
            invites |-> IF rest = {} THEN {i \in s.invites : i.party # k} ELSE s.invites]

(* The members who may succeed p: all the others, or nobody.               *)
Successors(s, p) ==
  IF Group(s, p) \ {p} = {} THEN {NoPlayer} ELSE Group(s, p) \ {p}

(* p enters party k and all invitations to p are withdrawn.                *)
Entered(s, p, k) ==
  [parties |-> [s.parties EXCEPT ![k] =
                  [leader |-> s.parties[k].leader, members |-> Members(s, k) \cup {p}]],
   membership |-> [s.membership EXCEPT ![p] = k],
   invites |-> {i \in s.invites : i.to # p}]

----------------------------------------------------------------------------
(* The operations *)

(* Any request for the party's state creates a party of one.               *)
GetOrCreateParty(p) ==
  /\ ~Exists(reg, reg.membership[p])
  /\ \E k \in PartyId : ~Exists(reg, k) /\ reg' = Created(reg, p, k)

(* The leader of a party with room invites a player who is not a member    *)
(* and has no invitation to it.  The party exists by now: an invitation    *)
(* from a player without one begins with GetOrCreateParty.                 *)
InviteToParty(p, q) ==
  /\ p # q
  /\ LET k == reg.membership[p] IN
       /\ Leads(reg, p)
       /\ Cardinality(Members(reg, k)) < MAX_MEMBERS
       /\ q \notin Members(reg, k)
       /\ ~\E i \in reg.invites : i.party = k /\ i.to = q /\ ~i.expired
       /\ reg' = [reg EXCEPT !.invites = reg.invites \cup
                    {[party |-> k, from |-> p, to |-> q, expired |-> FALSE]}]

(* Ten minutes have passed.                                                *)
InviteExpires(i) ==
  /\ ~i.expired
  /\ reg' = [reg EXCEPT !.invites = (reg.invites \ {i}) \cup {[i EXCEPT !.expired = TRUE]}]

LeaveParty(p) ==
  \E next \in Successors(reg, p) : reg' = Left(reg, p, next)

(* Mutant of Acceptable: a full party is entered.                          *)
AcceptableFull(p, i) ==
  /\ i.to = p /\ ~i.expired
  /\ Exists(reg, i.party)
  /\ reg.membership[p] # i.party

(* The invitation leads p into another party with room.                    *)
Acceptable(p, i) ==
  /\ i.to = p /\ ~i.expired
  /\ Exists(reg, i.party) /\ Cardinality(Members(reg, i.party)) < MAX_MEMBERS
  /\ reg.membership[p] # i.party

(* Mutant of AcceptPartyInvite: the old party is not left.                 *)
AcceptWithoutLeaving(p, i) ==
  Acceptable(p, i) /\ reg' = Entered(reg, p, i.party)

(* p leaves the old party and enters the new one.                          *)
AcceptPartyInvite(p, i) ==
  /\ Acceptable(p, i)
  /\ \E next \in Successors(reg, p) : reg' = Entered(Left(reg, p, next), p, i.party)

KickPartyMember(p, q) ==
  /\ Leads(reg, p) /\ q # p /\ q \in Members(reg, reg.membership[p])
  /\ LeaveParty(q)

(* Mutant of PromotePartyMember: anyone can be promoted.                   *)
PromoteAnyone(p, q) ==
  /\ Leads(reg, p)
  /\ reg' = [reg EXCEPT !.parties = [reg.parties EXCEPT ![reg.membership[p]] =
                [leader |-> q, members |-> Members(reg, reg.membership[p])]]]

PromotePartyMember(p, q) ==
  /\ Leads(reg, p) /\ q \in Members(reg, reg.membership[p])
  /\ reg' = [reg EXCEPT !.parties = [reg.parties EXCEPT ![reg.membership[p]] =
                [leader |-> q, members |-> Members(reg, reg.membership[p])]]]

----------------------------------------------------------------------------
PartyNext ==
  \/ \E p \in Player : GetOrCreateParty(p) \/ LeaveParty(p)
  \/ \E p, q \in Player :
       InviteToParty(p, q) \/ KickPartyMember(p, q) \/ PromotePartyMember(p, q)
  \/ \E i \in reg.invites :
       InviteExpires(i) \/ \E p \in Player : AcceptPartyInvite(p, i)

PartySpec == PartyInit /\ [][PartyNext]_reg

----------------------------------------------------------------------------
Invite == [party : PartyId, from : Player, to : Player, expired : BOOLEAN]
Party == [leader : Player \cup {NoPlayer}, members : SUBSET Player]
Registry == [parties : [PartyId -> Party],
             membership : [Player -> PartyId \cup {NoParty}],
             invites : SUBSET Invite]

(* Type invariant of the three maps; only a party that does not exist has  *)
(* no leader.                                                              *)
Typed(s) ==
  /\ s \in Registry
  /\ \A k \in PartyId : s.parties[k].leader = NoPlayer => s.parties[k] = Dissolved

PartyTypeOK == Typed(reg)

(* The maps agree: a player's membership names the party that lists the    *)
(* player, so nobody is in two parties, even when an accept moves a player *)
(* from one party to another and dissolves the first.                      *)
Consistent(s) ==
  \A p \in Player, k \in PartyId : s.membership[p] = k <=> p \in Members(s, k)

MembershipConsistent == Consistent(reg)

(* Every party that exists is led by one of its members, through kicks,    *)
(* promotions, departures and moves to other parties.                      *)
Led(s) == \A k \in PartyId : Exists(s, k) => s.parties[k].leader \in Members(s, k)

LeaderIsMember == Led(reg)

(* No party outgrows the four places of a hunt, however many invitations   *)
(* are open when the last place is taken.                                  *)
Bounded(s) == \A k \in PartyId : Cardinality(Members(s, k)) <= MAX_MEMBERS

SizeBounded == Bounded(reg)

(* An invitation never outlives its party and never addresses a member of  *)
(* it: whoever leaves last takes the invitations along, and entering a     *)
(* party withdraws the player's own.                                       *)
Fresh(s) ==
  \A i \in s.invites : Exists(s, i.party) /\ i.to \notin Members(s, i.party)

InvitesFresh == Fresh(reg)

(* Whatever leaders, guests and departures come together, the maps agree,  *)
(* parties are led from within and bounded, and invitations fresh.         *)
PartiesSound == MembershipConsistent /\ LeaderIsMember /\ SizeBounded /\ InvitesFresh
=============================================================================
