--------------------------- MODULE MCMatchmaking ---------------------------
(* Small instances of Matchmaking: two hunts let a player be in two queues *)
(* at once, and a queue is filled by two players, or by a party of two and *)
(* a stranger.                                                             *)
EXTENDS Matchmaking

(* What symmetry allows to leave out when it may not be used (the run      *)
(* checks liveness): free party ids are alike, as invitations and members  *)
(* go with their party, and so are the hunts before the first join.        *)
FirstOf(S) == CHOOSE x \in S : TRUE
AlikeOnce ==
  /\ \A k \in PartyId : ~Exists(reg, k) /\ Exists(reg', k) =>
       k = FirstOf({j \in PartyId : ~Exists(reg, j)})
  /\ joins = 0 => \A h \in Hunt \ {FirstOf(Hunt)} :
       queue'[h] = queue[h] /\ \A p \in Player : direct'[p].hunt # h

(* Bounds: two open or expired invitations until the first join, when a    *)
(* party with one place left may have invited two players; one open one    *)
(* afterwards.                                                             *)
FewInvites ==
  IF joins = 0 THEN Cardinality(reg.invites) <= 2
  ELSE Cardinality(reg.invites) <= 1 /\ \A i \in reg.invites : ~i.expired
=============================================================================
