----------------------------- MODULE MCPresence -----------------------------
(* Two accounts and four connections: either account can be connected      *)
(* twice, or reconnect while its last connection has not closed yet, and   *)
(* the other watches on one or more connections.                           *)
EXTENDS Rooms, Integers, TLC

Symmetry ==
  Permutations(Account) \cup Permutations(Resource) \cup Permutations(Conn)

(* Rooms and friends have nothing to do with one another: a room is in use *)
(* only while nobody is a friend, blocked or announced; three connections  *)
(* are one that is replaced, the one that replaces it, and a witness.      *)
RoomsOrFriends ==
  \/ occupants = {}
  \/ /\ \A a, b \in Account : edge[a][b] = "none"
     /\ blocked = {}
     /\ \A c \in Conn : ~conn[c].available
     /\ Cardinality({c \in Conn : conn[c] # Closed}) <= 3
=============================================================================
