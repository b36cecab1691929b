------------------------------- MODULE Friends -------------------------------
(***************************************************************************)
(* Friendships and blocks (routes/friends.ts): two tables of ordered pairs *)
(* in the metagame's database.  Each request is one immediate transaction. *)
(* Reading the lists changes nothing and is left out.                      *)
(***************************************************************************)
EXTENDS Naturals

CONSTANT Account

VARIABLES
  edge,    \* the friends table: the row an account owns about another
  blocked  \* the friendblocks table: owner and blocked account

friendVars == <<edge, blocked>>

Init ==
  /\ edge = [a \in Account |-> [b \in Account |-> "none"]]
  /\ blocked = {}

(* Both rows of a pair, set in one transaction.                            *)
PutEdges(a, b, own, other) ==
  edge' = [edge EXCEPT ![a] = [edge[a] EXCEPT ![b] = own],
                       ![b] = [edge[b] EXCEPT ![a] = other]]

Apart(a, b) == <<a, b>> \in blocked \/ <<b, a>> \in blocked

(* Mutant of MayAskFriend: the other side's block is not looked up.        *)
MayAskOwnBlock(a, b) == a # b /\ <<a, b>> \notin blocked

MayAskFriend(a, b) == a # b /\ ~Apart(a, b)

(* Mutant of AddFriend: only the asking side is accepted.                  *)
AddFriendOneSided(a, b) ==
  /\ MayAskFriend(a, b)
  /\ CASE edge[a][b] = "inbound" -> PutEdges(a, b, "accepted", edge[b][a])
       [] edge[a][b] = "none"    -> PutEdges(a, b, "outbound", "inbound")
       [] OTHER                  -> UNCHANGED edge
  /\ UNCHANGED blocked

(* A friend request; an answer to one if b has asked before.               *)
AddFriend(a, b) ==
  /\ MayAskFriend(a, b)
  /\ CASE edge[a][b] = "inbound" -> PutEdges(a, b, "accepted", "accepted")
       [] edge[a][b] = "none"    -> PutEdges(a, b, "outbound", "inbound")
       [] OTHER                  -> UNCHANGED edge
  /\ UNCHANGED blocked

(* A decline, a withdrawal or the end of a friendship.                     *)
RemoveFriend(a, b) ==
  /\ PutEdges(a, b, "none", "none")
  /\ UNCHANGED blocked

BlockAccount(a, b) ==
  /\ a # b
  /\ PutEdges(a, b, "none", "none")
  /\ blocked' = blocked \cup {<<a, b>>}

UnblockAccount(a, b) ==
  /\ blocked' = blocked \ {<<a, b>>}
  /\ UNCHANGED edge

AcceptedFriends(a) == {b \in Account : edge[a][b] = "accepted"}

Next ==
  \E a, b \in Account :
    AddFriend(a, b) \/ RemoveFriend(a, b) \/ BlockAccount(a, b) \/ UnblockAccount(a, b)

Spec == Init /\ [][Next]_friendVars

----------------------------------------------------------------------------
Status == {"none", "inbound", "outbound", "accepted"}

(* Type invariant of the two tables.                                       *)
TypeOK ==
  /\ edge \in [Account -> [Account -> Status]]
  /\ blocked \subseteq Account \X Account

Mirror(status) == CASE status = "inbound" -> "outbound"
                    [] status = "outbound" -> "inbound"
                    [] OTHER -> status

(* The two rows of every pair of accounts agree: a request sent is one     *)
(* received, and friendship is mutual (friends.ts:48).                     *)
Mirrored == \A a, b \in Account : edge[b][a] = Mirror(edge[a][b])

(* Accounts that block one another, in either direction, have no request   *)
(* and no friendship, however asking, answering and blocking interleave    *)
(* (friends.ts:44).                                                        *)
BlockedApart == \A a, b \in Account : Apart(a, b) => edge[a][b] = "none"
=============================================================================
