------------------------------ MODULE Presence ------------------------------
(***************************************************************************)
(* Who is online and what friends are told: the connections of both XMPP   *)
(* transports (XMPPConnection.ts, RawXMPPConnection.ts), the registry of   *)
(* bound ones (SessionRegistry.ts) and the presence they cause             *)
(* (PresenceService.ts), over the friendships of Friends.                  *)
(*                                                                         *)
(* A stanza is handled without awaiting anything but promises that are     *)
(* already settled, so every handler is one action.  What interleaves is   *)
(* the connections: a client reconnects before the server has noticed that *)
(* its last connection is gone, and the offline timer fires in between.    *)
(* Between accepting and authenticating a connection nothing is kept, and  *)
(* a connection starts here when its account is known.                     *)
(***************************************************************************)
EXTENDS FiniteSets

CONSTANTS
  Account, Resource,
  Conn,        \* connections; a closed one's name may serve again
  NoAccount, NoResource, NoConn,
  BindOnce     \* TRUE if a client binds one resource per connection

ASSUME PresenceNulls ==
  /\ NoAccount \notin Account
  /\ NoResource \notin Resource
  /\ NoConn \notin Conn
ASSUME BindAssumption == BindOnce \in BOOLEAN

VARIABLES
  conn,            \* what each connection knows of itself
  registry,        \* byAccount of SessionRegistry
  pendingOffline,  \* the resource whose offline timer runs, per account
  view,            \* what each connection's client was told is online
  edge, blocked    \* the tables of Friends

presenceVars == <<conn, registry, pendingOffline, view>>
vars == <<presenceVars, edge, blocked>>

F == INSTANCE Friends

Closed == [account |-> NoAccount, resource |-> NoResource, available |-> FALSE]

Init ==
  /\ F!Init
  /\ conn = [c \in Conn |-> Closed]
  /\ registry = [a \in Account |-> [r \in Resource |-> NoConn]]
  /\ pendingOffline = [a \in Account |-> NoResource]
  /\ view = [c \in Conn |-> {}]

----------------------------------------------------------------------------
(* SessionRegistry *)

ConnectionsOf(reg, a) == {reg[a][r] : r \in Resource} \ {NoConn}
ConnectionsFor(a) == ConnectionsOf(registry, a)
IsOnline(a) == ConnectionsFor(a) # {}

(* Mutant of Unbind: whoever holds the resource is unbound.                *)
UnbindAny(c) ==
  [registry EXCEPT ![conn[c].account] =
     [r \in Resource |-> IF r = conn[c].resource THEN NoConn ELSE registry[conn[c].account][r]]]

(* Mutant of Unbind: the registry is not told.                             *)
UnbindNot(c) == registry

(* unbind for c's own resource, if c still holds it.                       *)
Unbind(c) ==
  [registry EXCEPT ![conn[c].account] =
     [r \in Resource |->
        IF r = conn[c].resource /\ registry[conn[c].account][r] = c
        THEN NoConn ELSE registry[conn[c].account][r]]]

----------------------------------------------------------------------------
(* PresenceService *)

(* The resources that the connections of a show.                           *)
Shown(a) == {<<a, conn[c].resource>> : c \in ConnectionsFor(a)}

(* Mutant of Exchange: only the friends are told.                          *)
ExchangeOneWay(a, r) ==
  view' = [c \in Conn |->
             IF \E f \in F!AcceptedFriends(a) : c \in ConnectionsFor(f)
             THEN view[c] \cup {<<a, r>>} ELSE view[c]]

(* Every connection of a friend is told of resource r of a, and every      *)
(* connection of a of the friends that are connected.                      *)
Exchange(a, r) ==
  view' = [c \in Conn |->
             IF \E f \in F!AcceptedFriends(a) : c \in ConnectionsFor(f)
             THEN view[c] \cup {<<a, r>>}
             ELSE IF c \in ConnectionsFor(a)
             THEN view[c] \cup UNION {Shown(f) : f \in F!AcceptedFriends(a)}
             ELSE view[c]]

OnResourceAvailable(a, r) ==
  /\ pendingOffline' = [pendingOffline EXCEPT ![a] = NoResource]
  /\ Exchange(a, r)

(* An account that has no connection left in reg is announced offline      *)
(* after the grace period, unless its timer already runs.                  *)
OnResourceUnavailable(reg, a, r) ==
  pendingOffline' =
    IF ConnectionsOf(reg, a) # {} \/ pendingOffline[a] # NoResource
    THEN pendingOffline
    ELSE [pendingOffline EXCEPT ![a] = r]

(* Mutant of GraceOver: the registry is not asked again.                   *)
GraceOverUnchecked(a) ==
  /\ pendingOffline[a] # NoResource
  /\ pendingOffline' = [pendingOffline EXCEPT ![a] = NoResource]
  /\ view' = [c \in Conn |->
                IF \E f \in F!AcceptedFriends(a) : c \in ConnectionsFor(f)
                THEN view[c] \ {<<a, pendingOffline[a]>>}
                ELSE view[c]]
  /\ UNCHANGED <<conn, registry, edge, blocked>>

(* The grace period is over: the friends are told that the resource is     *)
(* gone, if the account is.                                                *)
GraceOver(a) ==
  /\ pendingOffline[a] # NoResource
  /\ pendingOffline' = [pendingOffline EXCEPT ![a] = NoResource]
  /\ view' = [c \in Conn |->
                IF ~IsOnline(a) /\ \E f \in F!AcceptedFriends(a) : c \in ConnectionsFor(f)
                THEN view[c] \ {<<a, pendingOffline[a]>>}
                ELSE view[c]]
  /\ UNCHANGED <<conn, registry, edge, blocked>>

----------------------------------------------------------------------------
(* The connections *)

(* A connection is opened and its account authenticated.                   *)
Authenticate(c, a) ==
  /\ conn[c] = Closed
  /\ conn' = [conn EXCEPT ![c] = [Closed EXCEPT !.account = a]]
  /\ UNCHANGED <<registry, pendingOffline, view, edge, blocked>>

(* c binds resource r.  The connection that held it is asked to close, but *)
(* is not closed yet; its client is taken to be the one that came back.    *)
Bind(c, r) ==
  LET a == conn[c].account
      prev == registry[a][r]
  IN  /\ a # NoAccount
      /\ BindOnce => conn[c].resource = NoResource
      /\ conn' = [conn EXCEPT ![c].resource = r]
      /\ registry' = [registry EXCEPT ![a] = [registry[a] EXCEPT ![r] = c]]
      /\ view' = [d \in Conn |-> IF d = prev /\ d # c THEN {} ELSE view[d]]
      /\ UNCHANGED <<pendingOffline, edge, blocked>>

(* A connection announces itself the first time it sends presence.         *)
PresenceAvailable(c) ==
  /\ conn[c].resource # NoResource /\ ~conn[c].available
  /\ conn' = [conn EXCEPT ![c].available = TRUE]
  /\ OnResourceAvailable(conn[c].account, conn[c].resource)
  /\ UNCHANGED <<registry, edge, blocked>>

PresenceUnavailable(c) ==
  /\ conn[c].available
  /\ conn' = [conn EXCEPT ![c].available = FALSE]
  /\ OnResourceUnavailable(registry, conn[c].account, conn[c].resource)
  /\ UNCHANGED <<registry, view, edge, blocked>>

(* The connection has ended, at either side's wish or by itself.           *)
Teardown(c) ==
  /\ conn[c] # Closed
  /\ conn' = [conn EXCEPT ![c] = Closed]
  /\ view' = [view EXCEPT ![c] = {}]
  /\ IF conn[c].resource = NoResource
     THEN UNCHANGED <<registry, pendingOffline>>
     ELSE /\ registry' = Unbind(c)
          /\ OnResourceUnavailable(Unbind(c), conn[c].account, conn[c].resource)
  /\ UNCHANGED <<edge, blocked>>

----------------------------------------------------------------------------
(* Changes of the friends list *)

(* A request that finds or makes a friendship shows each to the other.     *)
AddFriend(a, b) ==
  /\ F!AddFriend(a, b)
  /\ IF edge[a][b] \in {"accepted", "inbound"}
     THEN view' = [c \in Conn |->
            IF c \in ConnectionsFor(a) THEN view[c] \cup Shown(b)
            ELSE IF c \in ConnectionsFor(b) THEN view[c] \cup Shown(a)
            ELSE view[c]]
     ELSE UNCHANGED view
  /\ UNCHANGED <<conn, registry, pendingOffline>>

(* A FriendRemoval makes the client drop the entry with its presence.      *)
DropEntries(a, b) ==
  view' = [c \in Conn |->
             IF c \in ConnectionsFor(a) THEN {v \in view[c] : v[1] # b}
             ELSE IF c \in ConnectionsFor(b) THEN {v \in view[c] : v[1] # a}
             ELSE view[c]]

RemoveOrBlock(a, b) ==
  /\ a # b
  /\ F!RemoveFriend(a, b) \/ F!BlockAccount(a, b)
  /\ DropEntries(a, b)
  /\ UNCHANGED <<conn, registry, pendingOffline>>

UnblockAccount(a, b) == F!UnblockAccount(a, b) /\ UNCHANGED presenceVars

----------------------------------------------------------------------------
Next ==
  \/ \E c \in Conn :
       \/ PresenceAvailable(c) \/ PresenceUnavailable(c) \/ Teardown(c)
       \/ \E a \in Account : Authenticate(c, a)
       \/ \E r \in Resource : Bind(c, r)
  \/ \E a \in Account : GraceOver(a)
  \/ \E a, b \in Account : AddFriend(a, b) \/ RemoveOrBlock(a, b) \/ UnblockAccount(a, b)

Spec == Init /\ [][Next]_vars

----------------------------------------------------------------------------
(* Type invariant of the connections, the registry, the timers and the     *)
(* tables; only a bound connection is available (XMPPConnection.handle).   *)
TypeOK ==
  /\ F!TypeOK
  /\ conn \in [Conn -> [account : Account \cup {NoAccount},
                        resource : Resource \cup {NoResource}, available : BOOLEAN]]
  /\ \A c \in Conn : conn[c].account = NoAccount => conn[c] = Closed
  /\ \A c \in Conn : conn[c].available => conn[c].resource # NoResource
  /\ registry \in [Account -> [Resource -> Conn \cup {NoConn}]]
  /\ pendingOffline \in [Account -> Resource \cup {NoResource}]
  /\ view \in [Conn -> SUBSET (Account \X Resource)]

(* The registry lists open connections only, under the account and the     *)
(* resource they have bound, whatever the order in which a connection and  *)
(* its replacement bind and close: an account with no connection left is   *)
(* offline (SessionRegistry).                                              *)
RegistryExact ==
  \A a \in Account, r \in Resource :
    registry[a][r] # NoConn =>
      /\ conn[registry[a][r]].account = a
      /\ conn[registry[a][r]].resource = r

(* A connection leaves the registry only when it closes or when another    *)
(* takes its resource: the late close of a replaced connection does not    *)
(* take its successor offline (unbind).                                    *)
NoLateUnbind ==
  [][\A a \in Account, r \in Resource :
       registry[a][r] # NoConn /\ registry'[a][r] # registry[a][r]
         => \/ registry'[a][r] # NoConn
            \/ conn'[registry[a][r]] = Closed]_vars

(* Two friends who both announced themselves see one another, whoever came *)
(* first, through reconnects, replaced connections, timers and changes of  *)
(* the friends list in between (onResourceAvailable,                       *)
(* notifyFriendshipAccepted).                                              *)
FriendsShown ==
  \A a \in Account : \A b \in F!AcceptedFriends(a) :
    \A c \in ConnectionsFor(a), d \in ConnectionsFor(b) :
      conn[c].available /\ conn[d].available => <<b, conn[d].resource>> \in view[c]

(* "Offline is announced only if the account is still gone after the grace *)
(* period" (PresenceService.ts:44): nobody who is connected is taken from  *)
(* the list of a friend.                                                   *)
OfflineOnlyIfGone ==
  [][\A c \in Conn, a \in Account, r \in Resource :
       <<a, r>> \in view[c] \ view'[c] /\ IsOnline(a)
         => \/ edge'[conn[c].account][a] # "accepted"
            \/ \A own \in Resource : registry'[conn[c].account][own] # c]_vars

(* The two rows of every pair of accounts agree: a request sent is one     *)
(* received, and friendship is mutual (friends.ts).                        *)
FriendsMirrored == F!Mirrored

(* Accounts that block one another, in either direction, have no request   *)
(* and no friendship, however asking, answering and blocking interleave.   *)
BlockedApart == F!BlockedApart

(* Both, while connections come and go and requests cross (friends.ts).    *)
TablesSound == FriendsMirrored /\ BlockedApart

(* Who is announced offline disappears from the lists of all friends.     *)
(* "Sent from the bare JID it did not match the full JID friends saw come  *)
(* online, and the 1.12.0 friends list kept showing the player as online"  *)
(* (PresenceService.ts:29): every full JID friends saw has to be           *)
(* announced, and only the one that started the timer is.                  *)
OfflineSeen ==
  [][\A a \in Account : GraceOver(a) /\ ~IsOnline(a)
       => \A b \in F!AcceptedFriends(a) : \A c \in ConnectionsFor(b) :
            \A r \in Resource : <<a, r>> \notin view'[c]]_vars
=============================================================================
