--------------------------- MODULE PresenceProofs ---------------------------
(* What the connections, the registry and the friends' views keep, for any *)
(* accounts, resources and connections, if a client binds one resource per *)
(* connection; and the rooms, which implement Presence and show nobody who *)
(* is gone.                                                                *)
EXTENDS Rooms, TLAPS

----------------------------------------------------------------------------
(* The tables of Friends                                                   *)

(* Nobody has a row about themselves.                                      *)
NoSelf == \A a \in Account : edge[a][a] = "none"

FriendInv == F!TypeOK /\ F!Mirrored /\ F!BlockedApart /\ NoSelf

(* What PutEdges writes: the two rows of the pair and nothing else.        *)
LEMMA PutEdgesWrites ==
  ASSUME F!TypeOK, NEW a \in Account, NEW b \in Account,
         NEW own \in F!Status, NEW other \in F!Status, F!PutEdges(a, b, own, other)
  PROVE  /\ edge' \in [Account -> [Account -> F!Status]]
         /\ \A c, d \in Account :
              edge'[c][d] = IF c = b /\ d = a THEN other
                            ELSE IF c = a /\ d = b THEN own
                            ELSE IF a = b /\ c = a /\ d = a THEN other
                            ELSE edge[c][d]
  BY DEF F!TypeOK, F!PutEdges

(* A pair written with matching statuses stays mirrored; with "none" on    *)
(* both sides a self-pair is harmless.                                     *)
LEMMA PutEdgesMirrors ==
  ASSUME FriendInv, NEW a \in Account, NEW b \in Account,
         NEW own \in F!Status, F!PutEdges(a, b, own, F!Mirror(own)),
         a = b => own = "none"
  PROVE  edge' \in [Account -> [Account -> F!Status]] /\ F!Mirrored'
<1>1. F!Mirror(own) \in F!Status /\ F!Mirror(F!Mirror(own)) = own
  BY DEF F!Mirror, F!Status
<1>2. /\ edge' \in [Account -> [Account -> F!Status]]
      /\ \A c, d \in Account :
           edge'[c][d] = IF c = b /\ d = a THEN F!Mirror(own)
                         ELSE IF c = a /\ d = b THEN own
                         ELSE IF a = b /\ c = a /\ d = a THEN F!Mirror(own)
                         ELSE edge[c][d]
  BY <1>1, PutEdgesWrites DEF FriendInv
<1>3. a = b => F!Mirror(own) = own
  BY DEF F!Mirror
<1>4. ASSUME NEW c \in Account, NEW d \in Account
      PROVE  edge'[d][c] = F!Mirror(edge'[c][d])
  <2>1. edge[d][c] = F!Mirror(edge[c][d])
    BY DEF FriendInv, F!Mirrored
  <2>2. QED
    BY <1>1, <1>2, <1>3, <2>1
<1>5. QED
  BY <1>2, <1>4 DEF F!Mirrored, F!Mirror

(* Every request keeps both tables' promises.                              *)
LEMMA FriendStep ==
  ASSUME FriendInv, [F!Next]_(F!friendVars)
  PROVE  FriendInv'
<1>1. ASSUME NEW a \in Account, NEW b \in Account, F!AddFriend(a, b)
      PROVE  FriendInv'
  <2>1. a # b /\ ~F!Apart(a, b) /\ blocked' = blocked
    BY <1>1 DEF F!AddFriend, F!MayAskFriend
  <2>2. edge[a][b] \in F!Status
    BY DEF FriendInv, F!TypeOK
  <2>3. CASE edge' = edge
    BY <2>1, <2>3 DEF FriendInv, F!TypeOK, F!Mirrored, F!BlockedApart, NoSelf, F!Apart, F!Mirror
  <2>4. CASE \E own \in F!Status : F!PutEdges(a, b, own, F!Mirror(own))
    <3>1. PICK own \in F!Status : F!PutEdges(a, b, own, F!Mirror(own))
      BY <2>4
    <3>2. F!Mirror(own) \in F!Status
      BY DEF F!Status, F!Mirror
    <3>3. edge' \in [Account -> [Account -> F!Status]] /\ F!Mirrored'
      BY <2>1, <3>1, <3>2, PutEdgesMirrors
    <3>4. \A c, d \in Account :
            (c # a \/ d # b) /\ (c # b \/ d # a) => edge'[c][d] = edge[c][d]
      <4>1. F!TypeOK
        BY DEF FriendInv
      <4>2. \A c, d \in Account :
              edge'[c][d] = IF c = b /\ d = a THEN F!Mirror(own)
                            ELSE IF c = a /\ d = b THEN own
                            ELSE IF a = b /\ c = a /\ d = a THEN F!Mirror(own)
                            ELSE edge[c][d]
        BY <3>1, <3>2, <4>1, PutEdgesWrites
      <4>3. QED
        BY <2>1, <4>2
    <3>5. \A c, d \in Account :
            F!Apart(c, d) => (c # a \/ d # b) /\ (c # b \/ d # a)
      BY <2>1 DEF F!Apart
    <3>6. F!BlockedApart'
      BY <2>1, <3>4, <3>5 DEF FriendInv, F!BlockedApart, F!Apart
    <3>7. NoSelf'
      BY <2>1, <3>4 DEF FriendInv, NoSelf
    <3>8. QED
      BY <2>1, <3>3, <3>6, <3>7 DEF FriendInv, F!TypeOK
  <2>5. QED
    <3>1. /\ "accepted" \in F!Status /\ F!Mirror("accepted") = "accepted"
          /\ "outbound" \in F!Status /\ F!Mirror("outbound") = "inbound"
      BY DEF F!Mirror, F!Status
    <3>2. CASE edge[a][b] = "inbound"
      <4>1. F!PutEdges(a, b, "accepted", "accepted")
        BY <1>1, <3>2 DEF F!AddFriend
      <4>2. QED
        BY <2>4, <3>1, <4>1
    <3>3. CASE edge[a][b] = "none"
      <4>1. F!PutEdges(a, b, "outbound", "inbound")
        BY <1>1, <3>3 DEF F!AddFriend
      <4>2. QED
        BY <2>4, <3>1, <4>1
    <3>4. CASE edge[a][b] # "inbound" /\ edge[a][b] # "none"
      BY <1>1, <2>3, <3>4 DEF F!AddFriend
    <3>5. QED
      BY <3>2, <3>3, <3>4
<1>2. ASSUME NEW a \in Account, NEW b \in Account, F!PutEdges(a, b, "none", "none")
      PROVE  /\ edge' \in [Account -> [Account -> F!Status]] /\ F!Mirrored'
             /\ edge'[a][b] = "none" /\ edge'[b][a] = "none"
             /\ \A c, d \in Account : edge[c][d] = "none" => edge'[c][d] = "none"
  <2>1. "none" \in F!Status /\ F!Mirror("none") = "none"
    BY DEF F!Status, F!Mirror
  <2>2. edge' \in [Account -> [Account -> F!Status]] /\ F!Mirrored'
    BY <1>2, <2>1, PutEdgesMirrors
  <2>3. QED
    BY <1>2, <2>1, <2>2, PutEdgesWrites DEF FriendInv
<1>3. ASSUME NEW a \in Account, NEW b \in Account, F!RemoveFriend(a, b)
      PROVE  FriendInv'
  BY <1>2, <1>3 DEF F!RemoveFriend, FriendInv, F!TypeOK, F!BlockedApart, F!Apart, NoSelf
<1>4. ASSUME NEW a \in Account, NEW b \in Account, F!BlockAccount(a, b)
      PROVE  FriendInv'
  <2>1. blocked' = blocked \cup {<<a, b>>} /\ F!PutEdges(a, b, "none", "none")
    BY <1>4 DEF F!BlockAccount
  <2>2. F!TypeOK' /\ F!Mirrored'
    BY <1>2, <2>1 DEF FriendInv, F!TypeOK
  <2>3. ASSUME NEW c \in Account, NEW d \in Account, F!Apart(c, d)'
        PROVE  edge'[c][d] = "none"
    <3>1. F!Apart(c, d) \/ <<c, d>> = <<a, b>> \/ <<d, c>> = <<a, b>>
      BY <2>1, <2>3 DEF F!Apart
    <3>2. QED
      BY <1>2, <2>1, <3>1 DEF FriendInv, F!BlockedApart
  <2>4. NoSelf'
    BY <1>2, <2>1 DEF FriendInv, NoSelf
  <2>5. QED
    BY <2>2, <2>3, <2>4 DEF FriendInv, F!BlockedApart
<1>5. ASSUME NEW a \in Account, NEW b \in Account, F!UnblockAccount(a, b)
      PROVE  FriendInv'
  BY <1>5 DEF F!UnblockAccount, FriendInv, F!TypeOK, F!Mirrored, F!BlockedApart, NoSelf, F!Apart, F!Mirror
<1>6. CASE UNCHANGED F!friendVars
  BY <1>6 DEF F!friendVars, FriendInv, F!TypeOK, F!Mirrored, F!BlockedApart, NoSelf, F!Apart, F!Mirror
<1>7. QED
  BY <1>1, <1>3, <1>4, <1>5, <1>6 DEF F!Next

(* The tables start empty.                                                 *)
LEMMA FriendInit == F!Init => FriendInv
  BY DEF F!Init, FriendInv, F!TypeOK, F!Mirrored, F!BlockedApart, NoSelf, F!Status, F!Mirror

(* The same with NoSelf, which makes the invariant inductive.              *)
THEOREM FriendInvariant == F!Spec => []FriendInv
  BY FriendInit, FriendStep, PTL DEF F!Spec

(* Requests and friendships are mutual, and accounts that block one another*)
(* share neither, for any accounts and any sequence of requests            *)
(* (friends.ts).                                                           *)
THEOREM FriendsSafe == F!Spec => [](F!TypeOK /\ F!Mirrored /\ F!BlockedApart)
<1>1. FriendInv => F!TypeOK /\ F!Mirrored /\ F!BlockedApart
  BY DEF FriendInv
<1>2. QED
  BY <1>1, FriendInvariant, PTL

----------------------------------------------------------------------------
(* Only the client of an authenticated connection has been told anything.  *)
ViewOfOpen == \A c \in Conn : conn[c].account = NoAccount => view[c] = {}

ConnInv == TypeOK /\ RegistryExact /\ ViewOfOpen

----------------------------------------------------------------------------
(* The tables                                                              *)

(* Whatever the connections do, the tables change only by a request of     *)
(* Friends.                                                                *)
LEMMA PresenceStepsAreFriends ==
  ASSUME [Next]_vars
  PROVE  [F!Next]_(F!friendVars)
<1> USE DEF F!friendVars, F!Next
<1>1. CASE UNCHANGED <<edge, blocked>>
  BY <1>1
<1>2. ASSUME NEW a \in Account, NEW b \in Account,
             AddFriend(a, b) \/ RemoveOrBlock(a, b) \/ UnblockAccount(a, b)
      PROVE  F!Next
  BY <1>2 DEF AddFriend, RemoveOrBlock, UnblockAccount
<1>3. CASE UNCHANGED vars
  BY <1>3 DEF vars
<1>4. QED
  BY <1>1, <1>2, <1>3
     DEF Next, Authenticate, Bind, PresenceAvailable, PresenceUnavailable, Teardown, GraceOver

(* Presence implements Friends.                                            *)
THEOREM PresenceRefinesFriends == Spec => F!Spec
<1>1. Init => F!Init
  BY DEF Init
<1>2. QED
  BY <1>1, PresenceStepsAreFriends, PTL DEF Spec, F!Spec

(* Friendship is mutual and blocked accounts stay apart while the          *)
(* connections come and go.                                                *)
THEOREM TablesSafe == Spec => []TablesSound
<1>1. FriendInv => TablesSound
  BY DEF FriendInv, TablesSound, FriendsMirrored, BlockedApart,
         F!Mirrored, F!BlockedApart, F!Mirror, F!Apart
<1>2. QED
  BY <1>1, PresenceRefinesFriends, FriendInvariant, PTL

----------------------------------------------------------------------------
(* The connections and the registry                                        *)

(* A registered connection knows its account and its resource.             *)
LEMMA Registered ==
  ASSUME TypeOK, RegistryExact, NEW a \in Account, NEW c \in ConnectionsFor(a)
  PROVE  /\ c \in Conn
         /\ conn[c].account = a
         /\ conn[c].resource \in Resource
         /\ registry[a][conn[c].resource] = c
  BY DEF ConnectionsFor, ConnectionsOf, TypeOK, RegistryExact

LEMMA RegisteredIf ==
  ASSUME TypeOK, NEW a \in Account, NEW r \in Resource, registry[a][r] # NoConn
  PROVE  registry[a][r] \in ConnectionsFor(a)
  BY DEF ConnectionsFor, ConnectionsOf

(* What the connections of an account show is a resource of that account.  *)
LEMMA ShownType ==
  ASSUME TypeOK, RegistryExact, NEW a \in Account
  PROVE  Shown(a) \subseteq {a} \X Resource
  BY Registered DEF Shown

(* The parts of TypeOK that are not about the tables.                      *)
ConnTypes ==
  /\ conn \in [Conn -> [account : Account \cup {NoAccount},
                        resource : Resource \cup {NoResource}, available : BOOLEAN]]
  /\ \A c \in Conn : conn[c].account = NoAccount => conn[c] = Closed
  /\ \A c \in Conn : conn[c].available => conn[c].resource # NoResource
  /\ registry \in [Account -> [Resource -> Conn \cup {NoConn}]]
  /\ pendingOffline \in [Account -> Resource \cup {NoResource}]
  /\ view \in [Conn -> SUBSET (Account \X Resource)]

LEMMA TypeParts == TypeOK <=> F!TypeOK /\ ConnTypes
  BY DEF TypeOK, ConnTypes

(* Changing the resource or the availability of one connection.            *)
LEMMA ConnUpdate ==
  ASSUME ConnTypes, NEW c \in Conn, NEW r \in Resource, NEW v \in BOOLEAN,
         conn[c].account \in Account,
         \/ conn' = [conn EXCEPT ![c].resource = r] /\ v = conn[c].available
         \/ conn' = [conn EXCEPT ![c].available = v] /\ r = conn[c].resource
  PROVE  /\ conn' \in [Conn -> [account : Account \cup {NoAccount},
                                resource : Resource \cup {NoResource}, available : BOOLEAN]]
         /\ conn'[c] = [account |-> conn[c].account, resource |-> r, available |-> v]
         /\ \A d \in Conn \ {c} : conn'[d] = conn[d]
         /\ \A d \in Conn : conn'[d].account = NoAccount => conn'[d] = Closed
         /\ \A d \in Conn : conn'[d].available => conn'[d].resource # NoResource
         /\ \A d \in Conn : conn'[d].account = conn[d].account
<1>1. conn[c] \in [account : Account \cup {NoAccount},
                  resource : Resource \cup {NoResource}, available : BOOLEAN]
  BY DEF ConnTypes
<1>2. conn'[c] = [account |-> conn[c].account, resource |-> r, available |-> v]
  BY <1>1 DEF ConnTypes
<1>3. \A d \in Conn \ {c} : conn'[d] = conn[d]
  BY DEF ConnTypes
<1>4. conn' \in [Conn -> [account : Account \cup {NoAccount},
                         resource : Resource \cup {NoResource}, available : BOOLEAN]]
  <2>1. conn' = [d \in Conn |-> conn'[d]]
    BY DEF ConnTypes
  <2>2. \A d \in Conn : conn'[d] \in [account : Account \cup {NoAccount},
                         resource : Resource \cup {NoResource}, available : BOOLEAN]
    BY <1>2, <1>3 DEF ConnTypes
  <2>3. QED
    BY <2>1, <2>2
<1>5. conn'[c].account = conn[c].account /\ conn'[c].resource = r
  BY <1>2
<1>6. QED
  BY <1>2, <1>3, <1>4, <1>5, PresenceNulls DEF ConnTypes

(* An open connection can be told anything that some account shows.        *)
LEMMA ConnStep ==
  ASSUME BindOnce, ConnInv, F!TypeOK', [Next]_vars
  PROVE  ConnInv'
<1> SUFFICES ConnTypes' /\ RegistryExact' /\ ViewOfOpen'
  BY TypeParts DEF ConnInv, TypeOK, ConnTypes
<1>0. TypeOK /\ ConnTypes /\ RegistryExact /\ ViewOfOpen
  BY TypeParts DEF ConnInv
<1>1. ASSUME NEW c \in Conn, NEW a \in Account, Authenticate(c, a)
      PROVE  ConnTypes' /\ RegistryExact' /\ ViewOfOpen'
  <2>1. ConnTypes'
    BY <1>0, <1>1 DEF Authenticate, ConnTypes, Closed
  <2>2. RegistryExact'
    BY <1>0, <1>1, PresenceNulls DEF Authenticate, RegistryExact, ConnTypes, Closed
  <2>3. ViewOfOpen'
    BY <1>0, <1>1, PresenceNulls DEF Authenticate, ViewOfOpen, ConnTypes, Closed
  <2>4. QED
    BY <2>1, <2>2, <2>3
<1>2. ASSUME NEW c \in Conn, NEW r \in Resource, Bind(c, r)
      PROVE  ConnTypes' /\ RegistryExact' /\ ViewOfOpen'
  <2>0. /\ conn[c].account \in Account /\ conn[c].resource = NoResource
        /\ ~conn[c].available
    BY <1>0, <1>2 DEF Bind, ConnTypes
  <2>1. /\ conn' \in [Conn -> [account : Account \cup {NoAccount},
                              resource : Resource \cup {NoResource}, available : BOOLEAN]]
        /\ conn'[c] = [account |-> conn[c].account, resource |-> r,
                       available |-> conn[c].available]
        /\ \A d \in Conn \ {c} : conn'[d] = conn[d]
        /\ \A d \in Conn : conn'[d].account = NoAccount => conn'[d] = Closed
        /\ \A d \in Conn : conn'[d].available => conn'[d].resource # NoResource
        /\ \A d \in Conn : conn'[d].account = conn[d].account
    <3>1. conn[c].available \in BOOLEAN /\ conn' = [conn EXCEPT ![c].resource = r]
      BY <1>0, <1>2 DEF Bind, ConnTypes
    <3>2. QED
      BY <1>0, <2>0, <3>1, ConnUpdate
  <2>2. /\ registry' \in [Account -> [Resource -> Conn \cup {NoConn}]]
        /\ registry'[conn[c].account][r] = c
        /\ \A a \in Account, s \in Resource :
             a # conn[c].account \/ s # r => registry'[a][s] = registry[a][s]
    BY <1>0, <1>2, <2>0 DEF Bind, ConnTypes
  <2>3. ConnTypes'
    BY <1>0, <1>2, <2>1, <2>2 DEF Bind, ConnTypes
  <2>4. RegistryExact'
    <3>1. ASSUME NEW a \in Account, NEW s \in Resource, registry'[a][s] # NoConn
          PROVE  conn'[registry'[a][s]].account = a /\ conn'[registry'[a][s]].resource = s
      <4>1. CASE a = conn[c].account /\ s = r
        BY <2>1, <2>2, <4>1
      <4>2. CASE a # conn[c].account \/ s # r
        <5>1. registry'[a][s] = registry[a][s]
          BY <2>2, <4>2
        <5>2. conn[registry[a][s]].account = a /\ conn[registry[a][s]].resource = s
          BY <1>0, <3>1, <5>1 DEF RegistryExact
        <5>3. registry[a][s] \in Conn \ {c}
          BY <1>0, <2>0, <3>1, <5>1, <5>2, PresenceNulls DEF ConnTypes
        <5>4. QED
          BY <2>1, <5>1, <5>2, <5>3
      <4>3. QED
        BY <4>1, <4>2
    <3>2. QED
      BY <3>1 DEF RegistryExact
  <2>5. ViewOfOpen'
    BY <1>0, <1>2, <2>1 DEF Bind, ViewOfOpen, ConnTypes
  <2>6. QED
    BY <2>3, <2>4, <2>5
<1>3. ASSUME NEW c \in Conn, PresenceAvailable(c)
      PROVE  ConnTypes' /\ RegistryExact' /\ ViewOfOpen'
  <2>0. conn[c].account \in Account /\ conn[c].resource \in Resource
    BY <1>0, <1>3 DEF PresenceAvailable, ConnTypes, Closed
  <2>1. \A d \in Conn : view'[d] \subseteq Account \X Resource
    <3>1. \A f \in Account : Shown(f) \subseteq Account \X Resource
      BY <1>0, ShownType
    <3>2. F!AcceptedFriends(conn[c].account) \subseteq Account
      BY DEF F!AcceptedFriends
    <3>3. QED
      BY <1>0, <1>3, <2>0, <3>1, <3>2
         DEF PresenceAvailable, OnResourceAvailable, Exchange, ConnTypes
  <2>2. /\ conn' \in [Conn -> [account : Account \cup {NoAccount},
                              resource : Resource \cup {NoResource}, available : BOOLEAN]]
        /\ conn'[c] = [account |-> conn[c].account, resource |-> conn[c].resource,
                       available |-> TRUE]
        /\ \A d \in Conn \ {c} : conn'[d] = conn[d]
        /\ \A d \in Conn : conn'[d].account = NoAccount => conn'[d] = Closed
        /\ \A d \in Conn : conn'[d].available => conn'[d].resource # NoResource
        /\ \A d \in Conn : conn'[d].account = conn[d].account
    <3>1. conn' = [conn EXCEPT ![c].available = TRUE]
      BY <1>3 DEF PresenceAvailable
    <3>2. QED
      BY <1>0, <2>0, <3>1, ConnUpdate
  <2>3. /\ ConnTypes'
        /\ RegistryExact'
    <3>1. pendingOffline' \in [Account -> Resource \cup {NoResource}]
      BY <1>0, <1>3 DEF PresenceAvailable, OnResourceAvailable, ConnTypes
    <3>2. view' \in [Conn -> SUBSET (Account \X Resource)]
      <4>1. view' = [d \in Conn |-> view'[d]]
        BY <1>3 DEF PresenceAvailable, OnResourceAvailable, Exchange
      <4>2. QED
        BY <2>1, <4>1
    <3>3. registry' = registry
      BY <1>3 DEF PresenceAvailable
    <3>4. ConnTypes'
      BY <1>0, <2>2, <3>1, <3>2, <3>3 DEF ConnTypes
    <3>5. \A d \in Conn : conn'[d].account = conn[d].account /\ conn'[d].resource = conn[d].resource
      BY <2>2
    <3>6. RegistryExact'
      BY <1>0, <3>3, <3>5 DEF RegistryExact, ConnTypes
    <3>7. QED
      BY <3>4, <3>6
  <2>4. ViewOfOpen'
    <3>1. ASSUME NEW d \in Conn, conn'[d].account = NoAccount
          PROVE  view'[d] = {}
      <4>1. conn[d].account = NoAccount
        BY <1>0, <1>3, <2>0, <3>1 DEF PresenceAvailable, ConnTypes
      <4>2. \A f \in Account : d \notin ConnectionsFor(f)
        BY <1>0, <4>1, Registered, PresenceNulls
      <4>3. QED
        BY <1>0, <1>3, <2>0, <4>1, <4>2
           DEF PresenceAvailable, OnResourceAvailable, Exchange, ViewOfOpen, F!AcceptedFriends
    <3>2. QED
      BY <3>1 DEF ViewOfOpen
  <2>5. QED
    BY <2>3, <2>4
<1>4. ASSUME NEW c \in Conn, PresenceUnavailable(c)
      PROVE  ConnTypes' /\ RegistryExact' /\ ViewOfOpen'
  <2>1. conn[c].account \in Account /\ conn[c].resource \in Resource
    BY <1>0, <1>4 DEF PresenceUnavailable, ConnTypes, Closed
  <2>2. /\ conn' \in [Conn -> [account : Account \cup {NoAccount},
                              resource : Resource \cup {NoResource}, available : BOOLEAN]]
        /\ conn'[c] = [account |-> conn[c].account, resource |-> conn[c].resource,
                       available |-> FALSE]
        /\ \A d \in Conn \ {c} : conn'[d] = conn[d]
        /\ \A d \in Conn : conn'[d].account = NoAccount => conn'[d] = Closed
        /\ \A d \in Conn : conn'[d].available => conn'[d].resource # NoResource
        /\ \A d \in Conn : conn'[d].account = conn[d].account
    <3>1. conn' = [conn EXCEPT ![c].available = FALSE]
      BY <1>4 DEF PresenceUnavailable
    <3>2. QED
      BY <1>0, <2>1, <3>1, ConnUpdate
  <2>3. pendingOffline' \in [Account -> Resource \cup {NoResource}]
    BY <1>0, <1>4, <2>1 DEF PresenceUnavailable, OnResourceUnavailable, ConnTypes
  <2>4. registry' = registry /\ view' = view
    BY <1>4 DEF PresenceUnavailable
  <2>5. \A d \in Conn : conn'[d].account = conn[d].account /\ conn'[d].resource = conn[d].resource
    BY <2>2
  <2>6. QED
    BY <1>0, <2>2, <2>3, <2>4, <2>5 DEF ConnTypes, RegistryExact, ViewOfOpen
<1>5. ASSUME NEW c \in Conn, Teardown(c)
      PROVE  ConnTypes' /\ RegistryExact' /\ ViewOfOpen'
  <2>0. conn[c].account \in Account
    BY <1>0, <1>5 DEF Teardown, ConnTypes
  <2>1. /\ registry' \in [Account -> [Resource -> Conn \cup {NoConn}]]
        /\ \A a \in Account, s \in Resource :
             registry'[a][s] = registry[a][s] \/ registry'[a][s] = NoConn
        /\ conn[c].resource \in Resource =>
             registry'[conn[c].account][conn[c].resource] # c
    <3>1. CASE conn[c].resource = NoResource
      BY <1>0, <1>5, <3>1, PresenceNulls DEF Teardown, ConnTypes
    <3>2. CASE conn[c].resource # NoResource
      <4>1. registry' =
              [registry EXCEPT ![conn[c].account] =
                 [r \in Resource |->
                    IF r = conn[c].resource /\ registry[conn[c].account][r] = c
                    THEN NoConn ELSE registry[conn[c].account][r]]]
        BY <1>5, <3>2 DEF Teardown, Unbind
      <4>2. registry \in [Account -> [Resource -> Conn \cup {NoConn}]]
        BY <1>0 DEF ConnTypes
      <4>3. QED
        BY <2>0, <4>1, <4>2, PresenceNulls
    <3>3. QED
      BY <3>1, <3>2
  <2>2. pendingOffline' \in [Account -> Resource \cup {NoResource}]
    BY <1>0, <1>5, <2>0 DEF Teardown, OnResourceUnavailable, ConnTypes
  <2>3. /\ conn' \in [Conn -> [account : Account \cup {NoAccount},
                              resource : Resource \cup {NoResource}, available : BOOLEAN]]
        /\ conn'[c] = Closed /\ Closed.account = NoAccount /\ Closed.available = FALSE
        /\ \A d \in Conn \ {c} : conn'[d] = conn[d]
    BY <1>0, <1>5 DEF Teardown, ConnTypes, Closed
  <2>4. view' \in [Conn -> SUBSET (Account \X Resource)] /\ ViewOfOpen'
    BY <1>0, <1>5, <2>3 DEF Teardown, ViewOfOpen, ConnTypes
  <2>5. ConnTypes'
    BY <1>0, <2>1, <2>2, <2>3, <2>4 DEF ConnTypes
  <2>6. ASSUME NEW a \in Account, NEW s \in Resource, registry'[a][s] # NoConn
        PROVE  conn'[registry'[a][s]].account = a /\ conn'[registry'[a][s]].resource = s
    <3>1. /\ registry'[a][s] = registry[a][s] /\ registry[a][s] \in Conn
          /\ conn[registry[a][s]].account = a /\ conn[registry[a][s]].resource = s
      BY <1>0, <2>1, <2>6 DEF RegistryExact, ConnTypes
    <3>2. registry[a][s] # c
      BY <2>1, <3>1
    <3>3. QED
      BY <2>3, <3>1, <3>2
  <2>7. QED
    BY <2>4, <2>5, <2>6 DEF RegistryExact
<1>6. ASSUME NEW a \in Account, GraceOver(a)
      PROVE  ConnTypes' /\ RegistryExact' /\ ViewOfOpen'
  <2>1. \A d \in Conn : view'[d] \subseteq view[d]
    BY <1>6 DEF GraceOver
  <2>2. QED
    BY <1>0, <1>6, <2>1 DEF GraceOver, ConnTypes, RegistryExact, ViewOfOpen, Closed
<1>7. ASSUME NEW a \in Account, NEW b \in Account, AddFriend(a, b)
      PROVE  ConnTypes' /\ RegistryExact' /\ ViewOfOpen'
  <2>1. \A f \in Account : Shown(f) \subseteq Account \X Resource
    BY <1>0, ShownType
  <2>2. view' \in [Conn -> SUBSET (Account \X Resource)]
    <3>1. view \in [Conn -> SUBSET (Account \X Resource)]
      BY <1>0 DEF ConnTypes
    <3>2. CASE view' = view
      BY <3>1, <3>2
    <3>3. CASE view' # view
      <4>1. view' = [d \in Conn |->
              IF d \in ConnectionsFor(a) THEN view[d] \cup Shown(b)
              ELSE IF d \in ConnectionsFor(b) THEN view[d] \cup Shown(a)
              ELSE view[d]]
        BY <1>7, <3>3 DEF AddFriend
      <4>2. QED
        BY <2>1, <3>1, <4>1
    <3>4. QED
      BY <3>2, <3>3
  <2>3. \A d \in Conn : conn[d].account = NoAccount =>
                         d \notin ConnectionsFor(a) /\ d \notin ConnectionsFor(b)
    BY <1>0, Registered, PresenceNulls
  <2>4. ViewOfOpen'
    BY <1>0, <1>7, <2>3 DEF AddFriend, ViewOfOpen, ConnTypes
  <2>5. QED
    BY <1>0, <1>7, <2>2, <2>4 DEF AddFriend, ConnTypes, RegistryExact, Closed
<1>8. ASSUME NEW a \in Account, NEW b \in Account, RemoveOrBlock(a, b)
      PROVE  ConnTypes' /\ RegistryExact' /\ ViewOfOpen'
  <2>1. \A d \in Conn : view'[d] \subseteq view[d]
    BY <1>8 DEF RemoveOrBlock, DropEntries
  <2>2. view' \in [Conn -> SUBSET (Account \X Resource)]
    BY <1>0, <1>8, <2>1 DEF RemoveOrBlock, DropEntries, ConnTypes
  <2>3. QED
    BY <1>0, <1>8, <2>1, <2>2 DEF RemoveOrBlock, ConnTypes, RegistryExact, ViewOfOpen, Closed
<1>9. ASSUME NEW a \in Account, NEW b \in Account, UnblockAccount(a, b)
      PROVE  ConnTypes' /\ RegistryExact' /\ ViewOfOpen'
  BY <1>0, <1>9
     DEF UnblockAccount, presenceVars, ConnTypes, RegistryExact, ViewOfOpen, Closed
<1>10. CASE UNCHANGED vars
  BY <1>0, <1>10 DEF vars, presenceVars, ConnTypes, RegistryExact, ViewOfOpen, Closed
<1>11. QED
  BY <1>1, <1>2, <1>3, <1>4, <1>5, <1>6, <1>7, <1>8, <1>9, <1>10 DEF Next

LEMMA ConnInit == Init => ConnInv
<1> SUFFICES ASSUME Init PROVE ConnInv
  OBVIOUS
<1>1. F!TypeOK
  BY DEF Init, F!Init, F!TypeOK, F!Status
<1>2. ConnTypes
  BY DEF Init, ConnTypes, Closed
<1>3. RegistryExact /\ ViewOfOpen
  BY DEF Init, RegistryExact, ViewOfOpen
<1>4. QED
  BY <1>1, <1>2, <1>3, TypeParts DEF ConnInv

LEMMA TableTypes == FriendInv => F!TypeOK
  BY DEF FriendInv

THEOREM ConnInvariant ==
  ASSUME BindOnce
  PROVE  Spec => [](ConnInv /\ FriendInv)
<1>1. Spec => []FriendInv
  BY PresenceRefinesFriends, FriendInvariant, PTL
<1>2. ConnInv /\ FriendInv' /\ [Next]_vars => ConnInv'
  BY ConnStep, TableTypes DEF FriendInv, F!TypeOK, F!Status
<1>3. QED
  BY <1>1, <1>2, ConnInit, PTL DEF Spec

(* The connections have the types of the code's fields, and the registry   *)
(* lists only open connections, under what they have bound.                *)
THEOREM RegistrySafe ==
  ASSUME BindOnce
  PROVE  Spec => [](TypeOK /\ RegistryExact)
<1>1. ConnInv => TypeOK /\ RegistryExact
  BY DEF ConnInv
<1>2. QED
  BY <1>1, ConnInvariant, PTL

----------------------------------------------------------------------------
(* What friends see                                                        *)

(* FriendsShown, one pair of registered resources at a time.               *)
ShownPairs ==
  \A a, b \in Account, s, t \in Resource :
    /\ edge[a][b] = "accepted"
    /\ registry[a][s] # NoConn /\ conn[registry[a][s]].available
    /\ registry[b][t] # NoConn /\ conn[registry[b][t]].available
    => <<b, t>> \in view[registry[a][s]]

LEMMA ShownPointwise == ConnInv /\ ShownPairs => FriendsShown
<1> SUFFICES ASSUME ConnInv, ShownPairs,
                    NEW a \in Account, NEW b \in F!AcceptedFriends(a),
                    NEW c \in ConnectionsFor(a), NEW d \in ConnectionsFor(b),
                    conn[c].available, conn[d].available
             PROVE  <<b, conn[d].resource>> \in view[c]
  BY DEF FriendsShown
<1>1. b \in Account /\ edge[a][b] = "accepted"
  BY DEF F!AcceptedFriends
<1>2. /\ c \in Conn /\ conn[c].resource \in Resource
      /\ registry[a][conn[c].resource] = c
  BY Registered DEF ConnInv
<1>3. /\ d \in Conn /\ conn[d].resource \in Resource
      /\ registry[b][conn[d].resource] = d
  BY <1>1, Registered DEF ConnInv
<1>4. QED
  BY <1>1, <1>2, <1>3, PresenceNulls DEF ShownPairs

(* Two places of the registry never hold the same connection.              *)
LEMMA OnePlace ==
  ASSUME ConnInv, NEW a \in Account, NEW b \in Account,
         NEW s \in Resource, NEW t \in Resource,
         registry[a][s] # NoConn, registry[a][s] = registry[b][t]
  PROVE  a = b /\ s = t
  BY DEF ConnInv, RegistryExact

(* What a bind leaves where it was.                                        *)
LEMMA BindKeeps ==
  ASSUME BindOnce, ConnInv, NEW x \in Conn, NEW r \in Resource, Bind(x, r),
         NEW a \in Account, NEW s \in Resource,
         registry'[a][s] # NoConn, registry'[a][s] # x
  PROVE  /\ registry'[a][s] = registry[a][s]
         /\ registry[a][s] \in Conn \ {x}
         /\ conn'[registry[a][s]] = conn[registry[a][s]]
         /\ view'[registry[a][s]] = view[registry[a][s]]
<1>0. TypeOK /\ conn[x].account \in Account
  BY DEF ConnInv, TypeOK, Bind
<1>1. /\ registry' = [registry EXCEPT ![conn[x].account] =
                        [registry[conn[x].account] EXCEPT ![r] = x]]
      /\ conn' = [conn EXCEPT ![x].resource = r]
      /\ view' = [d \in Conn |-> IF d = registry[conn[x].account][r] /\ d # x
                                THEN {} ELSE view[d]]
  BY DEF Bind
<1>2. a # conn[x].account \/ s # r
  BY <1>0, <1>1 DEF TypeOK
<1>3. registry'[a][s] = registry[a][s]
  BY <1>0, <1>1, <1>2 DEF TypeOK
<1>4. registry[a][s] \in Conn \ {x}
  BY <1>0, <1>3 DEF TypeOK
<1>5. registry[a][s] # registry[conn[x].account][r]
  BY <1>0, <1>2, <1>3, OnePlace
<1>6. QED
  BY <1>0, <1>1, <1>3, <1>4, <1>5 DEF TypeOK

(* What the end of a connection leaves where it was.                       *)
LEMMA TeardownKeeps ==
  ASSUME ConnInv, NEW x \in Conn, Teardown(x),
         NEW a \in Account, NEW s \in Resource, registry'[a][s] # NoConn
  PROVE  /\ registry'[a][s] = registry[a][s]
         /\ registry[a][s] \in Conn \ {x}
         /\ conn'[registry[a][s]] = conn[registry[a][s]]
         /\ view'[registry[a][s]] = view[registry[a][s]]
<1>0. TypeOK /\ RegistryExact /\ conn[x].account \in Account
  BY DEF ConnInv, TypeOK, Teardown
<1>1. conn' = [conn EXCEPT ![x] = Closed] /\ view' = [view EXCEPT ![x] = {}]
  BY DEF Teardown
<1>2. registry'[a][s] = registry[a][s] /\ registry[a][s] # x
  <2>1. CASE conn[x].resource = NoResource
    <3>1. registry' = registry
      BY <2>1 DEF Teardown
    <3>2. QED
      BY <1>0, <2>1, <3>1, PresenceNulls DEF RegistryExact
  <2>2. CASE conn[x].resource # NoResource
    <3>1. registry' =
            [registry EXCEPT ![conn[x].account] =
               [q \in Resource |->
                  IF q = conn[x].resource /\ registry[conn[x].account][q] = x
                  THEN NoConn ELSE registry[conn[x].account][q]]]
      BY <2>2 DEF Teardown, Unbind
    <3>2. registry'[a][s] = registry[a][s]
      BY <1>0, <3>1 DEF TypeOK
    <3>3. registry[a][s] = x => a = conn[x].account /\ s = conn[x].resource
      BY <1>0, <3>2 DEF RegistryExact
    <3>4. QED
      BY <1>0, <3>1, <3>2, <3>3 DEF TypeOK
  <2>3. QED
    BY <2>1, <2>2
<1>3. QED
  BY <1>0, <1>1, <1>2 DEF TypeOK

(* Requests change the rows of the two accounts only.                      *)
LEMMA AddFriendEdges ==
  ASSUME F!TypeOK, NEW p \in Account, NEW q \in Account, F!AddFriend(p, q)
  PROVE  /\ \A a, b \in Account :
              (a # p \/ b # q) /\ (a # q \/ b # p) => edge'[a][b] = edge[a][b]
         /\ edge'[p][q] = "accepted" => edge[p][q] \in {"accepted", "inbound"}
<1>1. p # q
  BY DEF F!AddFriend, F!MayAskFriend
<1>2. CASE edge[p][q] = "inbound"
  <2>1. F!PutEdges(p, q, "accepted", "accepted")
    BY <1>2 DEF F!AddFriend
  <2>2. QED
    BY <1>1, <1>2, <2>1 DEF F!PutEdges, F!TypeOK
<1>3. CASE edge[p][q] = "none"
  <2>1. F!PutEdges(p, q, "outbound", "inbound")
    BY <1>3 DEF F!AddFriend
  <2>2. QED
    BY <1>1, <2>1 DEF F!PutEdges, F!TypeOK
<1>4. CASE edge[p][q] # "inbound" /\ edge[p][q] # "none"
  <2>1. edge' = edge
    BY <1>4 DEF F!AddFriend
  <2>2. QED
    BY <2>1
<1>5. QED
  BY <1>2, <1>3, <1>4

LEMMA RemoveEdges ==
  ASSUME F!TypeOK, NEW p \in Account, NEW q \in Account, RemoveOrBlock(p, q)
  PROVE  /\ p # q
         /\ edge'[p][q] = "none" /\ edge'[q][p] = "none"
         /\ \A a, b \in Account :
              (a # p \/ b # q) /\ (a # q \/ b # p) => edge'[a][b] = edge[a][b]
<1>1. p # q /\ F!PutEdges(p, q, "none", "none")
  BY DEF RemoveOrBlock, F!RemoveFriend, F!BlockAccount
<1>2. QED
  BY <1>1 DEF F!PutEdges, F!TypeOK

LEMMA ShownStep ==
  ASSUME BindOnce, ConnInv, FriendInv, FriendInv', ShownPairs, [Next]_vars
  PROVE  ShownPairs'
<1> SUFFICES ASSUME NEW a \in Account, NEW b \in Account,
                    NEW s \in Resource, NEW t \in Resource,
                    edge'[a][b] = "accepted",
                    registry'[a][s] # NoConn, conn'[registry'[a][s]].available,
                    registry'[b][t] # NoConn, conn'[registry'[b][t]].available
             PROVE  <<b, t>> \in view'[registry'[a][s]]
  BY DEF ShownPairs
<1> DEFINE c == registry[a][s]
           d == registry[b][t]
           Told == /\ edge[a][b] = "accepted"
                   /\ c # NoConn /\ conn[c].available
                   /\ d # NoConn /\ conn[d].available
<1>0. TypeOK /\ RegistryExact /\ F!TypeOK
  BY TableTypes DEF ConnInv
<1>1. Told => <<b, t>> \in view[c]
  BY DEF ShownPairs
<1>2. ASSUME registry' = registry
      PROVE  /\ c \in Conn /\ conn[c].account = a /\ conn[c].resource = s
             /\ d \in Conn /\ conn[d].account = b /\ conn[d].resource = t
             /\ c \in ConnectionsFor(a) /\ d \in ConnectionsFor(b)
  BY <1>0, <1>2, RegisteredIf DEF RegistryExact, TypeOK
<1>3. \A e, f \in Account : edge[e][f] = "accepted" => e # f /\ edge[f][e] = "accepted"
  BY DEF FriendInv, NoSelf, F!Mirrored, F!Mirror
<1>4. edge'[b][a] = "accepted" /\ a # b
  BY DEF FriendInv, NoSelf, F!Mirrored, F!Mirror
<1>5. ASSUME NEW x \in Conn, NEW e \in Account, Authenticate(x, e)
      PROVE  <<b, t>> \in view'[registry'[a][s]]
  <2>1. conn' = [conn EXCEPT ![x] = [Closed EXCEPT !.account = e]]
    BY <1>5 DEF Authenticate
  <2>2. registry' = registry /\ view' = view /\ edge' = edge
    BY <1>5 DEF Authenticate
  <2>3. ~conn'[x].available
    BY <1>0, <2>1 DEF Closed, TypeOK
  <2>4. c # x /\ d # x
    BY <2>2, <2>3
  <2>5. QED
    BY <1>0, <1>1, <1>2, <2>1, <2>2, <2>4 DEF TypeOK
<1>6. ASSUME NEW x \in Conn, NEW r \in Resource, Bind(x, r)
      PROVE  <<b, t>> \in view'[registry'[a][s]]
  <2>1. edge' = edge /\ ~conn'[x].available
    BY <1>0, <1>6 DEF Bind, TypeOK
  <2>2. registry'[a][s] # x /\ registry'[b][t] # x
    BY <2>1
  <2>3. /\ registry'[a][s] = c /\ conn'[c] = conn[c] /\ view'[c] = view[c]
        /\ registry'[b][t] = d /\ conn'[d] = conn[d]
    BY <1>6, <2>2, BindKeeps
  <2>4. QED
    BY <1>1, <2>1, <2>3
<1>7. ASSUME NEW x \in Conn, PresenceAvailable(x)
      PROVE  <<b, t>> \in view'[registry'[a][s]]
  <2> DEFINE ax == conn[x].account
             Friend(e) == \E f \in F!AcceptedFriends(ax) : e \in ConnectionsFor(f)
  <2>1. registry' = registry /\ edge' = edge /\ conn' = [conn EXCEPT ![x].available = TRUE]
    BY <1>7 DEF PresenceAvailable
  <2>2. view' = [e \in Conn |->
                  IF Friend(e) THEN view[e] \cup {<<ax, conn[x].resource>>}
                  ELSE IF e \in ConnectionsFor(ax)
                  THEN view[e] \cup UNION {Shown(f) : f \in F!AcceptedFriends(ax)}
                  ELSE view[e]]
    BY <1>7 DEF PresenceAvailable, OnResourceAvailable, Exchange
  <2>3. \A e \in Conn : view[e] \subseteq view'[e]
    BY <2>2
  <2>4. CASE c # x /\ d # x
    BY <1>0, <1>1, <1>2, <2>1, <2>3, <2>4 DEF TypeOK
  <2>5. CASE d = x
    <3>1. ax = b /\ conn[x].resource = t
      BY <1>2, <2>1, <2>5
    <3>2. Friend(c)
      BY <1>2, <1>4, <2>1, <3>1 DEF F!AcceptedFriends
    <3>3. QED
      BY <1>2, <2>1, <2>2, <3>1, <3>2
  <2>6. CASE c = x
    <3>1. ax = a
      BY <1>2, <2>1, <2>6
    <3>2. ~Friend(c)
      <4>1. \A f \in Account : c \in ConnectionsFor(f) => f = a
        BY <1>0, <1>2, <2>1, Registered
      <4>2. QED
        BY <1>3, <3>1, <4>1 DEF F!AcceptedFriends
    <3>3. <<b, t>> \in Shown(b)
      BY <1>2, <2>1 DEF Shown
    <3>4. b \in F!AcceptedFriends(ax)
      BY <2>1, <3>1 DEF F!AcceptedFriends
    <3>5. QED
      BY <1>2, <2>1, <2>2, <3>1, <3>2, <3>3, <3>4
  <2>7. QED
    BY <2>4, <2>5, <2>6
<1>8. ASSUME NEW x \in Conn, PresenceUnavailable(x)
      PROVE  <<b, t>> \in view'[registry'[a][s]]
  <2>1. /\ registry' = registry /\ view' = view /\ edge' = edge
        /\ conn' = [conn EXCEPT ![x].available = FALSE]
    BY <1>8 DEF PresenceUnavailable
  <2>2. ~conn'[x].available
    BY <1>0, <2>1 DEF TypeOK
  <2>3. c # x /\ d # x
    BY <2>1, <2>2
  <2>4. QED
    BY <1>0, <1>1, <1>2, <2>1, <2>3 DEF TypeOK
<1>9. ASSUME NEW x \in Conn, Teardown(x)
      PROVE  <<b, t>> \in view'[registry'[a][s]]
  <2>1. /\ registry'[a][s] = c /\ conn'[c] = conn[c] /\ view'[c] = view[c]
        /\ registry'[b][t] = d /\ conn'[d] = conn[d]
    BY <1>9, TeardownKeeps
  <2>2. edge' = edge
    BY <1>9 DEF Teardown
  <2>3. QED
    BY <1>1, <2>1, <2>2
<1>10. ASSUME NEW e \in Account, GraceOver(e)
       PROVE  <<b, t>> \in view'[registry'[a][s]]
  <2>1. conn' = conn /\ registry' = registry /\ edge' = edge
    BY <1>10 DEF GraceOver
  <2>2. <<b, t>> \in view[c]
    BY <1>1, <2>1
  <2>3. b = e => IsOnline(e)
    BY <1>2, <2>1 DEF IsOnline
  <2>4. QED
    BY <1>2, <1>10, <2>1, <2>2, <2>3 DEF GraceOver
<1>11. ASSUME NEW p \in Account, NEW q \in Account, AddFriend(p, q)
       PROVE  <<b, t>> \in view'[registry'[a][s]]
  <2>1. conn' = conn /\ registry' = registry /\ F!AddFriend(p, q) /\ p # q
    BY <1>11 DEF AddFriend, F!AddFriend, F!MayAskFriend
  <2>2. \A e \in Conn : view[e] \subseteq view'[e]
    BY <1>11 DEF AddFriend
  <2>3. CASE (a # p \/ b # q) /\ (a # q \/ b # p)
    <3>1. edge[a][b] = "accepted"
      BY <1>0, <2>1, <2>3, AddFriendEdges
    <3>2. QED
      BY <1>1, <1>2, <2>1, <2>2, <3>1
  <2>4. CASE (a = p /\ b = q) \/ (a = q /\ b = p)
    <3>1. edge[p][q] \in {"accepted", "inbound"}
      BY <1>0, <1>4, <2>1, <2>4, AddFriendEdges
    <3>2. view' = [e \in Conn |->
                    IF e \in ConnectionsFor(p) THEN view[e] \cup Shown(q)
                    ELSE IF e \in ConnectionsFor(q) THEN view[e] \cup Shown(p)
                    ELSE view[e]]
      BY <1>11, <3>1 DEF AddFriend
    <3>3. <<b, t>> \in Shown(b)
      BY <1>2, <2>1 DEF Shown
    <3>4. a # p => c \notin ConnectionsFor(p)
      BY <1>0, <1>2, <2>1, Registered
    <3>5. QED
      BY <1>2, <2>1, <2>4, <3>2, <3>3, <3>4
  <2>5. QED
    BY <2>3, <2>4
<1>12. ASSUME NEW p \in Account, NEW q \in Account, RemoveOrBlock(p, q)
       PROVE  <<b, t>> \in view'[registry'[a][s]]
  <2>1. conn' = conn /\ registry' = registry
    BY <1>12 DEF RemoveOrBlock
  <2>2. /\ (a # p \/ b # q) /\ (a # q \/ b # p)
        /\ edge[a][b] = "accepted"
    BY <1>0, <1>12, RemoveEdges
  <2>3. <<b, t>> \in view[c]
    BY <1>1, <2>1, <2>2
  <2>4. \A e \in Account : c \in ConnectionsFor(e) => e = a
    BY <1>0, <1>2, <2>1, Registered
  <2>5. QED
    BY <1>2, <1>12, <2>1, <2>2, <2>3, <2>4 DEF RemoveOrBlock, DropEntries
<1>13. ASSUME NEW p \in Account, NEW q \in Account, UnblockAccount(p, q)
       PROVE  <<b, t>> \in view'[registry'[a][s]]
  <2>1. conn' = conn /\ registry' = registry /\ view' = view /\ edge' = edge
    BY <1>13 DEF UnblockAccount, presenceVars, F!UnblockAccount
  <2>2. QED
    BY <1>1, <2>1
<1>14. CASE UNCHANGED vars
  <2>1. conn' = conn /\ registry' = registry /\ view' = view /\ edge' = edge
    BY <1>14 DEF vars, presenceVars
  <2>2. QED
    BY <1>1, <2>1
<1>15. QED
  BY <1>5, <1>6, <1>7, <1>8, <1>9, <1>10, <1>11, <1>12, <1>13, <1>14 DEF Next

LEMMA ShownInit == Init => ShownPairs
  BY DEF Init, F!Init, ShownPairs

(* Two friends who both announced themselves see one another: nothing the  *)
(* connections, the timers and the requests do in any order loses it.      *)
THEOREM FriendsSee ==
  ASSUME BindOnce
  PROVE  Spec => []FriendsShown
<1>1. ConnInv /\ FriendInv /\ FriendInv' /\ ShownPairs /\ [Next]_vars => ShownPairs'
  BY ShownStep
<1>2. QED
  BY <1>1, ConnInvariant, ShownInit, ShownPointwise, PTL DEF Spec

----------------------------------------------------------------------------
(* What no step does                                                       *)

(* The end of a replaced connection leaves its successor registered.       *)
THEOREM LateUnbindHarmless ==
  ASSUME BindOnce
  PROVE  Spec => NoLateUnbind
<1>1. ConnInv /\ [Next]_vars =>
        [\A a \in Account, r \in Resource :
           registry[a][r] # NoConn /\ registry'[a][r] # registry[a][r]
             => \/ registry'[a][r] # NoConn
                \/ conn'[registry[a][r]] = Closed]_vars
  <2> SUFFICES ASSUME ConnInv, Next, NEW a \in Account, NEW r \in Resource,
                      registry[a][r] # NoConn, registry'[a][r] = NoConn
               PROVE  conn'[registry[a][r]] = Closed
    OBVIOUS
  <2>0. TypeOK
    BY DEF ConnInv
  <2>1. registry' # registry
    OBVIOUS
  <2>2. ASSUME NEW x \in Conn, NEW s \in Resource, Bind(x, s)
        PROVE  FALSE
    <3>1. registry' = [registry EXCEPT ![conn[x].account] =
                         [registry[conn[x].account] EXCEPT ![s] = x]]
      BY <2>2 DEF Bind
    <3>2. conn[x].account \in Account
      BY <2>0, <2>2 DEF TypeOK, Bind
    <3>3. registry'[a][r] = registry[a][r] \/ registry'[a][r] = x
      BY <2>0, <3>1, <3>2 DEF TypeOK
    <3>4. QED
      BY <3>3, PresenceNulls
  <2>3. ASSUME NEW x \in Conn, Teardown(x)
        PROVE  conn'[registry[a][r]] = Closed
    <3>1. conn' = [conn EXCEPT ![x] = Closed] /\ registry' = Unbind(x)
      BY <2>1, <2>3 DEF Teardown
    <3>2. conn[x].account \in Account
      BY <2>0, <2>3 DEF TypeOK, Teardown
    <3>3. registry[a][r] = x
      BY <2>0, <3>1, <3>2 DEF Unbind, TypeOK
    <3>4. QED
      BY <2>0, <3>1, <3>3 DEF TypeOK
  <2>4. QED
    BY <2>1, <2>2, <2>3
       DEF Next, Authenticate, PresenceAvailable, PresenceUnavailable, GraceOver,
           AddFriend, RemoveOrBlock, UnblockAccount, presenceVars
<1>2. QED
  BY <1>1, ConnInvariant, PTL DEF Spec, NoLateUnbind

(* Nobody who is connected disappears from the list of a friend who is.    *)
THEOREM NoFalseOffline ==
  ASSUME BindOnce
  PROVE  Spec => OfflineOnlyIfGone
<1>1. ConnInv /\ FriendInv /\ [Next]_vars =>
        [\A c \in Conn, a \in Account, r \in Resource :
           <<a, r>> \in view[c] \ view'[c] /\ IsOnline(a)
             => \/ edge'[conn[c].account][a] # "accepted"
                \/ \A own \in Resource : registry'[conn[c].account][own] # c]_vars
  <2> SUFFICES ASSUME BindOnce, ConnInv, FriendInv, Next,
                      NEW c \in Conn, NEW a \in Account, NEW r \in Resource,
                      <<a, r>> \in view[c], <<a, r>> \notin view'[c], IsOnline(a),
                      NEW own \in Resource, registry'[conn[c].account][own] = c
               PROVE  edge'[conn[c].account][a] # "accepted"
    OBVIOUS
  <2>0. TypeOK /\ F!TypeOK /\ RegistryExact
    BY TableTypes DEF ConnInv
  <2>1. conn[c].account \in Account /\ c # NoConn
    BY <2>0, PresenceNulls DEF ConnInv, ViewOfOpen, TypeOK
  <2>2. view' # view
    OBVIOUS
  <2>3. ASSUME NEW x \in Conn, NEW s \in Resource, Bind(x, s)
        PROVE  FALSE
    <3>1. c # x
      <4>1. view' = [d \in Conn |-> IF d = registry[conn[x].account][s] /\ d # x
                                   THEN {} ELSE view[d]]
        BY <2>3 DEF Bind
      <4>2. QED
        BY <4>1
    <3>2. view'[c] = view[c]
      BY <2>1, <2>3, <3>1, BindKeeps
    <3>3. QED
      BY <3>2
  <2>4. ASSUME NEW x \in Conn, Teardown(x)
        PROVE  FALSE
    <3>1. view'[c] = view[c]
      BY <2>1, <2>4, TeardownKeeps
    <3>2. QED
      BY <3>1
  <2>5. ASSUME NEW x \in Conn, PresenceAvailable(x)
        PROVE  FALSE
    <3>1. view[c] \subseteq view'[c]
      BY <2>5 DEF PresenceAvailable, OnResourceAvailable, Exchange
    <3>2. QED
      BY <3>1
  <2>6. ASSUME NEW e \in Account, GraceOver(e)
        PROVE  FALSE
    <3>1. ~IsOnline(e) /\ <<a, r>> = <<e, pendingOffline[e]>>
      BY <2>6 DEF GraceOver
    <3>2. QED
      BY <3>1
  <2>7. ASSUME NEW p \in Account, NEW q \in Account, AddFriend(p, q)
        PROVE  FALSE
    <3>1. view[c] \subseteq view'[c]
      BY <2>7 DEF AddFriend
    <3>2. QED
      BY <3>1
  <2>8. ASSUME NEW p \in Account, NEW q \in Account, RemoveOrBlock(p, q)
        PROVE  edge'[conn[c].account][a] # "accepted"
    <3>1. \/ c \in ConnectionsFor(p) /\ a = q
          \/ c \in ConnectionsFor(q) /\ a = p
      BY <2>8 DEF RemoveOrBlock, DropEntries
    <3>2. \/ conn[c].account = p /\ a = q
          \/ conn[c].account = q /\ a = p
      BY <2>0, <3>1, Registered
    <3>3. QED
      BY <2>0, <2>8, <3>2, RemoveEdges
  <2>9. QED
    BY <2>2, <2>3, <2>4, <2>5, <2>6, <2>7, <2>8
       DEF Next, Authenticate, PresenceUnavailable, UnblockAccount, presenceVars
<1>2. QED
  BY <1>1, ConnInvariant, PTL DEF Spec, OfflineOnlyIfGone

----------------------------------------------------------------------------
(* The rooms                                                               *)

RoomInv == RoomsSound /\ occupants \subseteq Conn

(* Joining and leaving rooms leaves the rest alone.                        *)
LEMMA RoomStepsArePresence ==
  ASSUME [RoomNext]_<<vars, roomVars>>
  PROVE  [Next]_vars
BY DEF RoomNext, Next, vars, presenceVars, roomVars

(* Rooms implements Presence: every property of it holds with rooms.       *)
THEOREM RoomsRefinePresence == RoomSpec => Spec
<1>1. RoomInit => Init
  BY DEF RoomInit
<1>2. QED
  BY <1>1, RoomStepsArePresence, PTL DEF RoomSpec, Spec

(* A bound connection keeps its nick until it closes.                      *)
LEMMA NickKept ==
  ASSUME BindOnce, TypeOK, Next, NEW c \in Conn, conn[c].resource # NoResource,
         conn'[c] # Closed
  PROVE  conn'[c].account = conn[c].account /\ conn'[c].resource = conn[c].resource
<1> USE DEF TypeOK
<1>1. ASSUME NEW d \in Conn, NEW a \in Account, Authenticate(d, a) PROVE conn'[c] = conn[c]
  BY <1>1 DEF Authenticate, Closed
<1>2. ASSUME NEW d \in Conn, NEW r \in Resource, Bind(d, r) PROVE conn'[c] = conn[c]
  BY <1>2 DEF Bind
<1>3. ASSUME NEW d \in Conn, PresenceAvailable(d) \/ PresenceUnavailable(d)
      PROVE  conn'[c].account = conn[c].account /\ conn'[c].resource = conn[c].resource
  <2>1. conn \in [Conn -> [account : Account \cup {NoAccount},
                          resource : Resource \cup {NoResource}, available : BOOLEAN]]
    OBVIOUS
  <2>2. \/ conn' = [conn EXCEPT ![d].available = TRUE]
        \/ conn' = [conn EXCEPT ![d].available = FALSE]
    BY <1>3 DEF PresenceAvailable, PresenceUnavailable
  <2>3. QED
    BY <2>1, <2>2
<1>4. ASSUME NEW d \in Conn, Teardown(d) PROVE conn'[c] = conn[c]
  BY <1>4 DEF Teardown
<1>5. ASSUME UNCHANGED conn PROVE conn'[c] = conn[c]
  BY <1>5
<1>6. QED
  BY <1>1, <1>2, <1>3, <1>4, <1>5
     DEF Next, GraceOver, AddFriend, RemoveOrBlock, UnblockAccount, presenceVars

(* One who leaves takes nobody's nick along but its own.                   *)
LEMMA LeaveKeeps ==
  ASSUME RoomInv, NEW c \in Conn, LeaveRoom(c),
         \A d \in occupants \ {c} : conn'[d] = conn[d]
  PROVE  RoomInv'
<1>1. occupants' \subseteq Conn
  BY DEF RoomInv, LeaveRoom
<1>2. ASSUME NEW d \in Conn PROVE d \in occupants' => conn'[d].resource # NoResource
  BY DEF RoomInv, RoomsSound, LeaveRoom
<1>3. ASSUME NEW d \in Conn, NEW n \in listed'[d]
      PROVE  d \in occupants' /\ \E o \in occupants' : n = Nick(o)'
  <2>1. d # c /\ n \in listed[d] /\ (c \in occupants /\ d \in occupants => n # Nick(c))
    BY <1>3 DEF LeaveRoom
  <2>2. d \in occupants /\ \E o \in occupants : n = Nick(o)
    BY <2>1 DEF RoomInv, RoomsSound
  <2>3. PICK o \in occupants : n = Nick(o)
    BY <2>2
  <2>4. o # c
    BY <2>1, <2>2, <2>3
  <2>5. QED
    BY <2>1, <2>2, <2>3, <2>4 DEF LeaveRoom, Nick
<1>4. QED
  BY <1>1, <1>2, <1>3 DEF RoomInv, RoomsSound

LEMMA RoomStep ==
  ASSUME BindOnce, TypeOK, RoomInv, [RoomNext]_<<vars, roomVars>>
  PROVE  RoomInv'
<1>1. ASSUME NEW c \in Conn, Teardown(c) /\ LeaveAllRooms(c) PROVE RoomInv'
  <2>1. \A d \in occupants \ {c} : conn'[d] = conn[d]
    BY <1>1 DEF Teardown, TypeOK, RoomInv
  <2>2. QED
    BY <1>1, <2>1, LeaveKeeps DEF LeaveAllRooms
<1>2. ASSUME NEW c \in Conn, JoinRoom(c), UNCHANGED vars PROVE RoomInv'
  <2>1. \A d \in Conn : Nick(d)' = Nick(d) /\ conn'[d] = conn[d]
    BY <1>2 DEF vars, presenceVars, Nick
  <2>2. ASSUME NEW d \in Conn, NEW n \in listed'[d]
        PROVE  d \in occupants' /\ \E o \in occupants' : n = Nick(o)
    <3>1. n \in listed[d] => d \in occupants' /\ \E o \in occupants' : n = Nick(o)
      BY <1>2 DEF RoomInv, RoomsSound, JoinRoom
    <3>2. n \notin listed[d] => d \in occupants' /\ \E o \in occupants' : n = Nick(o)
      BY <1>2, <2>2 DEF JoinRoom
    <3>3. QED
      BY <3>1, <3>2
  <2>3. ASSUME NEW d \in Conn PROVE d \in occupants' => conn'[d].resource # NoResource
    BY <1>2, <2>1 DEF RoomInv, RoomsSound, JoinRoom
  <2>4. occupants' \subseteq Conn
    BY <1>2 DEF RoomInv, JoinRoom
  <2>5. QED
    BY <2>1, <2>2, <2>3, <2>4 DEF RoomInv, RoomsSound
<1>3. ASSUME NEW c \in Conn, LeaveRoom(c), UNCHANGED vars PROVE RoomInv'
  BY <1>3, LeaveKeeps DEF vars, presenceVars
<1>4. ASSUME Next, KeepsConnections, UNCHANGED roomVars PROVE RoomInv'
  <2>1. ASSUME NEW d \in occupants
        PROVE  Nick(d)' = Nick(d) /\ conn'[d].resource # NoResource
    <3>1. d \in Conn /\ conn[d].resource # NoResource /\ conn[d] # Closed
      BY <2>1 DEF RoomInv, RoomsSound, Closed
    <3>2. conn'[d] # Closed
      BY <1>4, <3>1 DEF KeepsConnections
    <3>3. QED
      BY <1>4, <3>1, <3>2, NickKept DEF Nick
  <2>2. QED
    BY <1>4, <2>1 DEF RoomInv, RoomsSound, roomVars
<1>5. ASSUME UNCHANGED <<vars, roomVars>> PROVE RoomInv'
  BY <1>5 DEF vars, presenceVars, roomVars, RoomInv, RoomsSound, Nick
<1>6. QED
  BY <1>1, <1>2, <1>3, <1>4, <1>5 DEF RoomNext

(* Nobody who is gone is in a room or shown in one, for any accounts,      *)
(* resources and connections that bind once.                               *)
THEOREM RoomsStaySound ==
  ASSUME BindOnce
  PROVE  RoomSpec => []RoomsSound
<1>1. RoomInit => RoomInv
  BY DEF RoomInit, RoomInv, RoomsSound
<1>2. TypeOK /\ RoomInv /\ [RoomNext]_<<vars, roomVars>> => RoomInv'
  BY RoomStep
<1>3. ConnInv => TypeOK
  BY DEF ConnInv
<1>4. RoomInv => RoomsSound
  BY DEF RoomInv
<1>5. Spec => []ConnInv
  BY ConnInvariant
<1>6. QED
  BY <1>1, <1>2, <1>3, <1>4, <1>5, RoomsRefinePresence, PTL DEF RoomSpec
=============================================================================
