-------------------------------- MODULE Rooms --------------------------------
(***************************************************************************)
(* The text chat rooms (RoomService.ts) on the connections of Presence.  A *)
(* room lists its occupants by connection, but shows them to one another   *)
(* by nick, and a client's nick is its name, account and resource: a       *)
(* connection and the one that replaced it have the same.  Rooms share     *)
(* nothing but the connections in them, so one room stands for all.        *)
(* Messages, spoken or whispered, leave no state behind.                   *)
(***************************************************************************)
EXTENDS Presence

VARIABLES
  occupants,       \* the connections in the room
  listed           \* the nicks each connection's client was told are in it

roomVars == <<occupants, listed>>

Nick(c) == <<conn[c].account, conn[c].resource>>

RoomInit ==
  /\ Init
  /\ occupants = {}
  /\ listed = [c \in Conn |-> {}]

(* The joiner is told who is there, itself included; the others are told   *)
(* of the joiner unless it was in the room before.                         *)
JoinRoom(c) ==
  /\ conn[c].resource # NoResource
  /\ occupants' = occupants \cup {c}
  /\ listed' = [d \in Conn |->
       IF d = c THEN listed[c] \cup {Nick(o) : o \in occupants'}
       ELSE IF d \in occupants /\ c \notin occupants THEN listed[d] \cup {Nick(c)}
       ELSE listed[d]]

(* The others are told that the nick is gone.                              *)
LeaveRoom(c) ==
  /\ occupants' = occupants \ {c}
  /\ listed' = [d \in Conn |->
       IF d = c THEN {}
       ELSE IF c \in occupants /\ d \in occupants THEN listed[d] \ {Nick(c)}
       ELSE listed[d]]

(* Mutant of LeaveAllRooms: the rooms are not told of the end of a         *)
(* connection that was replaced.                                           *)
LeaveIfBound(c) ==
  IF conn[c].resource # NoResource /\ registry[conn[c].account][conn[c].resource] # c
  THEN UNCHANGED roomVars ELSE LeaveRoom(c)

(* A connection that closes leaves every room it was in.                   *)
LeaveAllRooms(c) == LeaveRoom(c)

KeepsConnections == \A c \in Conn : conn[c] # Closed => conn'[c] # Closed

RoomNext ==
  \/ \E c \in Conn :
       \/ Teardown(c) /\ LeaveAllRooms(c)
       \/ JoinRoom(c) /\ UNCHANGED vars
       \/ c \in occupants /\ LeaveRoom(c) /\ UNCHANGED vars
  \/ Next /\ KeepsConnections /\ UNCHANGED roomVars

RoomSpec == RoomInit /\ [][RoomNext]_<<vars, roomVars>>

----------------------------------------------------------------------------
(* Nobody is in a room, or shown in one, who is gone: an occupant is an    *)
(* open connection, and a client's list names only nicks somebody in its   *)
(* room has, however connections replace one another and whichever of them *)
(* closes first (RoomService.ts:96).                                       *)
RoomsSound ==
  \A c \in Conn :
    /\ c \in occupants => conn[c].resource # NoResource
    /\ listed[c] \subseteq (IF c \in occupants THEN {Nick(o) : o \in occupants} ELSE {})

(* The converse: who is in the room is in the lists.  The late close of a  *)
(* replaced connection takes the nick of its successor out of them.        *)
EveryoneListed ==
  \A c, d \in occupants : Nick(d) \in listed[c]
=============================================================================
