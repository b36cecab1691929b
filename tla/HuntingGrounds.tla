--------------------------- MODULE HuntingGrounds ---------------------------
(***************************************************************************)
(* Public hunting grounds: the metagame's record of who is in which shared *)
(* world (huntingGrounds.ts), the allocation turns that guard it, and      *)
(* MatchHuntingGround (matchmaking.ts) with the deploy server's side of    *)
(* the same request (HandleMatchmakingRequest, FindJoinableWorld).         *)
(*                                                                         *)
(* Both servers run one handler at a time; a request is split where they   *)
(* await.  A request and the world the deploy server starts for it share   *)
(* one identifier.  How a world is started is IslandWorlds' business: here *)
(* a start takes a free port and later succeeds or fails, and a world that *)
(* ends frees its port at once.                                            *)
(*                                                                         *)
(* The deploy server has one address, so a world's key is its port.  The   *)
(* Map of worlds is searched in insertion order; here any match may be     *)
(* found.                                                                  *)
(***************************************************************************)
EXTENDS Naturals, Sequences, FiniteSets

CONSTANTS
  Player, Hunt,
  Request,       \* calls of HandlePlayerMatchmaking for a hunting ground
  IslandPort,    \* the deploy server's island ports
  City,          \* RAMSGATE_PORT
  NoPort,        \* undefined, where a port could be
  NoHunt,        \* the hunt of a world that is not recorded
  NoRequest,     \* no world
  Party,         \* the parties that may ask
  PrivateHunts,  \* TRUE if some requests are for a private hunt
  HUNTING_GROUND_MAX_PLAYERS

ASSUME PortAssumption ==
  /\ City \notin IslandPort
  /\ NoPort \notin IslandPort \cup {City}
ASSUME NullAssumption == NoHunt \notin Hunt /\ NoRequest \notin Request
ASSUME PartyAssumption == Party \subseteq SUBSET Player /\ {} \notin Party
ASSUME PrivateAssumption == PrivateHunts \in BOOLEAN
(* A party has at most four members and a world takes four players.        *)
ASSUME SizeAssumption ==
  /\ IsFiniteSet(Player) /\ HUNTING_GROUND_MAX_PLAYERS \in Nat
  /\ \A S \in Party : Cardinality(S) <= HUNTING_GROUND_MAX_PLAYERS

VARIABLES
  pc,      \* where each request stands
  req,     \* what it asks: hunt, private, party
  turns,   \* the allocation turns of each hunt, the holder first
  cand,    \* the port a request asks the deploy server to join
  reply,   \* the deploy server's answer: a port, and whether it was joined
  slots,   \* Worlds and PlayerWorld of huntingGrounds.ts
  live,    \* deploy server: the world on each island port
  loc,     \* history: the world each player was last sent to
  sentFor  \* history: the hunt of the request each slot was recorded for

metaVars == <<turns, cand, slots>>
history == <<loc, sentFor>>
vars == <<pc, req, reply, metaVars, live, history>>

Key == IslandPort \cup {City}
NoWorld == [hunt |-> NoHunt, public |-> FALSE, players |-> {}]
Failure == [port |-> NoPort, joined |-> FALSE]

Init ==
  /\ pc = [r \in Request |-> "idle"]
  /\ req = [r \in Request |-> [hunt |-> NoHunt, private |-> FALSE, party |-> {}]]
  /\ turns = [h \in Hunt |-> <<>>]
  /\ cand = [r \in Request |-> NoPort]
  /\ reply = [r \in Request |-> Failure]
  /\ slots = [worlds |-> [k \in Key |-> NoWorld], at |-> [p \in Player |-> NoPort]]
  /\ live = [k \in IslandPort |-> NoRequest]
  /\ loc = [p \in Player |-> NoRequest]
  /\ sentFor = [p \in Player |-> NoHunt]

----------------------------------------------------------------------------
(* huntingGrounds.ts.  s is the pair of its two maps. *)

Forget(s, k) ==
  [worlds |-> [s.worlds EXCEPT ![k] = NoWorld],
   at |-> [p \in Player |->
             IF s.at[p] = k /\ p \in s.worlds[k].players THEN NoPort ELSE s.at[p]]]

(* World w once only the players left remain.                              *)
Vacate(w, left) ==
  IF left = w.players THEN w
  ELSE IF left = {} THEN NoWorld
  ELSE [w EXCEPT !.players = left]

(* ReleaseHuntingGroundSlot for every player of S.                         *)
Release(s, S) ==
  [worlds |-> [k \in Key |->
                 Vacate(s.worlds[k], s.worlds[k].players \ {p \in S : s.at[p] = k})],
   at |-> [p \in Player |-> IF p \in S THEN NoPort ELSE s.at[p]]]

(* Mutant of FindPublicHuntingGround: the whole party is not counted.      *)
FindForOne(s, h, S, k) ==
  /\ s.worlds[k].public
  /\ s.worlds[k].hunt = h
  /\ s.worlds[k].players # {}
  /\ Cardinality(s.worlds[k].players \ S) + 1 <= HUNTING_GROUND_MAX_PLAYERS

(* World k is public, runs hunt h and has room for the whole party S.      *)
FindPublicHuntingGround(s, h, S, k) ==
  /\ s.worlds[k].public
  /\ s.worlds[k].hunt = h
  /\ s.worlds[k].players # {}
  /\ Cardinality(s.worlds[k].players \ S) + Cardinality(S) <= HUNTING_GROUND_MAX_PLAYERS

(* Add the party S to world k, recorded before or not.                     *)
Enter(s, w, k, S) ==
  [worlds |-> [s.worlds EXCEPT ![k] =
                 [(IF s.worlds[k] = NoWorld THEN w ELSE s.worlds[k])
                    EXCEPT !.players = s.worlds[k].players \cup S]],
   at |-> [p \in Player |-> IF p \in S THEN k ELSE s.at[p]]]

(* Mutant of RecordHuntingGround: the players' old slots are not released. *)
RecordWithoutRelease(s, w, k, S, new) ==
  Enter(IF new THEN Forget(s, k) ELSE s, w, k, S)

RecordHuntingGround(s, w, k, S, new) ==
  LET known == IF new THEN Forget(s, k) ELSE s
  IN  Enter(Release(known, {p \in S : known.at[p] # k}), w, k, S)

----------------------------------------------------------------------------
(* The metagame's request *)

(* HandlePlayerMatchmaking of a hunting ground: a private hunt asks the    *)
(* deploy server at once, a public one waits for its turn.                 *)
Ask(r) ==
  /\ pc[r] = "idle"
  /\ \E h \in Hunt, S \in Party, private \in {FALSE, PrivateHunts} :
       /\ req' = [req EXCEPT ![r] = [hunt |-> h, private |-> private, party |-> S]]
       /\ IF private
          THEN pc' = [pc EXCEPT ![r] = "asked"] /\ UNCHANGED turns
          ELSE /\ pc' = [pc EXCEPT ![r] = "turn"]
               /\ turns' = [turns EXCEPT ![h] = Append(@, r)]
  /\ UNCHANGED <<cand, reply, slots, live, history>>

(* It looks for a world with room and asks the deploy server.              *)
Allocate(r) ==
  LET h == req[r].hunt  S == req[r].party IN
  /\ \/ \E k \in Key :
          /\ FindPublicHuntingGround(slots, h, S, k)
          /\ cand' = [cand EXCEPT ![r] = k]
     \/ /\ \A k \in Key : ~FindPublicHuntingGround(slots, h, S, k)
        /\ UNCHANGED cand
  /\ pc' = [pc EXCEPT ![r] = "asked"]
  /\ UNCHANGED <<req, turns, reply, slots, live, history>>

(* Mutant of TakeTurn: the previous allocation is not awaited.             *)
TakeTurnEarly(r) == pc[r] = "turn" /\ Allocate(r)

(* Its turn in AllocatePublicHuntingGround has come.                       *)
TakeTurn(r) == pc[r] = "turn" /\ Head(turns[req[r].hunt]) = r /\ Allocate(r)

(* Mutant of PassTurn: a failed allocation does not release its turn.      *)
PassTurnIfOk(r) ==
  turns' = IF req[r].private \/ reply[r] = Failure THEN turns
           ELSE [turns EXCEPT ![req[r].hunt] = Tail(@)]

(* The finally block of AllocatePublicHuntingGround.                       *)
PassTurn(r) ==
  turns' = IF req[r].private THEN turns
           ELSE [turns EXCEPT ![req[r].hunt] = Tail(@)]

(* Mutant of Answered: a world that was joined is forgotten, too.          *)
AnsweredForgets(r) ==
  LET known == IF cand[r] # NoPort THEN Forget(slots, cand[r]) ELSE slots
      world == [NoWorld EXCEPT !.hunt = req[r].hunt, !.public = ~req[r].private]
  IN  RecordHuntingGround(known, world, reply[r].port, req[r].party, ~reply[r].joined)

(* The record of r's answered request.                                     *)
Answered(r) ==
  LET known == IF cand[r] # NoPort /\ ~reply[r].joined
               THEN Forget(slots, cand[r]) ELSE slots
      world == [NoWorld EXCEPT !.hunt = req[r].hunt, !.public = ~req[r].private]
  IN  RecordHuntingGround(known, world, reply[r].port, req[r].party, ~reply[r].joined)

(* The slots as they are afterwards, those of S recorded for hunt h.       *)
SlotsFor(S, h) ==
  sentFor' = [p \in Player |-> IF slots'.at[p] = NoPort THEN NoHunt
                               ELSE IF p \in S THEN h ELSE sentFor[p]]

(* MatchHuntingGround resumes with the deploy server's reply.              *)
Finish(r) ==
  /\ pc[r] = "replied"
  /\ pc' = [pc EXCEPT ![r] = "done"]
  /\ PassTurn(r)
  /\ IF reply[r] = Failure
     THEN UNCHANGED <<slots, history>>
     ELSE /\ slots' = Answered(r)
          /\ SlotsFor(req[r].party, req[r].hunt)
          /\ loc' = [p \in Player |->
                       IF p \notin req[r].party THEN loc[p]
                       ELSE IF reply[r].port = City THEN NoRequest
                       ELSE live[reply[r].port]]
  /\ UNCHANGED <<req, cand, reply, live>>

(* The player travels anywhere else, or goes offline.                      *)
Leave(p) ==
  /\ slots.at[p] # NoPort \/ loc[p] # NoRequest
  /\ slots' = Release(slots, {p})
  /\ SlotsFor({}, NoHunt)
  /\ loc' = [loc EXCEPT ![p] = NoRequest]
  /\ UNCHANGED <<pc, req, reply, turns, cand, live>>

----------------------------------------------------------------------------
(* The deploy server *)

Respond(r, port, joined) ==
  /\ pc' = [pc EXCEPT ![r] = "replied"]
  /\ reply' = [reply EXCEPT ![r] = [port |-> port, joined |-> joined]]

(* FindJoinableWorld: a live island world on that port whose players were  *)
(* sent there for this hunt, listening or not, private or not.             *)
Joinable(k, h) == k \in IslandPort /\ live[k] # NoRequest /\ req[live[k]].hunt = h

JoinRunningHunt(r) ==
  /\ pc[r] = "asked" /\ Joinable(cand[r], req[r].hunt)
  /\ Respond(r, cand[r], TRUE)
  /\ UNCHANGED <<req, metaVars, live, history>>

(* StartServer takes a free port and records the world; an answer that     *)
(* names the last world on the port may still be on its way.               *)
StartWorld(r) ==
  /\ pc[r] = "asked" /\ ~Joinable(cand[r], req[r].hunt)
  /\ \E k \in IslandPort : live[k] = NoRequest /\ live' = [live EXCEPT ![k] = r]
  /\ pc' = [pc EXCEPT ![r] = "starting"]
  /\ UNCHANGED <<req, reply, metaVars, history>>

(* It listens and the request is answered.                                 *)
WorldReady(r) ==
  /\ pc[r] = "starting"
  /\ \E k \in IslandPort : live[k] = r /\ Respond(r, k, FALSE)
  /\ UNCHANGED <<req, metaVars, live, history>>

(* It does not start, or there is no free port: the players are sent to    *)
(* Ramsgate instead, or, when that fails too, the request fails.           *)
NoNewWorld(r) ==
  /\ \/ pc[r] = "starting"
     \/ /\ pc[r] = "asked" /\ ~Joinable(cand[r], req[r].hunt)
        /\ \A k \in IslandPort : live[k] # NoRequest
  /\ live' = [k \in IslandPort |-> IF live[k] = r THEN NoRequest ELSE live[k]]
  /\ \E port \in {City, NoPort} : Respond(r, port, FALSE)
  /\ UNCHANGED <<req, metaVars, history>>

(* A world ends; nobody tells the metagame.                                *)
WorldEnds(k) ==
  /\ live[k] # NoRequest
  /\ pc[live[k]] \in {"replied", "done"}
  /\ live' = [live EXCEPT ![k] = NoRequest]
  /\ UNCHANGED <<pc, req, reply, metaVars, history>>

----------------------------------------------------------------------------
Next ==
  \/ \E r \in Request :
       \/ Ask(r) \/ TakeTurn(r) \/ Finish(r)
       \/ JoinRunningHunt(r) \/ StartWorld(r) \/ WorldReady(r) \/ NoNewWorld(r)
  \/ \E p \in Player : Leave(p)
  \/ \E k \in IslandPort : WorldEnds(k)

(* The deploy server answers every request (IslandWorlds shows that of a   *)
(* start) and the metagame's handlers resume.                              *)
Fairness ==
  \A r \in Request :
    /\ WF_vars(TakeTurn(r)) /\ WF_vars(Finish(r))
    /\ WF_vars(JoinRunningHunt(r) \/ StartWorld(r) \/ NoNewWorld(r))

Spec == Init /\ [][Next]_vars /\ Fairness

----------------------------------------------------------------------------
World == [hunt : Hunt \cup {NoHunt}, public : BOOLEAN, players : SUBSET Player]
Slots == [worlds : [Key -> World], at : [Player -> Key \cup {NoPort}]]

(* A public request that has asked and is not finished.                    *)
Pending(r) == pc[r] \in {"turn", "asked", "starting", "replied"} /\ ~req[r].private

RequestsOK ==
  /\ pc \in [Request -> {"idle", "turn", "asked", "starting", "replied", "done"}]
  /\ req \in [Request -> [hunt : Hunt \cup {NoHunt}, private : BOOLEAN,
                          party : Party \cup {{}}]]
  /\ \A r \in Request : pc[r] # "idle" => req[r].hunt \in Hunt /\ req[r].party \in Party
  /\ \A r \in Request : pc[r] = "turn" => ~req[r].private

AnswersOK ==
  /\ cand \in [Request -> Key \cup {NoPort}]
  /\ reply \in [Request -> [port : Key \cup {NoPort}, joined : BOOLEAN]]
  /\ \A r \in Request : reply[r].port = NoPort => reply[r] = Failure

TurnsOK ==
  /\ turns \in [Hunt -> Seq(Request)]
  /\ \A h \in Hunt, r \in Request :
       (\E i \in DOMAIN turns[h] : turns[h][i] = r) <=> Pending(r) /\ req[r].hunt = h

(* Type invariant of the requests, the turns, the two maps and the deploy  *)
(* server; the turns of a hunt list its unfinished public requests.        *)
TypeOK ==
  /\ RequestsOK /\ AnswersOK /\ TurnsOK
  /\ slots \in Slots
  /\ live \in [IslandPort -> Request \cup {NoRequest}]
  /\ loc \in [Player -> Request \cup {NoRequest}]
  /\ sentFor \in [Player -> Hunt \cup {NoHunt}]

(* The two maps agree: a player's slot names a world that lists the player *)
(* and the other way round, and a recorded world is never empty, through   *)
(* every record, release and forget (huntingGrounds.ts).                   *)
Consistent(s) ==
  /\ \A p \in Player, k \in Key : s.at[p] = k <=> p \in s.worlds[k].players
  /\ \A k \in Key : s.worlds[k] # NoWorld => s.worlds[k].players # {}

SlotConsistency == Consistent(slots)

Allocating(r) == Pending(r) /\ pc[r] # "turn"

(* Turns are taken in the order they were asked for: nobody queues twice   *)
(* and a request that is allocating is still the first of its hunt's turns *)
(* (the chain of promises in PublicAllocations).                           *)
TurnOrder ==
  \A h \in Hunt :
    /\ \A i, j \in DOMAIN turns[h] : turns[h][i] = turns[h][j] => i = j
    /\ \A r \in Request : Allocating(r) /\ req[r].hunt = h => Head(turns[h]) = r

(* One allocation at a time: of the public requests for a hunt, at most    *)
(* one is between its look for a world and its record of the answer        *)
(* (AllocatePublicHuntingGround).                                          *)
TurnExclusive ==
  \A q, r \in Request :
    Allocating(q) /\ Allocating(r) /\ req[q].hunt = req[r].hunt => q = r

(* Both: the record of who is where stays in one piece, and who writes it  *)
(* waits for its turn.                                                     *)
GroundsSound == SlotConsistency /\ TurnOrder

(* The players on world k who asked for the hunt it runs.                  *)
OwnPlayers(k) == {p \in slots.worlds[k].players : sentFor[p] = slots.worlds[k].hunt}

(* No public world is promised to more players of its own hunt than it     *)
(* takes, although a slot is counted only after the deploy server has      *)
(* answered and the port may have changed hands by then.  (Strangers may   *)
(* come on top: a late joined answer is recorded on whatever world has     *)
(* taken over its port.)                                                   *)
Capacity ==
  \A k \in Key :
    slots.worlds[k].public => Cardinality(OwnPlayers(k)) <= HUNTING_GROUND_MAX_PLAYERS

(* huntingGrounds.ts: "A player's slot is freed when they travel anywhere  *)
(* else or go offline, so the count is the players who are actually        *)
(* there."  Whoever was sent to a world that still runs is counted on it.  *)
CountsWhoIsThere ==
  \A p \in Player, k \in IslandPort :
    loc[p] # NoRequest /\ live[k] = loc[p] => slots.at[p] = k

(* huntingGrounds.ts: private hunts "are never joined".  Nobody outside    *)
(* the party that asked for a private hunt is sent into its world.         *)
PrivateNeverJoined ==
  \A p \in Player : loc[p] # NoRequest /\ req[loc[p]].private => p \in req[loc[p]].party

(* Every request for a hunting ground is answered, whatever becomes of the *)
(* ones before it (the finally block releases the turn).                   *)
AskAnswered == \A r \in Request : pc[r] \in {"turn", "asked"} ~> pc[r] = "done"
=============================================================================
