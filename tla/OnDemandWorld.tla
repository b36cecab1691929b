---------------------------- MODULE OnDemandWorld ---------------------------
(***************************************************************************)
(* The two single worlds of the deploy server, Ramsgate and the Training   *)
(* Grounds: OnDemandWorld.get and acquire (onDemandWorld.ts), StartServer  *)
(* and CleanupServer as they use them (gameservers.ts), the travel lease   *)
(* file (trainingLease.ts) and the world's own decision to sleep           *)
(* (TrainingLifecycle.cpp), which runs in the game process.                *)
(*                                                                         *)
(* Node's handlers do not overlap, but the world process and its lease     *)
(* file change between any two steps of a handler.  So a program point of  *)
(* acquire at which Node cannot run anything else is marked by JsFree      *)
(* being false: world steps interleave there, handlers do not.             *)
(*                                                                         *)
(* Worlds are numbered in the order they are launched; one whose spawn     *)
(* failed or threw has a number and no process.  The clock counts          *)
(* coarse units and does not move inside a handler.                        *)
(***************************************************************************)
EXTENDS Naturals, FiniteSets

CONSTANTS
  MaxWorlds,    \* bound: worlds the instance may spawn
  Traveller,    \* travel requests for this world
  Kinds,        \* which of the two worlds, "ramsgate" and "training"
  WatchdogOn,   \* ENABLE_WATCHDOG
  Reservation,  \* TRAINING_TRAVEL_RESERVATION_MS, in clock units
  MaxTime       \* bound: the last reading of the clock

ASSUME WorldsAssumption == MaxWorlds \in Nat \ {0}
ASSUME KindAssumption == Kinds \subseteq {"ramsgate", "training"} /\ WatchdogOn \in BOOLEAN
ASSUME TimeAssumption == Reservation \in Nat \ {0} /\ MaxTime \in Nat

VARIABLES
  kind,        \* which of the two worlds this is; it never changes
  acq,         \* where the pending acquire() stands, "none" when Pending is unset,
               \* "down" once the deploy server has died
  orphaned,    \* a get() of the watchdog, whose rejection nobody handles, is pending
  cur,         \* OnDemandWorld.Current
  launching,   \* the world StartServer is waiting for
  tracked,     \* the worlds of this kind in Gameservers
  proc,        \* the world processes
  exitCode,    \* how each process ended: "idle" or "other"
  exitEvents,  \* exits Node has not been told of yet
  killed,      \* processes StartServer has killed
  lease,       \* the lease file of each world and the expiry in it
  native,      \* the world's own sleep decision; "mismarked" once it gave it up
               \* with the whole marker in its file
  now,         \* the clock
  req,         \* travel requests: "none", "waiting" or "settled"
  promise,     \* history: until when those sent to each world may still arrive,
               \* 0 for a world nobody was sent to
  revived      \* history: worlds whose cleanup called get()

worldVars == <<cur, launching, tracked, killed>>
travelVars == <<req, promise>>
procVars == <<proc, exitCode, exitEvents, native>>
vars == <<kind, acq, orphaned, worldVars, lease, now, revived, travelVars, procVars>>

World == 1 .. MaxWorlds
IsTraining == kind = "training"
NoWorld == 0
Spawned == {w \in World : proc[w] # "none"}
Alive(w) == w \in World /\ proc[w] \in {"booting", "listening"}

(* The world holds an exclusive handle on its lease file.                  *)
Holds(w) == Alive(w) /\ native[w] \in {"locked", "marked"}

Absent == [file |-> "absent", expiry |-> 0]
Valid(until) == [file |-> "valid", expiry |-> until]

(* Node is at an await, so another handler may run.                        *)
JsFree == acq \notin {"reserve", "confirm", "refused", "down"}

Init ==
  /\ kind \in Kinds
  /\ acq = IF IsTraining THEN "none" ELSE "queued"   \* Startup: Ramsgate.get()
  /\ orphaned = FALSE
  /\ cur = NoWorld /\ launching = NoWorld
  /\ tracked = {} /\ exitEvents = {} /\ killed = {}
  /\ proc = [w \in World |-> "none"]
  /\ exitCode = [w \in World |-> "none"]
  /\ lease = [w \in World |-> Absent]
  /\ native = [w \in World |-> "running"]
  /\ now = 0
  /\ req = [t \in Traveller |-> "none"]
  /\ promise = [w \in World |-> 0]
  /\ revived = {}

----------------------------------------------------------------------------
(* OnDemandWorld *)

(* The head of acquire's loop when Current is c.                           *)
LoopHead(c) == IF Alive(c) THEN "reserve" ELSE "queued"

(* get() when Current is c: join the pending acquire or begin one.         *)
Get(c) == acq' = IF acq = "none" THEN LoopHead(c) ELSE acq

(* Every caller of get() shares the outcome of the one acquire.            *)
Settle ==
  /\ orphaned' = FALSE
  /\ req' = [t \in Traveller |-> IF req[t] = "waiting" THEN "settled" ELSE req[t]]

(* A rejection that reaches a watchdog's call is unhandled and ends Node.  *)
Reject ==
  /\ acq' = IF orphaned THEN "down" ELSE "none"
  /\ Settle
  /\ UNCHANGED promise

(* A matchmaking request for this world.                                   *)
Travel(t) ==
  /\ JsFree
  /\ req[t] = "none"
  /\ req' = [req EXCEPT ![t] = "waiting"]
  /\ Get(cur)
  /\ UNCHANGED <<kind, orphaned, worldVars, lease, now, promise, revived, procVars>>

(* The world's lease file can be opened and holds an expiry.               *)
LeaseOpen(w) == ~Holds(w) /\ lease[w].file = "valid"

(* Mutant of Renewed: the reservation is not written.                      *)
RenewedNot(w) == lease[w]

(* Mutant of Renewed: reservations add up instead of overlapping.          *)
RenewedAdds(w) == Valid(lease[w].expiry + Reservation)

(* The later of the expiry in the file and a full reservation from now.    *)
Renewed(w) == Valid(IF lease[w].expiry > now + Reservation THEN lease[w].expiry
                    ELSE now + Reservation)

(* Mutant of ReserveLease: the world's exclusive handle is not noticed.    *)
ReserveThroughLock ==
  /\ acq = "reserve"
  /\ IF IsTraining /\ lease[cur].file # "valid"
     THEN acq' = "refused" /\ UNCHANGED lease
     ELSE /\ acq' = "confirm"
          /\ lease' = IF IsTraining THEN [lease EXCEPT ![cur] = Renewed(cur)] ELSE lease
  /\ UNCHANGED <<kind, orphaned, worldVars, now, revived, travelVars, procVars>>

(* reserve(Current).  ReserveTrainingLease fails while the world holds the *)
(* file or once it reads "sleeping"; Ramsgate always accepts.              *)
ReserveLease ==
  /\ acq = "reserve"
  /\ IF IsTraining /\ ~LeaseOpen(cur)
     THEN acq' = "refused" /\ UNCHANGED lease
     ELSE /\ acq' = "confirm"
          /\ lease' = IF IsTraining THEN [lease EXCEPT ![cur] = Renewed(cur)] ELSE lease
  /\ UNCHANGED <<kind, orphaned, worldVars, now, revived, travelVars, procVars>>

(* The reserved world is still alive: every waiting caller gets it.        *)
Answer ==
  /\ acq = "confirm" /\ Alive(cur)
  /\ acq' = "none"
  /\ Settle
  /\ promise' = [promise EXCEPT ![cur] = now + Reservation]
  /\ UNCHANGED <<kind, worldVars, lease, now, revived, procVars>>

LostAfterReserve ==
  /\ acq = "confirm" /\ ~Alive(cur)
  /\ acq' = "refused"
  /\ UNCHANGED <<kind, orphaned, worldVars, lease, now, revived, travelVars, procVars>>

(* Mutant of GiveUp: the loop has no deadline.                             *)
GiveUpNever == acq = "refused" /\ now > MaxTime /\ UNCHANGED vars

(* Ten seconds after acquire began, a refusal rejects every caller.        *)
GiveUp ==
  /\ acq = "refused"
  /\ Reject
  /\ UNCHANGED <<kind, worldVars, lease, now, revived, procVars>>

(* Before that it sleeps 50 ms ...                                         *)
WaitBriefly ==
  /\ acq = "refused"
  /\ acq' = "waiting"
  /\ UNCHANGED <<kind, orphaned, worldVars, lease, now, revived, travelVars, procVars>>

(* ... and goes round the loop.                                            *)
WaitOver ==
  /\ acq = "waiting"
  /\ acq' = LoopHead(cur)
  /\ UNCHANGED <<kind, orphaned, worldVars, lease, now, revived, travelVars, procVars>>

----------------------------------------------------------------------------
(* StartServer for this world *)

(* CreateTrainingLease, for the Training Grounds only.                     *)
NewLease == IF IsTraining THEN Valid(now + Reservation) ELSE Absent

(* Its turn in the launch queue: the process is spawned (or the spawn      *)
(* fails, leaving none), recorded, and a Training lease is created.        *)
SpawnWorld ==
  /\ acq = "queued"
  /\ LET w == Cardinality(Spawned) + 1 IN
       /\ w \in World
       /\ \E started \in {"booting", "exited"} : proc' = [proc EXCEPT ![w] = started]
       /\ tracked' = tracked \cup {w}
       /\ launching' = w
       /\ lease' = [lease EXCEPT ![w] = NewLease]
  /\ acq' = "starting"
  /\ UNCHANGED <<kind, orphaned, cur, killed, now, revived, travelVars, exitCode, exitEvents, native>>

(* spawn() itself throws: StartServer rejects with no world recorded, and  *)
(* so does the get() that asked for one.                                   *)
SpawnThrows ==
  /\ acq = "queued"
  /\ LET w == Cardinality(Spawned) + 1 IN
       /\ w \in World
       /\ proc' = [proc EXCEPT ![w] = "exited"]
  /\ Reject
  /\ UNCHANGED <<kind, worldVars, lease, now, revived, exitCode, exitEvents, native>>

(* The bound of the instance: StartServer throws once it has no world left.*)
OutOfWorlds ==
  /\ acq = "queued" /\ Spawned = World
  /\ Reject
  /\ UNCHANGED <<kind, worldVars, lease, now, revived, procVars>>

(* netstat shows the process on its port; the awaiting handlers run later. *)
PortSeen ==
  /\ acq = "starting" /\ proc[launching] = "listening"
  /\ acq' = "ready"
  /\ UNCHANGED <<kind, orphaned, worldVars, lease, now, revived, travelVars, procVars>>

(* StartServer returns and acquire makes the world current.                *)
StartReturns ==
  /\ acq = "ready"
  /\ cur' = launching
  /\ launching' = NoWorld
  /\ acq' = "reserve"
  /\ UNCHANGED <<kind, orphaned, tracked, killed, lease, now, revived, travelVars, procVars>>

(* The process is gone, the 60 s deadline passed or netstat failed: the    *)
(* world is dropped and killed, its lease removed unless the world holds   *)
(* the file open, and every caller of the pending get() is rejected.       *)
StartFails ==
  /\ acq = "starting"
  /\ tracked' = tracked \ {launching}
  /\ killed' = IF Alive(launching) THEN killed \cup {launching} ELSE killed
  /\ lease' = IF Holds(launching) THEN lease ELSE [lease EXCEPT ![launching] = Absent]
  /\ launching' = NoWorld
  /\ Reject
  /\ UNCHANGED <<kind, cur, now, revived, procVars>>

----------------------------------------------------------------------------
(* Mutant of Asleep: only the exit code is consulted, not the marker.      *)
AsleepByCode(S, idle) == IF IsTraining THEN S \cap idle ELSE {}

(* CleanupServer of the dead worlds S, of which those in idle exited with  *)
(* the idle exit code.  A Training world found asleep is not restarted.    *)
Asleep(S, idle) ==
  IF IsTraining THEN {w \in S : w \in idle \/ lease[w].file = "sleeping"} ELSE {}

(* Mutant of Forget: whatever world is current is forgotten.               *)
ForgetAny(S) == NoWorld

(* OnDemandWorld.forget: only the current world itself is forgotten.       *)
Forget(S) == IF cur \in S THEN NoWorld ELSE cur

(* Mutant of Wake: the world is not asked for again.                       *)
WakeNever(S, idle) == {}

(* The worlds whose cleanup asks for a replacement.                        *)
Wake(S, idle) == S \ Asleep(S, idle)

CleanupServer(S, idle) ==
  /\ tracked' = tracked \ S
  /\ cur' = Forget(S)
  /\ lease' = [w \in World |-> IF w \in S THEN Absent ELSE lease[w]]
  /\ revived' = revived \cup Wake(S, idle)
  /\ IF Wake(S, idle) = {} THEN UNCHANGED acq ELSE Get(Forget(S))

(* Child.on("exit").                                                       *)
ExitHandler(w) ==
  /\ JsFree
  /\ w \in exitEvents
  /\ exitEvents' = exitEvents \ {w}
  /\ CleanupServer({w} \cap tracked, {v \in {w} : exitCode[v] = "idle"})
  /\ UNCHANGED <<kind, orphaned, launching, killed, now, travelVars, proc, exitCode, native>>

(* RunWatchdog: every tracked dead world, without an exit code.  It does   *)
(* not wait for the cleanups, nor handle their rejections.                 *)
RunWatchdog ==
  /\ WatchdogOn /\ JsFree
  /\ LET dead == {w \in tracked : ~Alive(w)} IN
       /\ dead # {}
       /\ CleanupServer(dead, {})
       /\ orphaned' = (orphaned \/ Wake(dead, {}) # {})
  /\ UNCHANGED <<kind, launching, killed, now, travelVars, procVars>>

----------------------------------------------------------------------------
(* The world process *)

nodeVars == <<kind, acq, orphaned, worldVars, now, revived, travelVars>>

WorldListens(w) ==
  /\ proc[w] = "booting"
  /\ proc' = [proc EXCEPT ![w] = "listening"]
  /\ UNCHANGED <<nodeVars, lease, exitCode, exitEvents, native>>

WorldEnds(w, code) ==
  /\ Alive(w)
  /\ proc' = [proc EXCEPT ![w] = "exited"]
  /\ exitCode' = [exitCode EXCEPT ![w] = code]
  /\ exitEvents' = exitEvents \cup {w}
  /\ UNCHANGED <<nodeVars, lease, native>>

(* It crashes, even between the marker and its exit, or is killed.         *)
WorldCrashes(w) == WorldEnds(w, "other")

(* TickTrainingLifecycle, once the world has been empty long enough: it    *)
(* opens the lease exclusively and finds the reservation expired ...       *)
NativeLocks(w) ==
  /\ IsTraining
  /\ proc[w] = "listening" /\ native[w] = "running"
  /\ lease[w].file = "valid" /\ lease[w].expiry <= now
  /\ native' = [native EXCEPT ![w] = "locked"]
  /\ UNCHANGED <<nodeVars, lease, proc, exitCode, exitEvents>>

(* ... writes the sleeping marker ...                                      *)
NativeMarks(w) ==
  /\ Alive(w) /\ native[w] = "locked"
  /\ native' = [native EXCEPT ![w] = "marked"]
  /\ lease' = [lease EXCEPT ![w].file = "sleeping"]
  /\ UNCHANGED <<nodeVars, proc, exitCode, exitEvents>>

(* ... or cannot, closes the file and keeps running.  The step that failed *)
(* decides what the file is left with: its expiry, a part of the marker,   *)
(* or, when only the flush failed, the whole of it.  It is not put back.   *)
NativeGivesUp(w) ==
  /\ Alive(w) /\ native[w] = "locked"
  /\ \E text \in {lease[w].file, "garbled", "sleeping"} :
       /\ lease' = [lease EXCEPT ![w].file = text]
       /\ native' = [native EXCEPT ![w] = IF text = "sleeping" THEN "mismarked" ELSE "running"]
  /\ UNCHANGED <<nodeVars, proc, exitCode, exitEvents>>

(* A world that wrote the marker ends the process with the idle exit code, *)
(* the file still held.                                                    *)
NativeSleeps(w) == native[w] = "marked" /\ WorldEnds(w, "idle")

(* The clock is read for leases only, which Ramsgate does not have.        *)
Tick ==
  /\ IsTraining /\ JsFree
  /\ now < MaxTime
  /\ now' = now + 1
  /\ UNCHANGED <<kind, acq, orphaned, worldVars, lease, revived, travelVars, procVars>>

----------------------------------------------------------------------------
Acquire ==
  \/ ReserveLease \/ Answer \/ LostAfterReserve \/ GiveUp \/ WaitBriefly \/ WaitOver
  \/ SpawnWorld \/ SpawnThrows \/ OutOfWorlds \/ PortSeen \/ StartReturns \/ StartFails

Next ==
  \/ Acquire
  \/ \E t \in Traveller : Travel(t)
  \/ \E w \in World :
       \/ ExitHandler(w) \/ WorldListens(w) \/ WorldCrashes(w)
       \/ NativeLocks(w) \/ NativeMarks(w) \/ NativeGivesUp(w) \/ NativeSleeps(w)
  \/ RunWatchdog
  \/ Tick

(* acquire is a chain of timers and promises that always fire, and its     *)
(* ten-second deadline is read on every refusal; exit events arrive; a     *)
(* killed process ends.  Travellers, worlds and the watchdog owe nothing.  *)
Fairness ==
  /\ WF_vars(Acquire) /\ WF_vars(StartFails) /\ SF_vars(GiveUp)
  /\ \A w \in World : WF_vars(ExitHandler(w)) /\ WF_vars(w \in killed /\ WorldCrashes(w))

Spec == Init /\ [][Next]_vars /\ Fairness

----------------------------------------------------------------------------
(* Type invariant.  Only a Training world has a lease, its exit handler    *)
(* runs for a dead process, and StartServer waits for a world exactly      *)
(* between the spawn and the port, and no lease outlives one reservation   *)
(* from now (StartServer, CreateTrainingLease, ReserveTrainingLease).      *)
TypeOK ==
  /\ kind \in Kinds
  /\ acq \in {"none", "queued", "starting", "ready", "reserve", "confirm",
              "refused", "waiting", "down"}
  /\ orphaned \in BOOLEAN
  /\ cur \in World \cup {NoWorld}
  /\ launching \in World \cup {NoWorld}
  /\ launching # NoWorld <=> acq \in {"starting", "ready"}
  /\ tracked \subseteq Spawned /\ killed \subseteq Spawned
  /\ proc \in [World -> {"none", "booting", "listening", "exited"}]
  /\ exitCode \in [World -> {"none", "idle", "other"}]
  /\ exitEvents \subseteq {w \in World : proc[w] = "exited"}
  /\ native \in [World -> {"running", "locked", "marked", "mismarked"}]
  /\ now \in 0 .. MaxTime
  /\ lease \in [World -> [file : {"absent", "valid", "garbled", "sleeping"},
                          expiry : 0 .. now + Reservation]]
  /\ ~IsTraining => \A w \in World : lease[w] = Absent
  /\ req \in [Traveller -> {"none", "waiting", "settled"}]
  /\ promise \in [World -> 0 .. MaxTime + Reservation]
  /\ revived \subseteq Spawned

(* At most one world of the kind runs on its fixed port: whatever the      *)
(* order of exits, cleanups and travel, a live world StartServer has not   *)
(* killed is the current or the launching one, and it is tracked           *)
(* (OnDemandWorld.forget, CleanupServer).                                  *)
OneLiveWorld ==
  LET live == {w \in World : Alive(w)} \ killed IN
  /\ Cardinality(live) <= 1
  /\ live \subseteq {cur, launching} \cap tracked

(* A traveller sent to the Training Grounds has the whole reservation to   *)
(* arrive: the world does not put itself to sleep before it has expired    *)
(* (trainingLease.ts against TickTrainingLifecycle).                       *)
ReservationKept ==
  [][\A w \in World :
       native[w] # "marked" /\ native'[w] = "marked" => promise[w] <= now]_vars

(* No traveller is sent to a world that has decided to sleep: "Wait for it *)
(* to exit rather than return a dying world's port" (trainingLease.ts).    *)
DyingNeverAnswered == [][Answer => native[cur] = "running"]_vars

(* A world that went to sleep is not woken by its own cleanup, in whatever *)
(* order the exit event and the watchdog see it (CleanupServer).           *)
SleepNotUndone == \A w \in revived : native[w] # "marked"

(* One world, tracked, and asleep when it chose to be.                     *)
WorldsSound == TypeOK /\ OneLiveWorld /\ SleepNotUndone

(* Every travel request is answered or rejected, even if the world holds   *)
(* its lease for ever (the deadline in acquire).                           *)
TravelAnswered == \A t \in Traveller : req[t] = "waiting" ~> req[t] # "waiting"

Crashed(w) == exitCode[w] = "other" /\ native[w] \in {"running", "locked"}
Replaceable == World \ {MaxWorlds}   \* the instance has no successor for the last
Replaced(w) == \E v \in Spawned : v > w

(* A world that has served travellers and crashes has a successor launched *)
(* without anyone asking, while the deploy server runs (exit handler,      *)
(* get), unless its file reads "sleeping" although it never slept.         *)
ServedCrashReplaced ==
  \A w \in Replaceable : promise[w] > 0 /\ Crashed(w) ~> Replaced(w) \/ acq = "down"

(* README: "If Ramsgate exits, or the Training Grounds crashes, the deploy *)
(* server starts it again."  So does every world of either kind.           *)
CrashReplaced == \A w \in Replaceable : Crashed(w) ~> Replaced(w) \/ acq = "down"

(* README: "An optional watchdog also catches worlds that exit without     *)
(* being noticed."  Catching one never ends the deploy server itself.      *)
WatchdogHarmless == acq # "down"
=============================================================================
