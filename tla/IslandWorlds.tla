---------------------------- MODULE IslandWorlds ----------------------------
(***************************************************************************)
(* The hunt-island worlds of the deploy server: the port pool              *)
(* (portPool.ts), StartServer and its launch queue, the readiness wait, the *)
(* exit handler, CleanupServer (gameservers.ts) and the optional watchdog  *)
(* (watchdog.ts).                                                          *)
(*                                                                         *)
(* Node runs one handler at a time, so an action is the code between two   *)
(* awaits.  The world processes run on their own: they come up, exit, or   *)
(* hang whenever they like, and the exit event reaches Node later.         *)
(*                                                                         *)
(* A launch and the world it spawns share one identifier.  Maps, behemoths *)
(* and hunt ids are arguments of the spawned process only and are left     *)
(* out.  The free ports of the city and the Training Grounds are fixed and *)
(* never enter the pool; OnDemandWorld models those two worlds.            *)
(***************************************************************************)
EXTENDS Naturals, Sequences, FiniteSets, SequencesExt

CONSTANTS
  Launch,       \* calls of StartServer for an island
  IslandPorts,  \* number of ports Startup adds to the pool
  WatchdogOn,   \* ENABLE_WATCHDOG
  NoPort        \* the port of a launch that has taken none

ASSUME IslandPortsAssumption == IslandPorts \in Nat \ {0}
ASSUME WatchdogAssumption == WatchdogOn \in BOOLEAN
ASSUME NoPortAssumption == NoPort \notin 1 .. IslandPorts

VARIABLES
  pc,           \* where each StartServer call stands
  launchQueue,  \* calls awaiting their turn of ServerLaunchQueue
  pool,         \* the PortPool: free list and held set
  servers,      \* the Gameservers array
  port,         \* the port each launch took
  proc,         \* the world process of each launch
  exitEvents,   \* exited processes whose "exit" event is not yet delivered
  killed        \* processes StartServer has killed

vars == <<pc, launchQueue, pool, servers, port, proc, exitEvents, killed>>

PortRange == 1 .. IslandPorts

Alive(l) == proc[l] \in {"booting", "listening"}

----------------------------------------------------------------------------
(* PortPool *)

Take == [free |-> Front(pool.free), held |-> pool.held \cup {Last(pool.free)}]

(* Mutant of Release: the held set is not consulted.                       *)
ReleaseUnheld(pl, p) == [free |-> Append(pl.free, p), held |-> pl.held \ {p}]

Release(pl, p) ==
  IF p \in pl.held
  THEN [free |-> Append(pl.free, p), held |-> pl.held \ {p}]
  ELSE pl

----------------------------------------------------------------------------
(* Startup adds every island port, in order, to an empty pool. *)
Init ==
  /\ pc = [l \in Launch |-> "idle"]
  /\ launchQueue = <<>>
  /\ pool = [free |-> [i \in PortRange |-> i], held |-> {}]
  /\ servers = <<>>
  /\ port = [l \in Launch |-> NoPort]
  /\ proc = [l \in Launch |-> "none"]
  /\ exitEvents = {}
  /\ killed = {}

(* The entries of the array s that are in S, in order (Array.filter).      *)
Only(s, S) == FoldLeft(LAMBDA kept, l : IF l \in S THEN Append(kept, l) ELSE kept, <<>>, s)

(* Mutant of CleanupServer: the port is never given back.                  *)
CleanupKeepsPort(l) ==
  /\ servers' = Only(servers, Launch \ {l})
  /\ UNCHANGED pool

(* CleanupServer of an island: a second caller finds it gone and returns. *)
CleanupServer(l) ==
  IF Contains(servers, l)
  THEN /\ servers' = Only(servers, Launch \ {l})
       /\ pool' = Release(pool, port[l])
  ELSE UNCHANGED <<servers, pool>>

----------------------------------------------------------------------------
(* StartServer *)

(* A matchmaking request reaches StartServer and takes its place in the    *)
(* launch queue.                                                           *)
Request(l) ==
  /\ pc[l] = "idle"
  /\ pc' = [pc EXCEPT ![l] = "queued"]
  /\ launchQueue' = Append(launchQueue, l)
  /\ UNCHANGED <<pool, servers, port, proc, exitEvents, killed>>

(* The launch at the head of the queue resumes and finds no port.          *)
NoPortLeft(l) ==
  /\ launchQueue # <<>> /\ Head(launchQueue) = l
  /\ pool.free = <<>>
  /\ launchQueue' = Tail(launchQueue)
  /\ pc' = [pc EXCEPT ![l] = "failed"]
  /\ UNCHANGED <<pool, servers, port, proc, exitEvents, killed>>

(* It takes the last free port, but spawn() itself throws (arguments the   *)
(* system refuses, no memory) before the world is recorded and before the  *)
(* try begins: nothing knows the port, and nothing will release it.        *)
SpawnThrows(l) ==
  /\ launchQueue # <<>> /\ Head(launchQueue) = l
  /\ pool.free # <<>>
  /\ launchQueue' = Tail(launchQueue)
  /\ port' = [port EXCEPT ![l] = Last(pool.free)]
  /\ pool' = Take
  /\ pc' = [pc EXCEPT ![l] = "failed"]
  /\ UNCHANGED <<servers, proc, exitEvents, killed>>

(* It takes the last free port, spawns the process and records the world.  *)
(* A spawn whose failure is reported by an "error" event (no such file, no *)
(* handles left) leaves no process and delivers no exit event.             *)
SpawnWorld(l) ==
  /\ launchQueue # <<>> /\ Head(launchQueue) = l
  /\ pool.free # <<>>
  /\ launchQueue' = Tail(launchQueue)
  /\ port' = [port EXCEPT ![l] = Last(pool.free)]
  /\ pool' = Take
  /\ \E started \in {"booting", "exited"} : proc' = [proc EXCEPT ![l] = started]
  /\ servers' = Append(servers, l)
  /\ pc' = [pc EXCEPT ![l] = "starting"]
  /\ UNCHANGED <<exitEvents, killed>>

(* WaitForGamePort: one turn of the loop asks netstat while the process is *)
(* alive.                                                                  *)
Probe(l) ==
  /\ pc[l] = "starting"
  /\ Alive(l)
  /\ pc' = [pc EXCEPT ![l] = "probing"]
  /\ UNCHANGED <<launchQueue, pool, servers, port, proc, exitEvents, killed>>

(* netstat sees the process on its port, or does not and the loop sleeps.  *)
NetstatAnswers(l) ==
  /\ pc[l] = "probing"
  /\ pc' = [pc EXCEPT ![l] = IF proc[l] = "listening" THEN "ready" ELSE "starting"]
  /\ UNCHANGED <<launchQueue, pool, servers, port, proc, exitEvents, killed>>

(* StartServer resumes and returns the world it recorded, whatever has     *)
(* become of it since netstat ran.                                         *)
StartServerReturns(l) ==
  /\ pc[l] = "ready"
  /\ pc' = [pc EXCEPT ![l] = "done"]
  /\ UNCHANGED <<launchQueue, pool, servers, port, proc, exitEvents, killed>>

(* Mutant of StartupFailed: the process is left running.                   *)
StartupFailedNoKill(l) ==
  /\ pc' = [pc EXCEPT ![l] = "failed"]
  /\ servers' = Only(servers, Launch \ {l})
  /\ pool' = Release(pool, port[l])
  /\ UNCHANGED <<launchQueue, port, proc, exitEvents, killed>>

(* The catch block of StartServer.                                         *)
StartupFailed(l) ==
  /\ pc' = [pc EXCEPT ![l] = "failed"]
  /\ servers' = Only(servers, Launch \ {l})
  /\ pool' = Release(pool, port[l])
  /\ killed' = IF Alive(l) THEN killed \cup {l} ELSE killed
  /\ UNCHANGED <<launchQueue, port, proc, exitEvents>>

(* The wait ends because the process is gone.                              *)
ProcessGone(l) == pc[l] = "starting" /\ ~Alive(l) /\ StartupFailed(l)

(* Mutant of DeadlinePasses: the loop waits as long as the process lives.  *)
DeadlineNever(l) == pc[l] = "starting" /\ ~Alive(l) /\ StartupFailed(l)

(* Sixty seconds have passed without the port.                             *)
DeadlinePasses(l) == pc[l] = "starting" /\ StartupFailed(l)

(* netstat itself fails.                                                   *)
NetstatFails(l) == pc[l] = "probing" /\ StartupFailed(l)

----------------------------------------------------------------------------
(* The world processes and Node's exit events *)

WorldListens(l) ==
  /\ proc[l] = "booting"
  /\ proc' = [proc EXCEPT ![l] = "listening"]
  /\ UNCHANGED <<pc, launchQueue, pool, servers, port, exitEvents, killed>>

(* A world ends by itself, by crashing, or because it was killed.          *)
WorldExits(l) ==
  /\ Alive(l)
  /\ proc' = [proc EXCEPT ![l] = "exited"]
  /\ exitEvents' = exitEvents \cup {l}
  /\ UNCHANGED <<pc, launchQueue, pool, servers, port, killed>>

(* Mutant of ExitHandler: cleaning up is left to the watchdog.             *)
ExitHandlerLogsOnly(l) ==
  /\ l \in exitEvents
  /\ exitEvents' = exitEvents \ {l}
  /\ UNCHANGED <<pc, launchQueue, pool, servers, port, proc, killed>>

(* Child.on("exit"): looks the process up and cleans its world up.         *)
ExitHandler(l) ==
  /\ l \in exitEvents
  /\ exitEvents' = exitEvents \ {l}
  /\ CleanupServer(l)
  /\ UNCHANGED <<pc, launchQueue, port, proc, killed>>

(* RunWatchdog: one pass over the array cleans up every dead world.        *)
RunWatchdog ==
  /\ WatchdogOn
  /\ \E l \in Range(servers) : ~Alive(l)
  /\ pool' = FoldLeft(LAMBDA pl, l : IF Alive(l) THEN pl ELSE Release(pl, port[l]),
                      pool, servers)
  /\ servers' = Only(servers, {l \in Launch : Alive(l)})
  /\ UNCHANGED <<pc, launchQueue, port, proc, exitEvents, killed>>

----------------------------------------------------------------------------
Next ==
  \/ \E l \in Launch :
       \/ Request(l) \/ NoPortLeft(l) \/ SpawnThrows(l) \/ SpawnWorld(l)
       \/ Probe(l) \/ NetstatAnswers(l) \/ StartServerReturns(l)
       \/ ProcessGone(l) \/ DeadlinePasses(l) \/ NetstatFails(l)
       \/ WorldListens(l) \/ WorldExits(l) \/ ExitHandler(l)
  \/ RunWatchdog

(* Timers and I/O completions fire, so every handler that is due runs; the *)
(* clock reaches the deadline of every wait, which the loop re-reads on    *)
(* each turn; a killed process exits.  Players and worlds owe nothing.     *)
Fairness ==
  /\ \A l \in Launch :
       /\ WF_vars(NoPortLeft(l) \/ SpawnThrows(l) \/ SpawnWorld(l))
       /\ WF_vars(Probe(l) \/ ProcessGone(l))
       /\ WF_vars(NetstatAnswers(l) \/ StartServerReturns(l))
       /\ SF_vars(DeadlinePasses(l))
       /\ WF_vars(ExitHandler(l))
       /\ WF_vars(l \in killed /\ WorldExits(l))

Spec == Init /\ [][Next]_vars /\ Fairness

----------------------------------------------------------------------------
(* Type invariant: pc, proc and the pool keep their shapes, and the free   *)
(* list never outgrows the range Startup added (PortPool, StartServer).    *)
TypeOK ==
  /\ pc \in [Launch -> {"idle", "queued", "starting", "probing", "ready", "done", "failed"}]
  /\ launchQueue \in Seq(Launch)
  /\ pool.free \in Seq(PortRange) /\ Len(pool.free) <= IslandPorts
  /\ pool.held \subseteq PortRange
  /\ servers \in Seq(Launch)
  /\ port \in [Launch -> PortRange \cup {NoPort}]
  /\ proc \in [Launch -> {"none", "booting", "listening", "exited"}]
  /\ exitEvents \subseteq Launch /\ killed \subseteq Launch

(* "A port is either free or held": every island port is on exactly one    *)
(* side of the pool and on the free list once, however often the exit      *)
(* handler, the watchdog and a failed startup release the same world.      *)
PoolPartition ==
  /\ IsInjective(pool.free)
  /\ Range(pool.free) \cap pool.held = {}
  /\ Range(pool.free) \cup pool.held = PortRange

(* A launch that took a port and whose spawn() threw.                      *)
SpawnThrew(l) == proc[l] = "none" /\ port[l] # NoPort

(* A port leaks in one place only, where spawn() throws: every other held  *)
(* port is that of a world in Gameservers, so a world that is cleaned up   *)
(* on any path gives its port back.                                        *)
HeldIsTracked ==
  pool.held \subseteq {port[l] : l \in Range(servers) \cup {k \in Launch : SpawnThrew(k)}}

(* No live world escapes: a process that runs and has not been killed is   *)
(* in Gameservers, so its exit will be noticed.                            *)
LiveIsTracked == \A l \in Launch : Alive(l) /\ l \notin killed => Contains(servers, l)

(* The pool, Gameservers and the processes stay in step on every path a    *)
(* world can end on (CleanupServer, StartServer's catch block).            *)
Bookkeeping == TypeOK /\ PoolPartition /\ HeldIsTracked /\ LiveIsTracked

(* portPool.ts: "A port is either free or held by one world."  No two      *)
(* worlds in Gameservers share a port.                                     *)
PortExclusive ==
  \A k, l \in Range(servers) : k # l => port[k] # port[l]

(* Every launch is answered: StartServer returns or throws.                *)
LaunchAnswered == \A l \in Launch : pc[l] = "queued" ~> pc[l] \in {"done", "failed"}

(* An exited world leaves Gameservers even with the watchdog off, so its   *)
(* port is freed when it exits and not only when the watchdog runs.        *)
ExitedIsForgotten ==
  \A l \in Launch : proc[l] = "exited" ~> ~Contains(servers, l)
=============================================================================
