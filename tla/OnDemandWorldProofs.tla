------------------------- MODULE OnDemandWorldProofs -------------------------
(***************************************************************************)
(* What holds of the two single worlds for any number of worlds,           *)
(* travellers and clock units, with the watchdog or without.               *)
(***************************************************************************)
EXTENDS OnDemandWorld, FiniteSetTheorems, TLAPS

(* Worlds are numbered as they are spawned; one that has not been has      *)
(* decided nothing and nobody was sent to it.                              *)
Counted == \E n \in 0 .. MaxWorlds : Spawned = 1 .. n
Untouched ==
  /\ \A w \in World : proc[w] = "none" => native[w] = "running" /\ promise[w] = 0
  /\ {cur, launching} \subseteq Spawned \cup {NoWorld}

(* While a world is being started the current one is dead.                 *)
Live ==
  /\ \A w \in World : Alive(w) /\ w \notin killed => w \in tracked /\ w \in {cur, launching}
  /\ acq \in {"queued", "starting", "ready"} => ~Alive(cur)

(* Until its cleanup a world that decided to sleep shows it in its file,   *)
(* and one that gave up after the marker was written has no reservation.   *)
Marks ==
  /\ ~IsTraining => \A w \in World : native[w] = "running"
  /\ \A w \in tracked : native[w] = "marked" => lease[w].file = "sleeping"
  /\ \A w \in World : native[w] = "mismarked" => lease[w].file # "valid"
  /\ \A w \in revived : proc[w] = "exited" /\ native[w] # "marked"

(* A world's file covers what travellers were promised, and a world that   *)
(* holds it does so after that.                                            *)
Promises ==
  /\ IsTraining => \A w \in World : lease[w].file = "valid" => promise[w] <= lease[w].expiry
  /\ \A w \in World : native[w] = "locked" => promise[w] <= now
  /\ acq = "confirm" /\ Alive(cur) =>
       /\ native[cur] = "running"
       /\ IsTraining => lease[cur].expiry >= now + Reservation

IInv == TypeOK /\ Counted /\ Untouched /\ Live /\ Marks /\ Promises

----------------------------------------------------------------------------
LEMMA InitIInv == Init => IInv
<1>. SUFFICES ASSUME Init PROVE IInv
  OBVIOUS
<1>1. Spawned = {} /\ \A w : ~Alive(w)
  BY DEF Init, Spawned, Alive
<1>2. TypeOK
  <2>1. lease \in [World -> [file : {"absent", "valid", "garbled", "sleeping"}, expiry : 0 .. now + Reservation]]
    BY TimeAssumption DEF Init, Absent
  <2>2. now \in 0 .. MaxTime /\ promise \in [World -> 0 .. MaxTime + Reservation]
    BY TimeAssumption DEF Init
  <2>3. proc \in [World -> {"none", "booting", "listening", "exited"}]
    BY DEF Init
  <2>4. launching # NoWorld <=> acq \in {"starting", "ready"}
    BY DEF Init
  <2>5. acq \in {"none", "queued", "starting", "ready", "reserve", "confirm",
              "refused", "waiting", "down"}
    BY DEF Init
  <2>. QED  BY <1>1, <2>1, <2>2, <2>3, <2>4, <2>5 DEF Init, TypeOK
<1>3. Counted
  <2>1. 0 \in 0 .. MaxWorlds /\ 1 .. 0 = {}
    BY WorldsAssumption
  <2>. QED  BY <1>1, <2>1 DEF Counted
<1>4. Untouched /\ Live /\ Marks /\ Promises
  BY <1>1, TimeAssumption DEF Init, Untouched, Live, Marks, Promises, IsTraining, Absent
<1>. QED  BY <1>2, <1>3, <1>4 DEF IInv

(* The world that is launched is the first that has not been.              *)
LEMMA NumbersNext ==
  ASSUME TypeOK, Counted, NEW started \in {"booting", "exited"},
         Cardinality(Spawned) + 1 \in World,
         proc' = [proc EXCEPT ![Cardinality(Spawned) + 1] = started]
  PROVE  \E w \in World :
           /\ w = Cardinality(Spawned) + 1 /\ proc[w] = "none"
           /\ Spawned' = Spawned \cup {w} /\ Counted'
<1>1. PICK n \in 0 .. MaxWorlds : Spawned = 1 .. n
  BY DEF Counted
<1>. DEFINE w == n + 1
<1>2. Cardinality(Spawned) = n
  BY <1>1, FS_Interval, WorldsAssumption
<1>3. w \in World /\ proc' = [proc EXCEPT ![w] = started]
  BY <1>2
<1>4. w \notin Spawned
  BY <1>1
<1>5. proc[w] = "none"
  BY <1>3, <1>4 DEF Spawned
<1>6. Spawned' = Spawned \cup {w}
  <2>1. started # "none" /\ w \in World /\ proc' = [proc EXCEPT ![w] = started]
    BY <1>3
  <2>. HIDE DEF w
  <2>2. proc'[w] = started /\ \A v \in World : v # w => proc'[v] = proc[v]
    BY <2>1 DEF TypeOK
  <2>. QED  BY <2>1, <2>2 DEF Spawned
<1>7. Spawned' = 1 .. w /\ w \in 0 .. MaxWorlds
  BY <1>1, <1>3, <1>6, WorldsAssumption DEF World
<1>. QED  BY <1>2, <1>3, <1>5, <1>6, <1>7 DEF Counted

LEMMA SpawnsNext ==
  ASSUME TypeOK, Counted, SpawnWorld
  PROVE  \E w \in World :
           /\ proc[w] = "none"
           /\ proc' = [proc EXCEPT ![w] = "booting"] \/ proc' = [proc EXCEPT ![w] = "exited"]
           /\ tracked' = tracked \cup {w} /\ launching' = w
           /\ lease' = [lease EXCEPT ![w] = NewLease]
           /\ Spawned' = Spawned \cup {w}
           /\ Counted'
<1>1. PICK started \in {"booting", "exited"} :
        proc' = [proc EXCEPT ![Cardinality(Spawned) + 1] = started]
  BY DEF SpawnWorld
<1>2. Cardinality(Spawned) + 1 \in World
  BY DEF SpawnWorld
<1>3. PICK w \in World : /\ w = Cardinality(Spawned) + 1 /\ proc[w] = "none"
                         /\ Spawned' = Spawned \cup {w} /\ Counted'
  BY <1>1, <1>2, NumbersNext
<1>. QED  BY <1>1, <1>3 DEF SpawnWorld

(* The spawned worlds are the same when none is started.                   *)
LEMMA KeepsCounted ==
  ASSUME IInv, \A w \in World : proc'[w] = "none" <=> proc[w] = "none"
  PROVE  Spawned' = Spawned /\ Counted'
<1>1. Spawned' = Spawned
  BY DEF Spawned
<1>. QED  BY <1>1 DEF IInv, Counted

----------------------------------------------------------------------------
(* The steps of get and acquire that touch neither a world nor its file.   *)
LEMMA Waits ==
  ASSUME IInv,
         \/ LostAfterReserve \/ GiveUp \/ WaitBriefly \/ WaitOver
         \/ OutOfWorlds \/ PortSeen \/ \E t \in Traveller : Travel(t)
  PROVE  IInv'
<1>1. UNCHANGED <<kind, worldVars, lease, now, revived, promise, procVars>>
  BY DEF LostAfterReserve, GiveUp, WaitBriefly, WaitOver, OutOfWorlds, PortSeen, Travel,
         Reject, Settle, travelVars
<1>2. /\ acq' \in {"none", "queued", "starting", "ready", "reserve", "refused", "waiting", "down"}
      /\ acq' \in {"starting", "ready"} <=> acq \in {"starting", "ready"}
      /\ acq' \in {"queued", "starting", "ready"} => ~Alive(cur)
  BY DEF LostAfterReserve, GiveUp, WaitBriefly, WaitOver, OutOfWorlds, PortSeen, Travel,
         Reject, Settle, IInv, TypeOK, Live, Get, LoopHead, JsFree
<1>3. orphaned' \in BOOLEAN /\ req' \in [Traveller -> {"none", "waiting", "settled"}]
  BY DEF LostAfterReserve, GiveUp, WaitBriefly, WaitOver, OutOfWorlds, PortSeen, Travel,
         Reject, Settle, travelVars, IInv, TypeOK
<1>4. Spawned' = Spawned /\ Counted'
  BY <1>1, KeepsCounted DEF procVars
<1>5. \A w : Alive(w)' <=> Alive(w)
  BY <1>1 DEF Alive, procVars
<1>6. TypeOK'
  BY <1>1, <1>2, <1>3, <1>4 DEF IInv, TypeOK, worldVars, procVars, IsTraining
<1>7. Untouched'
  BY <1>1, <1>4 DEF IInv, Untouched, worldVars, procVars
<1>8. Live'
  BY <1>1, <1>2, <1>5 DEF IInv, Live, worldVars
<1>9. Marks'
  BY <1>1 DEF IInv, Marks, worldVars, procVars, IsTraining
<1>10. Promises'
  BY <1>1, <1>2 DEF IInv, Promises, procVars, IsTraining
<1>. QED  BY <1>4, <1>6, <1>7, <1>8, <1>9, <1>10 DEF IInv

(* reserve(Current).                                                       *)
LEMMA Reserves ==
  ASSUME IInv, ReserveLease
  PROVE  IInv'
<1>1. UNCHANGED <<kind, orphaned, worldVars, now, revived, travelVars, procVars>>
  BY DEF ReserveLease
<1>2. acq = "reserve" /\ acq' \in {"refused", "confirm"}
  BY DEF ReserveLease
<1>3. Spawned' = Spawned /\ Counted'
  BY <1>1, KeepsCounted DEF procVars
<1>4. \A w : Alive(w)' <=> Alive(w)
  BY <1>1 DEF Alive, procVars
<1>5. ASSUME IsTraining, acq' = "confirm", cur \in World
      PROVE  /\ LeaseOpen(cur)
             /\ lease' = [lease EXCEPT ![cur] = Renewed(cur)]
             /\ Renewed(cur).file = "valid"
             /\ Renewed(cur).expiry \in 0 .. now + Reservation
             /\ Renewed(cur).expiry >= now + Reservation
             /\ Renewed(cur).expiry >= lease[cur].expiry
  <2>1. LeaseOpen(cur) /\ lease' = [lease EXCEPT ![cur] = Renewed(cur)]
    BY <1>2, <1>5 DEF ReserveLease
  <2>2. lease[cur].expiry \in 0 .. now + Reservation /\ now \in Nat /\ Reservation \in Nat
    BY <1>5, TimeAssumption DEF IInv, TypeOK
  <2>. QED  BY <2>1, <2>2 DEF Renewed, Valid
<1>6. \/ lease' = lease /\ (acq' = "confirm" /\ cur \in World => ~IsTraining)
      \/ IsTraining /\ acq' = "confirm" /\ cur \in World
  BY <1>2 DEF ReserveLease, IInv, TypeOK
<1>7. TypeOK'
  <2>1. lease' \in [World -> [file : {"absent", "valid", "garbled", "sleeping"}, expiry : 0 .. now + Reservation]]
    BY <1>5, <1>6 DEF IInv, TypeOK, Renewed, Valid
  <2>2. ~IsTraining => lease' = lease
    BY <1>6
  <2>. QED  BY <1>1, <1>2, <1>3, <2>1, <2>2
            DEF IInv, TypeOK, worldVars, travelVars, procVars, IsTraining
<1>8. Untouched'
  BY <1>1, <1>3 DEF IInv, Untouched, worldVars, travelVars, procVars
<1>9. Live'
  BY <1>1, <1>2, <1>4 DEF IInv, Live, worldVars
<1>10. \A w \in World : lease'[w].file = lease[w].file /\ lease'[w].expiry >= lease[w].expiry
  BY <1>5, <1>6, TimeAssumption DEF IInv, TypeOK, LeaseOpen
<1>11. Marks'
  BY <1>1, <1>10 DEF IInv, TypeOK, Spawned, Marks, worldVars, procVars, IsTraining
<1>12. Promises'
  <2>1. ASSUME IsTraining, NEW w \in World, lease'[w].file = "valid"
        PROVE  promise[w] <= lease'[w].expiry
    <3>1. promise[w] <= lease[w].expiry /\ lease'[w].expiry >= lease[w].expiry
      BY <2>1, <1>10 DEF IInv, Promises
    <3>2. promise[w] \in Int /\ lease[w].expiry \in Int /\ lease'[w].expiry \in Int
      BY <1>5, <1>6 DEF IInv, TypeOK
    <3>. QED  BY <3>1, <3>2
  <2>2. ASSUME acq' = "confirm", Alive(cur)
        PROVE  native[cur] = "running" /\ (IsTraining => lease'[cur].expiry >= now + Reservation)
    <3>1. cur \in World
      BY <2>2 DEF Alive
    <3>2. CASE IsTraining
      <4>1. native[cur] = "running"
        BY <1>5, <2>2, <3>1, <3>2 DEF LeaseOpen, Holds, IInv, TypeOK, Marks
      <4>2. lease'[cur] = Renewed(cur)
        BY <1>5, <2>2, <3>1, <3>2 DEF IInv, TypeOK
      <4>. QED  BY <1>5, <2>2, <3>1, <3>2, <4>1, <4>2
    <3>3. CASE ~IsTraining
      BY <3>1, <3>3 DEF IInv, Marks
    <3>. QED  BY <3>2, <3>3
  <2>. QED  BY <1>1, <1>4, <2>1, <2>2 DEF IInv, Promises, worldVars, travelVars, procVars, IsTraining
<1>. QED  BY <1>3, <1>7, <1>8, <1>9, <1>11, <1>12 DEF IInv

(* The reserved world is handed out: its file covers the promise.          *)
LEMMA Answers ==
  ASSUME IInv, Answer
  PROVE  IInv'
<1>1. /\ UNCHANGED <<kind, worldVars, lease, now, revived, procVars>>
      /\ acq = "confirm" /\ Alive(cur) /\ cur \in World
      /\ acq' \in {"none", "down"} /\ orphaned' = FALSE
      /\ req' \in [Traveller -> {"none", "waiting", "settled"}]
      /\ promise' = [promise EXCEPT ![cur] = now + Reservation]
  BY DEF Answer, Settle, IInv, TypeOK, Alive
<1>2. Spawned' = Spawned /\ Counted'
  BY <1>1, KeepsCounted DEF procVars
<1>3. \A w : Alive(w)' <=> Alive(w)
  BY <1>1 DEF Alive, procVars
<1>4. now + Reservation \in 0 .. MaxTime + Reservation
  BY TimeAssumption DEF IInv, TypeOK
<1>5. TypeOK'
  BY <1>1, <1>2, <1>4 DEF IInv, TypeOK, worldVars, procVars, IsTraining
<1>6. Untouched'
  BY <1>1, <1>2 DEF IInv, TypeOK, Untouched, Alive, worldVars, procVars
<1>7. Live'
  BY <1>1, <1>3 DEF IInv, Live, worldVars
<1>8. Marks'
  BY <1>1 DEF IInv, Marks, worldVars, procVars, IsTraining
<1>9. Promises'
  BY <1>1, <1>4 DEF IInv, TypeOK, Promises, procVars, IsTraining
<1>. QED  BY <1>2, <1>5, <1>6, <1>7, <1>8, <1>9 DEF IInv

----------------------------------------------------------------------------
(* StartServer: the next world is spawned, with a lease of its own.        *)
LEMMA Spawns ==
  ASSUME IInv, SpawnWorld
  PROVE  IInv'
<1>1. PICK w \in World :
        /\ proc[w] = "none"
        /\ proc' = [proc EXCEPT ![w] = "booting"] \/ proc' = [proc EXCEPT ![w] = "exited"]
        /\ tracked' = tracked \cup {w} /\ launching' = w
        /\ lease' = [lease EXCEPT ![w] = NewLease]
        /\ Spawned' = Spawned \cup {w}
        /\ Counted'
  BY SpawnsNext DEF IInv
<1>2. /\ UNCHANGED <<kind, orphaned, cur, killed, now, revived, travelVars,
                     exitCode, exitEvents, native>>
      /\ acq = "queued" /\ acq' = "starting"
  BY DEF SpawnWorld
<1>3. w # NoWorld /\ launching = NoWorld /\ ~Alive(cur) /\ cur # w /\ w \notin killed /\ w \notin revived
  BY <1>1, <1>2 DEF IInv, TypeOK, Live, Untouched, Spawned, World, NoWorld, Marks
<1>4. \A v \in World : v # w => (Alive(v)' <=> Alive(v)) /\ proc'[v] = proc[v] /\ lease'[v] = lease[v]
  BY <1>1 DEF IInv, TypeOK, Alive
<1>5. /\ NewLease \in [file : {"absent", "valid", "garbled", "sleeping"}, expiry : 0 .. now + Reservation]
      /\ ~IsTraining => NewLease = Absent
  BY TimeAssumption DEF IInv, TypeOK, NewLease, Valid, Absent
<1>6. TypeOK'
  <2>1. lease' \in [World -> [file : {"absent", "valid", "garbled", "sleeping"}, expiry : 0 .. now + Reservation]]
    BY <1>1, <1>5 DEF IInv, TypeOK
  <2>2. ~IsTraining => \A v \in World : lease'[v] = Absent
    BY <1>1, <1>5 DEF IInv, TypeOK
  <2>3. proc' \in [World -> {"none", "booting", "listening", "exited"}]
    BY <1>1 DEF IInv, TypeOK
  <2>4. exitEvents \subseteq {v \in World : proc'[v] = "exited"}
    BY <1>1, <1>4 DEF IInv, TypeOK
  <2>. QED  BY <1>1, <1>2, <1>3, <2>1, <2>2, <2>3, <2>4 DEF IInv, TypeOK, travelVars, IsTraining
<1>7. Untouched'
  BY <1>1, <1>2, <1>4 DEF IInv, TypeOK, Untouched, travelVars
<1>8. Live'
  <2>1. ~Alive(cur)'
    BY <1>2, <1>3, <1>4 DEF Alive
  <2>2. ASSUME NEW v \in World, Alive(v)', v \notin killed'
        PROVE  v \in tracked' /\ v \in {cur', launching'}
    <3>1. CASE v = w
      BY <1>1, <3>1
    <3>2. CASE v # w
      BY <1>2, <1>3, <1>4, <2>2, <3>2 DEF IInv, Live, NoWorld, World
    <3>. QED  BY <3>1, <3>2
  <2>. QED  BY <2>1, <2>2 DEF Live
<1>9. Marks'
  BY <1>1, <1>2, <1>3, <1>4 DEF IInv, TypeOK, Spawned, Marks, Untouched, IsTraining
<1>10. Promises'
  <2>1. IsTraining => \A v \in World : lease'[v].file = "valid" => promise[v] <= lease'[v].expiry
    <3>1. promise[w] = 0 /\ lease'[w] = NewLease /\ NewLease.expiry >= 0
      BY <1>1, <1>5, TimeAssumption DEF IInv, TypeOK, Untouched
    <3>. QED  BY <1>4, <3>1 DEF IInv, Promises
  <2>. QED  BY <1>2, <2>1 DEF IInv, Promises, travelVars, IsTraining
<1>. QED  BY <1>1, <1>6, <1>7, <1>8, <1>9, <1>10 DEF IInv

(* The spawn throws: the launch has a number and nothing else.             *)
LEMMA Throws ==
  ASSUME IInv, SpawnThrows
  PROVE  IInv'
<1>1. /\ UNCHANGED <<kind, worldVars, lease, now, revived, promise, exitCode, exitEvents, native>>
      /\ acq = "queued" /\ acq' \in {"none", "down"} /\ orphaned' = FALSE
      /\ req' \in [Traveller -> {"none", "waiting", "settled"}]
  BY DEF SpawnThrows, Reject, Settle, IInv, TypeOK
<1>2. Cardinality(Spawned) + 1 \in World /\ proc' = [proc EXCEPT ![Cardinality(Spawned) + 1] = "exited"]
  BY DEF SpawnThrows
<1>3. PICK w \in World : /\ w = Cardinality(Spawned) + 1 /\ proc[w] = "none"
                         /\ Spawned' = Spawned \cup {w} /\ Counted'
  BY <1>2, NumbersNext DEF IInv
<1>4. /\ proc' \in [World -> {"none", "booting", "listening", "exited"}]
      /\ \A v \in World : proc[v] \in {"none", "exited"} => proc'[v] = proc[v] \/ proc'[v] = "exited"
      /\ \A v \in World : Alive(v)' <=> Alive(v)
      /\ \A v \in World : proc'[v] = "none" => proc[v] = "none"
  BY <1>2, <1>3 DEF IInv, TypeOK, Alive
<1>5. ~Alive(cur)' /\ ~Alive(cur)
  BY <1>1, <1>4 DEF IInv, Live, Alive, worldVars
<1>6. TypeOK'
  BY <1>1, <1>3, <1>4 DEF IInv, TypeOK, worldVars, IsTraining
<1>7. Untouched'
  BY <1>1, <1>3, <1>4 DEF IInv, Untouched, worldVars
<1>8. Live'
  BY <1>1, <1>4, <1>5 DEF IInv, Live, worldVars
<1>9. Marks'
  BY <1>1, <1>4 DEF IInv, TypeOK, Spawned, Marks, worldVars, IsTraining
<1>10. Promises'
  BY <1>1, <1>5 DEF IInv, Promises, IsTraining
<1>. QED  BY <1>3, <1>6, <1>7, <1>8, <1>9, <1>10 DEF IInv

(* StartServer returns, and the world it waited for becomes current.       *)
LEMMA Returns ==
  ASSUME IInv, StartReturns
  PROVE  IInv'
<1>1. /\ UNCHANGED <<kind, orphaned, tracked, killed, lease, now, revived, travelVars, procVars>>
      /\ acq = "ready" /\ acq' = "reserve" /\ cur' = launching /\ launching' = NoWorld
  BY DEF StartReturns
<1>2. Spawned' = Spawned /\ Counted'
  BY <1>1, KeepsCounted DEF procVars
<1>3. (\A w : Alive(w)' <=> Alive(w)) /\ ~Alive(cur)
  BY <1>1 DEF Alive, procVars, IInv, Live
<1>4. TypeOK'
  BY <1>1, <1>2 DEF IInv, TypeOK, travelVars, procVars, IsTraining
<1>5. Untouched'
  BY <1>1, <1>2 DEF IInv, Untouched, travelVars, procVars
<1>6. Live'
  BY <1>1, <1>3 DEF IInv, Live
<1>7. Marks' /\ Promises'
  BY <1>1 DEF IInv, Marks, Promises, travelVars, procVars, IsTraining
<1>. QED  BY <1>2, <1>4, <1>5, <1>6, <1>7 DEF IInv

(* StartServer gives up: the world it waited for is killed or dead.        *)
LEMMA Fails ==
  ASSUME IInv, StartFails
  PROVE  IInv'
<1>1. /\ UNCHANGED <<kind, cur, now, revived, promise, procVars>>
      /\ acq = "starting" /\ acq' \in {"none", "down"} /\ orphaned' = FALSE
      /\ tracked' = tracked \ {launching} /\ launching' = NoWorld
      /\ killed' = IF Alive(launching) THEN killed \cup {launching} ELSE killed
      /\ lease' = IF Holds(launching) THEN lease ELSE [lease EXCEPT ![launching] = Absent]
  BY DEF StartFails, Reject, Settle
<1>2. req' \in [Traveller -> {"none", "waiting", "settled"}]
  BY DEF StartFails, Reject, Settle, IInv, TypeOK
<1>3. Spawned' = Spawned /\ Counted'
  BY <1>1, KeepsCounted DEF procVars
<1>4. \A w : Alive(w)' <=> Alive(w)
  BY <1>1 DEF Alive, procVars
<1>5. launching \in Spawned /\ launching \in World
  BY <1>1 DEF IInv, TypeOK, Untouched, Spawned
<1>6. \A w \in World : lease'[w] = lease[w] \/ (w = launching /\ lease'[w] = Absent)
  BY <1>1, <1>5 DEF IInv, TypeOK
<1>7. TypeOK'
  <2>1. Absent \in [file : {"absent", "valid", "garbled", "sleeping"}, expiry : 0 .. now + Reservation]
    BY TimeAssumption DEF IInv, TypeOK, Absent
  <2>2. lease' \in [World -> [file : {"absent", "valid", "garbled", "sleeping"}, expiry : 0 .. now + Reservation]]
    BY <1>1, <1>5, <2>1 DEF IInv, TypeOK
  <2>3. killed' \subseteq Spawned
    BY <1>1, <1>5 DEF IInv, TypeOK
  <2>. QED  BY <1>1, <1>2, <1>3, <1>6, <2>2, <2>3 DEF IInv, TypeOK, procVars, IsTraining
<1>8. Untouched'
  BY <1>1, <1>3 DEF IInv, Untouched, procVars
<1>9. Live'
  <2>1. ASSUME NEW w \in World, Alive(w)', w \notin killed'
        PROVE  w \in tracked' /\ w \in {cur', launching'}
    <3>1. w # launching /\ Alive(w) /\ w \notin killed
      BY <1>1, <1>4, <2>1
    <3>. QED  BY <1>1, <3>1 DEF IInv, Live
  <2>. QED  BY <1>1, <2>1 DEF Live
<1>10. Marks'
  <2>1. \A w \in tracked' : w \in tracked /\ w \in World /\ lease'[w] = lease[w]
    BY <1>1, <1>6 DEF IInv, TypeOK, Spawned
  <2>2. \A w \in World : lease'[w].file = "valid" => lease'[w] = lease[w]
    BY <1>6 DEF Absent
  <2>. QED  BY <1>1, <2>1, <2>2 DEF IInv, Marks, procVars, IsTraining
<1>11. Promises'
  <2>1. \A w \in World : lease'[w].file = "valid" => lease'[w] = lease[w]
    BY <1>6 DEF Absent
  <2>. QED  BY <1>1, <2>1 DEF IInv, Promises, procVars, IsTraining
<1>. QED  BY <1>3, <1>7, <1>8, <1>9, <1>10, <1>11 DEF IInv

----------------------------------------------------------------------------
(* CleanupServer of dead worlds, whoever noticed them.                     *)
LEMMA Cleans ==
  ASSUME IInv, JsFree,
         NEW S \in SUBSET tracked, NEW idle, \A w \in S : ~Alive(w),
         CleanupServer(S, idle),
         UNCHANGED <<kind, launching, killed, now, travelVars, proc, exitCode, native>>,
         orphaned' \in BOOLEAN, exitEvents' \subseteq exitEvents
  PROVE  IInv'
<1>1. /\ tracked' = tracked \ S /\ cur' = Forget(S)
      /\ lease' = [w \in World |-> IF w \in S THEN Absent ELSE lease[w]]
      /\ revived' = revived \cup Wake(S, idle)
      /\ acq' \in {acq, LoopHead(cur')}
      /\ acq' # acq => acq = "none"
  BY DEF CleanupServer, Get
<1>2. /\ acq' \in {"none", "queued", "starting", "ready", "reserve", "waiting"}
      /\ acq' \in {"starting", "ready"} <=> acq \in {"starting", "ready"}
  BY <1>1 DEF JsFree, IInv, TypeOK, LoopHead
<1>3. Spawned' = Spawned /\ Counted'
  BY KeepsCounted
<1>4. \A w : Alive(w)' <=> Alive(w)
  BY DEF Alive
<1>5. S \subseteq World /\ S \subseteq Spawned /\ \A w \in S : proc[w] = "exited"
  BY DEF IInv, TypeOK, Spawned, Alive
<1>6. (cur' = cur \/ cur' = NoWorld) /\ (Alive(cur) => cur' = cur)
  BY <1>1 DEF Forget
<1>7. ASSUME NEW w \in Wake(S, idle)
      PROVE  w \in S /\ native[w] # "marked"
  <2>1. w \in S /\ w \notin Asleep(S, idle) /\ w \in tracked /\ w \in World
    BY <1>5, <1>7 DEF Wake
  <2>2. CASE IsTraining
    BY <2>1, <2>2 DEF Asleep, IInv, Marks
  <2>3. CASE ~IsTraining
    BY <2>1, <2>3 DEF IInv, Marks
  <2>. QED  BY <2>1, <2>2, <2>3
<1>8. TypeOK'
  <2>1. Absent \in [file : {"absent", "valid", "garbled", "sleeping"}, expiry : 0 .. now + Reservation]
    BY TimeAssumption DEF IInv, TypeOK, Absent
  <2>2. lease' \in [World -> [file : {"absent", "valid", "garbled", "sleeping"}, expiry : 0 .. now + Reservation]]
    BY <1>1, <2>1 DEF IInv, TypeOK
  <2>3. revived' \subseteq Spawned
    BY <1>1, <1>5, <1>7 DEF IInv, TypeOK
  <2>4. ~IsTraining => \A w \in World : lease'[w] = Absent
    BY <1>1 DEF IInv, TypeOK
  <2>5. cur' \in World \cup {NoWorld}
    BY <1>6 DEF IInv, TypeOK
  <2>. QED  BY <1>1, <1>2, <1>3, <2>2, <2>3, <2>4, <2>5
            DEF IInv, TypeOK, travelVars, IsTraining
<1>9. Untouched'
  BY <1>3, <1>6 DEF IInv, Untouched, travelVars
<1>10. Live'
  <2>1. acq' \in {"queued", "starting", "ready"} => ~Alive(cur')
    <3>1. CASE acq' = LoopHead(cur')
      BY <3>1 DEF LoopHead
    <3>2. CASE acq' = acq
      <4>1. ~Alive(NoWorld)
        BY DEF Alive, NoWorld, World
      <4>. QED  BY <1>6, <3>2, <4>1 DEF IInv, Live
    <3>. QED  BY <1>1, <3>1, <3>2
  <2>2. ASSUME NEW w \in World, Alive(w), w \notin killed
        PROVE  w \in tracked' /\ w \in {cur', launching}
    BY <1>1, <2>2 DEF Forget, IInv, Live
  <2>. QED  BY <1>4, <2>1, <2>2 DEF Live
<1>11. Marks'
  <2>1. \A w \in tracked' : w \in tracked /\ w \in World /\ lease'[w] = lease[w]
    BY <1>1 DEF IInv, TypeOK, Spawned
  <2>2. \A w \in revived' : proc[w] = "exited" /\ native[w] # "marked"
    BY <1>1, <1>5, <1>7 DEF IInv, Marks
  <2>3. \A w \in World : lease'[w].file = "valid" => lease'[w] = lease[w]
    BY <1>1 DEF Absent
  <2>. QED  BY <2>1, <2>2, <2>3 DEF IInv, Marks, IsTraining
<1>12. Promises'
  <2>1. \A w \in World : lease'[w].file = "valid" => lease'[w] = lease[w]
    BY <1>1 DEF Absent
  <2>. QED  BY <1>2, <2>1 DEF IInv, Promises, travelVars, IsTraining
<1>. QED  BY <1>3, <1>8, <1>9, <1>10, <1>11, <1>12 DEF IInv

LEMMA Exits ==
  ASSUME IInv, NEW w \in World, ExitHandler(w)
  PROVE  IInv'
<1>1. /\ JsFree /\ w \in exitEvents /\ exitEvents' \subseteq exitEvents /\ orphaned' \in BOOLEAN
      /\ CleanupServer({w} \cap tracked, {v \in {w} : exitCode[v] = "idle"})
      /\ UNCHANGED <<kind, launching, killed, now, travelVars, proc, exitCode, native>>
  BY DEF ExitHandler, IInv, TypeOK
<1>2. ~Alive(w)
  BY <1>1 DEF IInv, TypeOK, Alive
<1>3. {w} \cap tracked \in SUBSET tracked /\ \A v \in {w} \cap tracked : ~Alive(v)
  BY <1>2
<1>. QED  BY <1>1, <1>3, Cleans

LEMMA Watches ==
  ASSUME IInv, RunWatchdog
  PROVE  IInv'
<1>. DEFINE dead == {w \in tracked : ~Alive(w)}
<1>1. /\ JsFree /\ exitEvents' \subseteq exitEvents /\ orphaned' \in BOOLEAN
      /\ CleanupServer(dead, {})
      /\ UNCHANGED <<kind, launching, killed, now, travelVars, proc, exitCode, native>>
  BY DEF RunWatchdog, IInv, TypeOK, procVars
<1>2. dead \in SUBSET tracked /\ \A w \in dead : ~Alive(w)
  OBVIOUS
<1>. HIDE DEF dead
<1>. QED  BY <1>1, <1>2, Cleans

----------------------------------------------------------------------------
(* The process of a world starts to listen or ends; its file stays.        *)
LEMMA Processes ==
  ASSUME IInv, NEW w \in World, WorldListens(w) \/ WorldCrashes(w) \/ NativeSleeps(w)
  PROVE  IInv'
<1>1. /\ UNCHANGED <<nodeVars, lease, native>>
      /\ Alive(w)
      /\ proc' = [proc EXCEPT ![w] = "listening"] \/ proc' = [proc EXCEPT ![w] = "exited"]
      /\ exitCode' \in [World -> {"none", "idle", "other"}]
      /\ exitEvents' \subseteq {v \in World : proc'[v] = "exited"}
  <2>1. CASE WorldListens(w)
    BY <2>1 DEF WorldListens, Alive, IInv, TypeOK
  <2>2. CASE WorldEnds(w, "other") \/ WorldEnds(w, "idle")
    BY <2>2 DEF WorldEnds, IInv, TypeOK
  <2>. QED  BY <2>1, <2>2 DEF WorldCrashes, NativeSleeps
<1>2. /\ \A v \in World : Alive(v)' => Alive(v)
      /\ \A v \in World : proc'[v] = "none" <=> proc[v] = "none"
      /\ \A v \in World : proc[v] = "exited" => proc'[v] = "exited"
  BY <1>1 DEF Alive, IInv, TypeOK
<1>3. Spawned' = Spawned /\ Counted'
  BY <1>2, KeepsCounted
<1>4. TypeOK'
  BY <1>1, <1>3 DEF IInv, TypeOK, nodeVars, worldVars, travelVars, IsTraining
<1>5. Untouched'
  BY <1>1, <1>2, <1>3 DEF IInv, Untouched, nodeVars, worldVars, travelVars
<1>6. Live'
  <2>1. Alive(cur)' => Alive(cur)
    BY <1>1, <1>2 DEF Alive, nodeVars, worldVars
  <2>. QED  BY <1>1, <1>2, <2>1 DEF IInv, Live, nodeVars, worldVars
<1>7. Marks'
  BY <1>1, <1>2 DEF IInv, TypeOK, Spawned, Marks, nodeVars, worldVars, IsTraining
<1>8. Promises'
  <2>1. Alive(cur)' => Alive(cur)
    BY <1>1, <1>2 DEF Alive, nodeVars, worldVars
  <2>. QED  BY <1>1, <2>1 DEF IInv, Promises, nodeVars, worldVars, travelVars, IsTraining
<1>. QED  BY <1>3, <1>4, <1>5, <1>6, <1>7, <1>8 DEF IInv

(* The world's own decision to sleep: it holds the file, marks it or not.  *)
LEMMA Decides ==
  ASSUME IInv, NEW w \in World, NativeLocks(w) \/ NativeMarks(w) \/ NativeGivesUp(w)
  PROVE  IInv'
<1>1. /\ UNCHANGED <<nodeVars, proc, exitCode, exitEvents>>
      /\ Alive(w)
      /\ native' \in [World -> {"running", "locked", "marked", "mismarked"}]
      /\ \A v \in World : v # w => native'[v] = native[v]
      /\ lease' \in [World -> [file : {"absent", "valid", "garbled", "sleeping"}, expiry : 0 .. now + Reservation]]
      /\ \A v \in World : v # w => lease'[v] = lease[v]
      /\ lease'[w].expiry = lease[w].expiry
      /\ IsTraining
  <2>1. IsTraining
    BY DEF NativeLocks, NativeMarks, NativeGivesUp, IInv, Marks
  <2>2. CASE NativeLocks(w)
    BY <2>1, <2>2 DEF NativeLocks, Alive, IInv, TypeOK
  <2>3. CASE NativeMarks(w)
    BY <2>1, <2>3 DEF NativeMarks, IInv, TypeOK
  <2>4. CASE NativeGivesUp(w)
    BY <2>1, <2>4 DEF NativeGivesUp, IInv, TypeOK
  <2>. QED  BY <2>2, <2>3, <2>4
<1>2. /\ native'[w] = "marked" => lease'[w].file = "sleeping"
      /\ native'[w] = "mismarked" => lease'[w].file # "valid"
      /\ lease'[w].file = "valid" => lease[w].file = "valid"
      /\ native'[w] = "locked" => promise[w] <= now
      /\ native[w] # "running" \/ lease[w].expiry <= now
  <2>1. CASE NativeLocks(w)
    <3>1. lease[w].file = "valid" /\ lease[w].expiry <= now /\ lease' = lease /\ native'[w] = "locked"
      BY <2>1 DEF NativeLocks, IInv, TypeOK
    <3>2. promise[w] <= lease[w].expiry
      BY <1>1, <3>1 DEF IInv, Promises
    <3>3. promise[w] \in Int /\ lease[w].expiry \in Int /\ now \in Int
      BY DEF IInv, TypeOK
    <3>. QED  BY <3>1, <3>2, <3>3
  <2>2. CASE NativeMarks(w)
    BY <2>2 DEF NativeMarks, IInv, TypeOK
  <2>3. CASE NativeGivesUp(w)
    <3>1. PICK text \in {lease[w].file, "garbled", "sleeping"} :
            /\ lease' = [lease EXCEPT ![w].file = text]
            /\ native' = [native EXCEPT ![w] = IF text = "sleeping" THEN "mismarked" ELSE "running"]
      BY <2>3 DEF NativeGivesUp
    <3>2. lease'[w].file = text /\ native'[w] \in {"mismarked", "running"} /\ native[w] = "locked"
      BY <2>3, <3>1 DEF NativeGivesUp, IInv, TypeOK
    <3>3. native'[w] = "mismarked" => text = "sleeping"
      BY <3>1 DEF IInv, TypeOK
    <3>. QED  BY <3>1, <3>2, <3>3
  <2>. QED  BY <2>1, <2>2, <2>3
<1>3. Spawned' = Spawned /\ Counted'
  BY <1>1, KeepsCounted
<1>4. \A v : Alive(v)' <=> Alive(v)
  BY <1>1 DEF Alive
<1>5. TypeOK'
  BY <1>1, <1>3 DEF IInv, TypeOK, nodeVars, worldVars, travelVars, IsTraining
<1>6. Untouched'
  BY <1>1, <1>3 DEF IInv, Untouched, Alive, nodeVars, worldVars, travelVars
<1>7. Live'
  BY <1>1, <1>4 DEF IInv, Live, nodeVars, worldVars
<1>8. Marks'
  <2>1. \A v \in tracked : native'[v] = "marked" => lease'[v].file = "sleeping"
    BY <1>1, <1>2 DEF IInv, TypeOK, Spawned, Marks
  <2>2. \A v \in revived : proc[v] = "exited" /\ native'[v] # "marked"
    BY <1>1 DEF IInv, TypeOK, Spawned, Marks, Alive
  <2>3. \A v \in World : native'[v] = "mismarked" => lease'[v].file # "valid"
    BY <1>1, <1>2 DEF IInv, Marks
  <2>. QED  BY <1>1, <2>1, <2>2, <2>3 DEF Marks, nodeVars, worldVars, IsTraining
<1>9. Promises'
  <2>1. \A v \in World : lease'[v].file = "valid" => promise[v] <= lease'[v].expiry
    BY <1>1, <1>2 DEF IInv, Promises
  <2>2. \A v \in World : native'[v] = "locked" => promise[v] <= now
    BY <1>1, <1>2 DEF IInv, Promises
  <2>3. ASSUME acq = "confirm", Alive(cur)
        PROVE  native'[cur] = "running" /\ lease'[cur].expiry >= now + Reservation
    <3>1. native[cur] = "running" /\ lease[cur].expiry >= now + Reservation /\ cur \in World
      BY <1>1, <2>3 DEF IInv, Promises, Alive
    <3>2. cur # w
      <4>1. now \in Int /\ lease[cur].expiry \in Int
        BY <3>1 DEF IInv, TypeOK
      <4>. QED  BY <1>2, <3>1, <4>1, TimeAssumption
    <3>. QED  BY <1>1, <3>1, <3>2
  <2>. QED  BY <1>1, <1>4, <2>1, <2>2, <2>3 DEF Promises, nodeVars, worldVars, travelVars, IsTraining
<1>. QED  BY <1>3, <1>5, <1>6, <1>7, <1>8, <1>9 DEF IInv

LEMMA Ticks ==
  ASSUME IInv, Tick
  PROVE  IInv'
<1>1. /\ UNCHANGED <<kind, acq, orphaned, worldVars, lease, revived, travelVars, procVars>>
      /\ now' = now + 1 /\ now' \in 0 .. MaxTime /\ now \in Nat /\ acq # "confirm"
  BY TimeAssumption DEF Tick, JsFree, IInv, TypeOK
<1>2. Spawned' = Spawned /\ Counted'
  BY <1>1, KeepsCounted DEF procVars
<1>3. \A w : Alive(w)' <=> Alive(w)
  BY <1>1 DEF Alive, procVars
<1>4. TypeOK'
  <2>1. lease \in [World -> [file : {"absent", "valid", "garbled", "sleeping"}, expiry : 0 .. now' + Reservation]]
    <3>1. \A e \in 0 .. now + Reservation : e \in 0 .. now' + Reservation
      BY <1>1, TimeAssumption
    <3>. QED  BY <3>1 DEF IInv, TypeOK
  <2>. QED  BY <1>1, <1>2, <2>1 DEF IInv, TypeOK, worldVars, travelVars, procVars, IsTraining
<1>5. Untouched' /\ Live' /\ Marks'
  BY <1>1, <1>2, <1>3 DEF IInv, Untouched, Live, Marks, worldVars, travelVars, procVars, IsTraining
<1>6. Promises'
  <2>1. \A w \in World : native[w] = "locked" => promise[w] <= now'
    BY <1>1, TimeAssumption DEF IInv, TypeOK, Promises
  <2>. QED  BY <1>1, <2>1 DEF IInv, Promises, travelVars, procVars, IsTraining
<1>. QED  BY <1>2, <1>4, <1>5, <1>6 DEF IInv

----------------------------------------------------------------------------
LEMMA StepIInv == IInv /\ [Next]_vars => IInv'
<1>. SUFFICES ASSUME IInv, [Next]_vars PROVE IInv'
  OBVIOUS
<1>1. CASE Acquire
  BY <1>1, Waits, Reserves, Answers, Spawns, Throws, Returns, Fails DEF Acquire
<1>2. CASE \E t \in Traveller : Travel(t)
  BY <1>2, Waits
<1>3. ASSUME NEW w \in World,
             \/ ExitHandler(w) \/ WorldListens(w) \/ WorldCrashes(w)
             \/ NativeLocks(w) \/ NativeMarks(w) \/ NativeGivesUp(w) \/ NativeSleeps(w)
      PROVE  IInv'
  BY <1>3, Exits, Processes, Decides
<1>4. CASE RunWatchdog
  BY <1>4, Watches
<1>5. CASE Tick
  BY <1>5, Ticks
<1>6. CASE UNCHANGED vars
  <2>1. UNCHANGED <<kind, acq, orphaned, cur, launching, tracked, killed, lease, now, revived,
                    req, promise, proc, exitCode, exitEvents, native>>
    BY <1>6 DEF vars, worldVars, travelVars, procVars
  <2>2. Spawned' = Spawned /\ \A w : Alive(w)' <=> Alive(w)
    BY <2>1 DEF Spawned, Alive
  <2>3. TypeOK' /\ Counted' /\ Untouched'
    BY <2>1, <2>2 DEF IInv, TypeOK, Counted, Untouched, IsTraining
  <2>4. Live' /\ Marks' /\ Promises'
    BY <2>1, <2>2 DEF IInv, Live, Marks, Promises, IsTraining
  <2>. QED  BY <2>3, <2>4 DEF IInv
<1>. QED  BY <1>1, <1>2, <1>3, <1>4, <1>5, <1>6 DEF Next

LEMMA AlwaysIInv == Spec => []IInv
<1>. QED  BY InitIInv, StepIInv, PTL DEF Spec

----------------------------------------------------------------------------
(* At most one world of the kind runs, the deploy server knows which, and  *)
(* its cleanup never wakes one that went to sleep (OnDemandWorld, Cleanup- *)
(* Server), whatever the order of exits, watchdog, travel and failures.    *)
THEOREM WorldsStaySound == Spec => []WorldsSound
<1>1. IInv => WorldsSound
  <2>. SUFFICES ASSUME IInv PROVE WorldsSound
    OBVIOUS
  <2>. DEFINE live == {w \in World : Alive(w)} \ killed
  <2>1. live \subseteq {cur, launching} \cap tracked
    BY DEF IInv, Live
  <2>2. live = {} \/ live = {cur} \/ live = {launching}
    <3>1. CASE launching = NoWorld
      BY <2>1, <3>1 DEF World, NoWorld
    <3>2. CASE launching # NoWorld
      <4>1. ~Alive(cur)
        BY <3>2 DEF IInv, TypeOK, Live
      <4>. QED  BY <2>1, <4>1
    <3>. QED  BY <3>1, <3>2
  <2>3. Cardinality(live) <= 1
    <3>1. Cardinality({}) = 0 /\ Cardinality({cur}) = 1 /\ Cardinality({launching}) = 1
      BY FS_EmptySet, FS_Singleton
    <3>. QED  BY <2>2, <3>1
  <2>4. OneLiveWorld
    BY <2>1, <2>3 DEF OneLiveWorld
  <2>5. SleepNotUndone
    BY DEF IInv, Marks, SleepNotUndone
  <2>. QED  BY <2>4, <2>5 DEF IInv, WorldsSound
<1>. QED  BY <1>1, AlwaysIInv, PTL

(* A traveller who was sent to the Training Grounds has the whole reserva- *)
(* tion to arrive (ReserveTrainingLease, TickTrainingLifecycle).           *)
THEOREM ReservationsHold == Spec => ReservationKept
<1>1. IInv /\ [Next]_vars =>
        [\A w \in World : native[w] # "marked" /\ native'[w] = "marked" => promise[w] <= now]_vars
  <2>. SUFFICES ASSUME IInv, Next, NEW w \in World, native[w] # "marked", native'[w] = "marked"
                PROVE  promise[w] <= now
    OBVIOUS
  <2>1. PICK v \in World : NativeMarks(v)
    <3>1. native' # native
      OBVIOUS
    <3>2. \A v \in World : NativeLocks(v) \/ NativeGivesUp(v) => native'[w] # "marked"
      BY DEF NativeLocks, NativeGivesUp, IInv, TypeOK
    <3>. QED
      BY <3>1, <3>2
         DEF Next, Acquire, ReserveLease, Answer, LostAfterReserve, GiveUp, WaitBriefly, WaitOver,
             SpawnWorld, SpawnThrows, OutOfWorlds, PortSeen, StartReturns, StartFails, Travel,
             ExitHandler, WorldListens, WorldCrashes, WorldEnds, NativeSleeps, RunWatchdog,
             Tick, procVars
  <2>2. native[w] = "locked"
    BY <2>1 DEF NativeMarks, IInv, TypeOK
  <2>. QED  BY <2>2 DEF IInv, Promises
<1>. QED  BY <1>1, AlwaysIInv, PTL DEF Spec, ReservationKept

(* Nobody is sent to a world that has decided to sleep (OnDemandWorld's    *)
(* acquire, trainingLease.ts).                                             *)
THEOREM DyingWorldsAreNotAnswered == Spec => DyingNeverAnswered
<1>1. IInv /\ [Next]_vars =>
        [Answer => native[cur] = "running"]_vars
  BY DEF Answer, IInv, Promises
<1>. QED  BY <1>1, AlwaysIInv, PTL DEF Spec, DyingNeverAnswered
=============================================================================
