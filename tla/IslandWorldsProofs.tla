-------------------------- MODULE IslandWorldsProofs --------------------------
(***************************************************************************)
(* The bookkeeping of the island worlds, for any launches, any number of   *)
(* ports and with the watchdog on or off.                                  *)
(***************************************************************************)
EXTENDS IslandWorlds, InductionLemmas, SequenceTheorems

Pool == [free : Seq(PortRange), held : SUBSET PortRange]

(* A pool whose two sides divide the ports of the range, each of them      *)
(* listed once.                                                            *)
SoundPool(pl) ==
  /\ pl \in Pool
  /\ IsInjective(pl.free)
  /\ Range(pl.free) \cap pl.held = {} /\ Range(pl.free) \cup pl.held = PortRange
  /\ Len(pl.free) + Cardinality(pl.held) = IslandPorts

(* A call in the launch queue is there once and has started nothing; an    *)
(* exit event is that of a process that has ended.                         *)
Launching ==
  /\ IsInjective(launchQueue)
  /\ \A l \in Range(launchQueue) : pc[l] = "queued"
  /\ \A l \in Launch : pc[l] \in {"idle", "queued"} => port[l] = NoPort /\ proc[l] = "none"
  /\ \A l \in exitEvents : proc[l] = "exited"

(* Why the books are kept: the pool is sound in itself, and no launch      *)
(* takes a second port while it holds one.                                 *)
IInv == Bookkeeping /\ SoundPool(pool) /\ Launching

----------------------------------------------------------------------------
(* Sequences                                                               *)

LEMMA RangeAppended ==
  ASSUME NEW T, NEW s \in Seq(T), NEW x \in T
  PROVE  Append(s, x) \in Seq(T) /\ Range(Append(s, x)) = Range(s) \cup {x}
<1>1. /\ Append(s, x) \in Seq(T)
      /\ Len(Append(s, x)) = Len(s) + 1
      /\ \A i \in 1 .. Len(s) : Append(s, x)[i] = s[i]
      /\ Append(s, x)[Len(s) + 1] = x
      /\ DOMAIN Append(s, x) = 1 .. Len(s) + 1 /\ DOMAIN s = 1 .. Len(s) /\ Len(s) \in Nat
  OBVIOUS
<1>2. ASSUME NEW y \in Range(Append(s, x)) PROVE y \in Range(s) \cup {x}
  BY <1>1 DEF Range
<1>3. ASSUME NEW y \in Range(s) PROVE y \in Range(Append(s, x))
  BY <1>1 DEF Range
<1>4. x \in Range(Append(s, x))
  <2>1. Len(s) + 1 \in 1 .. Len(s) + 1
    BY <1>1
  <2>. QED  BY <1>1, <2>1 DEF Range
<1>. QED  BY <1>1, <1>2, <1>3, <1>4

(* What filtering an array keeps.                                          *)
LEMMA OnlyKeeps ==
  ASSUME NEW T, NEW s \in Seq(T), NEW S
  PROVE  Only(s, S) \in Seq(T) /\ Range(Only(s, S)) = Range(s) \cap S
<1>. DEFINE n == Len(s)
            V == Seq(T)
            G == [x \in V \X (1 .. n) |-> IF s[x[2]] \in S THEN Append(x[1], s[x[2]]) ELSE x[1]]
            Body(it) == [q \in SUBSET (1 .. n) |->
                           IF q = {} THEN <<>>
                           ELSE IF s[LargestOf(q)] \in S
                                THEN Append(it[q \ {LargestOf(q)}], s[LargestOf(q)])
                                ELSE it[q \ {LargestOf(q)}]]
            kept == CHOOSE it : it = Body(it)
<1>1. n \in Nat /\ DOMAIN s = 1 .. n /\ \A i \in 1 .. n : s[i] \in T
  OBVIOUS
<1>2. Only(s, S) = kept[1 .. n]
  BY <1>1, Zenon DEF Only, FoldLeft, MapThenFoldSet, Max, LargestOf
<1>3. Chooses(LastOf(n), 1 .. n) /\ IsFiniteSet(1 .. n)
  BY <1>1, LastOfChooses
<1>4. kept = Body(kept)
  <2>1. <<>> \in V /\ G \in [V \X (1 .. n) -> V]
    BY <1>1
  <2>2. PICK f : IsFold(f, 1 .. n, LastOf(n), V, <<>>, G)
    <3>. HIDE DEF G, V
    <3>. QED  BY <1>3, <2>1, FoldExists
  <2>3. f = Body(f)
    BY <2>2, <1>3 DEF IsFold, LastOf, Chooses
  <2>. HIDE DEF Body
  <2>. QED  BY <2>3
<1>. HIDE DEF kept
<1>. DEFINE Q == {q \in SUBSET (1 .. n) :
                    kept[q] \in Seq(T) /\ Range(kept[q]) = {s[i] : i \in q} \cap S}
<1>5. {} \in Q
  <2>1. kept[{}] = <<>>
    BY <1>4
  <2>2. <<>> \in Seq(T) /\ Range(<<>>) = {}
    BY DEF Range
  <2>3. {s[i] : i \in {}} \cap S = {}
    OBVIOUS
  <2>. QED  BY <2>1, <2>2, <2>3
<1>6. ASSUME NEW q \in SUBSET (1 .. n), q # {}, q \ {LastOf(n)[q]} \in Q
      PROVE  q \in Q
  <2>. DEFINE i == LargestOf(q)
              before == kept[q \ {i}]
  <2>1. LastOf(n)[q] = i /\ i \in q
    BY <1>3, <1>6 DEF LastOf, Chooses
  <2>2. before \in Seq(T) /\ Range(before) = {s[j] : j \in q \ {i}} \cap S
    BY <1>6, <2>1
  <2>3. kept[q] = IF s[i] \in S THEN Append(before, s[i]) ELSE before
    BY <1>4, <1>6
  <2>. HIDE DEF i, before
  <2>4. {s[j] : j \in q} = {s[j] : j \in q \ {i}} \cup {s[i]}
    BY <2>1
  <2>5. s[i] \in T
    BY <1>1, <2>1
  <2>6. Append(before, s[i]) \in Seq(T) /\ Range(Append(before, s[i])) = Range(before) \cup {s[i]}
    BY <2>2, <2>5, RangeAppended
  <2>7. CASE s[i] \in S
    BY <2>2, <2>3, <2>4, <2>6, <2>7
  <2>8. CASE s[i] \notin S
    BY <2>2, <2>3, <2>4, <2>8
  <2>. QED  BY <2>7, <2>8
<1>7. 1 .. n \in Q
  <2>1. 1 .. n \in SUBSET (1 .. n)
    OBVIOUS
  <2>. HIDE DEF Q, n
  <2>. QED  BY <1>3, <1>5, <1>6, <2>1, SubsetInduction, Zenon
<1>8. {s[i] : i \in 1 .. n} = Range(s)
  BY <1>1 DEF Range
<1>. QED  BY <1>2, <1>7, <1>8

----------------------------------------------------------------------------
(* The pool                                                                *)

LEMMA HeldIsFinite ==
  ASSUME NEW pl, SoundPool(pl)
  PROVE  IsFiniteSet(pl.held) /\ Cardinality(pl.held) \in Nat
<1>1. IsFiniteSet(PortRange)
  BY IslandPortsAssumption, FS_Interval DEF PortRange
<1>2. pl.held \in SUBSET PortRange
  BY DEF SoundPool, Pool
<1>. QED  BY <1>1, <1>2, FS_Subset, FS_CardinalityType

(* Whatever is released, however often, both sides stay sound.             *)
LEMMA ReleaseKeeps ==
  ASSUME NEW pl, SoundPool(pl), NEW p
  PROVE  SoundPool(Release(pl, p)) /\ Release(pl, p).held = pl.held \ {p}
<1>1. CASE p \notin pl.held
  BY <1>1 DEF Release
<1>2. CASE p \in pl.held
  <2>1. pl.free \in Seq(PortRange) /\ p \in PortRange
    BY <1>2 DEF SoundPool, Pool
  <2>2. /\ Append(pl.free, p) \in Seq(PortRange)
        /\ Range(Append(pl.free, p)) = Range(pl.free) \cup {p}
    BY <2>1, RangeAppended
  <2>3. Release(pl, p) = [free |-> Append(pl.free, p), held |-> pl.held \ {p}]
    BY <1>2 DEF Release
  <2>4. IsInjective(Append(pl.free, p))
    <3>1. p \notin Range(pl.free)
      BY <1>2 DEF SoundPool
    <3>2. \A i \in 1 .. Len(pl.free) : pl.free[i] # p
      BY <2>1, <3>1 DEF Range
    <3>. QED  BY <2>1, <3>2 DEF SoundPool, IsInjective
  <2>5. Len(Append(pl.free, p)) + Cardinality(pl.held \ {p}) = IslandPorts
    <3>1. Cardinality(pl.held \ {p}) = Cardinality(pl.held) - 1
      BY <1>2, HeldIsFinite, OneLess
    <3>2. Len(Append(pl.free, p)) = Len(pl.free) + 1 /\ Len(pl.free) \in Nat
      BY <2>1
    <3>. QED  BY <3>1, <3>2, HeldIsFinite DEF SoundPool
  <2>. QED  BY <1>2, <2>2, <2>3, <2>4, <2>5 DEF SoundPool, Pool
<1>. QED  BY <1>1, <1>2

(* The port that is taken was free and is held.                            *)
LEMMA TakeKeeps ==
  ASSUME SoundPool(pool), pool.free # <<>>
  PROVE  /\ SoundPool(Take)
         /\ Take.held = pool.held \cup {Last(pool.free)}
         /\ Last(pool.free) \in PortRange
<1>. DEFINE free == pool.free
            n == Len(free)
            p == free[n]
            rest == SubSeq(free, 1, n - 1)
<1>1. free \in Seq(PortRange) /\ n \in Nat /\ n # 0 /\ DOMAIN free = 1 .. n /\ n \in 1 .. n
  BY DEF SoundPool, Pool
<1>2. p \in PortRange /\ p \in Range(free)
  BY <1>1 DEF Range
<1>3. Take = [free |-> rest, held |-> pool.held \cup {p}]
  BY DEF Take, Front, Last
<1>4. /\ rest \in Seq(PortRange) /\ Len(rest) = n - 1 /\ DOMAIN rest = 1 .. (n - 1)
      /\ \A i \in 1 .. (n - 1) : rest[i] = free[i] /\ i \in 1 .. n /\ i # n
  BY <1>1
<1>. HIDE DEF rest
<1>5. \A i, j \in 1 .. n : free[i] = free[j] => i = j
  BY <1>1 DEF SoundPool, IsInjective
<1>. HIDE DEF free, n
<1>6. IsInjective(rest) /\ \A i \in 1 .. (n - 1) : free[i] # p
  BY <1>1, <1>4, <1>5 DEF IsInjective
<1>7. Range(rest) = Range(free) \ {p}
  <2>1. \A i \in 1 .. n : i # n => i \in 1 .. (n - 1)
    BY <1>1
  <2>2. ASSUME NEW y \in Range(free), y # p PROVE y \in Range(rest)
    BY <1>1, <1>4, <2>1, <2>2 DEF Range
  <2>3. ASSUME NEW y \in Range(rest) PROVE y \in Range(free) /\ y # p
    BY <1>1, <1>4, <1>6 DEF Range
  <2>. QED  BY <2>2, <2>3
<1>8. Len(rest) + Cardinality(pool.held \cup {p}) = IslandPorts
  <2>1. p \notin pool.held
    BY <1>2 DEF SoundPool, free
  <2>2. Cardinality(pool.held \cup {p}) = Cardinality(pool.held) + 1
    BY <2>1, HeldIsFinite, FS_AddElement
  <2>3. n + Cardinality(pool.held) = IslandPorts /\ Cardinality(pool.held) \in Nat
    BY HeldIsFinite DEF SoundPool, free, n
  <2>. QED  BY <1>1, <1>4, <2>2, <2>3
<1>9. SoundPool(Take)
  <2>1. Range(rest) \cap (pool.held \cup {p}) = {} /\ Range(rest) \cup (pool.held \cup {p}) = PortRange
    BY <1>2, <1>7 DEF SoundPool, free
  <2>2. pool.held \cup {p} \in SUBSET PortRange
    BY <1>2 DEF SoundPool, Pool
  <2>. QED  BY <1>3, <1>4, <1>6, <1>8, <2>1, <2>2 DEF SoundPool, Pool
<1>. QED  BY <1>2, <1>3, <1>9 DEF Last, free, n

(* One pass of the watchdog frees the ports of the dead worlds it finds    *)
(* in the array, and no other.                                             *)
LEMMA WatchdogReleases ==
  ASSUME SoundPool(pool), servers \in Seq(Launch), RunWatchdog
  PROVE  /\ SoundPool(pool')
         /\ \A p \in pool'.held :
               p \in pool.held /\ \A l \in Range(servers) : ~Alive(l) => port[l] # p
<1>. DEFINE n == Len(servers)
            V == {pl \in Pool : SoundPool(pl)}
            Step(pl, i) == IF Alive(servers[i]) THEN pl ELSE Release(pl, port[servers[i]])
            G == [x \in V \X (1 .. n) |-> Step(x[1], x[2])]
            Body(it) == [q \in SUBSET (1 .. n) |->
                           IF q = {} THEN pool
                           ELSE Step(it[q \ {LargestOf(q)}], LargestOf(q))]
            swept == CHOOSE it : it = Body(it)
<1>1. n \in Nat /\ DOMAIN servers = 1 .. n
  OBVIOUS
<1>2. pool' = swept[1 .. n]
  BY <1>1, Zenon DEF RunWatchdog, FoldLeft, MapThenFoldSet, Max, LargestOf
<1>3. Chooses(LastOf(n), 1 .. n) /\ IsFiniteSet(1 .. n)
  BY <1>1, LastOfChooses
<1>4. swept = Body(swept)
  <2>1. pool \in V /\ G \in [V \X (1 .. n) -> V]
    <3>1. ASSUME NEW pl \in V, NEW i \in 1 .. n PROVE Step(pl, i) \in V
      BY ReleaseKeeps DEF SoundPool
    <3>2. pool \in V
      BY DEF SoundPool
    <3>. HIDE DEF Step, V
    <3>. QED  BY <3>1, <3>2
  <2>2. PICK f : IsFold(f, 1 .. n, LastOf(n), V, pool, G)
    <3>. HIDE DEF G, V
    <3>. QED  BY <1>3, <2>1, FoldExists
  <2>3. f = Body(f)
    <3>. HIDE DEF Step, V
    <3>. QED  BY <2>2, <1>3 DEF IsFold, LastOf, Chooses
  <2>. HIDE DEF Body
  <2>. QED  BY <2>3
<1>. HIDE DEF swept
<1>. DEFINE Q == {q \in SUBSET (1 .. n) :
                    /\ SoundPool(swept[q])
                    /\ \A p \in swept[q].held :
                          p \in pool.held /\ \A i \in q : ~Alive(servers[i]) => port[servers[i]] # p}
<1>5. {} \in Q
  <2>1. swept[{}] = pool
    BY <1>4
  <2>. QED  BY <2>1
<1>6. ASSUME NEW q \in SUBSET (1 .. n), q # {}, q \ {LastOf(n)[q]} \in Q
      PROVE  q \in Q
  <2>. DEFINE i == LargestOf(q)
              before == swept[q \ {i}]
  <2>1. LastOf(n)[q] = i /\ i \in q
    BY <1>3, <1>6 DEF LastOf, Chooses
  <2>2. SoundPool(before) /\ \A p \in before.held :
          p \in pool.held /\ \A j \in q \ {i} : ~Alive(servers[j]) => port[servers[j]] # p
    BY <1>6, <2>1
  <2>3. swept[q] = IF Alive(servers[i]) THEN before ELSE Release(before, port[servers[i]])
    BY <1>4, <1>6
  <2>. HIDE DEF i, before
  <2>4. CASE Alive(servers[i])
    BY <2>1, <2>2, <2>3, <2>4
  <2>5. CASE ~Alive(servers[i])
    <3>1. SoundPool(swept[q]) /\ swept[q].held = before.held \ {port[servers[i]]}
      BY <2>2, <2>3, <2>5, ReleaseKeeps
    <3>. QED  BY <2>1, <2>2, <3>1
  <2>. QED  BY <2>4, <2>5
<1>7. 1 .. n \in Q
  <2>1. 1 .. n \in SUBSET (1 .. n)
    OBVIOUS
  <2>. HIDE DEF Q, n
  <2>. QED  BY <1>3, <1>5, <1>6, <2>1, SubsetInduction, Zenon
<1>. QED  BY <1>1, <1>2, <1>7 DEF Range

----------------------------------------------------------------------------
(* The steps                                                               *)

(* The world l leaves the array and gives its port back: on any path, the  *)
(* ports still held are those of the worlds still there, or leaked.        *)
LEMMA WorldForgotten ==
  ASSUME IInv, NEW l \in Launch, servers' = Only(servers, Launch \ {l}),
         pool' = Release(pool, port[l]), port' = port, proc' = proc
  PROVE  /\ SoundPool(pool') /\ servers' \in Seq(Launch) /\ HeldIsTracked'
         /\ Range(servers') = Range(servers) \ {l}
<1>1. servers \in Seq(Launch) /\ Range(servers) \subseteq Launch
  BY DEF IInv, Bookkeeping, TypeOK, Range
<1>2. servers' \in Seq(Launch) /\ Range(servers') = Range(servers) \cap (Launch \ {l})
  BY <1>1, OnlyKeeps
<1>3. SoundPool(pool') /\ pool'.held = pool.held \ {port[l]}
  BY ReleaseKeeps DEF IInv
<1>4. HeldIsTracked'
  <2>1. \A k \in Launch : SpawnThrew(k)' <=> SpawnThrew(k)
    BY DEF SpawnThrew
  <2>2. ASSUME NEW p \in pool'.held
        PROVE  p \in {port'[k] : k \in Range(servers') \cup {j \in Launch : SpawnThrew(j)'}}
    <3>1. PICK k \in Range(servers) \cup {j \in Launch : SpawnThrew(j)} : port[k] = p
      BY <1>3 DEF IInv, Bookkeeping, HeldIsTracked
    <3>2. k # l
      BY <1>3, <3>1
    <3>. QED  BY <1>1, <1>2, <2>1, <3>1, <3>2
  <2>. QED  BY <2>2 DEF HeldIsTracked
<1>. QED  BY <1>1, <1>2, <1>3, <1>4

LEMMA PoolTypes ==
  ASSUME NEW pl, SoundPool(pl)
  PROVE  /\ pl.free \in Seq(PortRange) /\ Len(pl.free) <= IslandPorts
         /\ pl.held \subseteq PortRange
         /\ IsInjective(pl.free)
         /\ Range(pl.free) \cap pl.held = {} /\ Range(pl.free) \cup pl.held = PortRange
<1>1. Len(pl.free) \in Nat /\ Len(pl.free) + Cardinality(pl.held) = IslandPorts
  BY DEF SoundPool, Pool
<1>. QED  BY <1>1, HeldIsFinite, IslandPortsAssumption DEF SoundPool, Pool

LEMMA ContainsIsRange ==
  ASSUME NEW s \in Seq(Launch), NEW l
  PROVE  Contains(s, l) <=> l \in Range(s)
BY DEF Contains, Range

(* A launch that takes a port accounts for it, and no launch that          *)
(* accounted for one before is forgotten.                                  *)
LEMMA TakenIsHeld ==
  ASSUME IInv, NEW l \in Launch, port[l] = NoPort,
         pool'.held = pool.held \cup {Last(pool.free)},
         port' = [port EXCEPT ![l] = Last(pool.free)],
         Range(servers) \subseteq Range(servers'),
         \A k \in Launch : k # l => proc'[k] = proc[k],
         l \in Range(servers') \/ SpawnThrew(l)'
  PROVE  HeldIsTracked'
<1>. DEFINE before == Range(servers) \cup {k \in Launch : SpawnThrew(k)}
            after == Range(servers') \cup {k \in Launch : SpawnThrew(k)'}
<1>1. port'[l] = Last(pool.free) /\ \A k \in Launch : k # l => port'[k] = port[k]
  BY DEF IInv, Bookkeeping, TypeOK
<1>2. ASSUME NEW p \in pool.held PROVE \E k \in after : port'[k] = p
  <2>1. PICK k \in before : port[k] = p
    BY DEF IInv, Bookkeeping, HeldIsTracked
  <2>2. k \in Launch /\ k # l
    BY <2>1, NoPortAssumption DEF IInv, Bookkeeping, TypeOK, PortRange, Range
  <2>3. k \in after
    BY <1>1, <2>1, <2>2 DEF SpawnThrew
  <2>. QED  BY <1>1, <2>1, <2>2, <2>3
<1>3. l \in after
  OBVIOUS
<1>4. \A p \in pool'.held : \E k \in after : port'[k] = p
  BY <1>1, <1>2, <1>3
<1>. HIDE DEF before
<1>. QED  BY <1>4 DEF HeldIsTracked

LEMMA SpawnKeeps ==
  ASSUME IInv, NEW l \in Launch, SpawnWorld(l)
  PROVE  IInv'
<1>. USE DEF IInv, Bookkeeping, TypeOK, Launching
<1>1. /\ launchQueue \in Seq(Launch) /\ launchQueue # <<>> /\ Head(launchQueue) = l
      /\ l \in Range(launchQueue) /\ pc[l] = "queued"
  BY DEF SpawnWorld, Range
<1>2. /\ launchQueue' \in Seq(Launch) /\ IsInjective(launchQueue')
      /\ Range(launchQueue') \subseteq Range(launchQueue) \ {l}
  <2>1. launchQueue' = Tail(launchQueue)
    BY DEF SpawnWorld
  <2>. QED  BY <1>1, <2>1 DEF IsInjective, Range
<1>3. SoundPool(pool') /\ pool'.held = pool.held \cup {Last(pool.free)} /\ Last(pool.free) \in PortRange
  BY TakeKeeps DEF SpawnWorld
<1>4. servers' \in Seq(Launch) /\ Range(servers') = Range(servers) \cup {l}
  BY RangeAppended DEF SpawnWorld
<1>5. port' = [port EXCEPT ![l] = Last(pool.free)] /\ port[l] = NoPort /\ proc[l] = "none"
  BY <1>1 DEF SpawnWorld
<1>6. TypeOK'
  BY <1>2, <1>3, <1>4, PoolTypes DEF SpawnWorld
<1>7. HeldIsTracked'
  <2>1. \A k \in Launch : k # l => proc'[k] = proc[k]
    BY DEF SpawnWorld
  <2>. QED  BY <1>3, <1>4, <1>5, <2>1, TakenIsHeld
<1>8. LiveIsTracked'
  BY <1>4, ContainsIsRange DEF LiveIsTracked, SpawnWorld, Alive
<1>9. Launching'
  BY <1>1, <1>2, <1>5 DEF SpawnWorld
<1>10. PoolPartition'
  BY <1>3, PoolTypes DEF PoolPartition
<1>. QED  BY <1>3, <1>6, <1>7, <1>8, <1>9, <1>10

(* The one step that leaks: its port is held and no world is recorded.     *)
LEMMA SpawnThrowsKeeps ==
  ASSUME IInv, NEW l \in Launch, SpawnThrows(l)
  PROVE  IInv'
<1>. USE DEF IInv, Bookkeeping, TypeOK, Launching
<1>1. /\ launchQueue \in Seq(Launch) /\ launchQueue # <<>> /\ Head(launchQueue) = l
      /\ l \in Range(launchQueue) /\ pc[l] = "queued"
  BY DEF SpawnThrows, Range
<1>2. /\ launchQueue' \in Seq(Launch) /\ IsInjective(launchQueue')
      /\ Range(launchQueue') \subseteq Range(launchQueue) \ {l}
  <2>1. launchQueue' = Tail(launchQueue)
    BY DEF SpawnThrows
  <2>. QED  BY <1>1, <2>1 DEF IsInjective, Range
<1>3. SoundPool(pool') /\ pool'.held = pool.held \cup {Last(pool.free)} /\ Last(pool.free) \in PortRange
  BY TakeKeeps DEF SpawnThrows
<1>4. /\ UNCHANGED <<servers, proc, exitEvents, killed>>
      /\ port' = [port EXCEPT ![l] = Last(pool.free)] /\ port[l] = NoPort /\ proc[l] = "none"
  BY <1>1 DEF SpawnThrows
<1>5. TypeOK' /\ PoolPartition'
  BY <1>2, <1>3, <1>4, PoolTypes DEF SpawnThrows, PoolPartition
<1>6. HeldIsTracked'
  <2>1. SpawnThrew(l)'
    BY <1>3, <1>4, NoPortAssumption DEF SpawnThrew, PortRange
  <2>. QED  BY <1>3, <1>4, <2>1, TakenIsHeld
<1>7. LiveIsTracked'
  BY <1>4 DEF LiveIsTracked, Alive
<1>8. Launching'
  BY <1>1, <1>2, <1>4 DEF SpawnThrows
<1>. QED  BY <1>3, <1>5, <1>6, <1>7, <1>8

(* A world that ends leaves the books in order whichever handler sees it   *)
(* first and however many see it.                                          *)
LEMMA StartupFailedKeeps ==
  ASSUME IInv, NEW l \in Launch, pc[l] \in {"starting", "probing"}, StartupFailed(l)
  PROVE  IInv'
<1>. USE DEF IInv, Bookkeeping, TypeOK, Launching
<1>1. /\ SoundPool(pool') /\ servers' \in Seq(Launch) /\ HeldIsTracked'
      /\ Range(servers') = Range(servers) \ {l}
  BY WorldForgotten DEF StartupFailed
<1>2. TypeOK' /\ PoolPartition'
  BY <1>1, PoolTypes DEF StartupFailed, PoolPartition
<1>3. LiveIsTracked'
  BY <1>1, ContainsIsRange DEF LiveIsTracked, StartupFailed, Alive
<1>4. Launching'
  BY DEF StartupFailed
<1>. QED  BY <1>1, <1>2, <1>3, <1>4

LEMMA ExitHandlerKeeps ==
  ASSUME IInv, NEW l \in Launch, ExitHandler(l)
  PROVE  IInv'
<1>. USE DEF IInv, Bookkeeping, TypeOK, Launching
<1>1. CASE ~Contains(servers, l)
  BY <1>1 DEF ExitHandler, CleanupServer, PoolPartition, HeldIsTracked, SpawnThrew, LiveIsTracked, Alive
<1>2. CASE Contains(servers, l)
  <2>1. /\ SoundPool(pool') /\ servers' \in Seq(Launch) /\ HeldIsTracked'
        /\ Range(servers') = Range(servers) \ {l}
    BY <1>2, WorldForgotten DEF ExitHandler, CleanupServer
  <2>2. TypeOK' /\ PoolPartition'
    BY <2>1, PoolTypes DEF ExitHandler, PoolPartition
  <2>3. LiveIsTracked'
    BY <2>1, ContainsIsRange DEF LiveIsTracked, ExitHandler, Alive
  <2>4. Launching'
    BY DEF ExitHandler
  <2>. QED  BY <2>1, <2>2, <2>3, <2>4
<1>. QED  BY <1>1, <1>2

LEMMA WatchdogKeeps ==
  ASSUME IInv, RunWatchdog
  PROVE  IInv'
<1>. USE DEF IInv, Bookkeeping, TypeOK, Launching
<1>1. /\ SoundPool(pool')
      /\ \A p \in pool'.held :
            p \in pool.held /\ \A l \in Range(servers) : ~Alive(l) => port[l] # p
  BY WatchdogReleases
<1>2. servers' \in Seq(Launch) /\ Range(servers') = {l \in Range(servers) : Alive(l)}
  <2>1. Range(servers) \subseteq Launch
    BY DEF Range
  <2>2. servers' = Only(servers, {l \in Launch : Alive(l)})
    BY DEF RunWatchdog
  <2>3. /\ servers' \in Seq(Launch)
        /\ Range(servers') = Range(servers) \cap {l \in Launch : Alive(l)}
    BY <2>2, OnlyKeeps
  <2>. QED  BY <2>1, <2>3
<1>3. TypeOK' /\ PoolPartition'
  BY <1>1, <1>2, PoolTypes DEF RunWatchdog, PoolPartition
<1>4. HeldIsTracked'
  <2>1. HeldIsTracked /\ port' = port /\ proc' = proc
    BY DEF RunWatchdog
  <2>. HIDE DEF IInv
  <2>2. ASSUME NEW p \in pool'.held
        PROVE  p \in {port'[l] : l \in Range(servers') \cup {k \in Launch : SpawnThrew(k)'}}
    <3>1. p \in pool.held /\ \A l \in Range(servers) : ~Alive(l) => port[l] # p
      BY <1>1
    <3>2. PICK l \in Range(servers) \cup {k \in Launch : SpawnThrew(k)} : port[l] = p
      BY <2>1, <3>1 DEF HeldIsTracked
    <3>. QED  BY <1>2, <2>1, <3>1, <3>2 DEF SpawnThrew
  <2>. QED  BY <2>2 DEF HeldIsTracked
<1>5. LiveIsTracked'
  BY <1>2, ContainsIsRange DEF LiveIsTracked, RunWatchdog, Alive
<1>6. Launching'
  BY DEF RunWatchdog
<1>. QED  BY <1>1, <1>3, <1>4, <1>5, <1>6

LEMMA RequestKeeps ==
  ASSUME IInv, NEW l \in Launch, Request(l)
  PROVE  IInv'
<1>. USE DEF IInv, Bookkeeping, TypeOK, Launching
<1>1. launchQueue' \in Seq(Launch) /\ Range(launchQueue') = Range(launchQueue) \cup {l}
  BY RangeAppended DEF Request
<1>2. IsInjective(launchQueue')
  <2>1. \A i \in 1 .. Len(launchQueue) : launchQueue[i] # l
    BY DEF Request, Range
  <2>. QED  BY <2>1 DEF Request, IsInjective
<1>3. TypeOK'
  BY <1>1 DEF Request
<1>4. Launching'
  BY <1>1, <1>2 DEF Request
<1>. QED  BY <1>3, <1>4 DEF Request, PoolPartition, HeldIsTracked, SpawnThrew, LiveIsTracked, Alive

LEMMA NoPortLeftKeeps ==
  ASSUME IInv, NEW l \in Launch, NoPortLeft(l)
  PROVE  IInv'
<1>. USE DEF IInv, Bookkeeping, TypeOK, Launching
<1>1. launchQueue \in Seq(Launch) /\ launchQueue # <<>> /\ Head(launchQueue) = l
  BY DEF NoPortLeft
<1>2. /\ launchQueue' \in Seq(Launch) /\ IsInjective(launchQueue')
      /\ Range(launchQueue') \subseteq Range(launchQueue) \ {l}
  <2>1. launchQueue' = Tail(launchQueue)
    BY DEF NoPortLeft
  <2>. QED  BY <1>1, <2>1 DEF IsInjective, Range
<1>3. TypeOK'
  BY <1>2 DEF NoPortLeft
<1>4. Launching'
  BY <1>2 DEF NoPortLeft
<1>. QED  BY <1>3, <1>4 DEF NoPortLeft, PoolPartition, HeldIsTracked, SpawnThrew, LiveIsTracked, Alive

(* The steps that touch neither the pool nor the array.                    *)
LEMMA OtherStepsKeep ==
  ASSUME IInv, NEW l \in Launch,
         \/ Probe(l) \/ NetstatAnswers(l) \/ StartServerReturns(l)
         \/ WorldListens(l) \/ WorldExits(l)
  PROVE  IInv'
<1>. USE DEF IInv, Bookkeeping, TypeOK, Launching, PoolPartition, HeldIsTracked, SpawnThrew, LiveIsTracked, Alive
<1>1. CASE Probe(l) \/ NetstatAnswers(l) \/ StartServerReturns(l)
  <2>1. /\ pc[l] \in {"starting", "probing", "ready"}
        /\ \E now \in {"starting", "probing", "ready", "done"} : pc' = [pc EXCEPT ![l] = now]
        /\ UNCHANGED <<launchQueue, pool, servers, port, proc, exitEvents, killed>>
    BY <1>1 DEF Probe, NetstatAnswers, StartServerReturns
  <2>2. TypeOK'
    BY <2>1
  <2>3. Launching'
    BY <2>1
  <2>. QED  BY <2>1, <2>2, <2>3
<1>2. CASE WorldListens(l)
  BY <1>2 DEF WorldListens
<1>3. CASE WorldExits(l)
  BY <1>3 DEF WorldExits
<1>. QED  BY <1>1, <1>2, <1>3

LEMMA BooksOpen == Init => IInv
<1>. SUFFICES ASSUME Init PROVE IInv
  OBVIOUS
<1>. USE DEF Init
<1>1. IslandPorts \in Nat
  BY IslandPortsAssumption
<1>2. /\ pool.free \in Seq(PortRange) /\ Len(pool.free) = IslandPorts
      /\ DOMAIN pool.free = PortRange /\ \A i \in PortRange : pool.free[i] = i
  BY <1>1 DEF PortRange
<1>3. SoundPool(pool)
  BY <1>1, <1>2, FS_EmptySet DEF SoundPool, Pool, IsInjective, Range
<1>4. TypeOK
  BY <1>2, <1>1 DEF TypeOK
<1>5. Launching
  BY DEF Launching, IsInjective, Range
<1>. QED  BY <1>3, <1>4, <1>5, PoolTypes
          DEF IInv, Bookkeeping, PoolPartition, HeldIsTracked, SpawnThrew, LiveIsTracked, Alive

(* Ports are conserved, every held port is that of a world on record or of *)
(* a launch whose spawn() threw, and every live world is on record, for    *)
(* any number of launches and ports and every order of crashes, failed     *)
(* startups, exits and watchdog passes.                                    *)
THEOREM BooksKept == Spec => []Bookkeeping
<1>1. IInv /\ [Next]_vars => IInv'
  <2>. SUFFICES ASSUME IInv, [Next]_vars PROVE IInv'
    OBVIOUS
  <2>1. CASE UNCHANGED vars
    BY <2>1 DEF vars, IInv, Bookkeeping, TypeOK, Launching, SoundPool, PoolPartition,
                HeldIsTracked, SpawnThrew, LiveIsTracked, Alive
  <2>2. CASE \E l \in Launch : ProcessGone(l) \/ DeadlinePasses(l) \/ NetstatFails(l)
    BY <2>2, StartupFailedKeeps DEF ProcessGone, DeadlinePasses, NetstatFails
  <2>3. CASE \E l \in Launch : \/ Request(l) \/ NoPortLeft(l) \/ SpawnThrows(l)
                               \/ SpawnWorld(l) \/ ExitHandler(l)
    BY <2>3, RequestKeeps, NoPortLeftKeeps, SpawnThrowsKeeps, SpawnKeeps, ExitHandlerKeeps
  <2>4. CASE \E l \in Launch : \/ Probe(l) \/ NetstatAnswers(l) \/ StartServerReturns(l)
                               \/ WorldListens(l) \/ WorldExits(l)
    BY <2>4, OtherStepsKeep
  <2>5. CASE RunWatchdog
    BY <2>5, WatchdogKeeps
  <2>. QED  BY <2>1, <2>2, <2>3, <2>4, <2>5 DEF Next
<1>2. IInv => Bookkeeping
  BY DEF IInv
<1>. QED  BY <1>1, <1>2, BooksOpen, PTL DEF Spec
=============================================================================
