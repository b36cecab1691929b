------------------------ MODULE HuntingGroundsProofs ------------------------
(***************************************************************************)
(* What holds of the hunting grounds for any players, hunts, requests and  *)
(* ports: the two maps of huntingGrounds.ts agree, public allocations of a *)
(* hunt exclude one another, and no world has more players of its own      *)
(* allocation than fit.                                                    *)
(***************************************************************************)
EXTENDS HuntingGrounds, FiniteSetTheorems, TLAPS

(* Forget keeps the two maps in agreement.                                 *)
LEMMA ForgetKeeps ==
  ASSUME NEW s \in Slots, NEW k \in Key, Consistent(s)
  PROVE  Forget(s, k) \in Slots /\ Consistent(Forget(s, k))
<1>1. NoWorld \in World /\ NoPort \notin Key
  BY PortAssumption DEF NoWorld, World, Key
<1>2. Forget(s, k) \in Slots
  BY <1>1 DEF Forget, Slots
<1>3. ASSUME NEW p \in Player, NEW j \in Key
      PROVE  Forget(s, k).at[p] = j <=> p \in Forget(s, k).worlds[j].players
  BY <1>1 DEF Forget, Slots, Consistent, NoWorld
<1>4. ASSUME NEW j \in Key, Forget(s, k).worlds[j] # NoWorld
      PROVE  Forget(s, k).worlds[j].players # {}
  BY <1>4 DEF Forget, Slots, Consistent
<1>. QED  BY <1>2, <1>3, <1>4 DEF Consistent

(* So does releasing the slots of any set of players.                      *)
LEMMA ReleaseKeeps ==
  ASSUME NEW s \in Slots, NEW S \in SUBSET Player, Consistent(s)
  PROVE  Release(s, S) \in Slots /\ Consistent(Release(s, S))
<1>1. NoWorld \in World /\ NoPort \notin Key
  BY PortAssumption DEF NoWorld, World, Key
<1>2. ASSUME NEW k \in Key
      PROVE  Vacate(s.worlds[k], s.worlds[k].players \ {p \in S : s.at[p] = k}) \in World
  BY <1>1 DEF Vacate, World, Slots
<1>3. Release(s, S) \in Slots
  BY <1>2 DEF Release, Slots
<1>4. ASSUME NEW k \in Key
      PROVE  Release(s, S).worlds[k].players = s.worlds[k].players \ S
  <2>1. s.worlds[k].players \ {p \in S : s.at[p] = k} = s.worlds[k].players \ S
    BY DEF Consistent, Slots, World
  <2>. QED  BY <2>1 DEF Release, Vacate, Slots, World, NoWorld
<1>5. ASSUME NEW p \in Player, NEW k \in Key
      PROVE  Release(s, S).at[p] = k <=> p \in Release(s, S).worlds[k].players
  <2>1. Release(s, S).at[p] = IF p \in S THEN NoPort ELSE s.at[p]
    BY DEF Release
  <2>2. s.at[p] = k <=> p \in s.worlds[k].players
    BY DEF Consistent
  <2>. QED  BY <1>1, <1>4, <2>1, <2>2
<1>6. ASSUME NEW k \in Key, Release(s, S).worlds[k] # NoWorld
      PROVE  Release(s, S).worlds[k].players # {}
  BY <1>6 DEF Release, Vacate, Slots, Consistent, World
<1>. QED  BY <1>3, <1>5, <1>6 DEF Consistent

(* And recording the world a party was sent to.                            *)
LEMMA RecordKeeps ==
  ASSUME NEW s \in Slots, NEW w \in World, NEW k \in Key,
         NEW S \in SUBSET Player, S # {}, NEW new \in BOOLEAN, Consistent(s)
  PROVE  /\ RecordHuntingGround(s, w, k, S, new) \in Slots
         /\ Consistent(RecordHuntingGround(s, w, k, S, new))
<1>. DEFINE known == IF new THEN Forget(s, k) ELSE s
            moved == {p \in S : known.at[p] # k}
            freed == Release(known, moved)
            after == Enter(freed, w, k, S)
<1>1. known \in Slots /\ Consistent(known)
  BY ForgetKeeps
<1>2. freed \in Slots /\ Consistent(freed)
  BY <1>1, ReleaseKeeps
<1>3. \A p \in S : freed.at[p] \in {k, NoPort}
  BY <1>1 DEF Release, Slots
<1>. HIDE DEF known, freed
<1>4. NoPort \notin Key
  BY PortAssumption DEF Key
<1>5. after \in Slots
  BY <1>2 DEF Enter, Slots, World
<1>6. \A j \in Key : after.worlds[j].players
                       = IF j = k THEN freed.worlds[k].players \cup S ELSE freed.worlds[j].players
  BY <1>2 DEF Enter, Slots, World, NoWorld
<1>7. ASSUME NEW p \in Player, NEW j \in Key
      PROVE  after.at[p] = j <=> p \in after.worlds[j].players
  <2>1. CASE p \in S
    BY <2>1, <1>2, <1>3, <1>4, <1>6 DEF Enter, Slots, Consistent
  <2>2. CASE p \notin S
    BY <2>2, <1>2, <1>6 DEF Enter, Slots, Consistent
  <2>. QED  BY <2>1, <2>2
<1>8. ASSUME NEW j \in Key, after.worlds[j] # NoWorld
      PROVE  after.worlds[j].players # {}
  BY <1>8, <1>2, <1>6 DEF Enter, Slots, Consistent
<1>9. after \in Slots /\ Consistent(after)
  BY <1>5, <1>7, <1>8 DEF Consistent
<1>. QED  BY <1>9 DEF known, freed, RecordHuntingGround

(* Recording an answered request, stale candidate first forgotten.         *)
LEMMA AnsweredKeeps ==
  ASSUME TypeOK, SlotConsistency, NEW r \in Request,
         pc[r] = "replied", reply[r] # Failure
  PROVE  Answered(r) \in Slots /\ Consistent(Answered(r))
<1>. DEFINE known == IF cand[r] # NoPort /\ ~reply[r].joined
                     THEN Forget(slots, cand[r]) ELSE slots
            world == [NoWorld EXCEPT !.hunt = req[r].hunt, !.public = ~req[r].private]
<1>1. slots \in Slots /\ Consistent(slots)
  BY DEF TypeOK, SlotConsistency
<1>2. known \in Slots /\ Consistent(known)
  <2>1. CASE cand[r] # NoPort /\ ~reply[r].joined
    BY <1>1, <2>1, ForgetKeeps DEF TypeOK, AnswersOK
  <2>2. CASE ~(cand[r] # NoPort /\ ~reply[r].joined)
    BY <1>1, <2>2
  <2>. QED  BY <2>1, <2>2
<1>3. world \in World
  BY DEF TypeOK, RequestsOK, World, NoWorld
<1>4. reply[r].port \in Key /\ reply[r].joined \in BOOLEAN
  BY DEF TypeOK, AnswersOK
<1>5. req[r].party \in SUBSET Player /\ req[r].party # {}
  BY PartyAssumption DEF TypeOK, RequestsOK
<1>. HIDE DEF known, world
<1>6. RecordHuntingGround(known, world, reply[r].port, req[r].party, ~reply[r].joined) \in Slots
      /\ Consistent(RecordHuntingGround(known, world, reply[r].port, req[r].party, ~reply[r].joined))
  BY <1>2, <1>3, <1>4, <1>5, RecordKeeps
<1>. QED  BY <1>6 DEF Answered, known, world

----------------------------------------------------------------------------
(* The inductive invariant: the types, with what the turns list, the order *)
(* of the turns, and the agreement of the two maps.                        *)
IInv == TypeOK /\ TurnOrder /\ SlotConsistency

LEMMA InitIInv == Init => IInv
<1>. SUFFICES ASSUME Init PROVE IInv
  OBVIOUS
<1>1. RequestsOK /\ AnswersOK
  BY DEF Init, RequestsOK, AnswersOK, Failure
<1>2. TurnsOK
  BY DEF Init, TurnsOK, Pending
<1>3. slots \in Slots
  BY DEF Init, Slots, World, NoWorld
<1>4. TypeOK
  BY <1>1, <1>2, <1>3 DEF Init, TypeOK
<1>5. TurnOrder
  BY DEF Init, TurnOrder, Allocating, Pending
<1>6. SlotConsistency
  BY PortAssumption DEF Init, SlotConsistency, Consistent, NoWorld, Key
<1>. QED  BY <1>4, <1>5, <1>6 DEF IInv

(* The turns of a hunt survive a step that leaves them alone and keeps the *)
(* same public requests unfinished, if whoever is allocating afterwards    *)
(* was allocating before or is first.                                      *)
LEMMA TurnsUntouched ==
  ASSUME TurnsOK, TurnOrder, turns' = turns,
         \A q \in Request : Pending(q)' <=> Pending(q),
         \A q \in Request : Pending(q) => req'[q].hunt = req[q].hunt,
         \A q \in Request : Allocating(q)' => Allocating(q) \/ Head(turns[req[q].hunt]) = q
  PROVE  TurnsOK' /\ TurnOrder'
<1>1. TurnsOK'
  BY DEF TurnsOK
<1>2. \A q \in Request :
        Allocating(q)' => \/ Pending(q) /\ Head(turns[req[q].hunt]) = q
                          \/ Allocating(q)
  BY DEF Allocating
<1>3. TurnOrder'
  BY <1>2 DEF TurnOrder, Allocating
<1>. QED  BY <1>1, <1>3

(* A request asked for is the last of its hunt's turns.                    *)
LEMMA AskKeeps ==
  ASSUME RequestsOK, TurnsOK, TurnOrder, NEW r \in Request, Ask(r)
  PROVE  RequestsOK' /\ TurnsOK' /\ TurnOrder'
<1>1. PICK h \in Hunt, S \in Party, private \in {FALSE, PrivateHunts} :
        /\ req' = [req EXCEPT ![r] = [hunt |-> h, private |-> private, party |-> S]]
        /\ IF private
           THEN pc' = [pc EXCEPT ![r] = "asked"] /\ UNCHANGED turns
           ELSE /\ pc' = [pc EXCEPT ![r] = "turn"]
                /\ turns' = [turns EXCEPT ![h] = Append(@, r)]
  BY DEF Ask
<1>2. private \in BOOLEAN /\ pc[r] = "idle"
  BY PrivateAssumption DEF Ask
<1>3. CASE private
  <2>1. /\ req' = [req EXCEPT ![r] = [hunt |-> h, private |-> private, party |-> S]]
        /\ pc' = [pc EXCEPT ![r] = "asked"] /\ turns' = turns
    BY <1>1, <1>3
  <2>2. RequestsOK'
    BY <1>2, <2>1 DEF RequestsOK
  <2>3. \A q \in Request : /\ Pending(q)' <=> Pending(q)
                           /\ Allocating(q)' <=> Allocating(q)
                           /\ Pending(q) => req'[q].hunt = req[q].hunt
    BY <1>2, <1>3, <2>1 DEF RequestsOK, Pending, Allocating
  <2>. QED  BY <2>1, <2>2, <2>3, TurnsUntouched
<1>4. CASE ~private
  <2>1. /\ req' = [req EXCEPT ![r] = [hunt |-> h, private |-> private, party |-> S]]
        /\ pc' = [pc EXCEPT ![r] = "turn"]
        /\ turns' = [turns EXCEPT ![h] = Append(turns[h], r)]
    BY <1>1, <1>4
  <2>2. RequestsOK'
    BY <1>2, <1>4, <2>1 DEF RequestsOK
  <2>3. \A q \in Request : /\ Pending(q)' <=> Pending(q) \/ q = r
                           /\ Allocating(q)' <=> Allocating(q)
                           /\ q # r => req'[q].hunt = req[q].hunt
    BY <1>2, <1>4, <2>1 DEF RequestsOK, Pending, Allocating
  <2>4. turns[h] \in Seq(Request) /\ turns'[h] = Append(turns[h], r)
    BY <2>1 DEF TurnsOK
  <2>5. ~Pending(r) /\ ~Allocating(r) /\ req'[r].hunt = h
    BY <1>2, <2>1 DEF RequestsOK, Pending, Allocating
  <2>6. \A q \in Request : (\E i \in DOMAIN turns'[h] : turns'[h][i] = q)
                             <=> (\E i \in DOMAIN turns[h] : turns[h][i] = q) \/ q = r
    BY <2>4
  <2>7. TurnsOK'
    <3>1. turns' \in [Hunt -> Seq(Request)]
      BY <2>1, <2>4 DEF TurnsOK
    <3>2. ASSUME NEW g \in Hunt, NEW q \in Request
          PROVE  (\E i \in DOMAIN turns'[g] : turns'[g][i] = q) <=> Pending(q)' /\ req'[q].hunt = g
      <4>1. CASE g = h
        BY <2>3, <2>5, <2>6, <4>1 DEF TurnsOK
      <4>2. CASE g # h
        <5>1. turns'[g] = turns[g]
          BY <2>1, <4>2 DEF TurnsOK
        <5>. QED  BY <2>3, <2>5, <4>2, <5>1 DEF TurnsOK
      <4>. QED  BY <4>1, <4>2
    <3>. QED  BY <3>1, <3>2 DEF TurnsOK
  <2>8. TurnOrder'
    <3>1. ASSUME NEW g \in Hunt
          PROVE  /\ \A i, j \in DOMAIN turns'[g] : turns'[g][i] = turns'[g][j] => i = j
                 /\ \A q \in Request : Allocating(q)' /\ req'[q].hunt = g => Head(turns'[g]) = q
      <4>1. CASE g = h
        <5>1. ~\E i \in DOMAIN turns[h] : turns[h][i] = r
          BY <2>5 DEF TurnsOK
        <5>2. \A i, j \in DOMAIN turns'[h] : turns'[h][i] = turns'[h][j] => i = j
          BY <2>4, <5>1 DEF TurnOrder
        <5>3. ASSUME NEW q \in Request, Allocating(q)', req'[q].hunt = h
              PROVE  Head(turns'[h]) = q
          <6>1. Allocating(q) /\ req[q].hunt = h
            BY <2>3, <2>5, <5>3
          <6>2. \E i \in DOMAIN turns[h] : turns[h][i] = q
            BY <6>1 DEF Allocating, TurnsOK
          <6>3. Head(turns[h]) = q
            BY <6>1 DEF TurnOrder
          <6>4. turns[h] # <<>>
            BY <2>4, <6>2
          <6>. QED  BY <2>4, <6>3, <6>4
        <5>. QED  BY <4>1, <5>2, <5>3
      <4>2. CASE g # h
        <5>1. turns'[g] = turns[g]
          BY <2>1, <4>2 DEF TurnsOK
        <5>. QED  BY <2>3, <2>5, <4>2, <5>1 DEF TurnOrder
      <4>. QED  BY <4>1, <4>2
    <3>. QED  BY <3>1 DEF TurnOrder
  <2>. QED  BY <2>2, <2>7, <2>8
<1>. QED  BY <1>2, <1>3, <1>4

(* A request that finishes gives its turn to the next.                     *)
LEMMA FinishKeeps ==
  ASSUME RequestsOK, TurnsOK, TurnOrder, NEW r \in Request, Finish(r)
  PROVE  RequestsOK' /\ TurnsOK' /\ TurnOrder'
<1>1. pc[r] = "replied" /\ pc' = [pc EXCEPT ![r] = "done"] /\ req' = req
  BY DEF Finish
<1>2. RequestsOK'
  BY <1>1 DEF RequestsOK
<1>3. CASE req[r].private
  <2>1. turns' = turns
    BY <1>3 DEF Finish, PassTurn
  <2>2. \A q \in Request : /\ Pending(q)' <=> Pending(q)
                           /\ Allocating(q)' <=> Allocating(q)
    BY <1>1, <1>3 DEF RequestsOK, Pending, Allocating
  <2>. QED  BY <1>1, <1>2, <2>1, <2>2, TurnsUntouched
<1>4. CASE ~req[r].private
  <2>. DEFINE h == req[r].hunt
  <2>1. h \in Hunt /\ turns' = [turns EXCEPT ![h] = Tail(turns[h])]
    BY <1>1, <1>4 DEF Finish, PassTurn, RequestsOK
  <2>2. \A q \in Request : /\ Pending(q)' <=> Pending(q) /\ q # r
                           /\ Allocating(q)' <=> Allocating(q) /\ q # r
    BY <1>1 DEF RequestsOK, Pending, Allocating
  <2>3. Pending(r) /\ Allocating(r) /\ Head(turns[h]) = r
    BY <1>1, <1>4, <2>1 DEF Pending, Allocating, TurnOrder
  <2>4. \E i \in DOMAIN turns[h] : turns[h][i] = r
    BY <2>1, <2>3 DEF TurnsOK
  <2>. HIDE DEF h
  <2>5. /\ turns[h] \in Seq(Request) /\ turns[h] # <<>>
        /\ turns'[h] = Tail(turns[h]) /\ turns'[h] \in Seq(Request)
    BY <2>1, <2>4 DEF TurnsOK
  <2>6. \A i, j \in DOMAIN turns[h] : turns[h][i] = turns[h][j] => i = j
    BY <2>1 DEF TurnOrder
  <2>7. turns[h][1] = r
    BY <2>3, <2>5
  <2>8. \A q \in Request : (\E i \in DOMAIN turns'[h] : turns'[h][i] = q)
                             <=> (\E i \in DOMAIN turns[h] : turns[h][i] = q) /\ q # r
    <3>1. DOMAIN turns[h] = 1 .. Len(turns[h]) /\ DOMAIN turns'[h] = 1 .. Len(turns[h]) - 1
      BY <2>5
    <3>2. \A i \in DOMAIN turns'[h] : i + 1 \in DOMAIN turns[h] /\ turns'[h][i] = turns[h][i + 1]
      BY <2>5, <3>1
    <3>3. \A i \in DOMAIN turns[h] : i # 1 => i - 1 \in DOMAIN turns'[h] /\ turns'[h][i - 1] = turns[h][i]
      BY <2>5, <3>1
    <3>4. 1 \in DOMAIN turns[h]
      BY <2>5, <3>1
    <3>5. \A i \in DOMAIN turns'[h] : turns'[h][i] # r
      BY <2>6, <2>7, <3>1, <3>2, <3>4
    <3>. QED  BY <2>7, <3>2, <3>3, <3>5
  <2>9. TurnsOK'
    <3>1. turns' \in [Hunt -> Seq(Request)]
      BY <2>1, <2>5 DEF TurnsOK
    <3>2. ASSUME NEW g \in Hunt, NEW q \in Request
          PROVE  (\E i \in DOMAIN turns'[g] : turns'[g][i] = q) <=> Pending(q)' /\ req'[q].hunt = g
      <4>1. CASE g = h
        BY <1>1, <2>1, <2>2, <2>8, <4>1 DEF TurnsOK
      <4>2. CASE g # h
        <5>1. turns'[g] = turns[g] /\ req[r].hunt # g
          BY <2>1, <4>2 DEF TurnsOK, h
        <5>. QED  BY <1>1, <2>2, <5>1 DEF TurnsOK
      <4>. QED  BY <4>1, <4>2
    <3>. QED  BY <3>1, <3>2 DEF TurnsOK
  <2>10. TurnOrder'
    <3>1. ASSUME NEW g \in Hunt
          PROVE  /\ \A i, j \in DOMAIN turns'[g] : turns'[g][i] = turns'[g][j] => i = j
                 /\ \A q \in Request : Allocating(q)' /\ req'[q].hunt = g => Head(turns'[g]) = q
      <4>1. CASE g = h
        <5>1. \A i, j \in DOMAIN turns'[h] : turns'[h][i] = turns'[h][j] => i = j
          BY <2>5, <2>6
        <5>2. \A q \in Request : ~(Allocating(q)' /\ req'[q].hunt = h)
          BY <1>1, <2>1, <2>2, <2>3 DEF TurnOrder
        <5>. QED  BY <4>1, <5>1, <5>2
      <4>2. CASE g # h
        <5>1. turns'[g] = turns[g]
          BY <2>1, <4>2 DEF TurnsOK
        <5>. QED  BY <1>1, <2>2, <5>1 DEF TurnOrder
      <4>. QED  BY <4>1, <4>2
    <3>. QED  BY <3>1 DEF TurnOrder
  <2>. QED  BY <1>2, <2>9, <2>10
<1>. QED  BY <1>3, <1>4

(* A step of a request that is under way, and stays so, keeps its turn.    *)
LEMMA UnderWayKeeps ==
  ASSUME RequestsOK, TurnsOK, TurnOrder, NEW r \in Request,
         NEW next \in {"asked", "starting", "replied"},
         pc[r] \in {"turn", "asked", "starting"}, pc' = [pc EXCEPT ![r] = next],
         pc[r] = "turn" => Head(turns[req[r].hunt]) = r,
         UNCHANGED <<req, turns>>
  PROVE  RequestsOK' /\ TurnsOK' /\ TurnOrder'
<1>1. RequestsOK'
  BY DEF RequestsOK
<1>2. \A q \in Request : Pending(q)' <=> Pending(q)
  BY DEF RequestsOK, Pending
<1>3. \A q \in Request : Allocating(q)' => Allocating(q) \/ Head(turns[req[q].hunt]) = q
  BY DEF RequestsOK, Pending, Allocating
<1>. QED  BY <1>1, <1>2, <1>3, TurnsUntouched

LEMMA StepIInv == IInv /\ [Next]_vars => IInv'
<1>. SUFFICES ASSUME IInv, [Next]_vars PROVE IInv'
  OBVIOUS
<1>. USE DEF IInv, TypeOK, history
<1>1. ASSUME NEW r \in Request, Ask(r) PROVE IInv'
  <2>1. RequestsOK' /\ TurnsOK' /\ TurnOrder'
    BY <1>1, AskKeeps
  <2>. QED  BY <1>1, <2>1 DEF Ask, AnswersOK, SlotConsistency
<1>2. ASSUME NEW r \in Request, TakeTurn(r) PROVE IInv'
  <2>1. RequestsOK' /\ TurnsOK' /\ TurnOrder'
    BY <1>2, UnderWayKeeps DEF TakeTurn, Allocate
  <2>2. AnswersOK'
    BY <1>2 DEF TakeTurn, Allocate, AnswersOK
  <2>. QED  BY <1>2, <2>1, <2>2 DEF TakeTurn, Allocate, SlotConsistency
<1>3. ASSUME NEW r \in Request, Finish(r) PROVE IInv'
  <2>1. RequestsOK' /\ TurnsOK' /\ TurnOrder'
    BY <1>3, FinishKeeps
  <2>2. AnswersOK' /\ live' = live
    BY <1>3 DEF Finish, AnswersOK
  <2>3. CASE reply[r] = Failure
    BY <1>3, <2>1, <2>2, <2>3 DEF Finish, SlotConsistency
  <2>4. CASE reply[r] # Failure
    <3>1. slots' \in Slots /\ Consistent(slots')
      BY <1>3, <2>4, AnsweredKeeps DEF Finish
    <3>0. sentFor' \in [Player -> Hunt \cup {NoHunt}]
      BY <1>3, <2>4 DEF Finish, SlotsFor, RequestsOK
    <3>2. loc' \in [Player -> Request \cup {NoRequest}]
      <4>1. reply[r].port # City => live[reply[r].port] \in Request \cup {NoRequest}
        BY <2>4 DEF AnswersOK, Key
      <4>. QED  BY <1>3, <2>4, <4>1 DEF Finish
    <3>. QED  BY <2>1, <2>2, <3>0, <3>1, <3>2 DEF SlotConsistency
  <2>. QED  BY <2>3, <2>4
<1>4. ASSUME NEW r \in Request, JoinRunningHunt(r) PROVE IInv'
  <2>1. RequestsOK' /\ TurnsOK' /\ TurnOrder'
    BY <1>4, UnderWayKeeps DEF JoinRunningHunt, Respond, metaVars
  <2>2. cand[r] \in Key /\ cand[r] # NoPort
    BY <1>4, PortAssumption DEF JoinRunningHunt, Joinable, Key
  <2>3. AnswersOK'
    BY <1>4, <2>2 DEF JoinRunningHunt, Respond, metaVars, AnswersOK, Failure
  <2>. QED  BY <1>4, <2>1, <2>3 DEF JoinRunningHunt, metaVars, SlotConsistency
<1>5. ASSUME NEW r \in Request, StartWorld(r) PROVE IInv'
  <2>1. RequestsOK' /\ TurnsOK' /\ TurnOrder'
    BY <1>5, UnderWayKeeps DEF StartWorld, metaVars
  <2>2. AnswersOK'
    BY <1>5 DEF StartWorld, metaVars, AnswersOK
  <2>. QED  BY <1>5, <2>1, <2>2 DEF StartWorld, metaVars, SlotConsistency
<1>6. ASSUME NEW r \in Request, WorldReady(r) PROVE IInv'
  <2>1. RequestsOK' /\ TurnsOK' /\ TurnOrder'
    BY <1>6, UnderWayKeeps DEF WorldReady, Respond, metaVars
  <2>2. PICK k \in IslandPort : Respond(r, k, FALSE)
    BY <1>6 DEF WorldReady
  <2>3. AnswersOK'
    BY <1>6, <2>2, PortAssumption DEF WorldReady, Respond, metaVars, AnswersOK, Failure, Key
  <2>. QED  BY <1>6, <2>1, <2>3 DEF WorldReady, metaVars, SlotConsistency
<1>7. ASSUME NEW r \in Request, NoNewWorld(r) PROVE IInv'
  <2>1. PICK port \in {City, NoPort} : Respond(r, port, FALSE)
    BY <1>7 DEF NoNewWorld
  <2>2. RequestsOK' /\ TurnsOK' /\ TurnOrder'
    BY <1>7, <2>1, UnderWayKeeps DEF NoNewWorld, Respond, metaVars
  <2>3. AnswersOK'
    BY <1>7, <2>1 DEF NoNewWorld, Respond, metaVars, AnswersOK, Failure, Key
  <2>. QED  BY <1>7, <2>2, <2>3 DEF NoNewWorld, metaVars, SlotConsistency
<1>8. ASSUME NEW p \in Player, Leave(p) PROVE IInv'
  <2>1. slots' \in Slots /\ Consistent(slots')
    BY <1>8, ReleaseKeeps DEF Leave, SlotConsistency
  <2>2. RequestsOK' /\ AnswersOK'
    BY <1>8 DEF Leave, RequestsOK, AnswersOK
  <2>3. TurnsOK' /\ TurnOrder'
    BY <1>8, TurnsUntouched DEF Leave, Pending, Allocating
  <2>. QED  BY <1>8, <2>1, <2>2, <2>3 DEF Leave, SlotsFor, SlotConsistency
<1>9. ASSUME NEW k \in IslandPort, WorldEnds(k) PROVE IInv'
  <2>1. RequestsOK' /\ AnswersOK'
    BY <1>9 DEF WorldEnds, metaVars, RequestsOK, AnswersOK
  <2>2. TurnsOK' /\ TurnOrder'
    BY <1>9, TurnsUntouched DEF WorldEnds, metaVars, Pending, Allocating
  <2>. QED  BY <1>9, <2>1, <2>2 DEF WorldEnds, metaVars, SlotConsistency
<1>10. CASE UNCHANGED vars
  <2>1. RequestsOK' /\ AnswersOK'
    BY <1>10 DEF vars, metaVars, RequestsOK, AnswersOK
  <2>2. TurnsOK' /\ TurnOrder'
    BY <1>10, TurnsUntouched DEF vars, metaVars, Pending, Allocating
  <2>. QED  BY <1>10, <2>1, <2>2 DEF vars, metaVars, SlotConsistency
<1>. QED  BY <1>1, <1>2, <1>3, <1>4, <1>5, <1>6, <1>7, <1>8, <1>9, <1>10 DEF Next

THEOREM Inductive == Spec => []IInv
<1>1. Init => IInv
  BY InitIInv
<1>2. IInv /\ [Next]_vars => IInv'
  BY StepIInv
<1>. QED  BY <1>1, <1>2, PTL DEF Spec

----------------------------------------------------------------------------
(* Every variable keeps its type, and the turns of a hunt list exactly its *)
(* unfinished public requests.                                             *)
THEOREM TypeCorrect == Spec => []TypeOK
<1>1. IInv => TypeOK
  BY DEF IInv
<1>. QED  BY <1>1, Inductive, PTL

(* Worlds and PlayerWorld agree after any sequence of records, releases    *)
(* and forgets, however requests, answers and departures interleave.       *)
THEOREM SlotsConsistent == Spec => []SlotConsistency
<1>1. IInv => SlotConsistency
  BY DEF IInv
<1>. QED  BY <1>1, Inductive, PTL

(* Turns are passed on in the order they were asked for.                   *)
THEOREM TurnsInOrder == Spec => []TurnOrder
<1>1. IInv => TurnOrder
  BY DEF IInv
<1>. QED  BY <1>1, Inductive, PTL

(* The record of who is where and the turns of those who write it.         *)
THEOREM GroundsStaySound == Spec => []GroundsSound
<1>1. IInv => GroundsSound
  BY DEF IInv, GroundsSound
<1>. QED  BY <1>1, Inductive, PTL

LEMMA AloneInTurn == IInv => TurnExclusive
<1>. SUFFICES ASSUME IInv, NEW q \in Request, NEW r \in Request,
                     Allocating(q), Allocating(r), req[q].hunt = req[r].hunt
              PROVE  q = r
  BY DEF TurnExclusive
<1>1. req[q].hunt \in Hunt
  BY DEF IInv, TypeOK, RequestsOK, Allocating, Pending
<1>. QED  BY <1>1 DEF IInv, TurnOrder

(* Two public requests for one hunt never allocate at the same time.       *)
THEOREM AllocationsExclude == Spec => []TurnExclusive
<1>. QED  BY AloneInTurn, Inductive, PTL

----------------------------------------------------------------------------
(* How many players a world is promised to.  A request that has found room *)
(* in a recorded world still has it when the answer is recorded, unless    *)
(* the record is of another hunt by then: nobody else allocates for that   *)
(* hunt, and whoever comes late to a port that has changed hands is of     *)
(* another hunt than the world there.                                      *)

CandLater == \A r \in Request : pc[r] \in {"idle", "turn"} => cand[r] = NoPort

PrivateAlone == \A r \in Request : req[r].private => cand[r] = NoPort

JoinedThere ==
  \A r \in Request : pc[r] = "replied" /\ reply[r].joined =>
    reply[r].port = cand[r] /\ cand[r] \in IslandPort

(* Port k, if it is still recorded for a public world of r's hunt, has     *)
(* room for r's party.                                                     *)
Fits(r, k) ==
  slots.worlds[k].public /\ slots.worlds[k].hunt = req[r].hunt =>
    Cardinality(OwnPlayers(k) \ req[r].party) + Cardinality(req[r].party)
      <= HUNTING_GROUND_MAX_PLAYERS

RoomFound == \A r \in Request : Allocating(r) /\ cand[r] # NoPort => Fits(r, cand[r])

RoomInv == CandLater /\ PrivateAlone /\ JoinedThere /\ RoomFound /\ Capacity

(* A world that has lost players has room for whom it had room before, and *)
(* has no more players with a party than it was found to have.             *)
LEMMA RoomKept ==
  ASSUME NEW B \in SUBSET Player, NEW A \in SUBSET B, NEW S \in SUBSET Player
  PROVE  /\ Cardinality(A) <= Cardinality(B)
         /\ Cardinality(A \ S) + Cardinality(S) <= Cardinality(B \ S) + Cardinality(S)
         /\ Cardinality(B \cup S) <= Cardinality(B \ S) + Cardinality(S)
         /\ Cardinality(A) \in Nat /\ Cardinality(B) \in Nat /\ Cardinality(S) \in Nat
         /\ Cardinality(A \ S) \in Nat /\ Cardinality(B \ S) \in Nat
<1>1. IsFiniteSet(B) /\ IsFiniteSet(A) /\ IsFiniteSet(S) /\ IsFiniteSet(B \ S) /\ IsFiniteSet(A \ S)
  BY SizeAssumption, FS_Subset
<1>2. Cardinality(A) \in Nat /\ Cardinality(B) \in Nat /\ Cardinality(S) \in Nat
      /\ Cardinality(A \ S) \in Nat /\ Cardinality(B \ S) \in Nat
  BY <1>1, FS_CardinalityType
<1>3. Cardinality(A) <= Cardinality(B) /\ Cardinality(A \ S) <= Cardinality(B \ S)
  <2>1. A \ S \subseteq B \ S
    OBVIOUS
  <2>. QED  BY <1>1, <2>1, FS_Subset
<1>4. Cardinality(B \cup S) <= Cardinality(B \ S) + Cardinality(S)
  <2>. DEFINE D == B \ S
  <2>1. B \cup S = D \cup S /\ IsFiniteSet(D) /\ IsFiniteSet(D \cap S)
    BY <1>1, FS_Subset
  <2>2. Cardinality(D \cup S) = Cardinality(D) + Cardinality(S) - Cardinality(D \cap S)
    BY <1>1, FS_Union
  <2>3. Cardinality(D \cap S) \in Nat
    BY <2>1, FS_CardinalityType
  <2>4. Cardinality(D) \in Nat
    BY <1>2
  <2>. HIDE DEF D
  <2>5. Cardinality(B \cup S) = Cardinality(D \cup S)
    BY <2>1, Zenon
  <2>6. Cardinality(B \cup S) <= Cardinality(D) + Cardinality(S)
    BY <1>2, <2>2, <2>3, <2>4, <2>5
  <2>. QED  BY <2>6 DEF D
<1>. QED  BY <1>2, <1>3, <1>4

(* Of the same hunt, and as public.                                        *)
Alike(u, v) == u.hunt = v.hunt /\ u.public = v.public

LEMMA NoWorldIs == NoWorld.players = {} /\ ~NoWorld.public
BY DEF NoWorld

LEMMA Vacated ==
  ASSUME NEW w \in World, NEW left \in SUBSET w.players
  PROVE  /\ Vacate(w, left).players \subseteq w.players
         /\ Vacate(w, left).public => Alike(Vacate(w, left), w)
<1>1. CASE left = w.players
  BY <1>1 DEF Vacate, Alike
<1>2. CASE left # w.players /\ left = {}
  <2>1. Vacate(w, left) = NoWorld
    BY <1>2 DEF Vacate
  <2>. QED  BY <2>1, NoWorldIs
<1>3. CASE left # w.players /\ left # {}
  <2>1. Vacate(w, left) = [w EXCEPT !.players = left]
    BY <1>3 DEF Vacate
  <2>. QED  BY <2>1 DEF World, Alike
<1>. QED  BY <1>1, <1>2, <1>3

(* From maps s to t a party S is put on world k alone, recorded as w if it *)
(* is new there, and whoever was on k before a new world took it over is   *)
(* nowhere.                                                                *)
Moved(s, t, w, k, S, new) ==
  /\ \A j \in Key : j # k =>
       /\ t.worlds[j].players \subseteq s.worlds[j].players
       /\ t.worlds[j].public => Alike(t.worlds[j], s.worlds[j])
  /\ t.worlds[k].players \subseteq (IF new THEN S ELSE s.worlds[k].players \cup S)
  /\ Alike(t.worlds[k], IF new \/ s.worlds[k] = NoWorld THEN w ELSE s.worlds[k])
  /\ \A p \in Player :
       t.at[p] = IF p \in S THEN k ELSE IF new /\ s.at[p] = k THEN NoPort ELSE s.at[p]

LEMMA Recorded ==
  ASSUME NEW s \in Slots, NEW w \in World, NEW k \in Key, NEW S \in SUBSET Player,
         NEW new \in BOOLEAN, Consistent(s)
  PROVE  Moved(s, RecordHuntingGround(s, w, k, S, new), w, k, S, new)
<1>. DEFINE known == IF new THEN Forget(s, k) ELSE s
            moved == {p \in S : known.at[p] # k}
            freed == Release(known, moved)
            after == Enter(freed, w, k, S)
<1>1. known \in Slots /\ Consistent(known)
  BY ForgetKeeps
<1>2. freed \in Slots /\ Consistent(freed)
  BY <1>1, ReleaseKeeps
<1>3. /\ \A j \in Key : known.worlds[j] = IF new /\ j = k THEN NoWorld ELSE s.worlds[j]
      /\ \A p \in Player : known.at[p] = IF new /\ s.at[p] = k THEN NoPort ELSE s.at[p]
  BY DEF Forget, Slots, NoWorld, Consistent
<1>. HIDE DEF known
<1>4. ASSUME NEW j \in Key
      PROVE  /\ freed.worlds[j].players \subseteq known.worlds[j].players
             /\ freed.worlds[j].public => Alike(freed.worlds[j], known.worlds[j])
             /\ j = k => freed.worlds[j] = known.worlds[j]
  <2>. DEFINE stay == known.worlds[j].players \ {p \in moved : known.at[p] = j}
  <2>1. freed.worlds[j] = Vacate(known.worlds[j], stay)
    BY DEF Release
  <2>2. j = k => stay = known.worlds[j].players
    OBVIOUS
  <2>3. known.worlds[j] \in World /\ stay \in SUBSET known.worlds[j].players
    BY <1>1 DEF Slots
  <2>. HIDE DEF stay
  <2>4. j = k => freed.worlds[j] = known.worlds[j]
    BY <2>1, <2>2 DEF Vacate
  <2>. QED  BY <2>1, <2>3, <2>4, Vacated
<1>5. \A p \in Player : p \notin S => freed.at[p] = known.at[p]
  BY <1>1 DEF Release, Slots
<1>. HIDE DEF freed
<1>6. /\ \A j \in Key : j # k => after.worlds[j] = freed.worlds[j]
      /\ after.worlds[k] = [(IF freed.worlds[k] = NoWorld THEN w ELSE freed.worlds[k])
                              EXCEPT !.players = freed.worlds[k].players \cup S]
  BY <1>2 DEF Enter, Slots
<1>7. /\ after.worlds[k].players = freed.worlds[k].players \cup S
      /\ Alike(after.worlds[k], IF freed.worlds[k] = NoWorld THEN w ELSE freed.worlds[k])
  BY <1>2, <1>6 DEF Slots, World, Alike
<1>8. \A p \in Player : after.at[p] = IF p \in S THEN k ELSE freed.at[p]
  BY DEF Enter
<1>9. RecordHuntingGround(s, w, k, S, new) = after
  BY DEF RecordHuntingGround, known, freed
<1>. HIDE DEF after
<1>10. freed.worlds[k] = IF new THEN NoWorld ELSE s.worlds[k]
  BY <1>3, <1>4
<1>11. ASSUME NEW j \in Key, j # k
       PROVE  /\ after.worlds[j].players \subseteq s.worlds[j].players
              /\ after.worlds[j].public => Alike(after.worlds[j], s.worlds[j])
  BY <1>3, <1>4, <1>6, <1>11
<1>12. after.worlds[k].players \subseteq (IF new THEN S ELSE s.worlds[k].players \cup S)
  BY <1>7, <1>10 DEF NoWorld
<1>13. Alike(after.worlds[k], IF new \/ s.worlds[k] = NoWorld THEN w ELSE s.worlds[k])
  BY <1>7, <1>10
<1>14. ASSUME NEW p \in Player
       PROVE  after.at[p] = IF p \in S THEN k ELSE IF new /\ s.at[p] = k THEN NoPort ELSE s.at[p]
  BY <1>3, <1>5, <1>8
<1>. QED  BY <1>9, <1>11, <1>12, <1>13, <1>14 DEF Moved

(* What an answered request asked for, as a record without players.        *)
Asked(r) == [NoWorld EXCEPT !.hunt = req[r].hunt, !.public = ~req[r].private]

LEMMA AnsweredRecords ==
  ASSUME TypeOK, SlotConsistency, NEW r \in Request, pc[r] = "replied", reply[r] # Failure
  PROVE  /\ \A j \in Key : j # reply[r].port =>
              /\ Answered(r).worlds[j].players \subseteq slots.worlds[j].players
              /\ Answered(r).worlds[j].public => Alike(Answered(r).worlds[j], slots.worlds[j])
         /\ Answered(r).worlds[reply[r].port].players
              \subseteq (IF reply[r].joined THEN slots.worlds[reply[r].port].players \cup req[r].party
                         ELSE req[r].party)
         /\ Alike(Answered(r).worlds[reply[r].port],
                  IF ~reply[r].joined \/ slots.worlds[reply[r].port] = NoWorld THEN Asked(r)
                  ELSE slots.worlds[reply[r].port])
         /\ \A p \in Player : Answered(r).at[p]
              = IF p \in req[r].party THEN reply[r].port
                ELSE IF ~reply[r].joined /\ slots.at[p] \in {reply[r].port, cand[r]} THEN NoPort
                ELSE slots.at[p]
<1>. DEFINE stale == cand[r] # NoPort /\ ~reply[r].joined
            known == IF stale THEN Forget(slots, cand[r]) ELSE slots
            world == Asked(r)
            new == ~reply[r].joined
            after == RecordHuntingGround(known, world, reply[r].port, req[r].party, new)
<1>1. slots \in Slots /\ Consistent(slots) /\ cand[r] \in Key \cup {NoPort}
  BY DEF TypeOK, SlotConsistency, AnswersOK
<1>2. /\ known \in Slots /\ Consistent(known)
      /\ \A j \in Key : known.worlds[j] \in {slots.worlds[j], NoWorld}
      /\ ~new => known = slots
      /\ \A p \in Player :
           known.at[p] = IF ~reply[r].joined /\ slots.at[p] = cand[r] THEN NoPort ELSE slots.at[p]
  <2>1. CASE stale
    <3>1. cand[r] \in Key
      BY <1>1, <2>1
    <3>2. known = Forget(slots, cand[r]) /\ new
      BY <2>1
    <3>3. \A j \in Key : Forget(slots, cand[r]).worlds[j] \in {slots.worlds[j], NoWorld}
      BY <1>1, <3>1 DEF Forget, Slots
    <3>4. \A p \in Player : Forget(slots, cand[r]).at[p]
            = IF slots.at[p] = cand[r] THEN NoPort ELSE slots.at[p]
      BY <1>1, <3>1 DEF Forget, Slots, Consistent
    <3>. QED  BY <1>1, <2>1, <3>1, <3>2, <3>3, <3>4, ForgetKeeps
  <2>2. CASE ~stale
    BY <1>1, <2>2
  <2>. QED  BY <2>1, <2>2
<1>3. world \in World
  BY DEF TypeOK, RequestsOK, World, NoWorld, Asked
<1>4. reply[r].port \in Key /\ new \in BOOLEAN
  BY DEF TypeOK, AnswersOK
<1>5. req[r].party \in SUBSET Player
  BY PartyAssumption DEF TypeOK, RequestsOK
<1>6. Answered(r) = after
  BY DEF Answered, Asked
<1>. HIDE DEF known, world, stale
<1>7. Moved(known, after, world, reply[r].port, req[r].party, new)
  BY <1>2, <1>3, <1>4, <1>5, Recorded
<1>. HIDE DEF after
<1>8. ASSUME NEW j \in Key, j # reply[r].port
      PROVE  /\ after.worlds[j].players \subseteq slots.worlds[j].players
             /\ after.worlds[j].public => Alike(after.worlds[j], slots.worlds[j])
  <2>1. /\ after.worlds[j].players \subseteq known.worlds[j].players
        /\ after.worlds[j].public => Alike(after.worlds[j], known.worlds[j])
    BY <1>7, <1>8 DEF Moved
  <2>2. CASE known.worlds[j] = slots.worlds[j]
    BY <2>1, <2>2
  <2>3. CASE known.worlds[j] = NoWorld
    BY <2>1, <2>3, NoWorldIs DEF Alike
  <2>. QED  BY <1>2, <2>2, <2>3
<1>9. /\ after.worlds[reply[r].port].players
           \subseteq (IF reply[r].joined THEN slots.worlds[reply[r].port].players \cup req[r].party
                      ELSE req[r].party)
      /\ Alike(after.worlds[reply[r].port],
               IF ~reply[r].joined \/ slots.worlds[reply[r].port] = NoWorld THEN world
               ELSE slots.worlds[reply[r].port])
  <2>1. CASE new
    BY <1>7, <2>1 DEF Moved
  <2>2. CASE ~new
    BY <1>2, <1>7, <2>2 DEF Moved
  <2>. QED  BY <2>1, <2>2
<1>10. ASSUME NEW p \in Player
      PROVE  after.at[p] = IF p \in req[r].party THEN reply[r].port
                ELSE IF ~reply[r].joined /\ slots.at[p] \in {reply[r].port, cand[r]} THEN NoPort
                ELSE slots.at[p]
  <2>1. known.at[p] = IF ~reply[r].joined /\ slots.at[p] = cand[r] THEN NoPort ELSE slots.at[p]
    BY <1>2
  <2>. QED  BY <1>7, <2>1 DEF Moved
<1>. QED  BY <1>6, <1>8, <1>9, <1>10 DEF world

LEMMA RoomInit == Init => RoomInv
<1>. SUFFICES ASSUME Init PROVE RoomInv
  OBVIOUS
<1>1. Capacity
  BY DEF Init, Capacity, NoWorld
<1>. QED
  BY <1>1 DEF Init, RoomInv, CandLater, PrivateAlone, JoinedThere, RoomFound, Allocating, Pending

(* Steps that leave the record alone and start no allocation.              *)
LEMMA RoomUntouched ==
  ASSUME RoomInv, UNCHANGED <<cand, slots, sentFor>>,
         CandLater', PrivateAlone', JoinedThere',
         \A q \in Request : Allocating(q)' =>
           Allocating(q) /\ req'[q].hunt = req[q].hunt /\ req'[q].party = req[q].party
  PROVE  RoomInv'
<1>1. \A k \in Key : OwnPlayers(k)' = OwnPlayers(k)
  BY DEF OwnPlayers
<1>3. RoomFound'
  <2>. SUFFICES ASSUME NEW q \in Request, Allocating(q)', cand[q] # NoPort
                PROVE  Fits(q, cand[q])'
    BY DEF RoomFound
  <2>1. Fits(q, cand[q]) /\ req'[q].hunt = req[q].hunt /\ req'[q].party = req[q].party
    BY DEF RoomInv, RoomFound
  <2>. QED  BY <2>1 DEF Fits, OwnPlayers
<1>4. Capacity'
  BY <1>1 DEF RoomInv, Capacity
<1>. QED  BY <1>3, <1>4 DEF RoomInv

LEMMA AskKeepsRoom ==
  ASSUME TypeOK, RoomInv, NEW r \in Request, Ask(r)
  PROVE  RoomInv'
<1>1. PICK h \in Hunt, S \in Party, private \in {FALSE, PrivateHunts} :
        /\ req' = [req EXCEPT ![r] = [hunt |-> h, private |-> private, party |-> S]]
        /\ IF private
           THEN pc' = [pc EXCEPT ![r] = "asked"] /\ UNCHANGED turns
           ELSE /\ pc' = [pc EXCEPT ![r] = "turn"]
                /\ turns' = [turns EXCEPT ![h] = Append(@, r)]
  BY DEF Ask
<1>2. pc[r] = "idle" /\ UNCHANGED <<cand, reply, slots, sentFor>>
  BY DEF Ask, history
<1>3. /\ pc'[r] = IF private THEN "asked" ELSE "turn"
      /\ req'[r].private = private
      /\ \A q \in Request : q # r => pc'[q] = pc[q] /\ req'[q] = req[q]
  BY <1>1 DEF TypeOK, RequestsOK
<1>4. cand[r] = NoPort
  BY <1>2 DEF RoomInv, CandLater
<1>5. CandLater' /\ PrivateAlone'
  BY <1>2, <1>3, <1>4 DEF RoomInv, CandLater, PrivateAlone
<1>6. JoinedThere'
  BY <1>2, <1>3 DEF RoomInv, JoinedThere
<1>7. \A q \in Request : Allocating(q)' => Allocating(q) /\ req'[q] = req[q]
  BY <1>2, <1>3 DEF Allocating, Pending
<1>. QED  BY <1>2, <1>5, <1>6, <1>7, RoomUntouched

(* A request that takes its turn has found room for its party or nothing.  *)
LEMMA TakeTurnKeepsRoom ==
  ASSUME TypeOK, RoomInv, NEW r \in Request, TakeTurn(r)
  PROVE  RoomInv'
<1>1. /\ pc[r] = "turn" /\ pc' = [pc EXCEPT ![r] = "asked"]
      /\ UNCHANGED <<req, reply, slots, sentFor>>
  BY DEF TakeTurn, Allocate, history
<1>2. \/ UNCHANGED cand
      \/ \E k \in Key : FindPublicHuntingGround(slots, req[r].hunt, req[r].party, k)
                        /\ cand' = [cand EXCEPT ![r] = k]
  BY DEF TakeTurn, Allocate
<1>3. /\ pc'[r] = "asked" /\ \A q \in Request : q # r => pc'[q] = pc[q] /\ cand'[q] = cand[q]
      /\ cand' \in [Request -> Key \cup {NoPort}]
  BY <1>1, <1>2 DEF TypeOK, RequestsOK, AnswersOK
<1>4. ~req[r].private /\ cand[r] = NoPort
  BY <1>1 DEF TypeOK, RequestsOK, RoomInv, CandLater
<1>5. cand'[r] # NoPort => Fits(r, cand'[r])
  <2>. SUFFICES ASSUME cand'[r] # NoPort PROVE Fits(r, cand'[r])
    OBVIOUS
  <2>1. PICK k \in Key : /\ FindPublicHuntingGround(slots, req[r].hunt, req[r].party, k)
                         /\ cand' = [cand EXCEPT ![r] = k]
    BY <1>2, <1>4
  <2>2. cand'[r] = k
    BY <2>1 DEF TypeOK, AnswersOK
  <2>. DEFINE A == OwnPlayers(k)  B == slots.worlds[k].players  S == req[r].party
  <2>3. /\ B \in SUBSET Player /\ A \in SUBSET B /\ S \in SUBSET Player
        /\ Cardinality(B \ S) + Cardinality(S) <= HUNTING_GROUND_MAX_PLAYERS
    BY <2>1, PartyAssumption
    DEF OwnPlayers, TypeOK, Slots, World, RequestsOK, FindPublicHuntingGround
  <2>. HIDE DEF A, B, S
  <2>4. /\ Cardinality(A \ S) + Cardinality(S) <= Cardinality(B \ S) + Cardinality(S)
        /\ Cardinality(A \ S) \in Nat /\ Cardinality(B \ S) \in Nat /\ Cardinality(S) \in Nat
    BY <2>3, RoomKept
  <2>5. Cardinality(A \ S) + Cardinality(S) <= HUNTING_GROUND_MAX_PLAYERS
    BY <2>3, <2>4, SizeAssumption
  <2>. QED  BY <2>2, <2>5 DEF Fits, A, S
<1>6. CandLater' /\ PrivateAlone' /\ JoinedThere'
  BY <1>1, <1>3, <1>4 DEF RoomInv, CandLater, PrivateAlone, JoinedThere
<1>7. RoomFound'
  <2>. SUFFICES ASSUME NEW q \in Request, Allocating(q)', cand'[q] # NoPort
                PROVE  Fits(q, cand'[q])
    BY <1>1 DEF RoomFound, Fits, OwnPlayers
  <2>1. CASE q = r
    BY <1>5, <2>1
  <2>2. CASE q # r
    BY <1>1, <1>3, <2>2 DEF RoomInv, RoomFound, Allocating, Pending
  <2>. QED  BY <2>1, <2>2
<1>8. Capacity'
  BY <1>1 DEF RoomInv, Capacity, OwnPlayers
<1>. QED  BY <1>6, <1>7, <1>8 DEF RoomInv

(* The deploy server's steps: nothing is recorded, and only a candidate on *)
(* an island port is ever joined.                                          *)
LEMMA DeployKeepsRoom ==
  ASSUME TypeOK, RoomInv, NEW r \in Request,
         JoinRunningHunt(r) \/ StartWorld(r) \/ WorldReady(r) \/ NoNewWorld(r)
  PROVE  RoomInv'
<1>1. /\ pc[r] \in {"asked", "starting"}
      /\ UNCHANGED <<req, cand, slots, sentFor>>
  BY DEF JoinRunningHunt, StartWorld, WorldReady, NoNewWorld, metaVars, history
<1>2. PICK s \in {"starting", "replied"} : pc' = [pc EXCEPT ![r] = s]
  BY DEF JoinRunningHunt, StartWorld, WorldReady, NoNewWorld, Respond
<1>3. pc'[r] = s /\ \A q \in Request : q # r => pc'[q] = pc[q]
  BY <1>2 DEF TypeOK, RequestsOK
<1>4. /\ \A q \in Request : q # r => reply'[q] = reply[q]
      /\ pc'[r] = "replied" /\ reply'[r].joined =>
           reply'[r].port = cand[r] /\ cand[r] \in IslandPort
  <2>1. CASE JoinRunningHunt(r)
    BY <2>1 DEF JoinRunningHunt, Respond, Joinable, TypeOK, AnswersOK
  <2>2. CASE StartWorld(r)
    BY <2>2 DEF StartWorld, TypeOK, RequestsOK
  <2>3. CASE WorldReady(r) \/ NoNewWorld(r)
    <3>1. PICK k : Respond(r, k, FALSE)
      BY <2>3 DEF WorldReady, NoNewWorld
    <3>. QED  BY <3>1 DEF Respond, TypeOK, AnswersOK
  <2>. QED  BY <2>1, <2>2, <2>3
<1>5. CandLater' /\ PrivateAlone' /\ JoinedThere'
  BY <1>1, <1>3, <1>4 DEF RoomInv, CandLater, PrivateAlone, JoinedThere
<1>6. \A q \in Request : Allocating(q)' => Allocating(q)
  BY <1>1, <1>3 DEF Allocating, Pending
<1>. QED  BY <1>1, <1>5, <1>6, RoomUntouched

(* Where none of a hunt's own players arrive there is as much room.        *)
LEMMA StillFits ==
  ASSUME TypeOK, UNCHANGED req, NEW q \in Request, NEW k \in Key, Fits(q, k),
         slots'.worlds[k].public /\ slots'.worlds[k].hunt = req[q].hunt =>
           /\ slots.worlds[k].public /\ slots.worlds[k].hunt = req[q].hunt
           /\ OwnPlayers(k)' \subseteq OwnPlayers(k)
  PROVE  Fits(q, k)'
<1>. SUFFICES ASSUME slots'.worlds[k].public, slots'.worlds[k].hunt = req[q].hunt
              PROVE  Cardinality(OwnPlayers(k)' \ req[q].party) + Cardinality(req[q].party)
                       <= HUNTING_GROUND_MAX_PLAYERS
  BY DEF Fits
<1>. DEFINE A == OwnPlayers(k)'  B == OwnPlayers(k)  S == req[q].party
<1>1. B \in SUBSET Player /\ A \in SUBSET B /\ S \in SUBSET Player
  BY PartyAssumption DEF TypeOK, Slots, World, RequestsOK, OwnPlayers
<1>2. Cardinality(B \ S) + Cardinality(S) <= HUNTING_GROUND_MAX_PLAYERS
  BY DEF Fits
<1>. HIDE DEF A, B, S
<1>3. /\ Cardinality(A \ S) + Cardinality(S) <= Cardinality(B \ S) + Cardinality(S)
      /\ Cardinality(A \ S) \in Nat /\ Cardinality(B \ S) \in Nat /\ Cardinality(S) \in Nat
  BY <1>1, RoomKept
<1>4. Cardinality(A \ S) + Cardinality(S) <= HUNTING_GROUND_MAX_PLAYERS
  BY <1>2, <1>3, SizeAssumption
<1>. QED  BY <1>4 DEF A, S

(* A set of a world's own players that grows by at most a party that fits  *)
(* stays within the bound.                                                 *)
LEMMA StaysWithin ==
  ASSUME NEW B \in SUBSET Player, NEW S \in SUBSET Player, NEW A \in SUBSET Player,
         Cardinality(B) <= HUNTING_GROUND_MAX_PLAYERS,
         Cardinality(S) <= HUNTING_GROUND_MAX_PLAYERS,
         \/ A \subseteq B
         \/ A \subseteq S
         \/ /\ A \subseteq B \cup S
            /\ Cardinality(B \ S) + Cardinality(S) <= HUNTING_GROUND_MAX_PLAYERS
  PROVE  Cardinality(A) <= HUNTING_GROUND_MAX_PLAYERS
<1>1. CASE A \subseteq B
  <2>1. Cardinality(A) <= Cardinality(B) /\ Cardinality(A) \in Nat /\ Cardinality(B) \in Nat
    BY <1>1, RoomKept
  <2>. QED  BY <2>1, SizeAssumption
<1>2. CASE A \subseteq S
  <2>1. Cardinality(A) <= Cardinality(S) /\ Cardinality(A) \in Nat /\ Cardinality(S) \in Nat
    BY <1>2, RoomKept
  <2>. QED  BY <2>1, SizeAssumption
<1>3. CASE /\ A \subseteq B \cup S
           /\ Cardinality(B \ S) + Cardinality(S) <= HUNTING_GROUND_MAX_PLAYERS
  <2>1. Cardinality(A) <= Cardinality(B \cup S)
        /\ Cardinality(A) \in Nat /\ Cardinality(B \cup S) \in Nat
    BY <1>3, RoomKept
  <2>2. Cardinality(B \cup S) <= Cardinality(B \ S) + Cardinality(S)
        /\ Cardinality(B \ S) \in Nat /\ Cardinality(S) \in Nat
    BY RoomKept
  <2>. QED  BY <1>3, <2>1, <2>2, SizeAssumption
<1>. QED  BY <1>1, <1>2, <1>3

(* The record of an answer fills a world up to what it had room for.  On   *)
(* every other world, and on a world of another hunt, nobody of its own    *)
(* hunt arrives.                                                           *)
LEMMA FinishKeepsRoom ==
  ASSUME IInv, IInv', RoomInv, NEW r \in Request, Finish(r)
  PROVE  RoomInv'
<1>1. /\ pc[r] = "replied" /\ pc' = [pc EXCEPT ![r] = "done"]
      /\ UNCHANGED <<req, cand, reply, live>>
  BY DEF Finish
<1>2. pc'[r] = "done" /\ \A q \in Request : q # r => pc'[q] = pc[q]
  BY <1>1 DEF IInv, TypeOK, RequestsOK
<1>3. \A q \in Request : Allocating(q)' => Allocating(q) /\ q # r
  BY <1>1, <1>2 DEF Allocating, Pending
<1>4. CandLater' /\ PrivateAlone' /\ JoinedThere'
  BY <1>1, <1>2 DEF RoomInv, CandLater, PrivateAlone, JoinedThere
<1>5. CASE reply[r] = Failure
  <2>1. UNCHANGED <<slots, sentFor>>
    BY <1>5 DEF Finish, history
  <2>. QED  BY <1>1, <1>3, <1>4, <2>1, RoomUntouched
<1>6. CASE reply[r] # Failure
  <2>. DEFINE port == reply[r].port
              S == req[r].party
              fresh == ~reply[r].joined \/ slots.worlds[port] = NoWorld
  <2>1. slots' = Answered(r)
    BY <1>6 DEF Finish
  <2>2. /\ \A j \in Key : j # port =>
             /\ slots'.worlds[j].players \subseteq slots.worlds[j].players
             /\ slots'.worlds[j].public => Alike(slots'.worlds[j], slots.worlds[j])
        /\ slots'.worlds[port].players
             \subseteq (IF reply[r].joined THEN slots.worlds[port].players \cup S ELSE S)
        /\ Alike(slots'.worlds[port], IF fresh THEN Asked(r) ELSE slots.worlds[port])
        /\ \A p \in S : slots'.at[p] = port
    BY <1>1, <1>6, <2>1, AnsweredRecords, PartyAssumption DEF IInv, TypeOK, RequestsOK
  <2>3. /\ port \in Key /\ S \in SUBSET Player /\ Cardinality(S) <= HUNTING_GROUND_MAX_PLAYERS
        /\ req[r].hunt \in Hunt
    BY <1>1, <1>6, PartyAssumption, SizeAssumption DEF IInv, TypeOK, AnswersOK, RequestsOK
  <2>4. Asked(r).hunt = req[r].hunt /\ (Asked(r).public => ~req[r].private)
    BY DEF Asked, NoWorld
  <2>5. reply[r].joined => port = cand[r] /\ cand[r] # NoPort /\ ~req[r].private
    BY <1>1, PortAssumption DEF RoomInv, JoinedThere, PrivateAlone
  <2>6. \A j \in Key : slots'.worlds[j].players \in SUBSET Player
                       /\ slots.worlds[j].players \in SUBSET Player
    BY DEF IInv, TypeOK, Slots, World
  <2>7. ASSUME NEW p \in Player, NEW j \in Key, p \in slots'.worlds[j].players, p \notin S
        PROVE  sentFor'[p] = sentFor[p]
    <3>1. slots'.at[p] = j /\ j # NoPort
      BY <2>7, PortAssumption DEF IInv, SlotConsistency, Consistent, Key
    <3>2. SlotsFor(S, req[r].hunt)
      BY <1>6 DEF Finish
    <3>. QED  BY <2>7, <3>1, <3>2 DEF SlotsFor
  <2>8. \A p \in S : sentFor'[p] = req[r].hunt
    <3>1. SlotsFor(S, req[r].hunt) /\ port # NoPort
      BY <1>6, <2>3, PortAssumption DEF Finish, Key
    <3>. QED  BY <2>2, <2>3, <3>1 DEF SlotsFor
  <2>. HIDE DEF port, S, fresh
  <2>9. ASSUME NEW j \in Key, slots'.worlds[j].public, j # port \/ ~fresh
        PROVE  /\ Alike(slots'.worlds[j], slots.worlds[j])
               /\ OwnPlayers(j)' \subseteq OwnPlayers(j) \cup S
               /\ j # port \/ slots.worlds[j].hunt # req[r].hunt
                    => OwnPlayers(j)' \subseteq OwnPlayers(j)
    <3>1. Alike(slots'.worlds[j], slots.worlds[j])
      BY <2>2, <2>9
    <3>2. slots'.worlds[j].players \subseteq slots.worlds[j].players \cup S
      <4>1. CASE j # port
        BY <2>2, <4>1
      <4>2. CASE j = port
        BY <2>2, <2>9, <4>2 DEF fresh
      <4>. QED  BY <4>1, <4>2
    <3>3. OwnPlayers(j)' \subseteq OwnPlayers(j) \cup S
      BY <2>6, <2>7, <3>1, <3>2 DEF OwnPlayers, Alike
    <3>4. j # port => slots'.worlds[j].players \cap S = {}
      <4>. SUFFICES ASSUME j # port, NEW p \in S, p \in slots'.worlds[j].players PROVE FALSE
        OBVIOUS
      <4>1. slots'.at[p] = j
        BY <2>6 DEF IInv, SlotConsistency, Consistent
      <4>. QED  BY <2>2, <4>1
    <3>5. CASE j # port
      BY <3>1, <3>3, <3>4, <3>5 DEF OwnPlayers
    <3>6. CASE slots.worlds[j].hunt # req[r].hunt
      BY <2>8, <3>1, <3>3, <3>6 DEF OwnPlayers, Alike
    <3>. QED  BY <3>1, <3>3, <3>5, <3>6
  <2>10. RoomFound'
    <3>. SUFFICES ASSUME NEW q \in Request, Allocating(q)', cand[q] # NoPort
                  PROVE  Fits(q, cand[q])'
      BY <1>1 DEF RoomFound
    <3>0. cand[q] \in Key /\ Fits(q, cand[q]) /\ Allocating(q) /\ q # r
      BY <1>3 DEF RoomInv, RoomFound, IInv, TypeOK, AnswersOK
    <3>. PICK k \in Key : k = cand[q]
      BY <3>0
    <3>1. k \in Key /\ Fits(q, k) /\ Allocating(q) /\ q # r
      BY <3>0
    <3>2. ~req[r].private => req[q].hunt # req[r].hunt
      BY <1>1, <3>1, AloneInTurn DEF TurnExclusive, Allocating, Pending
    <3>3. ASSUME slots'.worlds[k].public, slots'.worlds[k].hunt = req[q].hunt
          PROVE  /\ slots.worlds[k].public /\ slots.worlds[k].hunt = req[q].hunt
                 /\ OwnPlayers(k)' \subseteq OwnPlayers(k)
      <4>1. ~(k = port /\ fresh)
        BY <2>2, <2>4, <3>2, <3>3 DEF Alike
      <4>2. /\ Alike(slots'.worlds[k], slots.worlds[k])
            /\ k # port \/ slots.worlds[k].hunt # req[r].hunt
                 => OwnPlayers(k)' \subseteq OwnPlayers(k)
        BY <2>9, <3>1, <3>3, <4>1
      <4>3. slots.worlds[k].hunt = req[q].hunt
        BY <3>3, <4>2 DEF Alike
      <4>4. k = port => reply[r].joined
        BY <4>1 DEF fresh
      <4>5. k = port => slots.worlds[k].hunt # req[r].hunt
        BY <2>5, <3>2, <4>3, <4>4
      <4>. QED  BY <3>3, <4>2, <4>3, <4>5 DEF Alike
    <3>4. Fits(q, k)'
      BY <1>1, <3>1, <3>3, StillFits DEF IInv
    <3>. QED  BY <1>1, <3>4 DEF Fits, OwnPlayers
  <2>11. Capacity'
    <3>. SUFFICES ASSUME NEW j \in Key, slots'.worlds[j].public
                  PROVE  Cardinality(OwnPlayers(j)') <= HUNTING_GROUND_MAX_PLAYERS
      BY DEF Capacity
    <3>1. OwnPlayers(j)' \in SUBSET Player /\ OwnPlayers(j) \in SUBSET Player
      BY <2>6 DEF OwnPlayers
    <3>2. CASE j = port /\ fresh
      <4>1. slots'.worlds[j].players \subseteq S
        BY <2>2, <3>2 DEF fresh, NoWorld
      <4>2. OwnPlayers(j)' \subseteq S
        BY <4>1 DEF OwnPlayers
      <4>. QED  BY <2>3, <3>1, <4>2, StaysWithin
    <3>3. CASE j # port \/ ~fresh
      <4>1. /\ Alike(slots'.worlds[j], slots.worlds[j])
            /\ OwnPlayers(j)' \subseteq OwnPlayers(j) \cup S
            /\ j # port \/ slots.worlds[j].hunt # req[r].hunt
                 => OwnPlayers(j)' \subseteq OwnPlayers(j)
        BY <2>9, <3>3
      <4>2. slots.worlds[j].public /\ Cardinality(OwnPlayers(j)) <= HUNTING_GROUND_MAX_PLAYERS
        BY <4>1 DEF Alike, RoomInv, Capacity
      <4>3. CASE OwnPlayers(j)' \subseteq OwnPlayers(j)
        BY <2>3, <3>1, <4>2, <4>3, StaysWithin
      <4>4. CASE j = port /\ slots.worlds[j].hunt = req[r].hunt
        <5>1. reply[r].joined
          BY <3>3, <4>4 DEF fresh
        <5>2. Allocating(r) /\ j = cand[r] /\ cand[r] # NoPort
          BY <1>1, <2>5, <4>4, <5>1 DEF Allocating, Pending
        <5>3. Cardinality(OwnPlayers(j) \ S) + Cardinality(S) <= HUNTING_GROUND_MAX_PLAYERS
          BY <4>2, <4>4, <5>2 DEF RoomInv, RoomFound, Fits, S
        <5>. QED  BY <2>3, <3>1, <4>1, <4>2, <5>3, StaysWithin
      <4>. QED  BY <4>1, <4>3, <4>4
    <3>. QED  BY <3>2, <3>3
  <2>. QED  BY <1>4, <2>10, <2>11 DEF RoomInv
<1>. QED  BY <1>5, <1>6

LEMMA LeaveKeepsRoom ==
  ASSUME IInv, IInv', RoomInv, NEW p \in Player, Leave(p)
  PROVE  RoomInv'
<1>1. UNCHANGED <<pc, req, cand, reply, live>> /\ slots' = Release(slots, {p})
      /\ SlotsFor({}, NoHunt)
  BY DEF Leave
<1>2. ASSUME NEW k \in Key, slots'.worlds[k].public
      PROVE  /\ Alike(slots'.worlds[k], slots.worlds[k])
             /\ OwnPlayers(k)' \subseteq OwnPlayers(k)
  <2>. DEFINE w == slots.worlds[k]
              left == w.players \ {q \in {p} : slots.at[q] = k}
  <2>1. w \in World /\ slots'.worlds[k] = Vacate(w, left)
    BY <1>1 DEF IInv, TypeOK, Slots, Release
  <2>2. slots'.worlds[k].players \subseteq w.players /\ Alike(slots'.worlds[k], w)
    <3>1. left \in SUBSET w.players
      OBVIOUS
    <3>. HIDE DEF w, left
    <3>. QED  BY <1>2, <2>1, <3>1, Vacated
  <2>3. ASSUME NEW q \in slots'.worlds[k].players PROVE sentFor'[q] = sentFor[q]
    <3>1. q \in Player
      BY <2>1, <2>2 DEF World
    <3>2. slots'.at[q] = k /\ k # NoPort
      BY <3>1, PortAssumption DEF IInv, SlotConsistency, Consistent, Key
    <3>. QED  BY <1>1, <3>1, <3>2 DEF SlotsFor
  <2>. HIDE DEF left
  <2>. QED  BY <2>2, <2>3 DEF OwnPlayers, Alike
<1>3. CandLater' /\ PrivateAlone' /\ JoinedThere'
  BY <1>1 DEF RoomInv, CandLater, PrivateAlone, JoinedThere
<1>4. RoomFound'
  <2>. SUFFICES ASSUME NEW q \in Request, Allocating(q), cand[q] # NoPort
                PROVE  Fits(q, cand[q])'
    BY <1>1 DEF RoomFound, Allocating, Pending
  <2>1. cand[q] \in Key /\ Fits(q, cand[q])
    BY DEF RoomInv, RoomFound, IInv, TypeOK, AnswersOK
  <2>. PICK k \in Key : k = cand[q]
    BY <2>1
  <2>2. ASSUME slots'.worlds[k].public, slots'.worlds[k].hunt = req[q].hunt
        PROVE  /\ slots.worlds[k].public /\ slots.worlds[k].hunt = req[q].hunt
               /\ OwnPlayers(k)' \subseteq OwnPlayers(k)
    BY <1>2, <2>2 DEF Alike
  <2>3. Fits(q, k)'
    BY <1>1, <2>1, <2>2, StillFits DEF IInv
  <2>. QED  BY <1>1, <2>3 DEF Fits, OwnPlayers
<1>5. Capacity'
  <2>. SUFFICES ASSUME NEW k \in Key, slots'.worlds[k].public
                PROVE  Cardinality(OwnPlayers(k)') <= HUNTING_GROUND_MAX_PLAYERS
    BY DEF Capacity
  <2>1. /\ Cardinality(OwnPlayers(k)) <= HUNTING_GROUND_MAX_PLAYERS
        /\ OwnPlayers(k)' \subseteq OwnPlayers(k)
        /\ OwnPlayers(k) \in SUBSET Player
    BY <1>2 DEF RoomInv, Capacity, Alike, OwnPlayers, IInv, TypeOK, Slots, World
  <2>2. /\ Cardinality(OwnPlayers(k)') <= Cardinality(OwnPlayers(k))
        /\ Cardinality(OwnPlayers(k)') \in Nat /\ Cardinality(OwnPlayers(k)) \in Nat
    BY <2>1, RoomKept
  <2>. QED  BY <2>1, <2>2, SizeAssumption
<1>. QED  BY <1>3, <1>4, <1>5 DEF RoomInv

LEMMA RoomStep == IInv /\ RoomInv /\ IInv' /\ [Next]_vars => RoomInv'
<1>. SUFFICES ASSUME IInv, RoomInv, IInv', [Next]_vars PROVE RoomInv'
  OBVIOUS
<1>0. TypeOK
  BY DEF IInv
<1>1. ASSUME NEW r \in Request,
             \/ Ask(r) \/ TakeTurn(r) \/ Finish(r)
             \/ JoinRunningHunt(r) \/ StartWorld(r) \/ WorldReady(r) \/ NoNewWorld(r)
      PROVE  RoomInv'
  BY <1>0, <1>1, AskKeepsRoom, TakeTurnKeepsRoom, FinishKeepsRoom, DeployKeepsRoom
<1>2. ASSUME NEW p \in Player, Leave(p) PROVE RoomInv'
  BY <1>2, LeaveKeepsRoom
<1>3. CASE UNCHANGED vars \/ \E k \in IslandPort : WorldEnds(k)
  <2>1. UNCHANGED <<pc, req, reply, cand, slots, sentFor>>
    BY <1>3 DEF WorldEnds, vars, metaVars, history
  <2>2. CandLater' /\ PrivateAlone' /\ JoinedThere'
    BY <2>1 DEF RoomInv, CandLater, PrivateAlone, JoinedThere
  <2>3. \A q \in Request : Allocating(q)' <=> Allocating(q)
    BY <2>1 DEF Allocating, Pending
  <2>. QED  BY <2>1, <2>2, <2>3, RoomUntouched
<1>. QED  BY <1>1, <1>2, <1>3 DEF Next

(* No public world is ever promised to more players of its own hunt than   *)
(* it takes, although the metagame counts them only after the deploy       *)
(* server's answer, private hunts take the same ports, and ports change    *)
(* hands while answers are on their way: for any players, hunts, ports and *)
(* parties that fit a world.                                               *)
THEOREM NeverOverfull == Spec => []Capacity
<1>1. RoomInv => Capacity
  BY DEF RoomInv
<1>2. IInv /\ RoomInv /\ IInv' /\ [Next]_vars => RoomInv'
  BY RoomStep
<1>. QED  BY <1>1, <1>2, RoomInit, Inductive, PTL DEF Spec

----------------------------------------------------------------------------
(* Who is counted where, while only public worlds of one hunt are in play: *)
(* a candidate that is forgotten has ended, since no other request could   *)
(* start a world on its port meanwhile.                                    *)

AllPublic == \A r \in Request : ~req[r].private

LiveStarted ==
  \A k \in IslandPort : live[k] # NoRequest => pc[live[k]] \in {"starting", "replied", "done"}

OnePort == \A j, k \in IslandPort : live[j] = live[k] /\ live[k] # NoRequest => j = k

SentWhenDone == \A p \in Player : loc[p] # NoRequest => pc[loc[p]] = "done"

StaleEnded ==
  \A r \in Request :
    /\ cand[r] \in IslandPort
    /\ pc[r] = "starting" \/ (pc[r] = "replied" /\ ~reply[r].joined)
    => live[cand[r]] \in {NoRequest, r}

NewIsOwn ==
  \A r \in Request :
    pc[r] = "replied" /\ ~reply[r].joined /\ reply[r].port \in IslandPort
    => live[reply[r].port] \in {NoRequest, r}

PlaceInv ==
  /\ AllPublic /\ LiveStarted /\ OnePort /\ SentWhenDone
  /\ JoinedThere /\ StaleEnded /\ NewIsOwn
  /\ CountsWhoIsThere

OneHunt == \A g, h \in Hunt : g = h

(* Then at most one request allocates.                                     *)
LEMMA OneAllocates ==
  ASSUME OneHunt, IInv, AllPublic, NEW q \in Request, NEW r \in Request,
         pc[q] \in {"asked", "starting", "replied"}, pc[r] \in {"asked", "starting", "replied"}
  PROVE  q = r
<1>1. req[q].hunt = req[r].hunt
  BY DEF OneHunt, IInv, TypeOK, RequestsOK
<1>. QED  BY <1>1, AloneInTurn DEF TurnExclusive, Allocating, Pending, AllPublic

LEMMA PlaceInit == Init => PlaceInv
BY NullAssumption
DEF Init, PlaceInv, AllPublic, LiveStarted, OnePort, SentWhenDone, JoinedThere, StaleEnded,
    NewIsOwn, CountsWhoIsThere

(* r is answered with a live candidate, or its candidate has ended.        *)
AnswerRight(r) ==
  /\ reply[r].joined => reply[r].port = cand[r] /\ cand[r] \in IslandPort
  /\ ~reply[r].joined /\ cand[r] \in IslandPort => live[cand[r]] \in {NoRequest, r}
  /\ ~reply[r].joined /\ reply[r].port \in IslandPort => live[reply[r].port] \in {NoRequest, r}

(* Steps that start no world, read no answer and move no player.           *)
LEMMA PlaceKept ==
  ASSUME TypeOK, PlaceInv, NEW r \in Request, NEW s, pc' = [pc EXCEPT ![r] = s],
         pc[r] # "done", s # "done", AllPublic', UNCHANGED <<slots, loc>>,
         \/ pc[r] = "idle" /\ s \in {"turn", "asked"}
         \/ pc[r] = "turn" /\ s = "asked"
         \/ pc[r] \in {"asked", "starting"} /\ s = "replied",
         \A q \in Request : q # r => cand'[q] = cand[q] /\ reply'[q] = reply[q],
         \A k \in IslandPort : live'[k] \in {live[k], NoRequest},
         s = "replied" => AnswerRight(r)'
  PROVE  PlaceInv'
<1>1. pc'[r] = s /\ \A q \in Request : q # r => pc'[q] = pc[q]
  BY DEF TypeOK, RequestsOK
<1>2. /\ \A k \in IslandPort : live[k] \in Request \cup {NoRequest}
      /\ \A p \in Player : loc[p] \in Request \cup {NoRequest}
  BY DEF TypeOK
<1>3. LiveStarted'
  BY <1>1, <1>2 DEF PlaceInv, LiveStarted
<1>4. OnePort' /\ SentWhenDone'
  BY <1>1, <1>2 DEF PlaceInv, OnePort, SentWhenDone
<1>5. JoinedThere' /\ NewIsOwn'
  BY <1>1 DEF PlaceInv, JoinedThere, NewIsOwn, AnswerRight
<1>6. StaleEnded'
  BY <1>1 DEF PlaceInv, StaleEnded, AnswerRight
<1>7. CountsWhoIsThere'
  BY <1>2 DEF PlaceInv, CountsWhoIsThere
<1>. QED  BY <1>3, <1>4, <1>5, <1>6, <1>7 DEF PlaceInv

LEMMA AskKeepsPlaces ==
  ASSUME PrivateHunts = FALSE, TypeOK, PlaceInv, NEW r \in Request, Ask(r)
  PROVE  PlaceInv'
<1>1. PICK h \in Hunt, S \in Party :
        /\ req' = [req EXCEPT ![r] = [hunt |-> h, private |-> FALSE, party |-> S]]
        /\ pc' = [pc EXCEPT ![r] = "turn"]
  BY DEF Ask
<1>2. pc[r] = "idle" /\ UNCHANGED <<cand, reply, slots, live, loc>>
  BY DEF Ask, history
<1>3. AllPublic'
  BY <1>1 DEF PlaceInv, AllPublic, TypeOK, RequestsOK
<1>. QED  BY <1>1, <1>2, <1>3, PlaceKept

LEMMA TakeTurnKeepsPlaces ==
  ASSUME TypeOK, PlaceInv, NEW r \in Request, TakeTurn(r)
  PROVE  PlaceInv'
<1>1. /\ pc[r] = "turn" /\ pc' = [pc EXCEPT ![r] = "asked"]
      /\ UNCHANGED <<req, reply, slots, live, loc>>
      /\ \A q \in Request : q # r => cand'[q] = cand[q]
  BY DEF TakeTurn, Allocate, TypeOK, AnswersOK, history
<1>2. AllPublic'
  BY <1>1 DEF PlaceInv, AllPublic
<1>. QED  BY <1>1, <1>2, PlaceKept

LEMMA JoinKeepsPlaces ==
  ASSUME TypeOK, PlaceInv, NEW r \in Request, JoinRunningHunt(r)
  PROVE  PlaceInv'
<1>1. /\ pc[r] = "asked" /\ pc' = [pc EXCEPT ![r] = "replied"]
      /\ reply' = [reply EXCEPT ![r] = [port |-> cand[r], joined |-> TRUE]]
      /\ UNCHANGED <<req, cand, slots, live, loc>> /\ cand[r] \in IslandPort
  BY DEF JoinRunningHunt, Respond, Joinable, metaVars, history
<1>2. AllPublic' /\ reply'[r] = [port |-> cand[r], joined |-> TRUE]
      /\ \A q \in Request : q # r => reply'[q] = reply[q]
  BY <1>1 DEF PlaceInv, AllPublic, TypeOK, AnswersOK
<1>3. AnswerRight(r)'
  BY <1>1, <1>2 DEF AnswerRight
<1>. QED  BY <1>1, <1>2, <1>3, PlaceKept

LEMMA ReadyKeepsPlaces ==
  ASSUME TypeOK, PlaceInv, NEW r \in Request, WorldReady(r)
  PROVE  PlaceInv'
<1>1. PICK k \in IslandPort : live[k] = r /\ Respond(r, k, FALSE)
  BY DEF WorldReady
<1>2. /\ pc[r] = "starting" /\ pc' = [pc EXCEPT ![r] = "replied"]
      /\ reply' = [reply EXCEPT ![r] = [port |-> k, joined |-> FALSE]]
      /\ UNCHANGED <<req, cand, slots, live, loc>>
  BY <1>1 DEF WorldReady, Respond, metaVars, history
<1>3. AllPublic' /\ reply'[r] = [port |-> k, joined |-> FALSE]
      /\ \A q \in Request : q # r => reply'[q] = reply[q]
  BY <1>2 DEF PlaceInv, AllPublic, TypeOK, AnswersOK
<1>4. cand[r] \in IslandPort => live[cand[r]] \in {NoRequest, r}
  BY <1>2 DEF PlaceInv, StaleEnded
<1>5. AnswerRight(r)'
  BY <1>1, <1>2, <1>3, <1>4 DEF AnswerRight
<1>. QED  BY <1>2, <1>3, <1>5, PlaceKept

(* The candidate of a request that joins nobody has no world: the only     *)
(* hunt would be the request's own.                                        *)
LEMMA CandidateEnded ==
  ASSUME OneHunt, TypeOK, PlaceInv, NEW r \in Request, pc[r] = "asked",
         ~Joinable(cand[r], req[r].hunt), cand[r] \in IslandPort
  PROVE  live[cand[r]] = NoRequest
BY DEF OneHunt, TypeOK, RequestsOK, PlaceInv, LiveStarted, Joinable

LEMMA NoNewWorldKeepsPlaces ==
  ASSUME OneHunt, TypeOK, PlaceInv, NEW r \in Request, NoNewWorld(r)
  PROVE  PlaceInv'
<1>1. PICK port \in {City, NoPort} : Respond(r, port, FALSE)
  BY DEF NoNewWorld
<1>2. /\ pc[r] \in {"starting", "asked"} /\ pc' = [pc EXCEPT ![r] = "replied"]
      /\ reply' = [reply EXCEPT ![r] = [port |-> port, joined |-> FALSE]]
      /\ UNCHANGED <<req, cand, slots, loc>>
      /\ \A k \in IslandPort : live'[k] \in {live[k], NoRequest}
  BY <1>1 DEF NoNewWorld, Respond, metaVars, history
<1>3. AllPublic' /\ reply'[r] = [port |-> port, joined |-> FALSE]
      /\ (\A q \in Request : q # r => reply'[q] = reply[q])
      /\ port \notin IslandPort
  BY <1>2, PortAssumption DEF PlaceInv, AllPublic, TypeOK, AnswersOK, Key
<1>4. cand[r] \in IslandPort => live[cand[r]] \in {NoRequest, r}
  <2>1. CASE pc[r] = "starting"
    BY <2>1 DEF PlaceInv, StaleEnded
  <2>2. CASE pc[r] = "asked"
    <3>1. ~Joinable(cand[r], req[r].hunt)
      BY <2>2 DEF NoNewWorld
    <3>. QED  BY <2>2, <3>1, CandidateEnded
  <2>. QED  BY <1>2, <2>1, <2>2
<1>5. AnswerRight(r)'
  <2>1. cand[r] \in IslandPort => live'[cand[r]] \in {NoRequest, r}
    BY <1>2, <1>4
  <2>. QED  BY <1>2, <1>3, <2>1 DEF AnswerRight
<1>. QED  BY <1>2, <1>3, <1>5, PlaceKept

LEMMA StartKeepsPlaces ==
  ASSUME OneHunt, IInv, PlaceInv, NEW r \in Request, StartWorld(r)
  PROVE  PlaceInv'
<1>1. PICK k \in IslandPort : live[k] = NoRequest /\ live' = [live EXCEPT ![k] = r]
  BY DEF StartWorld
<1>2. /\ pc[r] = "asked" /\ pc' = [pc EXCEPT ![r] = "starting"]
      /\ UNCHANGED <<req, reply, cand, slots, loc>>
      /\ ~Joinable(cand[r], req[r].hunt)
  BY DEF StartWorld, metaVars, history
<1>3. pc'[r] = "starting" /\ \A q \in Request : q # r => pc'[q] = pc[q]
  BY <1>2 DEF IInv, TypeOK, RequestsOK
<1>4. /\ live'[k] = r /\ \A j \in IslandPort : j # k => live'[j] = live[j]
      /\ \A j \in IslandPort : live[j] # r
  BY <1>1, <1>2, NullAssumption DEF IInv, TypeOK, PlaceInv, LiveStarted
<1>5. \A q \in Request : q # r => pc[q] \notin {"asked", "starting", "replied"}
  BY <1>2, OneAllocates DEF PlaceInv
<1>6. AllPublic' /\ LiveStarted' /\ OnePort' /\ SentWhenDone'
  BY <1>2, <1>3, <1>4 DEF PlaceInv, AllPublic, LiveStarted, OnePort, SentWhenDone, IInv, TypeOK
<1>7. JoinedThere' /\ NewIsOwn'
  BY <1>2, <1>3, <1>5 DEF PlaceInv, JoinedThere, NewIsOwn
<1>8. cand[r] \in IslandPort => live[cand[r]] = NoRequest
  BY <1>2, CandidateEnded DEF IInv
<1>9. StaleEnded'
  BY <1>2, <1>3, <1>4, <1>5, <1>8 DEF StaleEnded
<1>10. \A p \in Player : loc[p] # r
  BY <1>2, NullAssumption DEF PlaceInv, SentWhenDone
<1>11. CountsWhoIsThere'
  BY <1>2, <1>4, <1>10 DEF PlaceInv, CountsWhoIsThere
<1>. QED  BY <1>6, <1>7, <1>9, <1>11 DEF PlaceInv

(* The record of an answer puts the party where it was sent, and nobody    *)
(* else's world is forgotten.                                              *)
LEMMA FinishKeepsPlaces ==
  ASSUME OneHunt, IInv, PlaceInv, NEW r \in Request, Finish(r)
  PROVE  PlaceInv'
<1>. DEFINE k == reply[r].port
            S == req[r].party
<1>1. /\ pc[r] = "replied" /\ pc' = [pc EXCEPT ![r] = "done"]
      /\ UNCHANGED <<req, cand, reply, live>>
  BY DEF Finish
<1>2. pc'[r] = "done" /\ \A q \in Request : q # r => pc'[q] = pc[q]
  BY <1>1 DEF IInv, TypeOK, RequestsOK
<1>3. \A q \in Request : q # r => pc[q] \notin {"asked", "starting", "replied"}
  BY <1>1, OneAllocates DEF PlaceInv
<1>4. AllPublic' /\ LiveStarted' /\ OnePort'
  BY <1>1, <1>2 DEF PlaceInv, AllPublic, LiveStarted, OnePort, IInv, TypeOK
<1>5. JoinedThere' /\ NewIsOwn' /\ StaleEnded'
  BY <1>1, <1>2 DEF PlaceInv, JoinedThere, NewIsOwn, StaleEnded
<1>6. CASE reply[r] = Failure
  <2>1. UNCHANGED <<slots, loc>>
    BY <1>6 DEF Finish, history
  <2>2. SentWhenDone' /\ CountsWhoIsThere'
    BY <1>1, <1>2, <2>1 DEF PlaceInv, SentWhenDone, CountsWhoIsThere, IInv, TypeOK
  <2>. QED  BY <1>4, <1>5, <2>2 DEF PlaceInv
<1>7. CASE reply[r] # Failure
  <2>1. /\ slots' = Answered(r)
        /\ loc' = [p \in Player |-> IF p \notin S THEN loc[p]
                                    ELSE IF k = City THEN NoRequest ELSE live[k]]
    BY <1>7 DEF Finish
  <2>2. \A p \in Player : slots'.at[p]
          = IF p \in S THEN k
            ELSE IF ~reply[r].joined /\ slots.at[p] \in {k, cand[r]} THEN NoPort ELSE slots.at[p]
    BY <1>1, <1>7, <2>1, AnsweredRecords DEF IInv
  <2>3. k \in IslandPort \cup {City}
    BY <1>7 DEF IInv, TypeOK, AnswersOK, Key
  <2>4. k \in IslandPort /\ live[k] # NoRequest => pc'[live[k]] = "done"
    <3>. SUFFICES ASSUME k \in IslandPort, live[k] # NoRequest, live[k] # r
                  PROVE  pc[live[k]] = "done"
      BY <1>2 DEF IInv, TypeOK
    <3>. QED  BY <1>3 DEF PlaceInv, LiveStarted, IInv, TypeOK
  <2>5. SentWhenDone'
    BY <1>1, <1>2, <2>1, <2>3, <2>4 DEF PlaceInv, SentWhenDone, IInv, TypeOK
  <2>6. ASSUME NEW p \in Player, NEW j \in IslandPort, loc'[p] # NoRequest, live[j] = loc'[p]
        PROVE  slots'.at[p] = j
    <3>1. CASE p \in S
      <4>1. k # City /\ loc'[p] = live[k]
        BY <2>1, <2>6, <3>1
      <4>2. j = k
        BY <2>3, <2>6, <4>1 DEF PlaceInv, OnePort
      <4>. QED  BY <2>2, <3>1, <4>2
    <3>2. CASE p \notin S
      <4>1. loc[p] # NoRequest /\ live[j] = loc[p] /\ slots.at[p] = j /\ loc[p] # r
        BY <1>1, <2>1, <2>6, <3>2 DEF PlaceInv, CountsWhoIsThere, SentWhenDone
      <4>2. ~(~reply[r].joined /\ j \in {k, cand[r]})
        BY <1>1, <4>1 DEF PlaceInv, StaleEnded, NewIsOwn
      <4>. QED  BY <2>2, <3>2, <4>1, <4>2
    <3>. QED  BY <3>1, <3>2
  <2>7. CountsWhoIsThere'
    BY <1>1, <2>6 DEF CountsWhoIsThere
  <2>. QED  BY <1>4, <1>5, <2>5, <2>7 DEF PlaceInv
<1>. QED  BY <1>6, <1>7

LEMMA LeaveKeepsPlaces ==
  ASSUME TypeOK, PlaceInv, NEW p \in Player, Leave(p)
  PROVE  PlaceInv'
<1>1. /\ UNCHANGED <<pc, req, cand, reply, live>>
      /\ slots' = Release(slots, {p}) /\ loc' = [loc EXCEPT ![p] = NoRequest]
  BY DEF Leave
<1>2. loc'[p] = NoRequest
      /\ \A q \in Player : q # p => loc'[q] = loc[q] /\ slots'.at[q] = slots.at[q]
  BY <1>1 DEF TypeOK, Release
<1>3. AllPublic' /\ LiveStarted' /\ OnePort' /\ JoinedThere' /\ StaleEnded' /\ NewIsOwn'
  BY <1>1 DEF PlaceInv, AllPublic, LiveStarted, OnePort, JoinedThere, StaleEnded, NewIsOwn
<1>4. SentWhenDone' /\ CountsWhoIsThere'
  BY <1>1, <1>2 DEF PlaceInv, SentWhenDone, CountsWhoIsThere
<1>. QED  BY <1>3, <1>4 DEF PlaceInv

LEMMA EndsKeepsPlaces ==
  ASSUME TypeOK, PlaceInv, NEW j \in IslandPort, WorldEnds(j)
  PROVE  PlaceInv'
<1>1. /\ UNCHANGED <<pc, req, reply, cand, slots, loc>>
      /\ \A k \in IslandPort : live'[k] \in {live[k], NoRequest}
  BY DEF WorldEnds, metaVars, history, TypeOK
<1>2. AllPublic' /\ LiveStarted' /\ OnePort' /\ SentWhenDone'
  BY <1>1 DEF PlaceInv, AllPublic, LiveStarted, OnePort, SentWhenDone
<1>3. JoinedThere' /\ StaleEnded' /\ NewIsOwn'
  BY <1>1 DEF PlaceInv, JoinedThere, StaleEnded, NewIsOwn
<1>4. CountsWhoIsThere'
  BY <1>1 DEF PlaceInv, CountsWhoIsThere
<1>. QED  BY <1>2, <1>3, <1>4 DEF PlaceInv

LEMMA PlaceStep ==
  ASSUME PrivateHunts = FALSE, OneHunt
  PROVE  IInv /\ PlaceInv /\ [Next]_vars => PlaceInv'
<1>. SUFFICES ASSUME IInv, PlaceInv, [Next]_vars PROVE PlaceInv'
  OBVIOUS
<1>0. TypeOK
  BY DEF IInv
<1>1. ASSUME NEW r \in Request,
             \/ Ask(r) \/ TakeTurn(r) \/ Finish(r)
             \/ JoinRunningHunt(r) \/ StartWorld(r) \/ WorldReady(r) \/ NoNewWorld(r)
      PROVE  PlaceInv'
  BY <1>0, <1>1, AskKeepsPlaces, TakeTurnKeepsPlaces, FinishKeepsPlaces, JoinKeepsPlaces,
     StartKeepsPlaces, ReadyKeepsPlaces, NoNewWorldKeepsPlaces
<1>2. ASSUME NEW p \in Player, Leave(p) PROVE PlaceInv'
  BY <1>0, <1>2, LeaveKeepsPlaces
<1>3. ASSUME NEW k \in IslandPort, WorldEnds(k) PROVE PlaceInv'
  BY <1>0, <1>3, EndsKeepsPlaces
<1>4. CASE UNCHANGED vars
  BY <1>4 DEF vars, metaVars, history, PlaceInv, AllPublic, LiveStarted, OnePort, SentWhenDone,
              JoinedThere, StaleEnded, NewIsOwn, CountsWhoIsThere
<1>. QED  BY <1>1, <1>2, <1>3, <1>4 DEF Next

(* "The count is the players who are actually there" (huntingGrounds.ts)   *)
(* as far as it goes: while only public worlds of one hunt are in play,    *)
(* whoever was sent to a world that still runs is counted on it, for any   *)
(* players, parties, requests and ports.                                   *)
THEOREM CountIsWhoIsThere ==
  ASSUME PrivateHunts = FALSE, OneHunt
  PROVE  Spec => []CountsWhoIsThere
<1>1. PlaceInv => CountsWhoIsThere
  BY DEF PlaceInv
<1>2. IInv /\ PlaceInv /\ [Next]_vars => PlaceInv'
  BY PlaceStep
<1>. QED  BY <1>1, <1>2, PlaceInit, Inductive, PTL DEF Spec
=============================================================================
