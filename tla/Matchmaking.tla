----------------------------- MODULE Matchmaking -----------------------------
(***************************************************************************)
(* Matchmaking for queued hunts and for worlds launched at once            *)
(* (matchmaking.ts), with the party routes that abandon it (party.ts and   *)
(* matchmaking.ts in routes/), on top of Parties.                          *)
(*                                                                         *)
(* The metagame runs one handler at a time; a handler is split where it    *)
(* awaits the deploy server's answer.  Private hunts, Ramsgate, the dojo   *)
(* and hunting grounds all launch without a queue and are one action here: *)
(* what else a hunting ground does is in HuntingGrounds.                   *)
(*                                                                         *)
(* A candidate's id is drawn when results are written for a group of       *)
(* players, and a later candidate of the same group replaces all of them,  *)
(* so the group names the candidate.                                       *)
(***************************************************************************)
EXTENDS Parties, SequencesExt

CONSTANTS
  Hunt,
  NoHunt,     \* undefined, where a hunt could be
  QUEUE_SIZE, \* 4, the players a queue is launched for
  MAX_JOINS   \* bound on the joins of a run

ASSUME HuntAssumption == NoHunt \notin Hunt
ASSUME QueueAssumption == QUEUE_SIZE \in Nat /\ MAX_JOINS \in Nat

VARIABLES
  queue,    \* MatchmakingQueueMap
  result,   \* MatchmakingResultMap
  direct,   \* the LaunchNow a player's join awaits
  joins     \* how many joins there have been

vars == <<reg, queue, result, direct, joins>>

(* aged: the last player was added over 20 seconds ago.                    *)
NoQueue == [players |-> {}, aged |-> FALSE, resolved |-> FALSE]

(* world: the hunt of the world at the result's host and port.             *)
NoResult == [mates |-> {}, hunt |-> NoHunt, status |-> "none", world |-> NoHunt]

NoLaunch == [players |-> {}, hunt |-> NoHunt]

Init ==
  /\ PartyInit
  /\ queue = [h \in Hunt |-> NoQueue]
  /\ result = [p \in Player |-> NoResult]
  /\ direct = [p \in Player |-> NoLaunch]
  /\ joins = 0

Waits(p) == result[p].status = "waiting"

(* ApplyLaunch: the outcome of a launch for hunt h in result r.            *)
ApplyLaunch(r, h, ok) ==
  [r EXCEPT !.status = IF ok THEN "ready" ELSE "failed", !.world = IF ok THEN h ELSE NoHunt]

----------------------------------------------------------------------------
(* Joining *)

(* Only the leader's join, or that of a player alone, is not just a look   *)
(* at the own candidate.                                                   *)
MayAsk(p) ==
  /\ Group(reg, p) = {p} \/ Leads(reg, p)
  /\ joins < MAX_JOINS /\ joins' = joins + 1

(* The party enters the queue of h if there is room; the players who fill  *)
(* it pop it.                                                              *)
QueuePlayers(p, h) ==
  LET group == Group(reg, p)
      players == queue[h].players \cup group
  IN
    /\ MayAsk(p)
    /\ ~queue[h].resolved /\ Cardinality(players) <= QUEUE_SIZE
    /\ queue' = [queue EXCEPT ![h] =
         [players |-> players, aged |-> FALSE,
          resolved |-> Cardinality(players) = QUEUE_SIZE]]
    /\ result' = [q \in Player |->
         IF q \in group
         THEN [mates |-> group, hunt |-> h, status |-> "waiting", world |-> NoHunt]
         ELSE result[q]]
    /\ UNCHANGED <<reg, direct>>

(* A world for players who need no queue.  A player sends no further join  *)
(* that launches a world before this one is answered.                      *)
LaunchNow(p, h) ==
  /\ MayAsk(p)
  /\ direct[p] = NoLaunch
  /\ direct' = [direct EXCEPT ![p] = [players |-> Group(reg, p), hunt |-> h]]
  /\ UNCHANGED <<reg, queue, result>>

(* The deploy server has answered, or cannot be reached.                   *)
LaunchDone(p, ok) ==
  /\ direct[p] # NoLaunch
  /\ LET l == direct[p] IN
       result' = [q \in Player |->
         IF q \in l.players
         THEN ApplyLaunch([NoResult EXCEPT !.mates = l.players, !.hunt = l.hunt], l.hunt, ok)
         ELSE result[q]]
  /\ direct' = [direct EXCEPT ![p] = NoLaunch]
  /\ UNCHANGED <<reg, queue, joins>>

----------------------------------------------------------------------------
(* The queue *)

Ages(h) ==
  /\ queue[h].players # {} /\ ~queue[h].resolved /\ ~queue[h].aged
  /\ queue' = [queue EXCEPT ![h].aged = TRUE]
  /\ UNCHANGED <<reg, result, direct, joins>>

(* p waits in a queue nobody has joined for 20 seconds.                    *)
Due(p) == Waits(p) /\ LET q == queue[result[p].hunt] IN q.aged /\ ~q.resolved

(* CheckAndUpdateQueueStatus of p.                                         *)
Checked(p) ==
  queue' = IF Due(p) THEN [queue EXCEPT ![result[p].hunt].resolved = TRUE] ELSE queue

(* The candidate's status, the party's, or the join of a member who does   *)
(* not lead.                                                               *)
CandidateStatus(p) ==
  Due(p) /\ Checked(p) /\ UNCHANGED <<reg, result, direct, joins>>

(* Mutant of PopQueue: the players are not told of a failure.              *)
PopUntold(h, ok) ==
  /\ queue[h].resolved
  /\ result' = [p \in Player |->
       IF p \in queue[h].players /\ result[p] # NoResult /\ ok
       THEN ApplyLaunch(result[p], h, ok) ELSE result[p]]
  /\ queue' = [queue EXCEPT ![h] = NoQueue]
  /\ UNCHANGED <<reg, direct, joins>>

(* The launch of a popped queue is answered: its players who have a result *)
(* get the outcome.                                                        *)
PopQueue(h, ok) ==
  /\ queue[h].resolved
  /\ result' = [p \in Player |->
       IF p \in queue[h].players /\ result[p] # NoResult
       THEN ApplyLaunch(result[p], h, ok) ELSE result[p]]
  /\ queue' = [queue EXCEPT ![h] = NoQueue]
  /\ UNCHANGED <<reg, direct, joins>>

(* Mutant of Cancelled: the whole queue is abandoned with the candidate.   *)
CancelledQueue(s, p) ==
  LET r == s.result[p]
      left == [q \in Player |-> IF s.result[q].mates = r.mates THEN NoResult ELSE s.result[q]]
  IN  IF r.status \in {"none", "ready"} THEN s
      ELSE [result |-> left,
            queue |-> IF s.queue[r.hunt].resolved THEN s.queue
                      ELSE [s.queue EXCEPT ![r.hunt] = NoQueue]]

(* CancelPendingCandidateForPlayer on results and queues s.                *)
Cancelled(s, p) ==
  LET r == s.result[p]
      left == [q \in Player |-> IF s.result[q].mates = r.mates THEN NoResult ELSE s.result[q]]
      kept == {q \in s.queue[r.hunt].players : left[q] # NoResult}
  IN  IF r.status \in {"none", "ready"} THEN s
      ELSE [result |-> left,
            queue |-> IF s.queue[r.hunt].resolved THEN s.queue
                      ELSE [s.queue EXCEPT ![r.hunt] =
                              IF kept = {} THEN NoQueue ELSE [@ EXCEPT !.players = kept]]]

(* The candidates of all players of S are cancelled, in any order.         *)
Cancel(S) ==
  \E order \in SetToSeqs(S) :
    LET s == FoldLeft(Cancelled, [result |-> result, queue |-> queue], order) IN
      /\ result' = s.result /\ queue' = s.queue
      /\ UNCHANGED <<direct, joins>>

----------------------------------------------------------------------------
(* Parties *)

(* A party of one, for a status request or for a first invitation.         *)
SendPartyState(p) ==
  /\ GetOrCreateParty(p)
  /\ Checked(p) \/ UNCHANGED queue
  /\ UNCHANGED <<result, direct, joins>>

(* Operations that leave candidates alone.                                 *)
InviteOrPromote(p, q) ==
  /\ InviteToParty(p, q) \/ PromotePartyMember(p, q)
  /\ UNCHANGED <<queue, result, direct, joins>>

InvitationExpires(i) == InviteExpires(i) /\ UNCHANGED <<queue, result, direct, joins>>

Leave(p) == LeaveParty(p) /\ Cancel(Group(reg, p))

Kick(p, q) == KickPartyMember(p, q) /\ Cancel(Group(reg, p))

(* Mutant of Accept: only the party that is entered is told.               *)
AcceptTellsNew(p, i) ==
  AcceptPartyInvite(p, i) /\ Cancel(Members(reg, i.party) \cup {p})

Accept(p, i) ==
  AcceptPartyInvite(p, i) /\ Cancel(Group(reg, p) \cup Members(reg, i.party))

(* The client repeats an accept that has succeeded.                        *)
RetryAccept(p) ==
  /\ Exists(reg, reg.membership[p])
  /\ UNCHANGED reg
  /\ Cancel(Group(reg, p))

----------------------------------------------------------------------------
Next ==
  \/ \E p \in Player, h \in Hunt : QueuePlayers(p, h) \/ LaunchNow(p, h)
  \/ \E p \in Player, ok \in BOOLEAN : LaunchDone(p, ok)
  \/ \E h \in Hunt : Ages(h) \/ \E ok \in BOOLEAN : PopQueue(h, ok)
  \/ \E p \in Player :
       CandidateStatus(p) \/ SendPartyState(p) \/ Leave(p) \/ RetryAccept(p)
  \/ \E p, q \in Player : InviteOrPromote(p, q) \/ Kick(p, q)
  \/ \E i \in reg.invites : InvitationExpires(i) \/ \E p \in Player : Accept(p, i)

Spec == Init /\ [][Next]_vars

(* Time passes, a waiting client asks for its candidate's status, and the  *)
(* deploy server answers or is found unreachable.                          *)
Fairness ==
  /\ \A h \in Hunt : WF_vars(Ages(h)) /\ WF_vars(\E ok \in BOOLEAN : PopQueue(h, ok))
  /\ \A p \in Player :
       WF_vars(CandidateStatus(p)) /\ WF_vars(\E ok \in BOOLEAN : LaunchDone(p, ok))

FairSpec == Spec /\ Fairness

----------------------------------------------------------------------------
Queue == [players : SUBSET Player, aged : BOOLEAN, resolved : BOOLEAN]
Result == [mates : SUBSET Player, hunt : Hunt \cup {NoHunt},
           status : {"none", "waiting", "ready", "failed"}, world : Hunt \cup {NoHunt}]

(* Type invariant; only a queue that is absent is empty, and a result is   *)
(* ready exactly when it has a world to travel to.                         *)
TypeOK ==
  /\ PartyTypeOK
  /\ queue \in [Hunt -> Queue]
  /\ result \in [Player -> Result]
  /\ direct \in [Player -> [players : SUBSET Player, hunt : Hunt \cup {NoHunt}]]
  /\ joins \in 0 .. MAX_JOINS
  /\ \A h \in Hunt : queue[h].players = {} => queue[h] = NoQueue
  /\ \A p \in Player :
       /\ result[p].status = "none" <=> result[p] = NoResult
       /\ result[p].status = "ready" <=> result[p].world # NoHunt

(* Whoever is told MATCHING is in the queue of that hunt, however often    *)
(* the player changed queues or a stranger's candidate was cancelled (a    *)
(* result without a queue would answer MATCHING for ever), and waits with  *)
(* the whole party: not with one they left, nor without one they entered.  *)
WaitingHonest ==
  \A p \in Player : Waits(p) =>
    p \in queue[result[p].hunt].players /\ result[p].mates = Group(reg, p)

(* Every wait ends, with a world, a failure or the party's change of mind, *)
(* also when the deploy server cannot be reached.                          *)
WaitingAnswered == \A p \in Player : Waits(p) ~> ~Waits(p)

(* p's join replaces p's candidate in this step.                           *)
Rejoins(p) ==
  \/ result'[p].status = "waiting"
  \/ \E q \in Player : p \in direct[q].players /\ direct'[q] # direct[q]

(* "A Ready candidate is replaced by the player's next join instead": and  *)
(* by nothing else (matchmaking.ts:200-201).                               *)
ReadyKept ==
  [][\A p \in Player :
       result[p].status = "ready" => result'[p] = result[p] \/ Rejoins(p)]_vars

(* "Party changes abandon matchmaking that has not produced a world yet"   *)
(* (matchmaking.ts:196): a launch gives no world to a player whose party   *)
(* is no longer the one that asked.                                        *)
PartyChangeAbandons ==
  [][\A p, q \in Player :
       direct'[p] # direct[p] /\ q \in direct[p].players /\ result'[q].status = "ready"
         => Group(reg, q) = direct[p].players]_vars
=============================================================================
