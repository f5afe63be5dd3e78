------------------------ MODULE DeliveryQueueProofs ------------------------
(***************************************************************************)
(* What holds of DeliveryQueue for every number of deliveries, workers and *)
(* mishaps and every policy.  The first half holds whatever the timing.    *)
(* The second half assumes Timely: a claim outlasts a batch of calls, and  *)
(* only calls take time.  It shows that claims are then exclusive, and     *)
(* what follows from it: the budget and the schedule of attempts, one      *)
(* acceptance per delivery, and the refinement of DeliveryPromise.         *)
(***************************************************************************)
EXTENDS DeliveryQueue, FiniteSetTheorems, TLAPS

Busy(w) == pc[w] \in {"call", "record", "discard"}

(* A worker with a delivery in process() has a snapshot of one.            *)
JobOK == \A w \in Workers : Busy(w) => job[w] \in Snapshot

TypeInv == TypeOK /\ JobOK

(* What a worker holds, and a worker that has a SENT to record or a body   *)
(* to drop.                                                                *)
Holds(w) == hand[w] \cup (IF Busy(w) THEN {job[w]} ELSE {})
Owes(w)  == pc[w] = "discard" \/ (pc[w] = "record" /\ answer[w] = "SENT")

HeldWasAccepted ==
  \A w \in Workers : \A s \in Holds(w) : \A r \in Requests :
    s.id \in r => req[r].phase = "accepted"

SentWasConfirmed == \A w \in Workers : Owes(w) => confirmed[job[w].id] > 0

HandInv == HeldWasAccepted /\ SentWasConfirmed

(* A body is not older than the row it belongs to.                         *)
BodyNotOlder ==
  \A d \in Ids : row[d].status # "absent" /\ body[d] # 0 =>
    row[d].created <= body[d]

(* While a call is writing, what it has written is there, or is so old     *)
(* that the pruner was entitled to it.                                     *)
WrittenIsThere ==
  \A r \in Requests : req[r].phase = "writing" =>
    /\ req[r].at <= clock
    /\ req[r].todo \subseteq r
    /\ \A d \in r \ req[r].todo :
         IF body[d] = 0 THEN req[r].at < clock - FailedRetention
                        ELSE req[r].at <= body[d]

RowInv ==
  /\ RefusedIsNeverSent
  /\ BodyNotOlder
  /\ WrittenIsThere
  /\ NothingLost
  /\ SentMeansConfirmed
  /\ InFlightIsClaimed

QueueInv == TypeInv /\ RowInv /\ HandInv

-----------------------------------------------------------------------------
(* The operators of the policy and of the rows.                            *)

(* Every delay is a number of clock units: Delay never leaves the ladder.  *)
LEMMA DelayType ==
  ASSUME NEW n \in Nat PROVE Delay(n) \in Nat
<1>1. Backoff \in Seq(Nat) /\ Len(Backoff) \in Nat /\ Len(Backoff) # 0
  BY PolicyAssumption
<1>2. CASE n >= Len(Backoff)
  BY <1>1, <1>2 DEF Delay
<1>3. CASE ~(n >= Len(Backoff))
  BY <1>1, <1>3 DEF Delay
<1>4. QED BY <1>2, <1>3

(* Only SENT is completed: the switch of process.                          *)
LEMMA CompleteIsSent ==
  ASSUME NEW w \in Workers, Decides(w, "complete") PROVE answer[w] = "SENT"
BY DEF Decides, Decision

(* The transition of finish, row by row.                                   *)
LEMMA FinishRow ==
  ASSUME NEW d \in Ids, NEW status \in Statuses, NEW next \in Nat,
         row \in [Ids -> Row], clock \in Nat, Finish(d, status, next)
  PROVE  /\ row' \in [Ids -> Row]
         /\ \A e \in Ids :
              \/ row'[e] = row[e]
              \/ /\ row[e].status # "absent"
                 /\ e = d
                 /\ row'[e].status = status
                 /\ row'[e].created = row[e].created
<1>1. CASE row[d].status = "absent"
  BY <1>1 DEF Finish
<1>2. CASE row[d].status # "absent"
  <2>1. row' = [row EXCEPT ![d].status = status, ![d].attempts = @ + 1,
                           ![d].next = next, ![d].updated = clock]
    BY <1>2 DEF Finish
  <2>2. row'[d] = [row[d] EXCEPT !.status = status, !.attempts = @ + 1,
                                 !.next = next, !.updated = clock]
    BY <2>1
  <2>3. row[d] \in Row
    OBVIOUS
  <2>4. row'[d] = [status |-> status, attempts |-> row[d].attempts + 1, next |-> next,
                   created |-> row[d].created, updated |-> clock,
                   claimed |-> row[d].claimed]
    BY <2>2, <2>3 DEF Row
  <2>5. row'[d] \in Row /\ row'[d].status = status /\ row'[d].created = row[d].created
    BY <2>3, <2>4 DEF Row
  <2>6. /\ DOMAIN row' = Ids /\ \A e \in Ids \ {d} : row'[e] = row[e]
        /\ row' = [e \in Ids |-> row'[e]]
    BY <2>1
  <2>7. QED BY <1>2, <2>5, <2>6
<1>3. QED BY <1>1, <1>2

(* The transition of Claim, row by row.                                    *)
LEMMA TakenRow ==
  ASSUME row \in [Ids -> Row], clock \in Nat, NEW S \in SUBSET Ids,
         row' = TakenInFlight(S)
  PROVE  /\ row' \in [Ids -> Row]
         /\ \A d \in Ids \ S : row'[d] = row[d]
         /\ \A d \in S : /\ row'[d].status = "sending"
                         /\ row'[d].claimed = clock
                         /\ row'[d].created = row[d].created
<1>1. ASSUME NEW d \in S
      PROVE  /\ row'[d] \in Row
             /\ row'[d].status = "sending" /\ row'[d].claimed = clock
             /\ row'[d].created = row[d].created
  <2>1. row[d] \in Row
    OBVIOUS
  <2>2. row'[d] = [row[d] EXCEPT !.status = "sending",
                                 !.updated = clock, !.claimed = clock]
    BY DEF TakenInFlight
  <2>3. row'[d] = [status |-> "sending", attempts |-> row[d].attempts,
                   next |-> row[d].next, created |-> row[d].created,
                   updated |-> clock, claimed |-> clock]
    BY <2>1, <2>2 DEF Row
  <2>4. QED BY <2>1, <2>3 DEF Row, Statuses
<1>2. ASSUME NEW d \in Ids \ S PROVE row'[d] = row[d]
  BY DEF TakenInFlight
<1>3. row' = [d \in Ids |-> row'[d]]
  BY DEF TakenInFlight
<1>4. row' \in [Ids -> Row]
  BY <1>1, <1>2, <1>3
<1>5. QED BY <1>1, <1>2, <1>4

(* The transition of Release on a row in flight.                           *)
LEMMA RequeueRow ==
  ASSUME NEW d \in Ids, NEW next \in Nat, row \in [Ids -> Row], clock \in Nat,
         row' = [row EXCEPT ![d].status = "queued", ![d].updated = clock,
                            ![d].next = next]
  PROVE  /\ row' \in [Ids -> Row]
         /\ \A e \in Ids \ {d} : row'[e] = row[e]
         /\ row'[d].status = "queued" /\ row'[d].created = row[d].created
<1>1. row[d] \in Row
  OBVIOUS
<1>2. row'[d] = [row[d] EXCEPT !.status = "queued", !.updated = clock, !.next = next]
  OBVIOUS
<1>3. row'[d] = [status |-> "queued", attempts |-> row[d].attempts, next |-> next,
                 created |-> row[d].created, updated |-> clock,
                 claimed |-> row[d].claimed]
  BY <1>1, <1>2 DEF Row
<1>4. row'[d] \in Row /\ row'[d].status = "queued" /\ row'[d].created = row[d].created
  BY <1>1, <1>3 DEF Row, Statuses
<1>5. DOMAIN row' = Ids /\ row' = [e \in Ids |-> row'[e]]
  OBVIOUS
<1>6. QED BY <1>4, <1>5

(* The transition of Replay on a dead letter.                              *)
LEMMA ReplayRow ==
  ASSUME NEW d \in Ids, row \in [Ids -> Row], clock \in Nat,
         row' = [row EXCEPT ![d].status = "queued", ![d].attempts = 0,
                            ![d].next = clock, ![d].claimed = 0,
                            ![d].updated = clock]
  PROVE  /\ row' \in [Ids -> Row]
         /\ \A e \in Ids \ {d} : row'[e] = row[e]
         /\ row'[d].status = "queued" /\ row'[d].created = row[d].created
<1>1. row[d] \in Row
  OBVIOUS
<1>2. row'[d] = [row[d] EXCEPT !.status = "queued", !.attempts = 0, !.next = clock,
                               !.claimed = 0, !.updated = clock]
  OBVIOUS
<1>3. row'[d] = [status |-> "queued", attempts |-> 0, next |-> clock,
                 created |-> row[d].created, updated |-> clock, claimed |-> 0]
  BY <1>1, <1>2 DEF Row
<1>4. row'[d] \in Row /\ row'[d].status = "queued" /\ row'[d].created = row[d].created
  BY <1>1, <1>3 DEF Row, Statuses
<1>5. DOMAIN row' = Ids /\ row' = [e \in Ids |-> row'[e]]
  OBVIOUS
<1>6. QED BY <1>4, <1>5

-----------------------------------------------------------------------------
(* Types.                                                                  *)

LEMMA TypeInit == Init => TypeInv
BY DEF Init, TypeInv, TypeOK, JobOK, Busy, Row, NoRow, Statuses, Outcomes

LEMMA TypeEnqueuing == TypeInv /\ Enqueuing => TypeInv'
<1> SUFFICES ASSUME TypeInv, NEW r \in Requests,
                    \/ Begin(r) \/ (\E d \in Ids : PutBody(r, d))
                    \/ PutFails(r) \/ InsertRows(r) \/ InsertFails(r)
             PROVE  TypeInv'
  BY DEF Enqueuing
<1> USE DEF TypeInv, TypeOK, JobOK, Busy, workerVars, historyVars
<1>0. r \subseteq Ids
  BY QueueAssumption
<1>1. CASE Begin(r)
  BY <1>0, <1>1 DEF Begin
<1>2. ASSUME NEW d \in Ids, PutBody(r, d) PROVE TypeInv'
  BY <1>2 DEF PutBody
<1>3. CASE PutFails(r)
  BY <1>3 DEF PutFails, Mishap
<1>4. CASE InsertRows(r)
  BY <1>4 DEF InsertRows, Row, Statuses
<1>5. CASE InsertFails(r)
  BY <1>5 DEF InsertFails, Mishap
<1>6. QED BY <1>1, <1>2, <1>3, <1>4, <1>5

LEMMA TypeWorking ==
  ASSUME NEW w \in Workers PROVE TypeInv /\ Working(w) => TypeInv'
<1> SUFFICES ASSUME TypeInv, Working(w) PROVE TypeInv'
  OBVIOUS
<1> USE DEF TypeInv, TypeOK, JobOK, Busy, workerVars, historyVars
<1>1. CASE Claim(w)
  <2>1. PICK S \in SUBSET Due :
          /\ hand' = [hand EXCEPT ![w] = {SnapshotOf(d) : d \in S}]
          /\ row' = TakenInFlight(S)
    BY <1>1 DEF Claim
  <2>2. S \subseteq Ids
    BY DEF Due
  <2>3. {SnapshotOf(d) : d \in S} \subseteq Snapshot
    BY <2>2 DEF SnapshotOf, Snapshot, Row
  <2>4. hand' \in [Workers -> SUBSET Snapshot]
    BY <2>1, <2>3
  <2>5. row' \in [Ids -> Row]
    BY <2>1, <2>2, TakenRow
  <2>6. /\ pc' = [pc EXCEPT ![w] = "next"]
        /\ UNCHANGED <<clock, running, body, req, job, since, answer, checked,
                       mishaps, replays, historyVars>>
    BY <1>1 DEF Claim
  <2>7. QED BY <2>4, <2>5, <2>6
<1>2. CASE Load(w)
  <2>1. PICK s \in hand[w] :
          /\ hand' = [hand EXCEPT ![w] = @ \ {s}]
          /\ job' = [job EXCEPT ![w] = s]
          /\ \/ /\ pc' = [pc EXCEPT ![w] = "call"]
                /\ since' = [since EXCEPT ![w] = clock]
                /\ UNCHANGED answer
             \/ /\ pc' = [pc EXCEPT ![w] = "record"]
                /\ answer' = [answer EXCEPT ![w] = "PAYLOAD_MISSING"]
                /\ UNCHANGED since
    BY <1>2 DEF Load, Foremost
  <2>2. s \in Snapshot
    OBVIOUS
  <2>3. /\ hand' \in [Workers -> SUBSET Snapshot]
        /\ job' \in [Workers -> Snapshot \cup {None}]
    BY <2>1, <2>2
  <2>4. /\ pc' \in [Workers -> {"poll", "next", "call", "record", "discard"}]
        /\ answer' \in [Workers -> Outcomes]
        /\ since' \in [Workers -> Nat]
    BY <2>1 DEF Outcomes
  <2>5. JobOK'
    BY <2>1, <2>2
  <2>6. mishaps' \in Nat
    <3>1. UNCHANGED mishaps \/ Mishap
      BY <1>2 DEF Load
    <3>2. QED BY <3>1 DEF Mishap
  <2>7. QED BY <1>2, <2>3, <2>4, <2>5, <2>6 DEF Load
<1>3. ASSUME NEW c \in Answers, Answer(w, c) PROVE TypeInv'
  <2>1. job[w].id \in Ids /\ c \in Outcomes
    BY <1>3, QueueAssumption DEF Answer, Outcomes, Snapshot
  <2>2. confirmed' \in [Ids -> Nat]
    BY <1>3, <2>1 DEF Answer
  <2>3. answer' \in [Workers -> Outcomes]
    BY <1>3, <2>1 DEF Answer
  <2>4. QED BY <1>3, <2>2, <2>3 DEF Answer
<1>4. CASE Complete(w)
  <2>1. job[w].id \in Ids
    BY <1>4 DEF Complete, Decides, Snapshot
  <2>2. row' \in [Ids -> Row]
    BY <1>4, <2>1, FinishRow DEF Complete, Statuses
  <2>3. QED BY <1>4, <2>2 DEF Complete, Decides
<1>5. CASE DeadLetter(w)
  <2>1. job[w].id \in Ids
    BY <1>5 DEF DeadLetter, Decides, Snapshot
  <2>2. row' \in [Ids -> Row]
    BY <1>5, <2>1, FinishRow DEF DeadLetter, Statuses
  <2>3. QED BY <1>5, <2>2 DEF DeadLetter, NextItem, Outcomes
<1>6. CASE Reschedule(w)
  <2>1. job[w].id \in Ids /\ job[w].attempts \in Nat
    BY <1>6 DEF Reschedule, Decides, Snapshot
  <2>2. RetryAt(job[w].attempts + 1, clock) \in Nat
    BY <2>1, DelayType DEF RetryAt
  <2>3. row' \in [Ids -> Row]
    BY <1>6, <2>1, <2>2, FinishRow DEF Reschedule, Statuses
  <2>4. QED BY <1>6, <2>3 DEF Reschedule, NextItem, Outcomes
<1>7. CASE Release(w)
  <2>1. job[w].id \in Ids
    BY <1>7 DEF Release, Decides, Snapshot
  <2>2. row' \in [Ids -> Row]
    <3>1. CASE row[job[w].id].status = "sending"
      <4> DEFINE d == job[w].id
      <4>1. row' = [row EXCEPT ![d].status = "queued", ![d].updated = clock,
                               ![d].next = clock + ReleaseDelay]
        BY <1>7, <3>1 DEF Release
      <4>2. clock + ReleaseDelay \in Nat
        BY QueueAssumption
      <4>3. QED BY <2>1, <4>1, <4>2, RequeueRow
    <3>2. QED BY <1>7, <3>1 DEF Release
  <2>3. QED BY <1>7, <2>2 DEF Release, NextItem, Outcomes
<1>8. CASE WriteFails(w)
  BY <1>8 DEF WriteFails, Mishap, NextItem, Outcomes
<1>9. CASE Discard(w)
  BY <1>9 DEF Discard, NextItem, Outcomes
<1>10. CASE DiscardFails(w)
  BY <1>10 DEF DiscardFails, Mishap, NextItem, Outcomes
<1>11. CASE GiveBack(w)
  BY <1>11 DEF GiveBack, Foremost
<1>12. QED
  BY <1>1, <1>2, <1>3, <1>4, <1>5, <1>6, <1>7, <1>8, <1>9, <1>10, <1>11
  DEF Working

LEMMA RecoveredType ==
  ASSUME row \in [Ids -> Row], clock \in Nat
  PROVE  /\ Recovered \in [Ids -> Row]
         /\ \A d \in Ids : \/ Recovered[d] = row[d]
                           \/ /\ row[d].status = "sending"
                              /\ Recovered[d].status = "queued"
                              /\ Recovered[d].created = row[d].created
BY DEF Recovered, Expired, Row, Statuses

LEMMA TypeProcess ==
  TypeInv /\ (Stop \/ Crash \/ Exit \/ Restart \/ Recover) => TypeInv'
<1> USE DEF TypeInv, TypeOK, JobOK, Busy, workerVars, historyVars
<1>1. TypeInv /\ Stop => TypeInv'
  BY DEF Stop, Mishap
<1>2. TypeInv /\ Gone /\ mishaps' \in Nat => TypeInv'
  BY DEF Gone, Outcomes
<1>3. TypeInv /\ (Crash \/ Exit) => TypeInv'
  BY <1>2 DEF Crash, Exit, Mishap
<1>4. TypeInv /\ (Restart \/ Recover) => TypeInv'
  BY RecoveredType DEF Restart, Recover, Mishap
<1>5. QED BY <1>1, <1>3, <1>4

LEMMA TypeOthers ==
  TypeInv /\ (PruneRows \/ PruneBodies \/ Replaying \/ Tick) => TypeInv'
<1> USE DEF TypeInv, TypeOK, JobOK, Busy, workerVars, historyVars
<1>1. TypeInv /\ PruneRows => TypeInv'
  BY DEF PruneRows, Row, NoRow, Statuses
<1>2. TypeInv /\ PruneBodies => TypeInv'
  BY DEF PruneBodies
<1>3. ASSUME NEW d \in Ids PROVE TypeInv /\ ReplayCheck(d) => TypeInv'
  BY DEF ReplayCheck
<1>4. ASSUME NEW d \in Ids PROVE TypeInv /\ Replay(d) => TypeInv'
  <2>1. CASE Replay(d) /\ row[d].status = "failed"
    <3>1. row' = [row EXCEPT ![d].status = "queued", ![d].attempts = 0,
                             ![d].next = clock, ![d].claimed = 0,
                             ![d].updated = clock]
      BY <2>1 DEF Replay
    <3>2. TypeInv => row' \in [Ids -> Row]
      BY <3>1, ReplayRow
    <3>3. QED BY <2>1, <3>2 DEF Replay
  <2>2. CASE Replay(d) /\ row[d].status # "failed"
    BY <2>2 DEF Replay
  <2>3. QED BY <2>1, <2>2
<1>5. TypeInv /\ Tick => TypeInv'
  BY DEF Tick
<1>6. QED BY <1>1, <1>2, <1>3, <1>4, <1>5 DEF Replaying

LEMMA TypeStep == TypeInv /\ [Next]_vars => TypeInv'
<1>1. TypeInv /\ UNCHANGED vars => TypeInv'
  BY DEF TypeInv, TypeOK, JobOK, Busy, vars, workerVars, historyVars
<1>2. QED
  BY <1>1, TypeEnqueuing, TypeWorking, TypeProcess, TypeOthers DEF Next

(* The variables keep their types, and a worker that is processing has a   *)
(* delivery to process.                                                    *)
THEOREM TypeCorrect == Spec => []TypeOK
<1>1. Spec => []TypeInv
  BY TypeInit, TypeStep, PTL DEF Spec
<1>2. TypeInv => TypeOK
  BY DEF TypeInv
<1>3. QED BY <1>1, <1>2, PTL

-----------------------------------------------------------------------------
(* Safety.  Rows move and workers' hands shrink in most actions the same   *)
(* way; the two lemmas say what suffices.                                  *)

(* A row is deleted, or keeps its creation time and enters "sent" or       *)
(* "sending" only with what these states promise.                          *)
RowMoves ==
  \A d \in Ids :
    \/ row'[d] = row[d]
    \/ row'[d].status = "absent"
    \/ /\ row[d].status # "absent"
       /\ row'[d].created = row[d].created
       /\ row'[d].status = "sent" => confirmed[d] > 0
       /\ row'[d].status = "sending" =>
            row'[d].claimed > 0 /\ row'[d].claimed <= clock

LEMMA RowsMove ==
  ASSUME TypeInv, RowInv, RowMoves, UNCHANGED <<clock, body, req, confirmed>>
  PROVE  RowInv'
<1> USE DEF RowInv, RowMoves
<1>0. \A r \in Requests : \A d \in r : d \in Ids
  BY QueueAssumption
<1>1. RefusedIsNeverSent'
  BY <1>0 DEF RefusedIsNeverSent
<1>2. BodyNotOlder'
  BY DEF BodyNotOlder
<1>3. WrittenIsThere'
  BY DEF WrittenIsThere
<1>4. NothingLost'
  BY DEF NothingLost
<1>5. SentMeansConfirmed'
  BY DEF SentMeansConfirmed
<1>6. InFlightIsClaimed'
  BY DEF InFlightIsClaimed
<1>7. QED BY <1>1, <1>2, <1>3, <1>4, <1>5, <1>6

LEMMA HandsShrink ==
  ASSUME TypeInv, HandInv,
         \A w \in Workers : Holds(w)' \subseteq Holds(w),
         \A w \in Workers : Owes(w)' => Owes(w) /\ job'[w] = job[w],
         \A r \in Requests : req[r].phase = "accepted" => req'[r].phase = "accepted",
         \A d \in Ids : confirmed[d] > 0 => confirmed'[d] > 0
  PROVE  HandInv'
<1>1. HeldWasAccepted'
  BY DEF HandInv, HeldWasAccepted
<1>2. ASSUME NEW w \in Workers, Owes(w)' PROVE confirmed'[job'[w].id] > 0
  <2>1. Owes(w) /\ job'[w] = job[w]
    BY <1>2
  <2>2. job[w].id \in Ids
    BY <2>1 DEF Owes, TypeInv, JobOK, Busy, Snapshot
  <2>3. QED BY <2>1, <2>2 DEF HandInv, SentWasConfirmed
<1>3. QED BY <1>1, <1>2 DEF HandInv, SentWasConfirmed

LEMMA InitInv == Init => QueueInv
<1> SUFFICES ASSUME Init PROVE QueueInv
  OBVIOUS
<1>1. RowInv
  BY QueueAssumption DEF Init, RowInv, RefusedIsNeverSent, BodyNotOlder,
     WrittenIsThere, NothingLost, SentMeansConfirmed, InFlightIsClaimed, NoRow
<1>2. HandInv
  BY DEF Init, HandInv, HeldWasAccepted, SentWasConfirmed, Holds, Owes, Busy
<1>3. QED BY <1>1, <1>2, TypeInit DEF QueueInv

(* The calls leave the workers alone, and accept more than they did.       *)
LEMMA HandsKept ==
  ASSUME TypeInv, HandInv, UNCHANGED <<workerVars, confirmed>>,
         \A r \in Requests : req[r].phase = "accepted" => req'[r].phase = "accepted"
  PROVE  HandInv'
BY HandsShrink DEF workerVars, Holds, Owes, Busy

LEMMA InvEnqueuing == QueueInv /\ Enqueuing => QueueInv'
<1> SUFFICES ASSUME QueueInv, NEW r \in Requests,
                    \/ Begin(r) \/ (\E d \in Ids : PutBody(r, d))
                    \/ PutFails(r) \/ InsertRows(r) \/ InsertFails(r)
             PROVE  QueueInv'
  BY DEF Enqueuing
<1>0. /\ TypeInv /\ TypeOK /\ RowInv /\ HandInv
      /\ r \subseteq Ids
      /\ \A q \in Requests : q \subseteq Ids /\ (q # r => q \cap r = {})
      /\ FailedRetention \in Nat
  BY QueueAssumption DEF QueueInv, TypeInv
<1>t. TypeInv'
  BY <1>0, TypeEnqueuing DEF Enqueuing
<1> USE DEF RowInv, historyVars
<1>1. CASE Begin(r)
  <2>1. RowInv'
    BY <1>0, <1>1 DEF Begin, TypeOK, RefusedIsNeverSent, BodyNotOlder,
       WrittenIsThere, NothingLost, SentMeansConfirmed, InFlightIsClaimed
  <2>2. HandInv'
    BY <1>0, <1>1, HandsKept DEF Begin, TypeOK
  <2>3. QED BY <1>t, <2>1, <2>2 DEF QueueInv
<1>2. ASSUME NEW d \in Ids, PutBody(r, d) PROVE QueueInv'
  <2>1. row[d].status = "absent"
    BY <1>0, <1>2 DEF PutBody, RefusedIsNeverSent, WrittenIsThere
  <2>2. BodyNotOlder' /\ NothingLost'
    BY <1>0, <1>2, <2>1 DEF PutBody, TypeOK, BodyNotOlder, NothingLost
  <2>3. WrittenIsThere'
    BY <1>0, <1>2 DEF PutBody, TypeOK, WrittenIsThere
  <2>4. RefusedIsNeverSent' /\ SentMeansConfirmed' /\ InFlightIsClaimed'
    BY <1>0, <1>2
    DEF PutBody, TypeOK, RefusedIsNeverSent, SentMeansConfirmed, InFlightIsClaimed
  <2>5. HandInv'
    BY <1>0, <1>2, HandsKept DEF PutBody, TypeOK
  <2>6. QED BY <1>t, <2>2, <2>3, <2>4, <2>5 DEF QueueInv
<1>3. CASE PutFails(r)
  <2>1. RowInv'
    BY <1>0, <1>3 DEF PutFails, TypeOK, RefusedIsNeverSent, BodyNotOlder,
       WrittenIsThere, NothingLost, SentMeansConfirmed, InFlightIsClaimed
  <2>2. HandInv'
    BY <1>0, <1>3, HandsKept DEF PutFails, TypeOK
  <2>3. QED BY <1>t, <2>1, <2>2 DEF QueueInv
<1>4. CASE InsertRows(r)
  <2>1. /\ \A d \in r : /\ row'[d].status = "queued"
                        /\ row'[d].created = req[r].at
        /\ \A d \in Ids \ r : row'[d] = row[d]
        /\ UNCHANGED <<clock, body, confirmed, workerVars>>
    BY <1>0, <1>4 DEF InsertRows
  <2>2. /\ req[r].phase = "writing" /\ req'[r].phase = "accepted"
        /\ \A q \in Requests \ {r} : req'[q] = req[q]
        /\ \A d \in r : IF body[d] = 0 THEN req[r].at < clock - FailedRetention
                                       ELSE req[r].at <= body[d]
    BY <1>0, <1>4 DEF InsertRows, TypeOK, WrittenIsThere
  <2>3. RefusedIsNeverSent'
    BY <1>0, <2>1, <2>2 DEF RefusedIsNeverSent
  <2>4. BodyNotOlder' /\ NothingLost'
    BY <1>0, <2>1, <2>2 DEF BodyNotOlder, NothingLost
  <2>5. WrittenIsThere'
    BY <1>0, <2>1, <2>2 DEF WrittenIsThere
  <2>6. SentMeansConfirmed' /\ InFlightIsClaimed'
    BY <1>0, <2>1 DEF SentMeansConfirmed, InFlightIsClaimed
  <2>7. HandInv'
    BY <1>0, <2>1, <2>2, HandsKept
  <2>8. QED BY <1>t, <2>3, <2>4, <2>5, <2>6, <2>7 DEF QueueInv
<1>5. CASE InsertFails(r)
  <2>1. \A d \in r : row[d].status = "absent"
    BY <1>0, <1>5 DEF InsertFails, RefusedIsNeverSent
  <2>2. BodyNotOlder' /\ NothingLost'
    BY <1>0, <1>5, <2>1 DEF InsertFails, TypeOK, BodyNotOlder, NothingLost
  <2>3. WrittenIsThere'
    BY <1>0, <1>5 DEF InsertFails, TypeOK, WrittenIsThere
  <2>4. RefusedIsNeverSent' /\ SentMeansConfirmed' /\ InFlightIsClaimed'
    BY <1>0, <1>5 DEF InsertFails, TypeOK, RefusedIsNeverSent,
       SentMeansConfirmed, InFlightIsClaimed
  <2>5. HandInv'
    BY <1>0, <1>5, HandsKept DEF InsertFails, TypeOK
  <2>6. QED BY <1>t, <2>2, <2>3, <2>4, <2>5 DEF QueueInv
<1>6. QED BY <1>1, <1>2, <1>3, <1>4, <1>5

(* finish, in the invariant's terms.                                       *)
LEMMA FinishMoves ==
  ASSUME NEW d \in Ids, NEW status \in {"queued", "sent", "failed"}, NEW next \in Nat,
         TypeInv, Finish(d, status, next), status = "sent" => confirmed[d] > 0
  PROVE  RowMoves
BY FinishRow DEF TypeInv, TypeOK, RowMoves, Statuses

LEMMA InvWorking ==
  ASSUME NEW w \in Workers PROVE QueueInv /\ Working(w) => QueueInv'
<1> SUFFICES ASSUME QueueInv, Working(w) PROVE QueueInv'
  OBVIOUS
<1>0. TypeInv /\ TypeOK /\ JobOK /\ RowInv /\ HandInv
  BY DEF QueueInv, TypeInv
<1>t. TypeInv'
  BY <1>0, TypeWorking
<1> USE DEF workerVars, historyVars
<1>1. CASE Claim(w)
  <2>1. PICK S \in SUBSET Due :
          /\ hand' = [hand EXCEPT ![w] = {SnapshotOf(d) : d \in S}]
          /\ row' = TakenInFlight(S)
    BY <1>1 DEF Claim
  <2>2. \A d \in S : d \in Ids /\ row[d].status = "queued"
    BY DEF Due
  <2>3. RowMoves
    BY <1>0, <2>1, <2>2, TakenRow DEF TypeOK, RowMoves
  <2>4. /\ pc[w] = "poll" /\ pc' = [pc EXCEPT ![w] = "next"]
        /\ UNCHANGED <<clock, body, req, job, answer, confirmed>>
    BY <1>1 DEF Claim
  <2>5. RowInv'
    BY <1>0, <2>3, <2>4, RowsMove
  <2>6. ASSUME NEW v \in Workers, NEW s \in Holds(v)', NEW r \in Requests, s.id \in r
        PROVE  req'[r].phase = "accepted"
    <3>1. CASE v = w
      <4>1. PICK d \in S : s = SnapshotOf(d)
        BY <1>0, <2>1, <2>4, <2>6, <3>1 DEF TypeOK, Holds, Busy
      <4>2. s.id = d
        BY <4>1 DEF SnapshotOf
      <4>3. QED
        BY <1>0, <2>2, <2>4, <2>6, <4>2 DEF RowInv, RefusedIsNeverSent
    <3>2. CASE v # w
      <4>1. Holds(v)' = Holds(v)
        BY <1>0, <2>1, <2>4, <3>2 DEF TypeOK, Holds, Busy
      <4>2. QED BY <1>0, <2>4, <2>6, <4>1 DEF HandInv, HeldWasAccepted
    <3>3. QED BY <3>1, <3>2
  <2>7. SentWasConfirmed'
    BY <1>0, <2>4 DEF TypeOK, HandInv, SentWasConfirmed, Owes
  <2>8. QED
    BY <1>t, <2>5, <2>6, <2>7 DEF QueueInv, HandInv, HeldWasAccepted
<1>2. CASE Load(w)
  <2>1. PICK s \in hand[w] :
          /\ hand' = [hand EXCEPT ![w] = @ \ {s}]
          /\ job' = [job EXCEPT ![w] = s]
          /\ \/ /\ pc' = [pc EXCEPT ![w] = "call"]
                /\ UNCHANGED answer
             \/ /\ pc' = [pc EXCEPT ![w] = "record"]
                /\ answer' = [answer EXCEPT ![w] = "PAYLOAD_MISSING"]
    BY <1>2 DEF Load, Foremost
  <2>2. UNCHANGED <<clock, row, body, req, confirmed>>
    BY <1>2 DEF Load
  <2>3. RowInv'
    BY <1>0, <2>2, RowsMove DEF RowMoves
  <2>4. \A v \in Workers : Holds(v)' \subseteq Holds(v)
    BY <1>0, <2>1 DEF TypeOK, Holds, Busy
  <2>5. \A v \in Workers : Owes(v)' => Owes(v) /\ job'[v] = job[v]
    BY <1>0, <2>1 DEF TypeOK, Owes
  <2>6. HandInv'
    BY <1>0, <2>2, <2>4, <2>5, HandsShrink
  <2>7. QED BY <1>t, <2>3, <2>6 DEF QueueInv
<1>3. ASSUME NEW c \in Answers, Answer(w, c) PROVE QueueInv'
  <2> DEFINE d == job[w].id
  <2>1. /\ pc[w] = "call" /\ pc' = [pc EXCEPT ![w] = "record"]
        /\ answer' = [answer EXCEPT ![w] = c]
        /\ confirmed' = [confirmed EXCEPT ![d] = @ + IF c = "SENT" THEN 1 ELSE 0]
        /\ UNCHANGED <<clock, row, body, req, hand, job>>
    BY <1>3 DEF Answer
  <2>2. d \in Ids /\ job[w] \in Holds(w)
    BY <1>0, <2>1 DEF JobOK, Busy, Snapshot, Holds
  <2>3. /\ \A e \in Ids : confirmed'[e] >= confirmed[e]
        /\ \A e \in Ids \ {d} : confirmed'[e] = confirmed[e]
        /\ c = "SENT" => confirmed'[d] > 0
    BY <1>0, <2>1, <2>2 DEF TypeOK
  <2>4. \A r \in Requests : d \in r => req[r].phase = "accepted"
    BY <1>0, <2>2 DEF HandInv, HeldWasAccepted
  <2>5. RefusedIsNeverSent'
    <3>1. \A r \in Requests : r \subseteq Ids
      BY QueueAssumption
    <3>2. QED BY <1>0, <2>1, <2>3, <2>4, <3>1 DEF RowInv, RefusedIsNeverSent
  <2>6. /\ \A e \in Ids : confirmed[e] \in Nat /\ confirmed'[e] \in Nat
        /\ \A e \in Ids : confirmed[e] > 0 => confirmed'[e] > 0
    BY <1>0, <1>t, <2>3 DEF TypeInv, TypeOK
  <2>7. /\ BodyNotOlder' /\ WrittenIsThere' /\ NothingLost'
        /\ SentMeansConfirmed' /\ InFlightIsClaimed'
    BY <1>0, <2>1, <2>6 DEF RowInv, BodyNotOlder, WrittenIsThere, NothingLost,
       SentMeansConfirmed, InFlightIsClaimed
  <2>8. \A v \in Workers : Holds(v)' \subseteq Holds(v)
    BY <1>0, <2>1 DEF TypeOK, Holds, Busy
  <2>9. HeldWasAccepted'
    BY <1>0, <2>1, <2>8 DEF HandInv, HeldWasAccepted
  <2>10. ASSUME NEW v \in Workers, Owes(v)' PROVE confirmed'[job'[v].id] > 0
    <3>1. CASE v = w
      BY <1>0, <2>1, <2>3, <2>10, <3>1 DEF TypeOK, Owes
    <3>2. CASE v # w
      <4>1. Owes(v)
        BY <1>0, <2>1, <2>10, <3>2 DEF TypeOK, Owes
      <4>2. job[v].id \in Ids
        BY <1>0, <4>1 DEF Owes, JobOK, Busy, Snapshot
      <4>3. QED BY <1>0, <2>1, <2>6, <4>1, <4>2 DEF HandInv, SentWasConfirmed
    <3>3. QED BY <3>1, <3>2
  <2>11. QED
    BY <1>t, <2>5, <2>7, <2>9, <2>10 DEF QueueInv, RowInv, HandInv, SentWasConfirmed
<1> DEFINE d == job[w].id
<1>4. CASE Complete(w)
  <2>1. d \in Ids /\ Owes(w)
    BY <1>0, <1>4, CompleteIsSent
    DEF Complete, Decides, Owes, JobOK, Busy, Snapshot
  <2>2. RowMoves
    BY <1>0, <1>4, <2>1, FinishMoves
    DEF Complete, TypeOK, HandInv, SentWasConfirmed
  <2>3. RowInv'
    BY <1>0, <1>4, <2>2, RowsMove DEF Complete
  <2>4. \A v \in Workers : Holds(v)' \subseteq Holds(v)
    BY <1>0, <1>4 DEF Complete, Decides, TypeOK, Holds, Busy
  <2>5. \A v \in Workers : Owes(v)' => Owes(v) /\ job'[v] = job[v]
    BY <1>0, <1>4, <2>1 DEF Complete, TypeOK, Owes
  <2>6. HandInv'
    BY <1>0, <1>4, <2>4, <2>5, HandsShrink DEF Complete
  <2>7. QED BY <1>t, <2>3, <2>6 DEF QueueInv
<1>5. ASSUME RowMoves, NextItem(w), pc[w] = "record",
             UNCHANGED <<clock, body, req, hand, confirmed>>
      PROVE  QueueInv'
  <2>1. RowInv'
    BY <1>0, <1>5, RowsMove
  <2>2. \A v \in Workers : Holds(v)' \subseteq Holds(v)
    BY <1>0, <1>5 DEF NextItem, TypeOK, Holds, Busy
  <2>3. \A v \in Workers : Owes(v)' => Owes(v) /\ job'[v] = job[v]
    BY <1>0, <1>5 DEF NextItem, TypeOK, Owes
  <2>4. HandInv'
    BY <1>0, <1>5, <2>2, <2>3, HandsShrink
  <2>5. QED BY <1>t, <2>1, <2>4 DEF QueueInv
<1>6. CASE DeadLetter(w)
  <2>1. d \in Ids
    BY <1>0, <1>6 DEF DeadLetter, Decides, JobOK, Busy, Snapshot
  <2>2. RowMoves
    BY <1>0, <1>6, <2>1, FinishMoves DEF DeadLetter, TypeOK
  <2>3. QED BY <1>5, <1>6, <2>2 DEF DeadLetter, Decides
<1>7. CASE Reschedule(w)
  <2>1. d \in Ids /\ job[w].attempts \in Nat
    BY <1>0, <1>7 DEF Reschedule, Decides, JobOK, Busy, Snapshot
  <2>2. RetryAt(job[w].attempts + 1, clock) \in Nat
    BY <1>0, <2>1, DelayType DEF RetryAt, TypeOK
  <2>3. RowMoves
    BY <1>0, <1>7, <2>1, <2>2, FinishMoves DEF Reschedule
  <2>4. QED BY <1>5, <1>7, <2>3 DEF Reschedule, Decides
<1>8. CASE Release(w)
  <2>1. d \in Ids
    BY <1>0, <1>8 DEF Release, Decides, JobOK, Busy, Snapshot
  <2>2. CASE row[d].status = "sending"
    <3>1. row' = [row EXCEPT ![d].status = "queued", ![d].updated = clock,
                             ![d].next = clock + ReleaseDelay]
      BY <1>8, <2>2 DEF Release
    <3>2. clock + ReleaseDelay \in Nat
      BY <1>0, QueueAssumption DEF TypeOK
    <3>3. RowMoves
      BY <1>0, <2>1, <2>2, <3>1, <3>2, RequeueRow DEF TypeOK, RowMoves
    <3>4. QED BY <1>5, <1>8, <3>3 DEF Release, Decides
  <2>3. CASE row[d].status # "sending"
    <3>1. RowMoves
      BY <1>8, <2>3 DEF Release, RowMoves
    <3>2. QED BY <1>5, <1>8, <3>1 DEF Release, Decides
  <2>4. QED BY <2>2, <2>3
<1>9. CASE WriteFails(w)
  <2>1. CASE answer[w] = "SENT"
    <3>1. RowInv'
      BY <1>0, <1>9, RowsMove DEF WriteFails, RowMoves
    <3>2. \A v \in Workers : Holds(v)' \subseteq Holds(v)
      BY <1>0, <1>9, <2>1 DEF WriteFails, TypeOK, Holds, Busy
    <3>3. \A v \in Workers : Owes(v)' => Owes(v) /\ job'[v] = job[v]
      BY <1>0, <1>9, <2>1 DEF WriteFails, TypeOK, Owes
    <3>4. HandInv'
      BY <1>0, <1>9, <3>2, <3>3, HandsShrink DEF WriteFails
    <3>5. QED BY <1>t, <3>1, <3>4 DEF QueueInv
  <2>2. CASE answer[w] # "SENT"
    BY <1>5, <1>9, <2>2 DEF WriteFails, RowMoves
  <2>3. QED BY <2>1, <2>2
<1>10. ASSUME Discard(w) \/ DiscardFails(w) PROVE HandInv'
  <2>1. NextItem(w) /\ pc[w] = "discard" /\ UNCHANGED <<req, hand, confirmed>>
    BY <1>10 DEF Discard, DiscardFails
  <2>2. \A v \in Workers : Holds(v)' \subseteq Holds(v)
    BY <1>0, <2>1 DEF NextItem, TypeOK, Holds, Busy
  <2>3. \A v \in Workers : Owes(v)' => Owes(v) /\ job'[v] = job[v]
    BY <1>0, <2>1 DEF NextItem, TypeOK, Owes
  <2>4. QED BY <1>0, <2>1, <2>2, <2>3, HandsShrink
<1>11. CASE Discard(w)
  <2>1. d \in Ids /\ confirmed[d] > 0 /\ job[w] \in Holds(w)
    BY <1>0, <1>11
    DEF Discard, JobOK, Busy, Snapshot, HandInv, SentWasConfirmed, Owes, Holds
  <2>2. /\ body' = [body EXCEPT ![d] = 0]
        /\ UNCHANGED <<clock, row, req, confirmed>>
    BY <1>11 DEF Discard
  <2>3. \A r \in Requests : d \in r => req[r].phase = "accepted"
    BY <1>0, <2>1 DEF HandInv, HeldWasAccepted
  <2>4. BodyNotOlder' /\ NothingLost'
    BY <1>0, <2>1, <2>2 DEF RowInv, BodyNotOlder, NothingLost, TypeOK
  <2>5. WrittenIsThere'
    <3>1. \A r \in Requests : r \subseteq Ids
      BY QueueAssumption
    <3>2. QED BY <1>0, <2>2, <2>3, <3>1 DEF RowInv, WrittenIsThere, TypeOK
  <2>6. RefusedIsNeverSent' /\ SentMeansConfirmed' /\ InFlightIsClaimed'
    BY <1>0, <2>2
    DEF RowInv, RefusedIsNeverSent, SentMeansConfirmed, InFlightIsClaimed
  <2>7. QED BY <1>t, <1>10, <1>11, <2>4, <2>5, <2>6 DEF QueueInv, RowInv
<1>12. CASE DiscardFails(w)
  <2>1. RowInv'
    BY <1>0, <1>12, RowsMove DEF DiscardFails, RowMoves
  <2>2. QED BY <1>t, <1>10, <1>12, <2>1 DEF QueueInv
<1>13. CASE GiveBack(w)
  <2>1. RowInv'
    BY <1>0, <1>13, RowsMove DEF GiveBack, RowMoves
  <2>2. \A v \in Workers : Holds(v)' \subseteq Holds(v)
    BY <1>0, <1>13 DEF GiveBack, Foremost, TypeOK, Holds, Busy
  <2>3. \A v \in Workers : Owes(v)' => Owes(v) /\ job'[v] = job[v]
    BY <1>0, <1>13 DEF GiveBack, Foremost, TypeOK, Owes
  <2>4. HandInv'
    BY <1>0, <1>13, <2>2, <2>3, HandsShrink DEF GiveBack
  <2>5. QED BY <1>t, <2>1, <2>4 DEF QueueInv
<1>14. QED
  BY <1>1, <1>2, <1>3, <1>4, <1>6, <1>7, <1>8, <1>9, <1>11, <1>12, <1>13
  DEF Working

LEMMA InvProcess ==
  QueueInv /\ (Stop \/ Crash \/ Exit \/ Restart \/ Recover) => QueueInv'
<1> SUFFICES ASSUME QueueInv, Stop \/ Crash \/ Exit \/ Restart \/ Recover
             PROVE  QueueInv'
  OBVIOUS
<1>0. TypeInv /\ TypeOK /\ RowInv /\ HandInv
  BY DEF QueueInv, TypeInv
<1>t. TypeInv'
  BY <1>0, TypeProcess
<1> USE DEF historyVars
<1>1. CASE Stop
  <2>1. RowInv'
    BY <1>0, <1>1, RowsMove DEF Stop, RowMoves
  <2>2. HandInv'
    BY <1>0, <1>1, HandsKept DEF Stop
  <2>3. QED BY <1>t, <2>1, <2>2 DEF QueueInv
<1>2. CASE Crash \/ Exit
  <2>1. Gone
    BY <1>2 DEF Crash, Exit
  <2>2. /\ \A r \in Requests :
             \/ req'[r] = req[r]
             \/ (req[r].phase = "writing" /\ req'[r].phase = "rejected")
        /\ UNCHANGED <<clock, row, body, confirmed>>
    BY <1>0, <2>1 DEF Gone, TypeOK
  <2>3. RowInv'
    BY <1>0, <2>2 DEF RowInv, RefusedIsNeverSent, BodyNotOlder, WrittenIsThere,
       NothingLost, SentMeansConfirmed, InFlightIsClaimed
  <2>4. \A w \in Workers : Holds(w)' \subseteq Holds(w)
    BY <2>1 DEF Gone, Holds, Busy
  <2>5. \A w \in Workers : Owes(w)' => Owes(w) /\ job'[w] = job[w]
    BY <2>1 DEF Gone, Owes
  <2>6. HandInv'
    BY <1>0, <2>2, <2>4, <2>5, HandsShrink
  <2>7. QED BY <1>t, <2>3, <2>6 DEF QueueInv
<1>3. CASE Restart \/ Recover
  <2>1. /\ row' = Recovered \/ UNCHANGED row
        /\ UNCHANGED <<clock, body, req, workerVars, confirmed>>
    BY <1>3 DEF Restart, Recover
  <2>2. RowMoves
    BY <1>0, <2>1, RecoveredType DEF TypeOK, RowMoves
  <2>3. RowInv'
    BY <1>0, <2>1, <2>2, RowsMove
  <2>4. HandInv'
    BY <1>0, <2>1, HandsKept
  <2>5. QED BY <1>t, <2>3, <2>4 DEF QueueInv
<1>4. QED BY <1>1, <1>2, <1>3

LEMMA InvOthers ==
  QueueInv /\ (PruneRows \/ PruneBodies \/ Replaying \/ Tick) => QueueInv'
<1> SUFFICES ASSUME QueueInv, PruneRows \/ PruneBodies \/ Replaying \/ Tick
             PROVE  QueueInv'
  OBVIOUS
<1>0. /\ TypeInv /\ TypeOK /\ RowInv /\ HandInv
      /\ \A r \in Requests : r \subseteq Ids
      /\ FailedRetention \in Nat
  BY QueueAssumption DEF QueueInv, TypeInv
<1>t. TypeInv'
  BY <1>0, TypeOthers
<1> USE DEF historyVars
<1>1. HandInv'
  BY <1>0, HandsKept DEF PruneRows, PruneBodies, Replaying, ReplayCheck, Replay, Tick
<1>2. CASE PruneRows
  <2>1. RowMoves
    BY <1>0, <1>2 DEF PruneRows, RowMoves, NoRow
  <2>2. QED BY <1>0, <1>t, <1>1, <1>2, <2>1, RowsMove DEF PruneRows, QueueInv
<1>3. CASE PruneBodies
  <2>1. /\ \A d \in Ids :
             \/ body'[d] = body[d]
             \/ (body'[d] = 0 /\ body[d] < clock - FailedRetention)
        /\ UNCHANGED <<clock, row, req, confirmed>>
    BY <1>0, <1>3 DEF PruneBodies, TypeOK
  <2>2. BodyNotOlder' /\ NothingLost'
    BY <1>0, <2>1 DEF RowInv, BodyNotOlder, NothingLost, TypeOK, Row
  <2>3. WrittenIsThere'
    BY <1>0, <2>1 DEF RowInv, WrittenIsThere, TypeOK
  <2>4. RefusedIsNeverSent' /\ SentMeansConfirmed' /\ InFlightIsClaimed'
    BY <1>0, <2>1
    DEF RowInv, RefusedIsNeverSent, SentMeansConfirmed, InFlightIsClaimed
  <2>5. QED BY <1>t, <1>1, <2>2, <2>3, <2>4 DEF QueueInv, RowInv
<1>4. ASSUME NEW d \in Ids, ReplayCheck(d) \/ Replay(d) PROVE QueueInv'
  <2>1. UNCHANGED <<clock, body, req, confirmed>>
    BY <1>4 DEF ReplayCheck, Replay
  <2>2. CASE Replay(d) /\ row[d].status = "failed"
    <3>1. row' = [row EXCEPT ![d].status = "queued", ![d].attempts = 0,
                             ![d].next = clock, ![d].claimed = 0,
                             ![d].updated = clock]
      BY <2>2 DEF Replay
    <3>2. RowMoves
      BY <1>0, <2>2, <3>1, ReplayRow DEF TypeOK, RowMoves
    <3>3. QED BY <1>0, <1>t, <1>1, <2>1, <3>2, RowsMove DEF QueueInv
  <2>3. CASE UNCHANGED row
    BY <1>0, <1>t, <1>1, <2>1, <2>3, RowsMove DEF QueueInv, RowMoves
  <2>4. QED BY <1>4, <2>2, <2>3 DEF ReplayCheck, Replay
<1>5. CASE Tick
  <2>1. clock' = clock + 1 /\ UNCHANGED <<row, body, req, confirmed>>
    BY <1>5 DEF Tick
  <2>2. NothingLost'
    BY <1>0, <2>1 DEF RowInv, NothingLost, TypeOK, Row
  <2>3. WrittenIsThere'
    BY <1>0, <2>1 DEF RowInv, WrittenIsThere, TypeOK
  <2>4. InFlightIsClaimed'
    BY <1>0, <2>1 DEF RowInv, InFlightIsClaimed, TypeOK, Row
  <2>5. RefusedIsNeverSent' /\ BodyNotOlder' /\ SentMeansConfirmed'
    BY <1>0, <2>1 DEF RowInv, RefusedIsNeverSent, BodyNotOlder, SentMeansConfirmed
  <2>6. QED BY <1>t, <1>1, <2>2, <2>3, <2>4, <2>5 DEF QueueInv, RowInv
<1>6. QED BY <1>2, <1>3, <1>4, <1>5 DEF Replaying

LEMMA InvStep == QueueInv /\ [Next]_vars => QueueInv'
<1>1. QueueInv /\ UNCHANGED vars => QueueInv'
  <2> SUFFICES ASSUME QueueInv, UNCHANGED vars PROVE QueueInv'
    OBVIOUS
  <2>0. TypeInv /\ RowInv /\ HandInv
    BY DEF QueueInv
  <2>1. UNCHANGED <<clock, row, body, req, workerVars, confirmed>>
    BY DEF vars, historyVars
  <2>2. RowInv'
    BY <2>0, <2>1, RowsMove DEF RowMoves
  <2>3. HandInv'
    BY <2>0, <2>1, HandsKept
  <2>4. TypeInv'
    BY <2>0, TypeStep
  <2>5. QED BY <2>2, <2>3, <2>4 DEF QueueInv
<1>2. QED
  BY <1>1, InvEnqueuing, InvWorking, InvProcess, InvOthers DEF Next

(* The inductive invariant holds.                                          *)
LEMMA InvHolds == Spec => []QueueInv
BY InitInv, InvStep, PTL DEF Spec

(* An accepted delivery that is still in the table has its body on disk,   *)
(* or a channel has accepted it, or it has outlived the retention of       *)
(* bodies: for every number of workers and every sequence of mishaps.      *)
THEOREM NothingIsLost == Spec => []NothingLost
<1>1. QueueInv => NothingLost
  BY DEF QueueInv, RowInv
<1>2. QED BY <1>1, InvHolds, PTL

(* "sent" in the table means that a channel accepted the delivery, however *)
(* late or doubly an outcome is recorded.                                  *)
THEOREM SentIsConfirmed == Spec => []SentMeansConfirmed
<1>1. QueueInv => SentMeansConfirmed
  BY DEF QueueInv, RowInv
<1>2. QED BY <1>1, InvHolds, PTL

(* A call that was refused, or not answered yet, has no row and reaches no *)
(* channel.                                                                *)
THEOREM RefusedStaysUnsent == Spec => []RefusedIsNeverSent
<1>1. QueueInv => RefusedIsNeverSent
  BY DEF QueueInv, RowInv
<1>2. QED BY <1>1, InvHolds, PTL

(* Whatever is in flight has a claim time that the sweep's test can        *)
(* outrun.                                                                 *)
THEOREM InFlightCanExpire == Spec => []InFlightIsClaimed
<1>1. QueueInv => InFlightIsClaimed
  BY DEF QueueInv, RowInv
<1>2. QED BY <1>1, InvHolds, PTL

-----------------------------------------------------------------------------
(* Claims that outlast a batch.  The sweep leaves a claim alone until it   *)
(* is older than ClaimTimeout.  A batch of b deliveries of which k are     *)
(* left has spent at most b - k calls since it was claimed; the invariant  *)
(* carries that bound, and with it that no row in a worker's hands is      *)
(* swept and claimed again.                                                *)

Timely == Punctual /\ Batch * DeliverTimeout <= ClaimTimeout

(* The time a batch has taken, at most, when k of it are left.             *)
Used(k) == (Batch - k) * DeliverTimeout

LEMMA UsedFacts ==
  ASSUME NEW k \in Nat, Timely
  PROVE  /\ Used(k) \in Int /\ Used(k + 1) \in Int
         /\ Used(k) = Used(k + 1) + DeliverTimeout
         /\ Used(k) <= ClaimTimeout
         /\ k <= Batch => Used(k) >= 0
<1>1. PICK b \in Nat, t \in Nat : b = Batch /\ t = DeliverTimeout
  BY QueueAssumption
<1>2. (b - k) * t = (b - (k + 1)) * t + t
  OBVIOUS
<1>3. (b - k) * t = b * t - k * t /\ k * t >= 0 /\ k * t \in Nat /\ b * t \in Nat
  OBVIOUS
<1>4. k <= b => (b - k) * t >= 0
  OBVIOUS
<1>5. QED BY <1>1, <1>2, <1>3, <1>4, QueueAssumption DEF Used, Timely

(* What the row says of a delivery is what a snapshot of it says.          *)
Matches(s) ==
  /\ row[s.id].status = "sending"
  /\ row[s.id].claimed = s.claimed
  /\ row[s.id].attempts = s.attempts
  /\ row[s.id].created = s.created

(* A worker's batch: deliveries all different, none of them the one in     *)
(* process(), each as its row says, and on time.                           *)
Fits(w) ==
  LET k == Cardinality(hand[w]) IN
  /\ pc[w] = "poll" => hand[w] = {}
  /\ pc[w] \in {"call", "record"} => \A s \in hand[w] : s.id # job[w].id
  /\ \A s, t \in hand[w] : s.id = t.id => s = t
  /\ IsFiniteSet(hand[w])
  /\ k <= Batch /\ (Busy(w) => k < Batch)
  /\ pc[w] = "call" =>
       /\ clock <= since[w] + DeliverTimeout
       /\ \A s \in Held(w) : since[w] <= s.claimed + Used(k + 1)
  /\ \A s \in Held(w) : clock <= s.claimed + Used(k)
  /\ \A s \in Held(w) : Matches(s)

ClaimInv == (\A w \in Workers : Fits(w)) /\ ClaimIsExclusive

LEMMA HeldType ==
  ASSUME TypeInv, NEW w \in Workers
  PROVE  /\ hand[w] \subseteq Snapshot /\ Held(w) \subseteq Snapshot
         /\ since[w] \in Nat /\ clock \in Nat
         /\ \A s \in Held(w) : s.id \in Ids /\ s.claimed \in Nat /\ s.attempts \in Nat
<1>1. hand[w] \subseteq Snapshot /\ Held(w) \subseteq Snapshot
  BY DEF TypeInv, TypeOK, JobOK, Busy, Held
<1>2. QED BY <1>1 DEF TypeInv, TypeOK, Snapshot

LEMMA ClaimInit == Init => ClaimInv
BY FS_EmptySet, QueueAssumption
   DEF Init, ClaimInv, Fits, ClaimIsExclusive, Held, Busy

-----------------------------------------------------------------------------
(* Who is left alone.                                                      *)

SameClaim(d) ==
  /\ row'[d].status = row[d].status
  /\ row'[d].claimed = row[d].claimed
  /\ row'[d].attempts = row[d].attempts
  /\ row'[d].created = row[d].created

Steady(v) ==
  /\ pc'[v] = pc[v] /\ hand'[v] = hand[v] /\ job'[v] = job[v] /\ since'[v] = since[v]
  /\ clock' = clock
  /\ \A s \in Held(v) : SameClaim(s.id)

LEMMA SteadyFits ==
  ASSUME NEW v \in Workers, Fits(v), Steady(v)
  PROVE  Fits(v)' /\ Held(v)' = Held(v)
<1>1. Held(v)' = Held(v)
  BY DEF Held, Steady
<1>2. \A s \in Held(v) : Matches(s)'
  BY DEF Fits, Matches, Steady, SameClaim
<1>3. Cardinality(hand[v])' = Cardinality(hand[v]) /\ Busy(v)' = Busy(v)
  BY DEF Steady, Busy
<1>4. QED BY <1>1, <1>2, <1>3 DEF Fits, Steady, Used

(* One worker moves, and holds nothing new.                                *)
LEMMA OneMoves ==
  ASSUME ClaimInv, NEW w \in Workers, Fits(w)',
         \A v \in Workers \ {w} : Steady(v),
         \A s \in Held(w)' : s \in Held(w)
  PROVE  ClaimInv'
<1>1. \A v \in Workers : Fits(v)'
  BY SteadyFits DEF ClaimInv
<1>2. \A v \in Workers : \A s \in Held(v)' : s \in Held(v)
  BY SteadyFits DEF ClaimInv
<1>3. QED BY <1>1, <1>2 DEF ClaimInv, ClaimIsExclusive

(* No worker moves.                                                        *)
LEMMA NoneMoves ==
  ASSUME ClaimInv, \A v \in Workers : Steady(v)
  PROVE  ClaimInv'
<1>1. \A v \in Workers : Fits(v)' /\ Held(v)' = Held(v)
  BY SteadyFits DEF ClaimInv
<1>2. QED BY <1>1 DEF ClaimInv, ClaimIsExclusive

(* Nobody moves and no row in flight changes.                              *)
LEMMA RowsInFlightStay ==
  ASSUME TypeInv, ClaimInv, UNCHANGED <<clock, pc, hand, job, since>>,
         \A d \in Ids : row[d].status = "sending" => SameClaim(d) 
  PROVE  ClaimInv'
<1>1. \A v \in Workers : \A s \in Held(v) : s.id \in Ids /\ row[s.id].status = "sending"
  BY HeldType DEF ClaimInv, Fits, Matches
<1>2. \A v \in Workers : Steady(v)
  BY <1>1 DEF Steady
<1>3. QED BY <1>2, NoneMoves

-----------------------------------------------------------------------------
(* The steps of a worker.                                                  *)

(* The snapshots of a claim are as many as its rows, at most.              *)
LEMMA SnapshotsCount ==
  ASSUME NEW S, IsFiniteSet(S)
  PROVE  /\ IsFiniteSet({SnapshotOf(d) : d \in S})
         /\ Cardinality({SnapshotOf(d) : d \in S}) <= Cardinality(S)
<1> DEFINE T == {SnapshotOf(d) : d \in S}
           f == [d \in S |-> SnapshotOf(d)]
<1>1. f \in Surjection(S, T)
  BY DEF Surjection
<1>2. QED BY <1>1, FS_Surjection

LEMMA ClaimClaims ==
  ASSUME Timely, QueueInv, ClaimInv, NEW w \in Workers, Claim(w)
  PROVE  ClaimInv'
<1>0. TypeInv /\ TypeOK
  BY DEF QueueInv, TypeInv
<1>1. PICK S \in SUBSET Due :
        /\ Claimable(S)
        /\ hand' = [hand EXCEPT ![w] = {SnapshotOf(d) : d \in S}]
        /\ row' = TakenInFlight(S)
  BY DEF Claim
<1>2. /\ pc[w] = "poll" /\ pc' = [pc EXCEPT ![w] = "next"]
      /\ UNCHANGED <<clock, job, since>>
  BY DEF Claim
<1>3. \A d \in S : d \in Ids /\ row[d].status = "queued"
  BY DEF Due
<1>4. ASSUME NEW v \in Workers \ {w} PROVE Steady(v) /\ \A s \in Held(v) : s.id \notin S
  <2>1. \A s \in Held(v) : s.id \in Ids \ S
    BY <1>0, <1>3, HeldType DEF ClaimInv, Fits, Matches
  <2>2. \A d \in Ids \ S : row'[d] = row[d]
    BY <1>1 DEF TakenInFlight
  <2>3. QED BY <1>0, <1>1, <1>2, <2>1, <2>2 DEF Steady, SameClaim, TypeOK
<1>5. hand'[w] = {SnapshotOf(d) : d \in S} /\ pc'[w] = "next"
  BY <1>0, <1>1, <1>2 DEF TypeOK
<1>6. Held(w)' = {SnapshotOf(d) : d \in S}
  BY <1>5 DEF Held
<1>7. \A s \in Held(w)' : s.id \in S /\ s.claimed = clock /\ s = SnapshotOf(s.id)
  BY <1>6 DEF SnapshotOf
<1>8. Fits(w)'
  <2>1. IsFiniteSet(S) /\ Cardinality(S) <= Batch /\ Cardinality(S) \in Nat
    BY <1>1, FS_CardinalityType DEF Claimable
  <2>2. IsFiniteSet(hand'[w]) /\ Cardinality(hand'[w]) <= Cardinality(S)
    BY <1>5, <2>1, SnapshotsCount
  <2>3. PICK k \in Nat : k = Cardinality(hand'[w])
    BY <2>2, FS_CardinalityType
  <2>4. k <= Batch
    BY <2>1, <2>2, <2>3, QueueAssumption
  <2>5. Used(k) \in Int /\ Used(k) >= 0
    BY <2>4, UsedFacts
  <2>6. \A s \in Held(w)' : clock <= s.claimed + Used(k)
    BY <1>0, <1>7, <2>5 DEF TypeOK
  <2>7. \A s \in Held(w)' : Matches(s)'
    <3> SUFFICES ASSUME NEW s \in Held(w)' PROVE Matches(s)'
      OBVIOUS
    <3>1. s.id \in S /\ s.claimed = clock /\ s.attempts = row[s.id].attempts
          /\ s.created = row[s.id].created
      BY <1>7 DEF SnapshotOf
    <3>2. s.id \in Ids /\ row[s.id] \in Row
      BY <1>0, <1>3, <3>1 DEF TypeOK
    <3>3. row'[s.id] = [row[s.id] EXCEPT !.status = "sending", !.updated = clock,
                                         !.claimed = clock]
      BY <1>1, <3>1, <3>2 DEF TakenInFlight
    <3>4. QED BY <3>1, <3>2, <3>3 DEF Matches, Row
  <2>8. QED
    BY <1>2, <1>5, <1>6, <1>7, <2>2, <2>3, <2>4, <2>6, <2>7 DEF Fits, Busy, Used
<1>9. \A v \in Workers \ {w} : Fits(v)' /\ Held(v)' = Held(v)
  BY <1>4, SteadyFits DEF ClaimInv
<1>10. QED BY <1>4, <1>7, <1>8, <1>9 DEF ClaimInv, ClaimIsExclusive

LEMMA ClaimLoad ==
  ASSUME Timely, QueueInv, ClaimInv, NEW w \in Workers, Load(w)
  PROVE  ClaimInv'
<1>0. TypeInv /\ TypeOK
  BY DEF QueueInv, TypeInv
<1>1. PICK s \in hand[w] :
        /\ hand' = [hand EXCEPT ![w] = @ \ {s}]
        /\ job' = [job EXCEPT ![w] = s]
        /\ \/ pc' = [pc EXCEPT ![w] = "call"] /\ since' = [since EXCEPT ![w] = clock]
           \/ pc' = [pc EXCEPT ![w] = "record"] /\ UNCHANGED since
  BY DEF Load, Foremost
<1>2. pc[w] = "next" /\ UNCHANGED <<clock, row>>
  BY DEF Load
<1>3. \A v \in Workers \ {w} : Steady(v)
  BY <1>0, <1>1, <1>2 DEF Steady, SameClaim, TypeOK
<1>4. /\ hand'[w] = hand[w] \ {s} /\ job'[w] = s
      /\ \/ pc'[w] = "call" /\ since'[w] = clock
         \/ pc'[w] = "record"
  BY <1>0, <1>1 DEF TypeOK
<1>5. Held(w)' \subseteq Held(w) /\ Held(w) = hand[w]
  BY <1>2, <1>4 DEF Held
<1>6. Fits(w)
  BY DEF ClaimInv
<1>7. PICK n \in Nat : n = Cardinality(hand[w]) /\ n <= Batch
  BY <1>6, FS_CardinalityType DEF Fits
<1>8. PICK k \in Nat : /\ k = Cardinality(hand'[w]) /\ n = k + 1
                       /\ IsFiniteSet(hand'[w])
  <2>1. IsFiniteSet(hand[w])
    BY <1>6 DEF Fits
  <2>2. IsFiniteSet(hand'[w]) /\ Cardinality(hand'[w]) = n - 1
    BY <1>4, <1>7, <2>1, FS_RemoveElement
  <2>3. Cardinality(hand'[w]) \in Nat
    BY <2>2, FS_CardinalityType
  <2>4. QED BY <2>2, <2>3
<1>9. /\ Used(k) \in Int /\ Used(k + 1) \in Int /\ Used(k) = Used(k + 1) + DeliverTimeout
      /\ DeliverTimeout \in Nat /\ clock \in Nat
  BY <1>0, UsedFacts, QueueAssumption DEF TypeOK
<1>10. \A t \in Held(w)' : /\ clock <= t.claimed + Used(k + 1) /\ t.claimed \in Nat
                           /\ clock <= t.claimed + Used(k)
  BY <1>0, <1>5, <1>6, <1>7, <1>8, <1>9, HeldType DEF Fits
<1>11. \A t \in Held(w)' : Matches(t)'
  BY <1>2, <1>5, <1>6 DEF Fits, Matches
<1>12. k < Batch
  BY <1>7, <1>8, QueueAssumption
<1>13. \A t \in hand'[w] : t.id # s.id
  BY <1>4, <1>6 DEF Fits
<1>14. Fits(w)'
  <2>1. pc'[w] = "call" =>
          /\ clock' <= since'[w] + DeliverTimeout
          /\ \A t \in Held(w)' : since'[w] <= t.claimed + Used(k + 1)
    BY <1>2, <1>4, <1>9, <1>10
  <2>2. \A t \in Held(w)' : clock' <= t.claimed + Used(k)
    BY <1>2, <1>10
  <2>3. \A t, u \in hand'[w] : t.id = u.id => t = u
    BY <1>4, <1>6 DEF Fits
  <2>4. k <= Batch /\ pc'[w] # "poll" /\ \A t \in hand'[w] : t.id # job'[w].id
    BY <1>4, <1>12, <1>13, QueueAssumption
  <2>5. QED
    BY <1>8, <1>11, <1>12, <2>1, <2>2, <2>3, <2>4 DEF Fits, Used
<1>15. QED BY <1>3, <1>5, <1>14, OneMoves

(* A worker that has recorded an outcome, or could not.                    *)
LEMMA ClaimDone ==
  ASSUME Timely, QueueInv, ClaimInv, NEW w \in Workers, Busy(w),
         UNCHANGED <<clock, hand>>,
         \A v \in Workers \ {w} : pc'[v] = pc[v] /\ job'[v] = job[v] /\ since'[v] = since[v],
         pc'[w] \in {"poll", "next", "discard"}, pc'[w] = "poll" => hand[w] = {},
         \A d \in Ids \ {job[w].id} : SameClaim(d),
         pc[w] \in {"call", "record"} \/ SameClaim(job[w].id)
  PROVE  ClaimInv'
<1>0. TypeInv /\ TypeOK
  BY DEF QueueInv, TypeInv
<1>1. Fits(w)
  BY DEF ClaimInv
<1>2. ASSUME NEW v \in Workers \ {w} PROVE Steady(v)
  <2>1. \A s \in Held(v) : s.id \in Ids
    BY <1>0, HeldType
  <2>2. pc[w] \in {"call", "record"} => \A s \in Held(v) : s.id # job[w].id
    BY DEF ClaimInv, ClaimIsExclusive, Held
  <2>3. \A s \in Held(v) : SameClaim(s.id)
    BY <2>1, <2>2
  <2>4. QED BY <2>3 DEF Steady
<1>3. Held(w)' = hand[w] /\ hand[w] \subseteq Held(w)
  BY DEF Held
<1>4. \A s \in hand[w] : SameClaim(s.id)
  BY <1>0, <1>1, HeldType DEF Fits, Snapshot
<1>5. \A s \in Held(w)' : Matches(s)'
  BY <1>1, <1>3, <1>4 DEF Fits, Matches, SameClaim
<1>6. Cardinality(hand[w]) \in Nat
  BY <1>1, FS_CardinalityType DEF Fits
<1>7. Fits(w)'
  BY <1>1, <1>3, <1>5, <1>6 DEF Fits, Busy, Used
<1>8. QED BY <1>2, <1>3, <1>7, OneMoves

LEMMA FinishOthers ==
  ASSUME TypeInv, NEW d \in Ids, NEW status, NEW next, Finish(d, status, next)
  PROVE  \A e \in Ids \ {d} : row'[e] = row[e]
BY DEF Finish, TypeInv, TypeOK

LEMMA NextItemMoves ==
  ASSUME TypeInv, NEW w \in Workers, NextItem(w), UNCHANGED since
  PROVE  /\ \A v \in Workers \ {w} : pc'[v] = pc[v] /\ job'[v] = job[v] /\ since'[v] = since[v]
         /\ pc'[w] \in {"poll", "next"} /\ (pc'[w] = "poll" => hand[w] = {})
BY DEF NextItem, TypeInv, TypeOK

LEMMA ClaimWorking ==
  ASSUME Timely, QueueInv, ClaimInv, NEW w \in Workers, Working(w)
  PROVE  ClaimInv'
<1>0. TypeInv /\ TypeOK /\ JobOK /\ Fits(w)
  BY DEF QueueInv, TypeInv, ClaimInv
<1>j. Busy(w) => job[w].id \in Ids
  BY <1>0 DEF JobOK, Snapshot
<1>1. CASE Claim(w)
  BY <1>1, ClaimClaims
<1>2. CASE Load(w)
  BY <1>2, ClaimLoad
<1>3. ASSUME NEW c \in Answers, Answer(w, c) PROVE ClaimInv'
  <2>1. /\ pc[w] = "call" /\ pc' = [pc EXCEPT ![w] = "record"]
        /\ UNCHANGED <<clock, row, hand, job>> /\ since' = [since EXCEPT ![w] = 0]
    BY <1>3 DEF Answer
  <2>2. \A v \in Workers \ {w} : Steady(v)
    BY <1>0, <2>1 DEF Steady, SameClaim, TypeOK
  <2>3. pc'[w] = "record"
    BY <1>0, <2>1 DEF TypeOK
  <2>4. Held(w)' = Held(w)
    BY <2>1, <2>3 DEF Held
  <2>5. \A s \in Held(w)' : Matches(s)'
    BY <1>0, <2>1, <2>4 DEF Fits, Matches
  <2>6. Fits(w)'
    BY <1>0, <2>1, <2>3, <2>4, <2>5 DEF Fits, Busy, Used
  <2>7. QED BY <2>2, <2>4, <2>6, OneMoves
<1>4. CASE Complete(w)
  <2>1. /\ pc[w] = "record" /\ pc' = [pc EXCEPT ![w] = "discard"]
        /\ UNCHANGED <<clock, hand, job, since>> /\ Finish(job[w].id, "sent", clock)
    BY <1>4 DEF Complete, Decides
  <2>2. Busy(w) /\ \A d \in Ids \ {job[w].id} : SameClaim(d)
    BY <1>0, <1>j, <2>1, FinishOthers DEF SameClaim, Busy
  <2>3. QED BY <1>0, <2>1, <2>2, ClaimDone DEF TypeOK
<1>5. CASE DeadLetter(w) \/ Reschedule(w)
  <2>1. pc[w] = "record" /\ NextItem(w) /\ UNCHANGED <<clock, hand, since>>
    BY <1>5 DEF DeadLetter, Reschedule, Decides
  <2>2. \E status, next : Finish(job[w].id, status, next)
    BY <1>5 DEF DeadLetter, Reschedule
  <2>3. Busy(w) /\ \A d \in Ids \ {job[w].id} : SameClaim(d)
    BY <1>0, <1>j, <2>1, <2>2, FinishOthers DEF SameClaim, Busy
  <2>4. QED BY <1>0, <2>1, <2>3, NextItemMoves, ClaimDone
<1>6. CASE Release(w)
  <2>1. pc[w] = "record" /\ NextItem(w) /\ UNCHANGED <<clock, hand, since>>
    BY <1>6 DEF Release, Decides
  <2>2. \A d \in Ids \ {job[w].id} : row'[d] = row[d]
    BY <1>0, <1>6 DEF Release, TypeOK
  <2>3. QED
    BY <1>0, <2>1, <2>2, NextItemMoves, ClaimDone DEF SameClaim, Busy
<1>7. CASE WriteFails(w)
  <2>1. pc[w] = "record" /\ UNCHANGED <<clock, row, hand, since>>
    BY <1>7 DEF WriteFails
  <2>2. \/ NextItem(w)
        \/ pc' = [pc EXCEPT ![w] = "discard"] /\ UNCHANGED job
    BY <1>7 DEF WriteFails
  <2>3. /\ \A v \in Workers \ {w} : pc'[v] = pc[v] /\ job'[v] = job[v] /\ since'[v] = since[v]
        /\ pc'[w] \in {"poll", "next", "discard"} /\ (pc'[w] = "poll" => hand[w] = {})
    BY <1>0, <2>1, <2>2, NextItemMoves DEF TypeOK
  <2>4. QED BY <2>1, <2>3, ClaimDone DEF SameClaim, Busy
<1>8. CASE Discard(w) \/ DiscardFails(w)
  <2>1. pc[w] = "discard" /\ NextItem(w) /\ UNCHANGED <<clock, row, hand, since>>
    BY <1>8 DEF Discard, DiscardFails
  <2>2. QED BY <1>0, <2>1, NextItemMoves, ClaimDone DEF SameClaim, Busy
<1>9. CASE GiveBack(w)
  <2>1. PICK s \in hand[w] :
          /\ hand' = [hand EXCEPT ![w] = @ \ {s}]
          /\ pc' = [pc EXCEPT ![w] = IF hand[w] = {s} THEN "poll" ELSE "next"]
    BY <1>9 DEF GiveBack, Foremost
  <2>2. pc[w] = "next" /\ UNCHANGED <<clock, row, job, since>>
    BY <1>9 DEF GiveBack
  <2>3. \A v \in Workers \ {w} : Steady(v)
    BY <1>0, <2>1, <2>2 DEF Steady, SameClaim, TypeOK
  <2>4. /\ hand'[w] = hand[w] \ {s} /\ pc'[w] \in {"poll", "next"}
        /\ pc'[w] = "poll" => hand'[w] = {}
    BY <1>0, <2>1 DEF TypeOK
  <2>5. Held(w)' = hand'[w] /\ Held(w) = hand[w] /\ Held(w)' \subseteq Held(w)
    BY <2>2, <2>4 DEF Held
  <2>6. PICK n \in Nat : n = Cardinality(hand[w]) /\ n <= Batch
    BY <1>0, FS_CardinalityType DEF Fits
  <2>7. IsFiniteSet(hand[w])
    BY <1>0 DEF Fits
  <2>8. IsFiniteSet(hand'[w]) /\ Cardinality(hand'[w]) = n - 1
    BY <2>4, <2>6, <2>7, FS_RemoveElement
  <2>9. PICK k \in Nat : k = Cardinality(hand'[w]) /\ n = k + 1 /\ k <= Batch
    BY <2>6, <2>8, FS_CardinalityType, QueueAssumption
  <2>10. /\ Used(k) \in Int /\ Used(k + 1) \in Int /\ Used(k) = Used(k + 1) + DeliverTimeout
         /\ DeliverTimeout \in Nat
    BY UsedFacts, QueueAssumption
  <2>11. \A t \in Held(w)' : clock' <= t.claimed + Used(k)
    BY <1>0, <2>2, <2>5, <2>6, <2>9, <2>10, HeldType DEF Fits
  <2>12. \A t \in Held(w)' : Matches(t)'
    BY <1>0, <2>2, <2>5 DEF Fits, Matches
  <2>13. Fits(w)'
    BY <1>0, <2>4, <2>8, <2>9, <2>11, <2>12 DEF Fits, Busy, Used
  <2>14. QED BY <2>3, <2>5, <2>13, OneMoves
<1>10. QED
  BY <1>1, <1>2, <1>3, <1>4, <1>5, <1>6, <1>7, <1>8, <1>9 DEF Working

-----------------------------------------------------------------------------
(* The process, the sweep, retention, calls and replays.                   *)

LEMMA ClaimGone == Gone => ClaimInv'
<1> SUFFICES ASSUME Gone PROVE ClaimInv'
  OBVIOUS
<1>1. \A w \in Workers : pc'[w] = "poll" /\ hand'[w] = {}
  BY DEF Gone
<1>2. \A w \in Workers : Held(w)' = {}
  BY <1>1 DEF Held
<1>3. ClaimIsExclusive'
  BY <1>2 DEF ClaimIsExclusive
<1>4. ASSUME NEW w \in Workers PROVE Fits(w)'
  <2>1. IsFiniteSet({}) /\ Cardinality({}) = 0
    BY FS_EmptySet
  <2>2. pc'[w] = "poll" /\ hand'[w] = {} /\ Held(w)' = {}
    BY <1>1, <1>2
  <2>3. PICK k : k = Cardinality(hand'[w])
    OBVIOUS
  <2>4. k = 0 /\ IsFiniteSet(hand'[w])
    BY <2>1, <2>2, <2>3, Zenon
  <2>5. k <= Batch
    BY <2>4, QueueAssumption
  <2>6. QED BY <2>2, <2>3, <2>4, <2>5 DEF Fits, Busy
<1>5. QED BY <1>3, <1>4 DEF ClaimInv

(* No claim that is still worked on is old enough to be swept.             *)
LEMMA NoneExpired ==
  ASSUME Timely, TypeInv, ClaimInv, NEW w \in Workers, NEW s \in Held(w)
  PROVE  ~Expired(s.id)
<1>1. Fits(w) /\ IsFiniteSet(hand[w])
  BY DEF ClaimInv, Fits
<1>2. PICK k \in Nat : k = Cardinality(hand[w])
  BY <1>1, FS_CardinalityType
<1>3. clock <= s.claimed + Used(k) /\ row[s.id].claimed = s.claimed
  BY <1>1, <1>2 DEF Fits, Matches
<1>4. /\ Used(k) \in Int /\ Used(k) <= ClaimTimeout /\ ClaimTimeout \in Nat
      /\ clock \in Nat /\ s.claimed \in Nat
  BY UsedFacts, HeldType, QueueAssumption
<1>5. QED BY <1>3, <1>4 DEF Expired

LEMMA ClaimRecovered ==
  ASSUME Timely, TypeInv, ClaimInv, row' = Recovered \/ UNCHANGED row,
         UNCHANGED <<clock, workerVars>>
  PROVE  ClaimInv'
<1>1. ASSUME NEW v \in Workers PROVE Steady(v)
  <2>1. \A s \in Held(v) : s.id \in Ids /\ ~Expired(s.id)
    BY HeldType, NoneExpired
  <2>2. \A d \in Ids : ~Expired(d) => row'[d] = row[d]
    BY DEF Recovered
  <2>3. QED BY <2>1, <2>2 DEF Steady, SameClaim, workerVars
<1>2. QED BY <1>1, NoneMoves

LEMMA ClaimTick ==
  ASSUME Timely, TypeInv, ClaimInv, Tick
  PROVE  ClaimInv'
<1>1. /\ \A w \in Workers : InTime(w)
      /\ clock' = clock + 1 /\ UNCHANGED <<row, workerVars>>
  BY DEF Timely, Tick
<1>2. \A w \in Workers : Held(w)' = Held(w)
  BY <1>1 DEF Held, workerVars
<1>3. ASSUME NEW w \in Workers PROVE Fits(w)'
  <2>1. Fits(w) /\ IsFiniteSet(hand[w])
    BY DEF ClaimInv, Fits
  <2>2. \A s \in Held(w)' : Matches(s)'
    BY <1>1, <1>2, <2>1 DEF Fits, Matches
  <2>3. CASE pc[w] = "poll"
    <3>1. Held(w) = {}
      BY <2>1, <2>3 DEF Fits, Held
    <3>2. QED BY <1>1, <1>2, <2>1, <2>3, <3>1 DEF Fits, Busy, workerVars
  <2>4. CASE pc[w] = "call" /\ clock < since[w] + DeliverTimeout
    <3>1. PICK k \in Nat : k = Cardinality(hand[w])
      BY <2>1, FS_CardinalityType
    <3>2. /\ Used(k) \in Int /\ Used(k + 1) \in Int
          /\ Used(k) = Used(k + 1) + DeliverTimeout /\ DeliverTimeout \in Nat
          /\ since[w] \in Nat /\ clock \in Nat
      BY UsedFacts, HeldType, QueueAssumption
    <3>3. clock' <= since'[w] + DeliverTimeout
      BY <1>1, <2>4, <3>2 DEF workerVars
    <3>4. \A s \in Held(w)' : since'[w] <= s.claimed + Used(k + 1) /\ s.claimed \in Nat
      BY <1>1, <1>2, <2>1, <2>4, <3>1, HeldType DEF Fits, workerVars
    <3>5. \A s \in Held(w)' : clock' <= s.claimed + Used(k)
      BY <1>1, <2>4, <3>2, <3>4 DEF workerVars
    <3>6. QED
      BY <1>1, <2>1, <2>2, <3>1, <3>3, <3>4, <3>5 DEF Fits, Busy, Used, workerVars
  <2>5. QED BY <1>1, <2>3, <2>4 DEF InTime
<1>4. QED BY <1>2, <1>3 DEF ClaimInv, ClaimIsExclusive

LEMMA ClaimStep == Timely /\ QueueInv /\ ClaimInv /\ [Next]_vars => ClaimInv'
<1> SUFFICES ASSUME Timely, QueueInv, ClaimInv, [Next]_vars PROVE ClaimInv'
  OBVIOUS
<1>0. TypeInv /\ TypeOK /\ RefusedIsNeverSent
  BY DEF QueueInv, TypeInv, RowInv
<1> USE DEF workerVars, historyVars
<1>1. CASE Enqueuing
  <2>1. PICK r \in Requests :
          \/ Begin(r) \/ (\E d \in Ids : PutBody(r, d))
          \/ PutFails(r) \/ InsertRows(r) \/ InsertFails(r)
    BY <1>1 DEF Enqueuing
  <2>2. UNCHANGED <<clock, workerVars>>
    BY <2>1 DEF Begin, PutBody, PutFails, InsertRows, InsertFails
  <2>3. \A d \in Ids : row[d].status # "absent" => row'[d] = row[d]
    <3>1. CASE InsertRows(r)
      <4>1. \A d \in r : row[d].status = "absent"
        BY <1>0, <3>1 DEF InsertRows, RefusedIsNeverSent
      <4>2. QED BY <3>1, <4>1 DEF InsertRows
    <3>2. CASE ~InsertRows(r)
      BY <2>1, <3>2 DEF Begin, PutBody, PutFails, InsertFails
    <3>3. QED BY <3>1, <3>2
  <2>4. QED BY <1>0, <2>2, <2>3, RowsInFlightStay DEF SameClaim
<1>2. ASSUME NEW w \in Workers, Working(w) PROVE ClaimInv'
  BY <1>2, ClaimWorking
<1>3. CASE Crash \/ Exit
  BY <1>3, ClaimGone DEF Crash, Exit
<1>4. CASE Stop \/ PruneBodies \/ UNCHANGED vars
  BY <1>0, <1>4, RowsInFlightStay DEF Stop, PruneBodies, vars, SameClaim
<1>5. CASE Restart \/ Recover
  BY <1>0, <1>5, ClaimRecovered DEF Restart, Recover
<1>6. CASE PruneRows
  <2>1. \A d \in Ids : row[d].status = "sending" => row'[d] = row[d]
    BY <1>6 DEF PruneRows
  <2>2. QED BY <1>0, <1>6, <2>1, RowsInFlightStay DEF PruneRows, SameClaim
<1>7. CASE Replaying
  <2>1. PICK d \in Ids : ReplayCheck(d) \/ Replay(d)
    BY <1>7 DEF Replaying
  <2>2. \A e \in Ids : row[e].status = "sending" => row'[e] = row[e]
    BY <1>0, <2>1 DEF ReplayCheck, Replay, TypeOK
  <2>3. UNCHANGED <<clock, pc, hand, job, since>>
    BY <2>1 DEF ReplayCheck, Replay
  <2>4. QED BY <1>0, <2>2, <2>3, RowsInFlightStay DEF SameClaim
<1>8. CASE Tick
  BY <1>0, <1>8, ClaimTick
<1>9. QED BY <1>1, <1>2, <1>3, <1>4, <1>5, <1>6, <1>7, <1>8 DEF Next

LEMMA ClaimHolds == ASSUME Timely PROVE Spec => []ClaimInv
<1>1. QueueInv /\ ClaimInv /\ [Next]_vars => ClaimInv'
  BY ClaimStep
<1>2. QED BY <1>1, ClaimInit, InvHolds, PTL DEF Spec

(* Until its outcome is recorded a worker knows a delivery as the table    *)
(* has it, when a claim outlasts a batch and only channel calls take time: *)
(* the sweep never takes a claim that is still worked on.                  *)
THEOREM SnapshotsAreFresh == ASSUME Timely PROVE Spec => []SnapshotFresh
<1>1. ClaimInv => SnapshotFresh
  BY DEF ClaimInv, Fits, Matches, SnapshotFresh
<1>2. QED BY <1>1, ClaimHolds, PTL

(* No delivery is in the hands of two workers, under the same assumption.  *)
THEOREM ClaimsAreExclusive == ASSUME Timely PROVE Spec => []ClaimIsExclusive
<1>1. ClaimInv => ClaimIsExclusive
  BY DEF ClaimInv
<1>2. QED BY <1>1, ClaimHolds, PTL

-----------------------------------------------------------------------------
(* The attempt budget.                                                     *)

(* A worker that is to record an outcome has the row as it is.             *)
LEMMA RecordKnows ==
  ASSUME QueueInv, ClaimInv, NEW w \in Workers, pc[w] \in {"call", "record"}
  PROVE  /\ job[w] \in Held(w) /\ job[w].id \in Ids /\ row[job[w].id] \in Row
         /\ row[job[w].id].status = "sending"
         /\ job[w].attempts = row[job[w].id].attempts
         /\ job[w].attempts \in Nat
<1>1. TypeOK /\ JobOK /\ Fits(w)
  BY DEF QueueInv, TypeInv, ClaimInv
<1>2. job[w] \in Held(w) /\ job[w] \in Snapshot
  BY <1>1 DEF Held, JobOK, Busy
<1>3. Matches(job[w])
  BY <1>1, <1>2 DEF Fits
<1>4. QED BY <1>1, <1>2, <1>3 DEF Matches, Snapshot, TypeOK

(* finish on a row in flight.                                              *)
LEMMA FinishInFlight ==
  ASSUME TypeInv, NEW d \in Ids, NEW status, NEW next, Finish(d, status, next),
         row[d].status = "sending"
  PROVE  /\ row'[d].status = status /\ row'[d].attempts = row[d].attempts + 1
         /\ \A e \in Ids \ {d} : row'[e] = row[e]
<1>1. row \in [Ids -> Row] /\ row[d] \in Row
  BY DEF TypeInv, TypeOK
<1>2. row' = [row EXCEPT ![d].status = status, ![d].attempts = @ + 1,
                         ![d].next = next, ![d].updated = clock]
  BY DEF Finish
<1>3. row'[d] = [row[d] EXCEPT !.status = status, !.attempts = @ + 1,
                               !.next = next, !.updated = clock]
  BY <1>1, <1>2
<1>4. row'[d].status = status /\ row'[d].attempts = row[d].attempts + 1
  BY <1>1, <1>3 DEF Row
<1>5. QED BY <1>1, <1>2, <1>4

(* A delivery that is waiting or in flight has an attempt left.            *)
InBudget(d) ==
  /\ row[d].attempts <= MaxAttempts
  /\ row[d].status \in {"queued", "sending"} => row[d].attempts < MaxAttempts

BudgetInv == \A d \in Ids : InBudget(d)

(* What every step does to a row, as far as the budget goes.               *)
Spends(d) ==
  \/ row'[d] = row[d]
  \/ row'[d].attempts = 0
  \/ /\ row'[d].attempts = row[d].attempts
     /\ row[d].status \in {"queued", "sending"}
  \/ /\ row[d].status = "sending" /\ row'[d].attempts = row[d].attempts + 1
     /\ \/ row'[d].status \in {"sent", "failed"}
        \/ row[d].attempts + 1 < MaxAttempts

LEMMA SpendsBudget ==
  ASSUME TypeInv, BudgetInv, \A d \in Ids : Spends(d)
  PROVE  BudgetInv'
<1> SUFFICES ASSUME NEW d \in Ids PROVE InBudget(d)'
  BY DEF BudgetInv
<1>1. PICK n \in Nat : n = row[d].attempts
  BY DEF TypeInv, TypeOK, Row
<1>2. PICK m \in Nat \ {0} : m = MaxAttempts
  BY PolicyAssumption
<1>3. InBudget(d) /\ Spends(d)
  BY DEF BudgetInv
<1>4. QED BY <1>1, <1>2, <1>3 DEF InBudget, Spends

LEMMA BudgetWorking ==
  ASSUME QueueInv, ClaimInv, NEW w \in Workers, Working(w), NEW d \in Ids
  PROVE  Spends(d)
<1>0. TypeInv /\ TypeOK
  BY DEF QueueInv, TypeInv
<1> DEFINE e == job[w].id
<1>r. pc[w] = "record" =>
        /\ e \in Ids /\ row[e] \in Row /\ row[e].status = "sending"
        /\ job[w].attempts = row[e].attempts /\ job[w].attempts \in Nat
  BY RecordKnows
<1>1. CASE Claim(w)
  <2>1. PICK S \in SUBSET Due : row' = TakenInFlight(S)
    BY <1>1 DEF Claim
  <2>2. CASE d \in S
    <3>1. /\ row[d] \in Row /\ row[d].status = "queued"
          /\ row'[d] = [row[d] EXCEPT !.status = "sending", !.updated = clock,
                                      !.claimed = clock]
      BY <1>0, <2>1, <2>2 DEF TakenInFlight, Due, TypeOK
    <3>2. QED BY <3>1 DEF Spends, Row
  <2>3. QED BY <2>1, <2>2 DEF TakenInFlight, Spends
<1>2. ASSUME UNCHANGED row PROVE Spends(d)
  BY <1>2 DEF Spends
<1>3. CASE Complete(w) \/ DeadLetter(w)
  <2>1. PICK status \in {"sent", "failed"} : Finish(e, status, clock) /\ pc[w] = "record"
    BY <1>3 DEF Complete, DeadLetter, Decides
  <2>2. /\ row'[e].status = status /\ row'[e].attempts = row[e].attempts + 1
        /\ \A i \in Ids \ {e} : row'[i] = row[i]
    BY <1>0, <1>r, <2>1, FinishInFlight
  <2>3. QED BY <1>r, <2>1, <2>2 DEF Spends
<1>4. CASE Reschedule(w)
  <2>1. /\ Finish(e, "queued", RetryAt(job[w].attempts + 1, clock)) /\ pc[w] = "record"
        /\ Decision(job[w], answer[w]) = "reschedule"
    BY <1>4 DEF Reschedule, Decides
  <2>2. ~Exhausted(job[w].attempts + 1, Age(job[w]))
    BY <2>1 DEF Decision
  <2>3. job[w].attempts + 1 < MaxAttempts
    BY <1>r, <2>1, <2>2, PolicyAssumption DEF Exhausted
  <2>4. /\ row'[e].attempts = row[e].attempts + 1
        /\ \A i \in Ids \ {e} : row'[i] = row[i]
    BY <1>0, <1>r, <2>1, FinishInFlight
  <2>5. QED BY <1>r, <2>1, <2>3, <2>4 DEF Spends
<1>5. CASE Release(w)
  <2>1. /\ pc[w] = "record"
        /\ row' = [row EXCEPT ![e].status = "queued", ![e].updated = clock,
                              ![e].next = clock + ReleaseDelay]
    BY <1>5, <1>r DEF Release, Decides
  <2>2. row'[e] = [row[e] EXCEPT !.status = "queued", !.updated = clock,
                                 !.next = clock + ReleaseDelay]
    BY <1>0, <1>r, <2>1 DEF TypeOK
  <2>3. row'[e].attempts = row[e].attempts
    <3>1. row[e] \in Row
      BY <1>r, <2>1
    <3>2. PICK next : next = clock + ReleaseDelay
      OBVIOUS
    <3>3. row'[e] = [row[e] EXCEPT !.status = "queued", !.updated = clock, !.next = next]
      BY <2>2, <3>2
    <3>4. QED BY <3>1, <3>3 DEF Row
  <2>4. QED BY <1>0, <1>r, <2>1, <2>3 DEF Spends, TypeOK
<1>6. QED
  BY <1>1, <1>2, <1>3, <1>4, <1>5
  DEF Working, Load, Answer, WriteFails, Discard, DiscardFails, GiveBack

LEMMA BudgetStep == QueueInv /\ ClaimInv /\ BudgetInv /\ [Next]_vars => BudgetInv'
<1> SUFFICES ASSUME QueueInv, ClaimInv, BudgetInv, [Next]_vars, NEW d \in Ids
             PROVE  Spends(d)
  BY SpendsBudget DEF QueueInv
<1>0. TypeInv /\ TypeOK /\ row[d] \in Row
  BY DEF QueueInv, TypeInv, TypeOK
<1>1. ASSUME UNCHANGED row PROVE Spends(d)
  BY <1>1 DEF Spends
<1>2. CASE Enqueuing
  <2>1. UNCHANGED row \/ \E r \in Requests : InsertRows(r)
    BY <1>2 DEF Enqueuing, Begin, PutBody, PutFails, InsertFails
  <2>2. QED BY <1>1, <2>1 DEF InsertRows, Spends
<1>3. ASSUME NEW w \in Workers, Working(w) PROVE Spends(d)
  BY <1>3, BudgetWorking
<1>4. CASE Restart \/ Recover
  <2>1. UNCHANGED row \/ row' = Recovered
    BY <1>4 DEF Restart, Recover
  <2>2. CASE row' = Recovered /\ Expired(d)
    <3>1. row'[d] = [row[d] EXCEPT !.status = "queued", !.updated = clock]
      BY <2>2 DEF Recovered
    <3>2. QED BY <1>0, <2>2, <3>1 DEF Row, Expired, Spends
  <2>3. QED BY <2>1, <2>2 DEF Recovered, Spends
<1>5. CASE PruneRows
  BY <1>5 DEF PruneRows, NoRow, Spends
<1>6. CASE Replaying
  <2>1. PICK e \in Ids : ReplayCheck(e) \/ Replay(e)
    BY <1>6 DEF Replaying
  <2>2. CASE row' = [row EXCEPT ![e].status = "queued", ![e].attempts = 0,
                                ![e].next = clock, ![e].claimed = 0,
                                ![e].updated = clock]
    <3>1. row'[e] = [row[e] EXCEPT !.status = "queued", !.attempts = 0,
                                   !.next = clock, !.claimed = 0, !.updated = clock]
      BY <1>0, <2>2 DEF TypeOK
    <3>2. row[e] \in Row
      BY <1>0 DEF TypeOK
    <3>3. row'[e].attempts = 0
      BY <3>1, <3>2 DEF Row
    <3>4. QED BY <1>0, <2>2, <3>3 DEF Spends, TypeOK
  <2>3. QED BY <1>1, <2>1, <2>2 DEF ReplayCheck, Replay
<1>7. QED
  BY <1>1, <1>2, <1>3, <1>4, <1>5, <1>6
  DEF Next, Stop, Crash, Exit, Gone, PruneBodies, Tick, vars

LEMMA BudgetInit == Init => BudgetInv
BY PolicyAssumption DEF Init, BudgetInv, InBudget, NoRow

(* No delivery spends more attempts than the policy gives, and what waits  *)
(* has one left to spend: a count taken on a snapshot never overshoots.    *)
THEOREM BudgetIsKept == ASSUME Timely PROVE Spec => []BudgetKept
<1>1. QueueInv /\ ClaimInv /\ BudgetInv /\ [Next]_vars => BudgetInv'
  BY BudgetStep
<1>2. BudgetInv => BudgetKept
  BY DEF BudgetInv, InBudget, BudgetKept
<1>3. QED BY <1>1, <1>2, BudgetInit, ClaimHolds, InvHolds, PTL DEF Spec

-----------------------------------------------------------------------------
(* Sent once.                                                              *)

(* A worker has yet to record that a channel accepted the delivery.        *)
Tells(w, d) == pc[w] = "record" /\ answer[w] = "SENT" /\ job[w].id = d

(* As long as nothing has gone wrong: what a channel accepted it accepted  *)
(* once, and the row says so, or a worker is about to write it.            *)
OnceOf(d) ==
  /\ confirmed[d] <= 1
  /\ confirmed[d] > 0 =>
       \/ row[d].status \in {"sent", "absent"}
       \/ \E w \in Workers : Tells(w, d)

OnceInv ==
  /\ running # "up" => mishaps > 0
  /\ mishaps = 0 => \A d \in Ids : OnceOf(d)

LEMMA OnceInit == Init => OnceInv
BY DEF Init, OnceInv, OnceOf

(* What was accepted and is in neither final state is in somebody's hands. *)
LEMMA ToldIsHeld ==
  ASSUME QueueInv, ClaimInv, NEW w \in Workers, NEW d \in Ids, Tells(w, d)
  PROVE  /\ job[w] \in Held(w) /\ row[d].status = "sending"
         /\ Decision(job[w], answer[w]) = "complete"
BY RecordKnows DEF Tells, Decision

(* A delivery nobody else works on has been accepted by no channel.        *)
LEMMA NotYetAccepted ==
  ASSUME QueueInv, ClaimInv, NEW d \in Ids, OnceOf(d),
         row[d].status \notin {"sent", "absent"},
         \A w \in Workers : ~Tells(w, d)
  PROVE  confirmed[d] = 0
<1>1. confirmed[d] \in Nat
  BY DEF QueueInv, TypeInv, TypeOK
<1>2. QED BY <1>1 DEF OnceOf

(* The row of what was accepted stays, or leaves "sent" for good.          *)
LEMMA OnceStays ==
  ASSUME NEW d \in Ids, OnceOf(d), confirmed'[d] = confirmed[d],
         \A w \in Workers : Tells(w, d) => Tells(w, d)',
         confirmed[d] > 0 => \/ row'[d].status = row[d].status
                             \/ row'[d].status = "absent"
  PROVE  OnceOf(d)'
BY DEF OnceOf

LEMMA OnceWorking ==
  ASSUME QueueInv, ClaimInv, NEW w \in Workers, Working(w), NEW d \in Ids,
         OnceOf(d), running = "up", UNCHANGED mishaps
  PROVE  OnceOf(d)'
<1>0. TypeInv /\ TypeOK
  BY DEF QueueInv, TypeInv
<1> DEFINE e == job[w].id
<1>r. pc[w] \in {"call", "record"} =>
        /\ job[w] \in Held(w) /\ e \in Ids /\ row[e].status = "sending"
  BY RecordKnows
<1>x. ASSUME pc[w] \in {"call", "record"}, d = e, NEW v \in Workers, Tells(v, d)
      PROVE  v = w
  BY <1>r, <1>x, ToldIsHeld DEF ClaimInv, ClaimIsExclusive, Tells
<1>c. confirmed[d] \in Nat
  BY <1>0 DEF TypeOK
<1>1. CASE Claim(w)
  <2>1. PICK S \in SUBSET Due : row' = TakenInFlight(S)
    BY <1>1 DEF Claim
  <2>2. /\ pc[w] = "poll" /\ pc' = [pc EXCEPT ![w] = "next"]
        /\ UNCHANGED <<job, answer, confirmed>>
    BY <1>1 DEF Claim, historyVars
  <2>3. d \in S => row[d].status = "queued" /\ confirmed[d] = 0
    <3>1. d \in S => row[d].status = "queued"
      BY DEF Due
    <3>2. QED BY <3>1, NotYetAccepted, ToldIsHeld
  <2>4. d \notin S => row'[d] = row[d]
    BY <2>1 DEF TakenInFlight
  <2>5. \A v \in Workers : Tells(v, d) => Tells(v, d)'
    BY <1>0, <2>2 DEF Tells, TypeOK
  <2>6. QED BY <2>2, <2>3, <2>4, <2>5, OnceStays
<1>2. CASE Load(w) \/ GiveBack(w)
  <2>1. pc[w] = "next" /\ UNCHANGED <<row, confirmed>>
    BY <1>2 DEF Load, GiveBack, historyVars
  <2>2. \A v \in Workers \ {w} : UNCHANGED <<pc[v], job[v], answer[v]>>
    BY <1>0, <1>2 DEF Load, GiveBack, Foremost, TypeOK
  <2>3. \A v \in Workers : Tells(v, d) => Tells(v, d)'
    BY <2>1, <2>2 DEF Tells
  <2>4. QED BY <2>1, <2>3, OnceStays
<1>3. ASSUME NEW c \in Answers, Answer(w, c) PROVE OnceOf(d)'
  <2>1. /\ pc[w] = "call" /\ pc' = [pc EXCEPT ![w] = "record"]
        /\ answer' = [answer EXCEPT ![w] = c]
        /\ confirmed' = [confirmed EXCEPT ![e] = @ + IF c = "SENT" THEN 1 ELSE 0]
        /\ UNCHANGED <<row, job>>
    BY <1>3 DEF Answer
  <2>2. \A v \in Workers : Tells(v, d) => Tells(v, d)'
    BY <1>0, <2>1 DEF Tells, TypeOK
  <2>3. CASE d = e /\ c = "SENT"
    <3>1. \A v \in Workers : ~Tells(v, d)
      BY <1>x, <2>1, <2>3 DEF Tells
    <3>2. confirmed[d] = 0
      BY <1>r, <2>1, <2>3, <3>1, NotYetAccepted
    <3>3. confirmed'[d] = 1
      BY <1>0, <2>1, <2>3, <3>2 DEF TypeOK
    <3>4. Tells(w, d)'
      BY <1>0, <2>1, <2>3 DEF Tells, TypeOK
    <3>5. QED BY <3>3, <3>4 DEF OnceOf
  <2>4. CASE ~(d = e /\ c = "SENT")
    <3>1. confirmed'[d] = confirmed[d]
      BY <1>0, <1>c, <2>1, <2>4 DEF TypeOK
    <3>2. QED BY <2>1, <2>2, <3>1, OnceStays
  <2>5. QED BY <2>3, <2>4
<1>4. CASE Complete(w)
  <2>1. /\ pc[w] = "record" /\ Finish(e, "sent", clock)
        /\ pc' = [pc EXCEPT ![w] = "discard"] /\ UNCHANGED <<job, answer, confirmed>>
    BY <1>4 DEF Complete, Decides, historyVars
  <2>2. /\ row'[e].status = "sent" /\ \A i \in Ids \ {e} : row'[i] = row[i]
    BY <1>0, <1>r, <2>1, FinishInFlight
  <2>3. CASE d = e
    BY <2>1, <2>2, <2>3 DEF OnceOf
  <2>4. CASE d # e
    <3>1. \A v \in Workers : Tells(v, d) => Tells(v, d)'
      BY <1>0, <2>1, <2>4 DEF Tells, TypeOK
    <3>2. QED BY <2>1, <2>2, <2>4, <3>1, OnceStays
  <2>5. QED BY <2>3, <2>4
<1>5. CASE DeadLetter(w) \/ Reschedule(w) \/ Release(w)
  <2>1. /\ pc[w] = "record" /\ Decision(job[w], answer[w]) # "complete"
        /\ NextItem(w) /\ UNCHANGED confirmed
    BY <1>5 DEF DeadLetter, Reschedule, Release, Decides, historyVars
  <2>2. \A i \in Ids \ {e} : row'[i] = row[i]
    <3>1. CASE Release(w)
      BY <1>0, <3>1 DEF Release, TypeOK
    <3>2. CASE DeadLetter(w) \/ Reschedule(w)
      <4>1. \E status, next : Finish(e, status, next)
        BY <3>2 DEF DeadLetter, Reschedule
      <4>2. QED BY <1>0, <1>r, <2>1, <4>1, FinishOthers
    <3>3. QED BY <1>5, <3>1, <3>2
  <2>3. \A v \in Workers \ {w} : UNCHANGED <<pc[v], job[v], answer[v]>>
    BY <1>0, <2>1 DEF NextItem, TypeOK
  <2>4. ~Tells(w, d)
    BY <2>1, ToldIsHeld
  <2>5. \A v \in Workers : Tells(v, d) => Tells(v, d)'
    BY <2>3, <2>4 DEF Tells
  <2>6. d = e => confirmed[d] = 0
    BY <1>r, <1>x, <2>1, <2>4, NotYetAccepted
  <2>7. QED BY <2>1, <2>2, <2>5, <2>6, OnceStays
<1>6. CASE Discard(w) \/ DiscardFails(w)
  <2>1. pc[w] = "discard" /\ NextItem(w) /\ UNCHANGED <<row, confirmed>>
    BY <1>6 DEF Discard, DiscardFails, historyVars
  <2>2. \A v \in Workers : Tells(v, d) => Tells(v, d)'
    BY <1>0, <2>1 DEF NextItem, Tells, TypeOK
  <2>3. QED BY <2>1, <2>2, OnceStays
<1>7. ~WriteFails(w)
  BY <1>0 DEF WriteFails, Mishap, TypeOK
<1>8. QED
  BY <1>1, <1>2, <1>3, <1>4, <1>5, <1>6, <1>7 DEF Working

LEMMA OnceStep ==
  Timely /\ QueueInv /\ ClaimInv /\ OnceInv /\ [Next]_vars => OnceInv'
<1> SUFFICES ASSUME Timely, QueueInv, ClaimInv, OnceInv, [Next]_vars PROVE OnceInv'
  OBVIOUS
<1>0. TypeInv /\ TypeOK /\ RefusedIsNeverSent /\ mishaps \in Nat /\ MaxMishaps \in Nat
  BY QueueAssumption DEF QueueInv, TypeInv, TypeOK, RowInv
<1>m. \/ UNCHANGED mishaps
      \/ mishaps' = mishaps + 1
  <2>1. \A w \in Workers : Working(w) => UNCHANGED mishaps \/ Mishap
    BY DEF Working, Claim, Load, Answer, Complete, DeadLetter, Reschedule, Release,
       WriteFails, Discard, DiscardFails, GiveBack
  <2>2. QED
    BY <2>1 DEF Next, vars, Mishap, Enqueuing, Begin, PutBody, PutFails, InsertRows,
       InsertFails, Stop, Crash, Exit, Gone, Restart, Recover, PruneRows, PruneBodies,
       Replaying, ReplayCheck, Replay, Tick
<1>u. running' # "up" => mishaps' > 0
  <2>1. \A w \in Workers : Working(w) => UNCHANGED running
    BY DEF Working, Claim, Load, Answer, Complete, DeadLetter, Reschedule, Release,
       WriteFails, Discard, DiscardFails, GiveBack
  <2>2. \/ UNCHANGED running \/ running' = "up" \/ Mishap
        \/ running = "stopping"
    BY <2>1 DEF Next, vars, Enqueuing, Begin, PutBody, PutFails, InsertRows,
       InsertFails, Stop, Crash, Exit, Gone, Restart, Recover, PruneRows, PruneBodies,
       Replaying, ReplayCheck, Replay, Tick
  <2>3. QED BY <1>0, <1>m, <2>2 DEF OnceInv, Mishap
<1>1. SUFFICES ASSUME mishaps' = 0, NEW d \in Ids PROVE OnceOf(d)'
  BY <1>u DEF OnceInv
<1>2. /\ mishaps = 0 /\ UNCHANGED mishaps /\ running = "up" /\ OnceOf(d) /\ ~Mishap
  BY <1>0, <1>1, <1>m DEF OnceInv, Mishap
<1>w. UNCHANGED workerVars => \A w \in Workers : Tells(w, d) => Tells(w, d)'
  BY DEF workerVars, Tells
<1>s. ASSUME UNCHANGED <<workerVars, row, confirmed>> PROVE OnceOf(d)'
  BY <1>2, <1>s, <1>w, OnceStays
<1>3. CASE Enqueuing
  <2>1. \/ UNCHANGED row
        \/ \E r \in Requests : InsertRows(r)
    BY <1>3 DEF Enqueuing, Begin, PutBody, PutFails, InsertFails
  <2>2. UNCHANGED <<workerVars, confirmed>>
    BY <1>3 DEF Enqueuing, Begin, PutBody, PutFails, InsertFails, InsertRows, historyVars
  <2>3. ASSUME NEW r \in Requests, InsertRows(r) PROVE OnceOf(d)'
    <3>1. d \in r => confirmed[d] = 0
      BY <1>0, <2>3 DEF InsertRows, RefusedIsNeverSent
    <3>2. d \notin r => row'[d] = row[d]
      BY <2>3 DEF InsertRows
    <3>3. QED BY <1>2, <1>w, <2>2, <3>1, <3>2, OnceStays
  <2>4. QED BY <1>s, <2>1, <2>2, <2>3
<1>4. ASSUME NEW w \in Workers, Working(w) PROVE OnceOf(d)'
  BY <1>2, <1>4, OnceWorking
<1>5. ~Stop /\ ~Crash /\ ~Exit /\ ~Restart
  BY <1>2 DEF Stop, Crash, Exit, Restart
<1>6. CASE Recover
  <2>1. row' = Recovered /\ UNCHANGED <<workerVars, confirmed>>
    BY <1>6 DEF Recover, historyVars
  <2>2. Expired(d) => confirmed[d] = 0
    <3>1. \A w \in Workers : Tells(w, d) => ~Expired(d)
      BY <1>0, ToldIsHeld, NoneExpired DEF Tells
    <3>2. Expired(d) => row[d].status = "sending"
      BY DEF Expired
    <3>3. QED BY <1>2, <3>1, <3>2, NotYetAccepted
  <2>3. ~Expired(d) => row'[d] = row[d]
    BY <2>1 DEF Recovered
  <2>4. QED BY <1>2, <1>w, <2>1, <2>2, <2>3, OnceStays
<1>7. CASE PruneRows
  BY <1>2, <1>7, <1>w, OnceStays DEF PruneRows, NoRow, historyVars
<1>8. CASE Replaying
  <2>1. PICK e \in Ids : ReplayCheck(e) \/ Replay(e)
    BY <1>8 DEF Replaying
  <2>2. UNCHANGED <<workerVars, confirmed>>
    BY <2>1 DEF ReplayCheck, Replay, historyVars
  <2>3. \/ row'[d] = row[d]
        \/ row[d].status = "failed"
    BY <1>0, <2>1 DEF ReplayCheck, Replay, TypeOK
  <2>4. row[d].status = "failed" => confirmed[d] = 0
    BY <1>2, ToldIsHeld, NotYetAccepted
  <2>5. QED BY <1>2, <1>w, <2>2, <2>3, <2>4, OnceStays
<1>9. CASE PruneBodies \/ Tick \/ UNCHANGED vars
  BY <1>9, <1>s DEF PruneBodies, Tick, vars, historyVars
<1>10. QED BY <1>3, <1>4, <1>5, <1>6, <1>7, <1>8, <1>9 DEF Next

(* A channel accepts a delivery at most once, through retries, releases,   *)
(* sweeps and replays, as long as no process died and no write failed.     *)
THEOREM SentAtMostOnce == ASSUME Timely PROVE Spec => []SentOnce
<1>1. QueueInv /\ ClaimInv /\ OnceInv /\ [Next]_vars => OnceInv'
  BY OnceStep
<1>2. OnceInv => SentOnce
  BY DEF OnceInv, OnceOf, SentOnce
<1>3. QED BY <1>1, <1>2, OnceInit, ClaimHolds, InvHolds, PTL DEF Spec

-----------------------------------------------------------------------------
(* The queue keeps its promise.                                            *)

LEMMA PromiseInit == Init => Promise!Init
BY DEF Init, Promise!Init, Fate, NoRow

PromiseSame == UNCHANGED <<[d \in Ids |-> Fate(d)],
                           {r \in Requests : req[r].phase = "accepted"},
                           {d \in Ids : confirmed[d] > 0}>>

(* Steps nobody outside can see.                                           *)
LEMMA Unseen ==
  ASSUME \A d \in Ids : Fate(d)' = Fate(d),
         \A r \in Requests : req'[r].phase = "accepted" <=> req[r].phase = "accepted",
         UNCHANGED confirmed
  PROVE  PromiseSame
BY DEF PromiseSame

LEMMA PromiseWorking ==
  ASSUME QueueInv, ClaimInv, NEW w \in Workers, Working(w)
  PROVE  Promise!Next \/ PromiseSame
<1>0. TypeInv /\ TypeOK
  BY DEF QueueInv, TypeInv
<1> DEFINE e == job[w].id
<1>r. pc[w] \in {"call", "record"} => e \in Ids /\ row[e] \in Row /\ row[e].status = "sending"
  BY RecordKnows
<1>s. ASSUME UNCHANGED <<row, req, confirmed>> PROVE PromiseSame
  BY <1>s, Unseen DEF Fate
<1>1. CASE Claim(w)
  <2>1. PICK S \in SUBSET Due : row' = TakenInFlight(S)
    BY <1>1 DEF Claim
  <2>2. ASSUME NEW d \in Ids PROVE Fate(d)' = Fate(d)
    <3>1. CASE d \in S
      <4>1. row[d].status = "queued" /\ row'[d].status = "sending"
        BY <1>0, <2>1, <3>1, TakenRow DEF Due, TypeOK
      <4>2. QED BY <4>1 DEF Fate
    <3>2. CASE d \notin S
      BY <2>1, <3>2 DEF TakenInFlight, Fate
    <3>3. QED BY <3>1, <3>2
  <2>3. QED BY <1>1, <2>2, Unseen DEF Claim, historyVars
<1>2. ASSUME NEW c \in Answers, Answer(w, c) PROVE Promise!Next \/ PromiseSame
  <2>1. /\ pc[w] = "call" /\ UNCHANGED <<row, req>>
        /\ confirmed' = [confirmed EXCEPT ![e] = @ + IF c = "SENT" THEN 1 ELSE 0]
    BY <1>2 DEF Answer
  <2>2. \A d \in Ids : Fate(d)' = Fate(d)
    BY <2>1 DEF Fate
  <2>3. CASE c = "SENT"
    <3>0. PICK i \in Ids : i = e /\ row[i].status = "sending"
      BY <1>r, <2>1
    <3>1. Fate(i) = "pending"
      BY <3>0 DEF Fate
    <3>2. {d \in Ids : confirmed'[d] > 0} = {d \in Ids : confirmed[d] > 0} \cup {i}
      BY <1>0, <2>1, <2>3, <3>0 DEF TypeOK
    <3>3. Promise!Reach(i)
      BY <2>1, <2>2, <3>1, <3>2 DEF Promise!Reach
    <3>4. QED BY <3>3 DEF Promise!Next
  <2>4. CASE c # "SENT"
    <3>1. UNCHANGED confirmed
      BY <1>0, <1>r, <2>1, <2>4 DEF TypeOK
    <3>2. QED BY <1>s, <2>1, <3>1
  <2>5. QED BY <2>3, <2>4
<1>3. ASSUME NEW i, i = e, NEW status \in {"queued", "sent", "failed"}, NEW next,
             Finish(i, status, next), pc[w] = "record", UNCHANGED <<req, confirmed>>,
             status = "sent" => confirmed[i] > 0
      PROVE  Promise!Next \/ PromiseSame
  <2>1. /\ i \in Ids /\ row[i].status = "sending"
        /\ row'[i].status = status /\ \A d \in Ids \ {i} : row'[d] = row[d]
    BY <1>0, <1>r, <1>3, FinishInFlight
  <2>2. \A d \in Ids \ {i} : Fate(d)' = Fate(d)
    BY <2>1 DEF Fate
  <2>3. Fate(i) = "pending"
    BY <2>1 DEF Fate
  <2>4. CASE status = "queued"
    <3>1. Fate(i)' = "pending"
      BY <2>1, <2>4 DEF Fate
    <3>2. QED BY <1>3, <2>2, <2>3, <3>1, Unseen
  <2>5. CASE status # "queued"
    <3>1. Fate(i)' = status
      BY <1>3, <2>1, <2>5 DEF Fate
    <3>2. Promise!Move(i, "pending", status)
      BY <1>3, <2>1, <2>2, <2>3, <3>1 DEF Promise!Move
    <3>3. Promise!Settle(i) \/ Promise!GiveUp(i)
      BY <1>3, <2>1, <2>5, <3>2 DEF Promise!Settle, Promise!GiveUp
    <3>4. QED BY <2>1, <3>3 DEF Promise!Next
  <2>6. QED BY <2>4, <2>5
<1>4. CASE Complete(w)
  <2>1. answer[w] = "SENT" /\ pc[w] = "record"
    BY <1>4, CompleteIsSent DEF Complete, Decides
  <2>2. confirmed[e] > 0
    BY <2>1 DEF QueueInv, HandInv, SentWasConfirmed, Owes
  <2>3. QED BY <1>3, <1>4, <2>1, <2>2 DEF Complete, historyVars
<1>5. CASE DeadLetter(w)
  BY <1>3, <1>5 DEF DeadLetter, Decides, historyVars
<1>6. CASE Reschedule(w)
  BY <1>3, <1>6 DEF Reschedule, Decides, historyVars
<1>7. CASE Release(w)
  <2>1. PICK next : row' = [row EXCEPT ![e].status = "queued", ![e].updated = clock,
                                       ![e].next = next]
    BY <1>7, <1>r DEF Release, Decides
  <2>2. e \in Ids /\ row[e] \in Row /\ row[e].status = "sending"
    BY <1>7, <1>r DEF Release, Decides
  <2>3. row'[e] = [row[e] EXCEPT !.status = "queued", !.updated = clock, !.next = next]
    BY <1>0, <2>1, <2>2 DEF TypeOK
  <2>4. row'[e].status = "queued"
    BY <2>2, <2>3 DEF Row
  <2>5. \A d \in Ids : Fate(d)' = Fate(d)
    BY <1>0, <2>1, <2>2, <2>4 DEF Fate, TypeOK
  <2>6. QED BY <1>7, <2>5, Unseen DEF Release, historyVars
<1>8. QED
  BY <1>1, <1>2, <1>4, <1>5, <1>6, <1>7, <1>s
  DEF Working, Load, WriteFails, Discard, DiscardFails, GiveBack, historyVars

LEMMA PromiseStep ==
  QueueInv /\ ClaimInv /\ [Next]_vars => [Promise!Next]_Promise!promiseVars
<1> SUFFICES ASSUME QueueInv, ClaimInv, [Next]_vars PROVE Promise!Next \/ PromiseSame
  BY DEF PromiseSame, Promise!promiseVars
<1>0. TypeInv /\ TypeOK /\ RefusedIsNeverSent
  BY DEF QueueInv, TypeInv, RowInv
<1> USE DEF historyVars
<1>s. ASSUME UNCHANGED <<row, req, confirmed>> PROVE PromiseSame
  BY <1>s, Unseen DEF Fate
<1>f. ASSUME UNCHANGED row PROVE \A d \in Ids : Fate(d)' = Fate(d)
  BY <1>f DEF Fate
<1>1. CASE Enqueuing
  <2>1. PICK r \in Requests :
          \/ Begin(r) \/ (\E d \in Ids : PutBody(r, d))
          \/ PutFails(r) \/ InsertRows(r) \/ InsertFails(r)
    BY <1>1 DEF Enqueuing
  <2>2. CASE InsertRows(r)
    <3>1. r \subseteq Ids
      BY QueueAssumption
    <3>2. /\ \A d \in r : row'[d].status = "queued"
          /\ \A d \in Ids \ r : row'[d] = row[d]
          /\ UNCHANGED confirmed
      BY <2>2, <3>1 DEF InsertRows
    <3>3. /\ req[r].phase = "writing" /\ req'[r].phase = "accepted"
          /\ \A q \in Requests \ {r} : req'[q] = req[q]
      BY <1>0, <2>2 DEF InsertRows, TypeOK
    <3>4. {q \in Requests : req'[q].phase = "accepted"}
            = {q \in Requests : req[q].phase = "accepted"} \cup {r}
      BY <3>3
    <3>5. \A d \in Ids : Fate(d)' = IF d \in r THEN "pending" ELSE Fate(d)
      BY <3>2 DEF Fate
    <3>6. Promise!Accept(r)
      BY <3>2, <3>3, <3>4, <3>5 DEF Promise!Accept
    <3>7. QED BY <3>6 DEF Promise!Next
  <2>3. CASE ~InsertRows(r)
    <3>1. UNCHANGED <<row, confirmed>>
      BY <2>1, <2>3 DEF Begin, PutBody, PutFails, InsertFails
    <3>2. \A q \in Requests : req'[q].phase = "accepted" <=> req[q].phase = "accepted"
      BY <1>0, <2>1, <2>3 DEF Begin, PutBody, PutFails, InsertFails, TypeOK
    <3>3. QED BY <1>f, <3>1, <3>2, Unseen
  <2>4. QED BY <2>2, <2>3
<1>2. ASSUME NEW w \in Workers, Working(w) PROVE Promise!Next \/ PromiseSame
  BY <1>2, PromiseWorking
<1>3. CASE Crash \/ Exit
  <2>1. \A q \in Requests : req'[q].phase = "accepted" <=> req[q].phase = "accepted"
    BY <1>0, <1>3 DEF Crash, Exit, Gone, TypeOK
  <2>2. QED BY <1>f, <1>3, <2>1, Unseen DEF Crash, Exit, Gone
<1>4. CASE Restart \/ Recover
  <2>1. UNCHANGED <<req, confirmed>> /\ (UNCHANGED row \/ row' = Recovered)
    BY <1>4 DEF Restart, Recover
  <2>2. \A d \in Ids : \/ row'[d] = row[d]
                       \/ row[d].status = "sending" /\ row'[d].status = "queued"
    BY <1>0, <2>1, RecoveredType DEF TypeOK
  <2>3. \A d \in Ids : Fate(d)' = Fate(d)
    BY <2>2 DEF Fate
  <2>4. QED BY <2>1, <2>3, Unseen
<1>5. CASE PruneRows
  <2> DEFINE S == {d \in Ids : row[d].status \in {"sent", "failed"}
                                 /\ row'[d].status = "absent"}
  <2>1. UNCHANGED <<req, confirmed>>
    BY <1>5 DEF PruneRows
  <2>2. \A d \in Ids : \/ row'[d] = row[d]
                       \/ d \in S
    BY <1>5 DEF PruneRows, NoRow
  <2>3. \A d \in Ids : Fate(d)' = IF d \in S THEN "unknown" ELSE Fate(d)
    BY <2>2 DEF Fate
  <2>4. S \in SUBSET {d \in Ids : Fate(d) \in {"sent", "failed"}}
    BY DEF Fate
  <2>5. Promise!Forget
    <3>1. [d \in Ids |-> Fate(d)]' = [d \in Ids |-> IF d \in S THEN "unknown" ELSE Fate(d)]
      BY <2>3
    <3>2. S \in SUBSET {d \in Ids : [i \in Ids |-> Fate(i)][d] \in {"sent", "failed"}}
      BY <2>4
    <3> HIDE DEF S
    <3>3. QED BY <2>1, <3>1, <3>2 DEF Promise!Forget
  <2>6. QED BY <2>5 DEF Promise!Next
<1>6. CASE Replaying
  <2>1. PICK e \in Ids : ReplayCheck(e) \/ Replay(e)
    BY <1>6 DEF Replaying
  <2>2. UNCHANGED <<req, confirmed>>
    BY <2>1 DEF ReplayCheck, Replay
  <2>3. CASE /\ row[e].status = "failed"
             /\ row' = [row EXCEPT ![e].status = "queued", ![e].attempts = 0,
                                   ![e].next = clock, ![e].claimed = 0,
                                   ![e].updated = clock]
    <3>1. /\ row'[e].status = "queued"
          /\ \A d \in Ids \ {e} : row'[d] = row[d]
      BY <1>0, <2>3, ReplayRow DEF TypeOK
    <3>2. Fate(e) = "failed" /\ Fate(e)' = "pending"
      BY <2>3, <3>1 DEF Fate
    <3>3. \A d \in Ids \ {e} : Fate(d)' = Fate(d)
      BY <3>1 DEF Fate
    <3>4. Promise!Replay(e)
      BY <2>2, <3>2, <3>3 DEF Promise!Replay, Promise!Move
    <3>5. QED BY <3>4 DEF Promise!Next
  <2>4. CASE UNCHANGED row
    BY <1>s, <2>2, <2>4
  <2>5. QED BY <2>1, <2>3, <2>4 DEF ReplayCheck, Replay
<1>7. CASE Stop \/ PruneBodies \/ Tick \/ UNCHANGED vars
  BY <1>7, <1>s DEF Stop, PruneBodies, Tick, vars
<1>8. QED BY <1>1, <1>2, <1>3, <1>4, <1>5, <1>6, <1>7 DEF Next

(* The queue implements the promise: what an operator sees of a delivery   *)
(* moves as DeliveryPromise says, whatever workers, sweeps, crashes and    *)
(* replays do underneath.                                                  *)
THEOREM QueueKeepsPromise == ASSUME Timely PROVE Spec => KeepsPromise
<1>1. QueueInv /\ ClaimInv /\ [Next]_vars => [Promise!Next]_Promise!promiseVars
  BY PromiseStep
<1>2. QED BY <1>1, PromiseInit, ClaimHolds, InvHolds, PTL
          DEF Spec, KeepsPromise, Promise!Spec

-----------------------------------------------------------------------------
(* The schedule.                                                           *)

Unfinished == {"queued", "sending"}

ScheduleInv == \A d \in Ids : row[d].status \in Unfinished => Planned(d)

(* What every step does to a row, as far as the schedule goes.             *)
Replans(d) ==
  \/ row'[d].status \notin Unfinished
  \/ /\ row[d].status \in Unfinished /\ arrived'[d] = arrived[d]
     /\ row'[d].next = row[d].next /\ row'[d].created = row[d].created
  \/ row'[d].next = arrived'[d]
  \/ \E delay \in Delays : row'[d].next < row'[d].created + MaxAge + delay

LEMMA ReplansSchedule ==
  ASSUME ScheduleInv, \A d \in Ids : Replans(d)
  PROVE  ScheduleInv'
BY DEF ScheduleInv, Replans, Planned

(* The row of a delivery that moves no worker's way.                       *)
LEMMA ReplansSame ==
  ASSUME NEW d, row'[d] = row[d], arrived'[d] = arrived[d]
  PROVE  Replans(d)
BY DEF Replans

LEMMA DelayIsOne ==
  ASSUME NEW n \in Nat
  PROVE  Delay(n) \in Delays /\ Delay(n) \in Nat
<1>1. Backoff \in Seq(Nat) /\ Len(Backoff) \in Nat /\ Len(Backoff) # 0
  BY PolicyAssumption
<1>2. DOMAIN Backoff = 1..Len(Backoff)
  BY <1>1
<1>3. PICK i \in DOMAIN Backoff : Delay(n) = Backoff[i]
  <2>1. CASE n >= Len(Backoff)
    BY <1>1, <1>2, <2>1 DEF Delay
  <2>2. CASE ~(n >= Len(Backoff))
    BY <1>1, <1>2, <2>2 DEF Delay
  <2>3. QED BY <2>1, <2>2
<1>4. QED BY <1>3, DelayType DEF Delays

(* An attempt that may be followed by another is not older than MaxAge, and *)
(* the next one is one delay away.                                          *)
LEMMA NextIsNear ==
  ASSUME QueueInv, ClaimInv, NEW w \in Workers, pc[w] = "record",
         NEW n \in Nat, ~Exhausted(n, Age(job[w])),
         NEW delay \in Nat, delay \in Delays
  PROVE  clock + delay < row[job[w].id].created + MaxAge + delay
<1>1. TypeOK /\ JobOK /\ Fits(w)
  BY DEF QueueInv, TypeInv, ClaimInv
<1>2. job[w] \in Snapshot /\ Matches(job[w])
  BY <1>1 DEF Fits, Held, JobOK, Busy
<1>3. PICK c \in Nat : c = job[w].created /\ c = row[job[w].id].created
  BY <1>2 DEF Matches, Snapshot
<1>4. clock \in Nat /\ MaxAge \in Nat
  BY <1>1, PolicyAssumption DEF TypeOK
<1>5. clock - c < MaxAge
  BY <1>3, <1>4 DEF Exhausted, Age
<1>6. QED BY <1>3, <1>4, <1>5

LEMMA ScheduleWorking ==
  ASSUME QueueInv, ClaimInv, NEW w \in Workers, Working(w), NEW d \in Ids
  PROVE  Replans(d)
<1>0. TypeInv /\ TypeOK
  BY DEF QueueInv, TypeInv
<1>r. pc[w] = "record" =>
        /\ job[w].id \in Ids /\ row[job[w].id] \in Row
        /\ row[job[w].id].status = "sending" /\ job[w].attempts \in Nat
  BY RecordKnows
<1>1. CASE Claim(w)
  <2>1. PICK S \in SUBSET Due : row' = TakenInFlight(S)
    BY <1>1 DEF Claim
  <2>2. arrived'[d] = arrived[d]
    BY <1>1 DEF Claim, historyVars
  <2>3. CASE d \in S
    <3>1. /\ row[d] \in Row /\ row[d].status = "queued"
          /\ row'[d] = [row[d] EXCEPT !.status = "sending", !.updated = clock,
                                      !.claimed = clock]
      BY <1>0, <2>1, <2>3 DEF TakenInFlight, Due, TypeOK
    <3>2. QED BY <2>2, <3>1 DEF Replans, Row, Unfinished
  <2>4. QED BY <2>1, <2>2, <2>3, ReplansSame DEF TakenInFlight
<1>2. ASSUME UNCHANGED <<row, arrived>> PROVE Replans(d)
  BY <1>2, ReplansSame
<1>3. ASSUME NEW status \in {"sent", "failed", "queued"}, NEW next,
             Finish(job[w].id, status, next), pc[w] = "record", UNCHANGED arrived,
             status = "queued" =>
               \E delay \in Delays : next < row[job[w].id].created + MaxAge + delay
      PROVE  Replans(d)
  <2>1. PICK e \in Ids : /\ e = job[w].id
                         /\ row[e] \in Row /\ row[e].status = "sending"
    BY <1>r, <1>3
  <2>2. /\ row'[e].status = status /\ \A i \in Ids \ {e} : row'[i] = row[i]
    BY <1>0, <1>3, <2>1, FinishInFlight
  <2>3. CASE d # e
    BY <1>3, <2>2, <2>3, ReplansSame
  <2>4. CASE d = e
    <3>1. row'[e] = [row[e] EXCEPT !.status = status, !.attempts = @ + 1,
                                   !.next = next, !.updated = clock]
      BY <1>0, <1>3, <2>1 DEF Finish, TypeOK
    <3>2. row'[e].next = next /\ row'[e].created = row[e].created
      BY <2>1, <3>1 DEF Row
    <3>3. QED BY <1>3, <2>1, <2>2, <2>4, <3>2 DEF Replans, Unfinished
  <2>5. QED BY <2>3, <2>4
<1>4. CASE Complete(w) \/ DeadLetter(w)
  BY <1>3, <1>4 DEF Complete, DeadLetter, Decides, historyVars
<1>5. CASE Reschedule(w)
  <2>1. /\ Finish(job[w].id, "queued", RetryAt(job[w].attempts + 1, clock))
        /\ pc[w] = "record" /\ UNCHANGED arrived
        /\ Decision(job[w], answer[w]) = "reschedule"
    BY <1>5 DEF Reschedule, Decides, historyVars
  <2>2. ~Exhausted(job[w].attempts + 1, Age(job[w]))
    BY <2>1 DEF Decision
  <2>3. PICK n \in Nat : n = job[w].attempts + 1
    BY <1>r, <2>1
  <2>4. clock + Delay(n) < row[job[w].id].created + MaxAge + Delay(n)
    BY <2>1, <2>2, <2>3, NextIsNear, DelayIsOne
  <2>5. QED BY <1>3, <2>1, <2>3, <2>4, DelayIsOne DEF RetryAt
<1>6. CASE Release(w)
  <2>1. PICK e \in Ids : /\ e = job[w].id
                         /\ row[e] \in Row /\ row[e].status = "sending"
    BY <1>6, <1>r DEF Release, Decides
  <2>2. PICK next : next = clock + ReleaseDelay
    OBVIOUS
  <2>3. /\ pc[w] = "record" /\ Decision(job[w], answer[w]) = "release"
        /\ row' = [row EXCEPT ![e].status = "queued", ![e].updated = clock,
                              ![e].next = next]
        /\ UNCHANGED arrived
    BY <1>6, <2>1, <2>2 DEF Release, Decides, historyVars
  <2>4. ~Exhausted(job[w].attempts, Age(job[w])) /\ job[w].attempts \in Nat
    BY <1>r, <2>3 DEF Decision
  <2>5. ReleaseDelay \in Delays /\ ReleaseDelay \in Nat
    BY QueueAssumption DEF Delays
  <2>6. next < row[e].created + MaxAge + ReleaseDelay
    BY <2>1, <2>2, <2>3, <2>4, <2>5, NextIsNear
  <2>7. row'[e] = [row[e] EXCEPT !.status = "queued", !.updated = clock, !.next = next]
    BY <1>0, <2>3 DEF TypeOK
  <2>8. row'[e].next = next /\ row'[e].created = row[e].created
    BY <2>1, <2>7 DEF Row
  <2>9. d # e => row'[d] = row[d]
    BY <1>0, <2>3 DEF TypeOK
  <2>10. QED BY <2>3, <2>5, <2>6, <2>8, <2>9, ReplansSame DEF Replans
<1>7. QED
  BY <1>1, <1>2, <1>4, <1>5, <1>6
  DEF Working, Load, Answer, WriteFails, Discard, DiscardFails, GiveBack, historyVars

LEMMA ScheduleStep == QueueInv /\ ClaimInv /\ ScheduleInv /\ [Next]_vars => ScheduleInv'
<1> SUFFICES ASSUME QueueInv, ClaimInv, ScheduleInv, [Next]_vars, NEW d \in Ids
             PROVE  Replans(d)
  BY ReplansSchedule
<1>0. TypeInv /\ TypeOK /\ row[d] \in Row
  BY DEF QueueInv, TypeInv, TypeOK
<1> USE DEF historyVars
<1>1. ASSUME UNCHANGED <<row, arrived>> PROVE Replans(d)
  BY <1>1, ReplansSame
<1>2. CASE Enqueuing
  <2>1. UNCHANGED <<row, arrived>> \/ \E r \in Requests : InsertRows(r)
    BY <1>2 DEF Enqueuing, Begin, PutBody, PutFails, InsertFails
  <2>2. ASSUME NEW r \in Requests, InsertRows(r) PROVE Replans(d)
    <3>1. CASE d \in r
      <4>1. row'[d].next = req[r].at /\ arrived'[d] = req[r].at
        BY <2>2, <3>1 DEF InsertRows
      <4>2. QED BY <4>1 DEF Replans
    <3>2. CASE d \notin r
      BY <2>2, <3>2, ReplansSame DEF InsertRows
    <3>3. QED BY <3>1, <3>2
  <2>3. QED BY <1>1, <2>1, <2>2
<1>3. ASSUME NEW w \in Workers, Working(w) PROVE Replans(d)
  BY <1>3, ScheduleWorking
<1>4. CASE Restart \/ Recover
  <2>1. UNCHANGED arrived /\ (UNCHANGED row \/ row' = Recovered)
    BY <1>4 DEF Restart, Recover
  <2>2. CASE row' = Recovered /\ Expired(d)
    <3>1. row'[d] = [row[d] EXCEPT !.status = "queued", !.updated = clock]
      BY <2>2 DEF Recovered
    <3>2. QED BY <1>0, <2>1, <2>2, <3>1 DEF Row, Expired, Replans, Unfinished
  <2>3. QED BY <2>1, <2>2, ReplansSame DEF Recovered
<1>5. CASE PruneRows
  <2>1. row'[d] = NoRow \/ (row'[d] = row[d] /\ arrived'[d] = arrived[d])
    BY <1>5 DEF PruneRows
  <2>2. QED BY <2>1, ReplansSame DEF NoRow, Replans, Unfinished
<1>6. CASE Replaying
  <2>1. PICK e \in Ids : ReplayCheck(e) \/ Replay(e)
    BY <1>6 DEF Replaying
  <2>2. CASE /\ row' = [row EXCEPT ![e].status = "queued", ![e].attempts = 0,
                                   ![e].next = clock, ![e].claimed = 0,
                                   ![e].updated = clock]
             /\ arrived' = [arrived EXCEPT ![e] = clock]
    <3>1. row'[e] = [row[e] EXCEPT !.status = "queued", !.attempts = 0,
                                   !.next = clock, !.claimed = 0, !.updated = clock]
      BY <1>0, <2>2 DEF TypeOK
    <3>2. row[e] \in Row
      BY <1>0 DEF TypeOK
    <3>3. row'[e].next = clock /\ arrived'[e] = clock
      BY <1>0, <2>2, <3>1, <3>2 DEF Row, TypeOK
    <3>4. d # e => row'[d] = row[d] /\ arrived'[d] = arrived[d]
      BY <1>0, <2>2 DEF TypeOK
    <3>5. QED BY <3>3, <3>4, ReplansSame DEF Replans
  <2>3. QED BY <1>1, <2>1, <2>2 DEF ReplayCheck, Replay
<1>7. QED
  BY <1>1, <1>2, <1>3, <1>4, <1>5, <1>6
  DEF Next, Stop, Crash, Exit, Gone, PruneBodies, Tick, vars

LEMMA ScheduleInit == Init => ScheduleInv
BY DEF Init, ScheduleInv, NoRow, Unfinished

(* The next attempt of a delivery that waits lies within one delay of the  *)
(* age limit, or it was due when the delivery came in or was replayed.     *)
THEOREM ScheduleIsBounded == ASSUME Timely PROVE Spec => []ScheduleBounded
<1>1. QueueInv /\ ClaimInv /\ ScheduleInv /\ [Next]_vars => ScheduleInv'
  BY ScheduleStep
<1>2. ScheduleInv => ScheduleBounded
  BY DEF ScheduleInv, ScheduleBounded, Unfinished
<1>3. QED BY <1>1, <1>2, ScheduleInit, ClaimHolds, InvHolds, PTL DEF Spec
=============================================================================
