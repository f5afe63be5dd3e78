--------------------------- MODULE DeliveryQueue ---------------------------
(***************************************************************************)
(* The durable queue of NotifyRelay: internal/queue/worker.go over         *)
(* internal/store/sqlite/queue.go (the rows) and internal/store/spool (the *)
(* bodies).                                                                *)
(*                                                                         *)
(* An API handler writes one body per target and then inserts the rows in  *)
(* one transaction.  Workers claim batches of due rows and work through a  *)
(* batch one delivery at a time, deciding every outcome on the snapshot    *)
(* the claim returned.  A sweep returns rows whose claim has expired; a    *)
(* retention loop deletes old rows and old bodies; an operator may replay  *)
(* a dead letter.  The process may be stopped, crash and restart; a write  *)
(* to the store or to the spool may fail.                                  *)
(*                                                                         *)
(* One transaction is one action: the store's transactions are BEGIN       *)
(* IMMEDIATE.  What happens between two transactions is another action.    *)
(***************************************************************************)
EXTENDS RetryPolicy, FiniteSets

CONSTANTS
  Ids,              \* delivery identifiers
  Requests,         \* disjoint sets of identifiers, one per API call
  Workers,          \* Options.Workers goroutines
  Batch,            \* Options.Batch
  DeliverTimeout,   \* bounds one Router.Deliver call
  ClaimTimeout,     \* how long a claim is good for
  ReleaseDelay,     \* wait after a release
  SentRetention,    \* life of a sent row
  FailedRetention,  \* life of a failed row, and of a body
  Answers,          \* the classes the router may answer in this instance
  Punctual,         \* TRUE: only Router.Deliver takes time
  None,             \* no job
  Horizon,          \* bound: last clock value
  LastEvent,        \* bound: calls, mishaps and replays begin until then
  MaxMishaps,       \* bound: crashes, shutdowns and failed writes
  MaxReplays        \* bound: replays that reach the store

Classes == {"SENT", "PERMANENT", "TRANSIENT", "CONNECT_ERROR", "NOT_ATTEMPTED"}

ASSUME QueueAssumption ==
  /\ Requests \subseteq SUBSET Ids
  /\ \A r, q \in Requests : r # q => r \cap q = {}
  /\ Batch \in Nat \ {0}
  /\ DeliverTimeout \in Nat \ {0}
  /\ ClaimTimeout \in Nat \ {0}
  /\ ReleaseDelay \in Nat
  /\ SentRetention \in Nat
  /\ FailedRetention \in Nat
  /\ Answers \subseteq Classes
  /\ Punctual \in BOOLEAN
  /\ Horizon \in Nat /\ LastEvent \in Nat /\ MaxMishaps \in Nat /\ MaxReplays \in Nat

VARIABLES
  clock,      \* the wall clock, from 1: a zero time means "never"
  running,    \* "up", "stopping" (the signal context is cancelled) or "down"
  row,        \* the deliveries table
  body,       \* the spool: a file's modification time, 0 when there is none
  req,        \* the API calls: phase, start time, bodies still to write
  pc,         \* where a worker is in drain/process
  hand,       \* the rest of the batch a worker claimed
  job,        \* the delivery in process(), as the claim returned it
  since,      \* when the worker's Router.Deliver call began, 0 outside it
  answer,     \* the class the worker has to record
  checked,    \* replays that found a dead letter and have yet to put it back
  mishaps,    \* how many mishaps happened
  replays,    \* how many replays happened
  confirmed,  \* history: how often a channel accepted a delivery
  arrived     \* history: when a delivery was inserted or last replayed

workerVars  == <<pc, hand, job, since, answer>>
historyVars == <<confirmed, arrived>>
vars == <<clock, running, row, body, req, workerVars, checked, mishaps,
          replays, historyVars>>

-----------------------------------------------------------------------------
(* Types.                                                                  *)

Statuses == {"absent", "queued", "sending", "sent", "failed"}

Row == [status : Statuses, attempts : Nat, next : Nat,
        created : Nat, updated : Nat, claimed : Nat]

NoRow == [status |-> "absent", attempts |-> 0, next |-> 0,
          created |-> 0, updated |-> 0, claimed |-> 0]

(* What Claim hands to a worker: a copy of the row as it was.              *)
Snapshot == [id : Ids, attempts : Nat, next : Nat, created : Nat, claimed : Nat]

Outcomes == Classes \cup {"PAYLOAD_MISSING", "none"}

TypeOK ==
  /\ clock \in Nat \ {0}
  /\ running \in {"up", "stopping", "down"}
  /\ row \in [Ids -> Row]
  /\ body \in [Ids -> Nat]
  /\ req \in [Requests -> [phase : {"new", "writing", "accepted", "rejected"},
                           at : Nat, todo : SUBSET Ids]]
  /\ pc \in [Workers -> {"poll", "next", "call", "record", "discard"}]
  /\ hand \in [Workers -> SUBSET Snapshot]
  /\ job \in [Workers -> Snapshot \cup {None}]
  /\ since \in [Workers -> Nat]
  /\ answer \in [Workers -> Outcomes]
  /\ checked \in [Ids -> Nat]
  /\ mishaps \in Nat
  /\ replays \in Nat
  /\ confirmed \in [Ids -> Nat]
  /\ arrived \in [Ids -> Nat]

Init ==
  /\ clock = 1
  /\ running = "up"
  /\ row = [d \in Ids |-> NoRow]
  /\ body = [d \in Ids |-> 0]
  /\ req = [r \in Requests |-> [phase |-> "new", at |-> 0, todo |-> {}]]
  /\ pc = [w \in Workers |-> "poll"]
  /\ hand = [w \in Workers |-> {}]
  /\ job = [w \in Workers |-> None]
  /\ since = [w \in Workers |-> 0]
  /\ answer = [w \in Workers |-> "none"]
  /\ checked = [d \in Ids |-> 0]
  /\ mishaps = 0
  /\ replays = 0
  /\ confirmed = [d \in Ids |-> 0]
  /\ arrived = [d \in Ids |-> 0]

(* The bounds on what comes from outside.                                  *)
Eventful == clock <= LastEvent
Mishap   == Eventful /\ mishaps < MaxMishaps /\ mishaps' = mishaps + 1

-----------------------------------------------------------------------------
(* Worker.Enqueue, called by an API handler.                               *)

Begin(r) ==
  /\ Eventful
  /\ running # "down"
  /\ req[r].phase = "new"
  /\ req' = [req EXCEPT ![r] = [phase |-> "writing", at |-> clock, todo |-> r]]
  /\ UNCHANGED <<clock, running, row, body, workerVars, checked, mishaps,
                 replays, historyVars>>

(* Spool.Put: a temporary file renamed into place, so a body is whole or   *)
(* not there.                                                              *)
PutBody(r, d) ==
  /\ req[r].phase = "writing"
  /\ d \in req[r].todo
  /\ body' = [body EXCEPT ![d] = clock]
  /\ req' = [req EXCEPT ![r].todo = @ \ {d}]
  /\ UNCHANGED <<clock, running, row, workerVars, checked, mishaps, replays,
                 historyVars>>

(* A failed Put ends the call; the bodies already written stay behind.     *)
PutFails(r) ==
  /\ req[r].phase = "writing"
  /\ req[r].todo # {}
  /\ Mishap
  /\ req' = [req EXCEPT ![r].phase = "rejected"]
  /\ UNCHANGED <<clock, running, row, body, workerVars, checked, replays,
                 historyVars>>

(* Store.Enqueue: every row of the call in one transaction.                *)
InsertRows(r) ==
  /\ req[r].phase = "writing"
  /\ req[r].todo = {}
  /\ row' = [d \in Ids |->
               IF d \in r
               THEN [status |-> "queued", attempts |-> 0, next |-> req[r].at,
                     created |-> req[r].at, updated |-> req[r].at, claimed |-> 0]
               ELSE row[d]]
  /\ req' = [req EXCEPT ![r].phase = "accepted"]
  /\ arrived' = [d \in Ids |-> IF d \in r THEN req[r].at ELSE arrived[d]]
  /\ UNCHANGED <<clock, running, body, workerVars, checked, mishaps, replays,
                 confirmed>>

(* Slip: the rows are inserted one by one, outside a transaction.          *)
InsertFailsLate(r) ==
  /\ req[r].phase = "writing"
  /\ req[r].todo = {}
  /\ Mishap
  /\ row' = [d \in Ids |->
               IF d \in r THEN [NoRow EXCEPT !.status = "queued", !.next = clock,
                                            !.created = clock]
               ELSE row[d]]
  /\ body' = [d \in Ids |-> IF d \in r THEN 0 ELSE body[d]]
  /\ req' = [req EXCEPT ![r].phase = "rejected"]
  /\ UNCHANGED <<clock, running, workerVars, checked, replays, historyVars>>

(* The transaction failed: the bodies are dropped with it, but for those   *)
(* whose removal fails unnoticed.                                          *)
InsertFails(r) ==
  /\ req[r].phase = "writing"
  /\ req[r].todo = {}
  /\ Mishap
  /\ \E S \in SUBSET r : body' = [d \in Ids |-> IF d \in S THEN 0 ELSE body[d]]
  /\ req' = [req EXCEPT ![r].phase = "rejected"]
  /\ UNCHANGED <<clock, running, row, workerVars, checked, replays, historyVars>>

-----------------------------------------------------------------------------
(* Worker.drain and Store.Claim.                                           *)

(* Slip: the select forgets the status.                                    *)
DueOrInFlight ==
  {d \in Ids : row[d].status \in {"queued", "sending"} /\ row[d].next <= clock}

Due == {d \in Ids : row[d].status = "queued" /\ row[d].next <= clock}

(* ORDER BY next_attempt_at, created_at; ties in any order.                *)
Before(a, b) == a.next < b.next \/ (a.next = b.next /\ a.created < b.created)

(* LIMIT batch: a full batch, or everything that is due.                   *)
Claimable(S) ==
  /\ S # {} /\ IsFiniteSet(S)
  /\ Cardinality(S) <= Batch
  /\ Cardinality(S) = Batch \/ S = Due
  /\ \A s \in S, t \in Due \ S : ~Before(row[t], row[s])

SnapshotOf(d) ==
  [id |-> d, attempts |-> row[d].attempts, next |-> row[d].next,
   created |-> row[d].created, claimed |-> clock]

(* Slip: the claim is not dated.                                           *)
TakenUndated(S) ==
  [d \in Ids |-> IF d \in S
                 THEN [row[d] EXCEPT !.status = "sending", !.updated = clock]
                 ELSE row[d]]

TakenInFlight(S) ==
  [d \in Ids |-> IF d \in S
                 THEN [row[d] EXCEPT !.status = "sending",
                                     !.updated = clock, !.claimed = clock]
                 ELSE row[d]]

Claim(w) ==
  /\ running = "up"
  /\ pc[w] = "poll"
  /\ \E S \in SUBSET Due :
       /\ Claimable(S)
       /\ hand' = [hand EXCEPT ![w] = {SnapshotOf(d) : d \in S}]
       /\ row' = TakenInFlight(S)
  /\ pc' = [pc EXCEPT ![w] = "next"]
  /\ UNCHANGED <<clock, running, body, req, job, since, answer, checked,
                 mishaps, replays, historyVars>>

(* The next delivery of the batch, in the order Claim returned it.         *)
Foremost(w) == {s \in hand[w] : \A t \in hand[w] : ~Before(t, s)}

(* The end of one delivery: the next of the batch, or the queue again.     *)
NextItem(w) ==
  /\ job' = [job EXCEPT ![w] = None]
  /\ answer' = [answer EXCEPT ![w] = "none"]
  /\ pc' = [pc EXCEPT ![w] = IF hand[w] = {} THEN "poll" ELSE "next"]

(* process: read the body; without it, or when the read fails, there is    *)
(* nothing to send.                                                        *)
Load(w) ==
  /\ running = "up"
  /\ pc[w] = "next"
  /\ \E s \in Foremost(w) :
       /\ hand' = [hand EXCEPT ![w] = @ \ {s}]
       /\ job' = [job EXCEPT ![w] = s]
       /\ \/ /\ body[s.id] # 0
             /\ pc' = [pc EXCEPT ![w] = "call"]
             /\ since' = [since EXCEPT ![w] = clock]
             /\ UNCHANGED <<answer, mishaps>>
          \/ /\ IF body[s.id] = 0 THEN UNCHANGED mishaps ELSE Mishap
             /\ pc' = [pc EXCEPT ![w] = "record"]
             /\ answer' = [answer EXCEPT ![w] = "PAYLOAD_MISSING"]
             /\ UNCHANGED since
  /\ UNCHANGED <<clock, running, row, body, req, checked, replays, historyVars>>

(* Router.Deliver returns a class, at the latest when its context expires. *)
Answer(w, c) ==
  /\ pc[w] = "call"
  /\ answer' = [answer EXCEPT ![w] = c]
  /\ pc' = [pc EXCEPT ![w] = "record"]
  /\ confirmed' = [confirmed EXCEPT ![job[w].id] =
                     @ + IF c = "SENT" THEN 1 ELSE 0]
  /\ since' = [since EXCEPT ![w] = 0]
  /\ UNCHANGED <<clock, running, row, body, req, hand, job, checked, mishaps,
                 replays, arrived>>

-----------------------------------------------------------------------------
(* Recording the outcome.  The decision is taken on the snapshot.          *)

(* Slip: the age counted from when the attempt was due.                    *)
AgeSinceDue(s) == clock - s.next

Age(s) == clock - s.created

(* Slip: the attempt that just failed is not counted.                      *)
DecisionUncounted(s, c) ==
  CASE c = "SENT" -> "complete"
    [] c \in {"PERMANENT", "PAYLOAD_MISSING"} -> "deadLetter"
    [] c = "TRANSIENT" ->
         IF MayRetry(s.attempts, Age(s)) THEN "reschedule" ELSE "deadLetter"
    [] OTHER -> IF Exhausted(s.attempts, Age(s)) THEN "deadLetter" ELSE "release"

(* The switch of process, with retryOrGiveUp and releaseNoCapacity.        *)
Decision(s, c) ==
  CASE c = "SENT" -> "complete"
    [] c \in {"PERMANENT", "PAYLOAD_MISSING"} -> "deadLetter"
    [] c = "TRANSIENT" ->
         IF Exhausted(s.attempts + 1, Age(s)) \/ ~MayRetry(s.attempts + 1, Age(s))
         THEN "deadLetter" ELSE "reschedule"
    [] OTHER -> IF Exhausted(s.attempts, Age(s)) THEN "deadLetter" ELSE "release"

Decides(w, what) == pc[w] = "record" /\ Decision(job[w], answer[w]) = what

(* finish: the attempt record and the transition, in one transaction.  It  *)
(* does not look at the status it replaces.  Without the row the attempt   *)
(* record breaks its foreign key and nothing is written.                   *)
Finish(d, status, next) ==
  row' = IF row[d].status = "absent" THEN row
         ELSE [row EXCEPT ![d].status = status, ![d].attempts = @ + 1,
                          ![d].next = next, ![d].updated = clock]

Complete(w) ==
  /\ running = "up"
  /\ Decides(w, "complete")
  /\ Finish(job[w].id, "sent", clock)
  /\ pc' = [pc EXCEPT ![w] = "discard"]
  /\ UNCHANGED <<clock, running, body, req, hand, job, since, answer, checked,
                 mishaps, replays, historyVars>>

(* Slip: a dead letter's body is dropped like a sent one's.                *)
DeadLetterDiscarding(w) ==
  /\ running = "up"
  /\ Decides(w, "deadLetter")
  /\ Finish(job[w].id, "failed", clock)
  /\ pc' = [pc EXCEPT ![w] = "discard"]
  /\ UNCHANGED <<clock, running, body, req, hand, job, since, answer, checked,
                 mishaps, replays, historyVars>>

DeadLetter(w) ==
  /\ running = "up"
  /\ Decides(w, "deadLetter")
  /\ Finish(job[w].id, "failed", clock)
  /\ NextItem(w)
  /\ UNCHANGED <<clock, running, body, req, hand, since, checked, mishaps,
                 replays, historyVars>>

Reschedule(w) ==
  /\ running = "up"
  /\ Decides(w, "reschedule")
  /\ Finish(job[w].id, "queued", RetryAt(job[w].attempts + 1, clock))
  /\ NextItem(w)
  /\ UNCHANGED <<clock, running, body, req, hand, since, checked, mishaps,
                 replays, historyVars>>

(* Release leaves the attempt counter alone, and a row that is no longer   *)
(* in flight.                                                              *)
Release(w) ==
  /\ running = "up"
  /\ Decides(w, "release")
  /\ LET d == job[w].id IN
     row' = IF row[d].status = "sending"
            THEN [row EXCEPT ![d].status = "queued", ![d].updated = clock,
                             ![d].next = clock + ReleaseDelay]
            ELSE row
  /\ NextItem(w)
  /\ UNCHANGED <<clock, running, body, req, hand, since, checked, mishaps,
                 replays, historyVars>>

(* The write failed: a mishap, or the context is cancelled.  The error is  *)
(* logged and the worker carries on; a sent delivery's body goes anyway.   *)
WriteFails(w) ==
  /\ pc[w] = "record"
  /\ IF running = "stopping" THEN UNCHANGED mishaps ELSE Mishap
  /\ IF answer[w] = "SENT"
     THEN pc' = [pc EXCEPT ![w] = "discard"] /\ UNCHANGED <<job, answer>>
     ELSE NextItem(w)
  /\ UNCHANGED <<clock, running, row, body, req, hand, since, checked, replays,
                 historyVars>>

Discard(w) ==
  /\ pc[w] = "discard"
  /\ body' = [body EXCEPT ![job[w].id] = 0]
  /\ NextItem(w)
  /\ UNCHANGED <<clock, running, row, req, hand, since, checked, mishaps,
                 replays, historyVars>>

(* A file that cannot be removed is left to the pruner.                    *)
DiscardFails(w) ==
  /\ pc[w] = "discard"
  /\ Mishap
  /\ NextItem(w)
  /\ UNCHANGED <<clock, running, row, body, req, hand, since, checked, replays,
                 historyVars>>

-----------------------------------------------------------------------------
(* Shutdown, crash, restart, the sweep.                                    *)

Stop ==
  /\ running = "up"
  /\ Mishap
  /\ running' = "stopping"
  /\ UNCHANGED <<clock, row, body, req, workerVars, checked, replays, historyVars>>

(* drain, shutting down: the rest of the batch is released with the        *)
(* cancelled context, which the store refuses.                             *)
GiveBack(w) ==
  /\ running = "stopping"
  /\ pc[w] = "next"
  /\ \E s \in Foremost(w) :
       /\ hand' = [hand EXCEPT ![w] = @ \ {s}]
       /\ pc' = [pc EXCEPT ![w] = IF hand[w] = {s} THEN "poll" ELSE "next"]
  /\ UNCHANGED <<clock, running, row, body, req, job, since, answer, checked,
                 mishaps, replays, historyVars>>

(* The process is gone: what it held in memory with it.                    *)
Gone ==
  /\ running' = "down"
  /\ pc' = [w \in Workers |-> "poll"]
  /\ hand' = [w \in Workers |-> {}]
  /\ job' = [w \in Workers |-> None]
  /\ since' = [w \in Workers |-> 0]
  /\ answer' = [w \in Workers |-> "none"]
  /\ checked' = [d \in Ids |-> 0]
  /\ req' = [r \in Requests |->
               IF req[r].phase = "writing"
               THEN [req[r] EXCEPT !.phase = "rejected"] ELSE req[r]]
  /\ UNCHANGED <<clock, row, body, replays, historyVars>>

Crash == running = "up" /\ Mishap /\ Gone

(* main does not wait for the workers to return.                           *)
Exit == running = "stopping" /\ UNCHANGED mishaps /\ Gone

(* Slip: the sweep is one unit early.                                      *)
ExpiredEarly(d) ==
  /\ row[d].status = "sending"
  /\ row[d].claimed > 0
  /\ row[d].claimed <= clock - ClaimTimeout

(* RecoverOrphans: the claim has expired.                                  *)
Expired(d) ==
  /\ row[d].status = "sending"
  /\ row[d].claimed > 0
  /\ row[d].claimed < clock - ClaimTimeout

Recovered ==
  [d \in Ids |-> IF Expired(d)
                 THEN [row[d] EXCEPT !.status = "queued", !.updated = clock]
                 ELSE row[d]]

Recover ==
  /\ running = "up"
  /\ row' = Recovered
  /\ UNCHANGED <<clock, running, body, req, workerVars, checked, mishaps,
                 replays, historyVars>>

(* Run sweeps once before it starts the workers; a sweep that fails is     *)
(* logged.                                                                 *)
Restart ==
  /\ running = "down"
  /\ running' = "up"
  /\ \/ row' = Recovered /\ UNCHANGED mishaps
     \/ UNCHANGED row /\ Mishap
  /\ UNCHANGED <<clock, body, req, workerVars, checked, replays, historyVars>>

-----------------------------------------------------------------------------
(* Retention.  prune runs Store.Prune and then Spool.Prune; an error of    *)
(* the first is logged and does not stop the second, so either may take    *)
(* effect alone.  Store.Prune is two statements, and may end after one.    *)

Retention(status) == IF status = "sent" THEN SentRetention ELSE FailedRetention

(* Slip: old rows go whatever their status.                                *)
PruneUnfinished ==
  /\ running = "up"
  /\ row' = [d \in Ids |-> IF row[d].updated < clock - SentRetention
                            THEN NoRow ELSE row[d]]
  /\ UNCHANGED <<clock, running, body, req, workerVars, checked, mishaps,
                 replays, historyVars>>

PruneRows ==
  /\ running = "up"
  /\ \E finished \in {{"sent"}, {"sent", "failed"}} :
       row' = [d \in Ids |->
                 IF /\ row[d].status \in finished
                    /\ row[d].updated < clock - Retention(row[d].status)
                 THEN NoRow ELSE row[d]]
  /\ UNCHANGED <<clock, running, body, req, workerVars, checked, mishaps,
                 replays, historyVars>>

(* Slip: only the bodies of dead letters are pruned.                       *)
PruneFailedBodies ==
  /\ running = "up"
  /\ body' = [d \in Ids |->
                IF row[d].status = "failed" /\ body[d] < clock - FailedRetention
                THEN 0 ELSE body[d]]
  /\ UNCHANGED <<clock, running, row, req, workerVars, checked, mishaps,
                 replays, historyVars>>

PruneBodies ==
  /\ running = "up"
  /\ body' = [d \in Ids |->
                IF body[d] < clock - FailedRetention THEN 0 ELSE body[d]]
  /\ UNCHANGED <<clock, running, row, req, workerVars, checked, mishaps,
                 replays, historyVars>>

-----------------------------------------------------------------------------
(* replayDelivery: the checks, and then the conditional update.            *)

ReplayCheck(d) ==
  /\ Eventful
  /\ running # "down"
  /\ replays < MaxReplays
  /\ row[d].status = "failed"
  /\ body[d] # 0
  /\ checked' = [checked EXCEPT ![d] = @ + 1]
  /\ replays' = replays + 1
  /\ UNCHANGED <<clock, running, row, body, req, workerVars, mishaps, historyVars>>

(* Slip: the update trusts the check.                                      *)
ReplayUnchecked(d) ==
  /\ Eventful
  /\ checked[d] > 0
  /\ checked' = [checked EXCEPT ![d] = @ - 1]
  /\ row' = [row EXCEPT ![d].status = "queued", ![d].attempts = 0,
                        ![d].next = clock, ![d].claimed = 0,
                        ![d].updated = clock]
  /\ arrived' = [arrived EXCEPT ![d] = clock]
  /\ UNCHANGED <<clock, running, body, req, workerVars, mishaps, replays, confirmed>>

Replay(d) ==
  /\ Eventful
  /\ checked[d] > 0
  /\ checked' = [checked EXCEPT ![d] = @ - 1]
  /\ \/ /\ row[d].status = "failed"
        /\ row' = [row EXCEPT ![d].status = "queued", ![d].attempts = 0,
                              ![d].next = clock, ![d].claimed = 0,
                              ![d].updated = clock]
        /\ arrived' = [arrived EXCEPT ![d] = clock]
     \/ /\ row[d].status # "failed"
        /\ UNCHANGED <<row, arrived>>
  /\ UNCHANGED <<clock, running, body, req, workerVars, mishaps, replays, confirmed>>

-----------------------------------------------------------------------------
(* Time.  A call is bounded by its context.  Punctual says that nothing    *)
(* else a worker or an API handler does takes time; without it each may be *)
(* slow anywhere, and a call may outlast its timeout.                      *)

InTime(w) == pc[w] = "poll" \/ (pc[w] = "call" /\ clock < since[w] + DeliverTimeout)

Tick ==
  /\ clock < Horizon
  /\ Punctual => /\ \A w \in Workers : InTime(w)
                 /\ \A r \in Requests : req[r].phase # "writing"
  /\ clock' = clock + 1
  /\ UNCHANGED <<running, row, body, req, workerVars, checked, mishaps, replays,
                 historyVars>>

Enqueuing == \E r \in Requests :
  \/ Begin(r)
  \/ \E d \in Ids : PutBody(r, d)
  \/ PutFails(r)
  \/ InsertRows(r)
  \/ InsertFails(r)

Working(w) ==
  \/ Claim(w)
  \/ Load(w)
  \/ \E c \in Answers : Answer(w, c)
  \/ Complete(w)
  \/ DeadLetter(w)
  \/ Reschedule(w)
  \/ Release(w)
  \/ WriteFails(w)
  \/ Discard(w)
  \/ DiscardFails(w)
  \/ GiveBack(w)

Replaying == \E d \in Ids : ReplayCheck(d) \/ Replay(d)

Next ==
  \/ Enqueuing
  \/ \E w \in Workers : Working(w)
  \/ Stop
  \/ Crash
  \/ Exit
  \/ Restart
  \/ Recover
  \/ PruneRows
  \/ PruneBodies
  \/ Replaying
  \/ Tick

Spec == Init /\ [][Next]_vars

(* What Go's scheduler and the tickers give: a goroutine that can run      *)
(* eventually runs, every loop comes round, a service manager restarts the *)
(* process, and the clock advances.  Mishaps and operators owe nothing.    *)
Fairness ==
  /\ WF_vars(Tick)
  /\ WF_vars(Exit) /\ WF_vars(Restart)
  /\ WF_vars(Recover) /\ WF_vars(PruneBodies)
  /\ \A r \in Requests : /\ WF_vars(\E d \in Ids : PutBody(r, d))
                         /\ WF_vars(InsertRows(r))
  /\ \A w \in Workers :
       /\ WF_vars(Claim(w)) /\ WF_vars(Load(w))
       /\ WF_vars(\E c \in Answers : Answer(w, c))
       /\ WF_vars(Complete(w)) /\ WF_vars(DeadLetter(w))
       /\ WF_vars(Reschedule(w)) /\ WF_vars(Release(w))
       /\ WF_vars(Discard(w))

FairSpec == Spec /\ Fairness

-----------------------------------------------------------------------------
(* Safety, whatever the timing.                                            *)

(* A notification that was accepted and not yet pruned is never lost: its  *)
(* body is on disk, or a channel accepted it, or it is older than the      *)
(* retention of bodies.  Enqueue writes bodies before rows, process drops  *)
(* a body only after SENT, and nothing else deletes one but the pruner.    *)
NothingLost ==
  \A d \in Ids : row[d].status # "absent" =>
    \/ body[d] # 0
    \/ confirmed[d] > 0
    \/ row[d].created < clock - FailedRetention

(* A delivery is reported sent only if a channel accepted it, through any  *)
(* sequence of crashes, late outcomes and replays (Complete and finish).   *)
SentMeansConfirmed ==
  \A d \in Ids : row[d].status = "sent" => confirmed[d] > 0

(* What is in flight can be found again: its claim has a time, not in the  *)
(* future, so that the sweep's test can come true (Claim, RecoverOrphans). *)
InFlightIsClaimed ==
  \A d \in Ids : row[d].status = "sending" =>
    row[d].claimed > 0 /\ row[d].claimed <= clock

(* A caller who was refused finds nothing delivered later: until a call is *)
(* accepted none of its rows exists and no worker has seen it (Enqueue).   *)
RefusedIsNeverSent ==
  \A r \in Requests : req[r].phase # "accepted" =>
    \A d \in r : row[d].status = "absent" /\ confirmed[d] = 0

-----------------------------------------------------------------------------
(* Safety when a claim outlasts a batch: ClaimTimeout >= Batch *           *)
(* DeliverTimeout, and Punctual.                                           *)

Held(w) == hand[w] \cup (IF pc[w] \in {"call", "record"} THEN {job[w]} ELSE {})

(* Until its outcome is recorded, what a worker knows of a delivery is     *)
(* what the table says of it: the row is in flight under this very claim   *)
(* and has spent the attempts the snapshot says.  finish relies on it      *)
(* without looking.                                                        *)
SnapshotFresh ==
  \A w \in Workers : \A s \in Held(w) :
    /\ row[s.id].status = "sending"
    /\ row[s.id].claimed = s.claimed
    /\ row[s.id].attempts = s.attempts

(* A delivery is never in the hands of two workers (Queue.Claim, "or a     *)
(* notification is sent twice").                                           *)
ClaimIsExclusive ==
  \A v, w \in Workers : \A s \in Held(v), t \in Held(w) :
    s.id = t.id => v = w

(* With no crash and no failed write a channel accepts a delivery at most  *)
(* once, through retries, releases and replays.                            *)
SentOnce == mishaps = 0 => \A d \in Ids : confirmed[d] <= 1

(* The attempt budget: nobody spends more than MaxAttempts, and what is    *)
(* queued has one left to spend (retryOrGiveUp, deadLetter, Replay).       *)
BudgetKept ==
  \A d \in Ids :
    /\ row[d].attempts <= MaxAttempts
    /\ row[d].status = "queued" => row[d].attempts < MaxAttempts

(* Nothing is scheduled far beyond the age limit: the next attempt of a    *)
(* queued delivery lies within one delay of MaxAge after it was created,   *)
(* or it was due at once when it was inserted or replayed.                 *)
Delays == {Backoff[i] : i \in DOMAIN Backoff} \cup {ReleaseDelay}

Planned(d) ==
  \/ row[d].next = arrived[d]
  \/ \E delay \in Delays : row[d].next < row[d].created + MaxAge + delay

ScheduleBounded == \A d \in Ids : row[d].status = "queued" => Planned(d)

(* The detailed queue implements the promise (store.Status and Terminal).  *)
Fate(d) ==
  CASE row[d].status = "absent" -> "unknown"
    [] row[d].status \in {"queued", "sending"} -> "pending"
    [] OTHER -> row[d].status

Promise == INSTANCE DeliveryPromise WITH
  fate     <- [d \in Ids |-> Fate(d)],
  accepted <- {r \in Requests : req[r].phase = "accepted"},
  reached  <- {d \in Ids : confirmed[d] > 0}

KeepsPromise == Promise!Spec

-----------------------------------------------------------------------------
(* Liveness, under FairSpec.                                               *)

(* Every accepted delivery is eventually sent or dead-lettered, and so is  *)
(* every replayed one, whatever the channel answers and wherever a crash   *)
(* or a failed write leaves it: the sweep finds it and MaxAge ends it.     *)
EventuallySettled ==
  \A d \in Ids : row[d].status \in {"queued", "sending"}
                   ~> row[d].status \in {"sent", "failed"}

(* The body of a call that was refused half-way does not stay for ever     *)
(* (Enqueue: "the spool pruner collects it").                              *)
OrphanBodiesCollected ==
  \A r \in Requests : \A d \in r :
    (req[r].phase = "rejected" /\ body[d] # 0) ~> body[d] = 0
=============================================================================
