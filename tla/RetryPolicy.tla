---------------------------- MODULE RetryPolicy ----------------------------
(***************************************************************************)
(* When a failed delivery is tried again, and when it is given up:         *)
(* internal/queue/policy.go.  The policy is a value; every operator here   *)
(* is a function of an attempt count and of an age.  Durations are clock   *)
(* units.                                                                  *)
(***************************************************************************)
EXTENDS Integers, Sequences

CONSTANTS
  MaxAttempts,   \* attempts a delivery may spend
  Backoff,       \* the delays, in order; the last one repeats
  MaxAge         \* how long a delivery may stay in the queue

(* What Normalize leaves: nothing non-positive and no empty ladder.        *)
ASSUME PolicyAssumption ==
  /\ MaxAttempts \in Nat \ {0}
  /\ Backoff \in Seq(Nat) /\ Backoff # <<>>
  /\ MaxAge \in Nat \ {0}

(* The delay after the given number of attempts; the Go slice counts from  *)
(* zero, the sequence from one.                                            *)
Delay(attempts) ==
  Backoff[IF attempts >= Len(Backoff) THEN Len(Backoff) ELSE attempts + 1]

(* ExhaustedReason(attempts, age) # "" in the code.                        *)
Exhausted(attempts, age) == attempts >= MaxAttempts \/ age >= MaxAge

(* Retry: is there another try, and when.  The two tests are the ones of   *)
(* ExhaustedReason, written out a second time in the code.                 *)
MayRetry(attempts, age) == ~(attempts >= MaxAttempts) /\ ~(age >= MaxAge)
RetryAt(attempts, now)  == now + Delay(attempts)
=============================================================================
