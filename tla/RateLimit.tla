------------------------------ MODULE RateLimit ------------------------------
(***************************************************************************)
(* The rate limit of one channel (internal/router/ratelimit.go): a bucket  *)
(* that hands out one instant for each interval.  A caller claims the next *)
(* free instant and then waits for it, or until its context is over.       *)
(***************************************************************************)
EXTENDS Integers, Sequences

CONSTANTS
  Callers,
  Intervals,   \* what the channel's rate may be configured to, as an interval,
               \*   a number greater than 0
  Horizon      \* bound: the clock

VARIABLES
  clock,
  interval,    \* of the bucket
  next,        \* the next free instant
  due,         \* by caller, the instant it claimed last
  granted      \* history: the instants in the order they were claimed, each
               \*   with the interval in force

Claims == [at : Nat, gap : Intervals]

TypeOK ==
  /\ clock \in Nat /\ interval \in Intervals /\ next \in Nat
  /\ due \in [Callers -> Nat]
  /\ granted \in Seq(Claims)

Init ==
  /\ clock = 0 /\ interval \in Intervals /\ next = 0
  /\ due = [c \in Callers |-> 0]
  /\ granted = <<>>

Latest(a, b) == IF a < b THEN b ELSE a

(* bucket, setInterval: the bucket takes the rate of whoever comes.        *)
Retune(i) ==
  /\ interval' = i
  /\ UNCHANGED <<clock, next, due, granted>>

(* reserve.                                                                *)
Claim(c) ==
  LET slot == Latest(next, clock) IN
  /\ next' = slot + interval
  /\ due' = [due EXCEPT ![c] = slot]
  /\ granted' = Append(granted, [at |-> slot, gap |-> interval])
  /\ UNCHANGED <<clock, interval>>

Due(c) == due[c] <= clock

(* Slip: a caller that gives up hands its instant back.                    *)
HandBack(c) ==
  /\ ~Due(c)
  /\ next' = next - interval
  /\ UNCHANGED <<clock, interval, due, granted>>

(* The context of a caller that waits is over; its instant stays claimed.  *)
GiveUp(c) ==
  /\ ~Due(c)
  /\ UNCHANGED <<clock, interval, next, due, granted>>

Tick ==
  /\ clock < Horizon /\ clock' = clock + 1
  /\ UNCHANGED <<interval, next, due, granted>>

Next ==
  \/ \E i \in Intervals : Retune(i)
  \/ \E c \in Callers : Claim(c) \/ GiveUp(c)
  \/ Tick

vars == <<clock, interval, next, due, granted>>

Spec == Init /\ [][Next]_vars

-----------------------------------------------------------------------------
(* Any two instants are apart by the interval in force when the earlier    *)
(* was claimed, whoever gives up and however idle the channel was: no      *)
(* burst reaches the endpoint (limiter, reserve).                          *)
Spaced ==
  \A i, j \in DOMAIN granted :
    i < j => granted[i].at + granted[i].gap <= granted[j].at
=============================================================================
