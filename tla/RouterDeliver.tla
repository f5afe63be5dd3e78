--------------------------- MODULE RouterDeliver ---------------------------
(***************************************************************************)
(* Router.Deliver: one message on its way to one channel, over the         *)
(* channel's Breaker and its Quota (internal/router/router.go).            *)
(*                                                                         *)
(* A delivery is admitted by the breaker, rendered as one or more parts,   *)
(* and for each part reserves allowance, waits for the rate limit, calls   *)
(* the channel and settles.  However it ends it reports to the breaker or  *)
(* gives its admission back, and it returns the class the queue acts on.   *)
(*                                                                         *)
(* The two components share the clock, the process and the store; each of  *)
(* their operations is a step, and concurrent deliveries take them in any  *)
(* order.  How long the rate limit holds a delivery back is left open.     *)
(***************************************************************************)
EXTENDS Integers, Sequences, FiniteSets

CONSTANTS
  Callers, Policies, Shorts, Longs, Span, Limit,  \* see Breaker and Quota
  MaxParts,    \* bound: parts a message is split into
  Horizon, MaxMishaps

ASSUME DeliverAssumption == MaxParts \in Nat \ {0}

VARIABLES
  settings, mem, saved, call,                     \* Breaker
  entries, count, res, reached, spent, blind,     \* Quota
  clock, mishaps,                                 \* both
  run,      \* the local variables of Deliver, and then what it returned
  heard,    \* how many calls were not CONNECT_ERROR
  faulted   \* whether any was TRANSIENT or CONNECT_ERROR

breaker == <<settings, mem, saved, call>>
quota   == <<entries, count, res, reached, spent, blind>>
own     == <<run, heard, faulted>>
vars    == <<breaker, quota, clock, mishaps, own>>

B == INSTANCE Breaker WITH LastEvent <- Horizon
Q == INSTANCE Quota WITH Quick <- FALSE

(* What the two assume.                                                    *)
ASSUME ComponentAssumption ==
  /\ IsFiniteSet(Callers)
  /\ Policies \subseteq B!Settings /\ Policies # {}
  /\ Shorts \in Seq(Q!ShortKinds) /\ Longs \in Seq(Q!LongKinds)
  /\ Span \in [Q!Kinds -> Nat \ {0}] /\ Limit \in [Q!Kinds -> Nat]
  /\ Horizon \in Nat \ {0} /\ MaxMishaps \in Nat

-----------------------------------------------------------------------------
Skips == {"none", "BREAKER_OPEN", "QUOTA_EXHAUSTED", "RATE_LIMITED"}

(* ResultClass, by severity.                                               *)
Classes == {"NOT_ATTEMPTED", "SENT", "CONNECT_ERROR", "TRANSIENT", "PERMANENT"}

Severity == [NOT_ATTEMPTED |-> 0, SENT |-> 1, CONNECT_ERROR |-> 2,
             TRANSIENT |-> 3, PERMANENT |-> 4]

(* "sending" is the loop over the parts; after it the delivery reports,    *)
(* and class and skip are what it returned once it is "idle" again.        *)
(* calls and accepted are histories: the calls made, and those that the    *)
(* channel accepted.                                                       *)
TargetResult ==
  [step : {"idle", "sending", "reporting"}, class : Classes, skip : Skips,
   parts : 0..MaxParts, calls : 0..MaxParts, accepted : 0..MaxParts]

At(step, class, skip, parts) ==
  [step |-> step, class |-> class, skip |-> skip, parts |-> parts,
   calls |-> 0, accepted |-> 0]

TypeOK ==
  /\ B!TypeOK /\ Q!TypeOK
  /\ run \in [Callers -> TargetResult]
  /\ heard \in Nat /\ faulted \in BOOLEAN

Init ==
  /\ B!Init /\ Q!Init
  /\ run = [c \in Callers |-> At("idle", "PERMANENT", "none", 0)]
  /\ heard = 0 /\ faulted = FALSE

-----------------------------------------------------------------------------
(* Before the channel.                                                     *)

(* pinTarget or checkRecipients: the target does not fit the channel.      *)
Misfit(c) ==
  /\ run[c].step = "idle"
  /\ run' = [run EXCEPT ![c] = At("idle", "PERMANENT", "none", 0)]
  /\ UNCHANGED <<breaker, quota, clock, mishaps, heard, faulted>>

(* The breaker is asked first, before anything is committed.               *)
Skip(c, ok) ==
  /\ run[c].step = "idle"
  /\ B!Refuse(c, ok)
  /\ run' = [run EXCEPT ![c] = At("idle", "NOT_ATTEMPTED", "BREAKER_OPEN", 0)]
  /\ UNCHANGED <<quota, heard, faulted>>

(* Apply: the parts of the message, or none when it cannot be made to fit. *)
Start(c, ok) ==
  /\ run[c].step = "idle"
  /\ B!Admit(c, ok)
  /\ \E n \in 0..MaxParts :
       run' = [run EXCEPT ![c] =
                 IF n > 0 THEN At("sending", "NOT_ATTEMPTED", "none", n)
                 ELSE At("reporting", "PERMANENT", "none", 0)]
  /\ UNCHANGED <<quota, heard, faulted>>

-----------------------------------------------------------------------------
(* The loop over the parts.                                                *)

Sending(c) == run[c].step = "sending"

(* Slip: what came last is reported.                                       *)
LatestOf(a, b) == b

(* combine; what is not known yet is as if not attempted.                  *)
Worst(a, b) == IF Severity[b] > Severity[a] THEN b ELSE a

(* The steps of TryReserve that do not end it.                             *)
Reserve(c, ok) ==
  /\ Sending(c)
  /\ \/ ok /\ Q!TakeShort(c)
     \/ Q!Ask(c, ok)
  /\ UNCHANGED <<breaker, own>>

(* The rest of the message is held back.                                   *)
HeldBack(c, why) ==
  run' = [run EXCEPT ![c].step = "reporting", ![c].skip = why,
                     ![c].class = Worst(@, "NOT_ATTEMPTED")]

OutOfQuota(c) ==
  /\ Sending(c)
  /\ Q!RefuseShort(c) \/ Q!GiveUp(c)
  /\ HeldBack(c, "QUOTA_EXHAUSTED")
  /\ UNCHANGED <<breaker, heard, faulted>>

(* Slip: the reservation is forgotten.                                     *)
GiveUpKeeping(c) ==
  /\ Sending(c)
  /\ Q!Held(c)
  /\ HeldBack(c, "RATE_LIMITED")
  /\ UNCHANGED <<breaker, quota, clock, mishaps, heard, faulted>>

(* limiter.wait: the context expired first.                                *)
GiveUpWaiting(c) ==
  /\ Sending(c)
  /\ Q!Held(c)
  /\ Q!Release(c)
  /\ HeldBack(c, "RATE_LIMITED")
  /\ UNCHANGED <<breaker, heard, faulted>>

(* Slip: the class is taken as the channel gives it.                       *)
AsGiven(a) == a

(* A channel that ran cannot say that it was not attempted.                *)
Normalised(a) == IF a = "NOT_ATTEMPTED" THEN "CONNECT_ERROR" ELSE a

(* Slip: every call is charged.                                            *)
SettledAsSpent(c, one) == Q!Commit(c)

(* The settlement, by whether the peer was reached.                        *)
Settled(c, one) ==
  IF one \in {"CONNECT_ERROR", "NOT_ATTEMPTED"} THEN Q!Release(c) ELSE Q!Commit(c)

LastPart(c) == run[c].calls + 1 = run[c].parts

(* ch.Send.                                                                *)
Call(c, a) ==
  /\ Sending(c)
  /\ Q!Held(c)
  /\ LET one == Normalised(a) IN
     /\ Settled(c, one)
     /\ heard' = IF one = "CONNECT_ERROR" THEN heard ELSE heard + 1
     /\ faulted' = (faulted \/ one \in {"CONNECT_ERROR", "TRANSIENT"})
     /\ run' = [run EXCEPT
                  ![c].step = IF LastPart(c) THEN "reporting" ELSE @,
                  ![c].class = Worst(@, one),
                  ![c].calls = @ + 1,
                  ![c].accepted = IF one = "SENT" THEN @ + 1 ELSE @]
  /\ UNCHANGED breaker

(* The rest of a settlement: Release gives back the long windows.          *)
Return(c, ok) == Q!ReturnLong(c, ok) /\ UNCHANGED <<breaker, own>>

-----------------------------------------------------------------------------
(* The end.  The class is NOT_ATTEMPTED when the channel was not called,   *)
(* unless the message never fitted, and the deferred function reports.     *)

Called(c) == run[c].calls > 0

(* Slip: every delivery is recorded, also one that was held back.          *)
RecordedAnyway(c, ok) ==
  IF run[c].class \in {"SENT", "PERMANENT"} THEN B!RecordSuccess(c, ok)
  ELSE B!RecordFailure(c, ok)

Recorded(c, ok) ==
  CASE ~Called(c) -> B!Abandon(c, ok)
    [] Called(c) /\ run[c].class \in {"SENT", "PERMANENT"} -> B!RecordSuccess(c, ok)
    [] OTHER -> B!RecordFailure(c, ok)

Finish(c, ok) ==
  /\ run[c].step = "reporting" /\ res[c].phase # "returning"
  /\ Recorded(c, ok)
  /\ run' = [run EXCEPT ![c].step = "idle",
                        ![c].skip = IF Called(c) THEN "none" ELSE @]
  /\ UNCHANGED <<quota, heard, faulted>>

-----------------------------------------------------------------------------
(* The operator, the process, time.                                        *)

ResetBreaker(ok) == B!Reset(ok) /\ UNCHANGED <<quota, own>>

Restart ==
  /\ B!Restart /\ Q!Crash
  /\ run' = [c \in Callers |-> At("idle", "PERMANENT", "none", 0)]
  /\ UNCHANGED <<heard, faulted>>

Tick == B!Tick /\ Q!Tick /\ UNCHANGED own

Next ==
  \/ \E c \in Callers : Misfit(c) \/ OutOfQuota(c) \/ GiveUpWaiting(c)
  \/ \E c \in Callers, ok \in BOOLEAN :
       Skip(c, ok) \/ Start(c, ok) \/ Reserve(c, ok) \/ Return(c, ok) \/ Finish(c, ok)
  \/ \E c \in Callers, a \in Classes : Call(c, a)
  \/ \E ok \in BOOLEAN : ResetBreaker(ok)
  \/ Restart
  \/ Tick

Spec == Init /\ [][Next]_vars

-----------------------------------------------------------------------------
(* Properties.                                                             *)

Returned(c) == run[c].step = "idle"

(* A delivery that is over holds nothing, whichever way it ended: no probe *)
(* slot and no allowance (the deferred function; "the path that forgot     *)
(* would strand the slot for the life of the process").                    *)
OverHoldsNothing ==
  \A c \in Callers : Returned(c) =>
    call[c] = "idle" /\ res[c].phase = "none"

(* NOT_ATTEMPTED comes with a reason, a reason only with NOT_ATTEMPTED,    *)
(* and then the channel has not seen any part of the message: the queue    *)
(* puts it back without spending an attempt (result.go, INVARIANT).        *)
SkippedIsUntouched ==
  \A c \in Callers : Returned(c) =>
    /\ run[c].class = "NOT_ATTEMPTED" <=> run[c].skip # "none"
    /\ run[c].class = "NOT_ATTEMPTED" => run[c].calls = 0

(* SENT is earned: no part was refused, none failed, and one at least was  *)
(* accepted (Deliver, "an unearned sent loses a notification").            *)
SentIsEarned ==
  \A c \in Callers : Returned(c) /\ run[c].class = "SENT" =>
    run[c].calls > 0 /\ run[c].accepted = run[c].calls

(* Only the channel's own failures take it out of service: a busy hour, a  *)
(* spent allowance, a message that does not fit do not (Deliver, called).  *)
OnlyFaultsOpen == ~faulted => mem.state = "closed"

(* When nothing is under way, what was charged to the window asked last    *)
(* is what the peer has seen: a delivery held back by the breaker or the   *)
(* rate limit and a call that never got there cost nothing, and a message  *)
(* costs what it has parts.                                                *)
Units(f) == UNION {{p} \X (1..f[p]) : p \in Q!Periods}

ChargedIsHeard ==
  mishaps = 0 /\ (\A c \in Callers : run[c].step = "idle") =>
    LET w == Longs[Len(Longs)] IN
    Q!Limited(w) => Cardinality(Units(count[w])) = heard

-----------------------------------------------------------------------------
(* What the repository says and the code does not do: this is violated.    *)

(* result.go:47, "ClassSent means the downstream accepted the message".    *)
SentInFull ==
  \A c \in Callers : Returned(c) /\ run[c].class = "SENT" =>
    run[c].accepted = run[c].parts
=============================================================================
