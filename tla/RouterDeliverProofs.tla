------------------------ MODULE RouterDeliverProofs ------------------------
(***************************************************************************)
(* What holds of RouterDeliver for every number of deliveries and parts,   *)
(* every policy and every allowance: a delivery that is over holds         *)
(* nothing, the class it returned was earned, and only a call that failed  *)
(* counts against the channel; the breaker and the quota keep what they    *)
(* promise, and the channel is charged for what its peer has seen.         *)
(***************************************************************************)
EXTENDS RouterDeliver, FiniteSetTheorems, TLAPS

(* What is proved of the components: they are cited for the state they     *)
(* have here.                                                              *)
BP == INSTANCE BreakerProofs WITH LastEvent <- Horizon
QP == INSTANCE QuotaProofs WITH Quick <- FALSE

(* The shape of what the components keep for a delivery, as far as it      *)
(* matters here.                                                           *)
Phases == {"none", "asking", "refused", "returning"}

Windows == {Longs[i] : i \in Nat}

Reserving ==
  [phase : Phases, at : Nat, asked : Nat, taken : SUBSET Windows]

Run == [step : {"idle", "sending", "reporting"}, class : Classes, skip : Skips,
        parts : Nat, calls : Nat, accepted : Nat]

Shape ==
  /\ clock \in Nat
  /\ call \in [Callers -> B!Admissions]
  /\ res \in [Callers -> Reserving]
  /\ run \in [Callers -> Run]

(* What a delivery holds, by where it is.                                  *)
Holds ==
  \A c \in Callers :
    /\ run[c].step = "idle" => call[c] = "idle" /\ res[c].phase = "none"
    /\ run[c].step = "reporting" => res[c].phase \in {"none", "returning"}

(* What a class says of the calls made so far, and when there is a reason. *)
Earned(r) ==
  /\ r.class = "SENT" => r.calls > 0 /\ r.accepted = r.calls
  /\ r.class = "NOT_ATTEMPTED" => r.calls = 0 /\ r.accepted = 0
  /\ r.step = "sending" => r.skip = "none" /\ (r.calls = 0 => r.class = "NOT_ATTEMPTED")
  /\ r.step = "reporting" /\ r.calls = 0 =>
       (r.class = "NOT_ATTEMPTED" <=> r.skip # "none")
  /\ r.step = "idle" => (r.class = "NOT_ATTEMPTED" <=> r.skip # "none")

DeliverInv == Shape /\ Holds /\ \A c \in Callers : Earned(run[c])

-----------------------------------------------------------------------------
(* What the operations of the breaker do to its admissions.                *)

Others(c) == \A d \in Callers \ {c} : call[d] = "idle" => call'[d] = "idle"

(* An admission is the only one it changes, but for those it outdates.     *)
LEMMA AdmitsOne ==
  ASSUME Shape, NEW c \in Callers, NEW ok, B!Admit(c, ok)
  PROVE  call' \in [Callers -> B!Admissions] /\ Others(c)
BY DEF Shape, B!Admit, B!Outdated, B!Admissions, Others

(* Whatever a report does to the breaker, it ends its own admission.       *)
LEMMA ReportEnds ==
  ASSUME Shape, NEW c \in Callers, NEW ok, Recorded(c, ok)
  PROVE  /\ call' \in [Callers -> B!Admissions] /\ call'[c] = "idle" /\ Others(c)
         /\ UNCHANGED clock
<1>1. ASSUME NEW m, B!Stays(c, m)
      PROVE  call' \in [Callers -> B!Admissions] /\ call'[c] = "idle" /\ Others(c)
  BY <1>1 DEF Shape, B!Stays, B!Admissions, Others
<1>2. ASSUME NEW m, NEW s, B!Moves(c, m, s, ok)
      PROVE  call' \in [Callers -> B!Admissions] /\ call'[c] = "idle" /\ Others(c)
  BY <1>2 DEF Shape, B!Moves, B!Outdated, B!Admissions, Others
<1>3. CASE B!Abandon(c, ok)
  BY <1>1, <1>3 DEF B!Abandon
<1>4. CASE B!RecordSuccess(c, ok)
  BY <1>1, <1>2, <1>4 DEF B!RecordSuccess
<1>5. CASE B!RecordFailure(c, ok)
  BY <1>1, <1>2, <1>5 DEF B!RecordFailure
<1>6. QED BY <1>3, <1>4, <1>5 DEF Recorded

-----------------------------------------------------------------------------
(* What the operations of the quota do to a reservation.                   *)

Only(c) == \A d \in Callers \ {c} : res'[d] = res[d]

(* The short windows are taken for this delivery only.                     *)
LEMMA Taking ==
  ASSUME Shape, NEW c \in Callers, Q!TakeShort(c)
  PROVE  res' \in [Callers -> Reserving] /\ Only(c) /\ UNCHANGED clock
BY DEF Shape, Q!TakeShort, Reserving, Phases, Only

(* So is each long window, or it is refused and nothing else changes.      *)
LEMMA AskingOn ==
  ASSUME Shape, NEW c \in Callers, NEW ok, Q!Ask(c, ok)
  PROVE  res' \in [Callers -> Reserving] /\ Only(c) /\ UNCHANGED clock
<1> DEFINE w == Longs[res[c].asked + 1]
<1>1. /\ res[c].asked \in Nat /\ w \in Windows
      /\ UNCHANGED clock
  BY DEF Shape, Reserving, Windows, Q!Ask
<1>2. CASE res' = [res EXCEPT ![c].asked = @ + 1]
  BY <1>1, <1>2 DEF Shape, Reserving, Only
<1>3. CASE res' = [res EXCEPT ![c].asked = @ + 1, ![c].taken = @ \cup {w}]
  <2>1. SUFFICES ASSUME NEW y, y = [res[c] EXCEPT !.asked = @ + 1,
                                                  !.taken = @ \cup {w}]
                 PROVE  res' \in [Callers -> Reserving] /\ Only(c)
    BY <1>1
  <2>2. y \in Reserving
    <3>1. res[c] \in Reserving /\ res[c].taken \cup {w} \in SUBSET Windows
      BY <1>1 DEF Shape, Reserving
    <3>2. ASSUME NEW t \in SUBSET Windows, NEW n \in Nat
          PROVE  [res[c] EXCEPT !.asked = n, !.taken = t] \in Reserving
      BY <3>1 DEF Reserving
    <3>3. res[c].asked + 1 \in Nat
      BY <1>1
    <3>4. [res[c] EXCEPT !.asked = res[c].asked + 1, !.taken = res[c].taken \cup {w}]
            \in Reserving
      BY <3>1, <3>2, <3>3, Zenon
    <3>5. QED BY <2>1, <3>4
  <2>3. res' = [res EXCEPT ![c] = y]
    BY <1>3, <2>1
  <2>4. QED BY <2>2, <2>3 DEF Shape, Only
<1>4. CASE res' = [res EXCEPT ![c].phase = "refused"]
  BY <1>1, <1>4 DEF Shape, Reserving, Phases, Only
<1>5. QED BY <1>2, <1>3, <1>4 DEF Q!Ask

(* A refused reservation ends with nothing held.                           *)
LEMMA GivingUp ==
  ASSUME Shape, NEW c \in Callers, Q!GiveUp(c)
  PROVE  /\ res' \in [Callers -> Reserving] /\ Only(c) /\ res'[c].phase = "none"
         /\ UNCHANGED clock
BY DEF Shape, Q!GiveUp, Q!NoReservation, Reserving, Phases, Only

(* A settlement ends the reservation, or begins to give it back.           *)
LEMMA Settling ==
  ASSUME Shape, NEW c \in Callers, NEW one, Settled(c, one)
  PROVE  /\ res' \in [Callers -> Reserving] /\ Only(c) /\ UNCHANGED clock
         /\ res'[c].phase \in {"none", "returning"}
<1>1. CASE Q!Commit(c)
  BY <1>1 DEF Shape, Q!Commit, Q!NoReservation, Reserving, Phases, Only
<1>2. CASE Q!Release(c)
  BY <1>2 DEF Shape, Q!Release, Q!NoReservation, Reserving, Phases, Only
<1>3. QED BY <1>1, <1>2 DEF Settled

(* Giving back ends when the last long window has been returned.           *)
LEMMA Returning ==
  ASSUME Shape, NEW c \in Callers, NEW ok, Q!ReturnLong(c, ok)
  PROVE  /\ res' \in [Callers -> Reserving] /\ Only(c) /\ UNCHANGED clock
         /\ res[c].phase = "returning" /\ res'[c].phase \in {"none", "returning"}
BY DEF Shape, Q!ReturnLong, Q!NoReservation, Reserving, Phases, Only

-----------------------------------------------------------------------------
(* The local variables.                                                    *)

(* What the worst of two classes says of each.                             *)
LEMMA WorstOf ==
  ASSUME NEW a \in Classes, NEW b \in Classes
  PROVE  /\ Worst(a, b) \in Classes
         /\ Worst(a, b) = "SENT" => a \in {"NOT_ATTEMPTED", "SENT"}
                                     /\ b \in {"NOT_ATTEMPTED", "SENT"}
                                     /\ (a = "SENT" \/ b = "SENT")
         /\ Worst(a, b) = "NOT_ATTEMPTED" => a = "NOT_ATTEMPTED" /\ b = "NOT_ATTEMPTED"
         /\ Worst(a, "NOT_ATTEMPTED") = a
BY DEF Worst, Classes, Severity

(* A step that gives one delivery new local variables and nothing else a   *)
(* reason to change keeps what all of them promise.                        *)
LEMMA OneStep ==
  ASSUME DeliverInv, clock' \in Nat,
         NEW c \in Callers, NEW r \in Run, run' = [run EXCEPT ![c] = r], Earned(r),
         call' \in [Callers -> B!Admissions], Others(c),
         res' \in [Callers -> Reserving], Only(c),
         r.step = "idle" => call'[c] = "idle" /\ res'[c].phase = "none",
         r.step = "reporting" => res'[c].phase \in {"none", "returning"}
  PROVE  DeliverInv'
<1>1. Shape'
  BY DEF DeliverInv, Shape
<1>2. Holds'
  BY DEF DeliverInv, Shape, Holds, Others, Only
<1>3. \A d \in Callers : Earned(run'[d])
  BY DEF DeliverInv, Shape
<1>4. QED BY <1>1, <1>2, <1>3 DEF DeliverInv, Earned

(* The rest of the message is held back: the class stays what it was.      *)
LEMMA HeldBackKeeps ==
  ASSUME DeliverInv, NEW c \in Callers, NEW why \in Skips \ {"none"}, Sending(c),
         HeldBack(c, why), UNCHANGED <<clock, call>>,
         res' \in [Callers -> Reserving], Only(c),
         res'[c].phase \in {"none", "returning"}
  PROVE  DeliverInv'
<1>1. run[c] \in Run /\ run[c].step = "sending" /\ Earned(run[c])
  BY DEF DeliverInv, Shape, Sending
<1>2. SUFFICES ASSUME NEW r, r = [run[c] EXCEPT !.step = "reporting", !.skip = why,
                                               !.class = run[c].class]
               PROVE  DeliverInv'
  OBVIOUS
<1>3. r \in Run /\ r.step = "reporting" /\ Earned(r)
  <2>1. /\ r \in Run /\ r.step = "reporting" /\ r.skip = why
        /\ r.class = run[c].class /\ r.calls = run[c].calls
        /\ r.accepted = run[c].accepted
    BY <1>1, <1>2 DEF Run
  <2>2. QED BY <1>1, <2>1 DEF Earned
<1>4. run' = [run EXCEPT ![c] = r]
  <2>1. Worst(run[c].class, "NOT_ATTEMPTED") = run[c].class
    BY <1>1, WorstOf DEF Run, Classes
  <2>2. run' = [run EXCEPT ![c].step = "reporting", ![c].skip = why,
                           ![c].class = run[c].class]
    BY <2>1 DEF HeldBack
  <2>3. QED BY <1>2, <2>2
<1>5. QED BY <1>2, <1>3, <1>4, OneStep DEF DeliverInv, Shape, Others

(* A call: SENT survives only while every call was accepted.               *)
LEMMA CallKeeps ==
  ASSUME DeliverInv, NEW c \in Callers, NEW a \in Classes, Call(c, a)
  PROVE  DeliverInv'
<1>1. run[c] \in Run /\ run[c].step = "sending" /\ Earned(run[c])
  BY DEF DeliverInv, Shape, Call, Sending
<1>2. SUFFICES ASSUME NEW one \in Classes \ {"NOT_ATTEMPTED"}, one = Normalised(a),
                      NEW n \in Nat, n = run[c].calls + 1,
                      NEW k \in Nat,
                      k = IF one = "SENT" THEN run[c].accepted + 1 ELSE run[c].accepted,
                      NEW s \in {"sending", "reporting"},
                      s = IF LastPart(c) THEN "reporting" ELSE "sending",
                      NEW x \in Classes, x = Worst(run[c].class, one)
               PROVE  DeliverInv'
  <2>1. Normalised(a) \in Classes \ {"NOT_ATTEMPTED"}
    BY DEF Normalised, Classes
  <2>2. run[c].calls \in Nat /\ run[c].accepted \in Nat /\ run[c].class \in Classes
    BY <1>1 DEF Run
  <2>3. Worst(run[c].class, Normalised(a)) \in Classes
    BY <2>1, <2>2, WorstOf
  <2>4. QED BY <2>1, <2>2, <2>3
<1>3. SUFFICES ASSUME NEW r, r = [run[c] EXCEPT !.step = s, !.class = x,
                                               !.calls = n, !.accepted = k]
               PROVE  DeliverInv'
  OBVIOUS
<1>4. /\ r \in Run /\ r.step = s /\ r.class = x /\ r.skip = run[c].skip
      /\ r.calls = n /\ r.accepted = k
  BY <1>1, <1>2, <1>3 DEF Run
<1>5. Earned(r)
  <2>1. x # "NOT_ATTEMPTED" /\ n # 0 /\ run[c].skip = "none"
    BY <1>1, <1>2, WorstOf DEF Run, Earned
  <2>2. x = "SENT" => n > 0 /\ k = n
    <3>1. SUFFICES ASSUME x = "SENT" PROVE n > 0 /\ k = n
      OBVIOUS
    <3>2. one = "SENT" /\ run[c].class \in {"NOT_ATTEMPTED", "SENT"}
      BY <1>1, <1>2, <3>1, WorstOf DEF Run
    <3>3. run[c].accepted = run[c].calls /\ run[c].calls \in Nat
      BY <1>1, <3>2 DEF Earned, Run
    <3>4. QED BY <1>2, <3>2, <3>3
  <2>3. QED BY <1>2, <1>4, <2>1, <2>2 DEF Earned
<1>6. run' = [run EXCEPT ![c] = r]
  <2>1. run' = [run EXCEPT ![c].step = s, ![c].class = x, ![c].calls = n,
                           ![c].accepted = k]
    BY <1>1, <1>2 DEF Call
  <2>2. QED BY <1>3, <2>1
<1>7. /\ res' \in [Callers -> Reserving] /\ Only(c) /\ UNCHANGED <<clock, call>>
      /\ res'[c].phase \in {"none", "returning"}
  BY <1>2, Settling DEF DeliverInv, Call, breaker
<1>8. QED BY <1>2, <1>3, <1>4, <1>5, <1>6, <1>7, OneStep DEF DeliverInv, Shape, Others

(* The report: the reason is dropped when the channel was called.          *)
LEMMA FinishKeeps ==
  ASSUME DeliverInv, NEW c \in Callers, NEW ok \in BOOLEAN, Finish(c, ok)
  PROVE  DeliverInv'
<1>1. run[c] \in Run /\ run[c].step = "reporting" /\ Earned(run[c])
  BY DEF DeliverInv, Shape, Finish
<1>2. SUFFICES ASSUME NEW k \in Skips, k = IF Called(c) THEN "none" ELSE run[c].skip
               PROVE  DeliverInv'
  BY <1>1 DEF Run, Skips
<1>3. SUFFICES ASSUME NEW r, r = [run[c] EXCEPT !.step = "idle", !.skip = k]
               PROVE  DeliverInv'
  OBVIOUS
<1>4. /\ r \in Run /\ r.step = "idle" /\ r.class = run[c].class /\ r.skip = k
      /\ r.calls = run[c].calls /\ r.accepted = run[c].accepted
  BY <1>1, <1>2, <1>3 DEF Run
<1>5. Earned(r)
  BY <1>1, <1>2, <1>4 DEF Earned, Called, Run
<1>6. run' = [run EXCEPT ![c] = r]
  <2>1. run' = [run EXCEPT ![c].step = "idle", ![c].skip = k]
    BY <1>2 DEF Finish
  <2>2. QED BY <1>3, <2>1
<1>7. UNCHANGED res /\ res[c].phase = "none"
  BY <1>1 DEF Finish, quota, DeliverInv, Holds
<1>8. /\ call' \in [Callers -> B!Admissions] /\ call'[c] = "idle" /\ Others(c)
      /\ UNCHANGED clock
  BY ReportEnds DEF Finish, DeliverInv
<1>9. QED BY <1>3, <1>4, <1>5, <1>6, <1>7, <1>8, OneStep DEF DeliverInv, Shape, Only

-----------------------------------------------------------------------------
(* The whole system.                                                       *)

(* Every delivery starts over, with nothing.                               *)
LEMMA Fresh ==
  LET none == At("idle", "PERMANENT", "none", 0) IN none \in Run /\ Earned(none)
BY DEF At, Run, Earned, Classes, Skips

(* It holds at the start.                                                  *)
LEMMA Initially == Init => DeliverInv
<1>1. SUFFICES ASSUME Init PROVE DeliverInv
  OBVIOUS
<1>2. clock \in Nat /\ call \in [Callers -> B!Admissions]
      /\ \A c \in Callers : call[c] = "idle"
  BY <1>1 DEF Init, B!Init, B!Admissions
<1>3. res \in [Callers -> Reserving] /\ \A c \in Callers : res[c].phase = "none"
  <2>1. Q!NoReservation \in Reserving /\ Q!NoReservation.phase = "none"
    BY DEF Q!NoReservation, Reserving, Phases
  <2>2. QED BY <1>1, <2>1 DEF Init, Q!Init
<1>4. run \in [Callers -> Run] /\ \A c \in Callers : Earned(run[c]) /\ run[c].step = "idle"
  BY <1>1, Fresh DEF Init, At
<1>5. QED BY <1>2, <1>3, <1>4 DEF DeliverInv, Shape, Holds

(* Every step keeps it.                                                    *)
LEMMA EveryStep == DeliverInv /\ [Next]_vars => DeliverInv'
<1>1. SUFFICES ASSUME DeliverInv, [Next]_vars PROVE DeliverInv'
  OBVIOUS
<1>2. Shape
  BY <1>1 DEF DeliverInv
<1>3. ASSUME NEW c \in Callers, Misfit(c) PROVE DeliverInv'
  <2>1. At("idle", "PERMANENT", "none", 0) \in Run
        /\ Earned(At("idle", "PERMANENT", "none", 0))
    BY Fresh
  <2>2. run' = [run EXCEPT ![c] = At("idle", "PERMANENT", "none", 0)]
        /\ UNCHANGED <<clock, call, res>> /\ call[c] = "idle" /\ res[c].phase = "none"
    BY <1>1, <1>3 DEF Misfit, breaker, quota, DeliverInv, Holds
  <2>3. At("idle", "PERMANENT", "none", 0).step = "idle"
    BY DEF At
  <2>4. QED BY <1>1, <1>2, <2>1, <2>2, <2>3, OneStep DEF Shape, Others, Only
<1>4. ASSUME NEW c \in Callers, NEW ok \in BOOLEAN, Skip(c, ok) PROVE DeliverInv'
  <2>1. SUFFICES ASSUME NEW r, r = At("idle", "NOT_ATTEMPTED", "BREAKER_OPEN", 0)
                 PROVE  DeliverInv'
    OBVIOUS
  <2>2. r \in Run /\ Earned(r) /\ r.step = "idle"
    BY <2>1 DEF At, Run, Earned, Classes, Skips
  <2>3. run' = [run EXCEPT ![c] = r]
        /\ UNCHANGED <<clock, call, res>> /\ call[c] = "idle" /\ res[c].phase = "none"
    BY <1>1, <1>4, <2>1 DEF Skip, B!Refuse, quota, DeliverInv, Holds
  <2>4. QED BY <1>1, <1>2, <2>2, <2>3, OneStep DEF Shape, Others, Only
<1>5. ASSUME NEW c \in Callers, NEW ok \in BOOLEAN, Start(c, ok) PROVE DeliverInv'
  <2>1. PICK n \in 0..MaxParts :
          run' = [run EXCEPT ![c] =
                    IF n > 0 THEN At("sending", "NOT_ATTEMPTED", "none", n)
                    ELSE At("reporting", "PERMANENT", "none", 0)]
    BY <1>5 DEF Start
  <2>2. SUFFICES ASSUME NEW r,
                        r = IF n > 0 THEN At("sending", "NOT_ATTEMPTED", "none", n)
                            ELSE At("reporting", "PERMANENT", "none", 0)
                 PROVE  DeliverInv'
    OBVIOUS
  <2>3. r \in Run /\ Earned(r) /\ r.step # "idle"
    BY <2>2 DEF At, Run, Earned, Classes, Skips
  <2>4. UNCHANGED <<clock, res>> /\ res[c].phase = "none"
        /\ call' \in [Callers -> B!Admissions] /\ Others(c)
    BY <1>1, <1>2, <1>5, AdmitsOne DEF Start, B!Admit, quota, DeliverInv, Holds
  <2>5. QED BY <1>1, <1>2, <2>1, <2>2, <2>3, <2>4, OneStep DEF Shape, Only
<1>6. ASSUME NEW c \in Callers, NEW ok \in BOOLEAN, Reserve(c, ok) PROVE DeliverInv'
  <2>1. /\ res' \in [Callers -> Reserving] /\ Only(c)
        /\ UNCHANGED <<clock, call, run>> /\ run[c].step = "sending"
    BY <1>2, <1>6, Taking, AskingOn DEF Reserve, Sending, breaker, own
  <2>2. QED BY <1>1, <2>1 DEF DeliverInv, Shape, Holds, Earned, Only
<1>7. ASSUME NEW c \in Callers, OutOfQuota(c) PROVE DeliverInv'
  <2>1. /\ res' \in [Callers -> Reserving] /\ Only(c)
        /\ UNCHANGED <<clock, call>> /\ res'[c].phase \in {"none", "returning"}
    <3>1. CASE Q!RefuseShort(c)
      BY <1>2, <1>7, <3>1 DEF OutOfQuota, Q!RefuseShort, breaker, Shape, Only
    <3>2. CASE Q!GiveUp(c)
      BY <1>2, <1>7, <3>2, GivingUp DEF OutOfQuota, breaker
    <3>3. QED BY <1>7, <3>1, <3>2 DEF OutOfQuota
  <2>2. QED BY <1>1, <1>7, <2>1, HeldBackKeeps DEF OutOfQuota, Skips
<1>8. ASSUME NEW c \in Callers, GiveUpWaiting(c) PROVE DeliverInv'
  <2>1. /\ res' \in [Callers -> Reserving] /\ Only(c)
        /\ UNCHANGED <<clock, call>> /\ res'[c].phase \in {"none", "returning"}
    <3>1. Settled(c, "CONNECT_ERROR")
      BY <1>8 DEF GiveUpWaiting, Settled
    <3>2. QED BY <1>2, <1>8, <3>1, Settling DEF GiveUpWaiting, breaker
  <2>2. QED BY <1>1, <1>8, <2>1, HeldBackKeeps DEF GiveUpWaiting, Skips
<1>9. ASSUME NEW c \in Callers, NEW ok \in BOOLEAN, Return(c, ok) PROVE DeliverInv'
  <2>1. /\ res' \in [Callers -> Reserving] /\ Only(c)
        /\ UNCHANGED <<clock, call, run>> /\ res[c].phase = "returning"
        /\ res'[c].phase \in {"none", "returning"}
    BY <1>2, <1>9, Returning DEF Return, breaker, own
  <2>2. run[c].step # "idle"
    BY <1>1, <2>1 DEF DeliverInv, Holds
  <2>3. QED BY <1>1, <2>1, <2>2 DEF DeliverInv, Shape, Holds, Earned, Only
<1>10. CASE \E ok \in BOOLEAN : ResetBreaker(ok)
  <2>1. UNCHANGED <<clock, res, run>> /\ call' = B!Outdated
    BY <1>10 DEF ResetBreaker, B!Reset, quota, own
  <2>2. call' \in [Callers -> B!Admissions]
        /\ \A c \in Callers : call[c] = "idle" => call'[c] = "idle"
    BY <1>2, <2>1 DEF B!Outdated, B!Admissions, Shape
  <2>3. QED BY <1>1, <2>1, <2>2 DEF DeliverInv, Shape, Holds, Earned
<1>11. CASE Restart
  <2>1. /\ call' = [c \in Callers |-> "idle"]
        /\ res' = [c \in Callers |-> Q!NoReservation]
        /\ run' = [c \in Callers |-> At("idle", "PERMANENT", "none", 0)]
        /\ UNCHANGED clock
    BY <1>11 DEF Restart, B!Restart, Q!Crash
  <2>2. Q!NoReservation \in Reserving /\ Q!NoReservation.phase = "none"
    BY DEF Q!NoReservation, Reserving, Phases
  <2>3. Shape'
    BY <1>2, <2>1, <2>2, Fresh DEF Shape, B!Admissions
  <2>4. Holds'
    BY <2>1, <2>2 DEF Holds, At
  <2>5. \A c \in Callers : Earned(run'[c])
    BY <2>1, Fresh
  <2>6. QED BY <2>3, <2>4, <2>5 DEF DeliverInv, Earned
<1>12. CASE Tick
  <2>1. clock' = clock + 1 /\ UNCHANGED <<call, res, run>>
    BY <1>12 DEF Tick, B!Tick, Q!Tick, own
  <2>2. QED BY <1>1, <2>1 DEF DeliverInv, Shape, Holds, Earned
<1>13. CASE UNCHANGED vars
  BY <1>1, <1>13 DEF vars, breaker, quota, own, DeliverInv, Shape, Holds, Earned
<1>14. QED
  BY <1>1, <1>3, <1>4, <1>5, <1>6, <1>7, <1>8, <1>9, <1>10, <1>11, <1>12, <1>13,
     CallKeeps, FinishKeeps DEF Next

(* So it always holds.                                                     *)
LEMMA Invariant == Spec => []DeliverInv
BY Initially, EveryStep, PTL DEF Spec

(* Every way out of Deliver settles: a delivery that is over holds neither *)
(* an admission of the breaker nor a reservation.                          *)
THEOREM NothingIsStranded == Spec => []OverHoldsNothing
<1>1. DeliverInv => OverHoldsNothing
  BY DEF DeliverInv, Holds, OverHoldsNothing, Returned
<1>2. QED BY <1>1, Invariant, PTL

(* A reason is given if and only if the class is NOT_ATTEMPTED, and then   *)
(* the channel was never called (result.go, INVARIANT).                    *)
THEOREM SkipsAreExplained == Spec => []SkippedIsUntouched
<1>1. DeliverInv => SkippedIsUntouched
  BY DEF DeliverInv, Earned, SkippedIsUntouched, Returned
<1>2. QED BY <1>1, Invariant, PTL

(* SENT is returned only when every call that was made was accepted, and   *)
(* at least one was (combine; Deliver).                                    *)
THEOREM SentWasEarned == Spec => []SentIsEarned
<1>1. DeliverInv => SentIsEarned
  BY DEF DeliverInv, Earned, SentIsEarned, Returned
<1>2. QED BY <1>1, Invariant, PTL

-----------------------------------------------------------------------------
(* A breaker that has seen no fault.                                       *)

Calm == {"NOT_ATTEMPTED", "SENT", "PERMANENT"}

ClosedMemory ==
  [loaded : BOOLEAN, state : {"closed"}, failures : Nat,
   openedAt : Nat, probes : Nat, successes : Nat]

ClosedImage == [state : {"none", "closed"}, failures : Nat, openedAt : Nat]

(* Until a call has failed: the breaker is closed in memory and in the     *)
(* store, and no delivery has a fault to report.                           *)
CalmInv ==
  ~faulted =>
    /\ mem \in ClosedMemory /\ saved \in ClosedImage
    /\ \A c \in Callers : run[c].class \in Calm

(* No fault, and nothing remembered, at first.                             *)
LEMMA CalmInit == Init => CalmInv
BY DEF Init, CalmInv, B!Init, B!Fresh, ClosedMemory, ClosedImage, At, Calm

(* Whatever load finds, the breaker stays closed.                          *)
LEMMA LoadsClosed ==
  ASSUME NEW ok, mem \in ClosedMemory, saved \in ClosedImage
  PROVE  B!Loaded(ok) \in ClosedMemory
<1>1. SUFFICES ASSUME ~(mem.loaded \/ ~ok \/ saved.state = "none")
               PROVE  [mem EXCEPT !.loaded = TRUE, !.state = saved.state, !.probes = 0,
                                  !.failures = saved.failures,
                                  !.openedAt = saved.openedAt] \in ClosedMemory
  BY DEF B!Loaded, ClosedMemory
<1>2. saved.state = "closed" /\ saved.failures \in Nat /\ saved.openedAt \in Nat
  BY <1>1 DEF ClosedImage
<1>3. QED BY <1>2 DEF ClosedMemory

(* transition to "closed", and the row it writes.                          *)
LEMMA MovesClosed ==
  ASSUME NEW ok, NEW m \in ClosedMemory, saved \in ClosedImage,
         B!Persist(B!Moved(m, "closed"), ok)
  PROVE  B!Moved(m, "closed") \in ClosedMemory /\ saved' \in ClosedImage
<1>1. B!Moved(m, "closed") \in ClosedMemory
  BY DEF B!Moved, ClosedMemory
<1>2. QED BY <1>1 DEF B!Persist, ClosedMemory, ClosedImage

(* What is reported after a call that did not fail leaves it closed.       *)
LEMMA CalmReport ==
  ASSUME mem \in ClosedMemory, saved \in ClosedImage,
         NEW c \in Callers, NEW ok, B!Abandon(c, ok) \/ B!RecordSuccess(c, ok)
  PROVE  mem' \in ClosedMemory /\ UNCHANGED saved
<1> DEFINE m == B!Loaded(ok)
<1>1. m \in ClosedMemory /\ m.state = "closed"
  BY LoadsClosed DEF ClosedMemory
<1>2. CASE B!Abandon(c, ok)
  BY <1>1, <1>2 DEF B!Abandon, B!Stays
<1>3. CASE B!RecordSuccess(c, ok)
  <2>1. B!Stays(c, [m EXCEPT !.failures = 0])
    BY <1>1, <1>3 DEF B!RecordSuccess
  <2>2. QED BY <1>1, <2>1 DEF B!Stays, ClosedMemory
<1>4. QED BY <1>2, <1>3

(* And so does every other step of a delivery.                             *)
LEMMA CalmStep == DeliverInv /\ CalmInv /\ [Next]_vars => CalmInv'
<1> SUFFICES ASSUME DeliverInv, CalmInv, [Next]_vars, ~faulted'
             PROVE  /\ mem' \in ClosedMemory /\ saved' \in ClosedImage
                    /\ \A c \in Callers : run'[c].class \in Calm
  BY DEF CalmInv
<1>0. /\ run \in [Callers -> Run]
      /\ ~faulted => /\ mem \in ClosedMemory /\ saved \in ClosedImage
                     /\ \A c \in Callers : run[c].class \in Calm
  BY DEF DeliverInv, Shape, CalmInv
<1>b. ASSUME ~faulted, UNCHANGED breaker, \A c \in Callers : run'[c].class \in Calm
      PROVE  /\ mem' \in ClosedMemory /\ saved' \in ClosedImage
             /\ \A c \in Callers : run'[c].class \in Calm
  BY <1>0, <1>b DEF breaker
<1>1. ASSUME NEW c \in Callers, Misfit(c)
      PROVE  /\ mem' \in ClosedMemory /\ saved' \in ClosedImage
             /\ \A d \in Callers : run'[d].class \in Calm
  BY <1>0, <1>1 DEF Misfit, breaker, At, Calm
<1>h. ASSUME NEW c \in Callers, NEW why, HeldBack(c, why), UNCHANGED <<breaker, faulted>>
      PROVE  /\ mem' \in ClosedMemory /\ saved' \in ClosedImage
             /\ \A d \in Callers : run'[d].class \in Calm
  <2>1. run[c].class \in Classes /\ run[c] \in Run
    BY <1>0 DEF Run
  <2>2. Worst(run[c].class, "NOT_ATTEMPTED") = run[c].class
    BY <2>1, WorstOf DEF Classes
  <2>3. run'[c].class = run[c].class /\ \A d \in Callers \ {c} : run'[d] = run[d]
    BY <1>0, <1>h, <2>1, <2>2 DEF HeldBack, Run
  <2>4. QED BY <1>0, <1>b, <1>h, <2>3
<1>2. ASSUME NEW c \in Callers, OutOfQuota(c) \/ GiveUpWaiting(c)
      PROVE  /\ mem' \in ClosedMemory /\ saved' \in ClosedImage
             /\ \A d \in Callers : run'[d].class \in Calm
  BY <1>h, <1>2 DEF OutOfQuota, GiveUpWaiting
<1>3. ASSUME NEW c \in Callers, NEW ok \in BOOLEAN, Skip(c, ok)
      PROVE  /\ mem' \in ClosedMemory /\ saved' \in ClosedImage
             /\ \A d \in Callers : run'[d].class \in Calm
  <2>1. ~faulted /\ mem' = B!Loaded(ok) /\ UNCHANGED saved
    BY <1>3 DEF Skip, B!Refuse
  <2>2. mem' \in ClosedMemory /\ saved' \in ClosedImage
    BY <1>0, <2>1, LoadsClosed
  <2>3. \A d \in Callers : run'[d].class \in Calm
    BY <1>0, <1>3, <2>1 DEF Skip, At, Calm
  <2>4. QED BY <2>2, <2>3
<1>4. ASSUME NEW c \in Callers, NEW ok \in BOOLEAN, Start(c, ok)
      PROVE  /\ mem' \in ClosedMemory /\ saved' \in ClosedImage
             /\ \A d \in Callers : run'[d].class \in Calm
  <2>1. ~faulted /\ B!Admit(c, ok)
    BY <1>4 DEF Start
  <2>2. B!Loaded(ok) \in ClosedMemory /\ B!Loaded(ok).state = "closed"
    BY <1>0, <2>1, LoadsClosed DEF ClosedMemory
  <2>3. mem' = B!Loaded(ok) /\ UNCHANGED saved
    BY <2>1, <2>2 DEF B!Admit
  <2>4. \A d \in Callers : run'[d].class \in Calm
    BY <1>0, <1>4, <2>1 DEF Start, At, Calm
  <2>5. QED BY <1>0, <2>1, <2>2, <2>3, <2>4
<1>5. ASSUME NEW c \in Callers, NEW ok \in BOOLEAN, Reserve(c, ok) \/ Return(c, ok)
      PROVE  /\ mem' \in ClosedMemory /\ saved' \in ClosedImage
             /\ \A d \in Callers : run'[d].class \in Calm
  BY <1>0, <1>b, <1>5 DEF Reserve, Return, own
<1>6. ASSUME NEW c \in Callers, NEW ok \in BOOLEAN, Finish(c, ok)
      PROVE  /\ mem' \in ClosedMemory /\ saved' \in ClosedImage
             /\ \A d \in Callers : run'[d].class \in Calm
  <2>1. ~faulted /\ run[c].class \in Calm /\ Earned(run[c])
    BY <1>0, <1>6 DEF Finish, DeliverInv
  <2>2. run[c].class = "NOT_ATTEMPTED" => ~Called(c)
    BY <2>1 DEF Earned, Called
  <2>3. B!Abandon(c, ok) \/ B!RecordSuccess(c, ok)
    BY <1>6, <2>1, <2>2 DEF Finish, Recorded, Calm
  <2>4. mem' \in ClosedMemory /\ saved' \in ClosedImage
    BY <1>0, <2>1, <2>3, CalmReport
  <2>5. \A d \in Callers : run'[d].class = run[d].class
    <3>1. PICK k : run' = [run EXCEPT ![c].step = "idle", ![c].skip = k]
      BY <1>6 DEF Finish
    <3>2. QED BY <1>0, <3>1 DEF Run
  <2>6. QED BY <1>0, <2>1, <2>4, <2>5
<1>7. ASSUME NEW c \in Callers, NEW a \in Classes, Call(c, a)
      PROVE  /\ mem' \in ClosedMemory /\ saved' \in ClosedImage
             /\ \A d \in Callers : run'[d].class \in Calm
  <2>1. PICK one : one = Normalised(a)
    OBVIOUS
  <2>2. ~faulted /\ one \in {"SENT", "PERMANENT"} /\ UNCHANGED breaker
    BY <1>7, <2>1 DEF Call, Normalised, Classes
  <2>3. Worst(run[c].class, one) \in Calm
    BY <1>0, <2>2 DEF Worst, Calm, Severity
  <2>4. PICK n, k, s, x :
          /\ run' = [run EXCEPT ![c].step = s, ![c].class = x, ![c].calls = n,
                                ![c].accepted = k]
          /\ x \in Calm
    BY <1>7, <2>1, <2>3 DEF Call
  <2>5. run'[c].class = x /\ \A d \in Callers \ {c} : run'[d] = run[d]
    BY <1>0, <2>4 DEF Run
  <2>6. QED BY <1>0, <1>b, <2>2, <2>4, <2>5
<1>8. ASSUME NEW ok \in BOOLEAN, ResetBreaker(ok)
      PROVE  /\ mem' \in ClosedMemory /\ saved' \in ClosedImage
             /\ \A d \in Callers : run'[d].class \in Calm
  <2>1. /\ ~faulted /\ mem' = B!Moved(B!Loaded(ok), "closed")
        /\ B!Persist(B!Moved(B!Loaded(ok), "closed"), ok) /\ UNCHANGED run
    BY <1>8 DEF ResetBreaker, B!Reset, own
  <2>2. B!Loaded(ok) \in ClosedMemory
    BY <1>0, <2>1, LoadsClosed
  <2>3. QED BY <1>0, <2>1, <2>2, MovesClosed
<1>9. CASE Restart
  BY <1>0, <1>9 DEF Restart, B!Restart, B!Fresh, ClosedMemory, At, Calm
<1>10. CASE Tick \/ UNCHANGED vars
  BY <1>0, <1>10 DEF Tick, B!Tick, own, vars, breaker
<1>11. QED
  BY <1>1, <1>2, <1>3, <1>4, <1>5, <1>6, <1>7, <1>8, <1>9, <1>10 DEF Next

(* The breaker of a channel that never failed a call is never open: what   *)
(* was refused, held back or given up is not counted against it.           *)
THEOREM OnlyFaultsTrip == Spec => []OnlyFaultsOpen
<1>1. DeliverInv /\ CalmInv /\ [Next]_vars => CalmInv'
  BY CalmStep
<1>2. CalmInv => OnlyFaultsOpen
  BY DEF CalmInv, OnlyFaultsOpen, ClosedMemory
<1>3. QED BY <1>1, <1>2, CalmInit, Invariant, PTL DEF Spec

-----------------------------------------------------------------------------
(* The components keep what they promise here too.  Each step is one of    *)
(* theirs, or leaves all they have but the count of mishaps.               *)
MishapOnly == mishaps' = mishaps \/ mishaps' = mishaps + 1

(* What their proofs assume of the constants.                              *)
LEMMA QuotaAssumes ==
  /\ QP!IsFiniteSet(Callers)
  /\ Shorts \in Seq(QP!ShortKinds) /\ Longs \in Seq(QP!LongKinds)
  /\ Span \in [QP!Kinds -> Nat \ {0}] /\ Limit \in [QP!Kinds -> Nat]
  /\ Horizon \in Nat \ {0} /\ MaxMishaps \in Nat
BY ComponentAssumption
   DEF ComponentAssumption, Q!ShortKinds, QP!ShortKinds, Q!LongKinds, QP!LongKinds,
       Q!Kinds, QP!Kinds, IsFiniteSet, QP!IsFiniteSet

(* The same for the breaker.                                               *)
LEMMA BreakerAssumes ==
  /\ BP!IsFiniteSet(Callers)
  /\ Policies \subseteq BP!Settings /\ Policies # {}
  /\ Horizon \in Nat /\ MaxMishaps \in Nat
BY ComponentAssumption
   DEF ComponentAssumption, B!Settings, BP!Settings, IsFiniteSet, BP!IsFiniteSet

(* What reached the peer is counted by both in the same way.               *)
LEMMA SameReach == \A S : Q!Reach(S) => QP!Reach(S)
BY DEF Q!Reach, QP!Reach, Q!Quantify, QP!Quantify, Q!Cardinality, QP!Cardinality,
   Q!Times, QP!Times, Q!LongKinds, QP!LongKinds, Q!Periods, QP!Periods,
   Q!Period, QP!Period

(* Each operation of the quota is the one its proofs are about.            *)
LEMMA QuotaIsQuota ==
  ASSUME NEW c \in Callers
  PROVE  /\ Q!RefuseShort(c) => QP!RefuseShort(c)
         /\ Q!TakeShort(c) => QP!TakeShort(c)
         /\ Q!GiveUp(c) => QP!GiveUp(c)
         /\ Q!Commit(c) => QP!Commit(c)
         /\ Q!Release(c) => QP!Release(c)
         /\ \A ok \in BOOLEAN : Q!Ask(c, ok) => QP!Ask(c, ok)
         /\ \A ok \in BOOLEAN : Q!ReturnLong(c, ok) => QP!ReturnLong(c, ok)
<1>1. Q!RefuseShort(c) => QP!RefuseShort(c)
  BY DEF Q!RefuseShort, QP!RefuseShort, Q!Full, QP!Full, Q!Limited, QP!Limited,
     Q!Kept, QP!Kept, Q!Younger, QP!Younger, Q!ShortKinds, QP!ShortKinds
<1>2. Q!TakeShort(c) => QP!TakeShort(c)
  BY DEF Q!TakeShort, QP!TakeShort, Q!Full, QP!Full, Q!Limited, QP!Limited,
     Q!Kept, QP!Kept, Q!Younger, QP!Younger, Q!ShortKinds, QP!ShortKinds
<1>3. Q!GiveUp(c) => QP!GiveUp(c)
  BY DEF Q!GiveUp, QP!GiveUp, Q!Shortened, QP!Shortened, Q!ShortKinds, QP!ShortKinds,
     Q!Limited, QP!Limited, Q!NoReservation, QP!NoReservation
<1>4. Q!Held(c) <=> QP!Held(c)
  BY DEF Q!Held, QP!Held
<1>5. Q!Commit(c) => QP!Commit(c)
  BY <1>4, SameReach DEF Q!Commit, QP!Commit, Q!NoReservation, QP!NoReservation
<1>6. Q!Release(c) => QP!Release(c)
  BY <1>4 DEF Q!Release, QP!Release, Q!Shortened, QP!Shortened, Q!ShortKinds,
     QP!ShortKinds, Q!Limited, QP!Limited, Q!NoReservation, QP!NoReservation
<1>7. ASSUME NEW ok \in BOOLEAN, Q!Ask(c, ok) PROVE QP!Ask(c, ok)
  BY <1>7 DEF Q!Ask, QP!Ask, Q!Asking, QP!Asking, Q!Works, QP!Works, Q!Limited, QP!Limited,
     Q!Period, QP!Period
<1>8. ASSUME NEW ok \in BOOLEAN, Q!ReturnLong(c, ok) PROVE QP!ReturnLong(c, ok)
  BY <1>8 DEF Q!ReturnLong, QP!ReturnLong, Q!Works, QP!Works, Q!Returned, QP!Returned,
     Q!Period, QP!Period, Q!NoReservation, QP!NoReservation
<1>9. QED BY <1>1, <1>2, <1>3, <1>5, <1>6, <1>7, <1>8

(* So are the end of the process and the passing of time.                  *)
LEMMA QuotaGoesOn == (Q!Crash => QP!Crash) /\ (Q!Tick => QP!Tick)
<1>1. \A c \in Callers : Q!Held(c) <=> QP!Held(c)
  BY DEF Q!Held, QP!Held
<1>2. Q!Crash => QP!Crash
  BY <1>1, SameReach DEF Q!Crash, QP!Crash, Q!ShortKinds, QP!ShortKinds,
     Q!NoReservation, QP!NoReservation
<1>3. Q!Tick => QP!Tick
  BY DEF Q!Tick, QP!Tick
<1>4. QED BY <1>2, <1>3

(* What a step of a delivery is for the quota.                             *)
LEMMA QuotaSteps ==
  [Next]_vars => \/ QP!Next
                 \/ UNCHANGED <<quota, clock>> /\ MishapOnly
<1> SUFFICES ASSUME [Next]_vars
             PROVE  QP!Next \/ (UNCHANGED <<quota, clock>> /\ MishapOnly)
  OBVIOUS
<1>1. ASSUME NEW c \in Callers, Misfit(c) \/ OutOfQuota(c) \/ GiveUpWaiting(c)
      PROVE  QP!Next \/ (UNCHANGED <<quota, clock>> /\ MishapOnly)
  BY <1>1, QuotaIsQuota DEF Misfit, OutOfQuota, GiveUpWaiting, QP!Next, MishapOnly
<1>2. ASSUME NEW c \in Callers, NEW ok \in BOOLEAN, Skip(c, ok) \/ Start(c, ok)
      PROVE  UNCHANGED <<quota, clock>> /\ MishapOnly
  BY <1>2 DEF Skip, Start, B!Refuse, B!Admit, B!Works, MishapOnly
<1>3. ASSUME NEW c \in Callers, NEW ok \in BOOLEAN, Reserve(c, ok) \/ Return(c, ok)
      PROVE  QP!Next
  BY <1>3, QuotaIsQuota DEF Reserve, Return, QP!Next
<1>4. ASSUME NEW c \in Callers, NEW ok \in BOOLEAN, Finish(c, ok)
      PROVE  UNCHANGED <<quota, clock>> /\ MishapOnly
  BY <1>4 DEF Finish, Recorded, B!Abandon, B!RecordSuccess, B!RecordFailure, B!Works, MishapOnly
<1>5. ASSUME NEW c \in Callers, NEW a \in Classes, Call(c, a)
      PROVE  QP!Next
  <2>1. PICK one : Settled(c, one)
    BY <1>5 DEF Call
  <2>2. Q!Commit(c) \/ Q!Release(c)
    BY <2>1 DEF Settled
  <2>3. QP!Commit(c) \/ QP!Release(c)
    BY <2>2, QuotaIsQuota
  <2>4. QED BY <2>3 DEF QP!Next
<1>6. ASSUME NEW ok \in BOOLEAN, ResetBreaker(ok)
      PROVE  UNCHANGED <<quota, clock>> /\ MishapOnly
  BY <1>6 DEF ResetBreaker, B!Reset, B!Works, MishapOnly
<1>7. CASE Restart \/ Tick
  BY <1>7, QuotaGoesOn DEF Restart, Tick, QP!Next
<1>8. CASE UNCHANGED vars
  BY <1>8 DEF vars, MishapOnly
<1>9. QED BY <1>1, <1>2, <1>3, <1>4, <1>5, <1>6, <1>7, <1>8 DEF Next

(* They start alike.                                                       *)
LEMMA QuotaStarts == Init => QP!Init
BY DEF Init, Q!Init, QP!Init, Q!ShortKinds, QP!ShortKinds, Q!LongKinds, QP!LongKinds,
   Q!Periods, QP!Periods, Q!NoReservation, QP!NoReservation, Q!Times, QP!Times

(* Every step of a delivery keeps it.                                      *)
LEMMA QuotaGoesWell == Spec => []QP!QuotaInv
<1>1. Init => QP!QuotaInv
  BY QuotaStarts, QP!Initially, QuotaAssumes
<1>2. QP!QuotaInv /\ [Next]_vars => QP!QuotaInv'
  <2>1. ASSUME QP!Next, QP!QuotaInv PROVE QP!QuotaInv'
    BY <2>1, QP!EveryStep, QuotaAssumes
  <2>2. ASSUME UNCHANGED <<quota, clock>>, QP!QuotaInv PROVE QP!QuotaInv'
    BY <2>2 DEF quota, QP!QuotaInv, QP!TypeInv, QP!AskedIsTaken, QP!Bounded,
       QP!Covered, QP!Takers, QP!Limited, QP!Period, QP!Times, QP!LongKinds, QP!Periods
  <2>3. QED BY <2>1, <2>2, QuotaSteps
<1>3. QED BY <1>1, <1>2, PTL DEF Spec

(* No period is overspent by deliveries, whatever they share with the      *)
(* breaker, the process and the store (Deliver; TryReserve).               *)
THEOREM AllowanceIsKept == Spec => []Q!LongKept
<1>1. QP!QuotaInv => QP!LongKept
  BY QP!InvGivesLongKept, QuotaAssumes
<1>2. QP!LongKept => Q!LongKept
  BY DEF Q!LongKept, QP!LongKept, Q!LongKinds, QP!LongKinds, Q!Periods, QP!Periods,
     Q!Limited, QP!Limited, Q!Quantify, QP!Quantify, Q!Cardinality, QP!Cardinality,
     Q!Holders, QP!Holders, Q!Held, QP!Held, Q!Period, QP!Period
<1>3. QED BY <1>1, <1>2, QuotaGoesWell, PTL

-----------------------------------------------------------------------------
(* The breaker.                                                            *)

(* What a step of a delivery is for the breaker.                           *)
LEMMA BreakerSteps ==
  [Next]_vars => \/ BP!Next
                 \/ UNCHANGED <<breaker, clock>> /\ MishapOnly
<1> SUFFICES ASSUME [Next]_vars
             PROVE  BP!Next \/ (UNCHANGED <<breaker, clock>> /\ MishapOnly)
  OBVIOUS
<1>1. ASSUME NEW c \in Callers, Misfit(c) \/ OutOfQuota(c) \/ GiveUpWaiting(c)
      PROVE  UNCHANGED <<breaker, clock>> /\ MishapOnly
  BY <1>1 DEF Misfit, OutOfQuota, GiveUpWaiting, Q!RefuseShort, Q!GiveUp, Q!Release,
     MishapOnly
<1>2. ASSUME NEW c \in Callers, NEW ok \in BOOLEAN, Skip(c, ok) \/ Start(c, ok)
      PROVE  BP!Next
  <2>1. B!Refuse(c, ok) => BP!Refuse(c, ok)
    BY DEF B!Refuse, BP!Refuse, B!Works, BP!Works, B!Eventful, BP!Eventful,
       B!Refused, BP!Refused, B!Loaded, BP!Loaded
  <2>2. B!Admit(c, ok) => BP!Admit(c, ok)
    BY DEF B!Admit, BP!Admit, B!Works, BP!Works, B!Eventful, BP!Eventful,
       B!Refused, BP!Refused, B!Loaded, BP!Loaded, B!Moved, BP!Moved,
       B!Persist, BP!Persist, B!Outdated, BP!Outdated
  <2>3. QED BY <1>2, <2>1, <2>2 DEF Skip, Start, BP!Next, BP!Delivering
<1>3. ASSUME NEW c \in Callers, NEW ok \in BOOLEAN, Reserve(c, ok) \/ Return(c, ok)
      PROVE  UNCHANGED <<breaker, clock>> /\ MishapOnly
  BY <1>3 DEF Reserve, Return, Q!TakeShort, Q!Ask, Q!ReturnLong, Q!Works, MishapOnly
<1>4. ASSUME NEW c \in Callers, NEW ok \in BOOLEAN, Finish(c, ok)
      PROVE  BP!Next
  <2>1. B!Abandon(c, ok) => BP!Abandon(c, ok)
    BY DEF B!Abandon, BP!Abandon, B!Works, BP!Works, B!Eventful, BP!Eventful,
       B!Loaded, BP!Loaded, B!Stays, BP!Stays, B!SlotFreed, BP!SlotFreed
  <2>2. B!RecordSuccess(c, ok) => BP!RecordSuccess(c, ok)
    BY DEF B!RecordSuccess, BP!RecordSuccess, B!Works, BP!Works, B!Eventful,
       BP!Eventful, B!Loaded, BP!Loaded, B!Stays, BP!Stays, B!SlotFreed, BP!SlotFreed,
       B!Moves, BP!Moves, B!Moved, BP!Moved, B!Persist, BP!Persist,
       B!Outdated, BP!Outdated
  <2>3. B!RecordFailure(c, ok) => BP!RecordFailure(c, ok)
    BY DEF B!RecordFailure, BP!RecordFailure, B!Works, BP!Works, B!Eventful,
       BP!Eventful, B!Loaded, BP!Loaded, B!Stays, BP!Stays, B!SlotFreed, BP!SlotFreed,
       B!Moves, BP!Moves, B!Moved, BP!Moved, B!Persist, BP!Persist,
       B!Outdated, BP!Outdated
  <2>4. QED BY <1>4, <2>1, <2>2, <2>3 DEF Finish, Recorded, BP!Next, BP!Delivering
<1>5. ASSUME NEW c \in Callers, NEW a \in Classes, Call(c, a)
      PROVE  UNCHANGED <<breaker, clock>> /\ MishapOnly
  <2>1. PICK one : Settled(c, one)
    BY <1>5 DEF Call
  <2>2. Q!Commit(c) \/ Q!Release(c)
    BY <2>1 DEF Settled
  <2>3. QED BY <1>5, <2>2 DEF Call, Q!Commit, Q!Release, MishapOnly
<1>6. ASSUME NEW ok \in BOOLEAN, ResetBreaker(ok) PROVE BP!Next
  <2>1. BP!Reset(ok)
    BY <1>6 DEF ResetBreaker, B!Reset, BP!Reset, B!Works, BP!Works, B!Eventful,
       BP!Eventful, B!Loaded, BP!Loaded, B!Moved, BP!Moved, B!Persist, BP!Persist,
       B!Outdated, BP!Outdated
  <2>2. QED BY <2>1 DEF BP!Next
<1>7. CASE Restart
  BY <1>7 DEF Restart, B!Restart, BP!Restart, B!Works, BP!Works, B!Eventful,
     BP!Eventful, B!Fresh, BP!Fresh, BP!Next
<1>8. CASE Tick
  BY <1>8 DEF Tick, B!Tick, BP!Tick, BP!Next
<1>9. CASE UNCHANGED vars
  BY <1>9 DEF vars, MishapOnly
<1>10. QED BY <1>1, <1>2, <1>3, <1>4, <1>5, <1>6, <1>7, <1>8, <1>9 DEF Next

(* The invariant of the breaker is kept, like that of the quota.           *)
LEMMA BreakerGoesWell == Spec => []BP!BreakerInv
<1>1. Init => BP!BreakerInv
  <2>1. Init => BP!Init
    BY DEF Init, B!Init, BP!Init, B!Fresh, BP!Fresh
  <2>2. QED
    BY <2>1, BP!InitSafe, BreakerAssumes
<1>2. BP!BreakerInv /\ [Next]_vars => BP!BreakerInv'
  <2>1. ASSUME BP!Next, BP!BreakerInv PROVE BP!BreakerInv'
    BY <2>1, BP!NextSafe, BreakerAssumes
  <2>2. ASSUME UNCHANGED <<breaker, clock>>, MishapOnly, BP!BreakerInv
        PROVE  BP!BreakerInv'
    BY <2>2 DEF breaker, MishapOnly, BP!BreakerInv, BP!TypeOK, BP!UnreadIsClosed,
       BP!SlotsAreHeld, BP!WrittenThrough, BP!Probing
  <2>3. QED BY <2>1, <2>2, BreakerSteps
<1>3. QED BY <1>1, <1>2, PTL DEF Spec

(* No delivery, however it ends, leaks a probe slot of the breaker, and    *)
(* what the breaker is in is written (the deferred function of Deliver).   *)
THEOREM BreakerIsKept == Spec => [](B!SlotsAreHeld /\ B!WrittenThrough)
<1>1. BP!BreakerInv => B!SlotsAreHeld /\ B!WrittenThrough
  BY DEF BP!BreakerInv, B!SlotsAreHeld, BP!SlotsAreHeld, B!WrittenThrough,
     BP!WrittenThrough, B!Probing, BP!Probing, B!Cardinality, BP!Cardinality
<1>2. QED BY <1>1, BreakerGoesWell, PTL

-----------------------------------------------------------------------------
(* What is charged.                                                        *)

(* One unit more in one period is one unit more.                           *)
LEMMA UnitsGrow ==
  ASSUME NEW f \in [Q!Periods -> Nat], NEW g, NEW p \in Q!Periods,
         \A q \in Q!Periods : g[q] = f[q] + IF p = q THEN 1 ELSE 0,
         IsFiniteSet(Units(f))
  PROVE  IsFiniteSet(Units(g)) /\ Cardinality(Units(g)) = Cardinality(Units(f)) + 1
<1>1. PICK n \in Nat : n = f[p] + 1 /\ g[p] = n
  OBVIOUS
<1>2. \A q \in Q!Periods : q # p => g[q] = f[q]
  OBVIOUS
<1>3. \A i : i \in 1..g[p] <=> i \in 1..f[p] \/ i = n
  BY <1>1
<1>4. n \notin 1..f[p]
  BY <1>1
<1>5. ASSUME NEW h, NEW u
      PROVE  u \in Units(h) <=> \E q \in Q!Periods : \E i \in 1..h[q] : u = <<q, i>>
  BY DEF Units
<1>6. ASSUME NEW u PROVE u \in Units(g) <=> u \in Units(f) \/ u = <<p, n>>
  BY <1>2, <1>3, <1>5
<1>7. <<p, n>> \notin Units(f)
  BY <1>4, <1>5
<1>8. Units(g) = Units(f) \cup {<<p, n>>}
  BY <1>6
<1>9. QED BY <1>7, <1>8, FS_AddElement

(* As long as nothing failed the calls the peer has seen are the units     *)
(* spent in the window asked last.                                         *)
HeardInv ==
  /\ heard \in Nat /\ mishaps \in Nat
  /\ mishaps = 0 => /\ IsFiniteSet(Units(spent[QP!Last]))
                    /\ Cardinality(Units(spent[QP!Last])) = heard

(* Nothing is, at first.                                                   *)
LEMMA HeardInit == QP!LongsDiffer /\ Init => HeardInv
<1> SUFFICES ASSUME QP!LongsDiffer, Init PROVE HeardInv
  OBVIOUS
<1>1. QP!Last \in QP!LongKinds /\ QP!LongKinds = Q!LongKinds
  BY QP!LastIsLong, QuotaAssumes DEF QP!LongKinds, Q!LongKinds
<1>2. \A p \in Q!Periods : spent[QP!Last][p] = 0
  BY <1>1 DEF Init, Q!Init
<1>3. Units(spent[QP!Last]) = {}
  BY <1>2 DEF Units
<1>4. QED BY <1>3, FS_EmptySet DEF Init, Q!Init, HeardInv

(* A call is heard and spent, or neither.                                  *)
LEMMA HeardCall ==
  ASSUME QP!LongsDiffer, QP!QuotaInv, HeardInv, NEW c \in Callers, NEW a \in Classes,
         Call(c, a)
  PROVE  HeardInv'
<1>1. PICK one : one = Normalised(a)
  OBVIOUS
<1>2. /\ one # "NOT_ATTEMPTED" /\ Settled(c, one)
      /\ heard' = IF one = "CONNECT_ERROR" THEN heard ELSE heard + 1
  BY <1>1 DEF Call, Normalised
<1>3. QP!Last' = QP!Last
  BY DEF QP!Last
<1>4. CASE one = "CONNECT_ERROR"
  <2>1. UNCHANGED <<spent, mishaps, heard>>
    BY <1>2, <1>4 DEF Settled, Q!Release
  <2>2. QED BY <1>3, <2>1 DEF HeardInv, Units
<1>5. CASE one # "CONNECT_ERROR"
  <2>1. Q!Commit(c) /\ heard' = heard + 1
    BY <1>2, <1>5 DEF Settled
  <2>2. UNCHANGED mishaps /\ QP!Commit(c)
    BY <2>1, QuotaIsQuota DEF Q!Commit
  <2>3. QP!Last \in QP!LongKinds
    BY QP!LastIsLong, QuotaAssumes
  <2>4. \A p \in QP!Periods :
          spent'[QP!Last][p] =
            spent[QP!Last][p] + IF QP!Period(QP!Last, res[c].at) = p THEN 1 ELSE 0
    BY <2>2, <2>3, QP!OneSpent, QuotaAssumes
  <2>5. QP!Period(QP!Last, res[c].at) \in QP!Periods
    <3>1. res[c].at \in QP!Times \cup {0}
      BY DEF QP!QuotaInv, QP!TypeInv, QP!Reservation
    <3>2. QED
      BY <2>3, <3>1, QP!PeriodType, QuotaAssumes
  <2>6. spent[QP!Last] \in [QP!Periods -> Nat] /\ QP!Periods = Q!Periods
    BY <2>3 DEF QP!QuotaInv, QP!TypeInv, QP!Periods, Q!Periods
  <2>7. ASSUME mishaps = 0
        PROVE  /\ IsFiniteSet(Units(spent'[QP!Last]))
               /\ Cardinality(Units(spent'[QP!Last])) = heard + 1
    <3>1. PICK f : f = spent[QP!Last]
      OBVIOUS
    <3>2. PICK p : p = QP!Period(QP!Last, res[c].at)
      OBVIOUS
    <3>3. IsFiniteSet(Units(f)) /\ Cardinality(Units(f)) = heard
      BY <2>7, <3>1 DEF HeardInv
    <3>4. f \in [Q!Periods -> Nat] /\ p \in Q!Periods
          /\ \A q \in Q!Periods : spent'[QP!Last][q] = f[q] + IF p = q THEN 1 ELSE 0
      BY <2>4, <2>5, <2>6, <3>1, <3>2
    <3>5. QED BY <3>3, <3>4, UnitsGrow
  <2>8. Units(spent[QP!Last])' = Units(spent'[QP!Last])
    BY <1>3 DEF Units
  <2>9. heard' \in Nat
    BY <2>1 DEF HeardInv
  <2>10. QED BY <2>1, <2>2, <2>7, <2>8, <2>9 DEF HeardInv
<1>6. QED BY <1>4, <1>5

(* Every other step leaves both, or is a mishap.                           *)
LEMMA HeardStep == QP!LongsDiffer /\ QP!QuotaInv /\ HeardInv /\ [Next]_vars => HeardInv'
<1> SUFFICES ASSUME QP!LongsDiffer, QP!QuotaInv, HeardInv, [Next]_vars PROVE HeardInv'
  OBVIOUS
<1>0. ASSUME UNCHANGED <<heard, spent>>, MishapOnly
      PROVE  HeardInv'
  <2>1. QP!Last' = QP!Last /\ Units(spent[QP!Last])' = Units(spent[QP!Last])
    BY <1>0 DEF QP!Last, Units
  <2>2. mishaps' = 0 => mishaps = 0
    BY <1>0 DEF MishapOnly, HeardInv
  <2>3. mishaps' \in Nat
    BY <1>0 DEF MishapOnly, HeardInv
  <2>4. QED BY <1>0, <2>1, <2>2, <2>3 DEF HeardInv
<1>1. ASSUME NEW c \in Callers, Misfit(c) \/ OutOfQuota(c) \/ GiveUpWaiting(c)
      PROVE  HeardInv'
  BY <1>0, <1>1 DEF Misfit, OutOfQuota, GiveUpWaiting, Q!RefuseShort, Q!GiveUp,
     Q!Release, quota, MishapOnly
<1>2. ASSUME NEW c \in Callers, NEW ok \in BOOLEAN,
             Skip(c, ok) \/ Start(c, ok) \/ Finish(c, ok)
      PROVE  HeardInv'
  BY <1>0, <1>2 DEF Skip, Start, Finish, Recorded, B!Refuse, B!Admit, B!Abandon,
     B!RecordSuccess, B!RecordFailure, B!Works, quota, MishapOnly
<1>3. ASSUME NEW c \in Callers, NEW ok \in BOOLEAN, Reserve(c, ok) \/ Return(c, ok)
      PROVE  HeardInv'
  BY <1>0, <1>3 DEF Reserve, Return, Q!TakeShort, Q!Ask, Q!ReturnLong, Q!Works, own,
     MishapOnly
<1>4. ASSUME NEW ok \in BOOLEAN, ResetBreaker(ok) PROVE HeardInv'
  BY <1>0, <1>4 DEF ResetBreaker, B!Reset, B!Works, quota, own, MishapOnly
<1>5. CASE Restart
  <2>1. mishaps' = mishaps + 1 /\ mishaps \in Nat
    BY <1>5 DEF Restart, Q!Crash, HeardInv
  <2>2. QED BY <1>5, <2>1 DEF Restart, HeardInv
<1>6. CASE Tick \/ UNCHANGED vars
  BY <1>0, <1>6 DEF Tick, Q!Tick, own, vars, quota, MishapOnly
<1>7. QED BY <1>1, <1>2, <1>3, <1>4, <1>5, <1>6, HeardCall DEF Next

(* When nothing is under way, nobody has a unit of it.                     *)
LEMMA IdleIsExact ==
  ASSUME QP!LongsDiffer, QP!QuotaInv, QP!LastInv, HeardInv, DeliverInv, mishaps = 0,
         \A c \in Callers : run[c].step = "idle"
  PROVE  Cardinality(Units(count[QP!Last])) = heard
<1>1. \A c \in Callers : QP!Last \notin res[c].taken
  BY DEF QP!LastInv, QP!TakenLast, DeliverInv, Holds
<1>2. \A p \in QP!Periods : QP!Takers(QP!Last, p) = {}
  BY <1>1 DEF QP!Takers
<1>3. QP!Cardinality({}) = 0
  <2>1. QP!Cardinality({}) = Cardinality({})
    BY DEF QP!Cardinality, Cardinality
  <2>2. QED BY <2>1, FS_EmptySet
<1>4. QP!Last \in QP!LongKinds
  BY QP!LastIsLong, QuotaAssumes
<1>5. \A p \in QP!Periods : spent[QP!Last][p] \in Nat
  BY <1>4 DEF QP!QuotaInv, QP!TypeInv
<1>6. \A p \in QP!Periods : count[QP!Last][p] = spent[QP!Last][p]
  BY <1>2, <1>3, <1>5 DEF QP!LastInv, QP!Exact
<1>7. \A p \in Q!Periods : count[QP!Last][p] = spent[QP!Last][p]
  BY <1>6 DEF Q!Periods, QP!Periods
<1>8. Units(count[QP!Last]) = Units(spent[QP!Last])
  BY <1>7 DEF Units
<1>9. QED BY <1>8 DEF HeardInv

(* A channel with a day or a month of allowance is charged for the calls   *)
(* its peer has seen and for no other (Deliver, settle; TryReserve).       *)
THEOREM OnlyHeardIsCharged == ASSUME QP!LongsDiffer PROVE Spec => []ChargedIsHeard
<1>1. CASE QP!Limited(QP!Last)
  <2>1. QP!QuotaInv /\ QP!LastInv /\ [Next]_vars => QP!LastInv'
    <3>1. ASSUME QP!Next, QP!QuotaInv, QP!LastInv PROVE QP!LastInv'
      BY <1>1, <3>1, QP!LastStep, QuotaAssumes
    <3>2. ASSUME UNCHANGED <<quota, clock>>, MishapOnly, QP!LastInv PROVE QP!LastInv'
      BY <3>2 DEF quota, MishapOnly, QP!LastInv, QP!TakenLast, QP!Exact, QP!Takers,
         QP!Period, QP!Last, QP!Periods
    <3>3. QED BY <3>1, <3>2, QuotaSteps
  <2>2. Init => QP!LastInv
    BY QuotaStarts, QP!LastInit, QuotaAssumes
  <2>3. QP!QuotaInv /\ QP!LastInv /\ HeardInv /\ DeliverInv => ChargedIsHeard
    BY IdleIsExact DEF ChargedIsHeard, QP!Last
  <2>4. QP!QuotaInv /\ HeardInv /\ [Next]_vars => HeardInv'
    BY HeardStep
  <2>5. Init => HeardInv
    BY HeardInit
  <2>6. QED BY <2>1, <2>2, <2>3, <2>4, <2>5, QuotaGoesWell, Invariant, PTL DEF Spec
<1>2. CASE ~QP!Limited(QP!Last)
  <2>1. ChargedIsHeard
    BY <1>2 DEF ChargedIsHeard, QP!Last, Q!Limited, QP!Limited
  <2>2. QED BY <2>1, PTL
<1>3. QED BY <1>1, <1>2

-----------------------------------------------------------------------------
(* The types.                                                              *)

(* While a part is left to be sent fewer calls were made than there are    *)
(* parts, and the peer accepted no more than were made.                    *)
Counted(r) ==
  /\ r \in TargetResult
  /\ r.calls <= r.parts /\ r.accepted <= r.calls
  /\ r.step = "sending" => r.calls < r.parts

RunInv ==
  /\ run = [c \in Callers |-> run[c]] /\ \A c \in Callers : Counted(run[c])
  /\ heard \in Nat /\ faulted \in BOOLEAN

(* The local variables a delivery starts with.                             *)
LEMMA CountedAtFirst ==
  ASSUME NEW step \in {"idle", "sending", "reporting"}, NEW class \in Classes,
         NEW skip \in Skips, NEW n \in 0..MaxParts, step = "sending" => n > 0
  PROVE  Counted(At(step, class, skip, n))
<1>1. PICK r : r = At(step, class, skip, n)
  OBVIOUS
<1>2. /\ r \in TargetResult /\ r.step = step /\ r.parts = n /\ r.calls = 0 /\ r.accepted = 0
  BY <1>1, DeliverAssumption DEF At, TargetResult, DeliverAssumption
<1>3. QED BY <1>1, <1>2 DEF Counted

(* A step of one delivery keeps it.                                        *)
LEMMA RunKept ==
  ASSUME RunInv, NEW c \in Callers, NEW r, Counted(r), run' = [run EXCEPT ![c] = r],
         heard' \in Nat, faulted' \in BOOLEAN
  PROVE  RunInv'
<1>1. \A d \in Callers : run'[d] = IF d = c THEN r ELSE run[d]
  BY DEF RunInv
<1>2. run' = [d \in Callers |-> run'[d]]
  BY DEF RunInv
<1>3. \A d \in Callers : Counted(run'[d])
  BY <1>1 DEF RunInv
<1>4. QED BY <1>2, <1>3 DEF RunInv, Counted

(* So does one that is held back.                                          *)
LEMMA RunHeldBack ==
  ASSUME RunInv, NEW c \in Callers, NEW why \in Skips, HeldBack(c, why),
         UNCHANGED <<heard, faulted>>
  PROVE  RunInv'
<1>1. Counted(run[c])
  BY DEF RunInv
<1>2. PICK k \in Classes : k = Worst(run[c].class, "NOT_ATTEMPTED")
  BY <1>1 DEF Counted, TargetResult, Worst, Classes
<1>3. PICK r : r = [run[c] EXCEPT !.step = "reporting", !.skip = why, !.class = k]
  OBVIOUS
<1>4. Counted(r)
  <2>1. /\ r \in TargetResult /\ r.step = "reporting"
        /\ r.calls = run[c].calls /\ r.parts = run[c].parts /\ r.accepted = run[c].accepted
    BY <1>1, <1>2, <1>3 DEF Counted, TargetResult
  <2>2. QED BY <1>1, <2>1 DEF Counted
<1>5. run' = [run EXCEPT ![c] = r]
  BY <1>2, <1>3 DEF HeldBack
<1>6. heard' \in Nat /\ faulted' \in BOOLEAN
  BY DEF RunInv
<1>7. QED BY <1>4, <1>5, <1>6, RunKept

(* A call is one of the parts; after the last the loop is over.            *)
LEMMA RunCall ==
  ASSUME RunInv, NEW c \in Callers, NEW a \in Classes, Call(c, a)
  PROVE  RunInv'
<1>1. Counted(run[c]) /\ run[c].step = "sending"
  BY DEF RunInv, Call, Sending
<1>2. PICK one \in Classes : one = Normalised(a)
  BY DEF Normalised, Classes
<1>3. PICK k \in Classes : k = Worst(run[c].class, one)
  BY <1>1, <1>2 DEF Counted, TargetResult, Worst
<1>4. PICK p \in 0..MaxParts, n \in 0..MaxParts, y \in 0..MaxParts :
        p = run[c].parts /\ n = run[c].calls /\ y = run[c].accepted
  BY <1>1 DEF Counted, TargetResult
<1>5. n < p /\ y <= n
  BY <1>1, <1>4 DEF Counted
<1>6. PICK s \in {"sending", "reporting"} : s = IF LastPart(c) THEN "reporting" ELSE "sending"
  OBVIOUS
<1>7. s = "sending" => n + 1 < p
  BY <1>4, <1>5, <1>6 DEF LastPart
<1>8. PICK z \in 0..MaxParts : z = (IF one = "SENT" THEN y + 1 ELSE y) /\ z <= n + 1
  BY <1>4, <1>5, DeliverAssumption DEF DeliverAssumption
<1>9. PICK r : r = [run[c] EXCEPT !.step = s, !.class = k, !.calls = n + 1, !.accepted = z]
  OBVIOUS
<1>10. Counted(r)
  <2>1. n + 1 \in 0..MaxParts
    BY <1>4, <1>5, DeliverAssumption DEF DeliverAssumption
  <2>2. /\ r \in TargetResult /\ r.step = s /\ r.calls = n + 1 /\ r.parts = p /\ r.accepted = z
    BY <1>1, <1>3, <1>4, <1>6, <1>8, <1>9, <2>1 DEF Counted, TargetResult
  <2>3. QED BY <1>4, <1>5, <1>7, <1>8, <2>2 DEF Counted
<1>11. run' = [run EXCEPT ![c] = r]
  <2>1. run' = [run EXCEPT ![c].step = s, ![c].class = k, ![c].calls = n + 1, ![c].accepted = z]
    BY <1>1, <1>2, <1>3, <1>4, <1>6, <1>8 DEF Call
  <2>2. QED BY <1>9, <2>1
<1>12. heard' \in Nat /\ faulted' \in BOOLEAN
  BY DEF RunInv, Call
<1>13. QED BY <1>10, <1>11, <1>12, RunKept

(* Every step keeps it.                                                    *)
LEMMA RunStep == RunInv /\ [Next]_vars => RunInv'
<1>. SUFFICES ASSUME RunInv, [Next]_vars PROVE RunInv'
  OBVIOUS
<1>1. heard \in Nat /\ faulted \in BOOLEAN
  BY DEF RunInv
<1>2. ASSUME UNCHANGED own PROVE RunInv'
  BY <1>1, <1>2 DEF own, RunInv, Counted
<1>3. ASSUME NEW c \in Callers, Misfit(c) PROVE RunInv'
  <2>1. Counted(At("idle", "PERMANENT", "none", 0))
    BY CountedAtFirst, DeliverAssumption DEF Classes, Skips, DeliverAssumption
  <2>2. QED BY <1>1, <1>3, <2>1, RunKept DEF Misfit
<1>4. ASSUME NEW c \in Callers, OutOfQuota(c) \/ GiveUpWaiting(c) PROVE RunInv'
  BY <1>4, RunHeldBack DEF OutOfQuota, GiveUpWaiting, Skips
<1>5. ASSUME NEW c \in Callers, NEW ok \in BOOLEAN, Skip(c, ok) PROVE RunInv'
  <2>1. Counted(At("idle", "NOT_ATTEMPTED", "BREAKER_OPEN", 0))
    BY CountedAtFirst, DeliverAssumption DEF Classes, Skips, DeliverAssumption
  <2>2. QED BY <1>1, <1>5, <2>1, RunKept DEF Skip
<1>6. ASSUME NEW c \in Callers, NEW ok \in BOOLEAN, Start(c, ok) PROVE RunInv'
  <2>1. PICK n \in 0..MaxParts :
          run' = [run EXCEPT ![c] = IF n > 0 THEN At("sending", "NOT_ATTEMPTED", "none", n)
                                    ELSE At("reporting", "PERMANENT", "none", 0)]
    BY <1>6 DEF Start
  <2>2. n > 0 => Counted(At("sending", "NOT_ATTEMPTED", "none", n))
    BY CountedAtFirst DEF Classes, Skips
  <2>3. Counted(At("reporting", "PERMANENT", "none", 0))
    BY CountedAtFirst, DeliverAssumption DEF Classes, Skips, DeliverAssumption
  <2>4. UNCHANGED <<heard, faulted>>
    BY <1>6 DEF Start
  <2>5. CASE n > 0
    BY <1>1, <2>1, <2>2, <2>4, <2>5, RunKept
  <2>6. CASE ~(n > 0)
    BY <1>1, <2>1, <2>3, <2>4, <2>6, RunKept
  <2>7. QED BY <2>5, <2>6
<1>7. ASSUME NEW c \in Callers, NEW ok \in BOOLEAN, Reserve(c, ok) \/ Return(c, ok) PROVE RunInv'
  BY <1>2, <1>7 DEF Reserve, Return
<1>8. ASSUME NEW c \in Callers, NEW a \in Classes, Call(c, a) PROVE RunInv'
  BY <1>8, RunCall
<1>9. ASSUME NEW c \in Callers, NEW ok \in BOOLEAN, Finish(c, ok) PROVE RunInv'
  <2>1. Counted(run[c]) /\ UNCHANGED <<heard, faulted>>
    BY <1>9 DEF RunInv, Finish
  <2>2. PICK k \in Skips : k = IF Called(c) THEN "none" ELSE run[c].skip
    BY <2>1 DEF Counted, TargetResult, Skips
  <2>3. PICK r : r = [run[c] EXCEPT !.step = "idle", !.skip = k]
    OBVIOUS
  <2>4. /\ r \in TargetResult /\ r.step = "idle" /\ r.calls = run[c].calls
        /\ r.parts = run[c].parts /\ r.accepted = run[c].accepted
    BY <2>1, <2>2, <2>3 DEF Counted, TargetResult
  <2>5. Counted(r)
    BY <2>1, <2>4 DEF Counted
  <2>6. run' = [run EXCEPT ![c] = r]
    BY <1>9, <2>2, <2>3 DEF Finish
  <2>7. QED BY <1>1, <2>1, <2>5, <2>6, RunKept
<1>10. CASE (\E ok \in BOOLEAN : ResetBreaker(ok)) \/ Tick \/ UNCHANGED vars
  BY <1>2, <1>10 DEF ResetBreaker, Tick, vars
<1>11. CASE Restart
  <2>1. Counted(At("idle", "PERMANENT", "none", 0))
    BY CountedAtFirst, DeliverAssumption DEF Classes, Skips, DeliverAssumption
  <2>2. run' = [c \in Callers |-> At("idle", "PERMANENT", "none", 0)]
    BY <1>11 DEF Restart
  <2>3. UNCHANGED <<heard, faulted>>
    BY <1>11 DEF Restart
  <2>4. QED BY <1>1, <2>1, <2>2, <2>3 DEF RunInv, Counted
<1>12. QED BY <1>3, <1>4, <1>5, <1>6, <1>7, <1>8, <1>9, <1>10, <1>11 DEF Next

(* The memory of the quota is kept by the steps that are not its own.      *)
LEMMA MemoryGoesOn == Spec => []QP!MemoryInv
<1>1. Init => QP!MemoryInv
  BY QuotaStarts, QP!MemoryInit, QuotaAssumes
<1>2. QP!QuotaInv /\ QP!MemoryInv /\ [Next]_vars => QP!MemoryInv'
  <2>1. ASSUME QP!Next, QP!QuotaInv, QP!MemoryInv PROVE QP!MemoryInv'
    BY <2>1, QP!MemoryStep, QuotaAssumes
  <2>2. ASSUME UNCHANGED <<quota, clock>>, MishapOnly, QP!MemoryInv PROVE QP!MemoryInv'
    BY <2>2 DEF quota, MishapOnly, QP!MemoryInv
  <2>3. QED BY <2>1, <2>2, QuotaSteps
<1>3. QED BY <1>1, <1>2, QuotaGoesWell, PTL DEF Spec

(* TypeOK of a delivery and of the two components under it: in particular  *)
(* the channel is not called more often than the message has parts         *)
(* (Deliver, the loop over rendered).                                      *)
THEOREM DeliverTypes == Spec => []TypeOK
<1>1. Init => RunInv
  <2>1. Counted(At("idle", "PERMANENT", "none", 0))
    BY CountedAtFirst, DeliverAssumption DEF Classes, Skips, DeliverAssumption
  <2>2. ASSUME Init
        PROVE  /\ run = [c \in Callers |-> At("idle", "PERMANENT", "none", 0)]
               /\ heard \in Nat /\ faulted \in BOOLEAN
    BY <2>2 DEF Init
  <2>3. QED BY <2>1, <2>2 DEF RunInv, Counted
<1>2. RunInv => run \in [Callers -> TargetResult] /\ heard \in Nat /\ faulted \in BOOLEAN
  BY DEF RunInv, Counted
<1>3. BP!BreakerInv => B!TypeOK
  BY DEF BP!BreakerInv, BP!TypeOK, B!TypeOK, BP!Settings, B!Settings, BP!Memory, B!Memory,
     BP!Image, B!Image, BP!Admissions, B!Admissions, BP!States, B!States
<1>4. QP!QuotaInv /\ QP!MemoryInv => Q!TypeOK
  BY DEF QP!QuotaInv, QP!TypeInv, QP!MemoryInv, Q!TypeOK, QP!Times, Q!Times, QP!ShortKinds,
     Q!ShortKinds, QP!LongKinds, Q!LongKinds, QP!Periods, Q!Periods, QP!Reservation,
     Q!Reservation
<1>5. QED
  BY <1>1, <1>2, <1>3, <1>4, RunStep, BreakerGoesWell, QuotaGoesWell, MemoryGoesOn, PTL
  DEF Spec, TypeOK
=============================================================================
