------------------------------ MODULE Breaker ------------------------------
(***************************************************************************)
(* The circuit breaker of one channel: internal/breaker/breaker.go, and    *)
(* the row SaveBreaker and LoadBreaker keep of it.                         *)
(*                                                                         *)
(* Callers are concurrent deliveries (Router.Deliver).  One asks Allow,    *)
(* spends time in the channel, and then either reports a verdict with      *)
(* Record or, when the channel was never called, gives its admission back  *)
(* with Abandon.  The breaker does not know which admission a report       *)
(* belongs to: any change of state may happen in between.                  *)
(*                                                                         *)
(* Every operation holds the breaker's mutex, so it is one action.  It     *)
(* reads and writes the store with the context of the delivery it works    *)
(* for: when that has expired, or the store fails, the operation goes on   *)
(* without it.                                                             *)
(***************************************************************************)
EXTENDS Integers, FiniteSets

CONSTANTS
  Callers,      \* concurrent deliveries
  Policies,     \* the Settings an operator may configure
  Horizon,      \* bound: last clock value
  LastEvent,    \* bound: faults, abandonments, resets happen until then
  MaxMishaps    \* bound: crashes and store accesses that fail

(* What Normalize leaves of a Settings value.                              *)
Settings == [FailureThreshold : Nat \ {0}, SuccessThreshold : Nat \ {0},
             OpenTimeout : Nat \ {0}, HalfOpenProbes : Nat \ {0}]

ASSUME BreakerAssumption ==
  /\ IsFiniteSet(Callers)
  /\ Policies \subseteq Settings /\ Policies # {}
  /\ Horizon \in Nat /\ LastEvent \in Nat /\ MaxMishaps \in Nat

VARIABLES
  clock,     \* from 1; a zero openedAt means "not open"
  settings,  \* the live thresholds
  mem,       \* the Breaker struct
  saved,     \* the row of the breakers table
  call,      \* what a delivery in the channel was admitted as
  mishaps    \* how many mishaps happened

vars == <<clock, settings, mem, saved, call, mishaps>>

-----------------------------------------------------------------------------
States == {"closed", "open", "half_open"}

Memory == [loaded : BOOLEAN, state : States, failures : Nat,
           openedAt : Nat, probes : Nat, successes : Nat]

(* A new Breaker, before it has read the store.                            *)
Fresh == [loaded |-> FALSE, state |-> "closed", failures |-> 0,
          openedAt |-> 0, probes |-> 0, successes |-> 0]

(* The row; "none" when there is none.  Its probes are never read back.    *)
Image == [state : States \cup {"none"}, failures : Nat, openedAt : Nat]

(* An admission is "normal" or a "probe" until the breaker changes state,  *)
(* and "stale" from then on.  The program does not keep this.              *)
Admissions == {"idle", "normal", "probe", "stale"}

TypeOK ==
  /\ clock \in Nat \ {0}
  /\ settings \in Settings
  /\ mem \in Memory
  /\ saved \in Image
  /\ call \in [Callers -> Admissions]
  /\ mishaps \in Nat

Init ==
  /\ clock = 1
  /\ settings \in Policies
  /\ mem = Fresh
  /\ saved = [state |-> "none", failures |-> 0, openedAt |-> 0]
  /\ call = [c \in Callers |-> "idle"]
  /\ mishaps = 0

-----------------------------------------------------------------------------
(* The store.  Each access works, or fails and is only logged.             *)

Eventful == clock <= LastEvent

Works(ok) ==
  IF ok THEN UNCHANGED mishaps
  ELSE Eventful /\ mishaps < MaxMishaps /\ mishaps' = mishaps + 1

(* load: once per process; a read that fails leaves the breaker closed and *)
(* is not tried again.                                                     *)
Loaded(ok) ==
  IF mem.loaded \/ ~ok \/ saved.state = "none"
  THEN [mem EXCEPT !.loaded = TRUE]
  ELSE [mem EXCEPT !.loaded = TRUE, !.state = saved.state, !.probes = 0,
                   !.failures = saved.failures, !.openedAt = saved.openedAt]

(* transition, and the row it persists.                                    *)
Moved(m, next) ==
  [m EXCEPT !.state = next, !.successes = 0, !.probes = 0,
            !.openedAt = CASE next = "open" -> clock
                           [] next = "closed" -> 0
                           [] OTHER -> m.openedAt,
            !.failures = IF next = "closed" THEN 0 ELSE m.failures]

Persist(m, ok) ==
  saved' = IF ok THEN [state |-> m.state, failures |-> m.failures,
                       openedAt |-> m.openedAt]
           ELSE saved

(* Every admission in flight dates from before the transition.             *)
Outdated == [c \in Callers |-> IF call[c] = "idle" THEN "idle" ELSE "stale"]

SlotFreed(m) == [m EXCEPT !.probes = IF @ > 0 THEN @ - 1 ELSE @]

-----------------------------------------------------------------------------
(* Allow.                                                                  *)

Refused(m) ==
  \/ m.state = "open" /\ clock - m.openedAt < settings.OpenTimeout
  \/ m.state = "half_open" /\ m.probes >= settings.HalfOpenProbes

Refuse(c, ok) ==
  /\ call[c] = "idle"
  /\ Works(ok)
  /\ Refused(Loaded(ok))
  /\ mem' = Loaded(ok)
  /\ UNCHANGED <<clock, settings, saved, call>>

Admit(c, ok) ==
  /\ call[c] = "idle"
  /\ Works(ok)
  /\ ~Refused(Loaded(ok))
  /\ LET m == Loaded(ok) IN
     \/ /\ m.state = "closed"
        /\ mem' = m
        /\ call' = [call EXCEPT ![c] = "normal"]
        /\ UNCHANGED saved
     \/ /\ m.state = "half_open"
        /\ mem' = [m EXCEPT !.probes = @ + 1]
        /\ call' = [call EXCEPT ![c] = "probe"]
        /\ UNCHANGED saved
     \/ /\ m.state = "open"
        /\ mem' = [Moved(m, "half_open") EXCEPT !.probes = 1]
        /\ Persist(Moved(m, "half_open"), ok)
        /\ call' = [Outdated EXCEPT ![c] = "probe"]
  /\ UNCHANGED <<clock, settings>>

-----------------------------------------------------------------------------
(* Record and Abandon.                                                     *)

(* The breaker keeps its state: m is what the operation left in memory.    *)
Stays(c, m) ==
  /\ mem' = m
  /\ call' = [call EXCEPT ![c] = "idle"]
  /\ UNCHANGED saved

Moves(c, m, next, ok) ==
  /\ mem' = Moved(m, next)
  /\ Persist(Moved(m, next), ok)
  /\ call' = [Outdated EXCEPT ![c] = "idle"]

(* SENT and PERMANENT: the endpoint answered.                              *)
RecordSuccess(c, ok) ==
  /\ call[c] # "idle"
  /\ Works(ok)
  /\ LET m == Loaded(ok)
         s == [SlotFreed(m) EXCEPT !.successes = @ + 1] IN
     \/ m.state = "closed" /\ Stays(c, [m EXCEPT !.failures = 0])
     \/ m.state = "open" /\ Stays(c, m)
     \/ /\ m.state = "half_open"
        /\ IF s.successes >= settings.SuccessThreshold
           THEN Moves(c, s, "closed", ok) ELSE Stays(c, s)
  /\ UNCHANGED <<clock, settings>>

(* TRANSIENT and CONNECT_ERROR.                                            *)
RecordFailure(c, ok) ==
  /\ Eventful
  /\ call[c] # "idle"
  /\ Works(ok)
  /\ LET m == Loaded(ok)
         f == [m EXCEPT !.failures = @ + 1] IN
     \/ /\ m.state = "closed"
        /\ IF f.failures >= settings.FailureThreshold
           THEN Moves(c, f, "open", ok) ELSE Stays(c, f)
     \/ m.state = "open" /\ Stays(c, m)
     \/ m.state = "half_open" /\ Moves(c, SlotFreed(m), "open", ok)
  /\ UNCHANGED <<clock, settings>>

(* Slip: a delivery that never reached the channel keeps its slot.         *)
AbandonKeepingSlot(c, ok) ==
  /\ Eventful
  /\ call[c] # "idle"
  /\ Works(ok)
  /\ Stays(c, Loaded(ok))
  /\ UNCHANGED <<clock, settings>>

Abandon(c, ok) ==
  /\ Eventful
  /\ call[c] # "idle"
  /\ Works(ok)
  /\ Stays(c, IF Loaded(ok).state = "half_open"
              THEN SlotFreed(Loaded(ok)) ELSE Loaded(ok))
  /\ UNCHANGED <<clock, settings>>

-----------------------------------------------------------------------------
(* The operator, the process, time.                                        *)

(* Slip: a reset in memory only.                                           *)
ResetInMemory(ok) ==
  /\ Eventful
  /\ Works(ok)
  /\ mem' = Moved(Loaded(ok), "closed")
  /\ call' = Outdated
  /\ UNCHANGED <<clock, settings, saved>>

Reset(ok) ==
  /\ Eventful
  /\ Works(ok)
  /\ mem' = Moved(Loaded(ok), "closed")
  /\ Persist(Moved(Loaded(ok), "closed"), ok)
  /\ call' = Outdated
  /\ UNCHANGED <<clock, settings>>

(* Snapshot, for the admin surface, loads like everything else.            *)
Look(ok) ==
  /\ ~mem.loaded
  /\ Works(ok)
  /\ mem' = Loaded(ok)
  /\ UNCHANGED <<clock, settings, saved, call>>

SetSettings(p) ==
  /\ Eventful
  /\ settings' = p
  /\ UNCHANGED <<clock, mem, saved, call, mishaps>>

(* The process ends, and the next one has a breaker that read nothing.     *)
Restart ==
  /\ Works(FALSE)
  /\ mem' = Fresh
  /\ call' = [c \in Callers |-> "idle"]
  /\ UNCHANGED <<clock, settings, saved>>

Tick == clock < Horizon /\ clock' = clock + 1
        /\ UNCHANGED <<settings, mem, saved, call, mishaps>>

Delivering(c, ok) ==
  Refuse(c, ok) \/ Admit(c, ok) \/ RecordSuccess(c, ok) \/ RecordFailure(c, ok)
  \/ Abandon(c, ok)

Next ==
  \/ \E c \in Callers, ok \in BOOLEAN : Delivering(c, ok)
  \/ \E ok \in BOOLEAN : Reset(ok) \/ Look(ok)
  \/ \E p \in Policies : SetSettings(p)
  \/ Restart
  \/ Tick

Spec == Init /\ [][Next]_vars

(* Deliveries keep coming, every delivery in the channel ends, and once    *)
(* the outage is over (no RecordFailure after LastEvent) it ends well.     *)
Fairness ==
  /\ WF_vars(Tick)
  /\ \A c \in Callers : WF_vars(Admit(c, TRUE)) /\ WF_vars(RecordSuccess(c, TRUE))

FairSpec == Spec /\ Fairness

-----------------------------------------------------------------------------
(* Properties.                                                             *)

Probing == {c \in Callers : call[c] = "probe"}

(* A probe slot that is taken belongs to a probe in flight: no slot leaks, *)
(* whichever way deliveries end and whatever state they were admitted in   *)
(* (Abandon's comment; README.en.md, "the half-open budget cannot leak").  *)
SlotsAreHeld == mem.state = "half_open" => mem.probes <= Cardinality(Probing)

(* As long as the store works, the row is the state in memory, so that a   *)
(* restart goes on with the outage it finds, and a reset stays one.        *)
WrittenThrough ==
  mishaps = 0 /\ mem.loaded =>
    \/ saved.state = mem.state /\ saved.openedAt = mem.openedAt
    \/ saved.state = "none" /\ mem.state = "closed"

(* A channel that has recovered comes back into service: once there are no *)
(* more faults the breaker closes, without a reset.                        *)
Recovers == mem.state # "closed" ~> mem.state = "closed"
=============================================================================
