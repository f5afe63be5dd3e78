--------------------------- MODULE BreakerProofs ---------------------------
(***************************************************************************)
(* What holds of Breaker for every number of deliveries, every set of      *)
(* policies and every sequence of mishaps.                                 *)
(***************************************************************************)
EXTENDS Breaker, FiniteSetTheorems, TLAPS

(* A breaker that has read nothing decides nothing yet.                    *)
UnreadIsClosed == ~mem.loaded => mem.state = "closed"

(* The conjuncts, of a memory m that is on its way to become mem'.         *)
Slots(m) == m.state = "half_open" => m.probes <= Cardinality(Probing)

Written(m) == \/ saved.state = m.state /\ saved.openedAt = m.openedAt
              \/ saved.state = "none" /\ m.state = "closed"

BreakerInv == TypeOK /\ UnreadIsClosed /\ SlotsAreHeld /\ WrittenThrough

-----------------------------------------------------------------------------
(* load.                                                                   *)

(* What load leaves in memory keeps the invariant: the persisted state     *)
(* comes without probes, and with the time it was saved with.              *)
LEMMA LoadedKeeps ==
  ASSUME BreakerInv, NEW ok \in BOOLEAN, NEW m, m = Loaded(ok)
  PROVE  /\ m \in Memory /\ m.loaded
         /\ Slots(m)
         /\ mishaps = 0 /\ ok => Written(m)
<1>1. mem \in Memory /\ saved \in Image /\ Cardinality(Probing) \in Nat
  <2>1. IsFiniteSet(Callers)
    BY BreakerAssumption
  <2>2. IsFiniteSet(Probing)
    BY <2>1, FS_Subset DEF Probing
  <2>3. QED BY <2>2, FS_CardinalityType DEF BreakerInv, TypeOK
<1>2. CASE mem.loaded \/ ~ok \/ saved.state = "none"
  <2>1. m = [mem EXCEPT !.loaded = TRUE]
    BY <1>2 DEF Loaded
  <2>2. m = [loaded |-> TRUE, state |-> mem.state, failures |-> mem.failures,
             openedAt |-> mem.openedAt, probes |-> mem.probes,
             successes |-> mem.successes]
    BY <1>1, <2>1 DEF Memory
  <2>3. m \in Memory /\ m.loaded /\ m.state = mem.state /\ m.probes = mem.probes
        /\ m.openedAt = mem.openedAt
    BY <1>1, <2>2 DEF Memory
  <2>4. QED
    BY <1>1, <1>2, <2>3 DEF BreakerInv, SlotsAreHeld, Slots, WrittenThrough,
       Written, UnreadIsClosed, Memory
<1>3. CASE ~mem.loaded /\ ok /\ saved.state # "none"
  <2>1. m = [mem EXCEPT !.loaded = TRUE, !.state = saved.state, !.probes = 0,
                        !.failures = saved.failures, !.openedAt = saved.openedAt]
    BY <1>3 DEF Loaded
  <2>2. m = [loaded |-> TRUE, state |-> saved.state, failures |-> saved.failures,
             openedAt |-> saved.openedAt, probes |-> 0,
             successes |-> mem.successes]
    BY <1>1, <2>1 DEF Memory
  <2>3. saved.state \in States /\ saved.failures \in Nat /\ saved.openedAt \in Nat
    BY <1>1, <1>3 DEF Image
  <2>4. mem.successes \in Nat
    BY <1>1 DEF Memory
  <2>5. m \in Memory /\ m.loaded /\ m.state = saved.state /\ m.probes = 0
        /\ m.openedAt = saved.openedAt
    BY <2>2, <2>3, <2>4 DEF Memory
  <2>6. QED
    BY <1>1, <2>5 DEF Slots, Written
<1>4. QED BY <1>1, <1>2, <1>3 DEF Memory

-----------------------------------------------------------------------------
(* transition.                                                             *)

LEMMA MovedKeeps ==
  ASSUME TypeOK, NEW m \in Memory, NEW next \in States, NEW n, n = Moved(m, next)
  PROVE  /\ n \in Memory /\ n.loaded = m.loaded
         /\ n.state = next /\ n.probes = 0
<1>1. n = [loaded |-> m.loaded, state |-> next,
           failures |-> IF next = "closed" THEN 0 ELSE m.failures,
           openedAt |-> CASE next = "open" -> clock
                          [] next = "closed" -> 0
                          [] OTHER -> m.openedAt,
           probes |-> 0, successes |-> 0]
  BY DEF Moved, Memory
<1>2. /\ m.loaded \in BOOLEAN /\ m.failures \in Nat /\ m.openedAt \in Nat
      /\ clock \in Nat
  BY DEF Memory, TypeOK
<1>3. (CASE next = "open" -> clock [] next = "closed" -> 0
         [] OTHER -> m.openedAt) \in Nat
  BY <1>2
<1>4. (IF next = "closed" THEN 0 ELSE m.failures) \in Nat
  BY <1>2
<1>5. QED BY <1>1, <1>2, <1>3, <1>4 DEF Memory

(* A step that moves the breaker, persists it and sets the probes.         *)
LEMMA MovingStep ==
  ASSUME BreakerInv, NEW m \in Memory, m.loaded, NEW next \in States,
         NEW n, n = Moved(m, next), NEW ok \in BOOLEAN, Works(ok),
         mem' \in Memory, mem'.loaded, mem'.state = next,
         mem'.openedAt = n.openedAt,
         Persist(n, ok),
         call' \in [Callers -> Admissions], mem'.probes <= Cardinality(Probing'),
         UNCHANGED <<clock, settings>>
  PROVE  BreakerInv'
<1>1. n \in Memory /\ n.state = next
  BY MovedKeeps DEF BreakerInv
<1>2. n.failures \in Nat /\ n.openedAt \in Nat /\ n.state \in States
  BY <1>1 DEF Memory
<1>3. saved' = IF ok THEN [state |-> n.state, failures |-> n.failures,
                           openedAt |-> n.openedAt]
               ELSE saved
  BY DEF Persist
<1>4. saved' \in Image
  BY <1>2, <1>3 DEF BreakerInv, TypeOK, Image
<1>5. mishaps' \in Nat /\ (mishaps' = 0 => ok)
  BY DEF Works, BreakerInv, TypeOK
<1>6. TypeOK'
  BY <1>4, <1>5 DEF BreakerInv, TypeOK
<1>7. SlotsAreHeld'
  BY DEF SlotsAreHeld
<1>8. WrittenThrough'
  BY <1>1, <1>3, <1>5 DEF WrittenThrough
<1>9. QED BY <1>6, <1>7, <1>8 DEF BreakerInv, UnreadIsClosed

(* A step that leaves the state as it is.                                  *)
LEMMA StayingStep ==
  ASSUME BreakerInv, NEW ok \in BOOLEAN, Works(ok),
         NEW m, m = Loaded(ok),
         mem' \in Memory, mem'.loaded, mem'.state = m.state,
         mem'.openedAt = m.openedAt,
         mem'.state = "half_open" => mem'.probes <= Cardinality(Probing'),
         call' \in [Callers -> Admissions],
         UNCHANGED <<clock, settings, saved>>
  PROVE  BreakerInv'
<1>1. mishaps' \in Nat /\ (mishaps' = 0 => ok /\ mishaps = 0)
  BY DEF Works, BreakerInv, TypeOK
<1>2. TypeOK'
  BY <1>1 DEF BreakerInv, TypeOK
<1>3. SlotsAreHeld'
  BY DEF SlotsAreHeld
<1>4. mishaps = 0 /\ ok => Written(m)
  BY LoadedKeeps
<1>5. WrittenThrough'
  BY <1>1, <1>4 DEF WrittenThrough, Written
<1>6. QED BY <1>2, <1>3, <1>5 DEF BreakerInv, UnreadIsClosed

-----------------------------------------------------------------------------
(* The probes in flight.                                                   *)

LEMMA CallersCount ==
  ASSUME NEW S \in SUBSET Callers
  PROVE  IsFiniteSet(S) /\ Cardinality(S) \in Nat
BY BreakerAssumption, FS_Subset, FS_CardinalityType

(* A probe admitted is one more.                                           *)
LEMMA ProbingGains ==
  ASSUME TypeOK, NEW c \in Callers, call[c] = "idle",
         call' = [call EXCEPT ![c] = "probe"]
  PROVE  /\ call' \in [Callers -> Admissions]
         /\ Cardinality(Probing') = Cardinality(Probing) + 1
<1>1. Probing' = Probing \cup {c} /\ c \notin Probing
  BY DEF Probing, TypeOK
<1>2. IsFiniteSet(Probing)
  BY CallersCount DEF Probing
<1>3. QED
  BY <1>1, <1>2, FS_AddElement DEF TypeOK, Admissions

(* A delivery that reports takes at most itself away.                      *)
LEMMA ProbingLoses ==
  ASSUME TypeOK, NEW c \in Callers, call' = [call EXCEPT ![c] = "idle"]
  PROVE  /\ call' \in [Callers -> Admissions]
         /\ Cardinality(Probing') \in Nat
         /\ Cardinality(Probing) <= Cardinality(Probing') + 1
<1>1. Probing' = Probing \ {c}
  BY DEF Probing, TypeOK
<1>2. IsFiniteSet(Probing) /\ Cardinality(Probing) \in Nat
  BY CallersCount DEF Probing
<1>3. Cardinality(Probing \ {c}) = IF c \in Probing THEN Cardinality(Probing) - 1
                                   ELSE Cardinality(Probing)
  BY <1>2, FS_RemoveElement
<1>4. Cardinality(Probing \ {c}) \in Nat
  BY CallersCount DEF Probing
<1>5. QED
  BY <1>1, <1>2, <1>3, <1>4 DEF TypeOK, Admissions

(* After a change of state no admission is one of a probe.                 *)
LEMMA ProbingOutdated ==
  ASSUME TypeOK, call' = Outdated
  PROVE  call' \in [Callers -> Admissions] /\ Cardinality(Probing') \in Nat
<1>1. call' \in [Callers -> Admissions]
  BY DEF Outdated, Admissions
<1>2. QED
  BY <1>1, CallersCount DEF Probing

LEMMA ProbingOutdatedBut ==
  ASSUME TypeOK, NEW c \in Callers, NEW a \in {"idle", "probe"},
         call' = [Outdated EXCEPT ![c] = a]
  PROVE  /\ call' \in [Callers -> Admissions]
         /\ Cardinality(Probing') \in Nat
         /\ a = "probe" => Cardinality(Probing') = 1
<1>1. Outdated \in [Callers -> Admissions]
  BY DEF Outdated, Admissions
<1>2. call' \in [Callers -> Admissions]
  BY <1>1 DEF Admissions
<1>3. ASSUME a = "probe" PROVE Probing' = {c}
  BY <1>1, <1>3 DEF Probing, Outdated
<1>4. QED
  BY <1>2, <1>3, CallersCount, FS_Singleton DEF Probing

-----------------------------------------------------------------------------
(* One lemma per operation.                                                *)

LEMMA RefuseKeeps ==
  ASSUME BreakerInv, NEW c \in Callers, NEW ok \in BOOLEAN, Refuse(c, ok)
  PROVE  BreakerInv'
<1> DEFINE m == Loaded(ok)
<1>1. m \in Memory /\ m.loaded /\ Slots(m)
  BY LoadedKeeps
<1>2. mem' = m /\ Works(ok) /\ UNCHANGED <<clock, settings, saved, call>>
  BY DEF Refuse
<1>3. Probing' = Probing
  BY <1>2 DEF Probing
<1>4. QED
  BY <1>1, <1>2, <1>3, StayingStep DEF BreakerInv, TypeOK, Slots

LEMMA AdmitKeeps ==
  ASSUME BreakerInv, NEW c \in Callers, NEW ok \in BOOLEAN, Admit(c, ok)
  PROVE  BreakerInv'
<1>1. SUFFICES ASSUME NEW m, m = Loaded(ok) PROVE BreakerInv'
  OBVIOUS
<1>2. m \in Memory /\ m.loaded /\ Slots(m)
  BY <1>1, LoadedKeeps
<1>3. Works(ok) /\ UNCHANGED <<clock, settings>> /\ call[c] = "idle" /\ TypeOK
  BY DEF Admit, BreakerInv
<1>4. CASE m.state = "closed" /\ mem' = m /\ UNCHANGED saved
           /\ call' = [call EXCEPT ![c] = "normal"]
  <2>1. call' \in [Callers -> Admissions]
    BY <1>3, <1>4 DEF TypeOK, Admissions
  <2>2. mem'.state # "half_open"
    BY <1>4
  <2>3. QED
    BY <1>1, <1>2, <1>3, <1>4, <2>1, <2>2, StayingStep
<1>5. CASE m.state = "half_open" /\ mem' = [m EXCEPT !.probes = @ + 1]
           /\ UNCHANGED saved /\ call' = [call EXCEPT ![c] = "probe"]
  <2>1. m.probes \in Nat /\ m.probes + 1 \in Nat
    BY <1>2 DEF Memory
  <2>2. /\ mem' \in Memory /\ mem'.probes = m.probes + 1
        /\ mem'.loaded = m.loaded /\ mem'.state = m.state
        /\ mem'.openedAt = m.openedAt
    BY <1>2, <1>5, <2>1 DEF Memory
  <2>3. /\ call' \in [Callers -> Admissions]
        /\ Cardinality(Probing') = Cardinality(Probing) + 1
    BY <1>3, <1>5, ProbingGains
  <2>4. Cardinality(Probing) \in Nat
    BY CallersCount DEF Probing
  <2>5. mem'.probes <= Cardinality(Probing')
    BY <1>2, <1>5, <2>1, <2>2, <2>3, <2>4 DEF Slots
  <2>6. QED
    BY <1>1, <1>2, <1>3, <1>5, <2>2, <2>3, <2>5, StayingStep
<1>6. CASE /\ m.state = "open"
           /\ mem' = [Moved(m, "half_open") EXCEPT !.probes = 1]
           /\ Persist(Moved(m, "half_open"), ok)
           /\ call' = [Outdated EXCEPT ![c] = "probe"]
  <2>1. SUFFICES ASSUME NEW n, n = Moved(m, "half_open") PROVE BreakerInv'
    OBVIOUS
  <2>2. n \in Memory /\ n.loaded /\ n.state = "half_open"
    BY <1>2, <1>3, <2>1, MovedKeeps DEF States
  <2>3. mem' = [n EXCEPT !.probes = 1] /\ 1 \in Nat
    BY <1>6, <2>1
  <2>4. /\ mem' \in Memory /\ mem'.probes = 1
        /\ mem'.loaded = n.loaded /\ mem'.state = n.state
        /\ mem'.openedAt = n.openedAt
    BY <2>2, <2>3 DEF Memory
  <2>5. call' \in [Callers -> Admissions] /\ Cardinality(Probing') = 1
    BY <1>3, <1>6, ProbingOutdatedBut
  <2>6. Persist(n, ok) /\ mem'.probes <= Cardinality(Probing')
    BY <1>6, <2>1, <2>4, <2>5
  <2>7. QED
    BY <1>2, <1>3, <2>1, <2>2, <2>4, <2>5, <2>6, MovingStep DEF States
<1>7. QED BY <1>1, <1>4, <1>5, <1>6 DEF Admit

(* Giving a slot back leaves one less, if there was any.                   *)
LEMMA SlotFreedKeeps ==
  ASSUME NEW m \in Memory, NEW n, n = SlotFreed(m)
  PROVE  /\ n \in Memory /\ n.loaded = m.loaded /\ n.state = m.state
         /\ n.openedAt = m.openedAt /\ n.successes = m.successes
         /\ n.probes = IF m.probes > 0 THEN m.probes - 1 ELSE 0
<1>1. m.probes \in Nat
  BY DEF Memory
<1>2. (IF m.probes > 0 THEN m.probes - 1 ELSE m.probes) \in Nat
  BY <1>1
<1>3. n = [m EXCEPT !.probes = IF m.probes > 0 THEN m.probes - 1 ELSE m.probes]
  BY DEF SlotFreed
<1>4. QED BY <1>1, <1>2, <1>3 DEF Memory

(* A report that leaves the breaker in its state, with a slot given back   *)
(* when the state counts them.                                             *)
LEMMA ReportKeeps ==
  ASSUME BreakerInv, NEW c \in Callers, NEW ok \in BOOLEAN, Works(ok),
         NEW m, m = Loaded(ok), NEW n \in Memory, Stays(c, n),
         n.loaded, n.state = m.state, n.openedAt = m.openedAt,
         m.state = "half_open" => n.probes <= IF m.probes > 0 THEN m.probes - 1
                                              ELSE 0,
         UNCHANGED <<clock, settings>>
  PROVE  BreakerInv'
<1>1. m \in Memory /\ Slots(m)
  BY LoadedKeeps
<1>2. mem' = n /\ call' = [call EXCEPT ![c] = "idle"] /\ UNCHANGED saved
  BY DEF Stays
<1>3. /\ call' \in [Callers -> Admissions]
      /\ Cardinality(Probing') \in Nat
      /\ Cardinality(Probing) <= Cardinality(Probing') + 1
  BY <1>2, ProbingLoses DEF BreakerInv
<1>4. Cardinality(Probing) \in Nat
  BY CallersCount DEF Probing
<1>5. m.probes \in Nat /\ n.probes \in Nat
  BY <1>1 DEF Memory
<1>6. m.state = "half_open" => n.probes <= Cardinality(Probing')
  BY <1>1, <1>3, <1>4, <1>5 DEF Slots
<1>7. QED
  BY <1>2, <1>3, <1>6, StayingStep

(* A report or a reset that moves it: no probe is in flight afterwards.    *)
LEMMA MovesKeeps ==
  ASSUME BreakerInv, NEW c \in Callers, NEW ok \in BOOLEAN, Works(ok),
         NEW m \in Memory, m.loaded, NEW next \in States, Moves(c, m, next, ok),
         UNCHANGED <<clock, settings>>
  PROVE  BreakerInv'
<1>1. SUFFICES ASSUME NEW n, n = Moved(m, next) PROVE BreakerInv'
  OBVIOUS
<1>2. mem' = n /\ Persist(n, ok) /\ call' = [Outdated EXCEPT ![c] = "idle"]
  BY <1>1 DEF Moves
<1>3. n \in Memory /\ n.loaded /\ n.state = next /\ n.probes = 0
  BY <1>1, MovedKeeps DEF BreakerInv
<1>4. call' \in [Callers -> Admissions] /\ Cardinality(Probing') \in Nat
  BY <1>2, ProbingOutdatedBut DEF BreakerInv
<1>5. mem'.probes <= Cardinality(Probing')
  BY <1>2, <1>3, <1>4
<1>6. QED
  BY <1>1, <1>2, <1>3, <1>4, <1>5, MovingStep

LEMMA RecordSuccessKeeps ==
  ASSUME BreakerInv, NEW c \in Callers, NEW ok \in BOOLEAN, RecordSuccess(c, ok)
  PROVE  BreakerInv'
<1>1. SUFFICES ASSUME NEW m, m = Loaded(ok) PROVE BreakerInv'
  OBVIOUS
<1>2. m \in Memory /\ m.loaded
  BY <1>1, LoadedKeeps
<1>3. Works(ok) /\ UNCHANGED <<clock, settings>>
  BY DEF RecordSuccess
<1>4. CASE m.state = "closed" /\ Stays(c, [m EXCEPT !.failures = 0])
  <2>1. SUFFICES ASSUME NEW n, n = [m EXCEPT !.failures = 0] PROVE BreakerInv'
    OBVIOUS
  <2>2. /\ n \in Memory /\ n.loaded = m.loaded /\ n.state = m.state
        /\ n.openedAt = m.openedAt
    BY <1>2, <2>1 DEF Memory
  <2>3. Stays(c, n) /\ n.loaded
    BY <1>2, <1>4, <2>1, <2>2
  <2>4. QED BY <1>1, <1>3, <1>4, <2>2, <2>3, ReportKeeps
<1>5. CASE m.state = "open" /\ Stays(c, m)
  BY <1>1, <1>2, <1>3, <1>5, ReportKeeps
<1>6. ASSUME m.state = "half_open",
             NEW s, s = [SlotFreed(m) EXCEPT !.successes = @ + 1],
             \/ Moves(c, s, "closed", ok)
             \/ Stays(c, s)
      PROVE  BreakerInv'
  <2>1. SUFFICES ASSUME NEW f, f = SlotFreed(m) PROVE BreakerInv'
    OBVIOUS
  <2>2. /\ f \in Memory /\ f.loaded /\ f.state = m.state
        /\ f.openedAt = m.openedAt
        /\ f.probes = IF m.probes > 0 THEN m.probes - 1 ELSE 0
    BY <1>2, <2>1, SlotFreedKeeps
  <2>3. s = [f EXCEPT !.successes = f.successes + 1]
    BY <1>6, <2>1
  <2>4. f.successes + 1 \in Nat
    BY <2>2 DEF Memory
  <2>5. /\ s \in Memory /\ s.loaded = f.loaded /\ s.state = f.state
        /\ s.openedAt = f.openedAt /\ s.probes = f.probes
    BY <2>2, <2>3, <2>4 DEF Memory
  <2>6. CASE Moves(c, s, "closed", ok)
    BY <1>3, <2>2, <2>5, <2>6, MovesKeeps DEF States
  <2>7. CASE Stays(c, s)
    <3>1. m.probes \in Nat
      BY <1>2 DEF Memory
    <3>2. /\ s \in Memory /\ s.loaded /\ s.state = m.state
          /\ s.openedAt = m.openedAt
          /\ s.probes <= IF m.probes > 0 THEN m.probes - 1 ELSE 0
      BY <2>2, <2>5, <3>1
    <3>3. QED
      BY <1>1, <1>3, <2>7, <3>2, ReportKeeps
  <2>8. QED BY <1>6, <2>6, <2>7
<1>7. QED BY <1>1, <1>4, <1>5, <1>6 DEF RecordSuccess

LEMMA RecordFailureKeeps ==
  ASSUME BreakerInv, NEW c \in Callers, NEW ok \in BOOLEAN, RecordFailure(c, ok)
  PROVE  BreakerInv'
<1>1. SUFFICES ASSUME NEW m, m = Loaded(ok) PROVE BreakerInv'
  OBVIOUS
<1>2. m \in Memory /\ m.loaded
  BY <1>1, LoadedKeeps
<1>3. Works(ok) /\ UNCHANGED <<clock, settings>>
  BY DEF RecordFailure
<1>4. ASSUME m.state = "closed", NEW f, f = [m EXCEPT !.failures = @ + 1],
             \/ Moves(c, f, "open", ok)
             \/ Stays(c, f)
      PROVE  BreakerInv'
  <2>1. f = [m EXCEPT !.failures = m.failures + 1] /\ m.failures + 1 \in Nat
    BY <1>2, <1>4 DEF Memory
  <2>2. /\ f \in Memory /\ f.loaded = m.loaded /\ f.state = m.state
        /\ f.openedAt = m.openedAt
    BY <1>2, <2>1 DEF Memory
  <2>3. CASE Moves(c, f, "open", ok)
    BY <1>2, <1>3, <2>2, <2>3, MovesKeeps DEF States
  <2>4. CASE Stays(c, f)
    BY <1>1, <1>2, <1>3, <1>4, <2>2, <2>4, ReportKeeps
  <2>5. QED BY <1>4, <2>3, <2>4
<1>5. CASE m.state = "open" /\ Stays(c, m)
  BY <1>1, <1>2, <1>3, <1>5, ReportKeeps
<1>6. CASE m.state = "half_open" /\ Moves(c, SlotFreed(m), "open", ok)
  <2>1. SUFFICES ASSUME NEW f, f = SlotFreed(m) PROVE BreakerInv'
    OBVIOUS
  <2>2. f \in Memory /\ f.loaded
    BY <1>2, <2>1, SlotFreedKeeps
  <2>3. QED
    BY <1>3, <1>6, <2>1, <2>2, MovesKeeps DEF States
<1>7. QED BY <1>1, <1>4, <1>5, <1>6 DEF RecordFailure

LEMMA AbandonKeeps ==
  ASSUME BreakerInv, NEW c \in Callers, NEW ok \in BOOLEAN, Abandon(c, ok)
  PROVE  BreakerInv'
<1>1. SUFFICES ASSUME NEW m, m = Loaded(ok) PROVE BreakerInv'
  OBVIOUS
<1>2. m \in Memory /\ m.loaded
  BY <1>1, LoadedKeeps
<1>3. Works(ok) /\ UNCHANGED <<clock, settings>>
  BY DEF Abandon
<1>4. CASE m.state = "half_open" /\ Stays(c, SlotFreed(m))
  <2>1. SUFFICES ASSUME NEW f, f = SlotFreed(m) PROVE BreakerInv'
    OBVIOUS
  <2>2. /\ f \in Memory /\ f.loaded /\ f.state = m.state
        /\ f.openedAt = m.openedAt
        /\ f.probes = IF m.probes > 0 THEN m.probes - 1 ELSE 0
    BY <1>2, <2>1, SlotFreedKeeps
  <2>3. m.probes \in Nat
    BY <1>2 DEF Memory
  <2>4. QED
    BY <1>1, <1>3, <1>4, <2>1, <2>2, <2>3, ReportKeeps
<1>5. CASE m.state # "half_open" /\ Stays(c, m)
  BY <1>1, <1>2, <1>3, <1>5, ReportKeeps
<1>6. QED BY <1>1, <1>4, <1>5 DEF Abandon

LEMMA ResetKeeps ==
  ASSUME BreakerInv, NEW ok \in BOOLEAN, Reset(ok)
  PROVE  BreakerInv'
<1>1. SUFFICES ASSUME NEW m, m = Loaded(ok), NEW n, n = Moved(m, "closed")
               PROVE  BreakerInv'
  OBVIOUS
<1>2. m \in Memory /\ m.loaded
  BY <1>1, LoadedKeeps
<1>3. Works(ok) /\ mem' = n /\ Persist(n, ok) /\ call' = Outdated
      /\ UNCHANGED <<clock, settings>>
  BY <1>1 DEF Reset
<1>4. n \in Memory /\ n.loaded /\ n.state = "closed" /\ n.probes = 0
  BY <1>1, <1>2, MovedKeeps DEF BreakerInv, States
<1>5. call' \in [Callers -> Admissions] /\ Cardinality(Probing') \in Nat
  BY <1>3, ProbingOutdated DEF BreakerInv
<1>6. mem'.probes <= Cardinality(Probing')
  BY <1>3, <1>4, <1>5
<1>7. QED
  BY <1>1, <1>2, <1>3, <1>4, <1>5, <1>6, MovingStep DEF States

LEMMA LookKeeps ==
  ASSUME BreakerInv, NEW ok \in BOOLEAN, Look(ok)
  PROVE  BreakerInv'
<1>1. SUFFICES ASSUME NEW m, m = Loaded(ok) PROVE BreakerInv'
  OBVIOUS
<1>2. m \in Memory /\ m.loaded /\ Slots(m)
  BY <1>1, LoadedKeeps
<1>3. mem' = m /\ Works(ok) /\ UNCHANGED <<clock, settings, saved, call>>
  BY <1>1 DEF Look
<1>4. Probing' = Probing
  BY <1>3 DEF Probing
<1>5. QED
  BY <1>1, <1>2, <1>3, <1>4, StayingStep DEF BreakerInv, TypeOK, Slots

-----------------------------------------------------------------------------
(* The theorems.                                                           *)

(* Init and every step keep the invariant.                                 *)
LEMMA InitSafe == Init => BreakerInv
<1>1. SUFFICES ASSUME Init PROVE BreakerInv
  OBVIOUS
<1>2. mem = Fresh /\ clock = 1 /\ settings \in Policies /\ mishaps = 0
      /\ saved = [state |-> "none", failures |-> 0, openedAt |-> 0]
      /\ call = [c \in Callers |-> "idle"]
  BY <1>1 DEF Init
<1>3. TypeOK
  BY <1>2, BreakerAssumption DEF TypeOK, Memory, States, Image, Admissions, Fresh
<1>4. mem.state = "closed" /\ ~mem.loaded
  BY <1>2 DEF Fresh
<1>5. QED
  BY <1>3, <1>4 DEF BreakerInv, UnreadIsClosed, SlotsAreHeld, WrittenThrough

LEMMA RestartKeeps ==
  ASSUME BreakerInv, Restart
  PROVE  BreakerInv'
<1>1. mem' = Fresh /\ UNCHANGED <<clock, settings, saved>>
      /\ call' = [c \in Callers |-> "idle"] /\ mishaps' = mishaps + 1
  BY DEF Restart, Works
<1>2. TypeOK'
  BY <1>1 DEF BreakerInv, TypeOK, Memory, States, Admissions, Fresh
<1>3. mem'.state = "closed" /\ ~mem'.loaded
  BY <1>1 DEF Fresh
<1>4. QED
  BY <1>2, <1>3 DEF BreakerInv, UnreadIsClosed, SlotsAreHeld, WrittenThrough

(* What does not touch the breaker.                                        *)
LEMMA OutsideKeeps ==
  ASSUME BreakerInv, UNCHANGED <<mem, saved, call, mishaps>>,
         clock' \in Nat \ {0}, settings' \in Settings
  PROVE  BreakerInv'
<1>1. Probing' = Probing
  BY DEF Probing
<1>2. QED
  BY <1>1 DEF BreakerInv, TypeOK, UnreadIsClosed, SlotsAreHeld, WrittenThrough

LEMMA NextSafe == BreakerInv /\ [Next]_vars => BreakerInv'
<1>1. SUFFICES ASSUME BreakerInv, [Next]_vars PROVE BreakerInv'
  OBVIOUS
<1>2. ASSUME NEW c \in Callers, NEW ok \in BOOLEAN, Delivering(c, ok)
      PROVE  BreakerInv'
  BY <1>1, <1>2, RefuseKeeps, AdmitKeeps, RecordSuccessKeeps, RecordFailureKeeps,
     AbandonKeeps DEF Delivering
<1>3. ASSUME NEW ok \in BOOLEAN, Reset(ok) \/ Look(ok)
      PROVE  BreakerInv'
  BY <1>1, <1>3, ResetKeeps, LookKeeps
<1>4. ASSUME NEW p \in Policies, SetSettings(p)
      PROVE  BreakerInv'
  BY <1>1, <1>4, BreakerAssumption, OutsideKeeps DEF SetSettings, BreakerInv, TypeOK
<1>5. CASE Restart
  BY <1>1, <1>5, RestartKeeps
<1>6. CASE Tick
  BY <1>1, <1>6, OutsideKeeps DEF Tick, BreakerInv, TypeOK
<1>7. CASE UNCHANGED vars
  BY <1>1, <1>7, OutsideKeeps DEF vars, BreakerInv, TypeOK
<1>8. QED BY <1>1, <1>2, <1>3, <1>4, <1>5, <1>6, <1>7 DEF Next

LEMMA BreakerIsSafe == Spec => []BreakerInv
BY InitSafe, NextSafe, PTL DEF Spec

(* The variables keep their types; in particular no report, however late,  *)
(* brings the count of probes below zero.                                  *)
THEOREM TypeCorrect == Spec => []TypeOK
BY BreakerIsSafe, PTL DEF BreakerInv

(* No probe slot leaks: each one taken belongs to a probe in flight, for   *)
(* any number of deliveries, reports in any order and any change of the    *)
(* settings meanwhile.                                                     *)
THEOREM NoSlotLeaks == Spec => []SlotsAreHeld
BY BreakerIsSafe, PTL DEF BreakerInv

(* While the store works, the persisted row is the state in memory.        *)
THEOREM StateIsWritten == Spec => []WrittenThrough
BY BreakerIsSafe, PTL DEF BreakerInv
=============================================================================
