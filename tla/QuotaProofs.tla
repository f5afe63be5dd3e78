----------------------------- MODULE QuotaProofs -----------------------------
(***************************************************************************)
(* What holds of Quota for every number of deliveries, every choice of     *)
(* windows and limits and every sequence of crashes and failures: no       *)
(* period is overspent; and, until something fails, none is overcharged    *)
(* and no sliding window is overspent.                                     *)
(***************************************************************************)
EXTENDS Quota, FiniteSetTheorems, WellFoundedInduction, TLAPS

(* The deliveries that have counted one unit in a period.                  *)
Takers(w, p) == {c \in Callers : w \in res[c].taken /\ Period(w, res[c].at) = p}

TypeInv ==
  /\ clock \in Times
  /\ count \in [LongKinds -> [Periods -> Nat]]
  /\ res \in [Callers -> Reservation]
  /\ spent \in [LongKinds -> [Periods -> Nat]]
  /\ blind \in BOOLEAN

(* A delivery that went past a limited window has counted in it.           *)
AskedIsTaken ==
  ~blind => \A c \in Callers : res[c].phase = "asking" =>
    \A i \in DOMAIN Longs :
      i <= res[c].asked /\ Limited(Longs[i]) => Longs[i] \in res[c].taken

(* No counter passes its limit; none of what was spent or is on its way    *)
(* has gone uncounted.                                                     *)
Bounded ==
  \A w \in LongKinds, p \in Periods : Limited(w) => count[w][p] <= Limit[w]

Covered ==
  ~blind => \A w \in LongKinds, p \in Periods : Limited(w) =>
    spent[w][p] + Cardinality(Takers(w, p)) <= count[w][p]

QuotaInv == TypeInv /\ AskedIsTaken /\ Bounded /\ Covered

-----------------------------------------------------------------------------
(* Finite sets.                                                            *)

(* Who leaves a set and who remains are together no more than it was.      *)
LEMMA Leaving ==
  ASSUME NEW S, IsFiniteSet(S), NEW T, NEW U, T \subseteq S, U \subseteq S \ T
  PROVE  /\ Cardinality(S) \in Nat /\ Cardinality(T) \in Nat
         /\ Cardinality(U) \in Nat
         /\ Cardinality(T) + Cardinality(U) <= Cardinality(S)
<1>1. IsFiniteSet(T) /\ IsFiniteSet(S \ T) /\ IsFiniteSet(U)
  BY FS_Subset, S \ T \in SUBSET S, T \in SUBSET S, U \in SUBSET S
<1>2. Cardinality(S \ T) = Cardinality(S) - Cardinality(S \cap T)
  BY FS_Difference
<1>3. Cardinality(S \cap T) = Cardinality(T)
  BY S \cap T = T
<1>4. Cardinality(U) <= Cardinality(S \ T)
  BY <1>1, FS_Subset, U \in SUBSET (S \ T)
<1>5. /\ Cardinality(S) \in Nat /\ Cardinality(T) \in Nat
      /\ Cardinality(U) \in Nat /\ Cardinality(S \ T) \in Nat
  BY <1>1, FS_CardinalityType
<1>6. QED BY <1>2, <1>3, <1>4, <1>5

(* One more at most.                                                       *)
LEMMA Joining ==
  ASSUME NEW S, IsFiniteSet(S), NEW c, NEW U, U \subseteq S \cup {c}
  PROVE  /\ Cardinality(S) \in Nat /\ Cardinality(U) \in Nat
         /\ Cardinality(U) <= Cardinality(S) + 1
<1>1. /\ IsFiniteSet(S \cup {c})
      /\ Cardinality(S \cup {c}) =
           IF c \in S THEN Cardinality(S) ELSE Cardinality(S) + 1
  BY FS_AddElement
<1>2. IsFiniteSet(U) /\ Cardinality(U) <= Cardinality(S \cup {c})
  BY <1>1, FS_Subset, U \in SUBSET (S \cup {c})
<1>3. /\ Cardinality(S) \in Nat /\ Cardinality(U) \in Nat
      /\ Cardinality(S \cup {c}) \in Nat
  BY <1>1, <1>2, FS_CardinalityType
<1>4. QED BY <1>1, <1>2, <1>3

(* There are no more takers than deliveries.                               *)
LEMMA TakersAreFinite ==
  ASSUME NEW w, NEW p
  PROVE  IsFiniteSet(Takers(w, p))
BY QuotaAssumption, FS_Subset, Takers(w, p) \in SUBSET Callers
   DEF QuotaAssumption, Takers

(* Every time falls in a period.                                           *)
LEMMA PeriodType ==
  ASSUME NEW w \in LongKinds, NEW t \in Times \cup {0}
  PROVE  Period(w, t) \in Periods
<1>1. Span[w] \in Nat \ {0} /\ Horizon \in Nat
  BY QuotaAssumption DEF QuotaAssumption, Kinds
<1>2. ASSUME NEW s \in Nat \ {0}, NEW n \in Nat
      PROVE  n \div s \in 0..n
  OBVIOUS
<1>3. t \in Nat /\ t <= Horizon
  BY <1>1 DEF Times
<1>4. t \div Span[w] \in 0..t
  BY <1>1, <1>2, <1>3
<1>5. QED BY <1>1, <1>3, <1>4 DEF Period, Periods

-----------------------------------------------------------------------------
(* A step that leaves the counters alone: some of the takers reach the     *)
(* peer, the others give up or stay.                                       *)
LEMMA MovesKeep ==
  ASSUME QuotaInv, UNCHANGED count, ~blind' => ~blind,
         ~blind => \A w \in LongKinds, p \in Periods : Limited(w) =>
           \E T \in SUBSET Takers(w, p) :
             /\ spent'[w][p] = spent[w][p] + Cardinality(T)
             /\ Takers(w, p)' \subseteq Takers(w, p) \ T
  PROVE  Bounded' /\ Covered'
<1>1. Bounded'
  BY DEF QuotaInv, Bounded, Limited
<1>2. SUFFICES ASSUME ~blind', ~blind, NEW w \in LongKinds, NEW p \in Periods,
                      Limited(w)
               PROVE  spent'[w][p] + Cardinality(Takers(w, p)') <= count[w][p]
  BY <1>1 DEF Covered, Limited
<1>3. PICK T \in SUBSET Takers(w, p) :
        /\ spent'[w][p] = spent[w][p] + Cardinality(T)
        /\ Takers(w, p)' \subseteq Takers(w, p) \ T
  BY <1>2
<1>4. spent[w][p] + Cardinality(Takers(w, p)) <= count[w][p]
  BY <1>2 DEF QuotaInv, Covered
<1>5. /\ Cardinality(Takers(w, p)) \in Nat /\ Cardinality(T) \in Nat
      /\ Cardinality(Takers(w, p)') \in Nat
      /\ Cardinality(T) + Cardinality(Takers(w, p)') <= Cardinality(Takers(w, p))
  BY <1>3, TakersAreFinite, Leaving
<1>6. spent[w][p] \in Nat /\ count[w][p] \in Nat
  BY DEF QuotaInv, TypeInv
<1>7. QED BY <1>3, <1>4, <1>5, <1>6

(* One delivery takes a new reservation, or drops the one it has.          *)
LEMMA ShrinkKeeps ==
  ASSUME QuotaInv, UNCHANGED <<count, spent>>, ~blind' => ~blind,
         NEW c \in Callers, NEW r \in Reservation, res' = [res EXCEPT ![c] = r],
         r.taken = {} \/ (r.taken = res[c].taken /\ r.at = res[c].at)
  PROVE  Bounded' /\ Covered'
<1>1. SUFFICES ASSUME ~blind, NEW w \in LongKinds, NEW p \in Periods, Limited(w)
               PROVE  \E T \in SUBSET Takers(w, p) :
                        /\ spent'[w][p] = spent[w][p] + Cardinality(T)
                        /\ Takers(w, p)' \subseteq Takers(w, p) \ T
  BY MovesKeep
<1>2. WITNESS {} \in SUBSET Takers(w, p)
<1>3. Cardinality({}) = 0 /\ spent[w][p] \in Nat
  BY FS_EmptySet DEF QuotaInv, TypeInv
<1>4. Takers(w, p)' \subseteq Takers(w, p)
  BY DEF Takers, QuotaInv, TypeInv, Period
<1>5. QED BY <1>3, <1>4

(* The deliveries of S reach the peer and are done, and perhaps others.    *)
LEMMA ReachKeeps ==
  ASSUME QuotaInv, UNCHANGED <<clock, count, blind>>,
         NEW S \in SUBSET Callers, \A c \in S : Held(c), Reach(S),
         NEW D \in SUBSET Callers, S \subseteq D,
         res' = [c \in Callers |-> IF c \in D THEN NoReservation ELSE res[c]]
  PROVE  QuotaInv'
<1>1. NoReservation \in Reservation
  BY DEF NoReservation, Reservation
<1>2. spent' = [w \in LongKinds |-> [p \in Periods |->
         spent[w][p] + Cardinality({c \in S : Period(w, res[c].at) = p})]]
  BY DEF Reach, Quantify
<1>3. ASSUME NEW w \in LongKinds, NEW p \in Periods
      PROVE  Cardinality({c \in S : Period(w, res[c].at) = p}) \in Nat
  BY QuotaAssumption, FS_Subset, FS_CardinalityType,
     {c \in S : Period(w, res[c].at) = p} \in SUBSET Callers DEF QuotaAssumption
<1>4. Bounded' /\ Covered'
  <2>1. SUFFICES ASSUME ~blind, NEW w \in LongKinds, NEW p \in Periods, Limited(w)
                 PROVE  \E T \in SUBSET Takers(w, p) :
                          /\ spent'[w][p] = spent[w][p] + Cardinality(T)
                          /\ Takers(w, p)' \subseteq Takers(w, p) \ T
    BY MovesKeep
  <2>2. \A c \in S : w \in res[c].taken
    BY <2>1 DEF QuotaInv, AskedIsTaken, Held, LongKinds
  <2>3. {c \in S : Period(w, res[c].at) = p} \in SUBSET Takers(w, p)
    BY <2>2 DEF Takers
  <2>4. Takers(w, p)' \subseteq
          Takers(w, p) \ {c \in S : Period(w, res[c].at) = p}
    BY DEF Takers, NoReservation, Period
  <2>5. QED BY <1>2, <2>3, <2>4
<1>5. TypeInv'
  <2>1. ASSUME NEW w \in LongKinds, NEW p \in Periods
        PROVE  spent[w][p] + Cardinality({c \in S : Period(w, res[c].at) = p}) \in Nat
    BY <1>3 DEF QuotaInv, TypeInv
  <2>2. spent' \in [LongKinds -> [Periods -> Nat]]
    BY <1>2, <2>1
  <2>3. res' \in [Callers -> Reservation]
    BY <1>1 DEF QuotaInv, TypeInv
  <2>4. QED BY <2>2, <2>3 DEF QuotaInv, TypeInv
<1>6. AskedIsTaken'
  BY DEF QuotaInv, AskedIsTaken, NoReservation, Limited
<1>7. QED BY <1>4, <1>5, <1>6 DEF QuotaInv

-----------------------------------------------------------------------------
(* One delivery.                                                           *)

(* What a step of one delivery has to leave in its reservation.            *)
LEMMA OneKeeps ==
  ASSUME QuotaInv, NEW c \in Callers, NEW r \in Reservation,
         res' = [res EXCEPT ![c] = r],
         ~blind' => ~blind,
         ~blind' /\ r.phase = "asking" => \A i \in DOMAIN Longs :
           i <= r.asked /\ Limited(Longs[i]) => Longs[i] \in r.taken
  PROVE  res' \in [Callers -> Reservation] /\ AskedIsTaken'
BY DEF QuotaInv, TypeInv, AskedIsTaken, Limited

(* The reservation with one window more behind it.                         *)
LEMMA OneFurther ==
  ASSUME TypeInv, NEW c \in Callers, NEW r,
         r = [phase |-> res[c].phase, at |-> res[c].at,
              asked |-> res[c].asked + 1, taken |-> res[c].taken]
  PROVE  r \in Reservation /\ [res EXCEPT ![c].asked = @ + 1] = [res EXCEPT ![c] = r]
<1>1. res[c] \in Reservation
  BY DEF TypeInv
<1>2. r \in Reservation
  BY <1>1 DEF Reservation
<1>3. [res[c] EXCEPT !.asked = res[c].asked + 1] = r
  BY <1>1 DEF Reservation
<1>4. QED BY <1>2, <1>3

(* An update of two fields, field by field.                                *)
LEMMA TwoFields ==
  ASSUME NEW x \in Reservation, NEW n \in Nat, NEW t \in SUBSET LongKinds
  PROVE  [x EXCEPT !.asked = n, !.taken = t]
           = [phase |-> x.phase, at |-> x.at, asked |-> n, taken |-> t]
<1>1. SUFFICES ASSUME NEW y, y = [x EXCEPT !.asked = n]
               PROVE  [y EXCEPT !.taken = t]
                        = [phase |-> x.phase, at |-> x.at, asked |-> n, taken |-> t]
  OBVIOUS
<1>2. y = [phase |-> x.phase, at |-> x.at, asked |-> n, taken |-> x.taken]
  BY <1>1 DEF Reservation
<1>3. y \in Reservation
  BY <1>2 DEF Reservation
<1>4. [y EXCEPT !.taken = t]
        = [phase |-> y.phase, at |-> y.at, asked |-> y.asked, taken |-> t]
  BY <1>3 DEF Reservation
<1>5. QED BY <1>2, <1>4

(* The reservation with one window more that counted it.                   *)
LEMMA OneCounted ==
  ASSUME TypeInv, NEW c \in Callers, NEW w \in LongKinds, NEW r,
         r = [phase |-> res[c].phase, at |-> res[c].at,
              asked |-> res[c].asked + 1, taken |-> res[c].taken \cup {w}]
  PROVE  /\ r \in Reservation
         /\ [res EXCEPT ![c].asked = @ + 1, ![c].taken = @ \cup {w}]
              = [res EXCEPT ![c] = r]
<1>1. res[c] \in Reservation
  BY DEF TypeInv
<1>2. r \in Reservation
  BY <1>1 DEF Reservation
<1>3. [res[c] EXCEPT !.asked = @ + 1, !.taken = @ \cup {w}] = r
  <2>1. res[c].asked + 1 \in Nat /\ res[c].taken \cup {w} \in SUBSET LongKinds
    BY <1>1 DEF Reservation
  <2>2. [res[c] EXCEPT !.asked = res[c].asked + 1, !.taken = res[c].taken \cup {w}] = r
    BY <1>1, <2>1, TwoFields
  <2>3. QED BY <2>2
<1>4. QED BY <1>2, <1>3

(* The reservation in another phase, with less taken.                      *)
LEMMA OneInPhase ==
  ASSUME TypeInv, NEW c \in Callers, NEW r,
         NEW f \in {"none", "asking", "refused", "returning"},
         r = [phase |-> f, at |-> res[c].at,
              asked |-> res[c].asked, taken |-> res[c].taken]
  PROVE  r \in Reservation /\ [res[c] EXCEPT !.phase = f] = r
<1>1. res[c] \in Reservation
  BY DEF TypeInv
<1>2. QED BY <1>1 DEF Reservation

(* The reservation with one window less to give back.                      *)
LEMMA OneReturned ==
  ASSUME TypeInv, NEW c \in Callers, NEW w, NEW r,
         r = [phase |-> res[c].phase, at |-> res[c].at,
              asked |-> res[c].asked, taken |-> res[c].taken \ {w}]
  PROVE  r \in Reservation /\ [res[c] EXCEPT !.taken = @ \ {w}] = r
<1>1. res[c] \in Reservation
  BY DEF TypeInv
<1>2. QED BY <1>1 DEF Reservation

-----------------------------------------------------------------------------
(* The store.                                                              *)

(* TryConsumeCounter: past a window, counted by it, or refused by it.      *)
LEMMA AskKeeps ==
  ASSUME QuotaInv, NEW c \in Callers, NEW ok \in BOOLEAN, Ask(c, ok)
  PROVE  QuotaInv'
<1> DEFINE w == Longs[res[c].asked + 1]
           p == Period(w, res[c].at)
<1>1. /\ res[c] \in Reservation /\ res[c].asked \in Nat
      /\ res[c].asked + 1 \in DOMAIN Longs
      /\ w \in LongKinds /\ p \in Periods
      /\ Limit[w] \in Nat
  <2>1. res[c] \in Reservation /\ res[c].asked \in Nat /\ res[c].at \in Times \cup {0}
    BY DEF QuotaInv, TypeInv, Reservation
  <2>2. res[c].asked + 1 \in DOMAIN Longs
    BY <2>1, QuotaAssumption DEF Ask, Asking, QuotaAssumption
  <2>3. w \in LongKinds
    BY <2>2 DEF LongKinds
  <2>4. Limit[w] \in Nat
    BY <2>3, QuotaAssumption DEF QuotaAssumption, Kinds
  <2>5. QED BY <2>1, <2>2, <2>3, <2>4, PeriodType
<1>2. /\ UNCHANGED <<clock, spent>> /\ res[c].phase = "asking"
      /\ blind' \in BOOLEAN /\ (~blind' => ~blind /\ ok)
  BY DEF Ask, Asking, Works, QuotaInv, TypeInv
<1>3. CASE /\ ok = ~Limited(w) /\ count' = count
           /\ res' = [res EXCEPT ![c].asked = @ + 1]
  <2>1. SUFFICES ASSUME NEW r,
                        r = [phase |-> res[c].phase, at |-> res[c].at,
                             asked |-> res[c].asked + 1, taken |-> res[c].taken]
                 PROVE  QuotaInv'
    OBVIOUS
  <2>2. r \in Reservation /\ res' = [res EXCEPT ![c] = r]
    BY <1>3, <2>1, OneFurther DEF QuotaInv
  <2>3. ASSUME ~blind', NEW i \in DOMAIN Longs, i <= r.asked, Limited(Longs[i])
        PROVE  Longs[i] \in r.taken
    <3>1. ~Limited(w) /\ ~blind
      BY <1>2, <1>3, <2>3
    <3>2. i \in Nat /\ i # res[c].asked + 1
      BY <2>3, <3>1, QuotaAssumption DEF QuotaAssumption
    <3>3. i <= res[c].asked
      BY <1>1, <2>1, <2>3, <3>2
    <3>4. QED BY <1>2, <2>1, <2>3, <3>1, <3>3 DEF QuotaInv, AskedIsTaken
  <2>4. res' \in [Callers -> Reservation] /\ AskedIsTaken'
    BY <1>2, <2>2, <2>3, OneKeeps
  <2>5. Bounded' /\ Covered'
    BY <1>2, <1>3, <2>1, <2>2, ShrinkKeeps
  <2>6. QED BY <1>2, <1>3, <2>4, <2>5 DEF QuotaInv, TypeInv
<1>4. CASE /\ ok /\ Limited(w) /\ count[w][p] < Limit[w]
           /\ res' = [res EXCEPT ![c].asked = @ + 1, ![c].taken = @ \cup {w}]
           /\ count' = [count EXCEPT ![w][p] = @ + 1]
  <2>1. SUFFICES ASSUME NEW r,
                        r = [phase |-> res[c].phase, at |-> res[c].at,
                             asked |-> res[c].asked + 1,
                             taken |-> res[c].taken \cup {w}]
                 PROVE  QuotaInv'
    OBVIOUS
  <2>2. r \in Reservation /\ res' = [res EXCEPT ![c] = r]
    BY <1>1, <1>4, <2>1, OneCounted DEF QuotaInv
  <2>3. ASSUME ~blind', NEW i \in DOMAIN Longs, i <= r.asked, Limited(Longs[i])
        PROVE  Longs[i] \in r.taken
    <3>1. CASE i = res[c].asked + 1
      BY <2>1, <3>1
    <3>2. CASE i # res[c].asked + 1
      <4>1. i \in Nat /\ i <= res[c].asked
        BY <1>1, <2>1, <2>3, <3>2, QuotaAssumption DEF QuotaAssumption
      <4>2. QED BY <1>2, <2>1, <2>3, <4>1 DEF QuotaInv, AskedIsTaken
    <3>3. QED BY <3>1, <3>2
  <2>4. res' \in [Callers -> Reservation] /\ AskedIsTaken'
    BY <1>2, <2>2, <2>3, OneKeeps
  <2>5. /\ count' \in [LongKinds -> [Periods -> Nat]]
        /\ count'[w][p] = count[w][p] + 1
        /\ \A k \in LongKinds, q \in Periods :
             k # w \/ q # p => count'[k][q] = count[k][q]
    BY <1>1, <1>4 DEF QuotaInv, TypeInv
  <2>6. Bounded'
    <3>1. SUFFICES ASSUME NEW k \in LongKinds, NEW q \in Periods, Limited(k)
                   PROVE  count'[k][q] <= Limit[k]
      BY DEF Bounded, Limited
    <3>2. CASE k = w /\ q = p
      BY <1>1, <1>4, <2>5, <3>2 DEF QuotaInv, TypeInv
    <3>3. CASE k # w \/ q # p
      BY <2>5, <3>1, <3>3 DEF QuotaInv, Bounded
    <3>4. QED BY <3>2, <3>3
  <2>7. Covered'
    <3>1. SUFFICES ASSUME ~blind', NEW k \in LongKinds, NEW q \in Periods, Limited(k)
                   PROVE  spent[k][q] + Cardinality(Takers(k, q)') <= count'[k][q]
      BY <1>2 DEF Covered, Limited
    <3>2. spent[k][q] + Cardinality(Takers(k, q)) <= count[k][q]
      BY <1>2, <3>1 DEF QuotaInv, Covered
    <3>3. spent[k][q] \in Nat /\ count[k][q] \in Nat
      BY DEF QuotaInv, TypeInv
    <3>4. CASE k = w /\ q = p
      <4>1. Takers(k, q)' \subseteq Takers(k, q) \cup {c}
        BY <2>1, <2>2 DEF Takers, QuotaInv, TypeInv, Period
      <4>2. /\ Cardinality(Takers(k, q)) \in Nat
            /\ Cardinality(Takers(k, q)') \in Nat
            /\ Cardinality(Takers(k, q)') <= Cardinality(Takers(k, q)) + 1
        BY <4>1, TakersAreFinite, Joining
      <4>3. QED BY <2>5, <3>2, <3>3, <3>4, <4>2
    <3>5. CASE k # w \/ q # p
      <4>1. Takers(k, q)' = Takers(k, q)
        BY <2>1, <2>2, <3>5 DEF Takers, QuotaInv, TypeInv, Period
      <4>2. QED BY <2>5, <3>2, <3>5, <4>1
    <3>6. QED BY <3>4, <3>5
  <2>8. QED BY <1>2, <2>4, <2>5, <2>6, <2>7 DEF QuotaInv, TypeInv
<1>5. CASE /\ ok /\ Limited(w) /\ count' = count
           /\ res' = [res EXCEPT ![c].phase = "refused"]
  <2>1. SUFFICES ASSUME NEW r,
                        r = [phase |-> "refused", at |-> res[c].at,
                             asked |-> res[c].asked, taken |-> res[c].taken]
                 PROVE  QuotaInv'
    OBVIOUS
  <2>2. r \in Reservation /\ res' = [res EXCEPT ![c] = r]
    BY <1>5, <2>1, OneInPhase DEF QuotaInv
  <2>3. res' \in [Callers -> Reservation] /\ AskedIsTaken'
    BY <1>2, <2>1, <2>2, OneKeeps
  <2>4. Bounded' /\ Covered'
    BY <1>2, <1>5, <2>1, <2>2, ShrinkKeeps
  <2>5. QED BY <1>2, <1>5, <2>3, <2>4 DEF QuotaInv, TypeInv
<1>6. QED BY <1>3, <1>4, <1>5 DEF Ask

(* ReleaseCounter: one unit less in the counter, one taker less.           *)
LEMMA ReturnLongKeeps ==
  ASSUME QuotaInv, NEW c \in Callers, NEW ok \in BOOLEAN, ReturnLong(c, ok)
  PROVE  QuotaInv'
<1>1. PICK j \in DOMAIN Longs :
        /\ Longs[j] \in res[c].taken
        /\ count' = IF ok THEN Returned(Longs[j], res[c].at) ELSE count
        /\ res' = IF res[c].taken = {Longs[j]}
                  THEN [res EXCEPT ![c] = NoReservation]
                  ELSE [res EXCEPT ![c].taken = @ \ {Longs[j]}]
  BY DEF ReturnLong
<1>2. /\ UNCHANGED <<clock, spent>> /\ res[c].phase = "returning"
      /\ blind' \in BOOLEAN /\ (~blind' => ~blind /\ ok)
  BY DEF ReturnLong, Works, QuotaInv, TypeInv
<1>3. SUFFICES ASSUME NEW w \in LongKinds, w = Longs[j],
                      NEW p \in Periods, p = Period(w, res[c].at)
               PROVE  QuotaInv'
  <2>1. Longs[j] \in LongKinds
    BY DEF LongKinds
  <2>2. res[c].at \in Times \cup {0}
    BY DEF QuotaInv, TypeInv, Reservation
  <2>3. QED BY <2>1, <2>2, PeriodType
<1>4. \E r \in Reservation :
        /\ res' = [res EXCEPT ![c] = r]
        /\ r.phase # "asking"
        /\ r.taken = res[c].taken \ {w}
        /\ r.taken # {} => r.at = res[c].at
  <2>1. CASE res[c].taken = {w}
    <3>1. res' = [res EXCEPT ![c] = NoReservation]
      BY <1>1, <1>3, <2>1
    <3>2. NoReservation \in Reservation /\ NoReservation.phase # "asking"
          /\ NoReservation.taken = {}
      BY DEF NoReservation, Reservation
    <3>3. QED BY <2>1, <3>1, <3>2
  <2>2. CASE res[c].taken # {w}
    <3>1. SUFFICES ASSUME NEW r,
                          r = [phase |-> res[c].phase, at |-> res[c].at,
                               asked |-> res[c].asked, taken |-> res[c].taken \ {w}]
                   PROVE  \E q \in Reservation :
                            /\ res' = [res EXCEPT ![c] = q]
                            /\ q.phase # "asking"
                            /\ q.taken = res[c].taken \ {w}
                            /\ q.taken # {} => q.at = res[c].at
      OBVIOUS
    <3>2. r \in Reservation /\ [res[c] EXCEPT !.taken = res[c].taken \ {w}] = r
      BY <3>1, OneReturned DEF QuotaInv
    <3>3. res' = [res EXCEPT ![c] = r]
      <4>1. res' = [res EXCEPT ![c].taken = @ \ {w}]
        BY <1>1, <1>3, <2>2
      <4>2. QED BY <3>2, <4>1
    <3>4. r.phase # "asking" /\ r.taken = res[c].taken \ {w} /\ r.at = res[c].at
      BY <1>2, <3>1
    <3>5. QED BY <3>2, <3>3, <3>4
  <2>3. QED BY <2>1, <2>2
<1>5. PICK r \in Reservation :
        /\ res' = [res EXCEPT ![c] = r]
        /\ r.phase # "asking"
        /\ r.taken = res[c].taken \ {w}
        /\ r.taken # {} => r.at = res[c].at
  BY <1>4
<1>6. res' \in [Callers -> Reservation] /\ AskedIsTaken'
  BY <1>2, <1>5, OneKeeps
<1>7. /\ count' \in [LongKinds -> [Periods -> Nat]]
      /\ \A k \in LongKinds, q \in Periods :
           /\ count'[k][q] <= count[k][q]
           /\ count'[k][q] + 1 >= count[k][q]
           /\ k # w \/ q # p => count'[k][q] = count[k][q]
  BY <1>1, <1>3 DEF Returned, QuotaInv, TypeInv
<1>8. Bounded'
  <2>1. SUFFICES ASSUME NEW k \in LongKinds, NEW q \in Periods, Limited(k)
                 PROVE  count'[k][q] <= Limit[k]
    BY DEF Bounded, Limited
  <2>2. Limit[k] \in Nat /\ count[k][q] \in Nat /\ count'[k][q] \in Nat
    BY <1>7, QuotaAssumption DEF QuotaInv, TypeInv, QuotaAssumption, Kinds
  <2>3. QED BY <1>7, <2>1, <2>2 DEF QuotaInv, Bounded
<1>9. Covered'
  <2>1. SUFFICES ASSUME ~blind', NEW k \in LongKinds, NEW q \in Periods, Limited(k)
                 PROVE  spent[k][q] + Cardinality(Takers(k, q)') <= count'[k][q]
    BY <1>2 DEF Covered, Limited
  <2>2. spent[k][q] + Cardinality(Takers(k, q)) <= count[k][q]
    BY <1>2, <2>1 DEF QuotaInv, Covered
  <2>3. spent[k][q] \in Nat /\ count[k][q] \in Nat /\ count'[k][q] \in Nat
    BY <1>7 DEF QuotaInv, TypeInv
  <2>4. CASE k = w /\ q = p
    <3>1. {c} \subseteq Takers(k, q)
      BY <1>1, <1>3, <2>4 DEF Takers
    <3>2. Takers(k, q)' \subseteq Takers(k, q) \ {c}
      BY <1>5, <2>4 DEF Takers, QuotaInv, TypeInv, Period
    <3>3. /\ Cardinality(Takers(k, q)) \in Nat
          /\ Cardinality(Takers(k, q)') \in Nat
          /\ Cardinality({c}) + Cardinality(Takers(k, q)')
               <= Cardinality(Takers(k, q))
      BY <3>1, <3>2, TakersAreFinite, Leaving
    <3>4. Cardinality({c}) = 1
      BY FS_Singleton
    <3>5. QED BY <1>7, <2>2, <2>3, <3>3, <3>4
  <2>5. CASE k # w \/ q # p
    <3>1. Takers(k, q)' \subseteq Takers(k, q) \ {}
      BY <1>5 DEF Takers, QuotaInv, TypeInv, Period
    <3>2. /\ Cardinality(Takers(k, q)) \in Nat
          /\ Cardinality(Takers(k, q)') \in Nat
          /\ Cardinality({}) + Cardinality(Takers(k, q)')
               <= Cardinality(Takers(k, q))
      BY <3>1, TakersAreFinite, Leaving, {} \subseteq Takers(k, q)
    <3>3. QED BY <1>7, <2>2, <2>3, <2>5, <3>2, FS_EmptySet
  <2>6. QED BY <2>4, <2>5
<1>10. QED BY <1>2, <1>6, <1>7, <1>8, <1>9 DEF QuotaInv, TypeInv

-----------------------------------------------------------------------------
(* The whole system.                                                       *)

(* Nothing is counted and nobody has asked.                                *)
LEMMA Initially == Init => QuotaInv
<1>1. SUFFICES ASSUME Init PROVE QuotaInv
  OBVIOUS
<1>2. TypeInv
  <2>1. NoReservation \in Reservation
    BY DEF NoReservation, Reservation
  <2>2. res \in [Callers -> Reservation]
    BY <1>1, <2>1 DEF Init
  <2>3. count \in [LongKinds -> [Periods -> Nat]] /\ spent = count
    BY <1>1 DEF Init
  <2>4. clock = 1 /\ blind = FALSE /\ Horizon \in Nat \ {0}
    BY <1>1, QuotaAssumption DEF Init, QuotaAssumption
  <2>5. clock \in Times
    BY <2>4 DEF Times
  <2>6. QED BY <2>2, <2>3, <2>4, <2>5 DEF TypeInv
<1>3. \A w \in LongKinds, p \in Periods :
        Takers(w, p) = {} /\ count[w][p] = 0 /\ spent[w][p] = 0
  BY <1>1 DEF Init, Takers, NoReservation
<1>4. Covered
  BY <1>3, FS_EmptySet DEF Covered
<1>5. AskedIsTaken /\ Bounded
  BY <1>1, <1>3, QuotaAssumption DEF Init, AskedIsTaken, NoReservation, Bounded,
     Limited, QuotaAssumption, Kinds
<1>6. QED BY <1>2, <1>4, <1>5 DEF QuotaInv

(* The steps that leave the counters alone, and the two that do not.       *)
LEMMA EveryStep == QuotaInv /\ [Next]_vars => QuotaInv'
<1>1. SUFFICES ASSUME QuotaInv, [Next]_vars PROVE QuotaInv'
  OBVIOUS
<1>2. NoReservation \in Reservation /\ NoReservation.phase = "none"
      /\ NoReservation.taken = {}
  BY DEF NoReservation, Reservation
<1>3. ASSUME NEW c \in Callers, RefuseShort(c) PROVE QuotaInv'
  BY <1>1, <1>3 DEF RefuseShort, QuotaInv, TypeInv, AskedIsTaken, Bounded,
     Covered, Takers, Limited
<1>4. ASSUME NEW c \in Callers, TakeShort(c) PROVE QuotaInv'
  <2>1. SUFFICES ASSUME NEW r, r = [phase |-> "asking", at |-> clock,
                                    asked |-> 0, taken |-> {}]
                 PROVE  QuotaInv'
    OBVIOUS
  <2>2. r \in Reservation /\ res' = [res EXCEPT ![c] = r]
        /\ UNCHANGED <<clock, count, spent, blind>>
    BY <1>1, <1>4, <2>1 DEF TakeShort, Reservation, QuotaInv, TypeInv
  <2>3. \A i \in DOMAIN Longs : ~(i <= r.asked)
    BY <2>1, QuotaAssumption DEF QuotaAssumption
  <2>4. res' \in [Callers -> Reservation] /\ AskedIsTaken'
    BY <1>1, <2>2, <2>3, OneKeeps
  <2>5. Bounded' /\ Covered'
    BY <1>1, <2>1, <2>2, ShrinkKeeps
  <2>6. QED BY <1>1, <2>2, <2>4, <2>5 DEF QuotaInv, TypeInv
<1>5. ASSUME NEW c \in Callers, GiveUp(c) PROVE QuotaInv'
  <2>1. res' = [res EXCEPT ![c] = NoReservation]
        /\ UNCHANGED <<clock, count, spent, blind>>
    BY <1>5 DEF GiveUp
  <2>2. res' \in [Callers -> Reservation] /\ AskedIsTaken'
    BY <1>1, <1>2, <2>1, OneKeeps
  <2>3. Bounded' /\ Covered'
    BY <1>1, <1>2, <2>1, ShrinkKeeps
  <2>4. QED BY <1>1, <2>1, <2>2, <2>3 DEF QuotaInv, TypeInv
<1>6. ASSUME NEW c \in Callers, Commit(c) PROVE QuotaInv'
  <2>1. res' = [d \in Callers |-> IF d \in {c} THEN NoReservation ELSE res[d]]
    BY <1>1, <1>6 DEF Commit, QuotaInv, TypeInv
  <2>2. Held(c) /\ Reach({c}) /\ UNCHANGED <<clock, count, blind>>
    BY <1>6 DEF Commit
  <2>3. QED BY <1>1, <2>1, <2>2, ReachKeeps
<1>7. ASSUME NEW c \in Callers, Release(c) PROVE QuotaInv'
  <2>1. UNCHANGED <<clock, count, spent, blind>>
    BY <1>7 DEF Release
  <2>2. \E r \in Reservation :
          /\ res' = [res EXCEPT ![c] = r] /\ r.phase # "asking"
          /\ r.taken = {} \/ (r.taken = res[c].taken /\ r.at = res[c].at)
    <3>1. CASE res[c].taken = {}
      BY <1>2, <1>7, <3>1 DEF Release
    <3>2. CASE res[c].taken # {}
      <4>1. SUFFICES ASSUME NEW r,
                            r = [phase |-> "returning", at |-> res[c].at,
                                 asked |-> res[c].asked, taken |-> res[c].taken]
                     PROVE  \E q \in Reservation :
                              /\ res' = [res EXCEPT ![c] = q] /\ q.phase # "asking"
                              /\ \/ q.taken = {}
                                 \/ q.taken = res[c].taken /\ q.at = res[c].at
        OBVIOUS
      <4>2. r \in Reservation /\ [res[c] EXCEPT !.phase = "returning"] = r
        BY <1>1, <4>1, OneInPhase DEF QuotaInv
      <4>3. res' = [res EXCEPT ![c] = r]
        BY <1>7, <3>2, <4>2 DEF Release
      <4>4. QED BY <4>1, <4>2, <4>3
    <3>3. QED BY <3>1, <3>2
  <2>3. PICK r \in Reservation :
          /\ res' = [res EXCEPT ![c] = r] /\ r.phase # "asking"
          /\ r.taken = {} \/ (r.taken = res[c].taken /\ r.at = res[c].at)
    BY <2>2
  <2>4. res' \in [Callers -> Reservation] /\ AskedIsTaken'
    BY <1>1, <2>1, <2>3, OneKeeps
  <2>5. Bounded' /\ Covered'
    BY <1>1, <2>1, <2>3, ShrinkKeeps
  <2>6. QED BY <1>1, <2>1, <2>4, <2>5 DEF QuotaInv, TypeInv
<1>8. ASSUME Crash PROVE QuotaInv'
  <2>1. PICK S \in SUBSET {c \in Callers : Held(c)} : Reach(S)
    BY <1>8 DEF Crash
  <2>2. res' = [c \in Callers |-> IF c \in Callers THEN NoReservation ELSE res[c]]
        /\ UNCHANGED <<clock, count, blind>>
    BY <1>8 DEF Crash
  <2>3. QED BY <1>1, <2>1, <2>2, ReachKeeps
<1>9. CASE Tick
  <2>1. clock' \in Times /\ UNCHANGED <<count, res, spent, blind>>
    BY <1>1, <1>9, QuotaAssumption DEF Tick, QuotaInv, TypeInv, Times, QuotaAssumption
  <2>2. QED BY <1>1, <2>1 DEF QuotaInv, TypeInv, AskedIsTaken, Bounded, Covered,
               Takers, Limited, Period
<1>10. CASE UNCHANGED vars
  BY <1>1, <1>10 DEF vars, QuotaInv, TypeInv, AskedIsTaken, Bounded, Covered,
     Takers, Limited, Period
<1>11. QED
  BY <1>1, <1>3, <1>4, <1>5, <1>6, <1>7, <1>8, <1>9, <1>10, AskKeeps,
     ReturnLongKeeps DEF Next

(* The deliveries that hold a reservation are among those that took one.   *)
LEMMA InvGivesLongKept == QuotaInv => LongKept
<1>1. SUFFICES ASSUME QuotaInv, ~blind, NEW w \in LongKinds, NEW p \in Periods,
                      Limited(w)
               PROVE  spent[w][p] + Cardinality({c \in Holders :
                        Period(w, res[c].at) = p}) <= Limit[w]
  BY DEF LongKept, Quantify
<1>2. {c \in Holders : Period(w, res[c].at) = p} \subseteq Takers(w, p) \ {}
  <2>1. \A c \in Holders : w \in res[c].taken
    BY <1>1 DEF Holders, Held, QuotaInv, AskedIsTaken, LongKinds
  <2>2. QED BY <2>1 DEF Takers, Holders
<1>3. /\ Cardinality(Takers(w, p)) \in Nat
      /\ Cardinality({c \in Holders : Period(w, res[c].at) = p}) \in Nat
      /\ Cardinality({}) + Cardinality({c \in Holders : Period(w, res[c].at) = p})
           <= Cardinality(Takers(w, p))
  BY <1>2, TakersAreFinite, Leaving, {} \subseteq Takers(w, p)
<1>4. spent[w][p] + Cardinality(Takers(w, p)) <= count[w][p]
      /\ count[w][p] <= Limit[w]
  BY <1>1 DEF QuotaInv, Covered, Bounded
<1>5. spent[w][p] \in Nat /\ count[w][p] \in Nat /\ Limit[w] \in Nat
  BY <1>1, QuotaAssumption DEF QuotaInv, TypeInv, QuotaAssumption, Kinds
<1>6. QED BY <1>3, <1>4, <1>5, FS_EmptySet

(* No day and no month is overspent, however many deliveries ask at once,  *)
(* in whichever order they are settled and whenever the process is         *)
(* restarted (TryConsumeCounter, ReleaseCounter).                          *)
THEOREM NeverOverspent == Spec => []LongKept
<1>1. Spec => []QuotaInv
  BY Initially, EveryStep, PTL DEF Spec
<1>2. QED BY <1>1, InvGivesLongKept, PTL

-----------------------------------------------------------------------------
(* The counter that is asked last is exact.                                *)

(* No long window is listed twice.                                         *)
LongsDiffer ==
  /\ Longs # <<>>
  /\ \A i, j \in DOMAIN Longs : Longs[i] = Longs[j] => i = j

Last == Longs[Len(Longs)]

(* Who has taken a unit of the last window is past all of them, or is      *)
(* giving it back.                                                         *)
TakenLast(c) ==
  Last \in res[c].taken =>
    \/ res[c].phase = "returning"
    \/ res[c].phase = "asking" /\ res[c].asked = Len(Longs)

Exact(p) == count[Last][p] = spent[Last][p] + Cardinality(Takers(Last, p))

LastInv ==
  /\ mishaps \in Nat
  /\ mishaps = 0 => /\ ~blind
                    /\ \A c \in Callers : TakenLast(c)
                    /\ \A p \in Periods : Exact(p)

(* The last window is one of the long ones.                                *)
LEMMA LastIsLong ==
  ASSUME LongsDiffer
  PROVE  /\ Len(Longs) \in DOMAIN Longs /\ Len(Longs) \in Nat /\ Last \in LongKinds
         /\ DOMAIN Longs = 1..Len(Longs)
<1>1. Len(Longs) \in Nat /\ DOMAIN Longs = 1..Len(Longs) /\ Len(Longs) # 0
  BY QuotaAssumption DEF LongsDiffer
<1>2. Len(Longs) \in DOMAIN Longs
  BY <1>1
<1>3. QED BY <1>1, <1>2 DEF Last, LongKinds

(* Nothing is counted and nothing is taken at first.                       *)
LEMMA LastInit == ASSUME LongsDiffer PROVE Init => LastInv
<1> SUFFICES ASSUME Init PROVE LastInv
  OBVIOUS
<1>1. \A p \in Periods : Takers(Last, p) = {} /\ count[Last][p] = 0 /\ spent[Last][p] = 0
  BY LastIsLong DEF Init, Takers, NoReservation
<1>2. \A p \in Periods : Exact(p)
  BY <1>1, FS_EmptySet DEF Exact
<1>3. QED BY <1>2 DEF Init, LastInv, TakenLast, NoReservation

(* A step after which the last counter and its takers are what they were.  *)
LEMMA SameTakers ==
  ASSUME \A p \in Periods : Exact(p), UNCHANGED <<count[Last], spent[Last]>>,
         \A c \in Callers :
           /\ Last \in res'[c].taken <=> Last \in res[c].taken
           /\ Last \in res[c].taken => res'[c].at = res[c].at
  PROVE  \A p \in Periods : Exact(p)'
<1>1. ASSUME NEW p \in Periods PROVE Takers(Last, p)' = Takers(Last, p)
  BY DEF Takers, Period, Last
<1>2. Last' = Last
  BY DEF Last
<1>3. QED BY <1>1, <1>2 DEF Exact

(* One taker more, and one unit more.                                      *)
LEMMA OneTakes ==
  ASSUME QuotaInv, LongsDiffer, \A p \in Periods : Exact(p), NEW c \in Callers,
         UNCHANGED spent, Last \notin res[c].taken, Last \in res'[c].taken,
         \A d \in Callers \ {c} : res'[d] = res[d],
         \A p \in Periods :
           count'[Last][p] = count[Last][p] + IF Period(Last, res'[c].at) = p THEN 1 ELSE 0
  PROVE  \A p \in Periods : Exact(p)'
<1> SUFFICES ASSUME NEW p \in Periods PROVE Exact(p)'
  OBVIOUS
<1>1. /\ IsFiniteSet(Takers(Last, p)) /\ Cardinality(Takers(Last, p)) \in Nat
      /\ count[Last][p] \in Nat /\ spent[Last][p] \in Nat /\ c \notin Takers(Last, p)
  <2>1. IsFiniteSet(Takers(Last, p)) /\ Cardinality(Takers(Last, p)) \in Nat
    BY TakersAreFinite, FS_CardinalityType
  <2>2. count[Last][p] \in Nat /\ spent[Last][p] \in Nat
    BY LastIsLong DEF QuotaInv, TypeInv
  <2>3. QED BY <2>1, <2>2 DEF Takers
<1>2. CASE Period(Last, res'[c].at) = p
  <2>1. Takers(Last, p)' = Takers(Last, p) \cup {c}
    BY <1>2 DEF Takers, Period, Last
  <2>2. Cardinality(Takers(Last, p) \cup {c}) = Cardinality(Takers(Last, p)) + 1
    BY <1>1, FS_AddElement
  <2>3. /\ count'[Last][p] = count[Last][p] + 1
        /\ count[Last][p] = spent[Last][p] + Cardinality(Takers(Last, p))
    BY <1>2 DEF Exact
  <2>4. Cardinality(Takers(Last, p)') = Cardinality(Takers(Last, p)) + 1
    BY <2>1, <2>2
  <2>5. count'[Last][p] = spent[Last][p] + Cardinality(Takers(Last, p)')
    BY <1>1, <2>3, <2>4
  <2>6. QED BY <2>5 DEF Exact, Last
<1>3. CASE Period(Last, res'[c].at) # p
  <2>1. Takers(Last, p)' = Takers(Last, p)
    BY <1>1, <1>3 DEF Takers, Period, Last
  <2>2. QED BY <1>1, <1>3, <2>1 DEF Exact, Last
<1>4. QED BY <1>2, <1>3

(* One taker less: its unit was spent, or it went back.                    *)
LEMMA OneLeaves ==
  ASSUME QuotaInv, LongsDiffer, \A p \in Periods : Exact(p), NEW c \in Callers,
         Last \in res[c].taken, Last \notin res'[c].taken,
         \A d \in Callers \ {c} : res'[d] = res[d],
         \A p \in Periods :
           IF Period(Last, res[c].at) = p
           THEN \/ count'[Last][p] = count[Last][p] /\ spent'[Last][p] = spent[Last][p] + 1
                \/ /\ count'[Last][p] = IF count[Last][p] > 0 THEN count[Last][p] - 1
                                                              ELSE count[Last][p]
                   /\ spent'[Last][p] = spent[Last][p]
           ELSE count'[Last][p] = count[Last][p] /\ spent'[Last][p] = spent[Last][p]
  PROVE  \A p \in Periods : Exact(p)'
<1> SUFFICES ASSUME NEW p \in Periods PROVE Exact(p)'
  OBVIOUS
<1>1. /\ IsFiniteSet(Takers(Last, p)) /\ Cardinality(Takers(Last, p)) \in Nat
      /\ count[Last][p] \in Nat /\ spent[Last][p] \in Nat
  BY TakersAreFinite, FS_CardinalityType, LastIsLong DEF QuotaInv, TypeInv
<1>2. CASE Period(Last, res[c].at) = p
  <2>1. c \in Takers(Last, p) /\ Takers(Last, p)' = Takers(Last, p) \ {c}
    BY <1>2 DEF Takers, Period, Last
  <2>2. Cardinality(Takers(Last, p) \ {c}) = Cardinality(Takers(Last, p)) - 1
    BY <1>1, <2>1, FS_RemoveElement
  <2>3. Cardinality(Takers(Last, p) \ {c}) \in Nat
    BY <1>1, FS_RemoveElement, FS_CardinalityType
  <2>4. count[Last][p] > 0
    BY <1>1, <2>2, <2>3 DEF Exact
  <2>5. PICK n \in Nat : n = Cardinality(Takers(Last, p))
    BY <1>1
  <2>6. Cardinality(Takers(Last, p)') = n - 1
    BY <2>1, <2>2, <2>5
  <2>7. count[Last][p] = spent[Last][p] + n
    BY <2>5 DEF Exact
  <2>8. \/ count'[Last][p] = count[Last][p] /\ spent'[Last][p] = spent[Last][p] + 1
        \/ count'[Last][p] = count[Last][p] - 1 /\ spent'[Last][p] = spent[Last][p]
    BY <1>2, <2>4
  <2>9. count'[Last][p] = spent'[Last][p] + Cardinality(Takers(Last, p)')
    BY <1>1, <2>6, <2>7, <2>8
  <2>10. QED BY <2>9 DEF Exact, Last
<1>3. CASE Period(Last, res[c].at) # p
  <2>1. Takers(Last, p)' = Takers(Last, p)
    BY <1>3 DEF Takers, Period, Last
  <2>2. QED BY <1>1, <1>3, <2>1 DEF Exact, Last
<1>4. QED BY <1>2, <1>3

(* A delivery takes the last window's unit only as it asks it last.        *)
LEMMA LastAsk ==
  ASSUME LongsDiffer, Limited(Last), QuotaInv, LastInv, mishaps = 0,
         NEW c \in Callers, Ask(c, TRUE)
  PROVE  (\A d \in Callers : TakenLast(d)') /\ (\A p \in Periods : Exact(p)')
<1> DEFINE w == Longs[res[c].asked + 1]
<1>0. /\ res \in [Callers -> Reservation] /\ res[c] \in Reservation
      /\ res[c].asked \in Nat /\ res[c].asked < Len(Longs) /\ res[c].phase = "asking"
      /\ res[c].at \in Times \cup {0} /\ res[c].taken \subseteq LongKinds
  BY DEF QuotaInv, TypeInv, Ask, Asking, Reservation
<1>1. Last \notin res[c].taken
  BY <1>0, LastIsLong DEF LastInv, TakenLast
<1>2. res[c].asked + 1 \in DOMAIN Longs /\ w \in LongKinds
  BY <1>0, LastIsLong DEF LongKinds
<1>3. w = Last => res[c].asked + 1 = Len(Longs)
  BY <1>2, LastIsLong DEF LongsDiffer, Last
<1>4. UNCHANGED spent
  BY DEF Ask
<1>5. CASE /\ ~Limited(w) /\ UNCHANGED count
           /\ res' = [res EXCEPT ![c].asked = @ + 1]
  <2>1. res'[c].taken = res[c].taken /\ \A d \in Callers \ {c} : res'[d] = res[d]
    BY <1>0, <1>5 DEF Reservation
  <2>2. \A p \in Periods : Exact(p)'
    BY <1>1, <1>4, <1>5, <2>1, SameTakers DEF LastInv
  <2>3. QED BY <1>1, <2>1, <2>2 DEF LastInv, TakenLast, Last
<1>6. CASE /\ Limited(w)
           /\ res' = [res EXCEPT ![c].asked = @ + 1, ![c].taken = @ \cup {w}]
           /\ count' = [count EXCEPT ![w][Period(w, res[c].at)] = @ + 1]
  <2>1. PICK r : r = [phase |-> res[c].phase, at |-> res[c].at,
                      asked |-> res[c].asked + 1, taken |-> res[c].taken \cup {w}]
    OBVIOUS
  <2>2. res' = [res EXCEPT ![c] = r]
    BY <1>2, <1>6, <2>1, OneCounted DEF QuotaInv
  <2>3. /\ res'[c] = r /\ \A d \in Callers \ {c} : res'[d] = res[d]
    BY <1>0, <2>2
  <2>4. /\ res'[c].phase = "asking" /\ res'[c].at = res[c].at
        /\ res'[c].asked = res[c].asked + 1 /\ res'[c].taken = res[c].taken \cup {w}
    BY <1>0, <2>1, <2>3
  <2>5. \A d \in Callers : TakenLast(d)'
    BY <1>1, <1>3, <2>3, <2>4 DEF LastInv, TakenLast, Last
  <2>6. CASE w = Last
    <3>1. Period(Last, res[c].at) \in Periods
      BY <1>0, LastIsLong, PeriodType
    <3>2. \A p \in Periods :
            count'[Last][p] = count[Last][p]
                                + IF Period(Last, res'[c].at) = p THEN 1 ELSE 0
      BY <1>6, <2>4, <2>6, <3>1, LastIsLong DEF QuotaInv, TypeInv, Period
    <3>3. QED BY <1>1, <1>4, <2>3, <2>4, <2>5, <2>6, <3>2, OneTakes DEF LastInv
  <2>7. CASE w # Last
    <3>1. UNCHANGED count[Last]
      BY <1>2, <1>6, <2>7, LastIsLong DEF QuotaInv, TypeInv
    <3>2. UNCHANGED <<count[Last], spent[Last]>>
      BY <1>4, <3>1
    <3>3. QED BY <1>1, <2>3, <2>4, <2>5, <2>7, <3>2, SameTakers DEF LastInv
  <2>8. QED BY <2>6, <2>7
<1>7. CASE UNCHANGED count /\ res' = [res EXCEPT ![c].phase = "refused"]
  <2>1. res'[c].taken = res[c].taken /\ \A d \in Callers \ {c} : res'[d] = res[d]
    BY <1>0, <1>7 DEF Reservation
  <2>2. \A p \in Periods : Exact(p)'
    BY <1>1, <1>4, <1>7, <2>1, SameTakers DEF LastInv
  <2>3. QED BY <1>1, <2>1, <2>2 DEF LastInv, TakenLast, Last
<1>8. QED BY <1>5, <1>6, <1>7 DEF Ask

(* A call that reached the peer is spent in its period, and in no other.   *)
LEMMA OneSpent ==
  ASSUME QuotaInv, NEW c \in Callers, Commit(c), NEW w \in LongKinds
  PROVE  \A p \in Periods :
           spent'[w][p] = spent[w][p] + IF Period(w, res[c].at) = p THEN 1 ELSE 0
<1>1. \A p \in Periods :
        spent'[w][p] = spent[w][p] + Cardinality({d \in {c} : Period(w, res[d].at) = p})
  BY DEF Commit, Reach, Quantify
<1>2. ASSUME NEW p \in Periods, Period(w, res[c].at) = p
      PROVE  spent'[w][p] = spent[w][p] + 1
  <2>1. {d \in {c} : Period(w, res[d].at) = p} = {c}
    BY <1>2
  <2>2. Cardinality({c}) = 1
    BY FS_Singleton
  <2>3. QED BY <1>1, <2>1, <2>2
<1>3. ASSUME NEW p \in Periods, Period(w, res[c].at) # p
      PROVE  spent'[w][p] = spent[w][p] + 0
  <2>1. {d \in {c} : Period(w, res[d].at) = p} = {}
    BY <1>3
  <2>2. Cardinality({}) = 0
    BY FS_EmptySet
  <2>3. QED BY <1>1, <2>1, <2>2
<1>4. QED BY <1>2, <1>3

(* A call that reached the peer spends the unit it had taken; one that     *)
(* did not keeps it until it has been given back.                          *)
LEMMA LastSettled ==
  ASSUME LongsDiffer, Limited(Last), QuotaInv, LastInv, mishaps = 0,
         NEW c \in Callers, Commit(c) \/ Release(c)
  PROVE  (\A d \in Callers : TakenLast(d)') /\ (\A p \in Periods : Exact(p)')
<1>0. /\ res \in [Callers -> Reservation] /\ res[c] \in Reservation /\ ~blind
      /\ Held(c)
  BY DEF QuotaInv, TypeInv, LastInv, Commit, Release
<1>1. Last \in res[c].taken
  BY <1>0, LastIsLong DEF QuotaInv, AskedIsTaken, Held, Last
<1>2. CASE Commit(c)
  <2>1. res' = [res EXCEPT ![c] = NoReservation] /\ UNCHANGED count /\ Reach({c})
    BY <1>2 DEF Commit
  <2>2. res'[c].taken = {} /\ \A d \in Callers \ {c} : res'[d] = res[d]
    BY <1>0, <2>1 DEF NoReservation
  <2>3. \A p \in Periods :
          spent'[Last][p] = spent[Last][p] + IF Period(Last, res[c].at) = p THEN 1 ELSE 0
    BY <1>2, LastIsLong, OneSpent
  <2>4. \A p \in Periods : spent[Last][p] \in Nat
    BY LastIsLong DEF QuotaInv, TypeInv
  <2>5. \A p \in Periods :
          IF Period(Last, res[c].at) = p THEN spent'[Last][p] = spent[Last][p] + 1
                                         ELSE spent'[Last][p] = spent[Last][p]
    BY <2>3, <2>4
  <2>6. \A p \in Periods : Exact(p)'
    BY <1>1, <2>1, <2>2, <2>5, OneLeaves DEF LastInv
  <2>7. QED BY <2>2, <2>6 DEF LastInv, TakenLast, Last
<1>3. CASE Release(c)
  <2>1. UNCHANGED <<count, spent>> /\ res' = [res EXCEPT ![c] = [@ EXCEPT !.phase = "returning"]]
    BY <1>1, <1>3 DEF Release
  <2>2. /\ res'[c].taken = res[c].taken /\ res'[c].at = res[c].at
        /\ res'[c].phase = "returning" /\ \A d \in Callers \ {c} : res'[d] = res[d]
    BY <1>0, <2>1 DEF Reservation
  <2>3. \A p \in Periods : Exact(p)'
    BY <2>1, <2>2, SameTakers DEF LastInv
  <2>4. QED BY <2>2, <2>3 DEF LastInv, TakenLast, Last
<1>4. QED BY <1>2, <1>3

(* A unit goes back to the counter and the period it came from.            *)
LEMMA LastReturned ==
  ASSUME LongsDiffer, Limited(Last), QuotaInv, LastInv, mishaps = 0,
         NEW c \in Callers, ReturnLong(c, TRUE)
  PROVE  (\A d \in Callers : TakenLast(d)') /\ (\A p \in Periods : Exact(p)')
<1>0. /\ res \in [Callers -> Reservation] /\ res[c] \in Reservation
      /\ res[c].phase = "returning" /\ res[c].at \in Times \cup {0} /\ UNCHANGED spent
  BY DEF QuotaInv, TypeInv, ReturnLong, Reservation
<1>1. PICK j \in DOMAIN Longs :
        /\ Longs[j] \in res[c].taken
        /\ count' = Returned(Longs[j], res[c].at)
        /\ res' = IF res[c].taken = {Longs[j]}
                  THEN [res EXCEPT ![c] = NoReservation]
                  ELSE [res EXCEPT ![c].taken = @ \ {Longs[j]}]
  BY DEF ReturnLong
<1>2. PICK w \in LongKinds : w = Longs[j]
  BY DEF LongKinds
<1>3. /\ res'[c].taken = res[c].taken \ {w}
      /\ res'[c].taken # {} => res'[c].phase = "returning" /\ res'[c].at = res[c].at
      /\ \A d \in Callers \ {c} : res'[d] = res[d]
  <2>1. CASE res[c].taken = {w}
    <3>1. res' = [res EXCEPT ![c] = NoReservation]
      BY <1>1, <1>2, <2>1
    <3>2. QED BY <1>0, <2>1, <3>1 DEF NoReservation
  <2>2. CASE res[c].taken # {w}
    <3>1. res' = [res EXCEPT ![c].taken = @ \ {w}]
      BY <1>1, <1>2, <2>2
    <3>2. QED BY <1>0, <3>1 DEF Reservation
  <2>3. QED BY <2>1, <2>2
<1>4. \A d \in Callers : TakenLast(d)'
  BY <1>3 DEF LastInv, TakenLast, Last
<1>5. CASE w = Last
  <2>1. Period(Last, res[c].at) \in Periods
    BY <1>0, LastIsLong, PeriodType
  <2>2. \A p \in Periods :
          count'[Last][p] =
            IF Period(Last, res[c].at) = p
            THEN IF count[Last][p] > 0 THEN count[Last][p] - 1 ELSE count[Last][p]
            ELSE count[Last][p]
    BY <1>1, <1>2, <1>5, <2>1, LastIsLong DEF Returned, QuotaInv, TypeInv
  <2>3. Last \in res[c].taken /\ Last \notin res'[c].taken
    BY <1>1, <1>2, <1>3, <1>5
  <2>4. \A p \in Periods : Exact(p)'
    BY <1>0, <1>3, <2>2, <2>3, OneLeaves DEF LastInv
  <2>5. QED BY <1>4, <2>4
<1>6. CASE w # Last
  <2>1. UNCHANGED <<count[Last], spent[Last]>>
    BY <1>0, <1>1, <1>2, <1>6, LastIsLong DEF Returned, QuotaInv, TypeInv
  <2>2. QED BY <1>3, <1>4, <1>6, <2>1, SameTakers DEF LastInv
<1>7. QED BY <1>5, <1>6

(* As long as nothing has failed the invariant survives every step.        *)
LEMMA LastStep ==
  LongsDiffer /\ Limited(Last) /\ QuotaInv /\ LastInv /\ [Next]_vars => LastInv'
<1> SUFFICES ASSUME LongsDiffer, Limited(Last), QuotaInv, LastInv, [Next]_vars
             PROVE  LastInv'
  OBVIOUS
<1>0. res \in [Callers -> Reservation] /\ mishaps \in Nat
  BY DEF QuotaInv, TypeInv, LastInv
<1>1. \/ UNCHANGED <<mishaps, blind>>
      \/ mishaps' = mishaps + 1
  BY DEF Next, vars, RefuseShort, TakeShort, Ask, Works, GiveUp, Commit, Release,
     ReturnLong, Crash, Tick
<1>2. SUFFICES ASSUME mishaps = 0, mishaps' = 0, UNCHANGED blind
               PROVE  (\A c \in Callers : TakenLast(c)') /\ (\A p \in Periods : Exact(p)')
  BY <1>0, <1>1 DEF LastInv
<1>3. ASSUME UNCHANGED <<count, res, spent>>
      PROVE  (\A c \in Callers : TakenLast(c)') /\ (\A p \in Periods : Exact(p)')
  <2>1. \A p \in Periods : Exact(p)'
    BY <1>2, <1>3, SameTakers DEF LastInv
  <2>2. QED BY <1>2, <1>3, <2>1 DEF LastInv, TakenLast, Last
<1>4. ASSUME NEW c \in Callers, NEW r, r.taken = {}, res' = [res EXCEPT ![c] = r],
             UNCHANGED <<count, spent>>, Last \notin res[c].taken
      PROVE  (\A d \in Callers : TakenLast(d)') /\ (\A p \in Periods : Exact(p)')
  <2>1. res'[c].taken = {} /\ \A d \in Callers \ {c} : res'[d] = res[d]
    BY <1>0, <1>4
  <2>2. \A p \in Periods : Exact(p)'
    BY <1>2, <1>4, <2>1, SameTakers DEF LastInv
  <2>3. QED BY <1>2, <2>1, <2>2 DEF LastInv, TakenLast, Last
<1>5. ASSUME NEW c \in Callers, RefuseShort(c)
      PROVE  (\A d \in Callers : TakenLast(d)') /\ (\A p \in Periods : Exact(p)')
  BY <1>3, <1>5 DEF RefuseShort
<1>6. ASSUME NEW c \in Callers, TakeShort(c) \/ GiveUp(c)
      PROVE  (\A d \in Callers : TakenLast(d)') /\ (\A p \in Periods : Exact(p)')
  <2>1. Last \notin res[c].taken
    BY <1>2, <1>6 DEF TakeShort, GiveUp, LastInv, TakenLast
  <2>2. \E r : r.taken = {} /\ res' = [res EXCEPT ![c] = r]
    BY <1>6 DEF TakeShort, GiveUp, NoReservation
  <2>3. QED BY <1>4, <1>6, <2>1, <2>2 DEF TakeShort, GiveUp
<1>7. ASSUME NEW c \in Callers, NEW ok \in BOOLEAN, Ask(c, ok) \/ ReturnLong(c, ok)
      PROVE  (\A d \in Callers : TakenLast(d)') /\ (\A p \in Periods : Exact(p)')
  <2>1. ok = TRUE
    BY <1>0, <1>2, <1>7 DEF Ask, ReturnLong, Works
  <2>2. QED BY <1>2, <1>7, <2>1, LastAsk, LastReturned
<1>8. ASSUME NEW c \in Callers, Commit(c) \/ Release(c)
      PROVE  (\A d \in Callers : TakenLast(d)') /\ (\A p \in Periods : Exact(p)')
  BY <1>2, <1>8, LastSettled
<1>9. ~Crash
  BY <1>0, <1>2 DEF Crash
<1>10. CASE Tick \/ UNCHANGED vars
  BY <1>3, <1>10 DEF Tick, vars
<1>11. QED BY <1>5, <1>6, <1>7, <1>8, <1>9, <1>10 DEF Next

(* The invariant of NeverOverspent, on its own.                            *)
LEMMA QuotaHolds == Spec => []QuotaInv
BY Initially, EveryStep, PTL DEF Spec

(* The counter that is asked last holds what was spent and what is         *)
(* reserved, neither more nor less, as long as nothing failed: what a      *)
(* delivery did not use it gives back, to the period it took it from       *)
(* (TryConsumeCounter, ReleaseCounter, Release).                           *)
THEOREM LastIsExact == ASSUME LongsDiffer PROVE Spec => []LastExact
<1>1. CASE Limited(Last)
  <2>1. QuotaInv /\ LastInv /\ [Next]_vars => LastInv'
    BY <1>1, LastStep
  <2>2. Init => LastInv
    BY LastInit
  <2>3. LastInv => LastExact
    BY DEF LastInv, Exact, LastExact, Charged, Quantify, Takers, Last
  <2>4. QED BY <2>1, <2>2, <2>3, QuotaHolds, PTL DEF Spec
<1>2. CASE ~Limited(Last)
  <2>1. LastExact
    BY <1>2 DEF LastExact, Last
  <2>2. QED BY <2>1, PTL
<1>3. QED BY <1>1, <1>2

-----------------------------------------------------------------------------
(* The sliding windows.                                                    *)

(* A set of numbers that has 0 and what follows each of its members has    *)
(* them all: induction, from the well-foundedness of <.                    *)
LEMMA SetInduction ==
  ASSUME NEW S, 0 \in S, \A n \in Nat : n \in S => n + 1 \in S
  PROVE  Nat \subseteq S
<1> DEFINE T == Nat \ S
<1>1. SUFFICES ASSUME T # {} PROVE FALSE
  OBVIOUS
<1>2. PICK x \in T : \A y \in T : ~(<<y, x>> \in OpToRel(<, Nat))
  BY <1>1, WFMin, NatLessThanWellFounded
<1>3. x # 0 /\ x - 1 \in Nat /\ x - 1 \notin S
  OBVIOUS
<1>4. <<x - 1, x>> \in OpToRel(<, Nat)
  BY <1>3 DEF OpToRel
<1>5. QED BY <1>2, <1>3, <1>4

(* The entries of a sliding window.                                        *)

Sorted(s) == \A i, j \in DOMAIN s : i <= j => s[i] <= s[j]

(* Where the entries after a time begin.                                   *)
Splits(s, x, k) ==
  /\ \A i \in DOMAIN s : i <= k => s[i] <= x
  /\ \A i \in DOMAIN s : i > k => s[i] > x

(* In a sequence in order what is not after x comes first.                 *)
LEMMA SortedSplits ==
  ASSUME NEW s \in Seq(Int), Sorted(s), NEW x \in Int
  PROVE  \E k \in 0..Len(s) : Splits(s, x, k)
<1> DEFINE Upto(n, k) == /\ \A i \in 1..n : i <= k => s[i] <= x
                         /\ \A i \in 1..n : i > k => s[i] > x
<1> DEFINE S == {n \in Nat : n <= Len(s) => \E k \in 0..n : Upto(n, k)}
<1>1. 0 \in S
  BY 0 \in 0..0
<1>2. ASSUME NEW n \in Nat, n \in S PROVE n + 1 \in S
  <2>1. SUFFICES ASSUME n + 1 <= Len(s) PROVE \E k \in 0..(n + 1) : Upto(n + 1, k)
    OBVIOUS
  <2>2. PICK k \in 0..n : Upto(n, k)
    BY <1>2, <2>1
  <2>3. n + 1 \in DOMAIN s /\ \A i \in 1..(n + 1) : i \in DOMAIN s /\ s[i] \in Int
    BY <2>1
  <2>4. CASE s[n + 1] > x
    <3>1. Upto(n + 1, k) /\ k \in 0..(n + 1)
      BY <2>2, <2>4
    <3>2. QED BY <3>1
  <2>5. CASE s[n + 1] <= x
    <3>1. \A i \in 1..(n + 1) : s[i] <= s[n + 1]
      BY <2>3 DEF Sorted
    <3>2. Upto(n + 1, n + 1) /\ n + 1 \in 0..(n + 1)
      BY <2>3, <2>5, <3>1
    <3>3. QED BY <3>2
  <2>6. QED BY <2>3, <2>4, <2>5
<1> HIDE DEF S
<1>3. Nat \subseteq S
  BY <1>1, <1>2, SetInduction
<1>4. Len(s) \in S
  BY <1>3
<1>5. PICK k \in 0..Len(s) : Upto(Len(s), k)
  BY <1>4 DEF S
<1>6. DOMAIN s = 1..Len(s)
  OBVIOUS
<1>7. QED BY <1>5, <1>6 DEF Splits

(* The loop keeps the entries behind the split.                            *)
LEMMA YoungerIs ==
  ASSUME NEW s \in Seq(Int), NEW x \in Int, NEW k \in 0..Len(s), Splits(s, x, k)
  PROVE  Younger(s, x) = [i \in 1..(Len(s) - k) |-> s[k + i]]
<1> DEFINE Step(f) == [i \in 0..Len(s) |->
             IF i = 0 THEN <<>> ELSE IF s[i] > x THEN Append(f[i - 1], s[i]) ELSE f[i - 1]]
<1> DEFINE Tails == [n \in 0..Len(s) |-> [i \in 1..(n - k) |-> s[k + i]]]
<1> DEFINE F == CHOOSE f : f = Step(f)
<1>1. Younger(s, x) = F[Len(s)]
  BY Zenon DEF Younger
<1>2. Tails = Step(Tails)
  <2>1. ASSUME NEW n \in 0..Len(s)
        PROVE  Tails[n] = IF n = 0 THEN <<>> ELSE IF s[n] > x THEN Append(Tails[n - 1], s[n])
                                                  ELSE Tails[n - 1]
    <3>1. CASE n = 0
      BY <3>1
    <3>2. CASE n # 0 /\ n <= k
      <4>1. ~(s[n] > x) /\ n - 1 \in 0..Len(s)
        BY <3>2 DEF Splits
      <4>2. Tails[n] = <<>> /\ Tails[n - 1] = <<>>
        BY <3>2, <4>1
      <4>3. QED BY <3>2, <4>1, <4>2
    <3>3. CASE n # 0 /\ n > k
      <4>1. s[n] > x /\ n - 1 \in 0..Len(s) /\ s[n] \in Int
        BY <3>3 DEF Splits
      <4>2. PICK t : t = Tails[n - 1]
        OBVIOUS
      <4>3. t \in Seq(Int) /\ Len(t) = n - 1 - k /\ \A i \in 1..(n - 1 - k) : t[i] = s[k + i]
        BY <3>3, <4>1, <4>2
      <4>4. Append(t, s[n]) = [i \in 1..(n - k) |-> s[k + i]]
        <5>1. /\ Append(t, s[n]) \in Seq(Int) /\ Len(Append(t, s[n])) = n - k
              /\ \A i \in 1..(n - 1 - k) : Append(t, s[n])[i] = s[k + i]
              /\ Append(t, s[n])[n - k] = s[n]
          BY <3>3, <4>1, <4>3
        <5>2. \A i \in 1..(n - k) : Append(t, s[n])[i] = s[k + i]
          <6>1. SUFFICES ASSUME NEW i \in 1..(n - k) PROVE Append(t, s[n])[i] = s[k + i]
            OBVIOUS
          <6>2. CASE i = n - k
            BY <5>1, <6>2, k + (n - k) = n
          <6>3. CASE i # n - k
            BY <5>1, <6>3, i \in 1..(n - 1 - k)
          <6>4. QED BY <6>2, <6>3
        <5>3. PICK a \in Seq(Int) : a = Append(t, s[n])
          BY <5>1
        <5>4. Len(a) = n - k /\ \A i \in 1..(n - k) : a[i] = s[k + i]
          BY <5>1, <5>2, <5>3
        <5>5. a = [i \in 1..(n - k) |-> s[k + i]]
          BY <5>4
        <5>6. QED BY <5>3, <5>5
      <4>5. Tails[n] = [i \in 1..(n - k) |-> s[k + i]]
        OBVIOUS
      <4> HIDE DEF Tails
      <4>6. Tails[n] = Append(Tails[n - 1], s[n])
        BY <4>2, <4>4, <4>5
      <4>7. ~(n = 0) /\ s[n] > x
        BY <3>3, <4>1
      <4>8. QED BY <4>6, <4>7
    <3> HIDE DEF Tails
    <3>4. n \in Int /\ k \in Int
      OBVIOUS
    <3>5. (n # 0 /\ n <= k) \/ (n # 0 /\ n > k) \/ n = 0
      BY <3>4
    <3>6. QED BY <3>1, <3>2, <3>3, <3>5, Zenon
  <2>2. QED BY <2>1
<1>3. F = Step(F)
  BY <1>2, Zenon
<1> HIDE DEF F
<1> DEFINE S == {n \in Nat : n <= Len(s) => F[n] = Tails[n]}
<1>4. 0 \in S
  BY <1>3
<1>5. ASSUME NEW n \in Nat, n \in S PROVE n + 1 \in S
  <2>1. SUFFICES ASSUME n + 1 <= Len(s) PROVE F[n + 1] = Tails[n + 1]
    OBVIOUS
  <2>2. F[n] = Tails[n] /\ n + 1 \in 0..Len(s) /\ n + 1 # 0 /\ (n + 1) - 1 = n
    BY <1>5, <2>1
  <2>3. F[n + 1] = Step(F)[n + 1] /\ Tails[n + 1] = Step(Tails)[n + 1]
    BY <1>2, <1>3
  <2> HIDE DEF Tails
  <2>4. QED BY <2>2, <2>3
<1> HIDE DEF S
<1>6. Nat \subseteq S
  BY <1>4, <1>5, SetInduction
<1>7. Len(s) \in S
  BY <1>6
<1>8. F[Len(s)] = Tails[Len(s)]
  BY <1>7 DEF S
<1>9. QED BY <1>1, <1>8

(* The last n entries are after x.                                         *)
Behind(s, n, x) == n <= Len(s) /\ \A i \in DOMAIN s : i > Len(s) - n => s[i] > x

(* The times are numbers, and the clock starts at one of them.             *)
LEMMA TimesAreInts == Times \subseteq Int /\ 1 \in Times
BY QuotaAssumption DEF QuotaAssumption, Times

(* What the provers need to know of a sequence of times.                   *)
LEMMA EntryFacts ==
  ASSUME NEW s \in Seq(Times)
  PROVE  /\ s \in Seq(Int) /\ Len(s) \in Nat /\ DOMAIN s = 1..Len(s)
         /\ \A i \in DOMAIN s : s[i] \in Times /\ s[i] \in Int
<1>1. Len(s) \in Nat /\ DOMAIN s = 1..Len(s) /\ \A i \in DOMAIN s : s[i] \in Times
  OBVIOUS
<1>2. \A i \in DOMAIN s : s[i] \in Int
  BY <1>1, TimesAreInts
<1>3. s = [i \in 1..Len(s) |-> s[i]]
  OBVIOUS
<1>4. s \in Seq(Int)
  BY <1>1, <1>2, <1>3
<1>5. QED BY <1>1, <1>2, <1>4

(* What the loop of channelWindows.count keeps: a suffix, in order, all of *)
(* it after the cutoff, with the same last entries.                        *)
LEMMA YoungerFacts ==
  ASSUME NEW s \in Seq(Times), Sorted(s), NEW b \in Int, NEW t \in Times,
         \A i \in DOMAIN s : s[i] <= t
  PROVE  \E y \in Seq(Times) :
           /\ y = Younger(s, b) /\ Sorted(y) /\ \A i \in DOMAIN y : y[i] <= t /\ y[i] > b
           /\ \A i \in DOMAIN y : LET j == i + (Len(s) - Len(y)) IN j \in DOMAIN s /\ y[i] = s[j]
           /\ \A n \in Nat, x \in Int : x >= b /\ Behind(s, n, x) => Behind(y, n, x)
<1>1. s \in Seq(Int) /\ Len(s) \in Nat /\ DOMAIN s = 1..Len(s)
  BY EntryFacts
<1>2. PICK k \in 0..Len(s) : Splits(s, b, k)
  BY <1>1, SortedSplits
<1>3. PICK y : y = [i \in 1..(Len(s) - k) |-> s[k + i]]
  OBVIOUS
<1>4. y = Younger(s, b)
  BY <1>1, <1>2, <1>3, YoungerIs
<1>5. /\ Len(s) - k \in Nat
      /\ \A i \in 1..(Len(s) - k) : k + i \in DOMAIN s /\ y[i] = s[k + i] /\ s[k + i] \in Times
  BY <1>1, <1>2, <1>3
<1>6. y \in Seq(Times) /\ Len(y) = Len(s) - k /\ DOMAIN y = 1..(Len(s) - k)
  BY <1>3, <1>5
<1>7. Sorted(y)
  <2>1. SUFFICES ASSUME NEW i \in DOMAIN y, NEW j \in DOMAIN y, i <= j PROVE y[i] <= y[j]
    BY DEF Sorted
  <2>2. k + i \in DOMAIN s /\ k + j \in DOMAIN s /\ k + i <= k + j
    BY <1>5, <1>6, <2>1
  <2>3. QED BY <1>5, <1>6, <2>2 DEF Sorted
<1>8. ASSUME NEW i \in DOMAIN y PROVE y[i] <= t /\ y[i] > b
  <2>1. k + i \in DOMAIN s /\ k + i > k /\ y[i] = s[k + i]
    BY <1>1, <1>5, <1>6
  <2>2. QED BY <1>2, <2>1 DEF Splits
<1>9. ASSUME NEW n \in Nat, NEW x \in Int, x >= b, Behind(s, n, x) PROVE Behind(y, n, x)
  <2>1. n <= Len(s) - k
    <3>1. SUFFICES ASSUME n > Len(s) - k PROVE FALSE
      BY <1>1
    <3>2. k \in DOMAIN s /\ k > Len(s) - n
      BY <1>1, <1>2, <1>9, <3>1 DEF Behind
    <3>3. s[k] > x /\ s[k] <= b /\ s[k] \in Int
      BY <1>1, <1>2, <1>9, <3>2 DEF Behind, Splits
    <3>4. QED BY <1>9, <3>3
  <2>2. ASSUME NEW i \in DOMAIN y, i > Len(y) - n PROVE y[i] > x
    <3>1. k + i \in DOMAIN s /\ k + i > Len(s) - n /\ y[i] = s[k + i]
      BY <1>1, <1>2, <1>5, <1>6, <2>2
    <3>2. QED BY <1>9, <3>1 DEF Behind
  <2>3. QED BY <1>6, <2>1, <2>2 DEF Behind
<1>10. \A i \in DOMAIN y : i + (Len(s) - Len(y)) \in DOMAIN s /\ y[i] = s[i + (Len(s) - Len(y))]
  <2>1. SUFFICES ASSUME NEW i \in DOMAIN y
                 PROVE  i + (Len(s) - Len(y)) \in DOMAIN s /\ y[i] = s[i + (Len(s) - Len(y))]
    OBVIOUS
  <2>2. i + (Len(s) - Len(y)) = k + i
    BY <1>1, <1>6
  <2>3. QED BY <1>5, <1>6, <2>2
<1>11. QED BY <1>4, <1>6, <1>7, <1>8, <1>9, <1>10

(* What a reservation adds to a window.                                    *)
LEMMA AppendFacts ==
  ASSUME NEW y \in Seq(Times), Sorted(y), NEW t \in Times, \A i \in DOMAIN y : y[i] <= t
  PROVE  \E z \in Seq(Times) :
           /\ z = Append(y, t) /\ Len(z) = Len(y) + 1
           /\ Sorted(z) /\ \A i \in DOMAIN z : z[i] <= t
           /\ \A n \in Nat, x \in Int : Behind(y, n, x) =>
                IF t > x THEN Behind(z, n + 1, x) ELSE n = 0 /\ Behind(z, n, x)
<1>1. PICK z \in Seq(Times) : z = Append(y, t)
  <2>1. Append(y, t) \in Seq(Times)
    OBVIOUS
  <2>2. QED BY <2>1
<1>2. Len(y) \in Nat /\ Len(z) = Len(y) + 1 /\ DOMAIN y = 1..Len(y) /\ DOMAIN z = 1..(Len(y) + 1)
  BY <1>1
<1>3. z[Len(y) + 1] = t /\ \A i \in DOMAIN y : z[i] = y[i] /\ y[i] \in Int
  <2>1. z[Len(y) + 1] = t /\ \A i \in DOMAIN y : z[i] = y[i]
    BY <1>1
  <2>2. QED BY <2>1, EntryFacts
<1>4. t \in Int /\ \A i \in DOMAIN z : i \in DOMAIN y \/ i = Len(y) + 1
  BY <1>2, TimesAreInts
<1>5. \A i \in DOMAIN z : z[i] <= t
  BY <1>3, <1>4
<1>6. Sorted(z)
  BY <1>2, <1>3, <1>4 DEF Sorted
<1>7. ASSUME NEW n \in Nat, NEW x \in Int, Behind(y, n, x), t > x PROVE Behind(z, n + 1, x)
  BY <1>2, <1>3, <1>4, <1>7 DEF Behind
<1>8. ASSUME NEW n \in Nat, NEW x \in Int, Behind(y, n, x), ~(t > x)
      PROVE  n = 0 /\ Behind(z, n, x)
  <2>1. n = 0
    <3>1. SUFFICES ASSUME n # 0 PROVE FALSE
      OBVIOUS
    <3>2. Len(y) \in DOMAIN y /\ Len(y) > Len(y) - n
      BY <1>2, <1>8, <3>1 DEF Behind
    <3>3. y[Len(y)] > x /\ y[Len(y)] <= t
      BY <1>8, <3>2 DEF Behind
    <3>4. QED BY <1>3, <1>4, <1>8, <3>2, <3>3
  <2>2. QED BY <1>2, <2>1 DEF Behind
<1>9. QED BY <1>1, <1>2, <1>5, <1>6, <1>7, <1>8

(* What releaseShort leaves of a window.                                   *)
LEMMA TailFacts ==
  ASSUME NEW s \in Seq(Times), s # <<>>, Sorted(s), NEW t \in Times,
         \A i \in DOMAIN s : s[i] <= t
  PROVE  \E z \in Seq(Times) :
           /\ z = Tail(s) /\ Len(z) = Len(s) - 1 /\ \A i \in DOMAIN z : z[i] = s[i + 1] /\ i + 1 \in DOMAIN s
           /\ Sorted(z) /\ \A i \in DOMAIN z : z[i] <= t
           /\ \A n \in Nat, x \in Int : Behind(s, n, x) /\ n < Len(s) => Behind(z, n, x)
<1>1. PICK z \in Seq(Times) : z = Tail(s)
  <2>1. Tail(s) \in Seq(Times)
    OBVIOUS
  <2>2. QED BY <2>1
<1>2. /\ Len(s) \in Nat /\ Len(s) > 0 /\ Len(z) = Len(s) - 1
      /\ DOMAIN s = 1..Len(s) /\ DOMAIN z = 1..(Len(s) - 1)
  BY <1>1
<1>3. \A i \in DOMAIN z : z[i] = s[i + 1] /\ i + 1 \in DOMAIN s
  BY <1>1, <1>2
<1>4. Sorted(z) /\ \A i \in DOMAIN z : z[i] <= t
  BY <1>2, <1>3 DEF Sorted
<1>5. ASSUME NEW n \in Nat, NEW x \in Int, Behind(s, n, x), n < Len(s) PROVE Behind(z, n, x)
  BY <1>2, <1>3, <1>5 DEF Behind
<1>6. QED BY <1>1, <1>2, <1>3, <1>4, <1>5

(* The reservations made after x that may still be settled, and all the    *)
(* allowance used since.                                                   *)
Late(x) == {c \in Callers : Counting(c) /\ res[c].at > x}
Used(x) == Cardinality(Calls(x)) + Cardinality(Late(x))

(* What a sliding window that ends at b has: its entries in order, none of *)
(* them to come, all but the last Limit too old to count; and for every    *)
(* time since b an entry for whatever was used after it.                   *)
Window(w) ==
  /\ Sorted(entries[w])
  /\ \A i \in DOMAIN entries[w] :
       /\ entries[w][i] <= clock
       /\ i <= Len(entries[w]) - Limit[w] => entries[w][i] <= clock - Span[w]
  /\ \A x \in Int : x >= clock - Span[w] => Behind(entries[w], Used(x), x)

ShortInv ==
  /\ mishaps \in Nat
  /\ mishaps = 0 =>
       /\ entries \in [ShortKinds -> Seq(Times)] /\ reached \in [Times -> Nat]
       /\ \A x \in Int : IsFiniteSet(Calls(x))
       /\ \A c \in Callers : Counting(c) =>
            /\ res[c].at \in Times /\ res[c].at <= clock
            /\ \A w \in ShortKinds : Limited(w) => res[c].at > clock - Span[w]
       /\ \A w \in ShortKinds : Limited(w) => Window(w)

(* A call is a time and a number.                                          *)
LEMMA InCalls ==
  ASSUME NEW x, NEW p
  PROVE  p \in Calls(x) <=> \E t \in Times : t > x /\ \E i \in 1..reached[t] : p = <<t, i>>
BY DEF Calls

(* The later the start, the fewer calls.                                   *)
LEMMA CallsShrink ==
  ASSUME NEW x \in Int, NEW y \in Int, x <= y
  PROVE  Calls(y) \subseteq Calls(x)
<1>1. \A t \in Times : t > y => t > x
  BY TimesAreInts
<1>2. QED BY <1>1, InCalls

(* What is counted is finite.                                              *)
LEMMA UsedFacts ==
  ASSUME ShortInv, mishaps = 0, NEW x \in Int
  PROVE  /\ IsFiniteSet(Calls(x)) /\ IsFiniteSet(Late(x))
         /\ Cardinality(Calls(x)) \in Nat /\ Cardinality(Late(x)) \in Nat /\ Used(x) \in Nat
<1>1. IsFiniteSet(Calls(x))
  BY DEF ShortInv
<1>2. IsFiniteSet(Late(x))
  BY QuotaAssumption, FS_Subset, Late(x) \in SUBSET Callers DEF QuotaAssumption, Late
<1>3. Cardinality(Calls(x)) \in Nat /\ Cardinality(Late(x)) \in Nat
  BY <1>1, <1>2, FS_CardinalityType
<1>4. QED BY <1>1, <1>2, <1>3 DEF Used

(* A sliding window has a length, and a limit.                             *)
LEMMA SpanIs ==
  ASSUME NEW w \in ShortKinds
  PROVE  Span[w] \in Nat \ {0} /\ Limit[w] \in Nat
BY QuotaAssumption DEF QuotaAssumption, Kinds

(* The window cannot count more than it allows.                            *)
LEMMA WindowKept ==
  ASSUME QuotaInv, ShortInv, mishaps = 0, NEW w \in ShortKinds, Limited(w)
  PROVE  Cardinality(Calls(clock - Span[w])) + Quantify(Holders, LAMBDA c : res[c].at > clock - Span[w])
           <= Limit[w]
<1>1. PICK x \in Int : x = clock - Span[w]
  BY SpanIs, TimesAreInts DEF QuotaInv, TypeInv
<1>2. PICK s \in Seq(Times) : s = entries[w]
  BY DEF ShortInv
<1>3. Behind(s, Used(x), x) /\ \A i \in DOMAIN s : i <= Len(s) - Limit[w] => s[i] <= x
  BY <1>1, <1>2 DEF ShortInv, Window
<1>4. Used(x) \in Nat /\ Limit[w] \in Nat /\ Len(s) \in Nat /\ DOMAIN s = 1..Len(s)
      /\ \A i \in DOMAIN s : s[i] \in Int
  BY UsedFacts, SpanIs, EntryFacts
<1>5. Used(x) <= Limit[w]
  <2>1. SUFFICES ASSUME Used(x) > Limit[w] PROVE FALSE
    BY <1>4
  <2>2. PICK i \in DOMAIN s : i = Len(s) - Limit[w]
    BY <1>3, <1>4, <2>1 DEF Behind
  <2>3. s[i] <= x /\ s[i] > x /\ s[i] \in Int
    BY <1>3, <1>4, <2>1, <2>2 DEF Behind
  <2>4. QED BY <2>3
<1>6. {c \in Holders : res[c].at > x} \subseteq Late(x)
  BY DEF Holders, Held, Late, Counting
<1>7. Cardinality({c \in Holders : res[c].at > x}) <= Cardinality(Late(x))
      /\ Cardinality({c \in Holders : res[c].at > x}) \in Nat
  BY <1>6, UsedFacts, FS_Subset, FS_CardinalityType
<1>8. Quantify(Holders, LAMBDA c : res[c].at > clock - Span[w])
        = Cardinality({c \in Holders : res[c].at > x})
  BY <1>1 DEF Quantify
<1>9. Cardinality(Calls(x)) + Cardinality({c \in Holders : res[c].at > x}) <= Limit[w]
  <2>1. PICK m \in Nat, n \in Nat, u \in Nat :
          m = Cardinality(Calls(x)) /\ n = Cardinality(Late(x))
          /\ u = Cardinality({c \in Holders : res[c].at > x})
    BY <1>7, UsedFacts
  <2>2. m + n <= Limit[w] /\ u <= n
    BY <1>5, <1>7, <2>1 DEF Used
  <2>3. m + u <= Limit[w]
    BY <1>4, <2>2
  <2>4. QED BY <2>1, <2>3
<1>10. QED BY <1>1, <1>8, <1>9

(* The invariant gives the property.                                       *)
LEMMA ShortSuffices == QuotaInv /\ ShortInv => ShortKept
BY WindowKept DEF ShortKept

(* It holds at first: nothing is reserved and nothing was called.          *)
LEMMA ShortInit == Init => ShortInv
<1>. SUFFICES ASSUME Init PROVE ShortInv
  OBVIOUS
<1>1. \A x \in Int : Calls(x) = {}
  BY InCalls DEF Init
<1>2. \A c \in Callers : ~Counting(c)
  BY DEF Init, Counting, NoReservation
<1>3. \A x \in Int : Late(x) = {}
  BY <1>2 DEF Late
<1>4. IsFiniteSet({}) /\ Cardinality({}) = 0
  BY FS_EmptySet
<1>5. \A x \in Int : Used(x) = 0
  BY <1>1, <1>3, <1>4 DEF Used
<1>6. ASSUME NEW w \in ShortKinds PROVE Window(w)
  <2>1. entries[w] = <<>>
    BY DEF Init
  <2>2. QED BY <1>5, <2>1 DEF Window, Sorted, Behind
<1>7. entries \in [ShortKinds -> Seq(Times)] /\ reached \in [Times -> Nat]
  BY DEF Init
<1>8. QED BY <1>1, <1>2, <1>4, <1>6, <1>7 DEF Init, ShortInv

(* An entry for each of n is one for each of fewer.                        *)
LEMMA BehindLess ==
  ASSUME NEW s \in Seq(Times), NEW n \in Nat, NEW x, Behind(s, n, x), NEW m \in Nat, m <= n
  PROVE  Behind(s, m, x)
<1>1. Len(s) \in Nat /\ DOMAIN s = 1..Len(s)
  BY EntryFacts
<1>2. QED BY <1>1 DEF Behind

(* The invariant, spelled out for the state before a step.                 *)
LEMMA ShortFacts ==
  ASSUME QuotaInv, ShortInv, mishaps = 0
  PROVE  /\ clock \in Times /\ clock \in Int /\ res \in [Callers -> Reservation]
         /\ entries \in [ShortKinds -> Seq(Times)] /\ reached \in [Times -> Nat]
         /\ \A w \in ShortKinds : clock - Span[w] \in Int /\ clock > clock - Span[w]
         /\ \A w \in ShortKinds : Limited(w) => Window(w)
<1>1. clock \in Times /\ clock \in Int /\ res \in [Callers -> Reservation]
  BY TimesAreInts DEF QuotaInv, TypeInv
<1>2. QED BY <1>1, SpanIs DEF ShortInv

(* A window that stays while no more is used, perhaps at a later time.     *)
LEMMA WindowStays ==
  ASSUME QuotaInv, ShortInv, mishaps = 0, NEW w \in ShortKinds, Limited(w),
         clock' \in Times, clock <= clock', entries'[w] = entries[w],
         \A x \in Int : Used(x)' \in Nat /\ Used(x)' <= Used(x)
  PROVE  Window(w)'
<1>1. PICK s \in Seq(Times), t \in Int, u \in Int, d \in Nat, l \in Nat :
        s = entries[w] /\ t = clock /\ u = clock' /\ d = Span[w] /\ l = Limit[w]
  BY ShortFacts, SpanIs, TimesAreInts
<1>2. /\ Sorted(s)
      /\ \A i \in DOMAIN s : s[i] <= t /\ (i <= Len(s) - l => s[i] <= t - d)
      /\ \A x \in Int : x >= t - d => Behind(s, Used(x), x)
  BY <1>1, ShortFacts DEF Window
<1>3. t <= u
  BY <1>1
<1>4. ASSUME NEW i \in DOMAIN s
      PROVE  s[i] <= u /\ (i <= Len(s) - l => s[i] <= u - d)
  <2>1. PICK e \in Int : e = s[i]
    BY EntryFacts
  <2>2. e <= t /\ (i <= Len(s) - l => e <= t - d)
    BY <1>2, <2>1
  <2>3. t - d <= u - d
    BY <1>3
  <2>4. e <= u /\ (i <= Len(s) - l => e <= u - d)
    BY <1>3, <2>2, <2>3
  <2>5. QED BY <2>1, <2>4
<1>5. ASSUME NEW x \in Int, x >= u - d
      PROVE  Behind(s, Used(x)', x)
  <2>1. x >= t - d
    BY <1>3, <1>5
  <2>2. Behind(s, Used(x), x) /\ Used(x) \in Nat
    BY <1>2, <2>1, UsedFacts
  <2>3. QED BY <2>2, BehindLess
<1>6. QED BY <1>1, <1>2, <1>4, <1>5 DEF Window

(* A window that is cleaned.                                               *)
LEMMA WindowCleaned ==
  ASSUME QuotaInv, ShortInv, mishaps = 0, NEW w \in ShortKinds, Limited(w), clock' = clock,
         entries'[w] = Kept(w), \A x \in Int : Used(x)' = Used(x)
  PROVE  Window(w)' /\ entries'[w] \in Seq(Times)
<1>1. PICK s \in Seq(Times), t \in Times, b \in Int, l \in Nat :
        s = entries[w] /\ t = clock /\ b = clock - Span[w] /\ l = Limit[w]
  BY ShortFacts, SpanIs
<1>2. /\ Sorted(s) /\ (\A i \in DOMAIN s : s[i] <= t)
      /\ \A i \in DOMAIN s : i <= Len(s) - l => s[i] <= b
      /\ \A x \in Int : x >= b => Behind(s, Used(x), x)
  BY <1>1, ShortFacts DEF Window
<1>3. PICK y \in Seq(Times) :
        /\ y = Younger(s, b) /\ Sorted(y) /\ \A i \in DOMAIN y : y[i] <= t /\ y[i] > b
        /\ \A i \in DOMAIN y : LET j == i + (Len(s) - Len(y)) IN j \in DOMAIN s /\ y[i] = s[j]
        /\ \A n \in Nat, x \in Int : x >= b /\ Behind(s, n, x) => Behind(y, n, x)
  BY <1>2, YoungerFacts
<1>4. entries'[w] = y
  BY <1>1, <1>3 DEF Kept
<1>5. ASSUME NEW i \in DOMAIN y, i <= Len(y) - l PROVE y[i] <= b
  <2>1. PICK j \in DOMAIN s : j = i + (Len(s) - Len(y)) /\ y[i] = s[j]
    BY <1>3
  <2>2. j <= Len(s) - l
    BY <1>5, <2>1, EntryFacts
  <2>3. QED BY <1>2, <2>1, <2>2
<1>6. ASSUME NEW x \in Int, x >= b PROVE Behind(y, Used(x)', x)
  BY <1>2, <1>3, <1>6, UsedFacts
<1>7. QED BY <1>1, <1>3, <1>4, <1>5, <1>6 DEF Window

(* A window that is not full takes another reservation.                    *)
LEMMA WindowTakes ==
  ASSUME QuotaInv, ShortInv, mishaps = 0, NEW w \in ShortKinds, Limited(w), clock' = clock,
         ~Full(w), entries'[w] = Append(Kept(w), clock),
         \A x \in Int : Used(x)' = IF clock > x THEN Used(x) + 1 ELSE Used(x)
  PROVE  Window(w)' /\ entries'[w] \in Seq(Times)
<1>1. PICK s \in Seq(Times), t \in Times, b \in Int, l \in Nat :
        s = entries[w] /\ t = clock /\ b = clock - Span[w] /\ l = Limit[w]
  BY ShortFacts, SpanIs
<1>2. /\ Sorted(s) /\ (\A i \in DOMAIN s : s[i] <= t)
      /\ \A x \in Int : x >= b => Behind(s, Used(x), x)
  BY <1>1, ShortFacts DEF Window
<1>3. PICK y \in Seq(Times) :
        /\ y = Younger(s, b) /\ Sorted(y) /\ \A i \in DOMAIN y : y[i] <= t
        /\ \A n \in Nat, x \in Int : x >= b /\ Behind(s, n, x) => Behind(y, n, x)
  BY <1>2, YoungerFacts
<1>4. Len(y) < l
  BY <1>1, <1>3, EntryFacts DEF Full, Kept
<1>5. PICK z \in Seq(Times) :
        /\ z = Append(y, t) /\ Len(z) = Len(y) + 1
        /\ Sorted(z) /\ \A i \in DOMAIN z : z[i] <= t
        /\ \A n \in Nat, x \in Int : Behind(y, n, x) =>
             IF t > x THEN Behind(z, n + 1, x) ELSE n = 0 /\ Behind(z, n, x)
  BY <1>3, AppendFacts
<1>6. entries'[w] = z
  BY <1>1, <1>3, <1>5 DEF Kept
<1>7. \A i \in DOMAIN z : ~(i <= Len(z) - l)
  BY <1>4, <1>5, EntryFacts
<1>8. ASSUME NEW x \in Int, x >= b PROVE Behind(z, Used(x)', x)
  <2>1. PICK n \in Nat : n = Used(x) /\ Behind(y, n, x)
    BY <1>2, <1>3, <1>8, UsedFacts
  <2>2. Used(x)' = IF t > x THEN n + 1 ELSE n
    BY <1>1, <2>1
  <2>3. QED BY <1>5, <2>1, <2>2
<1>9. QED BY <1>1, <1>5, <1>6, <1>7, <1>8 DEF Window

(* A window gives up its oldest entry for the reservation of c.            *)
LEMMA WindowDrops ==
  ASSUME QuotaInv, ShortInv, mishaps = 0, NEW w \in ShortKinds, Limited(w), clock' = clock,
         entries'[w] = Shortened[w], NEW c \in Callers, Counting(c),
         \A x \in Int : /\ Used(x)' \in Nat
                        /\ Used(x)' = IF res[c].at > x THEN Used(x) - 1 ELSE Used(x)
  PROVE  Window(w)' /\ entries'[w] \in Seq(Times)
<1>1. PICK s \in Seq(Times), t \in Times, b \in Int, l \in Nat, a \in Times :
        s = entries[w] /\ t = clock /\ b = clock - Span[w] /\ l = Limit[w] /\ a = res[c].at
  BY ShortFacts, SpanIs DEF ShortInv
<1>2. /\ Sorted(s) /\ (\A i \in DOMAIN s : s[i] <= t)
      /\ \A i \in DOMAIN s : i <= Len(s) - l => s[i] <= b
      /\ \A x \in Int : x >= b => Behind(s, Used(x), x)
  BY <1>1, ShortFacts DEF Window
<1>3. a > b /\ a \in Int
  BY <1>1, TimesAreInts DEF ShortInv
<1>4. \A x \in Int : Used(x)' \in Nat /\ Used(x) \in Nat /\ Used(x)' <= Used(x)
  <2>1. SUFFICES ASSUME NEW x \in Int
                 PROVE  Used(x)' \in Nat /\ Used(x) \in Nat /\ Used(x)' <= Used(x)
    OBVIOUS
  <2>2. PICK m \in Nat, n \in Nat : m = Used(x)' /\ n = Used(x)
    BY UsedFacts
  <2>3. m = n - 1 \/ m = n
    BY <2>2
  <2>4. m <= n
    BY <2>3
  <2>5. QED BY <2>2, <2>4
<1>5. CASE s = <<>>
  <2>1. entries'[w] = entries[w]
    BY <1>1, <1>5 DEF Shortened
  <2>2. clock' \in Times /\ clock <= clock'
    BY ShortFacts
  <2>3. QED BY <1>1, <1>4, <2>1, <2>2, WindowStays
<1>6. CASE s # <<>>
  <2>1. PICK z \in Seq(Times) :
          /\ z = Tail(s) /\ Len(z) = Len(s) - 1
          /\ \A i \in DOMAIN z : z[i] = s[i + 1] /\ i + 1 \in DOMAIN s
          /\ Sorted(z) /\ \A i \in DOMAIN z : z[i] <= t
          /\ \A n \in Nat, x \in Int : Behind(s, n, x) /\ n < Len(s) => Behind(z, n, x)
    BY <1>2, <1>6, TailFacts
  <2>2. entries'[w] = z
    BY <1>1, <1>6, <2>1 DEF Shortened
  <2>3. ASSUME NEW i \in DOMAIN z, i <= Len(z) - l PROVE z[i] <= b
    <3>1. i + 1 \in DOMAIN s /\ i + 1 <= Len(s) - l
      BY <2>1, <2>3, EntryFacts
    <3>2. QED BY <1>2, <2>1, <3>1
  <2>4. ASSUME NEW x \in Int, x >= b PROVE Behind(z, Used(x)', x)
    <3>1. PICK n \in Nat, m \in Nat : n = Used(x) /\ m = Used(x)' /\ Behind(s, n, x) /\ m <= n
      BY <1>2, <1>4, <2>4
    <3>2. m < Len(s)
      <4>1. CASE a > x
        <5>1. m = n - 1
          BY <1>1, <3>1, <4>1
        <5>2. QED BY <3>1, <5>1, EntryFacts DEF Behind
      <4>2. CASE ~(a > x)
        <5>1. PICK y \in Int : y = a - 1 /\ y >= b /\ y <= x /\ a > y
          BY <1>3, <4>2
        <5>2. PICK k \in Nat : k = Used(y) /\ Behind(s, k, y)
          BY <1>2, <1>4, <5>1
        <5>3. n + 1 <= k
          <6>1. c \in Late(y) /\ c \notin Late(x) /\ Late(x) \subseteq Late(y)
            <7>1. \A d \in Callers : Counting(d) => res[d].at \in Int
              BY TimesAreInts DEF ShortInv
            <7>2. res[c].at > y /\ ~(res[c].at > x)
              BY <1>1, <4>2, <5>1
            <7>3. c \in Late(y) /\ c \notin Late(x)
              BY <7>2 DEF Late
            <7>4. ASSUME NEW d \in Callers, Counting(d), res[d].at > x PROVE res[d].at > y
              <8>1. PICK e \in Int : e = res[d].at
                BY <7>1, <7>4
              <8>2. e > x
                BY <7>4, <8>1
              <8>3. y <= x
                BY <5>1
              <8>4. e > y
                BY <8>2, <8>3
              <8>5. QED BY <8>1, <8>4
            <7>5. QED BY <7>3, <7>4 DEF Late
          <6>2. Late(x) \cup {c} \subseteq Late(y)
            BY <6>1
          <6>3. IsFiniteSet(Late(x)) /\ IsFiniteSet(Late(y))
            BY UsedFacts
          <6>4. Cardinality(Late(x) \cup {c}) = Cardinality(Late(x)) + 1
            BY <6>1, <6>3, FS_AddElement
          <6>5. Cardinality(Late(x) \cup {c}) <= Cardinality(Late(y))
            BY <6>2, <6>3, FS_Subset
          <6>6. Cardinality(Calls(x)) <= Cardinality(Calls(y))
            BY <5>1, CallsShrink, UsedFacts, FS_Subset
          <6>7. PICK i \in Nat, j \in Nat, p \in Nat, q \in Nat :
                  /\ i = Cardinality(Late(x)) /\ j = Cardinality(Late(y))
                  /\ p = Cardinality(Calls(x)) /\ q = Cardinality(Calls(y))
            BY UsedFacts
          <6>8. i + 1 <= j /\ p <= q
            BY <6>4, <6>5, <6>6, <6>7
          <6>9. n = p + i /\ k = q + j
            BY <3>1, <5>2, <6>7 DEF Used
          <6>10. QED BY <6>8, <6>9
        <5>4. k <= Len(s)
          BY <5>2 DEF Behind
        <5>5. QED BY <3>1, <5>3, <5>4, EntryFacts
      <4>3. QED BY <4>1, <4>2
    <3>3. Behind(s, m, x)
      BY <3>1, BehindLess
    <3>4. QED BY <2>1, <3>1, <3>2, <3>3
  <2>5. QED BY <1>1, <2>1, <2>2, <2>3, <2>4 DEF Window
<1>7. QED BY <1>5, <1>6

(* What a step may do to the reservations that count: leave them, take     *)
(* one, or settle one.                                                     *)
LEMMA LateStays ==
  ASSUME QuotaInv, \A c \in Callers : Counting(c)' => Counting(c) /\ res'[c].at = res[c].at,
         \A c \in Callers : Counting(c) => Counting(c)'
  PROVE  \A x \in Int : Late(x)' = Late(x)
BY DEF Late

(* A reservation is one more that counts, from now on.                     *)
LEMMA LateGrows ==
  ASSUME QuotaInv, ShortInv, mishaps = 0, NEW c \in Callers, ~Counting(c), Counting(c)', res'[c].at = clock,
         \A d \in Callers \ {c} : res'[d] = res[d], reached' = reached
  PROVE  \A x \in Int : Used(x)' = IF clock > x THEN Used(x) + 1 ELSE Used(x)
<1>1. SUFFICES ASSUME NEW x \in Int
               PROVE  Used(x)' = IF clock > x THEN Used(x) + 1 ELSE Used(x)
  OBVIOUS
<1>2. Calls(x)' = Calls(x)
  BY DEF Calls
<1>3. c \notin Late(x) /\ \A d \in Callers \ {c} : Counting(d)' = Counting(d)
  BY DEF Late, Counting
<1>4. CASE clock > x
  <2>1. Late(x)' = Late(x) \cup {c}
    BY <1>3, <1>4 DEF Late
  <2>2. Cardinality(Late(x) \cup {c}) = Cardinality(Late(x)) + 1
    BY <1>3, UsedFacts, FS_AddElement
  <2>3. Used(x)' = Cardinality(Calls(x)) + (Cardinality(Late(x)) + 1)
    BY <1>2, <2>1, <2>2 DEF Used
  <2>4. PICK m \in Nat, n \in Nat : m = Cardinality(Calls(x)) /\ n = Cardinality(Late(x))
    BY UsedFacts
  <2>5. m + (n + 1) = (m + n) + 1
    OBVIOUS
  <2>6. QED BY <1>4, <2>3, <2>4, <2>5 DEF Used
<1>5. CASE ~(clock > x)
  <2>1. Late(x)' = Late(x)
    BY <1>3, <1>5 DEF Late
  <2>2. QED BY <1>2, <1>5, <2>1 DEF Used
<1>6. QED BY <1>4, <1>5

(* A settled reservation is one less, for the times it came after.         *)
LEMMA LateShrinks ==
  ASSUME QuotaInv, ShortInv, mishaps = 0, NEW c \in Callers, Counting(c), ~Counting(c)',
         \A d \in Callers \ {c} : res'[d] = res[d]
  PROVE  \A x \in Int :
           /\ IsFiniteSet(Late(x)') /\ Cardinality(Late(x)') \in Nat
           /\ Cardinality(Late(x)') = IF res[c].at > x THEN Cardinality(Late(x)) - 1
                                      ELSE Cardinality(Late(x))
<1>1. SUFFICES ASSUME NEW x \in Int
               PROVE  /\ IsFiniteSet(Late(x)') /\ Cardinality(Late(x)') \in Nat
                      /\ Cardinality(Late(x)') = IF res[c].at > x THEN Cardinality(Late(x)) - 1
                                                 ELSE Cardinality(Late(x))
  OBVIOUS
<1>2. \A d \in Callers \ {c} : Counting(d)' = Counting(d)
  BY DEF Counting
<1>3. CASE res[c].at > x
  <2>1. Late(x)' = Late(x) \ {c} /\ c \in Late(x)
    BY <1>2, <1>3 DEF Late
  <2>2. /\ IsFiniteSet(Late(x) \ {c})
        /\ Cardinality(Late(x) \ {c}) = Cardinality(Late(x)) - 1
    BY <2>1, UsedFacts, FS_RemoveElement
  <2>3. Cardinality(Late(x) \ {c}) \in Nat
    BY <2>2, FS_CardinalityType
  <2>4. QED BY <1>3, <2>1, <2>2, <2>3
<1>4. CASE ~(res[c].at > x)
  <2>1. Late(x)' = Late(x)
    BY <1>2, <1>4 DEF Late
  <2>2. QED BY <1>4, <2>1, UsedFacts
<1>5. QED BY <1>3, <1>4

(* A step that changes neither the windows nor what counts.                *)
LEMMA ShortStays ==
  ASSUME QuotaInv, ShortInv, UNCHANGED <<entries, clock, reached>>, mishaps' \in Nat, mishaps' = 0 => mishaps = 0,
         \A c \in Callers : Counting(c)' => Counting(c) /\ res'[c].at = res[c].at,
         \A c \in Callers : Counting(c) => Counting(c)'
  PROVE  ShortInv'
<1>1. SUFFICES ASSUME mishaps = 0, mishaps' = 0
      PROVE  /\ \A x \in Int : IsFiniteSet(Calls(x)')
             /\ \A w \in ShortKinds : Limited(w) => Window(w)'
  BY DEF ShortInv, Limited
<1>2. \A x \in Int : Calls(x)' = Calls(x)
  BY DEF Calls
<1>3. \A x \in Int : Late(x)' = Late(x)
  BY LateStays
<1>4. \A x \in Int : Used(x)' = Used(x)
  BY <1>2, <1>3 DEF Used
<1>5. \A x \in Int : IsFiniteSet(Calls(x)')
  BY <1>1, <1>2, UsedFacts
<1>6. \A x \in Int : Used(x)' \in Nat /\ Used(x)' <= Used(x)
  BY <1>1, <1>4, UsedFacts
<1>7. clock' \in Times /\ clock <= clock'
  BY <1>1, ShortFacts
<1>8. QED BY <1>1, <1>5, <1>6, <1>7, WindowStays

(* Time passes: no reservation is kept until it no longer counts.          *)
LEMMA TickKeepsShort ==
  ASSUME Quick, QuotaInv, QuotaInv', ShortInv, Tick
  PROVE  ShortInv'
<1>1. UNCHANGED <<entries, count, res, reached, spent, mishaps>> /\ clock' = clock + 1
  BY DEF Tick
<1>2. SUFFICES ASSUME mishaps = 0
      PROVE  /\ \A x \in Int : IsFiniteSet(Calls(x)')
             /\ \A c \in Callers : Counting(c) =>
                  /\ res[c].at <= clock'
                  /\ \A w \in ShortKinds : Limited(w) => res[c].at > clock' - Span[w]
             /\ \A w \in ShortKinds : Limited(w) => Window(w)'
  BY <1>1 DEF ShortInv, Limited, Counting
<1>3. \A x \in Int : Calls(x)' = Calls(x) /\ Late(x)' = Late(x)
  BY <1>1 DEF Calls, Late, Counting
<1>4. \A x \in Int : Used(x)' \in Nat /\ Used(x)' <= Used(x)
  BY <1>2, <1>3, UsedFacts DEF Used
<1>5. clock' \in Times /\ clock <= clock'
  BY <1>1, <1>2, ShortFacts DEF QuotaInv, TypeInv
<1>6. \A w \in ShortKinds : Limited(w) => Window(w)'
  BY <1>1, <1>2, <1>4, <1>5, WindowStays
<1>7. ASSUME NEW c \in Callers, Counting(c)
      PROVE  /\ res[c].at <= clock'
             /\ \A w \in ShortKinds : Limited(w) => res[c].at > clock' - Span[w]
  <2>1. res[c].at \in Int /\ res[c].at <= clock /\ clock \in Int
    BY <1>2, <1>7, ShortFacts, TimesAreInts DEF ShortInv
  <2>2. \A w \in ShortKinds : Limited(w) => res[c].at > clock + 1 - Span[w]
    BY <1>7 DEF Tick
  <2>3. res[c].at <= clock'
    BY <1>1, <2>1
  <2>4. clock' = clock + 1
    BY <1>1
  <2>5. \A w \in ShortKinds : Limited(w) => res[c].at > clock' - Span[w]
    <3>1. SUFFICES ASSUME NEW w \in ShortKinds, Limited(w) PROVE res[c].at > clock' - Span[w]
      OBVIOUS
    <3>2. res[c].at > clock + 1 - Span[w]
      BY <2>2, <3>1, Zenon
    <3>3. Span[w] \in Int /\ clock \in Int
      BY <2>1, SpanIs
    <3>4. QED BY <2>1, <2>4, <3>2, <3>3
  <2>6. QED BY <2>3, <2>5
<1>8. \A x \in Int : IsFiniteSet(Calls(x)')
  BY <1>2, <1>3, UsedFacts
<1>9. QED BY <1>6, <1>7, <1>8

(* A full window refuses: those asked are cleaned.                         *)
LEMMA RefuseKeepsShort ==
  ASSUME QuotaInv, ShortInv, NEW c \in Callers, RefuseShort(c)
  PROVE  ShortInv'
<1>1. /\ UNCHANGED <<clock, count, res, reached, spent, mishaps>>
      /\ \A w \in ShortKinds : ~Limited(w) => entries'[w] = entries[w]
      /\ \A w \in ShortKinds : entries'[w] \in {entries[w], Kept(w)}
      /\ entries' = [w \in ShortKinds |-> entries'[w]]
  BY DEF RefuseShort
<1>2. SUFFICES ASSUME mishaps = 0
      PROVE  /\ \A x \in Int : IsFiniteSet(Calls(x)')
             /\ entries' \in [ShortKinds -> Seq(Times)]
             /\ \A w \in ShortKinds : Limited(w) => Window(w)'
  BY <1>1 DEF ShortInv, Limited, Counting
<1>3. \A x \in Int : Calls(x)' = Calls(x) /\ Late(x)' = Late(x)
  BY <1>1 DEF Calls, Late, Counting
<1>4. \A x \in Int : Used(x)' = Used(x)
  BY <1>3 DEF Used
<1>5. \A x \in Int : Used(x)' \in Nat /\ Used(x)' <= Used(x)
  BY <1>2, <1>4, UsedFacts
<1>6. clock' = clock /\ clock' \in Times /\ clock <= clock'
  BY <1>1, <1>2, ShortFacts
<1>7. ASSUME NEW w \in ShortKinds
      PROVE  entries'[w] \in Seq(Times) /\ (Limited(w) => Window(w)')
  <2>1. CASE entries'[w] = entries[w]
    <3>1. Limited(w) => Window(w)'
      BY <1>2, <1>5, <1>6, <2>1, WindowStays
    <3>2. QED BY <1>2, <2>1, <3>1, ShortFacts
  <2>2. CASE entries'[w] # entries[w]
    <3>1. Limited(w) /\ entries'[w] = Kept(w)
      BY <1>1, <2>2
    <3>2. QED BY <1>2, <1>4, <1>6, <3>1, WindowCleaned
  <2>3. QED BY <2>1, <2>2
<1>8. entries' \in [ShortKinds -> Seq(Times)]
  BY <1>1, <1>7
<1>9. \A x \in Int : IsFiniteSet(Calls(x)')
  BY <1>2, <1>3, UsedFacts
<1>10. QED BY <1>7, <1>8, <1>9

(* No window is full: each takes the reservation.                          *)
LEMMA TakeKeepsShort ==
  ASSUME QuotaInv, ShortInv, NEW c \in Callers, TakeShort(c)
  PROVE  ShortInv'
<1>1. /\ UNCHANGED <<clock, reached, mishaps>> /\ ~Counting(c)
      /\ \A w \in ShortKinds : ~Full(w)
      /\ entries' = [w \in ShortKinds |->
                       IF Limited(w) THEN Append(Kept(w), clock) ELSE entries[w]]
  BY DEF TakeShort, Counting
<1>2. SUFFICES ASSUME mishaps = 0 PROVE ShortInv'
  BY <1>1 DEF ShortInv
<1>3. /\ Counting(c)' /\ res'[c].at = clock
      /\ \A d \in Callers \ {c} : res'[d] = res[d]
  BY <1>2, ShortFacts DEF TakeShort, Counting
<1>4. \A x \in Int : Used(x)' = IF clock > x THEN Used(x) + 1 ELSE Used(x)
  BY <1>1, <1>2, <1>3, LateGrows
<1>5. ASSUME NEW w \in ShortKinds
      PROVE  entries'[w] \in Seq(Times) /\ (Limited(w) => Window(w)')
  <2>1. CASE Limited(w)
    <3>1. entries'[w] = Append(Kept(w), clock)
      BY <1>1, <2>1
    <3>2. QED BY <1>1, <1>2, <1>4, <2>1, <3>1, WindowTakes
  <2>2. CASE ~Limited(w)
    BY <1>1, <1>2, <2>2, ShortFacts
  <2>3. QED BY <2>1, <2>2
<1>6. entries' \in [ShortKinds -> Seq(Times)]
  <2>1. entries' = [w \in ShortKinds |-> entries'[w]]
    BY <1>1
  <2>2. QED BY <1>5, <2>1
<1>7. \A x \in Int : IsFiniteSet(Calls(x)')
  <2>1. \A x \in Int : Calls(x)' = Calls(x)
    BY <1>1 DEF Calls
  <2>2. QED BY <1>2, <2>1, UsedFacts
<1>8. ASSUME NEW d \in Callers, Counting(d)'
      PROVE  /\ res'[d].at \in Times /\ res'[d].at <= clock
             /\ \A w \in ShortKinds : Limited(w) => res'[d].at > clock - Span[w]
  <2>1. CASE d = c
    BY <1>2, <1>3, <2>1, ShortFacts
  <2>2. CASE d # c
    BY <1>2, <1>3, <1>8, <2>2 DEF ShortInv, Counting
  <2>3. QED BY <2>1, <2>2
<1>9. QED BY <1>1, <1>2, <1>5, <1>6, <1>7, <1>8 DEF ShortInv, Limited

(* A reservation is settled: by a call that was made, or by giving an      *)
(* entry back.                                                             *)
LEMMA SettledFacts ==
  ASSUME QuotaInv, ShortInv, mishaps = 0, NEW c \in Callers, Counting(c), ~Counting(c)', clock' = clock,
         \A d \in Callers \ {c} : res'[d] = res[d], mishaps' = 0,
         reached' \in [Times -> Nat], entries' \in [ShortKinds -> Seq(Times)],
         \A x \in Int : IsFiniteSet(Calls(x)'),
         \A w \in ShortKinds : Limited(w) => Window(w)'
  PROVE  ShortInv'
<1>1. ASSUME NEW d \in Callers, Counting(d)'
      PROVE  /\ res'[d].at \in Times /\ res'[d].at <= clock
             /\ \A w \in ShortKinds : Limited(w) => res'[d].at > clock - Span[w]
  <2>1. d # c
    BY <1>1
  <2>2. Counting(d) /\ res'[d] = res[d]
    BY <1>1, <2>1 DEF Counting
  <2>3. QED BY <2>2 DEF ShortInv
<1>2. QED BY <1>1 DEF ShortInv, Limited

(* A reservation whose call is not made gives the oldest entries back.     *)
LEMMA DropKeepsShort ==
  ASSUME QuotaInv, ShortInv, NEW c \in Callers, Counting(c), ~Counting(c)',
         \A d \in Callers \ {c} : res'[d] = res[d],
         entries' = Shortened, UNCHANGED <<clock, reached, mishaps>>
  PROVE  ShortInv'
<1>1. SUFFICES ASSUME mishaps = 0 PROVE ShortInv'
  BY DEF ShortInv
<1>2. \A x \in Int : Calls(x)' = Calls(x)
  BY DEF Calls
<1>3. ASSUME NEW x \in Int
      PROVE  /\ Used(x)' \in Nat
             /\ Used(x)' = IF res[c].at > x THEN Used(x) - 1 ELSE Used(x)
  <2>1. PICK m \in Nat, n \in Nat, k \in Nat :
          m = Cardinality(Calls(x)) /\ n = Cardinality(Late(x)) /\ k = Cardinality(Late(x)')
          /\ k = IF res[c].at > x THEN n - 1 ELSE n
    BY <1>1, UsedFacts, LateShrinks
  <2>2. Used(x) = m + n /\ Used(x)' = m + k
    BY <1>2, <2>1 DEF Used
  <2>3. m + k = IF res[c].at > x THEN (m + n) - 1 ELSE m + n
    BY <2>1
  <2>4. QED BY <2>2, <2>3
<1>4. ASSUME NEW w \in ShortKinds
      PROVE  entries'[w] \in Seq(Times) /\ (Limited(w) => Window(w)')
  <2>1. entries'[w] = Shortened[w]
    OBVIOUS
  <2>2. CASE Limited(w)
    BY <1>1, <1>3, <2>1, <2>2, WindowDrops
  <2>3. CASE ~Limited(w)
    BY <1>1, <2>1, <2>3, ShortFacts DEF Shortened
  <2>4. QED BY <2>2, <2>3
<1>5. entries' \in [ShortKinds -> Seq(Times)]
  <2>1. entries' = [w \in ShortKinds |-> entries'[w]]
    BY DEF Shortened
  <2>2. QED BY <1>4, <2>1
<1>6. \A x \in Int : IsFiniteSet(Calls(x)')
  BY <1>1, <1>2, UsedFacts
<1>7. reached' \in [Times -> Nat]
  BY <1>1, ShortFacts
<1>8. QED BY <1>1, <1>4, <1>5, <1>6, <1>7, SettledFacts

(* A call reaches the peer: what was reserved becomes used.                *)
LEMMA CommitKeepsShort ==
  ASSUME QuotaInv, ShortInv, NEW c \in Callers, Commit(c)
  PROVE  ShortInv'
<1>1. UNCHANGED <<clock, entries, mishaps>> /\ Counting(c) /\ Reach({c})
      /\ res' = [res EXCEPT ![c] = NoReservation]
  BY DEF Commit, Held, Counting
<1>2. SUFFICES ASSUME mishaps = 0 PROVE ShortInv'
  BY <1>1 DEF ShortInv
<1>3. ~Counting(c)' /\ \A d \in Callers \ {c} : res'[d] = res[d]
  BY <1>1, <1>2, ShortFacts DEF Counting, NoReservation
<1>4. PICK a \in Times : a = res[c].at
  BY <1>1, <1>2 DEF ShortInv
<1>5. /\ reached' \in [Times -> Nat] /\ reached'[a] = reached[a] + 1
      /\ \A t \in Times \ {a} : reached'[t] = reached[t]
  <2>1. reached' = [t \in Times |-> reached[t] + Cardinality({d \in {c} : res[d].at = t})]
    BY <1>1 DEF Reach, Quantify
  <2>2. Cardinality({d \in {c} : res[d].at = a}) = 1
    <3>1. {d \in {c} : res[d].at = a} = {c}
      BY <1>4
    <3>2. QED BY <3>1, FS_Singleton
  <2>3. ASSUME NEW t \in Times, t # a PROVE Cardinality({d \in {c} : res[d].at = t}) = 0
    <3>1. {d \in {c} : res[d].at = t} = {}
      BY <1>4, <2>3
    <3>2. QED BY <3>1, FS_EmptySet
  <2>4. reached \in [Times -> Nat]
    BY <1>2, ShortFacts
  <2>5. reached'[a] = reached[a] + 1
    BY <2>1, <2>2
  <2>6. ASSUME NEW t \in Times, t # a PROVE reached'[t] = reached[t]
    BY <2>1, <2>3, <2>4, <2>6
  <2>7. ASSUME NEW t \in Times PROVE reached'[t] \in Nat
    BY <2>4, <2>5, <2>6
  <2>8. reached' = [t \in Times |-> reached'[t]]
    BY <2>1
  <2>9. QED BY <2>5, <2>6, <2>7, <2>8
<1>6. PICK n \in Nat : n = reached[a] + 1 /\ reached'[a] = n
  BY <1>2, <1>5, ShortFacts
<1>7. ASSUME NEW x \in Int
      PROVE  IF a > x THEN Calls(x)' = Calls(x) \cup {<<a, n>>} /\ <<a, n>> \notin Calls(x)
             ELSE Calls(x)' = Calls(x)
  <2>1. ASSUME NEW p PROVE p \in Calls(x)' <=>
                             \E t \in Times : t > x /\ \E i \in 1..reached'[t] : p = <<t, i>>
    BY InCalls DEF Calls
  <2>2. \A i : i \in 1..reached'[a] <=> i \in 1..reached[a] \/ i = n
    BY <1>2, <1>6, ShortFacts
  <2>3. n \notin 1..reached[a]
    BY <1>2, <1>6, ShortFacts
  <2>4. ASSUME NEW p
        PROVE  p \in Calls(x)' <=> p \in Calls(x) \/ (a > x /\ p = <<a, n>>)
    BY <1>5, <2>1, <2>2, InCalls
  <2>5. <<a, n>> \notin Calls(x)
    BY <2>3, InCalls
  <2>6. QED BY <2>4, <2>5
<1>8. ASSUME NEW x \in Int
      PROVE  /\ IsFiniteSet(Calls(x)') /\ Cardinality(Calls(x)') \in Nat
             /\ Cardinality(Calls(x)') = IF a > x THEN Cardinality(Calls(x)) + 1
                                         ELSE Cardinality(Calls(x))
  <2>1. IsFiniteSet(Calls(x)) /\ Cardinality(Calls(x)) \in Nat
    BY <1>2, UsedFacts
  <2>2. CASE a > x
    <3>1. /\ IsFiniteSet(Calls(x) \cup {<<a, n>>})
          /\ Cardinality(Calls(x) \cup {<<a, n>>}) = Cardinality(Calls(x)) + 1
      BY <1>7, <2>1, <2>2, FS_AddElement
    <3>2. Calls(x)' = Calls(x) \cup {<<a, n>>}
      BY <1>7, <2>2
    <3>3. Cardinality(Calls(x)') = Cardinality(Calls(x)) + 1
      BY <3>1, <3>2, Zenon
    <3>4. IsFiniteSet(Calls(x)')
      BY <3>1, <3>2, Zenon
    <3>5. Cardinality(Calls(x)') \in Nat
      BY <2>1, <3>3
    <3>6. QED BY <2>2, <3>3, <3>4, <3>5
  <2>3. CASE ~(a > x)
    BY <1>7, <2>1, <2>3
  <2>4. QED BY <2>2, <2>3
<1>9. ASSUME NEW x \in Int PROVE Used(x)' \in Nat /\ Used(x)' <= Used(x)
  <2>1. PICK m \in Nat, i \in Nat, j \in Nat, k \in Nat :
          /\ m = Cardinality(Calls(x)) /\ i = Cardinality(Calls(x)')
          /\ j = Cardinality(Late(x)) /\ k = Cardinality(Late(x)')
          /\ i = (IF a > x THEN m + 1 ELSE m) /\ k = (IF a > x THEN j - 1 ELSE j)
    BY <1>1, <1>2, <1>3, <1>4, <1>8, UsedFacts, LateShrinks
  <2>2. i + k <= m + j
    BY <2>1
  <2>3. QED BY <2>1, <2>2 DEF Used
<1>10. clock' \in Times /\ clock <= clock' /\ entries' \in [ShortKinds -> Seq(Times)]
  BY <1>1, <1>2, ShortFacts
<1>11. \A w \in ShortKinds : Limited(w) => Window(w)'
  BY <1>1, <1>2, <1>9, <1>10, WindowStays
<1>12. QED BY <1>1, <1>2, <1>3, <1>5, <1>8, <1>10, <1>11, SettledFacts

(* Every step of the process keeps the invariant.                          *)
LEMMA ShortStep == Quick /\ QuotaInv /\ QuotaInv' /\ ShortInv /\ [Next]_vars => ShortInv'
<1>. SUFFICES ASSUME Quick, QuotaInv, QuotaInv', ShortInv, [Next]_vars PROVE ShortInv'
  OBVIOUS
<1>1. res \in [Callers -> Reservation] /\ mishaps \in Nat
  BY DEF QuotaInv, TypeInv, ShortInv
<1>2. CASE UNCHANGED vars
  BY <1>1, <1>2, ShortStays DEF vars, Counting
<1>3. ASSUME NEW c \in Callers, RefuseShort(c) \/ TakeShort(c) \/ Commit(c) PROVE ShortInv'
  BY <1>3, RefuseKeepsShort, TakeKeepsShort, CommitKeepsShort
<1>4. ASSUME NEW c \in Callers, GiveUp(c) PROVE ShortInv'
  <2>1. /\ Counting(c) /\ entries' = Shortened /\ UNCHANGED <<clock, reached, mishaps>>
        /\ res' = [res EXCEPT ![c] = NoReservation]
    BY <1>4 DEF GiveUp, Counting
  <2>2. ~Counting(c)' /\ \A d \in Callers \ {c} : res'[d] = res[d]
    BY <1>1, <2>1 DEF Counting, NoReservation
  <2>3. QED BY <2>1, <2>2, DropKeepsShort
<1>5. ASSUME NEW c \in Callers, Release(c) PROVE ShortInv'
  <2>1. /\ Counting(c) /\ entries' = Shortened /\ UNCHANGED <<clock, reached, mishaps>>
        /\ \/ res' = [res EXCEPT ![c] = NoReservation]
           \/ res' = [res EXCEPT ![c] = [@ EXCEPT !.phase = "returning"]]
    BY <1>5 DEF Release, Held, Counting
  <2>2. ~Counting(c)' /\ \A d \in Callers \ {c} : res'[d] = res[d]
    BY <1>1, <2>1 DEF Counting, NoReservation, Reservation
  <2>3. QED BY <2>1, <2>2, DropKeepsShort
<1>6. ASSUME NEW c \in Callers, NEW ok \in BOOLEAN, Ask(c, ok) PROVE ShortInv'
  <2>1. UNCHANGED <<entries, clock, reached>> /\ res[c].phase = "asking"
    BY <1>6 DEF Ask, Asking
  <2>2. mishaps' \in Nat /\ (mishaps' = 0 => mishaps = 0)
    BY <1>1, <1>6 DEF Ask, Works
  <2>3. /\ res'[c].phase \in {"asking", "refused"} /\ res'[c].at = res[c].at
        /\ \A d \in Callers \ {c} : res'[d] = res[d]
    BY <1>1, <1>6, <2>1 DEF Ask, Reservation
  <2>4. \A d \in Callers : /\ Counting(d)' => Counting(d) /\ res'[d].at = res[d].at
                           /\ Counting(d) => Counting(d)'
    BY <2>1, <2>3 DEF Counting
  <2>5. QED BY <2>1, <2>2, <2>4, ShortStays
<1>7. ASSUME NEW c \in Callers, NEW ok \in BOOLEAN, ReturnLong(c, ok) PROVE ShortInv'
  <2>1. UNCHANGED <<entries, clock, reached>> /\ res[c].phase = "returning"
    BY <1>7 DEF ReturnLong
  <2>2. mishaps' \in Nat /\ (mishaps' = 0 => mishaps = 0)
    BY <1>1, <1>7 DEF ReturnLong, Works
  <2>3. \/ res' = [res EXCEPT ![c] = NoReservation]
        \/ \E w : res' = [res EXCEPT ![c].taken = @ \ {w}]
    BY <1>7 DEF ReturnLong
  <2>4. /\ res'[c].phase \in {"none", "returning"}
        /\ \A d \in Callers \ {c} : res'[d] = res[d]
    BY <1>1, <2>1, <2>3 DEF NoReservation, Reservation
  <2>5. \A d \in Callers : /\ Counting(d)' => Counting(d) /\ res'[d].at = res[d].at
                           /\ Counting(d) => Counting(d)'
    BY <2>1, <2>4 DEF Counting
  <2>6. QED BY <2>1, <2>2, <2>5, ShortStays
<1>8. CASE Crash
  <2>1. mishaps' \in Nat /\ mishaps' # 0
    BY <1>1, <1>8 DEF Crash
  <2>2. QED BY <2>1 DEF ShortInv
<1>9. CASE Tick
  BY <1>9, TickKeepsShort
<1>10. QED BY <1>2, <1>3, <1>4, <1>5, <1>6, <1>7, <1>8, <1>9 DEF Next

(* ShortKept: if every reservation is settled while it still counts, no    *)
(* sliding window is overspent, in whichever order reservations are        *)
(* settled and whatever is given back (TryReserve, releaseShort).          *)
THEOREM SlidingKept == ASSUME Quick PROVE Spec => []ShortKept
<1>1. QuotaInv /\ QuotaInv' /\ ShortInv /\ [Next]_vars => ShortInv'
  BY ShortStep
<1>2. QED BY <1>1, ShortInit, ShortSuffices, QuotaHolds, PTL DEF Spec
-----------------------------------------------------------------------------
(* The types.                                                              *)

(* What is kept in memory and in the history: the entries of a window are  *)
(* times, in order and not to come, whatever fails.                        *)
MemoryInv ==
  /\ entries \in [ShortKinds -> Seq(Times)] /\ reached \in [Times -> Nat] /\ mishaps \in Nat
  /\ \A w \in ShortKinds : Sorted(entries[w]) /\ \A i \in DOMAIN entries[w] : entries[w][i] <= clock

(* It is so at the start.                                                  *)
LEMMA MemoryInit == Init => MemoryInv
BY DEF Init, MemoryInv, Sorted

(* A step keeps it if it keeps what it leaves in each window.              *)
LEMMA MemoryKept ==
  ASSUME NEW e, e \in [ShortKinds -> Seq(Times)], entries' = e, clock' = clock,
         \A w \in ShortKinds : Sorted(e[w]) /\ \A i \in DOMAIN e[w] : e[w][i] <= clock,
         reached' \in [Times -> Nat], mishaps' \in Nat
  PROVE  MemoryInv'
BY DEF MemoryInv

(* What a window may become.                                               *)
LEMMA WindowTypes ==
  ASSUME clock \in Times, MemoryInv, NEW w \in ShortKinds,
         NEW s, s \in {entries[w], Kept(w), Append(Kept(w), clock), Shortened[w], <<>>}
  PROVE  s \in Seq(Times) /\ Sorted(s) /\ \A i \in DOMAIN s : s[i] <= clock
<1>1. PICK z \in Seq(Times), t \in Times, b \in Int :
        z = entries[w] /\ t = clock /\ b = clock - Span[w]
  BY SpanIs, TimesAreInts DEF MemoryInv
<1>2. Sorted(z) /\ \A i \in DOMAIN z : z[i] <= t
  BY <1>1 DEF MemoryInv
<1>3. PICK y \in Seq(Times) : y = Younger(z, b) /\ Sorted(y) /\ \A i \in DOMAIN y : y[i] <= t
  BY <1>2, YoungerFacts
<1>4. Kept(w) = y
  BY <1>1, <1>3 DEF Kept
<1>5. PICK x \in Seq(Times) : x = Append(y, t) /\ Sorted(x) /\ \A i \in DOMAIN x : x[i] <= t
  BY <1>3, AppendFacts
<1>6. CASE s = Shortened[w] /\ Limited(w) /\ z # <<>>
  <2>1. s = Tail(z)
    BY <1>1, <1>6 DEF Shortened
  <2>2. PICK v \in Seq(Times) : v = Tail(z) /\ Sorted(v) /\ \A i \in DOMAIN v : v[i] <= t
    BY <1>2, <1>6, TailFacts
  <2>3. QED BY <1>1, <2>1, <2>2
<1>7. CASE s = Shortened[w] /\ ~(Limited(w) /\ z # <<>>)
  <2>1. s = z
    BY <1>1, <1>7 DEF Shortened
  <2>2. QED BY <1>1, <1>2, <2>1
<1>8. CASE s = <<>>
  BY <1>8 DEF Sorted
<1>9. CASE s = entries[w]
  BY <1>1, <1>2, <1>9
<1>10. CASE s = Kept(w)
  BY <1>1, <1>3, <1>4, <1>10
<1>11. CASE s = Append(Kept(w), clock)
  BY <1>1, <1>4, <1>5, <1>11
<1>12. CASE s = Shortened[w]
  BY <1>6, <1>7, <1>12
<1>13. s = entries[w] \/ s = Kept(w) \/ s = Append(Kept(w), clock) \/ s = Shortened[w] \/ s = <<>>
  OBVIOUS
<1>14. QED BY <1>8, <1>9, <1>10, <1>11, <1>12, <1>13

(* Calls that reach the peer are counted by the time of their reservation. *)
LEMMA ReachTypes ==
  ASSUME QuotaInv, MemoryInv, NEW S \in SUBSET Callers, Reach(S)
  PROVE  reached' \in [Times -> Nat]
<1>1. ASSUME NEW t \in Times PROVE reached[t] + Cardinality({c \in S : res[c].at = t}) \in Nat
  <2>1. {c \in S : res[c].at = t} \in SUBSET Callers
    OBVIOUS
  <2>2. IsFiniteSet({c \in S : res[c].at = t})
    BY <2>1, QuotaAssumption, FS_Subset DEF QuotaAssumption
  <2>3. PICK n \in Nat : n = Cardinality({c \in S : res[c].at = t})
    BY <2>2, FS_CardinalityType
  <2>4. PICK m \in Nat : m = reached[t]
    BY DEF MemoryInv
  <2>5. QED BY <2>3, <2>4
<1>2. reached' = [t \in Times |-> reached[t] + Cardinality({c \in S : res[c].at = t})]
  BY DEF Reach, Quantify
<1>3. QED BY <1>1, <1>2

(* Every step keeps it.                                                    *)
LEMMA MemoryStep == QuotaInv /\ MemoryInv /\ [Next]_vars => MemoryInv'
<1>. SUFFICES ASSUME QuotaInv, MemoryInv, [Next]_vars PROVE MemoryInv'
  OBVIOUS
<1>1. /\ clock \in Times /\ entries \in [ShortKinds -> Seq(Times)]
      /\ reached \in [Times -> Nat] /\ mishaps \in Nat
  BY DEF QuotaInv, TypeInv, MemoryInv
<1>2. ASSUME clock' = clock, reached' \in [Times -> Nat], mishaps' \in Nat,
             NEW e, entries' = e, e = [w \in ShortKinds |-> e[w]],
             \A w \in ShortKinds :
               e[w] \in {entries[w], Kept(w), Append(Kept(w), clock), Shortened[w], <<>>}
      PROVE  MemoryInv'
  <2>1. \A w \in ShortKinds :
          e[w] \in Seq(Times) /\ Sorted(e[w]) /\ \A i \in DOMAIN e[w] : e[w][i] <= clock
    BY <1>1, <1>2, WindowTypes
  <2>2. e \in [ShortKinds -> Seq(Times)]
    BY <1>2, <2>1
  <2>3. QED BY <1>2, <2>1, <2>2, MemoryKept
<1>3. ASSUME entries' = entries, clock' = clock, reached' \in [Times -> Nat], mishaps' \in Nat
      PROVE  MemoryInv'
  BY <1>1, <1>2, <1>3
<1>4. ASSUME NEW c \in Callers, RefuseShort(c) PROVE MemoryInv'
  <2>1. PICK n \in DOMAIN Shorts :
          entries' = [w \in ShortKinds |->
                        IF Limited(w) /\ \E j \in 1..n : Shorts[j] = w
                        THEN Kept(w) ELSE entries[w]]
    BY <1>4 DEF RefuseShort
  <2>2. UNCHANGED <<clock, reached, mishaps>>
    BY <1>4 DEF RefuseShort
  <2>3. PICK e : e = entries'
    OBVIOUS
  <2>4. e = [w \in ShortKinds |-> e[w]]
        /\ \A w \in ShortKinds : e[w] \in {entries[w], Kept(w)}
    BY <2>1, <2>3
  <2>5. QED BY <1>1, <1>2, <2>2, <2>3, <2>4
<1>5. ASSUME NEW c \in Callers, TakeShort(c) PROVE MemoryInv'
  <2>1. PICK e : e = entries'
    OBVIOUS
  <2>2. e = [w \in ShortKinds |-> e[w]]
        /\ \A w \in ShortKinds : e[w] \in {entries[w], Append(Kept(w), clock)}
    BY <1>5, <2>1 DEF TakeShort
  <2>3. UNCHANGED <<clock, reached, mishaps>>
    BY <1>5 DEF TakeShort
  <2>4. QED BY <1>1, <1>2, <2>1, <2>2, <2>3
<1>6. ASSUME NEW c \in Callers, GiveUp(c) \/ Release(c) PROVE MemoryInv'
  <2>1. Shortened = [w \in ShortKinds |-> Shortened[w]]
    BY DEF Shortened
  <2>2. entries' = Shortened /\ UNCHANGED <<clock, reached, mishaps>>
    BY <1>6 DEF GiveUp, Release
  <2>3. PICK e : e = Shortened
    OBVIOUS
  <2>4. e = [w \in ShortKinds |-> e[w]] /\ \A w \in ShortKinds : e[w] = Shortened[w]
    BY <2>1, <2>3
  <2>5. QED BY <1>1, <1>2, <2>2, <2>3, <2>4
<1>7. ASSUME NEW c \in Callers, NEW ok \in BOOLEAN, Ask(c, ok) \/ ReturnLong(c, ok)
      PROVE  MemoryInv'
  <2>1. UNCHANGED <<clock, entries, reached>> /\ mishaps' \in Nat
    BY <1>1, <1>7 DEF Ask, ReturnLong, Works
  <2>2. QED BY <1>1, <1>3, <2>1
<1>8. ASSUME NEW c \in Callers, Commit(c) PROVE MemoryInv'
  <2>1. Reach({c}) /\ UNCHANGED <<clock, entries, mishaps>>
    BY <1>8 DEF Commit
  <2>2. QED BY <1>1, <1>3, <2>1, ReachTypes
<1>9. CASE Crash
  <2>1. PICK S \in SUBSET {c \in Callers : Held(c)} : Reach(S)
    BY <1>9 DEF Crash
  <2>2. reached' \in [Times -> Nat]
    BY <2>1, ReachTypes
  <2>3. /\ clock' = clock /\ mishaps' \in Nat
        /\ entries' = [w \in ShortKinds |-> <<>>]
    BY <1>1, <1>9 DEF Crash
  <2>4. PICK e : e = [w \in ShortKinds |-> <<>>]
    OBVIOUS
  <2>5. e = [w \in ShortKinds |-> e[w]] /\ \A w \in ShortKinds : e[w] = <<>>
    BY <2>4
  <2>6. QED BY <1>2, <2>2, <2>3, <2>4, <2>5
<1>10. CASE Tick
  <2>1. UNCHANGED <<entries, reached, mishaps>> /\ clock' = clock + 1
    BY <1>10 DEF Tick
  <2>2. ASSUME NEW w \in ShortKinds PROVE \A i \in DOMAIN entries[w] : entries[w][i] <= clock + 1
    <3>1. entries[w] \in Seq(Times) /\ \A i \in DOMAIN entries[w] : entries[w][i] <= clock
      BY DEF MemoryInv
    <3>2. \A i \in DOMAIN entries[w] : entries[w][i] \in Int
      BY <3>1, EntryFacts
    <3>3. QED BY <1>1, <3>1, <3>2, TimesAreInts
  <2>3. QED BY <2>1, <2>2 DEF MemoryInv
<1>11. CASE UNCHANGED vars
  BY <1>1, <1>3, <1>11 DEF vars
<1>12. QED BY <1>4, <1>5, <1>6, <1>7, <1>8, <1>9, <1>10, <1>11 DEF Next

(* TypeOK: no entry, no counter and no reservation leaves its range, also  *)
(* when the store fails and the process dies: a counter is never taken     *)
(* below zero (ReleaseCounter).                                            *)
THEOREM TypeCorrect == Spec => []TypeOK
<1>1. QuotaInv /\ MemoryInv => TypeOK
  BY DEF QuotaInv, TypeInv, MemoryInv, TypeOK
<1>2. QED BY <1>1, MemoryInit, MemoryStep, QuotaHolds, PTL DEF Spec
=============================================================================
