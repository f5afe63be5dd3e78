------------------------------- MODULE Quota -------------------------------
(***************************************************************************)
(* The send allowance of one channel: internal/quota/quota.go over the     *)
(* counters of internal/store/sqlite/quota.go.                             *)
(*                                                                         *)
(* A delivery reserves before it calls the channel and settles by what     *)
(* came of the call: Commit when the peer was reached, Release when it was *)
(* not.  Short windows slide and live in memory as the times of the        *)
(* reservations; long windows are fixed periods, counted in the store.     *)
(*                                                                         *)
(* The short windows of one reservation are checked and recorded under one *)
(* lock; each access to the store is a transaction of its own, and other   *)
(* deliveries work in between.                                             *)
(***************************************************************************)
EXTENDS Integers, Sequences, FiniteSetsExt

CONSTANTS
  Callers,     \* concurrent deliveries
  Shorts,      \* the sliding windows, in the order they are checked
  Longs,       \* the fixed periods, in the order they are asked for
  Span,        \* how long each of them is
  Limit,       \* what each of them allows; 0 is unlimited
  Quick,       \* every reservation is settled while it still counts
  Horizon,     \* bound: last clock value
  MaxMishaps   \* bound: crashes and store accesses that fail

ShortKinds == {Shorts[i] : i \in DOMAIN Shorts}
LongKinds  == {Longs[i] : i \in DOMAIN Longs}
Kinds      == ShortKinds \cup LongKinds

ASSUME QuotaAssumption ==
  /\ IsFiniteSet(Callers)
  /\ Shorts \in Seq(ShortKinds) /\ Longs \in Seq(LongKinds)
  /\ Span \in [Kinds -> Nat \ {0}] /\ Limit \in [Kinds -> Nat]
  /\ Quick \in BOOLEAN /\ Horizon \in Nat \ {0} /\ MaxMishaps \in Nat

VARIABLES
  clock,
  entries,   \* channelWindows: the reservations each sliding window counts
  count,     \* the rows of quota_counters
  res,       \* the Reservation of each delivery
  reached,   \* how many calls, reserved at each time, reached the peer
  spent,     \* how many of them fall in each period of each long window
  mishaps,   \* how many mishaps happened
  blind      \* whether an access to the store has failed

vars == <<clock, entries, count, res, reached, spent, mishaps, blind>>

-----------------------------------------------------------------------------
Times == 1..Horizon

(* periodKey: the period of a long window that a time falls in.            *)
Period(w, t) == t \div Span[w]
Periods == 0..Horizon

(* "asking" goes through the long windows; once all were asked the         *)
(* reservation is held.  taken are the long windows that counted it.       *)
Reservation ==
  [phase : {"none", "asking", "refused", "returning"}, at : Times \cup {0},
   asked : Nat, taken : SUBSET LongKinds]

NoReservation == [phase |-> "none", at |-> 0, asked |-> 0, taken |-> {}]

TypeOK ==
  /\ clock \in Times
  /\ entries \in [ShortKinds -> Seq(Times)]
  /\ count \in [LongKinds -> [Periods -> Nat]]
  /\ res \in [Callers -> Reservation]
  /\ reached \in [Times -> Nat]
  /\ spent \in [LongKinds -> [Periods -> Nat]]
  /\ mishaps \in Nat /\ blind \in BOOLEAN

Init ==
  /\ clock = 1
  /\ entries = [w \in ShortKinds |-> <<>>]
  /\ count = [w \in LongKinds |-> [p \in Periods |-> 0]]
  /\ res = [c \in Callers |-> NoReservation]
  /\ reached = [t \in Times |-> 0]
  /\ spent = count
  /\ mishaps = 0 /\ blind = FALSE

-----------------------------------------------------------------------------
(* TryReserve: the short windows.                                          *)

Limited(w) == Limit[w] > 0

(* channelWindows.count goes through the entries and drops what has aged   *)
(* out.                                                                    *)
Younger(s, cutoff) ==
  LET kept[i \in 0..Len(s)] ==
        IF i = 0 THEN <<>>
        ELSE IF s[i] > cutoff THEN Append(kept[i - 1], s[i]) ELSE kept[i - 1]
  IN kept[Len(s)]

Kept(w) == Younger(entries[w], clock - Span[w])

(* Slip: one too many.                                                     *)
FullBeyond(w) == Limited(w) /\ Len(Kept(w)) > Limit[w]

Full(w) == Limited(w) /\ Len(Kept(w)) >= Limit[w]

(* A window is full: the ones before it and itself have been cleaned.      *)
RefuseShort(c) ==
  /\ res[c].phase = "none"
  /\ \E i \in DOMAIN Shorts :
       /\ Full(Shorts[i])
       /\ \A j \in 1..(i - 1) : ~Full(Shorts[j])
       /\ entries' = [w \in ShortKinds |->
                        IF Limited(w) /\ \E j \in 1..i : Shorts[j] = w
                        THEN Kept(w) ELSE entries[w]]
  /\ UNCHANGED <<clock, count, res, reached, spent, mishaps, blind>>

TakeShort(c) ==
  /\ res[c].phase = "none"
  /\ \A w \in ShortKinds : ~Full(w)
  /\ entries' = [w \in ShortKinds |->
                   IF Limited(w) THEN Append(Kept(w), clock) ELSE entries[w]]
  /\ res' = [res EXCEPT ![c] = [phase |-> "asking", at |-> clock,
                                asked |-> 0, taken |-> {}]]
  /\ UNCHANGED <<clock, count, reached, spent, mishaps, blind>>

-----------------------------------------------------------------------------
(* TryReserve: the long windows, one transaction each.                     *)

Works(ok) ==
  IF ok THEN UNCHANGED <<mishaps, blind>>
  ELSE mishaps < MaxMishaps /\ mishaps' = mishaps + 1 /\ blind' = TRUE

Asking(c) == res[c].phase = "asking" /\ res[c].asked < Len(Longs)

(* TryConsumeCounter.  A window without a limit is not asked; one that     *)
(* cannot be read lets the call through and does not count it.             *)
Ask(c, ok) ==
  /\ Asking(c)
  /\ LET w == Longs[res[c].asked + 1]
         p == Period(w, res[c].at) IN
     \/ /\ ok /\ ~Limited(w)
        /\ res' = [res EXCEPT ![c].asked = @ + 1]
        /\ UNCHANGED count
     \/ /\ ~ok /\ Limited(w)
        /\ res' = [res EXCEPT ![c].asked = @ + 1]
        /\ UNCHANGED count
     \/ /\ ok /\ Limited(w) /\ count[w][p] < Limit[w]
        /\ res' = [res EXCEPT ![c].asked = @ + 1, ![c].taken = @ \cup {w}]
        /\ count' = [count EXCEPT ![w][p] = @ + 1]
     \/ /\ ok /\ Limited(w) /\ count[w][p] >= Limit[w]
        /\ res' = [res EXCEPT ![c].phase = "refused"]
        /\ UNCHANGED count
  /\ Works(ok)
  /\ UNCHANGED <<clock, entries, reached, spent>>

(* releaseShort: the oldest entry of each window.                          *)
Shortened == [w \in ShortKinds |->
                IF Limited(w) /\ entries[w] # <<>> THEN Tail(entries[w])
                ELSE entries[w]]

(* After a refusal the short windows are given back, the long ones not.    *)
GiveUp(c) ==
  /\ res[c].phase = "refused"
  /\ entries' = Shortened
  /\ res' = [res EXCEPT ![c] = NoReservation]
  /\ UNCHANGED <<clock, count, reached, spent, mishaps, blind>>

-----------------------------------------------------------------------------
(* Commit and Release.                                                     *)

Held(c) == res[c].phase = "asking" /\ res[c].asked = Len(Longs)

(* The calls of S reached the peer.                                        *)
Reach(S) ==
  /\ reached' = [t \in Times |-> reached[t] + Quantify(S, LAMBDA c : res[c].at = t)]
  /\ spent' = [w \in LongKinds |-> [p \in Periods |->
                 spent[w][p] + Quantify(S, LAMBDA c : Period(w, res[c].at) = p)]]

Commit(c) ==
  /\ Held(c)
  /\ Reach({c})
  /\ res' = [res EXCEPT ![c] = NoReservation]
  /\ UNCHANGED <<clock, entries, count, mishaps, blind>>

(* Slip: only the windows in memory are given back.                        *)
ReleaseInMemory(c) ==
  /\ Held(c)
  /\ entries' = Shortened
  /\ res' = [res EXCEPT ![c] = NoReservation]
  /\ UNCHANGED <<clock, count, reached, spent, mishaps, blind>>

Release(c) ==
  /\ Held(c)
  /\ entries' = Shortened
  /\ res' = [res EXCEPT ![c] = IF res[c].taken = {} THEN NoReservation
                               ELSE [@ EXCEPT !.phase = "returning"]]
  /\ UNCHANGED <<clock, count, reached, spent, mishaps, blind>>

(* Slip: the unit goes back to the period the clock is in.                 *)
ReturnedNow(w, t) == [count EXCEPT ![w][Period(w, clock)] = @ - 1]

(* ReleaseCounter: to the period the unit was taken from.                  *)
Returned(w, t) == [count EXCEPT ![w][Period(w, t)] = IF @ > 0 THEN @ - 1 ELSE @]

ReturnLong(c, ok) ==
  /\ res[c].phase = "returning"
  /\ Works(ok)
  /\ \E i \in DOMAIN Longs :
       /\ Longs[i] \in res[c].taken
       /\ \A j \in 1..(i - 1) : Longs[j] \notin res[c].taken
       /\ count' = IF ok THEN Returned(Longs[i], res[c].at) ELSE count
       /\ res' = IF res[c].taken = {Longs[i]}
                 THEN [res EXCEPT ![c] = NoReservation]
                 ELSE [res EXCEPT ![c].taken = @ \ {Longs[i]}]
  /\ UNCHANGED <<clock, entries, reached, spent>>

-----------------------------------------------------------------------------
(* The process and the clock.                                              *)

(* The process ends: what lived in memory is gone.  Any of the calls under *)
(* way may have reached the peer.                                          *)
Crash ==
  /\ mishaps < MaxMishaps
  /\ mishaps' = mishaps + 1
  /\ entries' = [w \in ShortKinds |-> <<>>]
  /\ \E S \in SUBSET {c \in Callers : Held(c)} : Reach(S)
  /\ res' = [c \in Callers |-> NoReservation]
  /\ UNCHANGED <<clock, count, blind>>

Counting(c) == res[c].phase \in {"asking", "refused"}

Tick ==
  /\ clock < Horizon
  /\ Quick => \A c \in Callers : Counting(c) =>
                \A w \in ShortKinds : Limited(w) => res[c].at > clock + 1 - Span[w]
  /\ clock' = clock + 1
  /\ UNCHANGED <<entries, count, res, reached, spent, mishaps, blind>>

Next ==
  \/ \E c \in Callers : RefuseShort(c) \/ TakeShort(c) \/ GiveUp(c)
                        \/ Commit(c) \/ Release(c)
  \/ \E c \in Callers, ok \in BOOLEAN : Ask(c, ok) \/ ReturnLong(c, ok)
  \/ Crash
  \/ Tick

Spec == Init /\ [][Next]_vars

-----------------------------------------------------------------------------
(* Properties.                                                             *)

Holders == {c \in Callers : Held(c)}

(* What the peer allows is never exceeded in a sliding window, counting    *)
(* the calls under way: the reservations of the last Span, whichever order *)
(* they are settled in (TryReserve, releaseShort).                         *)
Calls(x) == UNION {{t} \X (1..reached[t]) : t \in {u \in Times : u > x}}

ShortKept ==
  mishaps = 0 => \A w \in ShortKinds : Limited(w) =>
    LET x == clock - Span[w] IN
    Cardinality(Calls(x)) + Quantify(Holders, LAMBDA c : res[c].at > x) <= Limit[w]

(* Nor in a day or a month, as long as the store answers: two deliveries   *)
(* cannot take the last unit, a unit goes back where it came from, and a   *)
(* restart forgets nothing (TryConsumeCounter; README.en.md, "a restart    *)
(* must not forget what was already spent").                               *)
LongKept ==
  ~blind => \A w \in LongKinds, p \in Periods : Limited(w) =>
    spent[w][p] + Quantify(Holders, LAMBDA c : Period(w, res[c].at) = p)
      <= Limit[w]

(* And it is not charged for more than that: the counter asked last is     *)
(* what was spent and what is reserved.  A delivery the peer never saw     *)
(* costs nothing in the end (Release; settle).                             *)
Charged(w, p) ==
  spent[w][p] + Quantify(Callers, LAMBDA c : w \in res[c].taken
                                             /\ Period(w, res[c].at) = p)

LastExact ==
  mishaps = 0 =>
    LET w == Longs[Len(Longs)] IN
    Limited(w) => \A p \in Periods : count[w][p] = Charged(w, p)
=============================================================================
