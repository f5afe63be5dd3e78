---------------------------- MODULE NotifyProofs ----------------------------
(***************************************************************************)
(* What holds of Notify for any number of calls and keys, any requests and *)
(* sets of channels, and any retention.                                    *)
(***************************************************************************)
EXTENDS Notify, TLAPS

(* The shape of what the table and the histories keep.                     *)
Shape ==
  /\ clock \in Nat \ {0}
  /\ key \in [Calls -> Keys \cup {"none"}]
  /\ pc \in [Calls -> Steps]
  /\ records \in [Keys -> [of : Calls \cup {"none"}, status : Statuses, at : Nat]]
  /\ acted \in [Calls -> Nat] /\ stored \in [Calls -> Nat]
  /\ \A c \in Calls : acted[c] <= clock

(* A record is of the call that stored it.                                 *)
Kept ==
  \A k \in Keys : LET c == records[k].of IN
    c # "none" => key[c] = k /\ stored[c] = records[k].at

(* What was stored and is no longer there had its time.                    *)
Gone ==
  \A c \in Calls : stored[c] # 0 =>
    /\ key[c] \in Keys
    /\ records[key[c]].of # c => clock - stored[c] > Retention

TableInv == Shape /\ Kept /\ Gone /\ RecordsStand

-----------------------------------------------------------------------------
(* The record table.                                                       *)

(* The steps that touch neither the table nor the histories.               *)
Quiet == UNCHANGED <<key, records, stored, clock>>

LEMMA QuietKeepsTable ==
  ASSUME TableInv, Quiet,
         pc' \in [Calls -> Steps], acted' \in [Calls -> Nat],
         \A c \in Calls : acted'[c] <= clock
  PROVE  TableInv'
BY DEF TableInv, Quiet, Shape, Kept, Gone, RecordsStand, Repeats, Apart

(* How a call of the handler moves.                                        *)
LEMMA Moving ==
  ASSUME Shape, NEW c \in Calls, NEW s \in Steps, Goto(c, s)
  PROVE  pc' \in [Calls -> Steps]
BY DEF Shape, Goto

LEMMA ActingNow ==
  ASSUME Shape, NEW c \in Calls, ActedNow(c)
  PROVE  /\ acted' \in [Calls -> Nat] /\ \A d \in Calls : acted'[d] <= clock
         /\ \A d \in Calls : d # c => acted'[d] = acted[d]
         /\ acted'[c] = IF acted[c] = 0 THEN clock ELSE acted[c]
BY DEF Shape, ActedNow

LEMMA PutKeepsTable ==
  ASSUME TableInv, NEW c \in Calls, key[c] # "none", Put(c),
         UNCHANGED <<key, clock, acted>>, pc' \in [Calls -> Steps]
  PROVE  TableInv'
<1>1. key[c] \in Keys
  BY DEF TableInv, Shape
<1>2. CASE records[key[c]].of # "none"
  BY <1>2, QuietKeepsTable DEF TableInv, Shape, Put, Quiet
<1>3. CASE records[key[c]].of = "none"
  <2>1. SUFFICES ASSUME NEW r, r = [of |-> c, status |-> Status(c), at |-> clock],
                        records' = [records EXCEPT ![key[c]] = r],
                        stored' = [stored EXCEPT ![c] = clock]
                 PROVE  TableInv'
    BY <1>3 DEF Put
  <2>2. r \in [of : Calls \cup {"none"}, status : Statuses, at : Nat]
        /\ r.of = c /\ r.at = clock
    BY <2>1 DEF TableInv, Shape, Status, Statuses
  <2>3. Shape'
    BY <1>1, <2>1, <2>2 DEF TableInv, Shape
  <2>4. Kept'
    BY <1>1, <1>3, <2>1, <2>2 DEF TableInv, Shape, Kept
  <2>5. \A d \in Calls : d # c /\ key[d] = key[c] /\ stored[d] # 0 =>
          clock - stored[d] > Retention
    BY <1>3, NotifyAssumption DEF TableInv, Gone
  <2>6. Gone'
    BY <1>1, <1>3, <2>1, <2>2, <2>5 DEF TableInv, Shape, Gone
  <2>7. RecordsStand'
    BY <2>1, <2>5, NotifyAssumption DEF TableInv, Shape, RecordsStand, Repeats, Apart
  <2>8. QED BY <2>3, <2>4, <2>6, <2>7 DEF TableInv
<1>4. QED BY <1>2, <1>3

LEMMA PruneKeepsTable == TableInv /\ Prune => TableInv'
<1>1. SUFFICES ASSUME TableInv, Prune PROVE TableInv'
  OBVIOUS
<1>2. /\ UNCHANGED <<key, clock, acted, stored, pc>>
      /\ records' = [k \in Keys |-> IF Expired(k) THEN NoRecord ELSE records[k]]
  BY <1>1 DEF Prune, asked, locals, history
<1>3. NoRecord \in [of : Calls \cup {"none"}, status : Statuses, at : Nat]
      /\ NoRecord.of = "none"
  BY DEF NoRecord, Statuses
<1>4. Shape' /\ Kept'
  BY <1>1, <1>2, <1>3 DEF TableInv, Shape, Kept
<1>5. Gone'
  BY <1>1, <1>2, <1>3, NotifyAssumption DEF TableInv, Shape, Kept, Gone, Expired
<1>6. RecordsStand'
  BY <1>1, <1>2 DEF TableInv, RecordsStand, Repeats
<1>7. QED BY <1>4, <1>5, <1>6 DEF TableInv

LEMMA TableInitially == Init => TableInv
BY DEF Init, TableInv, Shape, Kept, Gone, RecordsStand, NoRecord, Steps, Statuses

LEMMA TableStep == TableInv /\ [Next]_vars => TableInv'
<1>1. SUFFICES ASSUME TableInv, [Next]_vars PROVE TableInv'
  OBVIOUS
<1>2. Shape
  BY <1>1 DEF TableInv
<1>3. ASSUME NEW c \in Calls, Begin(c) \/ Resolve(c) \/ Check(c) \/ Panic(c) \/ Collect(c)
      PROVE  TableInv'
  <2>1. Quiet /\ UNCHANGED acted
    BY <1>3 DEF Begin, Resolve, Check, Panic, Collect, Quiet, asked, tables, history
  <2>2. pc' \in [Calls -> Steps]
    BY <1>2, <1>3, Moving DEF Begin, Resolve, Check, Panic, Collect, Note, Steps
  <2>3. QED BY <1>1, <1>2, <2>1, <2>2, QuietKeepsTable DEF Shape
<1>4. ASSUME NEW c \in Calls, Decide(c) \/ \E ok \in BOOLEAN : Lookup(c, ok)
      PROVE  TableInv'
  <2>1. Quiet /\ UNCHANGED acted
    BY <1>4 DEF Decide, Lookup, Quiet, asked, tables, history
  <2>2. pc' \in [Calls -> Steps]
    BY <1>2, <1>4, Moving DEF Decide, Lookup, Answer, Steps
  <2>3. QED BY <1>1, <1>2, <2>1, <2>2, QuietKeepsTable DEF Shape
<1>5. ASSUME NEW c \in Calls, Lose(c) PROVE TableInv'
  BY <1>1, <1>2, <1>5, QuietKeepsTable DEF Lose, Quiet, asked, tables, history, Shape
<1>6. ASSUME NEW c \in Calls, NEW i, DeliverNow(c, i) PROVE TableInv'
  BY <1>1, <1>2, <1>6, QuietKeepsTable, ActingNow DEF DeliverNow, Quiet, asked, tables, Shape
<1>7. ASSUME NEW c \in Calls, NEW ok \in BOOLEAN, Enqueue(c, ok) PROVE TableInv'
  <2>1. Quiet
    BY <1>7 DEF Enqueue, Quiet, asked
  <2>2. pc' \in [Calls -> Steps]
    BY <1>2, <1>7, Moving DEF Enqueue, TurnAway, Answer, Steps
  <2>3. acted' \in [Calls -> Nat] /\ \A d \in Calls : acted'[d] <= clock
    BY <1>2, <1>7, ActingNow DEF Enqueue, Shape
  <2>4. QED BY <1>1, <2>1, <2>2, <2>3, QuietKeepsTable
<1>8. ASSUME NEW c \in Calls, NEW ok \in BOOLEAN, Record(c, ok) PROVE TableInv'
  <2>1. UNCHANGED <<key, clock, acted>>
    BY <1>8 DEF Record, asked
  <2>2. pc' \in [Calls -> Steps]
    BY <1>2, <1>8, Moving DEF Record, Answer, Steps
  <2>3. CASE UNCHANGED <<records, stored>>
    BY <1>1, <1>2, <2>1, <2>2, <2>3, QuietKeepsTable DEF Quiet, Shape
  <2>4. CASE key[c] # "none" /\ Put(c)
    BY <1>1, <2>1, <2>2, <2>4, PutKeepsTable
  <2>5. QED BY <1>8, <2>3, <2>4 DEF Record
<1>9. ASSUME NEW o \in todo, Work(o) PROVE TableInv'
  BY <1>1, <1>2, <1>9, QuietKeepsTable DEF Work, Quiet, asked, locals, Shape
<1>10. CASE Prune
  BY <1>1, <1>10, PruneKeepsTable
<1>11. CASE Reload
  BY <1>1, <1>2, <1>11, QuietKeepsTable DEF Reload, Quiet, asked, locals, tables, history, Shape
<1>12. CASE Crash
  <2>1. pc' \in [Calls -> Steps]
    BY <1>2, <1>12 DEF Crash, Shape, Steps
  <2>2. Quiet /\ UNCHANGED acted
    BY <1>12 DEF Crash, Quiet, asked, tables
  <2>3. QED BY <1>1, <1>2, <2>1, <2>2, QuietKeepsTable DEF Shape
<1>13. CASE Tick
  <2>1. clock' = clock + 1 /\ UNCHANGED <<key, pc, records, acted, stored>>
    BY <1>13 DEF Tick, asked, locals, tables, history
  <2>2. QED
    BY <1>1, <2>1, NotifyAssumption DEF TableInv, Shape, Kept, Gone, RecordsStand,
       Repeats, Apart
<1>14. CASE UNCHANGED vars
  BY <1>1, <1>2, <1>14, QuietKeepsTable DEF vars, Quiet, asked, locals, tables, history, Shape
<1>15. QED
  BY <1>1, <1>3, <1>4, <1>5, <1>6, <1>7, <1>8, <1>9, <1>10, <1>11, <1>12, <1>13, <1>14
  DEF Next, Serving

LEMMA TableInvariant == Spec => []TableInv
BY TableInitially, TableStep, PTL DEF Spec

(* A record stands for its retention, for every number of calls, however   *)
(* they overlap, fail or crash (PutRecord, PruneRecords).                  *)
THEOREM RecordsAlwaysStand == Spec => []RecordsStand
<1>1. TableInv => RecordsStand
  BY DEF TableInv
<1>2. QED BY <1>1, TableInvariant, PTL

-----------------------------------------------------------------------------
(* A key takes effect once.                                                *)

(* From the lookup to the answer a call relies on there being no record.   *)
Working == {"resolving", "checking", "sending", "accepting", "recording"}

(* Only these steps are after the effect.                                  *)
Effective == {"sending", "recording", "done"}

(* A key that is not in doubt has one call under way, which found no       *)
(* record; a call that took effect and is over left one.                   *)
Trusted(c) ==
  /\ Under(c) => \A d \in Calls : Repeats(c, d) => ~Under(d)
  /\ pc[c] \in Working => records[key[c]].of = "none"
  /\ pc[c] = "done" /\ acted[c] # 0 => stored[c] >= acted[c]

Trust == \A c \in Calls : key[c] \in Keys \ doubt => Trusted(c)

CallInv ==
  /\ TableInv
  /\ \A c \in Calls : acted[c] # 0 => pc[c] \in Effective
  /\ Trust
  /\ OncePerKey

(* A step within a call that is not its first, its last or its effect.     *)
LEMMA WithinKeeps ==
  ASSUME CallInv, TableInv', Quiet, UNCHANGED acted, doubt \subseteq doubt',
         NEW c \in Calls, NEW s \in Steps, Goto(c, s),
         Under(c), s # "new",
         acted[c] # 0 => s \in Effective \ {"done"},
         key[c] \in Keys \ doubt' /\ s \in Working => records[key[c]].of = "none"
  PROVE  CallInv'
<1>1. pc' = [pc EXCEPT ![c] = s] /\ pc \in [Calls -> Steps]
  BY DEF Goto, CallInv, TableInv, Shape
<1>2. \A d \in Calls : acted'[d] # 0 => pc'[d] \in Effective
  BY <1>1 DEF CallInv
<1>3. \A d \in Calls : Under(d)' => Under(d)
  BY <1>1 DEF Under
<1>4. Trust'
  <2>1. SUFFICES ASSUME NEW d \in Calls, key[d] \in Keys \ doubt' PROVE Trusted(d)'
    BY DEF Trust, Quiet
  <2>2. Trusted(d)
    BY <2>1 DEF CallInv, Trust
  <2>3. CASE d = c
    BY <1>1, <1>3, <2>1, <2>2, <2>3 DEF Trusted, Quiet, Repeats, Effective
  <2>4. CASE d # c
    BY <1>1, <1>3, <2>1, <2>2, <2>4 DEF Trusted, Quiet, Repeats
  <2>5. QED BY <2>3, <2>4
<1>5. OncePerKey'
  BY DEF CallInv, OncePerKey, Repeats, Apart, Quiet
<1>6. QED BY <1>2, <1>4, <1>5 DEF CallInv

(* The first step: the key is in doubt when another call has it.           *)
LEMMA BeginKeeps ==
  ASSUME CallInv, TableInv', NEW c \in Calls, Begin(c)
  PROVE  CallInv'
<1>1. PICK s \in {"resolving", "lookup"} :
        /\ pc' = [pc EXCEPT ![c] = s]
        /\ key[c] # "none" => s = "lookup"
  BY DEF Begin, Goto
<1>2. /\ UNCHANGED <<key, records, stored, clock, acted>>
      /\ pc \in [Calls -> Steps] /\ pc[c] = "new" /\ acted[c] = 0
  BY DEF Begin, asked, tables, CallInv, TableInv, Shape, Effective
<1>3. doubt \subseteq doubt'
      /\ (key[c] \in Keys \ doubt' =>
            \A d \in Calls : Under(d) => key[d] # key[c])
  BY NotifyAssumption DEF Begin
<1>4. \A d \in Calls : acted'[d] # 0 => pc'[d] \in Effective
  BY <1>1, <1>2 DEF CallInv
<1>5. Trust'
  <2>1. SUFFICES ASSUME NEW d \in Calls, key[d] \in Keys \ doubt' PROVE Trusted(d)'
    BY <1>2 DEF Trust
  <2>2. Trusted(d)
    BY <1>3, <2>1 DEF CallInv, Trust
  <2>3. CASE d = c
    BY <1>1, <1>2, <1>3, <2>1, <2>3, NotifyAssumption DEF Trusted, Under, Repeats, Working
  <2>4. CASE d # c
    BY <1>1, <1>2, <1>3, <2>1, <2>2, <2>4 DEF Trusted, Under, Repeats
  <2>5. QED BY <2>3, <2>4
<1>6. OncePerKey'
  BY <1>2, <1>3 DEF CallInv, OncePerKey, Repeats, Apart
<1>7. QED BY <1>4, <1>5, <1>6 DEF CallInv

(* The last step of a call that had no effect.                             *)
LEMMA EndKeeps ==
  ASSUME CallInv, TableInv', Quiet, UNCHANGED acted, doubt \subseteq doubt',
         NEW c \in Calls, Goto(c, "done"), Under(c), acted[c] = 0
  PROVE  CallInv'
<1>1. pc' = [pc EXCEPT ![c] = "done"] /\ pc \in [Calls -> Steps]
  BY DEF Goto, CallInv, TableInv, Shape
<1>2. \A d \in Calls : acted'[d] # 0 => pc'[d] \in Effective
  BY <1>1 DEF CallInv
<1>3. Trust'
  BY <1>1 DEF CallInv, Trust, Trusted, Under, Quiet, Repeats, Working
<1>4. OncePerKey'
  BY DEF CallInv, OncePerKey, Repeats, Apart, Quiet
<1>5. QED BY <1>2, <1>3, <1>4 DEF CallInv

(* The effect: whatever the key did before has had its time.               *)
LEMMA EffectKeeps ==
  ASSUME CallInv, TableInv', Quiet, UNCHANGED doubt,
         NEW c \in Calls, ActedNow(c), NEW s \in {"sending", "recording"},
         pc' = [pc EXCEPT ![c] = s], pc[c] \in {"sending", "accepting"}
  PROVE  CallInv'
<1>1. /\ acted \in [Calls -> Nat] /\ pc \in [Calls -> Steps] /\ clock \in Nat \ {0}
      /\ \A d \in Calls : d # c => acted'[d] = acted[d]
      /\ acted'[c] = IF acted[c] = 0 THEN clock ELSE acted[c]
  BY ActingNow DEF CallInv, TableInv, Shape
<1>2. \A d \in Calls : acted'[d] # 0 => pc'[d] \in Effective
  BY <1>1 DEF CallInv, Effective
<1>3. Trust'
  BY <1>1 DEF CallInv, Trust, Trusted, Under, Quiet, Repeats, Working
<1>4. OncePerKey'
  <2>1. CASE acted[c] # 0
    BY <1>1, <2>1 DEF CallInv, OncePerKey, Repeats, Apart, Quiet
  <2>2. CASE acted[c] = 0
    <3>1. ASSUME NEW d \in Calls, Repeats(c, d), key[c] \notin doubt, acted[d] # 0
          PROVE  clock - acted[d] > Retention
      <4>1. key[c] \in Keys \ doubt /\ key[d] = key[c]
        BY <3>1 DEF Repeats, CallInv, TableInv, Shape
      <4>2. records[key[c]].of = "none" /\ ~Under(d)
        BY <3>1, <4>1 DEF CallInv, Trust, Trusted, Under, Working
      <4>3. pc[d] = "done"
        BY <3>1, <4>2 DEF CallInv, Under, Effective
      <4>4. stored[d] >= acted[d] /\ stored[d] # 0
        BY <1>1, <3>1, <4>1, <4>3 DEF CallInv, Trust, Trusted, TableInv, Shape
      <4>5. clock - stored[d] > Retention
        BY <4>1, <4>2, <4>4, NotifyAssumption DEF CallInv, TableInv, Gone
      <4>6. QED
        BY <1>1, <4>4, <4>5, NotifyAssumption DEF CallInv, TableInv, Shape
    <3>2. QED
      BY <1>1, <2>2, <3>1, NotifyAssumption
      DEF CallInv, OncePerKey, Repeats, Apart, Quiet
  <2>3. QED BY <2>1, <2>2
<1>5. QED BY <1>2, <1>3, <1>4 DEF CallInv

(* The record: it is written, or the key is in doubt from now on.          *)
LEMMA RecordKeeps ==
  ASSUME CallInv, TableInv', NEW c \in Calls, NEW ok \in BOOLEAN, Record(c, ok)
  PROVE  CallInv'
<1>1. /\ UNCHANGED <<key, clock, acted>> /\ doubt \subseteq doubt'
      /\ pc' = [pc EXCEPT ![c] = "done"] /\ pc \in [Calls -> Steps]
      /\ pc[c] = "recording"
  BY DEF Record, asked, Answer, Goto, CallInv, TableInv, Shape
<1>2. \A d \in Calls : acted'[d] # 0 => pc'[d] \in Effective
  BY <1>1 DEF CallInv, Effective
<1>3. Trust'
  <2>1. SUFFICES ASSUME NEW d \in Calls, key[d] \in Keys \ doubt' PROVE Trusted(d)'
    BY <1>1 DEF Trust
  <2>2. Trusted(d)
    BY <1>1, <2>1 DEF CallInv, Trust
  <2>3. CASE key[d] = key[c]
    <3>1. Put(c) /\ records[key[c]].of = "none"
      <4>1. key[c] # "none" /\ key[c] \in Keys \ doubt
        BY <1>1, <2>1, <2>3, NotifyAssumption
      <4>2. Trusted(c)
        BY <4>1 DEF CallInv, Trust
      <4>3. records[key[c]].of = "none"
        BY <1>1, <4>2 DEF Trusted, Working
      <4>4. Put(c)
        BY <2>1, <2>3, <4>1 DEF Record
      <4>5. QED BY <4>3, <4>4
    <3>2. stored' = [stored EXCEPT ![c] = clock]
      BY <3>1 DEF Put
    <3>3. CASE d = c
      BY <1>1, <3>2, <3>3 DEF Trusted, Under, Working, CallInv, TableInv, Shape
    <3>4. CASE d # c
      <4>1. ~Under(d)
        BY <1>1, <2>1, <2>2, <2>3, <3>4, NotifyAssumption DEF Trusted, Under, Repeats
      <4>2. pc'[d] = pc[d] /\ stored'[d] = stored[d]
        BY <1>1, <3>2, <3>4 DEF CallInv, TableInv, Shape
      <4>3. QED BY <1>1, <2>2, <4>1, <4>2 DEF Trusted, Under, Working
    <3>5. QED BY <3>3, <3>4
  <2>4. CASE key[d] # key[c]
    <3>1. d # c /\ pc'[d] = pc[d] /\ stored'[d] = stored[d]
          /\ records'[key[d]] = records[key[d]]
      BY <1>1, <2>1, <2>4 DEF Record, Put, CallInv, TableInv, Shape
    <3>2. QED BY <1>1, <2>2, <3>1 DEF Trusted, Under, Repeats
  <2>5. QED BY <2>3, <2>4
<1>4. OncePerKey'
  BY <1>1 DEF CallInv, OncePerKey, Repeats, Apart
<1>5. QED BY <1>2, <1>3, <1>4 DEF CallInv

(* Steps that no call makes.                                               *)
LEMMA OutsideKeeps ==
  ASSUME CallInv, TableInv', UNCHANGED <<key, pc, stored, acted, doubt>>,
         \A k \in Keys : records[k].of = "none" => records'[k].of = "none"
  PROVE  CallInv'
<1>1. \A c \in Calls : acted'[c] # 0 => pc'[c] \in Effective
  BY DEF CallInv
<1>2. Trust'
  BY DEF CallInv, Trust, Trusted, Under, Repeats
<1>3. OncePerKey'
  BY DEF CallInv, OncePerKey, Repeats, Apart
<1>4. QED BY <1>1, <1>2, <1>3 DEF CallInv

(* A crash leaves what was under way in doubt.                             *)
LEMMA CrashKeeps == CallInv /\ TableInv' /\ Crash => CallInv'
<1>1. SUFFICES ASSUME CallInv, TableInv', Crash PROVE CallInv'
  OBVIOUS
<1>2. /\ UNCHANGED <<key, records, stored, clock, acted>> /\ doubt \subseteq doubt'
      /\ \A c \in Calls : pc'[c] = IF Under(c) THEN "done" ELSE pc[c]
      /\ \A c \in Calls : Under(c) /\ key[c] # "none" => key[c] \in doubt'
  BY <1>1 DEF Crash, asked, tables
<1>3. \A c \in Calls : acted'[c] # 0 => pc'[c] \in Effective
  BY <1>1, <1>2 DEF CallInv, Effective
<1>4. Trust'
  <2>1. SUFFICES ASSUME NEW d \in Calls, key[d] \in Keys \ doubt' PROVE Trusted(d)'
    BY <1>2 DEF Trust
  <2>2. Trusted(d) /\ ~Under(d)
    BY <1>1, <1>2, <2>1, NotifyAssumption DEF CallInv, Trust
  <2>3. QED BY <1>2, <2>2 DEF Trusted, Under, Working
<1>5. OncePerKey'
  BY <1>1, <1>2 DEF CallInv, OncePerKey, Repeats, Apart
<1>6. QED BY <1>1, <1>3, <1>4, <1>5 DEF CallInv

LEMMA CallInitially == Init => CallInv
<1>1. SUFFICES ASSUME Init PROVE CallInv
  OBVIOUS
<1>2. TableInv
  BY <1>1, TableInitially
<1>3. \A c \in Calls : acted[c] = 0 /\ pc[c] = "new"
  BY <1>1 DEF Init
<1>4. QED
  BY <1>2, <1>3 DEF CallInv, Trust, Trusted, Under, Working, OncePerKey

LEMMA CallStep == CallInv /\ [Next]_vars => CallInv'
<1>1. SUFFICES ASSUME CallInv, [Next]_vars PROVE CallInv'
  OBVIOUS
<1>2. TableInv'
  BY <1>1, TableStep DEF CallInv
<1>3. \A c \in Calls : pc[c] \notin Effective => acted[c] = 0
  BY <1>1 DEF CallInv
<1>4. \A c \in Calls : key[c] \in Keys \ doubt /\ pc[c] \in Working =>
        records[key[c]].of = "none"
  BY <1>1 DEF CallInv, Trust, Trusted
<1>5. ASSUME NEW c \in Calls, Resolve(c) \/ Check(c)
      PROVE  CallInv'
  <2>1. PICK s \in {"resolving", "checking"} : Goto(c, s)
    BY <1>5 DEF Resolve, Check, Note
  <2>2. /\ Quiet /\ UNCHANGED <<acted, doubt>>
        /\ pc[c] \in {"resolving", "checking"}
    BY <1>5 DEF Resolve, Check, Quiet, asked, tables, history
  <2>3. QED
    BY <1>1, <1>2, <1>3, <1>4, <2>1, <2>2, WithinKeeps
    DEF Under, Effective, Working, Steps
<1>6. ASSUME NEW c \in Calls, Panic(c) PROVE CallInv'
  <2>1. Quiet /\ UNCHANGED <<acted, doubt>> /\ pc[c] = "checking" /\ Goto(c, "done")
    BY <1>6 DEF Panic, Quiet, asked, tables, history
  <2>2. QED BY <1>1, <1>2, <1>3, <2>1, EndKeeps DEF Under, Effective
<1>7. ASSUME NEW c \in Calls, Decide(c) PROVE CallInv'
  <2>1. Quiet /\ UNCHANGED <<acted, doubt>> /\ pc[c] = "resolving"
    BY <1>7 DEF Decide, Quiet, asked, tables, history
  <2>2. CASE Goto(c, "done")
    BY <1>1, <1>2, <1>3, <2>1, <2>2, EndKeeps DEF Under, Effective
  <2>3. ASSUME NEW s \in {"sending", "accepting"}, Goto(c, s) PROVE CallInv'
    BY <1>1, <1>2, <1>3, <1>4, <2>1, <2>3, WithinKeeps
    DEF Under, Effective, Working, Steps
  <2>4. QED BY <1>7, <2>2, <2>3 DEF Decide, Answer
<1>8. ASSUME NEW c \in Calls, Collect(c) PROVE CallInv'
  <2>1. Quiet /\ UNCHANGED <<acted, doubt>> /\ pc[c] = "sending" /\ Goto(c, "recording")
    BY <1>8 DEF Collect, Quiet, asked, tables, history
  <2>2. QED
    BY <1>1, <1>2, <1>3, <1>4, <2>1, WithinKeeps DEF Under, Effective, Working, Steps
<1>9. ASSUME NEW c \in Calls, Lose(c) PROVE CallInv'
  BY <1>1, <1>2, <1>9, OutsideKeeps DEF Lose, asked, tables, history
<1>10. ASSUME NEW c \in Calls, NEW i, DeliverNow(c, i) PROVE CallInv'
  <2>1. Quiet /\ UNCHANGED <<doubt, pc>> /\ pc[c] = "sending"
    BY <1>10 DEF DeliverNow, Quiet, asked, tables
  <2>2. CASE ActedNow(c)
    <3>1. pc' = [pc EXCEPT ![c] = "sending"]
      BY <1>1, <2>1 DEF CallInv, TableInv, Shape
    <3>2. QED BY <1>1, <1>2, <2>1, <2>2, <3>1, EffectKeeps
  <2>3. CASE UNCHANGED acted
    BY <1>1, <1>2, <2>1, <2>3, OutsideKeeps DEF Quiet
  <2>4. QED BY <1>10, <2>2, <2>3 DEF DeliverNow
<1>11. ASSUME NEW c \in Calls, NEW ok \in BOOLEAN, Enqueue(c, ok) PROVE CallInv'
  <2>1. Quiet /\ UNCHANGED doubt /\ pc[c] = "accepting"
    BY <1>11 DEF Enqueue, Quiet, asked
  <2>2. CASE ActedNow(c) /\ Goto(c, "recording")
    BY <1>1, <1>2, <2>1, <2>2, EffectKeeps DEF Goto
  <2>3. CASE UNCHANGED acted /\ Goto(c, "done")
    BY <1>1, <1>2, <1>3, <2>1, <2>3, EndKeeps DEF Under, Effective
  <2>4. QED BY <1>11, <2>2, <2>3 DEF Enqueue, TurnAway, Answer
<1>12. ASSUME NEW c \in Calls, NEW ok \in BOOLEAN, Lookup(c, ok) PROVE CallInv'
  <2>1. /\ Quiet /\ UNCHANGED acted /\ doubt \subseteq doubt'
        /\ pc[c] = "lookup"
    BY <1>12 DEF Lookup, Quiet, asked, tables
  <2>2. CASE Goto(c, "done")
    BY <1>1, <1>2, <1>3, <2>1, <2>2, EndKeeps DEF Under, Effective
  <2>3. CASE Goto(c, "resolving") /\ (doubt' = doubt \cup {key[c]}
                                       \/ records[key[c]].of = "none")
    BY <1>1, <1>2, <1>3, <2>1, <2>3, WithinKeeps DEF Under, Effective, Steps
  <2>4. QED BY <1>12, <2>2, <2>3 DEF Lookup, Answer
<1>13. ASSUME NEW o \in todo, Work(o) PROVE CallInv'
  BY <1>1, <1>2, <1>13, OutsideKeeps DEF Work, asked, locals
<1>14. CASE Prune
  BY <1>1, <1>2, <1>14, OutsideKeeps DEF Prune, asked, locals, history, NoRecord
<1>15. CASE Reload
  BY <1>1, <1>2, <1>15, OutsideKeeps DEF Reload, asked, locals, tables, history
<1>16. CASE Tick
  BY <1>1, <1>2, <1>16, OutsideKeeps DEF Tick, asked, locals, tables, history
<1>17. CASE UNCHANGED vars
  BY <1>1, <1>2, <1>17, OutsideKeeps DEF vars, asked, locals, tables, history
<1>18. QED
  BY <1>1, <1>2, <1>5, <1>6, <1>7, <1>8, <1>9, <1>10, <1>11, <1>12, <1>13, <1>14,
     <1>15, <1>16, <1>17, BeginKeeps, RecordKeeps, CrashKeeps DEF Next, Serving

LEMMA CallInvariant == Spec => []CallInv
BY CallInitially, CallStep, PTL DEF Spec

(* A key takes effect once in the retention of its record, unless the      *)
(* record was late, unread or unwritten (ServeHTTP).                       *)
THEOREM KeysTakeEffectOnce == Spec => []OncePerKey
<1>1. CallInv => OncePerKey
  BY DEF CallInv
<1>2. QED BY <1>1, CallInvariant, PTL

-----------------------------------------------------------------------------
(* Who is addressed.                                                       *)

(* What is about to be delivered is permitted.                             *)
Permits ==
  /\ \A o \in todo : o.to \subseteq Allowed
  /\ \A c \in Calls : pc[c] = "sending" => \A i \in left[c] : Permitted(c, i)
  /\ \A c \in Calls : pc[c] = "accepting" =>
       \A i \in DOMAIN found[c] : Permitted(c, i)

AddressInv ==
  /\ pc \in [Calls -> Steps] /\ DOMAIN left = Calls /\ DOMAIN found = Calls
  /\ Permits /\ OnlyAllowed /\ NeverMisaddressed

LEMMA SendingKeeps ==
  ASSUME AddressInv, NEW o, o.to \subseteq Allowed, Sent(o)
  PROVE  (OnlyAllowed /\ NeverMisaddressed)'
<1>1. SUFFICES ASSUME NEW x, x = [ref |-> o.ref, to |-> o.to, name |-> o.name,
                                  kind |-> live[o.name]],
                      sends' = sends \cup {x}
               PROVE  (OnlyAllowed /\ NeverMisaddressed)'
  BY DEF Sent
<1>2. x.ref = o.ref /\ x.to = o.to /\ x.kind = live[o.name]
  BY <1>1
<1>3. Takes(x.kind, x.to) /\ (IsUrl(x.ref) => x.kind = UrlKind)
  BY <1>2 DEF Sent, Fits
<1>4. QED BY <1>1, <1>2, <1>3 DEF AddressInv, OnlyAllowed, NeverMisaddressed

(* A step of a call that resolves nothing and sends nothing.               *)
LEMMA MovingKeepsAddress ==
  ASSUME AddressInv, UNCHANGED <<req, todo, left, sends>>,
         NEW c \in Calls, NEW s \in Steps \ {"sending", "accepting"}, Goto(c, s),
         DOMAIN found' = Calls, \A d \in Calls : d # c => found'[d] = found[d]
  PROVE  AddressInv'
BY DEF AddressInv, Permits, Permitted, Recipients, Goto, OnlyAllowed, NeverMisaddressed

LEMMA AddressStep == AddressInv /\ [Next]_vars => AddressInv'
<1>1. SUFFICES ASSUME AddressInv, [Next]_vars PROVE AddressInv'
  OBVIOUS
<1>2. ASSUME NEW c \in Calls,
             Begin(c) \/ Resolve(c) \/ Check(c) \/ Panic(c) \/ Collect(c)
             \/ \E ok \in BOOLEAN : Lookup(c, ok) \/ Record(c, ok)
      PROVE  AddressInv'
  <2>1. UNCHANGED <<req, todo, left, sends>>
    BY <1>2 DEF Begin, Resolve, Check, Panic, Collect, Lookup, Record, asked, tables,
       history
  <2>2. \E s \in Steps \ {"sending", "accepting"} : Goto(c, s)
    BY <1>2 DEF Begin, Resolve, Check, Panic, Collect, Lookup, Record, Note, Answer, Steps
  <2>3. DOMAIN found' = Calls /\ \A d \in Calls : d # c => found'[d] = found[d]
    BY <1>1, <1>2 DEF AddressInv, Begin, Resolve, Check, Panic, Collect, Lookup, Record, Note
  <2>4. QED BY <1>1, <2>1, <2>2, <2>3, MovingKeepsAddress
<1>3. ASSUME NEW c \in Calls, Decide(c) PROVE AddressInv'
  <2>1. UNCHANGED <<req, todo, found, sends>> /\ pc[c] = "resolving"
    BY <1>3 DEF Decide, asked, tables, history
  <2>2. CASE Answer(c, c, "refused") /\ UNCHANGED left
    BY <1>1, <2>1, <2>2, MovingKeepsAddress DEF Answer, AddressInv, Steps
  <2>3. CASE /\ ~Refused(c) /\ Goto(c, "sending")
             /\ left' = [left EXCEPT ![c] =
                           {i \in DOMAIN found[c] : found[c][i].why = "ok"}]
    <3>1. \A i \in DOMAIN found[c] : found[c][i].why = "ok" => Permitted(c, i)
      BY <2>3 DEF Refused
    <3>2. QED
      BY <1>1, <2>1, <2>3, <3>1 DEF AddressInv, Permits, Permitted, Recipients, Goto,
         OnlyAllowed, NeverMisaddressed, Steps
  <2>4. CASE ~Refused(c) /\ ~req[c].sync /\ Goto(c, "accepting") /\ UNCHANGED left
    <3>1. \A i \in DOMAIN found[c] : Permitted(c, i)
      BY <2>4 DEF Refused
    <3>2. QED
      BY <1>1, <2>1, <2>4, <3>1 DEF AddressInv, Permits, Permitted, Recipients, Goto,
         OnlyAllowed, NeverMisaddressed, Steps
  <2>5. QED BY <1>3, <2>2, <2>3, <2>4 DEF Decide
<1>4. ASSUME NEW c \in Calls, NEW i \in left[c], DeliverNow(c, i) PROVE AddressInv'
  <2>1. UNCHANGED <<req, todo, found, pc>> /\ left' = [left EXCEPT ![c] = @ \ {i}]
        /\ pc[c] = "sending"
    BY <1>4 DEF DeliverNow, asked, tables
  <2>2. Order(c, i).to \subseteq Allowed
    BY <1>1, <2>1 DEF AddressInv, Permits, Permitted, Order
  <2>3. (OnlyAllowed /\ NeverMisaddressed)'
    BY <1>1, <1>4, <2>2, SendingKeeps
    DEF DeliverNow, AddressInv, OnlyAllowed, NeverMisaddressed
  <2>4. QED BY <1>1, <2>1, <2>3 DEF AddressInv, Permits, Permitted, Recipients
<1>5. ASSUME NEW c \in Calls, NEW ok \in BOOLEAN, Enqueue(c, ok) PROVE AddressInv'
  <2>1. UNCHANGED <<req, found, left, sends>> /\ pc[c] = "accepting"
    BY <1>5 DEF Enqueue, asked
  <2>2. PICK s \in {"recording", "done"} : Goto(c, s)
    BY <1>5 DEF Enqueue, TurnAway, Answer
  <2>3. \A o \in todo' : o.to \subseteq Allowed
    <3>1. \A i \in DOMAIN found[c] : Order(c, i).to \subseteq Allowed
      BY <1>1, <2>1 DEF AddressInv, Permits, Permitted, Order
    <3>2. QED BY <1>1, <1>5, <3>1 DEF Enqueue, AddressInv, Permits
  <2>4. QED
    BY <1>1, <2>1, <2>2, <2>3 DEF AddressInv, Permits, Permitted, Recipients, Goto,
       OnlyAllowed, NeverMisaddressed, Steps
<1>6. ASSUME NEW o \in todo, Work(o) PROVE AddressInv'
  <2>1. UNCHANGED <<req, found, left, pc>> /\ todo' = todo \ {o}
    BY <1>6 DEF Work, asked, locals
  <2>2. (OnlyAllowed /\ NeverMisaddressed)'
    BY <1>1, <1>6, SendingKeeps DEF Work, AddressInv, Permits, OnlyAllowed,
       NeverMisaddressed
  <2>3. QED BY <1>1, <2>1, <2>2 DEF AddressInv, Permits, Permitted, Recipients
<1>7. CASE Crash
  <2>1. UNCHANGED <<req, found, left, todo, sends>>
        /\ pc' = [c \in Calls |-> IF Under(c) THEN "done" ELSE pc[c]]
    BY <1>7 DEF Crash, asked, tables
  <2>2. QED
    BY <1>1, <2>1 DEF AddressInv, Permits, Permitted, Recipients, OnlyAllowed,
       NeverMisaddressed, Steps
<1>8. CASE \/ Prune \/ Reload \/ Tick \/ UNCHANGED vars \/ \E c \in Calls : Lose(c)
  <2>1. UNCHANGED <<req, found, left, todo, sends, pc>>
    BY <1>8 DEF Prune, Reload, Tick, Lose, vars, asked, locals, tables, history
  <2>2. QED
    BY <1>1, <2>1 DEF AddressInv, Permits, Permitted, Recipients, OnlyAllowed,
       NeverMisaddressed
<1>9. QED
  BY <1>1, <1>2, <1>3, <1>4, <1>5, <1>6, <1>7, <1>8 DEF Next, Serving

LEMMA AddressInvariant == Spec => []AddressInv
<1>1. Init => AddressInv
  BY DEF Init, AddressInv, Permits, OnlyAllowed, NeverMisaddressed, Steps
<1>2. QED BY <1>1, AddressStep, PTL DEF Spec

(* Only allowed recipients are addressed, whatever names them, at once or  *)
(* through the queue (deliveryTargets).                                    *)
THEOREM AllowListHolds == Spec => []OnlyAllowed
<1>1. AddressInv => OnlyAllowed
  BY DEF AddressInv
<1>2. QED BY <1>1, AddressInvariant, PTL

(* No channel is given what it does not take, however the set of channels  *)
(* is replaced in between (pinTarget, Deliver).                            *)
THEOREM PinnedAndFitting == Spec => []NeverMisaddressed
<1>1. AddressInv => NeverMisaddressed
  BY DEF AddressInv
<1>2. QED BY <1>1, AddressInvariant, PTL

-----------------------------------------------------------------------------
(* What callers are told.                                                  *)

(* How far a call has come, and what it has done by then.                  *)
Done(c) ==
  /\ pc[c] = "lookup" => key[c] # "none"
  /\ pc[c] = "sending" => req[c].sync
  /\ pc[c] = "accepting" => ~req[c].sync
  /\ pc[c] = "recording" /\ ~req[c].sync => acted[c] # 0

(* What is said of a call that is over.                                    *)
Holds(c, status) ==
  /\ pc[c] = "done"
  /\ status = "accepted" => acted[c] # 0
  /\ status \in {"refused", "unavailable"} => acted[c] = 0

(* A record says what its call was answered.                               *)
RecordTrue(k) ==
  LET r == records[k] IN r.of # "none" => Holds(r.of, r.status)

AnswerTrue(c) ==
  LET a == answer[c] IN
  a.of # "none" => (a.of = c \/ Repeats(c, a.of)) /\ Holds(a.of, a.status)

AnswerInv ==
  /\ TableInv
  /\ answer \in [Calls -> Answers]
  /\ \A c \in Calls : acted[c] # 0 => pc[c] \in Effective
  /\ \A c \in Calls : Done(c)
  /\ \A k \in Keys : RecordTrue(k)
  /\ \A c \in Calls : AnswerTrue(c)

(* What was said of other calls stays true: none but c moves.              *)
LEMMA SayingsStay ==
  ASSUME AnswerInv, NEW c \in Calls, pc[c] # "done",
         \A d \in Calls : d # c => pc'[d] = pc[d] /\ acted'[d] = acted[d],
         UNCHANGED <<key, req>>
  PROVE  /\ \A d \in Calls, s \in Statuses : Holds(d, s) => Holds(d, s)'
         /\ \A d \in Calls : d # c => Done(d)'
         /\ \A d \in Calls \ {c} : acted'[d] # 0 => pc'[d] \in Effective
BY DEF AnswerInv, Holds, Done

(* A step of a call, with what it does and what it is told.                *)
LEMMA AnswerKeeps ==
  ASSUME AnswerInv, TableInv', NEW c \in Calls, pc[c] # "done",
         NEW s \in Steps, pc' = [pc EXCEPT ![c] = s],
         \A d \in Calls : d # c => acted'[d] = acted[d],
         UNCHANGED <<key, req>>,
         acted'[c] # 0 => s \in Effective, Done(c)',
         \A k \in Keys : records'[k] = records[k] \/ RecordTrue(k)',
         answer' \in [Calls -> Answers],
         \A d \in Calls : d # c => answer'[d] = answer[d],
         answer'[c] = answer[c] \/ AnswerTrue(c)'
  PROVE  AnswerInv'
<1>1. pc \in [Calls -> Steps] /\ \A d \in Calls : d # c => pc'[d] = pc[d]
  BY DEF AnswerInv, TableInv, Shape
<1>2. pc'[c] = s
  BY <1>1
<1>3. \A d \in Calls, t \in Statuses : Holds(d, t) => Holds(d, t)'
  BY <1>1, SayingsStay
<1>4. \A d \in Calls : acted'[d] # 0 => pc'[d] \in Effective
  BY <1>1, <1>2, SayingsStay
<1>5. \A d \in Calls : Done(d)'
  BY <1>1, SayingsStay
<1>6. \A k \in Keys : RecordTrue(k)'
  <2>1. ASSUME NEW k \in Keys, records'[k] = records[k] PROVE RecordTrue(k)'
    <3>1. records[k].of \in Calls \cup {"none"} /\ records[k].status \in Statuses
      BY DEF AnswerInv, TableInv, Shape
    <3>2. RecordTrue(k)
      BY DEF AnswerInv
    <3>3. QED BY <1>3, <2>1, <3>1, <3>2 DEF RecordTrue
  <2>2. QED BY <2>1
<1>7. answer' \in [Calls -> Answers]
  OBVIOUS
<1>8. \A d \in Calls : AnswerTrue(d)'
  <2>1. ASSUME NEW d \in Calls, answer'[d] = answer[d] PROVE AnswerTrue(d)'
    <3>1. answer[d].of \in Calls \cup {"none"} /\ answer[d].status \in Statuses
      BY DEF AnswerInv, Answers
    <3>2. AnswerTrue(d)
      BY DEF AnswerInv
    <3>3. QED BY <1>3, <2>1, <3>1, <3>2 DEF AnswerTrue, Repeats
  <2>2. QED BY <2>1
<1>9. QED BY <1>4, <1>5, <1>6, <1>7, <1>8 DEF AnswerInv

(* The call is told nothing yet.                                           *)
LEMMA AnswerPends ==
  ASSUME AnswerInv, TableInv', NEW c \in Calls, pc[c] # "done",
         NEW s \in Steps, pc' = [pc EXCEPT ![c] = s],
         \A d \in Calls : d # c => acted'[d] = acted[d],
         acted'[c] # 0 => s \in Effective, Done(c)',
         UNCHANGED <<key, req, records, answer>>
  PROVE  AnswerInv'
<1>1. answer' \in [Calls -> Answers] /\ \A d \in Calls : answer'[d] = answer[d]
  BY DEF AnswerInv
<1>2. QED BY <1>1, AnswerKeeps

(* The call is answered, and over.                                         *)
LEMMA AnswerComes ==
  ASSUME AnswerInv, TableInv', NEW c \in Calls, pc[c] # "done",
         pc' = [pc EXCEPT ![c] = "done"],
         NEW a \in Answers, answer' = [answer EXCEPT ![c] = a],
         AnswerTrue(c)', UNCHANGED <<key, req, acted>>,
         \A k \in Keys : records'[k] = records[k] \/ RecordTrue(k)'
  PROVE  AnswerInv'
<1>1. answer' \in [Calls -> Answers] /\ \A d \in Calls : d # c => answer'[d] = answer[d]
  BY DEF AnswerInv
<1>2. pc'[c] = "done"
  BY DEF AnswerInv, TableInv, Shape
<1>3. Done(c)'
  BY <1>2 DEF Done
<1>4. QED BY <1>1, <1>3, AnswerKeeps DEF Steps, Effective

(* Steps that no call makes; a crash ends those under way.                 *)
LEMMA AnswerAside ==
  ASSUME AnswerInv, TableInv', UNCHANGED <<key, req, answer, acted>>,
         \A c \in Calls : pc'[c] = pc[c] \/ pc'[c] = "done",
         \A k \in Keys : records'[k] = records[k] \/ records'[k].of = "none"
  PROVE  AnswerInv'
<1>1. \A c \in Calls, t \in Statuses : Holds(c, t) => Holds(c, t)'
  BY DEF Holds
<1>2. \A c \in Calls : Done(c)' /\ (acted'[c] # 0 => pc'[c] \in Effective)
  BY DEF AnswerInv, Done, Effective
<1>3. \A k \in Keys : RecordTrue(k)'
  BY <1>1 DEF AnswerInv, TableInv, Shape, RecordTrue
<1>4. \A c \in Calls : AnswerTrue(c)'
  BY <1>1 DEF AnswerInv, Answers, AnswerTrue, Repeats
<1>5. QED BY <1>2, <1>3, <1>4 DEF AnswerInv

LEMMA AnswerStep == AnswerInv /\ [Next]_vars => AnswerInv'
<1>1. SUFFICES ASSUME AnswerInv, [Next]_vars PROVE AnswerInv'
  OBVIOUS
<1>2. TableInv' /\ pc \in [Calls -> Steps] /\ acted \in [Calls -> Nat]
  BY <1>1, TableStep DEF AnswerInv, TableInv, Shape
<1>3. \A c \in Calls : pc[c] \notin Effective => acted[c] = 0
  BY <1>1 DEF AnswerInv
<1>4. \A c \in Calls : Done(c)
  BY <1>1 DEF AnswerInv
<1>5. ASSUME NEW c \in Calls, Begin(c) \/ Resolve(c) \/ Check(c) \/ Panic(c)
      PROVE  AnswerInv'
  <2>1. /\ UNCHANGED <<key, req, records, acted, answer>> /\ acted[c] = 0
        /\ pc[c] # "done"
    BY <1>3, <1>5
    DEF Begin, Resolve, Check, Panic, asked, tables, history, Effective
  <2>2. PICK s \in {"lookup", "resolving", "checking", "done"} :
          /\ pc' = [pc EXCEPT ![c] = s]
          /\ s = "lookup" => key[c] # "none"
    BY <1>5 DEF Begin, Resolve, Check, Panic, Note, Goto
  <2>3. Done(c)'
    BY <1>2, <2>1, <2>2 DEF Done
  <2>4. QED
    BY <1>1, <1>2, <2>1, <2>2, <2>3, AnswerPends DEF Steps
<1>6. ASSUME NEW c \in Calls, Decide(c) PROVE AnswerInv'
  <2>1. UNCHANGED <<key, req, records, acted>> /\ acted[c] = 0 /\ pc[c] = "resolving"
    BY <1>3, <1>6 DEF Decide, asked, tables, history, Effective
  <2>2. CASE Answer(c, c, "refused")
    <3>1. SUFFICES ASSUME NEW a, a = [of |-> c, status |-> "refused"],
                          answer' = [answer EXCEPT ![c] = a],
                          pc' = [pc EXCEPT ![c] = "done"]
                   PROVE  AnswerInv'
      BY <2>2 DEF Answer, Goto
    <3>2. a \in Answers /\ a.of = c /\ a.status = "refused"
      BY <3>1 DEF Answers, Statuses
    <3>3. AnswerTrue(c)'
      BY <1>1, <1>2, <2>1, <3>1, <3>2 DEF AnswerInv, AnswerTrue, Holds
    <3>4. QED BY <1>1, <1>2, <2>1, <3>1, <3>2, <3>3, AnswerComes
  <2>3. ASSUME UNCHANGED answer,
               \/ Goto(c, "sending") /\ req[c].sync
               \/ Goto(c, "accepting") /\ ~req[c].sync
        PROVE  AnswerInv'
    <3>1. PICK s \in {"sending", "accepting"} : pc' = [pc EXCEPT ![c] = s]
      BY <2>3 DEF Goto
    <3>2. Done(c)'
      BY <1>2, <2>1, <2>3 DEF Done, Goto
    <3>3. QED BY <1>1, <1>2, <2>1, <2>3, <3>1, <3>2, AnswerPends DEF Steps
  <2>4. QED BY <1>6, <2>2, <2>3 DEF Decide
<1>7. ASSUME NEW c \in Calls, NEW i, DeliverNow(c, i) PROVE AnswerInv'
  <2>1. UNCHANGED <<key, req, records, answer, pc>> /\ pc[c] = "sending"
    BY <1>7 DEF DeliverNow, asked, tables
  <2>2. pc' = [pc EXCEPT ![c] = "sending"]
    BY <1>2, <2>1
  <2>3. \A d \in Calls : d # c => acted'[d] = acted[d]
    BY <1>2, <1>7 DEF DeliverNow, ActedNow
  <2>4. Done(c)'
    BY <1>4, <2>1 DEF Done
  <2>5. QED
    BY <1>1, <1>2, <2>1, <2>2, <2>3, <2>4, AnswerPends DEF Steps, Effective
<1>8. ASSUME NEW c \in Calls, Collect(c) PROVE AnswerInv'
  <2>1. /\ UNCHANGED <<key, req, records, answer, acted>> /\ pc[c] = "sending"
        /\ pc' = [pc EXCEPT ![c] = "recording"]
    BY <1>8 DEF Collect, asked, tables, history, Goto
  <2>2. Done(c)'
    BY <1>2, <1>4, <2>1 DEF Done
  <2>3. QED BY <1>1, <1>2, <2>1, <2>2, AnswerPends DEF Steps, Effective
<1>9. ASSUME NEW c \in Calls, NEW ok \in BOOLEAN, Enqueue(c, ok) PROVE AnswerInv'
  <2>1. UNCHANGED <<key, req, records>> /\ pc[c] = "accepting" /\ acted[c] = 0
    BY <1>3, <1>9 DEF Enqueue, asked, Effective
  <2>2. CASE ActedNow(c) /\ Goto(c, "recording") /\ UNCHANGED answer
    <3>1. /\ \A d \in Calls : d # c => acted'[d] = acted[d]
          /\ acted'[c] # 0 /\ pc' = [pc EXCEPT ![c] = "recording"]
      BY <1>1, <2>1, <2>2, ActingNow DEF AnswerInv, TableInv, Shape, Goto
    <3>2. Done(c)'
      BY <1>2, <3>1 DEF Done
    <3>3. QED
      BY <1>1, <1>2, <2>1, <2>2, <3>1, <3>2, AnswerPends DEF Steps, Effective
  <2>3. CASE TurnAway(c) /\ UNCHANGED acted
    <3>1. SUFFICES ASSUME NEW a, a = [of |-> c, status |-> "unavailable"],
                          answer' = [answer EXCEPT ![c] = a],
                          pc' = [pc EXCEPT ![c] = "done"]
                   PROVE  AnswerInv'
      BY <2>3 DEF TurnAway, Answer, Goto
    <3>2. a \in Answers /\ a.of = c /\ a.status = "unavailable"
      BY <3>1 DEF Answers, Statuses
    <3>3. AnswerTrue(c)'
      BY <1>1, <1>2, <2>1, <2>3, <3>1, <3>2 DEF AnswerInv, AnswerTrue, Holds
    <3>4. QED BY <1>1, <1>2, <2>1, <2>3, <3>1, <3>2, <3>3, AnswerComes
  <2>4. QED BY <1>9, <2>2, <2>3 DEF Enqueue
<1>10. ASSUME NEW c \in Calls, NEW ok \in BOOLEAN, Record(c, ok) PROVE AnswerInv'
  <2>1. UNCHANGED <<key, req, acted>> /\ pc[c] = "recording"
    BY <1>10 DEF Record, asked
  <2>2. SUFFICES ASSUME NEW a, a = [of |-> c, status |-> Status(c)],
                        answer' = [answer EXCEPT ![c] = a],
                        pc' = [pc EXCEPT ![c] = "done"]
                 PROVE  AnswerInv'
    BY <1>10 DEF Record, Answer, Goto
  <2>3. a \in Answers /\ a.of = c /\ a.status = Status(c) /\ Status(c) \in Statuses
    BY <2>2 DEF Answers, Statuses, Status
  <2>4. Holds(c, Status(c))'
    BY <1>2, <1>4, <2>1, <2>2 DEF Holds, Done, Status
  <2>5. AnswerTrue(c)'
    <3>1. answer'[c] = a /\ Status(c)' = Status(c) /\ pc'[c] = "done"
      BY <1>1, <1>2, <2>1, <2>2 DEF AnswerInv, Status
    <3>2. QED BY <2>3, <2>4, <3>1 DEF AnswerTrue, Holds
  <2>6. \A k \in Keys : records'[k] = records[k] \/ RecordTrue(k)'
    <3>1. CASE UNCHANGED records
      BY <3>1
    <3>2. CASE /\ key[c] # "none"
               /\ records' = [records EXCEPT ![key[c]] =
                                [of |-> c, status |-> Status(c), at |-> clock]]
      <4>1. SUFFICES ASSUME NEW r, r = [of |-> c, status |-> Status(c), at |-> clock],
                            records' = [records EXCEPT ![key[c]] = r]
                     PROVE  \A k \in Keys : records'[k] = records[k] \/ RecordTrue(k)'
        BY <3>2
      <4>2. r.of = c /\ r.status = Status(c) /\ Status(c)' = Status(c)
        BY <2>1, <4>1 DEF Status
      <4>3. \A k \in Keys : records'[k] = records[k] \/ records'[k] = r
        BY <1>1, <4>1 DEF AnswerInv, TableInv, Shape
      <4>4. QED BY <2>4, <4>2, <4>3 DEF RecordTrue, Holds
    <3>3. QED BY <1>10, <3>1, <3>2 DEF Record, Put
  <2>7. QED
    BY <1>1, <1>2, <2>1, <2>2, <2>3, <2>5, <2>6, AnswerComes
<1>11. ASSUME NEW c \in Calls, NEW ok \in BOOLEAN, Lookup(c, ok) PROVE AnswerInv'
  <2>1. /\ UNCHANGED <<key, req, records, acted>> /\ acted[c] = 0
        /\ pc[c] = "lookup" /\ key[c] \in Keys
    BY <1>1, <1>3, <1>4, <1>11
    DEF Lookup, asked, tables, Effective, Done, AnswerInv, TableInv, Shape
  <2>2. CASE Goto(c, "resolving") /\ UNCHANGED answer
    <3>1. Done(c)' /\ pc' = [pc EXCEPT ![c] = "resolving"]
      BY <1>2, <2>2 DEF Done, Goto
    <3>2. QED BY <1>1, <1>2, <2>1, <2>2, <3>1, AnswerPends DEF Steps
  <2>3. CASE records[key[c]].of # "none"
             /\ Answer(c, records[key[c]].of, records[key[c]].status)
    <3>1. SUFFICES ASSUME NEW a, a = [of |-> records[key[c]].of,
                                      status |-> records[key[c]].status],
                          answer' = [answer EXCEPT ![c] = a],
                          pc' = [pc EXCEPT ![c] = "done"]
                   PROVE  AnswerInv'
      BY <2>3 DEF Answer, Goto
    <3>2. /\ a \in Answers /\ a.of \in Calls /\ a.of = records[key[c]].of
          /\ a.status = records[key[c]].status
      BY <1>1, <2>1, <2>3, <3>1 DEF AnswerInv, TableInv, Shape, Answers
    <3>3. Holds(a.of, a.status) /\ key[a.of] = key[c]
      BY <1>1, <2>1, <2>3, <3>2 DEF AnswerInv, TableInv, Kept, RecordTrue
    <3>4. a.of = c \/ Repeats(c, a.of)
      BY <2>1, <3>3, NotifyAssumption DEF Repeats
    <3>5. AnswerTrue(c)'
      BY <1>1, <1>2, <2>1, <3>1, <3>2, <3>3, <3>4
      DEF AnswerInv, AnswerTrue, Holds, Repeats
    <3>6. QED BY <1>1, <1>2, <2>1, <3>1, <3>2, <3>5, AnswerComes
  <2>4. QED BY <1>11, <2>2, <2>3 DEF Lookup
<1>12. CASE \/ Reload \/ Tick \/ Crash \/ UNCHANGED vars
            \/ (\E c \in Calls : Lose(c)) \/ (\E o \in todo : Work(o))
  <2>1. /\ UNCHANGED <<key, req, answer, acted, records>>
        /\ \A c \in Calls : pc'[c] = pc[c] \/ pc'[c] = "done"
    BY <1>12 DEF Reload, Tick, Crash, Lose, Work, vars, asked, locals, tables, history
  <2>2. QED BY <1>1, <1>2, <2>1, AnswerAside
<1>13. CASE Prune
  <2>1. /\ UNCHANGED <<key, req, answer, acted, pc>>
        /\ \A k \in Keys : records'[k] = records[k] \/ records'[k].of = "none"
    BY <1>13 DEF Prune, asked, locals, history, NoRecord
  <2>2. QED BY <1>1, <1>2, <2>1, AnswerAside
<1>14. QED
  BY <1>1, <1>5, <1>6, <1>7, <1>8, <1>9, <1>10, <1>11, <1>12, <1>13 DEF Next, Serving

LEMMA AnswerInvariant == Spec => []AnswerInv
<1>1. Init => AnswerInv
  <2>1. SUFFICES ASSUME Init PROVE AnswerInv
    OBVIOUS
  <2>2. TableInv
    BY <2>1, TableInitially
  <2>3. NoAnswer \in Answers /\ NoAnswer.of = "none" /\ NoRecord.of = "none"
    BY DEF NoAnswer, NoRecord, Answers, Statuses
  <2>4. /\ answer = [c \in Calls |-> NoAnswer] /\ records = [k \in Keys |-> NoRecord]
        /\ \A c \in Calls : pc[c] = "new" /\ acted[c] = 0
    BY <2>1 DEF Init
  <2>5. QED BY <2>2, <2>3, <2>4 DEF AnswerInv, Done, RecordTrue, AnswerTrue
<1>2. QED BY <1>1, AnswerStep, PTL DEF Spec

(* Accepted means queued and refused means that nothing was done, also for *)
(* a caller who is answered from another call's record (ServeHTTP).        *)
THEOREM CallersAreToldTheTruth == Spec => []AnswersAreTrue
<1>1. AnswerInv => AnswersAreTrue
  BY DEF AnswerInv, AnswerTrue, Holds, AnswersAreTrue
<1>2. QED BY <1>1, AnswerInvariant, PTL

-----------------------------------------------------------------------------
(* The types.                                                              *)

(* What was found of a request is found of one of its targets each.        *)
Fine(f, targets) ==
  /\ f \in Seq(Resolved)
  /\ \A i \in DOMAIN f : i \in DOMAIN targets /\ (f[i].why = "ok" => f[i].name \in Names)

(* Whatever is delivered, now or later, goes to an instance that was found *)
(* for its target.                                                         *)
ResolveInv ==
  /\ req \in [Calls -> Requests] /\ pc \in [Calls -> Steps]
  /\ picked \in [Calls -> Names \cup {"none"}] /\ left \in [Calls -> SUBSET Nat]
  /\ found = [c \in Calls |-> found[c]] /\ todo \subseteq Orders
  /\ \A c \in Calls :
       /\ Fine(found[c], req[c].targets)
       /\ pc[c] = "checking" => picked[c] \in Names /\ Due(c) \in DOMAIN req[c].targets
       /\ pc[c] = "sending" => \A i \in left[c] : i \in DOMAIN found[c] /\ found[c][i].why = "ok"
       /\ pc[c] = "accepting" => \A i \in DOMAIN found[c] : found[c][i].why = "ok"

(* Another finding is of the next target.                                  *)
LEMMA FineNote ==
  ASSUME NEW targets \in Seq(Targets), NEW f, Fine(f, targets),
         NEW r \in Resolved, r.why = "ok" => r.name \in Names, Len(f) + 1 \in DOMAIN targets
  PROVE  Fine(Append(f, r), targets)
<1>1. PICK g \in Seq(Resolved) : g = f
  BY DEF Fine
<1>2. PICK h \in Seq(Resolved) : h = Append(g, r)
  <2>1. Append(g, r) \in Seq(Resolved)
    OBVIOUS
  <2>2. QED BY <2>1
<1>3. ASSUME NEW i \in DOMAIN h
      PROVE  i \in DOMAIN targets /\ (h[i].why = "ok" => h[i].name \in Names)
  <2>1. i \in 1..Len(g) + 1 /\ (i \in DOMAIN g => h[i] = g[i]) /\ (i = Len(g) + 1 => h[i] = r)
    BY <1>2, <1>3
  <2>2. CASE i \in DOMAIN g
    BY <1>1, <2>1, <2>2 DEF Fine
  <2>3. CASE i = Len(g) + 1
    BY <1>1, <2>1, <2>3
  <2>4. i \in DOMAIN g \/ i = Len(g) + 1
    BY <2>1
  <2>5. QED BY <2>2, <2>3, <2>4
<1>4. QED BY <1>1, <1>2, <1>3 DEF Fine

(* Noting what was found keeps it.                                         *)
LEMMA NoteKeeps ==
  ASSUME ResolveInv, NEW c \in Calls, Due(c) \in DOMAIN req[c].targets,
         NEW n \in Names \cup {"none"}, NEW why \in {"ok", "unknown", "conflict", "policy"},
         why = "ok" => n \in Names, Note(c, n, why),
         UNCHANGED <<req, left, todo>>, picked' \in [Calls -> Names \cup {"none"}],
         \A d \in Calls \ {c} : picked'[d] = picked[d]
  PROVE  ResolveInv'
<1>1. PICK ts \in Seq(Targets) : ts = req[c].targets
  BY NotifyAssumption DEF ResolveInv, NotifyAssumption
<1>2. PICK r \in Resolved : r = [name |-> n, why |-> why] /\ r.name = n /\ r.why = why
  <2>1. PICK r : r = [name |-> n, why |-> why]
    OBVIOUS
  <2>2. r \in Resolved /\ r.name = n /\ r.why = why
    BY <2>1 DEF Resolved
  <2>3. QED BY <2>1, <2>2
<1>3. PICK g : g = Append(found[c], r)
  OBVIOUS
<1>4. Fine(g, ts)
  <2>1. Fine(found[c], ts) /\ Len(found[c]) + 1 \in DOMAIN ts
    BY <1>1 DEF ResolveInv, Due
  <2>2. Fine(Append(found[c], r), ts)
    BY <1>2, <2>1, FineNote
  <2>3. QED BY <1>3, <2>2
<1>5. found' = [found EXCEPT ![c] = g]
  BY <1>2, <1>3 DEF Note
<1>6. pc' = [pc EXCEPT ![c] = "resolving"]
  BY DEF Note, Goto
<1>7. found' = [d \in Calls |-> found'[d]] /\ pc' \in [Calls -> Steps]
  BY <1>5, <1>6 DEF ResolveInv, Steps
<1>8. ASSUME NEW d \in Calls
      PROVE  /\ Fine(found'[d], req[d].targets)
             /\ pc'[d] = "checking" => picked'[d] \in Names /\ Len(found'[d]) + 1 \in DOMAIN req[d].targets
             /\ pc'[d] = "sending" => \A i \in left[d] : i \in DOMAIN found'[d] /\ found'[d][i].why = "ok"
             /\ pc'[d] = "accepting" => \A i \in DOMAIN found'[d] : found'[d][i].why = "ok"
  <2>1. CASE d = c
    <3>1. found'[c] = g /\ pc'[c] = "resolving"
      BY <1>5, <1>6 DEF ResolveInv
    <3>2. QED BY <1>1, <1>4, <2>1, <3>1
  <2>2. CASE d # c
    <3>1. found'[d] = found[d] /\ pc'[d] = pc[d] /\ picked'[d] = picked[d]
      BY <1>5, <1>6, <2>2 DEF ResolveInv
    <3>2. QED BY <3>1 DEF ResolveInv, Due
  <2>3. QED BY <2>1, <2>2
<1>9. QED BY <1>7, <1>8 DEF ResolveInv, Fine, Due

(* A step of a call that leaves what was found.                            *)
LEMMA GoesOn ==
  ASSUME ResolveInv, UNCHANGED <<req, found>>, NEW c \in Calls, NEW s \in Steps, Goto(c, s),
         picked' \in [Calls -> Names \cup {"none"}], left' \in [Calls -> SUBSET Nat],
         todo' \subseteq Orders,
         \A d \in Calls \ {c} : picked'[d] = picked[d] /\ left'[d] = left[d],
         s = "checking" => picked'[c] \in Names /\ Due(c) \in DOMAIN req[c].targets,
         s = "sending" => \A i \in left'[c] : i \in DOMAIN found[c] /\ found[c][i].why = "ok",
         s = "accepting" => \A i \in DOMAIN found[c] : found[c][i].why = "ok"
  PROVE  ResolveInv'
<1>1. \A d \in Calls : pc'[d] = IF d = c THEN s ELSE pc[d]
  BY DEF ResolveInv, Goto
<1>2. pc' \in [Calls -> Steps] /\ found' = [d \in Calls |-> found'[d]]
  BY DEF ResolveInv, Goto
<1>3. QED BY <1>1, <1>2 DEF ResolveInv, Fine, Due

(* A delivery of a target that was found.                                  *)
LEMMA OrderType ==
  ASSUME ResolveInv, NEW c \in Calls, NEW i \in DOMAIN found[c], found[c][i].why = "ok"
  PROVE  Order(c, i) \in Orders
<1>1. i \in DOMAIN req[c].targets /\ found[c][i].name \in Names /\ i \in Nat
  BY DEF ResolveInv, Fine
<1>2. PICK q \in [sync : BOOLEAN, to : SUBSET Addresses, targets : Seq(Targets)] : q = req[c]
  BY NotifyAssumption DEF ResolveInv, NotifyAssumption
<1>3. PICK t \in Targets : t = q.targets[i]
  BY <1>1, <1>2
<1>4. Recipients(c, i) \in SUBSET Addresses
  BY <1>2, <1>3 DEF Recipients, Targets
<1>5. QED BY <1>1, <1>2, <1>3, <1>4 DEF Order, Orders

(* Every step keeps it.                                                    *)
LEMMA ResolveStep == ResolveInv /\ [Next]_vars => ResolveInv'
<1>. SUFFICES ASSUME ResolveInv, [Next]_vars PROVE ResolveInv'
  OBVIOUS
<1>1. ASSUME UNCHANGED <<req, pc, found, picked, left>>, todo' \subseteq Orders
      PROVE  ResolveInv'
  BY <1>1 DEF ResolveInv, Fine, Due
<1>2. ASSUME NEW c \in Calls, Begin(c) \/ Panic(c) \/ Collect(c)
               \/ \E ok \in BOOLEAN : Lookup(c, ok) \/ Record(c, ok)
      PROVE  ResolveInv'
  <2>1. UNCHANGED <<req, found, picked, left, todo>>
    BY <1>2 DEF Begin, Panic, Collect, Lookup, Record, asked, tables
  <2>2. \E s \in {"lookup", "resolving", "recording", "done"} : Goto(c, s)
    BY <1>2 DEF Begin, Panic, Collect, Lookup, Record, Answer
  <2>3. QED BY <2>1, <2>2, GoesOn DEF ResolveInv, Steps
<1>3. ASSUME NEW c \in Calls, Resolve(c) PROVE ResolveInv'
  <2>1. UNCHANGED <<req, left, todo>> /\ Due(c) \in DOMAIN req[c].targets
    BY <1>3 DEF Resolve, asked, tables
  <2>2. CASE Note(c, "none", "unknown") /\ UNCHANGED picked
    BY <2>1, <2>2, NoteKeeps DEF ResolveInv
  <2>3. CASE Note(c, "none", "conflict") /\ UNCHANGED picked
    BY <2>1, <2>3, NoteKeeps DEF ResolveInv
  <2>4. ASSUME NEW n \in Names, picked' = [picked EXCEPT ![c] = n], Goto(c, "checking"),
               UNCHANGED found
        PROVE  ResolveInv'
    <3>1. /\ picked' \in [Calls -> Names \cup {"none"}] /\ picked'[c] = n
          /\ \A d \in Calls \ {c} : picked'[d] = picked[d]
      BY <2>4 DEF ResolveInv
    <3>2. QED BY <2>1, <2>4, <3>1, GoesOn DEF ResolveInv, Steps
  <2>5. QED BY <1>3, <2>2, <2>3, <2>4 DEF Resolve
<1>4. ASSUME NEW c \in Calls, Check(c) PROVE ResolveInv'
  <2>1. UNCHANGED <<req, left, todo, picked>> /\ pc[c] = "checking"
    BY <1>4 DEF Check, asked, tables
  <2>2. picked[c] \in Names /\ Due(c) \in DOMAIN req[c].targets
        /\ picked \in [Calls -> Names \cup {"none"}]
    BY <2>1 DEF ResolveInv
  <2>3. CASE Note(c, picked[c], "ok")
    BY <2>1, <2>2, <2>3, NoteKeeps
  <2>4. CASE Note(c, "none", "policy")
    BY <2>1, <2>2, <2>4, NoteKeeps
  <2>5. QED BY <1>4, <2>3, <2>4 DEF Check
<1>5. ASSUME NEW c \in Calls, Decide(c) PROVE ResolveInv'
  <2>1. UNCHANGED <<req, found, picked, todo>>
    BY <1>5 DEF Decide, asked, tables
  <2>2. CASE Answer(c, c, "refused") /\ UNCHANGED left
    BY <2>1, <2>2, GoesOn DEF Answer, ResolveInv, Steps
  <2>3. CASE /\ Goto(c, "sending")
             /\ left' = [left EXCEPT ![c] = {i \in DOMAIN found[c] : found[c][i].why = "ok"}]
    <3>1. PICK S \in SUBSET Nat : S = {i \in DOMAIN found[c] : found[c][i].why = "ok"}
      <4>1. found[c] \in Seq(Resolved)
        BY DEF ResolveInv, Fine
      <4>2. {i \in DOMAIN found[c] : found[c][i].why = "ok"} \in SUBSET Nat
        BY <4>1
      <4>3. QED BY <4>2
    <3>2. /\ left' \in [Calls -> SUBSET Nat] /\ left'[c] = S
          /\ \A d \in Calls \ {c} : left'[d] = left[d]
      BY <2>3, <3>1 DEF ResolveInv
    <3>3. QED BY <2>1, <2>3, <3>1, <3>2, GoesOn DEF ResolveInv, Steps
  <2>4. CASE ~Refused(c) /\ ~req[c].sync /\ Goto(c, "accepting") /\ UNCHANGED left
    <3>1. \A i \in DOMAIN found[c] : found[c][i].why = "ok"
      BY <2>4 DEF Refused
    <3>2. QED BY <2>1, <2>4, <3>1, GoesOn DEF ResolveInv, Steps
  <2>5. QED BY <1>5, <2>2, <2>3, <2>4 DEF Decide
<1>6. ASSUME NEW c \in Calls, NEW i \in left[c], DeliverNow(c, i) PROVE ResolveInv'
  <2>1. UNCHANGED <<req, pc, found, picked, todo>> /\ left' = [left EXCEPT ![c] = @ \ {i}]
    BY <1>6 DEF DeliverNow, asked, tables
  <2>2. left' \in [Calls -> SUBSET Nat] /\ \A d \in Calls : left'[d] \subseteq left[d]
    BY <2>1 DEF ResolveInv
  <2>3. QED BY <2>1, <2>2 DEF ResolveInv, Fine, Due
<1>7. ASSUME NEW c \in Calls, NEW ok \in BOOLEAN, Enqueue(c, ok) PROVE ResolveInv'
  <2>1. UNCHANGED <<req, found, picked, left>> /\ pc[c] = "accepting"
    BY <1>7 DEF Enqueue, asked
  <2>2. \A i \in DOMAIN found[c] : Order(c, i) \in Orders
    BY <2>1, OrderType DEF ResolveInv
  <2>3. todo' \subseteq Orders
    BY <1>7, <2>2 DEF Enqueue, ResolveInv
  <2>4. PICK s \in {"recording", "done"} : Goto(c, s)
    BY <1>7 DEF Enqueue, TurnAway, Answer
  <2>5. QED BY <2>1, <2>3, <2>4, GoesOn DEF ResolveInv, Steps
<1>8. ASSUME NEW o \in todo, Work(o) PROVE ResolveInv'
  BY <1>1, <1>8 DEF Work, asked, locals, ResolveInv
<1>9. CASE Crash
  <2>1. UNCHANGED <<req, found, picked, left, todo>>
        /\ pc' = [c \in Calls |-> IF Under(c) THEN "done" ELSE pc[c]]
    BY <1>9 DEF Crash, asked, tables
  <2>2. pc' \in [Calls -> Steps] /\ \A c \in Calls : pc'[c] \in {pc[c], "done"}
    BY <2>1 DEF ResolveInv, Steps
  <2>3. QED BY <2>1, <2>2 DEF ResolveInv, Fine, Due
<1>10. CASE Prune \/ Reload \/ Tick \/ UNCHANGED vars \/ \E c \in Calls : Lose(c)
  BY <1>1, <1>10 DEF Prune, Reload, Tick, Lose, vars, asked, locals, tables, ResolveInv
<1>11. QED
  BY <1>2, <1>3, <1>4, <1>5, <1>6, <1>7, <1>8, <1>9, <1>10 DEF Next, Serving

(* What else the handler and the table keep.                               *)
RestInv ==
  /\ live \in Sets /\ over \in [Calls -> BOOLEAN] /\ doubt \subseteq Keys
  /\ clock \in 1..Horizon /\ mishaps \in 0..MaxMishaps /\ reloads \in 0..MaxReloads
  /\ records \in [Keys -> Records]
  /\ acted \in [Calls -> 0..Horizon] /\ stored \in [Calls -> 0..Horizon]

(* Steps that touch neither the table nor the clock.                       *)
LEMMA RestKept ==
  ASSUME RestInv, UNCHANGED <<live, clock, reloads, records, stored>>,
         over' \in [Calls -> BOOLEAN], doubt' \subseteq Keys, mishaps' \in 0..MaxMishaps,
         acted' \in [Calls -> 0..Horizon]
  PROVE  RestInv'
BY DEF RestInv

(* The time at which something was done.                                   *)
LEMMA ActedTypes ==
  ASSUME RestInv, NEW c \in Calls, ActedNow(c) PROVE acted' \in [Calls -> 0..Horizon]
<1>1. PICK t \in 0..Horizon : t = clock
  BY NotifyAssumption DEF RestInv, NotifyAssumption
<1>2. QED BY <1>1 DEF RestInv, ActedNow

(* What is stored of a call.                                               *)
LEMMA PutTypes ==
  ASSUME RestInv, NEW c \in Calls, key[c] \in Keys, Put(c)
  PROVE  records' \in [Keys -> Records] /\ stored' \in [Calls -> 0..Horizon]
<1>1. PICK t \in 0..Horizon : t = clock
  BY NotifyAssumption DEF RestInv, NotifyAssumption
<1>2. PICK r : r = [of |-> c, status |-> Status(c), at |-> t]
  OBVIOUS
<1>3. r \in Records
  BY <1>2 DEF Records, Status, Statuses
<1>4. CASE UNCHANGED <<records, stored>>
  BY <1>4 DEF RestInv
<1>5. CASE records' = [records EXCEPT ![key[c]] = r] /\ stored' = [stored EXCEPT ![c] = t]
  BY <1>3, <1>5 DEF RestInv
<1>6. QED BY <1>1, <1>2, <1>4, <1>5 DEF Put

(* Every step keeps the rest.                                              *)
LEMMA RestStep == AnswerInv /\ RestInv /\ [Next]_vars => RestInv'
<1>. SUFFICES ASSUME AnswerInv, RestInv, [Next]_vars PROVE RestInv'
  OBVIOUS
<1>1. /\ over \in [Calls -> BOOLEAN] /\ doubt \subseteq Keys /\ mishaps \in 0..MaxMishaps
      /\ acted \in [Calls -> 0..Horizon] /\ stored \in [Calls -> 0..Horizon]
      /\ key \in [Calls -> Keys \cup {"none"}] /\ \A c \in Calls : Done(c)
  BY DEF RestInv, AnswerInv, TableInv, Shape
<1>2. ASSUME NEW ok \in BOOLEAN, Access(ok) PROVE mishaps' \in 0..MaxMishaps
  BY <1>1, <1>2, NotifyAssumption DEF Access, NotifyAssumption
<1>3. ASSUME NEW c \in Calls, Begin(c) PROVE RestInv'
  <2>1. doubt' \subseteq Keys
    BY <1>1, <1>3 DEF Begin
  <2>2. UNCHANGED <<live, clock, reloads, records, stored, over, mishaps, acted>>
    BY <1>3 DEF Begin, tables
  <2>3. QED BY <1>1, <2>1, <2>2, RestKept
<1>4. ASSUME NEW c \in Calls, NEW ok \in BOOLEAN, Lookup(c, ok) PROVE RestInv'
  <2>1. key[c] \in Keys
    BY <1>1, <1>4 DEF Lookup, Done
  <2>2. doubt' \subseteq Keys
    BY <1>1, <1>4, <2>1 DEF Lookup
  <2>3. UNCHANGED <<live, clock, reloads, records, stored, over, acted>> /\ Access(ok)
    BY <1>4 DEF Lookup, tables
  <2>4. QED BY <1>1, <1>2, <2>2, <2>3, RestKept
<1>5. ASSUME NEW c \in Calls, Resolve(c) \/ Check(c) \/ Panic(c) \/ Decide(c) \/ Collect(c)
      PROVE  RestInv'
  <2>1. UNCHANGED <<live, clock, reloads, records, stored, over, mishaps, acted, doubt>>
    BY <1>5 DEF Resolve, Check, Panic, Decide, Collect, tables, history
  <2>2. QED BY <1>1, <2>1, RestKept
<1>6. ASSUME NEW c \in Calls, Lose(c) PROVE RestInv'
  <2>1. UNCHANGED <<live, clock, reloads, records, stored, mishaps, acted, doubt>>
        /\ over' = [over EXCEPT ![c] = TRUE]
    BY <1>6 DEF Lose, tables, history
  <2>2. over' \in [Calls -> BOOLEAN]
    BY <1>1, <2>1
  <2>3. QED BY <1>1, <2>1, <2>2, RestKept
<1>7. ASSUME NEW c \in Calls, NEW i \in left[c], DeliverNow(c, i) PROVE RestInv'
  <2>1. UNCHANGED <<live, clock, reloads, records, stored, over, mishaps, doubt>>
    BY <1>7 DEF DeliverNow, tables
  <2>2. ActedNow(c) \/ UNCHANGED acted
    BY <1>7 DEF DeliverNow
  <2>3. acted' \in [Calls -> 0..Horizon]
    BY <1>1, <2>2, ActedTypes
  <2>4. QED BY <1>1, <2>1, <2>3, RestKept
<1>8. ASSUME NEW c \in Calls, NEW ok \in BOOLEAN, Enqueue(c, ok) PROVE RestInv'
  <2>1. UNCHANGED <<live, clock, reloads, records, stored, over, doubt>> /\ Access(ok)
    BY <1>8 DEF Enqueue
  <2>2. ActedNow(c) \/ UNCHANGED acted
    BY <1>8 DEF Enqueue
  <2>3. acted' \in [Calls -> 0..Horizon]
    BY <1>1, <2>2, ActedTypes
  <2>4. QED BY <1>1, <1>2, <2>1, <2>3, RestKept
<1>9. ASSUME NEW c \in Calls, NEW ok \in BOOLEAN, Record(c, ok) PROVE RestInv'
  <2>1. UNCHANGED <<live, clock, reloads, over, acted>>
    BY <1>9 DEF Record
  <2>2. CASE key[c] = "none"
    <3>1. UNCHANGED <<records, stored, mishaps, doubt>>
      BY <1>9, <2>2 DEF Record
    <3>2. QED BY <1>1, <2>1, <3>1, RestKept
  <2>3. CASE key[c] # "none"
    <3>1. key[c] \in Keys /\ Access(ok)
      BY <1>1, <1>9, <2>3 DEF Record
    <3>2. CASE Put(c) /\ UNCHANGED doubt
      <4>1. records' \in [Keys -> Records] /\ stored' \in [Calls -> 0..Horizon]
        BY <3>1, <3>2, PutTypes
      <4>2. mishaps' \in 0..MaxMishaps
        BY <1>2, <3>1
      <4>3. QED BY <2>1, <3>2, <4>1, <4>2 DEF RestInv
    <3>3. CASE doubt' = doubt \cup {key[c]} /\ UNCHANGED <<records, stored>>
      <4>1. doubt' \subseteq Keys
        BY <1>1, <3>1, <3>3
      <4>2. QED BY <1>1, <1>2, <2>1, <3>1, <3>3, <4>1, RestKept
    <3>4. QED BY <1>9, <2>3, <3>2, <3>3 DEF Record
  <2>4. QED BY <2>2, <2>3
<1>10. ASSUME NEW o \in todo, Work(o) PROVE RestInv'
  <2>1. UNCHANGED <<live, clock, reloads, records, stored, over, mishaps, acted, doubt>>
    BY <1>10 DEF Work, locals
  <2>2. QED BY <1>1, <2>1, RestKept
<1>11. CASE Prune
  <2>1. PICK r : r = NoRecord
    OBVIOUS
  <2>2. r \in Records
    BY <2>1, NotifyAssumption DEF NoRecord, Records, Statuses, NotifyAssumption
  <2>3. records' = [k \in Keys |-> IF Expired(k) THEN r ELSE records[k]]
    BY <1>11, <2>1 DEF Prune
  <2>4. records' \in [Keys -> Records]
    BY <2>2, <2>3 DEF RestInv
  <2>5. UNCHANGED <<live, clock, reloads, stored, over, mishaps, acted, doubt>>
    BY <1>11 DEF Prune, locals, history
  <2>6. QED BY <2>4, <2>5 DEF RestInv
<1>12. CASE Reload
  <2>1. live' \in Sets /\ reloads' \in 0..MaxReloads
    BY <1>12, NotifyAssumption DEF Reload, RestInv, NotifyAssumption
  <2>2. UNCHANGED <<clock, records, stored, over, mishaps, acted, doubt>>
    BY <1>12 DEF Reload, locals, tables, history
  <2>3. QED BY <2>1, <2>2 DEF RestInv
<1>13. CASE Crash
  <2>1. doubt' \subseteq Keys
    BY <1>1, <1>13 DEF Crash
  <2>2. mishaps' \in 0..MaxMishaps
    BY <1>1, <1>13, NotifyAssumption DEF Crash, NotifyAssumption
  <2>3. UNCHANGED <<live, clock, reloads, records, stored, over, acted>>
    BY <1>13 DEF Crash, tables
  <2>4. QED BY <1>1, <2>1, <2>2, <2>3, RestKept
<1>14. CASE Tick
  <2>1. clock' \in 1..Horizon
    BY <1>14, NotifyAssumption DEF Tick, RestInv, NotifyAssumption
  <2>2. UNCHANGED <<live, reloads, records, stored, over, mishaps, acted, doubt>>
    BY <1>14 DEF Tick, locals, tables, history
  <2>3. QED BY <2>1, <2>2 DEF RestInv
<1>15. CASE UNCHANGED vars
  BY <1>15 DEF vars, locals, tables, history, RestInv
<1>16. QED
  BY <1>3, <1>4, <1>5, <1>6, <1>7, <1>8, <1>9, <1>10, <1>11, <1>12, <1>13, <1>14, <1>15
  DEF Next, Serving

(* TypeOK: in particular every delivery that is queued names an instance,  *)
(* one that was found for its target, and never an unresolved one          *)
(* (accept; deliveryTargets).                                              *)
THEOREM NotifyTypes == Spec => []TypeOK
<1>1. Init => ResolveInv
  <2>1. ASSUME Init PROVE ResolveInv
    <3>1. /\ req \in [Calls -> Requests] /\ pc = [c \in Calls |-> "new"]
          /\ found = [c \in Calls |-> <<>>] /\ picked = [c \in Calls |-> "none"]
          /\ left = [c \in Calls |-> {}] /\ todo = {}
      BY <2>1 DEF Init
    <3>2. QED BY <3>1 DEF ResolveInv, Fine, Steps
  <2>2. QED BY <2>1
<1>2. Init => RestInv
  <2>1. ASSUME Init PROVE RestInv
    <3>1. PICK r : r = NoRecord
      OBVIOUS
    <3>2. r \in Records
      BY <3>1, NotifyAssumption DEF NoRecord, Records, Statuses, NotifyAssumption
    <3>3. records = [k \in Keys |-> r]
      BY <2>1, <3>1 DEF Init
    <3>4. /\ live \in Sets /\ over = [c \in Calls |-> FALSE] /\ doubt = {} /\ clock = 1
          /\ mishaps = 0 /\ reloads = 0
          /\ acted = [c \in Calls |-> 0] /\ stored = [c \in Calls |-> 0]
      BY <2>1 DEF Init
    <3>5. records \in [Keys -> Records]
      BY <3>2, <3>3
    <3>6. QED BY <3>4, <3>5, NotifyAssumption DEF RestInv, NotifyAssumption
  <2>2. QED BY <2>1
<1>3. AnswerInv /\ ResolveInv /\ RestInv => TypeOK
  <2>1. ResolveInv => found \in [Calls -> Seq(Resolved)]
    BY DEF ResolveInv, Fine
  <2>2. QED BY <2>1 DEF AnswerInv, TableInv, Shape, ResolveInv, RestInv, TypeOK
<1>4. QED BY <1>1, <1>2, <1>3, ResolveStep, RestStep, AnswerInvariant, PTL DEF Spec
=============================================================================
