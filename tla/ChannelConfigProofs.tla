-------------------------- MODULE ChannelConfigProofs --------------------------
(***************************************************************************)
(* What holds of ChannelConfig for any number of administrators, channels, *)
(* keys and files, wherever the process dies and whichever accesses to the *)
(* store fail.                                                             *)
(***************************************************************************)
EXTENDS ChannelConfig, TLAPS

(* The shape of the state, as far as the proofs look at it.                *)
Shaped ==
  /\ table = [n \in Names |-> table[n]]
  /\ DOMAIN sealed = Names /\ DOMAIN last = Names
  /\ file \in Files /\ using \in Files
  /\ pc \in [Actors -> Steps] /\ op \in [Admins -> Requests]
  /\ DOMAIN mine = Admins /\ DOMAIN snap = Actors
  /\ ver \in Nat /\ liveVer \in Nat /\ snapVer \in [Actors -> Nat]
  /\ \A a \in Actors : snapVer[a] <= ver
  /\ liveVer <= ver

(* Nobody works on the channels of a process that does not serve.          *)
Idle == phase # "serving" => \A a \in Actors : pc[a] \in {"idle", "done"}

LEMMA HupIsApart == Hup \notin Admins /\ Hup \in Actors /\ Admins \subseteq Actors
BY ConfigAssumption DEF ConfigAssumption, Actors

LEMMA OpFacts == Shaped => \A a \in Admins : op[a].name \in Names
BY ConfigAssumption DEF Shaped, ConfigAssumption

LEMMA ShapedInit == Init => Shaped /\ Idle
BY HupIsApart DEF Init, Shaped, Idle, Steps, Nothing, Actors

LEMMA WriteShapes ==
  ASSUME Shaped, NEW n \in Names, NEW c, NEW by, Write(n, c, by), UNCHANGED <<liveVer, snapVer>>
  PROVE  /\ table' = [m \in Names |-> table'[m]] /\ DOMAIN sealed' = Names /\ ver' \in Nat
         /\ \A a \in Actors : snapVer'[a] <= ver'
         /\ liveVer' <= ver'
BY DEF Shaped, Write

LEMMA ShapedPreserved == Shaped /\ Idle /\ [Next]_vars => Shaped' /\ Idle'
<1>. SUFFICES ASSUME Shaped, Idle, Next \/ UNCHANGED vars PROVE Shaped' /\ Idle'
  OBVIOUS
<1>. USE HupIsApart DEF Shaped, Idle
<1>1. CASE UNCHANGED vars
  BY <1>1 DEF vars, disk, process, locals, history
<1>2. CASE Start
  BY <1>2 DEF Start, disk, locals, history
<1>3. CASE ResolveKey \/ NameKey
  BY <1>3 DEF ResolveKey, NameKey, locals, history
<1>4. CASE SkipImport
  BY <1>4 DEF SkipImport, disk, locals, history
<1>5. ASSUME NEW ok \in BOOLEAN, Mark(ok) PROVE Shaped' /\ Idle'
  BY <1>5 DEF Mark, locals
<1>6. ASSUME NEW ok \in BOOLEAN, Serve(ok) PROVE Shaped' /\ Idle'
  BY <1>6 DEF Serve, disk, locals
<1>7. ASSUME NEW ok \in BOOLEAN, NEW n \in Names, ImportOne(n, ok) PROVE Shaped' /\ Idle'
  <2>1. CASE UNCHANGED <<table, sealed, ver>>
    BY <1>7, <2>1 DEF ImportOne, locals
  <2>2. CASE ~UNCHANGED <<table, sealed, ver>>
    BY <1>7, <2>2, WriteShapes DEF ImportOne, locals
  <2>3. QED BY <2>1, <2>2
<1>8. ASSUME NEW a \in Admins, Begin(a) \/ Leave(a) PROVE Shaped' /\ Idle'
  BY <1>8 DEF Begin, Leave, Goto, Steps, disk, process, history
<1>9. ASSUME NEW a \in Admins, NEW ok \in BOOLEAN, Read(a, ok) PROVE Shaped' /\ Idle'
  BY <1>9 DEF Read, Answer, Goto, Steps, disk, process, history
<1>10. ASSUME NEW a \in Admins, NEW ok \in BOOLEAN, Merge(a, ok) PROVE Shaped' /\ Idle'
  BY <1>10 DEF Merge, Answer, Goto, Steps, disk, process, history
<1>11. ASSUME NEW a \in Admins, NEW ok \in BOOLEAN, Put(a, ok) PROVE Shaped' /\ Idle'
  <2>1. CASE UNCHANGED <<table, sealed, ver>>
    BY <1>11, <2>1 DEF Put, Write, Answer, Goto, Steps, process
  <2>2. CASE ~UNCHANGED <<table, sealed, ver>>
    <3>1. Write(op[a].name, mine[a], Sealing(mine[a])) /\ Goto(a, "recording") /\ pc[a] = "putting"
      BY <1>11, <2>2 DEF Put
    <3>2. op[a].name \in Names
      BY OpFacts
    <3>3. DOMAIN last' = Names
      BY <1>11 DEF Put
    <3>4. QED BY <1>11, <3>1, <3>2, <3>3, WriteShapes DEF Put, Goto, Steps, process
  <2>3. QED BY <2>1, <2>2
<1>12. ASSUME NEW a \in Admins, NEW ok \in BOOLEAN, Delete(a, ok) PROVE Shaped' /\ Idle'
  <2>1. CASE UNCHANGED <<table, sealed, ver>>
    BY <1>12, <2>1 DEF Delete, Write, Answer, Goto, Steps, process
  <2>2. CASE ~UNCHANGED <<table, sealed, ver>>
    <3>1. Write(op[a].name, Absent, "none") /\ Goto(a, "recording") /\ pc[a] = "deleting"
      BY <1>12, <2>2 DEF Delete
    <3>2. op[a].name \in Names
      BY OpFacts
    <3>3. DOMAIN last' = Names
      BY <1>12 DEF Delete
    <3>4. QED BY <1>12, <3>1, <3>2, <3>3, WriteShapes DEF Delete, Goto, Steps, process
  <2>3. QED BY <2>1, <2>2
<1>13. ASSUME NEW a \in Admins, NEW ok \in BOOLEAN, Record(a, ok) PROVE Shaped' /\ Idle'
  BY <1>13 DEF Record, Goto, Steps, disk, process, history
<1>14. ASSUME NEW a \in Actors, NEW ok \in BOOLEAN, Load(a, ok) PROVE Shaped' /\ Idle'
  <2>1. /\ DOMAIN snap' = Actors
        /\ snapVer' \in [Actors -> Nat] /\ \A b \in Actors : snapVer'[b] <= ver
    BY <1>14 DEF Load, GiveUp
  <2>2. pc' \in [Actors -> Steps] /\ phase = "serving"
    BY <1>14 DEF Load, GiveUp, Answer, Goto, Steps
  <2>3. QED BY <1>14, <2>1, <2>2 DEF Load, disk, process
<1>15. ASSUME NEW a \in Actors, Install(a) PROVE Shaped' /\ Idle'
  <2>1. pc' \in [Actors -> Steps] /\ phase = "serving"
    BY <1>15 DEF Install, GiveUp, Answer, Goto, Steps
  <2>2. liveVer' \in {liveVer, snapVer[a]}
    BY <1>15 DEF Install
  <2>3. QED BY <1>15, <2>1, <2>2 DEF Install, disk
<1>16. CASE Signal
  BY <1>16 DEF Signal, Goto, Steps, disk, history
<1>17. CASE EditFile
  BY <1>17 DEF EditFile, disk, process, locals, history
<1>18. CASE Crash
  BY <1>18 DEF Crash, disk, history, Steps
<1>19. ASSUME NEW n \in Names, EditByHand(n) PROVE Shaped' /\ Idle'
  <2>1. PICK c \in HandRows : Write(n, c, "none") /\ last' = [last EXCEPT ![n] = c]
    BY <1>19 DEF EditByHand
  <2>2. QED BY <1>19, <2>1, WriteShapes DEF EditByHand, process, locals
<1>20. QED
  BY <1>1, <1>2, <1>3, <1>4, <1>5, <1>6, <1>7, <1>8, <1>9, <1>10, <1>11, <1>12, <1>13,
     <1>14, <1>15, <1>16, <1>17, <1>18, <1>19 DEF Next, Starting, Changing, Reloading
-----------------------------------------------------------------------------
(* The import.                                                             *)

(* A start that has begun to import has found no marker, and has written   *)
(* what it has taken off its list.                                         *)
ImportInv ==
  /\ FileSeedsOnce
  /\ phase \in {"keys", "naming"} => left = InFile(using)
  /\ phase = "import" =>
       /\ left \subseteq InFile(using)
       /\ left # InFile(using) => ~marker
       /\ \A n \in InFile(using) \ left : table[n] = using.channels[n]

LEMMA ImportInit == Init => ImportInv
BY DEF Init, ImportInv, FileSeedsOnce

(* What an administrator or the operator writes is what is last asked for. *)
LEMMA ImportServing ==
  ASSUME Shaped, ImportInv, phase \notin {"keys", "naming", "import"}, phase' = phase,
         marker' = marker,
         \/ UNCHANGED <<table, last>>
         \/ \E n \in Names : \E c :
              table' = [table EXCEPT ![n] = c] /\ last' = [last EXCEPT ![n] = c]
  PROVE  ImportInv'
BY DEF Shaped, ImportInv, FileSeedsOnce

LEMMA ImportPreserved == Shaped /\ Idle /\ ImportInv /\ [Next]_vars => ImportInv'
<1>. SUFFICES ASSUME Shaped, Idle, ImportInv, Next \/ UNCHANGED vars PROVE ImportInv'
  OBVIOUS
<1>1. CASE UNCHANGED <<table, last, marker, phase, left, using>>
  BY <1>1 DEF ImportInv, FileSeedsOnce, InFile
<1>2. CASE Start
  BY <1>2 DEF Start, disk, history, ImportInv, FileSeedsOnce, InFile
<1>3. CASE ResolveKey \/ NameKey
  BY <1>3 DEF ResolveKey, NameKey, history, ImportInv, FileSeedsOnce, InFile
<1>4. CASE SkipImport
  BY <1>4 DEF SkipImport, disk, history, ImportInv, FileSeedsOnce
<1>5. ASSUME NEW ok \in BOOLEAN, Mark(ok) PROVE ImportInv'
  <2>1. CASE phase' = "down"
    BY <1>5, <2>1 DEF Mark, ImportInv, FileSeedsOnce
  <2>2. CASE phase' # "down"
    <3>1. /\ phase = "import" /\ left = {} /\ phase' = "load" /\ table' = table
          /\ last' = [n \in Names |-> IF n \in InFile(using) THEN using.channels[n] ELSE table[n]]
      BY <1>5, <2>2 DEF Mark
    <3>2. \A n \in Names : last'[n] = table[n]
      BY <3>1 DEF ImportInv
    <3>3. last' = table
      BY <3>1, <3>2 DEF Shaped
    <3>4. QED BY <3>1, <3>3 DEF ImportInv, FileSeedsOnce
  <2>3. QED BY <2>1, <2>2
<1>6. ASSUME NEW ok \in BOOLEAN, Serve(ok) PROVE ImportInv'
  BY <1>6 DEF Serve, disk, ImportInv, FileSeedsOnce
<1>7. ASSUME NEW ok \in BOOLEAN, NEW n \in Names, ImportOne(n, ok) PROVE ImportInv'
  <2>1. /\ phase = "import" /\ n \in left /\ ~marker /\ UNCHANGED <<marker, using, last>>
    BY <1>7 DEF ImportOne, ImportInv, Due
  <2>2. CASE phase' = "down"
    BY <2>1, <2>2 DEF ImportInv, FileSeedsOnce
  <2>3. CASE phase' # "down"
    <3>1. /\ table' = [table EXCEPT ![n] = using.channels[n]] /\ left' = left \ {n}
          /\ phase' = phase
      BY <1>7, <2>3 DEF ImportOne, Write
    <3>2. \A m \in InFile(using) \ left' : table'[m] = using.channels[m]
      BY <2>1, <3>1 DEF ImportInv, Shaped, InFile
    <3>3. left' \subseteq InFile(using) /\ InFile(using)' = InFile(using)
      BY <2>1, <3>1 DEF ImportInv, InFile
    <3>4. QED BY <2>1, <3>1, <3>2, <3>3 DEF ImportInv, FileSeedsOnce
  <2>4. QED BY <2>2, <2>3
<1>8. ASSUME NEW a \in Admins, Begin(a) \/ Leave(a) PROVE ImportInv'
  BY <1>1, <1>8 DEF Begin, Leave, disk, process, history
<1>9. ASSUME NEW a \in Admins, NEW ok \in BOOLEAN, Read(a, ok) \/ Merge(a, ok) \/ Record(a, ok)
      PROVE ImportInv'
  BY <1>1, <1>9 DEF Read, Merge, Record, disk, process, history
<1>10. ASSUME NEW a \in Admins, NEW ok \in BOOLEAN, Put(a, ok) PROVE ImportInv'
  <2>1. phase = "serving" /\ UNCHANGED <<marker, phase>>
    BY <1>10, HupIsApart DEF Put, Idle, process
  <2>2. QED BY <1>10, <2>1, OpFacts, ImportServing DEF Put, Write
<1>11. ASSUME NEW a \in Admins, NEW ok \in BOOLEAN, Delete(a, ok) PROVE ImportInv'
  <2>1. phase = "serving" /\ UNCHANGED <<marker, phase>>
    BY <1>11, HupIsApart DEF Delete, Idle, process
  <2>2. QED BY <1>11, <2>1, OpFacts, ImportServing DEF Delete, Write
<1>12. ASSUME NEW a \in Actors, NEW ok \in BOOLEAN, Load(a, ok) PROVE ImportInv'
  BY <1>1, <1>12 DEF Load, disk, process
<1>13. ASSUME NEW a \in Actors, Install(a) PROVE ImportInv'
  BY <1>1, <1>13 DEF Install, disk
<1>14. CASE Signal \/ EditFile
  BY <1>1, <1>14 DEF Signal, EditFile, disk, process, history
<1>15. CASE Crash
  BY <1>15 DEF Crash, disk, history, ImportInv, FileSeedsOnce
<1>16. ASSUME NEW n \in Names, EditByHand(n) PROVE ImportInv'
  BY <1>16, ImportServing DEF EditByHand, Write, process
<1>17. CASE UNCHANGED vars
  BY <1>1, <1>17 DEF vars, disk, process, history
<1>18. QED
  BY <1>2, <1>3, <1>4, <1>5, <1>6, <1>7, <1>8, <1>9, <1>10, <1>11, <1>12, <1>13,
     <1>14, <1>15, <1>16, <1>17 DEF Next, Starting, Changing, Reloading

(* FileSeedsOnce: once the marker is written the table is what was made of *)
(* the file, whole, and no start or crash writes it again.                 *)
THEOREM FileSeedsOnceHolds == Spec => []FileSeedsOnce
<1>1. ImportInv => FileSeedsOnce
  BY DEF ImportInv
<1>. QED
  BY <1>1, ShapedInit, ShapedPreserved, ImportInit, ImportPreserved, PTL DEF Spec

-----------------------------------------------------------------------------
(* The key.                                                                *)

(* A process that may seal has a key that is configured or on disk.        *)
SealInv ==
  /\ SealsAreKept
  /\ phase = "naming" => keyfile = "none" /\ key # "none"
  /\ phase \in {"import", "load", "serving"} =>
       key \in KeyConfigured \cup {keyfile} /\ key # "none"

LEMMA SealInit == Init => SealInv
BY DEF Init, SealInv, SealsAreKept

LEMMA SealWrite ==
  ASSUME Shaped, SealInv, UNCHANGED <<keyfile, phase, key>>, NEW n \in Names, NEW c, NEW by,
         Write(n, c, by), by = "none" \/ (by = key /\ phase \in {"import", "serving"})
  PROVE  SealInv'
BY DEF Shaped, SealInv, SealsAreKept, Write

LEMMA SealPreserved == Shaped /\ Idle /\ SealInv /\ [Next]_vars => SealInv'
<1>. SUFFICES ASSUME Shaped, Idle, SealInv, Next \/ UNCHANGED vars PROVE SealInv'
  OBVIOUS
<1>1. CASE UNCHANGED <<sealed, keyfile, phase, key>>
  BY <1>1 DEF SealInv, SealsAreKept
<1>2. CASE Start
  BY <1>2 DEF Start, disk, SealInv, SealsAreKept
<1>3. CASE ResolveKey
  <2>1. using.key \in KeyConfigured \cup {"none"}
    BY ConfigAssumption DEF Shaped, ConfigAssumption
  <2>2. made + 1 \in DOMAIN Generated => Generated[made + 1] # "none"
    BY ConfigAssumption DEF ConfigAssumption, Keys
  <2>3. QED BY <1>3, <2>1, <2>2 DEF ResolveKey, SealInv, SealsAreKept
<1>4. CASE NameKey
  BY <1>4 DEF NameKey, SealInv, SealsAreKept
<1>5. CASE SkipImport
  BY <1>5 DEF SkipImport, disk, SealInv, SealsAreKept
<1>6. ASSUME NEW ok \in BOOLEAN, Mark(ok) \/ Serve(ok) PROVE SealInv'
  BY <1>6 DEF Mark, Serve, disk, SealInv, SealsAreKept
<1>7. ASSUME NEW ok \in BOOLEAN, NEW n \in Names, ImportOne(n, ok) PROVE SealInv'
  <2>1. CASE phase' = "down"
    BY <1>7, <2>1 DEF ImportOne, SealInv, SealsAreKept
  <2>2. CASE phase' # "down"
    BY <1>7, <2>2, SealWrite DEF ImportOne, Sealing
  <2>3. QED BY <2>1, <2>2
<1>8. ASSUME NEW a \in Admins, Begin(a) \/ Leave(a) PROVE SealInv'
  BY <1>1, <1>8 DEF Begin, Leave, disk, process
<1>9. ASSUME NEW a \in Admins, NEW ok \in BOOLEAN, Read(a, ok) \/ Merge(a, ok) \/ Record(a, ok)
      PROVE SealInv'
  BY <1>1, <1>9 DEF Read, Merge, Record, disk, process
<1>10. ASSUME NEW a \in Admins, NEW ok \in BOOLEAN, Put(a, ok) PROVE SealInv'
  <2>1. phase = "serving" /\ UNCHANGED <<keyfile, phase, key>>
    BY <1>10, HupIsApart DEF Put, Idle, process
  <2>2. QED BY <1>1, <1>10, <2>1, OpFacts, SealWrite DEF Put, Sealing
<1>11. ASSUME NEW a \in Admins, NEW ok \in BOOLEAN, Delete(a, ok) PROVE SealInv'
  <2>1. UNCHANGED <<keyfile, phase, key>>
    BY <1>11 DEF Delete, process
  <2>2. QED BY <1>1, <1>11, <2>1, OpFacts, SealWrite DEF Delete
<1>12. ASSUME NEW a \in Actors, NEW ok \in BOOLEAN, Load(a, ok) PROVE SealInv'
  BY <1>1, <1>12 DEF Load, disk, process
<1>13. ASSUME NEW a \in Actors, Install(a) PROVE SealInv'
  BY <1>1, <1>13 DEF Install, disk
<1>14. CASE Signal \/ EditFile
  BY <1>1, <1>14 DEF Signal, EditFile, disk, process
<1>15. CASE Crash
  BY <1>15 DEF Crash, disk, SealInv, SealsAreKept
<1>16. ASSUME NEW n \in Names, EditByHand(n) PROVE SealInv'
  BY <1>16, SealWrite DEF EditByHand, process
<1>17. CASE UNCHANGED vars
  BY <1>1, <1>17 DEF vars, disk, process
<1>18. QED
  BY <1>2, <1>3, <1>4, <1>5, <1>6, <1>7, <1>8, <1>9, <1>10, <1>11, <1>12, <1>13,
     <1>14, <1>15, <1>16, <1>17 DEF Next, Starting, Changing, Reloading

(* SealsAreKept: whenever the process dies, the key of what is sealed is   *)
(* configured or on disk under its name.                                   *)
THEOREM SealsAreKeptHolds == Spec => []SealsAreKept
<1>1. SealInv => SealsAreKept
  BY DEF SealInv
<1>. QED
  BY <1>1, ShapedInit, ShapedPreserved, SealInit, SealPreserved, PTL DEF Spec

-----------------------------------------------------------------------------
(* What a start needs.                                                     *)

(* What is about to be written has been validated.                         *)
StartInv ==
  /\ RestartWorks
  /\ \A a \in Admins : pc[a] = "putting" => Runs(mine[a])

LEMMA StartInit == Init => StartInv
BY HupIsApart DEF Init, StartInv, RestartWorks

LEMMA StartWrite ==
  ASSUME Shaped, StartInv, UNCHANGED <<key, phase, touched>>, NEW n \in Names, NEW c, NEW by,
         Write(n, c, by), by \in {"none", key}, c.on => Runs(c),
         \A a \in Admins : pc'[a] = "putting" => Runs(mine'[a])
  PROVE  StartInv'
<1>1. table' = [table EXCEPT ![n] = c] /\ sealed' = [sealed EXCEPT ![n] = by]
  BY DEF Write
<1>2. ASSUME phase' = "serving", ~touched', NEW m \in Names
      PROVE  Opens(m)' /\ (table'[m].on => Runs(table'[m]))
  <2>1. Opens(m) /\ (table[m].on => Runs(table[m]))
    BY <1>2 DEF StartInv, RestartWorks
  <2>2. CASE m = n
    BY <1>1, <2>2 DEF Shaped, Opens
  <2>3. CASE m # n
    BY <1>1, <2>1, <2>3 DEF Shaped, Opens
  <2>4. QED BY <2>2, <2>3
<1>3. RestartWorks'
  BY <1>2 DEF RestartWorks, Runs
<1>4. QED BY <1>3 DEF StartInv, Runs

LEMMA StartKept ==
  ASSUME StartInv, UNCHANGED <<table, sealed, key, phase, touched>>,
         \A a \in Admins : pc'[a] = "putting" => pc[a] = "putting" /\ mine'[a] = mine[a]
  PROVE  StartInv'
<1>1. RestartWorks'
  BY DEF StartInv, RestartWorks, Opens, Runs
<1>2. QED BY <1>1 DEF StartInv, Runs

LEMMA AnswerKeeps ==
  ASSUME Shaped, NEW a \in Actors, NEW r, Answer(a, r)
  PROVE  \A b \in Admins : pc'[b] = "putting" => pc[b] = "putting" /\ b # a
BY HupIsApart DEF Shaped, Answer, Goto

LEMMA GotoKeeps ==
  ASSUME Shaped, NEW a \in Actors, NEW step, Goto(a, step), step # "putting"
  PROVE  \A b \in Admins : pc'[b] = "putting" => pc[b] = "putting" /\ b # a
BY HupIsApart DEF Shaped, Goto

LEMMA StartPreserved == Shaped /\ Idle /\ StartInv /\ [Next]_vars => StartInv'
<1>. SUFFICES ASSUME Shaped, Idle, StartInv, Next \/ UNCHANGED vars PROVE StartInv'
  OBVIOUS
<1>1. CASE UNCHANGED vars
  BY <1>1, StartKept DEF vars, disk, process, locals, history
<1>2. CASE phase # "serving" /\ phase' # "serving" /\ UNCHANGED <<pc, mine>>
  <2>1. \A a \in Admins : pc'[a] # "putting"
    BY <1>2, HupIsApart DEF Idle
  <2>2. QED BY <1>2, <2>1 DEF StartInv, RestartWorks
<1>3. CASE Start \/ ResolveKey \/ NameKey \/ SkipImport
  BY <1>2, <1>3 DEF Start, ResolveKey, NameKey, SkipImport, locals
<1>4. ASSUME NEW ok \in BOOLEAN, Mark(ok) \/ \E n \in Names : ImportOne(n, ok) PROVE StartInv'
  BY <1>2, <1>4 DEF Mark, ImportOne, locals
<1>5. ASSUME NEW ok \in BOOLEAN, Serve(ok) PROVE StartInv'
  <2>1. CASE phase' = "down"
    BY <1>2, <1>5, <2>1 DEF Serve, locals
  <2>2. CASE phase' # "down"
    <3>1. /\ Builds(table) /\ \A n \in Names : Opens(n)
          /\ UNCHANGED <<table, sealed, key, pc, mine>> /\ phase = "load"
      BY <1>5, <2>2 DEF Serve, disk, locals
    <3>2. \A a \in Admins : pc'[a] # "putting"
      BY <3>1, HupIsApart DEF Idle
    <3>3. RestartWorks'
      BY <3>1 DEF RestartWorks, Builds, Opens, Runs
    <3>4. QED BY <3>2, <3>3 DEF StartInv
  <2>3. QED BY <2>1, <2>2
<1>6. ASSUME NEW a \in Admins, Begin(a) PROVE StartInv'
  <2>1. UNCHANGED <<table, sealed, key, phase, touched, mine>>
    BY <1>6 DEF Begin, disk, process, history
  <2>2. \E step \in {"reading", "deleting"} : Goto(a, step)
    BY <1>6 DEF Begin
  <2>3. QED BY <2>1, <2>2, HupIsApart, GotoKeeps, StartKept
<1>7. ASSUME NEW a \in Admins, Leave(a) PROVE StartInv'
  BY <1>7, StartKept DEF Leave, disk, process, history
<1>8. ASSUME NEW a \in Admins, NEW ok \in BOOLEAN, Read(a, ok) \/ Record(a, ok) PROVE StartInv'
  <2>1. UNCHANGED <<table, sealed, key, phase, touched, mine>>
    BY <1>8 DEF Read, Record, disk, process, history
  <2>2. (\E r : Answer(a, r)) \/ \E step \in {"merging", "loading"} : Goto(a, step)
    BY <1>8 DEF Read, Record
  <2>3. QED BY <2>1, <2>2, HupIsApart, GotoKeeps, AnswerKeeps, StartKept
<1>9. ASSUME NEW a \in Admins, NEW ok \in BOOLEAN, Merge(a, ok) PROVE StartInv'
  <2>1. UNCHANGED <<table, sealed, key, phase, touched>>
    BY <1>9 DEF Merge, disk, process, history
  <2>2. CASE mine' = mine /\ \E r : Answer(a, r)
    BY <2>1, <2>2, HupIsApart, AnswerKeeps, StartKept
  <2>3. CASE ~(mine' = mine /\ \E r : Answer(a, r))
    <3>1. Runs(Merged(a)) /\ mine' = [mine EXCEPT ![a] = Merged(a)] /\ Goto(a, "putting")
      BY <1>9, <2>3 DEF Merge, Refuses
    <3>2. ASSUME NEW b \in Admins, pc'[b] = "putting" PROVE Runs(mine'[b])
      <4>1. CASE b = a
        BY <3>1, <4>1 DEF Shaped
      <4>2. CASE b # a
        BY <3>1, <3>2, <4>2, HupIsApart DEF Shaped, Goto, StartInv
      <4>3. QED BY <4>1, <4>2
    <3>3. RestartWorks'
      BY <2>1 DEF StartInv, RestartWorks, Opens, Runs
    <3>4. QED BY <3>2, <3>3 DEF StartInv, Runs
  <2>4. QED BY <2>2, <2>3
<1>10. ASSUME NEW a \in Admins, NEW ok \in BOOLEAN, Put(a, ok) PROVE StartInv'
  <2>1. UNCHANGED <<key, phase, touched, mine>> /\ pc[a] = "putting"
    BY <1>10 DEF Put, process
  <2>2. CASE UNCHANGED <<table, sealed>> /\ \E r : Answer(a, r)
    BY <2>1, <2>2, HupIsApart, AnswerKeeps, StartKept
  <2>3. CASE ~(UNCHANGED <<table, sealed>> /\ \E r : Answer(a, r))
    <3>1. Write(op[a].name, mine[a], Sealing(mine[a])) /\ Goto(a, "recording")
      BY <1>10, <2>3 DEF Put
    <3>2. Sealing(mine[a]) \in {"none", key} /\ Runs(mine[a])
      BY <2>1 DEF Sealing, StartInv
    <3>3. \A b \in Admins : pc'[b] = "putting" => Runs(mine'[b])
      BY <2>1, <3>1, HupIsApart, GotoKeeps DEF StartInv
    <3>4. QED BY <2>1, <3>1, <3>2, <3>3, OpFacts, StartWrite
  <2>4. QED BY <2>2, <2>3
<1>11. ASSUME NEW a \in Admins, NEW ok \in BOOLEAN, Delete(a, ok) PROVE StartInv'
  <2>1. UNCHANGED <<key, phase, touched, mine>>
    BY <1>11 DEF Delete, process
  <2>2. CASE UNCHANGED <<table, sealed>> /\ \E r : Answer(a, r)
    BY <2>1, <2>2, HupIsApart, AnswerKeeps, StartKept
  <2>3. CASE ~(UNCHANGED <<table, sealed>> /\ \E r : Answer(a, r))
    <3>1. Write(op[a].name, Absent, "none") /\ Goto(a, "recording")
      BY <1>11, <2>3 DEF Delete
    <3>2. ~Absent.on
      BY DEF Absent
    <3>3. \A b \in Admins : pc'[b] = "putting" => Runs(mine'[b])
      BY <2>1, <3>1, HupIsApart, GotoKeeps DEF StartInv
    <3>4. QED BY <2>1, <3>1, <3>2, <3>3, OpFacts, StartWrite
  <2>4. QED BY <2>2, <2>3
<1>12. ASSUME NEW a \in Actors, NEW ok \in BOOLEAN, Load(a, ok) PROVE StartInv'
  <2>1. UNCHANGED <<table, sealed, key, phase, touched, mine>>
    BY <1>12 DEF Load, disk, process
  <2>2. (\E r : Answer(a, r)) \/ Goto(a, "installing")
    BY <1>12 DEF Load, GiveUp
  <2>3. QED BY <2>1, <2>2, GotoKeeps, AnswerKeeps, StartKept
<1>13. ASSUME NEW a \in Actors, Install(a) PROVE StartInv'
  <2>1. UNCHANGED <<table, sealed, key, phase, touched, mine>>
    BY <1>13 DEF Install, disk
  <2>2. \E r : Answer(a, r)
    BY <1>13 DEF Install, GiveUp
  <2>3. QED BY <2>1, <2>2, AnswerKeeps, StartKept
<1>14. CASE Signal
  <2>1. UNCHANGED <<table, sealed, key, phase, touched, mine>> /\ Goto(Hup, "loading")
    BY <1>14 DEF Signal, disk, history
  <2>2. QED BY <2>1, HupIsApart, GotoKeeps, StartKept
<1>15. CASE EditFile
  BY <1>15, StartKept DEF EditFile, disk, process, locals, history
<1>16. CASE Crash
  <2>1. phase' = "down" /\ \A a \in Admins : pc'[a] # "putting"
    BY <1>16, HupIsApart DEF Crash
  <2>2. QED BY <2>1 DEF StartInv, RestartWorks
<1>17. ASSUME NEW n \in Names, EditByHand(n) PROVE StartInv'
  <2>1. touched' = TRUE /\ UNCHANGED <<pc, mine>>
    BY <1>17 DEF EditByHand, locals
  <2>2. RestartWorks'
    BY <2>1 DEF RestartWorks
  <2>3. \A a \in Admins : pc'[a] = "putting" => Runs(mine'[a])
    BY <2>1 DEF StartInv
  <2>4. QED BY <2>2, <2>3 DEF StartInv
<1>18. QED
  BY <1>1, <1>3, <1>4, <1>5, <1>6, <1>7, <1>8, <1>9, <1>10, <1>11, <1>12, <1>13,
     <1>14, <1>15, <1>16, <1>17 DEF Next, Starting, Changing, Reloading

(* RestartWorks: what administrators store, in whatever order, a start     *)
(* opens and builds.                                                       *)
THEOREM RestartWorksHolds == Spec => []RestartWorks
<1>1. StartInv => RestartWorks
  BY DEF StartInv
<1>. QED
  BY <1>1, ShapedInit, ShapedPreserved, StartInit, StartPreserved, PTL DEF Spec

-----------------------------------------------------------------------------
(* What is live.                                                           *)

(* Somebody will still install the table as it is.                         *)
Coming ==
  \E a \in Actors :
    \/ pc[a] \in {"recording", "loading"}
    \/ pc[a] = "installing" /\ snapVer[a] = ver

(* A read of the latest state has the table; what is live and of the       *)
(* latest state is the table; and what is live and older will be replaced, *)
(* or one of the exceptions has been noted.                                *)
LiveInv ==
  /\ \A a \in Actors : pc[a] = "installing" /\ snapVer[a] = ver => snap[a] = table
  /\ phase = "serving" /\ liveVer = ver => live = Part(table)
  /\ phase = "serving" /\ ~missed /\ ~overtaken /\ liveVer # ver => Coming

LEMMA LiveInit == Init => LiveInv
BY DEF Init, LiveInv

(* A write makes whatever was read before it old.                          *)
LEMMA LiveWrite ==
  ASSUME Shaped, UNCHANGED <<liveVer, snapVer>>, ver' = ver + 1, missed' \/ Coming'
  PROVE  LiveInv'
BY DEF Shaped, LiveInv

(* A step that neither writes nor installs, nor ends a reload.             *)
LEMMA LiveKept ==
  ASSUME LiveInv, UNCHANGED <<table, ver, liveVer, live, phase>>,
         UNCHANGED <<snap, snapVer, missed, overtaken>>,
         \A a \in Actors :
           /\ pc'[a] = "installing" => pc[a] = "installing"
           /\ pc[a] = "installing" => pc'[a] = "installing"
           /\ pc[a] \in {"recording", "loading"} => pc'[a] \in {"recording", "loading"}
  PROVE  LiveInv'
BY DEF LiveInv, Coming, Part

LEMMA LivePreserved == Shaped /\ Shaped' /\ Idle /\ LiveInv /\ [Next]_vars => LiveInv'
<1>. SUFFICES ASSUME Shaped, Shaped', Idle, LiveInv, Next \/ UNCHANGED vars PROVE LiveInv'
  OBVIOUS
<1>. USE HupIsApart
<1>1. CASE UNCHANGED vars
  BY <1>1, LiveKept DEF vars, disk, process, locals, history
<1>2. CASE phase # "serving" /\ phase' # "serving" /\ UNCHANGED pc
  BY <1>2 DEF Idle, LiveInv
<1>3. CASE Start \/ ResolveKey \/ NameKey \/ SkipImport
  BY <1>2, <1>3 DEF Start, ResolveKey, NameKey, SkipImport, locals
<1>4. ASSUME NEW ok \in BOOLEAN, Mark(ok) \/ \E n \in Names : ImportOne(n, ok) PROVE LiveInv'
  BY <1>2, <1>4 DEF Mark, ImportOne, locals
<1>5. ASSUME NEW ok \in BOOLEAN, Serve(ok) PROVE LiveInv'
  <2>1. CASE phase' = "down"
    BY <1>2, <1>5, <2>1 DEF Serve, locals
  <2>2. CASE phase' # "down"
    <3>1. /\ live' = Part(table) /\ liveVer' = ver /\ ver' = ver /\ UNCHANGED <<table, pc>>
          /\ phase = "load"
      BY <1>5, <2>2 DEF Serve, disk, locals
    <3>2. \A a \in Actors : pc'[a] # "installing"
      BY <3>1 DEF Idle
    <3>3. QED BY <3>1, <3>2 DEF LiveInv, Part
  <2>3. QED BY <2>1, <2>2
<1>6. ASSUME NEW a \in Admins, Begin(a) \/ Leave(a) PROVE LiveInv'
  <2>1. /\ UNCHANGED <<table, ver, liveVer, live, phase, snap, snapVer, missed, overtaken>>
        /\ pc' = pc \/ (pc[a] = "idle" /\ \E step \in {"reading", "deleting"} : Goto(a, step))
    BY <1>6 DEF Begin, Leave, disk, process, history
  <2>2. QED BY <2>1, LiveKept DEF Shaped, Goto
<1>7. ASSUME NEW a \in Admins, NEW ok \in BOOLEAN, Read(a, ok) \/ Merge(a, ok) PROVE LiveInv'
  <2>1. /\ UNCHANGED <<table, ver, liveVer, live, phase, snap, snapVer, missed, overtaken>>
        /\ pc[a] \in {"reading", "merging"}
        /\ \E step \in {"merging", "putting", "done"} : Goto(a, step)
    BY <1>7 DEF Read, Merge, Answer, disk, process, history
  <2>2. QED BY <2>1, LiveKept DEF Shaped, Goto
<1>8. ASSUME NEW a \in Admins, NEW ok \in BOOLEAN, Put(a, ok) \/ Delete(a, ok) PROVE LiveInv'
  <2>1. UNCHANGED <<liveVer, live, phase, snap, snapVer, missed, overtaken>>
        /\ pc[a] \in {"putting", "deleting"}
    BY <1>8 DEF Put, Delete, process
  <2>2. CASE UNCHANGED <<table, ver>> /\ Goto(a, "done")
    BY <2>1, <2>2, LiveKept DEF Shaped, Goto
  <2>3. CASE ~(UNCHANGED <<table, ver>> /\ Goto(a, "done"))
    <3>1. ver' = ver + 1 /\ Goto(a, "recording")
      BY <1>8, <2>3 DEF Put, Delete, Write, Answer
    <3>2. Coming'
      BY <3>1 DEF Coming, Goto, Shaped
    <3>3. QED BY <2>1, <3>1, <3>2, LiveWrite
  <2>4. QED BY <2>2, <2>3
<1>9. ASSUME NEW a \in Admins, NEW ok \in BOOLEAN, Record(a, ok) PROVE LiveInv'
  <2>1. /\ UNCHANGED <<table, ver, liveVer, live, phase, snap, snapVer, missed, overtaken>>
        /\ pc[a] = "recording" /\ Goto(a, "loading")
    BY <1>9 DEF Record, disk, process, history
  <2>2. QED BY <2>1, LiveKept DEF Shaped, Goto
<1>10. ASSUME NEW a \in Actors, NEW ok \in BOOLEAN, Load(a, ok) PROVE LiveInv'
  <2>1. /\ UNCHANGED <<table, ver, liveVer, live, phase, overtaken>>
        /\ pc[a] = "loading"
    BY <1>10 DEF Load, disk, process
  <2>2. CASE GiveUp(a) /\ UNCHANGED <<snap, snapVer>>
    <3>1. missed' = TRUE /\ \A b \in Actors : pc'[b] = "installing" => pc[b] = "installing"
      BY <2>2 DEF GiveUp, Answer, Goto, Shaped
    <3>2. QED BY <2>1, <2>2, <3>1 DEF LiveInv, Part
  <2>3. CASE ~(GiveUp(a) /\ UNCHANGED <<snap, snapVer>>)
    <3>1. /\ snap' = [snap EXCEPT ![a] = table] /\ snapVer' = [snapVer EXCEPT ![a] = ver]
          /\ pc' = [pc EXCEPT ![a] = "installing"] /\ missed' = missed
      BY <1>10, <2>3 DEF Load, Goto
    <3>2. Coming'
      BY <2>1, <3>1 DEF Coming, Shaped
    <3>3. ASSUME NEW b \in Actors, pc'[b] = "installing", snapVer'[b] = ver'
          PROVE  snap'[b] = table'
      <4>1. CASE b = a
        BY <2>1, <3>1, <4>1 DEF Shaped
      <4>2. CASE b # a
        BY <2>1, <3>1, <3>3, <4>2 DEF Shaped, LiveInv
      <4>3. QED BY <4>1, <4>2
    <3>4. QED BY <2>1, <3>2, <3>3 DEF LiveInv, Part
  <2>4. QED BY <2>2, <2>3
<1>11. ASSUME NEW a \in Actors, Install(a) PROVE LiveInv'
  <2>1. UNCHANGED <<table, ver, phase, snap, snapVer>> /\ pc[a] = "installing"
    BY <1>11 DEF Install, disk
  <2>2. /\ pc'[a] # "installing"
        /\ \A b \in Actors \ {a} : pc'[b] = pc[b]
    BY <1>11 DEF Install, GiveUp, Answer, Goto, Shaped
  <2>3. \A b \in Actors : pc'[b] = "installing" /\ snapVer'[b] = ver' => snap'[b] = table'
    BY <2>1, <2>2 DEF LiveInv
  <2>4. CASE ~Builds(snap[a])
    <3>1. UNCHANGED <<live, liveVer, overtaken>> /\ missed'
      BY <1>11, <2>4 DEF Install, GiveUp
    <3>2. QED BY <2>1, <2>3, <3>1 DEF LiveInv, Part
  <2>5. CASE Builds(snap[a])
    <3>1. /\ live' = Part(snap[a]) /\ liveVer' = snapVer[a]
          /\ overtaken' = (snapVer[a] < liveVer \/ (overtaken /\ snapVer[a] # ver))
          /\ missed' = (missed /\ snapVer[a] # ver)
      BY <1>11, <2>5 DEF Install
    <3>2. CASE snapVer[a] = ver
      <4>1. live' = Part(table)
        BY <2>1, <3>1, <3>2 DEF LiveInv
      <4>2. QED BY <2>1, <2>3, <3>1, <3>2, <4>1 DEF LiveInv, Part
    <3>3. CASE snapVer[a] # ver
      <4>1. liveVer' # ver' /\ (~missed' => ~missed)
        BY <2>1, <3>1, <3>3
      <4>2. ~overtaken' => ~overtaken /\ ~(snapVer[a] < liveVer)
        BY <3>1, <3>3
      <4>3. ~overtaken' => liveVer # ver
        <5>1. snapVer[a] \in Nat /\ snapVer[a] <= ver /\ liveVer \in Nat /\ ver \in Nat
          BY DEF Shaped
        <5>2. QED BY <3>3, <4>2, <5>1
      <4>4. Coming => Coming'
        <5>1. SUFFICES ASSUME NEW b \in Actors,
                              \/ pc[b] \in {"recording", "loading"}
                              \/ pc[b] = "installing" /\ snapVer[b] = ver
                       PROVE  Coming'
          BY DEF Coming
        <5>2. b # a
          BY <2>1, <3>3, <5>1
        <5>3. QED BY <2>1, <2>2, <5>1, <5>2 DEF Coming
      <4>5. phase' = "serving" /\ ~missed' /\ ~overtaken' => Coming'
        BY <2>1, <4>1, <4>2, <4>3, <4>4 DEF LiveInv
      <4>6. QED BY <2>3, <4>1, <4>5 DEF LiveInv
    <3>4. QED BY <3>2, <3>3
  <2>6. QED BY <2>4, <2>5
<1>12. CASE Signal
  <2>1. /\ UNCHANGED <<table, ver, liveVer, live, phase, snap, snapVer, missed, overtaken>>
        /\ pc[Hup] = "idle" /\ Goto(Hup, "loading")
    BY <1>12 DEF Signal, disk, history
  <2>2. QED BY <2>1, LiveKept DEF Shaped, Goto
<1>13. CASE EditFile
  BY <1>13, LiveKept DEF EditFile, disk, process, locals, history
<1>14. CASE Crash
  <2>1. phase' = "down" /\ \A a \in Actors : pc'[a] # "installing"
    BY <1>14 DEF Crash
  <2>2. QED BY <2>1 DEF LiveInv
<1>15. ASSUME NEW n \in Names, EditByHand(n) PROVE LiveInv'
  BY <1>15, LiveWrite DEF EditByHand, Write
<1>16. QED
  BY <1>1, <1>3, <1>4, <1>5, <1>6, <1>7, <1>8, <1>9, <1>10, <1>11, <1>12, <1>13,
     <1>14, <1>15 DEF Next, Starting, Changing, Reloading

(* QuietIsLive: when nobody is about to reload, what is stored is what     *)
(* delivers, unless a reload failed, is due or was overtaken.              *)
THEOREM QuietIsLiveHolds == Spec => []QuietIsLive
<1>1. LiveInv => QuietIsLive
  BY DEF LiveInv, QuietIsLive, Quiet, Coming
<1>. QED
  BY <1>1, ShapedInit, ShapedPreserved, LiveInit, LivePreserved, PTL DEF Spec

-----------------------------------------------------------------------------
(* The types.                                                              *)

(* Rows, and what is read from them or written to them.                    *)
RowInv ==
  /\ table \in Tables /\ last \in Tables /\ live \in Tables
  /\ snap \in [Actors -> Tables] /\ mine \in [Admins -> Configs \cup {Absent}]
  /\ sealed \in [Names -> Keys \cup {"none"}]
  /\ key \in Keys \cup {"none"} /\ keyfile \in Keys \cup {"none"}
  /\ made \in {0} \cup DOMAIN Generated /\ left \subseteq Names

(* What else the start and the handlers keep.                              *)
MiscInv ==
  /\ marker \in BOOLEAN /\ phase \in Phases /\ settings \in Settings
  /\ over \in [Actors -> BOOLEAN] /\ reply \in [Actors -> Replies] /\ trail \subseteq Admins
  /\ mishaps \in 0..MaxMishaps /\ edits \in 0..MaxEdits
  /\ missed \in BOOLEAN /\ overtaken \in BOOLEAN /\ touched \in BOOLEAN

(* An empty table.                                                         *)
LEMMA NothingType == Nothing \in Tables
BY DEF Nothing, Tables

(* What is disabled is left out.                                           *)
LEMMA PartType == ASSUME NEW t \in Tables PROVE Part(t) \in Tables
BY DEF Part, Tables

(* What a file says.                                                       *)
LEMMA FileFacts ==
  ASSUME NEW f \in Files
  PROVE  /\ f.key \in KeyConfigured \cup {"none"} /\ f.settings \in Settings
         /\ f.channels \in Tables /\ InFile(f) \subseteq Names
BY ConfigAssumption DEF ConfigAssumption, InFile

(* What is sealed is sealed with the key there is.                         *)
LEMMA SealingType == ASSUME RowInv, NEW c PROVE Sealing(c) \in Keys \cup {"none"}
BY DEF RowInv, Sealing

(* A row that is written.                                                  *)
LEMMA WriteTypes ==
  ASSUME RowInv, NEW n \in Names, NEW c \in Configs \cup {Absent},
         NEW by \in Keys \cup {"none"}, Write(n, c, by)
  PROVE  table' \in Tables /\ sealed' \in [Names -> Keys \cup {"none"}]
BY DEF RowInv, Write, Tables

(* An edit that does not mention the credential takes over the stored one. *)
LEMMA MergedType ==
  ASSUME Shaped, RowInv, NEW a \in Admins
  PROVE  Merged(a) \in Configs
<1>1. PICK c \in Configs : c = op[a].cfg
  BY ConfigAssumption DEF Shaped, ConfigAssumption
<1>2. PICK old \in Configs \cup {Absent} : old = table[op[a].name]
  BY OpFacts DEF RowInv, Tables
<1>3. CASE old = Absent
  BY <1>1, <1>2, <1>3 DEF Merged
<1>4. CASE old # Absent
  <2>1. PICK s \in Secrets \cup {"none"} : s = old.secret
    BY <1>2, <1>4 DEF Configs
  <2>2. [c EXCEPT !.secret = s] \in Configs
    BY <1>1, <2>1 DEF Configs
  <2>3. Merged(a) \in {c, [c EXCEPT !.secret = s]}
    BY <1>1, <1>2, <2>1 DEF Merged
  <2>4. QED BY <1>1, <2>2, <2>3
<1>5. QED BY <1>3, <1>4

(* Every step keeps the rows.                                              *)
LEMMA RowPreserved == Shaped /\ RowInv /\ [Next]_vars => RowInv'
<1>. SUFFICES ASSUME Shaped, RowInv, Next \/ UNCHANGED vars PROVE RowInv'
  OBVIOUS
<1>1. /\ using \in Files /\ file \in Files /\ table \in Tables /\ last \in Tables
      /\ live \in Tables /\ snap \in [Actors -> Tables] /\ \A a \in Admins : op[a].name \in Names
  BY OpFacts DEF Shaped, RowInv
<1>2. CASE Start
  <2>1. left' \subseteq Names
    BY <1>1, <1>2, FileFacts DEF Start
  <2>2. QED BY <1>2, <2>1 DEF Start, disk, locals, history, RowInv
<1>3. CASE ResolveKey
  <2>1. UNCHANGED <<table, sealed, keyfile, left, live, last, snap, mine>>
    BY <1>3 DEF ResolveKey, locals, history
  <2>2. CASE key' = (IF using.key # "none" THEN using.key ELSE keyfile) /\ UNCHANGED made
    <3>1. key' \in Keys \cup {"none"}
      BY <1>1, <2>2, FileFacts DEF RowInv, Keys
    <3>2. QED BY <2>1, <2>2, <3>1 DEF RowInv
  <2>3. CASE made + 1 \in DOMAIN Generated /\ made' = made + 1 /\ key' = Generated[made + 1]
    <3>1. key' \in Keys
      BY <2>3 DEF Keys
    <3>2. QED BY <2>1, <2>3, <3>1 DEF RowInv
  <2>4. QED BY <1>3, <2>2, <2>3 DEF ResolveKey
<1>4. CASE NameKey
  BY <1>4 DEF NameKey, locals, history, RowInv
<1>5. CASE SkipImport
  BY <1>5 DEF SkipImport, disk, locals, history, RowInv
<1>6. ASSUME NEW ok \in BOOLEAN, NEW n \in Names, ImportOne(n, ok) PROVE RowInv'
  <2>1. PICK c \in Configs \cup {Absent} : c = using.channels[n]
    BY <1>1, FileFacts DEF Tables
  <2>2. UNCHANGED <<keyfile, made, key, live, last, snap, mine>>
    BY <1>6 DEF ImportOne, locals
  <2>3. CASE Write(n, c, Sealing(c)) /\ left' = left \ {n}
    <3>1. table' \in Tables /\ sealed' \in [Names -> Keys \cup {"none"}]
      BY <2>3, SealingType, WriteTypes
    <3>2. QED BY <2>2, <2>3, <3>1 DEF RowInv
  <2>4. CASE UNCHANGED <<table, sealed, left>>
    BY <2>2, <2>4 DEF RowInv
  <2>5. QED BY <1>6, <2>1, <2>3, <2>4 DEF ImportOne
<1>7. ASSUME NEW ok \in BOOLEAN, Mark(ok) PROVE RowInv'
  <2>1. PICK t \in Tables : t = using.channels
    BY <1>1, FileFacts
  <2>2. [n \in Names |-> IF n \in InFile(using) THEN t[n] ELSE table[n]] \in Tables
    BY <1>1 DEF Tables
  <2>3. last' \in Tables
    BY <1>1, <1>7, <2>1, <2>2 DEF Mark
  <2>4. QED BY <1>7, <2>3 DEF Mark, locals, RowInv
<1>8. ASSUME NEW ok \in BOOLEAN, Serve(ok) PROVE RowInv'
  <2>1. live' \in Tables
    BY <1>1, <1>8, PartType DEF Serve
  <2>2. QED BY <1>8, <2>1 DEF Serve, disk, locals, RowInv
<1>9. ASSUME NEW a \in Admins,
             \/ Begin(a) \/ Leave(a) \/ \E ok \in BOOLEAN : Read(a, ok) \/ Record(a, ok)
      PROVE  RowInv'
  <2>1. UNCHANGED <<disk, process, mine, snap, last>>
    BY <1>9 DEF Begin, Leave, Read, Record, history
  <2>2. QED BY <2>1 DEF disk, process, RowInv
<1>10. ASSUME NEW a \in Admins, NEW ok \in BOOLEAN, Merge(a, ok) PROVE RowInv'
  <2>1. mine' = mine \/ mine' = [mine EXCEPT ![a] = Merged(a)]
    BY <1>10 DEF Merge
  <2>2. mine' \in [Admins -> Configs \cup {Absent}]
    BY <2>1, MergedType DEF RowInv
  <2>3. QED BY <1>10, <2>2 DEF Merge, disk, process, history, RowInv
<1>11. ASSUME NEW a \in Admins, NEW ok \in BOOLEAN, Put(a, ok) PROVE RowInv'
  <2>1. PICK n \in Names, c \in Configs \cup {Absent} : n = op[a].name /\ c = mine[a]
    BY <1>1 DEF RowInv
  <2>2. UNCHANGED <<keyfile, made, key, left, live, snap, mine>>
    BY <1>11 DEF Put, process
  <2>3. CASE Write(n, c, Sealing(c)) /\ last' = [last EXCEPT ![n] = c]
    <3>1. table' \in Tables /\ sealed' \in [Names -> Keys \cup {"none"}]
      BY <2>3, SealingType, WriteTypes
    <3>2. last' \in Tables
      BY <1>1, <2>3 DEF Tables
    <3>3. QED BY <2>2, <3>1, <3>2 DEF RowInv
  <2>4. CASE UNCHANGED <<table, sealed, last>>
    BY <2>2, <2>4 DEF RowInv
  <2>5. QED BY <1>11, <2>1, <2>3, <2>4 DEF Put
<1>12. ASSUME NEW a \in Admins, NEW ok \in BOOLEAN, Delete(a, ok) PROVE RowInv'
  <2>1. PICK n \in Names, c \in Configs \cup {Absent} : n = op[a].name /\ c = Absent
    BY <1>1
  <2>2. UNCHANGED <<keyfile, made, key, left, live, snap, mine>>
    BY <1>12 DEF Delete, process
  <2>3. CASE Write(n, c, "none") /\ last' = [last EXCEPT ![n] = c]
    <3>1. table' \in Tables /\ sealed' \in [Names -> Keys \cup {"none"}]
      BY <2>3, WriteTypes
    <3>2. last' \in Tables
      BY <1>1, <2>3 DEF Tables
    <3>3. QED BY <2>2, <3>1, <3>2 DEF RowInv
  <2>4. CASE UNCHANGED <<table, sealed, last>>
    BY <2>2, <2>4 DEF RowInv
  <2>5. QED BY <1>12, <2>1, <2>3, <2>4 DEF Delete
<1>13. ASSUME NEW a \in Actors, NEW ok \in BOOLEAN, Load(a, ok) PROVE RowInv'
  <2>1. snap' = snap \/ snap' = [snap EXCEPT ![a] = table]
    BY <1>13 DEF Load
  <2>2. snap' \in [Actors -> Tables]
    BY <1>1, <2>1
  <2>3. QED BY <1>13, <2>2 DEF Load, disk, process, RowInv
<1>14. ASSUME NEW a \in Actors, Install(a) PROVE RowInv'
  <2>1. live' \in Tables
    BY <1>1, <1>14, PartType DEF Install
  <2>2. QED BY <1>14, <2>1 DEF Install, disk, RowInv
<1>15. CASE Signal \/ EditFile
  BY <1>15 DEF Signal, EditFile, disk, process, locals, history, RowInv
<1>16. ASSUME NEW n \in Names, EditByHand(n) PROVE RowInv'
  <2>1. PICK c \in Configs \cup {Absent} : Write(n, c, "none") /\ last' = [last EXCEPT ![n] = c]
    BY <1>16, ConfigAssumption DEF EditByHand, ConfigAssumption
  <2>2. table' \in Tables /\ sealed' \in [Names -> Keys \cup {"none"}]
    BY <2>1, WriteTypes
  <2>3. last' \in Tables
    BY <1>1, <2>1 DEF Tables
  <2>4. QED BY <1>16, <2>2, <2>3 DEF EditByHand, process, locals, RowInv
<1>17. CASE Crash
  BY <1>17, NothingType DEF Crash, disk, history, RowInv
<1>18. CASE UNCHANGED vars
  BY <1>18 DEF vars, disk, process, locals, history, RowInv
<1>19. QED
  BY <1>2, <1>3, <1>4, <1>5, <1>6, <1>7, <1>8, <1>9, <1>10, <1>11, <1>12, <1>13, <1>14,
     <1>15, <1>16, <1>17, <1>18 DEF Next, Starting, Changing, Reloading

(* Every step keeps the rest.                                              *)
LEMMA MiscPreserved == Shaped /\ MiscInv /\ [Next]_vars => MiscInv'
<1>. SUFFICES ASSUME Shaped, MiscInv, Next \/ UNCHANGED vars PROVE MiscInv'
  OBVIOUS
<1>1. mishaps \in 0..MaxMishaps /\ edits \in 0..MaxEdits /\ MaxMishaps \in Nat /\ MaxEdits \in Nat
      /\ reply \in [Actors -> Replies] /\ Admins \subseteq Actors
  BY ConfigAssumption, HupIsApart DEF MiscInv, ConfigAssumption
<1>2. ASSUME NEW ok \in BOOLEAN, Access(ok) PROVE mishaps' \in 0..MaxMishaps
  BY <1>1, <1>2 DEF Access
<1>3. ASSUME NEW a \in Actors, NEW r \in Replies, Answer(a, r) PROVE reply' \in [Actors -> Replies]
  BY <1>1, <1>3 DEF Answer
<1>4. CASE Start
  <2>1. settings' \in Settings
    BY <1>4, FileFacts DEF Start, Shaped
  <2>2. QED BY <1>4, <2>1 DEF Start, disk, locals, bounds, history, MiscInv, Phases
<1>5. CASE ResolveKey \/ NameKey \/ SkipImport
  BY <1>5 DEF ResolveKey, NameKey, SkipImport, disk, locals, bounds, history, MiscInv, Phases
<1>6. ASSUME NEW ok \in BOOLEAN, Mark(ok) \/ Serve(ok) \/ \E n \in Names : ImportOne(n, ok)
      PROVE  MiscInv'
  <2>1. mishaps' \in 0..MaxMishaps
    BY <1>2, <1>6 DEF Mark, Serve, ImportOne
  <2>2. phase' \in Phases /\ marker' \in BOOLEAN
    BY <1>6 DEF Mark, Serve, ImportOne, MiscInv, Phases, disk
  <2>3. missed' \in BOOLEAN /\ overtaken' \in BOOLEAN /\ touched' \in BOOLEAN
    BY <1>6 DEF Mark, Serve, ImportOne, MiscInv
  <2>4. UNCHANGED <<settings, over, reply, trail, edits>>
    BY <1>6 DEF Mark, Serve, ImportOne, locals
  <2>5. QED BY <2>1, <2>2, <2>3, <2>4 DEF MiscInv
<1>7. ASSUME NEW a \in Admins, Begin(a) PROVE MiscInv'
  BY <1>7 DEF Begin, disk, process, bounds, history, MiscInv
<1>8. ASSUME NEW a \in Admins, Leave(a) PROVE MiscInv'
  BY <1>1, <1>8 DEF Leave, disk, process, history, MiscInv
<1>9. ASSUME NEW a \in Admins, NEW ok \in BOOLEAN,
             Read(a, ok) \/ Merge(a, ok) \/ Put(a, ok) \/ Delete(a, ok)
      PROVE  MiscInv'
  <2>1. mishaps' \in 0..MaxMishaps
    BY <1>2, <1>9 DEF Read, Merge, Put, Delete
  <2>2. reply' = reply \/ \E r \in Replies : Answer(a, r)
    BY <1>9 DEF Read, Merge, Put, Delete, Replies
  <2>3. reply' \in [Actors -> Replies]
    BY <1>1, <1>3, <2>2
  <2>4. UNCHANGED <<marker, phase, settings, over, trail, edits, missed, overtaken, touched>>
    BY <1>9 DEF Read, Merge, Put, Delete, disk, process, history
  <2>5. QED BY <2>1, <2>3, <2>4 DEF MiscInv
<1>10. ASSUME NEW a \in Admins, NEW ok \in BOOLEAN, Record(a, ok) PROVE MiscInv'
  <2>1. mishaps' \in 0..MaxMishaps
    BY <1>2, <1>10 DEF Record
  <2>2. trail' \subseteq Admins
    BY <1>10 DEF Record, MiscInv
  <2>3. QED BY <1>10, <2>1, <2>2 DEF Record, disk, process, history, MiscInv
<1>11. ASSUME NEW a \in Actors, NEW ok \in BOOLEAN, Load(a, ok) PROVE MiscInv'
  <2>1. mishaps' \in 0..MaxMishaps
    BY <1>2, <1>11 DEF Load
  <2>2. reply' = reply \/ Answer(a, "stored")
    BY <1>11 DEF Load, GiveUp
  <2>3. reply' \in [Actors -> Replies]
    BY <1>1, <1>3, <2>2 DEF Replies
  <2>4. missed' \in BOOLEAN
    BY <1>11 DEF Load, GiveUp, MiscInv
  <2>5. QED BY <1>11, <2>1, <2>3, <2>4 DEF Load, disk, process, MiscInv
<1>12. ASSUME NEW a \in Actors, Install(a) PROVE MiscInv'
  <2>1. Answer(a, "stored") \/ Answer(a, "live")
    BY <1>12 DEF Install, GiveUp
  <2>2. reply' \in [Actors -> Replies]
    BY <1>3, <2>1 DEF Replies
  <2>3. missed' \in BOOLEAN /\ overtaken' \in BOOLEAN
    BY <1>12 DEF Install, GiveUp, MiscInv
  <2>4. QED BY <1>12, <2>2, <2>3 DEF Install, disk, bounds, MiscInv
<1>13. CASE Signal
  <2>1. settings' \in Settings
    BY <1>13, FileFacts DEF Signal, Shaped
  <2>2. edits' \in 0..MaxEdits
    BY <1>1, <1>13 DEF Signal
  <2>3. QED BY <1>13, <2>1, <2>2 DEF Signal, disk, history, MiscInv
<1>14. CASE EditFile
  <2>1. edits' \in 0..MaxEdits
    BY <1>1, <1>14 DEF EditFile
  <2>2. QED BY <1>14, <2>1 DEF EditFile, disk, process, locals, history, MiscInv
<1>15. ASSUME NEW n \in Names, EditByHand(n) PROVE MiscInv'
  <2>1. edits' \in 0..MaxEdits
    BY <1>1, <1>15 DEF EditByHand
  <2>2. QED BY <1>15, <2>1 DEF EditByHand, process, locals, MiscInv
<1>16. CASE Crash
  <2>1. mishaps' \in 0..MaxMishaps
    BY <1>1, <1>16 DEF Crash
  <2>2. QED BY <1>16, <2>1 DEF Crash, disk, history, MiscInv, Phases
<1>17. CASE UNCHANGED vars
  BY <1>17 DEF vars, disk, process, locals, bounds, history, MiscInv
<1>18. QED
  BY <1>4, <1>5, <1>6, <1>7, <1>8, <1>9, <1>10, <1>11, <1>12, <1>13, <1>14, <1>15, <1>16,
     <1>17 DEF Next, Starting, Changing, Reloading

(* TypeOK: in particular every row, live channel and pending write is a    *)
(* whole configuration, also one whose credential was taken over from a    *)
(* row of another time (MergeEdit).                                        *)
THEOREM ConfigTypes == Spec => []TypeOK
<1>1. Init => RowInv
  <2>1. ASSUME Init PROVE RowInv
    <3>1. /\ table = Nothing /\ last = Nothing /\ live = Nothing /\ key = "none" /\ keyfile = "none"
          /\ snap = [a \in Actors |-> Nothing] /\ mine = [a \in Admins |-> Absent]
          /\ sealed = [n \in Names |-> "none"] /\ made = 0 /\ left = {}
      BY <2>1 DEF Init
    <3>2. QED BY <3>1, NothingType DEF RowInv
  <2>2. QED BY <2>1
<1>2. Init => MiscInv
  <2>1. ASSUME Init PROVE MiscInv
    <3>1. settings \in Settings
      BY <2>1, FileFacts DEF Init
    <3>2. /\ marker = FALSE /\ phase = "down" /\ over = [a \in Actors |-> FALSE]
          /\ reply = [a \in Actors |-> "none"] /\ trail = {} /\ mishaps = 0 /\ edits = 0
          /\ missed = FALSE /\ overtaken = FALSE /\ touched = FALSE
      BY <2>1 DEF Init
    <3>3. MaxMishaps \in Nat /\ MaxEdits \in Nat
      BY ConfigAssumption DEF ConfigAssumption
    <3>4. mishaps \in 0..MaxMishaps /\ edits \in 0..MaxEdits
      BY <3>2, <3>3
    <3>5. over \in [Actors -> BOOLEAN] /\ reply \in [Actors -> Replies] /\ phase \in Phases
      BY <3>2 DEF Phases, Replies
    <3>6. /\ marker \in BOOLEAN /\ missed \in BOOLEAN /\ overtaken \in BOOLEAN
          /\ touched \in BOOLEAN /\ trail \subseteq Admins
      BY <3>2
    <3>7. QED BY <3>1, <3>4, <3>5, <3>6 DEF MiscInv
  <2>2. QED BY <2>1
<1>3. Shaped /\ RowInv /\ MiscInv => TypeOK
  BY DEF Shaped, RowInv, MiscInv, TypeOK
<1>. QED
  BY <1>1, <1>2, <1>3, ShapedInit, ShapedPreserved, RowPreserved, MiscPreserved, PTL DEF Spec
=============================================================================
