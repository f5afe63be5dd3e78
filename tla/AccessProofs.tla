----------------------------- MODULE AccessProofs -----------------------------
(***************************************************************************)
(* What holds of Access for any number of browsers, passwords, sessions    *)
(* and keys, however the requests overlap, whichever accesses to the store *)
(* fail and whenever the process ends.                                     *)
(***************************************************************************)
EXTENDS Access, FiniteSetTheorems, WellFoundedInduction, TLAPS

(* What the handlers hold, and the rows they read and write.               *)
Handlers ==
  /\ pc \in [Visitors -> {"idle", "verifying", "opening", "writing", "ending",
                          "claiming", "reading", "storing", "dropping"}]
  /\ req \in [Visitors -> Requests]
  /\ got \in [Visitors -> Passwords \cup {"none", "file"}]
  /\ seen \in [Visitors -> KeyRows]
  /\ cookie \in [Visitors -> Ids \cup {0}]
  /\ keys \in [KeyIds -> KeyRows]
  /\ opened \in 0..MaxSessions

LEMMA RequestFacts ==
  ASSUME NEW q \in Requests
  PROVE  /\ q.pw \in Passwords /\ q.new \in Passwords /\ q.key \in KeyIds
         /\ q.on \in {"same", "on", "off"} /\ q.list \in Lists \cup {"same"}
         /\ q.do \in {"login", "change", "setup", "logout", "make", "set", "drop"}
BY AccessAssumption DEF AccessAssumption

LEMMA SomeRequest == AnyRequest \in Requests
BY AccessAssumption DEF AccessAssumption, AnyRequest

LEMMA SomeRows ==
  /\ NoKey \in KeyRows /\ ~NoKey.there /\ ~NoKey.on
  /\ [NoKey EXCEPT !.on = TRUE] \in KeyRows
  /\ AnyKey \in KeyRows /\ AnyKey.there
BY AccessAssumption DEF AccessAssumption, NoKey, AnyKey, KeyRows

LEMMA EditedFacts ==
  ASSUME NEW row \in KeyRows, NEW q \in Requests
  PROVE  Edited(row, q) \in KeyRows /\ Edited(row, q).there
BY RequestFacts DEF Edited, KeyRows

LEMMA HandlersInit == Init => Handlers
<1>. SUFFICES ASSUME Init PROVE Handlers
  OBVIOUS
<1>1. keys \in [KeyIds -> KeyRows]
  BY SomeRows DEF Init
<1>2. MaxSessions \in Nat
  BY AccessAssumption DEF AccessAssumption
<1>3. QED BY <1>1, <1>2, SomeRequest, SomeRows DEF Init, Handlers

LEMMA FinishFacts ==
  ASSUME Handlers, NEW v \in Visitors, Finish(v), UNCHANGED <<cookie, opened>>,
         keys' \in [KeyIds -> KeyRows]
  PROVE  Handlers'
BY SomeRequest, SomeRows DEF Handlers, Finish

LEMMA HandlersPreserved == Handlers /\ [Next]_vars => Handlers'
<1>. SUFFICES ASSUME Handlers, Next \/ UNCHANGED vars PROVE Handlers'
  OBVIOUS
<1>. USE DEF Goto, Stay
<1>1. CASE UNCHANGED vars
  BY <1>1 DEF vars, rows, locals, bounds, Handlers
<1>2. ASSUME NEW v \in Visitors, NEW q \in Requests, Begin(v, q) PROVE Handlers'
  <2>1. First(q) \in {"verifying", "claiming", "storing", "reading"} \/ q.do = "logout"
    BY RequestFacts DEF First
  <2>2. QED BY <1>2, <2>1 DEF Begin, rows, Handlers, Fail
<1>3. ASSUME NEW v \in Visitors, Logout(v) PROVE Handlers'
  BY <1>3 DEF Logout, rows, bounds, Handlers
<1>4. ASSUME NEW v \in Visitors, Open(v) PROVE Handlers'
  <2>1. opened' \in 1..MaxSessions /\ cookie' = [cookie EXCEPT ![v] = opened'] /\ Finish(v)
    BY <1>4, AccessAssumption DEF Open, Handlers, AccessAssumption
  <2>2. cookie' \in [Visitors -> Ids \cup {0}] /\ opened' \in 0..MaxSessions
    BY <2>1 DEF Handlers, Ids
  <2>3. keys' = keys
    BY <1>4 DEF Open, rows
  <2>4. QED BY <2>1, <2>2, <2>3, SomeRequest, SomeRows DEF Handlers, Finish
<1>5. ASSUME NEW v \in Visitors, End(v) PROVE Handlers'
  BY <1>5, FinishFacts DEF End, rows, bounds, Handlers
<1>6. ASSUME NEW v \in Visitors, NEW ok \in BOOLEAN, Verify(v, ok) PROVE Handlers'
  <2>1. UNCHANGED <<cookie, opened, keys>>
    BY <1>6 DEF Verify, rows
  <2>2. CASE Finish(v)
    BY <2>1, <2>2, FinishFacts DEF Handlers
  <2>3. CASE ~Finish(v)
    <3>1. PICK m : m = Matched(v, ok)
      OBVIOUS
    <3>2. m \in Passwords \cup {"none", "file"}
      <4>1. req[v] \in Requests
        BY DEF Handlers
      <4>2. QED BY <3>1, <4>1, RequestFacts DEF Matched
    <3>3. /\ got' = [got EXCEPT ![v] = m] /\ UNCHANGED <<req, seen>>
          /\ \/ pc' = [pc EXCEPT ![v] = "opening"]
             \/ pc' = [pc EXCEPT ![v] = "writing"]
      BY <1>6, <2>3, <3>1 DEF Verify
    <3>4. QED BY <2>1, <3>2, <3>3 DEF Handlers
  <2>4. QED BY <2>2, <2>3
<1>7. ASSUME NEW v \in Visitors, NEW ok \in BOOLEAN, Claim(v, ok) PROVE Handlers'
  <2>1. UNCHANGED <<cookie, opened, keys>>
    BY <1>7 DEF Claim
  <2>2. CASE Finish(v)
    BY <2>1, <2>2, FinishFacts DEF Handlers
  <2>3. CASE ~Finish(v)
    <3>1. /\ got' = [got EXCEPT ![v] = req[v].new]
          /\ UNCHANGED <<req, seen>> /\ pc' = [pc EXCEPT ![v] = "opening"]
      BY <1>7, <2>3 DEF Claim
    <3>2. req[v] \in Requests
      BY DEF Handlers
    <3>3. QED BY <2>1, <3>1, <3>2, RequestFacts DEF Handlers
  <2>4. QED BY <2>2, <2>3
<1>8. ASSUME NEW v \in Visitors, NEW ok \in BOOLEAN, Write(v, ok) PROVE Handlers'
  <2>1. CASE Finish(v)
    BY <1>8, <2>1, FinishFacts DEF Write, Handlers
  <2>2. CASE ~Finish(v)
    BY <1>8, <2>2 DEF Write, Handlers
  <2>3. QED BY <2>1, <2>2
<1>9. ASSUME NEW v \in Visitors, NEW ok \in BOOLEAN, ReadKey(v, ok) PROVE Handlers'
  <2>1. CASE Finish(v)
    BY <1>9, <2>1, FinishFacts DEF ReadKey, rows, Handlers
  <2>2. CASE ~Finish(v)
    <3>1. keys[req[v].key] \in KeyRows
      BY RequestFacts DEF Handlers
    <3>2. QED BY <1>9, <2>2, <3>1 DEF ReadKey, rows, Handlers
  <2>3. QED BY <2>1, <2>2
<1>10. ASSUME NEW v \in Visitors, NEW ok \in BOOLEAN, StoreKey(v, ok) PROVE Handlers'
  <2>1. PICK q \in Requests : q = req[v]
    BY DEF Handlers
  <2>2. PICK base \in KeyRows : base = IF q.do = "make" THEN [NoKey EXCEPT !.on = TRUE] ELSE seen[v]
    BY SomeRows DEF Handlers
  <2>3. keys' = keys \/ keys' = [keys EXCEPT ![q.key] = Edited(base, q)]
    BY <1>10, <2>1, <2>2 DEF StoreKey
  <2>4. keys' \in [KeyIds -> KeyRows]
    BY <2>3, EditedFacts DEF Handlers
  <2>5. QED BY <1>10, <2>4, FinishFacts DEF StoreKey
<1>11. ASSUME NEW v \in Visitors, NEW ok \in BOOLEAN, DropKey(v, ok) PROVE Handlers'
  <2>1. keys' \in [KeyIds -> KeyRows]
    BY <1>11, SomeRows DEF DropKey, Handlers
  <2>2. Finish(v)
    BY <1>11 DEF DropKey
  <2>3. QED BY <1>11, <2>1, <2>2, FinishFacts DEF DropKey
<1>12. CASE ReloadKeys
  BY <1>12 DEF ReloadKeys, rows, locals, Handlers
<1>13. CASE Restart
  BY <1>13, SomeRequest, SomeRows DEF Restart, rows, Handlers
<1>14. CASE Remove
  BY <1>14 DEF Remove, locals, Handlers
<1>15. CASE Tick
  BY <1>15 DEF Tick, rows, locals, Handlers
<1>16. QED
  BY <1>1, <1>2, <1>3, <1>4, <1>5, <1>6, <1>7, <1>8, <1>9, <1>10, <1>11, <1>12, <1>13,
     <1>14, <1>15 DEF Next, Serving

-----------------------------------------------------------------------------
(* The account.                                                            *)

AccountInv ==
  /\ account \in [pw : Passwords \cup {"none"}, by : Visitors \cup {"none", "before"}]
  /\ claimed \subseteq Visitors
  /\ OneCreator

LEMMA AccountInit == Init => AccountInv
<1>. SUFFICES ASSUME Init PROVE AccountInv
  OBVIOUS
<1>1. account \in [pw : Passwords \cup {"none"}, by : Visitors \cup {"none", "before"}]
  BY AccessAssumption DEF Init, AccessAssumption, NoAccount
<1>2. QED BY <1>1 DEF Init, AccountInv, OneCreator

LEMMA AccountPreserved == Handlers /\ AccountInv /\ [Next]_vars => AccountInv'
<1>. SUFFICES ASSUME Handlers, AccountInv, Next \/ UNCHANGED vars PROVE AccountInv'
  OBVIOUS
<1>. USE DEF AccountInv, OneCreator
<1>1. CASE UNCHANGED <<account, claimed>>
  BY <1>1
<1>2. ASSUME NEW v \in Visitors, NEW ok \in BOOLEAN, Claim(v, ok) PROVE AccountInv'
  <2>1. CASE UNCHANGED <<account, claimed>>
    BY <2>1
  <2>2. CASE ~UNCHANGED <<account, claimed>>
    <3>1. /\ account = NoAccount /\ claimed' = claimed \cup {v}
          /\ account' = [pw |-> req[v].new, by |-> v]
      BY <1>2, <2>2 DEF Claim, Inserts
    <3>2. claimed = {}
      BY <3>1, AccessAssumption DEF NoAccount, AccessAssumption
    <3>3. req[v].new \in Passwords
      BY RequestFacts DEF Handlers
    <3>4. QED BY <3>1, <3>2, <3>3
  <2>3. QED BY <2>1, <2>2
<1>3. ASSUME NEW v \in Visitors, NEW ok \in BOOLEAN, Write(v, ok) PROVE AccountInv'
  <2>1. claimed' = claimed
    BY <1>3 DEF Write, history
  <2>2. PICK new \in Passwords : new = req[v].new
    BY RequestFacts DEF Handlers
  <2>3. account' = account \/ account' = [account EXCEPT !.pw = new]
    BY <1>3, <2>2 DEF Write, SetAdminPassword
  <2>4. QED BY <2>1, <2>2, <2>3
<1>4. CASE Remove
  BY <1>4 DEF Remove, NoAccount
<1>5. CASE UNCHANGED vars
  BY <1>1, <1>5 DEF vars, rows, history
<1>6. ASSUME NEW v \in Visitors,
             \/ \E q \in Requests : Begin(v, q)
             \/ Logout(v) \/ Open(v) \/ End(v)
             \/ \E ok \in BOOLEAN : Verify(v, ok) \/ ReadKey(v, ok) \/ StoreKey(v, ok) \/ DropKey(v, ok)
      PROVE AccountInv'
  BY <1>1, <1>6 DEF Begin, Logout, Open, End, Verify, ReadKey, StoreKey, DropKey, rows, history
<1>7. CASE ReloadKeys \/ Restart \/ Tick
  BY <1>1, <1>7 DEF ReloadKeys, Restart, Tick, rows, history
<1>8. QED BY <1>2, <1>3, <1>4, <1>5, <1>6, <1>7 DEF Next, Serving

(* OneCreator: however many first-run setups overlap, whoever was told to  *)
(* have created the account has created the one there is.                  *)
THEOREM OneCreatorHolds == Spec => []OneCreator
<1>1. AccountInv => OneCreator
  BY DEF AccountInv
<1>. QED BY <1>1, HandlersInit, HandlersPreserved, AccountInit, AccountPreserved, PTL DEF Spec

-----------------------------------------------------------------------------
(* The sessions.                                                           *)

(* An open session is the account's, or excused, unless a change of the    *)
(* password has yet to end the others; all of them have a password.        *)
SessionInv ==
  /\ sessions \in [Ids -> [pw : Passwords \cup {"none", "file"}, expires : Nat]]
  /\ clock \in Nat
  /\ \A v \in Visitors : pc[v] = "opening" => got[v] # "none"
  /\ \A i \in Ids : Live(i) => sessions[i].pw # "none"
  /\ OldSessionsEnd

LEMMA SessionInit == Init => SessionInv
<1>. SUFFICES ASSUME Init PROVE SessionInv
  OBVIOUS
<1>1. Closed \in [pw : Passwords \cup {"none", "file"}, expires : Nat] /\ Closed.expires = 0
  BY DEF Closed
<1>2. QED BY <1>1 DEF Init, SessionInv, OldSessionsEnd, Live

(* What a step does that closes sessions at most.                          *)
Closes ==
  /\ sessions' \in [Ids -> [pw : Passwords \cup {"none", "file"}, expires : Nat]]
  /\ clock' \in Nat /\ clock <= clock'
  /\ \A i \in Ids : sessions'[i] = sessions[i] \/ sessions'[i] = Closed

LEMMA ClosesFacts ==
  ASSUME SessionInv, Closes, NEW i \in Ids, Live(i)'
  PROVE  Live(i) /\ sessions'[i] = sessions[i]
<1>1. Closed.expires = 0
  BY DEF Closed
<1>2. sessions[i].expires \in Nat /\ sessions'[i].expires \in Nat
  BY DEF SessionInv, Closes
<1>3. QED BY <1>1, <1>2 DEF Live, Closes, SessionInv

LEMMA SessionsKept ==
  ASSUME Handlers, Handlers', SessionInv, Closes, account' = account, excused' = excused,
         \A v \in Visitors : pc'[v] = "opening" => got'[v] # "none",
         \A v \in Visitors : pc[v] = "ending" => pc'[v] = "ending"
  PROVE  SessionInv'
<1>1. \A i \in Ids : Live(i)' => sessions'[i].pw # "none"
  BY ClosesFacts DEF SessionInv
<1>2. OldSessionsEnd'
  <2>1. SUFFICES ASSUME \A v \in Visitors : pc'[v] # "ending", NEW i \in Ids, Live(i)'
                 PROVE  sessions'[i].pw \in {"file", account'.pw} \/ i \in excused'
    BY DEF OldSessionsEnd
  <2>2. \A v \in Visitors : pc[v] # "ending"
    BY <2>1
  <2>3. QED BY <2>1, <2>2, ClosesFacts DEF SessionInv, OldSessionsEnd
<1>3. QED BY <1>1, <1>2 DEF SessionInv, Closes

LEMMA SessionsUntouched ==
  ASSUME Handlers, Handlers', SessionInv, UNCHANGED <<sessions, clock, account, excused>>,
         \A v \in Visitors : pc'[v] = "opening" => got'[v] # "none",
         \A v \in Visitors : pc[v] = "ending" => pc'[v] = "ending"
  PROVE  SessionInv'
BY SessionsKept DEF Closes, SessionInv

LEMMA FinishKeeps ==
  ASSUME Handlers, SessionInv, NEW v \in Visitors, Finish(v), pc[v] # "ending"
  PROVE  /\ \A w \in Visitors : pc'[w] = "opening" => got'[w] # "none"
         /\ \A w \in Visitors : pc[w] = "ending" => pc'[w] = "ending"
BY DEF Handlers, SessionInv, Finish

LEMMA GotoKeeps ==
  ASSUME Handlers, SessionInv, NEW v \in Visitors, NEW step, Goto(v, step), got' = got,
         pc[v] # "ending", step # "opening"
  PROVE  /\ \A w \in Visitors : pc'[w] = "opening" => got'[w] # "none"
         /\ \A w \in Visitors : pc[w] = "ending" => pc'[w] = "ending"
BY DEF Handlers, SessionInv, Goto

LEMMA VerifyKeeps ==
  ASSUME Handlers, Handlers', SessionInv, NEW v \in Visitors, NEW ok \in BOOLEAN, Verify(v, ok)
  PROVE  SessionInv'
<1>1. UNCHANGED <<sessions, clock, account, excused>> /\ pc[v] = "verifying"
  BY DEF Verify, rows
<1>2. CASE Finish(v)
  BY <1>1, <1>2, FinishKeeps, SessionsUntouched
<1>3. CASE ~Finish(v)
  <2>1. PICK m : m = Matched(v, ok)
    OBVIOUS
  <2>2. /\ m # "none" /\ got' = [got EXCEPT ![v] = m]
        /\ \/ pc' = [pc EXCEPT ![v] = "opening"]
           \/ pc' = [pc EXCEPT ![v] = "writing"]
    BY <1>3, <2>1 DEF Verify, Goto
  <2>3. /\ \A w \in Visitors : pc'[w] = "opening" => got'[w] # "none"
        /\ \A w \in Visitors : pc[w] = "ending" => pc'[w] = "ending"
    BY <1>1, <2>2 DEF Handlers, SessionInv
  <2>4. QED BY <1>1, <2>3, SessionsUntouched
<1>4. QED BY <1>2, <1>3

LEMMA OpenKeeps ==
  ASSUME Handlers, Handlers', SessionInv, NEW v \in Visitors, Open(v)
  PROVE  SessionInv'
<1>1. /\ pc[v] = "opening" /\ Finish(v) /\ UNCHANGED <<clock, account>>
      /\ opened < MaxSessions
      /\ excused' = IF got[v] \in {"file", account.pw} THEN excused ELSE excused \cup {opened + 1}
  BY DEF Open, rows
<1>2. PICK n \in Ids : n = opened + 1
  BY <1>1, AccessAssumption DEF AccessAssumption, Handlers, Ids
<1>3. PICK new : new = [pw |-> got[v], expires |-> clock + TTL]
  OBVIOUS
<1>4. /\ new \in [pw : Passwords \cup {"none", "file"}, expires : Nat]
      /\ new.pw = got[v] /\ got[v] # "none"
  BY <1>1, <1>3, AccessAssumption DEF AccessAssumption, Handlers, SessionInv
<1>5. sessions' = [i \in Ids |-> IF i = n THEN new ELSE Kept(i)]
  BY <1>2, <1>3 DEF Open
<1>6. Closed \in [pw : Passwords \cup {"none", "file"}, expires : Nat] /\ Closed.expires = 0
  BY DEF Closed
<1>7. /\ sessions' \in [Ids -> [pw : Passwords \cup {"none", "file"}, expires : Nat]]
      /\ sessions'[n] = new
      /\ \A i \in Ids \ {n} : sessions'[i] = sessions[i] \/ sessions'[i] = Closed
  BY <1>4, <1>5, <1>6 DEF SessionInv, Kept
<1>8. ASSUME NEW i \in Ids, i # n, Live(i)' PROVE Live(i) /\ sessions'[i] = sessions[i]
  <2>1. sessions[i].expires \in Nat /\ clock \in Nat /\ clock' = clock
    BY <1>1 DEF SessionInv
  <2>2. QED BY <1>6, <1>7, <1>8, <2>1 DEF Live
<1>9. /\ \A w \in Visitors : pc'[w] = "opening" => got'[w] # "none"
      /\ \A w \in Visitors : pc[w] = "ending" => pc'[w] = "ending"
  BY <1>1, FinishKeeps
<1>10. \A i \in Ids : Live(i)' => sessions'[i].pw # "none"
  BY <1>4, <1>7, <1>8 DEF SessionInv
<1>11. OldSessionsEnd'
  <2>1. SUFFICES ASSUME \A w \in Visitors : pc'[w] # "ending", NEW i \in Ids, Live(i)'
                 PROVE  sessions'[i].pw \in {"file", account'.pw} \/ i \in excused'
    BY DEF OldSessionsEnd
  <2>2. CASE i = n
    BY <1>1, <1>2, <1>4, <1>7, <2>2
  <2>3. CASE i # n
    BY <1>1, <1>8, <1>9, <2>1, <2>3 DEF SessionInv, OldSessionsEnd
  <2>4. QED BY <2>2, <2>3
<1>12. clock' \in Nat
  BY <1>1 DEF SessionInv
<1>13. QED BY <1>7, <1>9, <1>10, <1>11, <1>12 DEF SessionInv

LEMMA EndKeeps ==
  ASSUME Handlers, Handlers', SessionInv, NEW v \in Visitors, End(v)
  PROVE  SessionInv'
<1>1. Closes
  <2>1. Closed \in [pw : Passwords \cup {"none", "file"}, expires : Nat]
    BY DEF Closed
  <2>2. clock' = clock
    BY DEF End, bounds
  <2>3. QED BY <2>1, <2>2 DEF Closes, SessionInv, End
<1>2. \A i \in Ids : Live(i)' => sessions'[i].pw # "none"
  BY <1>1, ClosesFacts DEF SessionInv
<1>3. \A w \in Visitors : pc'[w] = "opening" => got'[w] # "none"
  BY DEF End, Finish, Handlers, SessionInv
<1>4. OldSessionsEnd'
  <2>1. SUFFICES ASSUME NEW i \in Ids, Live(i)' PROVE i \in excused'
    BY DEF OldSessionsEnd
  <2>2. Closed.expires = 0 /\ clock' \in Nat
    BY <1>1 DEF Closed, Closes
  <2>3. i = cookie[v]
    BY <2>1, <2>2 DEF End, Live
  <2>4. QED BY <2>3 DEF End
<1>5. QED BY <1>1, <1>2, <1>3, <1>4 DEF SessionInv, Closes

(* The account is made or its password is set: what was there before is    *)
(* not the new one's.                                                      *)
LEMMA ClaimKeeps ==
  ASSUME Handlers, Handlers', AccountInv, SessionInv, NEW v \in Visitors, NEW ok \in BOOLEAN,
         Claim(v, ok)
  PROVE  SessionInv'
<1>1. UNCHANGED <<sessions, clock, excused>> /\ pc[v] = "claiming"
  BY DEF Claim, memory
<1>2. CASE Finish(v) /\ account' = account
  BY <1>1, <1>2, FinishKeeps, SessionsUntouched
<1>3. CASE ~(Finish(v) /\ account' = account)
  <2>1. /\ account = NoAccount /\ got' = [got EXCEPT ![v] = req[v].new]
        /\ pc' = [pc EXCEPT ![v] = "opening"]
    BY <1>3 DEF Claim, Inserts, Goto
  <2>2. req[v].new \in Passwords /\ req[v].new # "none"
    BY RequestFacts, AccessAssumption DEF Handlers, AccessAssumption
  <2>3. /\ \A w \in Visitors : pc'[w] = "opening" => got'[w] # "none"
        /\ \A w \in Visitors : pc[w] = "ending" => pc'[w] = "ending"
    BY <1>1, <2>1, <2>2 DEF Handlers, SessionInv
  <2>4. \A i \in Ids : Live(i)' <=> Live(i)
    BY <1>1 DEF Live
  <2>5. OldSessionsEnd'
    BY <1>1, <2>1, <2>3, <2>4 DEF SessionInv, OldSessionsEnd, NoAccount
  <2>6. QED BY <1>1, <2>3, <2>4, <2>5 DEF SessionInv
<1>4. QED BY <1>2, <1>3

LEMMA WriteKeeps ==
  ASSUME Handlers, Handlers', SessionInv, NEW v \in Visitors, NEW ok \in BOOLEAN, Write(v, ok)
  PROVE  SessionInv'
<1>1. UNCHANGED <<sessions, clock, excused>> /\ pc[v] = "writing"
  BY DEF Write, memory, bounds, history
<1>2. CASE Finish(v) /\ account' = account
  BY <1>1, <1>2, FinishKeeps, SessionsUntouched
<1>3. CASE ~(Finish(v) /\ account' = account)
  <2>1. pc' = [pc EXCEPT ![v] = "ending"] /\ got' = got
    BY <1>3 DEF Write, Goto, Stay
  <2>2. pc'[v] = "ending" /\ \A w \in Visitors : pc'[w] = "opening" => got'[w] # "none"
    BY <2>1 DEF Handlers, SessionInv
  <2>3. OldSessionsEnd'
    BY <2>2 DEF OldSessionsEnd
  <2>4. \A i \in Ids : Live(i)' <=> Live(i)
    BY <1>1 DEF Live
  <2>5. QED BY <1>1, <2>2, <2>3, <2>4 DEF SessionInv
<1>4. QED BY <1>2, <1>3

LEMMA SessionPreserved ==
  Handlers /\ Handlers' /\ AccountInv /\ SessionInv /\ [Next]_vars => SessionInv'
<1>. SUFFICES ASSUME Handlers, Handlers', AccountInv, SessionInv, Next \/ UNCHANGED vars
              PROVE  SessionInv'
  OBVIOUS
<1>1. CASE UNCHANGED vars
  BY <1>1, SessionsUntouched DEF SessionInv, vars, rows, memory, locals, bounds, history
<1>2. ASSUME NEW v \in Visitors, NEW q \in Requests, Begin(v, q) PROVE SessionInv'
  <2>1. UNCHANGED <<sessions, clock, account, excused, got>> /\ pc[v] = "idle"
    BY <1>2 DEF Begin, rows
  <2>2. CASE pc' = pc
    BY <2>1, <2>2, SessionsUntouched DEF SessionInv
  <2>3. CASE pc' # pc
    <3>1. Goto(v, First(q)) /\ First(q) # "opening"
      BY <1>2, <2>3, RequestFacts DEF Begin, First
    <3>2. QED BY <2>1, <3>1, GotoKeeps, SessionsUntouched
  <2>4. QED BY <2>2, <2>3
<1>3. ASSUME NEW v \in Visitors, Logout(v) PROVE SessionInv'
  <2>1. UNCHANGED <<clock, account, excused, got, pc>>
    BY <1>3 DEF Logout, rows, bounds, history
  <2>2. Closed \in [pw : Passwords \cup {"none", "file"}, expires : Nat]
    BY DEF Closed
  <2>3. Closes
    BY <1>3, <2>1, <2>2 DEF Logout, Closes, SessionInv, Handlers
  <2>4. QED BY <2>1, <2>3, SessionsKept DEF SessionInv
<1>4. ASSUME NEW v \in Visitors, Open(v) \/ End(v) PROVE SessionInv'
  BY <1>4, OpenKeeps, EndKeeps
<1>5. ASSUME NEW v \in Visitors, NEW ok \in BOOLEAN, Verify(v, ok) \/ Claim(v, ok) \/ Write(v, ok)
      PROVE SessionInv'
  BY <1>5, VerifyKeeps, ClaimKeeps, WriteKeeps
<1>6. ASSUME NEW v \in Visitors, NEW ok \in BOOLEAN, ReadKey(v, ok) PROVE SessionInv'
  <2>1. UNCHANGED <<sessions, clock, account, excused>> /\ pc[v] = "reading"
    BY <1>6 DEF ReadKey, rows, memory, history
  <2>2. CASE Finish(v)
    BY <2>1, <2>2, FinishKeeps, SessionsUntouched
  <2>3. CASE ~Finish(v)
    <3>1. got' = got /\ \E step \in {"storing", "dropping"} : Goto(v, step)
      BY <1>6, <2>3 DEF ReadKey
    <3>2. QED BY <2>1, <3>1, GotoKeeps, SessionsUntouched
  <2>4. QED BY <2>2, <2>3
<1>7. ASSUME NEW v \in Visitors, NEW ok \in BOOLEAN, StoreKey(v, ok) \/ DropKey(v, ok)
      PROVE SessionInv'
  <2>1. /\ UNCHANGED <<sessions, clock, account, excused>>
        /\ pc[v] \in {"storing", "dropping"} /\ Finish(v)
    BY <1>7 DEF StoreKey, DropKey, memory
  <2>2. QED BY <2>1, FinishKeeps, SessionsUntouched
<1>8. CASE ReloadKeys
  BY <1>8, SessionsUntouched DEF ReloadKeys, rows, locals, history, SessionInv
<1>9. CASE Restart
  <2>1. Closed \in [pw : Passwords \cup {"none", "file"}, expires : Nat] /\ Closed.expires = 0
    BY DEF Closed
  <2>2. sessions' = [i \in Ids |-> Closed] /\ clock' = clock /\ pc' = [v \in Visitors |-> "idle"]
    BY <1>9 DEF Restart
  <2>3. clock' \in Nat /\ \A i \in Ids : ~Live(i)'
    BY <2>1, <2>2 DEF Live, SessionInv
  <2>4. QED BY <2>1, <2>2, <2>3 DEF SessionInv, OldSessionsEnd
<1>10. CASE Remove
  <2>1. UNCHANGED <<sessions, clock, pc, got>> /\ excused' = Ids
    BY <1>10 DEF Remove, memory, locals
  <2>2. \A i \in Ids : Live(i)' <=> Live(i)
    BY <2>1 DEF Live
  <2>3. QED BY <2>1, <2>2 DEF SessionInv, OldSessionsEnd
<1>11. CASE Tick
  <2>1. UNCHANGED <<sessions, account, excused, pc, got>> /\ clock' = clock + 1
    BY <1>11 DEF Tick, rows, memory, locals, history
  <2>2. Closes
    BY <2>1 DEF Closes, SessionInv
  <2>3. QED BY <2>1, <2>2, SessionsKept DEF SessionInv
<1>12. QED
  BY <1>1, <1>2, <1>3, <1>4, <1>5, <1>6, <1>7, <1>8, <1>9, <1>10, <1>11 DEF Next, Serving

(* OldSessionsEnd: a changed password ends what was opened with the old    *)
(* one, save the session that asked and the sign-ins already verified.     *)
THEOREM OldSessionsEndHolds == Spec => []OldSessionsEnd
<1>1. SessionInv => OldSessionsEnd
  BY DEF SessionInv
<1>. QED
  BY <1>1, HandlersInit, HandlersPreserved, AccountInit, AccountPreserved, SessionInit,
     SessionPreserved, PTL DEF Spec

-----------------------------------------------------------------------------
(* The keys.                                                               *)

(* What is about to be written is a new key, or the edit of one there was. *)
Ready(q, row) == q.do = "make" \/ (q.do = "set" /\ row.there)

KeyInv ==
  /\ wanted \in [KeyIds -> KeyRows]
  /\ \A k \in KeyIds : keys[k].on => keys[k].there
  /\ \A k \in KeyIds \ raced : keys[k] = wanted[k]
  /\ \A v \in Visitors : pc[v] = "storing" => Ready(req[v], seen[v])

LEMMA KeyInit == Init => KeyInv
<1>. SUFFICES ASSUME Init PROVE KeyInv
  OBVIOUS
<1>1. \A k \in KeyIds : keys[k] \in {NoKey, AnyKey}
  BY DEF Init
<1>2. QED BY <1>1, SomeRows DEF Init, KeyInv

(* A step that leaves the rows alone.                                      *)
LEMMA KeysUntouched ==
  ASSUME KeyInv, UNCHANGED <<keys, wanted, raced>>,
         \A v \in Visitors : pc'[v] = "storing" => Ready(req'[v], seen'[v])
  PROVE  KeyInv'
BY DEF KeyInv, Ready

LEMMA NoNewStoring ==
  ASSUME Handlers, KeyInv, NEW v \in Visitors, pc'[v] # "storing",
         \A w \in Visitors \ {v} : pc'[w] = pc[w] /\ req'[w] = req[w] /\ seen'[w] = seen[w]
  PROVE  \A w \in Visitors : pc'[w] = "storing" => Ready(req'[w], seen'[w])
BY DEF KeyInv, Ready

LEMMA FinishStoring ==
  ASSUME Handlers, NEW v \in Visitors, Finish(v)
  PROVE  /\ pc'[v] # "storing"
         /\ \A w \in Visitors \ {v} : pc'[w] = pc[w] /\ req'[w] = req[w] /\ seen'[w] = seen[w]
BY DEF Handlers, Finish

LEMMA StoreKeeps ==
  ASSUME Handlers, KeyInv, NEW v \in Visitors, NEW ok \in BOOLEAN, StoreKey(v, ok)
  PROVE  KeyInv'
<1>1. PICK q \in Requests : q = req[v]
  BY DEF Handlers
<1>2. PICK k \in KeyIds : k = q.key
  BY RequestFacts
<1>3. PICK base \in KeyRows : base = IF q.do = "make" THEN [NoKey EXCEPT !.on = TRUE] ELSE seen[v]
  BY SomeRows DEF Handlers
<1>4. PICK row \in KeyRows : row = Edited(base, q) /\ row.there
  BY EditedFacts
<1>5. \A w \in Visitors : pc'[w] = "storing" => Ready(req'[w], seen'[w])
  BY FinishStoring, NoNewStoring DEF StoreKey
<1>6. CASE UNCHANGED <<keys, wanted, raced>>
  BY <1>5, <1>6, KeysUntouched
<1>7. CASE ~UNCHANGED <<keys, wanted, raced>>
  <2>1. PICK other : other =
          [there |-> TRUE,
           on   |-> IF q.on = "same" THEN wanted[k].on ELSE q.on = "on",
           list |-> IF q.list = "same" THEN wanted[k].list ELSE q.list]
    OBVIOUS
  <2>2. other = Edited(wanted[k], q) /\ other \in KeyRows
    BY <2>1, EditedFacts DEF KeyInv, Edited
  <2>3. keys' = [keys EXCEPT ![k] = row]
    BY <1>1, <1>2, <1>3, <1>4, <1>7 DEF StoreKey
  <2>4. wanted' = [wanted EXCEPT ![k] = IF q.do = "make" THEN row
                                        ELSE IF wanted[k].there THEN other ELSE wanted[k]]
    BY <1>1, <1>2, <1>3, <1>4, <1>7, <2>1 DEF StoreKey
  <2>5. /\ raced \subseteq raced'
        /\ q.do = "set" /\ keys[k] # seen[v] => k \in raced'
    BY <1>1, <1>2, <1>7 DEF StoreKey
  <2>6. q.do = "make" \/ (q.do = "set" /\ seen[v].there)
    BY <1>1 DEF StoreKey, KeyInv, Ready
  <2>7. ASSUME NEW j \in KeyIds \ raced' PROVE keys'[j] = wanted'[j]
    <3>1. keys[j] = wanted[j]
      BY <2>5 DEF KeyInv
    <3>2. CASE j # k
      BY <2>3, <2>4, <3>1, <3>2 DEF Handlers, KeyInv
    <3>3. CASE j = k /\ q.do = "make"
      BY <2>3, <2>4, <3>3 DEF Handlers, KeyInv
    <3>4. CASE j = k /\ q.do = "set"
      <4>1. base = seen[v] /\ wanted[k] = base /\ base.there
        BY <1>3, <2>5, <2>6, <3>1, <3>4
      <4>2. other = row
        BY <1>4, <2>2, <4>1
      <4>3. wanted'[k] = other
        BY <2>4, <3>4, <4>1 DEF KeyInv
      <4>4. QED BY <2>3, <3>4, <4>2, <4>3 DEF Handlers
    <3>5. QED BY <2>6, <3>2, <3>3, <3>4
  <2>8. wanted' \in [KeyIds -> KeyRows]
    BY <2>2, <2>4 DEF KeyInv
  <2>9. \A j \in KeyIds : keys'[j].on => keys'[j].there
    BY <1>4, <2>3 DEF Handlers, KeyInv
  <2>10. QED BY <1>5, <2>7, <2>8, <2>9 DEF KeyInv
<1>8. QED BY <1>6, <1>7

LEMMA DropKeeps ==
  ASSUME Handlers, KeyInv, NEW v \in Visitors, NEW ok \in BOOLEAN, DropKey(v, ok)
  PROVE  KeyInv'
<1>1. \A w \in Visitors : pc'[w] = "storing" => Ready(req'[w], seen'[w])
  BY FinishStoring, NoNewStoring DEF DropKey
<1>2. CASE UNCHANGED <<keys, wanted, raced>>
  BY <1>1, <1>2, KeysUntouched
<1>3. CASE ~UNCHANGED <<keys, wanted, raced>>
  <2>1. PICK k \in KeyIds : k = req[v].key
    BY RequestFacts DEF Handlers
  <2>2. keys' = [keys EXCEPT ![k] = NoKey] /\ wanted' = [wanted EXCEPT ![k] = NoKey] /\ raced' = raced
    BY <1>3, <2>1 DEF DropKey
  <2>3. QED BY <1>1, <2>2, SomeRows DEF Handlers, KeyInv
<1>4. QED BY <1>2, <1>3

LEMMA KeyPreserved == Handlers /\ KeyInv /\ [Next]_vars => KeyInv'
<1>. SUFFICES ASSUME Handlers, KeyInv, Next \/ UNCHANGED vars PROVE KeyInv'
  OBVIOUS
<1>1. CASE UNCHANGED vars
  BY <1>1, KeysUntouched DEF KeyInv, vars, rows, locals, history
<1>2. ASSUME NEW v \in Visitors, NEW q \in Requests, Begin(v, q) PROVE KeyInv'
  <2>1. UNCHANGED <<keys, wanted, raced, seen>>
    BY <1>2 DEF Begin, rows
  <2>2. CASE UNCHANGED <<pc, req>>
    BY <2>1, <2>2, KeysUntouched DEF KeyInv
  <2>3. CASE ~UNCHANGED <<pc, req>>
    <3>1. /\ pc' = [pc EXCEPT ![v] = First(q)] /\ req' = [req EXCEPT ![v] = q]
          /\ q.do # "logout"
      BY <1>2, <2>3 DEF Begin, Goto
    <3>2. First(q) = "storing" => q.do = "make"
      BY <3>1, RequestFacts DEF First
    <3>3. \A w \in Visitors : pc'[w] = "storing" => Ready(req'[w], seen'[w])
      BY <2>1, <3>1, <3>2 DEF Handlers, KeyInv, Ready
    <3>4. QED BY <2>1, <3>3, KeysUntouched
  <2>4. QED BY <2>2, <2>3
<1>3. ASSUME NEW v \in Visitors, Logout(v) PROVE KeyInv'
  BY <1>3, KeysUntouched DEF Logout, KeyInv, rows, history
<1>4. ASSUME NEW v \in Visitors, Open(v) \/ End(v) PROVE KeyInv'
  <2>1. UNCHANGED <<keys, wanted, raced>> /\ Finish(v)
    BY <1>4 DEF Open, End, rows
  <2>2. QED BY <2>1, FinishStoring, NoNewStoring, KeysUntouched
<1>5. ASSUME NEW v \in Visitors, NEW ok \in BOOLEAN, Verify(v, ok) \/ Claim(v, ok) \/ Write(v, ok)
      PROVE KeyInv'
  <2>1. UNCHANGED <<keys, wanted, raced>>
    BY <1>5 DEF Verify, Claim, Write, rows, history
  <2>2. CASE Finish(v)
    BY <2>1, <2>2, FinishStoring, NoNewStoring, KeysUntouched
  <2>3. CASE ~Finish(v)
    <3>1. UNCHANGED <<req, seen>> /\ \E step \in {"opening", "writing", "ending"} : Goto(v, step)
      BY <1>5, <2>3 DEF Verify, Claim, Write, Stay
    <3>2. pc'[v] # "storing" /\ \A w \in Visitors \ {v} : pc'[w] = pc[w]
      BY <3>1 DEF Goto, Handlers
    <3>3. QED BY <2>1, <3>1, <3>2, NoNewStoring, KeysUntouched
  <2>4. QED BY <2>2, <2>3
<1>6. ASSUME NEW v \in Visitors, NEW ok \in BOOLEAN, ReadKey(v, ok) PROVE KeyInv'
  <2>1. UNCHANGED <<keys, wanted, raced>>
    BY <1>6 DEF ReadKey, rows, history
  <2>2. CASE Finish(v)
    BY <2>1, <2>2, FinishStoring, NoNewStoring, KeysUntouched
  <2>3. CASE ~Finish(v)
    <3>1. /\ req' = req /\ keys[req[v].key].there
          /\ seen' = [seen EXCEPT ![v] = keys[req[v].key]]
          /\ pc' = [pc EXCEPT ![v] = IF req[v].do = "set" THEN "storing" ELSE "dropping"]
      BY <1>6, <2>3 DEF ReadKey, Goto
    <3>2. \A w \in Visitors : pc'[w] = "storing" => Ready(req'[w], seen'[w])
      BY <3>1 DEF Handlers, KeyInv, Ready
    <3>3. QED BY <2>1, <3>2, KeysUntouched
  <2>4. QED BY <2>2, <2>3
<1>7. ASSUME NEW v \in Visitors, NEW ok \in BOOLEAN, StoreKey(v, ok) \/ DropKey(v, ok)
      PROVE KeyInv'
  BY <1>7, StoreKeeps, DropKeeps
<1>8. CASE Restart
  BY <1>8, KeysUntouched DEF Restart, rows, history
<1>9. CASE ReloadKeys \/ Remove \/ Tick
  <2>1. UNCHANGED <<keys, wanted, raced, pc, req, seen>>
    BY <1>9 DEF ReloadKeys, Remove, Tick, rows, locals, history
  <2>2. QED BY <2>1, KeysUntouched DEF KeyInv
<1>10. QED
  BY <1>1, <1>2, <1>3, <1>4, <1>5, <1>6, <1>7, <1>8, <1>9 DEF Next, Serving

(* KeysAreAsAsked: a key is what was asked for, and a revoked or disabled  *)
(* one is refused, except where one change was written over another's.     *)
THEOREM KeysAreAsAskedHolds == Spec => []KeysAreAsAsked
<1>1. KeyInv => KeysAreAsAsked
  BY DEF KeyInv, KeysAreAsAsked, Accepts, Stored
<1>. QED
  BY <1>1, HandlersInit, HandlersPreserved, KeyInit, KeyPreserved, PTL DEF Spec

-----------------------------------------------------------------------------
(* Induction.  The library states it for a predicate, which the provers    *)
(* cannot instantiate; for a set it follows from the least-number          *)
(* principle.                                                              *)

LEMMA SetInduction ==
  ASSUME NEW S, 0 \in S, \A n \in Nat : n \in S => n + 1 \in S
  PROVE  Nat \subseteq S
<1> DEFINE T == Nat \ S
<1>1. SUFFICES ASSUME T # {} PROVE FALSE
  OBVIOUS
<1>2. PICK x \in T : \A y \in T : ~(<<y, x>> \in OpToRel(<, Nat))
  BY <1>1, WFMin, NatLessThanWellFounded
<1>3. x # 0 /\ x - 1 \in Nat /\ x - 1 \notin S
  OBVIOUS
<1>4. <<x - 1, x>> \in OpToRel(<, Nat)
  BY <1>3 DEF OpToRel
<1>5. QED BY <1>2, <1>3, <1>4

(* A function is given by its first value and by what follows on each.     *)
LEMMA Recursion ==
  ASSUME NEW a \in Nat, NEW g \in [Nat \X Nat -> Nat]
  PROVE  \E f \in [Nat -> Nat] : f[0] = a /\ \A n \in Nat : f[n + 1] = g[<<n, f[n]>>]
<1> DEFINE V == Nat
<1>0. a \in V /\ g \in [Nat \X V -> V]
  OBVIOUS
<1> HIDE DEF V
<1> DEFINE Up(n, f) == f \in [0..n -> V] /\ f[0] = a
                         /\ \A i \in 0..(n - 1) : f[i + 1] = g[<<i, f[i]>>]
<1> DEFINE S == {n \in Nat : \E f \in [0..n -> V] : Up(n, f)}
<1>1. 0 \in S
  <2>1. Up(0, [i \in 0..0 |-> a])
    BY <1>0
  <2>2. QED BY <2>1
<1>2. ASSUME NEW n \in Nat, n \in S PROVE n + 1 \in S
  <2>1. PICK f \in [0..n -> V] : Up(n, f)
    BY <1>2
  <2>2. PICK h : h = [i \in 0..(n + 1) |-> IF i = n + 1 THEN g[<<n, f[n]>>] ELSE f[i]]
    OBVIOUS
  <2>3. f[n] \in V /\ g[<<n, f[n]>>] \in V
    BY <1>0, n \in 0..n
  <2>4. h \in [0..(n + 1) -> V] /\ h[0] = a /\ h[n + 1] = g[<<n, f[n]>>]
    BY <2>1, <2>2, <2>3
  <2>5. \A i \in 0..n : h[i] = f[i]
    BY <2>2
  <2>6. ASSUME NEW i \in 0..n PROVE h[i + 1] = g[<<i, h[i]>>]
    <3>1. CASE i = n
      BY <2>4, <2>5, <3>1
    <3>2. CASE i # n
      <4>1. i \in 0..(n - 1) /\ i + 1 \in 0..n
        BY <3>2
      <4>2. QED BY <2>1, <2>5, <4>1
    <3>3. QED BY <3>1, <3>2
  <2>7. (n + 1) - 1 = n
    OBVIOUS
  <2>8. Up(n + 1, h)
    BY <2>4, <2>6, <2>7
  <2>9. h \in [0..(n + 1) -> V] /\ n + 1 \in Nat
    BY <2>4
  <2> HIDE DEF Up
  <2>10. QED BY <2>8, <2>9
<1>3. \A n \in Nat : \E f \in [0..n -> V] : Up(n, f)
  BY <1>1, <1>2, SetInduction
<1> DEFINE F == [n \in Nat |-> CHOOSE f \in [0..n -> V] : Up(n, f)]
<1>4. \A n \in Nat : Up(n, F[n])
  BY <1>3
<1> DEFINE A == {n \in Nat : \A i \in 0..n : F[n][i] = F[i][i]}
<1> HIDE DEF F
<1>5. 0 \in A
  OBVIOUS
<1>6. ASSUME NEW n \in Nat, n \in A PROVE n + 1 \in A
  <2> DEFINE B == {i \in Nat : i <= n => F[n + 1][i] = F[n][i]}
  <2>1. 0 \in B
    BY <1>4
  <2>2. ASSUME NEW i \in Nat, i \in B PROVE i + 1 \in B
    <3>1. SUFFICES ASSUME i + 1 <= n PROVE F[n + 1][i + 1] = F[n][i + 1]
      OBVIOUS
    <3>2. F[n + 1][i] = F[n][i] /\ i \in 0..(n - 1) /\ i \in 0..((n + 1) - 1)
      BY <2>2, <3>1
    <3>3. F[n + 1][i + 1] = g[<<i, F[n + 1][i]>>] /\ F[n][i + 1] = g[<<i, F[n][i]>>]
      BY <1>4, <3>2
    <3>4. QED BY <3>2, <3>3
  <2>3. Nat \subseteq B
    BY <2>1, <2>2, SetInduction
  <2>4. QED BY <2>3, <1>6
<1>7. \A n \in Nat : \A i \in 0..n : F[n][i] = F[i][i]
  BY <1>5, <1>6, SetInduction
<1> DEFINE G == [n \in Nat |-> F[n][n]]
<1>8. G \in [Nat -> V] /\ G[0] = a
  <2>1. \A n \in Nat : n \in 0..n /\ F[n] \in [0..n -> V] /\ F[0][0] = a
    BY <1>4
  <2>2. QED BY <2>1
<1>9. \A n \in Nat : G[n + 1] = g[<<n, G[n]>>]
  BY <1>4, <1>7
<1>10. QED BY <1>8, <1>9 DEF V

(* What a recursive function of natural numbers is, given that there is    *)
(* one.                                                                    *)
LEMMA ShiftedIs ==
  /\ Shifted \in [Nat -> Nat] /\ Shifted[0] = 1
  /\ \A n \in Nat : Shifted[n + 1] = 2 * Shifted[n]
<1>1. PICK g \in [Nat \X Nat -> Nat] : \A n, x \in Nat : g[<<n, x>>] = 2 * x
  <2>1. [p \in Nat \X Nat |-> 2 * p[2]] \in [Nat \X Nat -> Nat]
    OBVIOUS
  <2>2. QED BY <2>1
<1>2. PICK f \in [Nat -> Nat] : f[0] = 1 /\ \A n \in Nat : f[n + 1] = g[<<n, f[n]>>]
  <2>1. 1 \in Nat
    OBVIOUS
  <2>2. QED BY <2>1, Recursion
<1>3. \A n \in Nat : f[n] = IF n = 0 THEN 1 ELSE 2 * f[n - 1]
  <2>1. ASSUME NEW n \in Nat, n # 0 PROVE f[n] = 2 * f[n - 1]
    <3>1. n - 1 \in Nat /\ (n - 1) + 1 = n
      BY <2>1
    <3>2. QED BY <1>1, <1>2, <3>1
  <2>2. QED BY <1>2, <2>1
<1>4. f = [n \in Nat |-> IF n = 0 THEN 1 ELSE 2 * f[n - 1]]
  BY <1>3
<1>5. Shifted = [n \in Nat |-> IF n = 0 THEN 1 ELSE 2 * Shifted[n - 1]]
  BY <1>4, Zenon DEF Shifted
<1>6. \A n \in Nat : Shifted[n] = IF n = 0 THEN 1 ELSE 2 * Shifted[n - 1]
  BY <1>5, Zenon
<1>7. Shifted[0] = 1 /\ \A n \in Nat : Shifted[n + 1] = 2 * Shifted[n]
  BY <1>6, \A n \in Nat : n + 1 \in Nat /\ n + 1 # 0 /\ (n + 1) - 1 = n
<1> HIDE DEF Shifted
<1>8. Nat \subseteq {n \in Nat : Shifted[n] \in Nat}
  <2> DEFINE S == {n \in Nat : Shifted[n] \in Nat}
  <2>1. 0 \in S
    BY <1>7
  <2>2. \A n \in Nat : n \in S => n + 1 \in S
    BY <1>7
  <2> HIDE DEF S
  <2>3. Nat \subseteq S
    BY <2>1, <2>2, SetInduction
  <2>4. QED BY <2>3 DEF S
<1>9. QED BY <1>5, <1>7, <1>8

LEMMA ShiftedGrows ==
  ASSUME NEW m \in Nat, NEW n \in Nat, m <= n
  PROVE  1 <= Shifted[m] /\ Shifted[m] <= Shifted[n]
<1>1. Nat \subseteq {d \in Nat : 1 <= Shifted[d]}
  <2> DEFINE S == {d \in Nat : 1 <= Shifted[d]}
  <2>1. 0 \in S
    BY ShiftedIs
  <2>2. \A d \in Nat : d \in S => d + 1 \in S
    BY ShiftedIs
  <2> HIDE DEF S
  <2>3. Nat \subseteq S
    BY <2>1, <2>2, SetInduction
  <2>4. QED BY <2>3 DEF S
<1>2. Nat \subseteq {d \in Nat : Shifted[m] <= Shifted[m + d]}
  <2>1. ASSUME NEW d \in Nat, Shifted[m] <= Shifted[m + d]
        PROVE  Shifted[m] <= Shifted[m + (d + 1)]
    <3>1. m + d \in Nat /\ m + (d + 1) = (m + d) + 1
      OBVIOUS
    <3>2. QED BY <2>1, <3>1, ShiftedIs
  <2> DEFINE S == {d \in Nat : Shifted[m] <= Shifted[m + d]}
  <2>2. 0 \in S
    BY ShiftedIs
  <2>3. \A d \in Nat : d \in S => d + 1 \in S
    BY <2>1
  <2> HIDE DEF S
  <2>4. Nat \subseteq S
    BY <2>2, <2>3, SetInduction
  <2>5. QED BY <2>4 DEF S
<1>3. n - m \in Nat /\ m + (n - m) = n
  OBVIOUS
<1>4. QED BY <1>1, <1>2, <1>3

(* The waits grow with the failures.                                       *)
LEMMA BackoffGrows ==
  ASSUME NEW m \in Nat \ {0}, NEW n \in Nat \ {0}, m <= n
  PROVE  Backoff(m) \in Nat /\ Backoff(n) \in Nat /\ Backoff(m) <= Backoff(n)
<1>1. PICK i \in Nat, j \in Nat :
        i = Least(m - 1, 20) /\ j = Least(n - 1, 20) /\ i <= j
  BY DEF Least
<1>2. Shifted[i] \in Nat /\ Shifted[j] \in Nat
  BY ShiftedIs
<1>3. Shifted[i] <= Shifted[j]
  BY <1>1, ShiftedGrows
<1>4. MaxBackoff \in Nat
  BY AccessAssumption DEF AccessAssumption
<1>5. Backoff(m) = Least(Shifted[i], MaxBackoff) /\ Backoff(n) = Least(Shifted[j], MaxBackoff)
  BY <1>1 DEF Backoff
<1>6. QED BY <1>2, <1>3, <1>4, <1>5 DEF Least

LEMMA WaitedIs ==
  /\ Waited \in [Nat -> Nat] /\ Waited[0] = 0
  /\ \A n \in Nat : Waited[n + 1] = Waited[n] + Backoff(n + 1)
<1>0. \A n \in Nat : Backoff(n + 1) \in Nat
  BY BackoffGrows
<1> HIDE DEF Backoff
<1>1. PICK g \in [Nat \X Nat -> Nat] : \A n, x \in Nat : g[<<n, x>>] = x + Backoff(n + 1)
  <2>1. [p \in Nat \X Nat |-> p[2] + Backoff(p[1] + 1)] \in [Nat \X Nat -> Nat]
    BY <1>0
  <2>2. QED BY <2>1
<1>2. PICK f \in [Nat -> Nat] : f[0] = 0 /\ \A n \in Nat : f[n + 1] = g[<<n, f[n]>>]
  <2>1. 0 \in Nat
    OBVIOUS
  <2>2. QED BY <2>1, Recursion
<1>3. \A n \in Nat : f[n] = IF n = 0 THEN 0 ELSE f[n - 1] + Backoff(n)
  <2>1. ASSUME NEW n \in Nat, n # 0 PROVE f[n] = f[n - 1] + Backoff(n)
    <3>1. n - 1 \in Nat /\ (n - 1) + 1 = n
      BY <2>1
    <3>2. f[(n - 1) + 1] = f[n - 1] + Backoff((n - 1) + 1)
      BY <1>1, <1>2, <3>1
    <3>3. QED BY <3>1, <3>2
  <2>2. QED BY <1>2, <2>1
<1>4. f = [n \in Nat |-> IF n = 0 THEN 0 ELSE f[n - 1] + Backoff(n)]
  BY <1>3
<1>5. Waited = [n \in Nat |-> IF n = 0 THEN 0 ELSE Waited[n - 1] + Backoff(n)]
  BY <1>4, Zenon DEF Waited
<1>6. \A n \in Nat : Waited[n] = IF n = 0 THEN 0 ELSE Waited[n - 1] + Backoff(n)
  BY <1>5, Zenon
<1>7. Waited[0] = 0 /\ \A n \in Nat : Waited[n + 1] = Waited[n] + Backoff(n + 1)
  BY <1>6, \A n \in Nat : n + 1 \in Nat /\ n + 1 # 0 /\ (n + 1) - 1 = n
<1> HIDE DEF Waited
<1>8. Nat \subseteq {n \in Nat : Waited[n] \in Nat}
  <2> DEFINE S == {n \in Nat : Waited[n] \in Nat}
  <2>1. 0 \in S
    BY <1>7
  <2>2. \A n \in Nat : n \in S => n + 1 \in S
    BY <1>0, <1>7
  <2> HIDE DEF S
  <2>3. Nat \subseteq S
    BY <2>1, <2>2, SetInduction
  <2>4. QED BY <2>3 DEF S
<1>9. QED BY <1>5, <1>7, <1>8

LEMMA WaitedGrows ==
  ASSUME NEW m \in Nat, NEW n \in Nat, m <= n
  PROVE  Waited[m] \in Nat /\ Waited[n] \in Nat /\ Waited[m] <= Waited[n]
<1>1. Nat \subseteq {d \in Nat : Waited[m] <= Waited[m + d]}
  <2>1. ASSUME NEW d \in Nat, Waited[m] <= Waited[m + d]
        PROVE  Waited[m] <= Waited[m + (d + 1)]
    <3>1. m + d \in Nat /\ m + (d + 1) = (m + d) + 1 /\ Backoff((m + d) + 1) \in Nat
      BY BackoffGrows
    <3>2. QED BY <2>1, <3>1, WaitedIs
  <2> DEFINE S == {d \in Nat : Waited[m] <= Waited[m + d]}
  <2>2. 0 \in S
    BY WaitedIs
  <2>3. \A d \in Nat : d \in S => d + 1 \in S
    BY <2>1
  <2> HIDE DEF S
  <2>4. Nat \subseteq S
    BY <2>2, <2>3, SetInduction
  <2>5. QED BY <2>4 DEF S
<1>2. n - m \in Nat /\ m + (n - m) = n
  OBVIOUS
<1>3. QED BY <1>1, <1>2, WaitedIs

-----------------------------------------------------------------------------
(* The throttle on wrong passwords.                                        *)

Shared       == {SourceOf[v] : v \in Visitors}
Users(s)     == {v \in Visitors : SourceOf[v] = s}
Verifying(s) == {v \in Visitors : SourceOf[v] = s /\ pc[v] = "verifying"}
Busy(s)      == Cardinality(Verifying(s))

(* What f failures since z, of a source that k share and i are at, have    *)
(* cost by t, and will have cost when its wait is over at u.               *)
Owed(f, u, t, z, i, k) ==
  f > FreeAttempts =>
    /\ t - z >= Waited[(f - FreeAttempts + i - 1) \div k]
    /\ u - z >= Waited[(f - FreeAttempts + k - 1) \div k]

Throttle ==
  /\ fails \in [Sources -> Nat] /\ until \in [Sources -> Nat]
  /\ since \in [Sources -> Nat] /\ clock \in Nat
  /\ Cardinality(Recorded) <= MaxEntries
  /\ \A s \in Sources : fails[s] > 0 =>
       /\ s \in Shared /\ since[s] <= clock
       /\ Owed(fails[s], until[s], clock, since[s], Busy(s), Sharing(s))

LEMMA OwedEases ==
  ASSUME NEW f \in Nat, NEW u \in Nat, NEW t \in Nat, NEW z \in Nat,
         NEW i \in Nat, NEW k \in Nat \ {0}, Owed(f, u, t, z, i, k),
         NEW j \in Nat, j <= i, NEW w \in Nat, t <= w
  PROVE  Owed(f, u, w, z, j, k)
<1>1. SUFFICES ASSUME f > FreeAttempts
               PROVE  w - z >= Waited[(f - FreeAttempts + j - 1) \div k]
  BY DEF Owed
<1>2. PICK x \in Nat, y \in Nat :
        x = f - FreeAttempts + j - 1 /\ y = f - FreeAttempts + i - 1 /\ x <= y
  BY <1>1, AccessAssumption DEF AccessAssumption
<1>3. x \div k \in Nat /\ y \div k \in Nat /\ x \div k <= y \div k
  BY <1>2, SMT
<1>4. Waited[x \div k] \in Nat /\ Waited[y \div k] \in Nat /\ Waited[x \div k] <= Waited[y \div k]
  BY <1>3, WaitedGrows
<1>5. t - z >= Waited[y \div k]
  BY <1>1, <1>2 DEF Owed
<1>6. w - z >= Waited[x \div k]
  BY <1>4, <1>5
<1>7. QED BY <1>2, <1>6

LEMMA OwedBegins ==
  ASSUME NEW f \in Nat, NEW u \in Nat, NEW t \in Nat, NEW z \in Nat,
         NEW i \in Nat, NEW k \in Nat \ {0}, Owed(f, u, t, z, i, k), i + 1 <= k, u <= t
  PROVE  Owed(f, u, t, z, i + 1, k)
<1>1. SUFFICES ASSUME f > FreeAttempts
               PROVE  t - z >= Waited[(f - FreeAttempts + (i + 1) - 1) \div k]
  BY DEF Owed
<1>2. PICK x \in Nat, y \in Nat :
        x = f - FreeAttempts + (i + 1) - 1 /\ y = f - FreeAttempts + k - 1 /\ x <= y
  BY <1>1, AccessAssumption DEF AccessAssumption
<1>3. x \div k \in Nat /\ y \div k \in Nat /\ x \div k <= y \div k
  BY <1>2, SMT
<1>4. Waited[x \div k] \in Nat /\ Waited[y \div k] \in Nat /\ Waited[x \div k] <= Waited[y \div k]
  BY <1>3, WaitedGrows
<1>5. u - z >= Waited[y \div k]
  BY <1>1, <1>2 DEF Owed
<1>6. t - z >= Waited[x \div k]
  BY <1>4, <1>5
<1>7. QED BY <1>2, <1>6

(* A failure, of one of the j that are at it, pays for a wait.             *)
LEMMA OwedFails ==
  ASSUME NEW f \in Nat, NEW u \in Nat, NEW t \in Nat, NEW z \in Nat,
         NEW j \in Nat \ {0}, NEW k \in Nat \ {0}, j <= k,
         f > 0 => z <= t /\ Owed(f, u, t, z, j, k),
         NEW x \in Nat, x = IF f = 0 THEN t ELSE z,
         NEW g \in Nat, g = f + 1,
         NEW y \in Nat, y = IF g > FreeAttempts THEN t + Backoff(g - FreeAttempts) ELSE u
  PROVE  Owed(g, y, t, x, j - 1, k)
<1>0. FreeAttempts \in Nat
  BY AccessAssumption DEF AccessAssumption
<1>1. SUFFICES ASSUME g > FreeAttempts
      PROVE  /\ t - x >= Waited[(g - FreeAttempts + (j - 1) - 1) \div k]
             /\ y - x >= Waited[(g - FreeAttempts + k - 1) \div k]
  BY DEF Owed
<1>2. PICK n \in Nat : n = f - FreeAttempts
  BY <1>0, <1>1
<1>3. g - FreeAttempts + (j - 1) - 1 = n + (j - 1) /\ g - FreeAttempts + k - 1 = n + k
      /\ g - FreeAttempts = n + 1
  BY <1>0, <1>2
<1>4. /\ n \div k \in Nat /\ n \div k <= n /\ (n + k) \div k = n \div k + 1
      /\ (n + (j - 1)) \div k \in Nat /\ n \div k <= (n + (j - 1)) \div k
  <2>1. PICK m \in Nat : m = n + (j - 1) /\ n <= m
    OBVIOUS
  <2>2. n \div k \in Nat /\ m \div k \in Nat
    OBVIOUS
  <2>3. n \div k <= m \div k /\ n \div k <= n
    BY <2>1, SMT
  <2>4. (n + k) \div k = n \div k + 1
    BY SMT
  <2>5. QED BY <2>1, <2>2, <2>3, <2>4
<1>5. /\ Waited[n \div k] \in Nat /\ Waited[(n + (j - 1)) \div k] \in Nat
      /\ Waited[n \div k] <= Waited[(n + (j - 1)) \div k]
  BY <1>4, WaitedGrows
<1>6. Waited[(n + k) \div k] = Waited[n \div k] + Backoff(n \div k + 1)
  BY <1>4, WaitedIs
<1>7. /\ Backoff(n \div k + 1) \in Nat /\ Backoff(n + 1) \in Nat
      /\ Backoff(n \div k + 1) <= Backoff(n + 1)
  <2>1. n \div k + 1 \in Nat \ {0} /\ n + 1 \in Nat \ {0} /\ n \div k + 1 <= n + 1
    BY <1>4
  <2>2. QED BY <2>1, BackoffGrows
<1>8. t - x >= Waited[(n + (j - 1)) \div k]
  <2>1. CASE n = 0
    <3>1. PICK m \in Nat : m = n + (j - 1) /\ m < k
      BY <2>1
    <3>2. m \div k = 0
      BY <3>1, SMT
    <3>3. x <= t
      OBVIOUS
    <3>4. Waited[(n + (j - 1)) \div k] = 0
      BY <3>1, <3>2, WaitedIs
    <3>5. QED BY <3>3, <3>4
  <2>2. CASE n # 0
    <3>1. f > FreeAttempts /\ f > 0 /\ x = z /\ f - FreeAttempts + j - 1 = n + (j - 1)
      BY <1>0, <1>2, <2>2
    <3>2. t - z >= Waited[(f - FreeAttempts + j - 1) \div k]
      BY <3>1 DEF Owed
    <3>3. QED BY <3>1, <3>2
  <2>3. QED BY <2>1, <2>2
<1>9. y = t + Backoff(n + 1)
  BY <1>1, <1>3
<1> HIDE DEF Backoff
<1>10. y - x >= Waited[(n + k) \div k]
  BY <1>5, <1>6, <1>7, <1>8, <1>9
<1>11. QED BY <1>3, <1>8, <1>10

LEMMA BusyFacts ==
  ASSUME NEW s \in Sources
  PROVE  /\ IsFiniteSet(Users(s)) /\ IsFiniteSet(Verifying(s)) /\ Verifying(s) \subseteq Users(s)
         /\ Busy(s) \in Nat /\ Sharing(s) \in Nat /\ Busy(s) <= Sharing(s)
         /\ s \in Shared => Sharing(s) # 0
         /\ \A v \in Users(s) \ Verifying(s) : Busy(s) + 1 <= Sharing(s)
<1>1. IsFiniteSet(Users(s))
  BY FS_Subset, AccessAssumption DEF Users, AccessAssumption
<1>2. Verifying(s) \subseteq Users(s)
  BY DEF Verifying, Users
<1>3. IsFiniteSet(Verifying(s)) /\ Cardinality(Verifying(s)) <= Cardinality(Users(s))
  BY <1>1, <1>2, FS_Subset
<1>4. Sharing(s) = Cardinality(Users(s))
  BY DEF Sharing, Users
<1>5. Cardinality(Users(s)) \in Nat /\ Cardinality(Verifying(s)) \in Nat
  BY <1>1, <1>3, FS_CardinalityType
<1>6. s \in Shared => Users(s) # {}
  BY DEF Shared, Users
<1>7. Users(s) # {} => Cardinality(Users(s)) # 0
  BY <1>1, FS_EmptySet
<1>8. ASSUME NEW v \in Users(s) \ Verifying(s) PROVE Busy(s) + 1 <= Sharing(s)
  <2>1. Cardinality(Verifying(s) \cup {v}) = Cardinality(Verifying(s)) + 1
    BY <1>3, FS_AddElement
  <2>2. Verifying(s) \cup {v} \subseteq Users(s)
    BY <1>2
  <2>3. Cardinality(Verifying(s) \cup {v}) <= Cardinality(Users(s))
    BY <1>1, <2>2, FS_Subset
  <2>4. QED BY <1>4, <2>1, <2>3 DEF Busy
<1>9. QED BY <1>1, <1>2, <1>3, <1>4, <1>5, <1>6, <1>7, <1>8 DEF Busy

(* The sources that may have failures are finitely many.                   *)
LEMMA SharedFinite == IsFiniteSet(Shared)
<1>1. SourceOf \in Surjection(Visitors, Shared)
  BY AccessAssumption DEF Shared, AccessAssumption, Surjection
<1>2. IsFiniteSet(Visitors)
  BY AccessAssumption DEF AccessAssumption
<1>3. QED BY <1>1, <1>2, FS_Surjection

LEMMA RecordedFinite ==
  ASSUME Throttle
  PROVE  /\ Recorded \subseteq Shared /\ IsFiniteSet(Recorded)
         /\ Remaining \subseteq Recorded /\ IsFiniteSet(Remaining)
         /\ Cardinality(Remaining) + 1 <= MaxEntries
<1>1. Recorded \subseteq Shared
  BY DEF Throttle, Recorded
<1>2. IsFiniteSet(Recorded)
  BY <1>1, SharedFinite, FS_Subset
<1>3. Remaining \subseteq Recorded
  BY DEF Remaining
<1>4. IsFiniteSet(Remaining)
  BY <1>2, <1>3, FS_Subset
<1>5. Cardinality(Remaining) < MaxEntries
  <2>1. Cardinality({}) < MaxEntries
    BY FS_EmptySet, AccessAssumption DEF AccessAssumption
  <2>2. QED BY <2>1 DEF Remaining
<1>6. Cardinality(Remaining) \in Nat /\ MaxEntries \in Nat
  BY <1>4, FS_CardinalityType, AccessAssumption DEF AccessAssumption
<1>7. QED BY <1>1, <1>2, <1>3, <1>4, <1>5, <1>6

(* A source where fewer are verifying, at a later time, after the same     *)
(* failures or none.                                                       *)
LEMMA SourceEases ==
  ASSUME Throttle, NEW s \in Sources, clock' \in Nat, clock <= clock',
         Verifying(s)' \subseteq Verifying(s), fails'[s] > 0,
         UNCHANGED <<fails[s], until[s], since[s]>>
  PROVE  /\ s \in Shared /\ since'[s] <= clock'
         /\ Owed(fails'[s], until'[s], clock', since'[s], Busy(s)', Sharing(s))
<1>1. /\ s \in Shared /\ since[s] <= clock
      /\ Owed(fails[s], until[s], clock, since[s], Busy(s), Sharing(s))
  BY DEF Throttle
<1>2. PICK i \in Nat, j \in Nat, k \in Nat \ {0} :
        i = Busy(s) /\ j = Busy(s)' /\ k = Sharing(s) /\ j <= i
  <2>1. IsFiniteSet(Verifying(s)) /\ Busy(s) \in Nat /\ Sharing(s) \in Nat \ {0}
    BY <1>1, BusyFacts
  <2>2. /\ Cardinality(Verifying(s)') <= Cardinality(Verifying(s))
        /\ IsFiniteSet(Verifying(s)')
    BY <2>1, FS_Subset
  <2>3. Cardinality(Verifying(s)') \in Nat
    BY <2>2, FS_CardinalityType
  <2>4. QED BY <2>1, <2>2, <2>3 DEF Busy
<1>3. fails[s] \in Nat /\ until[s] \in Nat /\ clock \in Nat /\ since[s] \in Nat
  BY DEF Throttle
<1>4. Owed(fails[s], until[s], clock', since[s], j, k)
  BY <1>1, <1>2, <1>3, OwedEases
<1>5. QED BY <1>1, <1>2, <1>3, <1>4

LEMMA ThrottleEases ==
  ASSUME Throttle, clock' \in Nat, clock <= clock', since' = since,
         fails' \in [Sources -> Nat], until' \in [Sources -> Nat],
         \A s \in Sources : /\ Verifying(s)' \subseteq Verifying(s)
                            /\ fails'[s] = 0 \/ (fails'[s] = fails[s] /\ until'[s] = until[s])
  PROVE  Throttle'
<1>1. ASSUME NEW s \in Sources, fails'[s] > 0
      PROVE  /\ s \in Shared /\ since'[s] <= clock'
             /\ Owed(fails'[s], until'[s], clock', since'[s], Busy(s)', Sharing(s))
  <2>1. UNCHANGED <<fails[s], until[s], since[s]>>
    BY <1>1
  <2>2. QED BY <1>1, <2>1, SourceEases
<1>2. Cardinality(Recorded') <= MaxEntries
  <2>1. Recorded' \subseteq Recorded
    BY DEF Recorded
  <2>2. IsFiniteSet(Recorded)
    BY RecordedFinite
  <2>3. Cardinality(Recorded') <= Cardinality(Recorded) /\ IsFiniteSet(Recorded')
    BY <2>1, <2>2, FS_Subset
  <2>4. Cardinality(Recorded') \in Nat /\ Cardinality(Recorded) \in Nat /\ MaxEntries \in Nat
    BY <2>2, <2>3, FS_CardinalityType, AccessAssumption DEF AccessAssumption
  <2>5. QED BY <2>3, <2>4 DEF Throttle
<1>3. since' \in [Sources -> Nat]
  BY DEF Throttle
<1>4. QED BY <1>1, <1>2, <1>3 DEF Throttle, Sharing, Shared

LEMMA FailKeepsThrottle ==
  ASSUME Throttle, NEW s \in Sources, Fail(s), s \in Shared, clock' = clock,
         NEW j \in Nat \ {0}, j <= Sharing(s), Busy(s)' = j - 1,
         fails[s] > 0 => Owed(fails[s], until[s], clock, since[s], j, Sharing(s)),
         \A x \in Sources \ {s} : Verifying(x)' \subseteq Verifying(x)
  PROVE  Throttle'
<1>1. PICK f \in Nat, u \in Nat : f = (IF s \in Remaining THEN fails[s] ELSE 0)
                                    /\ u = (IF s \in Remaining THEN until[s] ELSE 0)
  BY DEF Throttle
<1>2. PICK g \in Nat : g = f + 1 /\ (g = 1 <=> f = 0)
  OBVIOUS
<1>3. PICK y \in Nat : y = IF g > FreeAttempts THEN clock + Backoff(g - FreeAttempts) ELSE u
  <2>1. g > FreeAttempts => g - FreeAttempts \in Nat \ {0}
    <3>1. FreeAttempts \in Nat
      BY AccessAssumption DEF AccessAssumption
    <3>2. QED BY <3>1
  <2>2. g > FreeAttempts => Backoff(g - FreeAttempts) \in Nat
    BY <2>1, BackoffGrows
  <2> HIDE DEF Backoff
  <2>3. QED BY <2>2 DEF Throttle
<1>4. /\ fails' = [x \in Sources |-> IF x = s THEN g
                                     ELSE IF x \in Remaining THEN fails[x] ELSE 0]
      /\ until' = [x \in Sources |-> IF x = s THEN y
                                     ELSE IF x \in Remaining THEN until[x] ELSE 0]
      /\ since' = [since EXCEPT ![s] = IF f = 0 THEN clock ELSE since[s]]
  <2> HIDE DEF Backoff
  <2>1. g = (IF s \in Remaining THEN fails[s] ELSE 0) + 1
    BY <1>1, <1>2
  <2>2. /\ fails' = [x \in Sources |-> IF x = s THEN g
                                       ELSE IF x \in Remaining THEN fails[x] ELSE 0]
        /\ until' = [x \in Sources |->
                      IF x = s THEN IF g > FreeAttempts
                                    THEN clock + Backoff(g - FreeAttempts)
                                    ELSE IF s \in Remaining THEN until[s] ELSE 0
                      ELSE IF x \in Remaining THEN until[x] ELSE 0]
        /\ since' = [since EXCEPT ![s] = IF g = 1 THEN clock ELSE @]
    BY <2>1, Zenon DEF Fail
  <2>3. y = IF g > FreeAttempts THEN clock + Backoff(g - FreeAttempts)
            ELSE IF s \in Remaining THEN until[s] ELSE 0
    <3>1. CASE g > FreeAttempts
      BY <1>3, <3>1, Zenon
    <3>2. CASE ~(g > FreeAttempts)
      BY <1>1, <1>3, <3>2, Zenon
    <3>3. QED BY <3>1, <3>2
  <2>4. QED BY <1>2, <2>2, <2>3
<1>5. /\ fails' \in [Sources -> Nat] /\ until' \in [Sources -> Nat]
      /\ since' \in [Sources -> Nat] /\ clock' \in Nat
  BY <1>4 DEF Throttle
<1>6. Cardinality(Recorded') <= MaxEntries
  <2>1. Recorded' \subseteq Remaining \cup {s}
    BY <1>4 DEF Recorded, Throttle
  <2>2. IsFiniteSet(Remaining) /\ Cardinality(Remaining) + 1 <= MaxEntries
    BY RecordedFinite
  <2>3. /\ IsFiniteSet(Remaining \cup {s})
        /\ Cardinality(Remaining \cup {s}) <= Cardinality(Remaining) + 1
    <3>1. /\ IsFiniteSet(Remaining \cup {s})
          /\ Cardinality(Remaining \cup {s}) =
               IF s \in Remaining THEN Cardinality(Remaining) ELSE Cardinality(Remaining) + 1
      BY <2>2, FS_AddElement
    <3>2. Cardinality(Remaining) \in Nat
      BY <2>2, FS_CardinalityType
    <3>3. QED BY <3>1, <3>2
  <2>4. /\ Cardinality(Recorded') <= Cardinality(Remaining \cup {s}) /\ IsFiniteSet(Recorded')
    BY <2>1, <2>3, FS_Subset
  <2>5. /\ Cardinality(Recorded') \in Nat /\ Cardinality(Remaining \cup {s}) \in Nat
        /\ Cardinality(Remaining) \in Nat /\ MaxEntries \in Nat
    BY <2>2, <2>3, <2>4, FS_CardinalityType, AccessAssumption DEF AccessAssumption
  <2>6. QED BY <2>2, <2>3, <2>4, <2>5
<1>7. ASSUME NEW x \in Sources, x # s, fails'[x] > 0
      PROVE  /\ x \in Shared /\ since'[x] <= clock'
             /\ Owed(fails'[x], until'[x], clock', since'[x], Busy(x)', Sharing(x))
  <2>1. UNCHANGED <<fails[x], until[x], since[x]>>
    BY <1>4, <1>7 DEF Throttle
  <2>2. clock <= clock'
    BY DEF Throttle
  <2>3. QED BY <1>5, <1>7, <2>1, <2>2, SourceEases
<1>8. /\ since'[s] <= clock'
      /\ Owed(fails'[s], until'[s], clock', since'[s], Busy(s)', Sharing(s))
  <2>1. PICK z \in Nat, t \in Nat, k \in Nat \ {0} : z = since[s] /\ t = clock /\ k = Sharing(s)
    BY BusyFacts DEF Throttle
  <2>2. PICK x \in Nat : x = IF f = 0 THEN t ELSE z
    OBVIOUS
  <2>3. fails'[s] = g /\ until'[s] = y /\ since'[s] = x
    BY <1>4, <2>1, <2>2 DEF Throttle
  <2>4. f > 0 => z <= t /\ Owed(f, u, t, z, j, k)
    BY <1>1, <2>1 DEF Throttle
  <2>5. x <= t
    BY <2>2, <2>4
  <2>6. y = IF g > FreeAttempts THEN t + Backoff(g - FreeAttempts) ELSE u
    BY <1>3, <2>1
  <2>7. Owed(g, y, t, x, j - 1, k)
    BY <1>2, <2>1, <2>2, <2>4, <2>6, OwedFails
  <2>8. QED BY <2>1, <2>3, <2>5, <2>7
<1>9. QED BY <1>5, <1>6, <1>7, <1>8 DEF Throttle, Sharing, Shared

LEMMA ThrottleInit == Init => Throttle
<1>. SUFFICES ASSUME Init PROVE Throttle
  OBVIOUS
<1>1. Recorded = {}
  BY DEF Init, Recorded
<1>2. Cardinality(Recorded) <= MaxEntries
  BY <1>1, FS_EmptySet, AccessAssumption DEF AccessAssumption
<1>3. QED BY <1>2 DEF Init, Throttle

(* A step that opens, changes or drops something else.                     *)
LEMMA ThrottleUntouched ==
  ASSUME Throttle, UNCHANGED <<fails, until, since, clock>>,
         \A v \in Visitors : pc'[v] = "verifying" => pc[v] = "verifying"
  PROVE  Throttle'
<1>1. \A s \in Sources : Verifying(s)' \subseteq Verifying(s)
  BY DEF Verifying
<1>2. clock' \in Nat /\ clock <= clock'
  BY DEF Throttle
<1>3. QED BY <1>1, <1>2, ThrottleEases DEF Throttle

(* A right password clears the record of its source.                       *)
LEMMA SucceedKeepsThrottle ==
  ASSUME Throttle, NEW s \in Sources, Succeed(s), clock' = clock,
         \A v \in Visitors : pc'[v] = "verifying" => pc[v] = "verifying"
  PROVE  Throttle'
<1>1. \A x \in Sources : Verifying(x)' \subseteq Verifying(x)
  BY DEF Verifying
<1>2. clock' \in Nat /\ clock <= clock'
  BY DEF Throttle
<1>3. /\ fails' \in [Sources -> Nat] /\ until' \in [Sources -> Nat] /\ since' = since
      /\ \A x \in Sources : fails'[x] = 0 \/ (fails'[x] = fails[x] /\ until'[x] = until[x])
  BY DEF Throttle, Succeed
<1>4. QED BY <1>1, <1>2, <1>3, ThrottleEases

LEMMA IdleIsNotVerifying ==
  ASSUME Handlers, NEW v \in Visitors, Finish(v)
  PROVE  \A w \in Visitors : pc'[w] = "verifying" => pc[w] = "verifying"
BY DEF Handlers, Finish

LEMMA SourceOfVisitor ==
  ASSUME NEW v \in Visitors
  PROVE  SourceOf[v] \in Sources /\ SourceOf[v] \in Shared
BY AccessAssumption DEF AccessAssumption, Shared

(* A request is let in while its source is not held.                       *)
LEMMA BeginKeepsThrottle ==
  ASSUME Handlers, Throttle, NEW v \in Visitors, NEW q \in Requests, Begin(v, q)
  PROVE  Throttle'
<1>1. PICK s \in Sources : s = SourceOf[v] /\ s \in Shared
  BY SourceOfVisitor
<1>2. pc[v] = "idle" /\ clock' = clock
  BY DEF Begin
<1>3. CASE UNCHANGED <<pc, fails, until, since>>
  BY <1>2, <1>3, ThrottleUntouched
<1>4. CASE ~UNCHANGED <<pc, fails, until, since>>
  <2>1. ~Barred(v, q)
    BY <1>4 DEF Begin
  <2>2. PICK i \in Nat, k \in Nat \ {0} : i = Busy(s) /\ k = Sharing(s) /\ i + 1 <= k
    <3>1. v \in Users(s) \ Verifying(s)
      BY <1>1, <1>2 DEF Users, Verifying
    <3>2. Busy(s) \in Nat /\ Sharing(s) \in Nat /\ Sharing(s) # 0 /\ Busy(s) + 1 <= Sharing(s)
      BY <1>1, <3>1, BusyFacts
    <3>3. QED BY <3>2
  <2>3. fails[s] \in Nat /\ until[s] \in Nat /\ clock \in Nat /\ since[s] \in Nat
    BY DEF Throttle
  <2>4. ASSUME Guarded(q), fails[s] > 0
        PROVE  Owed(fails[s], until[s], clock, since[s], i + 1, k)
    <3>1. until[s] <= clock
      BY <1>1, <2>1, <2>3, <2>4 DEF Barred, Held
    <3>2. Owed(fails[s], until[s], clock, since[s], i, k)
      BY <2>2, <2>4 DEF Throttle
    <3>3. QED BY <2>2, <2>3, <3>1, <3>2, OwedBegins
  <2>5. CASE q.do = "setup" /\ q.new \in Short
    <3>1. Fail(s) /\ pc' = pc /\ Guarded(q)
      BY <1>1, <2>1, <2>5 DEF Begin, Guarded
    <3>2. Busy(s)' = (i + 1) - 1 /\ \A x \in Sources \ {s} : Verifying(x)' \subseteq Verifying(x)
      <4>1. \A x \in Sources : Verifying(x)' = Verifying(x)
        BY <3>1 DEF Verifying
      <4>2. (i + 1) - 1 = i
        OBVIOUS
      <4>3. QED BY <2>2, <4>1, <4>2 DEF Busy
    <3>3. PICK j \in Nat \ {0} : j = i + 1
      OBVIOUS
    <3>4. j <= Sharing(s) /\ Busy(s)' = j - 1
      BY <2>2, <3>2, <3>3
    <3>5. fails[s] > 0 => Owed(fails[s], until[s], clock, since[s], j, Sharing(s))
      BY <2>2, <2>4, <3>1, <3>3
    <3>6. QED BY <1>1, <1>2, <3>1, <3>2, <3>4, <3>5, FailKeepsThrottle
  <2>6. CASE ~(q.do = "setup" /\ q.new \in Short)
    <3>1. /\ UNCHANGED <<fails, until, since>>
          /\ pc' = [pc EXCEPT ![v] = First(q)]
      BY <2>1, <2>6 DEF Begin, Goto
    <3>2. CASE First(q) # "verifying"
      <4>1. \A w \in Visitors : pc'[w] = "verifying" => pc[w] = "verifying"
        BY <3>1, <3>2 DEF Handlers
      <4>2. QED BY <1>2, <3>1, <4>1, ThrottleUntouched
    <3>3. CASE First(q) = "verifying"
      <4>1. Guarded(q)
        <5>1. q.do # "logout"
          BY DEF Begin
        <5>2. QED BY <3>3, <5>1, RequestFacts DEF First, Guarded
      <4>2. Verifying(s)' = Verifying(s) \cup {v} /\ v \notin Verifying(s)
        BY <1>1, <1>2, <3>1, <3>3 DEF Verifying, Handlers
      <4>3. Busy(s)' = i + 1
        <5>1. IsFiniteSet(Verifying(s))
          BY BusyFacts
        <5>2. Cardinality(Verifying(s) \cup {v}) = Cardinality(Verifying(s)) + 1
          BY <4>2, <5>1, FS_AddElement
        <5>3. QED BY <2>2, <4>2, <5>2 DEF Busy
      <4>4. ASSUME NEW x \in Sources, fails'[x] > 0
            PROVE  /\ x \in Shared /\ since'[x] <= clock'
                   /\ Owed(fails'[x], until'[x], clock', since'[x], Busy(x)', Sharing(x))
        <5>1. CASE x = s
          <6>1. x \in Shared /\ since[x] <= clock
            BY <3>1, <4>4 DEF Throttle
          <6>2. Owed(fails[x], until[x], clock, since[x], i + 1, Sharing(x))
            BY <2>2, <2>4, <3>1, <4>1, <4>4, <5>1
          <6>3. QED BY <1>2, <3>1, <4>3, <5>1, <6>1, <6>2
        <5>2. CASE x # s
          <6>1. Verifying(x)' \subseteq Verifying(x)
            BY <1>1, <3>1, <5>2 DEF Verifying, Handlers
          <6>2. clock' \in Nat /\ clock <= clock'
            BY <1>2, <2>3
          <6>3. UNCHANGED <<fails[x], until[x], since[x]>>
            BY <3>1
          <6>4. QED BY <4>4, <6>1, <6>2, <6>3, SourceEases
        <5>3. QED BY <5>1, <5>2
      <4>5. Recorded' = Recorded
        BY <3>1 DEF Recorded
      <4>6. /\ fails' \in [Sources -> Nat] /\ until' \in [Sources -> Nat]
            /\ since' \in [Sources -> Nat] /\ clock' \in Nat
            /\ Cardinality(Recorded') <= MaxEntries
        BY <1>2, <3>1, <4>5 DEF Throttle
      <4>7. QED BY <4>4, <4>6 DEF Throttle, Sharing, Shared
    <3>4. QED BY <3>2, <3>3
  <2>7. QED BY <2>5, <2>6
<1>5. QED BY <1>3, <1>4

LEMMA VerifyKeepsThrottle ==
  ASSUME Handlers, Throttle, NEW v \in Visitors, NEW ok \in BOOLEAN, Verify(v, ok)
  PROVE  Throttle'
<1>1. PICK s \in Sources : s = SourceOf[v] /\ s \in Shared
  BY SourceOfVisitor
<1>2. pc[v] = "verifying" /\ clock' = clock
  BY DEF Verify
<1>3. CASE UNCHANGED <<fails, until, since>>
  <2>1. \A w \in Visitors : pc'[w] = "verifying" => pc[w] = "verifying"
    BY IdleIsNotVerifying DEF Verify, Goto, Handlers
  <2>2. QED BY <1>2, <1>3, <2>1, ThrottleUntouched
<1>4. CASE ~UNCHANGED <<fails, until, since>>
  <2>1. Fail(s) /\ Finish(v)
    BY <1>1, <1>4 DEF Verify
  <2>2. /\ Verifying(s)' = Verifying(s) \ {v} /\ v \in Verifying(s)
        /\ \A x \in Sources \ {s} : Verifying(x)' \subseteq Verifying(x)
    BY <1>1, <1>2, <2>1 DEF Verifying, Finish, Handlers
  <2>3. PICK j \in Nat \ {0} : j = Busy(s) /\ j <= Sharing(s) /\ Busy(s)' = j - 1
    <3>1. IsFiniteSet(Verifying(s)) /\ Busy(s) \in Nat /\ Busy(s) <= Sharing(s)
      BY BusyFacts
    <3>2. /\ Cardinality(Verifying(s) \ {v}) = Cardinality(Verifying(s)) - 1
          /\ IsFiniteSet(Verifying(s) \ {v})
      BY <2>2, <3>1, FS_RemoveElement
    <3>3. Cardinality(Verifying(s) \ {v}) \in Nat
      BY <3>2, FS_CardinalityType
    <3>4. Busy(s) # 0
      BY <3>1, <3>2, <3>3 DEF Busy
    <3>5. QED BY <2>2, <3>1, <3>2, <3>4 DEF Busy
  <2>4. fails[s] > 0 => Owed(fails[s], until[s], clock, since[s], j, Sharing(s))
    BY <2>3 DEF Throttle
  <2>5. QED BY <1>1, <1>2, <2>1, <2>2, <2>3, <2>4, FailKeepsThrottle
<1>5. QED BY <1>3, <1>4

LEMMA ThrottlePreserved == Handlers /\ Throttle /\ [Next]_vars => Throttle'
<1>. SUFFICES ASSUME Handlers, Throttle, Next \/ UNCHANGED vars PROVE Throttle'
  OBVIOUS
<1>1. CASE UNCHANGED vars
  BY <1>1, ThrottleUntouched DEF vars, memory, locals, bounds, history
<1>2. ASSUME NEW v \in Visitors, NEW q \in Requests, Begin(v, q) PROVE Throttle'
  BY <1>2, BeginKeepsThrottle
<1>3. ASSUME NEW v \in Visitors, Logout(v) PROVE Throttle'
  BY <1>3, ThrottleUntouched DEF Logout, bounds, history
<1>4. ASSUME NEW v \in Visitors, Open(v) \/ End(v) PROVE Throttle'
  <2>1. Succeed(SourceOf[v]) /\ Finish(v) /\ clock' = clock
    BY <1>4 DEF Open, End, bounds
  <2>2. QED BY <2>1, SourceOfVisitor, IdleIsNotVerifying, SucceedKeepsThrottle
<1>5. ASSUME NEW v \in Visitors, NEW ok \in BOOLEAN, Verify(v, ok) PROVE Throttle'
  BY <1>5, VerifyKeepsThrottle
<1>6. ASSUME NEW v \in Visitors, NEW ok \in BOOLEAN,
             Claim(v, ok) \/ Write(v, ok) \/ ReadKey(v, ok) \/ StoreKey(v, ok) \/ DropKey(v, ok)
      PROVE  Throttle'
  <2>1. UNCHANGED <<fails, until, since, clock>>
    BY <1>6 DEF Claim, Write, ReadKey, StoreKey, DropKey, memory, bounds, history
  <2>2. CASE Finish(v)
    BY <2>1, <2>2, IdleIsNotVerifying, ThrottleUntouched
  <2>3. CASE ~Finish(v)
    <3>1. \E step \in {"opening", "ending", "storing", "dropping"} : Goto(v, step)
      BY <1>6, <2>3 DEF Claim, Write, ReadKey, StoreKey, DropKey
    <3>2. \A w \in Visitors : pc'[w] = "verifying" => pc[w] = "verifying"
      BY <3>1 DEF Goto, Handlers
    <3>3. QED BY <2>1, <3>2, ThrottleUntouched
  <2>4. QED BY <2>2, <2>3
<1>7. CASE ReloadKeys \/ Remove
  BY <1>7, ThrottleUntouched DEF ReloadKeys, Remove, memory, locals, history
<1>8. CASE Restart
  <2>1. /\ fails' = [s \in Sources |-> 0] /\ until' = [s \in Sources |-> 0]
        /\ pc' = [v \in Visitors |-> "idle"] /\ clock' = clock /\ since' = since
    BY <1>8 DEF Restart, history
  <2>2. clock' \in Nat /\ clock <= clock'
    BY <2>1 DEF Throttle
  <2>3. \A s \in Sources : Verifying(s)' \subseteq Verifying(s) /\ fails'[s] = 0
    BY <2>1 DEF Verifying
  <2>4. QED BY <2>1, <2>2, <2>3, ThrottleEases
<1>9. CASE Tick
  <2>1. UNCHANGED <<fails, until, since, pc>> /\ clock' = clock + 1
    BY <1>9 DEF Tick, memory, locals, history
  <2>2. clock' \in Nat /\ clock <= clock'
    BY <2>1 DEF Throttle
  <2>3. \A s \in Sources : Verifying(s)' \subseteq Verifying(s)
    BY <2>1 DEF Verifying
  <2>4. QED BY <2>1, <2>2, <2>3, ThrottleEases DEF Throttle
<1>10. QED
  BY <1>1, <1>2, <1>3, <1>4, <1>5, <1>6, <1>7, <1>8, <1>9 DEF Next, Serving

LEMMA ThrottleSuffices == Throttle => ThrottleHolds
<1>. SUFFICES ASSUME Throttle PROVE ThrottleHolds
  OBVIOUS
<1>1. ASSUME NEW s \in Sources, fails[s] - FreeAttempts > 0
      PROVE  clock - since[s] >= Waited[(fails[s] - FreeAttempts - 1) \div Sharing(s)]
  <2>1. fails[s] \in Nat /\ until[s] \in Nat /\ clock \in Nat /\ since[s] \in Nat /\ FreeAttempts \in Nat
    BY AccessAssumption DEF Throttle, AccessAssumption
  <2>2. fails[s] > 0 /\ fails[s] > FreeAttempts
    BY <1>1, <2>1
  <2>3. /\ s \in Shared
        /\ Owed(fails[s], until[s], clock, since[s], Busy(s), Sharing(s))
    BY <2>2 DEF Throttle
  <2>4. Busy(s) \in Nat /\ Sharing(s) \in Nat \ {0}
    BY <2>3, BusyFacts
  <2>5. Owed(fails[s], until[s], clock, since[s], 0, Sharing(s))
    <3>1. 0 \in Nat /\ 0 <= Busy(s) /\ clock <= clock
      BY <2>1, <2>4
    <3>2. QED BY <2>1, <2>3, <2>4, <3>1, OwedEases
  <2>6. clock - since[s] >= Waited[(fails[s] - FreeAttempts + 0 - 1) \div Sharing(s)]
    BY <2>2, <2>5 DEF Owed
  <2>7. fails[s] - FreeAttempts + 0 - 1 = fails[s] - FreeAttempts - 1
    BY <2>1
  <2>8. QED BY <2>6, <2>7
<1>2. QED BY <1>1 DEF Throttle, ThrottleHolds

(* ThrottleHolds: however the requests of a source overlap, its wrong      *)
(* passwords are paid for with waits, and the table stays within its       *)
(* limit.                                                                  *)
THEOREM ThrottleHoldsAlways == Spec => []ThrottleHolds
<1>. QED
  BY ThrottleSuffices, HandlersInit, HandlersPreserved, ThrottleInit, ThrottlePreserved,
     PTL DEF Spec

-----------------------------------------------------------------------------
(* The types.                                                              *)

(* Who is changing the password has a session to keep.                     *)
Signed(v) ==
  pc[v] \in {"writing", "ending"} \/ (pc[v] = "verifying" /\ req[v].do # "login") =>
    cookie[v] # 0

BoundsInv ==
  /\ fileKeys \in FileKeys
  /\ clock \in 0..Horizon /\ asked \in 0..MaxRequests /\ mishaps \in 0..MaxMishaps
  /\ excused \subseteq Ids /\ raced \subseteq KeyIds
  /\ \A v \in Visitors : Signed(v)

(* At the start nobody is doing anything.                                  *)
LEMMA BoundsInit == Init => BoundsInv
BY AccessAssumption DEF AccessAssumption, Init, BoundsInv, Signed

(* A step of one handler.                                                  *)
LEMMA BoundsKept ==
  ASSUME Handlers, BoundsInv, NEW v \in Visitors, fileKeys' = fileKeys, clock' = clock,
         asked' \in 0..MaxRequests, mishaps' \in 0..MaxMishaps,
         excused' \subseteq Ids, raced' \subseteq KeyIds, Signed(v)',
         \A w \in Visitors \ {v} : pc'[w] = pc[w] /\ req'[w] = req[w] /\ cookie'[w] = cookie[w]
  PROVE  BoundsInv'
BY DEF BoundsInv, Signed

(* A handler that is done, or goes elsewhere.                              *)
LEMMA FinishSigned ==
  ASSUME Handlers, NEW v \in Visitors, Finish(v)
  PROVE  /\ Signed(v)'
         /\ \A w \in Visitors \ {v} : pc'[w] = pc[w] /\ req'[w] = req[w]
BY DEF Handlers, Finish, Signed

(* Going elsewhere.                                                        *)
LEMMA GotoSigned ==
  ASSUME Handlers, NEW v \in Visitors, NEW step, Goto(v, step), req' = req, cookie' = cookie,
         step \notin {"verifying", "writing", "ending"} \/ cookie[v] # 0
  PROVE  /\ Signed(v)'
         /\ \A w \in Visitors \ {v} : pc'[w] = pc[w] /\ req'[w] = req[w]
BY DEF Handlers, Goto, Signed

(* Every step keeps it.                                                    *)
LEMMA BoundsPreserved == Handlers /\ BoundsInv /\ [Next]_vars => BoundsInv'
<1>. SUFFICES ASSUME Handlers, BoundsInv, Next \/ UNCHANGED vars PROVE BoundsInv'
  OBVIOUS
<1>1. /\ asked \in 0..MaxRequests /\ mishaps \in 0..MaxMishaps /\ excused \subseteq Ids
      /\ raced \subseteq KeyIds /\ \A v \in Visitors : Signed(v)
  BY DEF BoundsInv
<1>2. ASSUME NEW ok \in BOOLEAN, Access(ok) PROVE mishaps' \in 0..MaxMishaps
  BY <1>1, <1>2, AccessAssumption DEF Access, AccessAssumption
<1>3. ASSUME NEW v \in Visitors, NEW q \in Requests, Begin(v, q) PROVE BoundsInv'
  <2>1. asked' \in 0..MaxRequests
    BY <1>1, <1>3, AccessAssumption DEF Begin, AccessAssumption
  <2>2. UNCHANGED <<fileKeys, clock, mishaps, excused, raced, cookie>>
    BY <1>3 DEF Begin
  <2>3. CASE UNCHANGED <<pc, req>>
    BY <1>1, <2>1, <2>2, <2>3, BoundsKept DEF Signed
  <2>4. CASE ~UNCHANGED <<pc, req>>
    <3>1. ~Barred(v, q) /\ pc' = [pc EXCEPT ![v] = First(q)] /\ req' = [req EXCEPT ![v] = q]
          /\ q.do # "logout"
      BY <1>3, <2>4 DEF Begin, Goto
    <3>2. /\ First(q) \in {"verifying", "claiming", "storing", "reading"}
          /\ First(q) = "verifying" => q.do \in {"login", "change"}
      BY <3>1, RequestFacts DEF First
    <3>3. q.do = "change" => cookie[v] # 0
      BY <3>1 DEF Barred, NeedsSession
    <3>4. pc'[v] = First(q) /\ req'[v] = q
      BY <3>1 DEF Handlers
    <3>5. Signed(v)'
      BY <2>2, <3>2, <3>3, <3>4 DEF Signed
    <3>6. \A w \in Visitors \ {v} : pc'[w] = pc[w] /\ req'[w] = req[w]
      BY <3>1 DEF Handlers
    <3>7. QED BY <1>1, <2>1, <2>2, <3>5, <3>6, BoundsKept
  <2>5. QED BY <2>3, <2>4
<1>4. ASSUME NEW v \in Visitors, Logout(v) PROVE BoundsInv'
  <2>1. UNCHANGED <<fileKeys, clock, asked, mishaps, excused, raced, pc, req>>
        /\ cookie' = [cookie EXCEPT ![v] = 0] /\ pc[v] = "idle"
    BY <1>4 DEF Logout, bounds, history
  <2>2. Signed(v)' /\ \A w \in Visitors \ {v} : cookie'[w] = cookie[w]
    BY <2>1 DEF Signed, Handlers
  <2>3. QED BY <1>1, <2>1, <2>2, BoundsKept
<1>5. ASSUME NEW v \in Visitors, Open(v) PROVE BoundsInv'
  <2>1. /\ UNCHANGED <<fileKeys, clock, asked, mishaps, raced>> /\ Finish(v)
        /\ cookie' = [cookie EXCEPT ![v] = opened + 1]
    BY <1>5 DEF Open
  <2>2. opened + 1 \in Ids
    BY <1>5, AccessAssumption DEF Open, Handlers, Ids, AccessAssumption
  <2>3. excused' \subseteq Ids
    BY <1>1, <1>5, <2>2 DEF Open
  <2>4. \A w \in Visitors \ {v} : cookie'[w] = cookie[w]
    BY <2>1 DEF Handlers
  <2>5. QED BY <1>1, <2>1, <2>3, <2>4, FinishSigned, BoundsKept
<1>6. ASSUME NEW v \in Visitors, End(v) PROVE BoundsInv'
  <2>1. UNCHANGED <<fileKeys, clock, asked, mishaps, raced, cookie>> /\ Finish(v)
    BY <1>6 DEF End, bounds
  <2>2. cookie[v] \in Ids
    BY <1>1, <1>6 DEF End, Signed, Handlers
  <2>3. excused' \subseteq Ids
    BY <1>6, <2>2 DEF End
  <2>4. QED BY <1>1, <2>1, <2>3, FinishSigned, BoundsKept
<1>7. ASSUME NEW v \in Visitors, NEW ok \in BOOLEAN, Verify(v, ok) PROVE BoundsInv'
  <2>1. UNCHANGED <<fileKeys, clock, asked, excused, raced, cookie>> /\ Access(ok)
        /\ pc[v] = "verifying"
    BY <1>7 DEF Verify
  <2>2. CASE Finish(v)
    BY <1>1, <1>2, <2>1, <2>2, FinishSigned, BoundsKept
  <2>3. CASE ~Finish(v)
    <3>1. req' = req /\ Goto(v, IF req[v].do = "login" THEN "opening" ELSE "writing")
      BY <1>7, <2>3 DEF Verify
    <3>2. CASE req[v].do = "login"
      BY <1>1, <1>2, <2>1, <3>1, <3>2, GotoSigned, BoundsKept
    <3>3. CASE req[v].do # "login"
      <4>1. cookie[v] # 0
        BY <1>1, <2>1, <3>3 DEF Signed
      <4>2. QED BY <1>1, <1>2, <2>1, <3>1, <3>3, <4>1, GotoSigned, BoundsKept
    <3>4. QED BY <3>2, <3>3
  <2>4. QED BY <2>2, <2>3
<1>8. ASSUME NEW v \in Visitors, NEW ok \in BOOLEAN, Claim(v, ok) \/ ReadKey(v, ok)
      PROVE  BoundsInv'
  <2>1. UNCHANGED <<fileKeys, clock, asked, excused, raced, cookie>> /\ Access(ok)
    BY <1>8 DEF Claim, ReadKey, memory, history
  <2>2. CASE Finish(v)
    BY <1>1, <1>2, <2>1, <2>2, FinishSigned, BoundsKept
  <2>3. CASE ~Finish(v)
    <3>1. PICK step \in {"opening", "storing", "dropping"} : Goto(v, step)
      BY <1>8, <2>3 DEF Claim, ReadKey
    <3>2. req' = req
      BY <1>8, <2>3 DEF Claim, ReadKey
    <3>3. QED BY <1>1, <1>2, <2>1, <3>1, <3>2, GotoSigned, BoundsKept
  <2>4. QED BY <2>2, <2>3
<1>9. ASSUME NEW v \in Visitors, NEW ok \in BOOLEAN, Write(v, ok) PROVE BoundsInv'
  <2>1. UNCHANGED <<fileKeys, clock, asked, excused, raced, cookie>> /\ Access(ok)
        /\ pc[v] = "writing"
    BY <1>9 DEF Write, memory, history
  <2>2. CASE Finish(v)
    BY <1>1, <1>2, <2>1, <2>2, FinishSigned, BoundsKept
  <2>3. CASE ~Finish(v)
    <3>1. Goto(v, "ending") /\ req' = req
      BY <1>9, <2>3 DEF Write, Stay
    <3>2. cookie[v] # 0
      BY <1>1, <2>1 DEF Signed
    <3>3. QED BY <1>1, <1>2, <2>1, <3>1, <3>2, GotoSigned, BoundsKept
  <2>4. QED BY <2>2, <2>3
<1>10. ASSUME NEW v \in Visitors, NEW ok \in BOOLEAN, StoreKey(v, ok) \/ DropKey(v, ok)
       PROVE  BoundsInv'
  <2>1. UNCHANGED <<fileKeys, clock, asked, excused, cookie>> /\ Access(ok) /\ Finish(v)
    BY <1>10 DEF StoreKey, DropKey, memory
  <2>2. req[v].key \in KeyIds
    BY RequestFacts DEF Handlers
  <2>3. raced' \subseteq KeyIds
    BY <1>1, <1>10, <2>2 DEF StoreKey, DropKey
  <2>4. QED BY <1>1, <1>2, <2>1, <2>3, FinishSigned, BoundsKept
<1>11. CASE ReloadKeys \/ Restart \/ Remove
  <2>1. mishaps' \in 0..MaxMishaps
    BY <1>1, <1>11, AccessAssumption DEF ReloadKeys, Restart, Remove, AccessAssumption
  <2>2. fileKeys' \in FileKeys
    BY <1>11 DEF ReloadKeys, Restart, Remove, BoundsInv, memory
  <2>3. UNCHANGED <<clock, asked, raced, cookie>> /\ excused' \in {excused, Ids}
    BY <1>11 DEF ReloadKeys, Restart, Remove, memory, history, locals
  <2>4. UNCHANGED <<pc, req>> \/ pc' = [v \in Visitors |-> "idle"]
    BY <1>11 DEF ReloadKeys, Restart, Remove, locals
  <2>5. \A v \in Visitors : Signed(v)'
    BY <1>1, <2>3, <2>4 DEF Signed
  <2>6. QED BY <1>1, <2>1, <2>2, <2>3, <2>5 DEF BoundsInv
<1>12. CASE Tick
  <2>1. clock' \in 0..Horizon
    BY <1>12, AccessAssumption DEF Tick, BoundsInv, AccessAssumption
  <2>2. QED BY <1>12, <2>1 DEF Tick, memory, locals, history, BoundsInv, Signed
<1>13. CASE UNCHANGED vars
  BY <1>13 DEF vars, memory, locals, bounds, history, BoundsInv, Signed
<1>14. QED
  BY <1>3, <1>4, <1>5, <1>6, <1>7, <1>8, <1>9, <1>10, <1>11, <1>12, <1>13 DEF Next, Serving

(* TypeOK: in particular who changes the password has a session, so that   *)
(* endOthers has one to keep (requireSession, changePassword).             *)
THEOREM AccessTypes == Spec => []TypeOK
<1>1. Handlers /\ AccountInv /\ SessionInv /\ KeyInv /\ Throttle /\ BoundsInv => TypeOK
  BY DEF Handlers, AccountInv, SessionInv, KeyInv, Throttle, BoundsInv, TypeOK
<1>. QED
  BY <1>1, HandlersInit, HandlersPreserved, AccountInit, AccountPreserved, SessionInit,
     SessionPreserved, KeyInit, KeyPreserved, ThrottleInit, ThrottlePreserved, BoundsInit,
     BoundsPreserved, PTL DEF Spec
=============================================================================
