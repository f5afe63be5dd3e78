------------------------------- MODULE Access -------------------------------
(***************************************************************************)
(* Who may use the service: the administrator's account and the sessions   *)
(* opened with it (internal/admin/session.go, auth_handlers.go, setup.go,  *)
(* password.go), the throttle on wrong passwords, and the API keys         *)
(* (internal/admin/keys.go, internal/api/auth.go).                         *)
(*                                                                         *)
(* Requests run concurrently.  A password is verified against a row read   *)
(* earlier, a session is opened after that, and a key is changed by        *)
(* reading its row and writing it back.  Sessions and throttle live in     *)
(* memory and end with the process; the rows do not.  User names are left  *)
(* out: the two accounts there may be can share theirs.                    *)
(***************************************************************************)
EXTENDS Integers, FiniteSets

CONSTANTS
  Visitors,      \* browsers, one request at a time each
  Sources,       \* addresses
  SourceOf,      \* clientKey, by visitor
  Passwords,
  Earlier,       \* passwords an account made earlier may have
  Short,         \* those that are too short to be chosen
  FilePassword,  \* admin.password_hash, "none" if not configured
  KeyIds,        \* API keys, by the digest of their token
  Lists,         \* values of a key's allow list
  Requests,      \* what may be asked for
  FileKeys,      \* the sets of keys auth.api_keys may name
  TTL,           \* session_ttl
  FreeAttempts, MaxBackoff, MaxEntries,  \* of the loginLimiter
  MaxSessions,   \* bound: sessions opened
  MaxRequests,   \* bound: requests
  MaxMishaps,    \* bound: failed accesses, restarts, reloads, rows removed
  Horizon        \* bound: end of time

ASSUME AccessAssumption ==
  /\ SourceOf \in [Visitors -> Sources] /\ IsFiniteSet(Visitors)
  /\ "none" \notin Passwords \cup Visitors /\ FilePassword \in Passwords \cup {"none"}
  /\ Earlier \subseteq Passwords /\ Short \subseteq Passwords
  /\ "same" \notin Lists /\ Lists # {} /\ Requests # {}
  /\ Requests \subseteq
       [do : {"login", "change", "setup", "logout", "make", "set", "drop"},
        pw : Passwords, new : Passwords, key : KeyIds,
        on : {"same", "on", "off"}, list : Lists \cup {"same"}]
  /\ \A q \in Requests : q.do = "make" => q.list # "same"
  /\ FileKeys \subseteq SUBSET KeyIds
  /\ TTL \in Nat \ {0} /\ FreeAttempts \in Nat /\ MaxBackoff \in Nat \ {0}
  /\ MaxEntries \in Nat \ {0}
  /\ MaxSessions \in Nat /\ MaxRequests \in Nat /\ MaxMishaps \in Nat
  /\ Horizon \in Nat

VARIABLES
  account,          \* admin_credentials: the password and who created it
  sessions,         \* entries of sessions: how they were opened, until when
  fails, until,     \* entries of loginLimiter; none where fails is 0
  keys,             \* api_keys
  fileKeys,         \* Live.keys
  pc, req, got, seen, cookie,  \* the handler of each visitor's request: what
                    \*   was verified, the key that was read
  clock, asked, opened, mishaps,
  claimed,          \* who was told to have created the account there is
  excused,          \* sessions a password change kept or could not see
  since,            \* when a source's failures began to be counted
  wanted, raced     \* keys as they were asked to be; those two changed at once

rows    == <<account, keys>>
memory  == <<sessions, fails, until, fileKeys>>
locals  == <<pc, req, got, seen, cookie>>
bounds  == <<clock, asked, opened, mishaps>>
history == <<claimed, excused, since, wanted, raced>>
vars    == <<rows, memory, locals, bounds, history>>

-----------------------------------------------------------------------------
Ids == 1..MaxSessions

NoAccount == [pw |-> "none", by |-> "none"]
Closed    == [pw |-> "none", expires |-> 0]
NoKey     == [there |-> FALSE, on |-> FALSE, list |-> "same"]

AnyRequest == CHOOSE q \in Requests : TRUE

AnyKey == [there |-> TRUE, on |-> TRUE, list |-> CHOOSE l \in Lists : TRUE]

KeyRows == [there : BOOLEAN, on : BOOLEAN, list : Lists \cup {"same"}]

TypeOK ==
  /\ account \in [pw : Passwords \cup {"none"}, by : Visitors \cup {"none", "before"}]
  /\ sessions \in [Ids -> [pw : Passwords \cup {"none", "file"}, expires : Nat]]
  /\ fails \in [Sources -> Nat] /\ until \in [Sources -> Nat]
  /\ keys \in [KeyIds -> KeyRows] /\ fileKeys \in FileKeys
  /\ pc \in [Visitors -> {"idle", "verifying", "opening", "writing", "ending",
                          "claiming", "reading", "storing", "dropping"}]
  /\ req \in [Visitors -> Requests] /\ got \in [Visitors -> Passwords \cup {"none", "file"}]
  /\ seen \in [Visitors -> KeyRows] /\ cookie \in [Visitors -> Ids \cup {0}]
  /\ clock \in 0..Horizon /\ asked \in 0..MaxRequests
  /\ opened \in 0..MaxSessions /\ mishaps \in 0..MaxMishaps
  /\ claimed \subseteq Visitors /\ excused \subseteq Ids
  /\ since \in [Sources -> Nat] /\ wanted \in [KeyIds -> KeyRows]
  /\ raced \subseteq KeyIds

Init ==
  /\ account \in {NoAccount} \cup {[pw |-> p, by |-> "before"] : p \in Earlier}
  /\ sessions = [i \in Ids |-> Closed]
  /\ fails = [s \in Sources |-> 0] /\ until = [s \in Sources |-> 0]
  /\ keys \in [KeyIds -> {NoKey} \cup {AnyKey}]
  /\ fileKeys \in FileKeys
  /\ pc = [v \in Visitors |-> "idle"] /\ req = [v \in Visitors |-> AnyRequest]
  /\ got = [v \in Visitors |-> "none"] /\ seen = [v \in Visitors |-> NoKey]
  /\ cookie = [v \in Visitors |-> 0]
  /\ clock = 0 /\ asked = 0 /\ opened = 0 /\ mishaps = 0
  /\ claimed = {} /\ excused = {}
  /\ since = [s \in Sources |-> 0] /\ wanted = keys /\ raced = {}

-----------------------------------------------------------------------------
(* Whether the store answers.                                              *)
Access(ok) ==
  IF ok THEN UNCHANGED mishaps ELSE mishaps < MaxMishaps /\ mishaps' = mishaps + 1

Goto(v, step) == pc' = [pc EXCEPT ![v] = step]

(* The handler is done: what it answers is its last access.                *)
Finish(v) ==
  /\ pc' = [pc EXCEPT ![v] = "idle"]
  /\ req' = [req EXCEPT ![v] = AnyRequest] /\ got' = [got EXCEPT ![v] = "none"]
  /\ seen' = [seen EXCEPT ![v] = NoKey]

Stay == UNCHANGED <<req, got, seen>>

Live(i) == clock < sessions[i].expires

-----------------------------------------------------------------------------
(* loginLimiter.                                                           *)

Least(a, b) == IF a < b THEN a ELSE b

(* One second, shifted.                                                    *)
Shifted[n \in Nat] == IF n = 0 THEN 1 ELSE 2 * Shifted[n - 1]

(* The wait the n-th failure beyond the free ones imposes.                 *)
Backoff(n) == Least(Shifted[Least(n - 1, 20)], MaxBackoff)

Held(s) == clock < until[s]

Recorded == {s \in Sources : fails[s] > 0}

(* evictLocked: records that mean nothing go first, then all of them.      *)
Remaining ==
  LET some == {s \in Recorded : Held(s) \/ fails[s] > FreeAttempts} IN
  IF Cardinality(Recorded) < MaxEntries THEN Recorded
  ELSE IF Cardinality(some) < MaxEntries THEN some ELSE {}

(* Slip: the wait begins with the failure after the one that earns it.     *)
FailLate(s) ==
  LET count == (IF s \in Remaining THEN fails[s] ELSE 0) + 1 IN
  /\ fails' = [x \in Sources |-> IF x = s THEN count
                                 ELSE IF x \in Remaining THEN fails[x] ELSE 0]
  /\ until' = [x \in Sources |->
                 IF x = s THEN IF count - 1 > FreeAttempts
                               THEN clock + Backoff(1)
                               ELSE IF s \in Remaining THEN until[s] ELSE 0
                 ELSE IF x \in Remaining THEN until[x] ELSE 0]
  /\ since' = [since EXCEPT ![s] = IF count = 1 THEN clock ELSE @]

Fail(s) ==
  LET count == (IF s \in Remaining THEN fails[s] ELSE 0) + 1 IN
  /\ fails' = [x \in Sources |-> IF x = s THEN count
                                 ELSE IF x \in Remaining THEN fails[x] ELSE 0]
  /\ until' = [x \in Sources |->
                 IF x = s THEN IF count > FreeAttempts
                               THEN clock + Backoff(count - FreeAttempts)
                               ELSE IF s \in Remaining THEN until[s] ELSE 0
                 ELSE IF x \in Remaining THEN until[x] ELSE 0]
  /\ since' = [since EXCEPT ![s] = IF count = 1 THEN clock ELSE @]

Succeed(s) ==
  /\ fails' = [fails EXCEPT ![s] = 0] /\ until' = [until EXCEPT ![s] = 0]
  /\ UNCHANGED since

-----------------------------------------------------------------------------
(* requireSession, and the throttle in front of what takes a password.     *)

NeedsSession(q) == q.do \in {"change", "make", "set", "drop"}
Guarded(q)      == q.do \in {"login", "change", "setup"}

Barred(v, q) ==
  \/ NeedsSession(q) /\ (cookie[v] = 0 \/ ~Live(cookie[v]))
  \/ Guarded(q) /\ Held(SourceOf[v])

First(q) ==
  CASE q.do \in {"login", "change"} -> "verifying"
    [] q.do = "setup"  -> "claiming"
    [] q.do = "make"   -> "storing"
    [] q.do \in {"set", "drop"} -> "reading"

Begin(v, q) ==
  /\ pc[v] = "idle" /\ q.do # "logout"
  /\ asked < MaxRequests /\ asked' = asked + 1
  /\ IF Barred(v, q) THEN UNCHANGED <<pc, req, fails, until, since>>
     ELSE IF q.do = "setup" /\ q.new \in Short
     THEN Fail(SourceOf[v]) /\ UNCHANGED <<pc, req>>
     ELSE /\ Goto(v, First(q)) /\ req' = [req EXCEPT ![v] = q]
          /\ UNCHANGED <<fails, until, since>>
  /\ UNCHANGED <<rows, sessions, fileKeys, got, seen, cookie, clock, opened, mishaps,
                 claimed, excused, wanted, raced>>

Logout(v) ==
  /\ pc[v] = "idle" /\ cookie[v] # 0
  /\ \E q \in Requests : q.do = "logout"
  /\ sessions' = [sessions EXCEPT ![cookie[v]] = Closed]
  /\ cookie' = [cookie EXCEPT ![v] = 0]
  /\ UNCHANGED <<rows, fails, until, fileKeys, pc, req, got, seen, bounds,
                 history>>

(* verifyConfigured: the account of the file, if it has one.               *)
VerifyConfigured(pw) == pw = FilePassword

(* verifyStored: a store that does not answer lets nobody in.              *)
VerifyStored(pw, ok) == ok /\ pw = account.pw

(* authenticate: the configured account first, then the stored one.        *)
Matched(v, ok) ==
  IF VerifyConfigured(req[v].pw) THEN "file"
  ELSE IF VerifyStored(req[v].pw, ok) THEN req[v].pw ELSE "none"

(* changePassword: a password that is too short, or that is in the file.   *)
Unchangeable(q, m) == q.do = "change" /\ (q.new \in Short \/ m = "file")

Verify(v, ok) ==
  /\ pc[v] = "verifying"
  /\ Access(ok)
  /\ LET m == Matched(v, ok) IN
     \/ /\ m = "none"
        /\ Fail(SourceOf[v]) /\ Finish(v)
     \/ /\ m # "none" /\ Unchangeable(req[v], m)
        /\ Finish(v) /\ UNCHANGED <<fails, until, since>>
     \/ /\ m # "none" /\ ~Unchangeable(req[v], m)
        /\ got' = [got EXCEPT ![v] = m]
        /\ Goto(v, IF req[v].do = "login" THEN "opening" ELSE "writing")
        /\ UNCHANGED <<req, seen, fails, until, since>>
  /\ UNCHANGED <<rows, sessions, fileKeys, cookie, clock, asked, opened, claimed,
                 excused, wanted, raced>>

(* sweepLocked.                                                            *)
Kept(i) == IF Live(i) THEN sessions[i] ELSE Closed

(* create and succeed.  A session whose password was changed after it was  *)
(* verified is one that endOthers may not have seen.                       *)
Open(v) ==
  /\ pc[v] = "opening"
  /\ opened < MaxSessions /\ opened' = opened + 1
  /\ sessions' = [i \in Ids |->
       IF i = opened + 1 THEN [pw |-> got[v], expires |-> clock + TTL]
       ELSE Kept(i)]
  /\ excused' = IF got[v] \in {"file", account.pw} THEN excused
                ELSE excused \cup {opened + 1}
  /\ cookie' = [cookie EXCEPT ![v] = opened + 1]
  /\ Succeed(SourceOf[v]) /\ Finish(v)
  /\ UNCHANGED <<rows, fileKeys, clock, asked, mishaps, claimed, wanted, raced>>

-----------------------------------------------------------------------------
(* createAdministrator.                                                    *)

(* Slip: the second to come replaces the first.                            *)
ClaimAgain(v, ok) ==
  /\ pc[v] = "claiming"
  /\ Access(ok)
  /\ IF ~ok THEN Finish(v) /\ UNCHANGED <<account, claimed>>
     ELSE /\ account' = [pw |-> req[v].new, by |-> v] /\ claimed' = claimed \cup {v}
          /\ got' = [got EXCEPT ![v] = req[v].new]
          /\ Goto(v, "opening") /\ UNCHANGED <<req, seen>>
  /\ UNCHANGED <<keys, memory, cookie, clock, asked, opened, excused, since, wanted,
                 raced>>

(* CreateAdminCredential: the row is inserted if there is none.            *)
Inserts == account = NoAccount

Claim(v, ok) ==
  /\ pc[v] = "claiming"
  /\ Access(ok)
  /\ IF ~ok \/ ~Inserts THEN Finish(v) /\ UNCHANGED <<account, claimed>>
     ELSE /\ account' = [pw |-> req[v].new, by |-> v] /\ claimed' = claimed \cup {v}
          /\ got' = [got EXCEPT ![v] = req[v].new]
          /\ Goto(v, "opening") /\ UNCHANGED <<req, seen>>
  /\ UNCHANGED <<keys, memory, cookie, clock, asked, opened, excused, since, wanted,
                 raced>>

-----------------------------------------------------------------------------
(* changePassword.                                                         *)

(* SetAdminPassword updates the row, and never creates one.                *)
SetAdminPassword(pw) == account # NoAccount /\ account' = [account EXCEPT !.pw = pw]

Write(v, ok) ==
  /\ pc[v] = "writing"
  /\ Access(ok)
  /\ IF ok /\ account # NoAccount
     THEN SetAdminPassword(req[v].new) /\ Goto(v, "ending") /\ Stay
     ELSE Finish(v) /\ UNCHANGED account
  /\ UNCHANGED <<keys, memory, cookie, clock, asked, opened, history>>

(* Slip: sessions opened with the old password stay.                       *)
EndNone(v) ==
  /\ pc[v] = "ending"
  /\ Succeed(SourceOf[v]) /\ Finish(v)
  /\ UNCHANGED <<rows, sessions, fileKeys, cookie, bounds, claimed, excused, wanted,
                 raced>>

(* succeed and endOthers: the session of the one who asked is kept.        *)
End(v) ==
  /\ pc[v] = "ending"
  /\ sessions' = [i \in Ids |-> IF i = cookie[v] THEN sessions[i] ELSE Closed]
  /\ excused' = {cookie[v]}
  /\ Succeed(SourceOf[v]) /\ Finish(v)
  /\ UNCHANGED <<rows, fileKeys, cookie, bounds, claimed, wanted, raced>>

-----------------------------------------------------------------------------
(* API keys.                                                               *)

ReadKey(v, ok) ==
  /\ pc[v] = "reading"
  /\ Access(ok)
  /\ IF ~ok \/ ~keys[req[v].key].there THEN Finish(v)
     ELSE /\ seen' = [seen EXCEPT ![v] = keys[req[v].key]]
          /\ Goto(v, IF req[v].do = "set" THEN "storing" ELSE "dropping")
          /\ UNCHANGED <<req, got>>
  /\ UNCHANGED <<rows, memory, cookie, clock, asked, opened, history>>

(* Slip: a key that is edited is switched on.                              *)
MadeOn(row, q) ==
  [there |-> TRUE, on |-> q.on # "off",
   list |-> IF q.list = "same" THEN row.list ELSE q.list]

(* What the request says of a key: a field it leaves out stays.            *)
Edited(row, q) ==
  [there |-> TRUE,
   on   |-> IF q.on = "same" THEN row.on ELSE q.on = "on",
   list |-> IF q.list = "same" THEN row.list ELSE q.list]

(* createKey and updateKey: the whole row is written, whatever became of   *)
(* the one that was read.                                                  *)
StoreKey(v, ok) ==
  /\ pc[v] = "storing"
  /\ Access(ok)
  /\ LET q == req[v]
         k == q.key
         base == IF q.do = "make" THEN [NoKey EXCEPT !.on = TRUE] ELSE seen[v]
     IN /\ q.do = "make" => ~wanted[k].there /\ ~keys[k].there
        /\ IF ~ok THEN UNCHANGED <<keys, wanted, raced>>
           ELSE /\ keys' = [keys EXCEPT ![k] = Edited(base, q)]
                /\ wanted' = [wanted EXCEPT ![k] =
                     IF q.do = "make" THEN Edited(base, q)
                     ELSE IF @.there
                     THEN [there |-> TRUE,
                           on   |-> IF q.on = "same" THEN @.on ELSE q.on = "on",
                           list |-> IF q.list = "same" THEN @.list ELSE q.list]
                     ELSE @]
                /\ raced' = IF q.do = "set" /\ keys[k] # seen[v]
                            THEN raced \cup {k} ELSE raced
        /\ Finish(v)
  /\ UNCHANGED <<account, memory, cookie, clock, asked, opened, claimed, excused,
                 since>>

DropKey(v, ok) ==
  /\ pc[v] = "dropping"
  /\ Access(ok)
  /\ LET k == req[v].key IN
     IF ok
     THEN /\ keys' = [keys EXCEPT ![k] = NoKey]
          /\ wanted' = [wanted EXCEPT ![k] = NoKey]
          /\ Finish(v)
     ELSE Finish(v) /\ UNCHANGED <<keys, wanted>>
  /\ UNCHANGED <<account, memory, cookie, clock, asked, opened, claimed, excused,
                 since, raced>>

(* lookupStoredKey, FindAPIKeyByHash.                                      *)
Stored(k) == keys[k].there /\ keys[k].on

(* BearerAuth: a key of the configuration, or one that is stored and on.   *)
Accepts(k) == k \in fileKeys \/ Stored(k)

-----------------------------------------------------------------------------
(* Live.SetKeys, the end of the process, the operator, time.               *)

ReloadKeys ==
  /\ mishaps < MaxMishaps /\ mishaps' = mishaps + 1
  /\ fileKeys' \in FileKeys
  /\ UNCHANGED <<rows, sessions, fails, until, locals, clock, asked, opened, history>>

Restart ==
  /\ mishaps < MaxMishaps /\ mishaps' = mishaps + 1
  /\ sessions' = [i \in Ids |-> Closed]
  /\ fails' = [s \in Sources |-> 0] /\ until' = [s \in Sources |-> 0]
  /\ fileKeys' \in FileKeys
  /\ pc' = [v \in Visitors |-> "idle"]
  /\ req' = [v \in Visitors |-> AnyRequest]
  /\ got' = [v \in Visitors |-> "none"] /\ seen' = [v \in Visitors |-> NoKey]
  /\ UNCHANGED <<rows, cookie, clock, asked, opened, history>>

(* The row of the account is removed with a SQLite client, which is how a  *)
(* lost password is dealt with.                                            *)
Remove ==
  /\ account # NoAccount
  /\ mishaps < MaxMishaps /\ mishaps' = mishaps + 1
  /\ account' = NoAccount /\ claimed' = {} /\ excused' = Ids
  /\ UNCHANGED <<keys, memory, locals, clock, asked, opened, since, wanted, raced>>

Tick ==
  /\ clock < Horizon /\ clock' = clock + 1
  /\ UNCHANGED <<rows, memory, locals, asked, opened, mishaps, history>>

Serving(v) ==
  \/ \E q \in Requests : Begin(v, q)
  \/ Logout(v) \/ Open(v) \/ End(v)
  \/ \E ok \in BOOLEAN : \/ Verify(v, ok) \/ Claim(v, ok) \/ Write(v, ok)
                        \/ ReadKey(v, ok) \/ StoreKey(v, ok) \/ DropKey(v, ok)

Next == (\E v \in Visitors : Serving(v)) \/ ReloadKeys \/ Restart \/ Remove \/ Tick

Spec == Init /\ [][Next]_vars

-----------------------------------------------------------------------------
(* Properties.                                                             *)

(* Of several first-run setups one is told that it made the account, and   *)
(* the account is its own (createAdministrator, CreateAdminCredential).    *)
OneCreator == claimed \subseteq {account.by}

(* A password change ends what was opened with the old password, except    *)
(* the session that asked for it and a sign-in that was already past its   *)
(* verification (changePassword, endOthers).                               *)
OldSessionsEnd ==
  (\A v \in Visitors : pc[v] # "ending") =>
    \A i \in Ids : Live(i) =>
      sessions[i].pw \in {"file", account.pw} \/ i \in excused

(* The time n waits take that follow on n failures.                        *)
Waited[n \in Nat] == IF n = 0 THEN 0 ELSE Waited[n - 1] + Backoff(n)

Sharing(s) == Cardinality({v \in Visitors : SourceOf[v] = s})

(* However the requests of a source overlap, between two of its waits at   *)
(* most one failure per request under way is free of charge, and the table *)
(* of failures stays within its limit (loginLimiter).                      *)
ThrottleHolds ==
  /\ Cardinality(Recorded) <= MaxEntries
  /\ \A s \in Sources :
       LET paid == fails[s] - FreeAttempts IN
       paid > 0 => clock - since[s] >= Waited[(paid - 1) \div Sharing(s)]

(* An API key is what administrators asked for, one after the other, and   *)
(* is accepted accordingly, unless one changed it between the other's read *)
(* and write (updateKey, deleteKey, BearerAuth).                           *)
KeysAreAsAsked ==
  \A k \in KeyIds \ raced :
    keys[k] = wanted[k] /\ (Accepts(k) <=> k \in fileKeys \/ wanted[k].on)

=============================================================================
