------------------------------- MODULE Notify -------------------------------
(***************************************************************************)
(* POST /api/v1/notify (internal/api/notify.go) over the router's set of   *)
(* channels (internal/router) and the idempotency records                  *)
(* (internal/store/sqlite/state.go).                                       *)
(*                                                                         *)
(* A call looks its key up, resolves its targets one after the other       *)
(* against a set that a reload may replace at any time, and either         *)
(* delivers them at once or has them queued, pinned to the channels they   *)
(* resolved to.  Then it stores its answer for repeated calls.  The calls  *)
(* run concurrently; each access to the store and each load of the set is  *)
(* a step.                                                                 *)
(***************************************************************************)
EXTENDS Integers, Sequences, FiniteSets

CONSTANTS
  Calls,       \* requests, each made once
  Keys,        \* idempotency keys
  Names,       \* names of channel instances
  Kinds,       \* types of channels
  UrlKind,     \* the type that answers to a URL scheme
  Capacity,    \* Capability.MaxRecipients, by type
  Addresses,   \* recipients
  Allowed,     \* those the caller's API key may address
  Requests,    \* what a request may say
  Sets,        \* the sets of channels that may be configured
  Retention,   \* IdempotencyRetention
  Horizon,     \* bound: end of time
  MaxMishaps,  \* bound: failed accesses of the store and crashes
  MaxReloads   \* bound: reloads of the set

(* A target is an alias, an alias qualified by a type, or a URL, which     *)
(* alone has recipients of its own and need not name an instance.          *)
Targets == [name : Names \cup {"none"}, kind : Kinds \cup {"none"},
            to : SUBSET Addresses]

IsUrl(t) == t.to # {}

ASSUME NotifyAssumption ==
  /\ Sets \subseteq [Names -> Kinds \cup {"none"}]
  /\ "none" \notin Names \cup Kinds \cup Keys \cup Calls
  /\ UrlKind \in Kinds
  /\ Capacity \in [Kinds -> Nat]
  /\ Allowed \subseteq Addresses /\ IsFiniteSet(Addresses)
  /\ Requests \subseteq [sync : BOOLEAN, to : SUBSET Addresses, targets : Seq(Targets)]
  /\ \A q \in Requests : \A i \in DOMAIN q.targets :
       LET t == q.targets[i] IN
       IF IsUrl(t) THEN t.kind = UrlKind ELSE t.name # "none"
  /\ Retention \in Nat /\ Horizon \in Nat \ {0}
  /\ MaxMishaps \in Nat /\ MaxReloads \in Nat

VARIABLES
  live,      \* instanceSet: the type of each instance, "none" for no instance
  key, req,  \* what the caller sends: the header and the body
  pc, found, picked, left, over,  \* ServeHTTP, handle and ResolveTarget
  answer,    \* what the caller was answered
  records,   \* the idempotency table
  todo,      \* the deliveries in the queue
  clock, mishaps, reloads,
  acted,     \* when a call was queued or first reached a channel, 0 for never
  stored,    \* when a call's answer was stored, 0 for never
  sends,     \* what channels were given
  doubt      \* the keys whose record was late, not read or not written

asked   == <<key, req>>
locals  == <<pc, found, picked, left, over>>
tables  == <<records, todo>>
history == <<acted, stored, sends, doubt>>
vars    == <<live, asked, locals, answer, tables, clock, mishaps, reloads, history>>

-----------------------------------------------------------------------------
Steps == {"new", "lookup", "resolving", "checking", "sending", "accepting",
          "recording", "done"}

Statuses == {"results", "accepted", "refused", "unavailable"}

(* How a target was resolved: to which instance, or why it was not.        *)
Resolved == [name : Names \cup {"none"}, why : {"ok", "unknown", "conflict", "policy"}]

Orders == [call : Calls, nr : Nat, ref : Targets, name : Names, to : SUBSET Addresses]

Answers == [of : Calls \cup {"none"}, status : Statuses]
Records == [of : Calls \cup {"none"}, status : Statuses, at : 0..Horizon]

NoAnswer == [of |-> "none", status |-> "refused"]
NoRecord == [of |-> "none", status |-> "refused", at |-> 0]

TypeOK ==
  /\ live \in Sets
  /\ key \in [Calls -> Keys \cup {"none"}] /\ req \in [Calls -> Requests]
  /\ pc \in [Calls -> Steps] /\ found \in [Calls -> Seq(Resolved)]
  /\ picked \in [Calls -> Names \cup {"none"}]
  /\ left \in [Calls -> SUBSET Nat] /\ over \in [Calls -> BOOLEAN]
  /\ answer \in [Calls -> Answers]
  /\ records \in [Keys -> Records] /\ todo \subseteq Orders
  /\ clock \in 1..Horizon /\ mishaps \in 0..MaxMishaps /\ reloads \in 0..MaxReloads
  /\ acted \in [Calls -> 0..Horizon] /\ stored \in [Calls -> 0..Horizon]
  /\ doubt \subseteq Keys

Init ==
  /\ live \in Sets
  /\ key \in [Calls -> Keys \cup {"none"}] /\ req \in [Calls -> Requests]
  /\ pc = [c \in Calls |-> "new"] /\ found = [c \in Calls |-> <<>>]
  /\ picked = [c \in Calls |-> "none"]
  /\ left = [c \in Calls |-> {}] /\ over = [c \in Calls |-> FALSE]
  /\ answer = [c \in Calls |-> NoAnswer]
  /\ records = [k \in Keys |-> NoRecord] /\ todo = {}
  /\ clock = 1 /\ mishaps = 0 /\ reloads = 0
  /\ acted = [c \in Calls |-> 0] /\ stored = [c \in Calls |-> 0]
  /\ sends = {} /\ doubt = {}

-----------------------------------------------------------------------------
Under(c) == pc[c] \notin {"new", "done"}

Goto(c, step) == pc' = [pc EXCEPT ![c] = step]

Answer(c, of, status) ==
  /\ answer' = [answer EXCEPT ![c] = [of |-> of, status |-> status]]
  /\ Goto(c, "done")

(* Whether the store answers.                                              *)
Access(ok) ==
  IF ok THEN UNCHANGED mishaps ELSE mishaps < MaxMishaps /\ mishaps' = mishaps + 1

(* A call whose key another call is using already.                         *)
Begin(c) ==
  /\ pc[c] = "new"
  /\ Goto(c, IF key[c] = "none" THEN "resolving" ELSE "lookup")
  /\ doubt' = IF key[c] # "none" /\ \E d \in Calls : Under(d) /\ key[d] = key[c]
              THEN doubt \cup {key[c]} ELSE doubt
  /\ UNCHANGED <<live, asked, found, picked, left, over, answer, tables, clock,
                 mishaps, reloads, acted, stored, sends>>

(* The caller hangs up, or HandlerTimeout passes: the context of the call  *)
(* is over, and with it every later access of the store.                   *)
Lose(c) ==
  /\ Under(c) /\ ~over[c]
  /\ over' = [over EXCEPT ![c] = TRUE]
  /\ UNCHANGED <<live, asked, pc, found, picked, left, answer, tables, clock,
                 mishaps, reloads, history>>

(* GetRecord; a record that cannot be read is as good as none.             *)
Lookup(c, ok) ==
  /\ pc[c] = "lookup"
  /\ Access(ok)
  /\ LET rec == records[key[c]]
         read == ok /\ ~over[c]
     IN /\ IF read /\ rec.of # "none"
           THEN Answer(c, rec.of, rec.status)
           ELSE Goto(c, "resolving") /\ UNCHANGED answer
        /\ doubt' = IF read THEN doubt ELSE doubt \cup {key[c]}
  /\ UNCHANGED <<live, asked, found, picked, left, over, tables, clock, reloads,
                 acted, stored, sends>>

-----------------------------------------------------------------------------
(* deliveryTargets.                                                        *)

Due(c) == Len(found[c]) + 1

Recipients(c, i) ==
  IF IsUrl(req[c].targets[i]) THEN req[c].targets[i].to ELSE req[c].to

(* resolveRef and resolveURL: the instances a target may mean.  One that   *)
(* is named means itself if it fits, a URL without a name means the only   *)
(* instance of its type.                                                   *)
Meant(t) ==
  {n \in Names : /\ live[n] # "none"
                 /\ t.name \in {"none", n}
                 /\ t.kind \in {"none", live[n]}}

(* checkRecipients.                                                        *)
Takes(k, to) == Cardinality(to) <= Capacity[k]

Note(c, n, why) ==
  /\ found' = [found EXCEPT ![c] = Append(@, [name |-> n, why |-> why])]
  /\ Goto(c, "resolving")

Resolve(c) ==
  /\ pc[c] = "resolving" /\ Due(c) \in DOMAIN req[c].targets
  /\ LET t == req[c].targets[Due(c)] IN
     \/ /\ \A n \in Names : Meant(t) # {n}
        /\ Note(c, "none", "unknown") /\ UNCHANGED picked
     \/ \E n \in Names :
          /\ Meant(t) = {n}
          /\ IF IsUrl(t) /\ req[c].to # {}
             THEN Note(c, "none", "conflict") /\ UNCHANGED picked
             ELSE /\ picked' = [picked EXCEPT ![c] = n]
                  /\ Goto(c, "checking") /\ UNCHANGED found
  /\ UNCHANGED <<live, asked, left, over, answer, tables, clock, mishaps, reloads,
                 history>>

(* ResolveTarget loads the set a second time, for the capability.          *)
Check(c) ==
  /\ pc[c] = "checking" /\ live[picked[c]] # "none"
  /\ IF Takes(live[picked[c]], Recipients(c, Due(c)))
     THEN Note(c, picked[c], "ok") ELSE Note(c, "none", "policy")
  /\ UNCHANGED <<live, asked, picked, left, over, answer, tables, clock, mishaps,
                 reloads, history>>

(* The instance is gone: a nil channel is asked for its capability, and    *)
(* net/http drops the connection.                                          *)
Panic(c) ==
  /\ pc[c] = "checking" /\ live[picked[c]] = "none"
  /\ Goto(c, "done")
  /\ UNCHANGED <<live, asked, found, picked, left, over, answer, tables, clock,
                 mishaps, reloads, history>>

(* Slip: only what the request itself names is held against the list.      *)
PermittedByRequest(c, i) == IsUrl(req[c].targets[i]) \/ req[c].to \subseteq Allowed

(* The allow list of the caller's key.                                     *)
Permitted(c, i) == Recipients(c, i) \subseteq Allowed

(* requestRefusal, and accept's refusal of any target it cannot queue.     *)
Refused(c) ==
  \/ req[c].targets = <<>>
  \/ \E i \in DOMAIN found[c] :
       \/ found[c][i].why = "conflict"
       \/ found[c][i].why = "ok" /\ ~Permitted(c, i)
       \/ found[c][i].why # "ok" /\ ~req[c].sync

Decide(c) ==
  /\ pc[c] = "resolving" /\ Due(c) \notin DOMAIN req[c].targets
  /\ \/ Refused(c) /\ Answer(c, c, "refused") /\ UNCHANGED left
     \/ /\ ~Refused(c) /\ req[c].sync
        /\ left' = [left EXCEPT ![c] = {i \in DOMAIN found[c] : found[c][i].why = "ok"}]
        /\ Goto(c, "sending") /\ UNCHANGED answer
     \/ /\ ~Refused(c) /\ ~req[c].sync
        /\ Goto(c, "accepting") /\ UNCHANGED <<left, answer>>
  /\ UNCHANGED <<live, asked, found, picked, over, tables, clock, mishaps, reloads,
                 history>>

-----------------------------------------------------------------------------
(* Router.Deliver, as far as it depends on the set.                        *)

Order(c, i) ==
  [call |-> c, nr |-> i, ref |-> req[c].targets[i], name |-> found[c][i].name,
   to |-> Recipients(c, i)]

(* Slip: what was checked on the way in is not checked again.              *)
FitsUnchecked(o) == live[o.name] # "none"

(* pinTarget and checkRecipients: the instance is there, of the type that  *)
(* a URL needs, and takes the recipients.                                  *)
Fits(o) ==
  /\ live[o.name] # "none"
  /\ IsUrl(o.ref) => live[o.name] = UrlKind
  /\ Takes(live[o.name], o.to)

(* The channel is called, or the delivery is held back or cannot be made.  *)
Sent(o) ==
  /\ Fits(o)
  /\ sends' = sends \cup {[ref |-> o.ref, to |-> o.to, name |-> o.name,
                           kind |-> live[o.name]]}

ActedNow(c) == acted' = [acted EXCEPT ![c] = IF @ = 0 THEN clock ELSE @]

(* DeliverAll: the targets are delivered side by side.                     *)
DeliverNow(c, i) ==
  /\ pc[c] = "sending" /\ i \in left[c]
  /\ left' = [left EXCEPT ![c] = @ \ {i}]
  /\ \/ ~over[c] /\ Sent(Order(c, i)) /\ ActedNow(c)
     \/ UNCHANGED <<sends, acted>>
  /\ UNCHANGED <<live, asked, pc, found, picked, over, answer, tables, clock,
                 mishaps, reloads, stored, doubt>>

Collect(c) ==
  /\ pc[c] = "sending" /\ left[c] = {}
  /\ Goto(c, "recording")
  /\ UNCHANGED <<live, asked, found, picked, left, over, answer, tables, clock,
                 mishaps, reloads, history>>

(* Slip: the caller is told that it worked.                                *)
TurnAwayGladly(c) == Answer(c, c, "accepted")

TurnAway(c) == Answer(c, c, "unavailable")

(* Worker.Enqueue: all of the deliveries or none.                          *)
Enqueue(c, ok) ==
  /\ pc[c] = "accepting"
  /\ Access(ok)
  /\ IF ok /\ ~over[c]
     THEN /\ todo' = todo \cup {Order(c, i) : i \in DOMAIN found[c]}
          /\ ActedNow(c) /\ Goto(c, "recording") /\ UNCHANGED answer
     ELSE TurnAway(c) /\ UNCHANGED <<todo, acted>>
  /\ UNCHANGED <<live, asked, found, picked, left, over, records, clock, reloads,
                 stored, sends, doubt>>

(* A worker delivers what was queued; see DeliveryQueue.                   *)
Work(o) ==
  /\ todo' = todo \ {o}
  /\ Sent(o) \/ UNCHANGED sends
  /\ UNCHANGED <<live, asked, locals, answer, records, clock, mishaps, reloads,
                 acted, stored, doubt>>

-----------------------------------------------------------------------------
(* PutRecord, and the answer.                                              *)

Status(c) == IF req[c].sync THEN "results" ELSE "accepted"

(* Slip: the last answer wins.                                             *)
PutLast(c) ==
  /\ records' = [records EXCEPT ![key[c]] = [of |-> c, status |-> Status(c), at |-> clock]]
  /\ stored' = [stored EXCEPT ![c] = clock]

(* A key that has a record keeps it.                                       *)
Put(c) ==
  IF records[key[c]].of = "none"
  THEN /\ records' = [records EXCEPT ![key[c]] =
                        [of |-> c, status |-> Status(c), at |-> clock]]
       /\ stored' = [stored EXCEPT ![c] = clock]
  ELSE UNCHANGED <<records, stored>>

Record(c, ok) ==
  /\ pc[c] = "recording"
  /\ Answer(c, c, Status(c))
  /\ IF key[c] = "none" THEN ok /\ UNCHANGED <<records, stored, mishaps, doubt>>
     ELSE /\ Access(ok)
          /\ IF ok /\ ~over[c] THEN Put(c) /\ UNCHANGED doubt
             ELSE doubt' = doubt \cup {key[c]} /\ UNCHANGED <<records, stored>>
  /\ UNCHANGED <<live, asked, found, picked, left, over, todo, clock, reloads,
                 acted, sends>>

(* Slip: a record goes as it reaches its age.                              *)
ExpiredEarly(k) == clock - records[k].at >= Retention

Expired(k) == clock - records[k].at > Retention

(* PruneRecords.                                                           *)
Prune ==
  /\ \E k \in Keys : records[k].of # "none" /\ Expired(k)
  /\ records' = [k \in Keys |-> IF Expired(k) THEN NoRecord ELSE records[k]]
  /\ UNCHANGED <<live, asked, locals, answer, todo, clock, mishaps, reloads, history>>

-----------------------------------------------------------------------------
(* The operator, the process, time.                                        *)

(* Router.Reload: the set is replaced in one step.                         *)
Reload ==
  /\ reloads < MaxReloads /\ reloads' = reloads + 1
  /\ live' \in Sets
  /\ UNCHANGED <<asked, locals, answer, tables, clock, mishaps, history>>

(* The process is killed: calls under way end without an answer.           *)
Crash ==
  /\ mishaps < MaxMishaps /\ mishaps' = mishaps + 1
  /\ pc' = [c \in Calls |-> IF Under(c) THEN "done" ELSE pc[c]]
  /\ doubt' = doubt \cup {key[c] : c \in {d \in Calls : Under(d) /\ key[d] # "none"}}
  /\ UNCHANGED <<live, asked, found, picked, left, over, answer, tables, clock,
                 reloads, acted, stored, sends>>

Tick ==
  /\ clock < Horizon /\ clock' = clock + 1
  /\ UNCHANGED <<live, asked, locals, answer, tables, mishaps, reloads, history>>

Serving(c) ==
  \/ Begin(c) \/ Lose(c) \/ Resolve(c) \/ Check(c) \/ Panic(c) \/ Decide(c)
  \/ \E i \in left[c] : DeliverNow(c, i)
  \/ Collect(c)
  \/ \E ok \in BOOLEAN : Lookup(c, ok) \/ Enqueue(c, ok) \/ Record(c, ok)

Next ==
  \/ \E c \in Calls : Serving(c)
  \/ \E o \in todo : Work(o)
  \/ Prune \/ Reload \/ Crash \/ Tick

Spec == Init /\ [][Next]_vars

-----------------------------------------------------------------------------
(* Properties.                                                             *)

Repeats(c, d) == c # d /\ key[c] = key[d] /\ key[c] # "none"

Apart(s, t) == s - t > Retention \/ t - s > Retention

(* Within the retention of its record a key takes effect once, as long as  *)
(* its record is never late, unread or unwritten.                          *)
OncePerKey ==
  \A c, d \in Calls :
    Repeats(c, d) /\ key[c] \notin doubt /\ acted[c] # 0 /\ acted[d] # 0 =>
      Apart(acted[c], acted[d])

(* Whatever happens, a record stands for its whole retention, so that all  *)
(* who are answered from it are given the same (PutRecord).                *)
RecordsStand ==
  \A c, d \in Calls :
    Repeats(c, d) /\ stored[c] # 0 /\ stored[d] # 0 => Apart(stored[c], stored[d])

(* An answer is true, also of the call it was first given to: accepted     *)
(* means queued, and a refusal means that nothing was done.                *)
AnswersAreTrue ==
  \A c \in Calls : LET a == answer[c] IN a.of # "none" =>
    /\ a.of = c \/ Repeats(c, a.of)
    /\ a.status = "accepted" => acted[a.of] # 0
    /\ a.status \in {"refused", "unavailable"} => acted[a.of] = 0

(* A channel is never given recipients it does not take or a URL that is   *)
(* not of its type, although the set changes between the acceptance of a   *)
(* delivery and its being made (pinTarget, Deliver).                       *)
NeverMisaddressed ==
  \A s \in sends : Takes(s.kind, s.to) /\ (IsUrl(s.ref) => s.kind = UrlKind)

(* Nobody is addressed whom the caller's key does not allow, whether the   *)
(* request names them or a URL does (deliveryTargets).                     *)
OnlyAllowed == \A s \in sends : s.to \subseteq Allowed

-----------------------------------------------------------------------------
(* What the repository says and the code does not do: this is violated.    *)

(* router.go:102, "a reload cannot be observed half-applied ... a delivery *)
(* that resolves to a nil channel".                                        *)
NeverNil == \A c \in Calls : pc[c] = "checking" => live[picked[c]] # "none"

=============================================================================
