# NotifyRelay in TLA+

NotifyRelay takes notifications over HTTP and SMTP, keeps them in a durable
queue and delivers them through channels: chat webhooks, mail servers, HTTP
endpoints. This directory specifies the program in TLA+, checks the
specifications with TLC on small instances and proves what matters most with
TLAPS for every instance.

## The system

| Component | State it keeps | Operations | Correct when |
|---|---|---|---|
| Queue worker (`internal/queue/worker.go`) | what each worker goroutine holds: the rest of a claimed batch, the delivery it works on | enqueue; claim a batch and deliver it; record the outcome; sweep orphans; prune; stop | nothing accepted is lost; one delivery is in one pair of hands; the attempt budget and the schedule are kept; everything accepted ends |
| Retry policy (`internal/queue/policy.go`) | none | may it retry, when, why not | the budget and the age limit end every delivery |
| Queue tables (`internal/store/sqlite/queue.go`) | one row per delivery | enqueue, claim, complete, reschedule, dead-letter, release, recover, prune, replay | a claim is exclusive; a row says what happened |
| Spool (`internal/store/spool`) | one file per delivery: the body | put, get, delete, prune | the body outlives the need for it, and not for ever |
| Circuit breaker (`internal/breaker`) | state, failures, probes in memory; a row in the store | allow, record, abandon, reset, new settings | no probe slot leaks; the row follows the state; a recovered channel comes back |
| Quota (`internal/quota`, `sqlite/quota.go`) | times of reservations in memory, counters in the store | reserve, commit, release | no window is overspent; what the peer never saw costs nothing |
| Router (`internal/router/router.go`) | the live set of channels, replaced whole by a reload | resolve, deliver, reload | every admission and reservation is settled once; the class of a delivery says what happened |
| Format and overflow (`router/format.go`, `overflow.go`) | none | choose a format, prepare, split or truncate a body | the declared limit is kept, nothing is dropped |
| Rate limiter (`router/ratelimit.go`) | when the next call is due | wait, change the rate | calls are spaced; giving up gives nothing away |
| Channel drivers (`internal/channel/...`) | none | send, test | the class says what the peer decided |
| Token cache (`channel/token`) | the token of a channel | get, invalidate | one fetch per reason; a refused token is not used again |
| Channel parameters (`channel/params.go`, `validate.go`, `*/config.go`, `factory.go`) | none | validate, read, construct, fill and collect the form | schema and constructor agree; an edit keeps what it does not show |
| Notify API (`internal/api/notify.go`, `sqlite/state.go`) | idempotency records | accept a call, answer a repeated one | a repeated call is delivered once |
| SMTP inlet (`internal/smtpin`) | one session per connection | RCPT, DATA | an accepted mail is delivered, a returned one was refused |
| API keys (`internal/api/auth.go`, `internal/admin/keys.go`) | the live key table; stored keys | create, update, revoke, reload | a revoked key stays revoked |
| Administered channels (`internal/admin/channels.go`, `config/channels.go`, `config/keys.go`) | stored channels, the key they are sealed with; the router's set | save, delete, import, reload | what is stored is what is live, and can be started and opened |
| Admin accounts (`internal/admin/session.go`, `setup.go`, `password.go`) | sessions, failed logins, the credential | set up, log in, change password, log out | one set-up; a session ends with what it was opened on |
| Configuration and reload (`internal/config`, `cmd/notifyrelay/reload.go`) | what has been applied | load, validate, reload | what is accepted is in effect; a change is applied or reported |
| Process (`cmd/notifyrelay/main.go`) | how far a start or a stop has come | start, signal, drain, exit | the queue and the stored channels survive it |

Message templates and data, the rendering of markdown, the pages and
translations, audit, metrics and secrets keep no state that another part
decides on (see "What is not modelled").

How they interact: the API, the SMTP inlet and the admin's test page hand a
message to the **worker** (`Enqueue`: bodies to the spool, then rows to the
table) or straight to the **router**. Worker goroutines claim rows, read the
body and call `Router.Deliver`, which chooses a format, cuts the body, asks the
**breaker**, reserves from the **quota**, waits for the **rate limiter** and
calls the **channel**, which may need a **token** first; the class of the answer
goes back to the breaker and to the worker, which records it in the row. A
sweeper returns rows whose claim has expired; a pruner removes old rows and old
bodies; an operator replays dead letters, resets breakers and changes settings.
**Administrators** save channels and keys to the store and reload the router's
set and the key table from it; SIGHUP does the same after reading the
**configuration** again. The process may be stopped or killed at any point.

What is hard here: workers decide on a snapshot of a row another worker may
have been given since; a claim is a timeout that races the delivery it covers;
two stores (spool and table) are written one after the other; the breaker and
the quota are told of the end of a call that began under another state, in any
order, by callers they do not know; each of them goes on without the store when
it fails; the context that bounds a delivery also bounds the writes that
record it. Administrators read a row, think and write it back, then reload a
table that another one is changing; a credential verified against a row opens a
session after the row has changed; one token is shared, fetched and invalidated
by deliveries at different points of theirs; one mail has one answer for all
its recipients. `PROJECT.json` lists these hazards line by line.

## The modules

| Module | Models | Kind |
|---|---|---|
| `RetryPolicy` | `queue/policy.go` | operators |
| `DeliveryQueue` | worker, table, spool, replay, start and stop | state machine |
| `DeliveryPromise` | what a caller is promised of a delivery (`store.Status`) | abstract specification |
| `Breaker` | the circuit breaker of one channel and its row | state machine |
| `Quota` | the allowance of one channel and its counters | state machine |
| `RouterDeliver` | `Router.Deliver` over a breaker and a quota | composition |
| `Overflow` | `format.go`, `overflow.go`: format, budget, split, truncation | operators |
| `Notify` | `POST /api/v1/notify`, the router's set, the idempotency records | state machine |
| `RateLimit` | the bucket of one channel | state machine |
| `TokenCache` | the access token of one channel | state machine |
| `Classify` | what a driver makes of an answer or an error | operators |
| `ChannelSend` | `Send` and `Test` of the channels over limiter and token | composition |
| `MailInlet` | a session of the SMTP server, and the server that speaks to it | state machine |
| `ChannelConfig` | file, table, keys, router set; starts, administrators, SIGHUP | state machine |
| `Parameters` | schemas, validation, accessors, constructors, the channel form | operators |
| `ConfigFile` | defaults, environment, validation, what a reload does | operators |
| `Access` | the account, sessions, the throttle, API keys | state machine |
| `DeliveryQueueProofs`, `BreakerProofs`, `QuotaProofs`, `RouterDeliverProofs`, `NotifyProofs`, `ChannelConfigProofs`, `AccessProofs` | theorems about the module of that name | proofs |
| `EdgeProofs` | theorems about `ChannelSend` and `MailInlet`, the two ends of the relay | proofs |
| `ConfigChecks`, `OverflowChecks` | what `ConfigFile`, `Parameters` and `Overflow` promise, over all small inputs | checks |
| `MC...` | values of the constants for TLC | instances |

### DeliveryQueue

`row` is the deliveries table (only the columns decisions are made on),
`body` the spool (the time a body was written, 0 for none), `req` the call of
`Enqueue` under way, and `pc`, `hand`, `job`, `answer` what one worker
goroutine holds between two lines of `drain` and `process`: it is at the head
of its batch, calling a channel, or about to record an outcome. `checked` is
what `replayDelivery` has verified and not yet acted upon. `confirmed` and
`arrived` are not in the program: how often a channel accepted a delivery, and
when it last entered the queue.

A call of the store is one transaction and one action; a worker's step is what
it does between two of them. So `Claim`, `NextItem` and `Load`, `Answer` and
the write of the outcome (`Complete`, `Reschedule`, `DeadLetter`, `Release`, or
`WriteFails`) and the removal of the body (`Discard`) are separate, and
everything else may happen in between: the sweep (`Recover`), retention
(`PruneRows`, `PruneBodies`), a replay, the shutdown (`Stop`, `GiveBack`,
`Gone`), a `Crash` and the next `Restart`. The five result classes are kept
apart as far as the worker keeps them apart.

The answer of a channel is any member of `Answers`. Ids are given to requests
in advance, since a random identifier is only ever compared for equality. The
age of a delivery is measured on the clock; `Punctual` says that a delivery
takes at most `DeliverTimeout`, as the context around `Deliver` sees to.

### Breaker

`mem` is the `Breaker` struct, `saved` its row, `settings` the live thresholds.
Each operation holds the mutex from its first line to its last, so each is one
action, with `load` in it (`Loaded`) and the write in `transition` (`Persist`).
`ok` says whether the store answers this operation. `call` is not in the
program: what a delivery now in the channel was admitted as. That the program
does not know it is what the module is about.

### Quota

`entries` are the sliding windows (times of reservations, oldest first),
`count` the counter rows, `res` the `Reservation` of each delivery, with how
far `TryReserve` has come. The short windows are checked and recorded under one
lock (`TakeShort`, `RefuseShort`); each access to a counter is a transaction
(`Ask`, `ReturnLong`), and giving the short windows back is a step of its own
(`GiveUp`, `Release`). `reached` and `spent` are not in the program: the calls
that did reach the peer, by the time and by the period of their reservation. A
fixed period is a division of the clock; limits do not change during a
behaviour.

### RouterDeliver

`Router.Deliver` calls both of them, so this module has an instance of each
over a common clock and store, and adds `run`, the local variables of one call
of `Deliver`: how far it has come, the class and the reason so far, how many
parts it has. After the call `run` is what it returned. An action of the
composition is one operation of a component together with what `Deliver` does
until the next one: `Start` is the admission and the rendering, `Reserve` and
`OutOfQuota` are the steps of `TryReserve`, `Call` is `ch.Send`, its class and
the settlement, `Finish` is the deferred report. How long the rate limiter
holds a delivery back is left open: any held delivery may be let through or may
run out of time (`GiveUpWaiting`); `RateLimit` says which. `calls`, `accepted`,
`heard` and `faulted` are histories. New breaker settings and the reading of a
breaker's state belong to `Breaker` alone and are left out here.

### Overflow

A text is a sequence of characters of three kinds: one that takes a byte, one
that takes more, a line break. On these, `Format` is `chooseFormat`, `Prepare`
the preparation of a body, `Split` the cutting at line breaks with its fall-back
to the last character that fits (`splitBody`), `Truncated` the other mode, and
`Parts` what `renderParts` makes of a message with its title, links and part
markers. How markdown becomes text or a dialect is data.

### Notify

`live` is the router's `instanceSet` as far as references are resolved against
it: which names there are, of which type. A call's `key` and `req` are what the
caller sends; `pc`, `found`, `picked`, `left` and `over` are the local variables
of `ServeHTTP`, `handle` and `ResolveTarget`, `over` being whether its context
has ended. Every access to the table and every load of the set is a step
(`Lookup`, `Resolve`, `Check`, `DeliverNow`, `Enqueue`, `Record`), so a `Reload`,
another call, the caller hanging up (`Lose`), the pruner (`Prune`), a worker
(`Work`) or a `Crash` may come in between. A target is a name, a type and
recipients: only a URL has recipients and only a URL may leave out the name, so
the three forms of `resolveRef` are one rule (`Meant`). What a worker does with
a queued delivery, beyond the set it is delivered against, is in
`DeliveryQueue`; what a channel answers is in `RouterDeliver`. `acted`, `stored`,
`sends` and `doubt` are histories. `doubt` holds the keys for which the code
cannot promise anything: two calls at once, a record that could not be read or
written.

### RateLimit, TokenCache, Classify and ChannelSend

`RateLimit` is the `limiter` struct: the time the next call is `due`, claimed
under its lock (`Claim`), waited for without it (`Go`), and given up without
being given back (`GiveUp`). A bucket is shared by callers with different rates,
as the instances of a reload are (`Retune`).

`TokenCache` is `Cache`: `Get` with its mutex held over the fetch (`Hit`,
`Miss`, `Issue`, `Fail`, `Store`), and `Invalidate`. Tokens are numbered in the
order the platform issues them; the platform may retire one before its time
(`Retire`), and one may be too short-lived to be cached (`Grow` and the age it
is stored with).

`Classify` says which class each driver returns for a status, an error code of
the platform's body, a failed dial, request or answer, and a step of a mail
transaction; `ChannelSend` is a call of `Send` over an instance of the first two
and these operators: waiting, posting, the second attempt of `sendApp` with
another token, one mail transaction per recipient and `FromRecipients` over
their outcomes; and `Test`, which shares the token. `seen` is a history of what
the peer made of the message.

### MailInlet

`talk` is the `session`: its recipients so far, the one to be delivered to next,
and the two counts `Data` keeps; `instances` the router's set, which may be
replaced between any two of its steps. `ParseRecipient` is on sequences of what
the dots of a local part separate. The sending server is external: `fate` is
what it makes of the answers, and it comes back with a mail it has not been
answered for or was told to keep, as RFC 5321 has it.

### ChannelConfig, Parameters and ConfigFile

`ChannelConfig` has the state that outlives the process (`table`, `sealed`: with
which key a row's credentials are sealed, `marker`, `keyfile`, `file`), that of
the process (`phase` of `run`, `key`, `left` to import, `settings`, the `live`
set) and the local variables of `saveChannel`, `deleteChannel` and `reload`,
where every access to the store is a step and the caller may hang up or the
access fail at each. Starting is `Start`, `ResolveKey`, `NameKey`, `ImportOne`
for each channel of the file, `Mark`, `Serve`; saving `Read`, `Merge`, `Put`,
`Record`; then, as on SIGHUP (`Signal`), `Load` and `Install`. A channel is its
type, whether it is on, its credential and all its other parameters taken
together. `ver`, `liveVer`, `snapVer`, `last` and the flags `missed`,
`overtaken`, `touched` are histories.

What a parameter set is, which ones `validateChannel` and a constructor take
(`Runs` in `ChannelConfig`), and what the form shows, keeps and sends
(`Merged`), is in `Parameters`, type by type, with the schemas as the drivers
declare them. `ConfigFile` is the rest of the file: `Default`, the environment,
`validate`, what queue, retry and breaker make of their sections, what `apply`
puts in force, and what `restartOnly` reports.

### Access

`account` is the row of the administrator, `sessions` and `fails`, `until` the
maps in memory, `keys` the rows and `fileKeys` the table `SetKeys` replaces. A
request is verified (`Check`: the throttle and the row are read), and acts
afterwards: opens a session, writes the row, ends the other sessions (`End`);
a key is read (`Fetch`) and stored (`Keep`). Requests run at the same time,
rows may be removed by hand (`LoseAccount`), and a restart forgets what is in
memory. User names are left out: two accounts can share theirs. `claimed`,
`excused`, `since`, `wanted` and `raced` are histories.

## What the runs check

Passing runs:

- **queue_sized** - two workers, two deliveries of one call, two replays, one
  mishap (a crash, a failed write, a failed read), all five classes folded into
  four answers, and `ClaimTimeout = Batch * DeliverTimeout`. Until its outcome
  is recorded what a worker knows of a delivery is what the row says
  (`SnapshotFresh`) and nobody else holds it (`ClaimIsExclusive`); the budget
  and the schedule are kept (`BudgetKept`, `ScheduleBounded`); without a mishap
  a channel accepts a delivery at most once, also when two operators replay it
  (`SentOnce`); nothing is lost and nothing is sent for a refused call
  (`NothingLost`, `RefusedIsNeverSent`); the detailed queue implements
  `DeliveryPromise` (`KeepsPromise`).
- **queue_live** - under `FairSpec` every queued delivery is eventually sent
  or dead-lettered (`EventuallySettled`) and the body of a refused call goes
  away (`OrphanBodiesCollected`).
- **breaker** - three deliveries, two policies the operator switches between,
  resets, one crash or failing access. No slot leaks (`SlotsAreHeld`), the row
  follows the state (`WrittenThrough`), and once the outage is over the breaker
  closes by itself (`Recovers`).
- **quota** - three deliveries, two sliding and two fixed windows, each the
  tightest at some time, six time units (three days, two months), one crash or
  failing access. No sliding window is overspent while reservations are settled
  within it (`ShortKept`), no period is, whatever the speed (`LongKept`), and
  the counter asked last is exact (`LastExact`).
- **deliver** - two deliveries of up to two parts to one channel, one sliding
  and one fixed window, one crash or failing access, resets by the operator.
  However a delivery ends it holds nothing (`OverHoldsNothing`);
  `NOT_ATTEMPTED` has a reason and an untouched channel (`SkippedIsUntouched`);
  `SENT` is earned (`SentIsEarned`); a breaker opens only for the channel's own
  failures (`OnlyFaultsOpen`); and what was charged is what the peer has seen
  (`ChargedIsHeard`). The run also evaluates `OverflowChecks`, below.
- **notify** - two calls, with the same key or without one, four requests (a
  URL without a name and a qualified alias; recipients in the request; a
  recipient who is not allowed; recipients named twice), two sets of channels in
  which the same name changes type and another appears, one reload, one crash or
  failing access, callers that hang up, and a clock that passes the retention.
  A key takes effect once in its retention unless its record was late, unread
  or unwritten (`OncePerKey`); a record stands for its retention whatever
  happens (`RecordsStand`); answers are true, replayed or not
  (`AnswersAreTrue`); a delivery accepted against one set and made against
  another never gives a channel what it does not take (`NeverMisaddressed`),
  and nobody outside the allow list is addressed (`OnlyAllowed`).
- **sending** - two deliveries and a test share a channel of each kind, its rate
  limit and its token. Calls are apart by the rate, whoever gives up
  (`Spaced`); the platform is asked for a token once per reason
  (`FetchedForACause`); a message is not posted again with the token that was
  refused, nor with an older one (`RefusedOnce`); `SENT` and `PERMANENT` say
  what the peer decided (`VerdictIsThePeers`).
- **mail** - mails to two channels (one has a dot in its name), to unknown and
  malformed recipients, without a body, from an address that is not allowed;
  handed over twice, with a reload and a broken connection or crash. What the
  sending server may forget has been delivered to every recipient that was not
  returned (`AcceptedIsDelivered`), and only what was refused is returned
  (`ReturnedIsRefused`).
- **config** - two administrators with a request each (create, edit with the
  credential kept or dropped, change the type, disable, delete), two edits (of
  the file, by hand in the table) or signals, one mishap, two channels, a
  configured key and two that starts may generate. What is stored is what
  delivers (`QuietIsLive`), can be started on (`RestartWorks`), can be opened
  (`SealsAreKept`) and is what the file, once, and then the administrators said
  (`FileSeedsOnce`). The run also evaluates `ConfigChecks`, below.
- **access** - three browsers, two behind one address, four requests, two
  sessions, one mishap. Of several first-run setups one made the account
  (`OneCreator`); sessions end with the password they were opened with
  (`OldSessionsEnd`); guesses of one address are spaced (`ThrottleHolds`); keys
  are what was asked for (`KeysAreAsAsked`).

Pure algorithms are checked as named assumptions that TLC evaluates before the
run of the module that extends them:

- `OverflowChecks`, over all texts of up to five characters and budgets around
  their sizes: a split goes through the text once and loses only the line breaks
  it cuts at, with pieces more than half as long as would fit
  (`SplitsLoseNothing`); a truncation is the longest beginning that fits
  (`TruncationsAreMaximal`); every part, with title, links and markup, keeps the
  declared limit but for a single character that is too wide
  (`PartsKeepTheLimit`); what is refused is too long, counting the room of a
  part marker (`OnlyTheLongAreRefused`); a channel is handed a format it renders
  or text (`FormatsAreRendered`).
- `ConfigChecks`: a listen address is all a file needs (`AnAddressIsEnough`); a
  variable set to nothing is a value (`VariablesAreValues`); no component
  replaces an accepted setting by its own default (`AcceptedIsInEffect`); a
  breaker has positive thresholds whatever is configured
  (`ThresholdsArePositive`); what is accepted satisfies what `DeliveryQueue`
  assumes (`ClaimsOutlastDeliveries`); a changed setting is applied or reported,
  except the eight listed in `Unnoticed` (`ChangesAreNoticed`); the schemas of
  all types are well-formed (`SchemasAreSound`); over all small configurations
  of six types, schema and constructor agree but for spelling and parameters of
  another mode (`ConstructorsKeepTheSchema`), the form asks for the credentials
  the constructor demands (`FormsAskForCredentials`), and a form saved untouched
  changes nothing but two parameters (`UntouchedFormsChangeNothing`).

Runs that end in a counterexample. Each states what a comment or the
documentation says, and shows that the code does otherwise (`findings` in
`PROJECT.json` quotes the lines):

- **deliver_parts** - a message whose second part is held back is reported as
  sent: the class of the part that was not attempted never outranks the one
  that was.
- **notify_nil** - `ResolveTarget` loads the set twice, and a reload in between
  leaves it with a nil channel.

### Bounds

Time is a clock up to `Horizon`; `LastEvent` is the last time at which a fault
or an operator strikes; `MaxMishaps`, `MaxReplays`, `MaxReloads`, `MaxEdits`,
`MaxRequests`, `MaxSessions`, `MaxSends`, `MaxRetired` and `MaxTries` bound what
their names say. Every bound is a guard of the action it bounds and is named in
the module. Deliveries, workers, administrators and browsers at one address are
interchangeable, and the safety runs use this symmetry; the liveness runs do
not.

Why they are enough. One mishap: each hazard listed is a single failure between
two steps of something else. In **queue_sized** there are two of everything that
can interfere, a batch one worker can take whole, a ladder of two steps with
`MaxAttempts = 2`, and time for a delivery to be retried, to age out, to be swept
and to be replayed twice. In **queue_live** the clock goes on for longer than
`MaxAge`, the longest delay and `ClaimTimeout` together need after faults have
ended, so that nothing is counted as settled, or as stuck, because time ran out.
Three deliveries in **breaker** are one probe, one stale report and one that is
refused. Two parts in **deliver** are what it takes for one part to go through
and the next to be held back; two deliveries, for one to be the probe or hold
the allowance the other wants. In **sending** two deliveries and a test are
enough for a token to be invalidated between another's refusal and its second
attempt, and two addresses for one to be accepted and one not. Two administrators
and a signal in **config** are two writers and a third who reads the table
between their writes. In **access** two browsers at one address share a throttle
whose entry the third may evict, and a table of two failures is full with one of
them. Where the theorems below reach, the bounds do not matter.

### Fairness

`DeliveryQueue!Fairness` is weak fairness of time, of each worker, of the
sweep, of retention and of the restart: goroutines of a Go program are
scheduled, tickers fire, a supervisor restarts the process. Nothing is assumed
of the channel (any answer, for ever), of the store (a write may fail while
mishaps are left), of callers or of operators. `Breaker!Fairness` assumes time,
that deliveries keep coming and, after the outage, that each one in the channel
ends well; without deliveries a breaker stays half-open, as the code has it.
The other modules state no liveness: their requests wait for a browser, a peer
or a mail server of which nothing can be assumed. Their runs may stop when the
bounds are used up, and say so (`CHECK_DEADLOCK FALSE`).

## What is proved

All theorems are for any values of the constants that satisfy the assumption
named in the module (`QueueAssumption`, `BreakerAssumption`, `QuotaAssumption`,
`DeliverAssumption`, `NotifyAssumption`, `SendAssumption`, `ConfigAssumption`,
`AccessAssumption`, `MailAssumption`), which TLC evaluates on every run. Bounds
are constants too: a theorem holds for any number of crashes, failed accesses
and requests.

`DeliveryQueueProofs` proves, for any number of deliveries and workers and any
timing (`Punctual` or not): `TypeCorrect` (`TypeOK`), `NothingIsLost`
(`NothingLost`), `SentIsConfirmed` (`SentMeansConfirmed`), `RefusedStaysUnsent`
(`RefusedIsNeverSent`), `InFlightCanExpire` (`InFlightIsClaimed`). None of these
is inductive alone. The invariant is `QueueInv == TypeInv /\ RowInv /\ HandInv`:
what the rows of accepted, refused and half-written calls look like, and what a
worker may hold: a snapshot is of a row that existed, and a worker about to
record a success has been told of it by the channel. The second is what
`SentMeansConfirmed` needs, the first what `NothingLost` needs when a body is
removed long after the outcome was decided. There is one lemma per action and
one case per conjunct it can disturb.

Under `Timely`, which is `Punctual` together with
`Batch * DeliverTimeout <= ClaimTimeout`, it proves the rest as well:
`SnapshotsAreFresh` (`SnapshotFresh`), `ClaimsAreExclusive`
(`ClaimIsExclusive`), `BudgetIsKept` (`BudgetKept`), `SentAtMostOnce`
(`SentOnce`), `ScheduleIsBounded` (`ScheduleBounded`) and `QueueKeepsPromise`,
the refinement of `DeliveryPromise`, step by step. `Timely` is the hypothesis of
these theorems and not of the module, since the configuration does not enforce
it (see below), and `queue_sized` checks the same properties on an instance that
satisfies it. The argument is a bound on how old a claim may be: with k
deliveries of the batch left, the claim is at most `Used(k)` old, that is
`(Batch - k) * DeliverTimeout`, so the sweep never finds the claim of a row that
is still in a worker's hands expired. `ClaimInv` carries that bound, what the
row says of each snapshot (`Matches`) and that two batches share nothing; each
action moves at most one worker, and the others keep theirs (`OneMoves`,
`SteadyFits`). Everything else follows from the worker's knowing the row:
`BudgetInv` (whoever fails has spent one attempt, and one was left), `OnceInv`
(what was accepted is sent, gone, or about to be recorded by the one worker that
has it) and `ScheduleInv`.

`BreakerProofs` proves, for any number of deliveries and any set of policies:
`TypeCorrect`, `NoSlotLeaks` (`SlotsAreHeld`), `StateIsWritten`
(`WrittenThrough`). The invariant adds that a breaker that has read nothing is
closed, without which the first operation after a start could hold slots of the
last run. The argument for slots: a report takes at most itself out of the
probes in flight, and gives back at most one slot; a change of state empties
both sides.

`QuotaProofs` proves, for any number of deliveries, any windows and any limits:
`NeverOverspent` (`LongKept`), which speaks of the calls that reached the peer
and of the reservations held, and is not inductive: a delivery half way through
the windows, one that was refused later on or one that is giving a unit back has
counted too. The invariant bounds each counter by its limit (`Bounded`) and from
below by what was spent plus every delivery that has the unit (`Covered`), and
says that a delivery past a limited window has counted in it (`AskedIsTaken`).
Each action either moves takers to spent, drops them, or adds one together with
the unit; `Leaving` and `Joining` are the two facts about cardinalities this
takes. `LastIsExact` (`LastExact`) is the other direction: until something fails
the counter asked last is exactly what was spent plus its takers. Only that
window has this: who took from it has been through all of them and is not
refused any more (`TakenLast`). It needs that no window is listed twice and that
there is one (`LongsDiffer`); the code asks the day, then the month.

`SlidingKept` (`ShortKept`) is about the sliding windows, under `Quick`: a call is
settled while its entry still counts, without which the code gives back the entry
of another (see below). What is counted lives in two places, the times in
`entries` and the history `reached`, so `ShortKept` counts the calls later than
an instant as a set of pairs (`Calls`). The invariant says of each limited
window (`Window`) that its entries are in order and not of the future, that all
but the last `Limit` are too old to count, and that since any instant within the
span there are at least as many entries as calls and reservations (`Behind`), so
that `Limit` bounds them. `Younger`, which drops what has aged out, is a
recursive function: a lemma says that it has a value and that this value satisfies
its equation, and what it keeps is shown by induction on the length, which is
derived from the library's minimum of a well-founded order
(`NatLessThanWellFounded`, `WFMin`) applied to the set of counterexamples, since
the library's own induction rules take an operator. A reservation that is given
back removes the oldest entry, not its own: the latest entries stay, and of those
the invariant now has to answer for one fewer, since under `Quick` the reservation
itself was counted until then.

`TypeCorrect` (`TypeOK`) of the quota has to know that entries are ordered times,
none of the future, and that counters never fall below zero, although a unit may be
given back after a failure (`MemoryInv`, `TypeInv`).

`RouterDeliverProofs` proves, for any number of deliveries and parts, any
policies, windows and limits: `NothingIsStranded` (`OverHoldsNothing`),
`SkipsAreExplained` (`SkippedIsUntouched`), `SentWasEarned` (`SentIsEarned`).
All three speak of a delivery that has returned. The invariant `DeliverInv`
adds what leads there: what a delivery may hold by its step (`Holds`; one that
reports has settled its reservation, or is giving it back), and what the class
so far says of the calls so far (`Earned`). What the components do is used only
through lemmas (`ReportEnds`: a report ends its own admission and leaves nobody
else with one; `Settling`, `Returning`), so the proof does not depend on what
makes a breaker open or a window full. `OnlyFaultsTrip` (`OnlyFaultsOpen`) does
look into the breaker: until a call has failed it is closed in memory and in the
store, so that whatever is loaded is closed, and no delivery has a class that
reports a failure (`CalmInv`).

The promises of the components are inherited rather than proved again.
`ComponentAssumption` is what `Breaker` and `Quota` assume, and with it their
proof modules are instantiated; every step of a delivery is a step of the breaker,
or leaves it alone but for a mishap it counts, and likewise for the quota, so that
their lemmas about one step apply: `AllowanceIsKept` (`LongKept` of the quota) and
`BreakerIsKept` (`SlotsAreHeld` and `WrittenThrough` of the breaker).
`OnlyHeardIsCharged` (`ChargedIsHeard`) then follows from `LastExact` and from an
invariant of the composition: what was spent of the window asked last is what the
peer has heard (`HeardInv`), where a set of numbered units stands for the sum over
periods. It speaks of the window asked last, and needs `LongsDiffer`: a unit of a
delivery that the month has refused stays charged to the day, as it does in the
code. `DeliverTypes` (`TypeOK`) takes the types of the components from them as well, and
adds that the calls of a delivery never exceed the parts of its message
(`Counted`).

`NotifyProofs` proves, for any number of calls and keys, any requests and sets
of channels and any retention: `RecordsAlwaysStand` (`RecordsStand`),
`KeysTakeEffectOnce` (`OncePerKey`), `AllowListHolds` (`OnlyAllowed`),
`PinnedAndFitting` (`NeverMisaddressed`), `CallersAreToldTheTruth`
(`AnswersAreTrue`). The first rests on `TableInv`: a record is of the call that
stored it (`Kept`), and what was stored and is no longer there has outlived its
retention (`Gone`). The second adds, for a key that is not in doubt, that one
call is under way at a time, that it has found no record and that a call which
took effect and is over has left one (`Trusted`). The time between the effect
and the record is what makes this more than a lemma about the table. The next
two need only what is about to be delivered (`Permits`): what was checked at
acceptance for the recipients, what is checked again at delivery for the
channel. For the last, records as well as answers have to stay true of the call
they are about (`RecordTrue`, `AnswerTrue`), which holds because only that call
can change what it has done and it is over when it is spoken of (`SayingsStay`).
`NotifyTypes` (`TypeOK`) says among other things that whatever is queued names
an instance that was found for its target, never an unresolved one; it rests on
what a call has found by each of its steps (`ResolveInv`).

`EdgeProofs` proves of `ChannelSend`, for any number of deliveries and tests, any rates,
any number of recipients and every kind of channel: `SpacedHolds` (`Spaced`),
`FetchedForACauseHolds` (`FetchedForACause`), `RefusedOnceHolds`
(`RefusedOnce`), `VerdictIsThePeersHolds` (`VerdictIsThePeers`). First every
step of `ChannelSend` is shown to be a step, or none, of the bucket and of the
cache (`NextLimits`, `NextTokens`). The bucket's invariant adds that the next
instant is past all claimed ones (`Ahead`). The cache's adds that nobody fetches
while a good token is cached and that one reason is in reserve whenever another
token may be asked for (`Wanted`), without which a fetch under way could use up
the reason of the next. `RefusedOnce` needs, for a message that was refused,
that whatever token is cached or on its way to it was issued later (`Newer`);
another delivery's invalidation and a fetch begun before the refusal are the
cases to think about. The verdicts rest on what the outcomes so far say of the
peer (`Honoured`). `BucketIsUsed` is the refinement the first step amounts to: whatever
deliveries and tests do, the bucket takes the steps of `RateLimit`. `SendTypes`
(`TypeOK`) needs that a mail which goes on has recipients left (`Remain`).

Of `MailInlet` it proves, for any mails, recipients and channels: `MailTypes`
(`MailTypeOK`), `AcceptedWasDelivered` (`AcceptedIsDelivered`),
`ReturnedWasRefused` (`ReturnedIsRefused`). Both of the latter are about a mail whose
conversation is over, possibly the last of several. `MailInv` therefore says how
far a conversation has come: below the recipient to be named everybody is unknown
or accepted (`NamedBelow`), and of those accepted everybody below the one to be
delivered to has the mail, was refused by its channel, or has set the flag that
makes the server come back (`DoneBelow`). The history only grows, so what an
earlier conversation delivered still stands when a later one breaks.

`ChannelConfigProofs` proves, for any number of administrators, channels, keys,
files and crashes: `FileSeedsOnceHolds` (`FileSeedsOnce`), `SealsAreKeptHolds`
(`SealsAreKept`), `RestartWorksHolds` (`RestartWorks`), `QuietIsLiveHolds`
(`QuietIsLive`). The import needs that what has been taken off the list is in
the table and that there is no marker while it is worked off (`ImportInv`); the
seals, that a process which may write has a key that is configured or on disk
(`SealInv`); the restart, that what an administrator is about to write has been
validated (`StartInv`). For `QuietIsLive` the invariant says that a live set of
the latest version is the table's, and otherwise somebody is about to read the
table or to install the latest state of it (`Coming`), unless it was noted that
a reload failed or an older read came last. `ConfigTypes` (`TypeOK`) says that
every row, live channel and pending write is a whole configuration, also one
that took its credential over from a row of another time (`MergedType`).

`AccessProofs` proves, for any number of browsers, sessions, keys and requests:
`OneCreatorHolds` (`OneCreator`), `OldSessionsEndHolds` (`OldSessionsEnd`),
`KeysAreAsAskedHolds` (`KeysAreAsAsked`). The account needs little
(`AccountInv`), since the insert decides; sessions need that a sign-in about to
open one was verified against something (`SessionInv`), so that a closed slot is
never taken for an open one; the keys that what is about to be stored was made
or read (`Ready`), and that a key is active only while its row is there.

`ThrottleHoldsAlways` (`ThrottleHolds`) needs the most. It speaks
of what failures have cost so far, and a guess that passed the table before the
last failure is free of charge. `Throttle` says, for each source that has a record, that
its failures and the guesses now being verified are paid for by the time since
the first (`Owed`), and that all who share the source could fail once more when the
wait is over and be paid for as well: that is what a next guess is let in on.
Only a failure moves the wait, by at least the next step of the ladder, and an
eviction removes records whole. It takes that waits grow (`WaitedGrows`, an
induction over the failures) and a little arithmetic of quotients, in lemmas of
their own. `AccessTypes` (`TypeOK`) adds that who changes the password has a session
(`Signed`), the one that ending the others leaves.

Only model-checked: liveness and fairness (out of the prover's reach), that is
`EventuallySettled`, `OrphanBodiesCollected` and `Recovers`; and everything in
`ConfigChecks` and `OverflowChecks`, whose operators fold over data, which
would take an induction over that data.

## What the code does, met while modelling

These are observations without a run of their own: the properties are stated so
as to except them, or the models show them as they are.

Queue and delivery:

- A claim covers a batch that is worked through one by one, and has to outlast
  it, not one delivery: `SnapshotFresh` and `ClaimIsExclusive` hold with
  `ClaimTimeout >= Batch * DeliverTimeout` and not below. The configuration asks
  for less (`worker.go` 50), and with the defaults sixteen deliveries of 30 s
  may take 480 s under a claim of 300 s (`ClaimsOutlastDeliveries`).
- A delivery that was sent and could not be recorded loses its body all the
  same; it comes back after the claim and is dead-lettered as `PAYLOAD_MISSING`
  (`README.en.md` 384 says it is sent again).
- On shutdown the rest of a batch is not put back as `worker.go` 319-321
  intends, since `Release` uses the context whose cancellation caused it; the
  rows wait for the sweep. The model has it so: `GiveBack` writes nothing. And
  `run` closes the store without waiting for the worker to return.
- The first retry waits the second step of the ladder (`worker.go` 439), and a
  replayed delivery keeps the age at which it is given up (`queue.go` 508).
- The breaker takes the report of a call admitted before an outage for that of
  a probe (`breaker.go` 278): it frees a probe slot, so that one probe too many
  may be admitted, and a success counts towards closing.
- A delivery the month refuses stays charged to the day (`quota.go` 183). A
  reservation that is released after it has left its window removes the entry of
  another (`quota.go` 298): `ShortKept` is checked under `Quick`, which says that
  calls are settled while their entry counts.
- The twelve characters of a part marker are kept free whether or not there are
  parts (`overflow.go`), so a message that would just fit is refused or cut; a
  piece of only line breaks is sent with an empty body; a full title loses its
  marker; text is handed even to a channel that declares only html.

API and mail:

- A repeated call is queued again when it arrives before the first one has
  stored its answer, or when the first caller has hung up by then, which is when
  callers repeat: the record is written on the context of the request
  (`README.en.md` 186 promises one delivery). `OncePerKey` excepts both by
  `doubt`.
- `pinTarget` checks the type of a pinned instance only for URLs: a target
  `email:oncall` goes to whatever `oncall` has become (`router.go` 752).
- A mail of several recipients, one of them deferred, is delivered again to
  those that have it. A channel whose name ends in the name of a type is not
  reached by mail under its name alone. A reload between RCPT and DATA turns a recipient that was
  accepted into a refusal of the mail. A wait for the rate limit in DATA has no
  deadline, its context being the background.

Channels:

- A request that was written and not answered in time is `CONNECT_ERROR`, though
  the peer may have taken it. A success whose body cannot be read is `SENT`
  where the platform reports errors in the body.
- Mail to several recipients of whom one accepts and one cannot be reached is
  `CONNECT_ERROR`, which is not charged and tries both again.
- `Invalidate` discards whatever token is cached, also one fetched after the
  refused one. A token that lives no longer than the margin is fetched for every
  message. The test of a channel reports a platform it cannot reach as
  `PERMANENT`.

Channels, keys and accounts as administrators change them:

- Of two overlapping reloads the one that read the table earlier may install
  last (`admin/channels.go` 459), and its set stays until the next reload. A
  browser that hangs up between save and reload, or a store that fails there,
  leaves the change stored and not live. `QuietIsLive` excepts both and nothing
  else.
- A channel of the file that cannot be built is stored and marked imported; the
  start is refused, and correcting the file does not help.
- A file without channels sets no marker, so that channels added to it later
  overwrite those made in the pages meanwhile (`main.go` 222-226).
- `MergeEdit` may lose a credential another administrator sets at the same time,
  and keeps one of the same name across a change of type. Two creations of one
  name may both pass the check for a collision. A switch raced by an edit of the
  list of a key loses one of them, and a key that is changed while it is revoked
  comes back: `KeysAreAsAsked` excepts keys changed by two at once.
- A sign-in verified with the old password opens its session after the others
  have been ended. `createAdministrator` does not ask whether a set-up is due;
  the insert decides. The list of keys shows those of the file as they were at
  the start.
- Opening and saving a form turns an unset `require_tls` into no (the default is
  yes unless TLS is off, `email/config.go` 216) and an empty `content_type` into
  none. A basic sign-in may have an empty password, which the form does not
  allow (`httpauth.go` 139). A constructor folds the case of words, the schema
  does not.

Configuration:

- `reload.go` applies settings before it knows whether the channels can be read
  and built, so a reload that fails has changed them.
- SIGHUP neither applies nor reports a change of four timeouts of the server, of
  the log format, of `deliver_timeout` and of whether there are breakers
  (`Unnoticed`; `reload.go` 131-135 explains one). A change that waits for a
  restart is reported once. Keys that were generated are reported as changed at
  the first reload.
- Rungs of the back-off, the period of pruning and the thresholds of breakers
  are not validated.
- A migration adds a column and fills it in two statements: a process that dies
  in between leaves it unfilled (`sqlite.go` 206).

## What is not modelled

- **Messages, templates, rendering of markdown, pages, translations, the web
  console**: text and data of one request. What the channel form shows and
  collects is in `Parameters`.
- **Wire formats of the drivers, MIME, TLS, SMTP authentication**: data, or code
  of libraries. A driver is its class for each answer and the order of its
  steps.
- **SQL, schema and migration**: a call of the store is one transaction. The
  migration runs once, before anything else.
- **Encryption, password hashing, random identifiers**: pure. A sealed value
  opens with its key and no other; an identifier is only compared.
- **Audit, metrics, logs**: nothing reads them back.
- **Server timeouts, health routes, limits on requests, the order of a
  shutdown beyond the worker's drain**: settings of `net/http` and its
  `Shutdown`, whose behaviour is the library's.
- **Reading operations** of queue, keys, channels and quota.
- **Changes of limits under way**: limits and what a type of channel can do are
  constants in `Quota`, `RouterDeliver` and `Notify`; that the set is replaced is
  in `Notify` and `ChannelConfig`.
- **The test notification** of the admin pages is `Router.Deliver` with one
  caller, outside the queue (`RouterDeliver`).

Worth doing next: the reading operations that an administrator decides by; what
`Overflow` promises of a cut, as theorems.
