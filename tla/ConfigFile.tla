------------------------------ MODULE ConfigFile -----------------------------
(***************************************************************************)
(* The configuration file: what it says, what is filled in, what is        *)
(* refused (internal/config/config.go, env.go), what each component makes  *)
(* of it (cmd/notifyrelay/main.go), and which of it a SIGHUP changes       *)
(* (reload.go).  Everything here is a function of documents; the reload as *)
(* a process is in ChannelConfig.                                          *)
(*                                                                         *)
(* A configuration is a record of sections, as in the code.  Durations are *)
(* integers; a text is "" when it is blank; a key or a digest is "bad"     *)
(* when it cannot be parsed.                                               *)
(***************************************************************************)
EXTENDS Integers, Sequences

Second == 1
Minute == 60
Hour   == 3600
Day    == 24 * Hour

(* What a file that says nothing means.                                    *)
Default ==
  [server   |-> [addr |-> ""],
   log      |-> [level |-> "info", format |-> "json"],
   timeouts |-> [read |-> 15, readHeader |-> 5, write |-> 30, idle |-> 60,
                 handler |-> 20, deliver |-> 15],
   auth     |-> [apiKeys |-> <<>>],
   storage  |-> [driver |-> "sqlite", path |-> "data", spoolDir |-> "spool"],
   queue    |-> [workers |-> 4, batch |-> 16, pollEvery |-> Second,
                 deliverTimeout |-> 30, releaseDelay |-> 30,
                 claimTimeout |-> 5 * Minute, recoverEvery |-> 100,
                 pruneEvery |-> Hour, sentRetention |-> 7 * Day,
                 failedRetention |-> 30 * Day, idempotencyRetention |-> Day],
   retry    |-> [maxAttempts |-> 5,
                 backoff |-> <<30, 2 * Minute, 10 * Minute, Hour, 4 * Hour>>,
                 maxAge |-> Day],
   breaker  |-> [enabled |-> TRUE, failureThreshold |-> 5,
                 successThreshold |-> 2, openTimeout |-> Minute,
                 halfOpenProbes |-> 1],
   smtpIn   |-> [enabled |-> FALSE, addr |-> ":2525", hostname |-> "relay.local",
                 allowedIPs |-> <<>>, authEnabled |-> FALSE, username |-> "",
                 password |-> ""],
   admin    |-> [enabled |-> FALSE, username |-> "", passwordHash |-> "",
                 sessionKey |-> "", sessionTTL |-> 12 * Hour],
   secret   |-> [key |-> ""],
   channels |-> [seed |-> <<>>]]

Given(doc, s, f) == s \in DOMAIN doc /\ f \in DOMAIN doc[s]

(* Decoding a document over the defaults; refs says which of its values    *)
(* are written `!env NAME`.                                                *)
Decoded(doc, refs, env) ==
  [s \in DOMAIN Default |-> [f \in DOMAIN Default[s] |->
     IF ~Given(doc, s, f) THEN Default[s][f]
     ELSE IF <<s, f>> \in DOMAIN refs THEN env[refs[<<s, f>>]] ELSE doc[s][f]]]

(* A variable that is not set refuses the document; one set to nothing     *)
(* does not.                                                               *)
Expands(refs, env) == \A p \in DOMAIN refs : refs[p] \in DOMAIN env

-----------------------------------------------------------------------------
(* Validate.                                                               *)

(* Entries of a list are named, and no name is taken twice.                *)
Named(list) ==
  /\ \A i \in DOMAIN list : list[i].name # ""
  /\ \A i, j \in DOMAIN list : list[i].name = list[j].name => i = j

Bounded(c) ==
  /\ \A f \in DOMAIN c.timeouts : c.timeouts[f] > 0
  /\ c.timeouts.handler > c.timeouts.deliver

(* Only digests are kept, and what a key may address is well-formed.       *)
KeysFit(c) ==
  /\ Named(c.auth.apiKeys)
  /\ \A i \in DOMAIN c.auth.apiKeys :
       c.auth.apiKeys[i].hash # "bad" /\ c.auth.apiKeys[i].patternsFit

(* The rungs of the back-off are not looked at.                            *)
Retries(c) == c.retry.maxAttempts >= 1 /\ c.retry.maxAge > 0

(* The type only has to be there; whether the binary has it is asked later.*)
Seeds(c) ==
  /\ Named(c.channels.seed)
  /\ \A i \in DOMAIN c.channels.seed : c.channels.seed[i].type # ""

Stores(c) ==
  c.storage.driver = "sqlite" /\ c.storage.path # "" /\ c.storage.spoolDir # ""

(* No account is the first-run state; half of one is a mistake.            *)
Guards(c) ==
  c.admin.enabled =>
    /\ c.admin.passwordHash # "" =>
         c.admin.passwordHash # "bad" /\ c.admin.username # ""
    /\ c.admin.sessionTTL > 0

KeyFits(c) == c.secret.key # "bad"

(* The claim must outlast a delivery, and the sweep come round before it   *)
(* ends.  pruneEvery may be anything.                                      *)
Waits == {"pollEvery", "deliverTimeout", "releaseDelay", "claimTimeout",
          "recoverEvery", "sentRetention", "failedRetention",
          "idempotencyRetention"}
Queues(c) ==
  /\ c.queue.workers >= 1 /\ c.queue.batch >= 1
  /\ \A f \in Waits : c.queue[f] > 0
  /\ c.queue.claimTimeout > c.queue.deliverTimeout
  /\ c.queue.recoverEvery <= c.queue.claimTimeout

Receives(c) ==
  c.smtpIn.enabled =>
    /\ c.smtpIn.addr # "" /\ c.smtpIn.hostname # ""
    /\ c.smtpIn.authEnabled => c.smtpIn.username # ""

Accepted(c) ==
  /\ c.server.addr # "" /\ Bounded(c) /\ KeysFit(c) /\ Retries(c) /\ Seeds(c)
  /\ Stores(c) /\ Guards(c) /\ KeyFits(c) /\ Queues(c) /\ Receives(c)

Loads(doc, refs, env) ==
  Expands(refs, env) /\ Accepted(Decoded(doc, refs, env))

-----------------------------------------------------------------------------
(* What the components make of it.                                         *)

Positive(x, otherwise) == IF x > 0 THEN x ELSE otherwise

(* Policy.Normalize, of a policy; retryPolicy hands it the section.        *)
Policy(p) ==
  [maxAttempts |-> Positive(p.maxAttempts, Default.retry.maxAttempts),
   backoff     |-> IF p.backoff = <<>> THEN Default.retry.backoff ELSE p.backoff,
   maxAge      |-> Positive(p.maxAge, Default.retry.maxAge)]

(* breaker.Settings.Normalize.                                             *)
Thresholds(b) ==
  [f \in {"failureThreshold", "successThreshold", "openTimeout", "halfOpenProbes"} |->
     Positive(b[f], Default.breaker[f])]

(* queue.Options.applyDefaults; the sweep follows the claim.               *)
Options(q) ==
  [f \in DOMAIN Default.queue |->
     IF f = "pruneEvery" THEN q[f]
     ELSE IF f = "recoverEvery"
          THEN Positive(q[f], Positive(q.claimTimeout, Default.queue.claimTimeout) \div 3)
     ELSE Positive(q[f], Default.queue[f])]

-----------------------------------------------------------------------------
(* SIGHUP.                                                                 *)

At(c, p) == c[p[1]][p[2]]

Paths == UNION {{<<s, f>> : f \in DOMAIN Default[s]} : s \in DOMAIN Default}

(* What apply pushes into the running components.  The breakers exist or   *)
(* not since the start.                                                    *)
Pushed(running) ==
  {<<"log", "level">>, <<"auth", "apiKeys">>, <<"timeouts", "handler">>,
   <<"timeouts", "deliver">>, <<"retry", "maxAttempts">>, <<"retry", "backoff">>,
   <<"retry", "maxAge">>} \cup
  IF running.breaker.enabled
    THEN {<<"breaker", f>> : f \in DOMAIN Default.breaker \ {"enabled"}} ELSE {}

(* What restartOnly compares.                                              *)
Compared ==
  {<<"server", "addr">>, <<"secret", "key">>} \cup
  {<<"storage", f>> : f \in DOMAIN Default.storage} \cup
  {<<"queue", f>> : f \in DOMAIN Default.queue \ {"deliverTimeout"}} \cup
  {<<"smtpIn", f>> : f \in DOMAIN Default.smtpIn} \cup
  {<<"admin", f>> : f \in DOMAIN Default.admin}

Changed(before, after) == {p \in Paths : At(before, p) # At(after, p)}

RestartOnly(before, after) == Changed(before, after) \cap Compared

(* Neither in effect nor reported.                                         *)
Silent(running, before, after) ==
  Changed(before, after) \ (Pushed(running) \cup RestartOnly(before, after))
=============================================================================
