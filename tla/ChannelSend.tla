----------------------------- MODULE ChannelSend -----------------------------
(***************************************************************************)
(* The channels (internal/channel/...): what happens between the moment a  *)
(* delivery wants to call its channel and the class that the channel       *)
(* returns.                                                                *)
(*                                                                         *)
(* A delivery waits for the rate limit of the channel (RateLimit).  Then   *)
(* a channel over HTTP posts once and judges the answer (Classify); an     *)
(* application of wecom first needs a token (TokenCache), and when its     *)
(* token is refused fetches another and posts once more; mail is one       *)
(* transaction for each recipient.  Any exchange may fail, a deadline      *)
(* being one way to.                                                       *)
(*                                                                         *)
(* Concurrent deliveries to one channel share its bucket and, when it is   *)
(* an application, its token; an administrator may test it meanwhile.      *)
(***************************************************************************)
EXTENDS Classify

CONSTANTS
  Senders,     \* deliveries at work at the same time
  Testers,     \* tests of the channel
  Kinds,       \* what the channel may be
  Addresses,   \* the number of recipients of a mail
  Intervals,   \* see RateLimit
  Horizon, MaxSends, MaxRetired  \* bounds: clock, sends, tokens retired

Calls == Senders \cup Testers

ASSUME SendAssumption ==
  /\ Kinds \subseteq HttpKinds \cup {"email"}
  /\ Senders \cap Testers = {} /\ "none" \notin Calls
  /\ Addresses \in Nat \ {0}
  /\ Intervals \subseteq Nat \ {0} /\ Intervals # {}
  /\ Horizon \in Nat /\ MaxSends \in Nat /\ MaxRetired \in Nat

VARIABLES
  clock, interval, next, due, granted,                \* RateLimit
  value, age, holder, answer, issued, retired, causes, \* TokenCache
  kind,     \* what the channel is
  at,       \* by call: the local variables of Send, and then its result
  seen,     \* history: what the peer made of the message
  sends     \* how many sends have begun

limits == <<clock, interval, next, due, granted>>
tokens == <<value, age, holder, answer, issued, retired, causes>>
own    == <<kind, at, seen, sends>>
vars   == <<limits, tokens, own>>

L == INSTANCE RateLimit WITH Callers <- Calls
T == INSTANCE TokenCache WITH Callers <- Calls

-----------------------------------------------------------------------------
Steps == {"idle", "claiming", "waiting", "token", "fetching", "posting",
          "invalidating", "mailing"}

(* tries: attempts of sendApp; refusedAt: the last token that the platform *)
(* had issued when it refused the first; outcomes: of the transactions.    *)
Locals ==
  [step : Steps, token : Nat, tries : 0..1, refusedAt : Nat,
   outcomes : UNION {[1..n -> Classes] : n \in 0..Addresses}, class : Classes]

(* taken: how often the peer took it; refused: it said no for good;        *)
(* blurred: its success came with a body that is not the platform's.       *)
Seen == [taken : Nat, refused : BOOLEAN, blurred : BOOLEAN]

Unsent == [step |-> "idle", token |-> 0, tries |-> 0, refusedAt |-> 0,
           outcomes |-> <<>>, class |-> "NOT_ATTEMPTED"]
Unseen == [taken |-> 0, refused |-> FALSE, blurred |-> FALSE]

TypeOK ==
  /\ L!TypeOK /\ T!TypeOK
  /\ at \in [Calls -> Locals] /\ seen \in [Calls -> Seen]
  /\ kind \in Kinds /\ sends \in Nat

Init ==
  /\ L!Init /\ T!Init
  /\ kind \in Kinds
  /\ at = [s \in Calls |-> Unsent] /\ seen = [s \in Calls |-> Unseen]
  /\ sends = 0

-----------------------------------------------------------------------------
(* The rate limit.                                                         *)

Goto(s, step) == at' = [at EXCEPT ![s].step = step]

Return(s, class) == at' = [at EXCEPT ![s] = [Unsent EXCEPT !.class = class]]

Enter(s, step) ==
  /\ at[s].step = "idle"
  /\ sends < MaxSends /\ sends' = sends + 1
  /\ at' = [at EXCEPT ![s] = [Unsent EXCEPT !.step = step]]
  /\ seen' = [seen EXCEPT ![s] = Unseen]
  /\ UNCHANGED <<kind, tokens>>

(* wait: the bucket takes the rate of this delivery's channel.             *)
Begin(s, i) == Enter(s, "claiming") /\ L!Retune(i)

(* Test, which does not wait and discards the token first.                 *)
Test(s) == kind = "wecomapp" /\ Enter(s, "invalidating") /\ UNCHANGED limits

Claim(s) ==
  /\ at[s].step = "claiming"
  /\ L!Claim(s)
  /\ Goto(s, "waiting")
  /\ UNCHANGED <<tokens, kind, seen, sends>>

GiveUp(s) ==
  /\ at[s].step = "waiting"
  /\ L!GiveUp(s)
  /\ Return(s, "NOT_ATTEMPTED")
  /\ UNCHANGED <<tokens, kind, seen, sends>>

(* What Send begins with.                                                  *)
First(s) ==
  CASE kind = "email" -> "mailing"
    [] kind = "wecomapp" -> "token"
    [] OTHER -> "posting"

Go(s) ==
  /\ at[s].step = "waiting" /\ L!Due(s)
  /\ Goto(s, First(s))
  /\ UNCHANGED <<limits, tokens, kind, seen, sends>>

(* The message, the URL or the payload cannot be made.                     *)
Unusable(s) ==
  /\ at[s].step \in {"posting", "mailing"} /\ at[s].outcomes = <<>>
  /\ Return(s, "PERMANENT")
  /\ seen' = [seen EXCEPT ![s].refused = TRUE]
  /\ UNCHANGED <<limits, tokens, kind, sends>>

-----------------------------------------------------------------------------
(* The token: Get, of sendAppOnce and of Test.                             *)

(* What is done with a token: it is the result of a test.                  *)
Use(s, t) ==
  IF s \in Testers THEN Return(s, "SENT")
  ELSE at' = [at EXCEPT ![s].step = "posting", ![s].token = t]

Hit(s) ==
  /\ at[s].step = "token"
  /\ T!Hit(s) /\ Use(s, value)
  /\ UNCHANGED <<limits, kind, seen, sends>>

Miss(s) ==
  /\ at[s].step = "token"
  /\ T!Miss(s) /\ Goto(s, "fetching")
  /\ UNCHANGED <<limits, kind, seen, sends>>

Issue(s) ==
  /\ at[s].step = "fetching"
  /\ T!Issue(s)
  /\ UNCHANGED <<limits, own>>

Fetched(s, a) ==
  /\ at[s].step = "fetching"
  /\ T!Store(s, a) /\ Use(s, answer)
  /\ UNCHANGED <<limits, kind, seen, sends>>

(* Without a token a delivery has not reached the peer, and a test has     *)
(* failed.                                                                 *)
Unfetched(s) ==
  /\ at[s].step = "fetching"
  /\ T!Fail(s)
  /\ IF T!Served THEN Use(s, value)
     ELSE Return(s, IF s \in Testers THEN "PERMANENT" ELSE "CONNECT_ERROR")
  /\ UNCHANGED <<limits, kind, seen, sends>>

Invalidate(s) ==
  /\ at[s].step = "invalidating"
  /\ T!Invalidate(s) /\ Goto(s, "token")
  /\ UNCHANGED <<limits, kind, seen, sends>>

-----------------------------------------------------------------------------
(* The request.                                                            *)

Posting(s) == at[s].step = "posting"

(* The platform does not take a token it has retired.                      *)
Accepts(s) == kind # "wecomapp" \/ at[s].token > retired

(* PostRaw failed; a request that was not answered may have been taken.    *)
Lost(s, failure) ==
  /\ Posting(s)
  /\ Return(s, ClassifyError(failure))
  /\ \/ UNCHANGED seen
     \/ failure = "unanswered" /\ Accepts(s) /\ seen' = [seen EXCEPT ![s].taken = @ + 1]
  /\ UNCHANGED <<limits, tokens, kind, sends>>

(* What an honest peer answers: one that looks at the token refuses one    *)
(* it has retired, and no other.                                           *)
Honest(s, status, body) ==
  /\ status # "2xx" \/ kind \in StatusOnly => body = "unreadable"
  /\ kind = "wecomapp" /\ Accepts(s) => body # "token"
  /\ ~Accepts(s) => body # "ok"

(* The body of a success counts, where a platform has one.                 *)
Reads(status) == status = "2xx" /\ kind \notin StatusOnly

Taken(status, body) == status = "2xx" /\ (Reads(status) => body = "ok")
Denied(status, body) ==
  \/ status \in {"3xx", "4xx"}
  \/ Reads(status) /\ body \in {"token", "fault", "refused"}

(* Slip: whatever came with a success is a success.                        *)
AnsweredUnread(s, status, body) ==
  /\ Posting(s) /\ Honest(s, status, body)
  /\ Return(s, ClassifyStatus(status))
  /\ seen' = [seen EXCEPT ![s].taken = IF Taken(status, body) THEN @ + 1 ELSE @]
  /\ UNCHANGED <<limits, tokens, kind, sends>>

(* sendApp: a refused token is discarded, and the second answer is the     *)
(* result.                                                                 *)
Again(s, status, body) ==
  /\ kind = "wecomapp" /\ at[s].tries = 0
  /\ ClassifyStatus(status) = "SENT" /\ body = "token"

Answered(s, status, body) ==
  /\ Posting(s) /\ Honest(s, status, body)
  /\ IF Again(s, status, body)
     THEN at' = [at EXCEPT ![s].step = "invalidating", ![s].tries = 1,
                           ![s].refusedAt = issued]
     ELSE Return(s, Judge(kind, status, body))
  /\ seen' = [seen EXCEPT
       ![s].taken = IF Taken(status, body) THEN @ + 1 ELSE @,
       ![s].refused = @ \/ Denied(status, body),
       ![s].blurred = @ \/ (Reads(status) /\ body = "unreadable")]
  /\ UNCHANGED <<limits, tokens, kind, sends>>

-----------------------------------------------------------------------------
(* Mail.                                                                   *)

(* deliver, to the next recipient, and at the end FromRecipients.          *)
Transaction(s, t) ==
  LET outcomes == Append(at[s].outcomes, OfTransaction(t)) IN
  /\ at[s].step = "mailing" /\ t \in Transactions
  /\ IF Len(outcomes) = Addresses THEN Return(s, FromRecipients(outcomes))
     ELSE at' = [at EXCEPT ![s].outcomes = outcomes]
  /\ seen' = [seen EXCEPT ![s].taken = IF t = "taken" THEN @ + 1 ELSE @,
                          ![s].refused = @ \/ t \in {"5xx", "unusable"}]
  /\ UNCHANGED <<limits, tokens, kind, sends>>

-----------------------------------------------------------------------------
Tick == L!Tick /\ UNCHANGED <<tokens, own>>

Grow == T!Grow /\ UNCHANGED <<limits, own>>

Retire == T!Retire /\ issued <= MaxRetired /\ UNCHANGED <<limits, own>>

Next ==
  \/ \E s \in Testers : Test(s)
  \/ \E s \in Calls :
       \/ Hit(s) \/ Miss(s) \/ Issue(s) \/ Unfetched(s) \/ Invalidate(s)
       \/ \E a \in {"fresh", "stale"} : Fetched(s, a)
  \/ \E s \in Senders :
       \/ Claim(s) \/ GiveUp(s) \/ Go(s) \/ Unusable(s)
       \/ \E i \in Intervals : Begin(s, i)
       \/ \E failure \in NoAnswer : Lost(s, failure)
       \/ \E status \in Statuses, body \in Bodies : Answered(s, status, body)
       \/ \E t \in Transactions : Transaction(s, t)
  \/ Tick \/ Grow \/ Retire

Spec == Init /\ [][Next]_vars

-----------------------------------------------------------------------------
(* Properties.                                                             *)

Returned(s, class) == at[s].step = "idle" /\ at[s].class = class

(* Calls of a channel are apart by its interval (limiter): see RateLimit.  *)
Spaced == L!Spaced

(* Every token fetched had a reason of its own (Get): see TokenCache.      *)
FetchedForACause == T!FetchedForACause

(* A message is refused for its token twice only when the platform has     *)
(* retired one in between: the second attempt never posts with a token     *)
(* that was issued before the first was refused (sendApp, "refreshing an   *)
(* expired token once").                                                   *)
RefusedOnce ==
  \A s \in Senders :
    at[s].tries = 1 /\ at[s].step = "posting" => at[s].token > at[s].refusedAt

(* SENT: the peer took it, for every recipient, or answered a success that *)
(* nobody can read.  PERMANENT, which gives a notification up: the peer    *)
(* refused it or it cannot be made.  No failure on the way to a peer or to *)
(* its token, and no second attempt, leads to either (Send, result.go).    *)
VerdictIsThePeers ==
  \A s \in Senders :
    /\ Returned(s, "SENT") =>
         \/ seen[s].taken >= (IF kind = "email" THEN Addresses ELSE 1)
         \/ seen[s].blurred
    /\ Returned(s, "PERMANENT") => seen[s].refused
=============================================================================
