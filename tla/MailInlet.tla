------------------------------ MODULE MailInlet ------------------------------
(***************************************************************************)
(* Notifications by mail (internal/smtpin): a mail server hands over a     *)
(* mail, whose recipients name channels, in one conversation, and the      *)
(* relay delivers to them one after the other before it answers.           *)
(*                                                                         *)
(* Mail has one answer for all recipients.  The sending server keeps what  *)
(* is deferred, or was not answered, and comes back with all of it; it     *)
(* returns to its author what is refused.                                  *)
(***************************************************************************)
EXTENDS Integers, SequencesExt

CONSTANTS
  Mails,       \* mails, each with the server that holds it
  Welcome,     \* those from an address that is allowed
  Readable,    \* those with a body
  Envelope,    \* by mail, the local parts it is addressed to, each the
               \*   sequence of what its dots separate
  Channels,    \* names that channels may have, as sequences too
  MaxTries,    \* bound: conversations about one mail
  MaxReloads,  \* bound: changes of the channels
  MaxMishaps   \* bound: broken connections and crashes

ASSUME MailAssumption ==
  /\ Welcome \subseteq Mails /\ Readable \subseteq Mails
  /\ Envelope \in [Mails -> Seq(Seq(STRING) \ {<<>>}) \ {<<>>}]
  /\ <<>> \notin Channels
  /\ MaxTries \in Nat /\ MaxReloads \in Nat /\ MaxMishaps \in Nat

VARIABLES
  instances,   \* the channels in service
  talk,        \* by mail: the session about it
  fate,        \* what its server makes of it
  tries, unknown,  \* conversations so far, recipients returned to the author
  got, denied, \* history, by recipient: how often its channel accepted, and
               \*   whether it refused for good
  reloads, mishaps

outside == <<instances, reloads>>
mailVars == <<outside, talk, fate, tries, unknown, got, denied, mishaps>>

Recipients(m) == DOMAIN Envelope[m]

-----------------------------------------------------------------------------
(* ParseRecipient.                                                         *)

Types == {"info", "success", "warning", "failure"}

(* A last segment that is a type is not part of the name, unless there is  *)
(* nothing before its dot.                                                 *)
Typed(local) ==
  Len(local) > 1 /\ Last(local) \in Types /\ Front(local) # <<"">>

Alias(local)    == IF Typed(local) THEN Front(local) ELSE local
TypeFor(local)  == IF Typed(local) THEN Last(local) ELSE "info"

(* No local part, or a name with a dot at an end.                          *)
Malformed(local) == "" \in {Head(Alias(local)), Last(Alias(local))}

Known(local) == ~Malformed(local) /\ Alias(local) \in instances

-----------------------------------------------------------------------------
(* res.Class of a delivery.                                                *)
Outcomes == {"SENT", "NOT_ATTEMPTED", "CONNECT_ERROR", "TRANSIENT", "PERMANENT"}

(* rcpts: the recipients accepted; next: the recipient to be named, or     *)
(* the one in rcpts to be delivered to; retryable, permanent: as in Data.  *)
Sessions ==
  [step : {"none", "rcpt", "deliver"}, rcpts : Seq(Nat), next : Nat,
   retryable : BOOLEAN, permanent : BOOLEAN]

NoTalk == [step |-> "none", rcpts |-> <<>>, next |-> 0,
           retryable |-> FALSE, permanent |-> FALSE]

Fates == {"held", "accepted", "returned", "expired"}

MailTypeOK ==
  /\ instances \subseteq Channels
  /\ talk \in [Mails -> Sessions] /\ fate \in [Mails -> Fates]
  /\ tries \in [Mails -> 0..MaxTries] /\ unknown \in [Mails -> SUBSET Nat]
  /\ denied \in [Mails -> SUBSET Nat]
  /\ \A m \in Mails : got[m] \in [Recipients(m) -> Nat]
  /\ reloads \in 0..MaxReloads /\ mishaps \in 0..MaxMishaps

MailInit ==
  /\ instances \in SUBSET Channels
  /\ talk = [m \in Mails |-> NoTalk] /\ fate = [m \in Mails |-> "held"]
  /\ tries = [m \in Mails |-> 0] /\ unknown = [m \in Mails |-> {}]
  /\ got = [m \in Mails |-> [i \in Recipients(m) |-> 0]]
  /\ denied = [m \in Mails |-> {}]
  /\ reloads = 0 /\ mishaps = 0

-----------------------------------------------------------------------------
(* The conversation.                                                       *)

Hang(m) == talk' = [talk EXCEPT ![m] = NoTalk]

(* NewSession and Mail.  A server that is not allowed is told to go away.  *)
Connect(m) ==
  /\ fate[m] = "held" /\ talk[m].step = "none"
  /\ tries[m] < MaxTries /\ tries' = [tries EXCEPT ![m] = @ + 1]
  /\ IF m \in Welcome
     THEN talk' = [talk EXCEPT ![m] = [NoTalk EXCEPT !.step = "rcpt", !.next = 1]]
          /\ UNCHANGED fate
     ELSE fate' = [fate EXCEPT ![m] = "returned"] /\ UNCHANGED talk
  /\ UNCHANGED <<outside, unknown, got, denied, mishaps>>

(* Rcpt, for a recipient that was not returned before.                     *)
Rcpt(m) ==
  LET i == talk[m].next IN
  /\ talk[m].step = "rcpt" /\ i \in Recipients(m)
  /\ IF i \notin unknown[m] /\ Known(Envelope[m][i])
     THEN /\ talk' = [talk EXCEPT ![m].next = i + 1, ![m].rcpts = Append(@, i)]
          /\ UNCHANGED unknown
     ELSE /\ talk' = [talk EXCEPT ![m].next = i + 1]
          /\ unknown' = [unknown EXCEPT ![m] = @ \cup {i}]
  /\ UNCHANGED <<outside, fate, tries, got, denied, mishaps>>

Named(m) == talk[m].step = "rcpt" /\ talk[m].next \notin Recipients(m)

(* Nobody to deliver to, or toMessage finds nothing to deliver: 550.       *)
Reject(m) ==
  /\ Named(m) /\ (talk[m].rcpts = <<>> \/ m \notin Readable)
  /\ fate' = [fate EXCEPT ![m] = "returned"]
  /\ Hang(m)
  /\ UNCHANGED <<outside, tries, unknown, got, denied, mishaps>>

Data(m) ==
  /\ Named(m) /\ talk[m].rcpts # <<>> /\ m \in Readable
  /\ talk' = [talk EXCEPT ![m].step = "deliver", ![m].next = 1]
  /\ UNCHANGED <<outside, fate, tries, unknown, got, denied, mishaps>>

-----------------------------------------------------------------------------
(* Data.                                                                   *)

Delivering(m) == talk[m].step = "deliver" /\ talk[m].next \in DOMAIN talk[m].rcpts

(* Slip: a delivery that was not attempted is taken to have failed.        *)
DefersIfTried(class) == class \in {"CONNECT_ERROR", "TRANSIENT"}

(* What the sender should come back for.                                   *)
Defers(class) == class \in {"NOT_ATTEMPTED", "CONNECT_ERROR", "TRANSIENT"}

(* Deliver to one of them.  A channel that is gone by now refuses.         *)
Deliver(m, class) ==
  LET i == talk[m].rcpts[talk[m].next] IN
  /\ Delivering(m)
  /\ Alias(Envelope[m][i]) \notin instances => class = "PERMANENT"
  /\ talk' = [talk EXCEPT
       ![m].next = @ + 1,
       ![m].retryable = @ \/ Defers(class),
       ![m].permanent = @ \/ ~(Defers(class) \/ class = "SENT")]
  /\ got' = IF class = "SENT" THEN [got EXCEPT ![m][i] = @ + 1] ELSE got
  /\ denied' = IF class = "PERMANENT" THEN [denied EXCEPT ![m] = @ \cup {i}] ELSE denied
  /\ UNCHANGED <<outside, fate, tries, unknown, mishaps>>

(* Slip: what went out to somebody is accepted.                            *)
AnswerOfLast(m) ==
  IF talk[m].permanent THEN "returned"
  ELSE IF talk[m].retryable /\ \A i \in Recipients(m) : got[m][i] = 0 THEN "held"
  ELSE "accepted"

(* 451, 550 or 250.                                                        *)
AnswerOf(m) ==
  IF talk[m].retryable THEN "held" ELSE IF talk[m].permanent THEN "returned" ELSE "accepted"

Answer(m) ==
  /\ talk[m].step = "deliver" /\ ~Delivering(m)
  /\ fate' = [fate EXCEPT ![m] = AnswerOf(m)]
  /\ Hang(m)
  /\ UNCHANGED <<outside, tries, unknown, got, denied, mishaps>>

-----------------------------------------------------------------------------
(* Everybody else.                                                         *)

(* The connection breaks: while the mail is read, and between its          *)
(* deliveries and the answer, which does not stop the deliveries but the   *)
(* sender never hears how they ended.                                      *)
Break(m) ==
  /\ talk[m].step = "rcpt" \/ (talk[m].step = "deliver" /\ ~Delivering(m))
  /\ mishaps < MaxMishaps /\ mishaps' = mishaps + 1
  /\ Hang(m)
  /\ UNCHANGED <<outside, fate, tries, unknown, got, denied>>

(* The process dies, and all conversations with it.                        *)
Crash ==
  /\ \E m \in Mails : talk[m].step # "none"
  /\ mishaps < MaxMishaps /\ mishaps' = mishaps + 1
  /\ talk' = [m \in Mails |-> NoTalk]
  /\ UNCHANGED <<outside, fate, tries, unknown, got, denied>>

(* The sending server gives up.                                            *)
Expire(m) ==
  /\ fate[m] = "held" /\ talk[m].step = "none" /\ tries[m] = MaxTries
  /\ fate' = [fate EXCEPT ![m] = "expired"]
  /\ UNCHANGED <<outside, talk, tries, unknown, got, denied, mishaps>>

(* Router.Reload.                                                          *)
Reload ==
  /\ reloads < MaxReloads /\ reloads' = reloads + 1
  /\ instances' \in SUBSET Channels
  /\ UNCHANGED <<talk, fate, tries, unknown, got, denied, mishaps>>

MailNext ==
  \/ \E m \in Mails :
       \/ Connect(m) \/ Rcpt(m) \/ Reject(m) \/ Data(m) \/ Answer(m)
       \/ Break(m) \/ Expire(m)
       \/ \E class \in Outcomes : Deliver(m, class)
  \/ Crash \/ Reload

MailSpec == MailInit /\ [][MailNext]_mailVars

-----------------------------------------------------------------------------
(* Properties.                                                             *)

(* A mail that its sender may forget has been delivered to every recipient *)
(* that was not returned, by this conversation or an earlier one that      *)
(* ended differently: accepting it in part would lose the rest (Data).     *)
AcceptedIsDelivered ==
  \A m \in Mails : fate[m] = "accepted" =>
    \A i \in Recipients(m) : i \in unknown[m] \/ got[m][i] > 0

(* A mail is returned to its author only for what was refused: never       *)
(* because of a channel that is down, busy or out of allowance, and        *)
(* whatever was deferred before (Data, "destroys the notification").       *)
ReturnedIsRefused ==
  \A m \in Mails \cap Welcome \cap Readable : fate[m] = "returned" =>
    \A i \in Recipients(m) : i \in unknown[m] \cup denied[m] \/ got[m][i] > 0
=============================================================================
