------------------------------- MODULE Classify -------------------------------
(***************************************************************************)
(* How the channels turn what a peer did into one of the classes the rest  *)
(* of the relay acts on: internal/channel/result.go, httpx/httpx.go,       *)
(* email/classify.go and the checkAPIResponse of dingtalk, feishu, slack   *)
(* and wecom.                                                              *)
(***************************************************************************)
EXTENDS Integers, Sequences

(* ResultClass, in order of severity.                                      *)
Severity == [NOT_ATTEMPTED |-> 0, SENT |-> 1, CONNECT_ERROR |-> 2,
             TRANSIENT |-> 3, PERMANENT |-> 4]

Classes == DOMAIN Severity

Retryable(class) == class \in {"NOT_ATTEMPTED", "CONNECT_ERROR", "TRANSIENT"}

-----------------------------------------------------------------------------
(* HTTP.  An exchange is a request that never got there, one that was not  *)
(* answered, or the answer: a status, and what its body says.              *)

Statuses == {"2xx", "3xx", "408", "425", "429", "4xx", "5xx"}  \* 4xx: any other
Bodies   == {"ok", "token", "limited", "fault", "refused", "unreadable"}

NoAnswer == {"unreached", "unanswered"}

ClassifyStatus(status) ==
  CASE status = "2xx" -> "SENT"
    [] status \in {"408", "425", "429", "5xx"} -> "TRANSIENT"
    [] OTHER -> "PERMANENT"

(* ClassifyError: dial, DNS, TLS, deadline, cancellation and the rest.     *)
ClassifyError(failure) == "CONNECT_ERROR"

(* The platforms that answer 200 to what they refuse: which of their codes *)
(* they ask to come back for.  A negative code is a fault of theirs, which *)
(* two of them are asked again about.                                      *)
DingtalkLater == {"limited", "fault"}
FeishuLater   == {"limited"}
SlackLater    == {"limited"}
WecomLater    == {"token", "limited", "fault"}

Later == [dingtalk |-> DingtalkLater, feishu |-> FeishuLater, slackbot |-> SlackLater,
          wecom |-> WecomLater, wecomapp |-> WecomLater]

(* Whoever looks at the status only: webhook, and slack's own webhooks.    *)
StatusOnly == {"webhook", "slackhook"}

HttpKinds == StatusOnly \cup DOMAIN Later

(* checkAPIResponse.  A body that is not the platform's is no failure.     *)
CheckAPIResponse(kind, body) ==
  CASE body \in {"ok", "unreadable"} -> "SENT"
    [] body \in Later[kind] -> "TRANSIENT"
    [] OTHER -> "PERMANENT"

(* Send, of every channel but mail: the body is read when the status is a  *)
(* success.                                                                *)
Judge(kind, status, body) ==
  IF ClassifyStatus(status) # "SENT" \/ kind \in StatusOnly
  THEN ClassifyStatus(status)
  ELSE CheckAPIResponse(kind, body)

-----------------------------------------------------------------------------
(* Mail: one transaction for each recipient.                               *)

(* What becomes of one: taken; the peer was not reached or did not say;    *)
(* the connection was found dead; a reply 4xx or 5xx; broken off after     *)
(* DATA; a sender or recipient, a message or client that cannot be made.   *)
Transactions == {"taken", "unreached", "dead", "4xx", "5xx", "broken", "unusable"}

(* classify, and deliver.                                                  *)
OfTransaction(t) ==
  CASE t = "taken" -> "SENT"
    [] t \in {"unreached", "dead"} -> "CONNECT_ERROR"
    [] t \in {"4xx", "broken"} -> "TRANSIENT"
    [] t \in {"5xx", "unusable"} -> "PERMANENT"

Worst(classes) == CHOOSE c \in classes : \A d \in classes : Severity[d] <= Severity[c]

(* FromRecipients: the worst, what is not classified being permanent.      *)
FromRecipients(outcomes) ==
  IF outcomes = <<>> THEN "PERMANENT"
  ELSE Worst({IF outcomes[i] = "NOT_ATTEMPTED" THEN "PERMANENT" ELSE outcomes[i] :
              i \in DOMAIN outcomes})
=============================================================================
