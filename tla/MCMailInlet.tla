----------------------------- MODULE MCMailInlet -----------------------------
(* MailInlet for TLC: a mail to two channels, one of them with a dot in    *)
(* its name, and with recipients that are unknown or malformed, and mails  *)
(* without a body or from elsewhere.                                       *)
EXTENDS MailInlet

CONSTANTS m, n, empty, foreign

MCMails    == {m, n, empty, foreign}
MCWelcome  == {m, n, empty}
MCReadable == {m, n, foreign}

MCEnvelope ==
  (m :> << <<"ops", "failure">>, <<"ops", "team">>, <<"", "info">> >>) @@
  (n :> << <<"ops", "team", "info">>, <<"lost">> >>) @@
  (empty :> << <<"ops">> >>) @@ (foreign :> << <<"ops">> >>)

MCChannels == {<<"ops">>, <<"ops", "team">>}

(* ParseRecipient on the examples of its comment, and on its refusals.     *)
ASSUME
  /\ Alias(<<"oncall">>) = <<"oncall">> /\ TypeFor(<<"oncall">>) = "info"
  /\ Alias(<<"oncall", "failure">>) = <<"oncall">>
  /\ TypeFor(<<"oncall", "failure">>) = "failure"
  /\ Alias(<<"ops", "team", "warning">>) = <<"ops", "team">>
  /\ \A local \in {<<"">>, <<"", "failure">>, <<"ops", "">>, <<"ops", "", "info">>} :
       Malformed(local)
=============================================================================
