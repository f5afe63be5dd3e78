-------------------------- MODULE MCChannelConfig --------------------------
EXTENDS ChannelConfig, ConfigChecks, TLC

MCCredential == [k \in Kinds |-> IF k = "mail" THEN "password" ELSE "none"]

MCGenerated == <<"k1", "k2">>

Mail(host, secret) == [kind |-> "mail", on |-> TRUE, host |-> host, secret |-> secret]
Hook(on) == [kind |-> "hook", on |-> on, host |-> "h", secret |-> "none"]

Ask(do, name, cfg, keep, create) ==
  [do |-> do, name |-> name, cfg |-> cfg, keep |-> keep, create |-> create,
   replace |-> FALSE]

MCRequests ==
  { Ask("save", "a", Mail("h", "none"), TRUE, FALSE),
    Ask("save", "a", Mail("h", "none"), FALSE, FALSE),
    Ask("save", "a", Mail("h", "s"), FALSE, TRUE),
    Ask("save", "a", Hook(FALSE), TRUE, FALSE),
    Ask("delete", "a", Hook(FALSE), FALSE, FALSE),
    Ask("delete", "b", Hook(FALSE), FALSE, FALSE) }

File(valid, k, st, a, b) ==
  [valid |-> valid, key |-> k, settings |-> st,
   channels |-> ("a" :> a @@ "b" :> b)]

MCFiles ==
  { File(TRUE, "none", 1, Absent, Absent),
    File(TRUE, "none", 2, Mail("h", "s"), Hook(TRUE)),
    File(TRUE, "own", 1, Mail("bad", "s"), Absent) }

MCHandRows == {Mail("bad", "s"), Hook(TRUE)}

MCPermutations == Permutations(Admins)

=============================================================================
