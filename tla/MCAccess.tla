------------------------------ MODULE MCAccess ------------------------------
EXTENDS Access, TLC

CONSTANT Apart  \* the visitor with an address of his own

MCSourceOf == [v \in Visitors |-> IF v = Apart THEN "y" ELSE "x"]

MCPermutations == Permutations(Visitors \ {Apart})

Ask(do, pw, new, on, list) ==
  [do |-> do, pw |-> pw, new |-> new, key |-> "k", on |-> on, list |-> list]

MCRequests ==
  { Ask("login", "p", "p", "same", "same"),
    Ask("login", "f", "p", "same", "same"),
    Ask("change", "p", "q", "same", "same"),
    Ask("setup", "p", "q", "same", "same"),
    Ask("setup", "p", "f", "same", "same"),
    Ask("logout", "p", "p", "same", "same"),
    Ask("make", "p", "p", "same", "all"),
    Ask("set", "p", "p", "off", "same"),
    Ask("set", "p", "p", "same", "few"),
    Ask("drop", "p", "p", "same", "same") }

=============================================================================
