\* Three deliveries at once, two policies, a crash or a failing store.  The
\* outage ends at LastEvent; Horizon leaves the longest OpenTimeout.
SPECIFICATION FairSpec
CONSTANTS
  Callers = {c1, c2, c3}
  Policies <- MCTwoPolicies
  Horizon = 6
  LastEvent = 3
  MaxMishaps = 1
INVARIANTS
  SlotsAreHeld
  WrittenThrough
PROPERTY Recovers
CHECK_DEADLOCK TRUE
