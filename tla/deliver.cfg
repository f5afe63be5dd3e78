SPECIFICATION Spec
CONSTANTS
  Callers = {c1, c2}
  Policies <- MCPolicies
  Shorts <- MCShorts
  Longs <- MCLongs
  Span <- MCSpan
  Limit <- MCLimit
  MaxParts = 2
  Horizon = 2
  MaxMishaps = 1
SYMMETRY Symmetry
INVARIANTS
  OverHoldsNothing
  SkippedIsUntouched
  SentIsEarned
  OnlyFaultsOpen
  
CHECK_DEADLOCK TRUE
