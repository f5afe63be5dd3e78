\* Every window limited; reservations are settled while they count.
SPECIFICATION Spec
CONSTANTS
  Callers = {c1, c2, c3}
  Shorts <- MCShorts
  Longs <- MCLongs
  Span <- MCSpan
  Limit <- MCLimit
  Quick = TRUE
  Horizon = 6
  MaxMishaps = 1
SYMMETRY Symmetry
INVARIANTS
  
  LongKept
  LastExact
CHECK_DEADLOCK TRUE
