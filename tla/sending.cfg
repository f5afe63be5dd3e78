CONSTANTS
  a = a
  b = b
  t = t
  Senders <- MCSenders
  Testers <- MCTesters
  Kinds <- MCKinds
  Addresses = 2
  Intervals = {1, 2}
  Horizon = 2
  MaxSends = 3
  MaxRetired = 2
SPECIFICATION Spec
SYMMETRY MCPermutations
INVARIANTS
  Spaced
  FetchedForACause
  RefusedOnce
  VerdictIsThePeers
CHECK_DEADLOCK FALSE
