\* A claim that outlasts a batch: ClaimTimeout = Batch * DeliverTimeout.
SPECIFICATION Spec
CONSTANTS
  Ids = {d1, d2}
  Workers = {w1, w2}
  None = None
  Requests <- MCRequests
  Backoff <- MCBackoff
  MaxAttempts = 2
  MaxAge = 3
  Batch = 2
  DeliverTimeout = 1
  ClaimTimeout = 2
  ReleaseDelay = 1
  SentRetention = 3
  FailedRetention = 3
  Answers = {"SENT", "PERMANENT", "TRANSIENT", "NOT_ATTEMPTED"}
  Punctual = TRUE
  Horizon = 5
  LastEvent = 5
  MaxMishaps = 1
  MaxReplays = 2
SYMMETRY Symmetry
INVARIANTS
  SnapshotFresh
  ClaimIsExclusive
  BudgetKept
  ScheduleBounded
  
  NothingLost
  RefusedIsNeverSent
PROPERTY KeepsPromise
CHECK_DEADLOCK TRUE
