\* Nothing waits for ever.  Horizon - LastEvent exceeds MaxAge, the longest
\* delay and ClaimTimeout, so whatever has to happen happens before the clock
\* stops; a delivery that only needed more time would show as a violation.
SPECIFICATION FairSpec
CONSTANTS
  Ids = {d1, d2}
  Workers = {w1}
  None = None
  Requests <- MCRequests
  Backoff <- MCBackoff
  MaxAttempts = 2
  MaxAge = 2
  Batch = 2
  DeliverTimeout = 1
  ClaimTimeout = 2
  ReleaseDelay = 1
  SentRetention = 2
  FailedRetention = 3
  Answers = {"SENT", "TRANSIENT", "CONNECT_ERROR"}
  Punctual = TRUE
  Horizon = 7
  LastEvent = 3
  MaxMishaps = 1
  MaxReplays = 1
PROPERTIES
  EventuallySettled
  OrphanBodiesCollected
CHECK_DEADLOCK TRUE
