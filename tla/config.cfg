SPECIFICATION Spec
CONSTANTS
  Admins = {a1, a2}
  Hup = hup
  Names = {"a", "b"}
  Kinds = {"mail", "hook"}
  Registered = {"mail", "hook"}
  Credential <- MCCredential
  Hosts = {"h", "bad"}
  Misfits = {"bad"}
  Secrets = {"s"}
  KeyConfigured = {"own"}
  Settings = {1, 2}
  Requests <- MCRequests
  Files <- MCFiles
  HandRows <- MCHandRows
  Generated <- MCGenerated
  MaxMishaps = 1
  MaxEdits = 2
SYMMETRY MCPermutations
INVARIANTS QuietIsLive RestartWorks SealsAreKept FileSeedsOnce
CHECK_DEADLOCK FALSE
