SPECIFICATION Spec
CONSTANTS
  Visitors = {u, v, w}
  Apart = w
  Sources = {"x", "y"}
  SourceOf <- MCSourceOf
  Passwords = {"p", "q", "f"}
  Earlier = {"p"}
  Short = {"f"}
  FilePassword = "f"
  KeyIds = {"k"}
  Lists = {"all", "few"}
  Requests <- MCRequests
  FileKeys = {{}, {"k"}}
  TTL = 1
  FreeAttempts = 1
  MaxBackoff = 2
  MaxEntries = 2
  MaxSessions = 2
  MaxRequests = 4
  MaxMishaps = 1
  Horizon = 1
SYMMETRY MCPermutations
INVARIANTS OneCreator OldSessionsEnd ThrottleHolds KeysAreAsAsked
CHECK_DEADLOCK FALSE
