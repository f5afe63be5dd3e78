SPECIFICATION Spec
CONSTANTS
  Calls = {c1, c2}
  Keys = {k}
  Names = {"a", "b"}
  Kinds = {"email", "chat"}
  UrlKind = "email"
  Capacity <- MCCapacity
  Addresses = {"friend", "stranger"}
  Allowed = {"friend"}
  Requests <- MCRequests
  Sets <- MCSets
  Retention = 1
  Horizon = 3
  MaxMishaps = 1
  MaxReloads = 1
SYMMETRY Symmetry
INVARIANT NeverNil
CHECK_DEADLOCK FALSE
