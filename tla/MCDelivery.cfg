SPECIFICATION Spec
CONSTANTS
  Interview = {v1}
  Invocation = {c1, c2}
  Key = {}
  MaxGeneration = 1
  MaxEpoch = 1
  Lease = 3
  Deadline = 1
  Margin = 1
  MaxDispatch = 2
  BackoffBase = 1
  BackoffCap = 2
  Watchdog = 2
  FailureRetry = 1
  QuarantineMax = 2
  HeldRetry = 2
  CleanupInterval = 3
  Batch = 1
  MaxLate = 1
  Environment = {"lost"}
  Backoff <- MCBackoff
  None = None
SYMMETRY SafetySymmetry
CHECK_DEADLOCK FALSE
INVARIANTS
  TypeOK
  AtMostOnePaidCall
  GrantedTimeIsKept
PROPERTIES
  KeepsPromise
