SPECIFICATION Spec
CONSTANTS
  Interview = {v1, v2}
  Invocation = {c1}
  Key = {}
  MaxGeneration = 1
  MaxEpoch = 1
  Lease = 2
  Deadline = 1
  Margin = 1
  MaxDispatch = 1
  BackoffBase = 1
  BackoffCap = 2
  Watchdog = 1
  FailureRetry = 1
  QuarantineMax = 2
  HeldRetry = 1
  CleanupInterval = 2
  Batch = 1
  MaxLate = 0
  Environment = {"storage", "restart", "operator"}
  Backoff <- MCBackoff
  None = None
SYMMETRY SafetySymmetry
CHECK_DEADLOCK FALSE
INVARIANTS
  WakeUpArmed
