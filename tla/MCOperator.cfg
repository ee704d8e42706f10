SPECIFICATION Spec
CONSTANTS
  Interview = {v1}
  Invocation = {c1, c2}
  Key = {}
  MaxGeneration = 1
  MaxEpoch = 2
  Lease = 3
  Deadline = 1
  Margin = 1
  MaxDispatch = 1
  BackoffBase = 1
  BackoffCap = 2
  Watchdog = 2
  FailureRetry = 1
  QuarantineMax = 2
  HeldRetry = 2
  CleanupInterval = 3
  Batch = 1
  MaxLate = 0
  Environment = {"operator", "deploy"}
  Backoff <- MCBackoff
  None = None
SYMMETRY SafetySymmetry
CHECK_DEADLOCK FALSE
INVARIANTS
  ProjectionAgrees
PROPERTIES
  HeldIsInert
  StaleEpochNeverStarts
