SPECIFICATION Spec
CONSTANTS
  Interview = {v1}
  Invocation = {c1}
  Key = {k1, k2}
  MaxGeneration = 2
  MaxEpoch = 1
  Lease = 3
  Deadline = 1
  Margin = 1
  MaxDispatch = 1
  BackoffBase = 1
  BackoffCap = 2
  Watchdog = 2
  FailureRetry = 1
  QuarantineMax = 2
  HeldRetry = 2
  CleanupInterval = 3
  Batch = 1
  MaxLate = 0
  Environment = {"retry", "lost", "delete"}
  Backoff <- MCBackoff
  None = None
SYMMETRY SafetySymmetry
CHECK_DEADLOCK FALSE
INVARIANTS
  ProjectionAgrees
PROPERTIES
  GenerationsAreSerial
  TerminalIsFinal
