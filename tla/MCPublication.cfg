CHECK_DEADLOCK FALSE
SPECIFICATION HostedSpec
CONSTANTS
  Study = {st1}
  Interview = {i1}
  Operation = {o1, o2}
  Content = {c1}
  Of <- MCOf
  MaxRevision = 2
  MaxAuxiliary = 1
  PurgeBatch = 1
  SaveMaximum = 1
  None = None
  MaxLiveOps = 2
  Environments = {{"create", "delete"}}
INVARIANT PublishingIsRepairable
