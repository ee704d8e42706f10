\* The parts may stop: what is not begun again ends.
CHECK_DEADLOCK FALSE
SPECIFICATION Spec
CONSTANTS
  Study = {st1}
  Interview = {i1}
  Operation = {o1, o2}
  Content = {c1, c2}
  Of <- MCOf
  MaxRevision = 2
  MaxAuxiliary = 1
  PurgeBatch = 1
  SaveMaximum = 1
  None = None
  MaxLiveOps = 2
  Environments = {{}, {"create", "delete", "lost", "cut"}, {"create", "delete", "lost", "expiry", "split"},
                  {"create", "delete", "save", "lost"}, {"delete", "save", "lost", "cut"},
                  {"delete", "save", "edit"}, {"delete", "save", "aggregate"}}
  MaxOwned = 1
  Deleter = {d1, d2}
  Request = {r1, r2}
  Key = {k1}
  Epoch = {0, 1, 2}
  Quota = 2
  MaxSequence = 4
  MaxVersion = 2
  Scenarios = {{}, {"operate", "restore"}, {"export"}, {"remove"}}
  Run = {n1, n2, n3}
  NoRun = NoRun
  Attempt = {a1, a2, a3}
  Owner = {w1, w2}
  Shared = Shared
  MaximumOf <- MCMaximumOf
  LengthOf <- MCLengthOf
  Horizon = 3
  Tab = {p1}
  Batch = {b1}
  Blank = Blank
  MaxShown = 2
  MaxMinted = 1
  Troubles = {{}, {"suspended", "failed", "budget"}, {"failed", "left", "lost"}, {"suspended", "lost"}, {"batch", "stopped"}}
  Fixture = {f1}
  Joiner = {j1}
  Caller = {q1, q2, q3}
  TheStudy = TheStudy
  Nothing = Nothing
  MaxWindow = 1
  MaxMade = 2
  Meddling = {{}, {"strangers", "elsewhere"}, {"update", "token", "key", "gateway"}}
INVARIANTS
  TypeOK
  PendingIsResolvable
  StudyIsRouted
  RecordedOutcomeHolds
  NothingOutlivesItsStudy
  ToldSavedIsKept
  
  SuccessorIsSpared
  OneCallPerQuestion
  PaidAnswerIsKept
  UncertainWorkIsMarked
  ExportIsOneState
  OverlapNeedsAnEndedLease
  ReportedResultStands
  WindowsAreConserved
  ReceiptIsTrue
PROPERTIES
  PagesKeepPromise
  ClearedIsGone
