SPECIFICATION Spec
CONSTANTS
  Study = {st1}
  Link = {l1}
  Session = {s1, s2}
  Key = {}
  Request = {r1, r2}
  Editor = {}
  Content = {a, b}
  Language = {en}
  MaxRevision = 1
  MaxTime = 0
  MaxLate = 0
  SessionTTL = 1
  ConsentTTL = 1
  LinkTTL = 1
  LinkGrace = 1
  ReceiptTTL = 1
  FenceTTL = 1
  MaxReceipts = 1
  MaxActiveLinks = 1
  Scope = {"study"}
  ClientWindow = 1
  StudyWindow = 1
  ClientMaximum = 1
  StudyMaximum = 1
  Window <- MCWindow
  Maximum <- MCMaximum
  MemberGrace = 0
  Existing = {st1}
  Environment = {"lost", "pause", "revoke", "delete", "operator"}
  None = None
SYMMETRY IdSymmetry
CHECK_DEADLOCK FALSE
INVARIANTS
  TypeOK
  TablesAgree
PROPERTIES
  ClosedCollectsNothing
  KeepsInterviews
