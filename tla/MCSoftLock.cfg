SPECIFICATION Spec
CONSTANTS
  Study = {st1}
  Link = {l1}
  Session = {s1}
  Key = {}
  Request = {r1}
  Editor = {e1}
  Content = {a}
  Language = {en}
  MaxRevision = 2
  MaxTime = 0
  MaxLate = 0
  SessionTTL = 1
  ConsentTTL = 1
  LinkTTL = 1
  LinkGrace = 1
  ReceiptTTL = 2
  FenceTTL = 3
  MaxReceipts = 1
  MaxActiveLinks = 1
  Scope = {"study"}
  ClientWindow = 1
  StudyWindow = 1
  ClientMaximum = 1
  StudyMaximum = 2
  Window <- MCWindow
  Maximum <- MCMaximum
  MemberGrace = 0
  Existing = {st1}
  Environment = {"edit"}
  None = None
SYMMETRY IdSymmetry
CHECK_DEADLOCK FALSE
PROPERTIES
  UnconfirmedEditFindsNoInterview
