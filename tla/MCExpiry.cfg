SPECIFICATION Spec
CONSTANTS
  Study = {st1}
  Link = {l1}
  Session = {s1, s2}
  Key = {}
  Request = {r1}
  Editor = {}
  Content = {a}
  Language = {en}
  MaxRevision = 1
  MaxTime = 4
  MaxLate = 1
  SessionTTL = 2
  ConsentTTL = 2
  LinkTTL = 3
  LinkGrace = 0
  ReceiptTTL = 1
  FenceTTL = 1
  MaxReceipts = 1
  MaxActiveLinks = 1
  Scope = {"client", "study"}
  ClientWindow = 2
  StudyWindow = 4
  ClientMaximum = 1
  StudyMaximum = 2
  Window <- MCWindow
  Maximum <- MCMaximum
  MemberGrace = 1
  Existing = {st1}
  Environment = {"expiry", "deploy"}
  None = None
SYMMETRY IdSymmetry
CHECK_DEADLOCK FALSE
INVARIANTS
  EvidenceAgrees
  AdmissionHolds
PROPERTIES
  ConsentNeverRenewed
