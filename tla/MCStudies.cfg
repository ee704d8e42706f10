SPECIFICATION Spec
CONSTANTS
  Study = {st1, st2}
  Link = {l1}
  Session = {s1}
  Key = {k1}
  Request = {r1}
  Editor = {e1}
  Content = {a}
  Language = {en, fr}
  MaxRevision = 2
  MaxTime = 3
  MaxLate = 0
  SessionTTL = 1
  ConsentTTL = 1
  LinkTTL = 1
  LinkGrace = 1
  ReceiptTTL = 2
  FenceTTL = 3
  MaxReceipts = 2
  MaxActiveLinks = 1
  Scope = {"study"}
  ClientWindow = 1
  StudyWindow = 1
  ClientMaximum = 1
  StudyMaximum = 1
  Window <- MCWindow
  Maximum <- MCMaximum
  MemberGrace = 0
  Existing = {}
  Environment = {"create", "delete", "edit", "expiry", "operator"}
  None = None
SYMMETRY IdSymmetry
CHECK_DEADLOCK FALSE
INVARIANTS
  EvidenceAgrees
  KeyMakesOneStudy
