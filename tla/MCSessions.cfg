CONSTANTS
  Session = {a, b}
  Kind = {"rtsp", "wsp"}
  Stream = {t1, t2}
  Multicast = {t1}
  MaxCid = 2
  None = None
SPECIFICATION Spec
SYMMETRY Symmetry
INVARIANTS
  TypeOK
  RolesAgree
  EndedSessionIsDetached
  ProxyRunsForMembers
PROPERTIES
  StopsItsOwn
CHECK_DEADLOCK FALSE
