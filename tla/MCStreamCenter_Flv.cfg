CONSTANTS
  thePath = p1
  Stream = {s1, s2}
  Path <- MCPath
  PathOf <- MCPathOf
  Pulled = {s1}
  Pushed = {s2}
  KeepAlive = {}
  Hls = {s1}
  Viewer = {v1, v2}
  None = None
SPECIFICATION Spec
PROPERTY TaskSparesConsumers
CHECK_DEADLOCK FALSE
