CONSTANTS
  thePath = p1
  Stream = {s1, s2}
  Path <- MCPath
  PathOf <- MCPathOf
  Pulled = {s1, s2}
  Pushed = {s1, s2}
  KeepAlive = {s2}
  Hls = {s1}
  Viewer = {v1, v2}
  None = None
SPECIFICATION FairSpec
INVARIANTS
  TypeOK
  EndedSourceLeavesNothing
  ReplacedIsNotForgotten
PROPERTIES
  ClosedStreamLosesSource
  AbandonedStreamCloses
  ReplacedStreamCloses
CHECK_DEADLOCK FALSE
