CONSTANTS
  Consumption = {c1}
  Flv = {}
  Stopper = {s1, s2}
  Closer = {x1}
  Replacing = {}
  Written = {}
  None = None
  MaxQueue = 1
SPECIFICATION Spec
INVARIANT CountIsExact
CHECK_DEADLOCK FALSE
