CONSTANTS
  Consumption = {c1, c2}
  Flv = {}
  Stopper = {s1}
  Closer = {x1}
  Replacing = {}
  Written = {}
  None = None
  MaxQueue = 1
SPECIFICATION Spec
INVARIANT ClosedStreamHasNoConsumer
CHECK_DEADLOCK FALSE
