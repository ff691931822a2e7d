CONSTANTS
  Consumption = {c1, c2}
  Flv = {c1}
  Stopper = {s1}
  Closer = {x1}
  Replacing = {}
  Written = {"rtp"}
  None = None
  MaxQueue = 1
SPECIFICATION FairSpec
INVARIANTS
  TypeOK
  CountCoversConsumers
  NoLostConsumption
  ReleasedIsDetached
PROPERTIES
  ClosedConsumptionEnds
CHECK_DEADLOCK FALSE
