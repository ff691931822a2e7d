CONSTANTS
  Consumption = {c1}
  ParamOrder <- MCParamOrder
  Shape <- MCShape
  CacheGop = TRUE
  MaxQLen = 1
  MaxGop = 2
  MaxPack = 5
  NoPack = NoPack
SPECIFICATION Spec
INVARIANTS
  TypeOK
  QueueIsBounded
  CacheHoldsCurrentGop
PROPERTIES
  FeedIsProper
CHECK_DEADLOCK FALSE
