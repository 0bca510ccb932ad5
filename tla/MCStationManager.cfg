SPECIFICATION PoolFairSpec
CONSTANTS
  MaxId = 4
  PreCreated = 3
CHECK_DEADLOCK FALSE
INVARIANTS
  NoStray
PROPERTIES
  NumbersAreFresh
  ResizeReturns
