SPECIFICATION FairSpec
CONSTANTS
  NoService = NoService
  c1 = c1
  c2 = c2
  Caller = {c1, c2}
  MaxServices = 2
  MaxTasks = 3
  Initial = 1
  Least = 1
  Most = 2
CHECK_DEADLOCK FALSE
INVARIANTS
  PoolBounded
  NoOrphan
PROPERTIES
  StopEnds
