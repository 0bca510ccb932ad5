SPECIFICATION Spec
CONSTANTS
  NoOrder = 0
  Order = {1, 2}
  Frames = 3
  MinFrames = 2
  MinItems = 2
  MaxBucket = 2
  MaxOrders = 2
INVARIANTS OwnFrames CallFindsFrames
PROPERTIES CompleteIsAsked
CHECK_DEADLOCK FALSE
