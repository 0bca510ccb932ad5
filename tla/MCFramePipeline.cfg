SPECIFICATION Spec
CONSTANTS
  a = a
  b = b
  x = x
  NoOrder = NoOrder
  Order = {a}
  Misread = {x}
  PreBuffer = 3
  TsMap = 1
  Confirm = 2
  QueueSize = 2
  MaxFrames = 8
  Changes = {8, 5, 2}
INVARIANTS HonestMarker
PROPERTIES NoLeak KeepsFeed
CHECK_DEADLOCK FALSE
