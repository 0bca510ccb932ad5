SPECIFICATION FairSpec
CONSTANTS
  a = a
  x = x
  f = f
  g = g
  NoOrder = NoOrder
  Order = {a, x}
  Known = {a}
  Frame = {f, g}
INVARIANTS AtMostOneRepeat
PROPERTIES StableInput MarkedProcessed
CHECK_DEADLOCK FALSE
