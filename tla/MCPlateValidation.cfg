SPECIFICATION BusySpec
CONSTANTS
  Task = {t1, t2}
  Name <- Names
  Orders <- Menu
  Plates <- Photos
  Likeness <- Confidence
  Top = 3
  Cut = 2
  Threshold = 3
  Needed = 2
CHECK_DEADLOCK FALSE
INVARIANTS
  TypeOK
  CompleteIsRight
  ServedIsComplete
PROPERTIES
  Recovers
