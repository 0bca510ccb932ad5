SPECIFICATION Spec
CONSTANTS
  w1 = w1
  w2 = w2
  o1 = o1
  v1 = v1
  v2 = v2
  None = None
  Lost = Lost
  Writer = {w1, w2}
  Order = {o1}
  VideoId = {v1, v2}
  MaxKept = 2
  MaxHistory = 2
  MaxResults = 2
  MaxVideos = 3
  MaxClears = 1
  MaxCrashes = 2
  MaxFailures = 1
SYMMETRY Symmetry
CHECK_DEADLOCK FALSE
INVARIANTS
  RunsInOrder
  StampsAgree
PROPERTIES
  RestartKeepsVideos
