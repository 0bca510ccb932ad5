SPECIFICATION FairSpec
CONSTANTS
  a = a
  b = b
  Station = {a, b}
  Worker = {v, w}
  MaxRequests <- Requests
  MaxBatchSize = 2
  RequestCap = 2
  WorkCap = 1
  ResponseCap = 2
  Nobody = Nobody
CHECK_DEADLOCK FALSE
INVARIANTS
  TypeOK
  HandledOnce
  NothingLost
  ArrivalOrder
PROPERTIES
  KeepsPromise
  AllAnswered
