SPECIFICATION FairSpec
CONSTANTS
  a = a
  b = b
  desk = desk
  NoCall = NoCall
  NoOrder = NoOrder
  NoMessage = NoMessage
  Order = {a, b}
  Station = {desk}
  StationOf <- Stations
  MaxRetries = 2
  Attempts = 1
INVARIANTS OneResult
PROPERTIES EachIsSettled
CHECK_DEADLOCK FALSE
