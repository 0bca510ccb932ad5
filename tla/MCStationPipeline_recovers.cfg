SPECIFICATION FairSpec
CONSTANTS
  NoPid = NoPid
  Pid = {p1, p2}
  MaxFailures = 2
  RestartCap = 3
  MaxSyncRetries = 2
PROPERTIES
  Recovers
