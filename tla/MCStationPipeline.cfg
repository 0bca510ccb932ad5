SPECIFICATION FairSpec
CONSTANTS
  NoPid = NoPid
  Pid = {p1, p2}
  MaxFailures = 2
  RestartCap = 2
  MaxSyncRetries = 2
INVARIANTS
  TypeOK
  TrackedPipeline
  OneRestarter
  QuietWhenOpen
PROPERTIES
  StaysPlayedOut
  ShutdownCompletes
  CircuitRetried
