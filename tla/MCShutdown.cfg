CONSTANTS
  Request = {r1, r2}
  SourceFile = {s1}
  OldFile = old
  NoApp = NoApp
  NoContext = NoContext
  NoEndpoint = NoEndpoint
  PoolSize = 2
  MaxFaults = 0
SPECIFICATION RememberingSpec
CHECK_DEADLOCK FALSE
INVARIANTS
  ShutdownHandlesRequests
