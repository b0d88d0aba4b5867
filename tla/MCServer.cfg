CONSTANTS
  Request = {r1, r2}
  SourceFile = {s1, s2}
  OldFile = old
  NoApp = NoApp
  NoContext = NoContext
  NoEndpoint = NoEndpoint
  PoolSize = 2
  MaxFaults = 1
  Undefined = Undefined
  V4 = {a1, a2}

SPECIFICATION Spec

INVARIANTS
  TypeOK
  ConfigIsOwn
  OwnContext
  AnswerFitsOutcome
  StarvedBySocialSignUps
  ShutdownFailsOnlyRedisUsers
  UnreadyAfterHooks
  LastFileOfSectionCounts
  KnownByForm

PROPERTIES
  RequestsEnd
  ShutdownEnds

CHECK_DEADLOCK FALSE
