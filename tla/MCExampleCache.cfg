CONSTANTS
  Request = {r1, r2, r3}
  Id = {i1}
  Field = {name}
  Text = {a, b}
  NoId = NoId
  NoRow = NoRow
  MaxWrites = 4
SPECIFICATION Spec
CHECK_DEADLOCK FALSE
INVARIANTS
  TypeOK
  QuietCacheIsCurrent
PROPERTIES
  RemovedStaysRemoved
  StoreKept
  EventuallyCurrent
  EveryRequestEnds
