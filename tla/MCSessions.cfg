CONSTANTS
  r1 = r1
  r2 = r2
  r3 = r3
  t1 = t1
  t2 = t2
  t3 = t3
  u1 = u1
  u2 = u2
  p1 = p1
  Request = {r1, r2}
  Token = {t1, t2, t3}
  UUID = {u1, u2}
  Project = {p1}
  TTL = 1
  MaxNow = 2
  NoToken = NoToken
  NoRecord = NoRecord
  NoClaims = NoClaims
SPECIFICATION Spec
SYMMETRY Symmetry
CHECK_DEADLOCK FALSE
INVARIANTS
  TypeOK
  SpentIsDead
  LineageKeepsIdentity
  RollingWindow
  NoSilentLoss
PROPERTIES
  RetiredStaysRetired
  EndsOnlyByRequestOrExpiry
