CONSTANTS
  r1 = r1
  r2 = r2
  r3 = r3
  t1 = t1
  t2 = t2
  t3 = t3
  u1 = u1
  p1 = p1
  Request = {r1, r2}
  Token = {t1, t2, t3}
  UUID = {u1}
  Project = {p1}
  TTL = 1
  MaxNow = 2
  NoToken = NoToken
  NoRecord = NoRecord
  NoClaims = NoClaims
SPECIFICATION SerialSpec
SYMMETRY Symmetry
CHECK_DEADLOCK FALSE
INVARIANTS
  OneLiveTokenPerSignIn
  LogoutEndsSession
PROPERTIES
  KeepsPromise
