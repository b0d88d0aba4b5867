CONSTANTS
  r1 = r1
  r2 = r2
  u1 = u1
  u2 = u2
  w1 = w1
  w2 = w2
  c1 = c1
  c2 = c2
  e1 = e1
  p1 = p1
  p2 = p2
  Request = {r1, r2}
  Uid = {u1, u2}
  Email = {e1}
  Password = {w1, w2}
  Code = {c1, c2}
  Project = {p1, p2}
  NoUid = NoUid
  NoEmail = NoEmail
  NoCode = NoCode
  NoProject = NoProject
  NoRow = NoRow
  Window = 1
  MaxNow = 2
SPECIFICATION Spec
SYMMETRY Symmetry
CHECK_DEADLOCK FALSE
INVARIANTS
  SessionsAreForMembers
