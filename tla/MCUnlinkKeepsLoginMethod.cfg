CONSTANTS
  r1 = r1
  r2 = r2
  u1 = u1
  u2 = u2
  s1 = s1
  s2 = s2
  p1 = p1
  p2 = p2
  Request = {r1, r2}
  Uid = {u1, u2}
  Social = {s1, s2}
  Project = {p1, p2}
  NoUid = NoUid
  NoSocial = NoSocial
  NoProject = NoProject
SPECIFICATION Spec
SYMMETRY Symmetry
CHECK_DEADLOCK FALSE
PROPERTIES
  UnlinkKeepsLoginMethod
