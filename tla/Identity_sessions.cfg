CONSTANTS
  u1 = u1
  o1 = o1
  s1 = s1
  s2 = s2
  g1 = g1
  c1 = c1
  Users = {u1, o1}
  Local = {u1}
  Sessions = {s1, s2}
  Grants = {g1}
  Codes = {c1}
  Op = Op
  NoUser = NoUser
  NoSession = NoSession
  MaxPassword = 2
  MaxRotations = 2
  MaxMail = 2
  MaxReset = 1
  MaxRequests = 1
SPECIFICATION Spec
SYMMETRY Symmetric
CHECK_DEADLOCK FALSE
INVARIANTS SessionsAgree  UsedOnce
PROPERTIES RevocationFinal
