SPECIFICATION Spec
CONSTANTS
  r1 = r1  r2 = r2  r3 = r3  r4 = r4
  a1 = a1  a2 = a2  x1 = x1  x2 = x2  m1 = m1  m2 = m2
  p0 = p0  p1 = p1  p2 = p2
  Requests = {r1, r2, r3, r4}
  Admins = {a1, a2}
  Addresses = {x1, x2}
  Messages = {m1, m2}
  Passwords = {p0, p1, p2}
  Registered <- RegisteredP0
  Casts <- AllCasts
  MaxFaults = 1
  Absent = Absent
  Null = Null
CHECK_DEADLOCK FALSE
INVARIANTS
  TypeOK
  LatestUpdateStands
  LogInsKnowThePassword
  LogOutStands
  WalletSignsIn
  BoundOnce
  GeneralOnce
