SPECIFICATION Spec
CONSTANTS
  r1 = r1  r2 = r2  r3 = r3  a1 = a1  e1 = e1  c1 = c1
  Requests = {r1, r2, r3}
  Admins = {a1}
  Employees = {e1}
  Clients = {c1}
  Pictured <- AllOrNone
  Casts <- AllCasts
  MaxFaults = 1
  Null = Null
  Absent = Absent
CHECK_DEADLOCK FALSE
INVARIANTS
  TypeOK
  DanglingExplained
  LeakExplained
