SPECIFICATION Spec
CONSTANTS
  Requests = {d1, d2, i1, i2}
  Drafts = {d1, d2}
  Creations = {i1, i2}
  Clients = {c1, c2}
  Free = Free
  Absent = Absent
  Numbers = {n1, n2}
  OldNumbers = {}
  MaxFaults = 1
  MaxCrashes = 1
SYMMETRY Symmetric
CHECK_DEADLOCK FALSE
INVARIANTS
  TypeOK
  RowsAccounted
  MailedIsStored
  ClientsAccounted
  DraftedOnce
