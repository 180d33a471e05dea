SPECIFICATION Spec
CONSTANTS
  Requests = {r1, r2, r3}
  Registrations = {r1, r2, r3}
  Clients = {c1, c2, c3}
  Free = Free
  Emails = {e1, e2}
  Names = {n1, n2}
  OrgIds = {g1}
  NoId = NoId
  MaxFaults = 1
  MaxCrashes = 1
SYMMETRY Symmetric
CHECK_DEADLOCK FALSE
INVARIANTS
  TypeOK
  ClientsAccounted
  RegisteredOnce
  OrphanExplained
PROPERTIES
  OrphanForGood
  DirectorySpec
