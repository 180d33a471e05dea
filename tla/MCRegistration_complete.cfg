SPECIFICATION Spec
CONSTANTS
  Requests = {r1}
  Registrations = {r1}
  Clients = {c1, c2}
  Free = Free
  Emails = {e1}
  Names = {n1}
  OrgIds = {g1}
  NoId = NoId
  MaxFaults = 0
  MaxCrashes = 0
CHECK_DEADLOCK FALSE
INVARIANTS
  FailureExplained
