SPECIFICATION FairSpec
CONSTANTS
  Requests = {r1, d1, i1}
  Registrations = {r1}
  Drafts = {d1}
  Creations = {i1}
  Clients = {c1, c2}
  Free = Free
  Absent = Absent
  OrgIds = {}
  NoId = NoId
  Emails = {e1}
  Names = {m1}
  Numbers = {n1}
  OldNumbers = {n1}
  MaxFaults = 1
  MaxCrashes = 1
CHECK_DEADLOCK FALSE
INVARIANTS
  NeverStuck
  DryTakesAsMany
PROPERTIES
  PoolSpec
  AnsweredOrExhausted
  ExhaustedForGood
