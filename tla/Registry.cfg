SPECIFICATION Spec
CONSTANTS
  u1 = u1
  u2 = u2
  master = master
  work = work
  shop = shop
  j1 = j1
  j2 = j2
  j3 = j3
  Absent = Absent
  Users = {u1, u2}
  Jobs = {j1, j2, j3}
  Brokers = {shop}
  Master = master
  Workloads = {work}
  ScopeNames = {"users", "platform", "self", "ai:read", "ai:write", "invoke"}
  Assignable = {"users", "self", "ai:read", "ai:write", "invoke"}
  Attempts = 2
  Deployments <- AllDeployments
CHECK_DEADLOCK FALSE
INVARIANTS
  OwnedRecordsPaired
  NoReportedScopeLost
  RolesBeforeUse
PROPERTIES
  RecordsKeepStanding
