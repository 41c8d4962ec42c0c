SPECIFICATION Spec
CONSTANTS
  t1 = t1
  t2 = t2
  l1 = l1
  b1 = b1
  b2 = b2
  n1 = n1
  r1 = r1
  r2 = r2
  a1 = a1
  a2 = a2
  s1 = s1
  s2 = s2
  home = home
  Tenants = {t1, t2}
  Replicas = {x1, x2}
  Absent = Absent
  Deployments <- AllDeployments
  Browsers = {b1, b2}
  Names = {n1}
  Requests = {r1, r2}
  Assertions = {a1, a2}
  Indexes = {s1, s2}
  Relays = {home}
  Callbacks = {c1, c2}
  Logouts = {l1, l2}
  Seed = seed
  MaximumRetries = 2
SYMMETRY Symmetry
CHECK_DEADLOCK FALSE
INVARIANTS
  AdministratorWins
  UsedOnce
  AuditComplete
  SessionsReachable
  RoleChangesRevoke
PROPERTIES
  RefreshNeverRegresses
  RevokedStaysRevoked
