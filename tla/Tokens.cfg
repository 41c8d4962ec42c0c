SPECIFICATION Spec
CONSTANTS
  master = master
  t1 = t1
  t2 = t2
  e1 = e1
  emp = emp
  global = global
  local = local
  fed = fed
  plat = plat
  h1 = h1
  h2 = h2
  read = read
  write = write
  secret = secret
  feature = feature
  tenants = tenants
  logs = logs
  claim = claim
  Absent = Absent
  Users = {emp, global, local, fed, plat}
  Tenants = {master, t1, t2}
  RoleNames = {"ADMIN", "EMPLOYEE", "reader", "m-admin", "t1-admin", "t2-admin"}
  Scopes = {read, write, secret, feature, tenants, logs, claim}
  Emails = {e1}
  Handlers = {h1, h2}
  Master = master
  TenantOrder <- Order
  CreatorRole <- Creators
  Assignable = {read, write, secret, feature}
  External = {claim}
  PlatformScope = tenants
  LogsScope = logs
  IdentityWrite = write
  FeatureWrite = feature
  SecretScopes = {secret}
  EmployeeScopes = {claim}
  Deployments <- AllDeployments
CHECK_DEADLOCK FALSE
INVARIANTS
  TokenScopesJustified
  AcceptanceIsCurrent
  FreshTokensAccepted
