SPECIFICATION Spec
CONSTANTS
  u1 = u1
  u2 = u2
  home = home
  target = target
  base = base
  extra = extra
  use = use
  admin = admin
  e1 = e1
  e2 = e2
  s1 = s1
  s2 = s2
  app1 = app1
  app2 = app2
  p1 = p1
  p2 = p2
  h1 = h1
  h2 = h2
  h3 = h3
  h4 = h4
  h5 = h5
  Absent = Absent
  Users = {u1, u2}
  Tenants = {home, target}
  RoleNames = {base, extra}
  Scopes = {use, admin}
  Emails = {e1, e2}
  Handlers = {h1, h2, h3, h4, h5}
  RequestIds = {q1, q2}
  CodeIds = {c1, c2}
  Apps = {app1, app2}
  Sessions = {s1, s2}
  RequestTTL = 2
  CodeTTL = 1
  MaxTime = 4
  Deployments <- AllDeployments
CHECK_DEADLOCK FALSE
INVARIANTS
  ConsentHonoured
  DecisionsRestOnCurrentAuthority
PROPERTIES
  GrantsAreTickets
