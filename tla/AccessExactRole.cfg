SPECIFICATION Spec
CONSTANTS
    u1 = u1  u2 = u2  u3 = u3  g1 = g1  g2 = g2
    NoId = NoId  NoGroup = NoGroup  NoAssignment = NoAssignment  NoName = NoName
    AnyETag = AnyETag  NoETag = NoETag
    Users = {u1, u2, u3}
    Groups = {g1, g2}
    Tenants = {t1}
    Roles = {r1, r2}
    Procs = {p1, p2}
    Names <- MCNames
    Keys <- MCKeys
    Lower <- MCLower
    Deployments <- RoleDeployments
    MaxVersion = 2
    MaxRetries = 2
PROPERTY ConcurrentChangeNotOverwritten
CHECK_DEADLOCK FALSE
