SPECIFICATION Spec
CONSTANTS
    u1 = u1  u2 = u2  u3 = u3
    e1 = e1  e2 = e2  e3 = e3
    p1 = p1  p2 = p2
    k1 = k1  k2 = k2
    NoUser = NoUser  NoUid = NoUid  NoEmail = NoEmail  NoProof = NoProof
    Uids = {u1, u2, u3}
    Emails = {e1, e2, e3}
    Procs = {p1, p2}
    Codes = {k1, k2}
    SeedEmail <- MCSeedEmail
    Deployments <- SelfDeleteDeployments
    MaxRevision = 1
    MaxRetries = 2
INVARIANTS
    SelfDeleteRemovesSubject
CHECK_DEADLOCK FALSE
