SPECIFICATION Spec
CONSTANTS
    u1 = u1  u2 = u2  u3 = u3  e1 = e1  e2 = e2  r1 = r1  r2 = r2  old = old  new = new
    NoUid = NoUid  NoRecord = NoRecord  NoRole = NoRole  Edited = Edited
    NoOwner = NoOwner  Orphan = Orphan
    Uids = {u1, u2, u3}
    Replicas = {r1, r2}
    Roles = {old, new}
    EmailOf <- MCEmailOf
    Inputs <- QuietInputs
    BootUser = u1
    BootRole = new
    MaxContent = 2
INVARIANTS RevocationStands
CHECK_DEADLOCK FALSE
