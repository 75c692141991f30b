SPECIFICATION Spec
CHECK_DEADLOCK FALSE
CONSTANTS
    Users <- OneUser
    Jobs = {j1, j2}
    Sessions = {s1}
    JobUser <- OneUserJobUser
    JobR <- OneUserJobR
    SessionUser <- OneUserSessionUser
    Resources = {r1, r2, r3}
    InstanceOwner = None
    Constrain = TRUE
    KillSlice = FALSE
    AllowReload = FALSE
    Faults = {"stop_timeout"}
    None = None
    u1 = u1
    u2 = u2
    j1 = j1
    j2 = j2
    j3 = j3
    s1 = s1
    s2 = s2
    r1 = r1
    r2 = r2
    r3 = r3
INVARIANTS
    NoLingeringConstraints
