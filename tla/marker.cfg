SPECIFICATION Spec
CHECK_DEADLOCK FALSE
CONSTANTS
    Users <- TwoUsers
    Jobs = {j1, j2, j3}
    Sessions = {s1, s2}
    JobUser <- TwoUserJobUser
    JobR <- TwoUserJobR
    SessionUser <- TwoUserSessionUser
    Resources = {r1, r2, r3}
    InstanceOwner = u2
    Constrain = TRUE
    KillSlice = FALSE
    AllowReload = FALSE
    Faults <- Prompt
    None = None
    u1 = u1
    u2 = u2
    j1 = j1
    j2 = j2
    j3 = j3
    s1 = s1
    s2 = s2
    r1 = r1
    r2 = r2
    r3 = r3
INVARIANTS
    MarkerHasJob
    StartedHasMarker
    MarkerMeansContained
    StartedCovered
    MarkerInv
