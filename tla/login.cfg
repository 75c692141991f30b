SPECIFICATION FairSpec
CHECK_DEADLOCK FALSE
CONSTANTS
    owner = owner
    guest = guest
    Uids = {owner, guest}
    Owner = owner
    MaxJobs = 3
INVARIANTS
    TypeOK
    GrantJustified
    OwnerAdmitted
    ContainedOrRefused
    OnlyOwnersAttached
    CallbackInv
PROPERTIES
    LoginAnswered
