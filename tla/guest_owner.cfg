SPECIFICATION Spec
CHECK_DEADLOCK FALSE
CONSTANTS
    owner = owner
    guest = guest
    Uids = {owner, guest}
    Owner = owner
    MaxJobs = 2
INVARIANTS
    GuestHasNoJob
