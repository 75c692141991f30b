SPECIFICATION FairSpec
CHECK_DEADLOCK FALSE
CONSTANTS
    Tests <- LoadedTests
    Cores = 1
    None = None
INVARIANTS
    TypeOK
    FailuresAreExplained
    GreenMeansAllPassed
    LocksAreOwn
    JobTestsSeeJobs
    Separate
    Accounted
PROPERTIES
    Ends
