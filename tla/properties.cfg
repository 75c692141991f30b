SPECIFICATION Spec
CONSTANTS
    a = a
    b = b
    c = c
    c1 = c1
    c2 = c2
    d1 = d1
    d2 = d2
    Jobs = {a, b, c}
    CPUs = {c1, c2}
    Devices = {d1, d2}
    R <- JobResources
    MaxEntries = 3
    Blank = Blank
    NotGiven = NotGiven
INVARIANTS
    TypeOK
    AppliedForAllJobs
    UnionIsComplete
PROPERTIES
    NoPartialUpdate
