SPECIFICATION Spec
CONSTANTS
    r1 = r1
    r2 = r2
    r3 = r3
    good = good
    j1 = j1
    j2 = j2
    j3 = j3
    bad = bad
    Configured <- MCConfigured
    NoCall = NoCall
    Calls <- MCCalls
    Keys <- MCKeys
    Limit = 2
    Window = 3
    MaxDelay = 1
    MaxTime = 4
    Jobs <- MCJobs
    MaxHistory = 2
    Asked = 2
    MaxPage = 1
SYMMETRY Symmetry
INVARIANTS
    TypeOK
    WindowLimit
    RefusedForAReason
    NothingSkipped
CHECK_DEADLOCK FALSE
