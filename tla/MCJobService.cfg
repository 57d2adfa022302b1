SPECIFICATION FairSpec
CONSTANTS
    c1 = c1
    c2 = c2
    c3 = c3
    a = a
    b = b
    NoCall = NoCall
    Calls <- MCCalls
    Jobs <- MCJobs
    JobOf <- MCJobOf
    KindsOf <- MCKindsOf
    SourceOf <- MCSourceOf
    Panicky <- MCPanicky
    MaxConcurrent = 1
    MaxPolls = 0
    MaxHistory = 1
INVARIANTS
    TypeOK
    RunningHoldsPermit
PROPERTIES
    LifecycleSpec
    JobSettles
CHECK_DEADLOCK FALSE
