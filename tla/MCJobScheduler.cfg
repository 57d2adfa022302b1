SPECIFICATION SchedulerFairSpec
CONSTANTS
    c1 = c1
    c2 = c2
    c3 = c3
    a = a
    b = b
    NoCall = NoCall
    Calls <- MCCalls
    Jobs <- MCJobs
    JobOf <- MCJobOf
    Panicky <- MCPanicky
    MaxConcurrent = 1
    MaxPolls = 1
INVARIANTS
    SchedulerTypeOK
    PermitConservation
    WorkConserving
    AcceptedIsTracked
    GracefulDrain
PROPERTIES
    NoStarvation
    ShutdownEnds
