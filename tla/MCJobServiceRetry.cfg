SPECIFICATION Spec
CONSTANTS
    c1 = c1
    c2 = c2
    c3 = c3
    a = a
    b = b
    NoCall = NoCall
    Calls <- MCCalls
    Jobs <- MCJobs
    JobOf <- MCJobOf
    KindsOf <- MCKindsOf
    SourceOf <- MCSourceOf
    Panicky <- NobodyPanics
    MaxConcurrent = 1
    MaxPolls = 0
    MaxHistory = 2
INVARIANTS
    AcceptedIsKnown
CHECK_DEADLOCK FALSE
