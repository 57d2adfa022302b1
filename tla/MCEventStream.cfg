SPECIFICATION Spec
CONSTANTS
    c1 = c1
    a = a
    b = b
    Clients <- MCClients
    Jobs <- MCJobs
    Submitted <- MCSubmitted
    Replayed <- MCReplayed
    Watches <- MCWatches
    Capacity = 2
    MaxHistory = 1
INVARIANTS
    TypeOK
    LastWordIsRight
PROPERTIES
    EndIsSeen
CHECK_DEADLOCK FALSE
