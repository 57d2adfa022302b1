SPECIFICATION FairSpec
CONSTANTS
    Runs = 3
    Absent = Absent
INVARIANTS
    TypeOK
    RunsOwnCheckout
PROPERTIES
    RemovedForAReason
    
CHECK_DEADLOCK FALSE
