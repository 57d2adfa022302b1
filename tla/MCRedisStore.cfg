SPECIFICATION Spec
CONSTANTS
    task = task
    canceller = canceller
    first = first
    second = second
    third = third
    Absent = Absent
    Jobs <- MCJobs
    Creations <- MCCreations
    IdOf <- MCIdOf
    Writers <- MCWriters
    Target <- MCTarget
    PlanOf <- MCPlanOf
    MaxCreations = 3
    MaxHistory = 1
    MaxFailures = 1
    Limit = 2
INVARIANTS
    TypeOK
    IndexMatchesRecords
    HistoryBounded
    PagesPartition
PROPERTIES
    ResultKept
CHECK_DEADLOCK FALSE
