SPECIFICATION FairSpec
CONSTANTS
    Configs <- MCConfigs
    Flaky <- MCFlaky
INVARIANTS
    TypeOK
    PlanFollowed
    AttemptsUsedUp
    OwnContainer
PROPERTIES
    Returns
