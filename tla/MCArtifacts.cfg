SPECIFICATION Spec
CONSTANTS
    f = f
    g = g
    NSteps = 2
    Files <- MCFiles
    Configs <- MCConfigs
    Pieces = 2
    MaxErrors = 2
INVARIANTS
    TypeOK
    NewestIsServed
    EveryArchiveReported
CHECK_DEADLOCK FALSE
