SPECIFICATION Spec
CONSTANTS
    Configs <- MCConfigs
    Flaky <- OnlyExec
INVARIANTS
    NothingLeftBehind
