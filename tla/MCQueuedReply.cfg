SPECIFICATION Spec
CONSTANTS
    Configs <- MCConfigs
    Executed = {"GET"}
    Pipelined = {"MULTI"}
    Quirks = {}
    MaxConnects = 1
    MaxCommands = 5
    MaxBatch = 1
    MaxPushes = 1
CHECK_DEADLOCK FALSE
INVARIANT
    OnlyTrackedCached
