SPECIFICATION FairSpec
CONSTANTS
    Configs <- MCConfigs
    Executed = {"GET", "MULTI", "EXEC"}
    Pipelined = {"SET", "GET"}
    Quirks = {"refuses HELLO", "sends garbage"}
    MaxConnects = 2
    MaxCommands = 5
    MaxBatch = 2
    MaxPushes = 1
CHECK_DEADLOCK FALSE
INVARIANTS
    OnlyPushesBetween
    PushesCounted
    SetUp
    TransactionKnown
    OnlyTrackedCached
PROPERTIES
    RepliesInOrder
    CallsReturn
