SPECIFICATION FairSpec
CONSTANTS
    Conns <- MCConns
    Cases <- AllCases
CHECK_DEADLOCK FALSE
INVARIANTS
    TestsPass
    MisuseContained
PROPERTY
    TestsFinish
