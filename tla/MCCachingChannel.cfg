SPECIFICATION FairChannel
CONSTANTS
    One = One
    Two = Two
    Writer = Writer
    c1 = c1
    c2 = c2
    tracked = tracked
    k2 = k2
    k3 = k3
    Threads <- MCThreads
    Conns <- MCConns
    Keys <- MCKeys
    Miss = Miss
    None = None
    MaxEntries = 2
    MaxWrites = 2
    MaxTroubles = 0
    SplitsInToken = TRUE
    Flushing = TRUE
    Callers <- MCThreads
    Pipeliners <- MCThreads
    Cases <- AllCases
CHECK_DEADLOCK FALSE
INVARIANT
    TestsPass
PROPERTY
    TestsFinish
