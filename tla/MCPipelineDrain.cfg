SPECIFICATION Spec
CONSTANTS
    t1 = t1
    t2 = t2
    c1 = c1
    c2 = c2
    Threads <- MCThreads
    Conns <- MCConns
    Keys = {k1}
    Miss = Miss
    None = None
    MaxEntries = 1
    MaxWrites = 0
    MaxTroubles = 0
    SplitsInToken = TRUE
    Flushing = FALSE
    Callers = {t1}
    Pipeliners = {t2}
INVARIANT
    DrainsMeetNoReply
