SPECIFICATION Spec
CONSTANTS
    t1 = t1
    t2 = t2
    c1 = c1
    c2 = c2
    Threads <- MCThreads
    Conns <- MCConns
    Keys = {k1}
    Miss = Miss
    None = None
    MaxEntries = 1
    MaxWrites = 1
    MaxTroubles = 1
    SplitsInToken = TRUE
    Flushing = TRUE
    Callers <- MCThreads
    Pipeliners = {}
SYMMETRY Symmetry
INVARIANTS
    TypeOK
    StaleEntriesAreAnnounced
    DrainsMeetNoReply
PROPERTY
    FreshUnlessLost
