SPECIFICATION FairSpec
CONSTANTS
    t1 = t1
    t2 = t2
    t3 = t3
    c1 = c1
    c2 = c2
    Threads <- ThreeThreads
    Conns <- TwoConns
    NoConn = NoConn
    MaxConnections = 2
    HealthChecks = TRUE
    Interrupts = FALSE
    StrayReleases = FALSE
INVARIANTS
    CapacityRespected
    ExclusiveLending
    OwnershipExact
    SlotsAccounted
    NoCrossTalk
    OpenSocketsTracked
    NoLostWakeup
PROPERTY AcquireReturns
