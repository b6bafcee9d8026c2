SPECIFICATION Spec
CONSTANTS
    Targets <- MCTargets
    Packages <- MCPackages
    Invocations <- MCInvocations
    MaxRuns = 3
    MaxByHand = 2
    MaxDeaths = 1
    MaxInvocations = 2
CHECK_DEADLOCK FALSE
INVARIANTS
    TypeOK
    GatesAbort
    RowsAreOwn
    VerdictsTrue
PROPERTY ToolEnds
