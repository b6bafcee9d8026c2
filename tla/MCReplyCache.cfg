SPECIFICATION Spec
CONSTANTS
    k1 = k1
    k2 = k2
    get1 = get1
    len1 = len1
    get2 = get2
    r1 = r1
    r2 = r2
    v1 = v1
    v2 = v2
    Keys <- MCKeys
    Commands <- MCCommands
    KeyOf <- MCKeyOf
    Readers <- MCReaders
    Values <- MCValues
    Miss = Miss
    NoCommand = NoCommand
    MaxEntries = 2
    MaxLookups = 1
    MaxInvalidations = 2
SYMMETRY Symmetry
INVARIANTS
    IndexExact
    TicketsTell
PROPERTY FreshnessContract
