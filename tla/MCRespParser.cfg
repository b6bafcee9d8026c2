SPECIFICATION Spec
CONSTANTS
    Streams <- MCStreams
    CompactThreshold = 3
INVARIANTS
    TypeOK
    ScanSound
    RepliesExact
    FramesMeanWhatTheySay
PROPERTIES
    NoByteLost
    ComparatorTells
