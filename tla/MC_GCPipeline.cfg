CONSTANTS
    L1 = L1
    L2 = L2
    L3 = L3
    NoLine = NoLine
    Lines <- MCLines
    Stream <- MCStream
    BlockStreams <- MCBlockStreams
    DataStreams <- MCDataStreams
    SecPerLine = 2
    HighThrs = 1
    MidThrs = 2
    MaxWritePgs = 2
    GcLQD = 2
    GcWQD = 1
    SemInit = 1
    NeedFree = 2
SPECIFICATION Spec
INVARIANT TypeOK
INVARIANT RefAccounting
INVARIANT EraseSafety
INVARIANT InflightAccounting
INVARIANT NoBlockReinject
INVARIANT GcTargetMatches
