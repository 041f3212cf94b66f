CONSTANTS
    w1 = w1
    w2 = w2
    v1 = v1
    v2 = v2
    NoVal = NoVal
    Corrupt = Corrupt
    Writers <- MCWriters
    LBAs <- MCLBAs
    N = 4
    MaxBatch = 1
    MinWritePgs = 1
    MaxWritePgs = 2
    SubmitMargin = 0
    UserMax = 4
    Vals <- MCOneVal
SPECIFICATION SpecFlush
PROPERTY FlushDurability
