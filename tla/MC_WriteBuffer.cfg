CONSTANTS
    w1 = w1
    w2 = w2
    v1 = v1
    v2 = v2
    NoVal = NoVal
    Corrupt = Corrupt
    Writers <- MCWriters
    Vals <- MCOneVal
    LBAs <- MCTwoLBAs
    N = 4
    MaxBatch = 2
    MinWritePgs = 1
    MaxWritePgs = 2
    SubmitMargin = 0
    UserMax = 5
SPECIFICATION Spec
SYMMETRY MCSymmetry
INVARIANT TypeOK BufferRegions SyncedAreCompleted NoStrandedCompletion ReadYourWrites RateCounterMatchesBuffer
