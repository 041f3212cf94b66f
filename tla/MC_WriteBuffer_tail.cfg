\* Reproduction, not a run: the code's "+ 8" margin of pblk_submit_write.
\* Any tail of fewer than min_write_pgs + 8 ready entries is never
\* submitted (pblk-write.c:603).  The 4-slot ring never holds that many,
\* so the writers also stop once it fills; deadlock is not checked.
CONSTANTS
    w1 = w1
    w2 = w2
    v1 = v1
    v2 = v2
    NoVal = NoVal
    Corrupt = Corrupt
    Writers <- MCWriters
    Vals <- MCOneVal
    LBAs <- MCLBAs
    N = 4
    MaxBatch = 1
    MinWritePgs = 1
    MaxWritePgs = 2
    SubmitMargin = 8
    UserMax = 4
SPECIFICATION Spec
PROPERTY AdmittedEventuallySynced
CHECK_DEADLOCK FALSE
