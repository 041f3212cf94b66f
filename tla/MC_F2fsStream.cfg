CONSTANTS
    f1 = f1
    f2 = f2
    f3 = f3
    t1 = t1
    t2 = t2
    gA = gA
    gJ = gJ
    SJ = SJ
    None = None
    Inodes <- MCPairInodes
    Threads <- MCThreads
    Keys <- MCPairKeys
    GroupOf <- MCPairGroupOf
    VType <- MCVType
    VRank <- MCVRank
    Keyword <- MCKeyword
    DirOf <- MCDirOf
    HistTypes = {"cold", "warm", "hot"}
    NR_CLUSTER = 3
    KmeansMax <- MCKmeansMax
    BLK = 1
    PROFILE_T = 1
    COLD_RATE = 50
    EMA_W_NUM = 1
    EMA_W_DIV = 2
    MAX_HISTORY = 1
    ValidDeltas <- MCValidDeltas
    PageCounts = {1}
    MaxSeq = 2
    MaxRounds = 2
    InodeSerialized = TRUE
SPECIFICATION Spec
SYMMETRY MCSymmetry
CONSTRAINT MCBounds
INVARIANT TypeOK GroupAccounting EmaWithinObserved
