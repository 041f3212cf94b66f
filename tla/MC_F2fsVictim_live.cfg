CONSTANTS
    MainSegs = 4
    SegsPerSec = 1
    BlocksPerSeg = 2
    MaxVictimSearch = 1
    CurSegs = {0}
    OvpSegs = 1
    ResvSegs = 1
    ReservedSecs = 0
    GcIdle = 0
    Mtime <- MCMtime4
    MtimeClock = {1, 4}
    Pinned = {}
    RangeSegnos = {2}
    DioContention = FALSE
SPECIFICATION FairSpec
PROPERTY ScanRotates
