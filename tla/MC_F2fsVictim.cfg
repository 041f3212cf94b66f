CONSTANTS
    MainSegs = 6
    SegsPerSec = 2
    BlocksPerSeg = 2
    MaxVictimSearch = 1
    CurSegs = {0}
    OvpSegs = 1
    ResvSegs = 1
    ReservedSecs = 0
    GcIdle = 0
    Mtime <- MCMtime
    MtimeClock = {1}
    Pinned = {}
    RangeSegnos = {3}
    DioContention = TRUE
SPECIFICATION Spec
INVARIANT TypeOK
PROPERTY FgGreedyMin
