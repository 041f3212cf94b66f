\* F2FS_IOC_GARBAGE_COLLECT_RANGE on segment 1: do_garbage_collect walks
\* segments 1 and 2, and segment 2 is the open log of section 1.
CONSTANTS
    MainSegs = 6
    SegsPerSec = 2
    BlocksPerSeg = 2
    MaxVictimSearch = 1
    CurSegs = {2}
    OvpSegs = 1
    ResvSegs = 1
    ReservedSecs = 0
    GcIdle = 0
    Mtime <- MCMtime
    MtimeClock = {1, 3}
    Pinned = {}
    RangeSegnos = {1}
    DioContention = FALSE
SPECIFICATION Spec
PROPERTY OpenLogsUntouched
