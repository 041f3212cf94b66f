CONSTANTS
    Segs <- MCSegs
    Groups <- MCGroups
    Streams <- MCStreams
    StreamType <- MCStreamType
    LogSize <- MCLogSize
    MapSize = 2
    LogEntries = 1
    EntryNum = 2
    MaxRes = 5
SPECIFICATION Spec
INVARIANT TypeOK
INVARIANT AllocResMatches
INVARIANT CacheWithinCapacity
