\* pblk_trans_map_set collapsing an aligned log of a PAGE_MAP group.
CONSTANTS
    NrGroups = 1
    Streams = {0, 1}
    StreamType <- MCStreamType
    Lines = {x1}
    Blks = {0, 1}
    Pgs = {0, 1}
SPECIFICATION Spec
INVARIANT GetAfterSet
