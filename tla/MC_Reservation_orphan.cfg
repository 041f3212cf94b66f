\* Two writers of one page group race between the two loops of
\* __pblk_write_to_cache; bios are bounded, so the system may stop.
CONSTANTS
    N = 16
    Writers = {w1, w2}
    Lines = {x1}
    MinWritePgs = 4
    MaxWritePgs = 8
    SubmitMargin = 8
    NoLine = NoLine
SPECIFICATION Spec
SYMMETRY MCSymmetry
INVARIANT NoOrphanSlot
CHECK_DEADLOCK FALSE
