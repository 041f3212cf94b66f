------------------------- MODULE MC_WriteBufferFaults -------------------------
(* Small instance of WriteBufferFaults: a 4-slot ring, two writers.        *)
EXTENDS WriteBufferFaults

CONSTANTS w1, w2, v1, v2

MCWriters == {w1, w2}
MCVals == {v1, v2}
MCOneVal == {v1}
MCLBAs == {0}
================================================================================
