---------------------------- MODULE MC_WriteBuffer ----------------------------
(* Small instance of WriteBuffer: a 4-slot ring, two writers, two lbas.    *)
EXTENDS WriteBuffer

CONSTANTS w1, w2, v1, v2

MCWriters == {w1, w2}
MCVals == {v1, v2}
MCOneVal == {v1}
MCLBAs == {0}
MCTwoLBAs == {0, 1}
MCSymmetry == Permutations(MCWriters) \cup Permutations(MCVals)
================================================================================
