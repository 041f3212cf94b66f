--------------------------- MODULE MC_Reservation -----------------------------
(* Two writers on one PAGE_MAP stream whose ring of 16 slots holds three  *)
(* page groups before it would wrap; one media line.  Writers are         *)
(* interchangeable.                                                        *)
EXTENDS Reservation, TLC

MCSymmetry == Permutations(Writers)
================================================================================
