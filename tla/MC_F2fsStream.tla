---------------------------- MODULE MC_F2fsStream -----------------------------
(* Model values for F2fsStream: a directory d1 with a FILES group gA and  *)
(* a directory d2 with an EXT_JOURNAL group gJ.                           *)
EXTENDS F2fsStream, TLC

CONSTANTS f1, f2, f3, t1, t2, gA, gJ

MCVType == (gA :> "warm") @@ (gJ :> "journal") @@ (SJ :> "sjournal")
MCVRank == ("cold" :> 0) @@ ("warm" :> 1) @@ ("hot" :> 2) @@ ("journal" :> 3)
           @@ ("sjournal" :> 4)
MCKeyword == (gA :> "KEY-files") @@ (gJ :> "KEY-journal") @@ (SJ :> "KEY-7:JOURNAL")
MCDirOf == (gA :> "d1") @@ (gJ :> "d2") @@ (SJ :> "root")
MCKmeansMax == [c \in 0..2 |-> c + 1]
MCValidDeltas == {-1, 0, 1}

(* Two files of gA written by two threads.                                *)
MCPairInodes == {f1, f3}
MCPairKeys == {gA, SJ}
MCPairGroupOf == (f1 :> gA) @@ (f3 :> gA)
MCThreads == {t1, t2}

(* The pair of gA and a lone journal file f2 of gJ, whose unlink converts *)
(* gJ into the special journal entry.                                     *)
MCMixedInodes == {f1, f2, f3}
MCMixedKeys == {gA, gJ, SJ}
MCMixedGroupOf == (f1 :> gA) @@ (f2 :> gJ) @@ (f3 :> gA)
MCSymmetry == Permutations(Threads)

(* Two journal files of gJ, one thread.                                   *)
MCSiblingInodes == {f2, f3}
MCSiblingKeys == {gJ, SJ}
MCSiblingGroupOf == (f2 :> gJ) @@ (f3 :> gJ)
MCOneThread == {t1}

(* Bounds on the counters that only grow.                                 *)
MCMaxValid == 1
MCMaxCount == 2
MCBounds ==
    /\ \A i \in Inodes : fe[i] = None \/ fe[i].valid <= MCMaxValid
    /\ \A k \in Keys : fg[k] = None \/ fg[k].count <= MCMaxCount
================================================================================
