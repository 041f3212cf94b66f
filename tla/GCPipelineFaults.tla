--------------------------- MODULE GCPipelineFaults ---------------------------
(***************************************************************************)
(* GCPipeline with the failure exits of pblk-gc.c, each an action of its  *)
(* own beside the step it interrupts:                                      *)
(*  - "nomem": pblk_malloc of the emeta buffer fails and the prepare work  *)
(*    returns at once;                                                     *)
(*  - "emeta": emeta cannot be read or interpreted (goto fail_free_emeta); *)
(*  - "alloc": a gc_rq or line_ws allocation of next_rq fails;            *)
(*  - "read": pblk_gc_move_valid_secs cannot allocate its data buffer or  *)
(*    the GC read fails.                                                   *)
(* Faults picks the exits a run admits.                                    *)
(***************************************************************************)
EXTENDS GCPipeline

CONSTANT Faults

ASSUME Faults \subseteq {"nomem", "emeta", "alloc", "read"}

(* pblk_put_line_back: the line returns to CLOSED and to the gc list of    *)
(* its vsc.                                                                *)
PutLineBack(l) ==
    /\ gctarget' = IF IsBlock(l) THEN gctarget ELSE gctarget + 1
    /\ gl' = MoveTail(gl, l, LineGcList(Vsc(l)))

(* fail_free_emeta: the line is put back, then its reference is put and    *)
(* it leaves the pipeline.                                                 *)
PrepFail(l) ==
    /\ PutLineBack(l)
    /\ ln' = [ln EXCEPT ![l] = Put([@ EXCEPT !.st = "closed"])]
    /\ inflight' = inflight - 1

(* The emeta buffer cannot be allocated: the work returns without putting  *)
(* the line back, dropping its reference or decrementing inflight_gc.      *)
PrepStartNoMem ==
    /\ "nomem" \in Faults
    /\ prep.line = NoLine
    /\ prepq # <<>>
    /\ prepq' = Tail(prepq)
    /\ UNCHANGED <<ln, gl, gctarget, gc, rlist, inflight, prep, sem, rqs,
                   wlist, wentries, runpc, invline>>

(* pblk_line_read_emeta or pblk_recov_get_lba_list fails.                  *)
PrepStartEmetaFail ==
    /\ "emeta" \in Faults
    /\ prep.line = NoLine
    /\ prepq # <<>>
    /\ prepq' = Tail(prepq)
    /\ PrepFail(Head(prepq))
    /\ UNCHANGED <<gc, rlist, prep, sem, rqs, wlist, wentries, runpc, invline>>

(* kmalloc of gc_rq, or mempool_alloc of its line_ws, fails in next_rq,    *)
(* after the requests already queued.                                      *)
PrepRqAllocFail ==
    /\ "alloc" \in Faults
    /\ prep.line # NoLine
    /\ PrepFail(prep.line)
    /\ prep' = NoPrep
    /\ UNCHANGED <<gc, rlist, prepq, sem, rqs, wlist, wentries, runpc, invline>>

(* pblk_gc_line_ws: up(gc_sem), then pblk_gc_move_valid_secs fails to      *)
(* allocate its data or to read: the request is dropped and the line       *)
(* reference put, whatever sectors it still had to move.                   *)
LineWsReadFail(r) ==
    /\ "read" \in Faults
    /\ r.st = "queued"
    /\ sem' = sem + 1
    /\ rqs' = rqs \ {r}
    /\ ln' = [ln EXCEPT ![r.line] = Put(@)]
    /\ UNCHANGED <<gl, gctarget, gc, rlist, inflight, prepq, prep, wlist,
                   wentries, runpc, invline>>

Failures ==
    \/ PrepStartNoMem
    \/ PrepStartEmetaFail
    \/ PrepRqAllocFail
    \/ \E r \in rqs : LineWsReadFail(r)

NextF == Next \/ Failures

SpecF == Init /\ [][NextF]_vars
================================================================================
