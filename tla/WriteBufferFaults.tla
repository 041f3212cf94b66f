--------------------------- MODULE WriteBufferFaults ---------------------------
(***************************************************************************)
(* WriteBuffer with the failures its code paths handle, and an observer of *)
(* flushes:                                                                *)
(*  - a media write that fails: pblk_end_io_write -> pblk_end_w_fail, whose *)
(*    pblk_rb_sync_scan_entry always returns NULL, so the request goes on   *)
(*    to pblk_complete_write like a successful one;                        *)
(*  - a submission that fails after pblk_rb_read_commit (the fail_put_bio / *)
(*    fail_free_bio exits of pblk_submit_write): subm has moved past the   *)
(*    batch and no request reaches the device;                            *)
(*  - barrier: for each writer, the entries that were not yet synced when  *)
(*    it was admitted.                                                     *)
(***************************************************************************)
EXTENDS WriteBuffer

VARIABLE barrier

fvars == <<vars, barrier>>

(* The ghost follows the implementation step: set when a writer is         *)
(* admitted, shrunk as sync moves.                                         *)
BarrierNext ==
    barrier' = [w \in Writers |->
                  IF writer[w].pc = "admit" /\ writer'[w].pc = "rlin"
                  THEN {p \in Pos : InRange(p, sync, mem)}
                  ELSE {p \in barrier[w] : ~InRange(p, sync, sync')}]

(* pblk_end_io_write with rqd->error set.                                  *)
CompleteFailed(r) == CompleteWith(r, FALSE)

(* pblk_submit_write failing after pblk_rb_read_commit: the bio and rqd    *)
(* are freed; no completion will ever name this batch.                     *)
SubmitLost ==
    /\ submitter.pc = "read"
    /\ submitter' = [pc |-> "idle", pos |-> 0, n |-> 0]
    /\ UNCHANGED <<mem, subm, sync, l2p, nr_user, user_cnt, slot, map, writer, reqs, parked, last>>

InitF == Init /\ barrier = [w \in Writers |-> {}]

NextFlush == Next /\ BarrierNext
NextWriteErrors == (Next \/ \E r \in reqs : CompleteFailed(r)) /\ BarrierNext
NextSubmitLoss == (Next \/ SubmitLost) /\ BarrierNext

SpecFlush == InitF /\ [][NextFlush]_fvars /\ Fairness
SpecWriteErrors == InitF /\ [][NextWriteErrors]_fvars /\ Fairness
SpecSubmitLoss == InitF /\ [][NextSubmitLoss]_fvars /\ Fairness

(* A bio without data (a flush) is acknowledged only once every entry      *)
(* admitted before it is on the media (spec: a flush is a durability       *)
(* barrier for the writes already admitted); the code's                    *)
(* pblk_rb_may_write_flush returns NVM_IO_DONE for it.                     *)
FlushDurability ==
    [][\A w \in Writers : (Finish(w) /\ writer[w].n = 0) => barrier[w] = {}]_fvars

================================================================================
