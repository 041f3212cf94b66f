------------------------------ MODULE WriteBuffer ------------------------------
(***************************************************************************)
(* One stream of the pblk write path (CONFIG_PBLK_MULTIMAP build, a stream *)
(* that is not PAGE_MAP): the ring buffer of pblk-rb.c, the user admission *)
(* and copy of pblk-cache.c (__pblk_write_to_cache), the submission thread *)
(* of pblk-write.c (pblk_submit_write) and the out-of-order completion     *)
(* path (pblk_complete_write / pblk_end_w_bio).                            *)
(*                                                                         *)
(* Positions are taken modulo N as in the code.  A host write is a writer  *)
(* process; its bio carries n consecutive lbas (n = 0 is a bio without     *)
(* data, i.e. a flush).  Device requests complete in any order.            *)
(***************************************************************************)
EXTENDS Naturals, Sequences, FiniteSets, SequencesExt

CONSTANTS
    N,              \* rb->nr_entries, a power of two
    Writers,        \* concurrent callers of pblk_write_to_cache
    LBAs,           \* logical addresses, consecutive naturals
    Vals,           \* data versions written by the host
    MaxBatch,       \* largest nr_entries of one __pblk_write_to_cache call
    MinWritePgs,    \* pblk->min_write_pgs
    MaxWritePgs,    \* pblk->max_write_pgs
    SubmitMargin,   \* the "+ 8" of pblk_submit_write's early return
    UserMax,        \* per-stream user cap of the rate limiter
    NoVal,          \* no data / unmapped
    Corrupt         \* what a failed media write left behind

ASSUME /\ N \in {2, 4, 8, 16}
       /\ LBAs \subseteq Nat /\ LBAs # {}
       /\ MaxBatch \in 0..(N - 1)
       /\ 1 <= MinWritePgs /\ MinWritePgs <= MaxWritePgs
       /\ SubmitMargin \in Nat /\ UserMax \in Nat
       /\ NoVal \notin Vals /\ Corrupt \notin Vals

Pos == 0..(N - 1)

VARIABLES
    mem, subm, sync, l2p,   \* rb->mem, rb->subm, rb->sync, rb->l2p_update
    nr_user,                \* rb->nr_user: entries admitted, copy unfinished
    user_cnt,               \* rb_rl.rb_user_cnt
    slot,                   \* rb->entries[p].w_ctx
    map,                    \* the l2p entry of each lba
    writer,                 \* one __pblk_write_to_cache activation per writer
    submitter,              \* pblk_write_ts of this stream
    reqs,                   \* write requests at the device
    parked,                 \* rb_ctx.compl_list
    last                    \* ghost: value of the most recent host write

impl == <<mem, subm, sync, l2p, nr_user, user_cnt, slot, map, writer,
          submitter, reqs, parked>>
vars == <<impl, last>>

(* CIRC_CNT(head, tail, N) and CIRC_SPACE(head, tail, N) of circ_buf.h.   *)
Dist(tail, head) == (head - tail) % N
CircSpace(head, tail) == (tail - head - 1) % N
InRange(p, from, to) == Dist(from, p) < Dist(from, to)
Span(from, k) == {(from + i) % N : i \in 0..(k - 1)}

Writable == [st |-> "writable", lba |-> NoVal, val |-> NoVal, done |-> FALSE, ok |-> TRUE]
Unmapped == [k |-> "empty", pos |-> 0, val |-> NoVal]
Request == [sentry : Pos, n : 1..MaxWritePgs]

(* The l2p entry an entry leaves behind once it is on the media.           *)
Media(e) == [k |-> "media", pos |-> 0, val |-> IF e.ok THEN e.val ELSE Corrupt]

(* What a read of lba l returns: the buffer cacheline or the media value.  *)
Lookup(l) == CASE map[l].k = "cache" -> slot[map[l].pos].val
               [] map[l].k = "media" -> map[l].val
               [] OTHER              -> NoVal

--------------------------------------------------------------------------------
Init ==
    /\ mem = 0 /\ subm = 0 /\ sync = 0 /\ l2p = 0
    /\ nr_user = 0 /\ user_cnt = 0
    /\ slot = [p \in Pos |-> Writable]
    /\ map = [l \in LBAs |-> Unmapped]
    /\ writer = [w \in Writers |-> [pc |-> "idle", pos |-> 0, n |-> 0, i |-> 0, lba |-> 0]]
    /\ submitter = [pc |-> "idle", pos |-> 0, n |-> 0]
    /\ reqs = {}
    /\ parked = <<>>
    /\ last = [l \in LBAs |-> NoVal]

--------------------------------------------------------------------------------
(* pblk_write_to_cache: a host bio of n sectors at lba enters the path.    *)
Start(w) ==
    /\ writer[w].pc = "idle"
    /\ \E n \in 0..MaxBatch, l \in LBAs :
          /\ \A i \in 0..(n - 1) : l + i \in LBAs
          /\ n = 0 => l = CHOOSE x \in LBAs : \A y \in LBAs : x <= y
          /\ writer' = [writer EXCEPT ![w] = [pc |-> "admit", pos |-> 0, n |-> n, i |-> 0, lba |-> l]]
    /\ UNCHANGED <<mem, subm, sync, l2p, nr_user, user_cnt, slot, map, submitter, reqs, parked, last>>

(* Variant: clean_wctx (lba := ADDR_EMPTY) before pblk_update_map_dev.    *)
MapAfterL2PCleanFirst(m, s, upd) ==
    [l \in LBAs |-> IF m[l].k = "cache" /\ m[l].pos \in upd THEN Media(Writable) ELSE m[l]]

(* __pblk_rb_update_l2p: the l2p entries still naming one of the cachelines *)
(* upd now name the media (pblk_update_map_dev); then clean_wctx.          *)
MapAfterL2P(m, s, upd) ==
    [l \in LBAs |-> IF m[l].k = "cache" /\ m[l].pos \in upd THEN Media(s[m[l].pos]) ELSE m[l]]

(* pblk_rb_update_l2p: entries about to be overwritten by n new ones.      *)
L2PCount(n) == IF CircSpace(mem, l2p) > n THEN 0 ELSE n - CircSpace(mem, l2p)

(* Variants: pblk_rl_out counting calls instead of entries, or counting   *)
(* each entry both as user and as GC I/O.                                  *)
RlOutPerCall(cnt, k) == cnt - (IF k > 0 THEN 1 ELSE 0)
RlOutTwice(cnt, k) == cnt - 2 * k

(* pblk_rl_out(user_io, gc_io) at the end of __pblk_rb_update_l2p.         *)
RlOut(cnt, k) == cnt - k

(* Variant: free space measured from subm instead of sync.                *)
HasSpaceFromSubm(n) == CircSpace(mem, subm) >= n

(* __pblk_rb_may_write: the ring has room for n between mem and sync.      *)
HasSpace(n) == CircSpace(mem, sync) >= n

(* pblk_rb_may_write_user under w_lock: the rate-limiter check, then       *)
(* pblk_rb_may_write_flush (space check, l2p update over the entries to be *)
(* overwritten, nr_user += n, mem += n).  A refusal is NVM_IO_REQUEUE and  *)
(* the caller retries, which is this action staying disabled.             *)
Admit(w) ==
    LET n   == writer[w].n
        k   == L2PCount(n)
        upd == Span(l2p, k)
    IN
    /\ writer[w].pc = "admit"
    /\ user_cnt + n <= UserMax
    /\ HasSpace(n)
    /\ map' = MapAfterL2P(map, slot, upd)
    /\ slot' = [p \in Pos |-> IF p \in upd THEN Writable ELSE slot[p]]
    /\ user_cnt' = RlOut(user_cnt, k)
    /\ l2p' = (l2p + k) % N
    /\ nr_user' = nr_user + n
    /\ mem' = (mem + n) % N
    /\ writer' = [writer EXCEPT ![w].pc = "rlin", ![w].pos = mem]
    /\ UNCHANGED <<subm, sync, submitter, reqs, parked, last>>

(* pblk_rl_user_in(nr_entries_padding), in its own w_lock section.         *)
RlIn(w) ==
    /\ writer[w].pc = "rlin"
    /\ user_cnt' = user_cnt + writer[w].n
    /\ writer' = [writer EXCEPT ![w].pc = IF writer[w].n = 0 THEN "finish" ELSE "copy"]
    /\ UNCHANGED <<mem, subm, sync, l2p, nr_user, slot, map, submitter, reqs, parked, last>>

(* pblk_rb_write_entry_user for entry i of the bio: copy, point the l2p    *)
(* entry at the cacheline (pblk_update_map_cache), set WRITTEN_DATA.       *)
CopyEntry(w) ==
    LET p == (writer[w].pos + writer[w].i) % N
        l == writer[w].lba + writer[w].i
    IN
    /\ writer[w].pc = "copy"
    /\ \E v \in Vals :
          /\ slot' = [slot EXCEPT ![p] = [st |-> "written", lba |-> l, val |-> v, done |-> FALSE, ok |-> TRUE]]
          /\ last' = [last EXCEPT ![l] = v]
    /\ map' = [map EXCEPT ![l] = [k |-> "cache", pos |-> p, val |-> NoVal]]
    /\ writer' = [writer EXCEPT ![w].i = @ + 1,
                                ![w].pc = IF writer[w].i + 1 = writer[w].n THEN "finish" ELSE "copy"]
    /\ UNCHANGED <<mem, subm, sync, l2p, nr_user, user_cnt, submitter, reqs, parked>>

(* The out: label: nr_user -= nr_entries_padding under w_lock; the bio is  *)
(* then completed with NVM_IO_DONE by the caller.                          *)
Finish(w) ==
    /\ writer[w].pc = "finish"
    /\ nr_user' = nr_user - writer[w].n
    /\ writer' = [writer EXCEPT ![w].pc = "idle"]
    /\ UNCHANGED <<mem, subm, sync, l2p, user_cnt, slot, map, submitter, reqs, parked, last>>

--------------------------------------------------------------------------------
(* Variant: the max_write_pgs cap dropped.                                *)
CalcSecsUncapped(avail) == (avail \div MinWritePgs) * MinWritePgs

(* pblk_calc_secs with no pending flush point.                             *)
CalcSecs(avail) ==
    IF avail >= MaxWritePgs THEN MaxWritePgs
    ELSE (avail \div MinWritePgs) * MinWritePgs

(* pblk_submit_write: sectors ready are read_count minus nr_user.          *)
SecsAvail == IF Dist(subm, mem) > nr_user THEN Dist(subm, mem) - nr_user ELSE 0

(* The early return "secs_avail < min_write_pgs + 8".                      *)
SubmitReady(avail) == avail >= MinWritePgs + SubmitMargin

(* pblk_submit_write up to pblk_rb_read_commit: subm moves past the batch. *)
SubmitCommit ==
    LET avail == SecsAvail
        com   == CalcSecs(avail)
    IN
    /\ submitter.pc = "idle"
    /\ avail > 0
    /\ SubmitReady(avail)
    /\ subm' = (subm + com) % N
    /\ submitter' = [pc |-> "read", pos |-> subm, n |-> com]
    /\ UNCHANGED <<mem, sync, l2p, nr_user, user_cnt, slot, map, writer, reqs, parked, last>>

(* Variant: read_to_bio without the busy-wait on WRITTEN_DATA.            *)
SubmitTransferNoWait ==
    LET rng == Span(submitter.pos, submitter.n) IN
    /\ submitter.pc = "read"
    /\ slot' = [p \in Pos |-> IF p \in rng THEN [slot[p] EXCEPT !.st = "submitted"] ELSE slot[p]]
    /\ reqs' = reqs \cup {[sentry |-> submitter.pos, n |-> submitter.n]}
    /\ submitter' = [pc |-> "idle", pos |-> 0, n |-> 0]
    /\ UNCHANGED <<mem, subm, sync, l2p, nr_user, user_cnt, map, writer, parked, last>>

(* pblk_rb_read_to_bio (busy-waits until each entry is WRITTEN_DATA, then  *)
(* marks it SUBMITTED) and pblk_submit_io_set: the request is issued.      *)
SubmitTransfer ==
    LET rng == Span(submitter.pos, submitter.n) IN
    /\ submitter.pc = "read"
    /\ \A p \in rng : slot[p].st = "written"
    /\ slot' = [p \in Pos |-> IF p \in rng THEN [slot[p] EXCEPT !.st = "submitted"] ELSE slot[p]]
    /\ reqs' = reqs \cup {[sentry |-> submitter.pos, n |-> submitter.n]}
    /\ submitter' = [pc |-> "idle", pos |-> 0, n |-> 0]
    /\ UNCHANGED <<mem, subm, sync, l2p, nr_user, user_cnt, map, writer, parked, last>>

--------------------------------------------------------------------------------
(* Variant: one walk of compl_list without the goto retry.                *)
DrainParkedNoRetry(pos, list) ==
    FoldLeft(LAMBDA acc, c : IF c.sentry = acc.pos
                             THEN [pos |-> (acc.pos + c.n) % N, list |-> acc.list]
                             ELSE [pos |-> acc.pos, list |-> Append(acc.list, c)],
             [pos |-> pos, list |-> <<>>], list)

(* The retry loop of pblk_complete_write: end every parked request whose   *)
(* sentry is the sync position, restarting the list walk after each one.   *)
(* Result: the new sync position and the requests left parked.             *)
RECURSIVE DrainParked(_, _)
DrainParked(pos, list) ==
    IF \E i \in 1..Len(list) : list[i].sentry = pos
    THEN LET i == CHOOSE i \in 1..Len(list) : list[i].sentry = pos
         IN DrainParked((pos + list[i].n) % N, RemoveAt(list, i))
    ELSE [pos |-> pos, list |-> list]

(* Variant: every completion ended at once, without the sentry == sync    *)
(* test.                                                                   *)
CompleteWithNoOrder(r, ok) ==
    LET rng == Span(r.sentry, r.n) IN
    /\ r \in reqs
    /\ reqs' = reqs \ {r}
    /\ slot' = [p \in Pos |-> IF p \in rng THEN [slot[p] EXCEPT !.done = TRUE, !.ok = ok] ELSE slot[p]]
    /\ sync' = (sync + r.n) % N
    /\ UNCHANGED <<mem, subm, l2p, nr_user, user_cnt, map, writer, submitter, parked, last>>

(* pblk_complete_write for request r under s_lock: in order, it is ended   *)
(* (pblk_end_w_bio, sync += nr_valid) and the parked requests it unblocks  *)
(* follow; out of order, it is appended to compl_list.  ok is the media    *)
(* result of its sectors.                                                  *)
CompleteWith(r, ok) ==
    LET rng     == Span(r.sentry, r.n)
        inOrder == r.sentry = sync
        dr      == DrainParked((sync + r.n) % N, parked)
        newSync == IF inOrder THEN dr.pos ELSE sync
    IN
    /\ r \in reqs
    /\ reqs' = reqs \ {r}
    /\ slot' = [p \in Pos |-> IF p \in rng THEN [slot[p] EXCEPT !.done = TRUE, !.ok = ok] ELSE slot[p]]
    /\ sync' = newSync
    /\ parked' = IF inOrder THEN dr.list ELSE Append(parked, r)
    /\ UNCHANGED <<mem, subm, l2p, nr_user, user_cnt, map, writer, submitter, last>>

Complete(r) == CompleteWith(r, TRUE)

--------------------------------------------------------------------------------
WriterStep(w) == Start(w) \/ Admit(w) \/ RlIn(w) \/ CopyEntry(w) \/ Finish(w)

Next ==
    \/ \E w \in Writers : WriterStep(w)
    \/ SubmitCommit
    \/ SubmitTransfer
    \/ \E r \in reqs : Complete(r)

(* Fairness: the kernel code after admission runs to its end (RlIn, copy,  *)
(* the out: label); the write thread and the device make progress (the    *)
(* device completes some outstanding request; it holds at most N - 1      *)
(* sectors, so none is starved); a                                         *)
(* writer refused with NVM_IO_REQUEUE retries forever (strong fairness).   *)
(* A host is never obliged to start a write.                               *)
Fairness ==
    /\ \A w \in Writers : SF_vars(Admit(w)) /\ WF_vars(RlIn(w))
                          /\ WF_vars(CopyEntry(w)) /\ WF_vars(Finish(w))
    /\ WF_vars(SubmitCommit) /\ WF_vars(SubmitTransfer)
    /\ WF_vars(\E r \in reqs : Complete(r))

Spec == Init /\ [][Next]_vars /\ Fairness

--------------------------------------------------------------------------------
TypeOK ==
    /\ {mem, subm, sync, l2p} \subseteq Pos
    /\ nr_user \in Nat /\ user_cnt \in Nat
    /\ slot \in [Pos -> [st : {"writable", "written", "submitted"}, lba : LBAs \cup {NoVal},
                         val : Vals \cup {NoVal}, done : BOOLEAN, ok : BOOLEAN]]
    /\ map \in [LBAs -> [k : {"empty", "cache", "media"}, pos : Pos, val : Vals \cup {NoVal, Corrupt}]]
    /\ writer \in [Writers -> [pc : {"idle", "admit", "rlin", "copy", "finish"}, pos : Pos,
                               n : 0..MaxBatch, i : 0..MaxBatch, lba : LBAs]]
    /\ submitter \in [pc : {"idle", "read"}, pos : Pos, n : 0..MaxWritePgs]
    /\ reqs \subseteq Request /\ parked \in Seq(Request)
    /\ last \in [LBAs -> Vals \cup {NoVal}]

(* Space invariant (pblk_rb_space / __pblk_rb_may_write / update_l2p): the *)
(* pointers stay in the order l2p_update <= sync <= subm <= mem around the *)
(* ring, and each region holds the entry states the code relies on: every  *)
(* entry l2p_update is about to pass is SUBMITTED (so clean_wctx never     *)
(* spins), nothing outside [l2p_update, mem) holds data, and entries not   *)
(* yet committed to a request are never SUBMITTED.                        *)
BufferRegions ==
    /\ Dist(l2p, sync) + Dist(sync, subm) + Dist(subm, mem) = Dist(l2p, mem)
    /\ \A p \in Pos :
         /\ InRange(p, l2p, sync) => slot[p].st = "submitted"
         /\ InRange(p, subm, mem) => slot[p].st # "submitted"
         /\ ~InRange(p, l2p, mem) => slot[p].st = "writable"

(* Completion order (pblk_complete_write): sync only ever moves over      *)
(* entries whose device write has completed, although completions arrive  *)
(* in any order.                                                           *)
SyncedAreCompleted == \A p \in Pos : InRange(p, l2p, sync) => slot[p].done

(* The compl_list retry loop leaves no parked request that could already  *)
(* be ended: after every completion, no parked request starts at sync.    *)
NoStrandedCompletion == \A i \in 1..Len(parked) : parked[i].sentry # sync

(* Read-your-writes through the l2p table: whether an lba maps to a        *)
(* cacheline or to the media, a lookup returns the data of the most recent *)
(* host write to it, across concurrent writers, the l2p_update walk in     *)
(* admission and out-of-order completions.                                 *)
ReadYourWrites == \A l \in LBAs : Lookup(l) = last[l]

(* Rate-limiter accounting (pblk_rl_user_in at admission, pblk_rl_out in   *)
(* __pblk_rb_update_l2p): the user counter plus the admissions whose       *)
(* pblk_rl_user_in has not run yet is exactly the number of entries        *)
(* between l2p_update and mem.                                             *)
RateCounterMatchesBuffer ==
    user_cnt + MapThenSumSet(LAMBDA w : IF writer[w].pc = "rlin" THEN writer[w].n ELSE 0, Writers)
      = Dist(l2p, mem)

(* Every entry admitted to the buffer is eventually synced to the media,   *)
(* even when the host stops writing (the tail below a full batch).  With   *)
(* the code's SubmitMargin of 8 it fails: MC_WriteBuffer_tail.cfg.         *)
AdmittedEventuallySynced ==
    \A p \in Pos : InRange(p, sync, mem) ~> ~InRange(p, sync, mem)

--------------------------------------------------------------------------------
(* Refinement: the cells between sync and mem, oldest first, are the FIFO  *)
(* of RingAbstract; a cacheline not copied yet is a hole.                   *)
RingCells == [i \in 1..Dist(sync, mem) |-> slot[(sync + i - 1) % N].val]

Ring == INSTANCE RingAbstract WITH Cap <- N - 1, Hole <- NoVal, queue <- RingCells

(* The ring implements the bounded FIFO: admission only reserves empty     *)
(* cells within nr_entries - 1, each copy fills a reserved empty cell, and *)
(* sync (pblk_complete_write) only retires a prefix of filled cells, even  *)
(* with completions out of order and writers copying concurrently.         *)
RefinesRing == Ring!Spec

================================================================================
