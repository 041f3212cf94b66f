------------------------------ MODULE GCPipeline ------------------------------
(***************************************************************************)
(* The pblk garbage collector (pblk-gc.c) and the line life cycle it       *)
(* drives.  Four actors run concurrently:                                  *)
(*   - the GC thread (pblk_gc_ts -> pblk_gc_run): frees lines of the full  *)
(*     list and moves victims from the group lists to r_list;              *)
(*   - the reader thread (pblk_gc_read) hands a line of r_list to the      *)
(*     single-threaded gc_reader_wq (pblk_gc_line);                        *)
(*   - the prepare work (pblk_gc_line_prepare_ws) splits a line's valid    *)
(*     sectors into requests and queues them on gc_line_reader_wq, taking  *)
(*     gc_sem and a line reference for each;                               *)
(*   - line workers (pblk_gc_line_ws) read a request and queue it on       *)
(*     w_list; the writer thread (pblk_gc_write) reinjects it into the     *)
(*     write buffer and drops its line reference.                          *)
(* Around them the rest of pblk: user writes invalidate sectors, the       *)
(* write buffer drops the line references its entries hold, the rate       *)
(* limiter and sysfs start and stop GC.  A line is erased (FREE) when its  *)
(* last reference is put.                                                  *)
(*                                                                         *)
(* Data is abstracted to sets of sector indices: ln[l].valid are the       *)
(* sectors whose only copy is on line l.                                   *)
(***************************************************************************)
EXTENDS Naturals, Integers, Sequences, FiniteSets, SequencesExt

CONSTANTS
    Lines,          \* the lines that can be reclaimed
    NoLine,         \* "no line" (invalid_line unset, no prepare running)
    SecPerLine,     \* data sectors per line (emeta_ssec)
    HighThrs,       \* lm->high_thrs: vsc below it goes to the high list
    MidThrs,        \* lm->mid_thrs: vsc below it goes to the mid list
    MaxWritePgs,    \* pblk->max_write_pgs: sectors per GC request
    GcLQD,          \* PBLK_GC_L_QD: lines in the GC pipeline at once
    GcWQD,          \* PBLK_GC_W_QD: requests queued for the GC writer
    SemInit,        \* initial count of gc_sem
    NeedFree,       \* pblk_rl_high_thrs: GC runs while fewer lines are free
    Stream,         \* line -> physical stream (line->pstream)
    BlockStreams,   \* streams whose map_type is BLOCK_MAP
    DataStreams     \* streams >= DATA_START_STREAM

ASSUME /\ NoLine \notin Lines
       /\ HighThrs <= MidThrs /\ MidThrs <= SecPerLine
       /\ MaxWritePgs >= 1 /\ GcLQD >= 1 /\ GcWQD >= 1 /\ SemInit >= 1

Secs == 1..SecPerLine

(* l_mg->gc_lists[] in the order pblk_gc_run visits them.                  *)
GcLists == <<"high", "mid", "low">>
NrGcLists == Len(GcLists)          \* PBLK_GC_NR_LISTS
Buckets == {"full", "empty"} \cup ToSet(GcLists)

VARIABLES
    ln,         \* line -> [st, valid, ref, buf]: state, valid sectors,
                \*   kref count, references held by write-buffer entries
    gl,         \* bucket -> Seq(Lines): l_mg gc lists
    gctarget,   \* pblk->gc_target
    gc,         \* [active, enabled, forced] of struct pblk_gc
    rlist,      \* gc->r_list
    inflight,   \* gc->inflight_gc
    prepq,      \* lines queued on gc_reader_wq (one worker, in order)
    prep,       \* the running prepare work: [line, left, bit]
    sem,        \* gc->gc_sem
    rqs,        \* gc requests owned by line workers: [line, secs, st]
    wlist,      \* gc->w_list
    wentries,   \* gc->w_entries
    runpc,      \* pblk_gc_run: [pc, g, prev]
    invline     \* stream -> lstream[].invalid_line

vars == <<ln, gl, gctarget, gc, rlist, inflight, prepq, prep, sem, rqs,
          wlist, wentries, runpc, invline>>

-----------------------------------------------------------------------------
(* Helpers                                                                 *)

Vsc(l) == Cardinality(ln[l].valid)
IsBlock(l) == Stream[l] \in BlockStreams

(* pblk_line_gc_list: the list a closed line belongs on, by its vsc.       *)
LineGcList(v) ==
    CASE v = 0          -> "full"
      [] v < HighThrs   -> "high"
      [] v < MidThrs    -> "mid"
      [] v < SecPerLine -> "low"
      [] OTHER          -> "empty"

(* list_del / list_move_tail of a line on the gc lists.                    *)
Unlist(g, l) == [b \in Buckets |-> SelectSeq(g[b], LAMBDA x : x # l)]
MoveTail(g, l, b) == [Unlist(g, l) EXCEPT ![b] = Append(@, l)]

(* kref_put(&line->ref, pblk_line_put): the last put erases the line.      *)
Put(r) == [r EXCEPT !.ref = r.ref - 1,
                    !.st  = IF r.ref = 1 THEN "free" ELSE r.st]

(* pblk_rl_nr_free_blks against pblk_rl_high_thrs, counted in lines.       *)
NrFree == Cardinality({l \in Lines : ln[l].st = "free"})

(* pblk_gc_should_run; gc_target is read into an unsigned.                 *)
GcShouldRun(g, tgt, nfree) == g.active /\ NeedFree > nfree /\ tgt # 0

(* pblk_gc_get_victim_line (greedy branch): the first line with no valid   *)
(* sectors, else the non-BLOCK line with the fewest valid sectors; the     *)
(* stream's invalid_line and BLOCK lines are not compared.                 *)
GetVictimLine(list) ==
    LET Step(acc, l) ==
          IF acc.done THEN acc
          ELSE IF Vsc(l) = 0 THEN [done |-> TRUE, v |-> l]
          ELSE IF Stream[l] \in DataStreams /\ invline[Stream[l]] = l THEN acc
          ELSE IF IsBlock(l) THEN acc
          ELSE IF IsBlock(acc.v) THEN [acc EXCEPT !.v = l]
          ELSE IF Vsc(l) < Vsc(acc.v) THEN [acc EXCEPT !.v = l]
          ELSE acc
    IN FoldLeft(Step, [done |-> FALSE, v |-> Head(list)], list).v

(* With the bitmap scan starting one sector too far.                      *)
NextSecsSkip(l, bit) ==
    LET cand == {s \in ln[l].valid : s > bit + 1}
        Take(n) == {s \in cand : Cardinality({t \in cand : t <= s}) <= n}
    IN Take(MaxWritePgs)

(* The sectors a prepare iteration packs after bit: the next valid ones,   *)
(* at most MaxWritePgs of them.                                            *)
NextSecs(l, bit) ==
    LET cand == {s \in ln[l].valid : s > bit}
        Take(n) == {s \in cand : Cardinality({t \in cand : t <= s}) <= n}
    IN Take(MaxWritePgs)

RqsOf(l) == {r \in rqs : r.line = l} \cup {r \in ToSet(wlist) : r.line = l}

NoPrep == [line |-> NoLine, left |-> 0, bit |-> 0]

Listed == UNION {ToSet(gl[b]) : b \in Buckets}

-----------------------------------------------------------------------------
(* GC thread: pblk_gc_run                                                  *)

(* With gc_target decremented for every line of the full list, BLOCK      *)
(* lines included (the lstream map_type test left out).                   *)
GcRunFullAnyTarget ==
    /\ runpc.pc = "full"
    /\ gl["full"] # <<>>
    /\ LET l == Head(gl["full"]) IN
         /\ ln' = [ln EXCEPT ![l] = Put([@ EXCEPT !.st = "gc"])]
         /\ gctarget' = gctarget - 1
         /\ gl' = [gl EXCEPT !["full"] = Tail(@)]
    /\ UNCHANGED <<gc, rlist, inflight, prepq, prep, sem, rqs, wlist,
                   wentries, runpc, invline>>

(* First loop: a line of gc_full_list goes to GC and its reference is put, *)
(* which erases it once the write buffer holds no reference to it.         *)
GcRunFull ==
    /\ runpc.pc = "full"
    /\ gl["full"] # <<>>
    /\ LET l == Head(gl["full"]) IN
         /\ ln' = [ln EXCEPT ![l] = Put([@ EXCEPT !.st = "gc"])]
         /\ gctarget' = IF IsBlock(l) THEN gctarget ELSE gctarget - 1
         /\ gl' = [gl EXCEPT !["full"] = Tail(@)]
    /\ UNCHANGED <<gc, rlist, inflight, prepq, prep, sem, rqs, wlist,
                   wentries, runpc, invline>>

(* The full list is empty: GC goes on to the group lists only when it      *)
(* should run and the pipeline has room; otherwise pblk_gc_run returns.    *)
GcRunStart ==
    /\ runpc.pc = "full"
    /\ gl["full"] = <<>>
    /\ GcShouldRun(gc, gctarget, NrFree)
    /\ inflight < GcLQD
    /\ runpc' = [pc |-> "group", g |-> 1, prev |-> FALSE]
    /\ UNCHANGED <<ln, gl, gctarget, gc, rlist, inflight, prepq, prep, sem,
                   rqs, wlist, wentries, invline>>

(* Leaving a group list: the next list is tried only if nothing was taken  *)
(* and the rate limiter's state (rb_state) is beyond it.                   *)
GroupEnd(g, prev, rbs) ==
    IF ~prev /\ rbs > g /\ g < NrGcLists
    THEN [pc |-> "group", g |-> g + 1, prev |-> FALSE]
    ELSE [pc |-> "full", g |-> 1, prev |-> FALSE]

GcRunGroupEmpty(rbs) ==
    /\ runpc.pc = "group"
    /\ gl[GcLists[runpc.g]] = <<>>
    /\ runpc' = GroupEnd(runpc.g, runpc.prev, rbs)
    /\ UNCHANGED <<ln, gl, gctarget, gc, rlist, inflight, prepq, prep, sem,
                   rqs, wlist, wentries, invline>>

(* The victim is a BLOCK-mapped line that still holds valid sectors:       *)
(* pblk_gc_run stops scanning this list.                                   *)
GcRunBlockVictim(rbs) ==
    /\ runpc.pc = "group"
    /\ gl[GcLists[runpc.g]] # <<>>
    /\ LET v == GetVictimLine(gl[GcLists[runpc.g]]) IN
         IsBlock(v) /\ Vsc(v) > 0
    /\ runpc' = GroupEnd(runpc.g, runpc.prev, rbs)
    /\ UNCHANGED <<ln, gl, gctarget, gc, rlist, inflight, prepq, prep, sem,
                   rqs, wlist, wentries, invline>>

(* Without the BLOCK_MAP check on the victim.                              *)
GcRunSelectNoBlockCheck(rbs) ==
    /\ runpc.pc = "group"
    /\ gl[GcLists[runpc.g]] # <<>>
    /\ LET v == GetVictimLine(gl[GcLists[runpc.g]])
           tgt == IF IsBlock(v) THEN gctarget ELSE gctarget - 1
       IN /\ ln' = [ln EXCEPT ![v].st = "gc"]
          /\ gctarget' = tgt
          /\ gl' = Unlist(gl, v)
          /\ rlist' = Append(rlist, v)
          /\ inflight' = inflight + 1
          /\ runpc' = IF GcShouldRun(gc, tgt, NrFree) /\ inflight + 1 < GcLQD
                      THEN [runpc EXCEPT !.prev = TRUE]
                      ELSE GroupEnd(runpc.g, TRUE, rbs)
    /\ UNCHANGED <<gc, prepq, prep, sem, rqs, wlist, wentries, invline>>

(* The victim goes to GC and onto r_list; the loop goes on while GC should *)
(* run and fewer than PBLK_GC_L_QD lines are in flight.                    *)
GcRunSelect(rbs) ==
    /\ runpc.pc = "group"
    /\ gl[GcLists[runpc.g]] # <<>>
    /\ LET v == GetVictimLine(gl[GcLists[runpc.g]])
           tgt == IF IsBlock(v) THEN gctarget ELSE gctarget - 1
       IN /\ ~(IsBlock(v) /\ Vsc(v) > 0)
          /\ ln' = [ln EXCEPT ![v].st = "gc"]
          /\ gctarget' = tgt
          /\ gl' = Unlist(gl, v)
          /\ rlist' = Append(rlist, v)
          /\ inflight' = inflight + 1
          /\ runpc' = IF GcShouldRun(gc, tgt, NrFree) /\ inflight + 1 < GcLQD
                      THEN [runpc EXCEPT !.prev = TRUE]
                      ELSE GroupEnd(runpc.g, TRUE, rbs)
    /\ UNCHANGED <<gc, prepq, prep, sem, rqs, wlist, wentries, invline>>

-----------------------------------------------------------------------------
(* Reader thread: pblk_gc_read, pblk_gc_line                               *)

GcRead ==
    /\ rlist # <<>>
    /\ rlist' = Tail(rlist)
    /\ prepq' = Append(prepq, Head(rlist))
    /\ UNCHANGED <<ln, gl, gctarget, gc, inflight, prep, sem, rqs, wlist,
                   wentries, runpc, invline>>

-----------------------------------------------------------------------------
(* Prepare work: pblk_gc_line_prepare_ws on gc_reader_wq                   *)

(* The work starts: the emeta buffer is allocated, emeta is read and      *)
(* interpreted, and sec_left is the line's vsc.  The failure exits are     *)
(* actions of GCPipelineFaults.                                            *)
PrepStart ==
    /\ prep.line = NoLine
    /\ prepq # <<>>
    /\ prepq' = Tail(prepq)
    /\ prep' = [line |-> Head(prepq), left |-> Vsc(Head(prepq)), bit |-> 0]
    /\ UNCHANGED <<ln, gl, gctarget, inflight>>
    /\ UNCHANGED <<gc, rlist, sem, rqs, wlist, wentries, runpc, invline>>

(* Without the atomic_dec of inflight_gc at out.                          *)
PrepOutKeepInflight(l, r) ==
    /\ ln' = [ln EXCEPT ![l] = Put(r)]
    /\ UNCHANGED inflight
    /\ prep' = NoPrep

(* out: the reference the pipeline held since the line was closed is put. *)
PrepOut(l, r) ==
    /\ ln' = [ln EXCEPT ![l] = Put(r)]
    /\ inflight' = inflight - 1
    /\ prep' = NoPrep

(* Without the kref_get taken for each request.                            *)
PrepRqNoGet ==
    /\ prep.line # NoLine
    /\ LET l == prep.line
           secs == NextSecs(l, prep.bit)
           left == prep.left - Cardinality(secs)
       IN \/ /\ secs = {}
             /\ PrepOut(l, ln[l])
             /\ UNCHANGED <<sem, rqs, gl, gctarget>>
          \/ /\ secs # {}
             /\ sem > 0
             /\ sem' = sem - 1
             /\ rqs' = rqs \cup {[line |-> l, secs |-> secs, st |-> "queued"]}
             /\ IF left > 0
                THEN /\ prep' = [prep EXCEPT !.left = left, !.bit = Max(secs)]
                     /\ UNCHANGED <<ln, inflight>>
                ELSE PrepOut(l, ln[l])
             /\ UNCHANGED <<gl, gctarget>>
    /\ UNCHANGED <<gc, rlist, prepq, wlist, wentries, runpc, invline>>

(* Without the final kref_put of the line.                                 *)
PrepRqNoPut ==
    /\ prep.line # NoLine
    /\ LET l == prep.line
           secs == NextSecs(l, prep.bit)
           left == prep.left - Cardinality(secs)
           held == [ln[l] EXCEPT !.ref = @ + 1]
       IN \/ /\ secs = {}
             /\ inflight' = inflight - 1 /\ prep' = NoPrep
             /\ UNCHANGED <<sem, rqs, gl, gctarget, ln>>
          \/ /\ secs # {}
             /\ sem > 0
             /\ sem' = sem - 1
             /\ rqs' = rqs \cup {[line |-> l, secs |-> secs, st |-> "queued"]}
             /\ ln' = [ln EXCEPT ![l] = held]
             /\ IF left > 0
                THEN /\ prep' = [prep EXCEPT !.left = left, !.bit = Max(secs)]
                     /\ UNCHANGED inflight
                ELSE inflight' = inflight - 1 /\ prep' = NoPrep
             /\ UNCHANGED <<gl, gctarget>>
    /\ UNCHANGED <<gc, rlist, prepq, wlist, wentries, runpc, invline>>

(* Without the down(gc_sem) before a request is queued.                    *)
PrepRqNoDown ==
    /\ prep.line # NoLine
    /\ LET l == prep.line
           secs == NextSecs(l, prep.bit)
           left == prep.left - Cardinality(secs)
           held == [ln[l] EXCEPT !.ref = @ + 1]
       IN \/ /\ secs = {}
             /\ PrepOut(l, ln[l])
             /\ UNCHANGED <<sem, rqs, gl, gctarget>>
          \/ /\ secs # {}
             /\ rqs' = rqs \cup {[line |-> l, secs |-> secs, st |-> "queued"]}
             /\ IF left > 0
                THEN /\ prep' = [prep EXCEPT !.left = left, !.bit = Max(secs)]
                     /\ ln' = [ln EXCEPT ![l] = held]
                     /\ UNCHANGED inflight
                ELSE PrepOut(l, held)
             /\ UNCHANGED <<sem, gl, gctarget>>
    /\ UNCHANGED <<gc, rlist, prepq, wlist, wentries, runpc, invline>>

(* One iteration of next_rq: allocate a request, pack the                 *)
(* next valid sectors after bit; none left: out.  Otherwise down(gc_sem),  *)
(* kref_get, queue the request, and go on while sec_left > 0.              *)
PrepRq ==
    /\ prep.line # NoLine
    /\ LET l == prep.line
           secs == NextSecs(l, prep.bit)
           left == prep.left - Cardinality(secs)
           held == [ln[l] EXCEPT !.ref = @ + 1]
       IN \/ /\ secs = {}
             /\ PrepOut(l, ln[l])
             /\ UNCHANGED <<sem, rqs, gl, gctarget>>
          \/ /\ secs # {}
             /\ sem > 0
             /\ sem' = sem - 1
             /\ rqs' = rqs \cup {[line |-> l, secs |-> secs, st |-> "queued"]}
             /\ IF left > 0
                THEN /\ prep' = [prep EXCEPT !.left = left, !.bit = Max(secs)]
                     /\ ln' = [ln EXCEPT ![l] = held]
                     /\ UNCHANGED inflight
                ELSE PrepOut(l, held)
             /\ UNCHANGED <<gl, gctarget>>
    /\ UNCHANGED <<gc, rlist, prepq, wlist, wentries, runpc, invline>>

-----------------------------------------------------------------------------
(* Line workers and writer: pblk_gc_line_ws, pblk_gc_write                 *)

(* pblk_gc_move_valid_secs: a request whose sectors were all invalidated  *)
(* meanwhile (secs_to_gc = 0) puts the line reference and is dropped;     *)
(* otherwise it waits for room on w_list.                                  *)
MoveValidSecs(r) ==
    \/ /\ r.secs \cap ln[r.line].valid = {}
       /\ rqs' = rqs \ {r}
       /\ ln' = [ln EXCEPT ![r.line] = Put(@)]
    \/ /\ r.secs \cap ln[r.line].valid # {}
       /\ rqs' = (rqs \ {r}) \cup {[r EXCEPT !.st = "wait"]}
       /\ UNCHANGED ln

(* pblk_gc_line_ws: up(gc_sem) comes first, then the request is read.      *)
LineWs(r) ==
    /\ r.st = "queued"
    /\ sem' = sem + 1
    /\ MoveValidSecs(r)
    /\ UNCHANGED <<gl, gctarget, gc, rlist, inflight, prepq, prep, wlist,
                   wentries, runpc, invline>>

(* The retry loop of pblk_gc_move_valid_secs: under w_lock, a request is   *)
(* queued only while w_entries < PBLK_GC_W_QD.                             *)
LineWsQueue(r) ==
    /\ r.st = "wait"
    /\ wentries < GcWQD
    /\ wentries' = wentries + 1
    /\ wlist' = Append(wlist, r)
    /\ rqs' = rqs \ {r}
    /\ UNCHANGED <<ln, gl, gctarget, gc, rlist, inflight, prepq, prep, sem,
                   runpc, invline>>

(* pblk_write_gc_to_cache moves a request's still-valid sectors into the   *)
(* write buffer; then the request's line reference is put.                 *)
WriteGcRq(f, r) == [f EXCEPT ![r.line] = Put([@ EXCEPT !.valid = @ \ r.secs])]

(* pblk_gc_write: the whole w_list is cut off under w_lock and written.    *)
GcWrite ==
    /\ wlist # <<>>
    /\ wlist' = <<>>
    /\ wentries' = 0
    /\ ln' = FoldLeft(WriteGcRq, ln, wlist)
    /\ UNCHANGED <<gl, gctarget, gc, rlist, inflight, prepq, prep, sem, rqs,
                   runpc, invline>>

-----------------------------------------------------------------------------
(* The rest of pblk, as the GC sees it                                     *)

(* A user write supersedes sector s of line l (__pblk_map_invalidate): a   *)
(* closed line moves to the gc list of its new vsc.                        *)
Invalidate(l, s) ==
    /\ s \in ln[l].valid
    /\ ln' = [ln EXCEPT ![l].valid = @ \ {s}]
    /\ gl' = IF ln[l].st = "closed"
                /\ LineGcList(Vsc(l) - 1) # LineGcList(Vsc(l))
             THEN MoveTail(gl, l, LineGcList(Vsc(l) - 1))
             ELSE gl
    /\ UNCHANGED <<gctarget, gc, rlist, inflight, prepq, prep, sem, rqs,
                   wlist, wentries, runpc, invline>>

(* pblk_rb_update_l2p: a buffer entry written to line l is retired and     *)
(* puts its reference to the line.                                         *)
BufRelease(l) ==
    /\ ln[l].buf > 0
    /\ ln' = [ln EXCEPT ![l] = Put([@ EXCEPT !.buf = @ - 1])]
    /\ UNCHANGED <<gl, gctarget, gc, rlist, inflight, prepq, prep, sem, rqs,
                   wlist, wentries, runpc, invline>>

(* pblk_rb_reserved_entry: a sub-page neighbour is read from line l, which *)
(* becomes the stream's invalid_line.                                      *)
SetInvalidLine(st, l) ==
    /\ ln[l].valid # {}
    /\ invline' = [invline EXCEPT ![st] = l]
    /\ UNCHANGED <<ln, gl, gctarget, gc, rlist, inflight, prepq, prep, sem,
                   rqs, wlist, wentries, runpc>>

(* pblk_gc_should_start (with pblk_gc_start).                              *)
GcShouldStart ==
    /\ gc.enabled /\ ~gc.active
    /\ gc' = [gc EXCEPT !.active = TRUE]
    /\ UNCHANGED <<ln, gl, gctarget, rlist, inflight, prepq, prep, sem, rqs,
                   wlist, wentries, runpc, invline>>

(* pblk_gc_should_stop (with pblk_gc_stop).                                *)
GcShouldStop ==
    /\ gc.active /\ ~gc.forced
    /\ gc' = [gc EXCEPT !.active = FALSE]
    /\ UNCHANGED <<ln, gl, gctarget, rlist, inflight, prepq, prep, sem, rqs,
                   wlist, wentries, runpc, invline>>

(* pblk_gc_sysfs_force: force is 0 or 1; then pblk_gc_should_start.        *)
GcSysfsForce(force) ==
    /\ gc' = [forced  |-> force = 1,
              enabled |-> force = 1,
              active  |-> gc.active \/ force = 1]
    /\ UNCHANGED <<ln, gl, gctarget, rlist, inflight, prepq, prep, sem, rqs,
                   wlist, wentries, runpc, invline>>

-----------------------------------------------------------------------------
(* Closed lines with any valid sectors, on their gc lists in some order,   *)
(* possibly still referenced by one buffer entry; GC as pblk_gc_init       *)
(* leaves it.  gc_target counts the closed lines that are not BLOCK lines. *)
Init ==
    /\ \E valid \in [Lines -> SUBSET Secs], buf \in [Lines -> 0..1],
          order \in SetToSeqs(Lines) :
         /\ ln = [l \in Lines |-> [st |-> "closed", valid |-> valid[l],
                                   ref |-> 1 + buf[l], buf |-> buf[l]]]
         /\ gl = [b \in Buckets |->
                    SelectSeq(order, LAMBDA l :
                                LineGcList(Cardinality(valid[l])) = b)]
    /\ gctarget = Cardinality({l \in Lines : ~IsBlock(l)})
    /\ gc = [active |-> FALSE, enabled |-> TRUE, forced |-> FALSE]
    /\ rlist = <<>> /\ inflight = 0
    /\ prepq = <<>> /\ prep = NoPrep /\ sem = SemInit
    /\ rqs = {} /\ wlist = <<>> /\ wentries = 0
    /\ runpc = [pc |-> "full", g |-> 1, prev |-> FALSE]
    /\ invline = [st \in DataStreams |-> NoLine]

GcThread ==
    \/ GcRunFull
    \/ GcRunStart
    \/ \E rbs \in 1..NrGcLists :
         GcRunGroupEmpty(rbs) \/ GcRunBlockVictim(rbs) \/ GcRunSelect(rbs)

GcWorkers ==
    \/ GcRead
    \/ PrepStart
    \/ PrepRq
    \/ \E r \in rqs : LineWs(r)
    \/ \E r \in rqs : LineWsQueue(r)
    \/ GcWrite

Environment ==
    \/ \E l \in Lines, s \in Secs : Invalidate(l, s)
    \/ \E l \in Lines : BufRelease(l)
    \/ \E st \in DataStreams, l \in Lines : SetInvalidLine(st, l)
    \/ GcShouldStart
    \/ GcShouldStop
    \/ \E f \in {0, 1} : GcSysfsForce(f)

Next == GcThread \/ GcWorkers \/ Environment

(* Every GC thread and work item gets to run, and the write buffer retires *)
(* its entries; user writes and the GC switches are not forced.            *)
Fairness ==
    /\ WF_vars(GcThread)
    /\ WF_vars(GcRead) /\ WF_vars(PrepStart) /\ WF_vars(PrepRq)
    /\ WF_vars(\E r \in rqs : LineWs(r))
    /\ WF_vars(\E r \in rqs : LineWsQueue(r))
    /\ WF_vars(GcWrite)
    /\ WF_vars(\E l \in Lines : BufRelease(l))

Spec == Init /\ [][Next]_vars
FairSpec == Spec /\ Fairness

-----------------------------------------------------------------------------
(* Properties                                                              *)

InPipeline(l) == l \in ToSet(rlist) \cup ToSet(prepq) \/ prep.line = l

TypeOK ==
    /\ ln \in [Lines -> [st : {"closed", "gc", "free"}, valid : SUBSET Secs,
                         ref : Int, buf : 0..1]]
    /\ gl \in [Buckets -> Seq(Lines)]
    /\ inflight \in 0..GcLQD /\ sem \in 0..SemInit
    /\ wentries \in 0..GcWQD
    /\ runpc.pc \in {"full", "group"} /\ runpc.g \in 1..NrGcLists

(* Line references (kref of struct pblk_line): a line that is not free     *)
(* holds exactly one reference per write-buffer entry naming it, one for   *)
(* every GC request of it in flight, and one while it sits on a gc list or *)
(* in the first stages of the pipeline (r_list, gc_reader_wq, the prepare  *)
(* work).  kref_get/kref_put in pblk-gc.c and pblk-rb.c keep this count.   *)
RefAccounting ==
    \A l \in Lines :
        ln[l].st # "free" =>
            ln[l].ref = ln[l].buf + Cardinality(RqsOf(l))
                        + (IF l \in Listed \/ InPipeline(l) THEN 1 ELSE 0)

(* GC safety: pblk_line_put erases a line only when nothing names it any   *)
(* more and its valid sectors have all been moved or superseded: a freed  *)
(* line is on no gc list, in no GC stage, and holds no valid sector.       *)
EraseSafety ==
    \A l \in Lines :
        ln[l].st = "free" =>
            /\ ln[l].valid = {}
            /\ l \notin Listed /\ ~InPipeline(l) /\ RqsOf(l) = {}

(* gc->inflight_gc counts the lines between pblk_gc_run and the end of     *)
(* their prepare work, and pblk_gc_run never lets it pass PBLK_GC_L_QD.    *)
InflightAccounting ==
    /\ inflight = Len(rlist) + Len(prepq) + (IF prep.line # NoLine THEN 1 ELSE 0)
    /\ inflight <= GcLQD

(* gc_target counts the closed lines of non-BLOCK streams: pblk_gc_run     *)
(* decrements it on both of its paths to PBLK_LINESTATE_GC and             *)
(* pblk_put_line_back increments it, each only for a non-BLOCK stream.     *)
(* pblk_gc_should_run reads it into an unsigned, so a count that drifted   *)
(* below the closed lines (or below zero) would keep GC running, or stop   *)
(* it, with lines left to collect.                                         *)
GcTargetMatches ==
    gctarget = Cardinality({l \in Lines : ~IsBlock(l) /\ ln[l].st = "closed"})

(* pblk_write_gc_to_cache hits BUG_ON for a BLOCK_MAP line: no request of  *)
(* a BLOCK line ever reaches the line workers or the GC writer.            *)
NoBlockReinject ==
    \A r \in rqs \cup ToSet(wlist) : ~IsBlock(r.line)

(* A line the GC takes is eventually erased: the pipeline drains every     *)
(* request, and the last reference put frees the line.                    *)
GcCompletes ==
    \A l \in Lines : ln[l].st = "gc" ~> ln[l].st = "free"

=============================================================================
