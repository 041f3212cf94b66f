----------------------------- MODULE F2fsVictim -----------------------------
(***************************************************************************)
(* Victim selection and cleaning of the f2fs garbage collector of mstream  *)
(* (src/mstream_f2fs/gc.c), in the default build: none of F2FS_GC_DELAYED, *)
(* F2FS_FORCE_GC_CB, STREAM_GC_STATIC, STREAM_GC_PILOT, DYNAMIC_GC_W is    *)
(* defined in the sources of the repository, so get_cb_cost takes its      *)
(* #else branch and select_policy calls select_gc_type.                    *)
(*                                                                         *)
(* The main area is MainSegs segments, SegsPerSec to a section; every      *)
(* segment holds data (IS_DATASEG).  A segment's valid block count is the  *)
(* state GC acts on; the dirty, prefree and free sets follow from it as    *)
(* locate_dirty_segment (segment.c) files them.  f2fs_gc holds gc_mutex    *)
(* for a whole call, so one gc record stands for the call in progress:     *)
(* the victim search (under seglist_lock and sentry_lock) is one step,     *)
(* do_garbage_collect another, and user writes may come in between.        *)
(***************************************************************************)
EXTENDS Naturals, FiniteSets, FiniteSetsExt, Functions

CONSTANTS
    MainSegs,        \* MAIN_SEGS(sbi)
    SegsPerSec,      \* sbi->segs_per_sec, the ofs_unit of LFS selection
    BlocksPerSeg,    \* sbi->blocks_per_seg = 2^log_blocks_per_seg
    MaxVictimSearch, \* sbi->max_victim_search, the BG search window
    CurSegs,         \* segments of the open logs (IS_CURSEG)
    OvpSegs,         \* SM_I(sbi)->ovp_segments
    ResvSegs,        \* SM_I(sbi)->reserved_segments
    ReservedSecs,    \* free sections has_not_enough_free_secs wants
    GcIdle,          \* gc_th->gc_idle, set through sysfs: 0, 1 or 2
    Mtime,           \* se->mtime of every segment
    MtimeClock,      \* the values get_mtime() may have returned at mount
    Pinned,          \* segments whose blocks belong to an atomic file
    RangeSegnos,     \* start segments an F2FS_IOC_GARBAGE_COLLECT_RANGE names
    DioContention    \* whether direct I/O may hold an inode's dio_rwsem

Segs == 0..MainSegs - 1
Secs == 0..(MainSegs \div SegsPerSec) - 1

ASSUME /\ MainSegs % SegsPerSec = 0
       /\ CurSegs \subseteq Segs /\ Pinned \subseteq Segs
       /\ RangeSegnos \subseteq Segs
       \* do_garbage_collect walks segs_per_sec segments from an unaligned
       \* range start too; a start in the last section's tail would walk
       \* past the main area, which the model leaves out
       /\ \A r \in RangeSegnos : r + SegsPerSec <= MainSegs
       /\ DioContention \in BOOLEAN
       /\ Mtime \in [Segs -> Nat] /\ MtimeClock \subseteq Nat
       /\ GcIdle \in {0, 1, 2}

\* NULL_SEGNO is ~0; the scan only needs it to be no segment
NULL_SEGNO == MainSegs
NoSec == MainSegs

\* TLC's integers end at 2^31 - 1.  Costs are only compared, and every
\* cost is UINT_MAX minus at most 100 * 100 * 100, so this value keeps
\* their order and their equalities.
UINT_MAX == 2147483647

VARIABLES
    valid,         \* segno -> get_valid_blocks(sbi, segno, false)
    prefree,       \* dirty_segmap[PRE]: invalidated since the checkpoint
    pending,       \* segments whose live pages BG GC dirtied (set_page_dirty)
    victimSecmap,  \* dirty_i->victim_secmap
    lastVictim,    \* sit_i->last_victim[GC_CB], [GC_GREEDY]
    minMtime,      \* sit_i->min_mtime
    maxMtime,      \* sit_i->max_mtime
    gc,            \* the f2fs_gc call holding gc_mutex
    scanned        \* sections the last victim search visited (history)

vars == <<valid, prefree, pending, victimSecmap, lastVictim, minMtime,
          maxMtime, gc, scanned>>

-----------------------------------------------------------------------------
(* Segment and section accounting (segment.h, segment.c)                   *)

SecOf(segno) == segno \div SegsPerSec
SegsOf(secno) == {secno * SegsPerSec + i : i \in 0..SegsPerSec - 1}

\* get_valid_blocks(sbi, segno, true) over a valid map v
SecValid(v, secno) == SumFunctionOnSet(v, SegsOf(secno))

\* dirty_segmap[DIRTY] as locate_dirty_segment keeps it
Dirty == {s \in Segs \ CurSegs : 0 < valid[s] /\ valid[s] < BlocksPerSeg}
DirtySecs == {SecOf(s) : s \in Dirty}

\* free sections: every segment empty, not prefree and not an open log
FreeSecs(pf) ==
    {x \in Secs : \A s \in SegsOf(x) : valid[s] = 0 /\ s \notin pf /\ s \notin CurSegs}

\* has_not_enough_free_secs(sbi, freed, 0)
NotEnoughFree(pf, freed) == Cardinality(FreeSecs(pf)) + freed <= ReservedSecs

\* sec_usage_check: the section holds an open log (cur_victim_sec is set
\* and cleared inside one f2fs_gc call, which excludes other searches)
SecUsage(secno) == \E c \in CurSegs : SecOf(c) = secno

\* build_gc_manager: fggc_threshold from the main, overprovision and
\* reserved segment counts, in blocks
FggcThreshold ==
    LET main == MainSegs * BlocksPerSeg
        resv == ResvSegs * BlocksPerSeg
        ovp  == OvpSegs * BlocksPerSeg
    IN ((main - ovp) * (BlocksPerSeg * SegsPerSec)) \div (main - resv)

\* no_fggc_candidate (gc.h)
NoFggcCandidate(secno) == SecValid(valid, secno) >= FggcThreshold

\* __remove_dirty_segment clears the victim bit of a section that empties
ClearSecmap(v, map) == {x \in map : SecValid(v, x) > 0}

\* locate_dirty_segment files a segment that became empty as prefree
NewPrefree(v) == {s \in Segs \ CurSegs : valid[s] > 0 /\ v[s] = 0}

-----------------------------------------------------------------------------
(* Victim selection policy and costs (gc.c)                                *)

\* select_gc_type: BG_GC uses cost-benefit, FG_GC greedy, unless gc_idle
\* forces one of them
SelectGcType(gcType) ==
    CASE GcIdle = 1 -> "cb"
      [] GcIdle = 2 -> "greedy"
      [] OTHER      -> IF gcType = "BG" THEN "cb" ELSE "greedy"

SelectPolicyCapAll(gcType) ==
    LET mode == SelectGcType(gcType)
        nr   == Cardinality(Dirty)
    IN [gc_mode    |-> mode,
        max_search |-> IF nr > MaxVictimSearch THEN MaxVictimSearch ELSE nr,
        ofs_unit   |-> SegsPerSec,
        offset     |-> lastVictim[mode]]

\* select_policy for alloc_mode LFS
SelectPolicy(gcType) ==
    LET mode == SelectGcType(gcType)
        nr   == Cardinality(Dirty)
    IN [gc_mode    |-> mode,
        max_search |-> IF gcType # "FG" /\ nr > MaxVictimSearch
                       THEN MaxVictimSearch ELSE nr,
        ofs_unit   |-> SegsPerSec,
        offset     |-> lastVictim[mode]]

\* get_max_cost for alloc_mode LFS
GetMaxCost(p) ==
    IF p.gc_mode = "greedy" THEN 2 * BlocksPerSeg * p.ofs_unit ELSE UINT_MAX

\* check_bg_victims: the lowest section BG GC marked that FG GC may take
CheckBgVictims ==
    LET ok == {x \in victimSecmap : ~SecUsage(x) /\ ~NoFggcCandidate(x)}
    IN IF ok = {} THEN NoSec ELSE Min(ok)

\* get_greedy_cost: valid blocks of the section (data segments, * 1)
GetGreedyCost(segno) == SecValid(valid, SecOf(segno))

\* the mean mtime of segno's section, as the loop of get_cb_cost sums it
SecMtime(segno) == SumFunctionOnSet(Mtime, SegsOf(SecOf(segno))) \div SegsPerSec

\* the tail of get_cb_cost (#else branch), given min_mtime and max_mtime
\* already widened to the section's mtime m
GetCbCost(segno, m, mn, mx) ==
    LET u   == ((SecValid(valid, SecOf(segno)) \div SegsPerSec) * 100) \div BlocksPerSeg
        age == IF mx # mn THEN 100 - (100 * (m - mn)) \div (mx - mn) ELSE 0
    IN UINT_MAX - (100 * (100 - u) * age) \div (100 + u)

\* count_bits over dirty_segmap
CountBits(offset, len) == Cardinality({i \in offset..offset + len - 1 : i \in Dirty})

\* find_next_bit(dirty_segmap, last, from)
FindNextBit(from, last) ==
    LET c == {s \in Dirty : from <= s /\ s < last}
    IN IF c = {} THEN last ELSE Min(c)

\* the "goto next" tests of the search loop: the section is in use, is
\* already a BG victim (BG_GC) or is too full for FG_GC
SkipSec(gcType, secno) ==
    \/ SecUsage(secno)
    \/ gcType = "BG" /\ secno \in victimSecmap
    \/ gcType = "FG" /\ NoFggcCandidate(secno)

\* one iteration of the search loop of get_victim_by_default on segno:
\* advance the offset, count the searched segments, and cost the section
\* unless it is skipped
Visit(sc, p, gcType, segno) ==
    LET off   == segno + p.ofs_unit - (IF p.ofs_unit > 1 THEN segno % p.ofs_unit ELSE 0)
        ns    == sc.nsearched + (IF p.ofs_unit > 1 THEN CountBits(off - p.ofs_unit, p.ofs_unit)
                                                 ELSE 1)
        secno == SecOf(segno)
        skip  == SkipSec(gcType, secno)
        cb    == p.gc_mode = "cb" /\ ~skip
        m     == SecMtime(segno)
        mn    == IF cb /\ m < sc.mn THEN m ELSE sc.mn
        mx    == IF cb /\ m > sc.mx THEN m ELSE sc.mx
        cost  == IF p.gc_mode = "greedy" THEN GetGreedyCost(segno)
                 ELSE GetCbCost(segno, m, mn, mx)
        take  == ~skip /\ sc.min_cost > cost
    IN [sc EXCEPT !.offset = off, !.nsearched = ns, !.mn = mn, !.mx = mx,
                  !.seen = @ \cup {secno},
                  !.min_segno = IF take THEN segno ELSE @,
                  !.min_cost = IF take THEN cost ELSE @]

NextLastVictimNoMod(sc, segno, lastv) ==
    IF sc.lv = 0 /\ segno <= lastv THEN lastv + 1 ELSE segno + 1

NextLastVictimNoInc(sc, segno, lastv) ==
    (IF sc.lv = 0 /\ segno <= lastv THEN lastv + 1 ELSE segno) % MainSegs

\* where the search stops, sm->last_victim[gc_mode] moves on
NextLastVictim(sc, segno, lastv) ==
    (IF sc.lv = 0 /\ segno <= lastv THEN lastv + 1 ELSE segno + 1) % MainSegs

\* the sole element of a one-element set; binding a value this way makes
\* TLC compute it once
The(S) == CHOOSE x \in S : TRUE

\* the while (1) loop of get_victim_by_default: from p.offset to the end
\* of the main area, then once from 0 to the old last_victim; lastv is the
\* last_victim read before the loop
RECURSIVE Scan(_, _, _, _), Continue(_, _, _, _, _)
Scan(sc, p, gcType, lastv) ==
    LET segno == FindNextBit(sc.offset, sc.last_segment)
    IN IF segno >= sc.last_segment
       THEN IF sc.lv # 0
            THEN Scan([sc EXCEPT !.last_segment = sc.lv, !.lv = 0, !.offset = 0],
                      p, gcType, lastv)
            ELSE sc
       ELSE The({Continue(next, segno, p, gcType, lastv) :
                    next \in {Visit(sc, p, gcType, segno)}})

\* after visiting segno: stop once max_search segments were searched,
\* moving last_victim on, else go on searching
Continue(next, segno, p, gcType, lastv) ==
    IF next.nsearched >= p.max_search
    THEN [next EXCEPT !.lv = NextLastVictim(next, segno, lastv)]
    ELSE Scan(next, p, gcType, lastv)

\* the end of get_victim_by_default after the search loop sc: with a
\* victim, got_it marks it for BG_GC and aligns *result to its section
Found(sc, p, gcType, result) ==
    LET got == sc.min_segno # NULL_SEGNO
    IN [ok     |-> got,
        segno  |-> IF got THEN (sc.min_segno \div p.ofs_unit) * p.ofs_unit ELSE result,
        lv     |-> [lastVictim EXCEPT ![p.gc_mode] = sc.lv],
        secmap |-> IF got /\ gcType = "BG"
                   THEN victimSecmap \cup {SecOf(sc.min_segno)}
                   ELSE victimSecmap,
        mn     |-> sc.mn, mx |-> sc.mx, seen |-> sc.seen]

\* get_victim_by_default under the policy p: the *result given by the
\* caller, no dirty segment, a BG victim FG_GC may reuse, or the search
VictimSel(p, gcType, result) ==
    LET out  == [ok |-> FALSE, segno |-> result, lv |-> lastVictim,
                 secmap |-> victimSecmap, mn |-> minMtime, mx |-> maxMtime,
                 seen |-> {}]
        bg   == IF gcType = "FG" THEN CheckBgVictims ELSE NoSec
        scan == Scan([offset |-> p.offset, last_segment |-> MainSegs,
                      lv |-> lastVictim[p.gc_mode], nsearched |-> 0,
                      min_segno |-> NULL_SEGNO, min_cost |-> GetMaxCost(p),
                      mn |-> minMtime, mx |-> maxMtime, seen |-> {}],
                     p, gcType, lastVictim[p.gc_mode])
    IN CASE result # NULL_SEGNO ->
              [out EXCEPT !.ok = valid[result] > 0 /\ ~SecUsage(SecOf(result))]
         [] p.max_search = 0 -> out
         [] bg # NoSec ->
              [out EXCEPT !.ok = TRUE, !.segno = bg * SegsPerSec,
                          !.secmap = victimSecmap \ {bg}]
         [] OTHER -> The({Found(sc, p, gcType, result) : sc \in {scan}})

\* get_victim_by_default(sbi, &result, gcType, NO_CHECK_TYPE, LFS): ok
\* is its return value, segno the *result it leaves, and lv, secmap, mn,
\* mx the last_victim, victim_secmap, min_mtime, max_mtime it leaves
GetVictimByDefault(gcType, result) ==
    The({VictimSel(p, gcType, result) : p \in {SelectPolicy(gcType)}})

-----------------------------------------------------------------------------
(* f2fs_gc and do_garbage_collect                                          *)

GcRecords == [pc : {"idle", "search", "collect"}, sync : BOOLEAN,
              background : BOOLEAN, gc_type : {"BG", "FG"},
              segno : Segs \cup {NULL_SEGNO}, sec_freed : Nat]

\* entry of f2fs_gc(sbi, sync, background, segno) under gc_mutex
StartGc(sync, background, segno) ==
    /\ gc.pc = "idle"
    /\ gc' = [pc |-> "search", sync |-> sync, background |-> background,
              gc_type |-> IF sync THEN "FG" ELSE "BG", segno |-> segno,
              sec_freed |-> 0]
    /\ UNCHANGED <<valid, prefree, pending, victimSecmap, lastVictim,
                   minMtime, maxMtime, scanned>>

\* gc_thread_func: the background thread took gc_mutex, found the device
\* idle and calls f2fs_gc(sbi, test_opt(FORCE_FG_GC) = false, true,
\* NULL_SEGNO); its sleep-time bookkeeping is timing only
GcThreadFunc == StartGc(FALSE, TRUE, NULL_SEGNO)

\* f2fs_balance_fs (segment.c): a writer short of free sections runs
\* f2fs_gc(sbi, false, false, NULL_SEGNO)
BalanceFs ==
    /\ NotEnoughFree(prefree, 0)
    /\ StartGc(FALSE, FALSE, NULL_SEGNO)

\* F2FS_IOC_GARBAGE_COLLECT and F2FS_IOC_GARBAGE_COLLECT_RANGE (file.c):
\* f2fs_gc(sbi, sync, true, NULL_SEGNO or GET_SEGNO(range.start))
IoctlGc(sync, segno) == StartGc(sync, TRUE, segno)

\* gc_more: a BG call short of free sections first checkpoints, which
\* turns the prefree segments free
CheckpointIfShort ==
    IF gc.gc_type = "BG" /\ NotEnoughFree(prefree, 0) THEN {} ELSE prefree

\* ... and, still short, goes on as FG_GC
GcTypeAfter(pf) ==
    IF gc.gc_type = "BG" /\ NotEnoughFree(pf, 0) THEN "FG" ELSE gc.gc_type

\* gc_more: stop on a BG call with no background permission, promote BG
\* to FG when free sections run short (after a checkpoint that frees the
\* prefree segments), then __get_victim; with no victim f2fs_gc stops
GcSearch ==
    /\ gc.pc = "search"
    /\ \E pf \in {CheckpointIfShort} :
       \E gct \in {GcTypeAfter(pf)} :
         /\ prefree' = pf
         /\ \/ /\ gct = "BG" /\ ~gc.background
               /\ gc' = [gc EXCEPT !.pc = "idle", !.gc_type = gct]
               /\ UNCHANGED <<lastVictim, victimSecmap, minMtime, maxMtime, scanned>>
            \/ /\ ~(gct = "BG" /\ ~gc.background)
               /\ \E r \in {GetVictimByDefault(gct, gc.segno)} :
                    /\ lastVictim' = r.lv
                    /\ victimSecmap' = r.secmap
                    /\ minMtime' = r.mn
                    /\ maxMtime' = r.mx
                    /\ scanned' = r.seen
                    /\ gc' = [gc EXCEPT !.pc = IF r.ok THEN "collect" ELSE "idle",
                                        !.gc_type = gct, !.segno = r.segno]
    /\ UNCHANGED <<valid, pending>>

\* phase 4 of gc_data_segment skips a block whose inode's dio_rwsem
\* down_write_trylock fails; busy is the set of victim segments whose
\* blocks direct I/O holds during this pass
BusySets(seg) == IF DioContention THEN SUBSET seg ELSE {{}}

\* gc_data_segment and move_data_page on one victim segment: FG_GC
\* writes every live block out at once, except the blocks of an atomic
\* file and those it could not lock, which it leaves in place
MoveFg(s, busy) == IF s \in Pinned \cup busy THEN valid[s] ELSE 0

\* ... BG_GC only dirties the pages of the live blocks (not those of an
\* atomic file), and gives up when free sections run short
MoveBg(seg, busy) ==
    IF NotEnoughFree(prefree, 0) THEN {}
    ELSE {s \in seg : valid[s] > 0 /\ s \notin Pinned \cup busy}

\* the segments do_garbage_collect walks: start_segno up to end_segno =
\* start_segno + segs_per_sec
VictimSegs(start) == start..start + SegsPerSec - 1

\* do_garbage_collect(sbi, segno, gc_type) on segno .. segno + segs_per_sec
\* - 1, then the rest of the f2fs_gc iteration: count a freed section,
\* clear cur_victim_sec, and when not sync either go back to gc_more while
\* free sections are short or end, after a checkpoint if FG_GC
GcCollect ==
    LET seg   == VictimSegs(gc.segno)
        fg    == gc.gc_type = "FG"
    IN \E busy \in BusySets(seg) :
    LET v     == IF fg THEN [s \in Segs |-> IF s \in seg THEN MoveFg(s, busy) ELSE valid[s]]
                 ELSE valid
        pf    == prefree \cup NewPrefree(v)
        freed == gc.sec_freed + (IF fg /\ SecValid(v, SecOf(gc.segno)) = 0 THEN 1 ELSE 0)
        more  == ~gc.sync /\ NotEnoughFree(pf, freed)
    IN /\ gc.pc = "collect"
       /\ valid' = v
       /\ pending' = IF fg THEN pending ELSE pending \cup MoveBg(seg, busy)
       /\ victimSecmap' = ClearSecmap(v, victimSecmap)
       /\ prefree' = IF ~gc.sync /\ ~more /\ fg THEN {} ELSE pf
       /\ gc' = [gc EXCEPT !.pc = IF more THEN "search" ELSE "idle",
                           !.segno = IF more THEN NULL_SEGNO ELSE @,
                           !.sec_freed = freed]
       /\ UNCHANGED <<lastVictim, minMtime, maxMtime, scanned>>

-----------------------------------------------------------------------------
(* The rest of the file system                                             *)

\* writeback of pages BG GC dirtied moves their blocks to the open log
Writeback(s) ==
    LET v == [valid EXCEPT ![s] = 0]
    IN /\ s \in pending
       /\ valid' = v
       /\ pending' = pending \ {s}
       /\ prefree' = prefree \cup NewPrefree(v)
       /\ victimSecmap' = ClearSecmap(v, victimSecmap)
       /\ UNCHANGED <<lastVictim, minMtime, maxMtime, gc, scanned>>

\* a user overwrite invalidates one block of segment s (update_sit_entry)
Invalidate(s) ==
    LET v == [valid EXCEPT ![s] = @ - 1]
    IN /\ s \notin CurSegs
       /\ valid[s] > 0
       /\ valid' = v
       /\ prefree' = prefree \cup NewPrefree(v)
       /\ victimSecmap' = ClearSecmap(v, victimSecmap)
       /\ UNCHANGED <<pending, lastVictim, minMtime, maxMtime, gc, scanned>>

\* a checkpoint makes the prefree segments free
Checkpoint ==
    /\ prefree # {}
    /\ prefree' = {}
    /\ UNCHANGED <<valid, pending, victimSecmap, lastVictim, minMtime,
                   maxMtime, gc, scanned>>

-----------------------------------------------------------------------------

\* mount: build_sit_info sets min_mtime to the oldest segment and
\* max_mtime to the clock, last_victim to 0; nothing is prefree after the
\* mount's checkpoint and no GC runs
Init ==
    /\ valid \in [Segs -> 0..BlocksPerSeg]
    /\ prefree = {}
    /\ pending = {}
    /\ victimSecmap = {}
    /\ lastVictim = [m \in {"cb", "greedy"} |-> 0]
    /\ minMtime = Min({Mtime[s] : s \in Segs})
    /\ maxMtime \in MtimeClock
    /\ gc = [pc |-> "idle", sync |-> FALSE, background |-> TRUE,
             gc_type |-> "BG", segno |-> NULL_SEGNO, sec_freed |-> 0]
    /\ scanned = {}

GcCalls ==
    \/ GcThreadFunc
    \/ BalanceFs
    \/ \E sync \in BOOLEAN, segno \in RangeSegnos \cup {NULL_SEGNO} : IoctlGc(sync, segno)

Environment ==
    \/ \E s \in Segs : Writeback(s) \/ Invalidate(s)
    \/ Checkpoint

Next == GcCalls \/ GcSearch \/ GcCollect \/ Environment

Spec == Init /\ [][Next]_vars

\* The GC thread wakes up every wait_ms for ever and tries gc_mutex: other
\* f2fs_gc callers may hold it at some wake-ups but not at all of them, so
\* the thread is strongly fair.  A started f2fs_gc call runs on under
\* gc_mutex, and the flusher writes dirty pages back.
FairSpec == Spec /\ SF_vars(GcThreadFunc) /\ WF_vars(GcSearch) /\ WF_vars(GcCollect)
                 /\ WF_vars(\E s \in Segs : Writeback(s))

-----------------------------------------------------------------------------
(* Properties                                                              *)

TypeOK ==
    /\ valid \in [Segs -> 0..BlocksPerSeg]
    /\ prefree \subseteq Segs /\ pending \subseteq Segs
    /\ victimSecmap \subseteq Secs
    /\ lastVictim \in [{"cb", "greedy"} -> Segs]
    /\ gc \in GcRecords
    /\ scanned \subseteq Secs

\* sections FG GC may clean: dirty, not in use, under fggc_threshold
FgCandidates == {x \in DirtySecs : ~SecUsage(x) /\ ~NoFggcCandidate(x)}

\* An FG_GC victim search of f2fs_gc that finds no BG victim to reuse
\* looks at every dirty segment (max_search = nr_dirty, whatever
\* last_victim says) and, with greedy costs, returns a section with the
\* fewest valid blocks among the candidates, of which it misses none.
FgGreedyMin ==
    [][ /\ gc.pc = "search" /\ gc'.pc # "search"
        /\ gc.segno = NULL_SEGNO /\ gc'.gc_type = "FG"
        /\ SelectGcType("FG") = "greedy"
        /\ CheckBgVictims = NoSec /\ FgCandidates # {}
        => /\ gc'.pc = "collect"
           /\ GetGreedyCost(gc'.segno) = Min({SecValid(valid, x) : x \in FgCandidates})
      ]_vars

\* The search window of get_victim_by_default rotates through the main
\* area by last_victim (with its wrap-around and "segno <= last_victim"
\* rule), so no section that stays dirty is left out of the searches for
\* ever.
ScanRotates == \A x \in Secs : []<>(x \notin DirtySecs \/ x \in scanned)

\* Every f2fs_gc call, including the gc_more loop of a call that is not
\* sync, returns and releases gc_mutex.  It cannot hold while direct I/O
\* may keep GC's dio_rwsem trylock failing, and the code puts no bound on
\* that; MC_F2fsVictim_atomic.cfg checks it without direct I/O and finds
\* the loop that an atomic file's blocks make.
GcReturns == gc.pc # "idle" ~> gc.pc = "idle"

\* sec_usage_check keeps the sections of the open logs out of GC, so no
\* GC step moves a live block out of a current segment.  Only the section
\* of the victim's first segment is checked: do_garbage_collect walks
\* segs_per_sec segments from the segment it is given, and
\* F2FS_IOC_GARBAGE_COLLECT_RANGE passes GET_SEGNO(range.start) unaligned.
OpenLogsUntouched == [][\A c \in CurSegs : valid'[c] = valid[c]]_vars

====
