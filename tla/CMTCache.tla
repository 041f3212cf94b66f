------------------------------- MODULE CMTCache --------------------------------
(***************************************************************************)
(* The cached mapping table of pblk-dftl.c (CONFIG_PBLK_DFTL) driven by     *)
(* the segment-table operations of pblk.h that call it.  The cache is       *)
(* bookkeeping: one map_entry per segment whose sub-table is "resident",   *)
(* sized map_size + nr_log, kept in LRU order on map_list (the rb-tree is  *)
(* an index over the same entries), with alloc_res their total and        *)
(* max_res its ceiling.  Every call is made under cmt_mgt.map_lock and the *)
(* segment-table operations themselves are serialised by their callers,    *)
(* so each table operation is one atomic step here.                        *)
(*                                                                         *)
(* A segment is abstracted to what the cache reads of bmap[lseg]: its map  *)
(* tag (pba.m.map), its logical stream (pba.m.lstream), the block-log bit  *)
(* (pba.m.is_cached) and the set of page groups whose 4-entry log exists   *)
(* (pmap[i].m.is_cached).  Addresses themselves are not modelled.          *)
(***************************************************************************)
EXTENDS Naturals, Integers, Sequences, FiniteSets, SequencesExt

CONSTANTS
    Segs,         \* logical segments (lseg)
    Groups,       \* page groups of one segment (pmap entries)
    Streams,      \* logical streams (pblk->lstream[])
    StreamType,   \* lstream[i].map_type
    LogSize,      \* lstream[i].log_size
    MapSize,      \* the 4096 of pblk_load_cmt
    LogEntries,   \* log_entry_num = 1 << pln_offset (pblk_alloc_log, PAGE_MAP)
    EntryNum,     \* entry_num = 1 << blk_offset (pblk_alloc_log, BLOCK_MAP)
    MaxRes        \* cmt_mgt.max_res

Tags == {"none", "sector", "block", "page"}

ASSUME /\ StreamType \in [Streams -> Tags \ {"none"}]
       /\ 0 \in Streams /\ StreamType[0] = "sector"
       /\ LogSize \in [Streams -> Nat]
       /\ {MapSize, LogEntries, EntryNum, MaxRes} \subseteq Nat

VARIABLES
    seg,    \* bmap[lseg]: [map, lstream, cached, pages]
    cmt     \* cmt_mgt: [list (map_list, LRU first), alloc_res, bug]

vars == <<seg, cmt>>

Entry == [lseg : Segs, map_size : Int, nr_log : Int]
Size(e) == e.map_size + e.nr_log
Pos(c, s) == SelectInSeq(c.list, LAMBDA e : e.lseg = s)

--------------------------------------------------------------------------------
(* Cache operations of pblk-dftl.c, as functions of the cmt_mgt record.    *)

(* pblk_insert_cmt: nothing if the segment is already in the tree.         *)
InsertCmt(c, s, ms, nl) ==
    IF Pos(c, s) # 0 THEN c
    ELSE [c EXCEPT !.list = Append(@, [lseg |-> s, map_size |-> ms, nr_log |-> nl]),
                   !.alloc_res = @ + ms + nl]

(* Variant: only map_size given back on delete.                            *)
DeleteCmtMapOnly(c, s) ==
    IF Pos(c, s) = 0 THEN c
    ELSE [c EXCEPT !.list = RemoveAt(@, Pos(c, s)),
                   !.alloc_res = @ - c.list[Pos(c, s)].map_size]

(* pblk_delete_cmt.                                                        *)
DeleteCmt(c, s) ==
    IF Pos(c, s) = 0 THEN c
    ELSE [c EXCEPT !.list = RemoveAt(@, Pos(c, s)),
                   !.alloc_res = @ - Size(c.list[Pos(c, s)])]

(* pblk_evict_cmt: free LRU entries until need fits; BUG_ON on an empty    *)
(* list.  The running free_res of the loop is max_res - alloc_res here.    *)
RECURSIVE EvictCmt(_, _)
EvictCmt(c, need) ==
    IF need <= MaxRes - c.alloc_res THEN c
    ELSE IF c.list = <<>> THEN [c EXCEPT !.bug = TRUE]
    ELSE EvictCmt([c EXCEPT !.list = Tail(@), !.alloc_res = @ - Size(Head(c.list))], need)

(* Variant: the entry inserted without making room first.                  *)
LoadCmtNoEvict(c, s, e, np) ==
    LET type == StreamType[e.lstream]
        ms   == IF type # "page" /\ e.map = "block" THEN LogSize[e.lstream] ELSE MapSize
        nl   == IF type = "page" THEN np * LogSize[e.lstream] ELSE 0
    IN
    IF type = "block" /\ ~e.cached THEN c
    ELSE IF Pos(c, s) # 0
         THEN [c EXCEPT !.list = Append(RemoveAt(@, Pos(c, s)), @[Pos(c, s)])]
    ELSE IF type = "page" /\ np < 0 THEN [c EXCEPT !.bug = TRUE]
    ELSE InsertCmt(c, s, ms, nl)

(* pblk_load_cmt for segment s as bmap[lseg] = e shows it; the stream's    *)
(* map_type decides, not the segment's tag.  np is what the loop over      *)
(* pmap[] counts; a negative np is a fault on the pmap pointer.  A hit     *)
(* moves the entry to the LRU tail; a miss sizes it and inserts it.        *)
LoadCmt(c, s, e, np) ==
    LET type == StreamType[e.lstream]
        ms   == IF type # "page" /\ e.map = "block" THEN LogSize[e.lstream] ELSE MapSize
        nl   == IF type = "page" THEN np * LogSize[e.lstream] ELSE 0
    IN
    IF type = "block" /\ ~e.cached THEN c
    ELSE IF Pos(c, s) # 0
         THEN [c EXCEPT !.list = Append(RemoveAt(@, Pos(c, s)), @[Pos(c, s)])]
    ELSE IF type = "page" /\ np < 0 THEN [c EXCEPT !.bug = TRUE]
    ELSE InsertCmt(IF MaxRes - c.alloc_res < ms + nl THEN EvictCmt(c, ms + nl) ELSE c,
                   s, ms, nl)

(* pblk_change_map.                                                        *)
ChangeMap(c, s, e, np) == LoadCmt(DeleteCmt(c, s), s, e, np)

(* pblk_alloc_log.  For PAGE_MAP the entry found before pblk_evict_cmt is  *)
(* written after it; if the eviction freed it, the write lands in freed    *)
(* memory and only alloc_res keeps the log_size.                           *)
AllocLog(c, s, type, size, e, np) ==
    LET c1 == IF type = "page" /\ Pos(c, s) = 0 THEN LoadCmt(c, s, e, np) ELSE c
        c2 == IF MaxRes - c1.alloc_res < size THEN EvictCmt(c1, size) ELSE c1
        p  == Pos(c2, s)
    IN
    IF type = "page" /\ Pos(c1, s) = 0 THEN [c1 EXCEPT !.bug = TRUE]
    ELSE IF type = "block" THEN InsertCmt(c2, s, 0, size)
    ELSE IF p = 0 THEN [c2 EXCEPT !.alloc_res = @ + size]
    ELSE [c2 EXCEPT !.list[p].nr_log = @ + size, !.alloc_res = @ + size]

(* Variant: the BLOCK_MAP log size subtracted again after the delete.      *)
FreeLogTwice(c, s, type, size, e, np) ==
    LET c1 == IF Pos(c, s) = 0 THEN LoadCmt(c, s, e, np) ELSE c
        p  == Pos(c1, s)
    IN
    IF type = "block" THEN [DeleteCmt(c, s) EXCEPT !.alloc_res = @ - size]
    ELSE IF p = 0 THEN [c1 EXCEPT !.bug = TRUE]
    ELSE [c1 EXCEPT !.list[p].nr_log = @ - size, !.alloc_res = @ - size]

(* pblk_free_log.  nr_log is unsigned in the code; it is an integer here,  *)
(* which is how the mixed int/unsigned arithmetic of pblk_evict_cmt reads  *)
(* it back while the totals stay small.                                    *)
FreeLog(c, s, type, size, e, np) ==
    LET c1 == IF Pos(c, s) = 0 THEN LoadCmt(c, s, e, np) ELSE c
        p  == Pos(c1, s)
    IN
    IF type = "block" THEN DeleteCmt(c, s)
    ELSE IF p = 0 THEN [c1 EXCEPT !.bug = TRUE]
    ELSE [c1 EXCEPT !.list[p].nr_log = @ - size, !.alloc_res = @ - size]

--------------------------------------------------------------------------------
(* The segment-table operations of pblk.h, each with its cache calls.      *)

NP(e) == Cardinality(e.pages)
Fresh(strm) == [map |-> StreamType[strm], lstream |-> strm, cached |-> FALSE, pages |-> {}]

(* The log update of a map_set after its pblk_load_cmt, by the stream's    *)
(* map_type: the BLOCK_MAP boundary log is allocated on first use and, for *)
(* w = "collapse", freed again (loff == entry_num - 17 with both ends      *)
(* empty); w = "edge" is an offset the block log does not track.  For      *)
(* PAGE_MAP the 4-entry log of group g is allocated (then read through    *)
(* pblk_trans_map_get) and, for w = "collapse", freed once the group is    *)
(* page-aligned (pblk_check_page_align reads it again first).              *)
WriteLog(c, s, e, g, w) ==
    CASE StreamType[e.lstream] = "sector" \/ w = "edge" -> [c |-> c, e |-> e]
      [] StreamType[e.lstream] = "block" ->
           LET ca == IF e.cached THEN c ELSE AllocLog(c, s, "block", EntryNum, e, NP(e)) IN
           IF w = "collapse"
           THEN [c |-> FreeLog(ca, s, "block", EntryNum, e, NP(e)), e |-> [e EXCEPT !.cached = FALSE]]
           ELSE [c |-> ca, e |-> [e EXCEPT !.cached = TRUE]]
      [] OTHER ->
           LET ca == IF g \in e.pages THEN c
                     ELSE LoadCmt(AllocLog(c, s, "page", LogEntries, e, NP(e)), s, e, NP(e))
               ea == [e EXCEPT !.pages = @ \cup {g}]
               ef == [e EXCEPT !.pages = @ \ {g}]
           IN
           IF w = "collapse"
           THEN [c |-> FreeLog(LoadCmt(ca, s, ea, NP(ea)), s, "page", LogEntries, ea, NP(ea)), e |-> ef]
           ELSE [c |-> ca, e |-> ea]

(* A map_set of a PAGE_MAP stream BUG()s unless the segment holds a pmap.  *)
PageReady(e) == StreamType[e.lstream] = "page" => e.map = "page"

(* pblk_trans_map_get: no cache access for a NONE_MAP segment.             *)
MapGet(s) ==
    /\ seg[s].map # "none"
    /\ cmt' = LoadCmt(cmt, s, seg[s], NP(seg[s]))
    /\ UNCHANGED seg

(* pblk_trans_map_set: a NONE_MAP segment first becomes a SECTOR_MAP of     *)
(* stream 0 (pblk_change_map), then pblk_load_cmt and the log update.      *)
TransMapSet(s) ==
    LET e0 == seg[s]
        e1 == IF e0.map = "none" THEN Fresh(0) ELSE e0
        c1 == IF e0.map = "none" THEN ChangeMap(cmt, s, e1, 0) ELSE cmt
    IN
    /\ PageReady(e1)
    /\ \E g \in Groups, w \in {"edge", "write", "collapse"} :
          /\ w = "edge" => StreamType[e1.lstream] = "block"
          /\ LET r == WriteLog(LoadCmt(c1, s, e1, NP(e1)), s, e1, g, w)
             IN seg' = [seg EXCEPT ![s] = r.e] /\ cmt' = r.c

(* pblk_cache_map_set: a NONE_MAP segment gets pblk_change_map while bmap  *)
(* still says NONE_MAP, then becomes a SECTOR_MAP of stream 0 and returns; *)
(* otherwise pblk_load_cmt and the log allocation, never a collapse.  The  *)
(* first write to an untracked block log must be at loff 8 (BUG_ON).       *)
CacheMapSet(s) ==
    LET e0 == seg[s] IN
    \/ /\ e0.map = "none"
       /\ cmt' = ChangeMap(cmt, s, e0, 0)
       /\ seg' = [seg EXCEPT ![s] = Fresh(0)]
    \/ /\ e0.map # "none"
       /\ PageReady(e0)
       /\ \E g \in Groups :
            LET r == WriteLog(LoadCmt(cmt, s, e0, NP(e0)), s, e0, g, "write")
            IN seg' = [seg EXCEPT ![s] = r.e] /\ cmt' = r.c

(* pblk_dev_map_set: pblk_load_cmt, then the media address goes into a log *)
(* that must already exist (BUG_ON otherwise); the log may collapse.       *)
DevMapSet(s) ==
    LET e0 == seg[s] IN
    /\ e0.map # "none"
    /\ PageReady(e0)
    /\ StreamType[e0.lstream] = "block" => e0.cached
    /\ \E g \in Groups, w \in {"write", "collapse"} :
          /\ StreamType[e0.lstream] = "page" => g \in e0.pages
          /\ LET r == WriteLog(LoadCmt(cmt, s, e0, NP(e0)), s, e0, g, w)
             IN seg' = [seg EXCEPT ![s] = r.e] /\ cmt' = r.c

(* pblk_set_lstream (the #if 1 branch): a NONE_MAP segment gets the new    *)
(* stream's tag and stream, then pblk_change_map.  Otherwise a change of   *)
(* map type reads the segment through pblk_trans_map_get, rebuilds it     *)
(* (SECTOR: new smap; BLOCK: pblk_empty_map_set, which deletes the entry; *)
(* PAGE: pblk_setting_page_map, whose non-aligned groups P keep a log) and *)
(* calls pblk_change_map, all before m.lstream is updated at the end.      *)
(* j is what pblk_load_cmt's pmap loop reads when the old stream is        *)
(* PAGE_MAP but the segment no longer holds a pmap: an smap, or the       *)
(* ADDR_EMPTY word of an empty block map (a fault, j < 0).                 *)
SetLstream(s) ==
    \E new \in Streams, P \in SUBSET Groups, j \in -1..Cardinality(Groups) :
      LET e0 == seg[s]
          ot == StreamType[e0.lstream]
          nt == StreamType[new]
          e1 == [map |-> nt, lstream |-> e0.lstream, cached |-> FALSE,
                 pages |-> IF nt = "page" THEN P ELSE {}]
          c0 == LoadCmt(cmt, s, e0, NP(e0))
      IN
      /\ (nt # "page" \/ e0.map = "none") => P = {}
      /\ j # 0 => (ot = "page" /\ e0.map # "none" /\ nt # "page")
      /\ j < 0 => nt = "block"
      /\ \/ /\ e0.map = "none"
            /\ cmt' = ChangeMap(cmt, s, [e1 EXCEPT !.lstream = new], 0)
            /\ seg' = [seg EXCEPT ![s] = [e1 EXCEPT !.lstream = new]]
         \/ /\ e0.map # "none" /\ nt # ot
            /\ cmt' = ChangeMap(IF nt = "block" THEN DeleteCmt(c0, s) ELSE c0, s, e1, j)
            /\ seg' = [seg EXCEPT ![s] = [e1 EXCEPT !.lstream = new]]
         \/ /\ e0.map # "none" /\ nt = ot /\ P = {}
            /\ cmt' = cmt
            /\ seg' = [seg EXCEPT ![s].lstream = new]

(* A BUG_ON has fired under map_lock: nothing else maps or loads.          *)
Halted == cmt.bug /\ UNCHANGED vars

Init ==
    /\ seg = [s \in Segs |-> [map |-> "none", lstream |-> 0, cached |-> FALSE, pages |-> {}]]
    /\ cmt = [list |-> <<>>, alloc_res |-> 0, bug |-> FALSE]

Next ==
    \/ ~cmt.bug /\ \E s \in Segs : MapGet(s)
    \/ ~cmt.bug /\ \E s \in Segs : TransMapSet(s)
    \/ ~cmt.bug /\ \E s \in Segs : CacheMapSet(s)
    \/ ~cmt.bug /\ \E s \in Segs : DevMapSet(s)
    \/ ~cmt.bug /\ \E s \in Segs : SetLstream(s)
    \/ Halted

Spec == Init /\ [][Next]_vars

--------------------------------------------------------------------------------
TypeOK ==
    /\ seg \in [Segs -> [map : Tags, lstream : Streams, cached : BOOLEAN, pages : SUBSET Groups]]
    /\ cmt.list \in Seq(Entry) /\ cmt.alloc_res \in Nat /\ cmt.bug \in BOOLEAN

SumRes(l) == FoldLeft(LAMBDA acc, e : acc + Size(e), 0, l)

(* alloc_res, which pblk_load_cmt and pblk_alloc_log compare with max_res, *)
(* is the total size of the entries on map_list, across loads, evictions,  *)
(* log allocations and frees and map-type changes.                        *)
AllocResMatches == cmt.alloc_res = SumRes(cmt.list)

(* The cache never holds more than max_res: every insertion and log        *)
(* allocation is preceded by enough eviction (pblk_evict_cmt).             *)
CacheWithinCapacity == cmt.alloc_res <= MaxRes

(* What pblk_load_cmt would compute for segment s now.                     *)
Footprint(e) ==
    CASE StreamType[e.lstream] = "page" -> MapSize + NP(e) * LogSize[e.lstream]
      [] e.map = "block"                -> LogSize[e.lstream]
      [] OTHER                          -> MapSize

(* Every cached entry records the footprint of its segment's current      *)
(* sub-tables, and a block segment without a boundary log has no entry:   *)
(* the bookkeeping the cache exists for (pblk_load_cmt, pblk_alloc_log,   *)
(* pblk_free_log, pblk_change_map) agrees with the segment table.         *)
FootprintMatches ==
    /\ \A i \in 1..Len(cmt.list) : Size(cmt.list[i]) = Footprint(seg[cmt.list[i].lseg])
    /\ \A s \in Segs : (StreamType[seg[s].lstream] = "block" /\ ~seg[s].cached) => Pos(cmt, s) = 0

================================================================================
