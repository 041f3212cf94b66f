------------------------------ MODULE AddressTable -----------------------------
(***************************************************************************)
(* The values of the variable-granularity l2p table of pblk.h              *)
(* (CONFIG_PBLK_MULTIMAP) for one logical segment: what pblk_trans_map_get *)
(* returns for each lba, and how pblk_cache_map_set, pblk_dev_map_set,     *)
(* pblk_trans_map_set and pblk_set_lstream change it.  CMTCache models the *)
(* cache footprint of the same calls; this module models the addresses.    *)
(*                                                                         *)
(* The segment is a SECTOR_MAP (one address per lba) or a PAGE_MAP: page  *)
(* groups of four lbas, each either a packed page address, from which the *)
(* sector is derived as the lba's offset in the group, or a 4-entry log   *)
(* (pmtlog).  An address is empty (ADDR_EMPTY), a write-buffer cacheline, *)
(* or a media address; of a media address only the block, the page and    *)
(* the sector are kept, since lun, channel and plane are copied alongside *)
(* them unchanged.  All calls run under pblk->trans_lock, so each is one  *)
(* step.  BLOCK_MAP segments are not modelled here.                        *)
(***************************************************************************)
EXTENDS Naturals, FiniteSets

CONSTANTS
    NrGroups,     \* page groups of the segment (entry_num >> pln_offset)
    Streams,      \* logical streams; stream 0 is the default SECTOR_MAP one
    StreamType,   \* lstream[i].map_type, "sector" or "page"
    Lines,        \* write-buffer cachelines
    Blks,         \* media blocks
    Pgs           \* media pages of a block

SecPerPg == 4    \* log_entry_num = 1 << pln_offset

ASSUME /\ NrGroups \in Nat \ {0}
       /\ StreamType \in [Streams -> {"sector", "page"}]
       /\ 0 \in Streams /\ StreamType[0] = "sector"

Groups == 0..NrGroups-1
Lbas == 0..NrGroups*SecPerPg-1
Offs == 0..SecPerPg-1

Empty == [k |-> "empty"]
Cacheline(x) == [k |-> "cache", line |-> x]
Media(b, p, s) == [k |-> "media", blk |-> b, pg |-> p, sec |-> s]
CacheAddrs == {Cacheline(x) : x \in Lines}
MediaAddrs == {Media(b, p, s) : b \in Blks, p \in Pgs, s \in Offs}
Addrs == {Empty} \cup CacheAddrs \cup MediaAddrs

(* A packed page address (struct pba_addr with is_cached = 0).             *)
PageAddrs == {Empty} \cup {[k |-> "page", blk |-> b, pg |-> p] : b \in Blks, p \in Pgs}

VARIABLES
    seg,    \* bmap[lseg].m: [map : NONE/SECTOR/PAGE, lstream]
    smap,   \* the SECTOR_MAP table, lba -> address
    pmap,   \* the PAGE_MAP table, group -> [log, pa (packed), ent (pmtlog)]
    last    \* the address most recently set for each lba (ghost)

vars == <<seg, smap, pmap, last>>

Grp(l) == l \div SecPerPg
Off(l) == l % SecPerPg
NoLog == [log |-> FALSE, pa |-> Empty, ent |-> [o \in Offs |-> Empty]]

--------------------------------------------------------------------------------
(* pblk_trans_map_get: ADDR_EMPTY for a NONE_MAP segment; a SECTOR_MAP     *)
(* reads smap; a PAGE_MAP group reads its log, or derives the address     *)
(* from the packed page address with the lba's offset as sector.          *)
MapGet(l) ==
    LET g == pmap[Grp(l)] IN
    CASE seg.map = "none"   -> Empty
      [] seg.map = "sector" -> smap[l]
      [] g.log              -> g.ent[Off(l)]
      [] g.pa = Empty       -> Empty
      [] OTHER              -> Media(g.pa.blk, g.pa.pg, Off(l))

(* pblk_ppa64_to_ppa32 of a media address, up to the fields kept: sector  *)
(* in the low bits, then page, then block.                                 *)
Ppa32(a) == (a.blk * Cardinality(Pgs) + a.pg) * SecPerPg + a.sec

(* pblk_check_page_align on the four lbas of group g, read through         *)
(* pblk_trans_map_get: all empty, or four media addresses whose 32-bit     *)
(* forms are consecutive from a sector 0.                                  *)
CheckPageAlign(g, get) ==
    LET c == [o \in Offs |-> get[g * SecPerPg + o]] IN
    \/ \A o \in Offs : c[o] = Empty
    \/ /\ \A o \in Offs : c[o].k = "media"
       /\ \A o \in Offs : Ppa32(c[o]) = Ppa32(c[0]) + o
       /\ c[0].sec = 0

(* The packed address pblk_setting_page_map and pblk_dev_map_set build     *)
(* from the first address of an aligned group.                             *)
PackPage(a) == IF a = Empty THEN Empty ELSE [k |-> "page", blk |-> a.blk, pg |-> a.pg]

(* The one pblk_trans_map_set builds: page_addr.b.pg = copy_ppa[0].g.blk.   *)
PackPageTrans(a) == IF a = Empty THEN Empty ELSE [k |-> "page", blk |-> a.blk, pg |-> a.blk]

(* The table as MapGet sees it, for the reads a call makes of the table it *)
(* is changing.                                                            *)
Table(sg, sm, pm) ==
    [l \in Lbas |->
        LET g == pm[Grp(l)] IN
        CASE sg.map = "none"   -> Empty
          [] sg.map = "sector" -> sm[l]
          [] g.log             -> g.ent[Off(l)]
          [] g.pa = Empty      -> Empty
          [] OTHER             -> Media(g.pa.blk, g.pa.pg, Off(l))]

(* A group's log as first allocated: the four addresses read through       *)
(* pblk_trans_map_get before the log replaces the packed address.          *)
OpenLog(g) == [log |-> TRUE, pa |-> Empty,
               ent |-> [o \in Offs |-> MapGet(g * SecPerPg + o)]]

(* The PAGE_MAP write of a map_set: open the group's log if needed, store *)
(* the address, and if collapse holds and the group is aligned, replace   *)
(* the log with the packed address, built as pblk_trans_map_set does it   *)
(* when trans holds and as pblk_dev_map_set does it otherwise.            *)
PageWrite(l, a, collapse, trans) ==
    LET g  == Grp(l)
        p1 == [pmap EXCEPT ![g] = [(IF @.log THEN @ ELSE OpenLog(g)) EXCEPT !.ent[Off(l)] = a]]
        t1 == Table(seg, smap, p1)
        Packed(x) == IF trans THEN PackPageTrans(x) ELSE PackPage(x)
    IN IF collapse /\ CheckPageAlign(g, t1)
       THEN [p1 EXCEPT ![g] = [NoLog EXCEPT !.pa = Packed(t1[g * SecPerPg])]]
       ELSE p1

--------------------------------------------------------------------------------
(* pblk_cache_map_set (rb.c: admission points the lba at its cacheline): a *)
(* NONE_MAP segment becomes a SECTOR_MAP of stream 0 holding only this     *)
(* address; otherwise the address goes into smap, or into the group's log, *)
(* opened from the current addresses if the group is packed.  No collapse. *)
CacheMapSet(l, a) ==
    /\ last' = [last EXCEPT ![l] = a]
    /\ \/ /\ seg.map = "none"
          /\ seg' = [map |-> "sector", lstream |-> 0]
          /\ smap' = [smap EXCEPT ![l] = a]
          /\ UNCHANGED pmap
       \/ /\ seg.map # "none"
          /\ IF seg.map = "sector"
             THEN smap' = [smap EXCEPT ![l] = a] /\ UNCHANGED pmap
             ELSE pmap' = PageWrite(l, a, FALSE, FALSE) /\ UNCHANGED smap
          /\ UNCHANGED seg

(* pblk_dev_map_set (the completed write's media address), called only   *)
(* while the lba still points at its cacheline, so the segment is mapped  *)
(* and a PAGE_MAP group has its log (the BUG_ONs do not fire); writing    *)
(* the last lba of a group collapses an aligned log into its packed page  *)
(* address.                                                                *)
DevMapSet(l, a) ==
    /\ last[l] \in CacheAddrs
    /\ last' = [last EXCEPT ![l] = a]
    /\ IF seg.map = "sector"
       THEN smap' = [smap EXCEPT ![l] = a] /\ UNCHANGED pmap
       ELSE pmap' = PageWrite(l, a, Off(l) = SecPerPg - 1, FALSE) /\ UNCHANGED smap
    /\ UNCHANGED seg

(* pblk_trans_map_set (GC moves and invalidations, from pblk-core.c and    *)
(* pblk-map.c): a NONE_MAP segment first becomes an empty SECTOR_MAP of    *)
(* stream 0; a PAGE_MAP group opens its log if needed, stores the address *)
(* and, at the group's last lba with a media or empty address, collapses  *)
(* an aligned log, packing it with PackPageTrans.                          *)
TransMapSet(l, a) ==
    LET sg == IF seg.map = "none" THEN [map |-> "sector", lstream |-> 0] ELSE seg IN
    /\ last' = [last EXCEPT ![l] = a]
    /\ seg' = sg
    /\ IF sg.map = "sector"
       THEN smap' = [smap EXCEPT ![l] = a] /\ UNCHANGED pmap
       ELSE pmap' = PageWrite(l, a, Off(l) = SecPerPg - 1 /\ a.k # "cache", TRUE)
            /\ UNCHANGED smap

(* pblk_setting_page_map: every group of the SECTOR_MAP is read through    *)
(* pblk_trans_map_get; an aligned group becomes a packed page address,     *)
(* any other group a log holding the four addresses.                       *)
SettingPageMap ==
    LET t == Table(seg, smap, pmap) IN
    [g \in Groups |->
        IF CheckPageAlign(g, t)
        THEN [NoLog EXCEPT !.pa = PackPage(t[g * SecPerPg])]
        ELSE [log |-> TRUE, pa |-> Empty, ent |-> [o \in Offs |-> t[g * SecPerPg + o]]]]

(* pblk_set_lstream (the #if 1 branch), for SECTOR and PAGE streams: a     *)
(* NONE_MAP segment takes the new stream's tag with an all-empty table;   *)
(* a SECTOR_MAP segment moved to a PAGE stream goes through               *)
(* pblk_setting_page_map; a move between streams of one type only changes *)
(* the stream.  PAGE to SECTOR is not in this model.                      *)
SetLstream(s) ==
    /\ ~(seg.map = "page" /\ StreamType[s] = "sector")
    /\ \/ /\ seg.map = "none"
          /\ seg' = [map |-> StreamType[s], lstream |-> s]
          /\ smap' = [l \in Lbas |-> Empty]
          /\ pmap' = [g \in Groups |-> NoLog]
       \/ /\ seg.map # "none" /\ StreamType[s] = "page" /\ StreamType[seg.lstream] = "sector"
          /\ pmap' = SettingPageMap
          /\ seg' = [map |-> "page", lstream |-> s]
          /\ UNCHANGED smap
       \/ /\ seg.map # "none" /\ StreamType[s] = StreamType[seg.lstream]
          /\ seg' = [seg EXCEPT !.lstream = s]
          /\ UNCHANGED <<smap, pmap>>
    /\ UNCHANGED last

Init ==
    /\ seg = [map |-> "none", lstream |-> 0]
    /\ smap = [l \in Lbas |-> Empty]
    /\ pmap = [g \in Groups |-> NoLog]
    /\ last = [l \in Lbas |-> Empty]

Next ==
    \/ \E l \in Lbas, a \in CacheAddrs : CacheMapSet(l, a)
    \/ \E l \in Lbas, a \in MediaAddrs : DevMapSet(l, a)
    \/ \E l \in Lbas, a \in {Empty} \cup MediaAddrs : TransMapSet(l, a)
    \/ \E s \in Streams : SetLstream(s)

Spec == Init /\ [][Next]_vars

--------------------------------------------------------------------------------
TypeOK ==
    /\ seg \in [map : {"none", "sector", "page"}, lstream : Streams]
    /\ smap \in [Lbas -> Addrs] /\ last \in [Lbas -> Addrs]
    /\ pmap \in [Groups -> [log : BOOLEAN, pa : PageAddrs, ent : [Offs -> Addrs]]]

(* Read-after-write of the address table: for every lba, what              *)
(* pblk_trans_map_get returns is the address last given to a map_set for   *)
(* it, through log creation, page collapse and granularity changes (the   *)
(* spec: a packed page address is offset-derivable).                       *)
GetAfterSet == \A l \in Lbas : MapGet(l) = last[l]

================================================================================
