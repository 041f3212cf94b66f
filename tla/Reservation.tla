------------------------------ MODULE Reservation -----------------------------
(***************************************************************************)
(* The write buffer of a PAGE_MAP stream (CONFIG_PBLK_MULTIMAP): the page- *)
(* group reservation protocol of pblk-cache.c and pblk-rb.c.              *)
(*                                                                         *)
(* A host write to an lba whose page group (four lbas) is not reserved    *)
(* claims four ring slots and runs pblk_rb_reserved_entry on each: a slot *)
(* takes the data of a buffered older copy, or takes over the media       *)
(* address an older reservation was waiting to read, or keeps the lba's   *)
(* media address and waits (RESERVED) for a background fetch.  Later      *)
(* writes to a reserved lba fill its slot (pblk_rb_write_entry_user_to_   *)
(* rrwb).  GC may fill a slot whose pending media address lies on the     *)
(* line it collects (pblk_rb_gc_data_to_rrwb).  The write thread submits  *)
(* slots from subm and busy-waits in pblk_rb_read_to_bio until each one   *)
(* holds data.                                                             *)
(*                                                                         *)
(* __pblk_write_to_cache on such a stream is three critical sections: the *)
(* first loop under rb_ctx.lock, the admission (pblk_rb_may_write_user)   *)
(* under w_lock, and the second loop under rb_ctx.lock again.  Each is    *)
(* one action of a writer.  The l2p table is one PAGE_MAP segment seen    *)
(* through pblk_trans_map_get/pblk_cache_map_set (AddressTable models its *)
(* encoding); the ring does not wrap, so completion, sync and the l2p     *)
(* walk of the admission are not needed here.                              *)
(***************************************************************************)
EXTENDS Naturals, FiniteSets, Sequences

CONSTANTS
    N,              \* rb->nr_entries
    Writers,        \* concurrent callers of __pblk_write_to_cache
    Lines,          \* media lines an lba's data may be on
    MinWritePgs,    \* pblk->min_write_pgs
    MaxWritePgs,    \* pblk->max_write_pgs
    SubmitMargin,   \* the "+ 8" of pblk_submit_write's early return
    NoLine          \* invalid_line before any reservation

ASSUME /\ N \in Nat \ {0} /\ Writers # {} /\ NoLine \notin Lines
       /\ MinWritePgs \in Nat \ {0} /\ MaxWritePgs >= MinWritePgs

Pos == 0..N-1
Lbas == 0..3                  \* one page group: log_entry_num = 4

(* Ring entry flags (enum in pblk.h).                                      *)
WRITABLE == "writable"
WRITTEN == "written"
SUBMITTED == "submitted"
RESERVED == "reserved"
WAITREAD == "waitread"
INVALIDATE == "invalidate"
Flags == {WRITABLE, WRITTEN, SUBMITTED, RESERVED, WAITREAD, INVALIDATE}

(* A struct ppa_addr: empty, a media address (only its line matters), or  *)
(* a cacheline with the is_reserved bit.                                   *)
Empty == [k |-> "empty"]
Media(ln) == [k |-> "media", line |-> ln]
Cache(p, rsv) == [k |-> "cache", pos |-> p, rsv |-> rsv]
MediaAddrs == {Media(ln) : ln \in Lines}
Addrs == {Empty} \cup MediaAddrs \cup {Cache(p, r) : p \in Pos, r \in BOOLEAN}

(* pblk_addr_in_cache.                                                     *)
InCache(a) == a.k = "cache"

VARIABLES
    slot,       \* pos -> w_ctx of the entry: [fl, lba, ppa]
    map,        \* lba -> l2p entry of the PAGE_MAP segment
    mem,        \* rb->mem (the ring never wraps here)
    subm,       \* rb->subm
    nr_user,    \* rb->nr_user
    invline,    \* lstream[nrb].invalid_line
    writer,     \* one __pblk_write_to_cache activation per writer
    submitter,  \* pblk_submit_write between read_commit and the last entry
    bug         \* a BUG_ON has fired

vars == <<slot, map, mem, subm, nr_user, invline, writer, submitter, bug>>

NoWriter == [pc |-> "idle", lba |-> 0, n |-> 0, start |-> 0, pad |-> 0,
             adm |-> 0, real |-> 0, bpos |-> 0]

--------------------------------------------------------------------------------
(* pblk_get_reserved_addr: 1 if the lba's l2p entry is a reserved         *)
(* cacheline whose entry is still RESERVED, else 0.                        *)
ReservedRet(sl, mp, l) ==
    IF mp[l].k = "cache" /\ mp[l].rsv /\ RESERVED \in sl[mp[l].pos].fl THEN 1 ELSE 0

(* pblk_rb_write_entry_user_to_rrwb: the host data fills reserved slot p  *)
(* of lba l; a media address the slot was waiting for is invalidated, l   *)
(* points at the slot, and the entry is WRITTEN without RESERVED.         *)
ToRrwb(st, l, p) ==
    [st EXCEPT !.slot[p] = [fl |-> {WRITTEN}, lba |-> l, ppa |-> Empty],
               !.map[l] = Cache(p, FALSE),
               !.bug = @ \/ st.slot[p].lba # l]

(* pblk_rb_reserved_entry for lba l in the free slot p, under trans_lock: *)
(* the new entry keeps l's l2p address; if that is a cacheline o, the     *)
(* old entry's flags decide, in the code's order, whether the new one     *)
(* copies o's data, takes over o's pending media address (o becomes       *)
(* INVALIDATE|WRITTEN), or BUGs.  Otherwise the stream's invalid_line is  *)
(* the line of l's media address.                                          *)
ReservedEntry(st, l, p) ==
    LET old == st.map[l]
        o   == IF InCache(old) THEN old.pos ELSE p
        of  == st.slot[o].fl
        new == [fl |-> {WRITABLE}, lba |-> l, ppa |-> old]
        Hand(drop) == [st.slot EXCEPT
                         ![p] = [new EXCEPT !.ppa = st.slot[o].ppa],
                         ![o] = [@ EXCEPT !.fl = (@ \ drop) \cup {INVALIDATE, WRITTEN},
                                          !.ppa = Empty]]
        s1  == IF ~InCache(old) \/ INVALIDATE \in of
               THEN [st.slot EXCEPT ![p] = new]
               ELSE IF WRITTEN \in of \/ SUBMITTED \in of
               THEN [st.slot EXCEPT ![p] = [new EXCEPT !.fl = {WRITABLE, WRITTEN},
                                                       !.ppa = Empty]]
               ELSE IF RESERVED \in of THEN Hand({RESERVED, WRITABLE})
               ELSE IF WAITREAD \in of THEN Hand({WAITREAD})
               ELSE [st.slot EXCEPT ![p] = new]
        bad == \/ InCache(old) /\ of \cap {INVALIDATE, WRITTEN, SUBMITTED,
                                           RESERVED, WAITREAD} = {}
               \/ InCache(s1[p].ppa)
    IN [st EXCEPT !.slot = [s1 EXCEPT ![p].fl = @ \cup {RESERVED}],
                  !.map[l] = Cache(p, TRUE),
                  !.inv = IF InCache(old) THEN @
                          ELSE IF old.k = "media" THEN old.line ELSE NoLine,
                  !.bug = @ \/ bad]

(* The reservation of the whole group of lba l at ring positions          *)
(* pidx..pidx+3, one pblk_rb_reserved_entry per lba in order.             *)
RECURSIVE ReserveFrom(_, _, _)
ReserveFrom(st, j, pidx) ==
    IF j > 3 THEN st
    ELSE ReserveFrom(ReservedEntry(st, j, (pidx + j) % N), j + 1, pidx)

(* The state the loops of __pblk_write_to_cache work on.                   *)
St == [slot |-> slot, map |-> map, inv |-> invline, bug |-> bug]

(* The first loop: lbas whose slot is already reserved are filled in      *)
(* place, up to the first one that is not ("found").                       *)
RECURSIVE Phase1Loop(_, _, _, _)
Phase1Loop(st, l, i, n) ==
    IF i >= n THEN [st |-> st, start |-> i, found |-> FALSE]
    ELSE IF ReservedRet(st.slot, st.map, l + i) = 0
         THEN [st |-> st, start |-> i, found |-> TRUE]
         ELSE Phase1Loop(ToRrwb(st, l + i, st.map[l + i].pos), l, i + 1, n)

(* The second loop, from start_i: an lba without a reserved slot reserves *)
(* its group at pos_index (nr_real_entries += 4) and then fills the slot  *)
(* it got; an lba with one fills it.                                       *)
RECURSIVE Phase3Loop(_, _, _, _, _, _)
Phase3Loop(st, l, i, n, pidx, real) ==
    IF i >= n THEN [st |-> st, real |-> real]
    ELSE IF ReservedRet(st.slot, st.map, l + i) = 0
         THEN LET st2 == ReserveFrom(st, 0, pidx) IN
              Phase3Loop(ToRrwb(st2, l + i, st2.map[l + i].pos), l, i + 1, n,
                         pidx + 4, real + 4)
         ELSE Phase3Loop(ToRrwb(st, l + i, st.map[l + i].pos), l, i + 1, n,
                         pidx, real)

(* pblk_calc_secs with no pending flush point.                             *)
CalcSecs(avail) ==
    IF avail >= MaxWritePgs THEN MaxWritePgs
    ELSE (avail \div MinWritePgs) * MinWritePgs

(* pblk_submit_write: sectors ready are read_count minus nr_user.          *)
SecsAvail == IF mem - subm > nr_user THEN mem - subm - nr_user ELSE 0

--------------------------------------------------------------------------------
(* pblk_write_to_cache hands a chunk of n sectors from lba l to           *)
(* __pblk_write_to_cache; the padding counts whole page groups.            *)
Start(w, l, n) ==
    /\ writer[w].pc = "idle"
    /\ writer' = [writer EXCEPT ![w] = [NoWriter EXCEPT !.pc = "p1", !.lba = l,
                    !.n = n, !.pad = (((l + n + 3) \div 4) - (l \div 4)) * 4]]
    /\ UNCHANGED <<slot, map, mem, subm, nr_user, invline, submitter, bug>>

(* The first loop under rb_ctx.lock; with every lba already reserved the  *)
(* group needs no padding (nr_entries_padding -= 4).                       *)
Phase1(w) ==
    LET r == Phase1Loop(St, writer[w].lba, 0, writer[w].n) IN
    /\ writer[w].pc = "p1"
    /\ slot' = r.st.slot /\ map' = r.st.map /\ bug' = r.st.bug
    /\ writer' = [writer EXCEPT ![w].pc = "admit", ![w].start = r.start,
                    ![w].pad = IF r.found THEN @ ELSE @ - 4]
    /\ UNCHANGED <<mem, subm, nr_user, invline, submitter>>

(* pblk_rb_may_write_user for nr_entries_padding slots (the retry loop    *)
(* waits for space), then pblk_rl_user_in; a writer with nothing left to  *)
(* copy (start_i == nr_entries) goes to out.                               *)
Admit(w) ==
    LET pad == writer[w].pad IN
    /\ writer[w].pc = "admit"
    /\ mem + pad <= N - 1
    /\ mem' = mem + pad
    /\ nr_user' = nr_user + pad
    /\ writer' = [writer EXCEPT ![w].pc = IF writer[w].start = writer[w].n THEN "out" ELSE "p3",
                                ![w].bpos = mem, ![w].adm = pad]
    /\ UNCHANGED <<slot, map, subm, invline, submitter, bug>>

(* The second loop under rb_ctx.lock, then the padding check: admitted    *)
(* slots the loop did not use are given back to the rate limiter          *)
(* (pblk_rl_out) and nr_entries_padding drops to nr_real_entries.          *)
Phase3(w) ==
    LET wr == writer[w]
        r  == Phase3Loop(St, wr.lba, wr.start, wr.n, wr.bpos, 0)
    IN
    /\ wr.pc = "p3"
    /\ slot' = r.st.slot /\ map' = r.st.map /\ invline' = r.st.inv
    /\ bug' = (r.st.bug \/ wr.pad < r.real)
    /\ writer' = [writer EXCEPT ![w].pc = "out", ![w].real = r.real,
                    ![w].pad = IF @ > r.real THEN r.real ELSE @]
    /\ UNCHANGED <<mem, subm, nr_user, submitter>>

(* The out: label: nr_user -= nr_entries_padding when it is positive.      *)
Out(w) ==
    /\ writer[w].pc = "out"
    /\ nr_user' = IF writer[w].pad > 0 THEN nr_user - writer[w].pad ELSE nr_user
    /\ writer' = [writer EXCEPT ![w].pc = "done"]
    /\ UNCHANGED <<slot, map, mem, subm, invline, submitter, bug>>

--------------------------------------------------------------------------------
(* The background fetch of a RESERVED slot's media data (its caller is    *)
(* outside this repository): the entry turns WAITREAD while the read runs. *)
FetchStart(p) ==
    /\ RESERVED \in slot[p].fl /\ WRITTEN \notin slot[p].fl
    /\ slot' = [slot EXCEPT ![p].fl = (@ \ {RESERVED}) \cup {WAITREAD}]
    /\ UNCHANGED <<map, mem, subm, nr_user, invline, writer, submitter, bug>>

(* pblk_rb_write_read_data_to_rrwb: the fetched data fills a slot that is *)
(* still WAITREAD, and the lba points at it.                               *)
FetchDone(p) ==
    /\ WAITREAD \in slot[p].fl
    /\ slot' = [slot EXCEPT ![p] = [@ EXCEPT !.fl = (@ \ {WAITREAD}) \cup {WRITTEN},
                                             !.ppa = Empty]]
    /\ map' = [map EXCEPT ![slot[p].lba] = Cache(p, FALSE)]
    /\ UNCHANGED <<mem, subm, nr_user, invline, writer, submitter, bug>>

(* pblk_rb_gc_data_to_rrwb for lba l while GC collects line gl: a         *)
(* RESERVED or WAITREAD slot of l still waiting for data on gl takes the  *)
(* GC data; a WAITREAD one also points l at itself.                       *)
GcFill(l, gl) ==
    LET p == map[l].pos
        e == slot[p]
    IN
    /\ InCache(map[l])
    /\ e.fl \cap {WRITTEN, INVALIDATE} = {}
    /\ e.fl \cap {RESERVED, WAITREAD} # {}
    /\ e.ppa = Media(gl)
    /\ IF RESERVED \in e.fl
       THEN /\ slot' = [slot EXCEPT ![p] = [e EXCEPT !.fl = @ \cup {WRITTEN}, !.ppa = Empty]]
            /\ UNCHANGED map
       ELSE /\ slot' = [slot EXCEPT ![p] = [e EXCEPT !.fl = (@ \ {WAITREAD}) \cup {WRITTEN},
                                                     !.ppa = Empty]]
            /\ map' = [map EXCEPT ![l] = Cache(p, FALSE)]
    /\ UNCHANGED <<mem, subm, nr_user, invline, writer, submitter, bug>>

--------------------------------------------------------------------------------
(* pblk_submit_write up to pblk_rb_read_commit.                            *)
SubmitCommit ==
    LET avail == SecsAvail
        com   == CalcSecs(avail)
    IN
    /\ submitter.pc = "idle"
    /\ avail >= MinWritePgs + SubmitMargin
    /\ com > 0
    /\ subm' = subm + com
    /\ submitter' = [pc |-> "read", pos |-> subm, left |-> com]
    /\ UNCHANGED <<slot, map, mem, nr_user, invline, writer, bug>>

(* One entry of pblk_rb_read_to_bio: it waits until the entry is WRITTEN  *)
(* or INVALIDATE (BUG_ON if it is still RESERVED), then marks it          *)
(* SUBMITTED; after the last one the request is issued.                    *)
SubmitEntry ==
    LET p == submitter.pos
        f == slot[p].fl
    IN
    /\ submitter.pc = "read"
    /\ \/ /\ f \cap {WRITTEN, INVALIDATE} # {}
          /\ slot' = [slot EXCEPT ![p].fl = (f \ {WRITTEN, RESERVED}) \cup {SUBMITTED}]
          /\ submitter' = IF submitter.left = 1
                          THEN [pc |-> "idle", pos |-> 0, left |-> 0]
                          ELSE [submitter EXCEPT !.pos = p + 1, !.left = @ - 1]
          /\ UNCHANGED bug
       \/ /\ f \cap {WRITTEN, INVALIDATE} = {} /\ RESERVED \in f
          /\ bug' = TRUE
          /\ UNCHANGED <<slot, submitter>>
    /\ UNCHANGED <<map, mem, subm, nr_user, invline, writer>>

--------------------------------------------------------------------------------
(* Every lba starts empty or on media; the ring is empty.                  *)
Init ==
    /\ slot = [p \in Pos |-> [fl |-> {WRITABLE}, lba |-> 0, ppa |-> Empty]]
    /\ map \in [Lbas -> {Empty} \cup MediaAddrs]
    /\ mem = 0 /\ subm = 0 /\ nr_user = 0
    /\ invline = NoLine
    /\ writer = [w \in Writers |-> NoWriter]
    /\ submitter = [pc |-> "idle", pos |-> 0, left |-> 0]
    /\ bug = FALSE

Next ==
    /\ ~bug
    /\ \/ \E w \in Writers, l \in Lbas, n \in 1..4 : l + n <= 4 /\ Start(w, l, n)
       \/ \E w \in Writers : Phase1(w) \/ Admit(w) \/ Phase3(w) \/ Out(w)
       \/ \E p \in Pos : FetchStart(p) \/ FetchDone(p)
       \/ \E l \in Lbas, gl \in Lines : GcFill(l, gl)
       \/ SubmitCommit \/ SubmitEntry

Spec == Init /\ [][Next]_vars

--------------------------------------------------------------------------------
TypeOK ==
    /\ slot \in [Pos -> [fl : SUBSET Flags, lba : Lbas, ppa : Addrs]]
    /\ map \in [Lbas -> Addrs]
    /\ mem \in 0..N-1 /\ subm \in 0..mem /\ nr_user \in Nat
    /\ invline \in Lines \cup {NoLine}
    /\ bug \in BOOLEAN

(* A slot admitted to a writer (mem moved past it) that the writer's      *)
(* second loop has not yet run over.                                       *)
Owned(p) == \E w \in Writers : writer[w].pc = "p3" /\
                               p \in writer[w].bpos .. writer[w].bpos + writer[w].adm - 1

(* Every slot between the ring start and mem has been claimed by a        *)
(* reservation or a copy, or still belongs to a writer that will claim    *)
(* it: pblk_rb_read_to_bio busy-waits on an entry until it is WRITTEN or  *)
(* INVALIDATE, so the write thread would spin forever on a slot that was  *)
(* admitted (mem advanced over it) and that no one will ever fill.        *)
NoOrphanSlot == \A p \in 0..mem-1 : slot[p].fl # {WRITABLE} \/ Owned(p)

================================================================================
