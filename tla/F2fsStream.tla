------------------------------ MODULE F2fsStream ------------------------------
(***************************************************************************)
(* The f2fs stream classifier (mstream_f2fs/stream.c): the per-inode       *)
(* file_entry tree (lifetime_tree, ltree_lock), the per-group fgroup_entry *)
(* tree (fgroup_tree, ftree_lock), the fgroup_history table that keeps a  *)
(* group's profile after its directory is deleted, and the expected       *)
(* lifetime (EMA) from which a group's cluster, and so its stream, comes. *)
(*                                                                         *)
(* update_file_valid and update_file_lifetime are called by writer        *)
(* threads; each takes ltree_lock for its file_entry, releases it, and    *)
(* then takes ftree_lock for the group: two atomic steps, with the other  *)
(* threads free to run in between.  Directory deletion, inode eviction,   *)
(* the k-means round and update_new_ema are called from f2fs code that is *)
(* not in the repository; they are single steps.                          *)
(*                                                                         *)
(* A group key stands for ((dir ino) << 5) + vtype; Keyword names the     *)
(* path keyword (fgroup_history is looked up by keyword and vtype).  Data *)
(* stays numeric; user_data_blocks is the clock seq.  DATABASES files,   *)
(* whose nonzero offsets go through update_sample_lifetime, are not      *)
(* among the modelled vtypes.                                             *)
(***************************************************************************)
EXTENDS Naturals, Integers, FiniteSets, SequencesExt, Functions

CONSTANTS
    Inodes,          \* inode numbers of regular files
    Threads,         \* writer threads calling into stream.c
    Keys,            \* fgroup keys
    SJ,              \* FGROUP_EXT_SPECIAL_JOURNAL, a key of its own
    GroupOf,         \* inode -> key: get_fgroup (ei->i_fgroup at creation)
    VType,           \* key -> vtype class (see VTypes)
    VRank,           \* vtype class -> its FGROUP_* number
    Keyword,         \* key -> keyword of its path
    DirOf,           \* key -> directory inode
    HistTypes,       \* vtypes 0..FGROUP_ETC that delete_fgroup_entry visits
    NR_CLUSTER,
    KmeansMax,       \* kmeans_max[] a k-means round produces
    BLK,             \* the 512 of f2fs_lifetime_to_cluster
    PROFILE_T, COLD_RATE, EMA_W_NUM, EMA_W_DIV,
    MAX_HISTORY,
    ValidDeltas,     \* the valid argument of update_file_valid
    PageCounts,      \* page_written
    MaxSeq,          \* bound of user_data_blocks
    MaxRounds,       \* bound of kmeans_count
    InodeSerialized, \* TRUE: no two threads work on one inode at once
    None             \* absent tree entry

(* FGROUP_LIBMAIN/EXEC/DCIM/MOVIE/MUSIC are "cold"; CACHE/FILES/APPSPECIAL *)
(* and unlisted types "warm"; EXT_JOURNAL "journal"; the other listed      *)
(* types (BAK, TMP, WAL, DBETC, LOCAL, SYSTEM, ...) "hot".                 *)
VTypes == {"cold", "warm", "hot", "journal", "sjournal"}

ASSUME /\ SJ \in Keys /\ \A k \in Keys : VType[k] \in VTypes
       /\ VType[SJ] = "sjournal"
       /\ GroupOf \in [Inodes -> Keys \ {SJ}] /\ NR_CLUSTER >= 2
       /\ KmeansMax \in [0..NR_CLUSTER-1 -> Nat] /\ EMA_W_NUM <= EMA_W_DIV

Clusters == 0..NR_CLUSTER-1
Dirs == {DirOf[k] : k \in Keys \ {SJ}}
HKey(k) == <<Keyword[k], VType[k]>>
HKeys == {HKey(k) : k \in Keys}

VARIABLES
    seq,      \* user_data_blocks(sbi)
    kmax,     \* sbi->kmeans_max
    kcount,   \* sbi->kmeans_count
    fe,       \* lifetime_tree: inode -> file_entry
    igroup,   \* ei->i_fgroup
    fg,       \* fgroup_tree: key -> fgroup_entry
    hist,     \* fgroup_history: (keyword, vtype) -> saved profile
    th,       \* per thread: the step it is in and its locals
    seen,     \* ghost: longest lifetime fed into each group's profile
    hseen     \* ghost: the same for each history entry

vars == <<seq, kmax, kcount, fe, igroup, fg, hist, th, seen, hseen>>

Idle == [pc |-> "idle", ino |-> CHOOSE i \in Inodes : TRUE, upd |-> 0,
         lt |-> 0, pw |-> 0, rs |-> 0, unlink |-> 0]

-----------------------------------------------------------------------------
(* Helpers                                                                 *)

(* f2fs_lifetime_to_cluster: the first cluster whose kmeans_max exceeds   *)
(* the lifetime, else NR_CLUSTER - 2; 0 before the first k-means round.   *)
LifetimeToCluster(lt) ==
    LET below == {i \in 0..NR_CLUSTER-2 : lt < kmax[i] * BLK}
    IN IF kmax[0] = 0 THEN 0
       ELSE IF below = {} THEN NR_CLUSTER - 2 ELSE Min(below)

HistoryCount(hs) == Cardinality({h \in HKeys : hs[h] # None})

(* insert_fgroup_entry: a fresh entry of key k, restored from the history *)
(* of its keyword and vtype when there is one (not for the cold types),   *)
(* else with the default cluster of its vtype.                            *)
NewGroup(k) ==
    LET h == hist[HKey(k)]
        base == [cluster |-> NR_CLUSTER - 1, count |-> 0, ema |-> 0,
                 latest_count |-> 0, latest_lifetime |-> 0, create_time |-> seq,
                 valid |-> 0, cold |-> 0, update_ema |-> 0]
    IN IF VType[k] # "cold" /\ h # None
       THEN [base EXCEPT
               !.count = h.count, !.ema = h.ema, !.update_ema = h.update_ema,
               !.latest_count = h.latest_count,
               !.latest_lifetime = h.latest_lifetime,
               !.cluster =
                  IF h.count = 0 THEN NR_CLUSTER - 1
                  ELSE IF h.update_ema = 1 THEN LifetimeToCluster(h.ema)
                  ELSE IF h.latest_count > 0
                       THEN LifetimeToCluster(h.latest_lifetime \div h.latest_count)
                  ELSE NR_CLUSTER - 2]
       ELSE [base EXCEPT !.cluster = CASE VType[k] = "warm" -> 1
                                       [] VType[k] = "cold" -> NR_CLUSTER - 1
                                       [] OTHER -> 0]

NewSeen(k) ==
    IF VType[k] # "cold" /\ hist[HKey(k)] # None THEN hseen[HKey(k)] ELSE 0

(* The entry lookup_fgroup_entry, else insert_fgroup_entry, hands back   *)
(* for key k: an absent EXT_JOURNAL key whose keyword has a history is    *)
(* redirected to the special journal entry.                               *)
Resolve(tab, k) ==
    IF tab[k] # None THEN k
    ELSE IF VType[k] = "journal" /\ hist[<<Keyword[k], "journal">>] # None
         THEN SJ ELSE k

(* The tree after that lookup: the resolved entry exists.                 *)
Ensure(tab, k) ==
    LET r == Resolve(tab, k)
    IN IF tab[r] = None THEN [tab EXCEPT ![r] = NewGroup(r)] ELSE tab
EnsureSeen(tab, sn, k) ==
    LET r == Resolve(tab, k)
    IN IF tab[r] = None THEN [sn EXCEPT ![r] = NewSeen(r)] ELSE sn

NewFile == [valid |-> 0, cold |-> 1, last_0_update |-> 0, lifetime |-> 0]

(* No other thread is inside a call for inode i.                          *)
Free(i) == \A t \in Threads : th[t].pc = "idle" \/ th[t].ino # i
Startable(t, i) == th[t].pc = "idle" /\ (InodeSerialized => Free(i))

ValueMax(a, b) == IF a >= b THEN a ELSE b

-----------------------------------------------------------------------------
(* update_file_valid                                                       *)

(* Without the clamp of a decrease at the file's valid blocks.            *)
FileValidUpdateNoClamp(valid, v) == IF v = 0 THEN -valid ELSE v

(* The update update_file_valid applies: -valid for 0, a decrease clamped *)
(* at -valid, else v.                                                     *)
FileValidUpdate(valid, v) ==
    IF v = 0 \/ (v < 0 /\ -v > valid) THEN -valid ELSE v

(* Without the cold == 1 test.                                            *)
UpdateFgroupEntryValidAnyCold(e, valid, cold) ==
    IF valid < 0 /\ -valid > e.valid THEN [e EXCEPT !.valid = 0]
    ELSE [e EXCEPT !.cold = @ + valid, !.valid = @ + valid]

(* update_fgroup_entry_valid on the entry: a decrease larger than its     *)
(* valid sets valid to 0 and returns, leaving cold alone.                 *)
UpdateFgroupEntryValid(e, valid, cold) ==
    IF valid < 0 /\ -valid > e.valid THEN [e EXCEPT !.valid = 0]
    ELSE [e EXCEPT !.cold = @ + (IF cold = 1 THEN valid ELSE 0),
                   !.valid = @ + valid]

(* Under ltree_lock: the file_entry is found or inserted (a negative       *)
(* update of an unknown inode returns), and valid moves by the update,     *)
(* which is -valid for 0 and is clamped at -valid.                         *)
UpdateFileValidL(t, i, v) ==
    /\ Startable(t, i)
    /\ ~(fe[i] = None /\ v < 0)
    /\ LET re == IF fe[i] = None THEN NewFile ELSE fe[i]
           upd == FileValidUpdate(re.valid, v)
       IN /\ fe' = [fe EXCEPT ![i] = [re EXCEPT !.valid = @ + upd]]
          /\ th' = [th EXCEPT ![t] = [Idle EXCEPT !.pc = "valid", !.ino = i,
                                                  !.upd = upd]]
    /\ UNCHANGED <<seq, kmax, kcount, igroup, fg, hist, seen, hseen>>

(* Under ftree_lock: update_fgroup_entry_valid on i_fgroup's entry, with  *)
(* re->cold as it is now.                                                 *)
UpdateFileValidF(t) ==
    /\ th[t].pc = "valid"
    /\ LET i == th[t].ino
           upd == th[t].upd
           r == Resolve(fg, igroup[i])
           e == Ensure(fg, igroup[i])[r]
       IN /\ fg' = [Ensure(fg, igroup[i]) EXCEPT
                        ![r] = UpdateFgroupEntryValid(e, upd, fe[i].cold)]
          /\ seen' = EnsureSeen(fg, seen, igroup[i])
    /\ th' = [th EXCEPT ![t] = Idle]
    /\ UNCHANGED <<seq, kmax, kcount, fe, igroup, hist, hseen>>

-----------------------------------------------------------------------------
(* update_file_lifetime (page_written > 0)                                 *)

(* Under ltree_lock: the file_entry is found or inserted (unless this is  *)
(* an unlink).  A write at offset 0 measures the lifetime since the last  *)
(* one; a write elsewhere reuses the last lifetime measured.  Only a      *)
(* positive lifetime goes on to the group.                                *)
UpdateFileLifetimeL(t, i, rs, pw, unlink) ==
    /\ Startable(t, i)
    /\ ~(fe[i] = None /\ unlink = 1)
    /\ LET re == IF fe[i] = None THEN NewFile ELSE fe[i]
           re2 == CASE rs # 0 -> re
                    [] unlink = -1 ->
                         [re EXCEPT !.lifetime = 0, !.last_0_update = seq]
                    [] re.last_0_update > 0 ->
                         [re EXCEPT !.lifetime = seq - re.last_0_update,
                                    !.last_0_update = seq]
                    [] unlink = 1 ->
                         [re EXCEPT !.lifetime = 0, !.last_0_update = 0]
                    [] OTHER -> [re EXCEPT !.last_0_update = seq]
       IN /\ fe' = [fe EXCEPT ![i] = re2]
          /\ th' = [th EXCEPT ![t] =
                      IF re2.lifetime > 0
                      THEN [pc |-> "life", ino |-> i, upd |-> 0, lt |-> re2.lifetime,
                            pw |-> pw, rs |-> rs, unlink |-> unlink]
                      ELSE Idle]
    /\ UNCHANGED <<seq, kmax, kcount, igroup, fg, hist, seen, hseen>>

(* convert_fgroup_to_special_journal: the group's counters move into the  *)
(* special journal entry, the group is erased and the inode's i_fgroup    *)
(* becomes the special journal.                                           *)
ConvertToSpecialJournal(tab, sn, i, k) ==
    LET tabj == Ensure(tab, SJ)
        f == tab[k]
    IN /\ fg' = [tabj EXCEPT ![SJ] = [@ EXCEPT !.cold = @ + f.cold,
                                          !.count = @ + f.count,
                                          !.latest_lifetime = @ + f.latest_lifetime,
                                          !.latest_count = @ + f.latest_count,
                                          !.valid = @ + f.valid],
                             ![k] = None]
       /\ seen' = [EnsureSeen(tab, sn, SJ) EXCEPT ![SJ] = ValueMax(@, sn[k]),
                                                  ![k] = 0]
       /\ igroup' = [igroup EXCEPT ![i] = SJ]

(* Under ftree_lock: update_fgroup_entry adds page_written lifetimes to    *)
(* the group; a still-cold file takes its valid blocks out of the cold    *)
(* count of ei->i_fgroup (clear_fgroup_cold) and stops being cold; an     *)
(* EXT_JOURNAL file unlinked at offset 0 moves to the special journal.    *)
UpdateFileLifetimeF(t) ==
    /\ th[t].pc = "life"
    /\ LET l == th[t]
           i == l.ino
           k == igroup[i]
           r == Resolve(fg, k)
           tab1 == [Ensure(fg, k) EXCEPT ![r] =
                      [@ EXCEPT !.count = @ + l.pw,
                                !.latest_count = @ + l.pw,
                                !.latest_lifetime = @ + l.lt * l.pw]]
           sn1 == [EnsureSeen(fg, seen, k) EXCEPT ![r] = ValueMax(@, l.lt)]
           clear == fe[i].cold = 1
           tab2 == IF clear /\ tab1[k] # None
                   THEN [tab1 EXCEPT ![k].cold = IF @ < fe[i].valid THEN 0
                                                 ELSE @ - fe[i].valid]
                   ELSE tab1
       IN /\ fe' = IF clear THEN [fe EXCEPT ![i].cold = 0] ELSE fe
          /\ IF VType[k] = "journal" /\ l.unlink = 1 /\ l.rs = 0 /\ tab2[k] # None
             THEN ConvertToSpecialJournal(tab2, sn1, i, k)
             ELSE fg' = tab2 /\ seen' = sn1 /\ UNCHANGED igroup
    /\ th' = [th EXCEPT ![t] = Idle]
    /\ UNCHANGED <<seq, kmax, kcount, hist, hseen>>

-----------------------------------------------------------------------------
(* Calls from the rest of f2fs                                             *)

(* delete_file_entry at eviction, once the inode's blocks are gone; the   *)
(* inode number may then come back as a new file of its directory.        *)
DeleteFileEntry(i) ==
    /\ fe[i] # None /\ Free(i) /\ fe[i].valid = 0
    /\ fe' = [fe EXCEPT ![i] = None]
    /\ igroup' = [igroup EXCEPT ![i] = GroupOf[i]]
    /\ UNCHANGED <<seq, kmax, kcount, fg, hist, th, seen, hseen>>

(* insert_fgroup_history then rb_erase, for one key: the profile is saved  *)
(* under (keyword, vtype) unless the table is full and has no entry for   *)
(* it; a group with no lifetime yet first gets its age as one sample.     *)
SaveAndErase(s, k) ==
    IF s.fg[k] = None THEN s
    ELSE LET re == s.fg[k]
             h == HKey(k)
             full == s.hist[h] = None /\ HistoryCount(s.hist) >= MAX_HISTORY
             re2 == IF re.count = 0
                    THEN [re EXCEPT !.count = 1, !.latest_count = @ + 1,
                                    !.latest_lifetime = @ + (seq - re.create_time)]
                    ELSE re
             sn2 == IF re.count = 0 THEN ValueMax(s.seen[k], seq - re.create_time)
                    ELSE s.seen[k]
         IN [fg    |-> [s.fg EXCEPT ![k] = None],
             hist  |-> IF full THEN s.hist
                      ELSE [s.hist EXCEPT ![h] =
                              [count |-> re2.count, ema |-> re2.ema,
                               update_ema |-> re2.update_ema,
                               latest_count |-> re2.latest_count,
                               latest_lifetime |-> re2.latest_lifetime]],
             seen  |-> [s.seen EXCEPT ![k] = 0],
             hseen |-> IF full THEN s.hseen ELSE [s.hseen EXCEPT ![h] = sn2]]

(* delete_fgroup_entry for a deleted directory, whose files are gone:     *)
(* its keys of vtype 0..FGROUP_ETC, in vtype order.                       *)
DeleteFgroupEntry(d) ==
    LET ks == {k \in Keys \ {SJ} : DirOf[k] = d /\ VType[k] \in HistTypes}
        s == FoldLeft(SaveAndErase,
                      [fg |-> fg, hist |-> hist, seen |-> seen, hseen |-> hseen],
                      SetToSortSeq(ks, LAMBDA a, b : VRank[VType[a]] < VRank[VType[b]]))
    IN /\ \A i \in Inodes : DirOf[GroupOf[i]] = d => fe[i] = None
       /\ \E k \in ks : fg[k] # None
       /\ fg' = s.fg /\ hist' = s.hist /\ seen' = s.seen /\ hseen' = s.hseen
       /\ UNCHANGED <<seq, kmax, kcount, fe, igroup, th>>

(* The first EMA as the sum of the pending lifetimes, not their mean.     *)
FirstEmaSum(e) ==
    [e EXCEPT !.ema = e.latest_lifetime, !.update_ema = 1,
              !.latest_count = 0, !.latest_lifetime = 0]

(* A group's first EMA: the mean of the lifetimes sampled since it was    *)
(* created; the samples are then cleared.                                 *)
FirstEma(e) ==
    [e EXCEPT !.ema = e.latest_lifetime \div e.latest_count, !.update_ema = 1,
              !.latest_count = 0, !.latest_lifetime = 0]

(* update_new_ema on one group (ftree_lock held by its caller).           *)
NewEma(e, k) ==
    LET age == seq - e.create_time
    IN IF VType[k] = "cold" THEN [e EXCEPT !.cluster = NR_CLUSTER - 1]
       ELSE IF e.update_ema = 0
       THEN IF age < PROFILE_T THEN e
            ELSE IF e.cold > ((e.cold + e.count) * COLD_RATE) \div 100
                    \/ e.latest_count = 0
            THEN [e EXCEPT !.cluster = ValueMax(@, LifetimeToCluster(age))]
            ELSE FirstEma(e)
       ELSE IF e.latest_count + e.valid > 0
       THEN LET lv == (e.valid * e.ema + e.latest_lifetime)
                          \div (e.valid + e.latest_count)
            IN [e EXCEPT !.ema = (e.ema * (EMA_W_DIV - EMA_W_NUM)) \div EMA_W_DIV
                                 + (lv * EMA_W_NUM) \div EMA_W_DIV,
                         !.latest_count = 0, !.latest_lifetime = 0]
       ELSE e

(* A k-means round, which the classifier's caller runs periodically:      *)
(* update_new_ema on every group of fgroup_tree, then kmeans_max is       *)
(* published.                                                             *)
KmeansRound ==
    /\ kcount < MaxRounds
    /\ kcount' = kcount + 1
    /\ fg' = [k \in Keys |-> IF fg[k] = None THEN None ELSE NewEma(fg[k], k)]
    /\ kmax' = KmeansMax
    /\ UNCHANGED <<seq, fe, igroup, hist, th, seen, hseen>>

(* Some user data block is written.                                        *)
Tick ==
    /\ seq < MaxSeq
    /\ seq' = seq + 1
    /\ UNCHANGED <<kmax, kcount, fe, igroup, fg, hist, th, seen, hseen>>

-----------------------------------------------------------------------------
Init ==
    /\ seq = 0
    /\ kmax = [c \in Clusters |-> 0]
    /\ kcount = 0
    /\ fe = [i \in Inodes |-> None]
    /\ igroup = GroupOf
    /\ fg = [k \in Keys |-> None]
    /\ hist = [h \in HKeys |-> None]
    /\ th = [t \in Threads |-> Idle]
    /\ seen = [k \in Keys |-> 0]
    /\ hseen = [h \in HKeys |-> 0]

Writers ==
    \E t \in Threads :
        \/ \E i \in Inodes, v \in ValidDeltas : UpdateFileValidL(t, i, v)
        \/ UpdateFileValidF(t)
        \/ \E i \in Inodes, rs \in {0, 1}, pw \in PageCounts, u \in {-1, 0, 1} :
             UpdateFileLifetimeL(t, i, rs, pw, u)
        \/ UpdateFileLifetimeF(t)

Environment ==
    \/ \E i \in Inodes : DeleteFileEntry(i)
    \/ \E d \in Dirs : DeleteFgroupEntry(d)
    \/ KmeansRound
    \/ Tick

Next == Writers \/ Environment

Spec == Init /\ [][Next]_vars

-----------------------------------------------------------------------------
(* Properties                                                              *)

GroupRec == [cluster : Clusters, count : Nat, ema : Nat, latest_count : Nat,
             latest_lifetime : Nat, create_time : Nat, valid : Int, cold : Int,
             update_ema : {0, 1}]

TypeOK ==
    /\ seq \in 0..MaxSeq
    /\ fe \in [Inodes -> [valid : Nat, cold : {0, 1}, last_0_update : Nat,
                          lifetime : Nat] \cup {None}]
    /\ igroup \in [Inodes -> Keys]
    /\ fg \in [Keys -> GroupRec \cup {None}]
    /\ \A t \in Threads : th[t].pc \in {"idle", "valid", "life"}

(* The group a file's next update lands in.                               *)
Owner(i) == Resolve(fg, igroup[i])
FileValid == [i \in Inodes |-> IF fe[i] = None THEN 0 ELSE fe[i].valid]
FileColdValid == [i \in Inodes |-> IF fe[i] # None /\ fe[i].cold = 1
                                   THEN fe[i].valid ELSE 0]
Pending(k) == {t \in Threads : th[t].pc = "valid" /\ Owner(th[t].ino) = k}
PendingUpd == [t \in Threads |-> th[t].upd]
PendingColdUpd == [t \in Threads |-> IF fe[th[t].ino] # None
                                        /\ fe[th[t].ino].cold = 1
                                     THEN th[t].upd ELSE 0]
GroupField(k, f) == IF fg[k] = None THEN 0 ELSE fg[k][f]

(* The group counters the classifier reads (update_new_ema's cold ratio,  *)
(* its active blocks) account for the files: a group's valid is the sum  *)
(* of the valid blocks of the files whose updates land in it, and its     *)
(* cold is the sum over those still cold, once the ftree half of every   *)
(* update_file_valid in flight is counted.  update_file_valid,           *)
(* update_file_lifetime (clear_fgroup_cold) and directory deletion must  *)
(* keep it for two threads on two files of one group (MC_F2fsStream.cfg). *)
(* The special-journal merge breaks it when two journal files share a    *)
(* group (MC_F2fsStream_journal.cfg).                                     *)
GroupAccounting ==
    \A k \in Keys :
        LET files == {i \in Inodes : fe[i] # None /\ Owner(i) = k}
        IN /\ GroupField(k, "valid") + SumFunctionOnSet(PendingUpd, Pending(k))
                 = SumFunctionOnSet(FileValid, files)
           /\ GroupField(k, "cold") + SumFunctionOnSet(PendingColdUpd, Pending(k))
                 = SumFunctionOnSet(FileColdValid, files)

(* update_new_ema keeps a weighted mean: a group's expected lifetime, and *)
(* the mean of its pending samples, never exceed the longest lifetime fed *)
(* into its profile, through update_fgroup_entry, the age sample of       *)
(* insert_fgroup_history, a history restore or the special-journal merge. *)
EmaWithinObserved ==
    /\ \A k \in Keys :
         fg[k] # None =>
            /\ fg[k].ema <= seen[k]
            /\ fg[k].latest_lifetime <= fg[k].latest_count * seen[k]
    /\ \A h \in HKeys :
         hist[h] # None =>
            /\ hist[h].ema <= hseen[h]
            /\ hist[h].latest_lifetime <= hist[h].latest_count * hseen[h]
====
