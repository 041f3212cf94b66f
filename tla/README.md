# TLA+ models of the mStream pblk write path and f2fs GC

This directory holds TLA+ models of mStream's multi-stream FTL (the pblk target under
`src/mstream-pblk`, built with `CONFIG_PBLK_MULTIMAP`) and the TLC configurations
that check them. The source files are the reference. Where a callee is not in
the repository (`pblk-rl.c`, `pblk-core.c`, `pblk-map.c`), it is modelled from
`spec.md` and marked `spec_modelled` in `PROJECT.json`.

## 1. The system, part by part

| Part | Source | State | Operations |
|---|---|---|---|
| Write buffer, one per stream | `pblk-rb.c`, `pblk.h` (`struct pblk_rb`, `struct pblk_rb_ctx`) | `mem`, `subm`, `sync`, `l2p_update`, `nr_user`, `sync_point`; per entry `w_ctx.flags` (WRITABLE, RESERVED, WAITREAD, WRITTEN_DATA, SUBMITTED, FLUSH, INVALIDATE), `submit_flags`, lba, ppa | `pblk_rb_may_write_user`, `pblk_rb_may_write_gc`, `pblk_rb_write_entry_user`, `pblk_rb_write_entry_gc`, `pblk_rb_reserved_entry`, `*_to_rrwb`, `pblk_rb_read_commit`, `pblk_rb_read_to_bio`, `pblk_rb_sync_advance`, `pblk_rb_update_l2p` and `clean_wctx`, `pblk_rb_sync_l2p` |
| User write admission | `pblk-cache.c` `__pblk_write_to_cache` | a host bio split into chunks of at most 4 sectors | rate check and ring space check, then `pblk_rl_user_in`, then the copy loop, then `nr_user -= n` |
| GC write admission | `pblk-cache.c` `pblk_write_gc_to_cache` | — | `pblk_rb_may_write_gc` retry into `GC_NRB`, then the copy |
| Rate limiter | calls in `pblk-rb.c` and `pblk-cache.c`; `pblk-rl.c` is not in the repository | `rb_user_cnt`, `rb_gc_cnt` per stream, and their caps | may_insert, user_in, out, inserted |
| Submission and completion | `pblk-write.c` | `compl_list` per stream, in-flight requests (`pblk_c_ctx`: sentry, nr_valid, nr_padded) | `pblk_submit_write` (write thread `pblk_write_ts`), `pblk_end_io_write`, `pblk_end_w_fail`, `pblk_complete_write` |
| Address table | `pblk.h` (`pblk_trans_map_get/set`, `pblk_dev_map_set`, `pblk_cache_map_set`, `pblk_set_lstream`) | per-segment tag NONE/BLOCK/SECTOR/PAGE with BLOCK and PAGE logs | get, set, change of granularity, page-log collapse |
| Mapping-table cache | `pblk-dftl.c` | rb-tree and LRU list of `map_entry` (size, nr_log, dirty), `alloc_res`, `max_res` | search, insert, delete, evict, load, alloc_log, free_log |
| GC pipeline | `pblk-gc.c` | line states CLOSED/GC, `kref`, `gc_full_list`, group lists, `r_list`, `w_list` and `w_entries`, `gc_sem`, `inflight_gc`, `gc_target` | `pblk_gc_run`, `pblk_gc_get_victim_line`, `pblk_gc_read`, `pblk_gc_line_prepare_ws`, `pblk_gc_line_ws`, `pblk_gc_move_valid_secs`, `pblk_gc_write`, `pblk_put_line_back` |
| f2fs classifier and GC victim choice | `src/mstream_f2fs/stream.c`, `gc.c` | per-file-group lifetime EMA, kmeans cluster bounds, segment costs | `update_new_ema`, `f2fs_lifetime_to_cluster`, `get_cb_cost`, `get_victim_by_default` |
| Reporting and tools | `pblk-sysfs.c`, `debug.c`, `trace_replay/` | — | read-only output |

How the parts interact:

1. A host write picks its stream and passes the rate check and the ring space check under `w_lock`.
2. The writer then counts itself in the rate limiter and copies its sectors into the slots it was given. Each copy points the l2p entry at the cacheline.
3. The stream's write thread commits a batch (`subm`), waits until every entry in it is written, marks the entries SUBMITTED and sends one request.
4. Completions arrive in any order. `pblk_complete_write` retires them strictly from `sync`; a completion that is not next is parked in `compl_list`.
5. Later admissions walk `l2p_update` over the synced entries they are about to overwrite. That walk repoints the l2p entries at the media, cleans the slots and decrements the rate counter.
6. GC selects victim lines, reads their valid sectors and feeds them through the same buffer on the GC stream.

Hard behaviours in this code (`PROJECT.json` "hazards" lists each one at its line):

- writers, the write thread and completion interrupts interleave on one ring;
- completions are reordered and parked;
- two `w_lock` sections in a row that the code calls atomic;
- spin-waits (`clean_wctx`, `pblk_rb_read_to_bio`) that are only safe when the pointer order holds;
- failure exits after state has already moved (`subm` committed, a GC line partly queued);
- counters that can drift (`rb_user_cnt`, `gc_target`, `alloc_res`);
- the granularity change racing with buffered entries;
- the f2fs classifier's two-phase calls (`ltree_lock`, then `ftree_lock`) interleaving across threads, and a journal group merged into the special journal while sibling files still point at it.

## 2. Modules

### WriteBuffer (core)

`WriteBuffer.tla` models one stream of a non-PAGE_MAP type: its ring, user admission, the write thread and completion.

| Variable | Code |
|---|---|
| `mem`, `subm`, `sync`, `l2p` | the four ring pointers, modulo `N` |
| `nr_user` | `rb->nr_user` |
| `user_cnt` | `rb_rl.rb_user_cnt` |
| `slot[p]` | `w_ctx` of entry `p`. Its state is writable, written or submitted. It also holds the lba, a data version, and two device-side fields: `done` (the write completed) and `ok` (its result). |
| `map[l]` | the l2p entry: empty, a cacheline, or a media value |
| `writer[w]` | one `__pblk_write_to_cache` activation: a program counter through admit, rlin, copy and finish, plus the bio |
| `submitter` | `pblk_write_ts` between `pblk_rb_read_commit` and the end of `pblk_submit_io_set` |
| `reqs` | the requests at the device |
| `parked` | `compl_list` |
| `last` | a ghost: the last value the host wrote to each lba |

| Action | Code |
|---|---|
| `Start` | a bio of `n` sectors (`n = 0` is a flush bio without data) enters `pblk_write_to_cache` |
| `Admit` | `pblk_rb_may_write_user` as a whole: the rate check, `__pblk_rb_may_write`, the `pblk_rb_update_l2p` walk with `pblk_update_map_dev` and `clean_wctx`, `pblk_rl_out`, then `nr_user += n` and `mem += n`. It is disabled while the code would return NVM_IO_REQUEUE; the caller's retry loop is that wait. |
| `RlIn` | the separate `pblk_rl_user_in` section |
| `CopyEntry` | `pblk_rb_write_entry_user` with `pblk_update_map_cache`, one sector per step |
| `Finish` | the `out:` label |
| `SubmitCommit` | `pblk_submit_write` up to `pblk_rb_read_commit`, with the `secs_avail - nr_user` computation, the early return and `pblk_calc_secs` |
| `SubmitTransfer` | `pblk_rb_read_to_bio`, whose busy-wait is the guard that every committed entry is WRITTEN, then `pblk_submit_io_set` |
| `Complete` | `pblk_end_io_write`, then `pblk_complete_write`. In-order completions run `pblk_end_w_bio` followed by the `goto retry` drain of `compl_list`, which is the RECURSIVE `DrainParked`. Other completions are appended to `compl_list`. |

### WriteBufferFaults

`WriteBufferFaults.tla` extends WriteBuffer with the failures the code has paths for:

- `CompleteFailed`: a media error through `pblk_end_w_fail`, where `pblk_rb_sync_scan_entry` always returns NULL;
- `SubmitLost`: the `fail_put_bio` and `fail_free_bio` exits of `pblk_submit_write`, taken after `subm` was committed;
- a ghost `barrier[w]`: the entries not yet synced when writer `w` was admitted, used to state flush durability.

Each of the three specifications `SpecFlush`, `SpecWriteErrors` and `SpecSubmitLoss` adds one of these. `MC_WriteBufferFaults_flush.cfg` reproduces a divergence: `FlushDurability` fails because, under MULTIMAP, the REQ_PREFLUSH branch of `pblk_rb_may_write_flush` is compiled out, so a flush bio is acknowledged (NVM_IO_DONE) while earlier writes are unsynced. That cfg is kept as a reproduction, not as a run, because the run budget went to `rsv_orphan_slots`.

### RingAbstract (what the ring promises)

`RingAbstract.tla` is the abstract specification of one stream's buffer: a bounded FIFO `queue` of at most `Cap` cells.

- `Reserve(k)` appends `k` empty cells.
- `Fill(i, v)` writes a value into a cell that is still empty.
- `Retire(k)` removes the oldest `k` cells, which must all be filled.

At the end of `WriteBuffer.tla`, `Ring == INSTANCE RingAbstract WITH Cap <- N - 1, Hole <- NoVal, queue <- RingCells` gives the refinement mapping. `RingCells` lists the values of the cachelines from `sync` to `mem`, oldest first. Under the mapping:

- `Admit` is `Reserve(n)`;
- `CopyEntry` is `Fill`;
- an in-order `Complete` is `Retire`;
- every other step is a stutter.

`RefinesRing == Ring!Spec` is checked as a PROPERTY.

### CMTCache (mapping-table cache and the table operations that drive it)

`CMTCache.tla` models `pblk-dftl.c` together with the `pblk.h` operations that call it. The cache is bookkeeping only: the translation table always stays in memory.

- Variable `cmt` is `cmt_mgt`:
  - `list` is `map_list` in LRU order, with head = least recently used. The rb-tree is an index over the same entries, so `Pos` (`pblk_search_cmt`) finds an entry by `lseg`.
  - `alloc_res` is the accounted total.
  - `bug` records a `BUG_ON` fired under `map_lock`; afterwards only `Halted` (stuttering) is enabled.
- Variable `seg[s]` is what the cache reads of `bmap[lseg]`: the tag `map`, the stream `lstream`, the block-log bit `cached`, and the set `pages` of page groups that have a 4-entry log.
- The functions of `pblk-dftl.c` are pure operators on the `cmt` record:
  - `InsertCmt`, `DeleteCmt`, `EvictCmt` (RECURSIVE), `LoadCmt`, `ChangeMap`, `AllocLog` and `FreeLog`.
  - An action applies them in the order its C function calls them. `WriteLog` is the shared log update of the three map_set functions.
- Actions:
  - `MapGet`: `pblk_trans_map_get`;
  - `TransMapSet`, `CacheMapSet` and `DevMapSet`: the three map_set functions;
  - `SetLstream`: `pblk_set_lstream`, including `pblk_empty_map_set` and `pblk_setting_page_map`.
- Which offsets a write hits, whether a log collapses, and which page groups `pblk_setting_page_map` leaves unaligned are all nondeterministic inputs.
- Callers of these functions sit outside the repository and serialise them, and each cache call takes `map_lock`. So each table operation is one step.
- The `BUG_ON`s of `pblk_dev_map_set` (a log must exist) and of the PAGE_MAP branches (the segment must hold a pmap) are taken as guards: they assert the callers' protocol.

`pblk_load_cmt` reads the map type from `lstream[pba.m.lstream]`. Inside `pblk_set_lstream` that is still the old stream. When the old stream is PAGE_MAP, it walks `pmap[]` through a pointer that no longer points at a pmap. The input `j` is that undefined read: a garbage count, or a fault (`j < 0`) when the word is the `ADDR_EMPTY` of an empty block map.

### GCPipeline (pblk garbage collector)

`GCPipeline.tla` models `pblk-gc.c` and the line life cycle it drives. Data is abstracted to sets of sector indices: `ln[l].valid` holds the sectors whose only copy is on line `l`, and `ln[l].ref` is its `kref`.

- **GC thread:**
  - `GcRunFull` frees the lines of `gc_full_list`.
  - `GcRunStart`, then the per-list steps `GcRunGroupEmpty`, `GcRunBlockVictim` and `GcRunSelect`, model the `pblk_gc_run` loop over the high/mid/low lists. `GetVictimLine` is `pblk_gc_get_victim_line`, which skips the stream's `invalid_line`.
- **Reader and workers:**
  - `GcRead` is `pblk_gc_read`.
  - `PrepStart`/`PrepRq` model `pblk_gc_line_prepare_ws`: they split the valid bitmap into requests of `max_write_pgs`, each taking `gc_sem` and a line reference.
  - `LineWs`/`LineWsQueue` model `pblk_gc_line_ws`, which reads a request and waits for `w_entries < PBLK_GC_W_QD`.
  - `GcWrite` is `pblk_gc_write`, which reinjects the request and puts the reference.
- **Failure exits:** they live in `GCPipelineFaults.tla`, which extends GCPipeline with `NextF`/`SpecF`. The constant `Faults` switches them on: emeta allocation (`PrepStartNoMem`, which leaks the line), emeta read (`PrepStartEmetaFail`), request allocation (`PrepRqAllocFail`) and GC read (`LineWsReadFail`). `PutLineBack` and `PrepFail` are the `pblk_put_line_back` and the `fail_free_gc_rq`/`fail_free_emeta` exit they share. The passing GC runs use the fault-free `Spec`: a leaked line would make `GcCompletes` false for a reason already reported (hazard at `pblk-gc.c:193`).
- **Environment:** user invalidations, the write buffer's reference puts (`BufRelease`), `SetInvalidLine`, the rate limiter's should-start/stop, and the sysfs force switch.

### F2fsVictim (f2fs garbage collection and victim selection)

`F2fsVictim.tla` models `src/mstream_f2fs/gc.c` in its default build: none of `F2FS_GC_DELAYED`, `F2FS_FORCE_GC_CB` or `STREAM_GC_*` is defined. So `get_cb_cost` takes its `#else` branch (the mtime cost-benefit formula), and `select_policy` uses `select_gc_type`.

- **State:**
  - `valid` holds the valid blocks per segment, and `prefree` the segments freed since the last checkpoint.
  - `pending` is the BG-moved data that is not yet written back.
  - `victimSecmap`, `lastVictim` (per gc_mode), `minMtime`/`maxMtime`, and the in-progress `f2fs_gc` call `gc` (pc idle/search/collect, gc_type, sync, background, segno, sec_freed).
  - The ghost `scanned` holds the sections the last search visited.
- **Victim search:**
  - `get_victim_by_default` is the pure operator `GetVictimByDefault`, built from `VictimSel` (the caller-segment path, `max_search == 0`, `check_bg_victims`) and the RECURSIVE `Scan`/`Continue`/`Visit`.
  - `Visit` covers the circular scan from `last_victim`, with its wrap-around, `ofs_unit` and `count_bits`, the three skip tests, the cost, and the `last_victim` update when the window is used up.
  - `Found` is `got_it`, which sets the `victim_secmap` bit for BG and aligns the result to the section.
- **Actions:**
  - `GcThreadFunc`, `BalanceFs` and `IoctlGc` start `f2fs_gc` (`StartGc`).
  - `GcSearch` is one pass of `gc_more` up to `__get_victim`: the checkpoint when BG is short of free sections, the promotion to FG, the stop of a non-background BG call, and the search.
  - `GcCollect` is `do_garbage_collect` plus the rest of the loop: `move_data_page` for FG (blocks of atomic files, the constant `Pinned`, stay), `gc_data_segment` for BG, the skip of blocks whose inode's `dio_rwsem` trylock fails (`BusySets`, any subset of the victim's segments when `DioContention` is TRUE), `sec_freed`, the checkpoint, and the jump back to `gc_more`.
  - Writes, invalidations and checkpoints are the environment.
- **Not modelled:** a moved block is not written into an open log, so GC frees space without using any. The do_garbage_collect walk is not clamped to the main area, and the constant `RangeSegnos` excludes range starts whose walk would leave it.
- **Properties:** `FgGreedyMin` and `ScanRotates` are checked by runs. `GcReturns` (every `f2fs_gc` call returns) is checked only by the reproduction `MC_F2fsVictim_atomic.cfg`: no fairness the code justifies bounds how long direct I/O keeps the trylock failing, so a passing run could only check it by leaving that out. `OpenLogsUntouched` (no GC step moves a block out of an open log's segment) is checked only by the reproduction `MC_F2fsVictim_range.cfg`.
- **Evaluation:** values used both in a guard and in an update are bound once through a singleton set (`The`, `\E r \in {...}`). TLC then evaluates the recursive search once per step, also when it checks `ENABLED` for fairness.

### F2fsStream (f2fs stream classifier)

`F2fsStream.tla` models the bookkeeping of `src/mstream_f2fs/stream.c`. A file's data belongs to a file group (`fgroup`), and each group keeps lifetime statistics in `fgroup_tree`. Those statistics feed the k-means clustering that picks a stream. Keys (`fgroup` values) and inodes are model values. Each key has a vtype (`VType`: cold, warm, hot, journal, special journal), a keyword and a directory. `SJ` is `FGROUP_EXT_SPECIAL_JOURNAL`.

- **State:**
  - `fe` is `lifetime_tree`: per inode, `valid`, `cold`, `last_0_update` and `lifetime`.
  - `igroup` is `ei->i_fgroup`.
  - `fg` is `fgroup_tree` (`None` for an absent key), and `hist` is the `fgroup_history` table.
  - `seq` is `user_data_blocks`, `kmax` is `kmeans_max`, and `th` is the phase of each thread's call in progress.
  - The ghosts `seen` and `hseen` hold the largest lifetime sampled into a group and into its history.
- **Two-phase calls:** `update_file_valid` and `update_file_lifetime` work under `ltree_lock`, drop it, and then work under `ftree_lock`. Each is two actions:
  - `UpdateFileValidL` then `UpdateFileValidF`;
  - `UpdateFileLifetimeL` then `UpdateFileLifetimeF`.
  
  The value of `re->cold` that the second phase reads is the one current at that time, as in the code. `FileValidUpdate` is the clamp of the first phase, and `UpdateFgroupEntryValid` is `update_fgroup_entry_valid`.
- **Group lookup:** `Resolve`/`Ensure`/`NewGroup` are `lookup_fgroup_entry` and `insert_fgroup_entry`. That includes the redirect of an absent EXT_JOURNAL key with a history to the special journal entry, and the restore of a profile from the history.
- **Journal conversion:** `ConvertToSpecialJournal` is `convert_fgroup_to_special_journal`, called from the ftree phase of an unlink at offset 0.
- **Deletion:**
  - `DeleteFileEntry` is `delete_file_entry`, at eviction after truncation (valid 0). It resets `i_fgroup`.
  - `DeleteFgroupEntry(d)` is `delete_fgroup_entry` for a directory whose files are gone. It saves each group into the history in the order the tree walk visits the keys (`insert_fgroup_history`, `SaveAndErase`, including the full table and the synthetic sample of a group that never saw a lifetime), then erases it.
- **K-means:** `KmeansRound` applies `update_new_ema` (`NewEma`, `FirstEma`) to every group and publishes `kmeans_max`. The clustering itself is in a caller outside the repository, so the published bounds are the constant `KmeansMax`.
- **Abstraction:** the path walk of `get_fgroup` (string handling) is replaced by the fixed `GroupOf` map. Per-page lifetime sampling (`update_sample_lifetime`) is replaced by a lifetime of `seq - last_0_update` at offset 0, which is the `range_start == 0` branch of `update_file_lifetime`.
- **Properties:**
  - `GroupAccounting`: each group's `valid` (and `cold`), plus the updates of calls between their two phases, equals the sum over the files whose `i_fgroup` resolves to it.
  - `EmaWithinObserved`: the EMA and the pending lifetimes of every group and history entry never exceed the largest lifetime sampled into it.

### AddressTable (the addresses of the l2p table)

`AddressTable.tla` models what the variable-granularity l2p table of `pblk.h` stores and returns for one logical segment. CMTCache models the cache footprint of the same calls, not the addresses. All of these calls run under `trans_lock`, so each one is a single action.

- **State:**
  - `seg` is `bmap[lseg].m`: the tag (NONE, SECTOR or PAGE) and `lstream`.
  - `smap` is the SECTOR_MAP table.
  - `pmap` is the PAGE_MAP table. Each group of four lbas is either packed (`pa`, `is_cached = 0`) or a 4-entry log (`ent`, the `pmtlog`).
  - `last` is a ghost: the address most recently given to a map_set for each lba.
- **Addresses:** an address is empty, a cacheline, or a media address `(blk, pg, sec)`. Lun, channel and plane are copied alongside blk and pg unchanged, so they are left out.
- **Reads:** `MapGet` is `pblk_trans_map_get`. A packed group derives the sector from the lba's offset in the group.
- **Helpers:**
  - `Ppa32` and `CheckPageAlign` are `pblk_ppa64_to_ppa32` and `pblk_check_page_align`.
  - `PageWrite` is the PAGE_MAP branch shared by the three setters: open the log from the current addresses, store the new address, and collapse an aligned group.
  - The packing differs by caller. `PackPage` copies `g.pg`, as `pblk_dev_map_set` and `pblk_setting_page_map` do. `PackPageTrans` copies `g.blk` into the page field, as `pblk_trans_map_set` does at line 2118.
- **Actions:**
  - `CacheMapSet` is `pblk_cache_map_set`. It never collapses.
  - `DevMapSet` is `pblk_dev_map_set`. Its caller only calls it while the lba still points at its cacheline, so its BUG_ONs cannot fire.
  - `TransMapSet` is `pblk_trans_map_set`, called for GC moves and invalidations. It collapses only when the address is not a cacheline.
  - `SetLstream` is `pblk_set_lstream` for the SECTOR and PAGE types, with `SettingPageMap` (`pblk_setting_page_map`) for a SECTOR→PAGE change.
- **Property:** `GetAfterSet`: every lba reads back the address last set for it.

### Reservation (page-group reservation of a PAGE_MAP stream)

`Reservation.tla` models the PAGE_MAP branch of `__pblk_write_to_cache`, for one page group of four lbas on one stream. It also models the functions of `pblk-rb.c` that fill a reserved slot.

| Variable | Code |
|---|---|
| `slot[p]` | `w_ctx` of entry `p`: the flag set (WRITABLE, RESERVED, WAITREAD, WRITTEN, SUBMITTED, INVALIDATE), lba and ppa. Media addresses keep only their line. |
| `map[l]` | the l2p entry: empty, media, or a cacheline with its `is_reserved` bit |
| `mem`, `subm`, `nr_user` | the ring pointers and `rb->nr_user`. The ring does not wrap here. |
| `invline` | `lstream[nrb].invalid_line` |
| `writer[w]` | one `__pblk_write_to_cache` call: pc, lba, `nr_entries`, `start_i`, `nr_entries_padding`, the admitted count and `bpos`, `nr_real_entries` |
| `submitter` | the write thread inside `pblk_rb_read_to_bio` |
| `bug` | a `BUG_ON` fired |

| Action | Code |
|---|---|
| `Start` | `pblk_write_to_cache` hands a chunk of at most four sectors, with the padding formula |
| `Phase1` | the first loop under `rb_ctx.lock`. It fills already-reserved slots (`ToRrwb` = `pblk_rb_write_entry_user_to_rrwb`) up to the first lba that is not reserved, and drops four from the padding if all of them were. |
| `Admit` | `pblk_rb_may_write_user(nr_entries_padding)` and `pblk_rl_user_in` (`mem` and `nr_user` grow by the padding), then `goto out` when `start_i == nr_entries` |
| `Phase3` | the second loop under `rb_ctx.lock`. An lba that is not reserved reserves its whole group at `pos_index` (`ReserveFrom`, four `ReservedEntry` = `pblk_rb_reserved_entry`), then fills its slot. After the loop comes the padding check: `pblk_rl_out` and `nr_entries_padding = nr_real_entries`. |
| `Out` | the `out:` label: `nr_user -= nr_entries_padding` if the padding is positive |
| `FetchStart` | the background read of a RESERVED slot's media data, which sets WAITREAD. Its code is not in the repository; it is modelled from the spec. |
| `FetchDone` | `pblk_rb_write_read_data_to_rrwb` |
| `GcFill` | `pblk_rb_gc_data_to_rrwb`, for the branches that change state |
| `SubmitCommit`, `SubmitEntry` | `pblk_submit_write` up to `pblk_rb_read_commit`, then `pblk_rb_read_to_bio` one entry at a time. It waits while the entry is neither WRITTEN nor INVALIDATE, and BUGs if that entry is RESERVED. |

- **Property:** `NoOrphanSlot`: every slot below `mem` has been claimed, or still belongs to a writer whose second loop has not run. An admitted slot that nobody claims keeps `pblk_rb_read_to_bio` busy-waiting forever.

### MC modules

`MC_WriteBuffer.tla`, `MC_WriteBufferFaults.tla`, `MC_GCPipeline.tla`, `MC_GCPipelineFaults.tla`, `MC_F2fsVictim.tla`, `MC_F2fsStream.tla`, `MC_AddressTable.tla` and `MC_Reservation.tla` give the model values (lines as model values, the line-to-stream map, the per-segment mtimes). The writers and values are model values; `MCSymmetry` permutes them in the safety run.

## 3. Runs

| Run | Config | Expect | What it shows |
|---|---|---|---|
| wb_safety | `MC_WriteBuffer.cfg` | pass | `TypeOK`; `BufferRegions` (the pointers stay ordered `l2p_update ≤ sync ≤ subm ≤ mem`, entries the l2p walk reaches are SUBMITTED so `clean_wctx` never spins, no data outside `[l2p_update, mem)`); `SyncedAreCompleted` (sync only passes completed writes, despite reordering); `NoStrandedCompletion` (no parked request starts at `sync`); `ReadYourWrites` (lookup of every lba returns the last host write, through cacheline and media); `RateCounterMatchesBuffer` (user counter plus pending `rl_user_in` equals the ring occupancy from `l2p_update`). |
| wb_liveness | `MC_WriteBuffer_live.cfg` | pass | `RefinesRing` (with the submission margin at 0, which allows every submission the code's margin of 8 allows, so the safety refinement carries over): two writers, the write thread and out-of-order completions implement the abstract FIFO of `RingAbstract`. Admission never reserves past `nr_entries - 1`, each copy fills a reserved empty cell, and `sync` only retires filled cells, oldest first. |
| cmt_safety | `MC_CMTCache.cfg` | pass | `TypeOK` (`alloc_res` never wraps below 0), `AllocResMatches` (`alloc_res` is the total of the entries on `map_list`), and `CacheWithinCapacity` (`alloc_res ≤ max_res`), over all sequences of gets, sets and stream changes. |
| cmt_footprint | `MC_CMTCache_footprint.cfg` | violation | `FootprintMatches`. `pblk_set_lstream` calls `pblk_change_map` before it stores the new `m.lstream`. A SECTOR→BLOCK change caches a phantom entry for a block map that has no log. A SECTOR→PAGE change records `nr_log = 0` for page logs that exist, and a later `pblk_free_log` underflows it. |
| gc_safety | `MC_GCPipeline.cfg` | pass | `TypeOK`; `RefAccounting` (a line's `kref` equals the references its list membership, requests and buffer entries hold); `EraseSafety` (a line is erased only with no valid sectors); `InflightAccounting` (`inflight_gc` counts the lines in the pipeline and stays ≤ `PBLK_GC_L_QD`); `NoBlockReinject` (no request of a BLOCK_MAP line reaches `pblk_write_gc_to_cache`); `GcTargetMatches` (`gc_target` equals the number of closed non-BLOCK lines, so `pblk_gc_should_run` never reads a drifted or negative count). Three lines, user invalidations, no failures. |
| gc_liveness | `MC_GCPipeline_live.cfg` | pass | `GcCompletes`: a line taken for GC is eventually erased. |
| gc_emeta_fail | `MC_GCPipeline_emeta.cfg` | violation | `EraseSafety`: the emeta read failure puts the line back on a gc list and then drops its last reference, so a line with valid data is erased. |
| f2fs_safety | `MC_F2fsVictim.cfg` | pass | `TypeOK`; `FgGreedyMin` (an FG search without a BG victim picks a section of minimum greedy cost over all FG candidates, not just a `max_victim_search` window). GC thread, balance and ioctl calls interleave with writes, invalidations, checkpoints and direct I/O that makes GC skip blocks. |
| f2fs_liveness | `MC_F2fsVictim_live.cfg` | pass | `ScanRotates` (without direct I/O contention): the `last_victim` cursor makes the 1-segment BG window visit every dirty section infinitely often. |
| stream_safety | `MC_F2fsStream.cfg` | pass | `TypeOK`; `GroupAccounting`; `EmaWithinObserved`. Two threads update, truncate and unlink two files of one FILES group (no journal file, so the special-journal merge does not run here), interleaving their ltree and ftree phases, with k-means rounds, eviction, group deletion into a one-entry history, and the restore of a group from it. |
| addr_trans_collapse | `MC_AddressTable_collapse.cfg` | violation | `GetAfterSet`, in 7 steps: a write and its completion put lba 0 on media page (blk 0, pg 1); GC moves put lbas 1-3 on the rest of that page; the segment switches to the PAGE stream and is packed correctly; a GC move of lba 3 reopens the group's log and collapses it again through `pblk_trans_map_set`, which stores the block number 0 as the page. From then on every lba of the group reads page 0. This is a code bug at `pblk.h:2118`. |
| rsv_orphan_slots | `MC_Reservation_orphan.cfg` | violation | `NoOrphanSlot`, in 8 steps. Writers A (lba 0) and B (lba 1) both find group 0 unreserved in their first loop and keep a padding of 4. A admits slots 0-3. A's second loop reserves the group in those slots and fills lba 0. B then admits slots 4-7, finds lba 1 RESERVED in A's slot and fills it, so `nr_real_entries = 0` and its padding drops to 0. Slots 4-7 are past `mem` and are never written, and `out:` skips the `nr_user` decrement, so `nr_user` leaks four. This is a code bug at `pblk-cache.c:274`. (TLC's trace may show the writers' roles swapped.) |

Each property of a passing run has a mutant in `PROJECT.json`: a variant operator defined just before the operator it replaces, written as a plausible slip in that code. The variants are:

- the free space measured from `subm`;
- the end of a completion without the `sentry == sync` test;
- the `compl_list` walk without `goto retry`;
- `clean_wctx` run before `pblk_update_map_dev`;
- `pblk_rl_out` counting calls instead of entries;
- the `max_write_pgs` cap dropped;
- `pblk_delete_cmt` giving back only `map_size`; `pblk_free_log` subtracting a block log twice; `pblk_load_cmt` inserting without evicting first;
- `pblk_rb_read_to_bio` without its busy-wait on WRITTEN_DATA, which retires a cell that was never filled (caught by `RefinesRing`);
- `pblk_gc_run` without its BLOCK_MAP test; the full-list loop decrementing `gc_target` for BLOCK lines too; the prepare work not putting the reference it took, or queueing a request without `down(gc_sem)` (caught by `TypeOK`: `pblk_gc_line_ws` then raises `gc_sem` above its initial count);
- `last_victim` not reduced modulo `MAIN_SEGS`, or not advanced past the window; `max_victim_search` capped for FG too;
- `update_file_valid` without the clamp of a decrease; `update_fgroup_entry_valid` adding to `cold` without the `cold == 1` test; the first EMA taken as the sum of the sampled lifetimes instead of their mean.

TLC finds the property violated for each of them.

### Bounds

- **Ring size:** `N = 4` slots. One slot is always kept empty, so at most three entries are buffered. That allows three outstanding 1-sector requests, the smallest case in which a request is parked behind a parked request; the no-retry mutant needs exactly that.
- **Writers and bios:**
  - The safety run has two writers with bios of 0 to 2 sectors over lbas {0, 1}, and one data value. That covers overlapping writers, multi-sector reservations and copies, flush bios, and two entries of one lba in the ring at once. With one value, `ReadYourWrites` checks that every lookup reaches a written cacheline or media page (never a cleaned slot or an unwritten page), not which of two versions it returns. A second value multiplies the state space by five (3M states), beyond what this run can afford.
  - The liveness runs use one lba and one value, because data does not matter to them.
- **Write batch:** `min_write_pgs = 1` and `max_write_pgs = 2`, so batches of one and two sectors and padding-free splits occur.
- **Rate cap:** `UserMax` is `N`, the budget `pblk_rb_init` passes to `pblk_rl_init`. In the 2-sector safety run it is 5, so that the cap alone never refuses a write. With a cap of `N`, a write can be refused forever; that is listed as a hazard.
- **Submission margin:** the code's margin of 8 is 0 in the passing runs. A margin of 0 allows every submission that 8 allows, so the safety properties and `RefinesRing` carry over to the code, but liveness does not. `MC_WriteBuffer_tail.cfg` keeps the margin of 8. There `AdmittedEventuallySynced` fails: one write is admitted and never submitted (`pblk-write.c:603`). It is a reproduction, not a run.

- **Mapping cache:**
  - Two segments of two page groups, and three streams, one per map type. That gives every type-to-type change and an LRU of two entries.
  - `MapSize = 2` stands in for 4096. The page log is 1, the block log 2, and `max_res = 5`.
  - The largest footprint (4) plus a page log fits in `max_res`, so evictions happen but self-eviction does not. With `max_res = 3`, `pblk_alloc_log` can evict the very entry it grows; that is listed as a hazard.
  - The model assumes `lstream[].log_size` equals the `log_entry_num`/`entry_num` passed to `pblk_alloc_log`, because `pblk-init.c`, which sets them, is not in the repository.
  - CMTCache has no fairness: it is a safety model of sequential bookkeeping.

- **GC pipeline:** three lines of two sectors, two on a data stream (so that its `invalid_line` can shadow one) and one on a BLOCK_MAP stream. With two sectors per line each list holds one valid count, so the greedy comparison is not checked; it would need three sectors, which is too large a state space for the three-line run. The liveness and emeta runs use one line per stream. `PBLK_GC_L_QD = 2` puts two lines in the pipeline at once, and `PBLK_GC_W_QD = 1` with a `gc_sem` of 1 reaches both back-pressure waits.
- **f2fs GC:**
  - The safety runs use six segments in three sections of two segments, and two blocks per segment, so `ofs_unit > 1`, `count_bits` and the section alignment matter. Segment 0 is the current segment. `DioContention` is TRUE in the safety run and FALSE in the liveness run and the reproductions. The safety run has one mount clock value (1, older than some segments' mtimes, so the `max_mtime` widening happens), to stay within the time limit with the trylock branching.
  - `max_victim_search = 1`, so the BG window is smaller than the device, and the rotation and the FG "no window" rule are both visible.
  - The liveness run and `MC_F2fsVictim_atomic.cfg` use four one-segment sections, which keeps `ENABLED` cheap.
  - `ReservedSecs` is 0 in the safety and liveness runs, so BG collects; the `gc_more` loop and the BG-to-FG promotion still happen when no section is free. `MC_F2fsVictim_atomic.cfg` uses 1 and pins segment 1 to an atomic file. There `GcReturns` fails: a non-sync FG call whose cheapest victim holds atomic-file blocks (`move_data_page` skips them) frees nothing and loops back to `gc_more` forever, holding `gc_mutex` (`gc.c:1315`). The cfg is kept as a reproduction of that hazard, not as a run, because the run budget went to `addr_trans_collapse`.
  - `MC_F2fsVictim_range.cfg` moves the open log to segment 2 and gives the range ioctl segment 1. There `OpenLogsUntouched` fails in 3 steps. `get_victim_by_default` accepts the caller's segment after `sec_usage_check` of section 0 only, and `do_garbage_collect` walks segments 1 and 2, so FG GC empties the open log's segment (`gc.c:544`, `gc.c:1154`). It is kept as a reproduction, not a run.
  - Mtimes are fixed per segment (`MCMtime`), and the clock values `MtimeClock` ({1} in the safety run, {1, 4} in the liveness run) widen `max_mtime` or leave it. That makes `age = 0` and the `max == min` cases occur.

- **f2fs stream classifier:**
  - The passing run has two inodes of one warm group, a special journal key, and two threads, with `SYMMETRY` over the threads.
  - File valid counts are bounded by 1 and group counts by 2 (`MCBounds`); the deltas are -1, 0 and 1, so `update_file_valid` clamps a decrease below 0 and zeroes on truncation.
  - `MAX_HISTORY = 1` makes the table fill. Three clusters, `PROFILE_T = 1` and `MaxSeq = 2` let the first and the later EMA branches both run within two k-means rounds.
  - Calls on one inode are serialised (`InodeSerialized = TRUE`). Writeback, truncation and eviction of one inode are serialised by the VFS, not by `stream.c`.
  - `MC_F2fsStream_journal.cfg` uses two journal files of one group. There, `GroupAccounting` fails in 8 steps: `convert_fgroup_to_special_journal` moves the sibling's counters into the special journal but re-points only the unlinked inode. It is kept as a reproduction of the hazard at `stream.c:890`, not as a run.

- **Reservation:** two writers with chunks of 1 to 4 sectors inside one page group, a ring of 16 slots (three groups fit before `mem` would wrap), one media line, and the code's `min_write_pgs = 4`, `max_write_pgs = 8` and submission margin of 8. Two writers of one group is the smallest case of the race. The violation is at depth 9, after about 26,000 distinct states. The run does not check deadlock: the bios are bounded, and every writer ends.
- **Address table:** one page group of four lbas, one cacheline, and media of two blocks of two pages, so that a page number can differ from its block number. There are two streams, a SECTOR_MAP stream 0 and a PAGE_MAP stream 1. The violation needs seven steps and is found after 2 to 3 million distinct states, in about a minute.

### Fairness

Fairness is asserted only where the code guarantees progress.

- Weak fairness on `RlIn`, `CopyEntry` and `Finish`: once admitted, the kernel path runs to its end.
- Weak fairness on `SubmitCommit` and `SubmitTransfer`: `pblk_write_ts` loops while work is available.
- Weak fairness on the device completing some outstanding request. It never holds more than `N - 1` sectors, so no request is starved.
- Strong fairness on `Admit`: a refused writer retries (`io_schedule(); goto retry`) for as long as it is refused.
- No fairness on `Start`: a host need not write.
- GCPipeline: weak fairness on the GC thread, the reader, the prepare work, the line workers, the writer, and the write buffer's reference puts. They are kernel threads and work items that run while they have work. User writes and the GC switches are not forced.
- F2fsStream: none; it is a safety model.
- F2fsVictim: strong fairness on `GcThreadFunc`. The GC thread wakes up again and again and tries `gc_mutex` with `mutex_trylock`; under weak fairness alone, ioctl callers that keep taking the mutex would starve it. Weak fairness on `GcSearch`, `GcCollect` and writeback (kernel code in progress under `gc_mutex`). The liveness run assumes no direct I/O holds `dio_rwsem` against GC, because the code does not bound that. No fairness on user writes, invalidations, balance or ioctl calls.

## 4. Not modelled (yet), and why

- PAGE_MAP streams beyond one group: Reservation has no ring wrap, no sync or l2p update of reserved entries, no second group, and no media invalidation (`pblk_map_invalidate`). Chunks that cross a group boundary are also left out. The background fetch that sets WAITREAD is outside the repository, and its timing is unknown. So no passing run of Reservation is made: without a fetch, the write thread may reach a RESERVED entry and BUG. `Admit` always succeeds when the ring has room: the rate limiter's refusal and the NVM_IO_ERR exit are left out, because both only make a writer leave before it reserves anything. `ReservedEntry` gives an empty entry the line `NoLine`, for the `invalid_line` the code leaves unset.
- GC entries in the write buffer itself: GCPipeline stops at `pblk_write_gc_to_cache` and does not compose with WriteBuffer yet.
- f2fs: SSR allocation (`alloc_mode == SSR`), node segments (`gc_node_segment`), `cur_victim_sec`, the delayed and stream cost-benefit variants (`F2FS_GC_DELAYED`, `STREAM_GC_*`, `set_age_for_stream_gc`, `find_kmeans_num`), and the sleep-time tuning of `gc_thread_func`. Segment bookkeeping that lives in `segment.c` (not in the repository) is modelled from the spec: free/prefree/dirty accounting, `has_not_enough_free_secs`, `sec_usage_check`.
- `pblk_rb_sync_point_set` and `pblk_rb_flush`: their callers are outside the repository. Under MULTIMAP no path in the repository sets a sync point.
- Line and LUN allocation (`pblk_map_rq`, `pblk_alloc_page`) and the free-block early return of `pblk_submit_write`. That return changes no state, so in the model it is stuttering.
- Metadata writes (`pblk_submit_meta_io`).
- Address-table values of BLOCK_MAP segments (`pblk_empty_map_set` and the 16-entry block log), and the PAGE→SECTOR change of `pblk_set_lstream`, which rewrites RESERVED/WAITREAD cacheline entries to `w_ctx->ppa`. Both depend on the write-buffer state of PAGE_MAP streams, which is not modelled.
- sysfs and debugfs reporting, the path and dentry walk of the f2fs classifier (string handling), its per-page lifetime sampling (`update_sample_lifetime`, `reset_sample_lifetime`), `update_file_type`, `update_cluster` and `get_pstream`, and the trace-replay tool.

## 5. Plan

The modules below are listed in order; the most important behaviour comes first.

1. **WriteBuffer and WriteBufferFaults.** Done: the ring, user admission, submission and completion.
2. **RingAbstract.** Done: the bounded FIFO that the region `[sync, mem)` refines (run `wb_liveness`).
3. **CMTCache** (`pblk-dftl.c` and the `pblk.h` calls into it). Done: runs `cmt_safety` and `cmt_footprint`.
4. **GCPipeline** (`pblk-gc.c`). Done: runs `gc_safety`, `gc_liveness` and `gc_emeta_fail`; failure exits in GCPipelineFaults. Lines with `kref`, the states CLOSED/GC/FREE, `gc_run` with the zero-valid fast path, the reader and `gc_sem`, `w_list` bounded by `PBLK_GC_W_QD`, the writer, and the failure exits. Properties:
   - a line is freed only when its reference count is zero and it has no valid sectors;
   - no line is in two queues;
   - `inflight_gc` equals the lines in the pipeline;
   - `gc_target` stays non-negative.
5. **AddressTable** (`pblk.h`). Done for SECTOR and PAGE segments: run `addr_trans_collapse` (`GetAfterSet`). Next: BLOCK_MAP values and the PAGE→SECTOR change. A passing run of `GetAfterSet` needs a fix at line 2118.
6. **Reservation** (PAGE_MAP stream). Done for one group: run `rsv_orphan_slots` (`NoOrphanSlot`). Next: a second group with ring wrap, and the spec's one-owner rule (`pblk_rb_reserved_entry` leaves an old WRITTEN entry of the lba un-invalidated; the code that did it is commented out).
7. **MultiStream.** Two WriteBuffer instances sharing the l2p table, and a GC stream. Property: no duplicate ownership of an lba across streams.
8. **F2fsVictim.** Done for the default build: runs `f2fs_safety` and `f2fs_liveness`; the atomic-file livelock is reproduced by `MC_F2fsVictim_atomic.cfg`. 
9. **F2fsStream.** Done: run `stream_safety`. Next: the per-page sampling of `update_sample_lifetime`, and a run of the journal sibling split once the run budget allows.
