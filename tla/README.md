# TLA+ models of BusTub (CMU 15-445/645)

This directory holds TLA+ specifications of the storage and execution layers
under `src/`. They are checked with TLC. Every module is translated from the
C++ source. `PROJECT.json` maps each definition to the lines it models, and
also lists the runs, the variant operators each property must catch, the
findings and the hazards.

## 1. The system

| Part | Source | State it keeps | Operations |
|---|---|---|---|
| Disk scheduler | `storage/disk/disk_scheduler.cpp`, `unnamed/part_006` | `request_queue_` (a Channel), the worker thread | `Schedule`, worker loop, destructor (sentinel + join) |
| LRU-K replacer | `unnamed/part_005` (header), implementation appended to `buffer/buffer_pool_manager.cpp` (lines 289-478) | `recorded_cnt_`, `time_frame_`, `evictable_`, `new_frame_`, `cache_frame_`, `curr_size_`, `max_size_`, `current_timestamp_`, `latch_` | `Evict`, `RecordAccess`, `SetEvictable`, `Remove`, `Size` |
| Buffer pool manager | `buffer/buffer_pool_manager.cpp` (1-288), `include/buffer/buffer_pool_manager.h` | `pages_` (page id, pin count, dirty flag, data, rwlatch per frame), `page_table_`, `free_list_`, `next_page_id_`, `replacer_`, `latch_` | `NewPage`, `FetchPage`, `UnpinPage`, `FlushPage`, `FlushAllPages`, `DeletePage`, `Fetch{Basic,Read,Write}`, `NewPageGuarded` |
| Page guards | `unnamed/part_008` | `bpm_`, `page_`, `is_dirty_` | `Drop`, moves, `UpgradeRead`, `UpgradeWrite` |
| Copy-on-write trie | `primer/trie.cpp`, `include/primer/trie.h` | immutable nodes shared between versions | `Get`, `Put`, `Remove` |
| Trie store | `primer/trie_store.cpp`, `unnamed/part_003` | `root_`, `root_lock_`, `write_lock_` | `Get` (returns a ValueGuard), `Put`, `Remove` |
| Extendible hash index | `container/disk/hash/disk_extendible_hash_table.cpp`, `unnamed/part_007` (directory page), `unnamed/part_009` (header page), `storage/page/extendible_htable_bucket_page.cpp` | header, directory and bucket pages held in the buffer pool | `GetValue`, `Insert` (grow, split, retry), `Remove` (merge, shrink) |
| Executors | `execution/*.cpp`, `unnamed/part_000` (update), `part_001` (delete), `part_002` (projection), `aggregation_executor.h` | per-executor cursors, the aggregation hash table, the TopN heap | `Init`, `Next` |
| Optimizer rules | `optimizer/sort_limit_as_topn.cpp` (also holds the NLJ→HashJoin rule), `optimizer/seqscan_as_indexscan.cpp` | none (pure rewrites) | rewrite of a plan tree, whose answer the executors then compute |

**How the parts interact.**
- The buffer pool owns one replacer and one disk scheduler.
- Every public buffer pool method holds the pool mutex `latch_` from start to end. That covers its replacer calls and its disk requests: it calls `Schedule` and then waits on `future.get()` while still holding the mutex. So a buffer pool call is one atomic step.
- Page guards call `FetchPage`/`NewPage` and then take the page's reader/writer latch, outside `latch_`. `Drop` releases the latch first and only then calls `UnpinPage`.
- The hash index reaches every page it uses (header, directory, bucket) through guards of the buffer pool.
- Executors use the catalog, the table heap and the indexes, which are external here.

**What is hard, per part.**
- *Replacer:*
  - the two lists must stay in step with the access history over long call sequences;
  - `curr_size_`/`max_size_` bookkeeping;
  - a nested `Evict` under the replacer's own mutex.
- *Buffer pool:*
  - concurrent threads interleaving guard acquisition, writes, latch release and unpin;
  - eviction of dirty frames;
  - pin counts and evictability kept in step with the replacer;
  - reuse of frames through the free list after `DeletePage`.
- *Disk scheduler:* FIFO order, and the drain at shutdown.
- *Hash index:*
  - directory growth and bucket split when local depth < global depth;
  - merge and shrink after `Remove`;
  - the duplicate check made before the write latches are taken.
- *Trie:* the path clone, the copy of a replaced node's children, and pruning up to the root after `Remove`.
- *Trie store:* snapshots read while writers publish new roots.
- *Executors:*
  - DML statements that scan the table they change (the rid snapshot);
  - index entries moved in step with the rows;
  - the empty-input aggregation row, and NULL group-by values;
  - the bounded heap of TopN and its comparator.

## 2. Modules

| Module | Models | State ↔ code | Actions ↔ code |
|---|---|---|---|
| `LRUKReplacer` | the replacer as pure operators | one record `rep` whose fields are the replacer's members; the two lists are sequences, `cache_frame_` entries are `<<frame, k-th timestamp>>` | `Evict(r)`, `RecordAccess(r, f)`, `SetEvictable(r, f, b)`, `Remove(r, f)` map a replacer state to the next one; `RecordAccessHangs(r, f)` is the condition under which `RecordAccess` re-locks `latch_` |
| `LRUKReplacerCalls` | the replacer called on its own, one call per step (every method holds `latch_`) | `rep`, `hung` (a thread blocked on a mutex it owns), ghost `hist` (all access timestamps since a frame was last evicted or removed) | `RecordAccessStep`, `SetEvictableStep`, `EvictStep`, `RemoveStep`; a reference LRU-K definition (`IsLRUKVictim`) computed from `hist` |
| `BufferPool` | the buffer pool with page guards used by concurrent threads; composes `LRUKReplacer` through `INSTANCE` | `pageId`, `pinCount`, `isDirty`, `data` per frame (data is a version number); `pageTable`, `freeList` (back = `Last`), `nextPageId`, `rep`, `disk`; page latches `readers`/`writer`; per thread `pc`, `gframe` (the guard's `page_`), `gdirty` (the guard's `is_dirty_`); ghosts `gpage`, `latest` (last version written per page), `deleted` | one action per BPM call, atomic under `latch_`; the guard steps `RLatch`/`WLatch` (blocking), `WriteData` (`AsMut` under the write latch), `RUnlatch`/`WUnlatch` then `GuardUnpin` (the two halves of `Drop`), `UpgradeRead`/`UpgradeWrite`; `FetchPageNull`/`NewPageNull` (free list empty and `Evict` fails: `nullptr`, pc `"null"`) and `NullGuardDrop` (a guard around `nullptr` drops without unlatch or unpin) |
| `HashIndex` | the extendible hash table with its header, directory and bucket pages, used by concurrent threads | one record `ht`: `hdr` (`directory_page_ids_`), `dir` (per directory page: `global_depth_`, `local_depths_`, `bucket_page_ids_`), `bkt` (per bucket page: its entries, `size_` = length), `next` (the buffer pool's next page id); per thread `pc`, `arg` (the Insert in progress), `ret` (last result) | `InsertGetValue` (Insert's duplicate check, and each recursive call's), `InsertWrite` (one pass of Insert under the write latches: new directory, new bucket, plain insert, refusal, or grow/split ending in the recursive call), `Remove` (bucket remove, merge loop, shrink), `GetValueCall`; page operations are operators named after the page methods, the header's included (`HeaderInit`, `GetDirectoryPageId`, `SetDirectoryPageId`, `HeaderMaxSize`, with their out-of-range checks) |
| `KVMap` | what an index promises: a map with unique keys | `kv`, `ret` | `Put`, `Refuse`, `Delete`, `DeleteAbsent`, `Get`; `HashIndex` maps `kv` to what `GetValue` finds for every key (`Contents`) |
| `Trie` | the copy-on-write trie as pure recursive operators | a node is a record `[ch, val]`: `ch` is `children_` (char → node), `val` the value or `NoValue` for a plain `TrieNode`; `Null` is an empty `shared_ptr`. A TLA+ value cannot change, which is exactly the guarantee a published node has | `Get(root, key, T)` (walk, then the `dynamic_cast` to the value type), `Put(root, key, v)` (`PutPath`: the loop over `key_head` and the last step, and the `'\0'` branch), `Remove(root, key)` (`RemoveAt`: demote or erase, then the pruning loop) |
| `TrieCalls` | a caller that replaces its trie handle by each result | `root`, the reference map `ref`, `last` (key of the latest call) | `CallPut`, `CallRemove` |
| `TrieStore` | the store used by concurrent threads | `root` (`root_`), `wlock` (`write_lock_` holder), per thread `pc`, `op` (the call), `snap` (its local copy of `root_`), `ret` | `GetSnapshot` (copy under `root_lock_`), `GetReturn` (walk the copy), `WriteLock`, `WriteSnapshot`, `WritePublish` (build from the copy, swap `root_` under `root_lock_`, release `write_lock_`) |
| `TrieKV` | what the store promises: an atomic typed map | `kv`, `ret` | `StorePut`, `StoreRemove`, `StoreGet`; `TrieStore` maps `kv` to the trie's contents and a Get's result to its answer at the instant it copied `root_` |
| `Executors` | one table with an index on column `k`, changed by DML statements and read by TopN and Aggregation | `heap` (the TableHeap: rid → `[tup, deleted]`), `index` (a set of `<<key, rid>>`), `count` (the count the last statement returned), `last` (the last statement) | `InsertValues`, `InsertSelect`, `Delete`, `Update`: each runs its executor over a SeqScan of the table (`DmlLoop`: rids snapshot at Init, each row read when reached, deleted and filtered rows skipped) in one step; the aggregation is `AggregationInit`/`AggregationOutput` over `InsertCombine`, `CombineAggregateValues` and `AggregateKey` equality (`KeyEq`), an undefined-behaviour outcome being the model value `UB` |
| `TopN` | the TopN executor as operators | the `std::priority_queue` is a sequence with libstdc++'s `__push_heap`/`__adjust_heap`/`pop_heap` (`PushUp`, `SiftDown`, `AdjustHeap`), so the order produced under the code's comparator is the one the build produces | `PqFill` (push, pop when above N), `Drain`, `TopNOutput` (read backwards) |
| `Optimizer` | the three rewrite rules over plan trees, and the answers of plans over `Executors`' table (extends `Executors`) | a plan node is a record built by `PlanNode` (`AbstractPlanNode`: its `PlanType` and `ch` = `children_`) with the node's own fields, an expression a record `col` (tuple index, column), `const`, or an `ExprNode` (`AbstractExpression`) `cmp` or `logic`; predicates evaluate to a `CmpBool` (`EvaluateExpr`, with `LogicExpression::PerformComputation`'s three-valued AND/OR) and keep a row when it is `CmpTrue`; a thrown `std::bad_cast` is the value `BadCast`, a null `pred_key` is `NoKey` | `OptimizeSortLimitAsTopN`, `ParseAndExpression` (`ComparisonKeys` per comparison) with `OptimizeNLJAsHashJoin`, `OptimizeSeqScanAsIndexScan`, each recursing through `CloneWithChildren`; `Eval` gives a plan's rows: SeqScan, IndexScan, NestedLoopJoin, HashJoin, Sort and Limit from spec 4.7-4.8 (their executors are not under `src/`), TopN by the `TopN` module, Projection by `ProjectRow` (`ProjectionExecutor::Next`, `part_002`) and Aggregation by `Executors`' `AggregationOutput` |
| `DiskScheduler` | the scheduler with its worker thread and destructor | `queue` (`request_queue_`), `disk`, caller buffers, the futures callers wait on, worker and destructor state, ghost `issued` | `Schedule`, `AwaitFuture`, `WorkerStep` (one loop iteration: Get, run, `set_value`), `DestructorPut`, `DestructorJoin` |

Each mutation variant operator (commented `Variant:`) sits just before the
definition it replaces. It is never used by the specification itself. It is
the form of a plausible bug in that code, and the property its `mutants`
entry names must catch it.

## 3. Runs

| Run | Cfg | Expect | What it shows |
|---|---|---|---|
| `lru_pass` | `MCLRUKReplacer.cfg` | pass | `CurrSizeCountsEvictable`: `curr_size_` always equals the number of tracked evictable frames. `ListsMirrorHistory`: `new_frame_` holds exactly the frames with fewer than k accesses, ordered by first access; `cache_frame_` holds the rest, sorted by k-th most recent access; the kept timestamps are the last min(cnt, k) accesses. `EvictChoosesLargestKDistance` (action property): every `Evict` removes a victim that the reference LRU-K definition over the full history allows. |
| `bpm_pass` | `MCBufferPool.cfg` | pass | `PageTableConsistent`: page table, frame page ids and free list agree; no frame is free twice or free while holding a page. `GuardedPageStaysResident`: while a guard is held, its frame holds its page with a positive pin count. `NoLostWrite`: every live page's newest version is in its frame if resident, and on disk otherwise. `ReplacerNeverBlocks`: the buffer pool never drives the replacer into its self-deadlock. `ReplacerTracksPins`: the replacer tracks exactly the frames holding a page, each evictable exactly when its pin count is 0, so `DeletePage`'s `replacer_->Remove` (line 248, after `page_table_` and `free_list_` were changed) never meets a non-evictable frame and throws. `PinsMatchGuards`: each frame's pin count equals the number of guards held on it, so no pin leaks and none is dropped twice. `NullOnlyWhenExhausted` (action property): a thread gets `nullptr` from `FetchPage`/`NewPage` only when every frame is held by another thread's guard. |
| `hash_pass` | `MCHashIndex.cfg` | pass | `ImplementsKVMap`: inserts and lookups by two threads, with every split, directory doubling and duplicate race, refine `KVMap`: no key is lost or duplicated, and `true`/`false` results are those of a map. |
| `hash_remove_pass` | `MCHashIndex_remove.cfg` | pass | Over a header of depth 1 (two directories). `DirectorySlotsValid`: after any inserts, merges and shrinks, every slot below 2^gd points to a bucket page with local depth ≤ global depth. `RemoveOnlyRemoves`: `Remove(k)` returns whether `GetValue` found k, leaves k absent and never makes a key appear or change value. |
| `hash_lost` | `MCHashIndex_lost.cfg` | violation | `ImplementsKVMap` fails: insert k1 (hash 0), insert k2 (hash 1, split), remove k1: the merge lowers local depths without repointing slots, the shrink keeps slot 0 → k1's empty page, and k2 is gone. |
| `hash_integrity` | `MCHashIndex_integrity.cfg` | violation | `DirectoryIntegrity` fails: an insert into slot 3 whose bucket (shared with slot 1, local depth 1) is full at global depth 2 raises only slot 3's local depth and puts the new page at slot 5, outside the directory. |
| `trie_pass` | `MCTrieCalls.cfg` | pass | `TrieMatchesMap`: after any Puts and Removes, `Get<T>` of every key and type answers as the map does (the value last put if its type is T). `NoUselessNodes`: every reachable node holds a value or has a child, the root included. |
| `triestore_pass` | `MCTrieStore.cfg` | pass | `ImplementsTrieKV`: two threads calling Get, Put and Remove in any interleaving refine `TrieKV`; each write takes effect when it publishes, each Get when it copies `root_`. |
| `exec_pass` | `MCExecutors.cfg` | pass | `IndexMatchesTable`: after any statements the index holds exactly `<<k, rid>>` of each live row. `StatementMatchesSnapshot` (action property): each INSERT ... SELECT, DELETE and UPDATE acts once on each row matching its filter when it started and returns their number, though its scan reads rows the statement has just appended or marked deleted. `TopNSorted`: TopN(N) ordered by `k` (ascending, descending) returns min(N, rows) rows, in order, leaving out no row that sorts before one it returns, for every N. `AggregationMatchesGroups`: COUNT(*), COUNT, SUM, MIN, MAX of `n`, without GROUP BY and with GROUP BY `k`, equal their SQL definitions, including the one row for an empty table. `OptimizerKeepsAnswers`: for every query of `MCQueries` (LIMIT 1 or 2 over ORDER BY `k` either way; scans filtered by `k = 1`, `n = 1`, `k < 2` and `k = 1 AND n = 2`; self-joins on `t1.k = t2.k`, `t2.k = t1.n`, `t1.k = t2.n AND t2.k = t1.n`, and one whose left input is `WHERE k = 2`; `k = 1 OR n = 1`, which is NULL for a row with `k` = 2 and `n` NULL; a projection of a join in swapped column order; GROUP BY over the projection of a join whose left input is `WHERE k = 1`, so all three rules rewrite it), the optimized plan runs without throwing and returns the same rows (for LIMIT over ORDER BY, a correct top-N; for the aggregation, the same groups) in every reachable table state. |
| `nlj_nonequi` | `MCExecutors_nlj.cfg` | violation | `OptimizerKeepsAnswers` fails for a self-join on `t1.k < t2.k`: over one row with `k` = 1 the NLJ returns no row and the HashJoin the rule puts in its place returns one. |
| `agg_null` | `MCExecutors_agg_null.cfg` | violation | `AggregationMatchesGroups` fails for GROUP BY `n` on a single row with `n` NULL: `InsertCombine` reaches `CombineAggregateValues` on an empty aggregate vector (`UB`). |
| `disk_pass` | `MCDiskScheduler.cfg` | pass | `RunInScheduleOrder`: completed requests are a prefix of the schedule order, and the disk holds the last completed write. `JoinAfterDrain`: the destructor's join returns only after every earlier request ran. `EveryRequestCompletes` (liveness): every waiting caller's future is eventually fulfilled. |

**Bounds and why they are enough.**
- *`MCLRUKReplacer`:*
  - 3 frames, k = 2, at most 7 accesses;
  - that is enough for frames in both lists, a frame re-ranked after its third access, and ties between +inf frames.
- *`MCBufferPool`:*
  - 3 threads, a 2-frame pool, 3 pages, k = 2, at most 5 replacer accesses, versions 0..1;
  - two threads can pin both frames while the third calls `FetchPage` or `NewPage`, so both return `nullptr`;
  - a third page forces eviction of a dirty frame;
  - two guards can share one page;
  - symmetry over the three threads (about 1.5M states, 80 s).
- *`MCHashIndex`:*
  - four keys with 2-bit hashes 0..3, one value, header depth 0 (one directory), directory max depth 2, one entry per bucket, at most 8 page ids;
  - one-entry buckets make every second key in a slot split it, so two keys reach global depth 1 and three reach 2, and the 4th key reaches the split below global depth and the max-depth refusal;
  - `hash_pass` runs two threads with symmetry over them;
  - the remove run uses one thread, 3-bit hashes and a header of depth 1: k1, k2, k3 (hashes 0, 1, 2) share directory 0, enough for merges at depth 2 and 1 and shrinking, and k4 (hash 4) takes directory 1, so `InsertToNewDirectory` and `SetDirectoryPageId` run on a second header slot while the first directory is in use;
  - `MaxPages` caps the page ids; a write pass that would need a page past it is not taken, which is why these cfgs turn the deadlock check off (the real system has no such stop, and idle threads can always call `GetValue`).
- *`MCTrieCalls`:*
  - two characters, every key of length ≤ 2 (7 keys, the empty one included), two values of two C++ types;
  - that covers a value at the root, a value node with children (demoted, not erased, by `Remove`), pruning of a plain parent and of the root, a Put through a plain node, and `Get<T>` with the wrong type.
- *`MCTrieStore`:*
  - 2 threads, the keys `""` and `"a"`, two values of two types;
  - a value at the root with a child under it is the smallest trie where a Remove demotes instead of erasing; a second character took more than 2 minutes and adds no interleaving.
- *`MCExecutors`:*
  - `k` ∈ {1, 2}, `n` ∈ {1, 2, NULL}, filters `k = c` or none, `SET k = c` and `SET n = c` (NULL included), at most 3 rows in the heap (deleted ones included);
  - 3 rows are enough for a statement whose scan meets rows it appended or deleted itself, for a heap of 3 in TopN (a pop that sifts down past a child) and for N from 0 to beyond the row count, and for groups with and without NULLs;
  - a statement that would grow the heap past 3 rows is not taken; DELETE is always possible, so there is no deadlock.
  - the optimizer queries are checked in every one of the 14,416 table states: joins see tables with duplicate keys, NULL `n` and deleted rows, and each query shape (operand swap, conjunction, rewritten child under a join) occurs once.
- *`MCDiskScheduler`:*
  - 2 callers, 1 page, 2 values, 3 requests;
  - enough for two writes from different callers with a read between them, and for requests still queued when the sentinel is put.

**Fairness.**
- `DiskScheduler` assumes weak fairness of the worker step, of each caller's `future.get()` and of the destructor's join. These are OS threads that stay runnable while their condition holds.
- Schedule calls, buffer changes and the destructor itself are not forced to happen.
- The trie runs check safety only: a thread blocked on `write_lock_` has no fairness guarantee from `std::mutex`.
- The executor run checks safety only, and each statement is one step: the engine pulls a statement's executor tree on one thread, and nothing in `src/` runs two statements on one table at once (there is no lock manager).
- The buffer pool runs check safety only. `std::shared_mutex` gives no fairness between readers and writers, so no liveness is claimed for latch acquisition.

## 4. Findings

1. **Remove loses keys** (`disk_extendible_hash_table.cpp:373`, run `hash_lost`).
   - The merge loop passes mask 0 to `UpdateDirectoryMapping`, which then only rewrites local depths; no slot is repointed to the surviving bucket.
   - `CanShrink` then sees every local depth below the global depth and halves the directory, dropping the only slot that pointed to the non-empty bucket.
   - The merged "deleted" page is not freed either: `DeletePage` is called while `check_guard`/`merge_guard` pins it, so it returns false.
2. **Split below the global depth breaks the directory** (`:216-217`, `SplitBucket` `:112-115`, run `hash_integrity`).
   - Only slot `bucket_index` and slot `bucket_index + 2^gd` (outside the directory) get the new local depth; the other slots of the bucket keep the old one.
   - The new page goes to `bucket_index + 2^(gd-1)`, outside the directory when `bucket_index ≥ 2^(gd-1)`; no entry moves to it and it leaks.
   - Visible effect: an Insert of a separable key returns false once the mis-set slot claims the maximal depth (line 203).
3. **Every nested-loop join becomes a hash join** (`sort_limit_as_topn.cpp:44-107`, run `nlj_nonequi`).
   - `OptimizeNLJAsHashJoin` does not look at the predicate before rewriting; `ParseAndExpression` descends into any logic node (OR too) and turns any comparison (`<` too) into a key pair.
   - `t1.k < t2.k` is thus answered as `t1.k = t2.k`, and `t1.k = t2.k OR t1.n = t2.n` as their conjunction. Spec 4.8 (and the code's own comment at lines 77-78) limits the rule to AND trees of `=`.
   - Within that limit the rule is right, including the operand swap for `t2.k = t1.n` (`OptimizerKeepsAnswers` holds in `exec_pass`).
4. **TopN misorders rows when an order-by value is NULL** (`topn_executor.cpp:16-33`; reproduced with `OrderBys <- MCOrderByN` and `INVARIANT TopNSorted` in a copy of `MCExecutors.cfg`).
   - The comparator returns true for tuples equal on all order-by columns, and a NULL compares neither less nor greater, so a NULL row is "equal" to every row.
   - That is not the strict weak order `std::priority_queue` needs: with `n` = 1, NULL, 2 and ORDER BY `n` DESC, the libstdc++ heap yields 1, NULL, 2.
   - Without NULLs the output is right (`TopNSorted` holds in `exec_pass`), ties included.
5. **GROUP BY a NULL value indexes an empty vector** (`aggregation_executor.h:159-164`, `part_004:417-424`, run `agg_null`).
   - `AggregateKey::operator==` needs `CompareEquals == CmpTrue`, which NULL never gives, so `InsertCombine` does not find a NULL key even right after inserting it.
   - `ht_[agg_key]` then inserts a default `AggregateValue` whose `aggregates_` is empty, and `CombineAggregateValues` writes `aggregates_[i]` past its end: undefined behaviour, in practice a crash, on the first row with a NULL group-by value.
   - SQL puts all NULLs of a group-by column in one group; spec 4.7 keys the table by the group-by tuple.

**Also observed, not among the checked runs** (the run list is kept to the questions above; each is reproducible with a one-line cfg or query change):
- `OptimizeSeqScanAsIndexScan` casts the comparison's child 0 with a reference `dynamic_cast` (`seqscan_as_indexscan.cpp:85`, likewise `sort_limit_as_topn.cpp:61`): `WHERE 1 = k` throws `std::bad_cast`. Replacing a scan query of `MCQueries` by `SeqScanPlan(Cmp("=", Const(1), L("k")))` makes `OptimizerKeepsAnswers` fail in the initial state.
- For `WHERE k = n` the rule builds an IndexScan with a null `pred_key` (line 96-98), which the IndexScan executor (not under `src/`) would dereference; the same query change with `Cmp("=", L("k"), L("n"))` makes `OptimizerKeepsAnswers` fail.
- The TopN built by `OptimizeSortLimitAsTopN` has the Sort node as its child (line 24: `children_[0]` of the Limit), not the Sort's child as spec 4.8 and scenario 5 say. The answer is the same (the TopN is fed sorted rows), only the sort is not saved.
- `LRUKReplacer::RecordAccess` calls `Evict` under its own `latch_` when a new frame arrives with `curr_size_ == max_size_` (`buffer_pool_manager.cpp:369-372`); the range check at line 357 accepts `frame_id == replacer_size_`, so a direct caller with one frame too many reaches `hung = TRUE` in `LRUKReplacerCalls` (set `Accessed <- MCAllFrames` in `MCLRUKReplacer.cfg`). The buffer pool never gets there: `ReplacerNeverBlocks` holds in `bpm_pass`.
- A trie key ending in `'\0'` is taken for the empty key (`trie.cpp:59,101-104`): with `Chars = {a, NulChar}` in `MCTrieCalls.cfg`, `TrieMatchesMap` fails after `Put("\0", v)` stores v at the root.
- Two concurrent Inserts of one hash-index key both pass the `GetValue` check made before any write latch (`disk_extendible_hash_table.cpp:160`); the second takes the duplicate for a full bucket and grows the directory before returning false. Results stay right (`ImplementsKVMap` holds in `hash_pass`); the cost is space.

## 5. Plan (in order of importance)

1. Done: `LRUKReplacer`, `LRUKReplacerCalls`, `BufferPool`, `DiskScheduler`, `HashIndex` + `KVMap`, `Trie` + `TrieCalls`, `TrieStore` + `TrieKV`, `Executors` + `TopN`, `Optimizer`.
2. `HashIndex` additions: buckets of two entries, and a property on leaked pages (merged pages are never freed because `DeletePage` is called while the page is pinned). Such a property needs a run without the lost-key bug of finding 1: the page that loses the keys is the unreachable one.
3. Buffer pool addition: raw `UnpinPage` calls (dirty flag set on a refused unpin).

## 6. Not modelled

- A separate run for `RecordAccess` making a new frame evictable (`buffer_pool_manager.cpp:374`; spec 4.2 says non-evictable): the model does this as the code does, the buffer pool masks it with `SetEvictable(false)` in the same critical section, and `GuardedPageStaysResident` covers the only place it matters.
- Structural sharing between trie versions (spec 8): `Trie` is a value, so whether Put copies or shares the nodes off its path cannot be told apart; with value semantics, a property that nodes off the path are unchanged would follow from `TrieMatchesMap` and `NoUselessNodes`.
- Page contents byte by byte: a write is one atomic version, so torn copies made by `FlushPage` without the page latch cannot be expressed.
- I/O errors: the code never reports them; `set_value(true)` is unconditional.
- Guard move construction and move assignment: these transfer ownership within one thread.
- Buffer pool exhaustion under the hash index: `BufferPool` models the `nullptr` results and the empty guard, but `HashIndex` assumes a frame is always available. The hash table dereferences an empty guard, and `SplitBucket` reads an uninitialised page id; with its own pool, that composition is beyond TLC's reach at bounds where splits happen.
- Catalog, table heap, schema and column headers, `ExecutorContext`: external interfaces; of the plan and expression headers, the parts the optimizer and executors act on are in `Optimizer`. `InsertTuple` is taken to always succeed (its `.value()` is unchecked), NULL comparison follows BusTub's type system (any comparison with NULL is `CmpNull`), and SUM overflow is out of reach of the small values used.
- What a NULL predicate does in `SeqScanExecutor::Next` (`GetAs<bool>()` of a NULL boolean, `seq_scan_executor.cpp:52`): `Value` is not under `src/`; the models reject the row, as SQL does.
- A second `Init` of the aggregation executor (its hash table is not cleared): nothing under `src/` re-initialises a child executor.
- `transaction.h`: declarations only.

What remains outside the models is of three kinds:
- code whose behaviour is defined outside `src/`: `Value`, `TableHeap`, `Catalog`, the binder;
- data-level detail that no property here tells apart: byte-level page contents, schema and column layout;
- compositions too large for TLC at bounds where their cases happen: the hash index over its own bounded buffer pool.

The PageGuards, Executors and catalog/plan components therefore stay "partly" modelled.
