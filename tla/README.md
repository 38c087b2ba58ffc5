# A TLA+ model of NALI

NALI is a key-value store for machines with several NUMA nodes and persistent
memory.  A DRAM index maps a key to the address of a log entry; log entries live
in persistent page files, one growing list of files per (NUMA node, hash shard);
a CLHT hash table caches values in front of both.  This directory holds TLA+
modules of the store's own core logic, TLC configurations that check them on
small instances, and TLAPS proofs for every size.

Paths below are relative to the repository.  `PROJECT.json` lists components,
runs, findings, hazards and theorems, and maps every definition to source lines.

## Inventory

| component | source | state | operations | hard parts | what makes it correct |
| --- | --- | --- | --- | --- | --- |
| log allocator | `src/nali_kvlog.h` 29-430, `include/util/rwlock.h` | per shard a `ppage_header` (page id, tail, latch) and the newest page's address; the global page table; the page files; version counters | `PPage::alloc`, `alloc_new_ppage`, `get_addr`, `store_persist` | threads racing for a page that is filling up; page id and table read outside the latch; an unchecked table index | no byte handed out twice; a returned address reads back; older pages are published |
| key-value layer | `include/logdb.h` | index, log, cache, per-thread get counter | `insert`, `update`, `erase`, `search`, `bulk_load`, scans | every operation is several calls with no lock around them | the index names a log of the key; a get returns a value the key had |
| log collector | `src/nali_kvlog.h` 608-786 | TRASH marks, freed space per page | `background_gc`, `do_gc` (two passes) | walks chains that foreground threads extend; no lock | nothing live is marked; counts exact; walks end; values unchanged |
| log recovery | `src/nali_kvlog.h` 430-607 | page files (persistent); everything else rebuilt | `recovery_logkv`, `set_page_start_addr`, `loadfiles` | crash at any step of an insert or of page creation | what was acknowledged comes back; nothing else does; the tail is behind the logs |
| CLHT cache | `src/clht/clht_lb_res.cc`, `include/clht/clht_lb_res.h` | buckets with a lock and three entries, overflow chain, resize lock | get, put, remove, resize, status | lock-free readers; resize moving buckets under writers | a key is found once; no entry lost in a resize |
| CLHT memory | `src/clht/clht_gc.cc`, `src/clht/ssmem.cc` | lists of old tables, timestamps, free sets | registration of a thread, version list, release | reuse of memory a reader still uses; threads that did not register | nothing freed in use |
| Nali index | `src/nali.h`, `src/nali_entry.h` | groups with learned models, entries with buckets, expansion flag, group locks | Put, Get, Update, Delete, Scan, `ExpandTree`, bucket split | expansion racing operations that wait on a condition variable; split points | no key lost in a split or an expansion; waiting threads wake up |
| learned models | `src/rmi_model.h`, `src/piecewise_linear_model.h` | coefficients | train, predict | floating point | a predicted position is within the error bound |
| locks | `include/util/rwlock.h`, `src/nali_concurrency.h` | latch words | WLock, RLock, OptLock | reader counts in an `int8_t` | exclusion |
| thread pool and scans | `include/thread_pool.h`, `include/logdb.h` 166-181, 350-415 | a queue, a mutex and a condition variable per worker, busy bits per pool; a counter in the scanner's frame | `execute`, `routine`, `~Worker`, `range_scan_by_size`, `scan_help` | lost wake-ups; busy bits read without a lock; tasks that point into a frame | every position filled once before the scan returns; scans end; pools stop |
| alternative caches | `include/logdb.h`, `include/new_cache.h` | LRU lists per shard | get, put | eviction at the limit | map and list agree |
| ring | `include/util/rte_ring.h` | two pairs of head and tail | enqueue, dequeue | multi-producer order, index wrap | FIFO, nothing lost |
| adapters, third-party indexes, benchmark | `include/tree.h`, `include/db_interface.h`, `third/`, `benchmark/` | | | | |

How they interact: `logdb` calls the index (`Tree`), `LogKV` and the cache, each
an unlocked call of its own; the address a log gets is `(vlen, node, page id,
offset)` packed into 64 bits, and the index holds that.  `LogKV` picks the PPage
from the calling thread's node and the key's hash.  The collector shares the
pages, the page table and the page ids with the allocator, and calls
`logdb::update`.  Recovery runs before the store is opened.  The Nali
index is one `Tree`; with `SCAN_USE_THREAD_POOL` (commented out at this commit) a
range scan hands the reading of logs to the pool of the node they are on.

## Modules

| module | models | built on |
| --- | --- | --- |
| `LogSpace` | what the log promises: reserve a region apart from all others, write it or give it up; written logs stay readable | |
| `PPageLog` | the allocator: each step between `WLock` and `WUnlock` is an action, the table is C's flat array with its unchecked index, fields are narrowed to their widths | refines `LogSpace` |
| `LogDB` | `insert`, `update`, `erase`, `search`; every call into index, log and cache is a step | uses the log as `LogSpace` promises it |
| `LogGC` | both passes of `do_gc` as one more thread beside `LogDB`'s | extends `LogDB` |
| `LogRecovery` | page creation, inserts, crash at any step, restart, mapping of files, scanning threads | stands alone |
| `IndexMap` | what `logdb` expects of an index: a map whose `update` and `erase` report the value they replace | |
| `NaliGroup` | the Nali index one call at a time: buckets, `PointerBEntry`, groups, the tree, their splits and expansions, `Scan` | refines `IndexMap`; uses what `EntrySearch` establishes |
| `EntrySearch` | `group::find_entry`, every read of the entry array a step | stands alone |
| `NaliExpand` | threads in `Put`, `Update`, `Delete`, `Get` against `ExpandTree`: the flag, the condition variable, the group locks, the publication of new arrays and the freeing of old ones | stands alone |
| `Clht` | the cache table: lock-free get, put and remove under a bucket lock, resize | stands alone |
| `ThreadPool` | workers, `execute`, shutdown | |
| `ScanPool` | `range_scan_by_size` and `scan_help` | extends `ThreadPool` |
| `MC...` | the instances for TLC: constants, loads, calls | |
| `PPageLogProofs`, `LogGCProofs`, `LogRecoveryProofs`, `EntrySearchProofs`, `NaliGroupProofs`, `NaliExpandProofs`, `ClhtProofs`, `ScanPoolProofs` | theorems about the module of that name; `LogGCProofs` has those about `LogDB` too, which the collector's rest on | |

State and actions carry the code's names where they can.  `PPageLog`: `pc` is the
place in `alloc`, `info` the `last_log_offest` it fills in, `ret` the returned
address, `acked` (history) the logs whose address was returned.  One action per
statement that another thread can observe: `WLock`, `CheckSpace`, `BumpPageId`,
`MapPage` or `ExitOnMap`, `Fill`, `Advance`, `WUnlock`, then `StorePersist`, or
`Abandon` when `update` finds the key absent and returns.  `LogDB`: `abs` and
`seen` are history, the value each key has by the order of the index steps and
that value when a search read the index.  `LogGC`: `file_id`, `offset`,
`next_old_log`, `old_log` and `sz_freed` are `do_gc`'s variables; `pass` and
`gpc` its place.  `LogRecovery`: `pm` is the persistent part, and `Die` resets
everything else.  `NaliExpand`: `flag` is `is_tree_expand`; a version is one pair
of `group_space` and `lock_space`, which `gs` and `ls` point to, and `freed` the
versions that were deleted; `strayed` (history) says that an operation worked on a
tree it did not belong to: it linked a split or lowered a first key while the tree
was copied, worked in an array other than the one it looked its group up in,
released another lock than it took, or used freed memory.  `NaliGroup`: `tree` is
`group_space`; `ref` and `kept` are history, what a map would hold.  `Clht`:
`tables` are all tables ever created, `ht` the current one, a bin the slots of a
bucket and its extra buckets; `registered` are the threads that have called
`clht_gc_thread_init`, and `alive` says that none of the others has come to
`clht_gc_get_id` yet (`StatusUnregistered`); `given`, `sure` and `writes` are history, the keys
put and not removed, whether a get must find its key, and how often its slot was
written since it read the value.  `ScanPool`:
`complete` is the counter the scanner spins on, `filled` (history) counts the
writes of each position of the result.

Definitions whose comment begins with "Mutant" are plausible bugs that the
properties must catch; no specification uses them.

### Abstractions

* In `LogDB` the index is any `Tree` whose `insert`, `update`, `search` and
  `erase` are atomic, and whose `update` hands back the address it replaced.
  `NaliGroup` implements that map (`IndexMap`) call by call; that calls are atomic
  when an expansion runs is what `NaliExpand` asks, and the answer is: unless an
  operation strays.
* In `LogDB` and `LogGC` log entries have one length, so an address is the number
  of a slot, and a page is `PageSlots` of them.  `store_persist` is one step (a
  log is 32 bytes in the build modelled); a torn log is not modelled.
* `LogDB` assumes of its callers that they insert only keys that are absent and
  that nobody else is inserting, which is how the benchmark calls it.  A value
  is never 0, which `search` takes for a cache miss.
* `LogGC` has one shard of one node, since chains stay in a key's shard and a
  collector thread has its shards for itself.  Searches are left out of it:
  without the cache they change nothing that is shared, and the collector
  changes no address and no value that a search reads.
* In `LogRecovery` the index is the set of its keys: `recovery_logkv` gives every
  key the address 1 (a TODO in the code).
* A write through a NULL page address (`LogRecovery`) and a read through the NULL
  `clht_ts_thread` (`Clht`) are modelled as the death of the process.
* The learned models are floating-point regressions.  Inside a group any
  prediction is allowed (`EntrySearch`), in the tree of `NaliGroup` any monotone
  one; `NaliExpand`, where every interleaving counts, takes the exact rank.
* The monotone predictions of `NaliGroup` are those of keys whose position fits into an
  `int`: the conversion in `rmi_model.h:35` of a larger one is undefined.
* `NaliExpand` has one layer between a group and its buckets where the code has
  two, and a split of a bucket is its two visible steps.  `ExpandTree`'s training and
  its count are one step each, with steps of others between them: a link in the middle of
  one strays as it does between them.  What a thread does in
  freed memory is unknown: it goes to "wild" and stays.  Calls that change the
  same key do not overlap there.
* `NaliGroup` leaves out scans that do not return (see Divergences).  A scan whose first
  bucket is empty reads `sorted_index_[0]` of an array of length 0 (`nali_entry.h:1073`)
  and takes nothing unless it finds a negative number there; that case, in which it goes
  on in front of the array, is left out too.  Asserts are
  compiled out (NDEBUG) and fingerprints are off (`USE_FINGER`).
* `Clht` never frees a table: a resize gives its old one to `ssmem_release`, which
  waits until the timestamp of every registered thread has moved, and nothing in `src/`
  moves one.  The status lock keeps nobody out, since every call asks for an increase
  and such a call goes on without it.  The look of `clht_put` and `clht_remove` without the
  lock is one step: a key stays in its slot, so what the look tells, found or absent,
  was so at some moment during it.
* In `ThreadPool` a section under a worker's mutex is one step.
* All models interleave steps of sequentially consistent memory.  `ADD`
  (`include/util/utils.h:50`), which counts the positions of a scan, is an acquire
  operation where the scanner's read would need a release; x86 keeps the order of
  the stores before it.

## Runs

| run | checks | shows |
| --- | --- | --- |
| `ppage_alloc` | `TypeOK`, `ReadBack`, `OlderPagesMapped`, `ImplementsLogSpace`, `LatchReleased` | two threads of one node race in a shard, a third of another node shares the version counter and the table; two pages per shard, logs of length 1 and 2 in a page of 2 |
| `logdb_races` | `IndexSound`, `UpdateChainLinear`, `CacheFromOwnLog`, `ReadIsCurrentOrUnwritten` | all interleavings of two threads, two keys, two values, four log slots; every second get is sampled into the cache |
| `gc_marks` | `IndexSound`, `FreedExact`, `WalkEnds`, `CollectionCompletes` | the collector beside two foreground threads on one key, five slots in three pages |
| `gc_reapply` | `CollectorKeepsValues`, violated | pass 2 brings back a superseded value |
| `recovery_crash` | `LostOnlyBehindHole`, `InventsOnlyZeroKey`, `TailPastLogs`, `RecoveryCompletes` | two writers, two crashes at any step, three shards of three pages, two recovery threads: what is lost and what is invented, exactly, a lost key that is inserted again included |
| `recovery_null` | `StoresAreMapped`, violated | recovery leaves `start_addr_` NULL |
| `nali_expand` | `OneExpander`, `AckedFoundUnlessStrayed`, `ReservedRoom`, `WaiterWoken` | two threads, three calls that fill groups, split buckets, lower a first key, update, delete and get, and two expansions |
| `nali_lost` | `AckedFound`, violated | a Put past its second look at the flag splits a bucket while the tree is copied: keys whose Put returned are gone |
| `nali_group` | `GroupsInOrder`, `ScanReturnsStored`, `RetriesEnd`, `TreeIsMap`, `ImplementsIndexMap` | every sequence of four calls after a load that ends in an expansion, with every monotone model: second puts, a key below all others, deletes that empty a bucket, scans |
| `entry_search` | `TypeOK`, `FindsEntry`, `SearchEnds` | every ascending array of up to nine entries, every key, every prediction |
| `clht_cache` | `NoDuplicates`, `GetOwnValue`, `GetFinds`, `KeysKept`, `ResizesCurrent`, `CallsReturn` | two threads, three keys of one bin, six calls; with both threads registered two resizes and a slot that is used again twice during a get, with neither the death in the first status |
| `scan_pool` | `TypeOK`, `ResultsReady`, `FrameOutlivesTasks`, `ScanEnds`, `PoolStops` | two scanners, two pools of two workers, full and partial batches, scans of size 0, shutdown |

The violated properties state what a comment of the repository says;
`PROJECT.json` quotes the lines.

### Divergences

Where the code does not do what a comment or the README of the repository says, a
run or a weaker property tells exactly what holds instead:

* `logdb::update` publishes the address before it writes the log (the README has
  the order the other way round): a search returns the key's value or the 1s of the
  unwritten slot, nothing else (`ReadIsCurrentOrUnwritten`).
* The cache is never invalidated: a get may return an old value, but one that some
  log of the key held (`CacheFromOwnLog`).
* `erase` of an absent key names address 0 as its older log.  `gc_marks` has callers
  that do not do that; with `EraseAbsent = TRUE` `WalkEnds` is violated, by a log
  that names itself.
* Page 33 of a shard is stored in the next shard's row of the page table.
  `ppage_alloc` stays within the table (`MaxPages = MaxFileId`); with more pages than
  columns `ReadBack` is violated, and the theorems have the hypothesis
  `PagesFitTable`.
* Recovery stops at the first slot that is not an INSERT log, and takes the zero
  bytes of a page whose creation was cut short for INSERT logs of the key 0:
  `LostOnlyBehindHole` and `InventsOnlyZeroKey` bound the damage.  A lost key stays
  out of the index until an insert of it, whose own log is the only one not behind a
  hole, reaches the index.
* `clht_get` reads a value, compares the key, and reads the value again, so that a slot
  that was emptied and used in between is noticed (`clht_lb_res.cc:231`).  It is not
  noticed when the slot was used twice in between and has its first value again: the
  get returns another key's value.  That takes six calls; `GetOwnValue` says that
  nothing short of two writes of the slot does it.
* `trans_begin` waits without a predicate (`nali.h:678`).  A thread that read the
  flag and begins to wait after `notify_all` is woken only by a later expansion;
  `WaiterWoken` speaks of the threads that wait while an expansion is under way.
* A scan starts with the first bucket of the group and at the number of its
  smallest record's slot (`nali_entry.h:1075`, 1540) although the comment says
  "scan from start_key", so it returns keys below the start and may leave out keys
  above it; it returns a record several times (`nali_entry.h:1099`, 1552).  It does
  not return at all when the second bucket of a `PointerBEntry` is empty
  (`nali_entry.h:1552`) or when it runs past trailing empty groups (`nali.h:1042`).
  What holds is `ScanReturnsStored`.
* No code in `src/` calls `clht_gc_thread_init`, so `clht_ts_thread` and `clht_alloc` are
  NULL in every thread of `logdb`.  The put that reaches the threshold stores its key,
  releases its lock and then dies in `ht_status`, which prints `clht_gc_get_id()`
  (`clht_lb_res.cc:684`, `clht_gc.cc:103`): in this repository the cache serves until its
  first resize is due, and that kills the process.  `CallsReturn` has this outcome for an
  unregistered thread.  What `Clht` says of resizes is about a program whose threads
  register; the safety properties and their theorems hold for both.
* A `clht_put` that reaches the threshold while another thread resizes gives up,
  and nobody asks again for that table (`clht_lb_res.cc:111`, 494); that only one put
  sees equality is what `ResizesCurrent` rests on.

### Bounds

`MaxVersion`, `MaxLogs` and `MaxOps` bound the operations, `MaxPages`,
`MaxVersions` and `MaxTables` what they create, `MaxCrashes` the crashes, `Calls`,
`Load`, `LogsOn` and `Sizes` the inputs, `Registrations` who has registered.  In the log modules the code's own way out is
taken at the bound (`exit(1)` when no page can be created).  A page of two slots or
units is the smallest in which a log can fit exactly, fit with room left, and not
fit; two threads and two keys are enough for every two-party race; five log slots
in pages of two give the collector two pages older than the newest, and one key
suffices there because a chain never leaves its key (`UpdateChainLinear`, which
`logdb_races` checks with two).  Three shards over two recovery threads leave a
remainder for the last thread, and of three pages one can be lost behind a hole, one
be filled after the restart and one be new.

The sizes of the index are scaled down: buckets of 2 records for 15, 2 entries in a
`PointerBEntry` for 4, groups of 1 or 2 entries for 64 and 1024.  With these the load
of `nali_group` has split buckets, expanded a group and expanded the tree once, and
the four calls after it can do each of that again; the loaded tree of `nali_expand`
has a full group, one that must split first, and one key below all entry keys, so
that one call suffices for each kind of interference.  In `entry_search` nine
entries are enough for three doublings to either side, and a limit of 3 for 6 lets
both the linear and the binary search run.  `clht_cache` has buckets of one slot and
a first table of one bucket: the second key needs an extra bucket and asks for the
resize, and a third, after it, for another (`OccupAfterRes` is scaled so that a
resize doubles).  Its six calls are the fewest in which a slot is used again twice
during a get.  Nobody or everybody is registered: were it some, one of the others could
die while a resize runs, and nothing is claimed of what comes after a death.  In `scan_pool` a batch is 2 positions for 15, and a scan of 3 over
two nodes ends in the middle of a batch or at the end of one.  `CHECK_DEADLOCK` is off where
the calls are used up and everybody is idle.

### Fairness

`LatchReleased` (`ppage_alloc`): weak fairness of every thread that is inside an operation.  The
operating system runs all threads, and no thread waits inside the latch; nothing
is assumed about who wins the spin in `WLock`, and idle threads need not call.
`CollectionCompletes` (`gc_marks`): weak fairness of the collector's thread alone; it waits for nobody,
and the foreground may stop or go on.  `RecoveryCompletes` (`recovery_crash`): weak fairness of the
recovery threads as a whole; a thread without work is done, and the scans do not
wait for each other.  `WaiterWoken` (`nali_expand`), `CallsReturn` (`clht_cache`): weak fairness of every
thread inside a call while the process lives, no obligation to call, no help from spurious wake-ups; a
thread that spins on a lock may lose it any number of times.  `ScanEnds` and
`PoolStops` (`scan_pool`): weak fairness of scanners in a call, of workers and of the
destructors, which no code in `src/` runs (`~logdb` deletes the index and the log and
leaves `thread_pool_` alone): `PoolStops` is about the class `ThreadPool`, not about
`logdb`; spurious wake-ups happen and are not relied on.  `SearchEnds`
(`entry_search`): the one thread runs.

## Proofs

`PPageLogProofs`, for any numbers of threads, nodes, shards and pages, any page
size and set of log lengths, from `ConstantsOK` (which says that the fields of
an address are wide enough and a log fits in a page) and, in each theorem, from
`PagesFitTable`: no shard creates more pages than `MAX_LOF_FILE_ID`.  Without
this hypothesis `ReadBack` is false (see Divergences).

* `TypeCorrect`: `TypeOK`; offsets never pass the end of a page.
* `LogsReadBack`: `ReadBack` and `RegionsApart`.
* `PagesInOrder`: `OlderPagesMapped` and `NewPageIsNew`.
* `Implementation`: `Spec` implements `LogSpace!Spec` under the mapping in which
  a region is held from `Fill` on and kept are the logs that `get_addr` reads.

The inductive invariant `IndInv` adds to the properties: who holds a latch is
alone in the shard (`LatchInv`); exactly the mapped pages have files and table
entries, where the page whose id was raised and which is being created is not
mapped yet (`PageInv`); a region that was handed out lies below the tail when it
is in the newest page (`AllocInv`, `LogInv`).  That last part is why a new region
is apart from all others, and `TableIndexInjective` (division with remainder is
unique) is why publishing a page hides no other.

`LogGCProofs`, its first part about `LogDB`, for any threads, keys, values and number of
log slots, with or without the cache:

* `IndexIsSound`: `TypeOK` and `IndexSound`.
* `ReadsAreCurrent`: `ReadIsCurrentOrUnwritten`.
* `ChainsAreLinear`: `UpdateChainLinear`.
* `CacheIsOwn`: `CacheFromOwnLog`.

The inductive invariant `Inv` adds that a slot is held by one thread until it is
written or published and is unwritten while it is held (`SlotInv`), that locals
are set when they are needed (`LocalInv`), and that the slot a search is about to
read has the value seen, or its update is still to write it (`SearchInv`): a
written slot never changes again, which is why a late read is a correct one.
`ChainInv` speaks of the address an update was handed by the index: it is retired (no
key has it, nobody is about to publish it), it is or will be a log of the same key,
and no other update has it (`PendingInv`); so the logs that name it are linear
(`LinkInv`).  For the cache, what a search carries to it was read in a log of its own
key (`FillInv`).

`LogGCProofs`, its second part, for any threads, keys, values, log slots and slots of a page,
under `~EraseAbsent`, which is what callers of `erase` do that know the key is there; without
it `WalkEnds` is false (see Divergences):

* `CollectorKeepsIndexed`: `IndexSound` with the collector at work; no log that the
  index names is marked.
* `FreedIsExact`: `FreedExact`.
* `WalksEnd`: `WalkEnds`; the chain of older logs that `do_gc` follows without a lock
  never meets itself.

The invariant of `LogDB` is used again, with marks in place of some logs, and `GCInv`
adds: an address that an erase looked up is out of the index when its log is written
(`EraseInv`); what the walk has collected is retired and not marked yet (`WalkInv`),
which is also why no slot is counted twice; and there is a rank of the slots that
falls along every chain, chains that are about to be written included (`RankInv`).
The slot numbers are no such rank, since a thread may get its slot first and
publish last; the proof builds a new rank at each publication, by lifting the
new slot above all others.

`LogRecoveryProofs`, for any writers, keys, shards, pages, slots of a page, recovery
threads and crashes; the assumption on `Keys` is that the byte patterns "ones",
"zeros" and "none" are no keys:

* `LosesOnlyBehindHole`: `LostOnlyBehindHole`.
* `InventsNothing`: `InventsOnlyZeroKey`.
* `TailIsPastLogs`: `TailPastLogs`.

The invariant follows a log through a crash.  In a running process every log is
indexed, about to be, or behind a hole (`FoundInv`), and a page that the process has
mapped is its own, blank from the tail on (`MappedInv`, `SlotInv`, `FillInv`).  While recovery scans, every log is
indexed, behind a hole, or still ahead of some recovery thread (`ScanInv`), which
needs that the threads' ranges cover all shards and that what a thread has passed of
a page are INSERT logs.

`EntrySearchProofs`, for every number of entries, every ascending array of keys,
every searched key, every prediction and every limit of the linear search:

* `RangeInArray`: `TypeOK`; the range searched lies in the array, and no probe reads
  outside it.
* `EntryFound`: `FindsEntry`; the entry returned is the last whose key is not above
  the searched one, or the first.

The inductive invariant says what each loop has established: in the doubling to
the left the last probe, `m - bound / 2`, was in the array and above the key, to the right
the last probe, `m + bound / 2`, was in the array and not above it (`LeftInv`, `RightInv`),
which by the ascending order settles every entry on `m`'s side of the probe; in the linear and binary search
everything before `l` is not above the key and everything from `r` on is (`RangeInv`).
`NaliGroup` uses this result in place of the search; that the keys of a group ascend
is its `GroupsInOrder`, which is proved too.

`NaliGroupProofs`, for any calls, any finite set of positive keys, any values, any size of
bucket and of `PointerBEntry` from 2 on, any size of group from 1 on, every monotone model
of the tree and every initial `min_key` (`NaliGroupAssumption`):

* `GroupsStayInOrder`: `GroupsInOrder`.
* `TreeHoldsMap`: `TreeIsMap`.
* `RetriesAreBounded`: `RetriesEnd`.
* `ScansReturnStored`: `ScanReturnsStored`.
* `TreeImplementsIndexMap`: `Spec` implements `IndexMap!Spec`, with `ref` as the map.

`TreeIsMap` speaks of what `Lookup` finds, which depends on the order of entries, on where
the records are and on where the model leads; none of that is kept by itself.  The
inductive invariant `Inv` (`TreeInvariant`) is:

* `Sound`: entries, counts and buckets are well formed (`Formed`); over all groups the
  entry keys ascend, and the keys of a bucket lie between its entry's key and the next
  one's (`Sorted`); the key 0 of the first entry is the only one that is no key (`Keyed`);
  `find_group` starts at or to the right of the group that a key belongs into (`Routed`).
  "Between" is not strict: duplicates of a key may lie on both sides of a split, in the
  buckets in front of the one where the key is looked for.
* `MapInv`: a key that the map lacks has no record, one that it has has a single record
  with that value, and one that was put twice has a record in its home, the last entry
  whose key is not above it.
* `CallInv`: the group of a Put under way is still the one its key fits into.
* `RetryInv`: after an expansion every `PointerBEntry` that the Put can meet has one entry,
  so a full bucket in it splits at the next retry; after a split both halves have room.
* `ScanInv`: the answer of a scan stands as long as the tree does.

A tree is reasoned about by its places (group, `PointerBEntry`, entry) in lexicographic
order.  `Lookup` reads the home of its key, on the fast path as well: the fast path may ask
a group that the key is not in, but then it finds nothing there.  A change of one bucket leaves the other
places alone; a split shifts the places behind it by one, and its upper half starts at
or above everything in the lower half, whatever the slots are; an expansion lists
the old places in order, and each new entry is an old one whose key was raised at most to the
least key of its bucket.  In both, records move and none is lost or doubled (`Moved`).  In a
rebuilt tree a group gets the places that a monotone model sends to it, so
groups follow each other as their entries did, and `Routed` holds because the model is
asked for the very keys it has placed.  The loops of a scan are recursive functions; that
an accumulator keeps its bound and its records through them is `LoopDefined` and
`Stepwise`, each proved once from a least counterexample.

`NaliExpandProofs`, for any threads, keys, groups and calls:

* `ExpandTreeAlone`: `OneExpander`; the compare-and-exchange lets one thread rebuild
  the tree, whatever the operations do, strayed ones included.
* `RoomIsReserved`: `ReservedRoom`.
* `AckedAreFound`: `AckedFoundUnlessStrayed`.

The first invariant adds only that the threads' states keep their fields (`Shape`); each
action moves one thread, or, at `notify_all`, threads that do not rebuild.

The other two start from any loaded tree (`LoadedAssumption`: entry keys ascend, a bucket
has one entry and holds the keys between it and the next, the model starts `find_group`
far enough to the right) and rest on one invariant, `Safe`, of the states in which
nothing has strayed.

* `Base`: the newest array is the only one that is not freed; a thread's group is one of
  the array it looked it up in, its lock is of that array or a newer one, two threads
  hold different locks, and nobody puts into the new groups before the flag is cleared.
* `RoomInv`: a new group has as many entries as the copy has passed that the model
  predicts into it.  Those are among the ones counted, because whatever would change the
  old groups between the count and the end of the copy strays.
* `TreeInv`: the current groups are a tree (`Sound`), and between expansions the
  model is the one for it (`Routed`).  `OwnInv`: a Put that has looked up its group still
  has its key's (`Owns`), whatever other Puts did meanwhile.
* `SplitInv`: what a split has moved and not yet linked lies between its entry and the
  next, in a bucket that no entry has.
* `CountOK`: the training has counted an entry, so there is a new group.
* `KeyInv`: every key whose Put returned is in a bucket of the tree or in one that waits
  for its link.  It holds as long as no split is `Doomed`: when an expansion overtakes a
  split, the tree lacks its keys from the publication on, before the link strays.  A
  thread with such a split is at "link", where `AckedFound` is silent, and its next step
  strays; so the invariant says `Calm => KeyInv`.
* `CopyInv`: the new groups have exactly the entries passed, each in its predicted group,
  ascending; ranks are monotone, so at the end of the copy they are a sound tree with the
  same buckets.

`find_group` and `find_entry` then find a key in the bucket it is in (`FindGroupOwns`,
`FoundInTree`).

`ClhtProofs`, for any threads, whichever of them are registered, any positive keys, first
size, slots of a bucket, resizes and calls:

* `KeysAreOnce`: `NoDuplicates`.
* `GetsOwnValue`: `GetOwnValue`.
* `GetsFind`: `GetFinds`.
* `TableKeepsKeys`: `KeysKept`.
* `ResizeIsOfCurrent`: `ResizesCurrent`.

The invariant: in every table, a key is in its bin, once, with its value
(`TablesInv`); a replaced table is locked for good, one that is being filled has no
lock taken, and in the current one the resize has locked what it has passed
(`LocksInv`); writers of a bucket and resizes exclude each other, and only one thread
at a time is on its way to resize the current table (`ApartInv`, `TokenInv`: the
count of extra buckets passes the threshold once); the current table holds
the keys that were put and not removed (`KeptInv`).  `ThreadsInv` says what each place in
the code may rely on: a get whose key is sure has it ahead of itself or in its hand,
whatever happens to the table it walks; a resize has copied exactly the keys
of the slots behind it.

`ScanPoolProofs`, for any scanners, nodes, workers, batch and scan sizes:

* `TypesHold`: `TypeOK`; no position is written twice.
* `ResultsAreReady`: `ResultsReady`.
* `FramesOutliveTasks`: `FrameOutlivesTasks`.

A scanner returns on a number alone.  The invariant says what the number is: the
positions that are filled and in no task that is queued or running (`CountInv`).  It is kept
because a position is in one place only: in the scanner's `numa_pos_arr`, in one
task, or counted (`ApartInv`, `KeptInv`, `FilledInv`), and because a task fills its
positions in order before it counts them (`TasksInv`).  When the number is the
size of the scan, the counted positions are all of them, so no task is left.

Only model-checked:

* the liveness properties (fairness and ENABLED are outside this prover's reach);
* the three violations, which are about one behaviour each.

`TypeOK` of `LogDB` and `RegionsApart` and `NewPageIsNew` of `PPageLog` are proved with
the theorems above and not in a run of their own.

## Not modelled

* `bulk_load` of `logdb` and `Nali`, `Nali::Iter` (the adapter calls neither of the
  latter two); variable-length values; scans of the index while it expands.
* The address that recovery gives to every key is a TODO in the code (1), so where a
  get after recovery reads is not modelled.
* The learned models (floating point).
* The version lists of CLHT's collector, which is not compiled in (`CLHT_DO_GC` is 0), and
  `ssmem`, a copied allocator, beyond what keeps old tables readable.  A
  `clht_get` of the key 0, which marks empty slots, is not made by the callers.
* `clht_lf_res.cc`, which `CMakeLists.txt` lists and whose lines are all comments.
* The LRU and NUMA caches, the ring, the reader side of `SpinLatch` and the locks of
  `nali_concurrency.h`: no built code uses them.
* Adapters other than the interface itself, the benchmark, and everything under
  `third/`.

The modelled files are the store's own: `nali_kvlog.h`, `logdb.h`, `nali.h`,
`nali_entry.h`, `clht_lb_res.*`, `thread_pool.h`, `rwlock.h`, `tree.h`.  Nine tenths of the
C and C++ lines in the repository are indexes that NALI is compared with (`third/`)
and a copied hash function (`include/util/xxhash.h`); they are not part of the
system, and the map does not cover them.

## Plan

1. Done: the log (`LogSpace`, `PPageLog`, `LogGC`, `LogRecovery`), the key-value layer
   (`LogDB`), the index (`IndexMap`, `NaliGroup`, `EntrySearch`, `NaliExpand`), the
   cache (`Clht`), the pools (`ThreadPool`, `ScanPool`), and the theorems above; every
   invariant and both refinements that the passing runs check are theorems.
2. `LogDB` over `NaliExpand` in place of the atomic index.
