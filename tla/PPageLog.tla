------------------------------ MODULE PPageLog ------------------------------
(***************************************************************************)
(* The NUMA-local, sharded log of src/src/nali_kvlog.h: one PPage per      *)
(* (numa node, hash shard), each a bump allocator over its newest page     *)
(* file, protected by the SpinLatch in its header; the global table from   *)
(* (node, shard, page id) to the address a page file is mapped at; and the *)
(* threads that take a version, allocate a region and persist a log in it. *)
(*                                                                         *)
(* Every step between WLock and WUnlock is an action of its own, because   *)
(* the page id and the table are read outside the latch, by get_addr and   *)
(* by the garbage collector.  Lengths and offsets are in arbitrary units.  *)
(***************************************************************************)
EXTENDS Integers, FiniteSets

CONSTANTS
  Threads,      \* foreground threads
  NodeOf,       \* get_numa_id(global_thread_id), by thread
  NumaNodes,    \* numa_node_num
  NumShards,    \* NALI_VERSION_SHARDS
  HashDim,      \* the 256 of start_addr_arr_[numa_node_num][256][MAX_LOF_FILE_ID]
  MaxFileId,    \* MAX_LOF_FILE_ID
  PageIdRange,  \* 2^8: last_log_offest::ppage_id_ is a uint8_t
  OffsetRange,  \* 2^32: last_log_offest::log_offset_ is a uint32_t
  PageSize,     \* PPAGE_SIZE
  Sizes,        \* the values Pair_t::size() takes
  MaxPages,     \* page files a shard can create before pmem_map_file fails
  MaxVersion    \* bound: operations begun per shard

Shards == (0 .. NumaNodes - 1) \X (0 .. NumShards - 1)

ASSUME ConstantsOK ==
  /\ NumaNodes \in Nat \ {0}
  /\ NumShards \in Nat \ {0}
  /\ HashDim \in Nat
  /\ NumShards <= HashDim
  /\ MaxFileId \in Nat \ {0}
  /\ PageSize \in Nat \ {0}
  /\ Sizes \subseteq 1 .. PageSize
  /\ MaxPages \in Nat \ {0}
  /\ PageIdRange \in Nat \ {0}
  /\ MaxPages <= PageIdRange
  /\ MaxVersion \in Nat
  /\ OffsetRange \in Nat \ {0}
  /\ PageSize <= OffsetRange
  /\ NodeOf \in [Threads -> 0 .. NumaNodes - 1]

NULL == <<>>          \* a table entry that was never set
Ones == 0             \* a byte of a page that still holds its initial 1s

\* The page files "nali_$(numa_id)_$(hash_id)_$(ppage_id)".
Files == (0 .. NumaNodes - 1) \X (0 .. NumShards - 1) \X (0 .. MaxPages - 1)
File(s, p) == <<s[1], s[2], p>>

\* Mutant: the rows of the table are not MaxFileId apart.
TableIndexPacked(s, p) == s[1] * HashDim + s[2] + p

\* Where start_addr_arr_[numa_id][hash_id][ppage_id] lies in the table: C's
\* row-major layout, with no check of any of the three indices.
TableIndex(s, p) == (s[1] * HashDim + s[2]) * MaxFileId + p
TableIndices == 0 .. (NumaNodes * HashDim * MaxFileId + MaxPages)

VARIABLES
  pc,           \* where each thread is in LogKV::insert / erase / update_step1
  req,          \* the shard, length and version of the log a thread is writing
  info,         \* the last_log_offest that alloc filled in for it
  ret,          \* the address that alloc returned to it
  rwlock,       \* ppage_header::rwlock of each shard, 1 while write-locked
  ppage_id,     \* ppage_header::ppage_id
  sz_allocated, \* ppage_header::sz_allocated
  start_addr,   \* PPage::start_addr_, the file of the newest page
  table,        \* global_ppage_meta::start_addr_arr_
  files,        \* the page files that exist
  pmem,         \* the contents of each page file
  version,      \* version_allocator_, shared by the nodes
  exited,       \* alloc_new_ppage called exit(1)
  acked         \* the logs whose address was returned, as the caller knows them

vars == <<pc, req, info, ret, rwlock, ppage_id, sz_allocated, start_addr,
          table, files, pmem, version, exited, acked>>

header == <<rwlock, ppage_id, sz_allocated, start_addr>>
persistent == <<table, files, pmem>>

-----------------------------------------------------------------------------
\* Between operations a thread's locals mean nothing; they are set back so that
\* they do not tell states apart.
NoReq(t) == [sh |-> <<NodeOf[t], 0>>, size |-> 0, ver |-> 0]
NoInfo == [numa |-> 0, page |-> 0, off |-> 0]
NoRet == [file |-> NULL, off |-> 0]

\* LogKV(recovery = false): every shard starts with its page 0 mapped, filled
\* with 1s and in the table.
Init ==
  /\ pc = [t \in Threads |-> "idle"]
  /\ req = [t \in Threads |-> NoReq(t)]
  /\ info = [t \in Threads |-> NoInfo]
  /\ ret = [t \in Threads |-> NoRet]
  /\ rwlock = [s \in Shards |-> 0]
  /\ ppage_id = [s \in Shards |-> 0]
  /\ sz_allocated = [s \in Shards |-> 0]
  /\ start_addr = [s \in Shards |-> File(s, 0)]
  /\ table = [i \in TableIndices |->
                IF \E s \in Shards : i = TableIndex(s, 0)
                THEN File(CHOOSE s \in Shards : i = TableIndex(s, 0), 0)
                ELSE NULL]
  /\ files = {File(s, 0) : s \in Shards}
  /\ pmem = [f \in Files |-> [b \in 0 .. PageSize - 1 |-> Ones]]
  /\ version = [h \in 0 .. NumShards - 1 |-> 0]
  /\ exited = FALSE
  /\ acked = {}

\* insert, erase and update_step1 begin alike: they take a version from the
\* allocator of the key's shard (version = old + 1) and call alloc_log, which
\* picks the PPage of the thread's node and the key's shard.
Begin(t) ==
  /\ ~exited
  /\ pc[t] = "idle"
  /\ \E h \in 0 .. NumShards - 1, size \in Sizes :
       /\ version[h] < MaxVersion
       /\ version' = [version EXCEPT ![h] = @ + 1]
       /\ req' = [req EXCEPT ![t] = [sh |-> <<NodeOf[t], h>>, size |-> size,
                                     ver |-> version[h] + 1]]
  /\ pc' = [pc EXCEPT ![t] = "wlock"]
  /\ UNCHANGED <<info, ret, header, persistent, exited, acked>>

\* Mutant: WLock is a plain store, it does not wait for the latch.
WLockByStore(t) ==
  /\ ~exited
  /\ pc[t] = "wlock"
  /\ rwlock' = [rwlock EXCEPT ![req[t].sh] = 1]
  /\ pc' = [pc EXCEPT ![t] = "check"]
  /\ UNCHANGED <<req, info, ret, ppage_id, sz_allocated, start_addr, persistent,
                 version, exited, acked>>

\* SpinLatch::WLock: the compare-and-swap from 0 to 1 that ends the spinning.
WLock(t) ==
  /\ ~exited
  /\ pc[t] = "wlock"
  /\ rwlock[req[t].sh] = 0
  /\ rwlock' = [rwlock EXCEPT ![req[t].sh] = 1]
  /\ pc' = [pc EXCEPT ![t] = "check"]
  /\ UNCHANGED <<req, info, ret, ppage_id, sz_allocated, start_addr, persistent,
                 version, exited, acked>>

\* Mutant: off by one.
NeedsNewPageLate(size, allocated) == size > PageSize - allocated + 1

\* PPage::alloc: the log does not fit in what is left of the newest page.
NeedsNewPage(size, allocated) == size > PageSize - allocated

CheckSpace(t) ==
  /\ ~exited
  /\ pc[t] = "check"
  /\ pc' = [pc EXCEPT ![t] =
              IF NeedsNewPage(req[t].size, sz_allocated[req[t].sh])
              THEN "grow" ELSE "fill"]
  /\ UNCHANGED <<req, info, ret, header, persistent, version, exited, acked>>

\* header_.ppage_id++: visible to the collector before the page exists.
BumpPageId(t) ==
  /\ ~exited
  /\ pc[t] = "grow"
  /\ ppage_id' = [ppage_id EXCEPT ![req[t].sh] = @ + 1]
  /\ pc' = [pc EXCEPT ![t] = "map"]
  /\ UNCHANGED <<req, info, ret, rwlock, sz_allocated, start_addr, persistent,
                 version, exited, acked>>

\* Mutant: the new page's address is not published in the table.
MapPageUnpublished(t) ==
  LET s == req[t].sh
      f == File(s, ppage_id[s])
  IN /\ ~exited
     /\ pc[t] = "map"
     /\ ppage_id[s] < MaxPages
     /\ f \notin files
     /\ files' = files \union {f}
     /\ start_addr' = [start_addr EXCEPT ![s] = f]
     /\ sz_allocated' = [sz_allocated EXCEPT ![s] = 0]
     /\ pc' = [pc EXCEPT ![t] = "fill"]
     /\ UNCHANGED <<req, info, ret, rwlock, ppage_id, table, pmem, version, exited, acked>>

\* alloc_new_ppage: create and map the file, fill it with 1s, publish its
\* address in the table; then alloc starts the page at offset 0.
MapPage(t) ==
  LET s == req[t].sh
      f == File(s, ppage_id[s])
  IN /\ ~exited
     /\ pc[t] = "map"
     /\ ppage_id[s] < MaxPages
     /\ f \notin files
     /\ files' = files \union {f}
     /\ pmem' = [pmem EXCEPT ![f] = [b \in 0 .. PageSize - 1 |-> Ones]]
     /\ table' = [table EXCEPT ![TableIndex(s, ppage_id[s])] = f]
     /\ start_addr' = [start_addr EXCEPT ![s] = f]
     /\ sz_allocated' = [sz_allocated EXCEPT ![s] = 0]
     /\ pc' = [pc EXCEPT ![t] = "fill"]
     /\ UNCHANGED <<req, info, ret, rwlock, ppage_id, version, exited, acked>>

\* Mutant: a failed mapping returns to the caller instead of exiting.
ReturnOnMap(t) ==
  /\ ~exited
  /\ pc[t] = "map"
  /\ pc' = [pc EXCEPT ![t] = "idle"]
  /\ UNCHANGED <<req, info, ret, header, persistent, version, exited, acked>>

\* alloc_new_ppage gives up, exit(1): the file name is taken, or pmem_map_file
\* fails, which it may do at any time and does when the space is used up.
ExitOnMap(t) ==
  /\ ~exited
  /\ pc[t] = "map"
  /\ exited' = TRUE
  /\ UNCHANGED <<pc, req, info, ret, header, persistent, version, acked>>

\* alloc fills in the relative address, narrowed to its field widths, and the
\* absolute one.
Fill(t) ==
  LET s == req[t].sh
  IN /\ ~exited
     /\ pc[t] = "fill"
     /\ info' = [info EXCEPT ![t] = [numa |-> s[1],
                                     page |-> ppage_id[s] % PageIdRange,
                                     off |-> sz_allocated[s] % OffsetRange]]
     /\ ret' = [ret EXCEPT ![t] = [file |-> start_addr[s], off |-> sz_allocated[s]]]
     /\ pc' = [pc EXCEPT ![t] = "advance"]
     /\ UNCHANGED <<req, header, persistent, version, exited, acked>>

\* header_.sz_allocated += alloc_size
Advance(t) ==
  /\ ~exited
  /\ pc[t] = "advance"
  /\ sz_allocated' = [sz_allocated EXCEPT ![req[t].sh] = @ + req[t].size]
  /\ pc' = [pc EXCEPT ![t] = "unlock"]
  /\ UNCHANGED <<req, info, ret, rwlock, ppage_id, start_addr, persistent,
                 version, exited, acked>>

\* SpinLatch::WUnlock: fetch_xor(1).
WUnlock(t) ==
  /\ ~exited
  /\ pc[t] = "unlock"
  /\ rwlock' = [rwlock EXCEPT ![req[t].sh] = 1 - @]
  /\ pc' = [pc EXCEPT ![t] = "store"]
  /\ UNCHANGED <<req, info, ret, ppage_id, sz_allocated, start_addr, persistent,
                 version, exited, acked>>

\* The thread forgets its locals and the operation returns.
Return(t) ==
  /\ pc' = [pc EXCEPT ![t] = "idle"]
  /\ req' = [req EXCEPT ![t] = NoReq(t)]
  /\ info' = [info EXCEPT ![t] = NoInfo]
  /\ ret' = [ret EXCEPT ![t] = NoRet]

\* What the caller knows of a log: its relative address, length and version.
LogOf(t) == [sh |-> req[t].sh, numa |-> info[t].numa, page |-> info[t].page,
             off |-> info[t].off, size |-> req[t].size, ver |-> req[t].ver]

\* Pair_t::store_persist at the address alloc returned; the caller gets the
\* relative address (to_uint64_t_offset).
StorePersist(t) ==
  LET r == ret[t]
  IN /\ ~exited
     /\ pc[t] = "store"
     /\ pmem' = [pmem EXCEPT ![r.file] =
                   [b \in 0 .. PageSize - 1 |->
                      IF r.off <= b /\ b < r.off + req[t].size
                      THEN req[t].ver ELSE pmem[r.file][b]]]
     /\ acked' = acked \union {LogOf(t)}
     /\ Return(t)
     /\ UNCHANGED <<header, table, files, version, exited>>

\* logdb::update of a key the index does not hold returns before update_step2:
\* the region stays allocated and is never written.
Abandon(t) ==
  /\ ~exited
  /\ pc[t] = "store"
  /\ Return(t)
  /\ UNCHANGED <<header, persistent, version, exited, acked>>

\* After exit(1) nothing runs any more, and idle threads need not call again.
Quiet ==
  /\ exited \/ \A t \in Threads : pc[t] = "idle"
  /\ UNCHANGED vars

Step(t) ==
  \/ Begin(t) \/ WLock(t) \/ CheckSpace(t) \/ BumpPageId(t) \/ MapPage(t)
  \/ ExitOnMap(t) \/ Fill(t) \/ Advance(t) \/ WUnlock(t) \/ StorePersist(t)
  \/ Abandon(t)

Next == Quiet \/ \E t \in Threads : Step(t)

\* The operating system runs every thread; a thread is free not to begin
\* another operation, and spinning in WLock wins no particular race.
Fairness ==
  \A t \in Threads : WF_vars(pc[t] # "idle" /\ Step(t))

Spec == Init /\ [][Next]_vars
FairSpec == Spec /\ Fairness

-----------------------------------------------------------------------------
\* LogKV::get_addr: the address of a log, from its relative address and the
\* key's shard, through the table.
get_addr(l) == [file |-> table[TableIndex(<<l.numa, l.sh[2]>>, l.page)], off |-> l.off]

InLatch == {"check", "grow", "map", "fill", "advance", "unlock"}
Owning == {"advance", "unlock", "store"}

TypeOK ==
  /\ pc \in [Threads -> {"idle", "wlock", "store"} \union InLatch]
  /\ req \in [Threads -> [sh: Shards, size: Nat, ver: Nat]]
  /\ info \in [Threads -> [numa: 0 .. NumaNodes - 1, page: Nat, off: Nat]]
  /\ ret \in [Threads -> [file: Files \union {NULL}, off: Nat]]
  /\ rwlock \in [Shards -> {0, 1}]
  /\ ppage_id \in [Shards -> Nat]
  /\ sz_allocated \in [Shards -> 0 .. PageSize]
  /\ start_addr \in [Shards -> Files]
  /\ table \in [TableIndices -> Files \union {NULL}]
  /\ files \subseteq Files
  /\ pmem \in [Files -> [0 .. PageSize - 1 -> Nat]]
  /\ version \in [0 .. NumShards - 1 -> Nat]
  /\ exited \in BOOLEAN
  /\ acked \subseteq [sh: Shards, numa: 0 .. NumaNodes - 1, page: Nat, off: Nat,
                      size: Sizes, ver: Nat]

\* A log whose address was returned to the caller is found again by get_addr,
\* whole and unchanged, whatever the other threads allocate and store since.
ReadBack ==
  \A l \in acked :
    LET a == get_addr(l)
    IN /\ a.file # NULL
       /\ \A i \in 0 .. l.size - 1 : pmem[a.file][a.off + i] = l.ver

\* Regions of one page that share no byte.
Apart(a, b) ==
  \/ a.sh # b.sh
  \/ a.page # b.page
  \/ a.off + a.size <= b.off
  \/ b.off + b.size <= a.off

\* Two threads that were given memory by alloc were given disjoint memory, and
\* none of it holds a log that some operation already returned.
RegionsApart ==
  \A t \in Threads : pc[t] \in Owning =>
    /\ \A u \in Threads \ {t} : pc[u] \in Owning => Apart(LogOf(t), LogOf(u))
    /\ \A l \in acked : Apart(LogOf(t), l)

\* Every page below the newest page id is mapped under its own address.  The
\* collector relies on it: it reads ppage_id without the latch, while alloc may
\* have raised it and not yet mapped the page, and scans only older pages.
OlderPagesMapped ==
  \A s \in Shards : \A p \in 0 .. ppage_id[s] - 1 :
    table[TableIndex(s, p)] = File(s, p)

\* The name alloc_new_ppage builds is never taken already: the exit on an
\* existing file is only reached on files of an earlier run.
NewPageIsNew ==
  \A t \in Threads : pc[t] = "map" => File(req[t].sh, ppage_id[req[t].sh]) \notin files

\* Whoever holds a PPage's latch lets go of it, or the process has exited: no
\* path through alloc returns with the latch held.
LatchReleased ==
  \A s \in Shards : rwlock[s] = 1 ~> (rwlock[s] = 0 \/ exited)

\* The abstract log: regions are held from the moment alloc fixed them, logs
\* are what get_addr reads back.
ReadVer(l) == pmem[get_addr(l).file][get_addr(l).off]
RegionOf(l, v) == [sh |-> l.sh, page |-> l.page, off |-> l.off, size |-> l.size, ver |-> v]
heldBar == [t \in Threads |->
              IF pc[t] \in Owning THEN {RegionOf(LogOf(t), req[t].ver)} ELSE {}]
keptBar == {RegionOf(l, ReadVer(l)) : l \in acked}
Abstract == INSTANCE LogSpace WITH held <- heldBar, kept <- keptBar

\* The latched bump allocator over page files implements LogSpace.
ImplementsLogSpace == Abstract!Spec
=============================================================================
