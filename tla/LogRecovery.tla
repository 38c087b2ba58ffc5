---------------------------- MODULE LogRecovery ----------------------------
(***************************************************************************)
(* Crash and restart of the log in src/src/nali_kvlog.h: writers insert,   *)
(* the process dies at any moment, and the next one is started with        *)
(* recovery = true, maps the page files it finds and rebuilds the index    *)
(* from their logs (recovery_logkv, the version that expects INSERT logs   *)
(* only), with several threads, each of which scans a range of the shards. *)
(*                                                                         *)
(* Persistent: the page files.  Everything else is lost in a crash.  One   *)
(* NUMA node; a page is a row of slots of one length.  recovery_logkv      *)
(* gives the index the address 1 for every key (a TODO in the code), so    *)
(* the index is modelled by the keys it holds.                             *)
(***************************************************************************)
EXTENDS Integers, FiniteSets

CONSTANTS
  Writers,
  Keys, ShardOf,   \* the keys and the shard each is hashed to
  ZeroKey,         \* the key that a log of zero bytes decodes to
  NumShards,       \* NALI_VERSION_SHARDS
  PageSlots,       \* PPAGE_SIZE / log size
  MaxPages,        \* page files of a shard before pmem_map_file fails
  RecThreads,      \* recovery_thread_num
  MaxCrashes       \* bound

ASSUME LogRecoveryConstants ==
  /\ ZeroKey \notin Keys
  /\ Keys \intersect {"ones", "zeros", "none"} = {}   \* no key is the mark of a blank slot
  /\ NumShards \in Nat \ {0} /\ RecThreads \in Nat \ {0}
  /\ PageSlots \in Nat \ {0} /\ MaxPages \in Nat \ {0}
  /\ ShardOf \in [Keys -> 0 .. NumShards - 1]
  /\ MaxCrashes \in Nat

Shards == 0 .. NumShards - 1
Slots == 0 .. PageSlots - 1
PageIds == 0 .. MaxPages - 1
Recoverers == 0 .. RecThreads - 1

\* What a slot reads as: an INSERT log of a key, the 1s of an initialised page
\* (op TRASH), or the zero bytes of a new file, which read as an INSERT log of
\* the key 0 because INSERT is 0.
Blank == [s \in Slots |-> "ones"]
Zeros == [s \in Slots |-> "zeros"]
NoFile == [s \in Slots |-> "none"]
Contents == Keys \union {"ones", "zeros", "none"}
IsInsert(c) == c \in Keys \union {"zeros"}
KeyOf(c) == IF c = "zeros" THEN ZeroKey ELSE c

NULL == -1        \* start_addr_ of a PPage that has not mapped a page
NoShard == -1
NoSlot == [page |-> NULL, off |-> 0]

VARIABLES
  phase,         \* run, down, map, scan, exit
  pm,            \* pm[s][p]: the contents of page file p of shard s
  ppage_id, sz_allocated, start_addr,   \* the PPages
  index,         \* the keys in the DRAM index
  pc, key, slot, \* the writers
  cur,           \* cur[i]: the shard, page and slot recoverer i is at
  acked,         \* history: the keys whose insert returned
  crashes

ppages == <<ppage_id, sz_allocated, start_addr>>
writers == <<pc, key, slot>>
vars == <<phase, pm, ppages, index, writers, cur, acked, crashes>>

\* recovery_logkv's division of the shards among the threads.
PerThread == NumShards \div RecThreads
RangeBegin(i) == i * PerThread
\* Mutant: the last thread takes no more shards than the others.
RangeEndEven(i) == RangeBegin(i) + PerThread
RangeEnd(i) == IF i = RecThreads - 1 THEN NumShards ELSE RangeBegin(i) + PerThread

Done == [sh |-> NoShard, page |-> 0, off |-> 0]

\* What a process has before it has done anything.
Fresh ==
  [ppage_id |-> [s \in Shards |-> -1],
   sz_allocated |-> [s \in Shards |-> 0],
   start_addr |-> [s \in Shards |-> NULL],
   pc |-> [w \in Writers |-> "idle"],
   key |-> [w \in Writers |-> ZeroKey],
   slot |-> [w \in Writers |-> NoSlot],
   cur |-> [i \in Recoverers |-> Done]]

Init ==
  /\ phase = "boot"
  /\ pm = [s \in Shards |-> [p \in PageIds |-> NoFile]]
  /\ ppage_id = Fresh.ppage_id
  /\ sz_allocated = Fresh.sz_allocated
  /\ start_addr = Fresh.start_addr
  /\ index = {}
  /\ pc = Fresh.pc /\ key = Fresh.key /\ slot = Fresh.slot
  /\ cur = Fresh.cur
  /\ acked = {}
  /\ crashes = 0

\* alloc_new_ppage in two steps, between which a crash can fall: the file is
\* created (zero bytes), and its bits are set to 1.
CreatePage(s) ==
  /\ ppage_id' = [ppage_id EXCEPT ![s] = @ + 1]
  /\ pm' = [pm EXCEPT ![s][ppage_id[s] + 1] = Zeros]

FillPage(s) ==
  /\ pm' = [pm EXCEPT ![s][ppage_id[s]] = Blank]
  /\ start_addr' = [start_addr EXCEPT ![s] = ppage_id[s]]

-----------------------------------------------------------------------------
\* LogKV(recovery = false): page 0 of every shard, one shard after the other.
Booted == Cardinality({s \in Shards : start_addr[s] # NULL})

BootCreate ==
  /\ phase = "boot"
  /\ Booted < NumShards
  /\ ppage_id[Booted] = -1
  /\ CreatePage(Booted)
  /\ UNCHANGED <<phase, sz_allocated, start_addr, index, writers, cur, acked, crashes>>

BootFill ==
  /\ phase = "boot"
  /\ Booted < NumShards
  /\ ppage_id[Booted] = 0
  /\ FillPage(Booted)
  /\ UNCHANGED <<phase, ppage_id, sz_allocated, index, writers, cur, acked, crashes>>

Open ==
  /\ phase = "boot"
  /\ Booted = NumShards
  /\ phase' = "run"
  /\ UNCHANGED <<pm, ppages, index, writers, cur, acked, crashes>>

-----------------------------------------------------------------------------
\* logdb::insert of a key the index does not hold and nobody is inserting.
Call(w, k) ==
  /\ phase = "run"
  /\ pc[w] = "idle"
  /\ k \notin index
  /\ \A u \in Writers : key[u] # k
  /\ pc' = [pc EXCEPT ![w] = "alloc"]
  /\ key' = [key EXCEPT ![w] = k]
  /\ UNCHANGED <<phase, pm, ppages, index, slot, cur, acked, crashes>>

\* Nobody holds the latch of the shard: only creating a page takes two steps.
Unlatched(s) == \A u \in Writers : pc[u] = "fill" => ShardOf[key[u]] # s

HasRoom(s) == sz_allocated[s] < PageSlots

\* PPage::alloc, the page has room: the slot and the bump.
Alloc(w) ==
  LET s == ShardOf[key[w]]
  IN /\ phase = "run"
     /\ pc[w] = "alloc"
     /\ Unlatched(s)
     /\ HasRoom(s)
     /\ slot' = [slot EXCEPT ![w] = [page |-> start_addr[s], off |-> sz_allocated[s]]]
     /\ sz_allocated' = [sz_allocated EXCEPT ![s] = @ + 1]
     /\ pc' = [pc EXCEPT ![w] = "store"]
     /\ UNCHANGED <<phase, pm, ppage_id, start_addr, index, key, cur, acked, crashes>>

\* PPage::alloc, the page is full: the next page is created ...
Create(w) ==
  LET s == ShardOf[key[w]]
  IN /\ phase = "run"
     /\ pc[w] = "alloc"
     /\ Unlatched(s)
     /\ ~HasRoom(s)
     /\ ppage_id[s] + 1 < MaxPages
     /\ CreatePage(s)
     /\ pc' = [pc EXCEPT ![w] = "fill"]
     /\ UNCHANGED <<phase, sz_allocated, start_addr, index, key, slot, cur, acked, crashes>>

\* ... and filled with 1s, and its first slot is handed out.
Fill(w) ==
  LET s == ShardOf[key[w]]
  IN /\ phase = "run"
     /\ pc[w] = "fill"
     /\ FillPage(s)
     /\ slot' = [slot EXCEPT ![w] = [page |-> ppage_id[s], off |-> 0]]
     /\ sz_allocated' = [sz_allocated EXCEPT ![s] = 1]
     /\ pc' = [pc EXCEPT ![w] = "store"]
     /\ UNCHANGED <<phase, ppage_id, index, key, cur, acked, crashes>>

\* pmem_map_file fails for want of space: exit(1).
OutOfSpace(w) ==
  /\ phase = "run"
  /\ pc[w] = "alloc"
  /\ Unlatched(ShardOf[key[w]])
  /\ ~HasRoom(ShardOf[key[w]])
  /\ ppage_id[ShardOf[key[w]]] + 1 = MaxPages
  /\ phase' = "exit"
  /\ UNCHANGED <<pm, ppages, index, writers, cur, acked, crashes>>

\* Mutant: the key is acknowledged and indexed before the log is written.
StoreLater(w) ==
  /\ phase = "run"
  /\ pc[w] = "store"
  /\ slot[w].page # NULL
  /\ pc' = [pc EXCEPT ![w] = "index"]
  /\ UNCHANGED <<phase, pm, ppages, index, key, slot, cur, acked, crashes>>

\* store_persist: a log is in persistent memory whole or not at all.
Store(w) ==
  /\ phase = "run"
  /\ pc[w] = "store"
  /\ slot[w].page # NULL
  /\ pm' = [pm EXCEPT ![ShardOf[key[w]]][slot[w].page][slot[w].off] = key[w]]
  /\ pc' = [pc EXCEPT ![w] = "index"]
  /\ UNCHANGED <<phase, ppages, index, key, slot, cur, acked, crashes>>

\* db_->insert, and the caller learns that the key is stored.
Index(w) ==
  /\ phase = "run"
  /\ pc[w] = "index"
  /\ index' = index \union {key[w]}
  /\ acked' = acked \union {key[w]}
  /\ pc' = [pc EXCEPT ![w] = "idle"]
  /\ key' = [key EXCEPT ![w] = ZeroKey]
  /\ slot' = [slot EXCEPT ![w] = NoSlot]
  /\ UNCHANGED <<phase, pm, ppages, cur, crashes>>

-----------------------------------------------------------------------------
\* Everything volatile is gone.
Die ==
  /\ phase' = "down"
  /\ ppage_id' = Fresh.ppage_id
  /\ sz_allocated' = Fresh.sz_allocated
  /\ start_addr' = Fresh.start_addr
  /\ index' = {}
  /\ pc' = Fresh.pc /\ key' = Fresh.key /\ slot' = Fresh.slot
  /\ cur' = Fresh.cur
  /\ UNCHANGED <<pm, acked>>

Crash ==
  /\ phase \in {"boot", "run", "map", "scan"}
  /\ crashes < MaxCrashes
  /\ crashes' = crashes + 1
  /\ Die

\* A store through start_addr_ = NULL: the process is killed.
StoreThroughNull(w) ==
  /\ phase = "run"
  /\ pc[w] = "store"
  /\ slot[w].page = NULL
  /\ crashes < MaxCrashes
  /\ crashes' = crashes + 1
  /\ Die

-----------------------------------------------------------------------------
\* The next process: logdb(recovery = true), whose PPages map nothing.
Restart ==
  /\ phase = "down"
  /\ phase' = "map"
  /\ UNCHANGED <<pm, ppages, index, writers, cur, acked, crashes>>

\* Map every file; set_page_start_addr raises the shard's page id to the highest.
FilesOf(s) == {p \in PageIds : pm[s][p] # NoFile}

Newest(s) ==
  IF FilesOf(s) = {} THEN -1 ELSE CHOOSE p \in FilesOf(s) : \A q \in FilesOf(s) : q <= p

\* Where a recoverer starts on shard s: the newest page, or nowhere.
At(s) == [sh |-> s, page |-> Newest(s), off |-> 0]

MapFiles ==
  /\ phase = "map"
  /\ ppage_id' = [s \in Shards |-> Newest(s)]
  /\ cur' = [i \in Recoverers |->
               IF RangeBegin(i) < RangeEnd(i) THEN At(RangeBegin(i))
               ELSE Done]
  /\ phase' = "scan"
  /\ UNCHANGED <<pm, sz_allocated, start_addr, index, writers, acked, crashes>>

Scanning(i) == phase = "scan" /\ cur[i].sh # NoShard
InLog(c) == c.page >= 0 /\ c.off < PageSlots
AtInsert(c) == InLog(c) /\ IsInsert(pm[c.sh][c.page][c.off])

\* An INSERT log: its key goes into the index.
ScanLog(i) ==
  LET c == cur[i]
  IN /\ Scanning(i)
     /\ AtInsert(c)
     /\ index' = index \union {KeyOf(pm[c.sh][c.page][c.off])}
     /\ cur' = [cur EXCEPT ![i].off = @ + 1]
     /\ UNCHANGED <<phase, pm, ppages, writers, acked, crashes>>

\* Mutants: every page sets the shard's tail; a page is never left.
ScanAnyPageEnd(i) ==
  LET c == cur[i]
  IN /\ Scanning(i)
     /\ c.page >= 0
     /\ ~AtInsert(c)
     /\ sz_allocated' = [sz_allocated EXCEPT ![c.sh] = c.off]
     /\ cur' = [cur EXCEPT ![i].page = @ - 1, ![i].off = 0]
     /\ UNCHANGED <<phase, pm, ppage_id, start_addr, index, writers, acked, crashes>>

ScanPageAgain(i) ==
  LET c == cur[i]
  IN /\ Scanning(i)
     /\ c.page >= 0
     /\ ~AtInsert(c)
     /\ cur' = [cur EXCEPT ![i].off = 0]
     /\ UNCHANGED <<phase, pm, ppages, index, writers, acked, crashes>>

\* Anything else ends the page; the newest page's end is where the shard goes on
\* allocating.  Then the next older page.
ScanPageEnd(i) ==
  LET c == cur[i]
  IN /\ Scanning(i)
     /\ c.page >= 0
     /\ ~AtInsert(c)
     /\ sz_allocated' = IF c.page = ppage_id[c.sh]
                        THEN [sz_allocated EXCEPT ![c.sh] = c.off] ELSE sz_allocated
     /\ cur' = [cur EXCEPT ![i].page = @ - 1, ![i].off = 0]
     /\ UNCHANGED <<phase, pm, ppage_id, start_addr, index, writers, acked, crashes>>

ScanShardEnd(i) ==
  LET c == cur[i]
  IN /\ Scanning(i)
     /\ c.page < 0
     /\ cur' = [cur EXCEPT ![i] = IF c.sh + 1 < RangeEnd(i) THEN At(c.sh + 1)
                                  ELSE Done]
     /\ UNCHANGED <<phase, pm, ppages, index, writers, acked, crashes>>

\* The threads are joined; the store is open.
Join ==
  /\ phase = "scan"
  /\ \A i \in Recoverers : cur[i] = Done
  /\ phase' = "run"
  /\ UNCHANGED <<pm, ppages, index, writers, cur, acked, crashes>>

-----------------------------------------------------------------------------
Writer(w) ==
  \/ \E k \in Keys : Call(w, k)
  \/ Alloc(w) \/ Create(w) \/ Fill(w) \/ OutOfSpace(w) \/ Store(w)
  \/ Index(w) \/ StoreThroughNull(w)

Recovery ==
  \/ MapFiles \/ Join
  \/ \E i \in Recoverers : ScanLog(i) \/ ScanPageEnd(i) \/ ScanShardEnd(i)

Boot == BootCreate \/ BootFill \/ Open

\* The process has exited, or is up with nothing to do.
Rest == phase \in {"exit", "run"} /\ UNCHANGED vars

Next == Boot \/ Crash \/ Restart \/ Recovery \/ Rest \/ \E w \in Writers : Writer(w)

Spec == Init /\ [][Next]_vars

\* The recovery threads of a process that was started run.
FairSpec == Spec /\ WF_vars(Recovery)

-----------------------------------------------------------------------------
\* A log of key k is in some page file.
Stored(k) == \E s \in Shards, p \in PageIds, o \in Slots : pm[s][p][o] = k

\* Whatever moment the process died at, recovery finds no key that nobody wrote,
\* but for the key 0, and that only after a crash inside alloc_new_ppage.
InventsOnlyZeroKey ==
  \A k \in index : Stored(k) \/ (k = ZeroKey /\ \E s \in Shards, p \in PageIds : pm[s][p] = Zeros)

\* With several writers recovery can lose an insert that returned, but only one
\* whose every log lies behind a slot that was handed out and not yet written
\* when the process died; a log of it elsewhere is that of a new insert of the
\* key, which has still to tell the index.
BehindHole(s, p, o) == \E q \in 0 .. o - 1 : pm[s][p][q] = "ones"
InFlight(s, p, o) ==
  \E w \in Writers : pc[w] = "index" /\ ShardOf[key[w]] = s /\ slot[w] = [page |-> p, off |-> o]
LostOnlyBehindHole ==
  phase = "run" => \A k \in acked \ index :
    /\ Stored(k)
    /\ \A s \in Shards, p \in PageIds, o \in Slots :
         pm[s][p][o] = k => BehindHole(s, p, o) \/ InFlight(s, p, o)

\* The shard goes on allocating behind the logs of its newest page, so a log
\* that survived the crash is not overwritten, unless it lies behind a hole.
TailPastLogs ==
  phase = "run" => \A s \in Shards, o \in Slots :
    ppage_id[s] >= 0 /\ o >= sz_allocated[s] /\ pm[s][ppage_id[s]][o] \in Keys =>
      BehindHole(s, ppage_id[s], o)

\* Recovery maps the log files and sets each PPage's newest page: an allocation
\* after it is in a mapped page.
StoresAreMapped == \A w \in Writers : pc[w] = "store" => slot[w].page # NULL

\* A process that was restarted opens the store, unless it dies again: the
\* scans of all threads, whatever the crash left in the pages, come to an end.
RecoveryCompletes == phase \in {"map", "scan"} ~> phase \in {"run", "down"}
=============================================================================
