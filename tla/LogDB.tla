------------------------------- MODULE LogDB -------------------------------
(***************************************************************************)
(* logdb of src/include/logdb.h: a key-value store made of a DRAM index    *)
(* from keys to log addresses, the persistent log, and a cache of values   *)
(* in front of both.  Foreground threads run insert, update, erase and     *)
(* search; every call into the index, the log or the cache is a step.      *)
(*                                                                         *)
(* The log is used through LogSpace's promise (PPageLog implements it): an *)
(* allocation is one step and returns an address no one else has; the      *)
(* addresses are numbered in the order in which they are handed out.  The  *)
(* index is external, any Tree whose operations are atomic; the cache is   *)
(* CLHT used as a map whose put leaves an existing key alone.              *)
(***************************************************************************)
EXTENDS Integers

CONSTANTS
  Threads,      \* foreground threads
  Keys, Values,
  None,         \* no address, no value, no key
  Ones,         \* the value field of a log slot that was never written
  UseCache,     \* is USE_CACHE defined
  CacheSample,  \* CACHE_SAMPLE: every so many gets of a thread are cached
  MaxLogs       \* bound: log slots handed out

ASSUME LogDBConstants ==
  /\ None \notin Values /\ Ones \notin Values /\ None # Ones
  /\ None \notin Nat
  /\ UseCache \in BOOLEAN
  /\ CacheSample \in Nat \ {0}
  /\ MaxLogs \in Nat \ {0}

Addrs == 0 .. MaxLogs - 1

\* Pair_t: op, key, value and u_offset, the address of the key's older log.
\* A page is filled with 1s, so an unwritten slot reads as TRASH.
Unwritten == [op |-> "TRASH", key |-> None, value |-> Ones, old |-> None]
Entries == [op: {"INSERT", "UPDATE", "DELETE", "TRASH"}, key: Keys \union {None},
            value: Values \union {None, Ones}, old: Addrs \union {None}]

VARIABLES
  index,   \* db_, the DRAM index: key -> log address
  log,     \* the log slots
  nlog,    \* log slots handed out by alloc_log
  cache,   \* clht_cache_: key -> value
  get_cnt, \* gets of each thread, modulo CacheSample
  pc, key, val, addr, old,  \* where each thread is, and its locals
  abs,     \* history: the value each key has, by the order of the index steps
  seen     \* history: abs of the key when a search read the index

vars == <<index, log, nlog, cache, get_cnt, pc, key, val, addr, old, abs, seen>>
locals == <<key, val, addr, old, seen>>

Init ==
  /\ index = [k \in Keys |-> None]
  /\ log = [a \in Addrs |-> Unwritten]
  /\ nlog = 0
  /\ cache = [k \in Keys |-> None]
  /\ get_cnt = [t \in Threads |-> 0]
  /\ pc = [t \in Threads |-> "idle"]
  /\ key = [t \in Threads |-> None]
  /\ val = [t \in Threads |-> None]
  /\ addr = [t \in Threads |-> None]
  /\ old = [t \in Threads |-> None]
  /\ abs = [k \in Keys |-> None]
  /\ seen = [t \in Threads |-> None]

Goto(t, l) == pc' = [pc EXCEPT ![t] = l]

\* An operation is over: its locals mean nothing any more.
Finish(t) ==
  /\ Goto(t, "idle")
  /\ key' = [key EXCEPT ![t] = None]
  /\ val' = [val EXCEPT ![t] = None]
  /\ addr' = [addr EXCEPT ![t] = None]
  /\ old' = [old EXCEPT ![t] = None]
  /\ seen' = [seen EXCEPT ![t] = None]

\* Mutant: a slot is handed out again and again.
AllocLogTwice(t) ==
  /\ nlog < MaxLogs
  /\ addr' = [addr EXCEPT ![t] = nlog]
  /\ UNCHANGED nlog

\* LogKV::alloc_log, as LogSpace promises it.
AllocLog(t) ==
  /\ nlog < MaxLogs
  /\ addr' = [addr EXCEPT ![t] = nlog]
  /\ nlog' = nlog + 1

\* Pair_t::store_persist at the address that alloc_log gave.
Store(t, op, v, o) ==
  log' = [log EXCEPT ![addr[t]] = [op |-> op, key |-> key[t], value |-> v, old |-> o]]

-----------------------------------------------------------------------------
\* insert: write the log, then tell the index.  The callers insert a key that
\* is absent and that nobody else is inserting.
InsertAlloc(t, k, v) ==
  /\ pc[t] = "idle"
  /\ index[k] = None
  /\ \A u \in Threads : ~(pc[u] \in {"ins_store", "ins_index"} /\ key[u] = k)
  /\ AllocLog(t)
  /\ key' = [key EXCEPT ![t] = k]
  /\ val' = [val EXCEPT ![t] = v]
  /\ Goto(t, "ins_store")
  /\ UNCHANGED <<index, log, cache, get_cnt, old, abs, seen>>

InsertStore(t) ==
  /\ pc[t] = "ins_store"
  /\ Store(t, "INSERT", val[t], None)
  /\ Goto(t, "ins_index")
  /\ UNCHANGED <<index, nlog, cache, get_cnt, locals, abs>>

InsertIndex(t) ==
  /\ pc[t] = "ins_index"
  /\ index' = [index EXCEPT ![key[t]] = addr[t]]
  /\ abs' = [abs EXCEPT ![key[t]] = val[t]]
  /\ Finish(t)
  /\ UNCHANGED <<log, nlog, cache, get_cnt>>

-----------------------------------------------------------------------------
\* update: reserve a slot (update_step1), swap its address into the index, then
\* write the log there (update_step2).  An absent key leaves the slot unwritten.
UpdateAlloc(t, k, v) ==
  /\ pc[t] = "idle"
  /\ AllocLog(t)
  /\ key' = [key EXCEPT ![t] = k]
  /\ val' = [val EXCEPT ![t] = v]
  /\ Goto(t, "upd_index")
  /\ UNCHANGED <<index, log, cache, get_cnt, old, abs, seen>>

\* Mutant: the index hands back the address it holds after the swap.
UpdateIndexOldIsNew(t) ==
  /\ pc[t] = "upd_index"
  /\ index[key[t]] # None
  /\ old' = [old EXCEPT ![t] = addr[t]]
  /\ index' = [index EXCEPT ![key[t]] = addr[t]]
  /\ abs' = [abs EXCEPT ![key[t]] = val[t]]
  /\ Goto(t, "upd_store")
  /\ UNCHANGED <<log, nlog, cache, get_cnt, key, val, addr, seen>>

UpdateIndex(t) ==
  /\ pc[t] = "upd_index"
  /\ index[key[t]] # None
  /\ old' = [old EXCEPT ![t] = index[key[t]]]
  /\ index' = [index EXCEPT ![key[t]] = addr[t]]
  /\ abs' = [abs EXCEPT ![key[t]] = val[t]]
  /\ Goto(t, "upd_store")
  /\ UNCHANGED <<log, nlog, cache, get_cnt, key, val, addr, seen>>

UpdateAbsent(t) ==
  /\ pc[t] = "upd_index"
  /\ index[key[t]] = None
  /\ Finish(t)
  /\ UNCHANGED <<index, log, nlog, cache, get_cnt, abs>>

\* Mutant: the log is written over the key's older log.
UpdateStoreInPlace(t) ==
  /\ pc[t] = "upd_store"
  /\ log' = [log EXCEPT ![old[t]] = [op |-> "UPDATE", key |-> key[t],
                                     value |-> val[t], old |-> None]]
  /\ Finish(t)
  /\ UNCHANGED <<index, nlog, cache, get_cnt, abs>>

UpdateStore(t) ==
  /\ pc[t] = "upd_store"
  /\ Store(t, "UPDATE", val[t], old[t])
  /\ Finish(t)
  /\ UNCHANGED <<index, nlog, cache, get_cnt, abs>>

-----------------------------------------------------------------------------
\* erase: look the old address up, delete the key from the index, then write a
\* DELETE log.  A key that is not found leaves addr_info = 0, which is the
\* address of the first slot; the DELETE log is written all the same.
EraseSearch(t, k) ==
  /\ pc[t] = "idle"
  /\ key' = [key EXCEPT ![t] = k]
  /\ old' = [old EXCEPT ![t] = IF index[k] = None THEN 0 ELSE index[k]]
  /\ Goto(t, "ers_index")
  /\ UNCHANGED <<index, log, nlog, cache, get_cnt, val, addr, abs, seen>>

EraseIndex(t) ==
  /\ pc[t] = "ers_index"
  /\ index' = [index EXCEPT ![key[t]] = None]
  /\ abs' = [abs EXCEPT ![key[t]] = None]
  /\ Goto(t, "ers_alloc")
  /\ UNCHANGED <<log, nlog, cache, get_cnt, locals>>

EraseAlloc(t) ==
  /\ pc[t] = "ers_alloc"
  /\ AllocLog(t)
  /\ Goto(t, "ers_store")
  /\ UNCHANGED <<index, log, cache, get_cnt, key, val, old, abs, seen>>

\* Pair_t(k) leaves the value field uninitialized; nobody reads it.
EraseStore(t) ==
  /\ pc[t] = "ers_store"
  /\ Store(t, "DELETE", None, old[t])
  /\ Finish(t)
  /\ UNCHANGED <<index, nlog, cache, get_cnt, abs>>

-----------------------------------------------------------------------------
\* search: the cache first; then the index, the log slot it names and, for one
\* get in CacheSample, the cache again.
CacheHit(t, k) ==
  /\ pc[t] = "idle"
  /\ UseCache /\ cache[k] # None
  /\ get_cnt' = [get_cnt EXCEPT ![t] = (@ + 1) % CacheSample]
  /\ key' = [key EXCEPT ![t] = k]
  /\ val' = [val EXCEPT ![t] = cache[k]]
  /\ Goto(t, "got")
  /\ UNCHANGED <<index, log, nlog, cache, addr, old, abs, seen>>

CacheMiss(t, k) ==
  /\ pc[t] = "idle"
  /\ UseCache => cache[k] = None
  /\ get_cnt' = IF UseCache THEN [get_cnt EXCEPT ![t] = (@ + 1) % CacheSample]
                            ELSE get_cnt
  /\ key' = [key EXCEPT ![t] = k]
  /\ Goto(t, "get_index")
  /\ UNCHANGED <<index, log, nlog, cache, val, addr, old, abs, seen>>

SearchIndex(t) ==
  /\ pc[t] = "get_index"
  /\ addr' = [addr EXCEPT ![t] = index[key[t]]]
  /\ seen' = [seen EXCEPT ![t] = abs[key[t]]]
  /\ Goto(t, IF index[key[t]] = None THEN "got" ELSE "get_read")
  /\ UNCHANGED <<index, log, nlog, cache, get_cnt, key, val, old, abs>>

\* get_addr and memcpy of the value field, whatever the slot holds.
SearchRead(t) ==
  /\ pc[t] = "get_read"
  /\ val' = [val EXCEPT ![t] = log[addr[t]].value]
  /\ Goto(t, IF UseCache /\ get_cnt[t] = 0 THEN "get_put" ELSE "got")
  /\ UNCHANGED <<index, log, nlog, cache, get_cnt, key, addr, old, abs, seen>>

\* clht_put adds the key if it is not there and does nothing otherwise.
CachePut(t) ==
  /\ pc[t] = "get_put"
  /\ cache' = IF cache[key[t]] = None THEN [cache EXCEPT ![key[t]] = val[t]] ELSE cache
  /\ Goto(t, "got")
  /\ UNCHANGED <<index, log, nlog, get_cnt, locals, abs>>

SearchReturn(t) ==
  /\ pc[t] = "got"
  /\ Finish(t)
  /\ UNCHANGED <<index, log, nlog, cache, get_cnt, abs>>

-----------------------------------------------------------------------------
WriteCall(t) ==
  \/ \E k \in Keys, v \in Values : InsertAlloc(t, k, v) \/ UpdateAlloc(t, k, v)
  \/ \E k \in Keys : EraseSearch(t, k)

ReadCall(t) == \E k \in Keys : CacheHit(t, k) \/ CacheMiss(t, k)

Call(t) == WriteCall(t) \/ ReadCall(t)

Continue(t) ==
  \/ InsertStore(t) \/ InsertIndex(t)
  \/ UpdateIndex(t) \/ UpdateAbsent(t) \/ UpdateStore(t)
  \/ EraseIndex(t) \/ EraseAlloc(t) \/ EraseStore(t)
  \/ SearchIndex(t) \/ SearchRead(t) \/ CachePut(t) \/ SearchReturn(t)

\* The log has no room left: alloc_new_ppage calls exit(1).
LogFull == nlog = MaxLogs /\ UNCHANGED vars

Next == LogFull \/ \E t \in Threads : Call(t) \/ Continue(t)

Spec == Init /\ [][Next]_vars

-----------------------------------------------------------------------------
TypeOK ==
  /\ index \in [Keys -> Addrs \union {None}]
  /\ log \in [Addrs -> Entries]
  /\ nlog \in 0 .. MaxLogs
  /\ cache \in [Keys -> Values \union {None, Ones}]
  /\ get_cnt \in [Threads -> 0 .. CacheSample - 1]
  /\ pc \in [Threads -> {"idle", "ins_store", "ins_index", "upd_index", "upd_store",
                         "ers_index", "ers_alloc", "ers_store",
                         "get_index", "get_read", "get_put", "got"}]
  /\ key \in [Threads -> Keys \union {None}]
  /\ val \in [Threads -> Values \union {None, Ones}]
  /\ addr \in [Threads -> Addrs \union {None}]
  /\ old \in [Threads -> Addrs \union {None}]
  /\ abs \in [Keys -> Values \union {None}]
  /\ seen \in [Threads -> Values \union {None}]

\* Thread u has published address a in the index and not yet written its log.
Publishing(u, a) == pc[u] = "upd_store" /\ addr[u] = a

\* An indexed address holds a log of that very key with the key's value, unless
\* an update that just swapped the address in has still to write the log.  No
\* interleaving of insert, update and erase leaves any other address behind.
IndexSound ==
  \A k \in Keys :
    IF index[k] = None THEN abs[k] = None
    ELSE \/ /\ log[index[k]].op \in {"INSERT", "UPDATE"}
            /\ log[index[k]].key = k
            /\ log[index[k]].value = abs[k]
         \/ \E u \in Threads :
              Publishing(u, index[k]) /\ key[u] = k /\ val[u] = abs[k]

\* What search takes from the log is the value the key had when the index was
\* read, however long ago, or the 1s of a slot whose update is still to be
\* written: never another key's value, never a value from before that moment.
ReadIsCurrentOrUnwritten ==
  [][\A t \in Threads : pc[t] = "get_read" /\ pc'[t] # "get_read" =>
       \/ val'[t] = seen[t]
       \/ val'[t] = Ones /\ \E u \in Threads : Publishing(u, addr[t])]_vars

\* The chain of old logs that the collector walks back along is a chain: an
\* UPDATE log names an older log of its own key, and no two of them name the
\* same one, whatever updates race.
Superseded(a) == {b \in Addrs : log[b].op = "UPDATE" /\ log[b].old = a}
UpdateChainLinear ==
  \A a, b \in Addrs :
    log[b].op = "UPDATE" /\ log[b].old = a =>
      /\ a # b
      /\ Superseded(a) = {b}
      /\ log[a].op \in {"INSERT", "UPDATE"} => log[a].key = log[b].key
      /\ log[a].op # "DELETE"

\* A cached value was once read from a log of that key, or from a slot that an
\* update had published and not written; a fill that comes late, after updates
\* and erases of the key, puts nothing else there.
CacheFromOwnLog ==
  \A k \in Keys : cache[k] \in Values =>
    \E a \in Addrs : log[a].key = k /\ log[a].value = cache[k]
=============================================================================
