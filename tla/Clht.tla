-------------------------------- MODULE Clht --------------------------------
(***************************************************************************)
(* The hash table behind logdb's cache (src/src/clht/clht_lb_res.cc and    *)
(* src/include/clht/clht_lb_res.h): lock-free clht_get, clht_put and       *)
(* clht_remove under a lock per bucket, and the resize that copies bucket  *)
(* after bucket and leaves every old bucket locked.                        *)
(*                                                                         *)
(* A bin is the sequence of the slots of its chain of buckets; it grows by *)
(* a bucket at a time.  Tables that were replaced stay: ssmem takes them   *)
(* back and gives no memory away before the timestamp of every registered  *)
(* thread has moved, and nothing in src/ moves one.  The status lock keeps *)
(* nobody out in this build (CLHT_DO_CHECK_STATUS is 0) and is left out.   *)
(*                                                                         *)
(* A thread registers with clht_gc_thread_init, which gives it an id and   *)
(* an allocator; without them the first step of a resize kills the         *)
(* process.  No code in src/ registers a thread: the cache as this         *)
(* repository uses it is the case registered = {}, and the resizes are     *)
(* those of a program whose threads do register.                           *)
(***************************************************************************)
EXTENDS Integers, Sequences, FiniteSets

CONSTANTS Threads,
          Keys,          \* positive integers: the key 0 marks an empty slot
          Slots,         \* ENTRIES_PER_BUCKET (3)
          FirstBuckets,  \* CLHT_NUM_BUCKETS, a power of two
          OccupAfterRes, \* CLHT_OCCUP_AFTER_RES (40)
          FullHalve,     \* CLHT_PERC_FULL_HALVE (5)
          Calls,         \* bound: the calls that are made, of which function with which key
          Registrations, \* bound: which threads have called clht_gc_thread_init
          MaxTables,     \* bound: tables created
          MaxOps         \* bound: how many

ASSUME ClhtAssumption ==
  /\ Keys \subseteq Nat \ {0} /\ Slots \in Nat \ {0} /\ FirstBuckets \in Nat \ {0}
  /\ OccupAfterRes \in Nat \ {0} /\ FullHalve \in Nat
  /\ Calls \subseteq {"get", "put", "remove"} \X Keys
  /\ Registrations \subseteq SUBSET Threads
  /\ MaxTables \in Nat \ {0} /\ MaxOps \in Nat

VARIABLES
  ht,       \* clht_t::ht: the current table
  tables,   \* all tables: buckets, bins, locks, table_new, num_expands
  resizing, \* resize_lock
  th,       \* the threads: program counter, call and locals; history: whether a get must
            \* find its key, and how often the value it has read was replaced since
  given,    \* history: the keys put and not removed since
  ops,      \* bound: calls made
  registered, \* the threads whose clht_ts_thread and clht_alloc are not NULL
  alive     \* no NULL of an unregistered thread has been dereferenced yet

process == <<registered, alive>>
vars == <<ht, tables, resizing, th, given, ops, process>>

----------------------------------------------------------------------------
\* The value a key is put with: one per key tells whose it is.
ValueOf(k) == <<"value", k>>
NoValue == <<"no value">>

Empty == [key |-> 0, val |-> NoValue]

\* clht_hashtable_create.
NewTable(n) == [n |-> n, bins |-> [b \in 0..(n - 1) |-> [i \in 1..Slots |-> Empty]],
                lock |-> [b \in 0..(n - 1) |-> "free"], new |-> 0, expands |-> 0]

\* Mutant: every put beyond the threshold asks for a resize.
AtThresholdOrAbove(expands, table) == expands >= table.n

\* num_expands_threshold is CLHT_PERC_EXPANSIONS (1) times the buckets; a put asks
\* for the resize when it makes num_expands equal to it.
AtThreshold(expands, table) == expands = table.n

clht_hash(table, k) == k % table.n

\* The slots of a bin with key k (k = 0: the empty ones), and the first of them.
Holding(bin, k) == {i \in 1..Len(bin) : bin[i].key = k}
First(s) == CHOOSE i \in s : \A j \in s : i <= j

Bin(t, k) == tables[t].bins[clht_hash(tables[t], k)]
bucket_exists(t, k) == Holding(Bin(t, k), k) # {}

\* clht_put_seq: the first empty slot, or a new bucket.
PutSeq(table, k, v) ==
  LET b == clht_hash(table, k)
      free == Holding(table.bins[b], 0)
      entry == [key |-> k, val |-> v]
  IN IF free # {} THEN [table EXCEPT !.bins[b][First(free)] = entry]
     ELSE [table EXCEPT !.bins[b] = @ \o <<entry>> \o [i \in 1..(Slots - 1) |-> Empty],
                        !.expands = @ + 1]

Idle == [pc |-> "idle", key |-> 0, t |-> 0, i |-> 0, val |-> NoValue, old |-> 0,
         pos |-> 0, new |-> 0, size |-> 0,
         resize |-> FALSE, sure |-> FALSE, writes |-> 0]

Go(p, pc) == th' = [th EXCEPT ![p].pc = pc]

Init ==
  /\ ht = 1 /\ tables = <<NewTable(FirstBuckets)>> /\ resizing = FALSE
  /\ th = [p \in Threads |-> Idle]
  /\ given = {} /\ ops = 0
  /\ registered \in Registrations /\ alive = TRUE

\* A call begins by reading h->ht.
Call(p, pc, k) ==
  /\ th[p].pc = "idle" /\ ops < MaxOps
  /\ th' = [th EXCEPT ![p] = [Idle EXCEPT !.pc = pc, !.key = k, !.t = ht, !.i = 1,
                                           !.sure = k \in given]]
  /\ ops' = ops + 1
  /\ UNCHANGED <<ht, tables, resizing, given, process>>

----------------------------------------------------------------------------
(* clht_get: per slot the value is read, then the key, then the value again. *)

SlotOf(p) == Bin(th[p].t, th[p].key)[th[p].i]

GetVal(p) ==
  /\ th[p].pc = "get"
  /\ th' = [th EXCEPT ![p].val = SlotOf(p).val, ![p].writes = 0, ![p].pc = "getkey"]
  /\ UNCHANGED <<ht, tables, resizing, given, ops, process>>

\* Mutant: the next bucket of the chain is not visited.
GetKeyOneBucket(p) ==
  /\ th[p].pc = "getkey"
  /\ th' = [th EXCEPT ![p] =
       CASE SlotOf(p).key = @.key -> [@ EXCEPT !.pc = "getcheck"]
         [] SlotOf(p).key # @.key /\ @.i < Slots -> [@ EXCEPT !.pc = "get", !.i = th[p].i + 1]
         [] OTHER -> [@ EXCEPT !.pc = "got", !.val = NoValue]]
  /\ UNCHANGED <<ht, tables, resizing, given, ops, process>>

GetKey(p) ==
  /\ th[p].pc = "getkey"
  /\ th' = [th EXCEPT ![p] =
       CASE SlotOf(p).key = @.key -> [@ EXCEPT !.pc = "getcheck"]
         [] SlotOf(p).key # @.key /\ @.i < Len(Bin(@.t, @.key)) -> [@ EXCEPT !.pc = "get", !.i = th[p].i + 1]
         [] OTHER -> [@ EXCEPT !.pc = "got", !.val = NoValue]]
  /\ UNCHANGED <<ht, tables, resizing, given, ops, process>>

\* Mutant: the value is not read again.
GetUnchecked(p) ==
  /\ th[p].pc = "getcheck"
  /\ Go(p, "got")
  /\ UNCHANGED <<ht, tables, resizing, given, ops, process>>

GetCheck(p) ==
  /\ th[p].pc = "getcheck"
  /\ th' = [th EXCEPT ![p].val = IF SlotOf(p).val = @ THEN @ ELSE NoValue, ![p].pc = "got"]
  /\ UNCHANGED <<ht, tables, resizing, given, ops, process>>

Got(p) ==
  /\ th[p].pc = "got"
  /\ th' = [th EXCEPT ![p] = Idle]
  /\ UNCHANGED <<ht, tables, resizing, given, ops, process>>

\* The place whose value a get has read.
ReadAt(q) == IF th[q].pc \in {"getkey", "getcheck"}
             THEN <<th[q].t, clht_hash(tables[th[q].t], th[q].key), th[q].i>> ELSE <<>>

----------------------------------------------------------------------------
(* clht_put and clht_remove: a look without the lock, then the lock.  The  *)
(* look reads slot after slot and is one step all the same: a key stays in *)
(* its slot, so the look tells what was so at some moment during it, and   *)
(* nothing else of it lives on.                                            *)

Exists(p) ==
  /\ th[p].pc \in {"put", "remove"}
  /\ th' = [th EXCEPT ![p] =
       IF bucket_exists(@.t, @.key) = (@.pc = "put") THEN Idle
       ELSE [@ EXCEPT !.pc = IF th[p].pc = "put" THEN "putlock" ELSE "removelock"]]
  /\ UNCHANGED <<ht, tables, resizing, given, ops, process>>

LockOf(p) == tables[th[p].t].lock[clht_hash(tables[th[p].t], th[p].key)]
SetLock(p, l) == [tables EXCEPT ![th[p].t].lock[clht_hash(tables[th[p].t], th[p].key)] = l]
WithLock(pc) == IF pc = "putlock" THEN "putscan" ELSE "removescan"
Waiting == {"putwait", "removewait"}

\* lock_acq_chk_resize.
LockAcq(p) ==
  /\ th[p].pc \in {"putlock", "removelock"}
  /\ \/ /\ LockOf(p) = "free"
        /\ tables' = SetLock(p, "update")
        /\ Go(p, WithLock(th[p].pc))
     \/ /\ LockOf(p) = "resize"
        /\ Go(p, IF th[p].pc = "putlock" THEN "putwait" ELSE "removewait")
        /\ UNCHANGED tables
  /\ UNCHANGED <<ht, resizing, given, ops, process>>

\* table_new is there: h->ht is read again and the lock tried in it.
WaitNew(p) ==
  /\ th[p].pc \in Waiting /\ tables[th[p].t].new # 0
  /\ th' = [th EXCEPT ![p].t = ht, ![p].pc = IF @ = "putwait" THEN "putlock" ELSE "removelock"]
  /\ UNCHANGED <<ht, tables, resizing, given, ops, process>>

\* Mutant: the key is not looked for again under the lock.
PutScanTrusting(p) ==
  LET t == th[p].t  k == th[p].key IN
  /\ th[p].pc = "putscan"
  /\ tables' = [tables EXCEPT ![t] = PutSeq(@, k, ValueOf(k))]
  /\ given' = given \cup {k}
  /\ Go(p, "unlock")
  /\ UNCHANGED <<ht, resizing, ops, process>>

\* The chain is searched under the lock; an empty slot gets its value first.
PutScan(p) ==
  LET t == th[p].t  k == th[p].key  b == clht_hash(tables[t], k)
      free == Holding(tables[t].bins[b], 0)
  IN
  /\ th[p].pc = "putscan"
  /\ \/ bucket_exists(t, k) /\ Go(p, "unlock") /\ UNCHANGED <<tables, given>>
     \/ /\ ~bucket_exists(t, k) /\ free # {}
        /\ tables' = [tables EXCEPT ![t].bins[b][First(free)].val = ValueOf(k)]
        /\ th' = [q \in Threads |->
             CASE q = p -> [th[q] EXCEPT !.i = First(free), !.pc = "putkey"]
               [] q # p /\ ReadAt(q) = <<t, b, First(free)>> -> [th[q] EXCEPT !.writes = @ + 1]
               [] OTHER -> th[q]]
        /\ UNCHANGED given
     \/ /\ ~bucket_exists(t, k) /\ free = {}
        /\ tables' = [tables EXCEPT ![t] = PutSeq(@, k, ValueOf(k))]
        /\ th' = [th EXCEPT ![p].pc = "unlock",
                            ![p].resize = AtThreshold(tables[t].expands + 1, tables[t])]
        /\ given' = given \cup {k}
  /\ UNCHANGED <<ht, resizing, ops, process>>

PutKey(p) ==
  LET t == th[p].t  k == th[p].key IN
  /\ th[p].pc = "putkey"
  /\ tables' = [tables EXCEPT ![t].bins[clht_hash(tables[t], k)][th[p].i].key = k]
  /\ given' = given \cup {k}
  /\ Go(p, "unlock")
  /\ UNCHANGED <<ht, resizing, ops, process>>

RemoveScan(p) ==
  LET t == th[p].t  k == th[p].key  b == clht_hash(tables[t], k) IN
  /\ th[p].pc = "removescan"
  /\ tables' = IF bucket_exists(t, k)
               THEN [tables EXCEPT ![t].bins[b][First(Holding(Bin(t, k), k))].key = 0]
               ELSE tables
  /\ given' = given \ {k}
  /\ th' = [q \in Threads |-> IF q = p THEN [th[q] EXCEPT !.pc = "unlock"]
                              ELSE IF th[q].key = k THEN [th[q] EXCEPT !.sure = FALSE] ELSE th[q]]
  /\ UNCHANGED <<ht, resizing, ops, process>>

\* LOCK_RLS; a put that made num_expands reach the threshold calls ht_status.
LockRls(p) ==
  /\ th[p].pc = "unlock"
  /\ tables' = SetLock(p, "free")
  /\ th' = [th EXCEPT ![p] = IF @.resize THEN [Idle EXCEPT !.pc = "status"] ELSE Idle]
  /\ UNCHANGED <<ht, resizing, given, ops, process>>

----------------------------------------------------------------------------
(* ht_status(h, 1, 0) and ht_resize_pes.                                   *)

\* A power of two has no odd divisor but 1.
IsPow2(n) == \A d, e \in 1..n : d * e = n => d = 1 \/ d % 2 = 0

Pow2RoundUp(x) == First({n \in 1..(2 * x + 1) : n >= x /\ IsPow2(n)})

Size(table) == Cardinality(UNION {{b} \X {i \in 1..Len(table.bins[b]) : table.bins[b][i].key # 0}
                                  : b \in 0..(table.n - 1)})

\* The number of buckets the status asks for, of a table with n in the end.
NewSize(table, n) ==
  LET full == 100 * Size(table)
      room == table.n * Slots
      by == Pow2RoundUp(full \div (room * OccupAfterRes))
  IN IF full > 0 /\ full < FullHalve * room THEN n \div 8 ELSE n * (IF by = 1 THEN 2 ELSE by)

\* clht_gc_get_id has something to read.  Every status that resizes prints the id.
HasId(p) == p \in registered

\* The status looks at one table, and the resize at h->ht once more.
Status(p) ==
  /\ th[p].pc = "status" /\ HasId(p)
  /\ th' = [th EXCEPT ![p].t = ht, ![p].pc = "resize"]
  /\ UNCHANGED <<ht, tables, resizing, given, ops, process>>

\* clht_gc_get_id through the NULL clht_ts_thread.  The put that came here has
\* stored its key and released its lock.
StatusUnregistered(p) ==
  /\ th[p].pc = "status" /\ ~HasId(p)
  /\ alive' = FALSE
  /\ UNCHANGED <<ht, tables, resizing, th, given, ops, registered>>

ResizeRead(p) ==
  /\ th[p].pc = "resize"
  /\ th' = [th EXCEPT ![p].old = ht, ![p].size = NewSize(tables[th[p].t], tables[ht].n),
                      ![p].pc = "trylock"]
  /\ UNCHANGED <<ht, tables, resizing, given, ops, process>>

\* TRYLOCK_ACQ(&h->resize_lock), and the new table; there is none of no buckets.
ResizeLock(p) ==
  /\ th[p].pc = "trylock"
  /\ \/ /\ resizing
        /\ th' = [th EXCEPT ![p] = Idle]
        /\ UNCHANGED <<resizing, tables>>
     \/ /\ ~resizing /\ th[p].size > 0 /\ Len(tables) < MaxTables
        /\ resizing' = TRUE
        /\ tables' = Append(tables, NewTable(th[p].size))
        /\ th' = [th EXCEPT ![p].new = Len(tables) + 1, ![p].pos = 0, ![p].pc = "copy"]
  /\ UNCHANGED <<ht, given, ops, process>>

\* Mutant: an update under way is not waited for.
BucketLockAtOnce(p) ==
  LET old == th[p].old  b == th[p].pos IN
  /\ th[p].pc = "copy" /\ b < tables[old].n
  /\ tables' = [tables EXCEPT ![old].lock[b] = "resize"]
  /\ th' = [th EXCEPT ![p].i = 1, ![p].pc = "copyslot"]
  /\ UNCHANGED <<ht, resizing, given, ops, process>>

\* bucket_cpy: lock_acq_resize waits for an update and passes over a bucket that
\* is locked for a resize already.
BucketLock(p) ==
  LET old == th[p].old  b == th[p].pos IN
  /\ th[p].pc = "copy" /\ b < tables[old].n /\ tables[old].lock[b] # "update"
  /\ tables' = [tables EXCEPT ![old].lock[b] = "resize"]
  /\ th' = [th EXCEPT ![p] = IF tables[old].lock[b] = "free" THEN [@ EXCEPT !.i = 1, !.pc = "copyslot"]
                             ELSE [@ EXCEPT !.pos = b + 1]]
  /\ UNCHANGED <<ht, resizing, given, ops, process>>

\* The rest of bucket_cpy: the slots one after the other, into the new table.
BucketCpy(p) ==
  LET bin == tables[th[p].old].bins[th[p].pos]
      entry == bin[th[p].i]
  IN
  /\ th[p].pc = "copyslot"
  /\ tables' = IF entry.key = 0 THEN tables
               ELSE [tables EXCEPT ![th[p].new] = PutSeq(@, entry.key, entry.val)]
  /\ th' = [th EXCEPT ![p] = IF @.i < Len(bin) THEN [@ EXCEPT !.i = th[p].i + 1]
                             ELSE [@ EXCEPT !.pos = th[p].pos + 1, !.pc = "copy"]]
  /\ UNCHANGED <<ht, resizing, given, ops, process>>

ResizeSwap(p) ==
  /\ th[p].pc = "copy" /\ th[p].pos = tables[th[p].old].n
  /\ ht' = th[p].new
  /\ th' = [th EXCEPT ![p].resize = tables[th[p].new].expands >= tables[th[p].new].n, ![p].pc = "publish"]
  /\ UNCHANGED <<tables, resizing, given, ops, process>>

\* Mutant: table_new is not set.
ResizeUnpublished(p) ==
  /\ th[p].pc = "publish"
  /\ Go(p, "release")
  /\ UNCHANGED <<ht, tables, resizing, given, ops, process>>

ResizePublish(p) ==
  /\ th[p].pc = "publish"
  /\ tables' = [tables EXCEPT ![th[p].old].new = th[p].new]
  /\ Go(p, "release")
  /\ UNCHANGED <<ht, resizing, given, ops, process>>

\* A new table that needed too many extra buckets is resized again; whether it
\* did was seen before it was published, when nobody else could add one.  The id
\* and the allocator are there, since Status let only a registered thread through;
\* the released table stays readable.
ResizeRelease(p) ==
  /\ th[p].pc = "release"
  /\ resizing' = FALSE
  /\ th' = [th EXCEPT ![p] = IF @.resize THEN [Idle EXCEPT !.pc = "status"] ELSE Idle]
  /\ UNCHANGED <<ht, tables, given, ops, process>>
----------------------------------------------------------------------------
Step(p) == alive /\
  \/ GetVal(p) \/ GetKey(p) \/ GetCheck(p) \/ Got(p)
  \/ Exists(p) \/ LockAcq(p) \/ WaitNew(p) \/ PutScan(p) \/ PutKey(p) \/ RemoveScan(p) \/ LockRls(p)
  \/ Status(p) \/ StatusUnregistered(p) \/ ResizeRead(p) \/ ResizeLock(p) \/ BucketLock(p) \/ BucketCpy(p)
  \/ ResizeSwap(p) \/ ResizePublish(p) \/ ResizeRelease(p)

Next == \E p \in Threads : (alive /\ \E c \in Calls : Call(p, c[1], c[2])) \/ Step(p)

\* A thread inside a call keeps running while the process lives.
Spec == Init /\ [][Next]_vars /\ \A p \in Threads : WF_vars(Step(p))

----------------------------------------------------------------------------
\* A key is in one slot at most: the look without the lock is repeated under it,
\* and a resize copies no key twice (clht_lb_res.cc:272-345, 438-461).
NoDuplicates == \A t \in 1..Len(tables) : \A k \in Keys : Cardinality(Holding(Bin(t, k), k)) <= 1

\* clht_get returns no other key's value, although it locks nothing and the slot
\* may be emptied and used again between its reads: the second look at the value
\* tells, unless the slot was used again twice, the second time with the value
\* that was there first (clht_lb_res.cc:219-251).
GetOwnValue ==
  \A p \in Threads : th[p].pc = "got" /\ th[p].writes < 2 =>
    th[p].val \in {NoValue, ValueOf(th[p].key)}

\* clht_get finds a key that was there when it began and was not removed since,
\* although it may walk a table that is being replaced (clht_lb_res.cc:219-251).
GetFinds == \A p \in Threads : th[p].pc = "got" /\ th[p].sure => th[p].val # NoValue

\* The current table holds the keys put and not removed, at every moment of a
\* resize (clht_lb_res.cc:486-587).
KeysKept == \A k \in Keys : k \in given <=> bucket_exists(ht, k)

\* A resize copies the current table, although it reads h->ht before it takes the
\* resize lock (clht_lb_res.cc:492-494).
ResizesCurrent == \A p \in Threads : th[p].pc \in {"copy", "copyslot"} => th[p].old = ht

\* Every call returns, or the process dies in it, which only a put at the threshold
\* of a thread without an id can bring about: nobody waits for a lock or for table_new
\* for ever (clht_lb_res.h:292-324, clht_lb_res.cc:684, clht_gc.cc:101-104).  "trylock"
\* is where the bound on tables stops a resize.
CallsReturn ==
  \A p \in Threads : th[p].pc # "idle" ~> \/ th[p].pc \in {"idle", "trylock"}
                                          \/ ~alive /\ registered # Threads
=============================================================================
