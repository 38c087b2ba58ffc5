---------------------------- MODULE LogGCProofs ----------------------------
(***************************************************************************)
(* Proofs about the foreground operations of LogDB for any sets of         *)
(* threads, keys and values, any number of log slots, with or without the  *)
(* cache; then about the collector beside the foreground threads, for any  *)
(* number of slots of a page too, as long as callers erase keys they know  *)
(* are there (EraseAbsent = FALSE): an erase of an absent key writes the   *)
(* address 0 as that of the older log.                                     *)
(***************************************************************************)
EXTENDS LogGC, FiniteSetTheorems, TLAPS

-----------------------------------------------------------------------------
\* The inductive invariant, in parts.

\* A thread at one of these points holds a slot nobody has written.
Writing == {"ins_store", "upd_index", "upd_store", "ers_store"}
\* ... and at these it holds a slot that no other thread and no key uses.
Private == {"ins_store", "upd_index", "ers_store", "ins_index"}
Holding == Writing \union Private

\* The locals an operation has set by the time it needs them.
LocalInv ==
  \A t \in Threads :
    /\ pc[t] # "idle" => key[t] \in Keys
    /\ pc[t] \in {"ins_store", "ins_index", "upd_index", "upd_store"} => val[t] \in Values
    /\ pc[t] \in Holding => addr[t] \in Addrs /\ addr[t] < nlog

\* Slots are handed out once and written once.
SlotInv ==
  /\ \A a \in Addrs : nlog <= a => log[a] = Unwritten
  /\ \A t \in Threads : pc[t] \in Holding =>
       /\ \A u \in Threads : pc[u] \in Holding /\ addr[u] = addr[t] => u = t
       /\ pc[t] \in Writing => log[addr[t]] = Unwritten
       /\ pc[t] \in Private => \A k \in Keys : index[k] # addr[t]
       /\ pc[t] = "ins_index" => log[addr[t]] = [op |-> "INSERT", key |-> key[t],
                                                 value |-> val[t], old |-> None]
  /\ \A k \in Keys : index[k] # None => index[k] < nlog

\* A search that took an address from the index will find there the value the
\* key had, or the update that is about to write it is still at work.
SearchInv ==
  \A t \in Threads : pc[t] = "get_read" =>
    /\ addr[t] \in Addrs /\ addr[t] < nlog
    /\ \/ log[addr[t]] # Unwritten /\ log[addr[t]].value = seen[t]
       \/ \E u \in Threads : Publishing(u, addr[t]) /\ val[u] = seen[t]

Inv == TypeOK /\ LocalInv /\ SlotInv /\ SearchInv /\ IndexSound

-----------------------------------------------------------------------------
\* The empty store satisfies the inductive invariant.
LEMMA InitInv ==
  ASSUME Init
  PROVE  Inv
<1> USE LogDBConstants
<1>1. TypeOK
  <2>1. Unwritten \in Entries
    BY DEF Unwritten, Entries
  <2>2. 0 \in 0 .. MaxLogs /\ 0 \in 0 .. CacheSample - 1
    OBVIOUS
  <2> QED
    BY <2>1, <2>2 DEF Init, TypeOK
<1>2. LocalInv /\ SearchInv
  BY DEF Init, LocalInv, SearchInv, Holding, Writing, Private
<1>3. SlotInv
  BY DEF Init, SlotInv, Holding, Writing, Private
<1>4. IndexSound
  BY DEF Init, IndexSound
<1> QED
  BY <1>1, <1>2, <1>3, <1>4 DEF Inv

\* The other threads' locals are as they were.
OthersUntouched(t) ==
  \A u \in Threads \ {t} :
    /\ pc'[u] = pc[u] /\ key'[u] = key[u] /\ val'[u] = val[u]
    /\ addr'[u] = addr[u] /\ old'[u] = old[u] /\ seen'[u] = seen[u]

\* A step that changes nothing shared but the cache, of a thread that holds no
\* slot afterwards and had none published.
LEMMA PrivateStep ==
  ASSUME Inv, NEW t \in Threads, TypeOK', OthersUntouched(t),
         UNCHANGED <<index, log, nlog, abs>>,
         pc[t] # "upd_store", pc'[t] \notin Holding \union {"get_read"},
         pc'[t] # "idle" => key'[t] \in Keys
  PROVE  Inv'
<1> USE DEF Inv
<1>1. LocalInv'
  BY DEF LocalInv, OthersUntouched, Holding, Writing, Private
<1>2. SlotInv'
  BY DEF SlotInv, OthersUntouched
<1>3. \A a : \A u \in Threads : Publishing(u, a)' <=> Publishing(u, a)
  BY DEF Publishing, OthersUntouched, Holding, Writing
<1>4. \A a : \A u \in Threads : Publishing(u, a) => u # t
  BY DEF Publishing
<1>5. SearchInv'
  BY <1>3, <1>4 DEF SearchInv, OthersUntouched
<1>6. IndexSound'
  BY <1>3, <1>4 DEF IndexSound, OthersUntouched
<1> QED
  BY <1>1, <1>2, <1>5, <1>6

\* A step that is handed a fresh slot.
LEMMA AllocStep ==
  ASSUME Inv, NEW t \in Threads, TypeOK', OthersUntouched(t), AllocLog(t),
         UNCHANGED <<index, log, abs>>, pc[t] \notin Holding,
         pc'[t] \in {"ins_store", "upd_index", "ers_store"},
         key'[t] \in Keys,
         pc'[t] \in {"ins_store", "upd_index"} => val'[t] \in Values
  PROVE  Inv'
<1> USE DEF Inv
<1>1. /\ nlog \in Nat /\ nlog' = nlog + 1 /\ nlog \in Addrs /\ addr'[t] = nlog
      /\ \A a \in Addrs : a \in Nat
  BY LogDBConstants DEF AllocLog, TypeOK, Addrs
<1>2. \A u \in Threads \ {t} : pc'[u] = pc[u] /\ addr'[u] = addr[u]
  BY DEF OthersUntouched
<1>a. ASSUME NEW a \in Addrs, a < nlog
      PROVE  a < nlog' /\ a # nlog
  <2>1. a \in Nat /\ nlog \in Nat /\ nlog' = nlog + 1
    BY <1>1
  <2> HIDE DEF Inv
  <2> QED
    BY <1>a, <2>1
<1>3. LocalInv'
  <2>1. nlog < nlog'
    BY <1>1
  <2> SUFFICES ASSUME NEW u \in Threads
               PROVE  /\ pc'[u] # "idle" => key'[u] \in Keys
                      /\ pc'[u] \in {"ins_store", "ins_index", "upd_index", "upd_store"}
                           => val'[u] \in Values
                      /\ pc'[u] \in Holding => addr'[u] \in Addrs /\ addr'[u] < nlog'
    BY DEF LocalInv
  <2>2. CASE u = t
    BY <1>1, <2>1, <2>2
  <2>3. CASE u # t
    BY <1>a, <2>3 DEF LocalInv, OthersUntouched
  <2> QED
    BY <2>2, <2>3
<1>4. \A k \in Keys : index[k] # nlog /\ (index[k] # None => index[k] < nlog')
  <2> SUFFICES ASSUME NEW k \in Keys
               PROVE  index[k] # nlog /\ (index[k] # None => index[k] < nlog')
    OBVIOUS
  <2>1. index[k] \in Addrs \/ index[k] = None
    BY DEF TypeOK
  <2>2. index[k] # None => index[k] < nlog
    BY DEF SlotInv
  <2> QED
    BY <1>1, <1>a, <2>1, <2>2, LogDBConstants
<1>5. SlotInv'
  <2>1. \A a \in Addrs : nlog' <= a => log'[a] = Unwritten
    BY <1>1 DEF SlotInv
  <2>2. log'[addr'[t]] = Unwritten
    BY <1>1 DEF SlotInv
  <2>3. \A u \in Threads \ {t} : pc[u] \in Holding => addr[u] < nlog /\ addr[u] # nlog
    BY <1>1 DEF LocalInv
  <2>4. \A u \in Threads \ {t} : pc'[u] \in Holding =>
          /\ \A w \in Threads : pc'[w] \in Holding /\ addr'[w] = addr'[u] => w = u
          /\ pc'[u] \in Writing => log'[addr'[u]] = Unwritten
          /\ pc'[u] \in Private => \A k \in Keys : index'[k] # addr'[u]
          /\ pc'[u] = "ins_index" => log'[addr'[u]] = [op |-> "INSERT", key |-> key'[u],
                                                      value |-> val'[u], old |-> None]
    BY <1>1, <1>2, <2>3 DEF SlotInv, OthersUntouched
  <2>5. /\ \A w \in Threads : pc'[w] \in Holding /\ addr'[w] = addr'[t] => w = t
        /\ \A k \in Keys : index'[k] # addr'[t]
        /\ pc'[t] # "ins_index"
    BY <1>1, <1>2, <1>4, <2>3
  <2> QED
    BY <1>4, <2>1, <2>2, <2>4, <2>5 DEF SlotInv
<1>6. \A a : \A u \in Threads : Publishing(u, a)' <=> Publishing(u, a)
  BY <1>2 DEF Publishing, Holding, Writing
<1>7. \A a : \A u \in Threads : Publishing(u, a) => u # t
  BY DEF Publishing, Holding, Writing
<1>8. SearchInv'
  <2> SUFFICES ASSUME NEW w \in Threads, pc'[w] = "get_read"
               PROVE  /\ addr'[w] \in Addrs /\ addr'[w] < nlog'
                      /\ \/ log'[addr'[w]] # Unwritten /\ log'[addr'[w]].value = seen'[w]
                         \/ \E u \in Threads : Publishing(u, addr[w])' /\ val'[u] = seen'[w]
    BY DEF SearchInv, Publishing
  <2>1. w # t /\ pc[w] = "get_read" /\ addr'[w] = addr[w] /\ seen'[w] = seen[w]
    BY DEF OthersUntouched
  <2>2. addr[w] \in Addrs /\ addr[w] < nlog
    BY <2>1 DEF SearchInv
  <2>3. CASE log[addr[w]] # Unwritten /\ log[addr[w]].value = seen[w]
    BY <1>a, <2>1, <2>2, <2>3
  <2>4. ASSUME NEW u \in Threads, Publishing(u, addr[w]), val[u] = seen[w]
        PROVE  Publishing(u, addr[w])' /\ val'[u] = seen'[w]
    BY <1>6, <1>7, <2>1, <2>4 DEF OthersUntouched, Publishing
  <2> QED
    BY <1>a, <2>1, <2>2, <2>3, <2>4 DEF SearchInv
<1>9. IndexSound'
  BY <1>6, <1>7 DEF IndexSound, OthersUntouched
<1> QED
  BY <1>3, <1>5, <1>8, <1>9

\* A step that writes the slot the thread holds.
LEMMA StoreStep ==
  ASSUME Inv, NEW t \in Threads, TypeOK', OthersUntouched(t),
         UNCHANGED <<index, nlog, abs>>,
         pc[t] \in {"ins_store", "upd_store", "ers_store"},
         NEW e, log' = [log EXCEPT ![addr[t]] = e], e.op # "TRASH",
         pc[t] = "upd_store" => e.op = "UPDATE" /\ e.key = key[t] /\ e.value = val[t],
         pc[t] = "ins_store" =>
           /\ e = [op |-> "INSERT", key |-> key[t], value |-> val[t], old |-> None]
           /\ pc'[t] = "ins_index"
           /\ key'[t] = key[t] /\ val'[t] = val[t] /\ addr'[t] = addr[t],
         pc[t] # "ins_store" => pc'[t] = "idle"
  PROVE  Inv'
<1> USE DEF Inv
<1>1. /\ addr[t] \in Addrs /\ addr[t] < nlog /\ key[t] \in Keys
      /\ log[addr[t]] = Unwritten /\ pc[t] \in Holding /\ nlog \in Nat
  <2>1. pc[t] \in Writing /\ pc[t] \in Holding /\ pc[t] # "idle"
    BY DEF Holding, Writing
  <2>2. nlog \in Nat
    BY LogDBConstants DEF TypeOK
  <2> QED
    BY <2>1, <2>2 DEF LocalInv, SlotInv
<1>2. /\ log'[addr[t]] = e /\ e # Unwritten
      /\ \A a \in Addrs : a # addr[t] => log'[a] = log[a]
  BY <1>1 DEF TypeOK, Unwritten
<1>3. \A u \in Threads \ {t} : pc'[u] = pc[u] /\ addr'[u] = addr[u]
                               /\ key'[u] = key[u] /\ val'[u] = val[u] /\ seen'[u] = seen[u]
  BY DEF OthersUntouched
<1>4. LocalInv'
  BY <1>1, <1>3 DEF LocalInv, Holding, Writing, Private
<1>5. \A u \in Threads \ {t} : pc[u] \in Holding => addr[u] # addr[t] /\ addr[u] \in Addrs
  BY <1>1 DEF SlotInv, LocalInv
<1>6. SlotInv'
  <2>1. \A a \in Addrs : nlog' <= a => log'[a] = Unwritten
    BY <1>1, <1>2 DEF SlotInv, Addrs
  <2>2. \A u \in Threads \ {t} : pc'[u] \in Holding =>
          /\ \A w \in Threads : pc'[w] \in Holding /\ addr'[w] = addr'[u] => w = u
          /\ pc'[u] \in Writing => log'[addr'[u]] = Unwritten
          /\ pc'[u] \in Private => \A k \in Keys : index'[k] # addr'[u]
          /\ pc'[u] = "ins_index" => log'[addr'[u]] = [op |-> "INSERT", key |-> key'[u],
                                                      value |-> val'[u], old |-> None]
    BY <1>2, <1>3, <1>5 DEF SlotInv, Holding, Writing, Private
  <2>3. pc'[t] \in Holding =>
          /\ \A w \in Threads : pc'[w] \in Holding /\ addr'[w] = addr'[t] => w = t
          /\ pc'[t] \notin Writing /\ pc'[t] = "ins_index"
          /\ \A k \in Keys : index'[k] # addr'[t]
          /\ log'[addr'[t]] = [op |-> "INSERT", key |-> key'[t],
                               value |-> val'[t], old |-> None]
    BY <1>1, <1>2, <1>3, <1>5 DEF SlotInv, Holding, Writing, Private
  <2> QED
    BY <2>1, <2>2, <2>3 DEF SlotInv
<1>7. ASSUME NEW u \in Threads, NEW a \in Addrs, Publishing(u, a), a # addr[t]
      PROVE  u # t /\ Publishing(u, a)'
  BY <1>3, <1>7 DEF Publishing
<1>8. ASSUME NEW u \in Threads, Publishing(u, addr[t])
      PROVE  u = t /\ pc[t] = "upd_store"
  BY <1>5, <1>8 DEF Publishing, Holding, Writing
<1>9. SearchInv'
  <2> SUFFICES ASSUME NEW w \in Threads, pc'[w] = "get_read"
               PROVE  /\ addr'[w] \in Addrs /\ addr'[w] < nlog'
                      /\ \/ log'[addr'[w]] # Unwritten /\ log'[addr'[w]].value = seen'[w]
                         \/ \E u \in Threads : Publishing(u, addr[w])' /\ val'[u] = seen'[w]
    BY DEF SearchInv, Publishing
  <2>1. w # t /\ pc[w] = "get_read" /\ addr'[w] = addr[w] /\ seen'[w] = seen[w]
    BY <1>3
  <2>2. addr[w] \in Addrs /\ addr[w] < nlog
    BY <2>1 DEF SearchInv
  <2>3. CASE addr[w] = addr[t]
    <3>1. pc[t] = "upd_store" /\ val[t] = seen[w]
      BY <1>1, <1>8, <2>1, <2>3 DEF SearchInv
    <3> QED
      BY <1>2, <2>1, <2>2, <2>3, <3>1
  <2>4. CASE addr[w] # addr[t]
    <3>1. CASE log[addr[w]] # Unwritten /\ log[addr[w]].value = seen[w]
      BY <1>2, <2>1, <2>2, <2>4, <3>1
    <3>2. ASSUME NEW u \in Threads, Publishing(u, addr[w]), val[u] = seen[w]
          PROVE  Publishing(u, addr[w])' /\ val'[u] = seen'[w]
      BY <1>3, <1>7, <2>1, <2>2, <2>4, <3>2
    <3> QED
      BY <2>1, <2>2, <3>1, <3>2 DEF SearchInv
  <2> QED
    BY <2>3, <2>4
<1>10. IndexSound'
  <2> SUFFICES ASSUME NEW k \in Keys, index[k] # None
               PROVE  \/ /\ log'[index[k]].op \in {"INSERT", "UPDATE"}
                         /\ log'[index[k]].key = k /\ log'[index[k]].value = abs[k]
                      \/ \E u \in Threads :
                           Publishing(u, index[k])' /\ key'[u] = k /\ val'[u] = abs[k]
    BY DEF IndexSound, Publishing
  <2>1. index[k] \in Addrs
    BY DEF TypeOK
  <2>2. CASE index[k] = addr[t]
    <3>1. log[index[k]].op = "TRASH"
      BY <1>1, <2>2 DEF Unwritten
    <3>2. pc[t] = "upd_store" /\ key[t] = k /\ val[t] = abs[k]
      BY <1>8, <2>2, <3>1 DEF IndexSound
    <3> QED
      BY <1>2, <2>2, <3>2
  <2>3. CASE index[k] # addr[t]
    <3>1. CASE /\ log[index[k]].op \in {"INSERT", "UPDATE"}
               /\ log[index[k]].key = k /\ log[index[k]].value = abs[k]
      BY <1>2, <2>1, <2>3, <3>1
    <3>2. ASSUME NEW u \in Threads, Publishing(u, index[k]), key[u] = k, val[u] = abs[k]
          PROVE  Publishing(u, index[k])' /\ key'[u] = k /\ val'[u] = abs[k]
      BY <1>3, <1>7, <2>1, <2>3, <3>2
    <3> QED
      BY <3>1, <3>2 DEF IndexSound
  <2> QED
    BY <2>2, <2>3
<1> QED
  BY <1>4, <1>6, <1>9, <1>10

\* A step that puts the address of the slot the thread holds into the index:
\* an insert, which wrote the slot first, or an update, which has still to.
LEMMA PublishStep ==
  ASSUME Inv, NEW t \in Threads, TypeOK', OthersUntouched(t),
         UNCHANGED <<log, nlog>>,
         pc[t] \in {"ins_index", "upd_index"},
         index' = [index EXCEPT ![key[t]] = addr[t]],
         abs' = [abs EXCEPT ![key[t]] = val[t]],
         pc[t] = "ins_index" => pc'[t] = "idle",
         pc[t] = "upd_index" =>
           /\ pc'[t] = "upd_store"
           /\ key'[t] = key[t] /\ val'[t] = val[t] /\ addr'[t] = addr[t]
  PROVE  Inv'
<1> USE DEF Inv
<1>1. /\ pc[t] \in Holding /\ pc[t] \in Private /\ pc[t] # "idle"
      /\ pc'[t] \notin Private /\ (pc'[t] \in Holding => pc[t] \in Writing /\ pc[t] = "upd_index")
      /\ pc'[t] # "ins_index" /\ pc'[t] # "get_read"
  BY DEF Holding, Writing, Private
<1>2. addr[t] \in Addrs /\ addr[t] < nlog /\ key[t] \in Keys /\ val[t] \in Values
  BY <1>1 DEF LocalInv
<1>3. /\ index'[key[t]] = addr[t] /\ abs'[key[t]] = val[t]
      /\ \A k \in Keys : k # key[t] => index'[k] = index[k] /\ abs'[k] = abs[k]
  BY <1>2 DEF TypeOK
<1>4. \A u \in Threads \ {t} : /\ pc'[u] = pc[u] /\ addr'[u] = addr[u] /\ key'[u] = key[u]
                               /\ val'[u] = val[u] /\ seen'[u] = seen[u]
  BY DEF OthersUntouched
<1>5. LocalInv'
  BY <1>1, <1>2, <1>4 DEF LocalInv
<1>6. SlotInv'
  <2>1. \A a \in Addrs : nlog' <= a => log'[a] = Unwritten
    BY DEF SlotInv
  <2>2. \A u \in Threads \ {t} : pc[u] \in Holding => addr[u] # addr[t]
    BY <1>1 DEF SlotInv
  <2>3. \A u \in Threads \ {t} : pc'[u] \in Holding =>
          /\ \A w \in Threads : pc'[w] \in Holding /\ addr'[w] = addr'[u] => w = u
          /\ pc'[u] \in Writing => log'[addr'[u]] = Unwritten
          /\ pc'[u] \in Private => \A k \in Keys : index'[k] # addr'[u]
          /\ pc'[u] = "ins_index" => log'[addr'[u]] = [op |-> "INSERT", key |-> key'[u],
                                                      value |-> val'[u], old |-> None]
    BY <1>1, <1>3, <1>4, <2>2 DEF SlotInv
  <2>4. pc'[t] \in Holding =>
          /\ \A w \in Threads : pc'[w] \in Holding /\ addr'[w] = addr'[t] => w = t
          /\ log'[addr'[t]] = Unwritten
    BY <1>1, <1>4, <2>2 DEF SlotInv
  <2>5. \A k \in Keys : index'[k] # None => index'[k] < nlog'
    BY <1>2, <1>3 DEF SlotInv
  <2> QED
    BY <1>1, <2>1, <2>3, <2>4, <2>5 DEF SlotInv
<1>7. ASSUME NEW u \in Threads, NEW a, Publishing(u, a)
      PROVE  u # t /\ Publishing(u, a)'
  BY <1>4, <1>7 DEF Publishing
<1>8. SearchInv'
  <2> SUFFICES ASSUME NEW w \in Threads, pc'[w] = "get_read"
               PROVE  /\ addr'[w] \in Addrs /\ addr'[w] < nlog'
                      /\ \/ log'[addr'[w]] # Unwritten /\ log'[addr'[w]].value = seen'[w]
                         \/ \E u \in Threads : Publishing(u, addr[w])' /\ val'[u] = seen'[w]
    BY <1>1, <1>4 DEF SearchInv, Publishing
  <2>1. w # t /\ pc[w] = "get_read" /\ addr'[w] = addr[w] /\ seen'[w] = seen[w]
    BY <1>1, <1>4
  <2>2. ASSUME NEW u \in Threads, Publishing(u, addr[w]), val[u] = seen[w]
        PROVE  Publishing(u, addr[w])' /\ val'[u] = seen'[w]
    BY <1>4, <1>7, <2>1, <2>2
  <2> QED
    BY <2>1, <2>2 DEF SearchInv
<1>9. IndexSound'
  <2> SUFFICES ASSUME NEW k \in Keys
               PROVE  IF index'[k] = None THEN abs'[k] = None
                      ELSE \/ /\ log[index'[k]].op \in {"INSERT", "UPDATE"}
                              /\ log[index'[k]].key = k /\ log[index'[k]].value = abs'[k]
                           \/ \E u \in Threads :
                                Publishing(u, index[k])' /\ key'[u] = k /\ val'[u] = abs'[k]
    BY DEF IndexSound, Publishing
  <2>1. CASE k = key[t]
    <3>1. index'[k] = addr[t] /\ abs'[k] = val[t] /\ addr[t] # None
      BY <1>2, <1>3, <2>1, LogDBConstants DEF Addrs
    <3>2. CASE pc[t] = "ins_index"
      <4>1. log[addr[t]] = [op |-> "INSERT", key |-> key[t], value |-> val[t], old |-> None]
        BY <1>1, <3>2 DEF SlotInv
      <4> QED
        BY <2>1, <3>1, <4>1
    <3>3. CASE pc[t] = "upd_index"
      <4>1. Publishing(t, index[k])' /\ key'[t] = k /\ val'[t] = abs'[k]
        BY <2>1, <3>1, <3>3 DEF Publishing
      <4> QED
        BY <3>1, <4>1
    <3> QED
      BY <3>2, <3>3
  <2>2. CASE k # key[t]
    <3>1. index'[k] = index[k] /\ abs'[k] = abs[k]
      BY <1>3, <2>2
    <3>2. ASSUME NEW u \in Threads, Publishing(u, index[k]), key[u] = k, val[u] = abs[k]
          PROVE  Publishing(u, index[k])' /\ key'[u] = k /\ val'[u] = abs[k]
      <4>1. u # t /\ pc'[u] = pc[u] /\ addr'[u] = addr[u]
        BY <1>4, <1>7, <3>2
      <4> QED
        BY <1>4, <3>1, <3>2, <4>1 DEF Publishing
    <3> QED
      BY <3>1, <3>2 DEF IndexSound
  <2> QED
    BY <2>1, <2>2
<1> QED
  BY <1>5, <1>6, <1>8, <1>9

\* erase takes a key out of the index; the searches and updates that have its
\* address keep it.
LEMMA UnindexStep ==
  ASSUME Inv, NEW t \in Threads, TypeOK', EraseIndex(t)
  PROVE  Inv'
<1> USE DEF Inv
<1>1. /\ pc[t] = "ers_index" /\ pc'[t] = "ers_alloc" /\ key[t] \in Keys
      /\ UNCHANGED <<log, nlog, key, val, addr, seen>>
      /\ \A u \in Threads \ {t} : pc'[u] = pc[u]
  BY DEF EraseIndex, Goto, locals, LocalInv, TypeOK
<1>2. /\ index'[key[t]] = None /\ abs'[key[t]] = None
      /\ \A k \in Keys : k # key[t] => index'[k] = index[k] /\ abs'[k] = abs[k]
  BY <1>1 DEF TypeOK, EraseIndex
<1>3. pc[t] \notin Holding /\ pc'[t] \notin Holding
  BY <1>1 DEF Holding, Writing, Private
<1>4. LocalInv'
  BY <1>1, <1>3 DEF LocalInv
<1>5. SlotInv'
  <2>1. \A u \in Threads : pc'[u] \in Holding => u # t /\ pc[u] \in Holding /\ pc'[u] = pc[u]
    BY <1>1, <1>3
  <2>2. \A u \in Threads : pc[u] \in Holding => addr[u] # None
    BY LogDBConstants DEF LocalInv, Addrs
  <2>3. ASSUME NEW u \in Threads, NEW k \in Keys, pc'[u] \in Holding, pc'[u] \in Private
        PROVE  index'[k] # addr[u]
    <3>1. pc[u] \in Holding /\ pc[u] \in Private /\ addr[u] # None
      BY <2>1, <2>2, <2>3
    <3>2. index[k] # addr[u]
      BY <3>1 DEF SlotInv
    <3> QED
      BY <1>2, <3>1, <3>2
  <2> QED
    BY <1>1, <1>2, <2>1, <2>3 DEF SlotInv
<1>6. \A a : \A u \in Threads : Publishing(u, a)' <=> Publishing(u, a)
  BY <1>1 DEF Publishing
<1>7. SearchInv'
  BY <1>1, <1>6 DEF SearchInv
<1>8. IndexSound'
  BY <1>1, <1>2, <1>6 DEF IndexSound
<1> QED
  BY <1>4, <1>5, <1>7, <1>8

\* search takes an address from the index.
LEMMA SearchStep ==
  ASSUME Inv, NEW t \in Threads, TypeOK', SearchIndex(t)
  PROVE  Inv'
<1> USE DEF Inv
<1>1. /\ pc[t] = "get_index" /\ key[t] \in Keys
      /\ pc'[t] = IF index[key[t]] = None THEN "got" ELSE "get_read"
      /\ addr'[t] = index[key[t]] /\ seen'[t] = abs[key[t]]
      /\ UNCHANGED <<index, abs, log, nlog, key, val>>
      /\ \A u \in Threads \ {t} : pc'[u] = pc[u] /\ addr'[u] = addr[u] /\ seen'[u] = seen[u]
  BY DEF SearchIndex, Goto, LocalInv, TypeOK
<1>2. pc[t] \notin Holding /\ pc'[t] \notin Holding
  BY <1>1 DEF Holding, Writing, Private
<1>3. LocalInv'
  BY <1>1, <1>2 DEF LocalInv, Holding, Writing, Private
<1>4. SlotInv'
  <2>1. \A u \in Threads : pc'[u] \in Holding =>
          u # t /\ pc[u] \in Holding /\ pc'[u] = pc[u] /\ addr'[u] = addr[u]
    BY <1>1, <1>2
  <2> QED
    BY <1>1, <2>1 DEF SlotInv
<1>5. ASSUME NEW u \in Threads, NEW a
      PROVE  Publishing(u, a)' <=> Publishing(u, a)
  BY <1>1 DEF Publishing
<1>6. pc'[t] = "get_read" =>
        /\ addr'[t] \in Addrs /\ addr'[t] < nlog
        /\ \/ log[addr'[t]] # Unwritten /\ log[addr'[t]].value = seen'[t]
           \/ \E u \in Threads : Publishing(u, addr'[t]) /\ val[u] = seen'[t]
  <2> SUFFICES ASSUME index[key[t]] # None
               PROVE  /\ index[key[t]] \in Addrs /\ index[key[t]] < nlog
                      /\ \/ /\ log[index[key[t]]] # Unwritten
                            /\ log[index[key[t]]].value = abs[key[t]]
                         \/ \E u \in Threads :
                              Publishing(u, index[key[t]]) /\ val[u] = abs[key[t]]
    BY <1>1
  <2>1. index[key[t]] \in Addrs /\ index[key[t]] < nlog
    BY <1>1 DEF TypeOK, SlotInv
  <2>2. Unwritten.op = "TRASH"
    BY DEF Unwritten
  <2> QED
    BY <1>1, <2>1, <2>2 DEF IndexSound
<1>7. SearchInv'
  <2>1. \A w \in Threads : pc'[w] = "get_read" =>
          /\ addr'[w] \in Addrs /\ addr'[w] < nlog
          /\ \/ log[addr'[w]] # Unwritten /\ log[addr'[w]].value = seen'[w]
             \/ \E u \in Threads : Publishing(u, addr'[w]) /\ val[u] = seen'[w]
    BY <1>1, <1>6 DEF SearchInv
  <2> QED
    <3>1. \A w, u \in Threads :
            Publishing(u, addr'[w]) => pc'[u] = "upd_store" /\ addr'[u] = addr'[w]
      BY <1>1 DEF Publishing
    <3> QED
      BY <1>1, <2>1, <3>1 DEF SearchInv, Publishing
<1>8. IndexSound'
  BY <1>1, <1>5 DEF IndexSound
<1> QED
  BY <1>3, <1>4, <1>7, <1>8

-----------------------------------------------------------------------------
\* The parts of TypeOK that the helpers Goto, Finish, AllocLog and Store touch.
PcLabels == {"idle", "ins_store", "ins_index", "upd_index", "upd_store",
             "ers_index", "ers_alloc", "ers_store", "get_index", "get_read", "get_put", "got"}

\* An operation that ends leaves locals of the right types.
LEMMA FinishTypes ==
  ASSUME TypeOK, NEW t \in Threads, Finish(t)
  PROVE  /\ pc' \in [Threads -> PcLabels] /\ key' \in [Threads -> Keys \union {None}]
         /\ val' \in [Threads -> Values \union {None, Ones}]
         /\ addr' \in [Threads -> Addrs \union {None}]
         /\ old' \in [Threads -> Addrs \union {None}]
         /\ seen' \in [Threads -> Values \union {None}]
         /\ pc'[t] = "idle" /\ OthersUntouched(t)
BY DEF TypeOK, Finish, Goto, PcLabels, OthersUntouched

\* A fresh slot is an address, and the count of slots stays within bounds.
LEMMA AllocTypes ==
  ASSUME TypeOK, NEW t \in Threads, AllocLog(t)
  PROVE  /\ addr' \in [Threads -> Addrs \union {None}] /\ nlog' \in 0 .. MaxLogs
         /\ \A u \in Threads \ {t} : addr'[u] = addr[u]
<1>1. nlog \in Addrs /\ nlog + 1 \in 0 .. MaxLogs
  BY LogDBConstants DEF TypeOK, AllocLog, Addrs
<1> QED
  BY <1>1 DEF TypeOK, AllocLog

\* A stored log is an entry.
LEMMA StoreTypes ==
  ASSUME TypeOK, NEW t \in Threads, NEW op \in {"INSERT", "UPDATE", "DELETE"},
         NEW v \in Values \union {None, Ones}, NEW o \in Addrs \union {None},
         Store(t, op, v, o)
  PROVE  log' \in [Addrs -> Entries]
<1>1. [op |-> op, key |-> key[t], value |-> v, old |-> o] \in Entries
  BY DEF TypeOK, Entries
<1> QED
  BY <1>1 DEF TypeOK, Store

\* Every action keeps the types.
LEMMA TypeStep ==
  ASSUME Inv, NEW t \in Threads, Call(t) \/ Continue(t)
  PROVE  TypeOK'
<1> USE DEF PcLabels
<1>0. TypeOK /\ LocalInv
  BY DEF Inv
<1>1. ASSUME NEW k \in Keys, NEW v \in Values, InsertAlloc(t, k, v)
      PROVE  TypeOK'
  BY <1>0, <1>1, AllocTypes DEF InsertAlloc, Goto, TypeOK
<1>2. ASSUME NEW k \in Keys, NEW v \in Values, UpdateAlloc(t, k, v)
      PROVE  TypeOK'
  BY <1>0, <1>2, AllocTypes DEF UpdateAlloc, Goto, TypeOK
<1>3. ASSUME NEW k \in Keys, EraseSearch(t, k)
      PROVE  TypeOK'
  <2>1. 0 \in Addrs
    BY LogDBConstants DEF Addrs
  <2> QED
    BY <1>0, <1>3, <2>1 DEF EraseSearch, Goto, TypeOK
<1>4. ASSUME NEW n \in 0 .. CacheSample - 1
      PROVE  (n + 1) % CacheSample \in 0 .. CacheSample - 1
  BY LogDBConstants
<1>5. ASSUME NEW k \in Keys, CacheHit(t, k)
      PROVE  TypeOK'
  BY <1>0, <1>4, <1>5 DEF CacheHit, Goto, TypeOK
<1>6. ASSUME NEW k \in Keys, CacheMiss(t, k)
      PROVE  TypeOK'
  BY <1>0, <1>4, <1>6 DEF CacheMiss, Goto, TypeOK
<1>7. CASE InsertStore(t)
  <2>1. log' \in [Addrs -> Entries]
    BY <1>0, <1>7, StoreTypes DEF InsertStore, TypeOK
  <2> QED
    BY <1>0, <1>7, <2>1 DEF InsertStore, Goto, locals, TypeOK
<1>8. CASE InsertIndex(t)
  <2>1. addr[t] \in Addrs /\ val[t] \in Values
    BY <1>0, <1>8 DEF InsertIndex, LocalInv, Holding, Private
  <2> QED
    BY <1>0, <1>8, <2>1, FinishTypes DEF InsertIndex, TypeOK
<1>9. CASE UpdateIndex(t)
  <2>1. addr[t] \in Addrs /\ val[t] \in Values /\ key[t] \in Keys
    BY <1>0, <1>9 DEF UpdateIndex, LocalInv, Holding, Private
  <2> QED
    BY <1>0, <1>9, <2>1 DEF UpdateIndex, Goto, TypeOK
<1>10. CASE UpdateAbsent(t)
  BY <1>0, <1>10, FinishTypes DEF UpdateAbsent, TypeOK
<1>11. CASE UpdateStore(t)
  <2>1. log' \in [Addrs -> Entries]
    BY <1>0, <1>11, StoreTypes DEF UpdateStore, TypeOK
  <2> QED
    BY <1>0, <1>11, <2>1, FinishTypes DEF UpdateStore, TypeOK
<1>12. CASE EraseIndex(t)
  BY <1>0, <1>12 DEF EraseIndex, Goto, locals, TypeOK
<1>13. CASE EraseAlloc(t)
  BY <1>0, <1>13, AllocTypes DEF EraseAlloc, Goto, TypeOK
<1>14. CASE EraseStore(t)
  <2>1. log' \in [Addrs -> Entries]
    BY <1>0, <1>14, StoreTypes DEF EraseStore, TypeOK
  <2> QED
    BY <1>0, <1>14, <2>1, FinishTypes DEF EraseStore, TypeOK
<1>15. CASE SearchIndex(t)
  <2>1. key[t] \in Keys
    BY <1>0, <1>15 DEF SearchIndex, LocalInv
  <2> QED
    BY <1>0, <1>15, <2>1 DEF SearchIndex, Goto, TypeOK
<1>16. CASE SearchRead(t)
  <2>1. log[addr[t]].value \in Values \union {None, Ones}
    BY <1>16 DEF Inv, SearchInv, SearchRead, TypeOK, Entries
  <2> QED
    BY <1>0, <1>16, <2>1 DEF SearchRead, Goto, TypeOK
<1>17. CASE CachePut(t)
  BY <1>0, <1>17 DEF CachePut, Goto, locals, TypeOK
<1>18. CASE SearchReturn(t)
  BY <1>0, <1>18, FinishTypes DEF SearchReturn, TypeOK
<1> QED
  BY <1>1, <1>2, <1>3, <1>5, <1>6, <1>7, <1>8, <1>9, <1>10, <1>11, <1>12, <1>13, <1>14,
     <1>15, <1>16, <1>17, <1>18 DEF Call, WriteCall, ReadCall, Continue

\* Every step preserves the inductive invariant.
LEMMA NextInv ==
  ASSUME Inv, [Next]_vars
  PROVE  Inv'
<1> DEFINE Same == UNCHANGED vars
<1>1. CASE Same
  BY <1>1 DEF Same, vars, Inv, TypeOK, LocalInv, SlotInv, SearchInv, IndexSound, Publishing
<1>2. ASSUME NEW t \in Threads, Call(t) \/ Continue(t)
      PROVE  Inv'
  <2>0. TypeOK' /\ TypeOK /\ LocalInv
    BY <1>2, TypeStep DEF Inv
  <2> USE DEF Holding, Writing, Private
  <2>1. ASSUME NEW k \in Keys, NEW v \in Values, InsertAlloc(t, k, v) \/ UpdateAlloc(t, k, v)
        PROVE  Inv'
    <3>1. /\ OthersUntouched(t) /\ AllocLog(t) /\ UNCHANGED <<index, log, abs>>
          /\ pc[t] = "idle" /\ pc'[t] \in {"ins_store", "upd_index"}
          /\ key'[t] = k /\ val'[t] = v
      BY <2>0, <2>1, AllocTypes DEF InsertAlloc, UpdateAlloc, Goto, OthersUntouched, TypeOK
    <3> QED
      BY <2>0, <3>1, AllocStep
  <2>2. CASE EraseAlloc(t)
    <3>1. /\ OthersUntouched(t) /\ AllocLog(t) /\ UNCHANGED <<index, log, abs>>
          /\ pc[t] = "ers_alloc" /\ pc'[t] = "ers_store" /\ key'[t] \in Keys
      BY <2>0, <2>2, AllocTypes DEF EraseAlloc, Goto, OthersUntouched, TypeOK, LocalInv
    <3> QED
      BY <2>0, <3>1, AllocStep
  <2>3. ASSUME NEW k \in Keys, EraseSearch(t, k) \/ CacheHit(t, k) \/ CacheMiss(t, k)
        PROVE  Inv'
    <3>1. /\ OthersUntouched(t) /\ UNCHANGED <<index, log, nlog, abs>>
          /\ pc[t] = "idle" /\ pc'[t] \in {"ers_index", "got", "get_index"} /\ key'[t] = k
      BY <2>0, <2>3 DEF EraseSearch, CacheHit, CacheMiss, Goto, OthersUntouched, TypeOK
    <3> QED
      BY <2>0, <3>1, PrivateStep
  <2>4. CASE UpdateAbsent(t) \/ SearchReturn(t)
    <3>1. /\ OthersUntouched(t) /\ UNCHANGED <<index, log, nlog, abs>>
          /\ pc[t] \in {"upd_index", "got"} /\ pc'[t] = "idle"
      BY <2>0, <2>4, FinishTypes DEF UpdateAbsent, SearchReturn
    <3> QED
      BY <2>0, <3>1, PrivateStep
  <2>5. CASE SearchRead(t) \/ CachePut(t)
    <3>1. /\ OthersUntouched(t) /\ UNCHANGED <<index, log, nlog, abs>>
          /\ pc[t] \in {"get_read", "get_put"} /\ pc'[t] \in {"get_put", "got"}
          /\ key'[t] \in Keys
      BY <2>0, <2>5
      DEF SearchRead, CachePut, Goto, locals, OthersUntouched, TypeOK, LocalInv
    <3> QED
      BY <2>0, <3>1, PrivateStep
  <2>6. CASE InsertStore(t)
    <3>1. PICK e : e = [op |-> "INSERT", key |-> key[t], value |-> val[t], old |-> None]
      OBVIOUS
    <3>2. /\ OthersUntouched(t) /\ UNCHANGED <<index, nlog, abs>>
          /\ pc[t] = "ins_store" /\ pc'[t] = "ins_index" /\ e.op # "TRASH"
          /\ log' = [log EXCEPT ![addr[t]] = e]
          /\ key'[t] = key[t] /\ val'[t] = val[t] /\ addr'[t] = addr[t]
      BY <2>0, <2>6, <3>1 DEF InsertStore, Store, Goto, locals, OthersUntouched, TypeOK
    <3> QED
      BY <2>0, <3>1, <3>2, StoreStep
  <2>7. CASE UpdateStore(t)
    <3>1. PICK e : e = [op |-> "UPDATE", key |-> key[t], value |-> val[t], old |-> old[t]]
      OBVIOUS
    <3>2. /\ OthersUntouched(t) /\ UNCHANGED <<index, nlog, abs>>
          /\ pc[t] = "upd_store" /\ pc'[t] = "idle"
          /\ log' = [log EXCEPT ![addr[t]] = e]
          /\ e.op = "UPDATE" /\ e.key = key[t] /\ e.value = val[t]
      BY <2>0, <2>7, <3>1, FinishTypes DEF UpdateStore, Store
    <3> QED
      BY <2>0, <3>2, StoreStep
  <2>8. CASE EraseStore(t)
    <3>1. PICK e : e = [op |-> "DELETE", key |-> key[t], value |-> None, old |-> old[t]]
      OBVIOUS
    <3>2. /\ OthersUntouched(t) /\ UNCHANGED <<index, nlog, abs>>
          /\ pc[t] = "ers_store" /\ pc'[t] = "idle" /\ e.op # "TRASH"
          /\ log' = [log EXCEPT ![addr[t]] = e]
      BY <2>0, <2>8, <3>1, FinishTypes DEF EraseStore, Store
    <3> QED
      BY <2>0, <3>2, StoreStep
  <2>9. CASE InsertIndex(t)
    <3>1. /\ OthersUntouched(t) /\ pc'[t] = "idle"
      BY <2>0, <2>9, FinishTypes DEF InsertIndex
    <3> QED
      BY <2>0, <2>9, <3>1, PublishStep DEF InsertIndex
  <2>10. CASE UpdateIndex(t)
    <3>1. /\ OthersUntouched(t) /\ pc'[t] = "upd_store"
          /\ key'[t] = key[t] /\ val'[t] = val[t] /\ addr'[t] = addr[t]
      BY <2>0, <2>10 DEF UpdateIndex, Goto, OthersUntouched, TypeOK
    <3> QED
      BY <2>0, <2>10, <3>1, PublishStep DEF UpdateIndex
  <2>11. CASE EraseIndex(t)
    BY <2>0, <2>11, UnindexStep
  <2>12. CASE SearchIndex(t)
    BY <2>0, <2>12, SearchStep
  <2> QED
    BY <1>2, <2>1, <2>2, <2>3, <2>4, <2>5, <2>6, <2>7, <2>8, <2>9, <2>10, <2>11, <2>12
    DEF Call, WriteCall, ReadCall, Continue
<1> QED
  BY <1>1, <1>2 DEF Same, Next, LogFull

-----------------------------------------------------------------------------
\* Types, and the invariant that carries the other theorems.
THEOREM Invariance == Spec => []Inv
<1>1. Init => Inv
  BY InitInv
<1>2. Inv /\ [Next]_vars => Inv'
  BY NextInv
<1> QED
  BY <1>1, <1>2, PTL DEF Spec

\* Every address logdb's index holds is the address of a log of that key with
\* the key's value, or of the slot an update has published and is about to
\* write: for any number of threads and any interleaving of insert, update,
\* erase and search.
THEOREM IndexIsSound == Spec => [](TypeOK /\ IndexSound)
BY Invariance, PTL DEF Inv

\* A search reads from the log the value the key had when search looked into
\* the index, or the 1s of a slot whose update is still to be written.
THEOREM ReadsAreCurrent == Spec => ReadIsCurrentOrUnwritten
<1>1. ASSUME Inv, [Next]_vars, NEW t \in Threads, pc[t] = "get_read", pc'[t] # "get_read"
      PROVE  \/ val'[t] = seen[t]
             \/ val'[t] = Ones /\ \E u \in Threads : Publishing(u, addr[t])
  <2>1. SearchRead(t)
    <3>1. PICK u \in Threads : Call(u) \/ Continue(u)
      BY <1>1 DEF Next, LogFull, vars
    <3>2. TypeOK
      BY <1>1 DEF Inv
    <3>3. u = t
      <4>1. ASSUME u # t
            PROVE  pc'[t] = pc[t]
        BY <3>1, <3>2, <4>1
        DEF Call, WriteCall, ReadCall, Continue, InsertAlloc, UpdateAlloc, EraseSearch, CacheHit, CacheMiss,
            InsertStore, InsertIndex, UpdateIndex, UpdateAbsent, UpdateStore, EraseIndex,
            EraseAlloc, EraseStore, SearchIndex, SearchRead, CachePut, SearchReturn,
            Goto, Finish, TypeOK
      <4> QED
        BY <1>1, <4>1
    <3> QED
      BY <1>1, <3>1, <3>3
      DEF Call, WriteCall, ReadCall, Continue, InsertAlloc, UpdateAlloc, EraseSearch, CacheHit, CacheMiss,
          InsertStore, InsertIndex, UpdateIndex, UpdateAbsent, UpdateStore, EraseIndex,
          EraseAlloc, EraseStore, SearchIndex, CachePut, SearchReturn
  <2>2. val'[t] = log[addr[t]].value
    BY <1>1, <2>1 DEF SearchRead, Inv, TypeOK
  <2>3. CASE log[addr[t]] # Unwritten /\ log[addr[t]].value = seen[t]
    BY <2>2, <2>3
  <2>4. ASSUME NEW u \in Threads, Publishing(u, addr[t])
        PROVE  val'[t] = Ones
    <3>1. log[addr[t]] = Unwritten
      BY <1>1, <2>4 DEF Inv, SlotInv, Publishing, Holding, Writing
    <3> QED
      BY <2>2, <3>1 DEF Unwritten
  <2> QED
    BY <1>1, <2>3, <2>4 DEF Inv, SearchInv
<1>2. Inv /\ [Next]_vars =>
        [\A t \in Threads : pc[t] = "get_read" /\ pc'[t] # "get_read" =>
           \/ val'[t] = seen[t]
           \/ val'[t] = Ones /\ \E u \in Threads : Publishing(u, addr[t])]_vars
  BY <1>1
<1> QED
  BY <1>2, Invariance, PTL DEF Spec, ReadIsCurrentOrUnwritten
-----------------------------------------------------------------------------
\* The chain of older logs and the cache.

\* Slot a holds a log of key k that an update or an insert wrote, or will hold
\* one as soon as the update that published it writes it.
Carries(a, k) ==
  \/ log[a] # Unwritten /\ log[a].op # "DELETE" /\ log[a].key = k
  \/ \E u \in Threads : Publishing(u, a) /\ key[u] = k

\* An address that is named as the older log of another is out of the index for
\* good, and it is no slot that a thread has still for itself.
Retired(a) ==
  /\ a \in Addrs /\ a < nlog
  /\ \A k \in Keys : index[k] # a
  /\ \A u \in Threads : pc[u] \in Private => addr[u] # a

\* What an update that swapped its address in will write as the older log is
\* named by nobody else.
PendingInv ==
  \A t \in Threads : pc[t] = "upd_store" =>
    /\ Retired(old[t]) /\ old[t] # addr[t] /\ Carries(old[t], key[t])
    /\ \A u \in Threads : pc[u] = "upd_store" /\ old[u] = old[t] => u = t
    /\ \A b \in Addrs : log[b].op = "UPDATE" => log[b].old # old[t]

\* What an UPDATE log names.
LinkInv ==
  \A b \in Addrs : log[b].op = "UPDATE" =>
    /\ Retired(log[b].old) /\ log[b].old # b /\ Carries(log[b].old, log[b].key)
    /\ \A c \in Addrs : log[c].op = "UPDATE" /\ log[c].old = log[b].old => c = b

\* A log of key k with value v was written.
OwnLog(k, v) == \E a \in Addrs : log[a].key = k /\ log[a].value = v

\* What a search reads, and what it carries to the cache, is of its own key.
FillInv ==
  \A t \in Threads :
    /\ pc[t] = "get_read" => Carries(addr[t], key[t])
    /\ pc[t] = "get_put" /\ val[t] \in Values => OwnLog(key[t], val[t])

ChainInv == PendingInv /\ LinkInv /\ FillInv /\ CacheFromOwnLog

\* A slot keeps its key: logs are written once, and the update that published
\* a slot writes its own key there.
LEMMA CarriesKept ==
  ASSUME Inv, NEW t \in Threads, OthersUntouched(t),
         \A a \in Addrs : log[a] # Unwritten => log'[a] = log[a],
         pc[t] = "upd_store" =>
           /\ log'[addr[t]] # Unwritten
           /\ log'[addr[t]].op = "UPDATE" /\ log'[addr[t]].key = key[t],
         NEW a \in Addrs, NEW k, Carries(a, k)
  PROVE  Carries(a, k)'
<1>1. CASE log[a] # Unwritten /\ log[a].op # "DELETE" /\ log[a].key = k
  BY <1>1 DEF Carries
<1>2. ASSUME NEW u \in Threads, Publishing(u, a), key[u] = k
      PROVE  Carries(a, k)'
  <2>1. CASE u = t
    BY <1>2, <2>1 DEF Publishing, Carries
  <2>2. CASE u # t
    <3>1. Publishing(u, a)' /\ key'[u] = k
      BY <1>2, <2>2 DEF Publishing, OthersUntouched
    <3> QED
      BY <3>1 DEF Carries
  <2> QED
    BY <2>1, <2>2
<1> QED
  BY <1>1, <1>2 DEF Carries

\* A retired address stays so: what enters the index, or is handed out, is a
\* slot that some thread has for itself or a fresh one.
LEMMA RetiredKept ==
  ASSUME Inv, NEW t \in Threads, OthersUntouched(t), nlog' \in Nat, nlog <= nlog',
         \A k \in Keys : \/ index'[k] \in {index[k], None}
                         \/ pc[t] \in Private /\ index'[k] = addr[t],
         pc'[t] \in Private => \/ pc[t] \in Private /\ addr'[t] = addr[t]
                               \/ addr'[t] = nlog,
         NEW a, Retired(a)
  PROVE  Retired(a)'
<1>1. a \in Addrs /\ a < nlog /\ a \in Nat /\ a # None /\ nlog \in Nat
  BY LogDBConstants DEF Retired, Addrs, Inv, TypeOK
<1>2. a < nlog'
  BY <1>1
<1>3. \A k \in Keys : index'[k] # a
  BY <1>1 DEF Retired
<1>4. ASSUME NEW u \in Threads, pc'[u] \in Private
      PROVE  addr'[u] # a
  <2>1. CASE u = t
    BY <1>1, <1>4, <2>1 DEF Retired
  <2>2. CASE u # t
    BY <1>4, <2>2 DEF Retired, OthersUntouched
  <2> QED
    BY <2>1, <2>2
<1> QED
  BY <1>1, <1>2, <1>3, <1>4 DEF Retired

\* A step that names no address as an older log.
LEMMA NoNewName ==
  ASSUME Inv, PendingInv, LinkInv, NEW t \in Threads, OthersUntouched(t),
         nlog' \in Nat, nlog <= nlog',
         \A a \in Addrs : log[a] # Unwritten => log'[a] = log[a],
         \A a \in Addrs : log'[a].op = "UPDATE" => log'[a] = log[a],
         pc[t] # "upd_store", pc'[t] # "upd_store",
         \A k \in Keys : \/ index'[k] \in {index[k], None}
                         \/ pc[t] \in Private /\ index'[k] = addr[t],
         pc'[t] \in Private => \/ pc[t] \in Private /\ addr'[t] = addr[t]
                               \/ addr'[t] = nlog
  PROVE  PendingInv' /\ LinkInv'
<1>1. ASSUME NEW a, Retired(a)
      PROVE  Retired(a)'
  BY <1>1, RetiredKept
<1>2. ASSUME NEW a, Retired(a), NEW k, Carries(a, k)
      PROVE  Carries(a, k)'
  BY <1>2, CarriesKept DEF Retired
<1>3. PendingInv'
  <2> SUFFICES ASSUME NEW u \in Threads, pc'[u] = "upd_store"
               PROVE  /\ Retired(old[u])' /\ old'[u] # addr'[u] /\ Carries(old[u], key[u])'
                      /\ \A w \in Threads : pc'[w] = "upd_store" /\ old'[w] = old'[u] => w = u
                      /\ \A b \in Addrs : log'[b].op = "UPDATE" => log'[b].old # old'[u]
    BY DEF PendingInv
  <2>1. /\ u # t /\ pc[u] = "upd_store" /\ old'[u] = old[u] /\ addr'[u] = addr[u]
        /\ key'[u] = key[u]
    BY DEF OthersUntouched
  <2>2. Retired(old[u]) /\ old[u] # addr[u] /\ Carries(old[u], key[u])
    BY <2>1 DEF PendingInv
  <2>3. Retired(old[u])' /\ Carries(old[u], key[u])'
    <3>1. PICK a, k : a = old[u] /\ k = key[u]
      OBVIOUS
    <3>2. Retired(a)' /\ Carries(a, k)'
      BY <1>1, <1>2, <2>2, <3>1
    <3> QED
      BY <2>1, <3>1, <3>2 DEF Retired, Carries, Publishing
  <2>4. \A w \in Threads : pc'[w] = "upd_store" /\ old'[w] = old'[u] => w = u
    BY <2>1 DEF PendingInv, OthersUntouched
  <2>5. \A b \in Addrs : log'[b].op = "UPDATE" => log'[b].old # old'[u]
    BY <2>1 DEF PendingInv
  <2> QED
    BY <2>1, <2>2, <2>3, <2>4, <2>5
<1>4. LinkInv'
  <2> SUFFICES ASSUME NEW b \in Addrs, log'[b].op = "UPDATE"
               PROVE  /\ Retired(log[b].old)' /\ log'[b].old # b
                      /\ Carries(log[b].old, log[b].key)'
                      /\ \A c \in Addrs : log'[c].op = "UPDATE" /\ log'[c].old = log'[b].old
                           => c = b
    BY DEF LinkInv
  <2>1. log'[b] = log[b]
    OBVIOUS
  <2>2. /\ Retired(log[b].old) /\ log[b].old # b /\ Carries(log[b].old, log[b].key)
        /\ \A c \in Addrs : log[c].op = "UPDATE" /\ log[c].old = log[b].old => c = b
    BY <2>1 DEF LinkInv
  <2>3. Retired(log[b].old)' /\ Carries(log[b].old, log[b].key)'
    <3>1. PICK a, k : a = log[b].old /\ k = log[b].key
      OBVIOUS
    <3>2. Retired(a)' /\ Carries(a, k)'
      BY <1>1, <1>2, <2>2, <3>1
    <3> QED
      BY <2>1, <3>1, <3>2 DEF Retired, Carries, Publishing
  <2> QED
    BY <2>1, <2>2, <2>3
<1> QED
  BY <1>3, <1>4

\* An address that the index holds is a slot of the key, and of no other key.
LEMMA IndexCarries ==
  ASSUME Inv, NEW k \in Keys, index[k] # None
  PROVE  Carries(index[k], k) /\ \A j \in Keys : index[j] = index[k] => j = k
<1>1. index[k] \in Addrs
  BY DEF Inv, TypeOK
<1>2. ASSUME NEW u \in Threads, NEW a, Publishing(u, a)
      PROVE  log[a] = Unwritten /\ \A w \in Threads : Publishing(w, a) => w = u
  BY <1>2 DEF Inv, SlotInv, Publishing, Holding, Writing
<1>3. Unwritten.op = "TRASH"
  BY DEF Unwritten
<1>4. \A j \in Keys : index[j] = index[k] =>
         \/ log[index[k]].op \in {"INSERT", "UPDATE"} /\ log[index[k]].key = j
         \/ \E u \in Threads : Publishing(u, index[k]) /\ key[u] = j
  BY DEF Inv, IndexSound
<1>5. Carries(index[k], k)
  BY <1>3, <1>4 DEF Carries
<1> QED
  BY <1>2, <1>3, <1>4, <1>5

\* update swaps its slot in: the address it takes out is retired now, and named
\* by this update alone.
LEMMA SwapNames ==
  ASSUME Inv, PendingInv, LinkInv, NEW t \in Threads, UpdateIndex(t)
  PROVE  PendingInv' /\ LinkInv'
<1>0. PICK k, o : k = key[t] /\ o = index[k]
  OBVIOUS
<1>1. /\ pc[t] = "upd_index" /\ pc[t] \in Private /\ pc[t] \in Holding
      /\ k \in Keys /\ o # None /\ o \in Addrs /\ addr[t] \in Addrs
  BY <1>0 DEF UpdateIndex, Inv, LocalInv, TypeOK, Holding, Private
<1>2. /\ pc'[t] = "upd_store" /\ old'[t] = o
      /\ index'[k] = addr[t] /\ \A j \in Keys : j # k => index'[j] = index[j]
      /\ UNCHANGED <<log, nlog, key, addr>>
      /\ \A u \in Threads \ {t} : pc'[u] = pc[u] /\ old'[u] = old[u]
  BY <1>0, <1>1 DEF UpdateIndex, Goto, Inv, TypeOK
<1>3. OthersUntouched(t)
  BY DEF UpdateIndex, Goto, OthersUntouched, Inv, TypeOK
<1>4. pc'[t] \notin Private /\ nlog' \in Nat /\ nlog <= nlog'
  BY <1>2, LogDBConstants DEF Private, Inv, TypeOK
<1>5. ASSUME NEW a, Retired(a)
      PROVE  Retired(a)'
  BY <1>1, <1>2, <1>3, <1>4, <1>5, RetiredKept
<1>6. ASSUME NEW a \in Addrs, NEW j, Carries(a, j)
      PROVE  Carries(a, j)'
  BY <1>1, <1>2, <1>3, <1>6, CarriesKept
<1>7. o < nlog /\ o # addr[t] /\ \A u \in Threads : pc[u] \in Private => addr[u] # o
  BY <1>0, <1>1 DEF Inv, SlotInv, Holding
<1>8. Carries(o, k) /\ \A j \in Keys : index[j] = o => j = k
  BY <1>0, <1>1, IndexCarries
<1>9. Retired(o)'
  BY <1>1, <1>2, <1>4, <1>7, <1>8 DEF Retired
<1>10. ~Retired(o)
  BY <1>0, <1>1 DEF Retired
<1>11. Carries(o, k)'
  BY <1>1, <1>6, <1>8
<1>12. PendingInv'
  <2> SUFFICES ASSUME NEW u \in Threads, pc'[u] = "upd_store"
               PROVE  /\ Retired(old[u])' /\ old'[u] # addr'[u] /\ Carries(old[u], key[u])'
                      /\ \A w \in Threads : pc'[w] = "upd_store" /\ old'[w] = old'[u] => w = u
                      /\ \A b \in Addrs : log'[b].op = "UPDATE" => log'[b].old # old'[u]
    BY DEF PendingInv
  <2>1. \A w \in Threads \ {t} : pc[w] = "upd_store" => old[w] # o
    BY <1>10 DEF PendingInv
  <2>2. \A b \in Addrs : log[b].op = "UPDATE" => log[b].old # o
    BY <1>10 DEF LinkInv
  <2>3. CASE u = t
    <3>1. Retired(old[u])' /\ Carries(old[u], key[u])'
      BY <1>0, <1>2, <1>9, <1>11, <2>3 DEF Retired, Carries, Publishing
    <3> QED
      BY <1>2, <1>7, <2>1, <2>2, <2>3, <3>1
  <2>4. CASE u # t
    <3>1. pc[u] = "upd_store" /\ old'[u] = old[u] /\ key'[u] = key[u] /\ addr'[u] = addr[u]
      BY <1>2, <2>4
    <3>2. /\ Retired(old[u]) /\ old[u] # addr[u] /\ Carries(old[u], key[u]) /\ old[u] \in Addrs
          /\ \A w \in Threads : pc[w] = "upd_store" /\ old[w] = old[u] => w = u
          /\ \A b \in Addrs : log[b].op = "UPDATE" => log[b].old # old[u]
      BY <3>1 DEF PendingInv, Retired
    <3>3. PICK a, j : a = old[u] /\ j = key[u]
      OBVIOUS
    <3>4. Retired(a)' /\ Carries(a, j)'
      BY <1>5, <1>6, <3>2, <3>3
    <3>5. Retired(old[u])' /\ Carries(old[u], key[u])'
      BY <3>1, <3>3, <3>4 DEF Retired, Carries, Publishing
    <3> QED
      BY <1>2, <2>1, <2>4, <3>1, <3>2, <3>5
  <2> QED
    BY <2>3, <2>4
<1>13. LinkInv'
  <2> SUFFICES ASSUME NEW b \in Addrs, log[b].op = "UPDATE"
               PROVE  Retired(log[b].old)' /\ Carries(log[b].old, log[b].key)'
    BY <1>2 DEF LinkInv
  <2>1. PICK a, j : a = log[b].old /\ j = log[b].key
    OBVIOUS
  <2>2. Retired(a) /\ Carries(a, j) /\ a \in Addrs
    BY <2>1 DEF LinkInv, Retired
  <2>3. Retired(a)' /\ Carries(a, j)'
    BY <1>5, <1>6, <2>2
  <2> QED
    BY <1>2, <2>1, <2>3 DEF Retired, Carries, Publishing
<1> QED
  BY <1>12, <1>13

\* update writes its log: the address that was pending is named by the log now.
LEMMA StoreNames ==
  ASSUME Inv, PendingInv, LinkInv, NEW t \in Threads, UpdateStore(t)
  PROVE  PendingInv' /\ LinkInv'
<1>0. PICK x, o, k : x = addr[t] /\ o = old[t] /\ k = key[t]
  OBVIOUS
<1>1. /\ pc[t] = "upd_store" /\ pc[t] \in Holding /\ pc[t] \in Writing
      /\ k \in Keys /\ x \in Addrs /\ log[x] = Unwritten
  BY <1>0 DEF UpdateStore, Inv, LocalInv, SlotInv, TypeOK, Holding, Writing
<1>2. /\ pc'[t] = "idle" /\ OthersUntouched(t) /\ UNCHANGED <<index, nlog>>
  BY FinishTypes DEF UpdateStore, Inv
<1>3. /\ log'[x] = [op |-> "UPDATE", key |-> k, value |-> val[t], old |-> o]
      /\ \A a \in Addrs : a # x => log'[a] = log[a]
  BY <1>0, <1>1 DEF UpdateStore, Store, Inv, TypeOK
<1>4. /\ log'[x].op = "UPDATE" /\ log'[x].key = k /\ log'[x].old = o /\ log'[x] # Unwritten
      /\ log[x].op = "TRASH" /\ \A a \in Addrs : log[a] # Unwritten => log'[a] = log[a]
  BY <1>1, <1>3 DEF Unwritten
<1>5. pc'[t] \notin Private /\ nlog' \in Nat /\ nlog <= nlog'
  BY <1>2, LogDBConstants DEF Private, Inv, TypeOK
<1>6. ASSUME NEW a, Retired(a)
      PROVE  Retired(a)'
  BY <1>2, <1>5, <1>6, RetiredKept
<1>7. ASSUME NEW a \in Addrs, NEW j, Carries(a, j)
      PROVE  Carries(a, j)'
  BY <1>0, <1>2, <1>4, <1>7, CarriesKept
<1>8. /\ Retired(o) /\ o # x /\ Carries(o, k) /\ o \in Addrs
      /\ \A u \in Threads : pc[u] = "upd_store" /\ old[u] = o => u = t
      /\ \A b \in Addrs : log[b].op = "UPDATE" => log[b].old # o
  BY <1>0, <1>1 DEF PendingInv, Retired
<1>9. Retired(o)' /\ Carries(o, k)'
  BY <1>6, <1>7, <1>8
<1>10. PendingInv'
  <2> SUFFICES ASSUME NEW u \in Threads, pc'[u] = "upd_store"
               PROVE  /\ Retired(old[u])' /\ old'[u] # addr'[u] /\ Carries(old[u], key[u])'
                      /\ \A w \in Threads : pc'[w] = "upd_store" /\ old'[w] = old'[u] => w = u
                      /\ \A b \in Addrs : log'[b].op = "UPDATE" => log'[b].old # old'[u]
    BY DEF PendingInv
  <2>1. /\ u # t /\ pc[u] = "upd_store" /\ old'[u] = old[u] /\ key'[u] = key[u]
        /\ addr'[u] = addr[u]
    BY <1>2 DEF OthersUntouched
  <2>2. /\ Retired(old[u]) /\ old[u] # addr[u] /\ Carries(old[u], key[u]) /\ old[u] \in Addrs
        /\ \A w \in Threads : pc[w] = "upd_store" /\ old[w] = old[u] => w = u
        /\ \A b \in Addrs : log[b].op = "UPDATE" => log[b].old # old[u]
        /\ old[u] # o
    BY <1>8, <2>1 DEF PendingInv, Retired
  <2>3. PICK a, j : a = old[u] /\ j = key[u]
    OBVIOUS
  <2>4. Retired(a)' /\ Carries(a, j)'
    BY <1>6, <1>7, <2>2, <2>3
  <2>5. Retired(old[u])' /\ Carries(old[u], key[u])'
    BY <2>1, <2>3, <2>4 DEF Retired, Carries, Publishing
  <2>6. \A w \in Threads : pc'[w] = "upd_store" /\ old'[w] = old'[u] => w = u
    BY <1>2, <2>1, <2>2 DEF OthersUntouched
  <2>7. \A b \in Addrs : log'[b].op = "UPDATE" => log'[b].old # old'[u]
    BY <1>3, <1>4, <2>1, <2>2
  <2> QED
    BY <2>1, <2>2, <2>5, <2>6, <2>7
<1>11. LinkInv'
  <2> SUFFICES ASSUME NEW b \in Addrs, log'[b].op = "UPDATE"
               PROVE  /\ Retired(log[b].old)' /\ log'[b].old # b
                      /\ Carries(log[b].old, log[b].key)'
                      /\ \A c \in Addrs : log'[c].op = "UPDATE" /\ log'[c].old = log'[b].old
                           => c = b
    BY DEF LinkInv
  <2>1. CASE b = x
    <3>1. Retired(log[b].old)' /\ Carries(log[b].old, log[b].key)'
      BY <1>4, <1>9, <2>1 DEF Retired, Carries, Publishing
    <3>2. log'[b].old # b
      BY <1>4, <1>8, <2>1
    <3>3. \A c \in Addrs : log'[c].op = "UPDATE" /\ log'[c].old = log'[b].old => c = b
      BY <1>3, <1>4, <1>8, <2>1
    <3> QED
      BY <3>1, <3>2, <3>3
  <2>2. CASE b # x
    <3>1. log'[b] = log[b]
      BY <1>3, <2>2
    <3>2. /\ Retired(log[b].old) /\ log[b].old # b /\ Carries(log[b].old, log[b].key)
          /\ \A c \in Addrs : log[c].op = "UPDATE" /\ log[c].old = log[b].old => c = b
          /\ log[b].old # o /\ log[b].old \in Addrs
      BY <1>8, <3>1 DEF LinkInv, Retired
    <3>3. PICK a, j : a = log[b].old /\ j = log[b].key
      OBVIOUS
    <3>4. Retired(a)' /\ Carries(a, j)'
      BY <1>6, <1>7, <3>2, <3>3
    <3>5. Retired(log[b].old)' /\ Carries(log[b].old, log[b].key)'
      BY <3>1, <3>3, <3>4 DEF Retired, Carries, Publishing
    <3>6. \A c \in Addrs : log'[c].op = "UPDATE" /\ log'[c].old = log'[b].old => c = b
      BY <1>3, <1>4, <3>1, <3>2
    <3> QED
      BY <3>1, <3>2, <3>5, <3>6
  <2> QED
    BY <2>1, <2>2
<1> QED
  BY <1>10, <1>11

\* Logs are not overwritten: a value that was in a log of the key still is.
LEMMA OwnLogKept ==
  ASSUME \A a \in Addrs : log[a] # Unwritten => log'[a] = log[a],
         NEW k, NEW v \in Values, OwnLog(k, v)
  PROVE  OwnLog(k, v)'
<1>1. PICK a \in Addrs : log[a].key = k /\ log[a].value = v
  BY DEF OwnLog
<1>2. log[a] # Unwritten
  BY <1>1, LogDBConstants DEF Unwritten
<1> QED
  BY <1>1, <1>2 DEF OwnLog

\* A step that leaves the cache alone.
LEMMA NoFill ==
  ASSUME Inv, ChainInv, NEW t \in Threads, OthersUntouched(t), UNCHANGED cache,
         \A a \in Addrs : log[a] # Unwritten => log'[a] = log[a],
         pc[t] = "upd_store" =>
           /\ log'[addr[t]] # Unwritten
           /\ log'[addr[t]].op = "UPDATE" /\ log'[addr[t]].key = key[t],
         pc'[t] = "get_read" => Carries(addr[t], key[t])',
         pc'[t] = "get_put" /\ val'[t] \in Values => OwnLog(key[t], val[t])'
  PROVE  FillInv' /\ CacheFromOwnLog'
<1>1. ASSUME NEW u \in Threads, pc'[u] = "get_read"
      PROVE  Carries(addr[u], key[u])'
  <2>1. CASE u = t
    BY <1>1, <2>1
  <2>2. CASE u # t
    <3>1. PICK a, k : a = addr[u] /\ k = key[u]
      OBVIOUS
    <3>2. pc[u] = "get_read" /\ addr'[u] = a /\ key'[u] = k
      BY <1>1, <2>2, <3>1 DEF OthersUntouched
    <3>3. Carries(a, k) /\ a \in Addrs
      BY <3>1, <3>2 DEF ChainInv, FillInv, Inv, SearchInv
    <3>4. Carries(a, k)'
      BY <3>3, CarriesKept
    <3> QED
      BY <3>2, <3>4 DEF Carries, Publishing
  <2> QED
    BY <2>1, <2>2
<1>2. ASSUME NEW u \in Threads, pc'[u] = "get_put", val'[u] \in Values
      PROVE  OwnLog(key[u], val[u])'
  <2>1. CASE u = t
    BY <1>2, <2>1
  <2>2. CASE u # t
    <3>1. PICK k, v : k = key[u] /\ v = val[u]
      OBVIOUS
    <3>2. pc[u] = "get_put" /\ key'[u] = k /\ val'[u] = v
      BY <1>2, <2>2, <3>1 DEF OthersUntouched
    <3>3. OwnLog(k, v) /\ v \in Values
      BY <1>2, <3>1, <3>2 DEF ChainInv, FillInv
    <3>4. OwnLog(k, v)'
      BY <3>3, OwnLogKept
    <3> QED
      BY <3>2, <3>4 DEF OwnLog
  <2> QED
    BY <2>1, <2>2
<1>3. ASSUME NEW k \in Keys, cache'[k] \in Values
      PROVE  \E a \in Addrs : log'[a].key = k /\ log'[a].value = cache'[k]
  <2>1. PICK v : v = cache[k]
    OBVIOUS
  <2>2. OwnLog(k, v)
    BY <1>3, <2>1 DEF ChainInv, CacheFromOwnLog, OwnLog
  <2>3. OwnLog(k, v)'
    BY <1>3, <2>1, <2>2, OwnLogKept
  <2> QED
    BY <2>1, <2>3 DEF OwnLog
<1> QED
  BY <1>1, <1>2, <1>3 DEF FillInv, CacheFromOwnLog

\* The cache gets what a search took from a log of the key.
LEMMA CachePutFills ==
  ASSUME Inv, ChainInv, NEW t \in Threads, CachePut(t)
  PROVE  FillInv' /\ CacheFromOwnLog'
<1>1. /\ pc[t] = "get_put" /\ pc'[t] = "got" /\ key[t] \in Keys
      /\ UNCHANGED <<log, key, val, addr>>
      /\ \A u \in Threads \ {t} : pc'[u] = pc[u]
      /\ \A k \in Keys : cache'[k] = cache[k] \/ (k = key[t] /\ cache'[k] = val[t])
  <2>1. key[t] \in Keys /\ pc \in [Threads -> PcLabels] /\ cache \in [Keys -> Values \union {None, Ones}]
    BY DEF CachePut, Inv, TypeOK, LocalInv, PcLabels
  <2> QED
    BY <2>1 DEF CachePut, Goto, locals
<1>2. \A a, k : Carries(a, k) => Carries(a, k)'
  BY <1>1 DEF Carries, Publishing
<1>3. FillInv'
  <2>1. \A u \in Threads : pc'[u] \in {"get_read", "get_put"} => pc[u] = pc'[u]
    BY <1>1
  <2>2. ASSUME NEW u \in Threads, pc'[u] = "get_read"
        PROVE  Carries(addr[u], key[u])'
    <3>1. Carries(addr[u], key[u])
      BY <2>1, <2>2 DEF ChainInv, FillInv
    <3> QED
      BY <1>1, <3>1 DEF Carries, Publishing
  <2>3. ASSUME NEW u \in Threads, pc'[u] = "get_put", val'[u] \in Values
        PROVE  OwnLog(key[u], val[u])'
    BY <1>1, <2>1, <2>3 DEF ChainInv, FillInv, OwnLog
  <2> QED
    BY <2>2, <2>3 DEF FillInv
<1>4. CacheFromOwnLog'
  BY <1>1 DEF ChainInv, CacheFromOwnLog, FillInv, OwnLog
<1> QED
  BY <1>3, <1>4

\* What search reads from the slot it was given is of its key.
LEMMA ReadOwn ==
  ASSUME Inv, FillInv, NEW t \in Threads, SearchRead(t), val'[t] \in Values
  PROVE  OwnLog(key[t], val[t])'
<1>1. /\ pc[t] = "get_read" /\ val'[t] = log[addr[t]].value /\ UNCHANGED <<log, key>>
      /\ addr[t] \in Addrs
  BY DEF SearchRead, Inv, TypeOK, SearchInv
<1>2. log[addr[t]] # Unwritten
  BY <1>1, LogDBConstants DEF Unwritten
<1>3. \A u \in Threads : ~Publishing(u, addr[t])
  BY <1>2 DEF Publishing, Inv, SlotInv, Holding, Writing
<1>4. log[addr[t]].key = key[t]
  BY <1>1, <1>3 DEF FillInv, Carries
<1> QED
  BY <1>1, <1>4 DEF OwnLog

\* Every step keeps the chain and the cache as they should be.
LEMMA ChainStep ==
  ASSUME Inv, ChainInv, NEW t \in Threads, Call(t) \/ Continue(t)
  PROVE  ChainInv'
<1> USE DEF ChainInv
<1>0. Inv' /\ TypeOK /\ TypeOK' /\ LocalInv
  BY NextInv DEF Next, Inv
<1>1. nlog \in Nat /\ nlog' \in Nat
  BY <1>0, LogDBConstants DEF TypeOK
<1>2. ASSUME NEW k \in Keys, NEW v \in Values, InsertAlloc(t, k, v) \/ UpdateAlloc(t, k, v)
      PROVE  ChainInv'
  <2>1. /\ OthersUntouched(t) /\ UNCHANGED <<index, log, cache>> /\ nlog' = nlog + 1
        /\ pc[t] = "idle" /\ pc'[t] \in {"ins_store", "upd_index"} /\ addr'[t] = nlog
    BY <1>0, <1>2, AllocTypes
    DEF InsertAlloc, UpdateAlloc, AllocLog, Goto, OthersUntouched, TypeOK
  <2> QED
    BY <1>1, <2>1, NoNewName, NoFill
<1>3. CASE EraseAlloc(t)
  <2>1. /\ OthersUntouched(t) /\ UNCHANGED <<index, log, cache>> /\ nlog' = nlog + 1
        /\ pc[t] = "ers_alloc" /\ pc'[t] = "ers_store" /\ addr'[t] = nlog
    BY <1>0, <1>3, AllocTypes DEF EraseAlloc, AllocLog, Goto, OthersUntouched, TypeOK
  <2> QED
    BY <1>1, <2>1, NoNewName, NoFill
<1>4. ASSUME NEW k \in Keys, EraseSearch(t, k) \/ CacheHit(t, k) \/ CacheMiss(t, k)
      PROVE  ChainInv'
  <2>1. /\ OthersUntouched(t) /\ UNCHANGED <<index, log, nlog, cache>>
        /\ pc[t] = "idle" /\ pc'[t] \in {"ers_index", "got", "get_index"}
    BY <1>0, <1>4 DEF EraseSearch, CacheHit, CacheMiss, Goto, OthersUntouched, TypeOK
  <2> QED
    BY <1>1, <2>1, NoNewName, NoFill DEF Private
<1>5. CASE UpdateAbsent(t) \/ SearchReturn(t)
  <2>1. /\ OthersUntouched(t) /\ UNCHANGED <<index, log, nlog, cache>>
        /\ pc[t] \in {"upd_index", "got"} /\ pc'[t] = "idle"
    BY <1>0, <1>5, FinishTypes DEF UpdateAbsent, SearchReturn
  <2> QED
    BY <1>1, <2>1, NoNewName, NoFill DEF Private
<1>6. CASE SearchRead(t)
  <2>1. /\ OthersUntouched(t) /\ UNCHANGED <<index, log, nlog, cache>>
        /\ pc[t] = "get_read" /\ pc'[t] \in {"get_put", "got"}
    BY <1>0, <1>6 DEF SearchRead, Goto, OthersUntouched, TypeOK
  <2>2. val'[t] \in Values => OwnLog(key[t], val[t])'
    BY <1>6, ReadOwn
  <2> QED
    BY <1>1, <2>1, <2>2, NoNewName, NoFill DEF Private
<1>7. CASE CachePut(t)
  <2>1. /\ OthersUntouched(t) /\ UNCHANGED <<index, log, nlog>>
        /\ pc[t] = "get_put" /\ pc'[t] = "got"
    BY <1>0, <1>7 DEF CachePut, Goto, locals, OthersUntouched, TypeOK
  <2> QED
    BY <1>1, <1>7, <2>1, NoNewName, CachePutFills DEF Private
<1>8. CASE InsertStore(t) \/ EraseStore(t)
  <2>1. /\ pc[t] \in {"ins_store", "ers_store"} /\ UNCHANGED <<index, nlog, cache>>
        /\ pc'[t] \in {"ins_index", "idle"}
        /\ pc'[t] = "ins_index" => pc[t] = "ins_store" /\ addr'[t] = addr[t]
        /\ OthersUntouched(t)
    BY <1>0, <1>8, FinishTypes
    DEF InsertStore, EraseStore, Goto, locals, OthersUntouched, TypeOK
  <2>2. addr[t] \in Addrs /\ log[addr[t]] = Unwritten
    BY <2>1 DEF Inv, LocalInv, SlotInv, Holding, Writing
  <2>3. log'[addr[t]].op \in {"INSERT", "DELETE"} /\ \A a \in Addrs : a # addr[t] => log'[a] = log[a]
    BY <1>0, <1>8, <2>2 DEF InsertStore, EraseStore, Store, TypeOK
  <2>4. /\ \A a \in Addrs : log[a] # Unwritten => log'[a] = log[a]
        /\ \A a \in Addrs : log'[a].op = "UPDATE" => log'[a] = log[a]
    BY <2>2, <2>3
  <2> QED
    BY <1>1, <2>1, <2>4, NoNewName, NoFill DEF Private
<1>9. CASE InsertIndex(t)
  <2>1. /\ OthersUntouched(t) /\ UNCHANGED <<log, nlog, cache>>
        /\ pc[t] = "ins_index" /\ pc'[t] = "idle"
        /\ \A k \in Keys : index'[k] \in {index[k], addr[t]}
    BY <1>0, <1>9, FinishTypes DEF InsertIndex, TypeOK
  <2> QED
    BY <1>1, <2>1, NoNewName, NoFill DEF Private
<1>10. CASE EraseIndex(t)
  <2>1. /\ OthersUntouched(t) /\ UNCHANGED <<log, nlog, cache>>
        /\ pc[t] = "ers_index" /\ pc'[t] = "ers_alloc"
        /\ \A k \in Keys : index'[k] \in {index[k], None}
    BY <1>0, <1>10 DEF EraseIndex, Goto, locals, OthersUntouched, TypeOK
  <2> QED
    BY <1>1, <2>1, NoNewName, NoFill DEF Private
<1>11. CASE SearchIndex(t)
  <2>1. /\ OthersUntouched(t) /\ UNCHANGED <<index, log, nlog, cache, key>> /\ key[t] \in Keys
        /\ pc[t] = "get_index" /\ pc'[t] \in {"got", "get_read"}
        /\ addr'[t] = index[key[t]]
        /\ pc'[t] = "get_read" => index[key[t]] # None
        /\ \A u \in Threads : pc[u] = "upd_store" => pc'[u] = pc[u] /\ addr'[u] = addr[u]
    BY <1>0, <1>11 DEF SearchIndex, Goto, OthersUntouched, TypeOK, LocalInv
  <2>2. pc'[t] = "get_read" => Carries(addr[t], key[t])'
    <3>1. ASSUME pc'[t] = "get_read"
          PROVE  Carries(index[key[t]], key[t])
      BY <2>1, <3>1, IndexCarries
    <3> QED
      BY <2>1, <3>1 DEF Carries, Publishing
  <2> QED
    BY <1>1, <2>1, <2>2, NoNewName, NoFill DEF Private
<1>12. CASE UpdateIndex(t)
  <2>1. /\ OthersUntouched(t) /\ UNCHANGED <<log, cache>>
        /\ pc[t] = "upd_index" /\ pc'[t] = "upd_store"
    BY <1>0, <1>12 DEF UpdateIndex, Goto, OthersUntouched, TypeOK
  <2> QED
    BY <1>12, <2>1, SwapNames, NoFill
<1>13. CASE UpdateStore(t)
  <2>1. /\ OthersUntouched(t) /\ UNCHANGED cache /\ pc[t] = "upd_store" /\ pc'[t] = "idle"
    BY <1>0, <1>13, FinishTypes DEF UpdateStore
  <2>2. addr[t] \in Addrs /\ log[addr[t]] = Unwritten
    BY <2>1 DEF Inv, LocalInv, SlotInv, Holding, Writing
  <2>3. /\ log'[addr[t]].op = "UPDATE" /\ log'[addr[t]].key = key[t]
        /\ \A a \in Addrs : a # addr[t] => log'[a] = log[a]
    BY <1>0, <1>13, <2>2 DEF UpdateStore, Store, TypeOK
  <2>4. /\ \A a \in Addrs : log[a] # Unwritten => log'[a] = log[a]
        /\ log'[addr[t]] # Unwritten
    BY <2>2, <2>3 DEF Unwritten
  <2> QED
    BY <1>13, <2>1, <2>3, <2>4, StoreNames, NoFill
<1> QED
  BY <1>2, <1>3, <1>4, <1>5, <1>6, <1>7, <1>8, <1>9, <1>10, <1>11, <1>12, <1>13
  DEF Call, WriteCall, ReadCall, Continue

\* An empty log has no chain, an empty cache nothing to explain.
LEMMA ChainInit ==
  ASSUME Init
  PROVE  ChainInv
<1>1. \A a \in Addrs : log[a].op = "TRASH"
  BY DEF Init, Unwritten
<1>2. (\A t \in Threads : pc[t] = "idle") /\ \A k \in Keys : cache[k] = None
  BY DEF Init
<1> QED
  BY <1>1, <1>2, LogDBConstants DEF ChainInv, PendingInv, LinkInv, FillInv, CacheFromOwnLog

\* The chain follows from what each UPDATE log names.
LEMMA ChainIsLinear ==
  ASSUME Inv, LinkInv
  PROVE  UpdateChainLinear
<1> SUFFICES ASSUME NEW a \in Addrs, NEW b \in Addrs, log[b].op = "UPDATE", log[b].old = a
             PROVE  /\ a # b
                    /\ Superseded(a) = {b}
                    /\ log[a].op \in {"INSERT", "UPDATE"} => log[a].key = log[b].key
                    /\ log[a].op # "DELETE"
  BY DEF UpdateChainLinear
<1>1. /\ a # b /\ Carries(a, log[b].key)
      /\ \A c \in Addrs : log[c].op = "UPDATE" /\ log[c].old = a => c = b
  BY DEF LinkInv
<1>2. Superseded(a) = {b}
  BY <1>1 DEF Superseded
<1>3. ASSUME NEW u \in Threads, Publishing(u, a)
      PROVE  log[a].op = "TRASH"
  <2>1. log[a] = Unwritten
    BY <1>3 DEF Publishing, Inv, SlotInv, Holding, Writing
  <2> QED
    BY <2>1 DEF Unwritten
<1> QED
  BY <1>1, <1>2, <1>3 DEF Carries

\* Chain and cache, in every reachable state.
THEOREM ChainInvariance == Spec => [](Inv /\ ChainInv)
<1>1. Init => Inv /\ ChainInv
  BY InitInv, ChainInit
<1>2. Inv /\ ChainInv /\ [Next]_vars => (Inv /\ ChainInv)'
  <2> SUFFICES ASSUME Inv, ChainInv, [Next]_vars PROVE ChainInv'
    BY NextInv
  <2>1. CASE UNCHANGED vars
    BY <2>1 DEF vars, ChainInv, PendingInv, LinkInv, FillInv, OwnLog, CacheFromOwnLog, Retired,
                Carries, Publishing
  <2>2. ASSUME NEW t \in Threads, Call(t) \/ Continue(t)
        PROVE  ChainInv'
    BY <2>2, ChainStep
  <2> QED
    BY <2>1, <2>2 DEF Next, LogFull
<1> QED
  BY <1>1, <1>2, PTL DEF Spec

\* An UPDATE log names an older log of its own key, not itself, not a DELETE
\* log, and no two of them name the same one, however many updates race for the
\* index between update_step1 and update_step2.
THEOREM ChainsAreLinear == Spec => []UpdateChainLinear
<1>1. Inv /\ ChainInv => UpdateChainLinear
  BY ChainIsLinear DEF ChainInv
<1> QED
  BY <1>1, ChainInvariance, PTL

\* Every value in logdb's cache stands in a log of that key, however late a
\* search fills the cache.
THEOREM CacheIsOwn == Spec => []CacheFromOwnLog
<1>1. Inv /\ ChainInv => CacheFromOwnLog
  BY DEF ChainInv
<1> QED
  BY <1>1, ChainInvariance, PTL

-----------------------------------------------------------------------------
\* The inductive invariant, in parts, on top of LogDB's Inv and ChainInv.

\* What do_gc keeps; it is inside a page only when all slots of it are taken.
GCTypes ==
  /\ gpc \in {"off", "page", "log", "walk", "trash", "apply", "done"}
  /\ pass \in {1, 2} /\ file_id \in Pages /\ offset \in 0 .. PageSlots
  /\ sz_freed \in [Pages -> Nat]
  /\ old_log \in Seq(Addrs)
  /\ gpc \in {"log", "walk", "trash", "apply"} => file_id * PageSlots + PageSlots <= nlog
  /\ gpc \in {"walk", "trash", "apply"} => offset < PageSlots
  /\ gpc # "walk" => next_old_log = None
  /\ gpc \notin {"walk", "trash"} => old_log = <<>>

\* What the logs hold.
ContentInv ==
  \A a \in Addrs :
    /\ log[a].op \in {"INSERT", "UPDATE"} => log[a].key \in Keys /\ log[a].value \in Values
    /\ log[a].op = "INSERT" => log[a].old = None
    /\ log[a].op = "DELETE" => log[a].old \in Addrs

\* An address that an erase looked up: no other key has it.
Dropped(a, k) ==
  /\ a \in Addrs /\ a < nlog
  /\ \A j \in Keys : index[j] = a => j = k
  /\ \A u \in Threads : pc[u] \in Private => addr[u] # a

\* An erase names an address that is out of the index once the key is deleted.
EraseInv ==
  /\ \A t \in Threads : pc[t] = "ers_index" => Dropped(old[t], key[t])
  /\ \A t \in Threads : pc[t] \in {"ers_alloc", "ers_store"} => Retired(old[t])
  /\ \A b \in Addrs : log[b].op = "DELETE" => Retired(log[b].old)

\* What the walk has collected is out of the index and not trash yet.
WalkInv ==
  /\ \A i \in 1 .. Len(old_log) : Retired(old_log[i]) /\ log[old_log[i]].op # "TRASH"
  /\ next_old_log # None => Retired(next_old_log)

\* A rank of the slots that falls along every chain of older logs, those that are
\* about to be written and the one that is being walked included.
Falls(rank) ==
  /\ \A b \in Addrs : log[b].op \in {"UPDATE", "DELETE"} => rank[log[b].old] < rank[b]
  /\ \A t \in Threads : pc[t] \in {"upd_store", "ers_store"} => rank[old[t]] < rank[addr[t]]
  /\ \A i, j \in 1 .. Len(old_log) : i < j => rank[old_log[j]] < rank[old_log[i]]
  /\ next_old_log # None =>
       \A i \in 1 .. Len(old_log) : rank[next_old_log] < rank[old_log[i]]

Ranks == [Addrs -> Nat]

RankInv == \E rank \in Ranks : Falls(rank)

GCInv == GCTypes /\ ContentInv /\ EraseInv /\ WalkInv /\ RankInv /\ FreedExact
-----------------------------------------------------------------------------
\* Slots and pages.

\* A slot number is a natural number, and no slot is None.
LEMMA AddrFacts ==
  /\ \A a \in Addrs : a \in Nat /\ a # None /\ a <= MaxLogs - 1
  /\ MaxLogs \in Nat \ {0} /\ PageSlots \in Nat \ {0}
BY LogDBConstants, LogGCConstants DEF Addrs

\* Division by the slots of a page is monotonic.
LEMMA PageMonotonic ==
  ASSUME NEW a \in Nat, NEW b \in Nat, a <= b
  PROVE  PageOf(a) \in Nat /\ PageOf(a) <= PageOf(b)
<1>1. PICK p \in Nat \ {0} : p = PageSlots
  BY LogGCConstants
<1>2. /\ a \div p \in Int /\ b \div p \in Int
      /\ p * (a \div p) <= a /\ a < p * (a \div p) + p
      /\ p * (b \div p) <= b /\ b < p * (b \div p) + p
  OBVIOUS
<1>3. PICK x \in Int, y \in Int : x = a \div p /\ y = b \div p
  BY <1>2
<1>4. x >= 0
  <2> SUFFICES ASSUME x + 1 <= 0 PROVE FALSE
    OBVIOUS
  <2>1. p * (x + 1) <= 0
    OBVIOUS
  <2> QED
    BY <1>2, <1>3, <2>1
<1>5. x <= y
  <2> SUFFICES ASSUME y + 1 <= x PROVE FALSE
    OBVIOUS
  <2>1. p * (y + 1) <= p * x
    OBVIOUS
  <2> QED
    BY <1>2, <1>3, <2>1
<1> QED
  BY <1>1, <1>3, <1>4, <1>5 DEF PageOf

\* Every slot lies in a page that do_gc looks at.
LEMMA PageOfAddr ==
  /\ \A a \in Addrs : PageOf(a) \in Pages
  /\ LastFile \in Nat /\ LastFile \in Pages
<1>1. MaxLogs - 1 \in Nat
  BY LogDBConstants
<1>2. ASSUME NEW a \in Addrs
      PROVE  PageOf(a) \in Nat /\ PageOf(a) <= LastFile
  BY <1>1, <1>2, AddrFacts, PageMonotonic DEF LastFile
<1>3. LastFile \in Nat
  BY <1>1, PageMonotonic DEF LastFile
<1> QED
  BY <1>2, <1>3 DEF Pages

\* A page older than the newest one is full.
LEMMA OlderPageFull ==
  ASSUME nlog \in 0 .. MaxLogs, NEW f \in Nat, NewestPage > f
  PROVE  f * PageSlots + PageSlots <= nlog
<1>1. PICK p \in Nat \ {0} : p = PageSlots
  BY LogGCConstants
<1>2. nlog \in Nat /\ nlog # 0 /\ nlog - 1 \in Nat
  <2>1. nlog \in Nat /\ nlog # 0
    BY LogDBConstants DEF NewestPage
  <2> QED
    BY <2>1
<1>3. PICK q \in Nat : q = nlog - 1
  BY <1>2
<1>4. PICK x \in Int : x = q \div p /\ p * x <= q
  BY <1>3
<1>5. x >= f + 1
  BY <1>1, <1>2, <1>3, <1>4 DEF NewestPage, PageOf
<1>6. p * (f + 1) <= p * x
  BY <1>4, <1>5
<1>7. f * p + p = p * (f + 1)
  OBVIOUS
<1> QED
  BY <1>1, <1>2, <1>3, <1>4, <1>6, <1>7

\* The slot that do_gc looks at is one that was handed out.
LEMMA ThisSlot ==
  ASSUME nlog \in 0 .. MaxLogs, GCTypes, gpc \in {"log", "walk", "trash", "apply"},
         offset < PageSlots
  PROVE  /\ file_id * PageSlots + offset \in Addrs
         /\ file_id * PageSlots + offset < nlog
<1>1. /\ file_id \in Nat /\ offset \in Nat /\ PageSlots \in Nat /\ MaxLogs \in Nat
      /\ nlog \in Nat /\ nlog <= MaxLogs
  BY LogGCConstants, LogDBConstants, PageOfAddr DEF GCTypes, Pages
<1>2. PICK x \in Nat : x = file_id * PageSlots
  BY <1>1
<1>3. x + PageSlots <= nlog
  BY <1>2 DEF GCTypes
<1> QED
  BY <1>1, <1>2, <1>3 DEF Addrs

-----------------------------------------------------------------------------
\* What Trash does to LogDB's state.

TrashStep == Trash /\ UNCHANGED <<index, nlog, cache, get_cnt, pc, key, val, addr, old, abs, seen>>

\* Slot a is marked: it was retired and not marked before, and a marked log keeps
\* everything but its op.
Marks(a) ==
  /\ a \in Addrs /\ Retired(a) /\ log[a].op # "TRASH" /\ log[a] # Unwritten
  /\ log'[a] # Unwritten /\ log'[a].op = "TRASH" /\ log'[a].key = log[a].key
  /\ log'[a].value = log[a].value /\ log'[a].old = log[a].old /\ log'[a] \in Entries
  /\ \A b \in Addrs : b # a => log'[b] = log[b]
  /\ log' \in [Addrs -> Entries]
  /\ UNCHANGED <<index, nlog, cache, get_cnt, pc, key, val, addr, old, abs, seen>>

\* The last log that the walk collected is marked.
LEMMA TrashMarks ==
  ASSUME Inv, GCInv, TrashStep
  PROVE  /\ Len(old_log) \in Nat \ {0} /\ Marks(old_log[Len(old_log)])
         /\ old_log' = SubSeq(old_log, 1, Len(old_log) - 1)
         /\ sz_freed' = [sz_freed EXCEPT ![PageOf(old_log[Len(old_log)])] = @ + 1]
         /\ gpc = "trash" /\ UNCHANGED <<gpc, pass, file_id, offset, next_old_log>>
<1>1. /\ gpc = "trash" /\ old_log # <<>> /\ UNCHANGED <<gpc, pass, file_id, offset, next_old_log>>
      /\ log' = [log EXCEPT ![old_log[Len(old_log)]].op = "TRASH"]
      /\ sz_freed' = [sz_freed EXCEPT ![PageOf(old_log[Len(old_log)])] = @ + 1]
      /\ old_log' = SubSeq(old_log, 1, Len(old_log) - 1)
      /\ UNCHANGED <<index, nlog, cache, get_cnt, pc, key, val, addr, old, abs, seen>>
  BY DEF TrashStep, Trash
<1>2. old_log \in Seq(Addrs) /\ Len(old_log) \in Nat \ {0} /\ Len(old_log) \in 1 .. Len(old_log)
  <2>1. old_log \in Seq(Addrs)
    BY DEF GCInv, GCTypes
  <2> QED
    BY <1>1, <2>1
<1>3. PICK a : a = old_log[Len(old_log)]
  OBVIOUS
<1>4. a \in Addrs /\ Retired(a) /\ log[a].op # "TRASH"
  BY <1>2, <1>3 DEF GCInv, WalkInv, Retired
<1>5. log \in [Addrs -> Entries] /\ log[a] \in Entries /\ log[a] # Unwritten
  BY <1>4 DEF Inv, TypeOK, Unwritten
<1>6. log' = [log EXCEPT ![a] = [log[a] EXCEPT !.op = "TRASH"]]
  BY <1>1, <1>3, <1>5
<1>7. PICK e : e = [log[a] EXCEPT !.op = "TRASH"]
  OBVIOUS
<1>8. /\ e \in Entries /\ e.op = "TRASH" /\ e.key = log[a].key
      /\ e.value = log[a].value /\ e.old = log[a].old
  BY <1>5, <1>7 DEF Entries
<1>9. log'[a] = e /\ (\A b \in Addrs : b # a => log'[b] = log[b]) /\ log' \in [Addrs -> Entries]
  BY <1>4, <1>5, <1>6, <1>7, <1>8
<1>10. e # Unwritten
  <2>1. CASE log[a].op = "DELETE"
    <3>1. e.old # None
      BY <1>4, <1>8, <2>1, AddrFacts DEF GCInv, ContentInv
    <3> QED
      BY <3>1 DEF Unwritten
  <2>2. CASE log[a].op \in {"INSERT", "UPDATE"}
    <3>1. e.value # Ones
      BY <1>4, <1>8, <2>2, LogDBConstants DEF GCInv, ContentInv
    <3> QED
      BY <3>1 DEF Unwritten
  <2> QED
    BY <1>4, <1>5, <2>1, <2>2 DEF Entries
<1>11. Marks(a)
  BY <1>1, <1>4, <1>5, <1>8, <1>9, <1>10 DEF Marks
<1> QED
  BY <1>1, <1>2, <1>3, <1>11

\* A marked log is none that the index, an insert or an update needs.
LEMMA MarksInv ==
  ASSUME Inv, NEW a, Marks(a)
  PROVE  Inv'
<1>1. TypeOK'
  BY DEF Inv, TypeOK, Marks
<1>2. LocalInv'
  BY DEF Inv, LocalInv, Marks
<1>3. nlog \in Nat /\ a \in Nat /\ a < nlog
  BY AddrFacts, LogDBConstants DEF Inv, TypeOK, Marks, Retired
<1>4. SlotInv'
  <2>1. \A b \in Addrs : nlog' <= b => log'[b] = Unwritten
    <3> SUFFICES ASSUME NEW b \in Addrs, nlog <= b
                 PROVE  log'[b] = Unwritten
      BY DEF Marks
    <3>1. b # a
      BY <1>3, AddrFacts
    <3> QED
      BY <3>1 DEF Marks, Inv, SlotInv
  <2>2. ASSUME NEW t \in Threads, pc[t] \in Holding
        PROVE  /\ pc[t] \in Writing => log'[addr[t]] = Unwritten
               /\ pc[t] = "ins_index" => log'[addr[t]] = log[addr[t]]
    <3>1. addr[t] \in Addrs
      BY <2>2 DEF Inv, LocalInv
    <3>2. pc[t] \in Writing => addr[t] # a
      BY <2>2 DEF Inv, SlotInv, Marks
    <3>3. pc[t] = "ins_index" => addr[t] # a
      BY DEF Marks, Retired, Private
    <3> QED
      BY <2>2, <3>1, <3>2, <3>3 DEF Marks, Inv, SlotInv
  <2> QED
    BY <2>1, <2>2 DEF Inv, SlotInv, Marks
<1>5. \A u \in Threads : \A b : Publishing(u, b)' <=> Publishing(u, b)
  BY DEF Publishing, Marks
<1>6. SearchInv'
  <2> SUFFICES ASSUME NEW t \in Threads, pc[t] = "get_read"
               PROVE  /\ addr[t] \in Addrs /\ addr[t] < nlog
                      /\ \/ log'[addr[t]] # Unwritten /\ log'[addr[t]].value = seen[t]
                         \/ \E u \in Threads : Publishing(u, addr[t]) /\ val[u] = seen[t]
    BY DEF SearchInv, Publishing, Marks
  <2>1. /\ addr[t] \in Addrs /\ addr[t] < nlog
        /\ \/ log[addr[t]] # Unwritten /\ log[addr[t]].value = seen[t]
           \/ \E u \in Threads : Publishing(u, addr[t]) /\ val[u] = seen[t]
    BY DEF Inv, SearchInv
  <2>2. CASE addr[t] = a
    BY <2>1, <2>2 DEF Marks
  <2>3. CASE addr[t] # a
    BY <2>1, <2>3 DEF Marks
  <2> QED
    BY <2>2, <2>3
<1>7. IndexSound'
  <2>1. \A k \in Keys : index[k] # None => log'[index[k]] = log[index[k]]
    BY DEF Marks, Retired, Inv, TypeOK
  <2> QED
    BY <1>5, <2>1 DEF Inv, IndexSound, Marks
<1> QED
  BY <1>1, <1>2, <1>4, <1>6, <1>7 DEF Inv

\* A marked log still says whose it was, and marking a log breaks no chain that
\* is left.
LEMMA MarksChain ==
  ASSUME Inv, ChainInv, NEW a, Marks(a)
  PROVE  ChainInv'
<1>1. \A u \in Threads : \A b : Publishing(u, b)' <=> Publishing(u, b)
  BY DEF Publishing, Marks
<1>2. ASSUME NEW b \in Addrs, NEW k, Carries(b, k)
      PROVE  Carries(b, k)'
  <2>1. \A u \in Threads : key'[u] = key[u]
    BY DEF Marks
  <2>2. CASE b = a
    BY <1>1, <1>2, <2>1, <2>2 DEF Carries, Marks
  <2>3. CASE b # a
    BY <1>1, <1>2, <2>1, <2>3 DEF Carries, Marks
  <2> QED
    BY <2>2, <2>3
<1>3. \A b : Retired(b) => Retired(b)'
  BY DEF Retired, Marks
<1>4. ASSUME NEW b \in Addrs, log'[b].op = "UPDATE"
      PROVE  log'[b] = log[b]
  BY <1>4 DEF Marks
<1>5. PendingInv'
  <2> SUFFICES ASSUME NEW t \in Threads, pc[t] = "upd_store"
               PROVE  /\ Retired(old[t])' /\ old[t] # addr[t] /\ Carries(old[t], key[t])'
                      /\ \A u \in Threads : pc[u] = "upd_store" /\ old[u] = old[t] => u = t
                      /\ \A b \in Addrs : log'[b].op = "UPDATE" => log'[b].old # old[t]
    BY DEF PendingInv, Marks
  <2>1. /\ Retired(old[t]) /\ old[t] # addr[t] /\ Carries(old[t], key[t])
        /\ \A u \in Threads : pc[u] = "upd_store" /\ old[u] = old[t] => u = t
        /\ \A b \in Addrs : log[b].op = "UPDATE" => log[b].old # old[t]
    BY DEF ChainInv, PendingInv
  <2>2. PICK b, k : b = old[t] /\ k = key[t] /\ b = old'[t] /\ k = key'[t]
    BY DEF Marks
  <2>3. Retired(b)' /\ Carries(b, k)'
    BY <1>2, <1>3, <2>1, <2>2 DEF Retired
  <2>4. Retired(old[t])' /\ Carries(old[t], key[t])'
    BY <2>2, <2>3 DEF Retired, Carries, Publishing
  <2> QED
    BY <1>4, <2>1, <2>4
<1>6. LinkInv'
  <2> SUFFICES ASSUME NEW b \in Addrs, log'[b].op = "UPDATE"
               PROVE  /\ Retired(log[b].old)' /\ log'[b].old # b
                      /\ Carries(log[b].old, log[b].key)'
                      /\ \A c \in Addrs : log'[c].op = "UPDATE" /\ log'[c].old = log'[b].old
                           => c = b
    BY DEF LinkInv
  <2>1. /\ Retired(log[b].old) /\ log[b].old # b /\ Carries(log[b].old, log[b].key)
        /\ \A c \in Addrs : log[c].op = "UPDATE" /\ log[c].old = log[b].old => c = b
        /\ log'[b] = log[b]
    BY <1>4 DEF ChainInv, LinkInv
  <2>2. PICK o, k : o = log[b].old /\ k = log[b].key /\ o = log'[b].old /\ k = log'[b].key
    BY <2>1
  <2>3. Retired(o)' /\ Carries(o, k)'
    BY <1>2, <1>3, <2>1, <2>2 DEF Retired
  <2>4. Retired(log[b].old)' /\ Carries(log[b].old, log[b].key)'
    BY <2>2, <2>3 DEF Retired, Carries, Publishing
  <2> QED
    BY <1>4, <2>1, <2>4
<1>7. \A k, v : OwnLog(k, v) => OwnLog(k, v)'
  BY DEF OwnLog, Marks
<1>8. FillInv'
  <2> SUFFICES ASSUME NEW t \in Threads
               PROVE  /\ pc[t] = "get_read" => Carries(addr[t], key[t])'
                      /\ pc[t] = "get_put" /\ val[t] \in Values => OwnLog(key[t], val[t])'
    BY DEF FillInv, Marks
  <2>1. pc[t] = "get_read" => Carries(addr[t], key[t])'
    <3>1. PICK b, k : b = addr[t] /\ k = key[t] /\ b = addr'[t] /\ k = key'[t]
      BY DEF Marks
    <3>2. pc[t] = "get_read" => Carries(b, k) /\ b \in Addrs
      BY <3>1 DEF ChainInv, FillInv, Inv, SearchInv
    <3>3. pc[t] = "get_read" => Carries(b, k)'
      BY <1>2, <3>2
    <3> QED
      BY <3>1, <3>3 DEF Carries, Publishing
  <2>2. pc[t] = "get_put" /\ val[t] \in Values => OwnLog(key[t], val[t])'
    <3>1. PICK k, v : v = val[t] /\ k = key[t] /\ v = val'[t] /\ k = key'[t]
      BY DEF Marks
    <3>2. pc[t] = "get_put" /\ val[t] \in Values => OwnLog(k, v)'
      BY <1>7, <3>1 DEF ChainInv, FillInv
    <3> QED
      BY <3>1, <3>2 DEF OwnLog
  <2> QED
    BY <2>1, <2>2
<1>9. CacheFromOwnLog'
  BY <1>7 DEF ChainInv, CacheFromOwnLog, OwnLog, Marks
<1> QED
  BY <1>5, <1>6, <1>8, <1>9 DEF ChainInv

-----------------------------------------------------------------------------
\* What a step of LogDB does, as far as the collector can tell.

\* The log that a thread is about to write.
NewLog(t) ==
  CASE pc[t] = "ins_store" -> [op |-> "INSERT", key |-> key[t], value |-> val[t], old |-> None]
    [] pc[t] = "upd_store" -> [op |-> "UPDATE", key |-> key[t], value |-> val[t], old |-> old[t]]
    [] pc[t] = "ers_store" -> [op |-> "DELETE", key |-> key[t], value |-> None, old |-> old[t]]

Storing == {"ins_store", "upd_store", "ers_store"}

\* The slots: one that nobody wrote is written, or none.
AdvanceLog(t) ==
  \/ UNCHANGED log /\ pc[t] \notin Storing
  \/ /\ pc[t] \in Storing /\ addr[t] \in Addrs /\ log[addr[t]] = Unwritten
     /\ log'[addr[t]] = NewLog(t)
     /\ \A a \in Addrs : a # addr[t] => log'[a] = log[a]

\* The index: a key goes, or a slot that the thread had for itself comes.
AdvanceIndex(t) ==
  \A k \in Keys : \/ index'[k] \in {index[k], None}
                  \/ pc[t] \in Private /\ index'[k] = addr[t]

\* Slots are handed out fresh.
AdvancePrivate(t) ==
  /\ nlog' \in Nat /\ nlog <= nlog'
  /\ pc'[t] \in Private => \/ pc[t] \in Private /\ addr'[t] = addr[t]
                           \/ addr'[t] = nlog /\ nlog \in Addrs /\ nlog < nlog'

\* The addresses that a thread names, or is about to name, as an older log.
AdvanceOld(t) ==
  /\ pc'[t] = "upd_store" =>
       /\ pc[t] = "upd_index" /\ addr'[t] = addr[t]
       /\ index[key[t]] # None /\ old'[t] = index[key[t]] /\ key[t] \in Keys
  /\ pc'[t] = "ers_index" =>
       /\ key'[t] \in Keys /\ index[key'[t]] # None /\ old'[t] = index[key'[t]]
       /\ UNCHANGED index /\ pc[t] \notin Private
  /\ pc'[t] = "ers_alloc" =>
       /\ pc[t] = "ers_index" /\ old'[t] = old[t] /\ index'[key[t]] = None
       /\ \A k \in Keys : index'[k] \in {index[k], None}
  /\ pc'[t] = "ers_store" =>
       pc[t] = "ers_alloc" /\ old'[t] = old[t] /\ addr'[t] = nlog /\ nlog < nlog' /\ UNCHANGED log

Advance(t) ==
  OthersUntouched(t) /\ AdvanceLog(t) /\ AdvanceIndex(t) /\ AdvancePrivate(t) /\ AdvanceOld(t)

\* The calls a thread may make here: an erase only of a key that is there.
DBStep(t) ==
  \/ \E k \in Keys, v \in Values : InsertAlloc(t, k, v) \/ UpdateAlloc(t, k, v)
  \/ \E k \in Keys : EraseSearch(t, k) /\ index[k] # None
  \/ Continue(t)

\* All of this from the actions.
LEMMA DBStepAdvances ==
  ASSUME Inv, NEW t \in Threads, DBStep(t)
  PROVE  Advance(t)
<1>0. TypeOK /\ LocalInv /\ nlog \in Nat /\ nlog <= MaxLogs /\ MaxLogs \in Nat
  BY LogDBConstants DEF Inv, TypeOK
<1> USE DEF Advance, AdvanceLog, AdvanceIndex, AdvancePrivate, AdvanceOld, Private, Storing
<1>1. ASSUME NEW k \in Keys, NEW v \in Values, InsertAlloc(t, k, v) \/ UpdateAlloc(t, k, v)
      PROVE  Advance(t)
  <2>1. /\ OthersUntouched(t) /\ UNCHANGED <<index, log>> /\ nlog' = nlog + 1 /\ nlog < MaxLogs
        /\ pc[t] = "idle" /\ pc'[t] \in {"ins_store", "upd_index"} /\ addr'[t] = nlog
    BY <1>0, <1>1, AllocTypes
    DEF InsertAlloc, UpdateAlloc, AllocLog, Goto, OthersUntouched, TypeOK
  <2>2. nlog \in Addrs /\ nlog' \in Nat /\ nlog < nlog' /\ nlog <= nlog'
    BY <1>0, <2>1 DEF Addrs
  <2> QED
    BY <2>1, <2>2
<1>2. CASE EraseAlloc(t)
  <2>1. /\ OthersUntouched(t) /\ UNCHANGED <<index, log, old>> /\ nlog' = nlog + 1 /\ nlog < MaxLogs
        /\ pc[t] = "ers_alloc" /\ pc'[t] = "ers_store" /\ addr'[t] = nlog
    BY <1>0, <1>2, AllocTypes DEF EraseAlloc, AllocLog, Goto, OthersUntouched, TypeOK
  <2>2. nlog \in Addrs /\ nlog' \in Nat /\ nlog < nlog' /\ nlog <= nlog'
    BY <1>0, <2>1 DEF Addrs
  <2> QED
    BY <2>1, <2>2
<1>3. ASSUME NEW k \in Keys, EraseSearch(t, k), index[k] # None
      PROVE  Advance(t)
  <2>1. /\ OthersUntouched(t) /\ UNCHANGED <<index, log, nlog>> /\ pc[t] = "idle"
        /\ pc'[t] = "ers_index" /\ key'[t] = k /\ old'[t] = index[k]
    BY <1>0, <1>3 DEF EraseSearch, Goto, OthersUntouched, TypeOK
  <2> QED
    BY <1>0, <1>3, <2>1
<1>4. CASE UpdateAbsent(t) \/ SearchReturn(t)
  <2>1. /\ OthersUntouched(t) /\ UNCHANGED <<index, log, nlog>>
        /\ pc[t] \in {"upd_index", "got"} /\ pc'[t] = "idle"
    BY <1>0, <1>4, FinishTypes DEF UpdateAbsent, SearchReturn
  <2> QED
    BY <1>0, <2>1
<1>5. CASE SearchIndex(t) \/ SearchRead(t) \/ CachePut(t)
  <2>1. /\ OthersUntouched(t) /\ UNCHANGED <<index, log, nlog>>
        /\ pc[t] \in {"get_index", "get_read", "get_put"}
        /\ pc'[t] \in {"get_read", "get_put", "got"}
    BY <1>0, <1>5 DEF SearchIndex, SearchRead, CachePut, Goto, locals, OthersUntouched, TypeOK
  <2> QED
    BY <1>0, <2>1
<1>6. CASE InsertStore(t)
  <2>1. /\ OthersUntouched(t) /\ UNCHANGED <<index, nlog, addr>> /\ pc[t] = "ins_store"
        /\ pc'[t] = "ins_index"
    BY <1>0, <1>6 DEF InsertStore, Goto, locals, OthersUntouched, TypeOK
  <2>2. addr[t] \in Addrs /\ log[addr[t]] = Unwritten
    BY <2>1 DEF Inv, LocalInv, SlotInv, Holding, Writing
  <2>3. log'[addr[t]] = NewLog(t) /\ \A a \in Addrs : a # addr[t] => log'[a] = log[a]
    BY <1>0, <1>6, <2>1, <2>2 DEF InsertStore, Store, TypeOK, NewLog
  <2> QED
    BY <1>0, <2>1, <2>2, <2>3
<1>7. CASE UpdateStore(t) \/ EraseStore(t)
  <2>1. /\ OthersUntouched(t) /\ UNCHANGED <<index, nlog>> /\ pc[t] \in {"upd_store", "ers_store"}
        /\ pc'[t] = "idle"
    BY <1>0, <1>7, FinishTypes DEF UpdateStore, EraseStore
  <2>2. addr[t] \in Addrs /\ log[addr[t]] = Unwritten
    BY <2>1 DEF Inv, LocalInv, SlotInv, Holding, Writing
  <2>3. log'[addr[t]] = NewLog(t) /\ \A a \in Addrs : a # addr[t] => log'[a] = log[a]
    BY <1>0, <1>7, <2>1, <2>2 DEF UpdateStore, EraseStore, Store, TypeOK, NewLog
  <2> QED
    BY <1>0, <2>1, <2>2, <2>3
<1>8. CASE InsertIndex(t)
  <2>1. /\ OthersUntouched(t) /\ UNCHANGED <<log, nlog>> /\ pc[t] = "ins_index" /\ pc'[t] = "idle"
        /\ \A k \in Keys : index'[k] \in {index[k], addr[t]}
    BY <1>0, <1>8, FinishTypes DEF InsertIndex, TypeOK
  <2> QED
    BY <1>0, <2>1
<1>9. CASE UpdateIndex(t)
  <2>1. /\ OthersUntouched(t) /\ UNCHANGED <<log, nlog, addr>> /\ pc[t] = "upd_index"
        /\ pc'[t] = "upd_store" /\ index[key[t]] # None /\ old'[t] = index[key[t]]
        /\ key[t] \in Keys /\ \A k \in Keys : index'[k] \in {index[k], addr[t]}
    BY <1>0, <1>9 DEF UpdateIndex, Goto, OthersUntouched, TypeOK, LocalInv
  <2> QED
    BY <1>0, <2>1
<1>10. CASE EraseIndex(t)
  <2>1. /\ OthersUntouched(t) /\ UNCHANGED <<log, nlog, old>> /\ pc[t] = "ers_index"
        /\ pc'[t] = "ers_alloc" /\ key[t] \in Keys /\ index'[key[t]] = None
        /\ \A k \in Keys : index'[k] \in {index[k], None}
    BY <1>0, <1>10 DEF EraseIndex, Goto, locals, OthersUntouched, TypeOK, LocalInv
  <2> QED
    BY <1>0, <2>1
<1> QED
  BY <1>1, <1>2, <1>3, <1>4, <1>5, <1>6, <1>7, <1>8, <1>9, <1>10 DEF DBStep, Continue

-----------------------------------------------------------------------------
\* A step of LogDB keeps what the collector relies on.

\* A slot that no chain reaches may take any rank.
LEMMA RankMoved ==
  ASSUME Inv, ChainInv, GCInv, NEW rank \in Ranks, Falls(rank),
         NEW s \in Addrs, ~Retired(s), log[s].op = "TRASH",
         \A t \in Threads : pc[t] \in {"upd_store", "ers_store"} => addr[t] # s,
         NEW n \in Nat
  PROVE  \E r \in Ranks : Falls(r) /\ r[s] = n /\ \A a \in Addrs : a # s => r[a] = rank[a]
<1>1. PICK r : r = [rank EXCEPT ![s] = n]
  OBVIOUS
<1>2. r \in Ranks /\ r[s] = n /\ \A a \in Addrs : a # s => r[a] = rank[a]
  BY <1>1 DEF Ranks
<1>3. \A a : Retired(a) => r[a] = rank[a]
  BY <1>2 DEF Retired
<1>4. \A b \in Addrs : log[b].op \in {"UPDATE", "DELETE"} => r[log[b].old] < r[b]
  <2> SUFFICES ASSUME NEW b \in Addrs, log[b].op \in {"UPDATE", "DELETE"}
               PROVE  r[log[b].old] < r[b]
    OBVIOUS
  <2>1. Retired(log[b].old)
    BY DEF ChainInv, LinkInv, GCInv, EraseInv
  <2>2. b # s /\ rank[log[b].old] < rank[b]
    BY DEF Falls
  <2> QED
    BY <1>2, <1>3, <2>1, <2>2
<1>5. \A t \in Threads : pc[t] \in {"upd_store", "ers_store"} => r[old[t]] < r[addr[t]]
  <2> SUFFICES ASSUME NEW t \in Threads, pc[t] \in {"upd_store", "ers_store"}
               PROVE  r[old[t]] < r[addr[t]]
    OBVIOUS
  <2>1. Retired(old[t])
    BY DEF ChainInv, PendingInv, GCInv, EraseInv
  <2>2. addr[t] \in Addrs
    BY DEF Inv, LocalInv, Holding, Writing
  <2>3. addr[t] # s /\ rank[old[t]] < rank[addr[t]]
    BY DEF Falls
  <2> QED
    BY <1>2, <1>3, <2>1, <2>2, <2>3
<1>6. \A i \in 1 .. Len(old_log) : r[old_log[i]] = rank[old_log[i]]
  BY <1>3 DEF GCInv, WalkInv
<1>7. next_old_log # None => r[next_old_log] = rank[next_old_log]
  BY <1>3 DEF GCInv, WalkInv
<1>8. Falls(r)
  BY <1>4, <1>5, <1>6, <1>7 DEF Falls
<1> QED
  BY <1>2, <1>8

\* An older log that a thread is about to name gets a smaller rank than the slot
\* that is to name it.
LEMMA RankNewName ==
  ASSUME Inv, ChainInv, GCInv, NEW t \in Threads, Advance(t)
  PROVE  \E r \in Ranks : /\ Falls(r)
                          /\ pc'[t] \in {"upd_store", "ers_store"} => r[old'[t]] < r[addr'[t]]
<1>1. PICK rank \in Ranks : Falls(rank)
  BY DEF GCInv, RankInv
<1>2. nlog \in Nat
  BY LogDBConstants DEF Inv, TypeOK
<1>3. CASE pc'[t] = "upd_store"
  <2>1. PICK o, s : o = index[key[t]] /\ s = addr[t]
    OBVIOUS
  <2>2. /\ pc[t] = "upd_index" /\ addr'[t] = s /\ old'[t] = o /\ key[t] \in Keys /\ o # None
    BY <1>3, <2>1 DEF Advance, AdvanceOld
  <2>3. o \in Addrs /\ s \in Addrs /\ o # s /\ log[s] = Unwritten
    <3>1. pc[t] \in Holding /\ pc[t] \in Writing /\ pc[t] \in Private
      BY <2>2 DEF Holding, Writing, Private
    <3>2. o \in Addrs
      BY <2>1, <2>2 DEF Inv, TypeOK
    <3>3. addr[t] \in Addrs
      BY <3>1 DEF Inv, LocalInv
    <3>4. log[addr[t]] = Unwritten /\ \A k \in Keys : index[k] # addr[t]
      BY <3>1 DEF Inv, SlotInv
    <3> QED
      BY <2>1, <2>2, <3>2, <3>3, <3>4
  <2>4. ~Retired(s) /\ log[s].op = "TRASH"
    BY <2>1, <2>2, <2>3 DEF Retired, Private, Unwritten
  <2>5. \A u \in Threads : pc[u] \in {"upd_store", "ers_store"} => addr[u] # s
    BY <2>1, <2>2 DEF Inv, SlotInv, Holding, Writing, Private
  <2>6. rank[o] + 1 \in Nat
    BY <2>3 DEF Ranks
  <2>7. PICK r \in Ranks : Falls(r) /\ r[s] = rank[o] + 1
                           /\ \A a \in Addrs : a # s => r[a] = rank[a]
    BY <1>1, <2>3, <2>4, <2>5, <2>6, RankMoved
  <2>8. r[o] < r[s]
    BY <2>3, <2>6, <2>7 DEF Ranks
  <2> QED
    BY <2>2, <2>7, <2>8
<1>4. CASE pc'[t] = "ers_store"
  <2>1. PICK o, s : o = old[t] /\ s = nlog
    OBVIOUS
  <2>2. /\ pc[t] = "ers_alloc" /\ addr'[t] = s /\ old'[t] = o
    BY <1>4, <2>1 DEF Advance, AdvanceOld
  <2>3. s \in Addrs
    BY <1>2, <1>4, <2>1, <2>2 DEF Advance, AdvanceOld, AdvancePrivate, Inv, LocalInv, Private
  <2>4. Retired(o)
    BY <2>1, <2>2 DEF GCInv, EraseInv
  <2>5. o \in Addrs /\ o # s /\ ~Retired(s) /\ log[s].op = "TRASH"
    BY <1>2, <2>1, <2>3, <2>4 DEF Retired, Inv, SlotInv, Unwritten
  <2>6. \A u \in Threads : pc[u] \in {"upd_store", "ers_store"} => addr[u] # s
    BY <1>2, <2>1 DEF Inv, LocalInv, Holding, Writing, Private
  <2>7. rank[o] + 1 \in Nat
    BY <2>5 DEF Ranks
  <2>8. PICK r \in Ranks : Falls(r) /\ r[s] = rank[o] + 1
                           /\ \A a \in Addrs : a # s => r[a] = rank[a]
    BY <1>1, <2>3, <2>5, <2>6, <2>7, RankMoved
  <2>9. r[o] < r[s]
    BY <2>5, <2>7, <2>8 DEF Ranks
  <2> QED
    BY <2>2, <2>8, <2>9
<1> QED
  BY <1>1, <1>3, <1>4

\* What a thread writes into its slot.
LEMMA WrittenLog ==
  ASSUME Inv, NEW t \in Threads, Advance(t)
  PROVE  \A b \in Addrs :
           \/ log'[b] = log[b]
           \/ /\ b = addr[t] /\ log[b] = Unwritten /\ log'[b].op # "TRASH"
              /\ log'[b].op = "INSERT" => /\ log'[b].old = None
                                          /\ log'[b].key \in Keys /\ log'[b].value \in Values
              /\ log'[b].op = "UPDATE" => /\ pc[t] = "upd_store" /\ log'[b].old = old[t]
                                          /\ log'[b].key \in Keys /\ log'[b].value \in Values
              /\ log'[b].op = "DELETE" => pc[t] = "ers_store" /\ log'[b].old = old[t]
<1>1. CASE UNCHANGED log
  BY <1>1
<1>2. CASE /\ pc[t] \in Storing /\ log[addr[t]] = Unwritten
           /\ log'[addr[t]] = NewLog(t)
           /\ \A a \in Addrs : a # addr[t] => log'[a] = log[a]
  <2>1. key[t] \in Keys /\ (pc[t] \in {"ins_store", "upd_store"} => val[t] \in Values)
    BY <1>2 DEF Storing, Inv, LocalInv
  <2>2. CASE pc[t] = "ins_store"
    BY <1>2, <2>1, <2>2 DEF NewLog
  <2>3. CASE pc[t] = "upd_store"
    BY <1>2, <2>1, <2>3 DEF NewLog
  <2>4. CASE pc[t] = "ers_store"
    BY <1>2, <2>1, <2>4 DEF NewLog
  <2> QED
    BY <1>2, <2>2, <2>3, <2>4 DEF Storing
<1> QED
  BY <1>1, <1>2 DEF Advance, AdvanceLog

\* A step of LogDB keeps all of it: the collector's view of the logs stays right
\* while the foreground threads, or its own update, go on.
LEMMA AdvanceKeeps ==
  ASSUME Inv, ChainInv, GCInv, NEW t \in Threads, Advance(t),
         UNCHANGED <<pass, sz_freed, old_log, next_old_log>>
  PROVE  ContentInv' /\ EraseInv' /\ WalkInv' /\ RankInv' /\ FreedExact'
<1>1. nlog \in Nat /\ nlog' \in Nat /\ nlog <= nlog'
  BY LogDBConstants DEF Inv, TypeOK, Advance, AdvancePrivate
<1>2. ASSUME NEW a, Retired(a)
      PROVE  Retired(a)'
  BY <1>1, <1>2, RetiredKept DEF Advance, AdvanceIndex, AdvancePrivate
<1>3. ASSUME NEW u \in Threads \ {t}
      PROVE  pc'[u] = pc[u] /\ key'[u] = key[u] /\ addr'[u] = addr[u] /\ old'[u] = old[u]
  BY <1>3 DEF Advance, OthersUntouched
<1>4. \A u \in Threads : pc[u] \in {"ers_alloc", "ers_store", "upd_store"} => Retired(old[u])
  BY DEF GCInv, EraseInv, ChainInv, PendingInv
<1>5. \A b \in Addrs :
           \/ log'[b] = log[b]
           \/ /\ b = addr[t] /\ log[b] = Unwritten /\ log'[b].op # "TRASH"
              /\ log'[b].op = "INSERT" => /\ log'[b].old = None
                                          /\ log'[b].key \in Keys /\ log'[b].value \in Values
              /\ log'[b].op = "UPDATE" => /\ pc[t] = "upd_store" /\ log'[b].old = old[t]
                                          /\ log'[b].key \in Keys /\ log'[b].value \in Values
              /\ log'[b].op = "DELETE" => pc[t] = "ers_store" /\ log'[b].old = old[t]
  BY WrittenLog
<1>6. ContentInv'
  BY <1>4, <1>5 DEF GCInv, ContentInv, Retired
<1>7. EraseInv'
  <2>1. ASSUME NEW u \in Threads, pc'[u] = "ers_index"
        PROVE  Dropped(old[u], key[u])'
    <3>1. PICK a, k : a = old'[u] /\ k = key'[u]
      OBVIOUS
    <3>2. /\ a \in Addrs /\ a < nlog' /\ \A j \in Keys : index'[j] = a => j = k
          /\ \A w \in Threads : pc'[w] \in Private => addr'[w] # a
      <4>1. CASE u = t
        <5>1. k \in Keys /\ index[k] # None /\ a = index[k] /\ UNCHANGED index
          BY <2>1, <3>1, <4>1 DEF Advance, AdvanceOld
        <5>2. a \in Addrs /\ a < nlog /\ a < nlog'
          BY <1>1, <5>1, LogDBConstants DEF Inv, TypeOK, SlotInv, Addrs
        <5>3. \A j \in Keys : index'[j] = a => j = k
          BY <5>1, IndexCarries
        <5>4. \A w \in Threads : pc[w] \in Private => addr[w] # a
          BY <5>1 DEF Inv, SlotInv, Holding
        <5>5. pc'[t] \notin Private
          BY <2>1, <4>1 DEF Private
        <5> QED
          BY <1>3, <5>2, <5>3, <5>4, <5>5
      <4>2. CASE u # t
        <5>1. pc[u] = "ers_index" /\ a = old[u] /\ k = key[u]
          BY <1>3, <2>1, <3>1, <4>2
        <5>2. /\ a \in Addrs /\ a < nlog /\ \A j \in Keys : index[j] = a => j = k
              /\ \A w \in Threads : pc[w] \in Private => addr[w] # a
          BY <5>1 DEF GCInv, EraseInv, Dropped
        <5>3. a \in Nat /\ a # None /\ a < nlog'
          BY <1>1, <5>2, AddrFacts
        <5>4. \A j \in Keys : index'[j] = a => j = k
          BY <5>2, <5>3 DEF Advance, AdvanceIndex
        <5>5. pc'[t] \in Private => addr'[t] # a
          BY <1>1, <5>2, <5>3 DEF Advance, AdvancePrivate
        <5> QED
          BY <1>3, <5>2, <5>3, <5>4, <5>5
      <4> QED
        BY <4>1, <4>2
    <3> QED
      BY <3>1, <3>2 DEF Dropped
  <2>2. ASSUME NEW u \in Threads, pc'[u] \in {"ers_alloc", "ers_store"}
        PROVE  Retired(old[u])'
    <3>1. PICK a : a = old'[u]
      OBVIOUS
    <3>2. Retired(a)'
      <4>1. CASE u = t /\ pc'[t] = "ers_alloc"
        <5>1. PICK k : k = key[t]
          OBVIOUS
        <5>2. /\ pc[t] = "ers_index" /\ a = old[t] /\ index'[k] = None
              /\ \A j \in Keys : index'[j] \in {index[j], None}
          BY <3>1, <4>1, <5>1 DEF Advance, AdvanceOld
        <5>3. /\ a \in Addrs /\ a < nlog /\ \A j \in Keys : index[j] = a => j = k
              /\ \A w \in Threads : pc[w] \in Private => addr[w] # a
          BY <5>1, <5>2 DEF GCInv, EraseInv, Dropped
        <5>4. a \in Nat /\ a # None /\ a < nlog'
          BY <1>1, <5>3, AddrFacts
        <5>5. \A j \in Keys : index'[j] # a
          BY <5>2, <5>3, <5>4
        <5>6. pc'[t] \notin Private
          BY <4>1 DEF Private
        <5> QED
          BY <1>3, <5>3, <5>4, <5>5, <5>6 DEF Retired
      <4>2. CASE u = t /\ pc'[t] = "ers_store"
        <5>1. pc[t] = "ers_alloc" /\ a = old[t]
          BY <3>1, <4>2 DEF Advance, AdvanceOld
        <5> QED
          BY <1>2, <1>4, <5>1
      <4>3. CASE u # t
        BY <1>2, <1>3, <1>4, <2>2, <3>1, <4>3
      <4> QED
        BY <2>2, <4>1, <4>2, <4>3
    <3> QED
      BY <3>1, <3>2 DEF Retired
  <2>3. ASSUME NEW b \in Addrs, log'[b].op = "DELETE"
        PROVE  Retired(log[b].old)'
    <3>1. PICK a : a = log'[b].old
      OBVIOUS
    <3>2. Retired(a)
      BY <1>4, <1>5, <2>3, <3>1 DEF GCInv, EraseInv
    <3>3. Retired(a)'
      BY <1>2, <3>2
    <3> QED
      BY <3>1, <3>3 DEF Retired
  <2> QED
    BY <2>1, <2>2, <2>3 DEF EraseInv
<1>8. WalkInv'
  <2>1. ASSUME NEW i \in 1 .. Len(old_log)
        PROVE  Retired(old_log[i])' /\ log'[old_log[i]].op # "TRASH"
    <3>1. PICK a : a = old_log[i] /\ a = old_log'[i]
      OBVIOUS
    <3>2. Retired(a) /\ log[a].op # "TRASH"
      BY <3>1 DEF GCInv, WalkInv
    <3>3. a \in Addrs /\ log[a] # Unwritten
      BY <3>2 DEF Retired, Unwritten
    <3>4. log'[a] = log[a] /\ Retired(a)'
      BY <1>2, <1>5, <3>2, <3>3
    <3> QED
      BY <3>1, <3>2, <3>4 DEF Retired
  <2>2. ASSUME next_old_log # None
        PROVE  Retired(next_old_log)'
    <3>1. PICK a : a = next_old_log /\ a = next_old_log'
      OBVIOUS
    <3>2. Retired(a)'
      BY <1>2, <2>2, <3>1 DEF GCInv, WalkInv
    <3> QED
      BY <3>1, <3>2 DEF Retired
  <2> QED
    BY <2>1, <2>2 DEF WalkInv
<1>9. RankInv'
  <2>1. PICK r \in Ranks : /\ Falls(r)
                           /\ pc'[t] \in {"upd_store", "ers_store"} => r[old'[t]] < r[addr'[t]]
    BY RankNewName
  <2>2. \A u \in Threads : pc'[u] \in {"upd_store", "ers_store"} => r[old'[u]] < r[addr'[u]]
    BY <1>3, <2>1 DEF Falls
  <2>3. \A b \in Addrs : log'[b].op \in {"UPDATE", "DELETE"} => r[log'[b].old] < r[b]
    BY <1>5, <2>1 DEF Falls
  <2>4. Falls(r)'
    BY <2>1, <2>2, <2>3 DEF Falls
  <2> QED
    BY <2>1, <2>4 DEF RankInv
<1>10. FreedExact'
  <2>1. \A b \in Addrs : log'[b].op = "TRASH" /\ log'[b] # Unwritten
                           <=> log[b].op = "TRASH" /\ log[b] # Unwritten
    BY <1>5
  <2>2. \A p : Trashed(p)' = Trashed(p)
    BY <2>1 DEF Trashed
  <2> QED
    BY <2>2 DEF GCInv, FreedExact
<1> QED
  BY <1>6, <1>7, <1>8, <1>9, <1>10

-----------------------------------------------------------------------------
\* The collector's own steps.

\* A rank that falls along the walk tells its logs apart.
LEMMA WalkIsInjective ==
  ASSUME GCTypes, RankInv
  PROVE  WalkEnds
<1>1. PICK rank \in Ranks : Falls(rank)
  BY DEF RankInv
<1>2. Len(old_log) \in Nat /\ \A i \in 1 .. Len(old_log) : old_log[i] \in Addrs
  BY DEF GCTypes
<1> SUFFICES ASSUME NEW i \in 1 .. Len(old_log), NEW j \in 1 .. Len(old_log),
                    old_log[i] = old_log[j], i # j
             PROVE  FALSE
  BY DEF WalkEnds
<1>3. rank[old_log[i]] \in Nat /\ rank[old_log[j]] \in Nat
  BY <1>1, <1>2 DEF Ranks
<1>4. i < j \/ j < i
  BY <1>2
<1>5. rank[old_log[i]] < rank[old_log[j]] \/ rank[old_log[j]] < rank[old_log[i]]
  BY <1>1, <1>4 DEF Falls
<1> QED
  BY <1>3, <1>5

\* There are finitely many trashed logs.
LEMMA TrashedFinite ==
  ASSUME NEW p
  PROVE  IsFiniteSet(Trashed(p)) /\ Cardinality(Trashed(p)) \in Nat
<1>1. 0 \in Int /\ MaxLogs - 1 \in Int
  BY LogDBConstants
<1>2. IsFiniteSet(Addrs)
  BY <1>1, FS_Interval DEF Addrs
<1>3. Trashed(p) \subseteq Addrs
  BY DEF Trashed
<1>4. IsFiniteSet(Trashed(p))
  BY <1>2, <1>3, FS_Subset
<1> QED
  BY <1>4, FS_CardinalityType

\* Marking the last log of the walk.
LEMMA TrashKeeps ==
  ASSUME Inv, GCInv, TrashStep
  PROVE  GCInv'
<1>1. PICK n \in Nat \ {0} : n = Len(old_log)
  BY TrashMarks
<1>2. PICK a : a = old_log[n]
  OBVIOUS
<1>3. /\ Marks(a) /\ old_log' = SubSeq(old_log, 1, n - 1)
      /\ sz_freed' = [sz_freed EXCEPT ![PageOf(a)] = @ + 1]
      /\ gpc = "trash" /\ UNCHANGED <<gpc, pass, file_id, offset, next_old_log>>
  BY <1>1, <1>2, TrashMarks
<1>4. /\ GCTypes /\ old_log \in Seq(Addrs) /\ sz_freed \in [Pages -> Nat] /\ a \in Addrs
      /\ PageOf(a) \in Pages
  BY <1>1, <1>2, <1>3, PageOfAddr DEF GCInv, GCTypes, Marks
<1>5. /\ old_log' \in Seq(Addrs) /\ Len(old_log') = n - 1
      /\ \A i \in 1 .. n - 1 : old_log'[i] = old_log[i] /\ i \in 1 .. Len(old_log)
  BY <1>1, <1>3, <1>4
<1>6. GCTypes'
  <2>1. sz_freed' \in [Pages -> Nat]
    BY <1>3, <1>4
  <2> QED
    BY <1>3, <1>4, <1>5, <2>1 DEF GCTypes, Marks
<1>7. \A b \in Addrs : log'[b].op # "TRASH" => log'[b] = log[b]
  BY <1>3 DEF Marks
<1>8. \A b : Retired(b) => Retired(b)'
  BY <1>3 DEF Retired, Marks
<1>9. ContentInv'
  BY <1>7 DEF GCInv, ContentInv
<1>10. EraseInv'
  <2>1. ASSUME NEW u \in Threads, pc'[u] = "ers_index"
        PROVE  Dropped(old[u], key[u])'
    <3>1. Dropped(old[u], key[u])
      BY <1>3, <2>1 DEF GCInv, EraseInv, Marks
    <3> QED
      BY <1>3, <3>1 DEF Dropped, Marks
  <2>2. ASSUME NEW u \in Threads, pc'[u] \in {"ers_alloc", "ers_store"}
        PROVE  Retired(old[u])'
    <3>1. Retired(old[u])
      BY <1>3, <2>2 DEF GCInv, EraseInv, Marks
    <3> QED
      BY <1>3, <3>1 DEF Retired, Marks
  <2>3. ASSUME NEW b \in Addrs, log'[b].op = "DELETE"
        PROVE  Retired(log[b].old)'
    <3>1. Retired(log[b].old) /\ log'[b] = log[b]
      BY <1>7, <2>3 DEF GCInv, EraseInv
    <3> QED
      BY <1>3, <3>1 DEF Retired, Marks
  <2> QED
    BY <2>1, <2>2, <2>3 DEF EraseInv
<1>11. WalkInv'
  <2>1. ASSUME NEW i \in 1 .. n - 1
        PROVE  Retired(old_log[i])' /\ log'[old_log'[i]].op # "TRASH"
    <3>1. PICK b : b = old_log[i] /\ b = old_log'[i]
      BY <1>5
    <3>2. i \in 1 .. Len(old_log) /\ n \in 1 .. Len(old_log) /\ i # n
      BY <1>1, <1>5
    <3>3. b # a
      BY <1>2, <3>1, <3>2, WalkIsInjective DEF GCInv, WalkEnds
    <3>4. b \in Addrs /\ Retired(b) /\ log[b].op # "TRASH"
      BY <3>1, <3>2 DEF GCInv, WalkInv, Retired
    <3>5. Retired(b)' /\ log'[b].op # "TRASH"
      BY <1>3, <1>8, <3>3, <3>4 DEF Marks
    <3> QED
      BY <3>1, <3>5 DEF Retired
  <2>2. next_old_log' = None
    BY <1>3, <1>4 DEF GCTypes
  <2> QED
    BY <1>5, <2>1, <2>2 DEF WalkInv
<1>12. RankInv'
  <2>1. PICK rank \in Ranks : Falls(rank)
    BY DEF GCInv, RankInv
  <2>2. \A b \in Addrs : log'[b].op \in {"UPDATE", "DELETE"} => rank[log'[b].old] < rank[b]
    BY <1>7, <2>1 DEF Falls
  <2>3. \A i, j \in 1 .. Len(old_log') : i < j => rank[old_log'[j]] < rank[old_log'[i]]
    BY <1>5, <2>1 DEF Falls
  <2>4. next_old_log' = None
    BY <1>3, <1>4 DEF GCTypes
  <2>5. Falls(rank)'
    BY <1>3, <2>1, <2>2, <2>3, <2>4 DEF Falls, Marks
  <2> QED
    BY <2>1, <2>5 DEF RankInv
<1>13. FreedExact'
  <2> SUFFICES ASSUME pass = 1, NEW p \in Pages
               PROVE  sz_freed'[p] = Cardinality(Trashed(p)')
    BY <1>3 DEF FreedExact
  <2>1. sz_freed[p] = Cardinality(Trashed(p)) /\ sz_freed[p] \in Nat
    BY <1>4 DEF GCInv, FreedExact
  <2>2. CASE p = PageOf(a)
    <3>1. Trashed(p)' = Trashed(p) \union {a} /\ a \notin Trashed(p)
      BY <1>3, <2>2 DEF Trashed, Marks
    <3>2. Cardinality(Trashed(p) \union {a}) = Cardinality(Trashed(p)) + 1
      BY <3>1, TrashedFinite, FS_AddElement
    <3>3. sz_freed'[p] = sz_freed[p] + 1
      BY <1>3, <1>4, <2>2
    <3> QED
      BY <2>1, <3>1, <3>2, <3>3
  <2>3. CASE p # PageOf(a)
    <3>1. Trashed(p)' = Trashed(p)
      BY <1>3, <2>3 DEF Trashed, Marks
    <3>2. sz_freed'[p] = sz_freed[p]
      BY <1>3, <1>4, <2>3
    <3> QED
      BY <2>1, <3>1, <3>2
  <2> QED
    BY <2>2, <2>3
<1> QED
  BY <1>6, <1>9, <1>10, <1>11, <1>12, <1>13 DEF GCInv

\* A DELETE log is in no index and in no thread's hands.
LEMMA DeleteIsRetired ==
  ASSUME Inv, NEW s \in Addrs, s < nlog, log[s].op = "DELETE"
  PROVE  Retired(s)
<1>1. log[s] # Unwritten
  BY DEF Unwritten
<1>2. \A u \in Threads : pc[u] \in Private => addr[u] # s
  <2> SUFFICES ASSUME NEW u \in Threads, pc[u] \in Private, addr[u] = s
               PROVE  FALSE
    OBVIOUS
  <2>1. pc[u] \in Holding /\ (pc[u] \in Writing \/ pc[u] = "ins_index")
    BY DEF Holding, Writing, Private
  <2>2. CASE pc[u] \in Writing
    BY <1>1, <2>1, <2>2 DEF Inv, SlotInv
  <2>3. CASE pc[u] = "ins_index"
    <3>1. log[s] = [op |-> "INSERT", key |-> key[u], value |-> val[u], old |-> None]
      BY <2>1, <2>3 DEF Inv, SlotInv
    <3> QED
      BY <3>1
  <2> QED
    BY <2>1, <2>2, <2>3
<1>3. \A u \in Threads : ~Publishing(u, s)
  BY <1>1 DEF Inv, SlotInv, Publishing, Holding, Writing
<1>4. \A k \in Keys : index[k] # s
  BY <1>3, AddrFacts DEF Inv, IndexSound
<1> QED
  BY <1>2, <1>4 DEF Retired

\* The older log that a written log names.
LEMMA OlderIsRetired ==
  ASSUME Inv, ChainInv, GCInv, NEW b \in Addrs, log[b].op # "TRASH", log[b].old # None
  PROVE  log[b].op \in {"UPDATE", "DELETE"} /\ Retired(log[b].old)
<1>1. log[b] \in Entries
  BY DEF Inv, TypeOK
<1>2. log[b].op \in {"INSERT", "UPDATE", "DELETE"}
  BY <1>1 DEF Entries
<1>3. log[b].op # "INSERT"
  BY DEF GCInv, ContentInv
<1> QED
  BY <1>2, <1>3 DEF ChainInv, LinkInv, GCInv, EraseInv

\* The parts that only look at LogDB's state.
LEMMA VarsOnly ==
  ASSUME UNCHANGED vars
  PROVE  /\ (Inv => Inv') /\ (ChainInv => ChainInv')
         /\ (ContentInv => ContentInv') /\ (EraseInv => EraseInv')
         /\ \A a : Retired(a)' <=> Retired(a)
         /\ \A p : Trashed(p)' = Trashed(p)
<1>1. UNCHANGED <<index, log, nlog, cache, get_cnt, pc, key, val, addr, old, abs, seen>>
  BY DEF vars
<1>2. (\A u, a : Publishing(u, a)' <=> Publishing(u, a)) /\ \A a, k : Carries(a, k)' <=> Carries(a, k)
  BY <1>1 DEF Publishing, Carries
<1>3. Inv => Inv'
  BY <1>1, <1>2 DEF Inv, TypeOK, LocalInv, SlotInv, SearchInv, IndexSound, Publishing
<1>4. ChainInv => ChainInv'
  BY <1>1 DEF ChainInv, PendingInv, LinkInv, FillInv, CacheFromOwnLog, OwnLog, Retired,
     Carries, Publishing
<1>5. (ContentInv => ContentInv') /\ (EraseInv => EraseInv')
  BY <1>1 DEF ContentInv, EraseInv, Retired, Dropped
<1>6. (\A a : Retired(a)' <=> Retired(a)) /\ \A p : Trashed(p)' = Trashed(p)
  BY <1>1 DEF Retired, Trashed
<1> QED
  BY <1>3, <1>4, <1>5, <1>6

\* The walk is empty and stays empty.
LEMMA NoWalk ==
  ASSUME GCInv, UNCHANGED vars, old_log' = <<>>, next_old_log' = None
  PROVE  WalkInv' /\ RankInv'
<1>1. Len(old_log') = 0 /\ 1 .. 0 = {}
  OBVIOUS
<1>2. WalkInv'
  BY <1>1 DEF WalkInv
<1>3. PICK rank \in Ranks : Falls(rank)
  BY DEF GCInv, RankInv
<1>4. UNCHANGED <<log, pc, old, addr>>
  BY DEF vars
<1>5. Falls(rank)'
  BY <1>1, <1>3, <1>4 DEF Falls
<1> QED
  BY <1>2, <1>3, <1>5 DEF RankInv

\* The scan that leaves a page, or goes on to the next log.
LEMMA ScanOn ==
  ASSUME Inv, ChainInv, GCInv, UNCHANGED vars,
         BeginGC \/ SkipPage \/ EnterPage \/ EndPage \/ SkipLog \/ EndTrash \/ EndApply
  PROVE  GCInv'
<1>1. GCTypes /\ nlog' = nlog /\ nlog \in 0 .. MaxLogs
  BY DEF GCInv, vars, Inv, TypeOK
<1>2. LastFile \in Nat /\ LastFile \in Pages /\ Pages = 0 .. LastFile /\ PageSlots \in Nat \ {0}
  BY PageOfAddr, LogGCConstants DEF Pages
<1>3. ASSUME LeavePage
      PROVE  /\ gpc' \in {"page", "done"} /\ file_id' \in Pages /\ pass' \in {1, 2}
             /\ pass' = 1 => pass = 1
  BY <1>1, <1>2, <1>3 DEF LeavePage, GCTypes
<1>4. /\ GCTypes' /\ old_log' = <<>> /\ next_old_log' = None
      /\ pass' = 1 => pass = 1 /\ sz_freed' = sz_freed
  <2>1. CASE BeginGC
    BY <1>1, <2>1 DEF BeginGC, GCTypes
  <2>2. CASE SkipPage
    BY <1>1, <1>3, <2>2 DEF SkipPage, GCTypes
  <2>3. CASE EnterPage
    <3>1. file_id \in Nat /\ NewestPage > file_id
      BY <1>1, <1>2, <2>3 DEF EnterPage, Collectable, GCTypes
    <3>2. file_id * PageSlots + PageSlots <= nlog
      BY <1>1, <3>1, OlderPageFull
    <3> QED
      BY <1>1, <1>2, <2>3, <3>2 DEF EnterPage, GCTypes
  <2>4. CASE EndPage
    <3>1. sz_freed' \in [Pages -> Nat] /\ (pass' = 1 => sz_freed' = sz_freed)
      BY <1>1, <1>3, <2>4 DEF EndPage, GCTypes
    <3> QED
      BY <1>1, <1>3, <2>4, <3>1 DEF EndPage, GCTypes
  <2>5. CASE SkipLog
    BY <1>1, <1>2, <2>5 DEF SkipLog, GCTypes
  <2>6. CASE EndTrash
    BY <1>1, <1>2, <2>6 DEF EndTrash, GCTypes
  <2>7. CASE EndApply
    BY <1>1, <1>2, <2>7 DEF EndApply, GCTypes
  <2> QED
    BY <2>1, <2>2, <2>3, <2>4, <2>5, <2>6, <2>7
<1>5. FreedExact'
  BY <1>4, VarsOnly DEF GCInv, FreedExact
<1> QED
  BY <1>4, <1>5, VarsOnly, NoWalk DEF GCInv

\* The walk begins.
LEMMA StartWalkKeeps ==
  ASSUME Inv, ChainInv, GCInv, UNCHANGED vars, StartWalk
  PROVE  GCInv'
<1>1. /\ GCTypes /\ nlog' = nlog /\ nlog \in 0 .. MaxLogs /\ log' = log
      /\ UNCHANGED <<pc, old, addr>>
  BY DEF GCInv, vars, Inv, TypeOK
<1>2. PICK s : s = file_id * PageSlots + offset
  OBVIOUS
<1>3. s \in Addrs /\ s < nlog
  BY <1>1, <1>2, ThisSlot DEF StartWalk
<1>4. /\ gpc = "log" /\ gpc' = "walk" /\ log[s].op \in {"UPDATE", "DELETE"}
      /\ old_log' = (IF log[s].op = "DELETE" THEN <<s>> ELSE <<>>)
      /\ next_old_log' = log[s].old /\ offset < PageSlots
      /\ UNCHANGED <<pass, file_id, offset, sz_freed>>
  BY <1>2 DEF StartWalk, This
<1>5. Retired(log[s].old)
  BY <1>3, <1>4 DEF ChainInv, LinkInv, GCInv, EraseInv
<1>6. old_log' \in Seq(Addrs) /\ \A i \in 1 .. Len(old_log') :
         i = 1 /\ old_log'[i] = s /\ log[s].op = "DELETE"
  BY <1>3, <1>4
<1>7. GCTypes'
  BY <1>1, <1>4, <1>6 DEF GCTypes
<1>8. WalkInv'
  <2>1. ASSUME NEW i \in 1 .. Len(old_log')
        PROVE  Retired(old_log[i])' /\ log'[old_log'[i]].op # "TRASH"
    <3>1. PICK b : b = old_log'[i]
      OBVIOUS
    <3>2. b = s /\ log[s].op = "DELETE"
      BY <1>6, <2>1, <3>1
    <3>3. Retired(b)'
      BY <1>3, <3>2, DeleteIsRetired, VarsOnly
    <3> QED
      BY <1>1, <3>1, <3>2, <3>3 DEF Retired
  <2>2. Retired(next_old_log)'
    <3>1. PICK b : b = next_old_log'
      OBVIOUS
    <3>2. Retired(b)'
      BY <1>4, <1>5, <3>1, VarsOnly
    <3> QED
      BY <3>1, <3>2 DEF Retired
  <2> QED
    BY <2>1, <2>2 DEF WalkInv
<1>9. RankInv'
  <2>1. PICK rank \in Ranks : Falls(rank)
    BY DEF GCInv, RankInv
  <2>2. rank[log[s].old] < rank[s]
    BY <1>3, <1>4, <2>1 DEF Falls
  <2>3. \A i \in 1 .. Len(old_log') : i = 1 /\ rank[next_old_log'] < rank[old_log'[i]]
    BY <1>4, <1>6, <2>2
  <2>4. \A i, j \in 1 .. Len(old_log') : ~(i < j)
    BY <1>6
  <2>5. Falls(rank)'
    BY <1>1, <2>1, <2>3, <2>4 DEF Falls
  <2> QED
    BY <2>1, <2>5 DEF RankInv
<1>10. FreedExact'
  BY <1>4, VarsOnly DEF GCInv, FreedExact
<1> QED
  BY <1>7, <1>8, <1>9, <1>10, VarsOnly DEF GCInv

\* The walk goes on, or is over.
LEMMA WalkKeeps ==
  ASSUME Inv, ChainInv, GCInv, UNCHANGED vars, Walk \/ EndWalk
  PROVE  GCInv'
<1>1. /\ GCTypes /\ nlog' = nlog /\ log' = log /\ UNCHANGED <<pc, old, addr>>
      /\ old_log \in Seq(Addrs)
  BY DEF GCInv, vars, GCTypes
<1>2. FreedExact'
  BY VarsOnly DEF GCInv, FreedExact, Walk, EndWalk
<1>3. PICK rank \in Ranks : Falls(rank)
  BY DEF GCInv, RankInv
<1>4. \A i \in 1 .. Len(old_log) : \A b : b = old_log[i] => Retired(b)' /\ log'[b].op # "TRASH"
  BY <1>1, VarsOnly DEF GCInv, WalkInv
<1>5. CASE Walk
  <2>1. PICK s : s = next_old_log
    OBVIOUS
  <2>2. /\ gpc = "walk" /\ s # None /\ log[s].op # "TRASH"
        /\ old_log' = Append(old_log, s) /\ next_old_log' = log[s].old
        /\ UNCHANGED <<gpc, pass, file_id, offset, sz_freed>>
    BY <1>5, <2>1 DEF Walk, HasOlder
  <2>3. Retired(s) /\ s \in Addrs /\ Retired(s)'
    BY <2>1, <2>2, VarsOnly DEF GCInv, WalkInv, Retired
  <2>4. /\ old_log' \in Seq(Addrs) /\ Len(old_log') = Len(old_log) + 1 /\ Len(old_log) \in Nat
        /\ \A i \in 1 .. Len(old_log') : \/ i \in 1 .. Len(old_log) /\ old_log'[i] = old_log[i]
                                         \/ i = Len(old_log') /\ old_log'[i] = s
    BY <1>1, <2>2, <2>3
  <2>5. GCTypes'
    BY <1>1, <2>2, <2>4 DEF GCTypes
  <2>6. next_old_log' # None => log[s].op \in {"UPDATE", "DELETE"} /\ Retired(log[s].old)
    BY <2>2, <2>3, OlderIsRetired
  <2>7. WalkInv'
    <3>1. ASSUME NEW i \in 1 .. Len(old_log')
          PROVE  Retired(old_log[i])' /\ log'[old_log'[i]].op # "TRASH"
      <4>1. PICK b : b = old_log'[i]
        OBVIOUS
      <4>2. Retired(b)' /\ log'[b].op # "TRASH"
        BY <1>1, <1>4, <2>2, <2>3, <2>4, <4>1
      <4> QED
        BY <4>1, <4>2 DEF Retired
    <3>2. ASSUME next_old_log' # None
          PROVE  Retired(next_old_log)'
      <4>1. PICK b : b = next_old_log'
        OBVIOUS
      <4>2. Retired(b)'
        BY <2>2, <2>6, <3>2, <4>1, VarsOnly
      <4> QED
        BY <4>1, <4>2 DEF Retired
    <3> QED
      BY <3>1, <3>2 DEF WalkInv
  <2>8. Falls(rank)'
    <3>1. \A i \in 1 .. Len(old_log) : rank[s] < rank[old_log[i]]
      BY <1>3, <2>1, <2>2 DEF Falls
    <3>2. next_old_log' # None => rank[log[s].old] < rank[s]
      BY <1>3, <2>3, <2>6 DEF Falls
    <3>3. \A i, j \in 1 .. Len(old_log') : i < j => rank[old_log'[j]] < rank[old_log'[i]]
      <4> SUFFICES ASSUME NEW i \in 1 .. Len(old_log'), NEW j \in 1 .. Len(old_log'), i < j
                   PROVE  rank[old_log'[j]] < rank[old_log'[i]]
        OBVIOUS
      <4>1. i \in 1 .. Len(old_log) /\ old_log'[i] = old_log[i]
        BY <2>4
      <4> QED
        BY <1>3, <2>4, <3>1, <4>1 DEF Falls
    <3>4. next_old_log' # None => \A i \in 1 .. Len(old_log') : rank[next_old_log'] < rank[old_log'[i]]
      <4> SUFFICES ASSUME next_old_log' # None, NEW i \in 1 .. Len(old_log')
                   PROVE  rank[next_old_log'] < rank[old_log'[i]]
        OBVIOUS
      <4>1. rank[s] \in Nat /\ rank[log[s].old] \in Nat
        BY <2>3, <2>6 DEF Ranks, Retired
      <4>2. old_log'[i] \in Addrs /\ rank[old_log'[i]] \in Nat
        BY <2>4 DEF Ranks
      <4> QED
        BY <2>2, <2>4, <3>1, <3>2, <4>1, <4>2
    <3> QED
      BY <1>1, <1>3, <3>3, <3>4 DEF Falls
  <2> QED
    BY <1>2, <1>3, <2>5, <2>7, <2>8, VarsOnly DEF GCInv, RankInv
<1>6. CASE EndWalk
  <2>1. /\ gpc = "walk" /\ gpc' = "trash" /\ next_old_log' = None
        /\ UNCHANGED <<pass, file_id, offset, old_log, sz_freed>>
    BY <1>6 DEF EndWalk
  <2>2. GCTypes'
    BY <1>1, <2>1 DEF GCTypes
  <2>3. WalkInv'
    <3>1. ASSUME NEW i \in 1 .. Len(old_log')
          PROVE  Retired(old_log[i])' /\ log'[old_log'[i]].op # "TRASH"
      <4>1. PICK b : b = old_log'[i]
        OBVIOUS
      <4>2. Retired(b)' /\ log'[b].op # "TRASH"
        BY <1>4, <2>1, <4>1
      <4> QED
        BY <4>1, <4>2 DEF Retired
    <3> QED
      BY <2>1, <3>1 DEF WalkInv
  <2>4. Falls(rank)'
    BY <1>1, <1>3, <2>1 DEF Falls
  <2> QED
    BY <1>2, <1>3, <2>2, <2>3, <2>4, VarsOnly DEF GCInv, RankInv
<1> QED
  BY <1>5, <1>6

-----------------------------------------------------------------------------
\* The empty store, before begin_gc.
LEMMA GCInitInv ==
  ASSUME GCInit
  PROVE  Inv /\ ChainInv /\ GCInv
<1>1. /\ Init /\ gpc = "off" /\ pass = 1 /\ file_id = LastFile /\ offset = 0
      /\ next_old_log = None /\ old_log = <<>> /\ sz_freed = [p \in Pages |-> 0]
  BY DEF GCInit
<1>2. log = [a \in Addrs |-> Unwritten] /\ \A t \in Threads : pc[t] = "idle"
  BY <1>1 DEF Init
<1>3. Inv /\ ChainInv
  BY <1>1, InitInv, ChainInit
<1>4. GCTypes
  <2>1. 0 \in 0 .. PageSlots
    BY LogGCConstants
  <2>2. old_log \in Seq(Addrs)
    BY <1>1
  <2> QED
    BY <1>1, <2>1, <2>2, PageOfAddr DEF GCTypes
<1>5. \A a \in Addrs : log[a] = Unwritten /\ log[a].op = "TRASH"
  BY <1>2 DEF Unwritten
<1>6. ContentInv /\ EraseInv
  BY <1>2, <1>5 DEF ContentInv, EraseInv
<1>7. Len(old_log) = 0 /\ 1 .. 0 = {}
  BY <1>1
<1>8. WalkInv
  BY <1>1, <1>7 DEF WalkInv
<1>9. RankInv
  <2>1. PICK rank : rank = [a \in Addrs |-> 0]
    OBVIOUS
  <2>2. rank \in Ranks /\ Falls(rank)
    BY <1>1, <1>2, <1>5, <1>7, <2>1 DEF Ranks, Falls
  <2> QED
    BY <2>2 DEF RankInv
<1>10. FreedExact
  <2>1. \A p \in Pages : Trashed(p) = {}
    BY <1>5 DEF Trashed
  <2> QED
    BY <1>1, <2>1, FS_EmptySet DEF FreedExact
<1> QED
  BY <1>3, <1>4, <1>6, <1>8, <1>9, <1>10 DEF GCInv

\* Every step, when no caller erases an absent key.
LEMMA GCNextInv ==
  ASSUME ~EraseAbsent, Inv, ChainInv, GCInv, [GCNext]_allvars
  PROVE  Inv' /\ ChainInv' /\ GCInv'
<1>1. CASE UNCHANGED allvars
  <2>1. UNCHANGED vars /\ UNCHANGED gcvars /\ UNCHANGED nlog
    BY <1>1 DEF allvars, vars
  <2>2. UNCHANGED <<gpc, pass, file_id, offset, next_old_log, old_log, sz_freed>>
    BY <2>1 DEF gcvars
  <2>3. GCTypes' /\ FreedExact'
    BY <2>1, <2>2, VarsOnly DEF GCInv, GCTypes, FreedExact
  <2>4. WalkInv' /\ RankInv'
    BY <2>1, <2>2 DEF GCInv, WalkInv, Retired, RankInv, Falls, vars
  <2> QED
    BY <2>1, <2>3, <2>4, VarsOnly DEF GCInv
<1>2. ASSUME NEW t \in Threads, DBStep(t), GCTypes',
             UNCHANGED <<pass, sz_freed, old_log, next_old_log>>
      PROVE  Inv' /\ ChainInv' /\ GCInv'
  <2>1. Call(t) \/ Continue(t)
    BY <1>2 DEF DBStep, Call, WriteCall
  <2>2. Inv' /\ ChainInv'
    BY <2>1, NextInv, ChainStep DEF Next
  <2> QED
    BY <1>2, <2>2, DBStepAdvances, AdvanceKeeps DEF GCInv
<1>3. ASSUME NEW t \in Threads, DBStep(t)
      PROVE  nlog \in Nat /\ nlog' \in Nat /\ nlog <= nlog'
  BY <1>3, DBStepAdvances, LogDBConstants DEF Advance, AdvancePrivate, Inv, TypeOK
<1>4. ASSUME UNCHANGED gcvars, nlog \in Nat, nlog' \in Nat, nlog <= nlog'
      PROVE  GCTypes' /\ UNCHANGED <<pass, sz_freed, old_log, next_old_log>>
  <2>1. UNCHANGED <<gpc, pass, file_id, offset, next_old_log, old_log, sz_freed>>
    BY <1>4 DEF gcvars
  <2>2. gpc \in {"log", "walk", "trash", "apply"} => file_id * PageSlots + PageSlots <= nlog'
    <3>1. file_id \in Nat /\ PageSlots \in Nat
      BY PageOfAddr, LogGCConstants DEF GCInv, GCTypes, Pages
    <3>2. PICK x \in Nat : x = file_id * PageSlots + PageSlots
      BY <3>1
    <3> QED
      BY <1>4, <3>2 DEF GCInv, GCTypes
  <2> QED
    BY <2>1, <2>2 DEF GCInv, GCTypes
<1>5. CASE Scan /\ UNCHANGED vars
  <2>1. GCInv'
    BY <1>5, ScanOn, StartWalkKeeps, WalkKeeps DEF Scan
  <2> QED
    BY <1>5, <2>1, VarsOnly
<1>6. CASE TrashStep
  BY <1>6, TrashMarks, MarksInv, MarksChain, TrashKeeps
<1>7. CASE Apply
  <2>1. PICK s : s = file_id * PageSlots + offset
    OBVIOUS
  <2>2. s \in Addrs
    BY <1>7, <2>1, ThisSlot DEF Apply, GCInv, Inv, TypeOK
  <2>3. This.key \in Keys /\ This.value \in Values
    BY <1>7, <2>1, <2>2 DEF Apply, This, GCInv, ContentInv
  <2>4. DBStep(Collector)
    BY <1>7, <2>3 DEF Apply, DBStep
  <2>5. /\ nlog \in Nat /\ nlog' \in Nat /\ nlog <= nlog' /\ Collector \in Threads
    BY <1>3, <2>4, LogGCConstants
  <2>6. /\ gpc = "log" /\ gpc' = "apply" /\ offset < PageSlots
        /\ UNCHANGED <<pass, file_id, offset, next_old_log, old_log, sz_freed>>
    BY <1>7 DEF Apply
  <2>7. file_id * PageSlots + PageSlots <= nlog'
    <3>1. file_id \in Nat /\ PageSlots \in Nat
      BY PageOfAddr, LogGCConstants DEF GCInv, GCTypes, Pages
    <3>2. PICK x \in Nat : x = file_id * PageSlots + PageSlots
      BY <3>1
    <3> QED
      BY <2>5, <2>6, <3>2 DEF GCInv, GCTypes
  <2>8. GCTypes'
    BY <2>6, <2>7 DEF GCInv, GCTypes
  <2> QED
    BY <1>2, <2>4, <2>5, <2>6, <2>8
<1>8. CASE Continue(Collector) /\ UNCHANGED gcvars
  <2>1. DBStep(Collector) /\ Collector \in Threads
    BY <1>8, LogGCConstants DEF DBStep
  <2> QED
    BY <1>2, <1>3, <1>4, <1>8, <2>1
<1>9. ASSUME NEW t \in Threads \ {Collector}, Foreground(t)
      PROVE  Inv' /\ ChainInv' /\ GCInv'
  <2>1. DBStep(t)
    <3>1. CASE Continue(t)
      BY <3>1 DEF DBStep
    <3>2. ASSUME NEW k \in Keys, EraseSearch(t, k), Permitted(t)
          PROVE  index[k] # None
      <4>1. pc'[t] = "ers_index" /\ key'[t] = k
        BY <3>2 DEF EraseSearch, Goto, Inv, TypeOK
      <4> QED
        BY <3>2, <4>1 DEF Permitted
    <3>3. CASE WriteCall(t) /\ Permitted(t)
      BY <3>2, <3>3 DEF WriteCall, DBStep
    <3> QED
      BY <1>9, <3>1, <3>3 DEF Foreground
  <2> QED
    BY <1>2, <1>3, <1>4, <1>9, <2>1 DEF Foreground
<1>10. CASE GCNext
  <2>1. CASE Quiet
    BY <1>1, <2>1 DEF Quiet
  <2>2. CASE CollectorStep
    BY <1>5, <1>6, <1>7, <1>8, <2>2 DEF CollectorStep, TrashStep
  <2> QED
    BY <1>9, <1>10, <2>1, <2>2 DEF GCNext
<1> QED
  BY <1>1, <1>10

-----------------------------------------------------------------------------
\* The collector and the foreground threads together keep the invariant of LogDB
\* and that of the collection.
THEOREM GCInvariance ==
  ASSUME ~EraseAbsent
  PROVE  GCSpec => [](Inv /\ ChainInv /\ GCInv)
<1> DEFINE I == Inv /\ ChainInv /\ GCInv
<1>1. GCInit => I
  BY GCInitInv
<1>2. I /\ [GCNext]_allvars => I'
  BY GCNextInv
<1> HIDE DEF I
<1>3. GCSpec => []I
  BY <1>1, <1>2, PTL DEF GCSpec
<1> QED
  BY <1>3 DEF I

\* do_gc never marks a log that the index holds: whatever updates and erases race
\* with the walk, an indexed address keeps a log of its key with the key's value,
\* or its update is about to be written.
THEOREM CollectorKeepsIndexed ==
  ASSUME ~EraseAbsent
  PROVE  GCSpec => [](TypeOK /\ IndexSound)
<1>1. Inv => TypeOK /\ IndexSound
  BY DEF Inv
<1> QED
  BY <1>1, GCInvariance, PTL

\* sz_freed, by which do_gc chooses the pages of pass 2, counts every marked log
\* once and in its own page.
THEOREM FreedIsExact ==
  ASSUME ~EraseAbsent
  PROVE  GCSpec => []FreedExact
<1>1. GCInv => FreedExact
  BY DEF GCInv
<1> QED
  BY <1>1, GCInvariance, PTL

\* The walk back along a key's older logs meets no log twice, however the
\* foreground threads extend the chain meanwhile.
THEOREM WalksEnd ==
  ASSUME ~EraseAbsent
  PROVE  GCSpec => []WalkEnds
<1>1. GCInv => WalkEnds
  BY WalkIsInjective DEF GCInv
<1> QED
  BY <1>1, GCInvariance, PTL

=============================================================================
