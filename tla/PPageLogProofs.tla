--------------------------- MODULE PPageLogProofs ---------------------------
(***************************************************************************)
(* Proofs about PPageLog, for any number of threads, nodes and shards, any *)
(* page size and any set of log lengths, as long as no shard creates more  *)
(* pages than the address table has entries for.                           *)
(***************************************************************************)
EXTENDS PPageLog, TLAPS

\* The condition under which the unchecked table index of alloc_new_ppage and
\* get_addr stays within its row.
PagesFitTable == MaxPages <= MaxFileId

Hashes == 0 .. NumShards - 1

-----------------------------------------------------------------------------
\* The inductive invariant, in parts.

\* A thread that is not idle is writing a log of a possible length on its node.
RequestInv ==
  \A t \in Threads :
    /\ req[t].sh[1] = NodeOf[t]
    /\ pc[t] # "idle" => req[t].size \in Sizes

\* The latch is set while a thread is between WLock and WUnlock, and two such
\* threads are in different shards.
LatchInv ==
  \A t \in Threads : pc[t] \in InLatch =>
    /\ rwlock[req[t].sh] = 1
    /\ \A u \in Threads : pc[u] \in InLatch /\ req[u].sh = req[t].sh => u = t

\* The page id was raised and the page is not there yet.
Mapping(s) == \E t \in Threads : pc[t] = "map" /\ req[t].sh = s

\* Page p of shard s was mapped at some time.
Mapped(s, p) == p < ppage_id[s] \/ (p = ppage_id[s] /\ ~Mapping(s))

\* Exactly the mapped pages have files and table entries; start_addr_ is the
\* newest of them.
PageInv ==
  \A s \in Shards :
    /\ ppage_id[s] <= MaxPages
    /\ ~Mapping(s) => ppage_id[s] < MaxPages /\ start_addr[s] = File(s, ppage_id[s])
    /\ \A p \in 0 .. MaxPages - 1 :
         /\ File(s, p) \in files => Mapped(s, p)
         /\ Mapped(s, p) => table[TableIndex(s, p)] = File(s, p)

\* A region lies within a mapped page and, if that is the page alloc is filling,
\* below the bump pointer.
InPage(l) ==
  /\ l.numa = l.sh[1]
  /\ l.page < MaxPages
  /\ Mapped(l.sh, l.page)
  /\ l.off + l.size <= PageSize

BelowTail(l) ==
  l.page = ppage_id[l.sh] /\ ~Mapping(l.sh) => l.off + l.size <= sz_allocated[l.sh]

\* What alloc has established at each point for the thread that runs it.
AllocInv ==
  \A t \in Threads :
    /\ pc[t] = "fill" => req[t].size <= PageSize - sz_allocated[req[t].sh]
    /\ pc[t] \in Owning =>
         /\ InPage(LogOf(t))
         /\ ret[t] = [file |-> File(req[t].sh, info[t].page), off |-> info[t].off]
    /\ pc[t] = "advance" =>
         info[t].page = ppage_id[req[t].sh] /\ info[t].off = sz_allocated[req[t].sh]
    /\ pc[t] \in {"unlock", "store"} => BelowTail(LogOf(t))

\* Logs that were returned are in place, under their own page's file.
LogInv ==
  \A l \in acked :
    /\ InPage(l)
    /\ BelowTail(l)
    /\ \A b \in l.off .. l.off + l.size - 1 : pmem[File(l.sh, l.page)][b] = l.ver

IndInv ==
  /\ TypeOK
  /\ RequestInv
  /\ LatchInv
  /\ PageInv
  /\ AllocInv
  /\ LogInv
  /\ RegionsApart

-----------------------------------------------------------------------------
\* Arithmetic of the table index and of the narrowing to field widths.

\* Multiplication distributes over addition.
LEMMA Distribute ==
  ASSUME NEW x \in Nat, NEW y \in Nat, NEW m \in Nat
  PROVE  (x + y) * m = x * m + y * m
  OBVIOUS

\* Division with remainder is unique.
LEMMA QuotientUnique ==
  ASSUME NEW a \in Nat, NEW b \in Nat, NEW m \in Nat,
         NEW p \in 0 .. m - 1, NEW q \in 0 .. m - 1,
         a * m + p = b * m + q
  PROVE  a = b /\ p = q
<1>1. ASSUME NEW x \in Nat, NEW y \in Nat, x < y
      PROVE  x * m + m <= y * m
  <2>1. PICK d \in Nat : y = x + 1 + d
    <3>1. y - x - 1 \in Nat
      BY <1>1
    <3> QED
      BY <3>1
  <2>2. y * m = x * m + m + d * m
    BY <2>1
  <2>3. d * m \in Nat /\ x * m \in Nat
    OBVIOUS
  <2> QED
    BY <2>2, <2>3
<1>2. a * m \in Nat /\ b * m \in Nat
  OBVIOUS
<1>3. ~(a < b)
  BY <1>1, <1>2
<1>4. ~(b < a)
  BY <1>1, <1>2
<1> QED
  BY <1>2, <1>3, <1>4

\* A number below the range of the field it is stored in is stored unchanged.
LEMMA NarrowSmall ==
  ASSUME NEW a \in Nat, NEW m \in Nat, a < m
  PROVE  a % m = a
  OBVIOUS

\* Different pages have different table entries: no page's address is ever
\* stored in another page's place.
LEMMA TableIndexInjective ==
  ASSUME PagesFitTable, NEW s \in Shards, NEW u \in Shards,
         NEW p \in 0 .. MaxPages - 1, NEW q \in 0 .. MaxPages - 1,
         TableIndex(s, p) = TableIndex(u, q)
  PROVE  s = u /\ p = q
<1>1. /\ s[1] \in Nat /\ u[1] \in Nat /\ HashDim \in Nat /\ MaxFileId \in Nat
      /\ s[2] \in 0 .. HashDim - 1 /\ u[2] \in 0 .. HashDim - 1
      /\ p \in 0 .. MaxFileId - 1 /\ q \in 0 .. MaxFileId - 1
      /\ s = <<s[1], s[2]>> /\ u = <<u[1], u[2]>>
  BY ConstantsOK DEF Shards, PagesFitTable
<1>2. s[1] * HashDim + s[2] \in Nat /\ u[1] * HashDim + u[2] \in Nat
  BY <1>1
<1>3. s[1] * HashDim + s[2] = u[1] * HashDim + u[2] /\ p = q
  BY <1>1, <1>2, QuotientUnique DEF TableIndex
<1>4. s[1] = u[1] /\ s[2] = u[2]
  BY <1>1, <1>3, QuotientUnique
<1> QED
  BY <1>1, <1>3, <1>4

\* Every page's entry lies within the table.
LEMMA TableIndexInRange ==
  ASSUME NEW s \in Shards, NEW p \in 0 .. MaxPages
  PROVE  TableIndex(s, p) \in TableIndices
<1>1. /\ s[1] \in 0 .. NumaNodes - 1 /\ s[2] \in 0 .. HashDim - 1
      /\ HashDim \in Nat /\ MaxFileId \in Nat /\ NumaNodes \in Nat /\ MaxPages \in Nat
  BY ConstantsOK DEF Shards
<1>2. PICK d \in Nat : NumaNodes = s[1] + 1 + d
  <2>1. NumaNodes - s[1] - 1 \in Nat
    BY <1>1
  <2> QED
    BY <1>1, <2>1
<1>3. NumaNodes * HashDim = s[1] * HashDim + HashDim + d * HashDim
  BY <1>1, <1>2
<1>4. d * HashDim \in Nat /\ s[1] * HashDim \in Nat
  BY <1>1, <1>2
<1>5. PICK e \in Nat : NumaNodes * HashDim = s[1] * HashDim + s[2] + e
  <2>1. NumaNodes * HashDim - (s[1] * HashDim + s[2]) \in Nat
    BY <1>1, <1>3, <1>4
  <2> QED
    BY <1>1, <1>4, <2>1
<1>6. NumaNodes * HashDim * MaxFileId = (s[1] * HashDim + s[2]) * MaxFileId + e * MaxFileId
  <2>1. s[1] * HashDim + s[2] \in Nat
    BY <1>1, <1>4
  <2>2. PICK row \in Nat : row = s[1] * HashDim + s[2]
    BY <2>1
  <2>3. (row + e) * MaxFileId = row * MaxFileId + e * MaxFileId
    BY <1>1, Distribute
  <2>4. NumaNodes * HashDim = row + e
    BY <1>5, <2>2
  <2> QED
    BY <2>2, <2>3, <2>4
<1>7. e * MaxFileId \in Nat /\ (s[1] * HashDim + s[2]) * MaxFileId \in Nat
  BY <1>1, <1>4, <1>5
<1> QED
  BY <1>1, <1>6, <1>7 DEF TableIndex, TableIndices

-----------------------------------------------------------------------------
\* The invariant holds initially.

\* The table the constructor fills names each shard's page 0.
LEMMA InitTable ==
  ASSUME PagesFitTable, Init, NEW s \in Shards
  PROVE  table[TableIndex(s, 0)] = File(s, 0)
<1>1. 0 \in 0 .. MaxPages - 1 /\ 0 \in 0 .. MaxPages
  BY ConstantsOK
<1>2. TableIndex(s, 0) \in TableIndices
  BY <1>1, TableIndexInRange
<1>3. \A u \in Shards : TableIndex(s, 0) = TableIndex(u, 0) => u = s
  BY <1>1, TableIndexInjective
<1>4. (CHOOSE u \in Shards : TableIndex(s, 0) = TableIndex(u, 0)) = s
  BY <1>3
<1> QED
  BY <1>2, <1>4 DEF Init

\* The state the constructors leave satisfies the inductive invariant.
LEMMA InitIndInv ==
  ASSUME PagesFitTable, Init
  PROVE  IndInv
<1>1. 0 \in 0 .. MaxPages - 1 /\ 0 \in 0 .. PageSize /\ MaxPages \in Nat
  BY ConstantsOK
<1>2. \A s \in Shards : File(s, 0) \in Files
  BY <1>1 DEF Files, File, Shards
<1>3. TypeOK
  <2>1. \A t \in Threads : NoReq(t) \in [sh: Shards, size: Nat, ver: Nat]
    BY ConstantsOK DEF NoReq, Shards
  <2>2. NoInfo \in [numa: 0 .. NumaNodes - 1, page: Nat, off: Nat]
    BY ConstantsOK DEF NoInfo
  <2>3. NoRet \in [file: Files \union {NULL}, off: Nat]
    BY DEF NoRet
  <2>4. table \in [TableIndices -> Files \union {NULL}]
    BY <1>2 DEF Init
  <2>5. pmem \in [Files -> [0 .. PageSize - 1 -> Nat]]
    BY DEF Init, Ones
  <2>6. /\ pc \in [Threads -> {"idle", "wlock", "store"} \union InLatch]
        /\ req \in [Threads -> [sh: Shards, size: Nat, ver: Nat]]
        /\ info \in [Threads -> [numa: 0 .. NumaNodes - 1, page: Nat, off: Nat]]
        /\ ret \in [Threads -> [file: Files \union {NULL}, off: Nat]]
    BY <2>1, <2>2, <2>3 DEF Init
  <2>7. /\ rwlock \in [Shards -> {0, 1}]
        /\ ppage_id \in [Shards -> Nat]
        /\ sz_allocated \in [Shards -> 0 .. PageSize]
        /\ start_addr \in [Shards -> Files]
    BY <1>1, <1>2 DEF Init
  <2>8. /\ files \subseteq Files
        /\ version \in [0 .. NumShards - 1 -> Nat]
        /\ exited \in BOOLEAN
        /\ acked = {}
    BY <1>2 DEF Init
  <2> QED
    BY <2>4, <2>5, <2>6, <2>7, <2>8 DEF TypeOK
<1>4. \A t \in Threads : pc[t] = "idle"
  BY DEF Init
<1>5. RequestInv
  BY <1>4 DEF Init, RequestInv, NoReq
<1>6. LatchInv /\ AllocInv /\ RegionsApart
  BY <1>4 DEF LatchInv, AllocInv, RegionsApart, InLatch, Owning
<1>7. LogInv
  BY DEF Init, LogInv
<1>8. PageInv
  <2> SUFFICES ASSUME NEW s \in Shards
               PROVE  /\ ppage_id[s] <= MaxPages
                      /\ ppage_id[s] < MaxPages /\ start_addr[s] = File(s, ppage_id[s])
                      /\ \A p \in 0 .. MaxPages - 1 :
                           /\ File(s, p) \in files => Mapped(s, p)
                           /\ Mapped(s, p) => table[TableIndex(s, p)] = File(s, p)
    BY DEF PageInv
  <2>1. ppage_id[s] = 0 /\ start_addr[s] = File(s, 0) /\ ~Mapping(s)
    BY <1>4 DEF Init, Mapping
  <2>2. \A p \in 0 .. MaxPages - 1 : Mapped(s, p) <=> p = 0
    BY <2>1, <1>1 DEF Mapped
  <2>3. \A p \in 0 .. MaxPages - 1 : File(s, p) \in files => p = 0
    BY DEF Init, File
  <2> QED
    BY <1>1, <2>1, <2>2, <2>3, InitTable
<1> QED
  BY <1>3, <1>5, <1>6, <1>7, <1>8 DEF IndInv

-----------------------------------------------------------------------------
\* Every step of a thread preserves the invariant, action by action.

\* The other threads' locals are as they were.
OthersUntouched(t) ==
  \A u \in Threads \ {t} : /\ pc'[u] = pc[u] /\ req'[u] = req[u]
                            /\ info'[u] = info[u] /\ ret'[u] = ret[u]

\* A step outside alloc_new_ppage starts and ends no mapping.
LEMMA MappingUnchanged ==
  ASSUME NEW t \in Threads, pc[t] # "map", pc'[t] # "map", OthersUntouched(t),
         NEW s
  PROVE  Mapping(s)' <=> Mapping(s)
  BY DEF Mapping, OthersUntouched

\* get_version and the choice of the PPage touch no page.
LEMMA BeginStep ==
  ASSUME IndInv, NEW t \in Threads, Begin(t)
  PROVE  IndInv'
<1> USE DEF IndInv
<1>1. PICK h \in Hashes, size \in Sizes :
        /\ version' = [version EXCEPT ![h] = @ + 1]
        /\ req' = [req EXCEPT ![t] = [sh |-> <<NodeOf[t], h>>, size |-> size,
                                      ver |-> version[h] + 1]]
  BY DEF Begin, Hashes
<1>2. /\ pc[t] = "idle" /\ pc' = [pc EXCEPT ![t] = "wlock"]
      /\ UNCHANGED <<info, ret, header, persistent, exited, acked>>
  BY DEF Begin
<1>3. TypeOK'
  <2>1. [sh |-> <<NodeOf[t], h>>, size |-> size, ver |-> version[h] + 1]
          \in [sh: Shards, size: Nat, ver: Nat]
    <3>1. <<NodeOf[t], h>> \in Shards
      BY ConstantsOK DEF Shards, Hashes
    <3>2. size \in Nat
      BY ConstantsOK
    <3>3. version[h] + 1 \in Nat
      BY DEF TypeOK, Hashes
    <3> QED
      BY <3>1, <3>2, <3>3
  <2>2. version' \in [0 .. NumShards - 1 -> Nat]
    <3>1. version \in [Hashes -> Nat]
      BY DEF TypeOK, Hashes
    <3>2. version[h] + 1 \in Nat
      BY <3>1
    <3> HIDE DEF IndInv
    <3> QED
      BY <1>1, <3>1, <3>2 DEF Hashes
  <2> QED
    BY <1>1, <1>2, <2>1, <2>2 DEF TypeOK, header, persistent
<1>4. OthersUntouched(t) /\ pc'[t] = "wlock"
  BY <1>1, <1>2 DEF OthersUntouched, TypeOK
<1>5. \A s : Mapping(s)' <=> Mapping(s)
  BY <1>2, <1>4, MappingUnchanged
<1>6. RequestInv'
  BY <1>1, <1>2, <1>4 DEF RequestInv, TypeOK, OthersUntouched
<1>7. LatchInv'
  BY <1>2, <1>4 DEF LatchInv, OthersUntouched, InLatch, header
<1>8. PageInv'
  BY <1>2, <1>5 DEF PageInv, Mapped, header, persistent
<1>9. AllocInv'
  BY <1>2, <1>4, <1>5
     DEF AllocInv, OthersUntouched, Owning, InPage, BelowTail, Mapped, LogOf, header
<1>10. LogInv'
  BY <1>2, <1>5 DEF LogInv, InPage, BelowTail, Mapped, header, persistent
<1>11. RegionsApart'
  BY <1>2, <1>4 DEF RegionsApart, OthersUntouched, Owning, LogOf, Apart
<1> QED
  BY <1>3, <1>6, <1>7, <1>8, <1>9, <1>10, <1>11

\* The latch passes to a thread only when nobody has it.
LEMMA WLockStep ==
  ASSUME IndInv, NEW t \in Threads, WLock(t)
  PROVE  IndInv'
<1> USE DEF IndInv
<1>2. /\ pc[t] = "wlock" /\ pc' = [pc EXCEPT ![t] = "check"]
      /\ rwlock[req[t].sh] = 0 /\ rwlock' = [rwlock EXCEPT ![req[t].sh] = 1]
      /\ UNCHANGED <<req, info, ret, ppage_id, sz_allocated, start_addr, persistent,
                     version, exited, acked>>
  BY DEF WLock
<1>3. TypeOK'
  BY <1>2 DEF TypeOK, persistent, InLatch
<1>4. OthersUntouched(t) /\ pc'[t] = "check"
  BY <1>2 DEF OthersUntouched, TypeOK
<1>5. \A s : Mapping(s)' <=> Mapping(s)
  BY <1>2, <1>4, MappingUnchanged
<1>6. RequestInv'
  BY <1>2, <1>4 DEF RequestInv, OthersUntouched
<1>7. LatchInv'
  <2>1. \A u \in Threads : req[u].sh \in Shards
    BY DEF TypeOK
  <2>2. /\ rwlock'[req[t].sh] = 1
        /\ \A s \in Shards : s # req[t].sh => rwlock'[s] = rwlock[s]
    BY <1>2, <2>1 DEF TypeOK
  <2>3. \A u \in Threads : pc[u] \in InLatch => req[u].sh # req[t].sh
    BY <1>2 DEF LatchInv
  <2> QED
    BY <1>2, <1>4, <2>1, <2>2, <2>3 DEF LatchInv, OthersUntouched
<1>8. PageInv'
  BY <1>2, <1>5 DEF PageInv, Mapped, persistent
<1>9. AllocInv'
  BY <1>2, <1>4, <1>5
     DEF AllocInv, OthersUntouched, Owning, InPage, BelowTail, Mapped, LogOf
<1>10. LogInv'
  BY <1>2, <1>5 DEF LogInv, InPage, BelowTail, Mapped, persistent
<1>11. RegionsApart'
  BY <1>2, <1>4 DEF RegionsApart, OthersUntouched, Owning, LogOf, Apart
<1> QED
  BY <1>3, <1>6, <1>7, <1>8, <1>9, <1>10, <1>11

\* The check of the remaining space only decides where the thread goes next.
LEMMA CheckSpaceStep ==
  ASSUME IndInv, NEW t \in Threads, CheckSpace(t)
  PROVE  IndInv'
<1> USE DEF IndInv
<1>1. /\ pc[t] = "check" /\ pc'[t] \in {"grow", "fill"}
      /\ pc' = [pc EXCEPT ![t] = pc'[t]]
      /\ pc'[t] = "fill" => ~NeedsNewPage(req[t].size, sz_allocated[req[t].sh])
  BY DEF CheckSpace, TypeOK
<1>2. UNCHANGED <<req, info, ret, header, persistent, version, exited, acked>>
  BY DEF CheckSpace
<1>3. TypeOK'
  BY <1>1, <1>2 DEF TypeOK, header, persistent, InLatch
<1>4. OthersUntouched(t)
  BY <1>1, <1>2 DEF OthersUntouched, TypeOK
<1>5. \A s : Mapping(s)' <=> Mapping(s)
  BY <1>1, <1>4, MappingUnchanged
<1>6. RequestInv'
  BY <1>1, <1>2, <1>4 DEF RequestInv, OthersUntouched
<1>7. LatchInv'
  BY <1>1, <1>2, <1>4 DEF LatchInv, OthersUntouched, InLatch, header
<1>8. PageInv'
  BY <1>2, <1>5 DEF PageInv, Mapped, header, persistent
<1>9. AllocInv'
  <2>1. pc'[t] = "fill" => req[t].size <= PageSize - sz_allocated[req[t].sh]
    <3>1. req[t].size \in Nat /\ sz_allocated[req[t].sh] \in Nat /\ PageSize \in Nat
      BY ConstantsOK DEF TypeOK
    <3> QED
      BY <1>1, <3>1 DEF NeedsNewPage
  <2> QED
    BY <1>1, <1>2, <1>4, <1>5, <2>1
       DEF AllocInv, OthersUntouched, Owning, InPage, BelowTail, Mapped, LogOf, header
<1>10. LogInv'
  BY <1>2, <1>5 DEF LogInv, InPage, BelowTail, Mapped, header, persistent
<1>11. RegionsApart'
  BY <1>1, <1>2, <1>4 DEF RegionsApart, OthersUntouched, Owning, LogOf, Apart
<1> QED
  BY <1>3, <1>6, <1>7, <1>8, <1>9, <1>10, <1>11

\* A page file's name determines its shard and page.
LEMMA FileInjective ==
  ASSUME NEW s \in Shards, NEW u \in Shards, NEW p, NEW q, File(s, p) = File(u, q)
  PROVE  s = u /\ p = q
  BY DEF File, Shards

\* The name of a page file is that of a file of its shard and node.
LEMMA FileInFiles ==
  ASSUME NEW s \in Shards, NEW p \in Nat, p < MaxPages
  PROVE  File(s, p) \in Files
<1>1. p \in 0 .. MaxPages - 1
  BY ConstantsOK
<1> QED
  BY <1>1 DEF File, Files, Shards

\* The fields of a returned log and of the log a thread is writing.
LEMMA AckedTypes ==
  ASSUME TypeOK, NEW l \in acked
  PROVE  /\ l.sh \in Shards /\ l.numa \in Nat /\ l.page \in Nat /\ l.off \in Nat
         /\ l.size \in Sizes /\ l.size \in Nat /\ l.ver \in Nat
<1>1. l \in [sh: Shards, numa: 0 .. NumaNodes - 1, page: Nat, off: Nat,
             size: Sizes, ver: Nat]
  BY DEF TypeOK
<1>2. /\ l.sh \in Shards /\ l.numa \in 0 .. NumaNodes - 1 /\ l.page \in Nat
      /\ l.off \in Nat /\ l.size \in Sizes /\ l.ver \in Nat
  BY <1>1
<1>3. l.size \in 1 .. PageSize
  BY <1>2, ConstantsOK
<1> QED
  BY <1>2, <1>3, ConstantsOK

\* The log a thread is about to write has a place in the page of its shard.
LEMMA LogOfTypes ==
  ASSUME TypeOK, NEW t \in Threads
  PROVE  /\ LogOf(t).sh = req[t].sh /\ LogOf(t).sh \in Shards
         /\ LogOf(t).numa \in 0 .. NumaNodes - 1 /\ LogOf(t).page \in Nat
         /\ LogOf(t).off \in Nat /\ LogOf(t).size = req[t].size
         /\ LogOf(t).size \in Nat /\ LogOf(t).ver \in Nat
  BY DEF TypeOK, LogOf

\* The holder of a shard's latch is the only thread that can be mapping a page.
LEMMA NoOtherMapping ==
  ASSUME IndInv, NEW t \in Threads, pc[t] \in InLatch, pc[t] # "map"
  PROVE  ~Mapping(req[t].sh)
  BY DEF IndInv, LatchInv, Mapping, InLatch

\* The page id is raised before the page exists: from here on the page is being
\* mapped.
LEMMA BumpPageIdStep ==
  ASSUME IndInv, NEW t \in Threads, BumpPageId(t)
  PROVE  IndInv'
<1> USE DEF IndInv
<1>0. PICK s \in Shards : s = req[t].sh
  BY DEF TypeOK
<1>1. /\ pc[t] = "grow" /\ pc' = [pc EXCEPT ![t] = "map"]
      /\ ppage_id' = [ppage_id EXCEPT ![s] = @ + 1]
      /\ UNCHANGED <<req, info, ret, rwlock, sz_allocated, start_addr, persistent,
                     version, exited, acked>>
  BY <1>0 DEF BumpPageId
<1>2. s = req[t].sh /\ \A u \in Threads : req[u].sh \in Shards
  BY <1>0 DEF TypeOK
<1>3. TypeOK'
  <2>1. ppage_id' \in [Shards -> Nat]
    BY <1>1, <1>2 DEF TypeOK
  <2>2. pc' \in [Threads -> {"idle", "wlock", "store"} \union InLatch]
    BY <1>1 DEF TypeOK, InLatch
  <2> QED
    BY <1>1, <2>1, <2>2 DEF TypeOK, persistent
<1>4. OthersUntouched(t) /\ pc'[t] = "map"
  BY <1>1 DEF OthersUntouched, TypeOK
<1>5. ~Mapping(s) /\ Mapping(s)' /\ \A x : x # s => (Mapping(x)' <=> Mapping(x))
  <2>1. ~Mapping(s)
    BY <1>1, <1>2, NoOtherMapping DEF InLatch
  <2>2. Mapping(s)'
    BY <1>1, <1>2, <1>4 DEF Mapping
  <2>3. \A x : x # s => (Mapping(x)' <=> Mapping(x))
    BY <1>1, <1>2, <1>4 DEF Mapping, OthersUntouched
  <2> QED
    BY <2>1, <2>2, <2>3
<1>6. /\ ppage_id'[s] = ppage_id[s] + 1
      /\ \A x \in Shards : x # s => ppage_id'[x] = ppage_id[x]
      /\ \A x \in Shards : ppage_id[x] \in Nat
  BY <1>1, <1>2 DEF TypeOK
<1>7. \A x \in Shards : \A p \in Nat : Mapped(x, p)' <=> Mapped(x, p)
  <2> SUFFICES ASSUME NEW x \in Shards, NEW p \in Nat
               PROVE  Mapped(x, p)' <=> Mapped(x, p)
    OBVIOUS
  <2>1. CASE x = s
    <3>1. p < ppage_id'[s] <=> p < ppage_id[s] \/ p = ppage_id[s]
      BY <1>2, <1>6
    <3> QED
      BY <1>5, <2>1, <3>1 DEF Mapped
  <2>2. CASE x # s
    BY <1>5, <1>6, <2>2 DEF Mapped
  <2> QED
    BY <2>1, <2>2
<1>8. RequestInv'
  BY <1>1, <1>4 DEF RequestInv, OthersUntouched
<1>9. LatchInv'
  BY <1>1, <1>4 DEF LatchInv, OthersUntouched, InLatch
<1>10. PageInv'
  <2>1. MaxPages \in Nat
    BY ConstantsOK
  <2>2. \A x \in Shards : ppage_id'[x] <= MaxPages
    BY <1>2, <1>5, <1>6, <2>1 DEF PageInv
  <2>3. \A p \in 0 .. MaxPages - 1 : p \in Nat
    BY <2>1
  <2> QED
    BY <1>1, <1>2, <1>5, <1>6, <1>7, <2>2, <2>3 DEF PageInv, persistent
<1>11. \A u \in Threads : LogOf(u)' = LogOf(u) /\ LogOf(u).sh = req[u].sh
                            /\ LogOf(u).page \in Nat
  BY <1>1 DEF LogOf, TypeOK
<1>12. ASSUME NEW l, l.sh \in Shards, l.page \in Nat
       PROVE  (InPage(l) => InPage(l)') /\ (BelowTail(l) => BelowTail(l)')
  BY <1>1, <1>5, <1>6, <1>7, <1>12 DEF InPage, BelowTail
<1>13. AllocInv'
  <2>1. \A u \in Threads \ {t} : pc[u] \in InLatch => req[u].sh # s
    BY <1>1, <1>2 DEF LatchInv, InLatch
  <2>2. \A u \in Threads : pc'[u] \in Owning \union {"fill"} => pc'[u] = pc[u] /\ u # t
    BY <1>4 DEF OthersUntouched, Owning
  <2> QED
    BY <1>1, <1>2, <1>6, <1>11, <1>12, <2>1, <2>2 DEF AllocInv, Owning, InLatch, InPage, BelowTail
<1>14. LogInv'
  BY <1>1, <1>12 DEF LogInv, persistent, TypeOK
<1>15. RegionsApart'
  BY <1>1, <1>4, <1>11 DEF RegionsApart, OthersUntouched, Owning, Apart
<1> QED
  BY <1>3, <1>8, <1>9, <1>10, <1>13, <1>14, <1>15

\* A new page file is created, filled with 1s and published in the table; no
\* other entry of the table changes.
LEMMA MapPageStep ==
  ASSUME PagesFitTable, IndInv, NEW t \in Threads, MapPage(t)
  PROVE  IndInv'
<1> USE DEF IndInv
<1>0. PICK s \in Shards : s = req[t].sh
  BY DEF TypeOK
<1>1. PICK p \in Nat : p = ppage_id[s]
  BY DEF TypeOK
<1> DEFINE f == File(s, p)
<1>2. /\ pc[t] = "map" /\ pc' = [pc EXCEPT ![t] = "fill"]
      /\ p < MaxPages /\ f \notin files
      /\ files' = files \union {f}
      /\ pmem' = [pmem EXCEPT ![f] = [b \in 0 .. PageSize - 1 |-> Ones]]
      /\ table' = [table EXCEPT ![TableIndex(s, p)] = f]
      /\ start_addr' = [start_addr EXCEPT ![s] = f]
      /\ sz_allocated' = [sz_allocated EXCEPT ![s] = 0]
      /\ UNCHANGED <<req, info, ret, rwlock, ppage_id, version, exited, acked>>
  BY <1>0, <1>1 DEF MapPage
<1>3. /\ p \in 0 .. MaxPages - 1 /\ MaxPages \in Nat
      /\ \A q \in 0 .. MaxPages - 1 : q \in 0 .. MaxPages
  BY <1>2, ConstantsOK
<1>4. f \in Files
  BY <1>3 DEF Files, File, Shards
<1> HIDE DEF f
<1>5. TypeOK'
  <2>1. pc' \in [Threads -> {"idle", "wlock", "store"} \union InLatch]
    BY <1>2 DEF TypeOK, InLatch
  <2>2. pmem' \in [Files -> [0 .. PageSize - 1 -> Nat]]
    <3>1. [b \in 0 .. PageSize - 1 |-> Ones] \in [0 .. PageSize - 1 -> Nat]
      BY DEF Ones
    <3> QED
      BY <1>2, <1>4, <3>1 DEF TypeOK
  <2>3. table' \in [TableIndices -> Files \union {NULL}]
    BY <1>2, <1>4 DEF TypeOK
  <2>4. start_addr' \in [Shards -> Files] /\ files' \subseteq Files
    BY <1>2, <1>4 DEF TypeOK
  <2>5. sz_allocated' \in [Shards -> 0 .. PageSize]
    BY <1>2, ConstantsOK DEF TypeOK
  <2> QED
    BY <1>2, <2>1, <2>2, <2>3, <2>4, <2>5 DEF TypeOK
<1>6. OthersUntouched(t) /\ pc'[t] = "fill"
  BY <1>2 DEF OthersUntouched, TypeOK
<1>7. Mapping(s) /\ ~Mapping(s)' /\ \A x : x # s => (Mapping(x)' <=> Mapping(x))
  <2>1. Mapping(s)
    BY <1>0, <1>2 DEF Mapping
  <2>2. \A u \in Threads \ {t} : pc[u] = "map" => req[u].sh # s
    BY <1>0, <1>2 DEF LatchInv, InLatch
  <2>3. ~Mapping(s)'
    BY <1>6, <2>2 DEF Mapping, OthersUntouched
  <2>4. \A x : x # s => (Mapping(x)' <=> Mapping(x))
    BY <1>0, <1>2, <1>6 DEF Mapping, OthersUntouched
  <2> QED
    BY <2>1, <2>3, <2>4
<1>8. /\ \A x \in Shards : \A q : x # s => (Mapped(x, q)' <=> Mapped(x, q))
      /\ \A q : Mapped(s, q)' <=> Mapped(s, q) \/ q = p
      /\ \A q : Mapped(s, q) => q # p
  BY <1>1, <1>2, <1>7 DEF Mapped
<1>9. RequestInv'
  BY <1>2, <1>6 DEF RequestInv, OthersUntouched
<1>10. LatchInv'
  BY <1>2, <1>6 DEF LatchInv, OthersUntouched, InLatch
<1>11. PageInv'
  <2>1. \A x \in Shards : x # s => start_addr'[x] = start_addr[x]
    BY <1>2 DEF TypeOK
  <2>2. start_addr'[s] = File(s, ppage_id'[s])
    BY <1>1, <1>2 DEF TypeOK, f
  <2>3. ASSUME NEW x \in Shards, NEW q \in 0 .. MaxPages - 1, File(x, q) \in files'
        PROVE  Mapped(x, q)'
    <3>1. CASE File(x, q) = f
      BY <1>8, <3>1, FileInjective DEF f
    <3>2. CASE File(x, q) \in files
      BY <1>8, <3>2 DEF PageInv
    <3> QED
      BY <1>2, <2>3, <3>1, <3>2
  <2>4. ASSUME NEW x \in Shards, NEW q \in 0 .. MaxPages - 1, Mapped(x, q)'
        PROVE  table'[TableIndex(x, q)] = File(x, q)
    <3>1. TableIndex(x, q) \in TableIndices /\ TableIndex(s, p) \in TableIndices
      BY <1>3, TableIndexInRange
    <3>2. CASE x = s /\ q = p
      BY <1>2, <3>1, <3>2 DEF TypeOK, f
    <3>3. CASE ~(x = s /\ q = p)
      <4>1. TableIndex(x, q) # TableIndex(s, p)
        BY <1>3, <3>3, TableIndexInjective
      <4>2. Mapped(x, q)
        BY <1>8, <2>4, <3>3
      <4> QED
        BY <1>2, <3>1, <4>1, <4>2 DEF TypeOK, PageInv
    <3> QED
      BY <3>2, <3>3
  <2> QED
    BY <1>1, <1>2, <1>7, <2>1, <2>2, <2>3, <2>4 DEF PageInv
<1>12. ASSUME NEW l, l.sh \in Shards
       PROVE  /\ InPage(l) => InPage(l)'
              /\ InPage(l) /\ BelowTail(l) => BelowTail(l)'
  <2>1. InPage(l) => InPage(l)'
    BY <1>8, <1>12 DEF InPage
  <2>2. CASE l.sh = s
    BY <1>1, <1>2, <1>8, <2>2 DEF InPage, BelowTail
  <2>3. CASE l.sh # s
    <3>1. sz_allocated'[l.sh] = sz_allocated[l.sh] /\ ppage_id' = ppage_id
      BY <1>2, <1>12, <2>3 DEF TypeOK
    <3> QED
      BY <1>7, <2>1, <2>3, <3>1 DEF BelowTail
  <2> QED
    BY <2>1, <2>2, <2>3
<1>13. \A u \in Threads : LogOf(u)' = LogOf(u) /\ LogOf(u).sh = req[u].sh
                            /\ LogOf(u).sh \in Shards
  BY <1>2 DEF LogOf, TypeOK
<1>14. AllocInv'
  <2>1. \A u \in Threads \ {t} : pc[u] \in InLatch => req[u].sh # s
    BY <1>0, <1>2 DEF LatchInv, InLatch
  <2>2. \A u \in Threads : pc'[u] \in Owning => pc'[u] = pc[u] /\ u # t
    BY <1>6 DEF OthersUntouched, Owning
  <2>3. \A u \in Threads : pc'[u] = "fill" => req[u].size <= PageSize - sz_allocated'[req[u].sh]
    <3>1. req[t].size \in Sizes /\ sz_allocated'[s] = 0
      BY <1>2 DEF RequestInv, TypeOK
    <3>2. req[t].size <= PageSize - 0
      <4>1. \A n \in Sizes : n \in 1 .. PageSize
        BY ConstantsOK
      <4>2. \A n \in 1 .. PageSize : n <= PageSize - 0
        BY ConstantsOK
      <4> QED
        BY <3>1, <4>1, <4>2
    <3>3. \A u \in Threads \ {t} : pc[u] = "fill" => sz_allocated'[req[u].sh] = sz_allocated[req[u].sh]
      BY <1>2, <2>1 DEF InLatch, TypeOK
    <3> QED
      BY <1>0, <1>6, <3>1, <3>2, <3>3 DEF AllocInv, OthersUntouched
  <2>4. \A u \in Threads : pc'[u] = "advance" => sz_allocated'[req[u].sh] = sz_allocated[req[u].sh]
    BY <1>2, <2>1, <2>2 DEF InLatch, Owning, TypeOK
  <2>5. \A u \in Threads : pc'[u] \in Owning => InPage(LogOf(u))'
    BY <1>12, <1>13, <2>2 DEF AllocInv
  <2>6. ASSUME NEW u \in Threads, pc'[u] \in {"unlock", "store"}
        PROVE  BelowTail(LogOf(u))'
    <3>1. pc[u] \in {"unlock", "store"} /\ pc[u] \in Owning
      BY <2>2, <2>6 DEF Owning
    <3>2. InPage(LogOf(u)) /\ BelowTail(LogOf(u))
      BY <3>1 DEF AllocInv
    <3>3. LogOf(u)' = LogOf(u) /\ LogOf(u).sh \in Shards
      BY <1>13
    <3> QED
      BY <1>12, <3>2, <3>3
  <2> QED
    BY <1>2, <2>2, <2>3, <2>4, <2>5, <2>6 DEF AllocInv, Owning
<1>15. LogInv'
  <2> SUFFICES ASSUME NEW l \in acked
               PROVE  /\ InPage(l)' /\ BelowTail(l)'
                      /\ \A b \in l.off .. l.off + l.size - 1 :
                           pmem'[File(l.sh, l.page)][b] = l.ver
    BY <1>2 DEF LogInv
  <2>1. l.sh \in Shards /\ l.page \in Nat
    BY DEF TypeOK
  <2>2. InPage(l) /\ BelowTail(l)
    BY DEF LogInv
  <2>3. InPage(l)' /\ BelowTail(l)'
    BY <1>12, <2>1, <2>2
  <2>4. File(l.sh, l.page) # f
    BY <1>8, <2>1, <2>2, FileInjective DEF InPage, f
  <2>5. pmem'[File(l.sh, l.page)] = pmem[File(l.sh, l.page)]
    <3>1. File(l.sh, l.page) \in Files
      BY <2>1, <2>2, FileInFiles DEF InPage
    <3> QED
      BY <1>2, <2>4, <3>1 DEF TypeOK
  <2> QED
    BY <2>3, <2>5 DEF LogInv
<1>16. RegionsApart'
  BY <1>2, <1>6, <1>13 DEF RegionsApart, OthersUntouched, Owning, Apart
<1> QED
  BY <1>5, <1>9, <1>10, <1>11, <1>14, <1>15, <1>16

\* exit(1) changes nothing but the process.
LEMMA ExitOnMapStep ==
  ASSUME IndInv, NEW t \in Threads, ExitOnMap(t)
  PROVE  IndInv'
<1>1. exited' = TRUE /\ UNCHANGED <<pc, req, info, ret, header, persistent, version, acked>>
  BY DEF ExitOnMap
<1>2. TypeOK'
  BY <1>1 DEF IndInv, TypeOK, header, persistent
<1> QED
  BY <1>1, <1>2 DEF IndInv, RequestInv, LatchInv, PageInv, AllocInv, LogInv,
     RegionsApart, InPage, BelowTail, Mapped, Mapping, LogOf, header, persistent

\* The relative address is taken at the tail of the newest page, behind every
\* region handed out.
LEMMA FillStep ==
  ASSUME IndInv, NEW t \in Threads, Fill(t)
  PROVE  IndInv'
<1> USE DEF IndInv
<1>0. PICK s \in Shards : s = req[t].sh
  BY DEF TypeOK
<1>1. /\ pc[t] = "fill" /\ pc' = [pc EXCEPT ![t] = "advance"]
      /\ info' = [info EXCEPT ![t] = [numa |-> s[1], page |-> ppage_id[s] % PageIdRange,
                                      off |-> sz_allocated[s] % OffsetRange]]
      /\ ret' = [ret EXCEPT ![t] = [file |-> start_addr[s], off |-> sz_allocated[s]]]
      /\ UNCHANGED <<req, header, persistent, version, exited, acked>>
  BY <1>0 DEF Fill
<1>2. ~Mapping(s)
  BY <1>0, <1>1, NoOtherMapping DEF InLatch
<1>3. /\ ppage_id[s] \in Nat /\ sz_allocated[s] \in Nat /\ MaxPages \in Nat
      /\ ppage_id[s] < MaxPages /\ start_addr[s] = File(s, ppage_id[s])
  BY <1>2, ConstantsOK DEF TypeOK, PageInv
<1>4. req[t].size \in 1 .. PageSize /\ req[t].size <= PageSize - sz_allocated[s]
  <2>1. req[t].size \in Sizes
    BY <1>1 DEF RequestInv
  <2> QED
    BY <1>0, <1>1, <2>1, ConstantsOK DEF AllocInv
<1>5. sz_allocated[s] + req[t].size <= PageSize /\ sz_allocated[s] < PageSize
  BY <1>3, <1>4, ConstantsOK
<1>6. ppage_id[s] % PageIdRange = ppage_id[s] /\ sz_allocated[s] % OffsetRange = sz_allocated[s]
  <2>1. ppage_id[s] < PageIdRange /\ sz_allocated[s] < OffsetRange
    BY <1>3, <1>5, ConstantsOK
  <2>2. PageIdRange \in Nat /\ OffsetRange \in Nat
    BY ConstantsOK
  <2> QED
    BY <1>3, <2>1, <2>2, NarrowSmall
<1>7. /\ info'[t] = [numa |-> s[1], page |-> ppage_id[s], off |-> sz_allocated[s]]
      /\ ret'[t] = [file |-> File(s, ppage_id[s]), off |-> sz_allocated[s]]
      /\ pc'[t] = "advance"
      /\ OthersUntouched(t)
  BY <1>1, <1>3, <1>6 DEF TypeOK, OthersUntouched
<1>8. TypeOK'
  <2>1. pc' \in [Threads -> {"idle", "wlock", "store"} \union InLatch]
    BY <1>1 DEF TypeOK, InLatch
  <2>2. info' \in [Threads -> [numa: 0 .. NumaNodes - 1, page: Nat, off: Nat]]
    <3>1. s[1] \in 0 .. NumaNodes - 1
      BY DEF Shards
    <3> QED
      BY <1>1, <1>3, <1>6, <3>1 DEF TypeOK
  <2>3. ret' \in [Threads -> [file: Files \union {NULL}, off: Nat]]
    BY <1>1, <1>3 DEF TypeOK
  <2> QED
    BY <1>1, <2>1, <2>2, <2>3 DEF TypeOK, header, persistent
<1>9. \A x : Mapping(x)' <=> Mapping(x)
  BY <1>1, <1>7, MappingUnchanged
<1>10. \A l : (InPage(l)' <=> InPage(l)) /\ (BelowTail(l)' <=> BelowTail(l))
  BY <1>1, <1>9 DEF InPage, BelowTail, Mapped, header
<1>11. /\ \A u \in Threads \ {t} : LogOf(u)' = LogOf(u)
       /\ LogOf(t)' = [sh |-> s, numa |-> s[1], page |-> ppage_id[s],
                       off |-> sz_allocated[s], size |-> req[t].size, ver |-> req[t].ver]
  BY <1>0, <1>1, <1>7 DEF LogOf, OthersUntouched
<1>12. RequestInv' /\ LatchInv'
  BY <1>1, <1>7 DEF RequestInv, LatchInv, OthersUntouched, InLatch, header
<1>13. PageInv'
  BY <1>1, <1>9 DEF PageInv, Mapped, header, persistent
<1>14. AllocInv'
  <2>1. InPage(LogOf(t))'
    <3>1. Mapped(s, ppage_id[s])
      BY <1>2 DEF Mapped
    <3>2. InPage([sh |-> s, numa |-> s[1], page |-> ppage_id[s],
                  off |-> sz_allocated[s], size |-> req[t].size, ver |-> req[t].ver])
      BY <1>3, <1>5, <3>1 DEF InPage
    <3> QED
      BY <1>1, <1>9, <1>11, <3>2 DEF InPage, Mapped, header
  <2>2. \A u \in Threads \ {t} : pc'[u] \in Owning =>
          /\ InPage(LogOf(u))'
          /\ pc'[u] # "advance" => BelowTail(LogOf(u))'
    <3> SUFFICES ASSUME NEW u \in Threads \ {t}, pc'[u] \in Owning
                 PROVE  /\ InPage(LogOf(u))'
                        /\ pc'[u] # "advance" => BelowTail(LogOf(u))'
      OBVIOUS
    <3>1. pc'[u] = pc[u] /\ LogOf(u)' = LogOf(u)
      BY <1>7, <1>11 DEF OthersUntouched
    <3>2. InPage(LogOf(u)) /\ (pc'[u] # "advance" => BelowTail(LogOf(u)))
      BY <3>1 DEF AllocInv, Owning
    <3>3. /\ InPage(LogOf(u))' <=> InPage(LogOf(u))
          /\ BelowTail(LogOf(u))' <=> BelowTail(LogOf(u))
      BY <1>1, <1>9, <3>1 DEF InPage, BelowTail, Mapped, header
    <3> QED
      BY <3>2, <3>3
  <2> QED
    BY <1>0, <1>1, <1>7, <2>1, <2>2 DEF AllocInv, OthersUntouched, Owning, header
<1>15. LogInv'
  BY <1>1, <1>10 DEF LogInv, persistent
<1>16. ASSUME NEW l, l.sh \in Shards, l.page \in Nat, l.off \in Nat, l.size \in Nat,
              BelowTail(l)
       PROVE  Apart(LogOf(t)', l) /\ Apart(l, LogOf(t)')
  BY <1>2, <1>3, <1>11, <1>16 DEF Apart, BelowTail
<1>17. RegionsApart'
  <2>1. \A l \in acked : Apart(LogOf(t)', l)
    <3> SUFFICES ASSUME NEW l \in acked PROVE Apart(LogOf(t)', l)
      OBVIOUS
    <3>1. l.sh \in Shards /\ l.page \in Nat /\ l.off \in Nat /\ l.size \in Nat
      BY AckedTypes
    <3> QED
      BY <1>16, <3>1 DEF LogInv
  <2>2. \A u \in Threads \ {t} : pc[u] \in Owning =>
          Apart(LogOf(t)', LogOf(u)) /\ Apart(LogOf(u), LogOf(t)')
    <3> SUFFICES ASSUME NEW u \in Threads \ {t}, pc[u] \in Owning
                 PROVE  Apart(LogOf(t)', LogOf(u)) /\ Apart(LogOf(u), LogOf(t)')
      OBVIOUS
    <3>1. /\ LogOf(u).sh = req[u].sh /\ LogOf(u).sh \in Shards /\ LogOf(u).page \in Nat
          /\ LogOf(u).off \in Nat /\ LogOf(u).size \in Nat
      BY DEF TypeOK, LogOf
    <3>2. CASE pc[u] = "advance"
      <4>1. req[u].sh # s
        BY <1>0, <1>1, <3>2 DEF LatchInv, InLatch
      <4> QED
        BY <1>11, <3>1, <4>1 DEF Apart
    <3>3. CASE pc[u] # "advance"
      BY <1>16, <3>1, <3>3 DEF AllocInv, Owning
    <3> QED
      BY <3>2, <3>3
  <2>3. \A u \in Threads \ {t} : pc'[u] = pc[u]
    BY <1>7 DEF OthersUntouched
  <2> QED
    BY <1>1, <1>11, <2>1, <2>2, <2>3 DEF RegionsApart
<1> QED
  BY <1>8, <1>12, <1>13, <1>14, <1>15, <1>17

\* The bump moves the tail behind the region that was handed out.
LEMMA AdvanceStep ==
  ASSUME IndInv, NEW t \in Threads, Advance(t)
  PROVE  IndInv'
<1> USE DEF IndInv
<1>0. PICK s \in Shards : s = req[t].sh
  BY DEF TypeOK
<1>1. /\ pc[t] = "advance" /\ pc' = [pc EXCEPT ![t] = "unlock"]
      /\ sz_allocated' = [sz_allocated EXCEPT ![s] = @ + req[t].size]
      /\ UNCHANGED <<req, info, ret, rwlock, ppage_id, start_addr, persistent,
                     version, exited, acked>>
  BY <1>0 DEF Advance
<1>2. OthersUntouched(t) /\ pc'[t] = "unlock"
  BY <1>1 DEF TypeOK, OthersUntouched
<1>3. /\ InPage(LogOf(t)) /\ info[t].off = sz_allocated[s]
      /\ LogOf(t).off = info[t].off /\ LogOf(t).size = req[t].size
  BY <1>0, <1>1 DEF AllocInv, Owning, LogOf
<1>4. /\ sz_allocated[s] \in Nat /\ req[t].size \in Nat /\ PageSize \in Nat
      /\ sz_allocated[s] + req[t].size <= PageSize
  BY <1>0, <1>3, ConstantsOK DEF TypeOK, InPage
<1>5. /\ sz_allocated'[s] = sz_allocated[s] + req[t].size
      /\ \A x \in Shards : x # s => sz_allocated'[x] = sz_allocated[x]
      /\ \A x \in Shards : sz_allocated[x] \in Nat
  BY <1>1 DEF TypeOK
<1>6. TypeOK'
  <2>1. pc' \in [Threads -> {"idle", "wlock", "store"} \union InLatch]
    BY <1>1 DEF TypeOK, InLatch
  <2>2. sz_allocated' \in [Shards -> 0 .. PageSize]
    <3>1. sz_allocated[s] + req[t].size \in 0 .. PageSize
      BY <1>4
    <3> QED
      BY <1>1, <3>1 DEF TypeOK
  <2> QED
    BY <1>1, <2>1, <2>2 DEF TypeOK, persistent
<1>7. \A x : Mapping(x)' <=> Mapping(x)
  BY <1>1, <1>2, MappingUnchanged
<1>8. \A u \in Threads : LogOf(u)' = LogOf(u)
  BY <1>1 DEF LogOf
<1>9. \A l : InPage(l)' <=> InPage(l)
  BY <1>1, <1>7 DEF InPage, Mapped
<1>10. ASSUME NEW l, l.sh \in Shards, l.off \in Nat, l.size \in Nat, BelowTail(l)
       PROVE  BelowTail(l)'
  <2>1. CASE l.sh = s
    BY <1>1, <1>4, <1>5, <1>7, <1>10, <2>1 DEF BelowTail
  <2>2. CASE l.sh # s
    BY <1>1, <1>5, <1>7, <1>10, <2>2 DEF BelowTail
  <2> QED
    BY <2>1, <2>2
<1>11. RequestInv' /\ LatchInv'
  BY <1>1, <1>2 DEF RequestInv, LatchInv, OthersUntouched, InLatch
<1>12. PageInv'
  BY <1>1, <1>7 DEF PageInv, Mapped, persistent
<1>13. AllocInv'
  <2>1. BelowTail(LogOf(t))'
    BY <1>0, <1>1, <1>3, <1>5, <1>8, LogOfTypes DEF BelowTail
  <2>2. ASSUME NEW u \in Threads \ {t}
        PROVE  /\ pc'[u] = pc[u]
               /\ pc[u] \in InLatch => sz_allocated'[req[u].sh] = sz_allocated[req[u].sh]
               /\ pc[u] \in {"unlock", "store"} => BelowTail(LogOf(u))'
    <3>1. pc'[u] = pc[u]
      BY <1>2 DEF OthersUntouched
    <3>2. pc[u] \in InLatch => sz_allocated'[req[u].sh] = sz_allocated[req[u].sh]
      BY <1>0, <1>1, <1>5, LogOfTypes DEF LatchInv, InLatch
    <3>3. ASSUME pc[u] \in {"unlock", "store"}
          PROVE  BelowTail(LogOf(u))'
      <4>1. BelowTail(LogOf(u))
        BY <3>3 DEF AllocInv
      <4>2. PICK l : l = LogOf(u)
        OBVIOUS
      <4>3. BelowTail(l)'
        BY <1>10, <4>1, <4>2, LogOfTypes
      <4> QED
        BY <1>8, <4>2, <4>3 DEF BelowTail
    <3> QED
      BY <3>1, <3>2, <3>3
  <2>3. ASSUME NEW u \in Threads, pc'[u] \in Owning
        PROVE  InPage(LogOf(u))'
    <3>1. pc[u] \in Owning
      BY <1>1, <1>2, <2>3 DEF OthersUntouched, Owning
    <3>2. InPage(LogOf(u))
      BY <3>1 DEF AllocInv
    <3> QED
      BY <1>1, <1>7, <1>8, <3>2 DEF InPage, Mapped
  <2> QED
    BY <1>1, <1>2, <2>1, <2>2, <2>3 DEF AllocInv, InLatch, Owning
<1>14. LogInv'
  <2> SUFFICES ASSUME NEW l \in acked
               PROVE  /\ InPage(l)' /\ BelowTail(l)'
                      /\ \A b \in l.off .. l.off + l.size - 1 :
                           pmem'[File(l.sh, l.page)][b] = l.ver
    BY <1>1 DEF LogInv
  <2> QED
    BY <1>1, <1>9, <1>10, AckedTypes DEF LogInv, persistent
<1>15. RegionsApart'
  BY <1>1, <1>2, <1>8 DEF RegionsApart, OthersUntouched, Owning
<1> QED
  BY <1>6, <1>11, <1>12, <1>13, <1>14, <1>15

\* The latch is released with the region below the tail.
LEMMA WUnlockStep ==
  ASSUME IndInv, NEW t \in Threads, WUnlock(t)
  PROVE  IndInv'
<1> USE DEF IndInv
<1>0. PICK s \in Shards : s = req[t].sh
  BY DEF TypeOK
<1>1. /\ pc[t] = "unlock" /\ pc' = [pc EXCEPT ![t] = "store"]
      /\ rwlock' = [rwlock EXCEPT ![s] = 1 - @]
      /\ UNCHANGED <<req, info, ret, ppage_id, sz_allocated, start_addr, persistent,
                     version, exited, acked>>
  BY <1>0 DEF WUnlock
<1>2. OthersUntouched(t) /\ pc'[t] = "store"
  BY <1>1 DEF TypeOK, OthersUntouched
<1>3. TypeOK'
  <2>1. pc' \in [Threads -> {"idle", "wlock", "store"} \union InLatch]
    BY <1>1 DEF TypeOK
  <2>2. rwlock' \in [Shards -> {0, 1}]
    <3>1. rwlock[s] = 0 \/ rwlock[s] = 1
      BY DEF TypeOK
    <3>2. 1 - rwlock[s] \in {0, 1}
      BY <3>1
    <3> QED
      BY <1>1, <3>2 DEF TypeOK
  <2> QED
    BY <1>1, <2>1, <2>2 DEF TypeOK, persistent
<1>4. \A x : Mapping(x)' <=> Mapping(x)
  BY <1>1, <1>2, MappingUnchanged
<1>5. RequestInv'
  BY <1>1, <1>2 DEF RequestInv, OthersUntouched
<1>6. LatchInv'
  <2>1. \A u \in Threads \ {t} : pc[u] \in InLatch => rwlock'[req[u].sh] = rwlock[req[u].sh]
    <3>1. \A u \in Threads : req[u].sh \in Shards
      BY DEF TypeOK
    <3>2. \A u \in Threads \ {t} : pc[u] \in InLatch => req[u].sh # s
      BY <1>0, <1>1 DEF LatchInv, InLatch
    <3> QED
      BY <1>1, <3>1, <3>2 DEF TypeOK
  <2>2. pc'[t] \notin InLatch
    BY <1>2 DEF InLatch
  <2> QED
    BY <1>1, <1>2, <2>1, <2>2 DEF LatchInv, OthersUntouched
<1>7. PageInv'
  BY <1>1, <1>4 DEF PageInv, Mapped, persistent
<1>8. AllocInv'
  <2>1. \A u \in Threads : LogOf(u)' = LogOf(u)
    BY <1>1 DEF LogOf
  <2>2. \A u \in Threads :
          /\ pc'[u] \in Owning <=> pc[u] \in Owning
          /\ pc'[u] \in {"unlock", "store"} <=> pc[u] \in {"unlock", "store"}
          /\ pc'[u] \in {"fill", "advance"} => pc'[u] = pc[u]
    BY <1>1, <1>2 DEF OthersUntouched, Owning
  <2> QED
    BY <1>1, <1>4, <2>1, <2>2 DEF AllocInv, InPage, BelowTail, Mapped
<1>9. LogInv'
  BY <1>1, <1>4 DEF LogInv, InPage, BelowTail, Mapped, persistent
<1>10. RegionsApart'
  BY <1>1, <1>2 DEF RegionsApart, OthersUntouched, Owning, LogOf
<1> QED
  BY <1>3, <1>5, <1>6, <1>7, <1>8, <1>9, <1>10

\* What a returning thread leaves behind.
LEMMA ReturnEffect ==
  ASSUME IndInv, NEW t \in Threads, pc[t] = "store", Return(t),
         header' = header, table' = table, files' = files
  PROVE  /\ pc'[t] = "idle" /\ OthersUntouched(t)
         /\ \A x : Mapping(x)' <=> Mapping(x)
         /\ \A u \in Threads \ {t} : LogOf(u)' = LogOf(u)
         /\ \A l : (InPage(l)' <=> InPage(l)) /\ (BelowTail(l)' <=> BelowTail(l))
         /\ RequestInv' /\ LatchInv' /\ PageInv' /\ AllocInv'
         /\ pc' \in [Threads -> {"idle", "wlock", "store"} \union InLatch]
         /\ req' \in [Threads -> [sh: Shards, size: Nat, ver: Nat]]
         /\ info' \in [Threads -> [numa: 0 .. NumaNodes - 1, page: Nat, off: Nat]]
         /\ ret' \in [Threads -> [file: Files \union {NULL}, off: Nat]]
<1> USE DEF IndInv
<1>1. pc'[t] = "idle" /\ OthersUntouched(t) /\ req'[t] = NoReq(t)
  BY DEF Return, OthersUntouched, TypeOK
<1>2. \A x : Mapping(x)' <=> Mapping(x)
  BY <1>1, MappingUnchanged
<1>3. \A u \in Threads \ {t} : LogOf(u)' = LogOf(u)
  BY <1>1 DEF LogOf, OthersUntouched
<1>4. \A l : (InPage(l)' <=> InPage(l)) /\ (BelowTail(l)' <=> BelowTail(l))
  BY <1>2 DEF InPage, BelowTail, Mapped, header
<1>5. RequestInv'
  BY <1>1 DEF RequestInv, OthersUntouched, NoReq
<1>6. LatchInv'
  BY <1>1 DEF LatchInv, OthersUntouched, InLatch, header
<1>7. PageInv'
  BY <1>2 DEF PageInv, Mapped, header
<1>8. AllocInv'
  <2>1. ASSUME NEW u \in Threads \ {t}, pc[u] \in Owning
        PROVE  InPage(LogOf(u))' /\ (pc[u] # "advance" => BelowTail(LogOf(u))')
    <3>1. InPage(LogOf(u)) /\ (pc[u] # "advance" => BelowTail(LogOf(u)))
      BY <2>1 DEF AllocInv, Owning
    <3> QED
      BY <1>2, <1>3, <3>1 DEF InPage, BelowTail, Mapped, header
  <2> QED
    BY <1>1, <2>1 DEF AllocInv, OthersUntouched, Owning, header
<1>9. /\ pc' \in [Threads -> {"idle", "wlock", "store"} \union InLatch]
      /\ req' \in [Threads -> [sh: Shards, size: Nat, ver: Nat]]
      /\ info' \in [Threads -> [numa: 0 .. NumaNodes - 1, page: Nat, off: Nat]]
      /\ ret' \in [Threads -> [file: Files \union {NULL}, off: Nat]]
  <2>1. NoReq(t) \in [sh: Shards, size: Nat, ver: Nat]
    BY ConstantsOK DEF NoReq, Shards
  <2>2. NoInfo \in [numa: 0 .. NumaNodes - 1, page: Nat, off: Nat]
    BY ConstantsOK DEF NoInfo
  <2>3. NoRet \in [file: Files \union {NULL}, off: Nat]
    BY DEF NoRet
  <2> QED
    BY <2>1, <2>2, <2>3 DEF Return, TypeOK
<1> QED
  BY <1>1, <1>2, <1>3, <1>4, <1>5, <1>6, <1>7, <1>8, <1>9

\* update of an absent key gives its region up.
LEMMA AbandonStep ==
  ASSUME IndInv, NEW t \in Threads, Abandon(t)
  PROVE  IndInv'
<1> USE DEF IndInv
<1>1. /\ pc[t] = "store" /\ Return(t)
      /\ UNCHANGED <<header, persistent, version, exited, acked>>
      /\ header' = header /\ table' = table /\ files' = files /\ pmem' = pmem
  BY DEF Abandon, persistent
<1>2. TypeOK'
  BY <1>1, ReturnEffect DEF TypeOK, header, persistent
<1>3. LogInv'
  BY <1>1, ReturnEffect DEF LogInv
<1>4. RegionsApart'
  BY <1>1, ReturnEffect DEF RegionsApart, OthersUntouched, Owning
<1> QED
  BY <1>1, <1>2, <1>3, <1>4, ReturnEffect

\* A log is written into the region its thread owns and nowhere else.
LEMMA StorePersistStep ==
  ASSUME IndInv, NEW t \in Threads, StorePersist(t)
  PROVE  IndInv'
<1> USE DEF IndInv
<1>1. PICK me : me = LogOf(t)
  OBVIOUS
<1>2. PICK f \in Files : f = File(me.sh, me.page)
  <2>1. pc[t] \in Owning
    BY DEF StorePersist, Owning
  <2>2. InPage(LogOf(t))
    BY <2>1 DEF AllocInv
  <2> QED
    BY <1>1, <2>2, LogOfTypes, FileInFiles DEF InPage
<1>3. /\ InPage(me) /\ BelowTail(me)
      /\ me.sh \in Shards /\ me.page \in Nat /\ me.off \in Nat /\ me.size \in Sizes
      /\ me.ver \in Nat /\ me.size \in Nat
  BY <1>1, LogOfTypes DEF StorePersist, AllocInv, Owning, RequestInv
<1>4. /\ pc[t] = "store" /\ Return(t) /\ acked' = acked \union {me}
      /\ pmem' = [pmem EXCEPT ![f] =
                    [b \in 0 .. PageSize - 1 |->
                       IF me.off <= b /\ b < me.off + me.size THEN me.ver ELSE pmem[f][b]]]
      /\ header' = header /\ table' = table /\ files' = files
      /\ version' = version /\ exited' = exited
  <2>1. ret[t].file = f /\ ret[t].off = me.off
    <3>1. pc[t] \in Owning
      BY DEF StorePersist, Owning
    <3>2. ret[t] = [file |-> File(req[t].sh, info[t].page), off |-> info[t].off]
      BY <3>1 DEF AllocInv
    <3> QED
      BY <1>1, <1>2, <3>2 DEF LogOf
  <2>2. me.size = req[t].size /\ me.ver = req[t].ver
    BY <1>1 DEF LogOf
  <2> QED
    BY <1>1, <2>1, <2>2 DEF StorePersist
<1>5. /\ pc'[t] = "idle" /\ OthersUntouched(t)
      /\ \A u \in Threads \ {t} : LogOf(u)' = LogOf(u)
      /\ \A l : (InPage(l)' <=> InPage(l)) /\ (BelowTail(l)' <=> BelowTail(l))
  BY <1>4, ReturnEffect
<1>6. TypeOK'
  <2>1. pmem' \in [Files -> [0 .. PageSize - 1 -> Nat]]
    <3>1. [b \in 0 .. PageSize - 1 |->
             IF me.off <= b /\ b < me.off + me.size THEN me.ver ELSE pmem[f][b]]
            \in [0 .. PageSize - 1 -> Nat]
      BY <1>3 DEF TypeOK
    <3> QED
      BY <1>4, <3>1 DEF TypeOK
  <2>2. me \in [sh: Shards, numa: 0 .. NumaNodes - 1, page: Nat, off: Nat,
                size: Sizes, ver: Nat]
    <3>1. me = [sh |-> me.sh, numa |-> me.numa, page |-> me.page, off |-> me.off,
                size |-> me.size, ver |-> me.ver]
      BY <1>1 DEF LogOf
    <3>2. me.numa \in 0 .. NumaNodes - 1
      BY <1>1, LogOfTypes
    <3> QED
      BY <1>3, <3>1, <3>2
  <2>3. acked' \subseteq [sh: Shards, numa: 0 .. NumaNodes - 1, page: Nat, off: Nat,
                          size: Sizes, ver: Nat]
    BY <1>4, <2>2 DEF TypeOK
  <2> QED
    BY <1>4, <2>1, <2>3, ReturnEffect DEF TypeOK, header
<1>7. LogInv'
  <2>1. ASSUME NEW b \in me.off .. me.off + me.size - 1
        PROVE  pmem'[f][b] = me.ver
    <3>1. b \in 0 .. PageSize - 1 /\ me.off <= b /\ b < me.off + me.size
      BY <1>3, ConstantsOK DEF InPage
    <3> QED
      BY <1>4, <3>1 DEF TypeOK
  <2>2. ASSUME NEW l \in acked, NEW b \in l.off .. l.off + l.size - 1
        PROVE  pmem'[File(l.sh, l.page)][b] = l.ver
    <3>1. /\ l.sh \in Shards /\ l.page \in Nat /\ l.off \in Nat /\ l.size \in Nat
      BY AckedTypes
    <3>2. pmem[File(l.sh, l.page)][b] = l.ver /\ l.page < MaxPages
          /\ l.off + l.size <= PageSize
      BY DEF LogInv, InPage
    <3>3. File(l.sh, l.page) \in Files
      BY <3>1, <3>2, FileInFiles
    <3>4. CASE File(l.sh, l.page) # f
      BY <1>4, <3>2, <3>3, <3>4 DEF TypeOK
    <3>5. CASE File(l.sh, l.page) = f
      <4>1. l.sh = me.sh /\ l.page = me.page
        BY <1>2, <1>3, <3>1, <3>5, FileInjective
      <4>2. Apart(me, l)
        BY <1>1, <1>4 DEF RegionsApart, Owning
      <4>3. ~(me.off <= b /\ b < me.off + me.size)
        BY <1>3, <3>1, <4>1, <4>2 DEF Apart
      <4>4. b \in 0 .. PageSize - 1
        BY <3>1, <3>2, ConstantsOK
      <4> QED
        BY <1>4, <3>2, <3>5, <4>3, <4>4 DEF TypeOK
    <3> QED
      BY <3>4, <3>5
  <2>3. \A l \in acked' : InPage(l)' /\ BelowTail(l)'
    BY <1>3, <1>4, <1>5 DEF LogInv
  <2> QED
    BY <1>2, <1>4, <2>1, <2>2, <2>3 DEF LogInv
<1>8. RegionsApart'
  <2> SUFFICES ASSUME NEW u \in Threads, pc'[u] \in Owning
               PROVE  /\ \A w \in Threads \ {u} : pc'[w] \in Owning =>
                           Apart(LogOf(u)', LogOf(w)')
                      /\ \A l \in acked' : Apart(LogOf(u)', l)
    BY DEF RegionsApart, Apart
  <2>1. u # t /\ pc[u] \in Owning
    BY <1>5 DEF OthersUntouched, Owning
  <2>2. Apart(LogOf(u), me)
    BY <1>1, <1>4, <2>1 DEF RegionsApart, Owning
  <2>3. \A w \in Threads \ {u} : pc'[w] \in Owning => w # t /\ pc[w] \in Owning
    BY <1>5 DEF OthersUntouched, Owning
  <2> QED
    BY <1>4, <1>5, <2>1, <2>2, <2>3 DEF RegionsApart
<1> QED
  BY <1>4, <1>6, <1>7, <1>8, ReturnEffect

\* Every step preserves the inductive invariant.
LEMMA NextIndInv ==
  ASSUME PagesFitTable, IndInv, [Next]_vars
  PROVE  IndInv'
<1>1. CASE UNCHANGED vars
  BY <1>1 DEF vars, IndInv, TypeOK, RequestInv, LatchInv, PageInv, AllocInv, LogInv,
     RegionsApart, InPage, BelowTail, Mapped, Mapping, LogOf
<1>2. ASSUME NEW t \in Threads, Step(t)
      PROVE  IndInv'
  <2>1. CASE Begin(t)        BY <2>1, BeginStep
  <2>2. CASE WLock(t)        BY <2>2, WLockStep
  <2>3. CASE CheckSpace(t)   BY <2>3, CheckSpaceStep
  <2>4. CASE BumpPageId(t)   BY <2>4, BumpPageIdStep
  <2>5. CASE MapPage(t)      BY <2>5, MapPageStep
  <2>6. CASE ExitOnMap(t)    BY <2>6, ExitOnMapStep
  <2>7. CASE Fill(t)         BY <2>7, FillStep
  <2>8. CASE Advance(t)      BY <2>8, AdvanceStep
  <2>9. CASE WUnlock(t)      BY <2>9, WUnlockStep
  <2>10. CASE StorePersist(t) BY <2>10, StorePersistStep
  <2>11. CASE Abandon(t)     BY <2>11, AbandonStep
  <2> QED
    BY <1>2, <2>1, <2>2, <2>3, <2>4, <2>5, <2>6, <2>7, <2>8, <2>9, <2>10, <2>11 DEF Step
<1> QED
  BY <1>1, <1>2 DEF Next, Quiet

-----------------------------------------------------------------------------
\* What the invariant gives.

\* The returned logs read back, by way of the table.
LEMMA IndInvReadBack ==
  ASSUME PagesFitTable, IndInv
  PROVE  ReadBack
<1> SUFFICES ASSUME NEW l \in acked
             PROVE  /\ get_addr(l).file # NULL
                    /\ \A i \in 0 .. l.size - 1 :
                         pmem[get_addr(l).file][get_addr(l).off + i] = l.ver
  BY DEF ReadBack
<1>1. /\ l.sh \in Shards /\ l.page \in Nat /\ l.off \in Nat /\ l.size \in Nat
  BY AckedTypes DEF IndInv
<1>2. /\ l.numa = l.sh[1] /\ l.page < MaxPages /\ Mapped(l.sh, l.page)
      /\ \A b \in l.off .. l.off + l.size - 1 : pmem[File(l.sh, l.page)][b] = l.ver
  BY DEF IndInv, LogInv, InPage
<1>3. <<l.numa, l.sh[2]>> = l.sh /\ l.page \in 0 .. MaxPages - 1
  BY <1>1, <1>2, ConstantsOK DEF Shards
<1>4. table[TableIndex(l.sh, l.page)] = File(l.sh, l.page)
  BY <1>1, <1>2, <1>3 DEF IndInv, PageInv
<1>5. get_addr(l).file = File(l.sh, l.page) /\ get_addr(l).off = l.off
  BY <1>3, <1>4 DEF get_addr
<1>6. File(l.sh, l.page) # NULL
  BY DEF File, NULL
<1>7. \A i \in 0 .. l.size - 1 : l.off + i \in l.off .. l.off + l.size - 1
  BY <1>1
<1> QED
  BY <1>2, <1>5, <1>6, <1>7

\* Pages are published in the order of their ids, and a new id is new.
LEMMA IndInvPages ==
  ASSUME IndInv
  PROVE  OlderPagesMapped /\ NewPageIsNew
<1>1. OlderPagesMapped
  <2> SUFFICES ASSUME NEW s \in Shards, NEW p \in 0 .. ppage_id[s] - 1
               PROVE  table[TableIndex(s, p)] = File(s, p)
    BY DEF OlderPagesMapped
  <2>1. p \in 0 .. MaxPages - 1 /\ p < ppage_id[s]
    BY ConstantsOK DEF IndInv, TypeOK, PageInv
  <2> QED
    BY <2>1 DEF IndInv, PageInv, Mapped
<1>2. NewPageIsNew
  <2> SUFFICES ASSUME NEW t \in Threads, pc[t] = "map",
                      File(req[t].sh, ppage_id[req[t].sh]) \in files
               PROVE  FALSE
    BY DEF NewPageIsNew
  <2>1. PICK s \in Shards : s = req[t].sh
    BY DEF IndInv, TypeOK
  <2>2. ppage_id[s] \in 0 .. MaxPages - 1
    <3>1. File(s, ppage_id[s]) \in Files
      BY <2>1 DEF IndInv, TypeOK
    <3> QED
      BY <3>1 DEF Files, File
  <2>3. Mapped(s, ppage_id[s])
    BY <2>1, <2>2 DEF IndInv, PageInv
  <2>4. Mapping(s)
    BY <2>1 DEF Mapping
  <2> QED
    BY <2>2, <2>3, <2>4 DEF Mapped
<1> QED
  BY <1>1, <1>2

\* Every variable keeps its type; in particular the bump pointer never passes
\* the end of a page and no table write leaves the table.
THEOREM TypeCorrect ==
  ASSUME PagesFitTable
  PROVE  Spec => []TypeOK
<1>1. Init => IndInv
  BY InitIndInv
<1>2. IndInv /\ [Next]_vars => IndInv'
  BY NextIndInv
<1>3. IndInv => TypeOK
  BY DEF IndInv
<1> QED
  BY <1>1, <1>2, <1>3, PTL DEF Spec

\* insert, erase and update_step1 hand out addresses from which get_addr reads
\* the stored log back for ever, and alloc hands no byte out twice.
THEOREM LogsReadBack ==
  ASSUME PagesFitTable
  PROVE  Spec => [](ReadBack /\ RegionsApart)
<1>1. Init => IndInv
  BY InitIndInv
<1>2. IndInv /\ [Next]_vars => IndInv'
  BY NextIndInv
<1>3. IndInv => ReadBack /\ RegionsApart
  BY IndInvReadBack DEF IndInv
<1> QED
  BY <1>1, <1>2, <1>3, PTL DEF Spec

\* The latch-free view of the collector is sound, and alloc_new_ppage meets no
\* file that this process created.
THEOREM PagesInOrder ==
  ASSUME PagesFitTable
  PROVE  Spec => [](OlderPagesMapped /\ NewPageIsNew)
<1>1. Init => IndInv
  BY InitIndInv
<1>2. IndInv /\ [Next]_vars => IndInv'
  BY NextIndInv
<1>3. IndInv => OlderPagesMapped /\ NewPageIsNew
  BY IndInvPages
<1> QED
  BY <1>1, <1>2, <1>3, PTL DEF Spec

-----------------------------------------------------------------------------
\* PPageLog implements LogSpace.

\* The abstract logs, read from persistent memory, are the returned ones.
WrittenRegions == {RegionOf(l, l.ver) : l \in acked}

\* The invariant, with the logs as they read back.
ReadInv == IndInv /\ keptBar = WrittenRegions

\* The regions whose log reads back, which the refinement maps kept to, are those
\* of all the logs that were returned.
LEMMA KeptIsWritten ==
  ASSUME PagesFitTable, IndInv
  PROVE  keptBar = WrittenRegions
<1>1. ASSUME NEW l \in acked PROVE ReadVer(l) = l.ver
  <2>1. /\ l.off \in Nat /\ l.size \in Sizes
    BY AckedTypes DEF IndInv
  <2>2. 0 \in 0 .. l.size - 1
    <3>1. l.size \in 1 .. PageSize
      BY <2>1, ConstantsOK
    <3> QED
      BY <3>1, ConstantsOK
  <2>3. get_addr(l).off = l.off
    BY DEF get_addr
  <2>4. pmem[get_addr(l).file][get_addr(l).off + 0] = l.ver
    BY <2>2, IndInvReadBack DEF ReadBack
  <2> QED
    BY <2>1, <2>3, <2>4 DEF ReadVer
<1> QED
  BY <1>1 DEF keptBar, WrittenRegions

\* A step that changes neither the owners nor the returned logs is a stutter.
LEMMA StutterStep ==
  ASSUME ReadInv, ReadInv', NEW t \in Threads,
         OthersUntouched(t), acked' = acked,
         pc[t] \in Owning <=> pc'[t] \in Owning,
         pc[t] \in Owning => req'[t] = req[t] /\ info'[t] = info[t]
  PROVE  UNCHANGED <<heldBar, keptBar>>
<1>1. keptBar' = keptBar
  BY DEF ReadInv, WrittenRegions
<1>2. ASSUME NEW u \in Threads
      PROVE  /\ pc[u] \in Owning <=> pc'[u] \in Owning
             /\ pc[u] \in Owning => req'[u] = req[u] /\ info'[u] = info[u]
  BY DEF OthersUntouched
<1>3. heldBar' = heldBar
  BY <1>2 DEF heldBar, RegionOf, LogOf
<1> QED
  BY <1>1, <1>3

\* alloc's region is apart from all others when it is fixed: a Reserve step.
LEMMA FillReserves ==
  ASSUME ReadInv, ReadInv', NEW t \in Threads, Fill(t)
  PROVE  Abstract!Reserve(t)
<1> USE DEF ReadInv
<1>1. /\ pc[t] = "fill" /\ pc'[t] = "advance" /\ pc' = [pc EXCEPT ![t] = "advance"]
      /\ req' = req /\ acked' = acked /\ OthersUntouched(t)
  BY DEF Fill, IndInv, TypeOK, OthersUntouched
<1>2. PICK r : r = RegionOf(LogOf(t), req[t].ver)'
  OBVIOUS
<1>3. heldBar[t] = {} /\ heldBar'[t] = {r}
  BY <1>1, <1>2 DEF heldBar, Owning
<1>4. \A u \in Threads \ {t} : LogOf(u)' = LogOf(u) /\ (pc'[u] \in Owning <=> pc[u] \in Owning)
  BY <1>1 DEF OthersUntouched, LogOf
<1>5. heldBar' = [heldBar EXCEPT ![t] = {r}]
  BY <1>1, <1>3, <1>4 DEF heldBar, OthersUntouched
<1>6. r \in Abstract!Regions
  <2>1. /\ LogOf(t)'.sh \in Shards /\ LogOf(t)'.page \in Nat /\ LogOf(t)'.off \in Nat
        /\ LogOf(t)'.size = req'[t].size /\ req'[t].ver \in Nat
    BY DEF IndInv, TypeOK, LogOf
  <2>2. req'[t].size \in Sizes
    BY <1>1 DEF IndInv, RequestInv
  <2> QED
    BY <1>2, <2>1, <2>2 DEF RegionOf, Abstract!Regions
<1>7. ASSUME NEW b \in keptBar PROVE Abstract!Apart(r, b)
  <2>1. PICK l \in acked : b = RegionOf(l, l.ver)
    BY DEF WrittenRegions
  <2>2. Apart(LogOf(t)', l)
    BY <1>1 DEF IndInv, RegionsApart, Owning, Apart
  <2> QED
    BY <1>2, <2>1, <2>2 DEF Apart, Abstract!Apart, RegionOf
<1>8. ASSUME NEW u \in Threads, NEW b \in heldBar[u] PROVE Abstract!Apart(r, b)
  <2>1. pc[u] \in Owning /\ b = RegionOf(LogOf(u), req[u].ver) /\ u # t
    BY <1>3, <1>8 DEF heldBar
  <2>2. Apart(LogOf(t)', LogOf(u)')
    BY <1>1, <1>4, <2>1 DEF IndInv, RegionsApart, Owning, Apart
  <2> QED
    BY <1>2, <1>4, <2>1, <2>2 DEF Apart, Abstract!Apart, RegionOf
<1>9. keptBar' = keptBar
  BY <1>1 DEF WrittenRegions
<1> QED
  BY <1>3, <1>5, <1>6, <1>7, <1>8, <1>9 DEF Abstract!Reserve

\* store_persist is LogSpace's Keep.
LEMMA StoreKeeps ==
  ASSUME ReadInv, ReadInv', NEW t \in Threads, StorePersist(t)
  PROVE  Abstract!Keep(t)
<1> USE DEF ReadInv
<1>1. /\ pc[t] = "store" /\ pc'[t] = "idle" /\ acked' = acked \union {LogOf(t)}
      /\ OthersUntouched(t)
  BY DEF StorePersist, Return, IndInv, TypeOK, OthersUntouched
<1>2. heldBar[t] = {RegionOf(LogOf(t), req[t].ver)} /\ heldBar'[t] = {}
  BY <1>1 DEF heldBar, Owning
<1>3. heldBar' = [heldBar EXCEPT ![t] = {}]
  BY <1>1, <1>2 DEF heldBar, OthersUntouched, LogOf
<1>4. keptBar' = keptBar \union heldBar[t]
  <2>1. LogOf(t).ver = req[t].ver
    BY DEF LogOf
  <2>2. WrittenRegions' = WrittenRegions \union {RegionOf(LogOf(t), LogOf(t).ver)}
    BY <1>1 DEF WrittenRegions, RegionOf
  <2> QED
    BY <1>2, <2>1, <2>2
<1> QED
  BY <1>2, <1>3, <1>4 DEF Abstract!Keep

\* The early return of update is LogSpace's GiveUp.
LEMMA AbandonGivesUp ==
  ASSUME ReadInv, ReadInv', NEW t \in Threads, Abandon(t)
  PROVE  Abstract!GiveUp(t)
<1> USE DEF ReadInv
<1>1. /\ pc[t] = "store" /\ pc'[t] = "idle" /\ acked' = acked /\ OthersUntouched(t)
  BY DEF Abandon, Return, IndInv, TypeOK, OthersUntouched
<1>2. heldBar[t] # {} /\ heldBar'[t] = {}
  BY <1>1 DEF heldBar, Owning
<1>3. heldBar' = [heldBar EXCEPT ![t] = {}]
  BY <1>1, <1>2 DEF heldBar, OthersUntouched, LogOf
<1>4. keptBar' = keptBar
  BY <1>1 DEF WrittenRegions
<1> QED
  BY <1>2, <1>3, <1>4 DEF Abstract!GiveUp

\* Every step is a step of LogSpace or leaves its state alone.
LEMMA NextImplements ==
  ASSUME ReadInv, ReadInv', [Next]_vars
  PROVE  [Abstract!Next]_(Abstract!vars)
<1>1. CASE UNCHANGED vars
  <2>1. heldBar' = heldBar
    BY <1>1 DEF vars, heldBar, RegionOf, LogOf
  <2>2. keptBar' = keptBar
    BY <1>1 DEF vars, ReadInv, WrittenRegions
  <2> QED
    BY <2>1, <2>2 DEF Abstract!vars
<1>2. ASSUME NEW t \in Threads, Step(t)
      PROVE  Abstract!Next \/ UNCHANGED <<heldBar, keptBar>>
  <2>0. TypeOK
    BY DEF ReadInv, IndInv
  <2>1. CASE Begin(t) \/ WLock(t) \/ CheckSpace(t) \/ BumpPageId(t) \/ MapPage(t)
    <3>1. /\ OthersUntouched(t) /\ acked' = acked
          /\ pc[t] \notin Owning /\ pc'[t] \notin Owning
      BY <2>0, <2>1 DEF Begin, WLock, CheckSpace, BumpPageId, MapPage, TypeOK,
         OthersUntouched, Owning
    <3> QED
      BY <3>1, StutterStep
  <2>2. CASE Advance(t) \/ WUnlock(t) \/ ExitOnMap(t)
    <3>1. /\ OthersUntouched(t) /\ acked' = acked /\ req' = req /\ info' = info
          /\ pc[t] \in Owning <=> pc'[t] \in Owning
      BY <2>0, <2>2 DEF Advance, WUnlock, ExitOnMap, TypeOK, OthersUntouched, Owning
    <3> QED
      BY <3>1, StutterStep
  <2>3. CASE Fill(t)
    BY <2>3, FillReserves DEF Abstract!Next
  <2>4. CASE StorePersist(t)
    BY <2>4, StoreKeeps DEF Abstract!Next
  <2>5. CASE Abandon(t)
    BY <2>5, AbandonGivesUp DEF Abstract!Next
  <2> QED
    BY <1>2, <2>1, <2>2, <2>3, <2>4, <2>5 DEF Step
<1> QED
  BY <1>1, <1>2 DEF Next, Quiet, Abstract!vars

\* The latched allocator, its page files and its address table implement the
\* abstract log: exclusive regions, and logs that stay readable once written.
THEOREM Implementation ==
  ASSUME PagesFitTable
  PROVE  Spec => ImplementsLogSpace
<1>1. Init => IndInv
  BY InitIndInv
<1>2. IndInv /\ [Next]_vars => IndInv'
  BY NextIndInv
<1>3. IndInv => ReadInv
  BY KeptIsWritten DEF ReadInv
<1>4. Init => Abstract!Init
  <2> SUFFICES ASSUME Init PROVE heldBar = [t \in Threads |-> {}] /\ keptBar = {}
    BY DEF Abstract!Init
  <2>1. heldBar = [t \in Threads |-> {}]
    BY DEF Init, heldBar, Owning
  <2>2. keptBar = {}
    BY DEF Init, keptBar
  <2> QED
    BY <2>1, <2>2
<1>5. ReadInv /\ ReadInv' /\ [Next]_vars => [Abstract!Next]_(Abstract!vars)
  BY NextImplements
<1> QED
  BY <1>1, <1>2, <1>3, <1>4, <1>5, PTL DEF Spec, ImplementsLogSpace, Abstract!Spec
=============================================================================
