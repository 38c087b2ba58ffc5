-------------------------- MODULE LogRecoveryProofs --------------------------
(***************************************************************************)
(* Proofs about crash and restart of the log, for any number of writers,   *)
(* keys, shards, pages of a shard, slots of a page, recovery threads and   *)
(* crashes.                                                                *)
(***************************************************************************)
EXTENDS LogRecovery, FiniteSetTheorems, WellFoundedInduction, TLAPS

-----------------------------------------------------------------------------
\* The inductive invariant, in parts.

Up == {"run", "exit"}

TypeOK ==
  /\ phase \in {"boot", "run", "down", "map", "scan", "exit"}
  /\ pm \in [Shards -> [PageIds -> [Slots -> Contents]]]
  /\ ppage_id \in [Shards -> -1 .. MaxPages - 1]
  /\ sz_allocated \in [Shards -> 0 .. PageSlots]
  /\ start_addr \in [Shards -> -1 .. MaxPages - 1]
  /\ index \subseteq Keys \union {ZeroKey}
  /\ pc \in [Writers -> {"idle", "alloc", "fill", "store", "index"}]
  /\ key \in [Writers -> Keys \union {ZeroKey}]
  /\ slot \in [Writers -> [page: -1 .. MaxPages - 1, off: 0 .. PageSlots - 1]]
  /\ cur \in [Recoverers -> [sh: -1 .. NumShards - 1, page: -1 .. MaxPages - 1,
                             off: 0 .. PageSlots]]
  /\ acked \subseteq Keys
  /\ crashes \in Nat

\* A page is zero bytes or not there as a whole, or not at all.
WholePages ==
  \A s \in Shards, p \in PageIds, o \in Slots :
    /\ pm[s][p][o] = "zeros" => pm[s][p] = Zeros
    /\ pm[s][p][o] = "none" => pm[s][p] = NoFile

\* The page that a writer has created and has still to fill.
Filling(s, p) == ppage_id[s] = p /\ \E w \in Writers : pc[w] = "fill" /\ ShardOf[key[w]] = s

\* A page of zero bytes that a crash has left behind.
LeftZeros == \E s \in Shards, p \in PageIds : pm[s][p] = Zeros /\ ~Filling(s, p)

\* Acknowledged keys are in a page; so are the keys of the index.
KeptInv ==
  /\ \A k \in acked : Stored(k)
  /\ \A k \in index : (k \in Keys /\ Stored(k)) \/ (k = ZeroKey /\ LeftZeros)

\* No file is newer than the one the PPage knows as the newest.
NewestInv ==
  phase \in Up \union {"boot", "scan"} =>
    \A s \in Shards, p \in PageIds : p > ppage_id[s] => pm[s][p] = NoFile

\* The first process makes page 0 of every shard.
BootInv ==
  phase = "boot" =>
    /\ index = {}
    /\ \E n \in 0 .. NumShards : \A s \in Shards : start_addr[s] # NULL <=> s < n
    /\ \A s \in Shards :
         /\ ppage_id[s] \in {-1, 0} /\ sz_allocated[s] = 0
         /\ start_addr[s] # NULL => ppage_id[s] = 0 /\ start_addr[s] = 0 /\ pm[s][0] = Blank
         /\ ppage_id[s] = 0 /\ start_addr[s] = NULL => pm[s][0] = Zeros

\* Writers are at work only while the store is open, and a process that was
\* restarted has mapped no page for its PPages before it opens the store.
ClosedInv ==
  /\ phase \notin Up => \A w \in Writers : pc[w] = "idle"
  /\ \A w \in Writers : pc[w] # "idle" => key[w] \in Keys
  /\ phase \in {"down", "map", "scan"} => \A s \in Shards : start_addr[s] = NULL

\* The log at slot o of page p of shard s is indexed, or is still to be.
Known(s, p, o) == pm[s][p][o] \in index \/ InFlight(s, p, o)

\* Every log of the page is.
OwnPage(s, p) == \A o \in Slots : pm[s][p][o] \in Keys => Known(s, p, o)

\* A mapped page was filled by this process: what is not handed out is blank.
MappedInv ==
  phase \in Up =>
    \A s \in Shards : start_addr[s] # NULL =>
      /\ start_addr[s] <= ppage_id[s]
      /\ \A o \in Slots : o >= sz_allocated[s] => pm[s][start_addr[s]][o] = "ones"
      /\ OwnPage(s, start_addr[s])

\* One writer creates a page of a shard at a time.
FillInv ==
  \A w \in Writers : pc[w] = "fill" =>
    LET s == ShardOf[key[w]]
    IN /\ ppage_id[s] \in PageIds /\ pm[s][ppage_id[s]] = Zeros
       /\ start_addr[s] < ppage_id[s]
       /\ \A u \in Writers : pc[u] = "fill" /\ ShardOf[key[u]] = s => u = w

\* The slot that a writer has, if it has one at all, is in a page of this process;
\* nobody else has it; it is blank before the store and holds the key after it.
SlotInv ==
  \A w \in Writers : pc[w] \in {"store", "index"} =>
    LET s == ShardOf[key[w]]
        p == slot[w].page
    IN /\ pc[w] = "index" => p # NULL
       /\ p # NULL =>
            /\ p <= start_addr[s]
            /\ p = start_addr[s] => slot[w].off < sz_allocated[s]
            /\ OwnPage(s, p)
            /\ pm[s][p][slot[w].off] = IF pc[w] = "store" THEN "ones" ELSE key[w]
            /\ \A u \in Writers : /\ pc[u] \in {"store", "index"} /\ ShardOf[key[u]] = s
                                  /\ slot[u] = slot[w]
                                  => u = w

\* Every log is indexed, about to be, or behind a hole.
FoundInv ==
  phase \in Up =>
    \A s \in Shards, p \in PageIds, o \in Slots :
      pm[s][p][o] \in Keys => Known(s, p, o) \/ BehindHole(s, p, o)

\* Shard s goes on allocating behind the logs of its newest page.
Tail(s) ==
  \A o \in Slots : ppage_id[s] >= 0 /\ o >= sz_allocated[s] /\ pm[s][ppage_id[s]][o] \in Keys =>
    BehindHole(s, ppage_id[s], o)

TailInv == phase \in Up => \A s \in Shards : Tail(s)

\* Recoverer i has still to come to slot o of page p of shard s.
ToCome(i, s, p, o) ==
  /\ cur[i].sh # NoShard /\ s < RangeEnd(i)
  /\ \/ cur[i].sh < s
     \/ /\ cur[i].sh = s
        /\ p < cur[i].page \/ (p = cur[i].page /\ cur[i].off <= o)

\* What the scans have found, and what they have still to find.
ScanInv ==
  phase = "scan" =>
    /\ \A s \in Shards : ppage_id[s] = Newest(s)
    /\ \A i \in Recoverers : \A q \in Slots :
         cur[i].sh # NoShard /\ cur[i].page >= 0 /\ q < cur[i].off =>
           IsInsert(pm[cur[i].sh][cur[i].page][q])
    /\ \A s \in Shards, p \in PageIds, o \in Slots : pm[s][p][o] \in Keys =>
         \/ pm[s][p][o] \in index \/ BehindHole(s, p, o)
         \/ \E i \in Recoverers : ToCome(i, s, p, o)
    /\ \A s \in Shards : Tail(s) \/ \E i \in Recoverers : ToCome(i, s, ppage_id[s], PageSlots)

Inv ==
  /\ TypeOK /\ WholePages /\ KeptInv /\ NewestInv /\ BootInv /\ ClosedInv
  /\ MappedInv /\ FillInv /\ SlotInv /\ FoundInv /\ TailInv /\ ScanInv

-----------------------------------------------------------------------------
\* Slots, pages and what they read as.

\* What the assumptions on the constants say of them.
LEMMA ConstantFacts ==
  /\ NumShards \in Nat \ {0} /\ RecThreads \in Nat \ {0} /\ PageSlots \in Nat \ {0}
  /\ MaxPages \in Nat \ {0}
  /\ "ones" \notin Keys /\ "zeros" \notin Keys /\ "none" \notin Keys /\ ZeroKey \notin Keys
  /\ \A k \in Keys : ShardOf[k] \in Shards
  /\ 0 \in Slots /\ 0 \in PageIds /\ 0 \in Shards
BY LogRecoveryConstants DEF Shards, Slots, PageIds

\* The three kinds of page that hold no log.
LEMMA PageFacts ==
  /\ Blank \in [Slots -> Contents] /\ Zeros \in [Slots -> Contents] /\ NoFile \in [Slots -> Contents]
  /\ \A o \in Slots : Blank[o] = "ones" /\ Zeros[o] = "zeros" /\ NoFile[o] = "none"
  /\ Blank # Zeros /\ Zeros # NoFile /\ Blank # NoFile
<1>1. /\ Blank \in [Slots -> Contents] /\ Zeros \in [Slots -> Contents] /\ NoFile \in [Slots -> Contents]
      /\ \A o \in Slots : Blank[o] = "ones" /\ Zeros[o] = "zeros" /\ NoFile[o] = "none"
  BY DEF Blank, Zeros, NoFile, Contents
<1>2. Blank[0] = "ones" /\ Zeros[0] = "zeros" /\ NoFile[0] = "none"
  BY <1>1, ConstantFacts
<1> QED
  BY <1>1, <1>2

\* A whole page is written: zero bytes or 1s, where there was no log.
PageWritten(s, p, X) ==
  /\ s \in Shards /\ p \in PageIds /\ X \in {Blank, Zeros} /\ pm[s][p] \in {Zeros, NoFile}
  /\ pm' \in [Shards -> [PageIds -> [Slots -> Contents]]] /\ pm'[s][p] = X
  /\ \A t \in Shards, q \in PageIds : t # s \/ q # p => pm'[t][q] = pm[t][q]

\* CreatePage and FillPage write one page and leave the others.
LEMMA WritePage ==
  ASSUME TypeOK, NEW s \in Shards, NEW p \in PageIds, NEW X \in {Blank, Zeros},
         pm[s][p] \in {Zeros, NoFile}, pm' = [pm EXCEPT ![s][p] = X]
  PROVE  PageWritten(s, p, X)
<1>1. /\ pm \in [Shards -> [PageIds -> [Slots -> Contents]]] /\ X \in [Slots -> Contents]
  BY PageFacts DEF TypeOK
<1>2. /\ pm'[s] = [pm[s] EXCEPT ![p] = X] /\ pm' \in [Shards -> [PageIds -> [Slots -> Contents]]]
      /\ \A t \in Shards : t # s => pm'[t] = pm[t]
  BY <1>1
<1>3. pm'[s][p] = X /\ \A q \in PageIds : q # p => pm'[s][q] = pm[s][q]
  BY <1>1, <1>2
<1> QED
  BY <1>2, <1>3 DEF PageWritten

\* One blank slot is written.
SlotWritten(s, p, o, k) ==
  /\ s \in Shards /\ p \in PageIds /\ o \in Slots /\ k \in Keys /\ pm[s][p][o] = "ones"
  /\ pm' \in [Shards -> [PageIds -> [Slots -> Contents]]] /\ pm'[s][p][o] = k
  /\ \A t \in Shards, q \in PageIds, r \in Slots :
       t # s \/ q # p \/ r # o => pm'[t][q][r] = pm[t][q][r]
  /\ \A t \in Shards, q \in PageIds : t # s \/ q # p => pm'[t][q] = pm[t][q]

\* A store writes one slot and leaves the others.
LEMMA WriteSlot ==
  ASSUME TypeOK, NEW s \in Shards, NEW p \in PageIds, NEW o \in Slots, NEW k \in Keys,
         pm[s][p][o] = "ones", pm' = [pm EXCEPT ![s][p][o] = k]
  PROVE  SlotWritten(s, p, o, k)
<1>1. pm \in [Shards -> [PageIds -> [Slots -> Contents]]] /\ k \in Contents
  BY DEF TypeOK, Contents
<1>2. PICK X : X = [pm[s][p] EXCEPT ![o] = k]
  OBVIOUS
<1>3. X \in [Slots -> Contents] /\ X[o] = k /\ \A r \in Slots : r # o => X[r] = pm[s][p][r]
  BY <1>1, <1>2
<1>4. PICK Y : Y = [pm[s] EXCEPT ![p] = X]
  OBVIOUS
<1>5. /\ Y \in [PageIds -> [Slots -> Contents]] /\ Y[p] = X
      /\ \A q \in PageIds : q # p => Y[q] = pm[s][q]
  BY <1>1, <1>3, <1>4
<1>6. pm' = [pm EXCEPT ![s] = Y]
  BY <1>2, <1>4
<1>7. /\ pm' \in [Shards -> [PageIds -> [Slots -> Contents]]] /\ pm'[s] = Y
      /\ \A t \in Shards : t # s => pm'[t] = pm[t]
  BY <1>1, <1>5, <1>6
<1> QED
  BY <1>3, <1>5, <1>7 DEF SlotWritten

\* A log that is in a page stays there.
LEMMA StoredKept ==
  ASSUME \/ UNCHANGED pm
         \/ \E s, p, X : PageWritten(s, p, X)
         \/ \E s, p, o, k : SlotWritten(s, p, o, k),
         NEW j \in Keys, Stored(j)
  PROVE  Stored(j)'
<1>1. PICK t \in Shards, q \in PageIds, r \in Slots : pm[t][q][r] = j
  BY DEF Stored
<1>2. pm'[t][q][r] = j
  <2>1. ASSUME NEW s, NEW p, NEW X, PageWritten(s, p, X)
        PROVE  pm'[t][q][r] = j
    <3>1. t # s \/ q # p
      BY <1>1, <2>1, PageFacts, ConstantFacts DEF PageWritten
    <3> QED
      BY <1>1, <2>1, <3>1 DEF PageWritten
  <2>2. ASSUME NEW s, NEW p, NEW o, NEW k, SlotWritten(s, p, o, k)
        PROVE  pm'[t][q][r] = j
    <3>1. t # s \/ q # p \/ r # o
      BY <1>1, <2>2, ConstantFacts DEF SlotWritten
    <3> QED
      BY <1>1, <2>2, <3>1 DEF SlotWritten
  <2> QED
    BY <1>1, <2>1, <2>2
<1> QED
  BY <1>2 DEF Stored

\* Pages stay whole.
LEMMA WholeKept ==
  ASSUME WholePages,
         \/ UNCHANGED pm
         \/ \E s, p, X : PageWritten(s, p, X)
         \/ \E s, p, o, k : SlotWritten(s, p, o, k)
  PROVE  WholePages'
<1> SUFFICES ASSUME NEW t \in Shards, NEW q \in PageIds, NEW r \in Slots
             PROVE  /\ pm'[t][q][r] = "zeros" => pm'[t][q] = Zeros
                    /\ pm'[t][q][r] = "none" => pm'[t][q] = NoFile
  BY DEF WholePages
<1>1. CASE UNCHANGED pm
  BY <1>1 DEF WholePages
<1>2. ASSUME NEW s, NEW p, NEW X, PageWritten(s, p, X)
      PROVE  /\ pm'[t][q][r] = "zeros" => pm'[t][q] = Zeros
             /\ pm'[t][q][r] = "none" => pm'[t][q] = NoFile
  <2>1. CASE t = s /\ q = p
    BY <1>2, <2>1, PageFacts DEF PageWritten
  <2>2. CASE t # s \/ q # p
    <3>1. pm'[t][q] = pm[t][q]
      BY <1>2, <2>2 DEF PageWritten
    <3> QED
      BY <3>1 DEF WholePages
  <2> QED
    BY <2>1, <2>2
<1>3. ASSUME NEW s, NEW p, NEW o, NEW k, SlotWritten(s, p, o, k)
      PROVE  /\ pm'[t][q][r] = "zeros" => pm'[t][q] = Zeros
             /\ pm'[t][q][r] = "none" => pm'[t][q] = NoFile
  <2>1. CASE t = s /\ q = p
    <3>1. pm[s][p][o] = "ones" /\ pm[s][p] # Zeros /\ pm[s][p] # NoFile
      BY <1>3, PageFacts DEF SlotWritten
    <3>2. pm[t][q][r] # "zeros" /\ pm[t][q][r] # "none"
      BY <2>1, <3>1 DEF WholePages
    <3>3. pm'[t][q][r] \in {pm[t][q][r], k} /\ k \in Keys
      BY <1>3, <2>1 DEF SlotWritten
    <3> QED
      BY <3>2, <3>3, ConstantFacts
  <2>2. CASE t # s \/ q # p
    <3>1. pm'[t][q] = pm[t][q]
      BY <1>3, <2>2 DEF SlotWritten
    <3> QED
      BY <3>1 DEF WholePages
  <2> QED
    BY <2>1, <2>2
<1> QED
  BY <1>1, <1>2, <1>3

\* The steps of a process that has not opened the store, or that changes nothing
\* but where it is: what the writers rely on does not matter.
LEMMA ClosedStep ==
  ASSUME TypeOK', phase' \notin Up, \A w \in Writers : pc'[w] = "idle"
  PROVE  MappedInv' /\ FillInv' /\ SlotInv' /\ FoundInv' /\ TailInv'
BY DEF MappedInv, FillInv, SlotInv, FoundInv, TailInv

-----------------------------------------------------------------------------
\* The first process.

\* Before the first process has done anything there is no file.
LEMMA InitInv ==
  ASSUME Init
  PROVE  Inv
<1>1. /\ phase = "boot" /\ pm = [s \in Shards |-> [p \in PageIds |-> NoFile]]
      /\ ppage_id = [s \in Shards |-> -1] /\ sz_allocated = [s \in Shards |-> 0]
      /\ start_addr = [s \in Shards |-> -1] /\ index = {} /\ acked = {} /\ crashes = 0
      /\ pc = [w \in Writers |-> "idle"] /\ key = [w \in Writers |-> ZeroKey]
      /\ slot = [w \in Writers |-> [page |-> -1, off |-> 0]]
      /\ cur = [i \in Recoverers |-> [sh |-> -1, page |-> 0, off |-> 0]]
  BY DEF Init, Fresh, NULL, NoSlot, Done, NoShard
<1>2. TypeOK
  <2>1. /\ -1 \in -1 .. MaxPages - 1 /\ 0 \in 0 .. PageSlots /\ 0 \in 0 .. PageSlots - 1
        /\ -1 \in -1 .. NumShards - 1 /\ 0 \in -1 .. MaxPages - 1
    BY ConstantFacts
  <2> QED
    BY <1>1, <2>1, PageFacts DEF TypeOK
<1>3. \A s \in Shards, p \in PageIds : pm[s][p] = NoFile
  BY <1>1
<1>4. WholePages
  BY <1>3, PageFacts DEF WholePages
<1>5. KeptInv /\ NewestInv /\ ClosedInv /\ ScanInv
  BY <1>1, <1>3 DEF KeptInv, NewestInv, ClosedInv, ScanInv, Up
<1>6. BootInv
  <2>1. 0 \in 0 .. NumShards /\ \A s \in Shards : start_addr[s] # NULL <=> s < 0
    BY <1>1, ConstantFacts DEF NULL, Shards
  <2> QED
    BY <1>1, <1>3, <2>1 DEF BootInv, NULL
<1>7. MappedInv /\ FillInv /\ SlotInv /\ FoundInv /\ TailInv
  BY <1>1 DEF MappedInv, FillInv, SlotInv, FoundInv, TailInv, Up
<1> QED
  BY <1>2, <1>4, <1>5, <1>6, <1>7 DEF Inv

\* The shards are set up one after the other, so that their number tells the next.
LEMMA BootedIs ==
  ASSUME NEW n \in 0 .. NumShards, \A s \in Shards : start_addr[s] # NULL <=> s < n
  PROVE  Booted = n
<1>1. n \in Nat /\ n <= NumShards /\ NumShards \in Nat
  BY ConstantFacts
<1>2. {s \in Shards : start_addr[s] # NULL} = 0 .. n - 1
  BY <1>1 DEF Shards
<1>3. 0 \in Int /\ n - 1 \in Int
  BY <1>1
<1>4. Cardinality(0 .. n - 1) = n
  BY <1>1, <1>3, FS_Interval
<1> QED
  BY <1>2, <1>4 DEF Booted

\* LogKV makes and fills the first page of the next shard.
LEMMA BootStep ==
  ASSUME Inv, BootCreate \/ BootFill
  PROVE  Inv'
<1>2. /\ phase = "boot" /\ UNCHANGED <<phase, sz_allocated, index, pc, key, slot, cur, acked, crashes>>
      /\ Booted < NumShards
  BY DEF BootCreate, BootFill, writers
<1>3. TypeOK /\ \A w \in Writers : pc[w] = "idle"
  BY <1>2 DEF Inv, ClosedInv, Up
<1>4. /\ index = {}
      /\ \A t \in Shards :
           /\ ppage_id[t] \in {-1, 0} /\ sz_allocated[t] = 0
           /\ start_addr[t] # NULL => ppage_id[t] = 0 /\ start_addr[t] = 0 /\ pm[t][0] = Blank
           /\ ppage_id[t] = 0 /\ start_addr[t] = NULL => pm[t][0] = Zeros
  BY <1>2 DEF Inv, BootInv
<1>5. PICK s \in 0 .. NumShards : \A t \in Shards : start_addr[t] # NULL <=> t < s
  BY <1>2 DEF Inv, BootInv
<1>6. s = Booted /\ s \in Shards /\ start_addr[s] = NULL
  BY <1>2, <1>5, BootedIs, ConstantFacts DEF Shards
<1>7. \A t \in Shards, p \in PageIds : p > ppage_id[t] => pm[t][p] = NoFile
  BY <1>2 DEF Inv, NewestInv
<1>8. 0 \in PageIds /\ -1 \in -1 .. MaxPages - 1 /\ 0 \in -1 .. MaxPages - 1
  BY ConstantFacts
<1>9. CASE BootCreate
  <2>1. ppage_id[s] = -1 /\ CreatePage(s) /\ UNCHANGED start_addr
    BY <1>6, <1>9 DEF BootCreate
  <2>2. /\ ppage_id' = [ppage_id EXCEPT ![s] = 0] /\ pm' = [pm EXCEPT ![s][0] = Zeros]
    BY <1>3, <1>6, <2>1 DEF CreatePage, TypeOK
  <2>3. pm[s][0] = NoFile
    BY <1>6, <1>7, <1>8, <2>1
  <2>4. PageWritten(s, 0, Zeros)
    BY <1>3, <1>6, <1>8, <2>2, <2>3, WritePage
  <2>5. TypeOK'
    BY <1>2, <1>3, <1>6, <1>8, <2>1, <2>2, <2>4 DEF TypeOK, PageWritten
  <2>6. ppage_id'[s] = 0 /\ \A t \in Shards : t # s => ppage_id'[t] = ppage_id[t]
    BY <1>3, <1>6, <2>2 DEF TypeOK
  <2>7. NewestInv'
    BY <1>7, <2>1, <2>4, <2>6 DEF NewestInv, PageWritten, PageIds
  <2>8. BootInv'
    <3>1. \A t \in Shards :
           /\ ppage_id'[t] \in {-1, 0} /\ sz_allocated'[t] = 0
           /\ start_addr'[t] # NULL => ppage_id'[t] = 0 /\ start_addr'[t] = 0 /\ pm'[t][0] = Blank
           /\ ppage_id'[t] = 0 /\ start_addr'[t] = NULL => pm'[t][0] = Zeros
      BY <1>2, <1>4, <1>6, <1>8, <2>1, <2>4, <2>6 DEF PageWritten
    <3>2. \A t \in Shards : start_addr'[t] # NULL <=> t < s
      BY <1>5, <2>1
    <3> QED
      BY <1>2, <1>4, <1>5, <3>1, <3>2 DEF BootInv
  <2> QED
    <3>1. KeptInv'
      BY <1>2, <1>3, <1>4, <2>4, StoredKept DEF Inv, KeptInv, TypeOK
    <3>2. ClosedInv' /\ ScanInv' /\ phase' \notin Up /\ \A w \in Writers : pc'[w] = "idle"
      BY <1>2, <1>3 DEF Inv, ClosedInv, ScanInv, Up
    <3>3. WholePages'
      BY <2>4, WholeKept DEF Inv
    <3> QED
      BY <2>5, <2>7, <2>8, <3>1, <3>2, <3>3, ClosedStep DEF Inv
<1>10. CASE BootFill
  <2>1. ppage_id[s] = 0 /\ FillPage(s) /\ UNCHANGED ppage_id
    BY <1>6, <1>10 DEF BootFill
  <2>2. /\ start_addr' = [start_addr EXCEPT ![s] = 0] /\ pm' = [pm EXCEPT ![s][0] = Blank]
    BY <2>1 DEF FillPage
  <2>3. pm[s][0] = Zeros
    BY <1>4, <1>6, <2>1
  <2>4. PageWritten(s, 0, Blank)
    BY <1>3, <1>6, <1>8, <2>2, <2>3, WritePage
  <2>5. TypeOK'
    BY <1>2, <1>3, <1>6, <1>8, <2>1, <2>2, <2>4 DEF TypeOK, PageWritten
  <2>6. start_addr'[s] = 0 /\ \A t \in Shards : t # s => start_addr'[t] = start_addr[t]
    BY <1>3, <1>6, <2>2 DEF TypeOK
  <2>7. NewestInv'
    BY <1>7, <2>1, <2>4, <2>6 DEF NewestInv, PageWritten, PageIds
  <2>8. BootInv'
    <3>1. \A t \in Shards :
           /\ ppage_id'[t] \in {-1, 0} /\ sz_allocated'[t] = 0
           /\ start_addr'[t] # NULL => ppage_id'[t] = 0 /\ start_addr'[t] = 0 /\ pm'[t][0] = Blank
           /\ ppage_id'[t] = 0 /\ start_addr'[t] = NULL => pm'[t][0] = Zeros
      BY <1>2, <1>4, <1>6, <1>8, <2>1, <2>4, <2>6 DEF PageWritten, NULL
    <3>2. \A t \in Shards : start_addr'[t] # NULL <=> t < s + 1
      BY <1>5, <1>6, <2>6 DEF NULL, Shards
    <3>3. s + 1 \in 0 .. NumShards
      BY <1>6, ConstantFacts DEF Shards
    <3> QED
      BY <1>2, <1>4, <3>1, <3>2, <3>3 DEF BootInv
  <2> QED
    <3>1. KeptInv'
      BY <1>2, <1>3, <1>4, <2>4, StoredKept DEF Inv, KeptInv, TypeOK
    <3>2. ClosedInv' /\ ScanInv' /\ phase' \notin Up /\ \A w \in Writers : pc'[w] = "idle"
      BY <1>2, <1>3 DEF Inv, ClosedInv, ScanInv, Up
    <3>3. WholePages'
      BY <2>4, WholeKept DEF Inv
    <3> QED
      BY <2>5, <2>7, <2>8, <3>1, <3>2, <3>3, ClosedStep DEF Inv
<1> QED
  BY <1>9, <1>10

\* The store is opened: there is no log yet.
LEMMA OpenStep ==
  ASSUME Inv, Open
  PROVE  Inv'
<1>1. /\ phase = "boot" /\ phase' = "run" /\ Booted = NumShards
      /\ UNCHANGED <<pm, ppage_id, sz_allocated, start_addr, index, pc, key, slot, cur, acked, crashes>>
  BY DEF Open, ppages, writers
<1>2. TypeOK /\ \A w \in Writers : pc[w] = "idle"
  BY <1>1 DEF Inv, ClosedInv, Up
<1>3. PICK n \in 0 .. NumShards : \A t \in Shards : start_addr[t] # NULL <=> t < n
  BY <1>1 DEF Inv, BootInv
<1>4. \A s \in Shards : start_addr[s] = 0 /\ ppage_id[s] = 0 /\ pm[s][0] = Blank
  <2>1. n = NumShards
    BY <1>1, <1>3, BootedIs
  <2>2. \A s \in Shards : start_addr[s] # NULL
    BY <1>3, <2>1 DEF Shards
  <2> QED
    BY <1>1, <2>2 DEF Inv, BootInv
<1>5. \A s \in Shards, p \in PageIds : p # 0 => pm[s][p] = NoFile
  BY <1>1, <1>4 DEF Inv, NewestInv, PageIds
<1>6. \A s \in Shards, p \in PageIds, o \in Slots : pm[s][p][o] \notin Keys
  BY <1>4, <1>5, PageFacts, ConstantFacts
<1>7. TypeOK' /\ WholePages' /\ BootInv' /\ ScanInv' /\ ClosedInv' /\ NewestInv'
  <2>1. TypeOK'
    BY <1>1, <1>2 DEF TypeOK
  <2>2. WholePages' /\ BootInv' /\ ScanInv'
    BY <1>1 DEF Inv, WholePages, BootInv, ScanInv
  <2>3. ClosedInv' /\ NewestInv'
    BY <1>1, <1>2 DEF Inv, ClosedInv, NewestInv, Up
  <2> QED
    BY <2>1, <2>2, <2>3
<1>8. KeptInv'
  BY <1>1 DEF Inv, KeptInv, Stored, LeftZeros, Filling
<1>9. MappedInv'
  BY <1>1, <1>4, <1>6, ConstantFacts, PageFacts DEF MappedInv, OwnPage
<1>10. FillInv' /\ SlotInv'
  BY <1>1, <1>2 DEF FillInv, SlotInv
<1>11. FoundInv' /\ TailInv'
  <2>1. \A s \in Shards : ppage_id'[s] \in PageIds
    BY <1>1, <1>4, ConstantFacts
  <2> QED
    BY <1>1, <1>6, <2>1 DEF FoundInv, TailInv, Tail
<1> QED
  BY <1>7, <1>8, <1>9, <1>10, <1>11 DEF Inv

-----------------------------------------------------------------------------
\* The crash, and the next process up to the scan.

\* What is persistent, and the callers' memory of what returned, is all that is left.
LEMMA DieStep ==
  ASSUME Inv, Die, crashes' \in Nat
  PROVE  Inv'
<1>1. /\ phase' = "down" /\ UNCHANGED <<pm, acked>> /\ index' = {}
      /\ ppage_id' = [s \in Shards |-> -1] /\ sz_allocated' = [s \in Shards |-> 0]
      /\ start_addr' = [s \in Shards |-> -1]
      /\ pc' = [w \in Writers |-> "idle"] /\ key' = [w \in Writers |-> ZeroKey]
      /\ slot' = [w \in Writers |-> [page |-> -1, off |-> 0]]
      /\ cur' = [i \in Recoverers |-> [sh |-> -1, page |-> 0, off |-> 0]]
  BY DEF Die, Fresh, NULL, NoSlot, Done, NoShard
<1>2. TypeOK'
  <2>1. /\ -1 \in -1 .. MaxPages - 1 /\ 0 \in 0 .. PageSlots /\ 0 \in 0 .. PageSlots - 1
        /\ -1 \in -1 .. NumShards - 1 /\ 0 \in -1 .. MaxPages - 1
    BY ConstantFacts
  <2> QED
    BY <1>1, <2>1 DEF Inv, TypeOK
<1>3. WholePages'
  BY <1>1, WholeKept DEF Inv
<1>4. KeptInv'
  BY <1>1 DEF Inv, KeptInv, Stored
<1>5. NewestInv' /\ BootInv' /\ ScanInv' /\ ClosedInv'
  BY <1>1 DEF NewestInv, BootInv, ScanInv, ClosedInv, Up, NULL
<1>6. phase' \notin Up /\ \A w \in Writers : pc'[w] = "idle"
  BY <1>1 DEF Up
<1> QED
  BY <1>2, <1>3, <1>4, <1>5, <1>6, ClosedStep DEF Inv

\* The next process is started; it has looked at nothing yet.
LEMMA RestartStep ==
  ASSUME Inv, Restart
  PROVE  Inv'
<1>1. /\ phase = "down" /\ phase' = "map"
      /\ UNCHANGED <<pm, ppage_id, sz_allocated, start_addr, index, pc, key, slot, cur, acked, crashes>>
  BY DEF Restart, ppages, writers
<1>2. TypeOK'
  BY <1>1 DEF Inv, TypeOK
<1>3. WholePages'
  BY <1>1, WholeKept DEF Inv
<1>4. KeptInv'
  BY <1>1 DEF Inv, KeptInv, Stored, LeftZeros, Filling
<1>5. NewestInv' /\ BootInv' /\ ScanInv' /\ ClosedInv'
  BY <1>1 DEF Inv, NewestInv, BootInv, ScanInv, ClosedInv, Up
<1>6. phase' \notin Up /\ \A w \in Writers : pc'[w] = "idle"
  BY <1>1 DEF Inv, ClosedInv, Up
<1> QED
  BY <1>2, <1>3, <1>4, <1>5, <1>6, ClosedStep DEF Inv

\* A non-empty set of page ids has a greatest one.
LEMMA GreatestPage ==
  ASSUME NEW S \in SUBSET PageIds, S # {}
  PROVE  \E p \in S : \A q \in S : q <= p
<1>1. PICK m \in Nat : m = MaxPages - 1
  BY ConstantFacts
<1>2. S \subseteq Nat /\ \A p \in S : p <= m
  BY <1>1 DEF PageIds
<1>3. PICK T : T = {m - p : p \in S}
  OBVIOUS
<1>4. T \subseteq Nat /\ T # {}
  <2>1. \A p \in S : m - p \in Nat
    BY <1>1, <1>2
  <2>2. PICK p \in S : TRUE
    OBVIOUS
  <2>3. m - p \in T
    BY <1>3, <2>2
  <2> QED
    BY <1>3, <2>1, <2>3
<1>5. PICK x \in T : \A y \in T : ~(<<y, x>> \in OpToRel(<, Nat))
  BY <1>4, NatLessThanWellFounded, WFMin, Zenon
<1>6. \A y \in T : ~(y < x)
  BY <1>4, <1>5, Zenon DEF OpToRel
<1>7. PICK p \in S : x = m - p
  BY <1>3, <1>5
<1>8. \A q \in S : q <= p
  <2> SUFFICES ASSUME NEW q \in S
               PROVE  q <= p
    OBVIOUS
  <2>1. ~(m - q < x)
    BY <1>3, <1>6
  <2> QED
    BY <1>2, <1>7, <2>1
<1> QED
  BY <1>8

\* What set_page_start_addr leaves behind is the newest file.
LEMMA NewestFile ==
  ASSUME NEW s \in Shards
  PROVE  /\ Newest(s) \in -1 .. MaxPages - 1
         /\ \A p \in PageIds : pm[s][p] # NoFile => p <= Newest(s)
<1>1. CASE FilesOf(s) = {}
  BY <1>1, ConstantFacts DEF Newest, FilesOf
<1>2. CASE FilesOf(s) # {}
  <2>1. FilesOf(s) \in SUBSET PageIds
    BY DEF FilesOf
  <2>2. \E p \in FilesOf(s) : \A q \in FilesOf(s) : q <= p
    BY <1>2, <2>1, GreatestPage
  <2>3. Newest(s) \in FilesOf(s) /\ \A q \in FilesOf(s) : q <= Newest(s)
    BY <1>2, <2>2 DEF Newest
  <2> QED
    BY <2>1, <2>3, ConstantFacts DEF FilesOf, PageIds
<1> QED
  BY <1>1, <1>2

\* Every shard is in the range of a recovery thread, also when the threads do not
\* divide the shards, and there is no shard beyond the last.
LEMMA RangesCover ==
  /\ \A i \in Recoverers : RangeBegin(i) \in Nat /\ RangeEnd(i) \in Nat /\ RangeEnd(i) <= NumShards
  /\ \A s \in Shards : \E i \in Recoverers : RangeBegin(i) <= s /\ s < RangeEnd(i)
<1>1. PICK n \in Nat \ {0}, r \in Nat \ {0} : n = NumShards /\ r = RecThreads
  BY ConstantFacts
<1>2. PICK d \in Int : d = n \div r /\ r * d <= n /\ n < r * d + r
  OBVIOUS
<1>3. d \in Nat
  <2> SUFFICES ASSUME d + 1 <= 0 PROVE FALSE
    BY <1>2
  <2>1. r * (d + 1) <= 0
    OBVIOUS
  <2> QED
    BY <1>2, <2>1
<1>4. ASSUME NEW i \in Recoverers
      PROVE  /\ i \in Nat /\ i <= r - 1 /\ RangeBegin(i) = i * d
             /\ RangeEnd(i) = IF i = r - 1 THEN n ELSE i * d + d
  BY <1>1, <1>2 DEF Recoverers, RangeBegin, RangeEnd, PerThread
<1>5. ASSUME NEW i \in Recoverers
      PROVE  RangeBegin(i) \in Nat /\ RangeEnd(i) \in Nat /\ RangeEnd(i) <= NumShards
  <2>1. i * d \in Nat
    BY <1>3, <1>4
  <2>2. CASE i = r - 1
    BY <1>1, <1>4, <2>1, <2>2
  <2>3. CASE i # r - 1
    <3>1. i + 1 <= r
      BY <1>4
    <3>2. (i + 1) * d <= r * d
      BY <1>3, <1>4, <3>1
    <3>3. (i + 1) * d = i * d + d
      BY <1>3, <1>4
    <3>4. i * d + d \in Nat
      BY <1>3, <2>1
    <3> QED
      BY <1>1, <1>2, <1>4, <2>1, <2>3, <3>2, <3>3, <3>4
  <2> QED
    BY <2>2, <2>3
<1>6. ASSUME NEW s \in Shards
      PROVE  \E i \in Recoverers : RangeBegin(i) <= s /\ s < RangeEnd(i)
  <2>1. s \in Nat /\ s < n
    BY <1>1 DEF Shards
  <2>2. r - 1 \in Recoverers /\ r - 1 \in Nat
    BY <1>1 DEF Recoverers
  <2>3. CASE (r - 1) * d <= s
    BY <1>4, <2>1, <2>2, <2>3
  <2>4. CASE s < (r - 1) * d
    <3>1. d # 0
      BY <2>1, <2>2, <2>4
    <3>2. PICK e \in Nat \ {0} : e = d
      BY <1>3, <3>1
    <3>3. PICK i \in Int : i = s \div e /\ e * i <= s /\ s < e * i + e
      BY <2>1
    <3>4. 0 <= i
      <4> SUFFICES ASSUME i + 1 <= 0 PROVE FALSE
        BY <3>3
      <4>1. e * (i + 1) <= 0
        OBVIOUS
      <4> QED
        BY <2>1, <3>3, <4>1
    <3>5. i < r - 1
      <4> SUFFICES ASSUME r - 1 <= i PROVE FALSE
        BY <2>2, <3>3
      <4>1. e * (r - 1) <= e * i
        BY <2>2, <3>3
      <4>2. e * (r - 1) = (r - 1) * d
        BY <2>2, <3>2
      <4> QED
        BY <2>1, <2>4, <3>3, <4>1, <4>2
    <3>6. i \in Recoverers
      BY <1>1, <3>3, <3>4, <3>5 DEF Recoverers
    <3>7. i * d = e * i
      BY <3>2, <3>3
    <3> QED
      BY <1>4, <3>2, <3>3, <3>5, <3>6, <3>7
  <2> QED
    BY <1>3, <2>1, <2>2, <2>3, <2>4
<1> QED
  BY <1>5, <1>6

\* The files are mapped and the threads start.
LEMMA MapStep ==
  ASSUME Inv, MapFiles
  PROVE  Inv'
<1>1. /\ phase = "map" /\ phase' = "scan" /\ ppage_id' = [s \in Shards |-> Newest(s)]
      /\ cur' = [i \in Recoverers |-> IF RangeBegin(i) < RangeEnd(i) THEN At(RangeBegin(i)) ELSE Done]
      /\ UNCHANGED <<pm, sz_allocated, start_addr, index, pc, key, slot, acked, crashes>>
  BY DEF MapFiles, writers
<1>2. TypeOK /\ phase' \notin Up /\ \A w \in Writers : pc'[w] = "idle" /\ pc[w] = "idle"
  BY <1>1 DEF Inv, ClosedInv, Up
<1>3. ASSUME NEW i \in Recoverers, RangeBegin(i) < RangeEnd(i)
      PROVE  /\ RangeBegin(i) \in Shards /\ cur'[i].sh = RangeBegin(i)
             /\ cur'[i].page = Newest(RangeBegin(i)) /\ cur'[i].off = 0
             /\ cur'[i] \in [sh: -1 .. NumShards - 1, page: -1 .. MaxPages - 1, off: 0 .. PageSlots]
  <2>1. RangeBegin(i) \in Shards
    BY <1>3, RangesCover, ConstantFacts DEF Shards
  <2>2. cur'[i] = [sh |-> RangeBegin(i), page |-> Newest(RangeBegin(i)), off |-> 0]
    BY <1>1, <1>3 DEF At
  <2>3. Newest(RangeBegin(i)) \in -1 .. MaxPages - 1 /\ 0 \in 0 .. PageSlots
        /\ RangeBegin(i) \in -1 .. NumShards - 1
    BY <2>1, NewestFile, ConstantFacts DEF Shards
  <2> QED
    BY <2>1, <2>2, <2>3
<1>4. ASSUME NEW i \in Recoverers, ~(RangeBegin(i) < RangeEnd(i))
      PROVE  /\ cur'[i].sh = NoShard
             /\ cur'[i] \in [sh: -1 .. NumShards - 1, page: -1 .. MaxPages - 1, off: 0 .. PageSlots]
  <2>1. cur'[i] = [sh |-> -1, page |-> 0, off |-> 0]
    BY <1>1, <1>4 DEF Done, NoShard
  <2>2. 0 \in 0 .. PageSlots /\ -1 \in -1 .. NumShards - 1 /\ 0 \in -1 .. MaxPages - 1
    BY ConstantFacts
  <2> QED
    BY <2>1, <2>2 DEF NoShard
<1>5. TypeOK'
  <2>1. ppage_id' \in [Shards -> -1 .. MaxPages - 1]
    BY <1>1, NewestFile
  <2>2. cur' \in [Recoverers -> [sh: -1 .. NumShards - 1, page: -1 .. MaxPages - 1, off: 0 .. PageSlots]]
    BY <1>1, <1>3, <1>4
  <2> QED
    BY <1>1, <1>2, <2>1, <2>2 DEF TypeOK
<1>6. WholePages'
  BY <1>1, WholeKept DEF Inv
<1>7. KeptInv'
  BY <1>1, <1>2 DEF Inv, KeptInv, Stored, LeftZeros, Filling
<1>8. \A s \in Shards : ppage_id'[s] = Newest(s)
  BY <1>1
<1>9. NewestInv'
  <2> SUFFICES ASSUME NEW s \in Shards, NEW p \in PageIds, p > ppage_id'[s], pm[s][p] # NoFile
               PROVE  FALSE
    BY <1>1 DEF NewestInv
  <2>1. p <= Newest(s) /\ Newest(s) \in Int /\ p \in Int
    BY NewestFile DEF PageIds
  <2> QED
    BY <1>8, <2>1
<1>10. BootInv' /\ ClosedInv'
  BY <1>1, <1>2 DEF Inv, BootInv, ClosedInv
<1>11. ScanInv'
  <2>1. \A s \in Shards : Newest(s)' = Newest(s)
    BY <1>1 DEF Newest, FilesOf
  <2>2. ASSUME NEW i \in Recoverers, NEW q \in Slots, cur'[i].sh # NoShard, q < cur'[i].off
        PROVE  FALSE
    BY <1>3, <1>4, <2>2 DEF Slots
  <2>3. ASSUME NEW s \in Shards, NEW p \in Int, NEW o \in Nat, p <= Newest(s)
        PROVE  \E i \in Recoverers : ToCome(i, s, p, o)'
    <3>1. PICK i \in Recoverers : RangeBegin(i) <= s /\ s < RangeEnd(i)
      BY RangesCover
    <3>2. RangeBegin(i) \in Nat /\ RangeEnd(i) \in Nat /\ s \in Nat
      BY RangesCover DEF Shards
    <3>3. RangeBegin(i) < RangeEnd(i)
      BY <3>1, <3>2
    <3>4. /\ cur'[i].sh = RangeBegin(i) /\ cur'[i].page = Newest(RangeBegin(i)) /\ cur'[i].off = 0
      BY <1>3, <3>3
    <3>5. Newest(s) \in Int
      BY NewestFile
    <3>6. ToCome(i, s, p, o)'
      BY <2>3, <3>1, <3>2, <3>4, <3>5 DEF ToCome, NoShard
    <3> QED
      BY <3>6
  <2>4. ASSUME NEW s \in Shards, NEW p \in PageIds, NEW o \in Slots, pm[s][p][o] \in Keys
        PROVE  \E i \in Recoverers : ToCome(i, s, p, o)'
    <3>1. pm[s][p] # NoFile
      BY <2>4, PageFacts, ConstantFacts
    <3>2. p <= Newest(s) /\ p \in Int /\ o \in Nat
      BY <3>1, NewestFile DEF PageIds, Slots
    <3> QED
      BY <2>3, <3>2
  <2>5. ASSUME NEW s \in Shards
        PROVE  \E i \in Recoverers : ToCome(i, s, ppage_id[s], PageSlots)'
    <3>1. PICK p \in Int : p = ppage_id'[s] /\ p <= Newest(s)
      BY <1>8, NewestFile
    <3>2. PICK i \in Recoverers : ToCome(i, s, p, PageSlots)'
      BY <2>3, <3>1, ConstantFacts
    <3>3. ToCome(i, s, ppage_id[s], PageSlots)'
      BY <3>1, <3>2 DEF ToCome
    <3> QED
      BY <3>3
  <2> QED
    BY <1>1, <1>8, <2>1, <2>2, <2>4, <2>5 DEF ScanInv
<1> QED
  BY <1>2, <1>5, <1>6, <1>7, <1>9, <1>10, <1>11, ClosedStep DEF Inv

-----------------------------------------------------------------------------
\* The scan.

\* What a step of recovery thread i leaves alone.
ScanFrame(i) ==
  /\ phase = "scan" /\ i \in Recoverers /\ cur[i].sh # NoShard
  /\ UNCHANGED <<phase, pm, ppage_id, start_addr, pc, key, slot, acked, crashes>>
  /\ \A j \in Recoverers : j # i => cur'[j] = cur[j]

\* The type of a thread's position.
LEMMA CurFacts ==
  ASSUME TypeOK, NEW i \in Recoverers, cur[i].sh # NoShard
  PROVE  /\ cur[i].sh \in Shards /\ cur[i].sh \in Int /\ cur[i].page \in -1 .. MaxPages - 1
         /\ cur[i].page \in Int /\ cur[i].off \in 0 .. PageSlots /\ cur[i].off \in Int
         /\ cur[i].page >= 0 => cur[i].page \in PageIds
<1>1. cur[i] \in [sh: -1 .. NumShards - 1, page: -1 .. MaxPages - 1, off: 0 .. PageSlots]
  BY DEF TypeOK
<1> QED
  BY <1>1, ConstantFacts DEF Shards, NoShard, PageIds

\* What the scan keeps anyway.
LEMMA ScanKeeps ==
  ASSUME Inv, NEW i, ScanFrame(i), TypeOK', index \subseteq index',
         \A k \in index' : k \in index \/ (k \in Keys /\ Stored(k)) \/ (k = ZeroKey /\ LeftZeros),
         ScanInv'
  PROVE  Inv'
<1>1. phase' = "scan" /\ phase' \notin Up /\ \A w \in Writers : pc'[w] = "idle" /\ pc[w] = "idle"
  BY DEF ScanFrame, Inv, ClosedInv, Up
<1>2. WholePages'
  BY WholeKept DEF Inv, ScanFrame
<1>3. KeptInv'
  <2>1. (\A k : Stored(k)' <=> Stored(k)) /\ (LeftZeros => LeftZeros')
    BY <1>1 DEF ScanFrame, Stored, LeftZeros, Filling
  <2>2. acked' = acked
    BY DEF ScanFrame
  <2> QED
    BY <2>1, <2>2 DEF Inv, KeptInv
<1>4. NewestInv' /\ BootInv' /\ ClosedInv'
  BY <1>1 DEF ScanFrame, Inv, NewestInv, BootInv, ClosedInv
<1> QED
  BY <1>1, <1>2, <1>3, <1>4, ClosedStep DEF Inv

\* A step of the scan is right when thread i leaves out no log and no tail.
LEMMA ScanCombine ==
  ASSUME Inv, NEW i, ScanFrame(i), index \subseteq index',
         \A q \in Slots : cur'[i].sh # NoShard /\ cur'[i].page >= 0 /\ q < cur'[i].off =>
           IsInsert(pm[cur'[i].sh][cur'[i].page][q]),
         \A s \in Shards, p \in PageIds, o \in Slots : ToCome(i, s, p, o) /\ pm[s][p][o] \in Keys =>
           ToCome(i, s, p, o)' \/ pm[s][p][o] \in index' \/ BehindHole(s, p, o),
         \A s \in Shards : Tail(s) => Tail(s)',
         \A s \in Shards : \A p : p = ppage_id[s] /\ ToCome(i, s, p, PageSlots) =>
           ToCome(i, s, p, PageSlots)' \/ Tail(s)'
  PROVE  ScanInv'
<1>1. /\ phase = "scan" /\ phase' = "scan" /\ UNCHANGED <<pm, ppage_id>> /\ i \in Recoverers
      /\ \A j \in Recoverers : j # i => cur'[j] = cur[j]
  BY DEF ScanFrame
<1>2. \A s \in Shards : ppage_id'[s] = Newest(s)'
  BY <1>1 DEF Inv, ScanInv, Newest, FilesOf
<1>3. \A j \in Recoverers : \A q \in Slots :
         cur'[j].sh # NoShard /\ cur'[j].page >= 0 /\ q < cur'[j].off =>
           IsInsert(pm'[cur'[j].sh][cur'[j].page][q])
  BY <1>1 DEF Inv, ScanInv, IsInsert
<1>4. ASSUME NEW j \in Recoverers, j # i, NEW s, NEW p, NEW o, ToCome(j, s, p, o)
      PROVE  ToCome(j, s, p, o)'
  BY <1>1, <1>4 DEF ToCome
<1>5. ASSUME NEW s \in Shards, NEW p \in PageIds, NEW o \in Slots, pm'[s][p][o] \in Keys
      PROVE  \/ pm'[s][p][o] \in index' \/ BehindHole(s, p, o)'
             \/ \E j \in Recoverers : ToCome(j, s, p, o)'
  <2>1. BehindHole(s, p, o) => BehindHole(s, p, o)'
    BY <1>1 DEF BehindHole
  <2>2. \/ pm[s][p][o] \in index \/ BehindHole(s, p, o)
        \/ \E j \in Recoverers : ToCome(j, s, p, o)
    BY <1>1, <1>5 DEF Inv, ScanInv
  <2> QED
    BY <1>1, <1>4, <1>5, <2>1, <2>2
<1>6. ASSUME NEW s \in Shards
      PROVE  Tail(s)' \/ \E j \in Recoverers : ToCome(j, s, ppage_id[s], PageSlots)'
  <2>1. PICK p : p = ppage_id[s] /\ p = ppage_id'[s]
    BY <1>1
  <2>2. Tail(s) \/ \E j \in Recoverers : ToCome(j, s, p, PageSlots)
    BY <1>1, <2>1 DEF Inv, ScanInv
  <2>3. Tail(s)' \/ \E j \in Recoverers : ToCome(j, s, p, PageSlots)'
    BY <1>1, <1>4, <2>1, <2>2
  <2> QED
    BY <2>1, <2>3 DEF ToCome
<1> QED
  BY <1>1, <1>2, <1>3, <1>5, <1>6 DEF ScanInv

\* An INSERT log is taken into the index.
LEMMA ScanLogStep ==
  ASSUME Inv, NEW i \in Recoverers, ScanLog(i)
  PROVE  Inv'
<1>1. PICK c : c = cur[i]
  OBVIOUS
<1>2. /\ phase = "scan" /\ c.sh # NoShard /\ c.page >= 0 /\ c.off < PageSlots
      /\ IsInsert(pm[c.sh][c.page][c.off]) /\ index' = index \union {KeyOf(pm[c.sh][c.page][c.off])}
      /\ cur' = [cur EXCEPT ![i].off = @ + 1]
      /\ UNCHANGED <<phase, pm, ppage_id, sz_allocated, start_addr, pc, key, slot, acked, crashes>>
  BY <1>1 DEF ScanLog, Scanning, AtInsert, InLog, ppages, writers
<1>3. TypeOK /\ c \in [sh: -1 .. NumShards - 1, page: -1 .. MaxPages - 1, off: 0 .. PageSlots]
  BY <1>1 DEF Inv, TypeOK
<1>4. /\ c.sh \in Shards /\ c.sh \in Int /\ c.page \in PageIds /\ c.page \in Int
      /\ c.off \in Slots /\ c.off \in Nat
  BY <1>1, <1>2, <1>3, CurFacts, ConstantFacts DEF Slots
<1>5. PICK d : d = [sh |-> c.sh, page |-> c.page, off |-> c.off + 1]
  OBVIOUS
<1>6. d \in [sh: -1 .. NumShards - 1, page: -1 .. MaxPages - 1, off: 0 .. PageSlots]
  BY <1>2, <1>3, <1>4, <1>5, ConstantFacts
<1>7. cur' = [cur EXCEPT ![i] = d]
  <2>1. d = [c EXCEPT !.off = c.off + 1]
    BY <1>3, <1>5
  <2> QED
    BY <1>1, <1>2, <2>1
<1>8. cur'[i] = d /\ \A j \in Recoverers : j # i => cur'[j] = cur[j]
  BY <1>3, <1>7 DEF TypeOK
<1>9. ScanFrame(i)
  BY <1>1, <1>2, <1>8 DEF ScanFrame
<1>10. \/ pm[c.sh][c.page][c.off] \in Keys /\ index' = index \union {pm[c.sh][c.page][c.off]}
       \/ pm[c.sh][c.page][c.off] = "zeros" /\ index' = index \union {ZeroKey}
  BY <1>2, ConstantFacts DEF IsInsert, KeyOf
<1>11. TypeOK'
  BY <1>2, <1>3, <1>6, <1>7, <1>10 DEF TypeOK
<1>12. ASSUME NEW k \in index'
       PROVE  k \in index \/ (k \in Keys /\ Stored(k)) \/ (k = ZeroKey /\ LeftZeros)
  <2>1. CASE pm[c.sh][c.page][c.off] \in Keys /\ index' = index \union {pm[c.sh][c.page][c.off]}
    BY <1>4, <1>12, <2>1 DEF Stored
  <2>2. CASE pm[c.sh][c.page][c.off] = "zeros" /\ index' = index \union {ZeroKey}
    <3>1. pm[c.sh][c.page] = Zeros
      BY <1>4, <2>2 DEF Inv, WholePages
    <3>2. \A w \in Writers : pc[w] = "idle"
      BY <1>2 DEF Inv, ClosedInv, Up
    <3>3. LeftZeros
      BY <1>4, <3>1, <3>2 DEF LeftZeros, Filling
    <3> QED
      BY <1>12, <2>2, <3>3
  <2> QED
    BY <1>10, <2>1, <2>2
<1>13. \A q \in Slots : q < d.off => IsInsert(pm[d.sh][d.page][q])
  <2> SUFFICES ASSUME NEW q \in Slots, q < c.off + 1
               PROVE  IsInsert(pm[c.sh][c.page][q])
    BY <1>5
  <2>1. q < c.off \/ q = c.off
    BY <1>4 DEF Slots
  <2> QED
    BY <1>1, <1>2, <2>1 DEF Inv, ScanInv
<1>14. ASSUME NEW s \in Shards, NEW p \in PageIds, NEW o \in Slots,
              ToCome(i, s, p, o), pm[s][p][o] \in Keys
       PROVE  ToCome(i, s, p, o)' \/ pm[s][p][o] \in index'
  <2>1. CASE s = c.sh /\ p = c.page /\ o = c.off
    BY <1>10, <1>14, <2>1, ConstantFacts
  <2>2. CASE ~(s = c.sh /\ p = c.page /\ o = c.off)
    BY <1>1, <1>4, <1>5, <1>8, <1>14, <2>2 DEF ToCome, Slots
  <2> QED
    BY <2>1, <2>2
<1>15. \A s \in Shards : Tail(s) => Tail(s)'
  BY <1>2 DEF Tail, BehindHole
<1>16. \A s \in Shards : \A p : ToCome(i, s, p, PageSlots) => ToCome(i, s, p, PageSlots)'
  BY <1>1, <1>2, <1>4, <1>5, <1>8, ConstantFacts DEF ToCome
<1>17. ScanInv'
  BY <1>2, <1>8, <1>9, <1>13, <1>14, <1>15, <1>16, ScanCombine
<1> QED
  BY <1>2, <1>9, <1>11, <1>12, <1>17, ScanKeeps

\* A page ends at a slot that is no INSERT log: the logs after it are behind a hole.
LEMMA ScanPageEndStep ==
  ASSUME Inv, NEW i \in Recoverers, ScanPageEnd(i)
  PROVE  Inv'
<1>1. PICK c : c = cur[i]
  OBVIOUS
<1>2. /\ phase = "scan" /\ c.sh # NoShard /\ c.page >= 0 /\ ~AtInsert(c)
      /\ sz_allocated' = (IF c.page = ppage_id[c.sh]
                          THEN [sz_allocated EXCEPT ![c.sh] = c.off] ELSE sz_allocated)
      /\ cur' = [cur EXCEPT ![i].page = @ - 1, ![i].off = 0]
      /\ UNCHANGED <<phase, pm, ppage_id, start_addr, index, pc, key, slot, acked, crashes>>
  BY <1>1 DEF ScanPageEnd, Scanning, writers
<1>3. TypeOK /\ c \in [sh: -1 .. NumShards - 1, page: -1 .. MaxPages - 1, off: 0 .. PageSlots]
  BY <1>1 DEF Inv, TypeOK
<1>4. /\ c.sh \in Shards /\ c.sh \in Int /\ c.page \in PageIds /\ c.page \in Int
      /\ c.off \in Nat /\ c.off \in 0 .. PageSlots
  BY <1>1, <1>2, <1>3, CurFacts, ConstantFacts
<1>5. PICK d : d = [sh |-> c.sh, page |-> c.page - 1, off |-> 0]
  OBVIOUS
<1>6. d \in [sh: -1 .. NumShards - 1, page: -1 .. MaxPages - 1, off: 0 .. PageSlots]
  BY <1>2, <1>3, <1>4, <1>5, ConstantFacts
<1>7. cur' = [cur EXCEPT ![i] = d]
  <2>1. d = [c EXCEPT !.page = c.page - 1, !.off = 0]
    <3>1. PICK e : e = [sh |-> c.sh, page |-> c.page - 1, off |-> c.off]
      OBVIOUS
    <3>2. e = [c EXCEPT !.page = c.page - 1]
      BY <1>3, <3>1
    <3>3. d = [e EXCEPT !.off = 0]
      BY <1>5, <3>1
    <3> QED
      BY <3>2, <3>3
  <2> QED
    BY <1>1, <1>2, <2>1
<1>8. cur'[i] = d /\ \A j \in Recoverers : j # i => cur'[j] = cur[j]
  BY <1>3, <1>7 DEF TypeOK
<1>9. ScanFrame(i)
  BY <1>1, <1>2, <1>8 DEF ScanFrame
<1>10. sz_allocated' \in [Shards -> 0 .. PageSlots]
  BY <1>2, <1>3, <1>4 DEF TypeOK
<1>11. TypeOK'
  BY <1>2, <1>3, <1>6, <1>7, <1>10 DEF TypeOK
<1>12. ASSUME NEW o \in Slots, o >= c.off, pm[c.sh][c.page][o] \in Keys
       PROVE  BehindHole(c.sh, c.page, o)
  <2>1. c.off \in Slots /\ c.off < PageSlots
    BY <1>4, <1>12, ConstantFacts DEF Slots
  <2>2. ~IsInsert(pm[c.sh][c.page][c.off])
    BY <1>2, <2>1 DEF AtInsert, InLog
  <2>3. pm[c.sh][c.page][c.off] \in Contents
    BY <1>3, <1>4, <2>1 DEF TypeOK
  <2>4. pm[c.sh][c.page][c.off] # "none"
    <3>1. pm[c.sh][c.page] # NoFile
      BY <1>12, PageFacts, ConstantFacts
    <3> QED
      BY <1>4, <2>1, <3>1 DEF Inv, WholePages
  <2>5. pm[c.sh][c.page][c.off] = "ones"
    BY <2>2, <2>3, <2>4 DEF Contents, IsInsert
  <2>6. c.off # o
    BY <1>12, <2>5, ConstantFacts
  <2>7. c.off \in 0 .. o - 1
    BY <1>4, <1>12, <2>6 DEF Slots
  <2> QED
    BY <2>5, <2>7 DEF BehindHole
<1>13. ASSUME NEW s \in Shards, NEW p \in PageIds, NEW o \in Slots,
              ToCome(i, s, p, o), pm[s][p][o] \in Keys
       PROVE  ToCome(i, s, p, o)' \/ BehindHole(s, p, o)
  <2>1. CASE s = c.sh /\ p = c.page
    <3>1. o >= c.off
      BY <1>1, <1>4, <1>13, <2>1 DEF ToCome
    <3> QED
      BY <1>12, <1>13, <2>1, <3>1
  <2>2. CASE ~(s = c.sh /\ p = c.page)
    <3>1. s > c.sh \/ (s = c.sh /\ p < c.page)
      BY <1>1, <1>13, <2>2 DEF ToCome
    <3>2. s > c.sh \/ (s = c.sh /\ (p < d.page \/ (p = d.page /\ d.off <= o)))
      BY <1>4, <1>5, <3>1 DEF PageIds, Slots
    <3> QED
      BY <1>1, <1>5, <1>8, <1>13, <3>2 DEF ToCome
  <2> QED
    BY <2>1, <2>2
<1>14. c.page = ppage_id[c.sh] => sz_allocated'[c.sh] = c.off
  BY <1>2, <1>3, <1>4 DEF TypeOK
<1>15. ASSUME NEW s \in Shards, s = c.sh, c.page = ppage_id[c.sh]
       PROVE  Tail(s)'
  BY <1>2, <1>12, <1>14, <1>15 DEF Tail, BehindHole
<1>16. ASSUME NEW s \in Shards, ~(s = c.sh /\ c.page = ppage_id[c.sh])
       PROVE  sz_allocated'[s] = sz_allocated[s]
  BY <1>2, <1>3, <1>4, <1>16 DEF TypeOK
<1>17. ASSUME NEW s \in Shards, Tail(s)
       PROVE  Tail(s)'
  <2>1. CASE s = c.sh /\ c.page = ppage_id[c.sh]
    BY <1>15, <2>1
  <2>2. CASE ~(s = c.sh /\ c.page = ppage_id[c.sh])
    BY <1>2, <1>16, <1>17, <2>2 DEF Tail, BehindHole
  <2> QED
    BY <2>1, <2>2
<1>18. ASSUME NEW s \in Shards, NEW p, p = ppage_id[s], ToCome(i, s, p, PageSlots)
       PROVE  ToCome(i, s, p, PageSlots)' \/ Tail(s)'
  <2>1. CASE s = c.sh /\ p = c.page
    BY <1>15, <1>18, <2>1
  <2>2. CASE ~(s = c.sh /\ p = c.page)
    <3>1. p \in Int
      BY <1>3, <1>18 DEF TypeOK
    <3>2. s > c.sh \/ (s = c.sh /\ p < c.page)
      BY <1>1, <1>18, <2>2 DEF ToCome
    <3>3. s > c.sh \/ (s = c.sh /\ (p < d.page \/ (p = d.page /\ d.off <= PageSlots)))
      BY <1>4, <1>5, <3>1, <3>2, ConstantFacts
    <3> QED
      BY <1>1, <1>5, <1>8, <1>18, <3>3 DEF ToCome
  <2> QED
    BY <2>1, <2>2
<1>19. ScanInv'
  <2>1. \A q \in Slots : ~(q < cur'[i].off)
    BY <1>5, <1>8 DEF Slots
  <2> QED
    BY <1>2, <1>9, <1>13, <1>17, <1>18, <2>1, ScanCombine
<1> QED
  BY <1>2, <1>9, <1>11, <1>19, ScanKeeps

\* A shard ends: the next one of the thread's range, or none.
LEMMA ScanShardEndStep ==
  ASSUME Inv, NEW i \in Recoverers, ScanShardEnd(i)
  PROVE  Inv'
<1>1. PICK c : c = cur[i]
  OBVIOUS
<1>2. /\ phase = "scan" /\ c.sh # NoShard /\ c.page < 0
      /\ cur' = [cur EXCEPT ![i] = IF c.sh + 1 < RangeEnd(i) THEN At(c.sh + 1) ELSE Done]
      /\ UNCHANGED <<phase, pm, ppage_id, sz_allocated, start_addr, index, pc, key, slot, acked, crashes>>
  BY <1>1 DEF ScanShardEnd, Scanning, ppages, writers
<1>3. TypeOK
  BY DEF Inv
<1>4. c.sh \in Shards /\ c.sh \in Int /\ c.page = -1
  BY <1>1, <1>2, <1>3, CurFacts
<1>5. RangeEnd(i) \in Nat /\ RangeEnd(i) <= NumShards
  BY RangesCover
<1>6. PICK d : d = IF c.sh + 1 < RangeEnd(i) THEN At(c.sh + 1) ELSE Done
  OBVIOUS
<1>7. c.sh + 1 < RangeEnd(i) =>
        /\ c.sh + 1 \in Shards /\ d.sh = c.sh + 1 /\ d.page = Newest(c.sh + 1) /\ d.off = 0
        /\ d \in [sh: -1 .. NumShards - 1, page: -1 .. MaxPages - 1, off: 0 .. PageSlots]
  <2> SUFFICES ASSUME c.sh + 1 < RangeEnd(i)
               PROVE  /\ c.sh + 1 \in Shards /\ d.sh = c.sh + 1 /\ d.page = Newest(c.sh + 1) /\ d.off = 0
                      /\ d \in [sh: -1 .. NumShards - 1, page: -1 .. MaxPages - 1, off: 0 .. PageSlots]
    OBVIOUS
  <2>1. c.sh + 1 \in Shards
    BY <1>4, <1>5, ConstantFacts DEF Shards
  <2>2. d = [sh |-> c.sh + 1, page |-> Newest(c.sh + 1), off |-> 0]
    BY <1>6 DEF At
  <2>3. /\ Newest(c.sh + 1) \in -1 .. MaxPages - 1 /\ 0 \in 0 .. PageSlots
        /\ c.sh + 1 \in -1 .. NumShards - 1
    BY <2>1, NewestFile, ConstantFacts DEF Shards
  <2> QED
    BY <2>1, <2>2, <2>3
<1>8. ~(c.sh + 1 < RangeEnd(i)) =>
        /\ d.sh = NoShard
        /\ d \in [sh: -1 .. NumShards - 1, page: -1 .. MaxPages - 1, off: 0 .. PageSlots]
  BY <1>6, ConstantFacts DEF Done, NoShard
<1>9. cur'[i] = d /\ \A j \in Recoverers : j # i => cur'[j] = cur[j]
  BY <1>2, <1>3, <1>6 DEF TypeOK
<1>10. ScanFrame(i)
  BY <1>1, <1>2, <1>9 DEF ScanFrame
<1>11. TypeOK'
  <2>1. d \in [sh: -1 .. NumShards - 1, page: -1 .. MaxPages - 1, off: 0 .. PageSlots]
    BY <1>7, <1>8
  <2>2. cur' = [cur EXCEPT ![i] = d]
    BY <1>2, <1>6
  <2> QED
    BY <1>2, <1>3, <2>1, <2>2 DEF TypeOK
<1>12. ASSUME NEW s \in Shards, NEW p \in Int, NEW o \in Nat, ToCome(i, s, p, o), p <= Newest(s),
              p >= 0
       PROVE  ToCome(i, s, p, o)'
  <2>1. s > c.sh /\ s < RangeEnd(i) /\ s \in Int
    BY <1>1, <1>4, <1>12 DEF ToCome, Shards
  <2>2. c.sh + 1 < RangeEnd(i)
    BY <1>4, <1>5, <2>1
  <2>3. Newest(s) \in Int
    BY NewestFile
  <2>4. cur'[i].sh = c.sh + 1 /\ cur'[i].page = Newest(c.sh + 1) /\ cur'[i].off = 0
    BY <1>7, <1>9, <2>2
  <2>5. c.sh + 1 # NoShard
    BY <1>4, ConstantFacts DEF NoShard, Shards
  <2>6. CASE s = c.sh + 1
    BY <1>4, <1>12, <2>1, <2>3, <2>4, <2>5, <2>6 DEF ToCome
  <2>7. CASE s # c.sh + 1
    <3>1. c.sh + 1 < s
      BY <1>4, <2>1, <2>7
    <3> QED
      BY <2>1, <2>4, <2>5, <3>1 DEF ToCome
  <2> QED
    BY <2>6, <2>7
<1>13. ASSUME NEW s \in Shards, NEW p \in PageIds, NEW o \in Slots,
              ToCome(i, s, p, o), pm[s][p][o] \in Keys
       PROVE  ToCome(i, s, p, o)'
  <2>1. pm[s][p] # NoFile
    BY <1>13, PageFacts, ConstantFacts
  <2>2. p <= Newest(s) /\ p \in Int /\ p >= 0 /\ o \in Nat
    BY <2>1, NewestFile DEF PageIds, Slots
  <2> QED
    BY <1>12, <1>13, <2>2
<1>14. \A s \in Shards : Tail(s) => Tail(s)'
  BY <1>2 DEF Tail, BehindHole
<1>15. ASSUME NEW s \in Shards, NEW p, p = ppage_id[s], ToCome(i, s, p, PageSlots)
       PROVE  ToCome(i, s, p, PageSlots)' \/ Tail(s)'
  <2>1. p \in Int /\ p <= Newest(s)
    BY <1>2, <1>3, <1>15 DEF Inv, ScanInv, TypeOK
  <2>2. CASE p >= 0
    BY <1>12, <1>15, <2>1, <2>2, ConstantFacts
  <2>3. CASE ~(p >= 0)
    BY <1>2, <1>15, <2>3 DEF Tail
  <2> QED
    BY <2>2, <2>3
<1>16. ScanInv'
  <2>1. \A q \in Slots : cur'[i].sh # NoShard => ~(q < cur'[i].off)
    BY <1>7, <1>8, <1>9 DEF Slots
  <2> QED
    BY <1>2, <1>10, <1>13, <1>14, <1>15, <2>1, ScanCombine
<1> QED
  BY <1>2, <1>10, <1>11, <1>16, ScanKeeps

\* All threads are done: nothing is left to come.
LEMMA JoinStep ==
  ASSUME Inv, Join
  PROVE  Inv'
<1>1. /\ phase = "scan" /\ phase' = "run" /\ \A i \in Recoverers : cur[i].sh = NoShard
      /\ UNCHANGED <<pm, ppage_id, sz_allocated, start_addr, index, pc, key, slot, cur, acked, crashes>>
  BY DEF Join, ppages, writers, Done
<1>2. TypeOK /\ (\A w \in Writers : pc[w] = "idle") /\ \A s \in Shards : start_addr[s] = NULL
  BY <1>1 DEF Inv, ClosedInv, Up
<1>3. TypeOK' /\ WholePages' /\ BootInv' /\ ScanInv'
  <2>1. TypeOK'
    BY <1>1, <1>2 DEF TypeOK
  <2> QED
    BY <1>1, <2>1 DEF Inv, WholePages, BootInv, ScanInv
<1>4. ClosedInv' /\ NewestInv'
  BY <1>1, <1>2 DEF Inv, ClosedInv, NewestInv, Up
<1>5. KeptInv'
  BY <1>1 DEF Inv, KeptInv, Stored, LeftZeros, Filling
<1>6. MappedInv' /\ FillInv' /\ SlotInv'
  BY <1>1, <1>2 DEF MappedInv, FillInv, SlotInv
<1>7. \A i \in Recoverers : \A s, p, o : ~ToCome(i, s, p, o)
  BY <1>1 DEF ToCome
<1>8. FoundInv' /\ TailInv'
  <2>1. \A s \in Shards : Tail(s)
    BY <1>1, <1>7 DEF Inv, ScanInv
  <2>2. \A s \in Shards, p \in PageIds, o \in Slots :
          pm[s][p][o] \in Keys => pm[s][p][o] \in index \/ BehindHole(s, p, o)
    BY <1>1, <1>7 DEF Inv, ScanInv
  <2>3. TailInv'
    BY <1>1, <2>1 DEF TailInv, Tail, BehindHole
  <2>4. FoundInv'
    BY <1>1, <2>2 DEF FoundInv, Known, BehindHole
  <2> QED
    BY <2>3, <2>4
<1> QED
  BY <1>3, <1>4, <1>5, <1>6, <1>8 DEF Inv

-----------------------------------------------------------------------------
\* The writers of an open store.

\* What there is to show for a step of a writer.
LEMMA WriterCombine ==
  ASSUME Inv, phase = "run", phase' \in Up, TypeOK', WholePages', KeptInv', NewestInv',
         \A w \in Writers : pc'[w] # "idle" => key'[w] \in Keys,
         MappedInv', FillInv', SlotInv', FoundInv', TailInv'
  PROVE  Inv'
<1>1. BootInv' /\ ScanInv' /\ ClosedInv'
  BY DEF BootInv, ScanInv, ClosedInv, Up
<1> QED
  BY <1>1 DEF Inv

\* The shard of a writer, and the slot it has.
LEMMA WriterFacts ==
  ASSUME Inv, NEW w \in Writers, pc[w] # "idle"
  PROVE  /\ key[w] \in Keys /\ ShardOf[key[w]] \in Shards
         /\ slot[w] \in [page: -1 .. MaxPages - 1, off: 0 .. PageSlots - 1]
         /\ slot[w].off \in Slots /\ slot[w].page \in Int
         /\ slot[w].page # NULL => slot[w].page \in PageIds
BY ConstantFacts DEF Inv, ClosedInv, TypeOK, Slots, PageIds, NULL

\* The store is open: the parts that matter then.
LEMMA OpenFacts ==
  ASSUME Inv, phase = "run"
  PROVE  /\ TypeOK
         /\ \A s \in Shards, p \in PageIds : p > ppage_id[s] => pm[s][p] = NoFile
         /\ \A s \in Shards : ppage_id[s] \in Int /\ start_addr[s] \in Int /\ sz_allocated[s] \in Nat
         /\ \A s \in Shards : start_addr[s] # NULL =>
              /\ start_addr[s] \in PageIds /\ start_addr[s] <= ppage_id[s]
              /\ \A o \in Slots : o >= sz_allocated[s] => pm[s][start_addr[s]][o] = "ones"
              /\ OwnPage(s, start_addr[s])
         /\ \A s \in Shards, p \in PageIds, o \in Slots :
              pm[s][p][o] \in Keys => Known(s, p, o) \/ BehindHole(s, p, o)
         /\ \A s \in Shards : Tail(s)
<1>1. TypeOK /\ \A s \in Shards, p \in PageIds : p > ppage_id[s] => pm[s][p] = NoFile
  BY DEF Inv, NewestInv, Up
<1>2. \A s \in Shards : /\ ppage_id[s] \in Int /\ start_addr[s] \in Int /\ sz_allocated[s] \in Nat
                        /\ start_addr[s] # NULL => start_addr[s] \in PageIds
  BY <1>1, ConstantFacts DEF TypeOK, PageIds, NULL
<1>3. \A s \in Shards : start_addr[s] # NULL =>
              /\ start_addr[s] <= ppage_id[s]
              /\ \A o \in Slots : o >= sz_allocated[s] => pm[s][start_addr[s]][o] = "ones"
              /\ OwnPage(s, start_addr[s])
  BY DEF Inv, MappedInv, Up
<1>4. \A s \in Shards, p \in PageIds, o \in Slots :
              pm[s][p][o] \in Keys => Known(s, p, o) \/ BehindHole(s, p, o)
  BY DEF Inv, FoundInv, Up
<1>5. \A s \in Shards : Tail(s)
  BY DEF Inv, TailInv, Up
<1> QED
  BY <1>1, <1>2, <1>3, <1>4, <1>5

\* A writer takes a key, or the process exits for want of space.
LEMMA CallStep ==
  ASSUME Inv, NEW w \in Writers,
         (\E k \in Keys : Call(w, k)) \/ OutOfSpace(w)
  PROVE  Inv'
<1>1. /\ phase = "run" /\ phase' \in Up
      /\ UNCHANGED <<pm, ppage_id, sz_allocated, start_addr, index, slot, cur, acked, crashes>>
      /\ \A u \in Writers : \/ pc'[u] = pc[u] /\ key'[u] = key[u]
                            \/ pc[u] = "idle" /\ pc'[u] = "alloc" /\ key'[u] \in Keys
      /\ TypeOK'
  <2>1. TypeOK
    BY DEF Inv
  <2>2. ASSUME NEW k \in Keys, Call(w, k)
        PROVE  /\ phase = "run" /\ phase' \in Up
               /\ UNCHANGED <<pm, ppage_id, sz_allocated, start_addr, index, slot, cur, acked, crashes>>
               /\ \A u \in Writers : \/ pc'[u] = pc[u] /\ key'[u] = key[u]
                                     \/ pc[u] = "idle" /\ pc'[u] = "alloc" /\ key'[u] \in Keys
               /\ TypeOK'
    BY <2>1, <2>2 DEF Call, TypeOK, ppages, Up
  <2>3. CASE OutOfSpace(w)
    BY <2>1, <2>3 DEF OutOfSpace, TypeOK, ppages, writers, Up
  <2> QED
    BY <2>2, <2>3
<1>2. WholePages'
  BY <1>1, WholeKept DEF Inv
<1>3. \A s, p, o : InFlight(s, p, o)' <=> InFlight(s, p, o)
  BY <1>1 DEF InFlight
<1>4. \A s, p : Filling(s, p)' <=> Filling(s, p)
  BY <1>1 DEF Filling
<1>5. KeptInv'
  BY <1>1, <1>4 DEF Inv, KeptInv, LeftZeros, Stored
<1>6. NewestInv' /\ \A u \in Writers : pc'[u] # "idle" => key'[u] \in Keys
  BY <1>1 DEF Inv, NewestInv, ClosedInv, Up
<1>7. \A s, p : OwnPage(s, p)' <=> OwnPage(s, p)
  BY <1>1, <1>3 DEF OwnPage, Known
<1>8. MappedInv'
  BY <1>1, <1>3 DEF Inv, MappedInv, OwnPage, Known, Up
<1>9. FillInv'
  BY <1>1 DEF Inv, FillInv
<1>10. SlotInv'
  BY <1>1, <1>3 DEF Inv, SlotInv, OwnPage, Known
<1>11. FoundInv' /\ TailInv'
  BY <1>1, <1>3 DEF Inv, FoundInv, TailInv, Tail, BehindHole, Known, Up
<1> QED
  BY <1>1, <1>2, <1>5, <1>6, <1>8, <1>9, <1>10, <1>11, WriterCombine

\* A slot of a page that has room; the page may be none at all.
LEMMA AllocStep ==
  ASSUME Inv, NEW w \in Writers, Alloc(w)
  PROVE  Inv'
<1>1. PICK s : s = ShardOf[key[w]]
  OBVIOUS
<1>2. /\ phase = "run" /\ pc[w] = "alloc" /\ sz_allocated[s] < PageSlots
      /\ slot' = [slot EXCEPT ![w] = [page |-> start_addr[s], off |-> sz_allocated[s]]]
      /\ sz_allocated' = [sz_allocated EXCEPT ![s] = @ + 1]
      /\ pc' = [pc EXCEPT ![w] = "store"]
      /\ UNCHANGED <<phase, pm, ppage_id, start_addr, index, key, cur, acked, crashes>>
  BY <1>1 DEF Alloc, HasRoom
<1>3. TypeOK /\ s \in Shards /\ key[w] \in Keys
  BY <1>1, <1>2, WriterFacts DEF Inv
<1>4. PICK n \in Nat : n = sz_allocated[s] /\ n \in Slots
  BY <1>2, <1>3, ConstantFacts DEF TypeOK, Slots
<1>5. PICK p : p = start_addr[s] /\ p \in -1 .. MaxPages - 1
  BY <1>3 DEF TypeOK
<1>6. /\ slot'[w] = [page |-> p, off |-> n] /\ slot'[w].page = p /\ slot'[w].off = n
      /\ \A u \in Writers : u # w => slot'[u] = slot[u] /\ pc'[u] = pc[u]
      /\ pc'[w] = "store" /\ sz_allocated'[s] = n + 1
      /\ \A t \in Shards : t # s => sz_allocated'[t] = sz_allocated[t]
  BY <1>2, <1>3, <1>4, <1>5 DEF TypeOK
<1>7. TypeOK'
  <2>1. slot'[w] \in [page: -1 .. MaxPages - 1, off: 0 .. PageSlots - 1]
    BY <1>4, <1>5, <1>6 DEF Slots
  <2>2. n + 1 \in 0 .. PageSlots
    BY <1>2, <1>4, ConstantFacts
  <2> QED
    BY <1>2, <1>3, <1>4, <1>5, <1>6, <2>1, <2>2 DEF TypeOK
<1>8. WholePages'
  BY <1>2, WholeKept DEF Inv
<1>9. \A t, q, o : InFlight(t, q, o)' <=> InFlight(t, q, o)
  BY <1>2, <1>6 DEF InFlight
<1>10. \A t, q : Filling(t, q)' <=> Filling(t, q)
  BY <1>2, <1>6 DEF Filling
<1>11. KeptInv'
  BY <1>2, <1>10 DEF Inv, KeptInv, LeftZeros, Stored
<1>12. NewestInv' /\ \A u \in Writers : pc'[u] # "idle" => key'[u] \in Keys
  BY <1>2, <1>3, <1>6 DEF Inv, NewestInv, ClosedInv, Up
<1>13. \A t \in Shards : sz_allocated[t] \in Nat /\ sz_allocated'[t] \in Nat /\ sz_allocated[t] <= sz_allocated'[t]
  BY <1>2, <1>3, <1>4, <1>6, OpenFacts
<1>14. MappedInv'
  <2> SUFFICES ASSUME NEW t \in Shards, start_addr[t] # NULL
               PROVE  /\ start_addr[t] <= ppage_id[t]
                      /\ \A o \in Slots : o >= sz_allocated'[t] => pm[t][start_addr[t]][o] = "ones"
                      /\ OwnPage(t, start_addr[t])'
    BY <1>2 DEF MappedInv, OwnPage, Known, InFlight
  <2>1. /\ start_addr[t] <= ppage_id[t]
        /\ \A o \in Slots : o >= sz_allocated[t] => pm[t][start_addr[t]][o] = "ones"
        /\ OwnPage(t, start_addr[t])
    BY <1>2, OpenFacts
  <2>2. \A o \in Slots : o >= sz_allocated'[t] => o >= sz_allocated[t]
    BY <1>13 DEF Slots
  <2>3. OwnPage(t, start_addr[t])'
    BY <1>2, <1>9, <2>1 DEF OwnPage, Known
  <2> QED
    BY <2>1, <2>2, <2>3
<1>15. FillInv'
  BY <1>2, <1>6 DEF Inv, FillInv
<1>16. SlotInv'
  <2>1. ASSUME NEW u \in Writers, u # w, pc[u] \in {"store", "index"}, ShardOf[key[u]] = s,
               slot[u].page = p, p # NULL
        PROVE  slot[u].off < n
    BY <1>4, <1>5, <2>1 DEF Inv, SlotInv
  <2>2. ASSUME NEW u \in Writers, u # w, pc[u] \in {"store", "index"}, ShardOf[key[u]] = s, p # NULL
        PROVE  slot[u] # slot'[w]
    BY <1>4, <1>6, <2>1, <2>2
  <2>3. p # NULL => /\ p <= start_addr[s] /\ n < n + 1 /\ OwnPage(s, p) /\ pm[s][p][n] = "ones"
    BY <1>2, <1>3, <1>4, <1>5, OpenFacts
  <2> SUFFICES ASSUME NEW u \in Writers, pc'[u] \in {"store", "index"},
                      NEW t, t = ShardOf[key[u]], NEW q, q = slot'[u].page
               PROVE  /\ pc'[u] = "index" => q # NULL
                      /\ q # NULL =>
                           /\ q <= start_addr[t]
                           /\ q = start_addr[t] => slot'[u].off < sz_allocated'[t]
                           /\ OwnPage(t, q)
                           /\ pm[t][q][slot'[u].off] = IF pc'[u] = "store" THEN "ones" ELSE key[u]
                           /\ \A v \in Writers : /\ pc'[v] \in {"store", "index"} /\ ShardOf[key[v]] = t
                                                 /\ slot'[v] = slot'[u]
                                                 => v = u
    BY <1>2, <1>9 DEF SlotInv, OwnPage, Known
  <2>4. CASE u = w
    BY <1>1, <1>5, <1>6, <2>2, <2>3, <2>4
  <2>5. CASE u # w
    <3>1. pc[u] \in {"store", "index"} /\ pc[u] = pc'[u] /\ slot'[u] = slot[u]
      BY <1>6, <2>5
    <3>2. /\ pc[u] = "index" => q # NULL
          /\ q # NULL =>
               /\ q <= start_addr[t]
               /\ q = start_addr[t] => slot[u].off < sz_allocated[t]
               /\ OwnPage(t, q)
               /\ pm[t][q][slot[u].off] = IF pc[u] = "store" THEN "ones" ELSE key[u]
               /\ \A v \in Writers : /\ pc[v] \in {"store", "index"} /\ ShardOf[key[v]] = t
                                     /\ slot[v] = slot[u]
                                     => v = u
      BY <3>1 DEF Inv, SlotInv
    <3>3. t \in Shards /\ slot[u].off \in Int
      BY <3>1, WriterFacts DEF Slots
    <3>4. q # NULL /\ q = start_addr[t] => slot[u].off < sz_allocated'[t]
      BY <1>13, <3>2, <3>3
    <3>5. q # NULL => \A v \in Writers : /\ pc'[v] \in {"store", "index"} /\ ShardOf[key[v]] = t
                                         /\ slot'[v] = slot'[u]
                                         => v = u
      <4> SUFFICES ASSUME q # NULL, NEW v \in Writers, pc'[v] \in {"store", "index"},
                          ShardOf[key[v]] = t, slot'[v] = slot'[u]
                   PROVE  v = u
        OBVIOUS
      <4>1. CASE v = w
        <5>1. t = s /\ q = p
          BY <1>1, <1>6, <4>1
        <5> QED
          BY <2>2, <2>5, <3>1, <4>1, <5>1
      <4>2. CASE v # w
        BY <1>6, <3>1, <3>2, <4>2
      <4> QED
        BY <4>1, <4>2
    <3> QED
      BY <3>1, <3>2, <3>4, <3>5
  <2> QED
    BY <2>4, <2>5
<1>17. FoundInv'
  BY <1>2, <1>9 DEF Inv, FoundInv, BehindHole, Known
<1>18. TailInv'
  <2> SUFFICES ASSUME NEW t \in Shards
               PROVE  Tail(t)'
    BY DEF TailInv
  <2>1. Tail(t)
    BY <1>2, OpenFacts
  <2>2. \A o \in Slots : o >= sz_allocated'[t] => o >= sz_allocated[t]
    BY <1>13 DEF Slots
  <2> QED
    BY <1>2, <2>1, <2>2 DEF Tail, BehindHole
<1> QED
  BY <1>2, <1>7, <1>8, <1>11, <1>12, <1>14, <1>15, <1>16, <1>17, <1>18, WriterCombine DEF Up

\* A page without logs changes: nothing is behind another hole, no log is another.
LEMMA PageSwap ==
  ASSUME NEW s, NEW p, NEW X, PageWritten(s, p, X), UNCHANGED index,
         \A t, q, o : InFlight(t, q, o) => InFlight(t, q, o)'
  PROVE  /\ \A o \in Slots : pm[s][p][o] \notin Keys /\ pm'[s][p][o] \notin Keys
         /\ OwnPage(s, p)'
         /\ \A t \in Shards, q \in PageIds : t # s \/ q # p => (OwnPage(t, q) => OwnPage(t, q)')
         /\ \A t \in Shards, q \in PageIds, o \in Slots : t # s \/ q # p =>
              (Known(t, q, o) => Known(t, q, o)') /\ (BehindHole(t, q, o) => BehindHole(t, q, o)')
<1>1. \A o \in Slots : pm[s][p][o] \notin Keys /\ pm'[s][p][o] \notin Keys
  BY PageFacts, ConstantFacts DEF PageWritten
<1>2. \A t \in Shards, q \in PageIds : t # s \/ q # p => pm'[t][q] = pm[t][q]
  BY DEF PageWritten
<1>3. OwnPage(s, p)'
  BY <1>1 DEF OwnPage
<1>4. \A t \in Shards, q \in PageIds : t # s \/ q # p => (OwnPage(t, q) => OwnPage(t, q)')
  BY <1>2 DEF OwnPage, Known
<1>5. \A t \in Shards, q \in PageIds, o \in Slots : t # s \/ q # p =>
              (Known(t, q, o) => Known(t, q, o)') /\ (BehindHole(t, q, o) => BehindHole(t, q, o)')
  BY <1>2 DEF Known, BehindHole
<1> QED
  BY <1>1, <1>3, <1>4, <1>5

\* A log is found as before when only a page without logs changed.
LEMMA PageFound ==
  ASSUME Inv, phase = "run", NEW s, NEW p, NEW X, PageWritten(s, p, X), UNCHANGED index,
         \A t, q, o : InFlight(t, q, o) => InFlight(t, q, o)'
  PROVE  FoundInv'
<1> SUFFICES ASSUME NEW t \in Shards, NEW q \in PageIds, NEW o \in Slots, pm'[t][q][o] \in Keys
             PROVE  Known(t, q, o)' \/ BehindHole(t, q, o)'
  BY DEF FoundInv
<1>1. t # s \/ q # p
  BY PageSwap
<1>2. pm'[t][q] = pm[t][q]
  BY <1>1 DEF PageWritten
<1>3. Known(t, q, o) \/ BehindHole(t, q, o)
  BY <1>2, OpenFacts
<1> QED
  BY <1>1, <1>3, PageSwap

\* The next page of a shard is created.
LEMMA CreateStep ==
  ASSUME Inv, NEW w \in Writers, Create(w)
  PROVE  Inv'
<1>1. PICK s : s = ShardOf[key[w]]
  OBVIOUS
<1>2. /\ phase = "run" /\ pc[w] = "alloc" /\ Unlatched(s) /\ ppage_id[s] + 1 < MaxPages
      /\ ppage_id' = [ppage_id EXCEPT ![s] = @ + 1]
      /\ pm' = [pm EXCEPT ![s][ppage_id[s] + 1] = Zeros]
      /\ pc' = [pc EXCEPT ![w] = "fill"]
      /\ UNCHANGED <<phase, sz_allocated, start_addr, index, key, slot, cur, acked, crashes>>
  BY <1>1 DEF Create, CreatePage
<1>3. TypeOK /\ s \in Shards /\ key[w] \in Keys
  BY <1>1, <1>2, WriterFacts DEF Inv
<1>4. PICK p : p = ppage_id[s] + 1 /\ p \in PageIds /\ p \in Nat /\ ppage_id[s] \in Int
  BY <1>2, <1>3, ConstantFacts DEF TypeOK, PageIds
<1>5. pm[s][p] = NoFile
  BY <1>2, <1>3, <1>4, OpenFacts
<1>6. PageWritten(s, p, Zeros)
  BY <1>2, <1>3, <1>4, <1>5, WritePage
<1>7. /\ ppage_id'[s] = p /\ \A t \in Shards : t # s => ppage_id'[t] = ppage_id[t]
      /\ pc'[w] = "fill" /\ \A u \in Writers : u # w => pc'[u] = pc[u]
  BY <1>2, <1>3, <1>4 DEF TypeOK
<1>8. TypeOK'
  <2>1. p \in -1 .. MaxPages - 1
    BY <1>4, ConstantFacts DEF PageIds
  <2> QED
    BY <1>2, <1>3, <1>4, <1>6, <2>1 DEF TypeOK, PageWritten
<1>9. WholePages'
  BY <1>6, WholeKept DEF Inv
<1>10. \A t, q, o : InFlight(t, q, o)' <=> InFlight(t, q, o)
  BY <1>2, <1>7 DEF InFlight
<1>11. KeptInv'
  <2>1. LeftZeros => LeftZeros'
    <3> SUFFICES ASSUME NEW t \in Shards, NEW q \in PageIds, pm[t][q] = Zeros, ~Filling(t, q)
                 PROVE  pm'[t][q] = Zeros /\ ~Filling(t, q)'
      BY DEF LeftZeros
    <3>1. t # s \/ q # p
      BY <1>5, PageFacts
    <3>2. pm'[t][q] = Zeros
      BY <1>6, <3>1 DEF PageWritten
    <3>3. ~Filling(t, q)'
      BY <1>1, <1>2, <1>3, <1>7, <3>1 DEF Filling
    <3> QED
      BY <3>2, <3>3
  <2>2. \A k \in Keys : Stored(k) => Stored(k)'
    BY <1>6, StoredKept
  <2> QED
    BY <1>2, <1>3, <2>1, <2>2 DEF Inv, KeptInv, TypeOK
<1>12. NewestInv'
  <2> SUFFICES ASSUME NEW t \in Shards, NEW q \in PageIds, q > ppage_id'[t]
               PROVE  pm'[t][q] = NoFile
    BY DEF NewestInv
  <2>1. (t # s \/ q # p) /\ q > ppage_id[t]
    BY <1>4, <1>7 DEF PageIds
  <2>2. pm[t][q] = NoFile
    BY <1>2, <2>1, OpenFacts
  <2> QED
    BY <1>6, <2>1, <2>2 DEF PageWritten
<1>13. \A u \in Writers : pc'[u] # "idle" => key'[u] \in Keys
  BY <1>2, <1>3, <1>7 DEF Inv, ClosedInv
<1>14. start_addr[s] < p /\ start_addr[s] \in Int
  <2>1. CASE start_addr[s] = NULL
    BY <1>4, <2>1 DEF NULL
  <2>2. CASE start_addr[s] # NULL
    BY <1>2, <1>3, <1>4, <2>2, OpenFacts
  <2> QED
    BY <2>1, <2>2
<1>15. ASSUME NEW t \in Shards, NEW q \in PageIds, q <= start_addr[t]
       PROVE  t # s \/ q # p
  BY <1>4, <1>14, <1>15
<1>16. MappedInv'
  <2> SUFFICES ASSUME NEW t \in Shards, start_addr[t] # NULL, NEW q, q = start_addr[t]
               PROVE  /\ q <= ppage_id'[t]
                      /\ \A o \in Slots : o >= sz_allocated[t] => pm'[t][q][o] = "ones"
                      /\ OwnPage(t, q)'
    BY <1>2 DEF MappedInv, OwnPage, Known, InFlight
  <2>1. /\ q \in PageIds /\ q <= ppage_id[t] /\ ppage_id[t] \in Int
        /\ \A o \in Slots : o >= sz_allocated[t] => pm[t][q][o] = "ones"
        /\ OwnPage(t, q)
    BY <1>2, OpenFacts
  <2>2. q <= start_addr[t]
    BY <1>2, OpenFacts
  <2>3. pm'[t][q] = pm[t][q]
    BY <1>6, <1>15, <2>1, <2>2 DEF PageWritten
  <2>4. OwnPage(t, q)'
    BY <1>2, <1>6, <1>10, <1>15, <2>1, <2>2, PageSwap
  <2>5. q <= ppage_id'[t]
    BY <1>4, <1>7, <2>1 DEF PageIds
  <2> QED
    BY <2>1, <2>3, <2>4, <2>5
<1>17. FillInv'
  <2> SUFFICES ASSUME NEW u \in Writers, pc'[u] = "fill", NEW t, t = ShardOf[key[u]]
               PROVE  /\ ppage_id'[t] \in PageIds /\ pm'[t][ppage_id'[t]] = Zeros
                      /\ start_addr[t] < ppage_id'[t]
                      /\ \A v \in Writers : pc'[v] = "fill" /\ ShardOf[key[v]] = t => v = u
    BY <1>2 DEF FillInv
  <2>1. CASE u = w
    <3>1. \A v \in Writers : v # w /\ pc'[v] = "fill" => ShardOf[key[v]] # s
      BY <1>2, <1>7 DEF Unlatched
    <3> QED
      BY <1>1, <1>4, <1>6, <1>7, <1>14, <2>1, <3>1 DEF PageWritten
  <2>2. CASE u # w
    <3>1. pc[u] = "fill" /\ t # s /\ t \in Shards
      BY <1>2, <1>7, <2>2, WriterFacts DEF Unlatched
    <3>2. /\ ppage_id[t] \in PageIds /\ pm[t][ppage_id[t]] = Zeros
          /\ start_addr[t] < ppage_id[t]
          /\ \A v \in Writers : pc[v] = "fill" /\ ShardOf[key[v]] = t => v = u
      BY <3>1 DEF Inv, FillInv
    <3>3. ppage_id'[t] = ppage_id[t] /\ pm'[t][ppage_id[t]] = pm[t][ppage_id[t]]
      BY <1>6, <1>7, <3>1, <3>2 DEF PageWritten
    <3> QED
      BY <1>1, <1>7, <3>1, <3>2, <3>3
  <2> QED
    BY <2>1, <2>2
<1>18. SlotInv'
  <2> SUFFICES ASSUME NEW u \in Writers, pc'[u] \in {"store", "index"},
                      NEW t, t = ShardOf[key[u]], NEW q, q = slot[u].page
               PROVE  /\ pc'[u] = "index" => q # NULL
                      /\ q # NULL =>
                           /\ q <= start_addr[t]
                           /\ q = start_addr[t] => slot[u].off < sz_allocated[t]
                           /\ OwnPage(t, q)'
                           /\ pm'[t][q][slot[u].off] = IF pc'[u] = "store" THEN "ones" ELSE key[u]
                           /\ \A v \in Writers : /\ pc'[v] \in {"store", "index"} /\ ShardOf[key[v]] = t
                                                 /\ slot[v] = slot[u]
                                                 => v = u
    BY <1>2 DEF SlotInv, OwnPage, Known, InFlight
  <2>1. pc[u] \in {"store", "index"} /\ pc'[u] = pc[u] /\ t \in Shards /\ (q # NULL => q \in PageIds)
    BY <1>7, WriterFacts
  <2>2. /\ pc[u] = "index" => q # NULL
        /\ q # NULL =>
             /\ q <= start_addr[t]
             /\ q = start_addr[t] => slot[u].off < sz_allocated[t]
             /\ OwnPage(t, q)
             /\ pm[t][q][slot[u].off] = IF pc[u] = "store" THEN "ones" ELSE key[u]
             /\ \A v \in Writers : /\ pc[v] \in {"store", "index"} /\ ShardOf[key[v]] = t
                                   /\ slot[v] = slot[u]
                                   => v = u
    BY <2>1 DEF Inv, SlotInv
  <2>3. q # NULL => pm'[t][q] = pm[t][q] /\ OwnPage(t, q)'
    BY <1>2, <1>6, <1>10, <1>15, <2>1, <2>2, PageSwap DEF PageWritten
  <2>4. \A v \in Writers : pc'[v] \in {"store", "index"} => pc[v] \in {"store", "index"}
    BY <1>7
  <2> QED
    BY <2>1, <2>2, <2>3, <2>4
<1>19. FoundInv'
  BY <1>2, <1>6, <1>10, PageFound
<1>20. TailInv'
  <2> SUFFICES ASSUME NEW t \in Shards
               PROVE  Tail(t)'
    BY DEF TailInv
  <2>1. CASE t = s
    <3>1. \A o \in Slots : pm'[s][p][o] \notin Keys
      BY <1>2, <1>6, <1>10, PageSwap
    <3> QED
      BY <1>7, <2>1, <3>1 DEF Tail
  <2>2. CASE t # s
    <3>1. Tail(t)
      BY <1>2, OpenFacts
    <3>2. ppage_id'[t] = ppage_id[t]
      BY <1>7, <2>2
    <3>3. ppage_id[t] >= 0 => pm'[t][ppage_id[t]] = pm[t][ppage_id[t]]
      BY <1>3, <1>6, <2>2 DEF PageWritten, TypeOK, PageIds
    <3> QED
      BY <1>2, <3>1, <3>2, <3>3 DEF Tail, BehindHole
  <2> QED
    BY <2>1, <2>2
<1> QED
  BY <1>2, <1>8, <1>9, <1>11, <1>12, <1>13, <1>16, <1>17, <1>18, <1>19, <1>20, WriterCombine DEF Up

\* The new page is filled with 1s and its first slot is handed out.
LEMMA FillStep ==
  ASSUME Inv, NEW w \in Writers, Fill(w)
  PROVE  Inv'
<1>1. PICK s : s = ShardOf[key[w]]
  OBVIOUS
<1>2. PICK p : p = ppage_id[s]
  OBVIOUS
<1>3. /\ phase = "run" /\ pc[w] = "fill"
      /\ pm' = [pm EXCEPT ![s][p] = Blank] /\ start_addr' = [start_addr EXCEPT ![s] = p]
      /\ slot' = [slot EXCEPT ![w] = [page |-> p, off |-> 0]]
      /\ sz_allocated' = [sz_allocated EXCEPT ![s] = 1]
      /\ pc' = [pc EXCEPT ![w] = "store"]
      /\ UNCHANGED <<phase, ppage_id, index, key, cur, acked, crashes>>
  BY <1>1, <1>2 DEF Fill, FillPage
<1>4. TypeOK /\ s \in Shards /\ key[w] \in Keys
  BY <1>1, <1>3, WriterFacts DEF Inv
<1>5. /\ p \in PageIds /\ p \in Nat /\ pm[s][p] = Zeros /\ start_addr[s] < p
      /\ \A u \in Writers : pc[u] = "fill" /\ ShardOf[key[u]] = s => u = w
  BY <1>1, <1>2, <1>3 DEF Inv, FillInv, PageIds
<1>6. PageWritten(s, p, Blank)
  BY <1>3, <1>4, <1>5, WritePage
<1>7. /\ slot'[w] = [page |-> p, off |-> 0] /\ slot'[w].page = p /\ slot'[w].off = 0
      /\ pc'[w] = "store" /\ \A u \in Writers : u # w => pc'[u] = pc[u] /\ slot'[u] = slot[u]
      /\ start_addr'[s] = p /\ sz_allocated'[s] = 1
      /\ \A t \in Shards : t # s => /\ start_addr'[t] = start_addr[t]
                                    /\ sz_allocated'[t] = sz_allocated[t]
  BY <1>3, <1>4 DEF TypeOK
<1>8. TypeOK'
  <2>1. p \in -1 .. MaxPages - 1 /\ 0 \in 0 .. PageSlots - 1 /\ 1 \in 0 .. PageSlots
    BY <1>5, ConstantFacts DEF PageIds
  <2>2. slot'[w] \in [page: -1 .. MaxPages - 1, off: 0 .. PageSlots - 1]
    BY <1>7, <2>1
  <2> QED
    BY <1>3, <1>4, <1>6, <1>7, <2>1, <2>2 DEF TypeOK, PageWritten
<1>9. WholePages'
  BY <1>6, WholeKept DEF Inv
<1>10. \A t, q, o : InFlight(t, q, o)' <=> InFlight(t, q, o)
  BY <1>3, <1>7 DEF InFlight
<1>11. KeptInv'
  <2>1. LeftZeros => LeftZeros'
    <3> SUFFICES ASSUME NEW t \in Shards, NEW q \in PageIds, pm[t][q] = Zeros, ~Filling(t, q)
                 PROVE  pm'[t][q] = Zeros /\ ~Filling(t, q)'
      BY DEF LeftZeros
    <3>1. t # s \/ q # p
      BY <1>1, <1>2, <1>3 DEF Filling
    <3>2. pm'[t][q] = Zeros
      BY <1>6, <3>1 DEF PageWritten
    <3>3. ~Filling(t, q)'
      BY <1>3, <1>7 DEF Filling
    <3> QED
      BY <3>2, <3>3
  <2>2. \A k \in Keys : Stored(k) => Stored(k)'
    BY <1>6, StoredKept
  <2> QED
    BY <1>3, <1>4, <2>1, <2>2 DEF Inv, KeptInv, TypeOK
<1>12. NewestInv'
  <2> SUFFICES ASSUME NEW t \in Shards, NEW q \in PageIds, q > ppage_id[t]
               PROVE  pm'[t][q] = NoFile
    BY <1>3 DEF NewestInv
  <2>1. t # s \/ q # p
    BY <1>2, <1>5 DEF PageIds
  <2>2. pm[t][q] = NoFile
    BY <1>3, OpenFacts
  <2> QED
    BY <1>6, <2>1, <2>2 DEF PageWritten
<1>13. \A u \in Writers : pc'[u] # "idle" => key'[u] \in Keys
  BY <1>3, <1>4, <1>7 DEF Inv, ClosedInv
<1>14. MappedInv'
  <2> SUFFICES ASSUME NEW t \in Shards, start_addr'[t] # NULL, NEW q, q = start_addr'[t]
               PROVE  /\ q <= ppage_id[t]
                      /\ \A o \in Slots : o >= sz_allocated'[t] => pm'[t][q][o] = "ones"
                      /\ OwnPage(t, q)'
    BY <1>3 DEF MappedInv, OwnPage, Known, InFlight
  <2>1. CASE t = s
    <3>1. q = p /\ q <= ppage_id[t]
      BY <1>2, <1>5, <1>7, <2>1
    <3>2. \A o \in Slots : pm'[t][q][o] = "ones"
      BY <1>6, <2>1, <3>1, PageFacts DEF PageWritten
    <3> QED
      BY <1>3, <1>6, <1>10, <2>1, <3>1, <3>2, PageSwap
  <2>2. CASE t # s
    <3>1. /\ q \in PageIds /\ q <= ppage_id[t]
          /\ \A o \in Slots : o >= sz_allocated[t] => pm[t][q][o] = "ones"
          /\ OwnPage(t, q)
      BY <1>3, <1>7, <2>2, OpenFacts
    <3>2. pm'[t][q] = pm[t][q] /\ OwnPage(t, q)'
      BY <1>3, <1>6, <1>10, <2>2, <3>1, PageSwap DEF PageWritten
    <3> QED
      BY <1>7, <2>2, <3>1, <3>2
  <2> QED
    BY <2>1, <2>2
<1>15. FillInv'
  <2> SUFFICES ASSUME NEW u \in Writers, pc'[u] = "fill", NEW t, t = ShardOf[key[u]]
               PROVE  /\ ppage_id[t] \in PageIds /\ pm'[t][ppage_id[t]] = Zeros
                      /\ start_addr'[t] < ppage_id[t]
                      /\ \A v \in Writers : pc'[v] = "fill" /\ ShardOf[key[v]] = t => v = u
    BY <1>3 DEF FillInv
  <2>1. u # w /\ pc[u] = "fill"
    BY <1>7
  <2>2. t # s /\ t \in Shards
    BY <1>5, <2>1, WriterFacts
  <2>3. /\ ppage_id[t] \in PageIds /\ pm[t][ppage_id[t]] = Zeros
        /\ start_addr[t] < ppage_id[t]
        /\ \A v \in Writers : pc[v] = "fill" /\ ShardOf[key[v]] = t => v = u
    BY <2>1 DEF Inv, FillInv
  <2>4. pm'[t][ppage_id[t]] = pm[t][ppage_id[t]] /\ start_addr'[t] = start_addr[t]
    BY <1>6, <1>7, <2>2, <2>3 DEF PageWritten
  <2> QED
    BY <1>7, <2>3, <2>4
<1>16. SlotInv'
  <2>1. ASSUME NEW u \in Writers, pc[u] \in {"store", "index"}, ShardOf[key[u]] = s
        PROVE  slot[u].page < p /\ slot[u].page \in Int
    <3>1. slot[u].page \in Int /\ start_addr[s] \in Int
      BY <1>3, <1>4, <2>1, WriterFacts, OpenFacts
    <3>2. CASE slot[u].page = NULL
      BY <1>5, <3>1, <3>2 DEF NULL
    <3>3. CASE slot[u].page # NULL
      <4>1. slot[u].page <= start_addr[s]
        BY <2>1, <3>3 DEF Inv, SlotInv
      <4> QED
        BY <1>5, <3>1, <4>1
    <3> QED
      BY <3>2, <3>3
  <2> SUFFICES ASSUME NEW u \in Writers, pc'[u] \in {"store", "index"},
                      NEW t, t = ShardOf[key[u]], NEW q, q = slot'[u].page
               PROVE  /\ pc'[u] = "index" => q # NULL
                      /\ q # NULL =>
                           /\ q <= start_addr'[t]
                           /\ q = start_addr'[t] => slot'[u].off < sz_allocated'[t]
                           /\ OwnPage(t, q)'
                           /\ pm'[t][q][slot'[u].off] = IF pc'[u] = "store" THEN "ones" ELSE key[u]
                           /\ \A v \in Writers : /\ pc'[v] \in {"store", "index"} /\ ShardOf[key[v]] = t
                                                 /\ slot'[v] = slot'[u]
                                                 => v = u
    BY <1>3 DEF SlotInv, OwnPage, Known, InFlight
  <2>2. CASE u = w
    <3>1. t = s /\ q = p
      BY <1>1, <1>7, <2>2
    <3>2. pm'[s][p][0] = "ones" /\ OwnPage(s, p)'
      BY <1>3, <1>6, <1>10, PageSwap, PageFacts, ConstantFacts DEF PageWritten
    <3>3. \A v \in Writers : v # w /\ pc'[v] \in {"store", "index"} /\ ShardOf[key[v]] = s
                               => slot'[v].page # p
      BY <1>5, <1>7, <2>1
    <3> QED
      BY <1>5, <1>7, <2>2, <3>1, <3>2, <3>3
  <2>3. CASE u # w
    <3>1. /\ pc[u] \in {"store", "index"} /\ pc'[u] = pc[u] /\ slot'[u] = slot[u]
          /\ t \in Shards /\ (q # NULL => q \in PageIds)
      BY <1>7, <2>3, WriterFacts
    <3>2. /\ pc[u] = "index" => q # NULL
          /\ q # NULL =>
               /\ q <= start_addr[t]
               /\ q = start_addr[t] => slot[u].off < sz_allocated[t]
               /\ OwnPage(t, q)
               /\ pm[t][q][slot[u].off] = IF pc[u] = "store" THEN "ones" ELSE key[u]
               /\ \A v \in Writers : /\ pc[v] \in {"store", "index"} /\ ShardOf[key[v]] = t
                                     /\ slot[v] = slot[u]
                                     => v = u
      BY <3>1 DEF Inv, SlotInv
    <3>3. t = s => q < p /\ q \in Int
      BY <2>1, <3>1
    <3>4. q # NULL => pm'[t][q] = pm[t][q] /\ OwnPage(t, q)'
      <4> SUFFICES ASSUME q # NULL
                   PROVE  pm'[t][q] = pm[t][q] /\ OwnPage(t, q)'
        OBVIOUS
      <4>1. t # s \/ q # p
        BY <1>5, <3>3
      <4>2. q \in PageIds /\ OwnPage(t, q)
        BY <3>1, <3>2
      <4>3. pm'[t][q] = pm[t][q]
        BY <1>6, <3>1, <4>1, <4>2 DEF PageWritten
      <4>4. OwnPage(t, q)'
        BY <1>3, <1>6, <1>10, <3>1, <4>1, <4>2, <4>3, PageSwap
      <4> QED
        BY <4>3, <4>4
    <3>5. q # NULL => q <= start_addr'[t] /\ (q = start_addr'[t] => slot[u].off < sz_allocated'[t])
      BY <1>5, <1>7, <3>1, <3>2, <3>3
    <3>6. \A v \in Writers : /\ pc'[v] \in {"store", "index"} /\ ShardOf[key[v]] = t
                             /\ slot'[v] = slot[u]
                             => v # w /\ pc[v] \in {"store", "index"} /\ slot[v] = slot[u]
      BY <1>1, <1>5, <1>7, <3>1, <3>3
    <3> QED
      BY <3>1, <3>2, <3>4, <3>5, <3>6
  <2> QED
    BY <2>2, <2>3
<1>17. FoundInv'
  BY <1>3, <1>6, <1>10, PageFound
<1>18. TailInv'
  <2> SUFFICES ASSUME NEW t \in Shards
               PROVE  Tail(t)'
    BY DEF TailInv
  <2>1. CASE t = s
    <3>1. \A o \in Slots : pm'[s][p][o] \notin Keys
      BY <1>3, <1>6, <1>10, PageSwap
    <3> QED
      BY <1>2, <1>3, <2>1, <3>1 DEF Tail
  <2>2. CASE t # s
    <3>1. Tail(t)
      BY <1>3, OpenFacts
    <3>2. sz_allocated'[t] = sz_allocated[t]
      BY <1>7, <2>2
    <3>3. ppage_id[t] >= 0 => pm'[t][ppage_id[t]] = pm[t][ppage_id[t]]
      BY <1>4, <1>6, <2>2 DEF PageWritten, TypeOK, PageIds
    <3> QED
      BY <1>3, <3>1, <3>2, <3>3 DEF Tail, BehindHole
  <2> QED
    BY <2>1, <2>2
<1> QED
  BY <1>3, <1>8, <1>9, <1>11, <1>12, <1>13, <1>14, <1>15, <1>16, <1>17, <1>18, WriterCombine DEF Up

\* The log is written into the slot.
LEMMA StoreStep ==
  ASSUME Inv, NEW w \in Writers, Store(w)
  PROVE  Inv'
<1>1. PICK s, p, o, k : s = ShardOf[key[w]] /\ p = slot[w].page /\ o = slot[w].off /\ k = key[w]
  OBVIOUS
<1>2. /\ phase = "run" /\ pc[w] = "store" /\ p # NULL
      /\ pm' = [pm EXCEPT ![s][p][o] = k] /\ pc' = [pc EXCEPT ![w] = "index"]
      /\ UNCHANGED <<phase, ppage_id, sz_allocated, start_addr, index, key, slot, cur, acked, crashes>>
  BY <1>1 DEF Store, ppages
<1>3. /\ TypeOK /\ s \in Shards /\ k \in Keys /\ p \in PageIds /\ p \in Int /\ o \in Slots /\ o \in Int
      /\ slot[w] = [page |-> p, off |-> o]
  <2>1. /\ key[w] \in Keys /\ ShardOf[key[w]] \in Shards
        /\ slot[w] \in [page: -1 .. MaxPages - 1, off: 0 .. PageSlots - 1]
        /\ slot[w].off \in Slots /\ slot[w].page \in Int
        /\ slot[w].page # NULL => slot[w].page \in PageIds
    BY <1>2, WriterFacts
  <2> QED
    BY <1>1, <1>2, <2>1 DEF Inv, Slots
<1>4. /\ p <= start_addr[s] /\ (p = start_addr[s] => o < sz_allocated[s])
      /\ OwnPage(s, p) /\ pm[s][p][o] = "ones"
      /\ \A u \in Writers : /\ pc[u] \in {"store", "index"} /\ ShardOf[key[u]] = s
                            /\ slot[u] = slot[w]
                            => u = w
  BY <1>1, <1>2 DEF Inv, SlotInv
<1>5. SlotWritten(s, p, o, k)
  BY <1>2, <1>3, <1>4, WriteSlot
<1>6. pc'[w] = "index" /\ \A u \in Writers : u # w => pc'[u] = pc[u]
  BY <1>2, <1>3 DEF TypeOK
<1>7. TypeOK'
  BY <1>2, <1>3, <1>5 DEF TypeOK, SlotWritten
<1>8. WholePages'
  BY <1>5, WholeKept DEF Inv
<1>9. InFlight(s, p, o)' /\ \A t, q, r : InFlight(t, q, r) => InFlight(t, q, r)'
  <2>1. InFlight(s, p, o)'
    BY <1>1, <1>2, <1>3, <1>6 DEF InFlight
  <2>2. \A t, q, r : InFlight(t, q, r) => InFlight(t, q, r)'
    BY <1>2, <1>6 DEF InFlight
  <2> QED
    BY <2>1, <2>2
<1>10. pm[s][p] # Zeros /\ pm[s][p] # NoFile
  BY <1>3, <1>4, PageFacts
<1>11. KeptInv'
  <2>1. LeftZeros => LeftZeros'
    <3> SUFFICES ASSUME NEW t \in Shards, NEW q \in PageIds, pm[t][q] = Zeros, ~Filling(t, q)
                 PROVE  pm'[t][q] = Zeros /\ ~Filling(t, q)'
      BY DEF LeftZeros
    <3>1. pm'[t][q] = Zeros
      BY <1>5, <1>10 DEF SlotWritten
    <3>2. ~Filling(t, q)'
      BY <1>2, <1>6 DEF Filling
    <3> QED
      BY <3>1, <3>2
  <2>2. \A j \in Keys : Stored(j) => Stored(j)'
    BY <1>5, StoredKept
  <2> QED
    BY <1>2, <1>3, <2>1, <2>2 DEF Inv, KeptInv, TypeOK
<1>12. NewestInv'
  <2> SUFFICES ASSUME NEW t \in Shards, NEW q \in PageIds, q > ppage_id[t]
               PROVE  pm'[t][q] = NoFile
    BY <1>2 DEF NewestInv
  <2>1. pm[t][q] = NoFile
    BY <1>2, OpenFacts
  <2> QED
    BY <1>5, <1>10, <2>1 DEF SlotWritten
<1>13. \A u \in Writers : pc'[u] # "idle" => key'[u] \in Keys
  BY <1>2, <1>3, <1>6 DEF Inv, ClosedInv
<1>14. ASSUME NEW t \in Shards, NEW q \in PageIds, NEW r \in Slots,
              Known(t, q, r) \/ (t = s /\ q = p /\ r = o), pm'[t][q][r] \in Keys
       PROVE  Known(t, q, r)'
  <2>1. CASE t = s /\ q = p /\ r = o
    BY <1>9, <2>1 DEF Known
  <2>2. CASE ~(t = s /\ q = p /\ r = o)
    <3>1. pm'[t][q][r] = pm[t][q][r]
      BY <1>5, <2>2 DEF SlotWritten
    <3> QED
      BY <1>2, <1>9, <1>14, <2>2, <3>1 DEF Known
  <2> QED
    BY <2>1, <2>2
<1>15. ASSUME NEW t \in Shards, NEW q \in PageIds, OwnPage(t, q)
       PROVE  OwnPage(t, q)'
  <2> SUFFICES ASSUME NEW r \in Slots, pm'[t][q][r] \in Keys
               PROVE  Known(t, q, r)'
    BY DEF OwnPage
  <2>1. CASE t = s /\ q = p /\ r = o
    BY <1>14, <2>1
  <2>2. CASE ~(t = s /\ q = p /\ r = o)
    <3>1. pm'[t][q][r] = pm[t][q][r]
      BY <1>5, <2>2 DEF SlotWritten
    <3> QED
      BY <1>14, <1>15, <3>1 DEF OwnPage
  <2> QED
    BY <2>1, <2>2
<1>16. MappedInv'
  <2> SUFFICES ASSUME NEW t \in Shards, start_addr[t] # NULL, NEW q, q = start_addr[t]
               PROVE  /\ q <= ppage_id[t]
                      /\ \A r \in Slots : r >= sz_allocated[t] => pm'[t][q][r] = "ones"
                      /\ OwnPage(t, q)'
    BY <1>2 DEF MappedInv, OwnPage, Known, InFlight
  <2>1. /\ q \in PageIds /\ q <= ppage_id[t] /\ sz_allocated[t] \in Nat
        /\ \A r \in Slots : r >= sz_allocated[t] => pm[t][q][r] = "ones"
        /\ OwnPage(t, q)
    BY <1>2, OpenFacts
  <2>2. ASSUME NEW r \in Slots, r >= sz_allocated[t]
        PROVE  pm'[t][q][r] = "ones"
    <3>1. ~(t = s /\ q = p /\ r = o)
      BY <1>3, <1>4, <2>1, <2>2
    <3> QED
      BY <1>5, <2>1, <2>2, <3>1 DEF SlotWritten
  <2> QED
    BY <1>15, <2>1, <2>2
<1>17. FillInv'
  <2> SUFFICES ASSUME NEW u \in Writers, pc'[u] = "fill", NEW t, t = ShardOf[key[u]]
               PROVE  /\ ppage_id[t] \in PageIds /\ pm'[t][ppage_id[t]] = Zeros
                      /\ start_addr[t] < ppage_id[t]
                      /\ \A v \in Writers : pc'[v] = "fill" /\ ShardOf[key[v]] = t => v = u
    BY <1>2 DEF FillInv
  <2>1. u # w /\ pc[u] = "fill" /\ t \in Shards
    BY <1>6, WriterFacts
  <2>2. /\ ppage_id[t] \in PageIds /\ pm[t][ppage_id[t]] = Zeros
        /\ start_addr[t] < ppage_id[t]
        /\ \A v \in Writers : pc[v] = "fill" /\ ShardOf[key[v]] = t => v = u
    BY <2>1 DEF Inv, FillInv
  <2>3. pm'[t][ppage_id[t]] = Zeros
    BY <1>5, <1>10, <2>1, <2>2 DEF SlotWritten
  <2> QED
    BY <1>6, <2>2, <2>3
<1>18. SlotInv'
  <2> SUFFICES ASSUME NEW u \in Writers, pc'[u] \in {"store", "index"},
                      NEW t, t = ShardOf[key[u]], NEW q, q = slot[u].page, NEW r, r = slot[u].off
               PROVE  /\ pc'[u] = "index" => q # NULL
                      /\ q # NULL =>
                           /\ q <= start_addr[t]
                           /\ q = start_addr[t] => r < sz_allocated[t]
                           /\ OwnPage(t, q)'
                           /\ pm'[t][q][r] = IF pc'[u] = "store" THEN "ones" ELSE key[u]
                           /\ \A v \in Writers : /\ pc'[v] \in {"store", "index"} /\ ShardOf[key[v]] = t
                                                 /\ slot[v] = slot[u]
                                                 => v = u
    BY <1>2 DEF SlotInv, OwnPage, Known, InFlight
  <2>1. \A v \in Writers : pc'[v] \in {"store", "index"} => pc[v] \in {"store", "index"}
    BY <1>2, <1>6
  <2>2. /\ pc[u] \in {"store", "index"} /\ t \in Shards /\ (q # NULL => q \in PageIds) /\ r \in Slots
        /\ slot[u] \in [page: -1 .. MaxPages - 1, off: 0 .. PageSlots - 1]
    BY <2>1, WriterFacts
  <2>3. /\ pc[u] = "index" => q # NULL
        /\ q # NULL =>
             /\ q <= start_addr[t]
             /\ q = start_addr[t] => r < sz_allocated[t]
             /\ OwnPage(t, q)
             /\ pm[t][q][r] = IF pc[u] = "store" THEN "ones" ELSE key[u]
             /\ \A v \in Writers : /\ pc[v] \in {"store", "index"} /\ ShardOf[key[v]] = t
                                   /\ slot[v] = slot[u]
                                   => v = u
    BY <2>2 DEF Inv, SlotInv
  <2>4. q # NULL => OwnPage(t, q)'
    BY <1>15, <2>2, <2>3
  <2>5. CASE u = w
    <3>1. t = s /\ q = p /\ r = o
      BY <1>1, <2>5
    <3>2. pm'[s][p][o] = key[u]
      BY <1>1, <1>5, <2>5 DEF SlotWritten
    <3> QED
      BY <1>2, <1>6, <2>1, <2>3, <2>4, <2>5, <3>1, <3>2
  <2>6. CASE u # w
    <3>1. ~(t = s /\ q = p /\ r = o)
      <4> SUFFICES ASSUME t = s, q = p, r = o
                   PROVE  FALSE
        OBVIOUS
      <4>1. slot[u] = slot[w]
        BY <1>3, <2>2
      <4> QED
        BY <1>4, <2>2, <2>6, <4>1
    <3>2. q # NULL => pm'[t][q][r] = pm[t][q][r]
      BY <1>5, <2>2, <3>1 DEF SlotWritten
    <3> QED
      BY <1>6, <2>1, <2>3, <2>4, <2>6, <3>2
  <2> QED
    BY <2>5, <2>6
<1>19. FoundInv'
  <2> SUFFICES ASSUME NEW t \in Shards, NEW q \in PageIds, NEW r \in Slots, pm'[t][q][r] \in Keys
               PROVE  Known(t, q, r)' \/ BehindHole(t, q, r)'
    BY DEF FoundInv
  <2>1. CASE t = s /\ q = p
    <3>1. OwnPage(t, q)'
      BY <1>4, <1>15, <2>1
    <3> QED
      BY <3>1 DEF OwnPage
  <2>2. CASE ~(t = s /\ q = p)
    <3>1. pm'[t][q] = pm[t][q]
      BY <1>5, <2>2 DEF SlotWritten
    <3>2. Known(t, q, r) \/ BehindHole(t, q, r)
      BY <1>2, <3>1, OpenFacts
    <3> QED
      BY <1>14, <3>1, <3>2 DEF BehindHole
  <2> QED
    BY <2>1, <2>2
<1>20. TailInv'
  <2> SUFFICES ASSUME NEW t \in Shards
               PROVE  Tail(t)'
    BY DEF TailInv
  <2>1. CASE t = s /\ ppage_id[s] = p
    <3>1. start_addr[s] = p /\ start_addr[s] # NULL
      BY <1>2, <1>3, <1>4, <2>1, OpenFacts DEF PageIds, NULL
    <3>2. \A r \in Slots : r >= sz_allocated[s] => pm'[s][p][r] = "ones"
      BY <1>2, <1>3, <1>16, <3>1 DEF MappedInv, Up
    <3> QED
      BY <1>2, <2>1, <3>2, ConstantFacts DEF Tail
  <2>2. CASE ~(t = s /\ ppage_id[s] = p)
    <3>1. Tail(t)
      BY <1>2, OpenFacts
    <3>2. ppage_id[t] >= 0 => pm'[t][ppage_id[t]] = pm[t][ppage_id[t]]
      BY <1>3, <1>5, <2>2 DEF SlotWritten, TypeOK, PageIds
    <3> QED
      BY <1>2, <3>1, <3>2 DEF Tail, BehindHole
  <2> QED
    BY <2>1, <2>2
<1> QED
  BY <1>2, <1>7, <1>8, <1>11, <1>12, <1>13, <1>16, <1>17, <1>18, <1>19, <1>20, WriterCombine DEF Up

\* The index learns of the key, and the caller that it is stored.
LEMMA IndexStep ==
  ASSUME Inv, NEW w \in Writers, Index(w)
  PROVE  Inv'
<1>1. PICK s, p, o, k : s = ShardOf[key[w]] /\ p = slot[w].page /\ o = slot[w].off /\ k = key[w]
  OBVIOUS
<1>2. /\ phase = "run" /\ pc[w] = "index"
      /\ index' = index \union {k} /\ acked' = acked \union {k}
      /\ pc' = [pc EXCEPT ![w] = "idle"] /\ key' = [key EXCEPT ![w] = ZeroKey]
      /\ slot' = [slot EXCEPT ![w] = [page |-> NULL, off |-> 0]]
      /\ UNCHANGED <<phase, pm, ppage_id, sz_allocated, start_addr, cur, crashes>>
  BY <1>1 DEF Index, ppages, NoSlot
<1>3. TypeOK /\ s \in Shards /\ k \in Keys /\ o \in Slots /\ (p # NULL => p \in PageIds)
  BY <1>1, <1>2, WriterFacts DEF Inv
<1>4. p # NULL /\ pm[s][p][o] = k
  BY <1>1, <1>2 DEF Inv, SlotInv
<1>5. /\ pc'[w] = "idle" /\ slot'[w] = [page |-> NULL, off |-> 0]
      /\ \A u \in Writers : u # w => pc'[u] = pc[u] /\ key'[u] = key[u] /\ slot'[u] = slot[u]
  BY <1>2, <1>3 DEF TypeOK
<1>6. TypeOK'
  <2>1. NULL \in -1 .. MaxPages - 1 /\ 0 \in 0 .. PageSlots - 1
    BY ConstantFacts DEF NULL
  <2>2. [page |-> NULL, off |-> 0] \in [page: -1 .. MaxPages - 1, off: 0 .. PageSlots - 1]
    BY <2>1
  <2> QED
    BY <1>2, <1>3, <2>2 DEF TypeOK
<1>7. WholePages'
  BY <1>2, WholeKept DEF Inv
<1>8. KeptInv'
  <2>1. LeftZeros => LeftZeros'
    BY <1>2, <1>5 DEF LeftZeros, Filling
  <2>2. \A j : Stored(j) => Stored(j)'
    BY <1>2 DEF Stored
  <2>3. Stored(k)
    BY <1>3, <1>4 DEF Stored
  <2> QED
    BY <1>2, <1>3, <2>1, <2>2, <2>3 DEF Inv, KeptInv
<1>9. NewestInv' /\ \A u \in Writers : pc'[u] # "idle" => key'[u] \in Keys
  BY <1>2, <1>5 DEF Inv, NewestInv, ClosedInv, Up
<1>10. ASSUME NEW t, NEW q, NEW r, Known(t, q, r)
       PROVE  Known(t, q, r)'
  <2>1. CASE pm[t][q][r] \in index
    BY <1>2, <2>1 DEF Known
  <2>2. CASE InFlight(t, q, r)
    <3>1. PICK u \in Writers : pc[u] = "index" /\ ShardOf[key[u]] = t /\ slot[u] = [page |-> q, off |-> r]
      BY <2>2 DEF InFlight
    <3>2. CASE u = w
      <4>1. t = s /\ q = p /\ r = o
        BY <1>1, <3>1, <3>2
      <4> QED
        BY <1>2, <1>4, <4>1 DEF Known
    <3>3. CASE u # w
      <4>1. InFlight(t, q, r)'
        BY <1>5, <3>1, <3>3 DEF InFlight
      <4> QED
        BY <4>1 DEF Known
    <3> QED
      BY <3>2, <3>3
  <2> QED
    BY <1>10, <2>1, <2>2 DEF Known
<1>11. \A t, q : OwnPage(t, q) => OwnPage(t, q)'
  BY <1>2, <1>10 DEF OwnPage
<1>12. MappedInv'
  <2> SUFFICES ASSUME NEW t \in Shards, start_addr[t] # NULL, NEW q, q = start_addr[t]
               PROVE  /\ q <= ppage_id[t]
                      /\ \A r \in Slots : r >= sz_allocated[t] => pm[t][q][r] = "ones"
                      /\ OwnPage(t, q)'
    BY <1>2 DEF MappedInv, OwnPage, Known, InFlight
  <2>1. /\ q <= ppage_id[t]
        /\ \A r \in Slots : r >= sz_allocated[t] => pm[t][q][r] = "ones"
        /\ OwnPage(t, q)
    BY <1>2, OpenFacts
  <2> QED
    BY <1>11, <2>1
<1>13. FillInv'
  <2> SUFFICES ASSUME NEW u \in Writers, pc'[u] = "fill", NEW t, t = ShardOf[key'[u]]
               PROVE  /\ ppage_id[t] \in PageIds /\ pm[t][ppage_id[t]] = Zeros
                      /\ start_addr[t] < ppage_id[t]
                      /\ \A v \in Writers : pc'[v] = "fill" /\ ShardOf[key'[v]] = t => v = u
    BY <1>2 DEF FillInv
  <2>1. pc[u] = "fill" /\ key'[u] = key[u]
    BY <1>5
  <2>2. /\ ppage_id[t] \in PageIds /\ pm[t][ppage_id[t]] = Zeros
        /\ start_addr[t] < ppage_id[t]
        /\ \A v \in Writers : pc[v] = "fill" /\ ShardOf[key[v]] = t => v = u
    BY <2>1 DEF Inv, FillInv
  <2> QED
    BY <1>5, <2>2
<1>14. SlotInv'
  <2> SUFFICES ASSUME NEW u \in Writers, pc'[u] \in {"store", "index"},
                      NEW t, t = ShardOf[key'[u]], NEW q, q = slot'[u].page
               PROVE  /\ pc'[u] = "index" => q # NULL
                      /\ q # NULL =>
                           /\ q <= start_addr[t]
                           /\ q = start_addr[t] => slot'[u].off < sz_allocated[t]
                           /\ OwnPage(t, q)'
                           /\ pm[t][q][slot'[u].off] = IF pc'[u] = "store" THEN "ones" ELSE key'[u]
                           /\ \A v \in Writers : /\ pc'[v] \in {"store", "index"} /\ ShardOf[key'[v]] = t
                                                 /\ slot'[v] = slot'[u]
                                                 => v = u
    BY <1>2 DEF SlotInv, OwnPage, Known, InFlight
  <2>1. u # w /\ pc'[u] = pc[u] /\ key'[u] = key[u] /\ slot'[u] = slot[u]
    BY <1>5
  <2>2. /\ pc[u] = "index" => q # NULL
        /\ q # NULL =>
             /\ q <= start_addr[t]
             /\ q = start_addr[t] => slot[u].off < sz_allocated[t]
             /\ OwnPage(t, q)
             /\ pm[t][q][slot[u].off] = IF pc[u] = "store" THEN "ones" ELSE key[u]
             /\ \A v \in Writers : /\ pc[v] \in {"store", "index"} /\ ShardOf[key[v]] = t
                                   /\ slot[v] = slot[u]
                                   => v = u
    BY <2>1 DEF Inv, SlotInv
  <2>3. q # NULL => OwnPage(t, q)'
    BY <1>11, <2>2
  <2>4. \A v \in Writers : pc'[v] \in {"store", "index"} =>
          pc[v] \in {"store", "index"} /\ key'[v] = key[v] /\ slot'[v] = slot[v]
    BY <1>5
  <2> QED
    BY <2>1, <2>2, <2>3, <2>4
<1>15. FoundInv'
  <2>1. \A t \in Shards, q \in PageIds, r \in Slots :
          pm[t][q][r] \in Keys => Known(t, q, r)' \/ BehindHole(t, q, r)
    BY <1>2, <1>10, OpenFacts
  <2> QED
    BY <1>2, <2>1 DEF FoundInv, BehindHole
<1>16. TailInv'
  BY <1>2 DEF Inv, TailInv, Tail, BehindHole
<1> QED
  BY <1>2, <1>6, <1>7, <1>8, <1>9, <1>12, <1>13, <1>14, <1>15, <1>16, WriterCombine DEF Up

-----------------------------------------------------------------------------
\* The inductive invariant, and what follows from it.

\* A step that changes nothing.
LEMMA StutterStep ==
  ASSUME Inv, UNCHANGED vars
  PROVE  Inv'
<1>1. UNCHANGED <<phase, pm, ppage_id, sz_allocated, start_addr, index, pc, key, slot, cur, acked, crashes>>
  BY DEF vars, ppages, writers
<1>2. (TypeOK /\ WholePages /\ NewestInv /\ BootInv /\ ClosedInv)'
  BY <1>1 DEF Inv, TypeOK, WholePages, NewestInv, BootInv, ClosedInv
<1>3. KeptInv'
  BY <1>1 DEF Inv, KeptInv, Stored, LeftZeros, Filling
<1>4. (MappedInv /\ FillInv)'
  BY <1>1 DEF Inv, MappedInv, FillInv, OwnPage, Known, InFlight
<1>5. SlotInv'
  BY <1>1 DEF Inv, SlotInv, OwnPage, Known, InFlight
<1>6. (FoundInv /\ TailInv)'
  BY <1>1 DEF Inv, FoundInv, TailInv, Tail, BehindHole, Known, InFlight
<1>7. ScanInv'
  BY <1>1 DEF Inv, ScanInv, Tail, BehindHole, ToCome, Newest, FilesOf
<1> QED
  BY <1>2, <1>3, <1>4, <1>5, <1>6, <1>7 DEF Inv

\* Every step of the system keeps the invariant.
LEMMA NextInv ==
  ASSUME Inv, [Next]_vars
  PROVE  Inv'
<1>1. CASE UNCHANGED vars
  BY <1>1, StutterStep
<1>2. CASE Boot
  BY <1>2, BootStep, OpenStep DEF Boot
<1>3. CASE Crash
  <2>1. Die /\ crashes' \in Nat
    BY <1>3 DEF Crash, Inv, TypeOK
  <2> QED
    BY <2>1, DieStep
<1>4. CASE Restart
  BY <1>4, RestartStep
<1>5. CASE Recovery
  BY <1>5, MapStep, JoinStep, ScanLogStep, ScanPageEndStep, ScanShardEndStep DEF Recovery
<1>6. CASE Rest
  BY <1>6, StutterStep DEF Rest
<1>7. ASSUME NEW w \in Writers, Writer(w)
      PROVE  Inv'
  <2>1. CASE (\E k \in Keys : Call(w, k)) \/ OutOfSpace(w)
    BY <2>1, CallStep
  <2>2. CASE Alloc(w)
    BY <2>2, AllocStep
  <2>3. CASE Create(w)
    BY <2>3, CreateStep
  <2>4. CASE Fill(w)
    BY <2>4, FillStep
  <2>5. CASE Store(w)
    BY <2>5, StoreStep
  <2>6. CASE Index(w)
    BY <2>6, IndexStep
  <2>7. CASE StoreThroughNull(w)
    <3>1. Die /\ crashes' \in Nat
      BY <2>7 DEF StoreThroughNull, Inv, TypeOK
    <3> QED
      BY <3>1, DieStep
  <2> QED
    BY <1>7, <2>1, <2>2, <2>3, <2>4, <2>5, <2>6, <2>7 DEF Writer
<1> QED
  BY <1>1, <1>2, <1>3, <1>4, <1>5, <1>6, <1>7 DEF Next

\* The parts of the invariant hold in every state: what the pages hold, what the
\* writers and the recoverers have, and what the index knows.
THEOREM RecoveryInvariance == Spec => []Inv
<1>1. Init => Inv
  BY InitInv
<1>2. Inv /\ [Next]_vars => Inv'
  BY NextInv
<1> QED
  BY <1>1, <1>2, PTL DEF Spec

\* recovery_logkv loses only acknowledged inserts whose logs are behind a slot
\* that was handed out and never written, and even their logs are in the pages.
THEOREM LosesOnlyBehindHole == Spec => []LostOnlyBehindHole
<1>1. Inv => LostOnlyBehindHole
  <2> SUFFICES ASSUME Inv, phase = "run", NEW k \in acked \ index
               PROVE  /\ Stored(k)
                      /\ \A s \in Shards, p \in PageIds, o \in Slots :
                           pm[s][p][o] = k => BehindHole(s, p, o) \/ InFlight(s, p, o)
    BY DEF LostOnlyBehindHole
  <2>1. Stored(k) /\ k \in Keys
    BY DEF Inv, KeptInv, TypeOK
  <2>2. \A s \in Shards, p \in PageIds, o \in Slots :
          pm[s][p][o] \in Keys => Known(s, p, o) \/ BehindHole(s, p, o)
    BY OpenFacts
  <2> QED
    BY <2>1, <2>2 DEF Known
<1> QED
  BY <1>1, RecoveryInvariance, PTL

\* The index of a recovered store holds only keys of logs in the pages, and the
\* key 0 only if there is a page of zero bytes.
THEOREM InventsNothing == Spec => []InventsOnlyZeroKey
<1>1. Inv => InventsOnlyZeroKey
  BY DEF Inv, KeptInv, LeftZeros, InventsOnlyZeroKey
<1> QED
  BY <1>1, RecoveryInvariance, PTL

\* The end that recovery_logkv finds for a shard's newest page is past its logs,
\* but for those behind a hole.
THEOREM TailIsPastLogs == Spec => []TailPastLogs
<1>1. Inv => TailPastLogs
  BY DEF Inv, TailInv, Tail, TailPastLogs, Up
<1> QED
  BY <1>1, RecoveryInvariance, PTL
=============================================================================
