----------------------------- MODULE ClhtProofs -----------------------------
(***************************************************************************)
(* Proofs about the hash table behind logdb's cache, for any number of     *)
(* threads, keys, buckets, slots of a bucket, resizes and calls, and       *)
(* whichever of the threads are registered.                                *)
(***************************************************************************)
EXTENDS Clht, FiniteSetTheorems, SequenceTheorems, WellFoundedInduction, TLAPS

-----------------------------------------------------------------------------
\* Types.

PCs == {"idle", "get", "getkey", "getcheck", "got", "put", "remove", "putlock", "removelock",
        "putwait", "removewait", "putscan", "putkey", "removescan", "unlock",
        "status", "resize", "trylock", "copy", "copyslot", "publish", "release"}

Values == {NoValue} \cup {ValueOf(k) : k \in Keys}
Entries == [key: Keys \cup {0}, val: Values]

TablesOf(n) == [n: {n}, bins: [0..(n - 1) -> Seq(Entries)],
                lock: [0..(n - 1) -> {"free", "update", "resize"}], new: Nat, expands: Nat]
Tables == UNION {TablesOf(n) : n \in Nat \ {0}}

Locals == [pc: PCs, key: Keys \cup {0}, t: Nat, i: Nat, val: Values, old: Nat,
           pos: Nat, new: Nat, size: Nat, resize: BOOLEAN, sure: BOOLEAN, writes: Nat]

TypeInv ==
  /\ tables \in Seq(Tables) /\ ht \in 1..Len(tables)
  /\ th \in [Threads -> Locals]
  /\ resizing \in BOOLEAN /\ given \subseteq Keys /\ ops \in Nat

-----------------------------------------------------------------------------
\* The inductive invariant, in parts.  What a thread relies on is stated of the
\* values: of its record r, the tables T and the number h of the current one.

BinOf(T, t, k) == T[t].bins[k % T[t].n]

InCall == {"get", "getkey", "getcheck", "got", "put", "remove", "putlock", "removelock",
           "putwait", "removewait", "putscan", "putkey", "removescan", "unlock"}
Holds == {"putscan", "putkey", "removescan", "unlock"}
Gets == {"get", "getkey", "getcheck"}
Copies == {"copy", "copyslot"}
Resizes == {"copy", "copyslot", "publish", "release"}

CallOK(r, h) == r.pc \in InCall => /\ r.key \in Keys /\ r.t \in 1..h
                                   /\ r.pc # "unlock" => ~r.resize

\* A writer holds the lock of its bucket.
LockOK(r, T) == r.pc \in Holds => T[r.t].lock[r.key % T[r.t].n] = "update"

\* The slot a put has written the value into is empty, and no other has the key.
PutOK(r, T) ==
  r.pc = "putkey" =>
    /\ r.i \in 1..Len(BinOf(T, r.t, r.key))
    /\ BinOf(T, r.t, r.key)[r.i].key = 0 /\ BinOf(T, r.t, r.key)[r.i].val = ValueOf(r.key)
    /\ \A j \in 1..Len(BinOf(T, r.t, r.key)) : BinOf(T, r.t, r.key)[j].key # r.key

\* What a get has read in its bin is still there, or was replaced.
ReadOK(r, bin) ==
  /\ r.pc \in Gets => r.i \in 1..Len(bin)
  /\ r.pc \in {"getkey", "getcheck"} /\ r.writes = 0 => r.val = bin[r.i].val
  /\ r.pc = "getcheck" /\ r.writes < 2 /\ r.val = bin[r.i].val => r.val = ValueOf(r.key)
  /\ r.pc = "got" /\ r.writes < 2 => r.val \in {NoValue, ValueOf(r.key)}

\* A key that must be found is ahead of the get, or found.
FindOK(r, bin) ==
  r.sure =>
    /\ r.pc = "get" => \E j \in 1..Len(bin) : r.i <= j /\ bin[j].key = r.key
    /\ r.pc = "getkey" => \E j \in 1..Len(bin) : /\ r.i <= j /\ bin[j].key = r.key
                                                 /\ j = r.i => r.val = bin[j].val
    /\ r.pc = "getcheck" => bin[r.i].key = r.key /\ r.val = bin[r.i].val
    /\ r.pc = "got" => r.val = ValueOf(r.key)

\* The bucket b has been copied, or is being copied.
Passed(r, b) == b < r.pos \/ (r.pc = "copyslot" /\ b = r.pos)

\* Key k is in a slot that has been copied.
WasCopied(r, T, k) ==
  LET bin == BinOf(T, r.old, k)
  IN \E j \in 1..Len(bin) : /\ bin[j].key = k
                            /\ \/ k % T[r.old].n < r.pos
                               \/ r.pc = "copyslot" /\ k % T[r.old].n = r.pos /\ j < r.i

\* A resize copies the current table to the one behind it.
CopyOK(r, T, h) ==
  r.pc \in Copies =>
    /\ r.old = h /\ r.new = h + 1 /\ Len(T) = h + 1 /\ r.pos \in 0..T[h].n
    /\ r.pc = "copyslot" => r.pos < T[h].n /\ r.i \in 1..Len(T[h].bins[r.pos])
    /\ \A b \in 0..(T[h].n - 1) : Passed(r, b) => T[h].lock[b] = "resize"
    /\ \A k \in Keys : (\E j \in 1..Len(BinOf(T, h + 1, k)) : BinOf(T, h + 1, k)[j].key = k)
                       <=> WasCopied(r, T, k)

StatusOK(r, h) ==
  /\ r.pc = "resize" => r.t \in 1..h
  /\ r.pc = "trylock" => r.old = h
  /\ r.pc = "publish" => r.old \in 1..h

ThreadOK(r, T, h) ==
  /\ CallOK(r, h) /\ LockOK(r, T) /\ PutOK(r, T)
  /\ ReadOK(r, BinOf(T, r.t, r.key)) /\ FindOK(r, BinOf(T, r.t, r.key))
  /\ CopyOK(r, T, h) /\ StatusOK(r, h)

\* A table: every key in its bin, once, with its value.
GoodBin(T, b) ==
  LET bin == T.bins[b]
  IN /\ Len(bin) >= 1
     /\ \A i \in 1..Len(bin) : bin[i].key # 0 => bin[i].key % T.n = b /\ bin[i].val = ValueOf(bin[i].key)
     /\ \A i, j \in 1..Len(bin) : bin[i].key # 0 /\ bin[i].key = bin[j].key => i = j
GoodTable(T) == \A b \in 0..(T.n - 1) : GoodBin(T, b)

\* The threads that are to resize the current table, or are at it.
Token(r) == \/ r.pc \in {"status", "resize", "trylock", "copy", "copyslot"}
            \/ r.pc \in {"unlock", "publish", "release"} /\ r.resize

\* What two threads may not both be at.
Apart(r, s, T) ==
  /\ ~(r.pc \in Holds /\ s.pc \in Holds /\ r.t = s.t /\ r.key % T[r.t].n = s.key % T[s.t].n)
  /\ ~(Token(r) /\ Token(s))
  /\ ~(r.pc \in Resizes /\ s.pc \in Resizes)

TablesInv == \A t \in 1..Len(tables) : GoodTable(tables[t])
ThreadsInv == \A p \in Threads : ThreadOK(th[p], tables, ht)
ApartInv == \A p, q \in Threads : p # q => Apart(th[p], th[q], tables)

\* Tables that were replaced are locked for good; a new one is not locked at all;
\* in the current one the resize has locked what it has passed.
LocksInv ==
  /\ \A t \in 1..(ht - 1) : \A b \in 0..(tables[t].n - 1) : tables[t].lock[b] = "resize"
  /\ \A t \in (ht + 1)..Len(tables) : \A b \in 0..(tables[t].n - 1) : tables[t].lock[b] = "free"
  /\ \A b \in 0..(tables[ht].n - 1) : tables[ht].lock[b] = "resize" =>
       \E p \in Threads : th[p].pc \in Copies /\ Passed(th[p], b)
  /\ Len(tables) > ht => \E p \in Threads : th[p].pc \in Copies

\* A resize is under way only of a table with too many extra buckets.
TokenInv == \A p \in Threads : /\ Token(th[p]) => tables[ht].expands >= tables[ht].n
                               /\ th[p].pc \in Resizes => resizing

KeptInv ==
  \A k \in Keys : k \in given <=>
    \E j \in 1..Len(BinOf(tables, ht, k)) : BinOf(tables, ht, k)[j].key = k

Inv == /\ TypeInv /\ TablesInv /\ ThreadsInv /\ ApartInv /\ LocksInv /\ TokenInv /\ KeptInv

-----------------------------------------------------------------------------
\* Constants, values and hashes.

\* What the assumptions on the constants say of them.
LEMMA ConstantFacts ==
  /\ Slots \in Nat \ {0} /\ FirstBuckets \in Nat \ {0} /\ OccupAfterRes \in Nat \ {0} /\ FullHalve \in Nat
  /\ MaxTables \in Nat \ {0} /\ MaxOps \in Nat
  /\ \A k \in Keys : k \in Nat /\ k # 0
  /\ \A c \in Calls : c[1] \in {"get", "put", "remove"} /\ c[2] \in Keys
BY ClhtAssumption

\* A key's value is not that of no key.
LEMMA ValueFacts ==
  /\ NoValue \in Values /\ \A k \in Keys : ValueOf(k) \in Values
  /\ \A k : ValueOf(k) # NoValue
BY DEF Values, ValueOf, NoValue

\* clht_hash is the number of a bin.
LEMMA HashFact ==
  \A n \in Nat \ {0}, k \in Keys : k % n \in 0..(n - 1)
BY ConstantFacts

\* The fields of a table.
LEMMA TableFacts ==
  ASSUME NEW T \in Tables
  PROVE  /\ T.n \in Nat \ {0}
         /\ T.bins \in [0..(T.n - 1) -> Seq(Entries)]
         /\ T.lock \in [0..(T.n - 1) -> {"free", "update", "resize"}]
         /\ T.new \in Nat /\ T.expands \in Nat
         /\ T \in TablesOf(T.n)
<1>1. PICK n \in Nat \ {0} : T \in TablesOf(n)
  BY DEF Tables
<1>2. T.n = n
  BY <1>1 DEF TablesOf
<1> QED
  BY <1>1, <1>2 DEF TablesOf

\* LOCK_ACQ, LOCK_RLS and LOCK_ACQ_RES change one lock.
LEMMA LockUpdate ==
  ASSUME NEW T \in Tables, NEW b \in 0..(T.n - 1), NEW l \in {"free", "update", "resize"},
         NEW U, U = [T EXCEPT !.lock[b] = l]
  PROVE  /\ U \in Tables /\ U.n = T.n /\ U.bins = T.bins /\ U.new = T.new /\ U.expands = T.expands
         /\ U.lock[b] = l /\ \A c \in 0..(T.n - 1) : c # b => U.lock[c] = T.lock[c]
<1>1. T \in TablesOf(T.n) /\ T.n \in Nat \ {0}
  BY TableFacts
<1>2. U \in TablesOf(T.n) /\ U.n = T.n /\ U.bins = T.bins /\ U.new = T.new /\ U.expands = T.expands
  BY <1>1 DEF TablesOf
<1>3. U.lock = [T.lock EXCEPT ![b] = l] /\ T.lock \in [0..(T.n - 1) -> {"free", "update", "resize"}]
  BY <1>1 DEF TablesOf
<1> QED
  BY <1>1, <1>2, <1>3 DEF Tables

\* One bin of a table is replaced.
LEMMA BinUpdate ==
  ASSUME NEW T \in Tables, NEW b \in 0..(T.n - 1), NEW bin \in Seq(Entries),
         NEW U, U = [T EXCEPT !.bins[b] = bin]
  PROVE  /\ U \in Tables /\ U.n = T.n /\ U.lock = T.lock /\ U.new = T.new /\ U.expands = T.expands
         /\ U.bins[b] = bin /\ \A c \in 0..(T.n - 1) : c # b => U.bins[c] = T.bins[c]
<1>1. T \in TablesOf(T.n) /\ T.n \in Nat \ {0}
  BY TableFacts
<1>2. U \in TablesOf(T.n) /\ U.n = T.n /\ U.lock = T.lock /\ U.new = T.new /\ U.expands = T.expands
  BY <1>1 DEF TablesOf
<1>3. U.bins = [T.bins EXCEPT ![b] = bin] /\ T.bins \in [0..(T.n - 1) -> Seq(Entries)]
  BY <1>1 DEF TablesOf
<1> QED
  BY <1>1, <1>2, <1>3 DEF Tables

\* The first of some slots is one of them.
LEMMA FirstFact ==
  ASSUME NEW S \in SUBSET Nat, S # {}
  PROVE  First(S) \in S /\ \A j \in S : First(S) <= j
<1>1. PICK x \in S : \A y \in S : ~(<<y, x>> \in OpToRel(<, Nat))
  BY NatLessThanWellFounded, WFMin, Zenon
<1>2. \A y \in S : ~(y < x)
  BY <1>1, Zenon DEF OpToRel
<1>3. \E i \in S : \A j \in S : i <= j
  BY <1>2
<1> QED
  BY <1>3 DEF First

\* A number is even or odd.
LEMMA Parity ==
  ASSUME NEW m \in Nat
  PROVE  \E a \in Nat : (m = 2 * a /\ m % 2 = 0) \/ m = 2 * a + 1
<1>1. m \div 2 \in Nat /\ (m = 2 * (m \div 2) \/ m = 2 * (m \div 2) + 1)
  OBVIOUS
<1>2. \A a \in Nat : m = 2 * a => m % 2 = 0
  OBVIOUS
<1> QED
  BY <1>1, <1>2

\* Twice a power of two is one.
LEMMA DoublePow2 ==
  ASSUME NEW n \in Nat \ {0}, IsPow2(n)
  PROVE  IsPow2(2 * n)
<1> SUFFICES ASSUME NEW d \in 1..(2 * n), NEW e \in 1..(2 * n), d * e = 2 * n, d % 2 # 0
             PROVE  d = 1
  BY DEF IsPow2
<1>1. PICK a \in Nat : d = 2 * a + 1
  BY Parity
<1>2. PICK f \in Nat : e = 2 * f
  <2>1. e \in Nat
    OBVIOUS
  <2>2. PICK c \in Nat : e = 2 * c \/ e = 2 * c + 1
    BY <2>1, Parity
  <2>3. CASE e = 2 * c + 1
    <3>1. d * e = 2 * (2 * (a * c) + a + c) + 1
      BY <1>1, <2>3
    <3>2. 2 * (a * c) + a + c \in Nat
      OBVIOUS
    <3> QED
      BY <3>1, <3>2
  <2> QED
    BY <2>2, <2>3
<1>3. d * f = n
  <2>1. 2 * (d * f) = 2 * n
    BY <1>2
  <2>2. d * f \in Nat
    BY <1>2
  <2> QED
    BY <2>1, <2>2
<1>4. f >= 1 /\ d \in 1..n /\ f \in 1..n
  <2>1. f # 0
    BY <1>3
  <2>2. d * 1 <= d * f /\ 1 * f <= d * f
    BY <1>2, <2>1
  <2> QED
    BY <1>2, <1>3, <2>1, <2>2
<1> QED
  BY <1>3, <1>4 DEF IsPow2

\* There is a power of two between a number and its double.
LEMMA SomePow2 ==
  \A x \in Nat \ {0} : \E n \in x..(2 * x) : IsPow2(n)
<1> DEFINE S == {x \in Nat : x # 0 /\ ~ \E n \in x..(2 * x) : IsPow2(n)}
<1> SUFFICES S = {}
  OBVIOUS
<1> SUFFICES ASSUME S # {}
             PROVE  FALSE
  OBVIOUS
<1>1. S \subseteq Nat
  OBVIOUS
<1>2. PICK x \in S : \A y \in S : x <= y
  <2>1. First(S) \in S /\ \A j \in S : First(S) <= j
    BY <1>1, FirstFact
  <2> QED
    BY <2>1
<1>3. IsPow2(1)
  BY DEF IsPow2
<1>4. x \in Nat /\ x > 1
  BY <1>2, <1>3
<1>5. PICK y \in Nat : y >= 1 /\ y < x /\ x <= 2 * y /\ 2 * y <= x + 1
  <2>1. (x + 1) \div 2 \in Nat /\ x <= 2 * ((x + 1) \div 2) /\ 2 * ((x + 1) \div 2) <= x + 1
    BY <1>4
  <2> QED
    BY <1>4, <2>1
<1>6. PICK m \in y..(2 * y) : IsPow2(m)
  BY <1>2, <1>4, <1>5
<1>7. CASE m >= x
  BY <1>2, <1>4, <1>5, <1>6, <1>7
<1>8. CASE m < x
  <2>1. IsPow2(2 * m) /\ 2 * m \in x..(2 * x)
    BY <1>4, <1>5, <1>6, <1>8, DoublePow2
  <2> QED
    BY <1>2, <2>1
<1> QED
  BY <1>4, <1>5, <1>6, <1>7, <1>8

\* pow2roundup returns a positive number.
LEMMA Pow2RoundUpFact ==
  ASSUME NEW x \in Nat
  PROVE  Pow2RoundUp(x) \in Nat \ {0}
<1>1. \E n \in 1..(2 * x + 1) : n >= x /\ IsPow2(n)
  <2>1. CASE x = 0
    BY <2>1 DEF IsPow2
  <2>2. CASE x # 0
    BY <2>2, SomePow2
  <2> QED
    BY <2>1, <2>2
<1>2. {n \in 1..(2 * x + 1) : n >= x /\ IsPow2(n)} \subseteq Nat \ {0}
  OBVIOUS
<1> QED
  BY <1>1, <1>2, FirstFact DEF Pow2RoundUp

\* The number of records in a table is a number.
LEMMA SizeFact ==
  ASSUME NEW T \in Tables
  PROVE  Size(T) \in Nat
<1> DEFINE P(b) == {b} \X {i \in 1..Len(T.bins[b]) : T.bins[b][i].key # 0}
           D == 0..(T.n - 1)
           f == [b \in D |-> P(b)]
           R == {P(b) : b \in D}
<1>1. T.n \in Nat /\ IsFiniteSet(D)
  BY TableFacts, FS_Interval
<1>2. f \in Surjection(D, R)
  BY DEF Surjection
<1>3. IsFiniteSet(R)
  BY <1>1, <1>2, FS_Surjection
<1>4. ASSUME NEW b \in D
      PROVE  IsFiniteSet(P(b))
  <2>1. Len(T.bins[b]) \in Int
    BY TableFacts
  <2>2. IsFiniteSet(1..Len(T.bins[b]))
    BY <2>1, FS_Interval
  <2>3. IsFiniteSet({i \in 1..Len(T.bins[b]) : T.bins[b][i].key # 0})
    BY <2>2, FS_Subset
  <2>4. IsFiniteSet({b})
    BY FS_Singleton
  <2> QED
    BY <2>3, <2>4, FS_Product
<1>5. IsFiniteSet(UNION R)
  BY <1>3, <1>4, FS_UNION
<1> QED
  BY <1>5, FS_CardinalityType DEF Size

\* So is the number of buckets that ht_status asks for.
LEMMA NewSizeFact ==
  ASSUME NEW T \in Tables, NEW n \in Nat
  PROVE  NewSize(T, n) \in Nat
<1>1. PICK full \in Nat : full = 100 * Size(T)
  BY SizeFact
<1>2. PICK room \in Nat \ {0} : room = T.n * Slots
  BY TableFacts, ConstantFacts
<1>3. room * OccupAfterRes \in Nat \ {0}
  BY ConstantFacts
<1>4. full \div (room * OccupAfterRes) \in Nat
  BY <1>3
<1>5. PICK by \in Nat : by = Pow2RoundUp(full \div (room * OccupAfterRes))
  BY <1>4, Pow2RoundUpFact
<1>6. n \div 8 \in Nat /\ n * 2 \in Nat /\ n * by \in Nat
  OBVIOUS
<1> QED
  BY <1>1, <1>2, <1>5, <1>6 DEF NewSize

\* A table without keys: clht_hashtable_create.
LEMMA NewTableFact ==
  ASSUME NEW n \in Nat \ {0}
  PROVE  /\ NewTable(n) \in Tables /\ NewTable(n).n = n /\ GoodTable(NewTable(n))
         /\ \A b \in 0..(n - 1) : /\ NewTable(n).lock[b] = "free"
                                  /\ \A i \in 1..Len(NewTable(n).bins[b]) : NewTable(n).bins[b][i].key = 0
<1>1. PICK B : B = [i \in 1..Slots |-> Empty]
  OBVIOUS
<1>2. B \in Seq(Entries) /\ Len(B) = Slots /\ \A i \in 1..Len(B) : B[i].key = 0
  BY <1>1, ConstantFacts, ValueFacts DEF Empty, Entries
<1>3. NewTable(n) = [n |-> n, bins |-> [b \in 0..(n - 1) |-> B], lock |-> [b \in 0..(n - 1) |-> "free"],
                     new |-> 0, expands |-> 0]
  BY <1>1 DEF NewTable
<1>4. NewTable(n) \in TablesOf(n)
  BY <1>2, <1>3 DEF TablesOf
<1>5. NewTable(n).n = n /\ \A b \in 0..(n - 1) : NewTable(n).lock[b] = "free" /\ NewTable(n).bins[b] = B
  BY <1>3
<1>6. GoodTable(NewTable(n))
  BY <1>2, <1>5, ConstantFacts DEF GoodTable, GoodBin
<1> QED
  BY <1>2, <1>4, <1>5, <1>6 DEF Tables

-----------------------------------------------------------------------------
\* A writer changes one slot of a bin, or appends a bucket, and others read it.

\* Slot f of bin A, if it has one, is all that bin B changes; what was not empty
\* there was key k.
BinStep(A, B, f, k) ==
  /\ A \in Seq(Entries) /\ B \in Seq(Entries) /\ Len(A) <= Len(B) /\ f \in Nat
  /\ \A i \in 1..Len(A) : i # f => B[i] = A[i]
  /\ f \in 1..Len(A) => A[f].key \in {0, k}

\* What another thread has of its record r after it.
Beside(r, s) ==
  /\ s \in Locals /\ s.pc = r.pc /\ s.key = r.key /\ s.t = r.t /\ s.i = r.i /\ s.val = r.val
  /\ s.old = r.old /\ s.pos = r.pos /\ s.new = r.new /\ s.size = r.size /\ s.resize = r.resize
  /\ s.sure => r.sure
  /\ s.writes = r.writes \/ s.writes = r.writes + 1

\* A get that is at the bin goes on as before.
LEMMA ReaderKept ==
  ASSUME NEW r \in Locals, NEW s, Beside(r, s), NEW A, NEW B, NEW f, NEW k, BinStep(A, B, f, k),
         r.key \in Keys, ReadOK(r, A), FindOK(r, A),
         s.sure => ~(f \in 1..Len(A) /\ A[f].key = r.key),
         f \in 1..Len(A) /\ B[f].val # A[f].val /\ r.pc \in {"getkey", "getcheck"} /\ r.i = f
           => s.writes = r.writes + 1
  PROVE  ReadOK(s, B) /\ FindOK(s, B)
<1>1. /\ s \in Locals /\ s.pc = r.pc /\ s.key = r.key /\ s.i = r.i /\ s.val = r.val
      /\ (s.sure => r.sure) /\ (s.writes = r.writes \/ s.writes = r.writes + 1)
      /\ r.writes \in Nat /\ s.writes \in Nat /\ r.i \in Nat
  BY DEF Beside, Locals
<1>2. /\ Len(A) \in Nat /\ Len(B) \in Nat /\ Len(A) <= Len(B) /\ f \in Nat
      /\ \A i \in 1..Len(A) : i # f => B[i] = A[i]
  BY DEF BinStep
<1>3. s.pc \in Gets => s.i \in 1..Len(A) /\ s.i \in 1..Len(B)
  BY <1>1, <1>2 DEF ReadOK
<1>4. ReadOK(s, B)
  <2>1. s.pc \in {"getkey", "getcheck"} /\ s.writes = 0 => s.val = B[s.i].val
    BY <1>1, <1>2, <1>3 DEF ReadOK, Gets
  <2>2. ASSUME s.pc = "getcheck", s.writes < 2, s.val = B[s.i].val
        PROVE  s.val = ValueOf(s.key)
    <3>1. CASE B[s.i].val = A[s.i].val
      BY <1>1, <2>2, <3>1 DEF ReadOK
    <3>2. CASE B[s.i].val # A[s.i].val
      <4>1. s.i = f /\ s.i \in 1..Len(A)
        BY <1>2, <1>3, <2>2, <3>2 DEF Gets
      <4>2. r.writes = 0
        BY <1>1, <2>2, <3>2, <4>1
      <4>3. r.val = A[r.i].val
        BY <1>1, <2>2, <4>2 DEF ReadOK
      <4> QED
        BY <1>1, <2>2, <4>2, <4>3 DEF ReadOK
    <3> QED
      BY <3>1, <3>2
  <2>3. s.pc = "got" /\ s.writes < 2 => s.val \in {NoValue, ValueOf(s.key)}
    BY <1>1 DEF ReadOK
  <2> QED
    BY <1>3, <2>1, <2>2, <2>3 DEF ReadOK
<1>5. FindOK(s, B)
  <2> SUFFICES ASSUME s.sure
               PROVE  /\ s.pc = "get" => \E j \in 1..Len(B) : s.i <= j /\ B[j].key = s.key
                      /\ s.pc = "getkey" => \E j \in 1..Len(B) : /\ s.i <= j /\ B[j].key = s.key
                                                                 /\ j = s.i => s.val = B[j].val
                      /\ s.pc = "getcheck" => B[s.i].key = s.key /\ s.val = B[s.i].val
                      /\ s.pc = "got" => s.val = ValueOf(s.key)
    BY DEF FindOK
  <2>1. \A j \in 1..Len(A) : A[j].key = r.key => B[j] = A[j] /\ j \in 1..Len(B)
    BY <1>2
  <2>2. s.pc = "get" => \E j \in 1..Len(B) : s.i <= j /\ B[j].key = s.key
    BY <1>1, <2>1 DEF FindOK
  <2>3. s.pc = "getkey" => \E j \in 1..Len(B) : /\ s.i <= j /\ B[j].key = s.key
                                                /\ j = s.i => s.val = B[j].val
    BY <1>1, <2>1 DEF FindOK
  <2>4. s.pc = "getcheck" => B[s.i].key = s.key /\ s.val = B[s.i].val
    BY <1>1, <1>3, <2>1 DEF FindOK, Gets
  <2>5. s.pc = "got" => s.val = ValueOf(s.key)
    BY <1>1 DEF FindOK
  <2> QED
    BY <2>2, <2>3, <2>4, <2>5
<1> QED
  BY <1>4, <1>5

\* One of the tables is replaced by another.
LEMMA SeqUpdate ==
  ASSUME NEW T \in Seq(Tables), NEW t \in 1..Len(T), NEW U \in Tables, NEW V, V = [T EXCEPT ![t] = U]
  PROVE  /\ V \in Seq(Tables) /\ Len(V) = Len(T) /\ V[t] = U
         /\ \A u \in 1..Len(T) : u # t => V[u] = T[u]
OBVIOUS

\* The tables and the threads are of their types.
LEMMA TypeFacts ==
  ASSUME Inv
  PROVE  /\ tables \in Seq(Tables) /\ Len(tables) \in Nat /\ ht \in Nat /\ ht \in 1..Len(tables)
         /\ \A t \in 1..Len(tables) : /\ tables[t] \in Tables /\ tables[t].n \in Nat \ {0}
                                      /\ tables[t].bins \in [0..(tables[t].n - 1) -> Seq(Entries)]
                                      /\ GoodTable(tables[t]) /\ tables[t].expands \in Nat
         /\ \A p \in Threads : th[p] \in Locals /\ ThreadOK(th[p], tables, ht)
<1>1. tables \in Seq(Tables) /\ ht \in 1..Len(tables) /\ th \in [Threads -> Locals]
  BY DEF Inv, TypeInv
<1>2. Len(tables) \in Nat /\ ht \in Nat /\ \A t \in 1..Len(tables) : tables[t] \in Tables
  BY <1>1
<1>3. \A t \in 1..Len(tables) : GoodTable(tables[t])
  BY DEF Inv, TablesInv
<1>4. \A p \in Threads : ThreadOK(th[p], tables, ht)
  BY DEF Inv, ThreadsInv
<1> QED
  BY <1>1, <1>2, <1>3, <1>4, TableFacts

\* The thread in a call: its table and its bin.
LEMMA CallFacts ==
  ASSUME Inv, NEW p \in Threads, th[p].pc \in InCall
  PROVE  /\ th[p].key \in Keys /\ th[p].t \in 1..ht /\ th[p].t \in 1..Len(tables)
         /\ th[p].key % tables[th[p].t].n \in 0..(tables[th[p].t].n - 1)
         /\ BinOf(tables, th[p].t, th[p].key) \in Seq(Entries)
         /\ GoodBin(tables[th[p].t], th[p].key % tables[th[p].t].n)
<1>1. th[p].key \in Keys /\ th[p].t \in 1..ht /\ th[p].t \in 1..Len(tables)
  BY TypeFacts DEF ThreadOK, CallOK
<1>2. th[p].key % tables[th[p].t].n \in 0..(tables[th[p].t].n - 1)
  BY <1>1, TypeFacts, HashFact
<1>3. BinOf(tables, th[p].t, th[p].key) \in Seq(Entries)
  BY <1>1, <1>2, TypeFacts DEF BinOf
<1> QED
  BY <1>1, <1>2, <1>3, TypeFacts DEF GoodTable

\* A writer that has the lock is in the current table: the others are locked for good.
LEMMA HolderCurrent ==
  ASSUME Inv, NEW p \in Threads, th[p].pc \in Holds
  PROVE  th[p].t = ht /\ tables[ht].lock[th[p].key % tables[ht].n] = "update"
<1>1. /\ th[p].key \in Keys /\ th[p].t \in 1..ht
      /\ th[p].key % tables[th[p].t].n \in 0..(tables[th[p].t].n - 1)
  BY CallFacts DEF Holds, InCall
<1>2. tables[th[p].t].lock[th[p].key % tables[th[p].t].n] = "update"
  BY TypeFacts DEF ThreadOK, LockOK
<1>3. th[p].t \notin 1..(ht - 1)
  BY <1>1, <1>2 DEF Inv, LocksInv
<1> QED
  BY <1>1, <1>2, <1>3, TypeFacts

\* Bin b of table h is B now; nothing else that anybody relies on changed.
Rewritten(T, V, h, b, B) ==
  /\ V \in Seq(Tables) /\ Len(V) = Len(T) /\ h \in 1..Len(T)
  /\ \A u \in 1..Len(T) : u # h => V[u] = T[u]
  /\ V[h].n = T[h].n /\ V[h].lock = T[h].lock /\ V[h].expands >= T[h].expands
  /\ b \in 0..(T[h].n - 1) /\ V[h].bins[b] = B
  /\ \A c \in 0..(T[h].n - 1) : c # b => V[h].bins[c] = T[h].bins[c]

\* Thread q has not locked bin b, and what it has read there is noted to be old.
StandsBy(q, s, b, A, B, f) ==
  /\ Beside(th[q], s) /\ ~(th[q].pc \in Holds /\ th[q].key % tables[ht].n = b)
  /\ s.sure /\ th[q].key # 0 => ~(f \in 1..Len(A) /\ A[f].key = th[q].key)
  /\ f \in 1..Len(A) /\ B[f].val # A[f].val /\ ReadAt(q) = <<ht, b, f>> => s.writes = th[q].writes + 1

\* The other threads, while a writer changes the bin it has locked.
LEMMA OthersKept ==
  ASSUME Inv, NEW V, NEW b, NEW A, NEW B, NEW f, NEW k, Rewritten(tables, V, ht, b, B),
         A = tables[ht].bins[b], BinStep(A, B, f, k), tables[ht].lock[b] = "update",
         NEW q \in Threads, NEW s, StandsBy(q, s, b, A, B, f)
  PROVE  ThreadOK(s, V, ht)
<1>0. /\ Beside(th[q], s) /\ ~(th[q].pc \in Holds /\ th[q].key % tables[ht].n = b)
      /\ s.sure /\ th[q].key # 0 => ~(f \in 1..Len(A) /\ A[f].key = th[q].key)
      /\ f \in 1..Len(A) /\ B[f].val # A[f].val /\ ReadAt(q) = <<ht, b, f>> => s.writes = th[q].writes + 1
  BY DEF StandsBy
<1>1. PICK r \in Locals : r = th[q]
  BY TypeFacts
<1>2. /\ s \in Locals /\ s.pc = r.pc /\ s.key = r.key /\ s.t = r.t /\ s.i = r.i /\ s.val = r.val
      /\ s.old = r.old /\ s.pos = r.pos /\ s.new = r.new /\ s.size = r.size /\ s.resize = r.resize
      /\ (s.sure => r.sure)
  BY <1>0, <1>1 DEF Beside
<1>3. /\ CallOK(r, ht) /\ LockOK(r, tables) /\ PutOK(r, tables)
      /\ ReadOK(r, BinOf(tables, r.t, r.key)) /\ FindOK(r, BinOf(tables, r.t, r.key))
      /\ CopyOK(r, tables, ht) /\ StatusOK(r, ht)
  BY <1>1, TypeFacts DEF ThreadOK
<1>4. /\ Len(V) = Len(tables) /\ \A u \in 1..Len(tables) : V[u].n = tables[u].n /\ V[u].lock = tables[u].lock
  BY DEF Rewritten
<1>5. CallOK(s, ht) /\ StatusOK(s, ht)
  BY <1>2, <1>3 DEF CallOK, StatusOK
<1>6. r.pc \in InCall => /\ r.key \in Keys /\ r.t \in 1..ht /\ r.t \in 1..Len(tables)
                         /\ r.key % tables[r.t].n \in 0..(tables[r.t].n - 1)
                         /\ BinOf(tables, r.t, r.key) \in Seq(Entries)
  BY <1>1, CallFacts
<1>7. LockOK(s, V)
  BY <1>2, <1>3, <1>4, <1>6 DEF LockOK, Holds, InCall
<1>8. r.pc \in InCall /\ ~(r.t = ht /\ r.key % tables[ht].n = b) =>
        BinOf(V, r.t, r.key) = BinOf(tables, r.t, r.key)
  BY <1>4, <1>6 DEF Rewritten, BinOf
<1>9. PutOK(s, V)
  <2> SUFFICES ASSUME r.pc = "putkey"
               PROVE  PutOK(s, V)
    BY <1>2 DEF PutOK
  <2>1. BinOf(V, r.t, r.key) = BinOf(tables, r.t, r.key)
    BY <1>0, <1>1, <1>8, HolderCurrent DEF Holds, InCall
  <2> QED
    BY <1>2, <1>3, <2>1 DEF PutOK
<1>10. ReadOK(s, BinOf(V, s.t, s.key)) /\ FindOK(s, BinOf(V, s.t, s.key))
  <2>1. CASE r.pc \notin Gets \cup {"got"}
    BY <1>2, <2>1 DEF ReadOK, FindOK, Gets
  <2>2. CASE r.pc \in Gets \cup {"got"} /\ r.t = ht /\ r.key % tables[ht].n = b
    <3>1. BinOf(tables, r.t, r.key) = A /\ BinOf(V, r.t, r.key) = B
      BY <1>4, <2>2 DEF Rewritten, BinOf
    <3>2. r.pc \in {"getkey", "getcheck"} /\ r.i = f => ReadAt(q) = <<ht, b, f>>
      BY <1>1, <2>2 DEF ReadAt, clht_hash
    <3>3. r.key \in Keys /\ r.key # 0
      BY <1>6, <2>2, ConstantFacts DEF Gets, InCall
    <3> QED
      BY <1>0, <1>1, <1>2, <1>3, <3>1, <3>2, <3>3, ReaderKept
  <2>3. CASE r.pc \in Gets \cup {"got"} /\ ~(r.t = ht /\ r.key % tables[ht].n = b)
    <3>1. PICK X \in Seq(Entries) : BinOf(tables, r.t, r.key) = X /\ BinOf(V, r.t, r.key) = X
      BY <1>6, <1>8, <2>3 DEF Gets, InCall
    <3>2. BinStep(X, X, 0, 0)
      BY <3>1 DEF BinStep
    <3>3. r.key \in Keys /\ 0 \notin 1..Len(X)
      BY <1>6, <2>3 DEF Gets, InCall
    <3> QED
      BY <1>0, <1>1, <1>2, <1>3, <3>1, <3>2, <3>3, ReaderKept
  <2> QED
    BY <2>1, <2>2, <2>3
<1>11. CopyOK(s, V, ht)
  <2> SUFFICES ASSUME r.pc \in Copies
               PROVE  CopyOK(s, V, ht)
    BY <1>2 DEF CopyOK
  <2>1. /\ r.old = ht /\ r.new = ht + 1 /\ Len(tables) = ht + 1 /\ r.pos \in 0..tables[ht].n
        /\ r.pc = "copyslot" => r.pos < tables[ht].n /\ r.i \in 1..Len(tables[ht].bins[r.pos])
        /\ \A c \in 0..(tables[ht].n - 1) : Passed(r, c) => tables[ht].lock[c] = "resize"
        /\ \A j \in Keys : (\E i \in 1..Len(BinOf(tables, ht + 1, j)) : BinOf(tables, ht + 1, j)[i].key = j)
                           <=> WasCopied(r, tables, j)
    BY <1>3 DEF CopyOK
  <2>2. ht \in 1..Len(tables) /\ ht + 1 \in 1..Len(tables) /\ V[ht + 1] = tables[ht + 1]
    BY <2>1, TypeFacts DEF Rewritten
  <2>3. b \in 0..(tables[ht].n - 1) /\ ~Passed(r, b)
    BY <2>1 DEF Rewritten
  <2>4. r.pc = "copyslot" => V[ht].bins[r.pos] = tables[ht].bins[r.pos]
    <3> SUFFICES ASSUME r.pc = "copyslot"
                 PROVE  V[ht].bins[r.pos] = tables[ht].bins[r.pos]
      OBVIOUS
    <3>1. r.pos # b
      BY <2>3 DEF Passed
    <3>2. tables[ht].n \in Nat
      BY <2>2, TypeFacts
    <3>3. r.pos \in 0..(tables[ht].n - 1)
      BY <2>1, <3>2
    <3> QED
      BY <3>1, <3>3 DEF Rewritten
  <2>5. ASSUME NEW j \in Keys
        PROVE  WasCopied(s, V, j) <=> WasCopied(r, tables, j)
    <3>1. j % tables[ht].n \in 0..(tables[ht].n - 1)
      BY <2>2, TypeFacts, HashFact
    <3>2. CASE j % tables[ht].n = b
      <4>1. ~WasCopied(r, tables, j)
        BY <2>1, <2>3, <3>2 DEF WasCopied, Passed
      <4>2. ~WasCopied(s, V, j)
        BY <1>2, <1>4, <2>1, <2>2, <2>3, <3>2 DEF WasCopied, Passed
      <4> QED
        BY <4>1, <4>2
    <3>3. CASE j % tables[ht].n # b
      <4>1. BinOf(V, ht, j) = BinOf(tables, ht, j)
        BY <1>4, <2>2, <3>1, <3>3 DEF Rewritten, BinOf
      <4> QED
        BY <1>2, <1>4, <2>1, <2>2, <4>1 DEF WasCopied
    <3> QED
      BY <3>2, <3>3
  <2>6. \A j : BinOf(V, ht + 1, j) = BinOf(tables, ht + 1, j)
    BY <2>2 DEF BinOf
  <2>7. \A c \in 0..(tables[ht].n - 1) : Passed(s, c) => V[ht].lock[c] = "resize"
    BY <1>2, <1>4, <2>1, <2>2 DEF Passed
  <2> QED
    BY <1>2, <1>4, <2>1, <2>2, <2>4, <2>5, <2>6, <2>7 DEF CopyOK
<1> QED
  BY <1>5, <1>7, <1>9, <1>10, <1>11 DEF ThreadOK

\* Thread p, which has the lock of bin b, changes it from A to B, in slot f.
Writes(p, b, A, B, f) ==
  /\ th[p].pc \in Holds /\ b = th[p].key % tables[ht].n
  /\ Rewritten(tables, tables', ht, b, B) /\ A = tables[ht].bins[b] /\ BinStep(A, B, f, th[p].key)
  /\ UNCHANGED <<ht, resizing, ops>>
  /\ th' \in [Threads -> Locals] /\ th'[p].pc \in {"putkey", "unlock"}
  /\ th'[p].t = th[p].t /\ th'[p].key = th[p].key
  /\ th'[p].resize => /\ th'[p].pc = "unlock"
                      /\ tables[ht].expands < tables[ht].n /\ tables'[ht].expands >= tables[ht].n

\* What the other threads have then.
Stand(p, b, A, B, f) ==
  \A q \in Threads : q # p =>
    /\ Beside(th[q], th'[q])
    /\ th'[q].sure /\ th[q].key # 0 => ~(f \in 1..Len(A) /\ A[f].key = th[q].key)
    /\ f \in 1..Len(A) /\ B[f].val # A[f].val /\ ReadAt(q) = <<ht, b, f>> =>
         th'[q].writes = th[q].writes + 1

\* What there is to show for such a step.
LEMMA WriteCombine ==
  ASSUME Inv, NEW p \in Threads, NEW b, NEW A, NEW B, NEW f, Writes(p, b, A, B, f), Stand(p, b, A, B, f),
         GoodBin(tables'[ht], b), given' \subseteq Keys, KeptInv', PutOK(th'[p], tables')
  PROVE  Inv'
<1>1. /\ th[p].pc \in Holds /\ th[p].t = ht /\ tables[ht].lock[b] = "update" /\ th[p].key \in Keys
      /\ ht \in 1..Len(tables) /\ Len(tables) \in Nat /\ ht \in Nat /\ b \in 0..(tables[ht].n - 1)
      /\ b = th[p].key % tables[ht].n
  BY HolderCurrent, CallFacts, TypeFacts DEF Holds, InCall, Writes
<1>2. /\ Len(tables') = Len(tables) /\ tables' \in Seq(Tables) /\ ht' = ht
      /\ \A u \in 1..Len(tables) : /\ tables'[u].n = tables[u].n /\ tables'[u].lock = tables[u].lock
                                   /\ u # ht => tables'[u] = tables[u]
  BY DEF Rewritten, Writes
<1>3. TypeInv'
  BY <1>1, <1>2 DEF Inv, TypeInv, Writes
<1>4. TablesInv'
  <2> SUFFICES ASSUME NEW u \in 1..Len(tables)
               PROVE  GoodTable(tables'[u])
    BY <1>2 DEF TablesInv
  <2>1. CASE u # ht
    BY <1>2, <2>1, TypeFacts
  <2>2. CASE u = ht
    <3> SUFFICES ASSUME NEW c \in 0..(tables[ht].n - 1), c # b
                 PROVE  GoodBin(tables'[ht], c)
      BY <1>1, <1>2, <2>2 DEF GoodTable
    <3>1. GoodBin(tables[ht], c)
      BY <1>1, TypeFacts DEF GoodTable
    <3>2. tables'[ht].bins[c] = tables[ht].bins[c]
      BY DEF Rewritten, Writes
    <3>3. tables'[ht].n = tables[ht].n
      BY <1>1, <1>2
    <3> QED
      BY <3>1, <3>2, <3>3 DEF GoodBin
  <2> QED
    BY <2>1, <2>2
<1>5. \A q \in Threads : q # p => ~(th[q].pc \in Holds /\ th[q].key % tables[ht].n = b)
  <2> SUFFICES ASSUME NEW q \in Threads, q # p, th[q].pc \in Holds, th[q].key % tables[ht].n = b
               PROVE  FALSE
    OBVIOUS
  <2>1. th[q].t = ht
    BY HolderCurrent
  <2> QED
    BY <1>1, <2>1 DEF Inv, ApartInv, Apart
<1>6. ThreadsInv'
  <2>1. ASSUME NEW q \in Threads, q # p
        PROVE  ThreadOK(th'[q], tables', ht)
    <3>1. PICK s : s = th'[q]
      OBVIOUS
    <3>2. PICK V : V = tables'
      OBVIOUS
    <3>3. Rewritten(tables, V, ht, b, B) /\ A = tables[ht].bins[b] /\ BinStep(A, B, f, th[p].key)
      BY <3>2 DEF Writes
    <3>4. StandsBy(q, s, b, A, B, f)
      BY <1>5, <2>1, <3>1 DEF Stand, StandsBy
    <3>5. ThreadOK(s, V, ht)
      BY <1>1, <3>3, <3>4, OthersKept
    <3> QED
      BY <3>1, <3>2, <3>5
  <2>2. ThreadOK(th'[p], tables', ht)
    <3>1. /\ th'[p].pc \in {"putkey", "unlock"} /\ th'[p].t = ht /\ th'[p].key = th[p].key
          /\ th'[p].pc = "putkey" => ~th'[p].resize
      BY <1>1 DEF Writes
    <3>2. CallOK(th'[p], ht)
      <4>1. ht \in 1..ht
        BY <1>1
      <4> QED
        BY <1>1, <3>1, <4>1 DEF CallOK
    <3>3. LockOK(th'[p], tables')
      BY <1>1, <1>2, <3>1 DEF LockOK
    <3>4. /\ ReadOK(th'[p], BinOf(tables', th'[p].t, th'[p].key))
          /\ FindOK(th'[p], BinOf(tables', th'[p].t, th'[p].key))
          /\ CopyOK(th'[p], tables', ht) /\ StatusOK(th'[p], ht)
      BY <3>1 DEF ReadOK, FindOK, CopyOK, StatusOK, Gets, Copies
    <3> QED
      BY <3>2, <3>3, <3>4 DEF ThreadOK
  <2> QED
    BY <1>2, <2>1, <2>2 DEF ThreadsInv
<1>7. \A q \in Threads : q # p => /\ th'[q].pc = th[q].pc /\ th'[q].key = th[q].key /\ th'[q].t = th[q].t
                                  /\ th'[q].resize = th[q].resize /\ th'[q].pos = th[q].pos
  BY DEF Beside, Stand
<1>8. /\ tables'[ht].n = tables[ht].n /\ tables'[ht].expands >= tables[ht].expands
      /\ tables'[ht].expands \in Nat /\ tables[ht].expands \in Nat /\ tables[ht].n \in Nat
  <2>1. tables'[ht] \in Tables
    BY <1>1, <1>2
  <2> QED
    BY <1>1, <1>2, <2>1, TypeFacts, TableFacts DEF Rewritten, Writes
<1>9. /\ th'[p].pc \notin Resizes /\ th'[p].pc \in {"putkey", "unlock"} /\ th'[p].t = ht /\ th'[p].key = th[p].key
      /\ Token(th'[p]) => tables[ht].expands < tables[ht].n /\ tables'[ht].expands >= tables[ht].n
  BY <1>1 DEF Writes, Token, Resizes
<1>10. ASSUME NEW q \in Threads
       PROVE  /\ Token(th[q]) => tables[ht].expands >= tables[ht].n
              /\ th[q].pc \in Resizes => resizing
  BY DEF Inv, TokenInv
<1>11. ApartInv'
  <2>1. ASSUME NEW q \in Threads, q # p
        PROVE  Apart(th'[p], th'[q], tables') /\ Apart(th'[q], th'[p], tables')
    <3>1. ~(th'[q].pc \in Holds /\ th'[q].t = ht /\ th'[q].key % tables'[ht].n = b)
      BY <1>5, <1>7, <1>8, <2>1
    <3>2. th'[p].key % tables'[th'[p].t].n = b /\ th'[p].t = ht
      BY <1>1, <1>8, <1>9
    <3>3. ~(Token(th'[p]) /\ Token(th'[q]))
      BY <1>7, <1>8, <1>9, <1>10, <2>1 DEF Token
    <3> QED
      BY <1>9, <3>1, <3>2, <3>3 DEF Apart
  <2>2. ASSUME NEW q \in Threads, NEW v \in Threads, q # p, v # p, q # v
        PROVE  Apart(th'[q], th'[v], tables')
    <3>1. Apart(th[q], th[v], tables)
      BY <2>2 DEF Inv, ApartInv
    <3>2. th[q].pc \in Holds => tables'[th[q].t].n = tables[th[q].t].n
      BY <1>2, CallFacts DEF Holds, InCall
    <3>3. th[v].pc \in Holds => tables'[th[v].t].n = tables[th[v].t].n
      BY <1>2, CallFacts DEF Holds, InCall
    <3>4. /\ th'[q].pc = th[q].pc /\ th'[q].key = th[q].key /\ th'[q].t = th[q].t /\ th'[q].resize = th[q].resize
          /\ th'[v].pc = th[v].pc /\ th'[v].key = th[v].key /\ th'[v].t = th[v].t /\ th'[v].resize = th[v].resize
      BY <1>7, <2>2
    <3> QED
      BY <3>1, <3>2, <3>3, <3>4 DEF Apart, Token
  <2> QED
    BY <2>1, <2>2 DEF ApartInv
<1>12. LocksInv'
  <2>1. /\ \A t \in 1..(ht - 1) : \A c \in 0..(tables[t].n - 1) : tables[t].lock[c] = "resize"
        /\ \A t \in (ht + 1)..Len(tables) : \A c \in 0..(tables[t].n - 1) : tables[t].lock[c] = "free"
        /\ \A c \in 0..(tables[ht].n - 1) : tables[ht].lock[c] = "resize" =>
             \E q \in Threads : th[q].pc \in Copies /\ Passed(th[q], c)
        /\ Len(tables) > ht => \E q \in Threads : th[q].pc \in Copies
    BY DEF Inv, LocksInv
  <2>2. \A q \in Threads : th[q].pc \in Copies => th'[q].pc \in Copies
    BY <1>1, <1>7 DEF Copies, Holds
  <2>3. \A q \in Threads : \A c : th[q].pc \in Copies /\ Passed(th[q], c) => th'[q].pc \in Copies /\ Passed(th'[q], c)
    BY <1>1, <1>7 DEF Copies, Holds, Passed
  <2>4. \A u \in 1..(ht - 1) : \A c \in 0..(tables'[u].n - 1) : tables'[u].lock[c] = "resize"
    BY <1>1, <1>2, <2>1
  <2>5. \A u \in (ht + 1)..Len(tables') : \A c \in 0..(tables'[u].n - 1) : tables'[u].lock[c] = "free"
    BY <1>1, <1>2, <2>1
  <2>6. \A c \in 0..(tables'[ht].n - 1) : tables'[ht].lock[c] = "resize" =>
          \E q \in Threads : th'[q].pc \in Copies /\ Passed(th'[q], c)
    <3>1. tables'[ht].n = tables[ht].n /\ tables'[ht].lock = tables[ht].lock
      BY <1>1, <1>2
    <3> QED
      BY <2>1, <2>3, <3>1
  <2>7. Len(tables') > ht => \E q \in Threads : th'[q].pc \in Copies
    BY <1>2, <2>1, <2>2
  <2> QED
    BY <1>2, <2>4, <2>5, <2>6, <2>7 DEF LocksInv
<1>13. TokenInv'
  <2>1. ASSUME NEW q \in Threads, q # p
        PROVE  /\ Token(th'[q]) => tables'[ht].expands >= tables'[ht].n
               /\ th'[q].pc \in Resizes => resizing
    BY <1>7, <1>8, <1>10, <2>1 DEF Token
  <2>2. Token(th'[p]) => tables'[ht].expands >= tables'[ht].n
    BY <1>8, <1>9
  <2>3. resizing' = resizing
    BY DEF Writes
  <2> QED
    BY <1>2, <1>9, <2>1, <2>2, <2>3 DEF TokenInv
<1> QED
  BY <1>3, <1>4, <1>6, <1>11, <1>12, <1>13 DEF Inv

\* The value, or the key, of one slot is written.
WriteVal(T, h, b, f, v) == [T EXCEPT ![h].bins[b][f].val = v]
SetSlot(A, f, e) == [A EXCEPT ![f] = e]
WriteKey(T, h, b, f, k) == [T EXCEPT ![h].bins[b][f].key = k]

\* Slot f of bin b of table h, which is A, becomes e.
SlotWritten(T, V, h, b, A, B, f, e) ==
  /\ T \in Seq(Tables) /\ h \in 1..Len(T) /\ b \in 0..(T[h].n - 1)
  /\ A \in Seq(Entries) /\ A = T[h].bins[b] /\ f \in 1..Len(A) /\ e \in Entries
  /\ \/ V = WriteVal(T, h, b, f, e.val) /\ e.key = A[f].key
     \/ V = WriteKey(T, h, b, f, e.key) /\ e.val = A[f].val
  /\ B = SetSlot(A, f, e)

\* Nothing but the slot changes.
LEMMA SlotUpdate ==
  ASSUME NEW T, NEW V, NEW h, NEW b, NEW A, NEW B, NEW f, NEW e,
         SlotWritten(T, V, h, b, A, B, f, e)
  PROVE  /\ Rewritten(T, V, h, b, B) /\ V[h].expands = T[h].expands
         /\ B \in Seq(Entries) /\ Len(B) = Len(A) /\ B[f] = e /\ Len(A) \in Nat
         /\ \A i \in 1..Len(A) : i # f => B[i] = A[i]
<1>0. /\ T \in Seq(Tables) /\ h \in 1..Len(T) /\ b \in 0..(T[h].n - 1)
      /\ A \in Seq(Entries) /\ A = T[h].bins[b] /\ f \in 1..Len(A) /\ e \in Entries
  BY DEF SlotWritten
<1>1. B = [A EXCEPT ![f] = e]
  BY DEF SlotWritten, SetSlot
<1>2. B \in Seq(Entries)
  BY <1>0, <1>1
<1>3. T[h] \in Tables
  BY <1>0
<1>4. PICK U : U = [T[h] EXCEPT !.bins[b] = B]
  OBVIOUS
<1>5. /\ U \in Tables /\ U.n = T[h].n /\ U.lock = T[h].lock /\ U.new = T[h].new /\ U.expands = T[h].expands
      /\ U.bins[b] = B /\ \A c \in 0..(T[h].n - 1) : c # b => U.bins[c] = T[h].bins[c]
  BY <1>0, <1>2, <1>3, <1>4, BinUpdate
<1>6. A[f] \in [key: Keys \cup {0}, val: Values] /\ e \in [key: Keys \cup {0}, val: Values]
  <2>1. A[f] \in Entries
    BY <1>0
  <2> QED
    BY <1>0, <2>1 DEF Entries
<1>7. V = [T EXCEPT ![h] = U]
  <2>1. CASE V = WriteVal(T, h, b, f, e.val) /\ e.key = A[f].key
    <3>1. e = [A[f] EXCEPT !.val = e.val]
      BY <1>6, <2>1
    <3>2. U = [T[h] EXCEPT !.bins[b][f].val = e.val]
      BY <1>0, <1>1, <1>4, <3>1
    <3> QED
      BY <1>0, <2>1, <3>2 DEF WriteVal
  <2>2. CASE V = WriteKey(T, h, b, f, e.key) /\ e.val = A[f].val
    <3>1. e = [A[f] EXCEPT !.key = e.key]
      BY <1>6, <2>2
    <3>2. U = [T[h] EXCEPT !.bins[b][f].key = e.key]
      BY <1>0, <1>1, <1>4, <3>1
    <3> QED
      BY <1>0, <2>2, <3>2 DEF WriteKey
  <2> QED
    BY <2>1, <2>2 DEF SlotWritten
<1>8. /\ V \in Seq(Tables) /\ Len(V) = Len(T) /\ V[h] = U
      /\ \A u \in 1..Len(T) : u # h => V[u] = T[u]
  BY <1>0, <1>5, <1>7, SeqUpdate
<1>9. T[h].expands \in Nat
  BY <1>3, TableFacts
<1>10. Rewritten(T, V, h, b, B) /\ V[h].expands = T[h].expands
  BY <1>0, <1>5, <1>8, <1>9 DEF Rewritten
<1>11. /\ Len(B) = Len(A) /\ B[f] = e /\ Len(A) \in Nat
       /\ \A i \in 1..Len(A) : i # f => B[i] = A[i]
  BY <1>0, <1>1
<1> QED
  BY <1>2, <1>10, <1>11

\* A bin has key k.
HasKey(bin, k) == \E j \in 1..Len(bin) : bin[j].key = k

\* The current table holds the keys that were put, if the writer saw to its own.
LEMMA KeptAfter ==
  ASSUME Inv, NEW p \in Threads, NEW b, NEW A, NEW B, NEW f, Writes(p, b, A, B, f),
         \A j \in Keys \ {th[p].key} : j \in given' <=> j \in given,
         \A j \in Keys \ {th[p].key} : HasKey(B, j) <=> HasKey(A, j),
         th[p].key \in given' <=> HasKey(B, th[p].key)
  PROVE  KeptInv'
<1>1. /\ ht' = ht /\ Rewritten(tables, tables', ht, b, B) /\ A = tables[ht].bins[b]
      /\ b = th[p].key % tables[ht].n
  BY DEF Writes
<1>2. tables'[ht].n = tables[ht].n
  BY <1>1 DEF Rewritten
<1>3. \A j \in Keys : j \in given <=> HasKey(BinOf(tables, ht, j), j)
  BY DEF Inv, KeptInv, HasKey
<1>4. ASSUME NEW j \in Keys
      PROVE  j \in given' <=> HasKey(BinOf(tables', ht, j), j)
  <2>1. j % tables[ht].n \in 0..(tables[ht].n - 1)
    BY TypeFacts, HashFact
  <2>2. CASE j % tables[ht].n # b
    <3>1. BinOf(tables', ht, j) = BinOf(tables, ht, j)
      BY <1>1, <1>2, <2>1, <2>2 DEF Rewritten, BinOf
    <3> QED
      BY <1>1, <1>3, <2>2, <3>1
  <2>3. CASE j % tables[ht].n = b
    <3>1. BinOf(tables', ht, j) = B /\ BinOf(tables, ht, j) = A
      BY <1>1, <1>2, <2>3 DEF Rewritten, BinOf
    <3> QED
      BY <1>3, <3>1
  <2> QED
    BY <2>2, <2>3
<1> QED
  BY <1>1, <1>4 DEF KeptInv, HasKey

-----------------------------------------------------------------------------
\* The writers.

\* A thread's record that does not change stands beside itself.
LEMMA BesideItself ==
  ASSUME NEW r \in Locals
  PROVE  Beside(r, r)
BY DEF Beside

\* The key is written behind its value.
LEMMA PutKeyKeeps ==
  ASSUME Inv, NEW p \in Threads, PutKey(p)
  PROVE  Inv'
<1>1. PICK k, b, A, f : /\ k = th[p].key /\ b = k % tables[ht].n /\ A = tables[ht].bins[b] /\ f = th[p].i
  OBVIOUS
<1>2. /\ th[p].pc = "putkey" /\ th[p].pc \in Holds /\ th[p].pc \in InCall
      /\ UNCHANGED <<ht, resizing, ops>> /\ given' = given \cup {k}
      /\ th' = [th EXCEPT ![p].pc = "unlock"]
  BY <1>1 DEF PutKey, Go, Holds, InCall
<1>3. th[p].t = ht /\ tables[ht].lock[b] = "update"
  BY <1>1, <1>2, HolderCurrent
<1>4. /\ k \in Keys /\ k \in Nat /\ k # 0 /\ ht \in 1..Len(tables) /\ b \in 0..(tables[ht].n - 1)
      /\ A \in Seq(Entries) /\ GoodBin(tables[ht], b) /\ tables \in Seq(Tables)
  BY <1>1, <1>2, <1>3, CallFacts, TypeFacts, ConstantFacts DEF BinOf
<1>5. /\ f \in 1..Len(A) /\ A[f].key = 0 /\ A[f].val = ValueOf(k) /\ \A j \in 1..Len(A) : A[j].key # k
      /\ ~th[p].resize
  BY <1>1, <1>2, <1>3, TypeFacts DEF ThreadOK, PutOK, CallOK, BinOf
<1>6. PICK e \in Entries : e = [key |-> k, val |-> ValueOf(k)]
  BY <1>4, ValueFacts DEF Entries
<1>7. PICK B : B = SetSlot(A, f, e)
  OBVIOUS
<1>8. /\ B \in Seq(Entries) /\ Len(B) = Len(A) /\ B[f] = e /\ Len(A) \in Nat
      /\ \A i \in 1..Len(A) : i # f => B[i] = A[i]
  BY <1>4, <1>5, <1>6, <1>7 DEF SetSlot
<1>9. Rewritten(tables, tables', ht, b, B) /\ tables'[ht].expands = tables[ht].expands
  <2>1. PICK V : V = tables'
    OBVIOUS
  <2>2. V = WriteKey(tables, ht, b, f, e.key) /\ e.val = A[f].val
    BY <1>1, <1>3, <1>5, <1>6, <2>1 DEF PutKey, clht_hash, WriteKey
  <2>3. /\ tables \in Seq(Tables) /\ ht \in 1..Len(tables) /\ b \in 0..(tables[ht].n - 1)
        /\ A \in Seq(Entries) /\ A = tables[ht].bins[b] /\ f \in 1..Len(A) /\ e \in Entries
    BY <1>1, <1>4, <1>5
  <2>4. SlotWritten(tables, V, ht, b, A, B, f, e)
    BY <1>7, <2>2, <2>3 DEF SlotWritten
  <2>5. Rewritten(tables, V, ht, b, B) /\ V[ht].expands = tables[ht].expands
    BY <2>4, SlotUpdate
  <2> QED
    BY <2>1, <2>5
<1>10. /\ th' \in [Threads -> Locals] /\ th'[p] = [th[p] EXCEPT !.pc = "unlock"]
       /\ \A q \in Threads : q # p => th'[q] = th[q]
  <2>1. th[p] \in Locals /\ th \in [Threads -> Locals]
    BY TypeFacts DEF Inv, TypeInv
  <2>2. [th[p] EXCEPT !.pc = "unlock"] \in Locals
    BY <2>1 DEF Locals, PCs
  <2> QED
    BY <1>2, <2>1, <2>2
<1>11. BinStep(A, B, f, k)
  BY <1>4, <1>5, <1>8 DEF BinStep
<1>12. /\ th'[p].pc = "unlock" /\ th'[p].t = th[p].t /\ th'[p].key = th[p].key /\ th'[p].resize = th[p].resize
  <2>1. th[p] \in Locals
    BY TypeFacts
  <2> QED
    BY <1>10, <2>1 DEF Locals
<1>13. Writes(p, b, A, B, f)
  BY <1>1, <1>2, <1>5, <1>9, <1>10, <1>11, <1>12 DEF Writes
<1>14. Stand(p, b, A, B, f)
  <2> SUFFICES ASSUME NEW q \in Threads, q # p
               PROVE  /\ Beside(th[q], th'[q])
                      /\ th'[q].sure /\ th[q].key # 0 => ~(f \in 1..Len(A) /\ A[f].key = th[q].key)
                      /\ f \in 1..Len(A) /\ B[f].val # A[f].val /\ ReadAt(q) = <<ht, b, f>> =>
                           th'[q].writes = th[q].writes + 1
    BY DEF Stand
  <2>1. Beside(th[q], th'[q])
    BY <1>10, TypeFacts, BesideItself
  <2> QED
    BY <1>5, <1>6, <1>8, <2>1
<1>15. GoodBin(tables'[ht], b)
  <2>1. tables'[ht].bins[b] = B /\ tables'[ht].n = tables[ht].n
    BY <1>9 DEF Rewritten
  <2>2. /\ Len(A) >= 1
        /\ \A i \in 1..Len(A) : A[i].key # 0 => A[i].key % tables[ht].n = b /\ A[i].val = ValueOf(A[i].key)
        /\ \A i, j \in 1..Len(A) : A[i].key # 0 /\ A[i].key = A[j].key => i = j
    BY <1>1, <1>4 DEF GoodBin
  <2>3. e.key = k /\ e.val = ValueOf(k)
    BY <1>6
  <2>4. ASSUME NEW i \in 1..Len(B), B[i].key # 0
        PROVE  B[i].key % tables[ht].n = b /\ B[i].val = ValueOf(B[i].key)
    <3>1. CASE i = f
      BY <1>1, <1>8, <2>3, <3>1
    <3>2. CASE i # f
      BY <1>8, <2>2, <2>4, <3>2
    <3> QED
      BY <3>1, <3>2
  <2>5. \A i, j \in 1..Len(B) : B[i].key # 0 /\ B[i].key = B[j].key => i = j
    BY <1>5, <1>8, <2>2, <2>3
  <2> QED
    BY <1>8, <2>1, <2>2, <2>4, <2>5 DEF GoodBin
<1>16. KeptInv'
  <2>1. \A j \in Keys \ {k} : HasKey(B, j) <=> HasKey(A, j)
    <3> SUFFICES ASSUME NEW j \in Keys, j # k
                 PROVE  HasKey(B, j) <=> HasKey(A, j)
      OBVIOUS
    <3>1. A[f].key # j /\ B[f].key # j
      BY <1>5, <1>6, <1>8, ConstantFacts
    <3> QED
      BY <1>8, <3>1 DEF HasKey
  <2>2. HasKey(B, k)
    BY <1>5, <1>6, <1>8 DEF HasKey
  <2> QED
    BY <1>1, <1>2, <1>13, <2>1, <2>2, KeptAfter
<1>17. given' \subseteq Keys
  BY <1>2, <1>4 DEF Inv, TypeInv
<1>18. PutOK(th'[p], tables')
  BY <1>12 DEF PutOK
<1> QED
  BY <1>13, <1>14, <1>15, <1>16, <1>17, <1>18, WriteCombine

\* What a thread knows that has the lock of its bin and begins to scan it.
LEMMA ScanFacts ==
  ASSUME Inv, NEW p \in Threads, th[p].pc \in {"putscan", "removescan"}
  PROVE  /\ th[p].t = ht /\ th[p].key \in Keys /\ th[p].key \in Nat /\ th[p].key # 0 /\ ~th[p].resize
         /\ ht \in 1..Len(tables) /\ th[p].key % tables[ht].n \in 0..(tables[ht].n - 1)
         /\ tables[ht].bins[th[p].key % tables[ht].n] \in Seq(Entries) /\ tables \in Seq(Tables)
         /\ GoodBin(tables[ht], th[p].key % tables[ht].n)
         /\ clht_hash(tables[ht], th[p].key) = th[p].key % tables[ht].n
         /\ bucket_exists(ht, th[p].key) <=> HasKey(tables[ht].bins[th[p].key % tables[ht].n], th[p].key)
<1>1. th[p].pc \in Holds /\ th[p].pc \in InCall
  BY DEF Holds, InCall
<1>2. th[p].t = ht
  BY <1>1, HolderCurrent
<1>3. ~th[p].resize
  BY <1>1, TypeFacts DEF ThreadOK, CallOK
<1>4. bucket_exists(ht, th[p].key) <=> HasKey(tables[ht].bins[th[p].key % tables[ht].n], th[p].key)
  BY DEF bucket_exists, Bin, clht_hash, Holding, HasKey
<1> QED
  BY <1>1, <1>2, <1>3, <1>4, CallFacts, TypeFacts, ConstantFacts DEF BinOf, clht_hash

\* Slot f of bin b is empty now.
SlotEmptied(T, V, b, f) ==
  LET A == T.bins[b]  B == V.bins[b]
  IN /\ V.n = T.n /\ GoodBin(T, b) /\ Len(B) = Len(A) /\ Len(A) \in Nat /\ f \in 1..Len(A)
     /\ B[f].key = 0 /\ \A i \in 1..Len(A) : i # f => B[i] = A[i]

\* A bin stays good when a slot of it is emptied, or was empty and stays so.
LEMMA GoodStep ==
  ASSUME NEW T, NEW V, NEW b, NEW f, SlotEmptied(T, V, b, f)
  PROVE  GoodBin(V, b)
<1>0. PICK A, B : A = T.bins[b] /\ B = V.bins[b]
  OBVIOUS
<1>9. /\ V.n = T.n /\ GoodBin(T, b) /\ Len(B) = Len(A) /\ Len(A) \in Nat /\ f \in 1..Len(A)
       /\ B[f].key = 0 /\ \A i \in 1..Len(A) : i # f => B[i] = A[i]
  BY <1>0 DEF SlotEmptied
<1>1. /\ Len(A) >= 1
      /\ \A i \in 1..Len(A) : A[i].key # 0 => A[i].key % T.n = b /\ A[i].val = ValueOf(A[i].key)
      /\ \A i, j \in 1..Len(A) : A[i].key # 0 /\ A[i].key = A[j].key => i = j
  BY <1>0, <1>9 DEF GoodBin
<1>2. \A i \in 1..Len(B) : B[i].key # 0 => i # f
  BY <1>9
<1>3. \A i \in 1..Len(B) : B[i].key # 0 => B[i].key % V.n = b /\ B[i].val = ValueOf(B[i].key)
  BY <1>9, <1>1, <1>2
<1>4. \A i, j \in 1..Len(B) : B[i].key # 0 /\ B[i].key = B[j].key => i = j
  BY <1>9, <1>1, <1>2
<1> QED
  BY <1>0, <1>9, <1>1, <1>3, <1>4 DEF GoodBin

\* The value is written into an empty slot.
PutsValue(p) ==
  LET t == th[p].t  k == th[p].key  b == clht_hash(tables[t], k)
      free == Holding(tables[t].bins[b], 0)
  IN
  /\ th[p].pc = "putscan"
  /\ ~bucket_exists(t, k) /\ free # {}
  /\ tables' = [tables EXCEPT ![t].bins[b][First(free)].val = ValueOf(k)]
  /\ th' = [q \in Threads |->
       CASE q = p -> [th[q] EXCEPT !.i = First(free), !.pc = "putkey"]
         [] q # p /\ ReadAt(q) = <<t, b, First(free)>> -> [th[q] EXCEPT !.writes = @ + 1]
         [] OTHER -> th[q]]
  /\ UNCHANGED <<given, ht, resizing, ops>>

\* The empty slot is there for the key, and a get that has read it is told.
LEMMA PutsValueKeeps ==
  ASSUME Inv, NEW p \in Threads, PutsValue(p)
  PROVE  Inv'
<1>1. PICK k, b, A, f : /\ k = th[p].key /\ b = k % tables[ht].n /\ A = tables[ht].bins[b]
                        /\ f = First(Holding(A, 0))
  OBVIOUS
<1>2. th[p].pc = "putscan" /\ th[p].pc \in Holds /\ UNCHANGED <<given, ht, resizing, ops>>
  BY DEF PutsValue, Holds
<1>3. /\ th[p].t = ht /\ k \in Keys /\ k \in Nat /\ k # 0 /\ ~th[p].resize
      /\ ht \in 1..Len(tables) /\ b \in 0..(tables[ht].n - 1) /\ clht_hash(tables[ht], k) = b
      /\ A \in Seq(Entries) /\ GoodBin(tables[ht], b) /\ tables \in Seq(Tables)
      /\ bucket_exists(ht, k) <=> HasKey(A, k)
  BY <1>1, <1>2, ScanFacts
<1>4. /\ Holding(A, 0) # {} /\ ~HasKey(A, k)
      /\ tables' = WriteVal(tables, ht, b, f, ValueOf(k))
      /\ th' = [q \in Threads |->
           CASE q = p -> [th[q] EXCEPT !.i = f, !.pc = "putkey"]
             [] q # p /\ ReadAt(q) = <<ht, b, f>> -> [th[q] EXCEPT !.writes = @ + 1]
             [] OTHER -> th[q]]
  BY <1>1, <1>3 DEF PutsValue, WriteVal
<1>5. f \in 1..Len(A) /\ f \in Nat /\ A[f].key = 0 /\ \A j \in 1..Len(A) : A[j].key # k
  <2>1. Holding(A, 0) \in SUBSET Nat
    BY <1>3 DEF Holding
  <2>2. f \in Holding(A, 0)
    BY <1>1, <1>4, <2>1, FirstFact
  <2>3. f \in 1..Len(A) /\ A[f].key = 0 /\ Len(A) \in Nat
    BY <1>3, <2>2 DEF Holding
  <2>4. \A j \in 1..Len(A) : A[j].key # k
    BY <1>4 DEF HasKey
  <2> QED
    BY <2>3, <2>4
<1>6. PICK e \in Entries : e = [key |-> 0, val |-> ValueOf(k)]
  BY <1>3, ValueFacts DEF Entries
<1>7. PICK B : B = SetSlot(A, f, e)
  OBVIOUS
<1>8. /\ B \in Seq(Entries) /\ Len(B) = Len(A) /\ B[f] = e /\ Len(A) \in Nat
      /\ \A i \in 1..Len(A) : i # f => B[i] = A[i]
  BY <1>3, <1>5, <1>6, <1>7 DEF SetSlot
<1>9. Rewritten(tables, tables', ht, b, B) /\ tables'[ht].expands = tables[ht].expands
  <2>1. PICK V : V = tables'
    OBVIOUS
  <2>2. V = WriteVal(tables, ht, b, f, e.val) /\ e.key = A[f].key
    BY <1>4, <1>5, <1>6, <2>1
  <2>3. /\ tables \in Seq(Tables) /\ ht \in 1..Len(tables) /\ b \in 0..(tables[ht].n - 1)
        /\ A \in Seq(Entries) /\ A = tables[ht].bins[b] /\ f \in 1..Len(A) /\ e \in Entries
    BY <1>1, <1>3, <1>5
  <2>4. SlotWritten(tables, V, ht, b, A, B, f, e)
    BY <1>7, <2>2, <2>3 DEF SlotWritten
  <2>5. Rewritten(tables, V, ht, b, B) /\ V[ht].expands = tables[ht].expands
    BY <2>4, SlotUpdate
  <2> QED
    BY <2>1, <2>5
<1>10. ASSUME NEW q \in Threads, q # p
       PROVE  /\ Beside(th[q], th'[q])
              /\ ReadAt(q) = <<ht, b, f>> => th'[q].writes = th[q].writes + 1
  <2>1. th[q] \in Locals
    BY TypeFacts
  <2>2. CASE ReadAt(q) = <<ht, b, f>>
    <3>1. th'[q] = [th[q] EXCEPT !.writes = @ + 1]
      BY <1>4, <1>10, <2>2
    <3> QED
      BY <2>1, <3>1 DEF Locals, Beside
  <2>3. CASE ReadAt(q) # <<ht, b, f>>
    <3>1. th'[q] = th[q]
      BY <1>4, <1>10, <2>3
    <3> QED
      BY <2>1, <2>3, <3>1, BesideItself
  <2> QED
    BY <2>2, <2>3
<1>11. /\ th'[p] \in Locals /\ th'[p].pc = "putkey" /\ th'[p].i = f /\ th'[p].t = th[p].t
       /\ th'[p].key = th[p].key /\ th'[p].resize = th[p].resize
  <2>1. th'[p] = [th[p] EXCEPT !.i = f, !.pc = "putkey"]
    BY <1>4
  <2>2. th[p] \in Locals
    BY TypeFacts
  <2> QED
    BY <1>5, <2>1, <2>2 DEF Locals, PCs
<1>12. th' \in [Threads -> Locals]
  <2>1. \A q \in Threads : th'[q] \in Locals
    BY <1>10, <1>11 DEF Beside
  <2>2. th' = [q \in Threads |-> th'[q]]
    BY <1>4
  <2> QED
    BY <2>1, <2>2
<1>13. Writes(p, b, A, B, f)
  <2>1. BinStep(A, B, f, k)
    BY <1>3, <1>5, <1>8 DEF BinStep
  <2> QED
    BY <1>1, <1>2, <1>3, <1>9, <1>11, <1>12, <2>1 DEF Writes
<1>14. Stand(p, b, A, B, f)
  BY <1>5, <1>10 DEF Stand
<1>15. tables'[ht].bins[b] = B /\ tables'[ht].n = tables[ht].n
  BY <1>9 DEF Rewritten
<1>16. GoodBin(tables'[ht], b)
  <2>1. e.key = 0
    BY <1>6
  <2>2. PICK V : V = tables'[ht]
    OBVIOUS
  <2>3. SlotEmptied(tables[ht], V, b, f)
    BY <1>1, <1>3, <1>5, <1>8, <1>15, <2>1, <2>2 DEF SlotEmptied
  <2>4. GoodBin(V, b)
    BY <2>3, GoodStep
  <2> QED
    BY <2>2, <2>4
<1>17. KeptInv'
  <2>1. \A j \in Keys : HasKey(B, j) <=> HasKey(A, j)
    <3> SUFFICES ASSUME NEW j \in Keys
                 PROVE  HasKey(B, j) <=> HasKey(A, j)
      OBVIOUS
    <3>1. A[f].key # j /\ B[f].key # j
      BY <1>5, <1>6, <1>8, ConstantFacts
    <3> QED
      BY <1>8, <3>1 DEF HasKey
  <2>2. k \in given <=> HasKey(A, k)
    <3>1. BinOf(tables, ht, k) = A
      BY <1>1 DEF BinOf
    <3> QED
      BY <1>3, <3>1 DEF Inv, KeptInv, HasKey
  <2> QED
    BY <1>1, <1>2, <1>3, <1>13, <2>1, <2>2, KeptAfter
<1>18. given' \subseteq Keys
  BY <1>2 DEF Inv, TypeInv
<1>19. PutOK(th'[p], tables')
  <2>1. BinOf(tables', th'[p].t, th'[p].key) = B
    BY <1>1, <1>3, <1>11, <1>15 DEF BinOf
  <2>2. f \in 1..Len(B) /\ B[f].key = 0 /\ B[f].val = ValueOf(k)
    BY <1>5, <1>6, <1>8
  <2>3. \A j \in 1..Len(B) : B[j].key # k
    BY <1>3, <1>5, <1>8, <2>2
  <2> QED
    BY <1>1, <1>11, <2>1, <2>2, <2>3 DEF PutOK
<1> QED
  BY <1>13, <1>14, <1>16, <1>17, <1>18, <1>19, WriteCombine

\* A writer that changes nothing in its bin.
LEMMA NoWrite ==
  ASSUME Inv, NEW p \in Threads, NEW b, NEW A, th[p].pc \in {"putscan", "removescan"},
         b = th[p].key % tables[ht].n, A = tables[ht].bins[b], tables' = tables
  PROVE  /\ Rewritten(tables, tables', ht, b, A) /\ BinStep(A, A, 0, th[p].key)
         /\ 0 \notin 1..Len(A) /\ GoodBin(tables'[ht], b)
<1>1. /\ ht \in 1..Len(tables) /\ b \in 0..(tables[ht].n - 1) /\ A \in Seq(Entries)
      /\ tables \in Seq(Tables) /\ GoodBin(tables[ht], b) /\ tables[ht].expands \in Nat
  BY ScanFacts, TypeFacts
<1> QED
  BY <1>1 DEF Rewritten, BinStep

\* The first slot with the key is emptied, and there is no other.
LEMMA RemoveScanKeeps ==
  ASSUME Inv, NEW p \in Threads, RemoveScan(p)
  PROVE  Inv'
<1>1. PICK k, b, A : k = th[p].key /\ b = k % tables[ht].n /\ A = tables[ht].bins[b]
  OBVIOUS
<1>2. th[p].pc = "removescan" /\ th[p].pc \in Holds /\ UNCHANGED <<ht, resizing, ops>>
  BY DEF RemoveScan, Holds
<1>3. /\ th[p].t = ht /\ k \in Keys /\ k \in Nat /\ k # 0 /\ ~th[p].resize
      /\ ht \in 1..Len(tables) /\ b \in 0..(tables[ht].n - 1) /\ clht_hash(tables[ht], k) = b
      /\ A \in Seq(Entries) /\ GoodBin(tables[ht], b) /\ tables \in Seq(Tables)
      /\ bucket_exists(ht, k) <=> HasKey(A, k)
  BY <1>1, <1>2, ScanFacts
<1>4. /\ given' = given \ {k}
      /\ th' = [q \in Threads |-> IF q = p THEN [th[q] EXCEPT !.pc = "unlock"]
                                  ELSE IF th[q].key = k THEN [th[q] EXCEPT !.sure = FALSE] ELSE th[q]]
      /\ HasKey(A, k) => tables' = WriteKey(tables, ht, b, First(Holding(A, k)), 0)
      /\ ~HasKey(A, k) => tables' = tables
  BY <1>1, <1>3 DEF RemoveScan, WriteKey, Bin
<1>5. ASSUME NEW q \in Threads, q # p
      PROVE  Beside(th[q], th'[q]) /\ (th[q].key = k => ~th'[q].sure)
  <2>1. th[q] \in Locals
    BY TypeFacts
  <2>2. CASE th[q].key = k
    <3>1. th'[q] = [th[q] EXCEPT !.sure = FALSE]
      BY <1>4, <1>5, <2>2
    <3> QED
      BY <2>1, <3>1 DEF Locals, Beside
  <2>3. CASE th[q].key # k
    <3>1. th'[q] = th[q]
      BY <1>4, <1>5, <2>3
    <3> QED
      BY <2>1, <2>3, <3>1, BesideItself
  <2> QED
    BY <2>2, <2>3
<1>6. /\ th'[p] \in Locals /\ th'[p].pc = "unlock" /\ th'[p].t = th[p].t
      /\ th'[p].key = th[p].key /\ th'[p].resize = th[p].resize
  <2>1. th'[p] = [th[p] EXCEPT !.pc = "unlock"]
    BY <1>4
  <2>2. th[p] \in Locals
    BY TypeFacts
  <2> QED
    BY <2>1, <2>2 DEF Locals, PCs
<1>7. th' \in [Threads -> Locals]
  <2>1. \A q \in Threads : th'[q] \in Locals
    BY <1>5, <1>6 DEF Beside
  <2>2. th' = [q \in Threads |-> th'[q]]
    BY <1>4
  <2> QED
    BY <2>1, <2>2
<1>8. given' \subseteq Keys /\ PutOK(th'[p], tables')
  BY <1>4, <1>6 DEF Inv, TypeInv, PutOK
<1>9. CASE ~HasKey(A, k)
  <2>1. /\ Rewritten(tables, tables', ht, b, A) /\ BinStep(A, A, 0, k)
        /\ 0 \notin 1..Len(A) /\ GoodBin(tables'[ht], b)
    BY <1>1, <1>2, <1>4, <1>9, NoWrite
  <2>2. Writes(p, b, A, A, 0)
    BY <1>1, <1>2, <1>3, <1>6, <1>7, <2>1 DEF Writes
  <2>3. Stand(p, b, A, A, 0)
    BY <1>5, <2>1 DEF Stand
  <2>4. KeptInv'
    BY <1>1, <1>4, <1>9, <2>2, KeptAfter
  <2> QED
    BY <1>8, <2>1, <2>2, <2>3, <2>4, WriteCombine
<1>10. CASE HasKey(A, k)
  <2>1. PICK f : f = First(Holding(A, k))
    OBVIOUS
  <2>2. f \in 1..Len(A) /\ A[f].key = k
    <3>1. Holding(A, k) \in SUBSET Nat /\ Holding(A, k) # {}
      BY <1>3, <1>10 DEF Holding, HasKey
    <3>2. f \in Holding(A, k)
      BY <2>1, <3>1, FirstFact
    <3> QED
      BY <3>2 DEF Holding
  <2>3. \A i \in 1..Len(A) : i # f => A[i].key # k
    BY <1>1, <1>3, <2>2 DEF GoodBin
  <2>4. PICK e \in Entries : e = [key |-> 0, val |-> A[f].val]
    <3>1. A[f] \in Entries
      BY <1>3, <2>2
    <3> QED
      BY <3>1 DEF Entries
  <2>5. PICK B : B = SetSlot(A, f, e)
    OBVIOUS
  <2>6. PICK V : V = tables'
    OBVIOUS
  <2>7. SlotWritten(tables, V, ht, b, A, B, f, e)
    BY <1>1, <1>3, <1>4, <1>10, <2>1, <2>2, <2>4, <2>5, <2>6 DEF SlotWritten
  <2>8. /\ Rewritten(tables, tables', ht, b, B)
        /\ B \in Seq(Entries) /\ Len(B) = Len(A) /\ B[f] = e /\ Len(A) \in Nat
        /\ \A i \in 1..Len(A) : i # f => B[i] = A[i]
    BY <2>6, <2>7, SlotUpdate
  <2>9. Writes(p, b, A, B, f)
    <3>1. BinStep(A, B, f, k)
      BY <1>3, <2>2, <2>8 DEF BinStep
    <3> QED
      BY <1>1, <1>2, <1>3, <1>6, <1>7, <2>8, <3>1 DEF Writes
  <2>10. Stand(p, b, A, B, f)
    BY <1>5, <2>2, <2>4, <2>8 DEF Stand
  <2>11. GoodBin(tables'[ht], b)
    <3>1. PICK U : U = tables'[ht]
      OBVIOUS
    <3>2. U.bins[b] = B /\ U.n = tables[ht].n
      BY <2>8, <3>1 DEF Rewritten
    <3>5. B[f].key = 0
      BY <2>4, <2>8
    <3>6. PICK T : T = tables[ht]
      OBVIOUS
    <3>7. T.bins[b] = A /\ U.n = T.n /\ GoodBin(T, b)
      BY <1>1, <1>3, <3>2, <3>6
    <3>8. SlotEmptied(T, U, b, f)
      BY <2>2, <2>8, <3>2, <3>5, <3>7 DEF SlotEmptied
    <3>3. SlotEmptied(tables[ht], U, b, f)
      BY <3>6, <3>8
    <3>4. GoodBin(U, b)
      BY <3>3, GoodStep
    <3> QED
      BY <3>1, <3>4
  <2>12. KeptInv'
    <3>1. B[f].key = 0
      BY <2>4, <2>8
    <3>2. ~HasKey(B, k)
      BY <1>3, <2>3, <2>8, <3>1 DEF HasKey
    <3>3. ASSUME NEW j \in Keys, j # k
          PROVE  HasKey(B, j) <=> HasKey(A, j)
      <4>1. A[f].key # j /\ B[f].key # j
        BY <2>2, <3>1, <3>3, ConstantFacts
      <4> QED
        BY <2>8, <4>1 DEF HasKey
    <3> QED
      BY <1>1, <1>4, <2>9, <3>2, <3>3, KeptAfter
  <2> QED
    BY <1>8, <2>9, <2>10, <2>11, <2>12, WriteCombine
<1> QED
  BY <1>9, <1>10

\* Bin B is A with key k in slot g, which was empty or is in a new bucket.
Added(A, B, g, k) ==
  /\ A \in Seq(Entries) /\ B \in Seq(Entries) /\ Len(A) <= Len(B) /\ g \in 1..Len(B)
  /\ B[g].key = k /\ B[g].val = ValueOf(k)
  /\ \A i \in 1..Len(A) : i # g => B[i] = A[i]
  /\ \A i \in 1..Len(B) : i # g /\ i > Len(A) => B[i].key = 0
  /\ g \in 1..Len(A) => A[g].key = 0

\* What clht_put_seq does: one more key in one bin, perhaps with one more bucket.
PutDone(T, U, b, g, k) ==
  /\ U \in Tables /\ U.n = T.n /\ U.lock = T.lock /\ U.expands >= T.expands
  /\ \A c \in 0..(T.n - 1) : c # b => U.bins[c] = T.bins[c]
  /\ Added(T.bins[b], U.bins[b], g, k)
  /\ Holding(T.bins[b], 0) = {} => U.expands = T.expands + 1 /\ g > Len(T.bins[b])

\* Bin b is where key k belongs, and it is not there.
Wants(T, b, k) == k % T.n = b /\ GoodBin(T, b) /\ ~HasKey(T.bins[b], k)

\* The bin has one key more, and is as good as it was.
LEMMA AddedFact ==
  ASSUME NEW T, NEW U, NEW b, NEW g, NEW k \in Keys, PutDone(T, U, b, g, k),
         Wants(T, b, k)
  PROVE  /\ GoodBin(U, b) /\ HasKey(U.bins[b], k)
         /\ \A j \in Keys \ {k} : HasKey(U.bins[b], j) <=> HasKey(T.bins[b], j)
<1>1. PICK A, B : A = T.bins[b] /\ B = U.bins[b]
  OBVIOUS
<1>0. /\ Added(T.bins[b], U.bins[b], g, k) /\ U.n = T.n
      /\ k % T.n = b /\ GoodBin(T, b) /\ ~HasKey(T.bins[b], k)
  BY DEF PutDone, Wants
<1>2. /\ Len(A) \in Nat /\ Len(B) \in Nat /\ Len(A) <= Len(B) /\ g \in 1..Len(B)
      /\ B[g].key = k /\ B[g].val = ValueOf(k)
      /\ \A i \in 1..Len(A) : i # g => B[i] = A[i]
      /\ \A i \in 1..Len(B) : i # g /\ i > Len(A) => B[i].key = 0
      /\ g \in 1..Len(A) => A[g].key = 0
  BY <1>0, <1>1 DEF Added
<1>3. /\ Len(A) >= 1 /\ \A i \in 1..Len(A) : A[i].key # k
      /\ \A i \in 1..Len(A) : A[i].key # 0 => A[i].key % T.n = b /\ A[i].val = ValueOf(A[i].key)
      /\ \A i, j \in 1..Len(A) : A[i].key # 0 /\ A[i].key = A[j].key => i = j
  BY <1>0, <1>1 DEF GoodBin, HasKey
<1>4. \A i \in 1..Len(B) : i # g /\ B[i].key # 0 => i \in 1..Len(A) /\ B[i] = A[i]
  BY <1>2
<1>5. ASSUME NEW i \in 1..Len(B), B[i].key # 0
      PROVE  B[i].key % U.n = b /\ B[i].val = ValueOf(B[i].key)
  <2>1. CASE i = g
    BY <1>0, <1>2, <2>1
  <2>2. CASE i # g
    BY <1>0, <1>3, <1>4, <1>5, <2>2
  <2> QED
    BY <2>1, <2>2
<1>6. \A i, j \in 1..Len(B) : B[i].key # 0 /\ B[i].key = B[j].key => i = j
  BY <1>2, <1>3, <1>4
<1>7. GoodBin(U, b)
  BY <1>0, <1>1, <1>2, <1>3, <1>5, <1>6 DEF GoodBin
<1>8. HasKey(B, k)
  BY <1>2 DEF HasKey
<1>9. ASSUME NEW j \in Keys, j # k
      PROVE  HasKey(B, j) <=> HasKey(A, j)
  <2>1. j # 0
    BY ConstantFacts
  <2>2. ASSUME NEW i \in 1..Len(B), B[i].key = j
        PROVE  HasKey(A, j)
    BY <1>2, <1>4, <1>9, <2>1, <2>2 DEF HasKey
  <2>3. ASSUME NEW i \in 1..Len(A), A[i].key = j
        PROVE  HasKey(B, j)
    <3>1. i # g /\ i \in 1..Len(B)
      BY <1>2, <2>1, <2>3
    <3> QED
      BY <1>2, <2>3, <3>1 DEF HasKey
  <2> QED
    BY <2>2, <2>3 DEF HasKey
<1> QED
  BY <1>1, <1>7, <1>8, <1>9

\* clht_put_seq does that.
LEMMA PutSeqFact ==
  ASSUME NEW T \in Tables, NEW k \in Keys, NEW b, b = k % T.n
  PROVE  \E g \in Nat : PutDone(T, PutSeq(T, k, ValueOf(k)), b, g, k)
<1>1. /\ T.n \in Nat \ {0} /\ b \in 0..(T.n - 1) /\ T.bins \in [0..(T.n - 1) -> Seq(Entries)]
      /\ T.expands \in Nat /\ clht_hash(T, k) = b /\ k # 0
  BY TableFacts, HashFact, ConstantFacts DEF clht_hash
<1>2. PICK A \in Seq(Entries) : A = T.bins[b]
  BY <1>1
<1>3. PICK e \in Entries : e = [key |-> k, val |-> ValueOf(k)]
  BY ValueFacts DEF Entries
<1>4. PICK U : U = PutSeq(T, k, ValueOf(k))
  OBVIOUS
<1>5. Len(A) \in Nat /\ e.key = k /\ e.val = ValueOf(k)
  BY <1>3
<1>6. CASE Holding(A, 0) # {}
  <2>1. PICK f : f = First(Holding(A, 0))
    OBVIOUS
  <2>2. f \in 1..Len(A) /\ A[f].key = 0
    <3>1. Holding(A, 0) \in SUBSET Nat
      BY DEF Holding
    <3>2. f \in Holding(A, 0)
      BY <1>6, <2>1, <3>1, FirstFact
    <3> QED
      BY <3>2 DEF Holding
  <2>3. PICK B : B = [A EXCEPT ![f] = e]
    OBVIOUS
  <2>4. /\ B \in Seq(Entries) /\ Len(B) = Len(A) /\ B[f] = e
        /\ \A i \in 1..Len(A) : i # f => B[i] = A[i]
    BY <2>2, <2>3
  <2>5. U = [T EXCEPT !.bins[b] = B]
    <3>1. U = [T EXCEPT !.bins[b][f] = e]
      BY <1>1, <1>2, <1>3, <1>4, <1>6, <2>1 DEF PutSeq
    <3> QED
      BY <1>2, <2>3, <3>1
  <2>6. /\ U \in Tables /\ U.n = T.n /\ U.lock = T.lock /\ U.expands = T.expands
        /\ U.bins[b] = B /\ \A c \in 0..(T.n - 1) : c # b => U.bins[c] = T.bins[c]
    BY <1>1, <2>4, <2>5, BinUpdate
  <2>7. Added(A, B, f, k)
    BY <1>5, <2>2, <2>4 DEF Added
  <2>8. PutDone(T, U, b, f, k) /\ f \in Nat
    BY <1>1, <1>2, <1>6, <2>2, <2>6, <2>7 DEF PutDone
  <2> QED
    BY <1>4, <2>8
<1>7. CASE Holding(A, 0) = {}
  <2>1. PICK E : E = [i \in 1..(Slots - 1) |-> Empty]
    OBVIOUS
  <2>2. E \in Seq(Entries) /\ Len(E) = Slots - 1 /\ \A i \in 1..(Slots - 1) : E[i].key = 0
    BY <2>1, ConstantFacts, ValueFacts DEF Empty, Entries
  <2>3. PICK B : B = A \o <<e>> \o E
    OBVIOUS
  <2>4. /\ B \in Seq(Entries) /\ Len(B) = Len(A) + Slots /\ B[Len(A) + 1] = e
        /\ \A i \in 1..Len(A) : B[i] = A[i]
        /\ \A i \in (Len(A) + 2)..Len(B) : B[i] = E[i - Len(A) - 1]
    <3>1. PICK C : C = Append(A, e)
      OBVIOUS
    <3>2. /\ C \in Seq(Entries) /\ Len(C) = Len(A) + 1 /\ C[Len(A) + 1] = e
          /\ \A i \in 1..Len(A) : C[i] = A[i]
      BY <3>1
    <3>3. B = C \o E
      BY <2>3, <3>1, AppendIsConcat
    <3>4. /\ B \in Seq(Entries) /\ Len(B) = Len(C) + Len(E) /\ \A i \in 1..Len(C) : B[i] = C[i]
          /\ \A i \in (Len(C) + 1)..Len(B) : B[i] = E[i - Len(C)]
      <4>1. /\ C \o E \in Seq(Entries) /\ Len(C \o E) = Len(C) + Len(E)
            /\ \A i \in 1..(Len(C) + Len(E)) : (C \o E)[i] = IF i <= Len(C) THEN C[i] ELSE E[i - Len(C)]
        BY <2>2, <3>2, ConcatProperties, Zenon
      <4>2. /\ B \in Seq(Entries) /\ Len(B) = Len(C) + Len(E)
            /\ \A i \in 1..(Len(C) + Len(E)) : B[i] = IF i <= Len(C) THEN C[i] ELSE E[i - Len(C)]
        BY <3>3, <4>1, Zenon
      <4>3. Len(C) \in Nat /\ Len(E) \in Nat
        BY <2>2, <3>2
      <4> QED
        BY <4>2, <4>3
    <3>5. Len(B) = Len(A) + Slots
      BY <1>5, <2>2, <3>2, <3>4, ConstantFacts
    <3>6. \A i \in (Len(A) + 2)..Len(B) : i - Len(C) = i - Len(A) - 1 /\ i \in (Len(C) + 1)..Len(B)
      BY <1>5, <3>2, <3>5, ConstantFacts
    <3>7. B[Len(A) + 1] = e /\ \A i \in 1..Len(A) : B[i] = A[i]
      <4>1. Len(A) + 1 \in 1..Len(C) /\ \A i \in 1..Len(A) : i \in 1..Len(C)
        BY <1>5, <3>2
      <4> QED
        BY <3>2, <3>4, <4>1, Zenon
    <3>8. \A i \in (Len(A) + 2)..Len(B) : B[i] = E[i - Len(A) - 1]
      BY <3>4, <3>6, Zenon
    <3> QED
      BY <3>4, <3>5, <3>7, <3>8, Zenon
  <2>5. \A i \in (Len(A) + 2)..Len(B) : B[i].key = 0
    BY <1>5, <2>2, <2>4, ConstantFacts
  <2>6. PICK W : W = [T EXCEPT !.bins[b] = B]
    OBVIOUS
  <2>7. /\ W \in Tables /\ W.n = T.n /\ W.lock = T.lock /\ W.expands = T.expands
        /\ W.bins[b] = B /\ \A c \in 0..(T.n - 1) : c # b => W.bins[c] = T.bins[c]
    BY <1>1, <2>4, <2>6, BinUpdate
  <2>8. U = [W EXCEPT !.expands = T.expands + 1]
    <3>1. U = [T EXCEPT !.bins[b] = A \o <<e>> \o E, !.expands = T.expands + 1]
      BY <1>1, <1>2, <1>3, <1>4, <1>7, <2>1 DEF PutSeq
    <3> QED
      BY <2>3, <2>6, <3>1
  <2>9. W \in TablesOf(T.n)
    BY <2>7, TableFacts
  <2>10. /\ U \in TablesOf(T.n) /\ U.n = W.n /\ U.lock = W.lock /\ U.bins = W.bins
         /\ U.expands = T.expands + 1
    <3>1. T.expands + 1 \in Nat
      BY <1>1
    <3> QED
      BY <1>1, <2>8, <2>9, <3>1 DEF TablesOf
  <2>11. U \in Tables
    BY <1>1, <2>10 DEF Tables
  <2>12. Added(A, B, Len(A) + 1, k)
    BY <1>5, <2>4, <2>5, ConstantFacts DEF Added
  <2>13. PutDone(T, U, b, Len(A) + 1, k)
    BY <1>1, <1>2, <1>5, <2>7, <2>10, <2>11, <2>12 DEF PutDone
  <2> QED
    BY <1>4, <1>5, <2>13
<1> QED
  BY <1>6, <1>7

\* The chain is searched under the lock.
LEMMA PutScanKeeps ==
  ASSUME Inv, NEW p \in Threads, PutScan(p)
  PROVE  Inv'
<1>1. PICK k, b, A : k = th[p].key /\ b = k % tables[ht].n /\ A = tables[ht].bins[b]
  OBVIOUS
<1>2. th[p].pc = "putscan" /\ th[p].pc \in Holds /\ UNCHANGED <<ht, resizing, ops>>
  BY DEF PutScan, Holds
<1>3. /\ th[p].t = ht /\ k \in Keys /\ k \in Nat /\ k # 0 /\ ~th[p].resize
      /\ ht \in 1..Len(tables) /\ b \in 0..(tables[ht].n - 1) /\ clht_hash(tables[ht], k) = b
      /\ A \in Seq(Entries) /\ GoodBin(tables[ht], b) /\ tables \in Seq(Tables)
      /\ bucket_exists(ht, k) <=> HasKey(A, k)
  BY <1>1, <1>2, ScanFacts
<1>4. th \in [Threads -> Locals] /\ th[p] \in Locals /\ given \subseteq Keys
  BY DEF Inv, TypeInv
<1>5. \/ HasKey(A, k) /\ th' = [th EXCEPT ![p].pc = "unlock"] /\ UNCHANGED <<tables, given>>
      \/ PutsValue(p)
      \/ /\ ~HasKey(A, k) /\ Holding(A, 0) = {}
         /\ tables' = [tables EXCEPT ![ht] = PutSeq(@, k, ValueOf(k))]
         /\ th' = [th EXCEPT ![p].pc = "unlock",
                             ![p].resize = AtThreshold(tables[ht].expands + 1, tables[ht])]
         /\ given' = given \cup {k}
  BY <1>1, <1>2, <1>3 DEF PutScan, PutsValue, Go
<1>6. CASE HasKey(A, k) /\ th' = [th EXCEPT ![p].pc = "unlock"] /\ UNCHANGED <<tables, given>>
  <2>1. /\ Rewritten(tables, tables', ht, b, A) /\ BinStep(A, A, 0, k)
        /\ 0 \notin 1..Len(A) /\ GoodBin(tables'[ht], b)
    BY <1>1, <1>2, <1>6, NoWrite
  <2>2. /\ th' \in [Threads -> Locals] /\ th'[p].pc = "unlock" /\ th'[p].t = th[p].t
        /\ th'[p].key = th[p].key /\ th'[p].resize = th[p].resize
        /\ \A q \in Threads : q # p => th'[q] = th[q]
    BY <1>4, <1>6 DEF Locals, PCs
  <2>3. Writes(p, b, A, A, 0)
    BY <1>1, <1>2, <1>3, <2>1, <2>2 DEF Writes
  <2>4. Stand(p, b, A, A, 0)
    BY <2>1, <2>2, TypeFacts, BesideItself DEF Stand
  <2>5. k \in given
    <3>1. BinOf(tables, ht, k) = A
      BY <1>1 DEF BinOf
    <3> QED
      BY <1>3, <1>6, <3>1 DEF Inv, KeptInv, HasKey
  <2>6. KeptInv'
    BY <1>1, <1>6, <2>3, <2>5, KeptAfter
  <2>7. given' \subseteq Keys /\ PutOK(th'[p], tables')
    BY <1>4, <1>6, <2>2 DEF PutOK
  <2> QED
    BY <2>1, <2>3, <2>4, <2>6, <2>7, WriteCombine
<1>7. CASE PutsValue(p)
  BY <1>7, PutsValueKeeps
<1>8. CASE /\ ~HasKey(A, k) /\ Holding(A, 0) = {}
           /\ tables' = [tables EXCEPT ![ht] = PutSeq(@, k, ValueOf(k))]
           /\ th' = [th EXCEPT ![p].pc = "unlock",
                               ![p].resize = AtThreshold(tables[ht].expands + 1, tables[ht])]
           /\ given' = given \cup {k}
  <2>1. PICK T \in Tables : T = tables[ht]
    BY <1>3
  <2>2. PICK U : U = PutSeq(T, k, ValueOf(k))
    OBVIOUS
  <2>3. PICK g \in Nat : PutDone(T, U, b, g, k)
    BY <1>1, <1>3, <2>1, <2>2, PutSeqFact
  <2>4. PICK B : B = U.bins[b]
    OBVIOUS
  <2>5. /\ U \in Tables /\ U.n = T.n /\ U.lock = T.lock /\ U.expands = T.expands + 1
        /\ \A c \in 0..(T.n - 1) : c # b => U.bins[c] = T.bins[c]
        /\ Added(T.bins[b], U.bins[b], g, k) /\ g > Len(T.bins[b])
    BY <1>1, <1>8, <2>1, <2>3 DEF PutDone
  <2>6. T.expands \in Nat /\ T.n \in Nat
    BY TableFacts
  <2>7. /\ tables' \in Seq(Tables) /\ Len(tables') = Len(tables) /\ tables'[ht] = U
        /\ \A u \in 1..Len(tables) : u # ht => tables'[u] = tables[u]
    <3>1. PICK V : V = tables'
      OBVIOUS
    <3>2. V = [tables EXCEPT ![ht] = U]
      BY <1>8, <2>1, <2>2, <3>1
    <3>3. /\ V \in Seq(Tables) /\ Len(V) = Len(tables) /\ V[ht] = U
          /\ \A u \in 1..Len(tables) : u # ht => V[u] = tables[u]
      BY <1>3, <2>5, <3>2, SeqUpdate
    <3> QED
      BY <3>1, <3>3
  <2>8. Rewritten(tables, tables', ht, b, B)
    <3>1. U.expands >= T.expands
      BY <2>5, <2>6
    <3>2. /\ tables'[ht].n = tables[ht].n /\ tables'[ht].lock = tables[ht].lock
          /\ tables'[ht].expands >= tables[ht].expands /\ tables'[ht].bins[b] = B
      BY <2>1, <2>4, <2>5, <2>7, <3>1
    <3>3. \A c \in 0..(tables[ht].n - 1) : c # b => tables'[ht].bins[c] = tables[ht].bins[c]
      BY <2>1, <2>5, <2>7
    <3> QED
      BY <1>3, <2>7, <3>2, <3>3 DEF Rewritten
  <2>9. T.bins[b] = A
    BY <1>1, <2>1
  <2>10. BinStep(A, B, 0, k) /\ 0 \notin 1..Len(A)
    BY <2>4, <2>5, <2>9 DEF BinStep, Added
  <2>11. PICK x \in BOOLEAN : x = AtThreshold(T.expands + 1, T)
    BY DEF AtThreshold
  <2>12. /\ th' \in [Threads -> Locals] /\ th'[p].pc = "unlock" /\ th'[p].t = th[p].t
         /\ th'[p].key = th[p].key /\ th'[p].resize = x
         /\ \A q \in Threads : q # p => th'[q] = th[q]
    <3>1. th' = [th EXCEPT ![p].pc = "unlock", ![p].resize = x]
      BY <1>8, <2>1, <2>11
    <3> QED
      BY <1>4, <3>1 DEF Locals, PCs
  <2>13. x => T.expands < T.n /\ U.expands >= T.n
    <3>1. x => T.expands + 1 = T.n
      BY <2>11, Zenon DEF AtThreshold
    <3> QED
      BY <2>5, <2>6, <3>1
  <2>14. Writes(p, b, A, B, 0)
    BY <1>1, <1>2, <1>3, <2>1, <2>7, <2>8, <2>10, <2>12, <2>13 DEF Writes
  <2>15. Stand(p, b, A, B, 0)
    BY <2>10, <2>12, TypeFacts, BesideItself DEF Stand
  <2>16. /\ GoodBin(U, b) /\ HasKey(U.bins[b], k)
         /\ \A j \in Keys \ {k} : HasKey(U.bins[b], j) <=> HasKey(T.bins[b], j)
    <3>1. Wants(T, b, k)
      BY <1>1, <1>3, <1>8, <2>1, <2>9 DEF Wants
    <3> QED
      BY <1>3, <2>3, <3>1, AddedFact
  <2>17. KeptInv'
    <3>1. \A j \in Keys \ {k} : j \in given' <=> j \in given
      BY <1>8
    <3>2. k \in given'
      BY <1>8
    <3> QED
      BY <1>1, <2>4, <2>9, <2>14, <2>16, <3>1, <3>2, KeptAfter
  <2>18. given' \subseteq Keys /\ PutOK(th'[p], tables')
    BY <1>3, <1>4, <1>8, <2>12 DEF PutOK
  <2> QED
    BY <2>7, <2>14, <2>15, <2>16, <2>17, <2>18, WriteCombine
<1> QED
  BY <1>5, <1>6, <1>7, <1>8

-----------------------------------------------------------------------------
\* Steps that leave the slots of every table alone.

Alike(T, V) ==
  /\ V \in Seq(Tables) /\ Len(V) = Len(T)
  /\ \A u \in 1..Len(T) : V[u].n = T[u].n /\ V[u].bins = T[u].bins /\ V[u].expands = T[u].expands

\* The locks that another thread relies on.
LocksAgree(r, V) ==
  /\ r.pc \in Holds => V[r.t].lock[r.key % V[r.t].n] = tables[r.t].lock[r.key % tables[r.t].n]
  /\ \A c \in 0..(tables[ht].n - 1) : tables[ht].lock[c] = "resize" => V[ht].lock[c] = "resize"

\* A thread relies on nothing else of the tables.
LEMMA AlikeThread ==
  ASSUME Inv, NEW V, Alike(tables, V), NEW q \in Threads, LocksAgree(th[q], V)
  PROVE  ThreadOK(th[q], V, ht)
<1>1. PICK r \in Locals : r = th[q]
  BY TypeFacts
<1>2. /\ CallOK(r, ht) /\ LockOK(r, tables) /\ PutOK(r, tables)
      /\ ReadOK(r, BinOf(tables, r.t, r.key)) /\ FindOK(r, BinOf(tables, r.t, r.key))
      /\ CopyOK(r, tables, ht) /\ StatusOK(r, ht)
  BY <1>1, TypeFacts DEF ThreadOK
<1>3. /\ Len(V) = Len(tables)
      /\ \A u \in 1..Len(tables) : V[u].n = tables[u].n /\ V[u].bins = tables[u].bins
  BY DEF Alike
<1>4. \A u \in 1..Len(tables) : \A j : BinOf(V, u, j) = BinOf(tables, u, j)
  BY <1>3 DEF BinOf
<1>5. LockOK(r, V)
  BY <1>1, <1>2 DEF LocksAgree, LockOK
<1>6. r.pc \in InCall => r.t \in 1..Len(tables)
  BY <1>1, CallFacts
<1>7. PutOK(r, V)
  BY <1>2, <1>4, <1>6 DEF PutOK, InCall
<1>8. ReadOK(r, BinOf(V, r.t, r.key)) /\ FindOK(r, BinOf(V, r.t, r.key))
  <2>1. CASE r.pc \in InCall
    BY <1>2, <1>4, <1>6, <2>1
  <2>2. CASE r.pc \notin InCall
    BY <2>2 DEF ReadOK, FindOK, InCall, Gets
  <2> QED
    BY <2>1, <2>2
<1>9. CopyOK(r, V, ht)
  <2> SUFFICES ASSUME r.pc \in Copies
               PROVE  CopyOK(r, V, ht)
    BY DEF CopyOK
  <2>1. /\ r.old = ht /\ r.new = ht + 1 /\ Len(tables) = ht + 1 /\ r.pos \in 0..tables[ht].n
        /\ r.pc = "copyslot" => r.pos < tables[ht].n /\ r.i \in 1..Len(tables[ht].bins[r.pos])
        /\ \A c \in 0..(tables[ht].n - 1) : Passed(r, c) => tables[ht].lock[c] = "resize"
        /\ \A j \in Keys : (\E i \in 1..Len(BinOf(tables, ht + 1, j)) : BinOf(tables, ht + 1, j)[i].key = j)
                           <=> WasCopied(r, tables, j)
    BY <1>2 DEF CopyOK
  <2>2. ht \in 1..Len(tables) /\ ht + 1 \in 1..Len(tables)
    BY <2>1, TypeFacts
  <2>3. \A j \in Keys : WasCopied(r, V, j) <=> WasCopied(r, tables, j)
    BY <1>3, <1>4, <2>1, <2>2 DEF WasCopied
  <2>4. V[ht].n = tables[ht].n /\ V[ht].bins = tables[ht].bins
    BY <1>3, <2>2
  <2>5. \A c \in 0..(V[ht].n - 1) : Passed(r, c) => V[ht].lock[c] = "resize"
    BY <2>1, <2>4 DEF LocksAgree
  <2>6. \A j \in Keys : (\E i \in 1..Len(BinOf(V, ht + 1, j)) : BinOf(V, ht + 1, j)[i].key = j)
                        <=> WasCopied(r, V, j)
    BY <1>4, <2>1, <2>2, <2>3
  <2> QED
    BY <1>3, <2>1, <2>4, <2>5, <2>6 DEF CopyOK
<1> QED
  BY <1>1, <1>2, <1>5, <1>7, <1>8, <1>9 DEF ThreadOK

\* No other thread than p has the lock of bin b.
Alone(p, b) == \A q \in Threads : q # p => ~(th[q].pc \in Holds /\ th[q].key % tables[ht].n = b)

\* A step of thread p that may change the lock of bin b of the current table.
Quiet(p, b) ==
  /\ UNCHANGED <<ht, given>> /\ ops' \in Nat /\ resizing' \in BOOLEAN
  /\ th' \in [Threads -> Locals] /\ \A q \in Threads : q # p => th'[q] = th[q]
  /\ Alike(tables, tables')
  /\ \A u \in 1..Len(tables) : \A c \in 0..(tables[u].n - 1) :
       ~(u = ht /\ c = b) => tables'[u].lock[c] = tables[u].lock[c]
  /\ tables'[ht].lock[b] = tables[ht].lock[b] \/ (tables[ht].lock[b] # "resize" /\ Alone(p, b))

\* What the thread itself may do in such a step.
Moves(p, b) ==
  /\ th[p].pc \in Copies => th'[p].pc \in Copies /\ \A c \in Nat : Passed(th[p], c) => Passed(th'[p], c)
  /\ th'[p].pc \in Resizes => th[p].pc \in Resizes
  /\ th'[p].pc \in Holds => th'[p].t = ht /\ th'[p].key % tables[ht].n = b /\ Alone(p, b)
  /\ Token(th'[p]) => Token(th[p])
  /\ tables'[ht].lock[b] = "resize" /\ tables[ht].lock[b] # "resize" => th'[p].pc \in Copies /\ Passed(th'[p], b)
  /\ \A q \in Threads : th'[q].pc \in Resizes => resizing'

\* What there is to show for such a step.
LEMMA QuietCombine ==
  ASSUME Inv, NEW p \in Threads, NEW b, Quiet(p, b), Moves(p, b), ThreadOK(th'[p], tables', ht)
  PROVE  Inv'
<1>1. /\ ht' = ht /\ given' = given /\ ops' \in Nat /\ resizing' \in BOOLEAN
      /\ th' \in [Threads -> Locals] /\ \A q \in Threads : q # p => th'[q] = th[q]
      /\ Alike(tables, tables')
  BY DEF Quiet
<1>2. /\ Len(tables') = Len(tables) /\ tables' \in Seq(Tables)
      /\ \A u \in 1..Len(tables) : /\ tables'[u].n = tables[u].n /\ tables'[u].bins = tables[u].bins
                                   /\ tables'[u].expands = tables[u].expands
  BY <1>1 DEF Alike
<1>3. ht \in 1..Len(tables) /\ ht \in Nat /\ Len(tables) \in Nat /\ \A u \in 1..Len(tables) : tables[u].n \in Nat
  BY TypeFacts
<1>4. TypeInv'
  BY <1>1, <1>2 DEF Inv, TypeInv
<1>5. TablesInv'
  <2> SUFFICES ASSUME NEW u \in 1..Len(tables)
               PROVE  GoodTable(tables'[u])
    BY <1>2 DEF TablesInv
  <2>1. GoodTable(tables[u])
    BY TypeFacts
  <2>2. tables'[u].n = tables[u].n /\ tables'[u].bins = tables[u].bins
    BY <1>2
  <2>3. PICK T, V : T = tables[u] /\ V = tables'[u]
    OBVIOUS
  <2>4. V.n = T.n /\ V.bins = T.bins /\ GoodTable(T)
    BY <2>1, <2>2, <2>3
  <2>5. \A c : GoodBin(T, c) => GoodBin(V, c)
    BY <2>4, Zenon DEF GoodBin
  <2>6. GoodTable(V)
    BY <2>4, <2>5 DEF GoodTable
  <2> QED
    BY <2>3, <2>6
<1>6. ThreadsInv'
  <2>1. ASSUME NEW q \in Threads, q # p
        PROVE  ThreadOK(th[q], tables', ht)
    <3>1. LocksAgree(th[q], tables')
      <4>1. ASSUME th[q].pc \in Holds
            PROVE  /\ tables'[th[q].t].n = tables[th[q].t].n
                   /\ tables'[th[q].t].lock[th[q].key % tables[th[q].t].n]
                        = tables[th[q].t].lock[th[q].key % tables[th[q].t].n]
        <5>1. th[q].t = ht
          BY <4>1, HolderCurrent
        <5>2. th[q].key % tables[ht].n \in 0..(tables[ht].n - 1)
          BY <4>1, <5>1, CallFacts DEF Holds, InCall
        <5>3. CASE th[q].key % tables[ht].n # b
          BY <1>2, <1>3, <5>1, <5>2, <5>3 DEF Quiet
        <5>4. CASE th[q].key % tables[ht].n = b
          BY <1>2, <1>3, <2>1, <4>1, <5>1, <5>4 DEF Quiet, Alone
        <5> QED
          BY <5>3, <5>4
      <4>2. \A c \in 0..(tables[ht].n - 1) : tables[ht].lock[c] = "resize" => tables'[ht].lock[c] = "resize"
        BY <1>3 DEF Quiet
      <4> QED
        BY <4>1, <4>2 DEF LocksAgree
    <3>2. PICK V : V = tables'
      OBVIOUS
    <3>3. ThreadOK(th[q], V, ht)
      BY <1>1, <3>1, <3>2, AlikeThread
    <3> QED
      BY <3>2, <3>3
  <2> QED
    BY <1>1, <2>1 DEF ThreadsInv
<1>7. /\ th[p].pc \in Copies => th'[p].pc \in Copies /\ \A c \in Nat : Passed(th[p], c) => Passed(th'[p], c)
      /\ th'[p].pc \in Resizes => th[p].pc \in Resizes
      /\ th'[p].pc \in Holds => th'[p].t = ht /\ th'[p].key % tables[ht].n = b /\ Alone(p, b)
      /\ Token(th'[p]) => Token(th[p])
      /\ tables'[ht].lock[b] = "resize" /\ tables[ht].lock[b] # "resize" => th'[p].pc \in Copies /\ Passed(th'[p], b)
      /\ \A q \in Threads : th'[q].pc \in Resizes => resizing'
  BY DEF Moves
<1>8. ApartInv'
  <2>1. ASSUME NEW q \in Threads, q # p
        PROVE  Apart(th'[p], th[q], tables') /\ Apart(th[q], th'[p], tables')
    <3>1. Apart(th[p], th[q], tables) /\ Apart(th[q], th[p], tables)
      BY <2>1 DEF Inv, ApartInv
    <3>2. ~(th'[p].pc \in Holds /\ th[q].pc \in Holds /\ th'[p].t = th[q].t
            /\ th'[p].key % tables'[th'[p].t].n = th[q].key % tables'[th[q].t].n)
      BY <1>2, <1>3, <1>7, <2>1 DEF Alone
    <3> QED
      BY <1>7, <3>1, <3>2 DEF Apart
  <2>2. ASSUME NEW q \in Threads, NEW v \in Threads, q # p, v # p, q # v
        PROVE  Apart(th[q], th[v], tables')
    <3>1. Apart(th[q], th[v], tables)
      BY <2>2 DEF Inv, ApartInv
    <3>2. th[q].pc \in Holds => tables'[th[q].t].n = tables[th[q].t].n
      BY <1>2, CallFacts DEF Holds, InCall
    <3>3. th[v].pc \in Holds => tables'[th[v].t].n = tables[th[v].t].n
      BY <1>2, CallFacts DEF Holds, InCall
    <3> QED
      BY <3>1, <3>2, <3>3 DEF Apart
  <2> QED
    BY <1>1, <2>1, <2>2 DEF ApartInv
<1>9. LocksInv'
  <2>1. /\ \A t \in 1..(ht - 1) : \A c \in 0..(tables[t].n - 1) : tables[t].lock[c] = "resize"
        /\ \A t \in (ht + 1)..Len(tables) : \A c \in 0..(tables[t].n - 1) : tables[t].lock[c] = "free"
        /\ \A c \in 0..(tables[ht].n - 1) : tables[ht].lock[c] = "resize" =>
             \E q \in Threads : th[q].pc \in Copies /\ Passed(th[q], c)
        /\ Len(tables) > ht => \E q \in Threads : th[q].pc \in Copies
    BY DEF Inv, LocksInv
  <2>2. \A u \in 1..Len(tables) : \A c \in 0..(tables[u].n - 1) :
          ~(u = ht /\ c = b) => tables'[u].lock[c] = tables[u].lock[c]
    BY DEF Quiet
  <2>3. \A q \in Threads : th[q].pc \in Copies => th'[q].pc \in Copies
    BY <1>1, <1>7
  <2>4. \A q \in Threads, c \in Nat : th[q].pc \in Copies /\ Passed(th[q], c) => th'[q].pc \in Copies /\ Passed(th'[q], c)
    BY <1>1, <1>7
  <2>5. \A u \in 1..(ht - 1) : \A c \in 0..(tables'[u].n - 1) : tables'[u].lock[c] = "resize"
    BY <1>2, <1>3, <2>1, <2>2
  <2>6. ASSUME NEW u \in (ht + 1)..Len(tables'), NEW c \in 0..(tables'[u].n - 1)
        PROVE  tables'[u].lock[c] = "free"
    <3>1. u \in (ht + 1)..Len(tables) /\ u \in 1..Len(tables) /\ u # ht
      BY <1>2, <1>3
    <3>2. c \in 0..(tables[u].n - 1)
      BY <1>2, <3>1
    <3> QED
      BY <2>1, <2>2, <3>1, <3>2
  <2>7. ASSUME NEW c \in 0..(tables'[ht].n - 1), tables'[ht].lock[c] = "resize"
        PROVE  \E q \in Threads : th'[q].pc \in Copies /\ Passed(th'[q], c)
    <3>1. c \in 0..(tables[ht].n - 1) /\ c \in Nat
      BY <1>2, <1>3
    <3>2. CASE tables[ht].lock[c] = "resize"
      BY <2>1, <2>4, <3>1, <3>2
    <3>3. CASE tables[ht].lock[c] # "resize"
      <4>1. c = b
        BY <1>3, <2>2, <2>7, <3>1, <3>3
      <4> QED
        BY <1>7, <2>7, <3>3, <4>1
    <3> QED
      BY <3>2, <3>3
  <2>8. Len(tables') > ht => \E q \in Threads : th'[q].pc \in Copies
    BY <1>2, <2>1, <2>3
  <2> QED
    BY <1>1, <2>5, <2>6, <2>7, <2>8 DEF LocksInv
<1>10. TokenInv'
  <2>1. ASSUME NEW q \in Threads
        PROVE  Token(th'[q]) => tables[ht].expands >= tables[ht].n
    <3>1. Token(th[q]) => tables[ht].expands >= tables[ht].n
      BY DEF Inv, TokenInv
    <3> QED
      BY <1>1, <1>7, <3>1
  <2> QED
    BY <1>1, <1>2, <1>3, <1>7, <2>1 DEF TokenInv
<1>11. KeptInv'
  <2>1. \A j : BinOf(tables', ht, j) = BinOf(tables, ht, j)
    BY <1>2, <1>3 DEF BinOf
  <2> QED
    BY <1>1, <2>1 DEF Inv, KeptInv
<1> QED
  BY <1>4, <1>5, <1>6, <1>8, <1>9, <1>10, <1>11 DEF Inv

\* A step that changes nothing but the thread's own record.
OwnStep(p, s) ==
  /\ th' = [th EXCEPT ![p] = s] /\ UNCHANGED <<ht, tables, resizing, given>> /\ ops' \in Nat
  /\ s \in Locals /\ s.pc \notin Resizes \cup Holds /\ th[p].pc \notin Copies
  /\ Token(s) => Token(th[p])

\* A step that changes only the locals of p, and gives it no lock, keeps the invariant.
LEMMA LocalStep ==
  ASSUME Inv, NEW p \in Threads, NEW s, OwnStep(p, s), ThreadOK(s, tables, ht)
  PROVE  Inv'
<1>1. /\ th' \in [Threads -> Locals] /\ th'[p] = s /\ \A q \in Threads : q # p => th'[q] = th[q]
  BY DEF OwnStep, Inv, TypeInv
<1>2. /\ ht' = ht /\ tables' = tables /\ resizing' = resizing /\ given' = given /\ ops' \in Nat
      /\ s.pc \notin Resizes /\ s.pc \notin Holds /\ th[p].pc \notin Copies /\ (Token(s) => Token(th[p]))
  BY DEF OwnStep
<1>3. Alike(tables, tables')
  BY <1>2, TypeFacts DEF Alike
<1>4. Quiet(p, 0)
  BY <1>1, <1>2, <1>3 DEF Quiet, Inv, TypeInv
<1>5. Moves(p, 0)
  BY <1>1, <1>2 DEF Moves, Inv, TokenInv
<1> QED
  BY <1>1, <1>2, <1>4, <1>5, QuietCombine

\* A thread outside a call, and one that is to look at the table's status, rely on nothing.
LEMMA OutsideFact ==
  /\ Idle \in Locals /\ Idle.pc = "idle" /\ ~Idle.resize
  /\ [Idle EXCEPT !.pc = "status"] \in Locals /\ [Idle EXCEPT !.pc = "status"].pc = "status"
  /\ \A r, T, h : r.pc \in {"idle", "status"} => ThreadOK(r, T, h)
<1>1. /\ Idle \in Locals /\ Idle.pc = "idle" /\ ~Idle.resize
      /\ [Idle EXCEPT !.pc = "status"] \in Locals /\ [Idle EXCEPT !.pc = "status"].pc = "status"
  BY ValueFacts DEF Idle, Locals, PCs
<1>2. ASSUME NEW r, NEW T, NEW h, r.pc \in {"idle", "status"}
      PROVE  ThreadOK(r, T, h)
  <2>1. /\ r.pc \notin InCall /\ r.pc \notin Holds /\ r.pc \notin Gets /\ r.pc \notin Copies
        /\ r.pc \notin {"putkey", "got", "getkey", "getcheck", "get", "resize", "trylock", "publish"}
    BY <1>2 DEF InCall, Holds, Gets, Copies
  <2>2. CallOK(r, h) /\ LockOK(r, T) /\ PutOK(r, T) /\ CopyOK(r, T, h) /\ StatusOK(r, h)
    BY <2>1, Zenon DEF CallOK, LockOK, PutOK, CopyOK, StatusOK
  <2>3. \A bin : ReadOK(r, bin) /\ FindOK(r, bin)
    BY <2>1 DEF ReadOK, FindOK
  <2> QED
    BY <2>2, <2>3 DEF ThreadOK
<1> QED
  BY <1>1, <1>2

\* A thread ends its call without a change.
LEMMA Leaves ==
  ASSUME Inv, NEW p \in Threads, th' = [th EXCEPT ![p] = Idle], UNCHANGED <<ht, tables, resizing, given, ops>>,
         th[p].pc \notin Copies
  PROVE  Inv'
<1>1. OwnStep(p, Idle)
  <2>1. ops' \in Nat
    BY DEF Inv, TypeInv
  <2> QED
    BY <2>1, OutsideFact DEF OwnStep, Resizes, Holds, Token
<1>2. ThreadOK(Idle, tables, ht)
  BY OutsideFact
<1> QED
  BY <1>1, <1>2, LocalStep

\* A call begins; a key that must be found is in the current table.
LEMMA CallKeeps ==
  ASSUME Inv, NEW p \in Threads, NEW c \in Calls, Call(p, c[1], c[2])
  PROVE  Inv'
<1>1. PICK pc, k : pc = c[1] /\ k = c[2] /\ pc \in {"get", "put", "remove"} /\ k \in Keys
  BY ConstantFacts
<1>2. /\ th[p].pc = "idle" /\ ops' = ops + 1 /\ UNCHANGED <<ht, tables, resizing, given>>
      /\ th' = [th EXCEPT ![p] = [Idle EXCEPT !.pc = pc, !.key = k, !.t = ht, !.i = 1, !.sure = k \in given]]
  BY <1>1 DEF Call
<1>3. PICK x \in BOOLEAN : x = (k \in given)
  <2>1. (k \in given) = TRUE \/ (k \in given) = FALSE
    OBVIOUS
  <2> QED
    BY <2>1
<1>4. PICK s : s = [Idle EXCEPT !.pc = pc, !.key = k, !.t = ht, !.i = 1, !.sure = x]
  OBVIOUS
<1>5. ht \in Nat /\ ht \in 1..Len(tables) /\ ops \in Nat /\ ht \in 1..ht
  BY TypeFacts DEF Inv, TypeInv
<1>6. s \in Locals /\ s.pc = pc /\ s.key = k /\ s.t = ht /\ s.i = 1 /\ s.sure = x /\ ~s.resize
  BY <1>1, <1>4, <1>5, ValueFacts DEF Idle, Locals, PCs
<1>7. th' = [th EXCEPT ![p] = s]
  BY <1>2, <1>3, <1>4
<1>8. OwnStep(p, s)
  <2>1. s.pc \notin Resizes \cup Holds /\ th[p].pc \notin Copies /\ ~Token(s)
    BY <1>1, <1>2, <1>6 DEF Resizes, Holds, Copies, Token
  <2>2. ops' \in Nat
    BY <1>2, <1>5
  <2> QED
    BY <1>2, <1>6, <1>7, <2>1, <2>2 DEF OwnStep
<1>9. ThreadOK(s, tables, ht)
  <2>1. CallOK(s, ht)
    BY <1>1, <1>5, <1>6 DEF CallOK
  <2>2. /\ s.pc \notin Holds /\ s.pc \notin Copies
        /\ s.pc \notin {"putkey", "got", "getkey", "getcheck", "resize", "trylock", "publish"}
    BY <1>1, <1>6 DEF Holds, Copies
  <2>3. LockOK(s, tables) /\ PutOK(s, tables) /\ CopyOK(s, tables, ht) /\ StatusOK(s, ht)
    BY <2>2 DEF LockOK, PutOK, CopyOK, StatusOK
  <2>4. PICK bin \in Seq(Entries) : bin = BinOf(tables, s.t, s.key) /\ Len(bin) \in Nat /\ Len(bin) >= 1
    <3>1. k % tables[ht].n \in 0..(tables[ht].n - 1)
      BY <1>1, <1>5, TypeFacts, HashFact
    <3>2. GoodBin(tables[ht], k % tables[ht].n)
      BY <1>5, <3>1, TypeFacts DEF GoodTable
    <3> QED
      BY <1>5, <1>6, <3>1, <3>2, TypeFacts DEF BinOf, GoodBin
  <2>5. ReadOK(s, bin)
    BY <1>6, <2>2, <2>4 DEF ReadOK
  <2>6. FindOK(s, bin)
    <3>1. s.sure => k \in given
      BY <1>3, <1>6, Zenon
    <3>2. s.sure => \E j \in 1..Len(bin) : bin[j].key = k
      BY <1>1, <1>6, <2>4, <3>1 DEF Inv, KeptInv
    <3>3. s.sure => \E j \in 1..Len(bin) : s.i <= j /\ bin[j].key = s.key
      BY <1>6, <2>4, <3>2
    <3> QED
      BY <2>2, <3>3 DEF FindOK
  <2> QED
    BY <2>1, <2>3, <2>4, <2>5, <2>6 DEF ThreadOK
<1> QED
  BY <1>8, <1>9, LocalStep

\* Thread p goes on in its call with record s, and has no lock.
GoesOn(p, s) ==
  /\ th' = [th EXCEPT ![p] = s] /\ UNCHANGED <<ht, tables, resizing, given, ops>>
  /\ s \in Locals /\ th[p].pc \in InCall \ Holds /\ s.pc \in InCall \ Holds
  /\ s.key = th[p].key /\ s.t \in 1..ht /\ ~s.resize

\* What there is to show for it.
LEMMA GoesOnKeeps ==
  ASSUME Inv, NEW p \in Threads, NEW s, GoesOn(p, s),
         ReadOK(s, BinOf(tables, s.t, s.key)), FindOK(s, BinOf(tables, s.t, s.key))
  PROVE  Inv'
<1>1. /\ th' = [th EXCEPT ![p] = s] /\ UNCHANGED <<ht, tables, resizing, given, ops>>
      /\ s \in Locals /\ th[p].pc \in InCall \ Holds /\ s.pc \in InCall \ Holds
      /\ s.key = th[p].key /\ s.t \in 1..ht /\ ~s.resize
  BY DEF GoesOn
<1>2. /\ s.pc \notin Resizes /\ s.pc \notin Holds /\ s.pc \notin Copies /\ th[p].pc \notin Copies
      /\ s.pc \notin {"putkey", "resize", "trylock", "publish", "unlock"} /\ ~Token(s)
  BY <1>1 DEF InCall, Holds, Resizes, Copies, Token
<1>3. OwnStep(p, s)
  <2>1. ops' \in Nat
    BY <1>1 DEF Inv, TypeInv
  <2> QED
    BY <1>1, <1>2, <2>1 DEF OwnStep
<1>4. CallOK(s, ht)
  <2>1. th[p].key \in Keys
    BY <1>1, CallFacts
  <2> QED
    BY <1>1, <2>1 DEF CallOK
<1>5. LockOK(s, tables) /\ PutOK(s, tables) /\ CopyOK(s, tables, ht) /\ StatusOK(s, ht)
  BY <1>2 DEF LockOK, PutOK, CopyOK, StatusOK
<1>6. ThreadOK(s, tables, ht)
  BY <1>4, <1>5 DEF ThreadOK
<1> QED
  BY <1>3, <1>6, LocalStep

\* What a get has before a step.
LEMMA GetFacts ==
  ASSUME Inv, NEW p \in Threads, th[p].pc \in Gets
  PROVE  \E bin \in Seq(Entries) :
           /\ bin = BinOf(tables, th[p].t, th[p].key) /\ Bin(th[p].t, th[p].key) = bin /\ SlotOf(p) = bin[th[p].i]
           /\ Len(bin) \in Nat /\ th[p].i \in 1..Len(bin) /\ bin[th[p].i] \in Entries
           /\ ReadOK(th[p], bin) /\ FindOK(th[p], bin)
           /\ \A i \in 1..Len(bin) : bin[i].key # 0 => bin[i].val = ValueOf(bin[i].key)
           /\ \A i, j \in 1..Len(bin) : bin[i].key # 0 /\ bin[i].key = bin[j].key => i = j
<1>1. th[p].pc \in InCall
  BY DEF Gets, InCall
<1>2. PICK bin \in Seq(Entries) : bin = BinOf(tables, th[p].t, th[p].key)
  BY <1>1, CallFacts
<1>3. Bin(th[p].t, th[p].key) = bin /\ SlotOf(p) = bin[th[p].i]
  BY <1>2 DEF SlotOf, Bin, BinOf, clht_hash
<1>4. ReadOK(th[p], bin) /\ FindOK(th[p], bin)
  BY <1>2, TypeFacts DEF ThreadOK
<1>5. th[p].i \in 1..Len(bin)
  BY <1>4 DEF ReadOK
<1>6. /\ \A i \in 1..Len(bin) : bin[i].key # 0 => bin[i].val = ValueOf(bin[i].key)
      /\ \A i, j \in 1..Len(bin) : bin[i].key # 0 /\ bin[i].key = bin[j].key => i = j
  BY <1>1, <1>2, CallFacts DEF GoodBin, BinOf
<1> QED
  BY <1>2, <1>3, <1>4, <1>5, <1>6

\* The value is read, the key, and the value again.
LEMMA GetKeeps ==
  ASSUME Inv, NEW p \in Threads, GetVal(p) \/ GetKey(p) \/ GetCheck(p)
  PROVE  Inv'
<1>1. PICK r \in Locals : r = th[p]
  BY TypeFacts
<1>2. r.pc \in Gets /\ r.pc \in InCall \ Holds /\ UNCHANGED <<ht, tables, resizing, given, ops>>
  BY <1>1 DEF GetVal, GetKey, GetCheck, Gets, InCall, Holds
<1>3. PICK bin \in Seq(Entries) :
        /\ bin = BinOf(tables, r.t, r.key) /\ Bin(r.t, r.key) = bin /\ SlotOf(p) = bin[r.i]
        /\ Len(bin) \in Nat /\ r.i \in 1..Len(bin) /\ bin[r.i] \in Entries
        /\ ReadOK(r, bin) /\ FindOK(r, bin)
        /\ \A i \in 1..Len(bin) : bin[i].key # 0 => bin[i].val = ValueOf(bin[i].key)
        /\ \A i, j \in 1..Len(bin) : bin[i].key # 0 /\ bin[i].key = bin[j].key => i = j
  BY <1>1, <1>2, GetFacts
<1>4. r.key \in Keys /\ r.key # 0 /\ r.t \in 1..ht /\ ~r.resize
  BY <1>1, <1>2, CallFacts, TypeFacts, ConstantFacts DEF ThreadOK, CallOK, Holds
<1>5. bin[r.i].val \in Values /\ NoValue \in Values
  BY <1>3, ValueFacts DEF Entries
<1>6. ASSUME NEW s, th' = [th EXCEPT ![p] = s], s \in Locals, s.pc \in InCall \ Holds, s.key = r.key, s.t = r.t,
             s.resize = r.resize, ReadOK(s, bin), FindOK(s, bin)
      PROVE  Inv'
  <2>1. GoesOn(p, s)
    BY <1>1, <1>2, <1>4, <1>6 DEF GoesOn
  <2> QED
    BY <1>3, <1>6, <2>1, GoesOnKeeps
<1>7. CASE GetVal(p)
  <2>1. r.pc = "get" /\ th' = [th EXCEPT ![p].val = bin[r.i].val, ![p].writes = 0, ![p].pc = "getkey"]
    BY <1>1, <1>3, <1>7 DEF GetVal
  <2>2. PICK s : s = [r EXCEPT !.val = bin[r.i].val, !.writes = 0, !.pc = "getkey"]
    OBVIOUS
  <2>3. /\ s \in Locals /\ s.pc = "getkey" /\ s.key = r.key /\ s.t = r.t /\ s.i = r.i /\ s.writes = 0
        /\ s.resize = r.resize /\ s.sure = r.sure /\ s.val = bin[r.i].val
    BY <1>5, <2>2 DEF Locals, PCs
  <2>4. th' = [th EXCEPT ![p] = s]
    BY <1>1, <2>1, <2>2
  <2>5. ReadOK(s, bin)
    BY <1>3, <2>3 DEF ReadOK
  <2>6. FindOK(s, bin)
    BY <1>3, <2>1, <2>3 DEF FindOK
  <2> QED
    BY <1>6, <2>3, <2>4, <2>5, <2>6 DEF InCall, Holds
<1>8. CASE GetKey(p)
  <2>1. /\ r.pc = "getkey"
        /\ th' = [th EXCEPT ![p] =
             CASE bin[r.i].key = r.key -> [r EXCEPT !.pc = "getcheck"]
               [] bin[r.i].key # r.key /\ r.i < Len(bin) -> [r EXCEPT !.pc = "get", !.i = r.i + 1]
               [] OTHER -> [r EXCEPT !.pc = "got", !.val = NoValue]]
    BY <1>1, <1>3, <1>8 DEF GetKey
  <2>2. CASE bin[r.i].key = r.key
    <3>1. PICK s : s = [r EXCEPT !.pc = "getcheck"]
      OBVIOUS
    <3>2. /\ s \in Locals /\ s.pc = "getcheck" /\ s.key = r.key /\ s.t = r.t /\ s.i = r.i /\ s.writes = r.writes
          /\ s.resize = r.resize /\ s.sure = r.sure /\ s.val = r.val
      BY <3>1 DEF Locals, PCs
    <3>3. th' = [th EXCEPT ![p] = s]
      BY <2>1, <2>2, <3>1
    <3>4. bin[r.i].val = ValueOf(r.key)
      BY <1>3, <1>4, <2>2
    <3>5. ReadOK(s, bin)
      BY <1>3, <2>1, <3>2, <3>4 DEF ReadOK
    <3>6. FindOK(s, bin)
      BY <1>3, <1>4, <2>1, <2>2, <3>2 DEF FindOK
    <3> QED
      BY <1>6, <3>2, <3>3, <3>5, <3>6 DEF InCall, Holds
  <2>3. CASE bin[r.i].key # r.key /\ r.i < Len(bin)
    <3>1. PICK s : s = [r EXCEPT !.pc = "get", !.i = r.i + 1]
      OBVIOUS
    <3>2. /\ s \in Locals /\ s.pc = "get" /\ s.key = r.key /\ s.t = r.t /\ s.i = r.i + 1
          /\ s.resize = r.resize /\ s.sure = r.sure
      <4>1. r.i + 1 \in Nat
        BY <1>3
      <4> QED
        BY <3>1, <4>1 DEF Locals, PCs
    <3>3. th' = [th EXCEPT ![p] = s]
      BY <2>1, <2>3, <3>1
    <3>4. ReadOK(s, bin)
      BY <1>3, <2>3, <3>2 DEF ReadOK
    <3>5. FindOK(s, bin)
      BY <1>3, <2>1, <2>3, <3>2 DEF FindOK
    <3> QED
      BY <1>6, <3>2, <3>3, <3>4, <3>5 DEF InCall, Holds
  <2>4. CASE bin[r.i].key # r.key /\ ~(r.i < Len(bin))
    <3>1. PICK s : s = [r EXCEPT !.pc = "got", !.val = NoValue]
      OBVIOUS
    <3>2. /\ s \in Locals /\ s.pc = "got" /\ s.key = r.key /\ s.t = r.t /\ s.val = NoValue
          /\ s.resize = r.resize /\ s.sure = r.sure
      BY <1>5, <3>1 DEF Locals, PCs
    <3>3. th' = [th EXCEPT ![p] = s]
      BY <2>1, <2>4, <3>1
    <3>4. ReadOK(s, bin)
      BY <3>2 DEF ReadOK, Gets
    <3>5. ~r.sure
      BY <1>3, <2>1, <2>4 DEF FindOK
    <3>6. FindOK(s, bin)
      BY <3>2, <3>5 DEF FindOK
    <3> QED
      BY <1>6, <3>2, <3>3, <3>4, <3>6 DEF InCall, Holds
  <2> QED
    BY <2>2, <2>3, <2>4
<1>9. CASE GetCheck(p)
  <2>1. PICK v : v = IF bin[r.i].val = r.val THEN r.val ELSE NoValue
    OBVIOUS
  <2>2. r.pc = "getcheck" /\ th' = [th EXCEPT ![p].val = v, ![p].pc = "got"]
    BY <1>1, <1>3, <1>9, <2>1 DEF GetCheck
  <2>3. v \in Values
    BY <1>5, <2>1
  <2>4. PICK s : s = [r EXCEPT !.val = v, !.pc = "got"]
    OBVIOUS
  <2>5. /\ s \in Locals /\ s.pc = "got" /\ s.key = r.key /\ s.t = r.t /\ s.writes = r.writes
        /\ s.resize = r.resize /\ s.sure = r.sure /\ s.val = v
    BY <2>3, <2>4 DEF Locals, PCs
  <2>6. th' = [th EXCEPT ![p] = s]
    BY <1>1, <2>2, <2>4
  <2>7. ReadOK(s, bin)
    BY <1>3, <2>1, <2>2, <2>5 DEF ReadOK, Gets
  <2>8. FindOK(s, bin)
    BY <1>3, <1>4, <2>1, <2>2, <2>5 DEF FindOK
  <2> QED
    BY <1>6, <2>5, <2>6, <2>7, <2>8 DEF InCall, Holds
<1> QED
  BY <1>7, <1>8, <1>9

\* A call that is not a get relies on no bin.
LEMMA NotReading ==
  ASSUME NEW s, s.pc \in InCall \ (Gets \cup {"got"}), NEW bin
  PROVE  ReadOK(s, bin) /\ FindOK(s, bin)
BY DEF ReadOK, FindOK, InCall, Gets

\* The look without the lock.
LEMMA ExistsKeeps ==
  ASSUME Inv, NEW p \in Threads, Exists(p)
  PROVE  Inv'
<1>1. PICK r \in Locals : r = th[p]
  BY TypeFacts
<1>2. r.pc \in {"put", "remove"} /\ UNCHANGED <<ht, tables, resizing, given, ops>>
  BY <1>1 DEF Exists
<1>3. PICK s : s = [r EXCEPT !.pc = IF r.pc = "put" THEN "putlock" ELSE "removelock"]
  OBVIOUS
<1>4. th' = [th EXCEPT ![p] = Idle] \/ th' = [th EXCEPT ![p] = s]
  <2>1. th' = [th EXCEPT ![p] = IF bucket_exists(r.t, r.key) = (r.pc = "put") THEN Idle ELSE s]
    <3>1. th' = [th EXCEPT ![p] = IF bucket_exists(th[p].t, th[p].key) = (th[p].pc = "put") THEN Idle
                                  ELSE [th[p] EXCEPT !.pc = IF th[p].pc = "put" THEN "putlock" ELSE "removelock"]]
      BY DEF Exists
    <3> QED
      BY <1>1, <1>3, <3>1, Zenon
  <2>2. CASE bucket_exists(r.t, r.key) = (r.pc = "put")
    BY <2>1, <2>2, Zenon
  <2>3. CASE ~(bucket_exists(r.t, r.key) = (r.pc = "put"))
    BY <2>1, <2>3, Zenon
  <2> QED
    BY <2>2, <2>3
<1>5. CASE th' = [th EXCEPT ![p] = Idle]
  BY <1>1, <1>2, <1>5, Leaves DEF Copies
<1>6. CASE th' = [th EXCEPT ![p] = s]
  <2>1. s \in Locals /\ s.pc \in {"putlock", "removelock"} /\ s.key = r.key /\ s.t = r.t /\ s.resize = r.resize
    BY <1>3 DEF Locals, PCs
  <2>2. r.pc \in InCall /\ r.pc # "unlock"
    BY <1>2 DEF InCall
  <2>3. r.t \in 1..ht /\ ~r.resize
    BY <1>1, <2>2, TypeFacts DEF ThreadOK, CallOK
  <2>4. s.pc \in InCall \ Holds /\ r.pc \in InCall \ Holds /\ s.pc \notin Gets \cup {"got"}
    BY <1>2, <2>1 DEF InCall, Holds, Gets
  <2>5. GoesOn(p, s)
    BY <1>1, <1>2, <1>6, <2>1, <2>3, <2>4 DEF GoesOn
  <2> QED
    BY <2>4, <2>5, NotReading, GoesOnKeeps
<1> QED
  BY <1>4, <1>5, <1>6

\* table_new is there: the lock is tried in the table that is current now.
LEMMA WaitNewKeeps ==
  ASSUME Inv, NEW p \in Threads, WaitNew(p)
  PROVE  Inv'
<1>1. PICK r \in Locals : r = th[p]
  BY TypeFacts
<1>2. r.pc \in {"putwait", "removewait"} /\ UNCHANGED <<ht, tables, resizing, given, ops>>
  BY <1>1 DEF WaitNew, Waiting
<1>3. PICK s : s = [r EXCEPT !.t = ht, !.pc = IF r.pc = "putwait" THEN "putlock" ELSE "removelock"]
  OBVIOUS
<1>4. th' = [th EXCEPT ![p] = s]
  BY <1>1, <1>3 DEF WaitNew
<1>5. ht \in Nat /\ ht \in 1..ht
  BY TypeFacts
<1>6. s \in Locals /\ s.pc \in {"putlock", "removelock"} /\ s.key = r.key /\ s.t = ht /\ s.resize = r.resize
  BY <1>3, <1>5 DEF Locals, PCs
<1>7. r.pc \in InCall /\ r.pc # "unlock"
  BY <1>2 DEF InCall
<1>8. ~r.resize
  BY <1>1, <1>7, TypeFacts DEF ThreadOK, CallOK
<1>9. s.pc \in InCall \ Holds /\ r.pc \in InCall \ Holds /\ s.pc \notin Gets \cup {"got"}
  BY <1>2, <1>6 DEF InCall, Holds, Gets
<1>10. GoesOn(p, s)
  BY <1>1, <1>2, <1>4, <1>5, <1>6, <1>8, <1>9 DEF GoesOn
<1> QED
  BY <1>9, <1>10, NotReading, GoesOnKeeps

\* A thread at the status of a table, and before the resize lock.
LEMMA StatusFact ==
  ASSUME NEW s, NEW T, NEW h, s.pc \in {"resize", "trylock"}, StatusOK(s, h)
  PROVE  ThreadOK(s, T, h)
<1>1. /\ s.pc \notin InCall /\ s.pc \notin Holds /\ s.pc \notin Gets /\ s.pc \notin Copies
      /\ s.pc \notin {"putkey", "got", "getkey", "getcheck", "get"}
  BY DEF InCall, Holds, Gets, Copies
<1>2. CallOK(s, h) /\ LockOK(s, T) /\ PutOK(s, T) /\ CopyOK(s, T, h)
  BY <1>1, Zenon DEF CallOK, LockOK, PutOK, CopyOK
<1>3. \A bin : ReadOK(s, bin) /\ FindOK(s, bin)
  BY <1>1 DEF ReadOK, FindOK
<1> QED
  BY <1>2, <1>3 DEF ThreadOK

\* The status is of a table that exists, and the resize of the current one.
LEMMA StatusKeeps ==
  ASSUME Inv, NEW p \in Threads, Status(p) \/ ResizeRead(p)
  PROVE  Inv'
<1>1. PICK r \in Locals : r = th[p]
  BY TypeFacts
<1>2. r.pc \in {"status", "resize"} /\ UNCHANGED <<ht, tables, resizing, given, ops>>
  BY <1>1 DEF Status, ResizeRead
<1>3. ht \in Nat /\ ht \in 1..ht /\ ht \in 1..Len(tables) /\ ops' \in Nat
  BY <1>2, TypeFacts DEF Inv, TypeInv
<1>4. ASSUME NEW s \in Locals, th' = [th EXCEPT ![p] = s], s.pc \in {"resize", "trylock"}, StatusOK(s, ht)
      PROVE  Inv'
  <2>1. s.pc \notin Resizes \cup Holds /\ th[p].pc \notin Copies /\ Token(th[p])
    BY <1>1, <1>2, <1>4 DEF Resizes, Holds, Copies, Token
  <2>2. OwnStep(p, s)
    BY <1>2, <1>3, <1>4, <2>1 DEF OwnStep
  <2> QED
    BY <1>4, <2>2, StatusFact, LocalStep
<1>5. CASE Status(p)
  <2>1. PICK s : s = [r EXCEPT !.t = ht, !.pc = "resize"]
    OBVIOUS
  <2>2. s \in Locals /\ s.pc = "resize" /\ s.t = ht
    BY <1>3, <2>1 DEF Locals, PCs
  <2>3. th' = [th EXCEPT ![p] = s]
    BY <1>1, <1>5, <2>1 DEF Status
  <2>4. StatusOK(s, ht)
    BY <1>3, <2>2 DEF StatusOK
  <2> QED
    BY <1>4, <2>2, <2>3, <2>4
<1>6. CASE ResizeRead(p)
  <2>1. r.pc = "resize" /\ r.t \in 1..ht
    BY <1>1, <1>6, TypeFacts DEF ResizeRead, ThreadOK, StatusOK
  <2>2. PICK x \in Nat : x = NewSize(tables[r.t], tables[ht].n)
    <3>1. r.t \in 1..Len(tables) /\ tables[r.t] \in Tables /\ tables[ht].n \in Nat
      BY <1>3, <2>1, TypeFacts
    <3> QED
      BY <3>1, NewSizeFact
  <2>3. PICK s : s = [r EXCEPT !.old = ht, !.size = x, !.pc = "trylock"]
    OBVIOUS
  <2>4. s \in Locals /\ s.pc = "trylock" /\ s.old = ht
    BY <1>3, <2>3 DEF Locals, PCs
  <2>5. th' = [th EXCEPT ![p] = s]
    BY <1>1, <1>6, <2>2, <2>3 DEF ResizeRead
  <2>6. StatusOK(s, ht)
    BY <2>4 DEF StatusOK
  <2> QED
    BY <1>4, <2>4, <2>5, <2>6
<1> QED
  BY <1>5, <1>6

\* The lock of bin b of the current table is set.
Relocked(V, b, l) == V = [tables EXCEPT ![ht].lock[b] = l]

\* A lock that is set keeps the tables good and every slot as it was.
LEMMA Relock ==
  ASSUME Inv, NEW V, NEW b \in 0..(tables[ht].n - 1), NEW l \in {"free", "update", "resize"}, Relocked(V, b, l)
  PROVE  /\ Alike(tables, V) /\ V[ht].lock[b] = l
         /\ \A u \in 1..Len(tables) : \A c \in 0..(tables[u].n - 1) :
              ~(u = ht /\ c = b) => V[u].lock[c] = tables[u].lock[c]
<1>1. tables \in Seq(Tables) /\ ht \in 1..Len(tables) /\ tables[ht] \in Tables
  BY TypeFacts
<1>2. PICK T \in Tables : T = tables[ht]
  BY <1>1
<1>3. PICK U : U = [T EXCEPT !.lock[b] = l]
  OBVIOUS
<1>4. /\ U \in Tables /\ U.n = T.n /\ U.bins = T.bins /\ U.expands = T.expands
      /\ U.lock[b] = l /\ \A c \in 0..(T.n - 1) : c # b => U.lock[c] = T.lock[c]
  BY <1>2, <1>3, LockUpdate
<1>5. V = [tables EXCEPT ![ht] = U]
  BY <1>2, <1>3 DEF Relocked
<1>6. /\ V \in Seq(Tables) /\ Len(V) = Len(tables) /\ V[ht] = U
      /\ \A u \in 1..Len(tables) : u # ht => V[u] = tables[u]
  BY <1>1, <1>4, <1>5, SeqUpdate
<1>7. Alike(tables, V)
  BY <1>2, <1>4, <1>6 DEF Alike
<1>8. ASSUME NEW u \in 1..Len(tables), NEW c \in 0..(tables[u].n - 1), ~(u = ht /\ c = b)
      PROVE  V[u].lock[c] = tables[u].lock[c]
  BY <1>2, <1>4, <1>6, <1>8
<1> QED
  BY <1>4, <1>6, <1>7, <1>8

\* Nobody has the lock of a bin that is not locked for an update.
LEMMA FreeAlone ==
  ASSUME Inv, NEW p \in Threads, NEW b, tables[ht].lock[b] # "update"
  PROVE  Alone(p, b)
BY HolderCurrent DEF Alone

\* The lock is taken in the current table only: no bin of the others is free.
LEMMA LockAcqKeeps ==
  ASSUME Inv, NEW p \in Threads, LockAcq(p)
  PROVE  Inv'
<1>1. PICK r \in Locals : r = th[p]
  BY TypeFacts
<1>2. /\ r.pc \in {"putlock", "removelock"} /\ UNCHANGED <<ht, resizing, given, ops>>
      /\ \/ LockOf(p) = "free" /\ tables' = SetLock(p, "update") /\ Go(p, WithLock(r.pc))
         \/ Go(p, IF r.pc = "putlock" THEN "putwait" ELSE "removewait") /\ UNCHANGED tables
  BY <1>1 DEF LockAcq
<1>3. r.pc \in InCall /\ r.pc # "unlock" /\ r.pc \in InCall \ Holds
  BY <1>2 DEF InCall, Holds
<1>4. r.key \in Keys /\ r.t \in 1..ht /\ ~r.resize /\ r.key % tables[r.t].n \in 0..(tables[r.t].n - 1)
  BY <1>1, <1>3, CallFacts, TypeFacts DEF ThreadOK, CallOK
<1>5. CASE Go(p, IF r.pc = "putlock" THEN "putwait" ELSE "removewait") /\ UNCHANGED tables
  <2>1. PICK s : s = [r EXCEPT !.pc = IF r.pc = "putlock" THEN "putwait" ELSE "removewait"]
    OBVIOUS
  <2>2. th' = [th EXCEPT ![p] = s]
    BY <1>1, <1>5, <2>1 DEF Go
  <2>3. s \in Locals /\ s.pc \in {"putwait", "removewait"} /\ s.key = r.key /\ s.t = r.t /\ s.resize = r.resize
    BY <2>1 DEF Locals, PCs
  <2>4. s.pc \in InCall \ Holds /\ s.pc \notin Gets \cup {"got"}
    BY <2>3 DEF InCall, Holds, Gets
  <2>5. GoesOn(p, s)
    BY <1>1, <1>2, <1>3, <1>4, <1>5, <2>2, <2>3, <2>4 DEF GoesOn
  <2> QED
    BY <2>4, <2>5, NotReading, GoesOnKeeps
<1>6. CASE LockOf(p) = "free" /\ tables' = SetLock(p, "update") /\ Go(p, WithLock(r.pc))
  <2>1. tables[r.t].lock[r.key % tables[r.t].n] = "free"
    BY <1>1, <1>6 DEF LockOf, clht_hash
  <2>2. r.t = ht
    <3>1. r.t \notin 1..(ht - 1)
      BY <1>4, <2>1 DEF Inv, LocksInv
    <3> QED
      BY <1>4, <3>1, TypeFacts
  <2>3. PICK b \in 0..(tables[ht].n - 1) : b = r.key % tables[ht].n
    BY <1>4, <2>2
  <2>4. PICK V : V = tables' /\ Relocked(V, b, "update")
    BY <1>1, <1>6, <2>2, <2>3 DEF SetLock, clht_hash, Relocked
  <2>5. /\ Alike(tables, V) /\ V[ht].lock[b] = "update"
        /\ \A u \in 1..Len(tables) : \A c \in 0..(tables[u].n - 1) :
             ~(u = ht /\ c = b) => V[u].lock[c] = tables[u].lock[c]
    BY <2>4, Relock
  <2>6. Alone(p, b) /\ tables[ht].lock[b] # "resize"
    BY <2>1, <2>2, <2>3, FreeAlone
  <2>7. PICK s : s = [r EXCEPT !.pc = WithLock(r.pc)]
    OBVIOUS
  <2>8. s \in Locals /\ s.pc \in {"putscan", "removescan"} /\ s.key = r.key /\ s.t = ht /\ s.resize = r.resize
    BY <2>2, <2>7 DEF Locals, PCs, WithLock
  <2>9. th' = [th EXCEPT ![p] = s]
    BY <1>1, <1>6, <2>7 DEF Go
  <2>10. th' \in [Threads -> Locals] /\ th'[p] = s /\ \A q \in Threads : q # p => th'[q] = th[q]
    BY <2>8, <2>9 DEF Inv, TypeInv
  <2>11. Quiet(p, b)
    BY <1>2, <2>4, <2>5, <2>6, <2>10 DEF Quiet, Inv, TypeInv
  <2>12. Moves(p, b)
    <3>1. /\ s.pc \notin Resizes /\ ~Token(s) /\ r.pc \notin Copies /\ V[ht].lock[b] # "resize"
      BY <1>2, <2>5, <2>8 DEF Resizes, Token, Copies
    <3>2. \A q \in Threads : th'[q].pc \in Resizes => resizing'
      BY <1>2, <2>10, <3>1 DEF Inv, TokenInv
    <3> QED
      BY <1>1, <2>3, <2>4, <2>6, <2>8, <2>10, <3>1, <3>2 DEF Moves
  <2>13. ThreadOK(s, V, ht)
    <3>1. CallOK(s, ht)
      BY <1>4, <2>2, <2>8 DEF CallOK
    <3>2. LockOK(s, V)
      <4>1. V[ht].n = tables[ht].n
        BY <2>5, TypeFacts DEF Alike
      <4> QED
        BY <2>3, <2>5, <2>8, <4>1 DEF LockOK
    <3>3. s.pc \in InCall \ (Gets \cup {"got"}) /\ s.pc \notin Copies
      BY <2>8 DEF InCall, Gets, Copies
    <3>4. PutOK(s, V) /\ CopyOK(s, V, ht) /\ StatusOK(s, ht)
      BY <2>8, <3>3 DEF PutOK, CopyOK, StatusOK
    <3> QED
      BY <3>1, <3>2, <3>3, <3>4, NotReading DEF ThreadOK
  <2> QED
    BY <2>4, <2>10, <2>11, <2>12, <2>13, QuietCombine
<1> QED
  BY <1>2, <1>5, <1>6

\* The lock is released; the put that reached the threshold goes on to the status.
LEMMA LockRlsKeeps ==
  ASSUME Inv, NEW p \in Threads, LockRls(p)
  PROVE  Inv'
<1>1. PICK r \in Locals : r = th[p]
  BY TypeFacts
<1>2. /\ r.pc = "unlock" /\ r.pc \in Holds /\ r.pc \in InCall /\ UNCHANGED <<ht, resizing, given, ops>>
      /\ tables' = SetLock(p, "free")
  BY <1>1 DEF LockRls, Holds, InCall
<1>3. r.t = ht /\ tables[ht].lock[r.key % tables[ht].n] = "update" /\ r.key \in Keys
  BY <1>1, <1>2, HolderCurrent, CallFacts
<1>4. PICK b \in 0..(tables[ht].n - 1) : b = r.key % tables[ht].n
  BY <1>3, TypeFacts, HashFact
<1>5. PICK V : V = tables' /\ Relocked(V, b, "free")
  BY <1>1, <1>2, <1>3, <1>4 DEF SetLock, clht_hash, Relocked
<1>6. /\ Alike(tables, V) /\ V[ht].lock[b] = "free"
      /\ \A u \in 1..Len(tables) : \A c \in 0..(tables[u].n - 1) :
           ~(u = ht /\ c = b) => V[u].lock[c] = tables[u].lock[c]
  BY <1>5, Relock
<1>7. Alone(p, b) /\ tables[ht].lock[b] # "resize"
  <2> SUFFICES ASSUME NEW q \in Threads, q # p, th[q].pc \in Holds, th[q].key % tables[ht].n = b
               PROVE  FALSE
    BY <1>3, <1>4 DEF Alone
  <2>1. th[q].t = ht
    BY HolderCurrent
  <2> QED
    BY <1>1, <1>2, <1>3, <1>4, <2>1 DEF Inv, ApartInv, Apart
<1>8. PICK s : s = IF r.resize THEN [Idle EXCEPT !.pc = "status"] ELSE Idle
  OBVIOUS
<1>9. s \in Locals /\ s.pc \in {"idle", "status"} /\ (s.pc = "status" => r.resize)
  BY <1>8, OutsideFact
<1>10. th' \in [Threads -> Locals] /\ th'[p] = s /\ \A q \in Threads : q # p => th'[q] = th[q]
  <2>1. th' = [th EXCEPT ![p] = s]
    BY <1>1, <1>8 DEF LockRls
  <2> QED
    BY <1>9, <2>1 DEF Inv, TypeInv
<1>11. Quiet(p, b)
  BY <1>2, <1>5, <1>6, <1>7, <1>10 DEF Quiet, Inv, TypeInv
<1>12. Moves(p, b)
  <2>1. /\ s.pc \notin Resizes /\ (Token(s) => Token(r)) /\ r.pc \notin Copies /\ s.pc \notin Holds
        /\ V[ht].lock[b] # "resize"
    BY <1>2, <1>6, <1>9 DEF Resizes, Token, Copies, Holds
  <2>2. \A q \in Threads : th'[q].pc \in Resizes => resizing'
    BY <1>2, <1>10, <2>1 DEF Inv, TokenInv
  <2> QED
    BY <1>1, <1>5, <1>10, <2>1, <2>2 DEF Moves
<1>13. ThreadOK(s, V, ht)
  BY <1>9, OutsideFact
<1> QED
  BY <1>5, <1>10, <1>11, <1>12, <1>13, QuietCombine

-----------------------------------------------------------------------------
\* The resize.

\* table_new is set in the old table, and the resize lock released.
LEMMA PublishKeeps ==
  ASSUME Inv, NEW p \in Threads, ResizePublish(p) \/ ResizeRelease(p)
  PROVE  Inv'
<1>1. PICK r \in Locals : r = th[p]
  BY TypeFacts
<1>2. r.pc \in {"publish", "release"} /\ UNCHANGED <<ht, given, ops>>
  BY <1>1 DEF ResizePublish, ResizeRelease
<1>3. r.pc \in Resizes /\ r.pc \notin Copies /\ resizing
  BY <1>1, <1>2 DEF Resizes, Copies, Inv, TokenInv
<1>4. ASSUME NEW q \in Threads, q # p
      PROVE  th[q].pc \notin Resizes
  BY <1>1, <1>3, <1>4 DEF Inv, ApartInv, Apart
<1>5. CASE ResizePublish(p)
  <2>1. r.pc = "publish" /\ resizing' = resizing /\ r.old \in 1..ht /\ r.new \in Nat
    BY <1>1, <1>5, TypeFacts DEF ResizePublish, ThreadOK, StatusOK, Locals
  <2>2. r.old \in 1..Len(tables) /\ ht \in 1..Len(tables) /\ tables \in Seq(Tables)
    BY <2>1, TypeFacts
  <2>3. PICK T \in Tables : T = tables[r.old]
    BY <2>2
  <2>4. PICK U : U = [T EXCEPT !.new = r.new]
    OBVIOUS
  <2>5. U \in Tables /\ U.n = T.n /\ U.bins = T.bins /\ U.expands = T.expands /\ U.lock = T.lock
    <3>1. T \in TablesOf(T.n) /\ T.n \in Nat \ {0}
      BY TableFacts
    <3>2. U \in TablesOf(T.n) /\ U.n = T.n /\ U.bins = T.bins /\ U.expands = T.expands /\ U.lock = T.lock
      BY <2>1, <2>4, <3>1 DEF TablesOf
    <3> QED
      BY <3>1, <3>2 DEF Tables
  <2>6. PICK V : V = tables' /\ V = [tables EXCEPT ![r.old] = U]
    BY <1>1, <1>5, <2>3, <2>4 DEF ResizePublish
  <2>7. /\ V \in Seq(Tables) /\ Len(V) = Len(tables) /\ V[r.old] = U
        /\ \A u \in 1..Len(tables) : u # r.old => V[u] = tables[u]
    BY <2>2, <2>5, <2>6, SeqUpdate
  <2>8. Alike(tables, V) /\ \A u \in 1..Len(tables) : V[u].lock = tables[u].lock
    BY <2>3, <2>5, <2>7 DEF Alike
  <2>9. PICK s : s = [r EXCEPT !.pc = "release"]
    OBVIOUS
  <2>10. s \in Locals /\ s.pc = "release" /\ s.resize = r.resize
    BY <2>9 DEF Locals, PCs
  <2>11. th' \in [Threads -> Locals] /\ th'[p] = s /\ \A q \in Threads : q # p => th'[q] = th[q]
    <3>1. th' = [th EXCEPT ![p] = s]
      BY <1>1, <1>5, <2>9 DEF ResizePublish, Go
    <3> QED
      BY <2>10, <3>1 DEF Inv, TypeInv
  <2>12. Quiet(p, 0)
    <3>1. V[ht].lock[0] = tables[ht].lock[0]
      BY <2>2, <2>8
    <3> QED
      BY <1>2, <2>1, <2>6, <2>8, <2>11, <3>1 DEF Quiet, Inv, TypeInv
  <2>13. Moves(p, 0)
    <3>1. s.pc \notin Holds /\ (Token(s) => Token(r)) /\ V[ht].lock = tables[ht].lock
      BY <2>1, <2>2, <2>8, <2>10 DEF Holds, Token
    <3> QED
      BY <1>1, <1>3, <2>1, <2>6, <2>11, <3>1 DEF Moves
  <2>14. ThreadOK(s, V, ht)
    <3>1. /\ s.pc \notin InCall /\ s.pc \notin Holds /\ s.pc \notin Gets /\ s.pc \notin Copies
          /\ s.pc \notin {"putkey", "got", "getkey", "getcheck", "get", "resize", "trylock", "publish"}
      BY <2>10 DEF InCall, Holds, Gets, Copies
    <3>2. CallOK(s, ht) /\ LockOK(s, V) /\ PutOK(s, V) /\ CopyOK(s, V, ht) /\ StatusOK(s, ht)
      BY <3>1, Zenon DEF CallOK, LockOK, PutOK, CopyOK, StatusOK
    <3>3. \A bin : ReadOK(s, bin) /\ FindOK(s, bin)
      BY <3>1 DEF ReadOK, FindOK
    <3> QED
      BY <3>2, <3>3 DEF ThreadOK
  <2> QED
    BY <2>6, <2>11, <2>12, <2>13, <2>14, QuietCombine
<1>6. CASE ResizeRelease(p)
  <2>1. r.pc = "release" /\ resizing' = FALSE /\ tables' = tables
    BY <1>1, <1>6 DEF ResizeRelease
  <2>2. PICK s : s = IF r.resize THEN [Idle EXCEPT !.pc = "status"] ELSE Idle
    OBVIOUS
  <2>3. s \in Locals /\ s.pc \in {"idle", "status"} /\ (s.pc = "status" => r.resize)
    BY <2>2, OutsideFact
  <2>4. th' \in [Threads -> Locals] /\ th'[p] = s /\ \A q \in Threads : q # p => th'[q] = th[q]
    <3>1. th' = [th EXCEPT ![p] = s]
      BY <1>1, <1>6, <2>2 DEF ResizeRelease
    <3> QED
      BY <2>3, <3>1 DEF Inv, TypeInv
  <2>5. Alike(tables, tables')
    BY <2>1, TypeFacts DEF Alike
  <2>6. Quiet(p, 0)
    BY <1>2, <2>1, <2>4, <2>5 DEF Quiet, Inv, TypeInv
  <2>7. Moves(p, 0)
    <3>1. s.pc \notin Holds /\ s.pc \notin Resizes /\ (Token(s) => Token(r))
      BY <2>1, <2>3 DEF Holds, Resizes, Token
    <3>2. \A q \in Threads : th'[q].pc \notin Resizes
      BY <1>4, <2>4, <3>1
    <3> QED
      BY <1>1, <1>3, <2>1, <2>4, <3>1, <3>2 DEF Moves
  <2>8. ThreadOK(s, tables', ht)
    BY <2>1, <2>3, OutsideFact
  <2> QED
    BY <2>4, <2>6, <2>7, <2>8, QuietCombine
<1> QED
  BY <1>5, <1>6

\* What a thread knows that copies.
LEMMA CopyFacts ==
  ASSUME Inv, NEW p \in Threads, th[p].pc \in Copies
  PROVE  /\ th[p].old = ht /\ th[p].new = ht + 1 /\ Len(tables) = ht + 1 /\ th[p].pos \in 0..tables[ht].n
         /\ th[p].pc = "copyslot" => th[p].pos < tables[ht].n /\ th[p].i \in 1..Len(tables[ht].bins[th[p].pos])
         /\ \A b \in 0..(tables[ht].n - 1) : Passed(th[p], b) => tables[ht].lock[b] = "resize"
         /\ \A k \in Keys : HasKey(BinOf(tables, ht + 1, k), k) <=> WasCopied(th[p], tables, k)
         /\ ht \in 1..Len(tables) /\ ht + 1 \in 1..Len(tables) /\ tables[ht].n \in Nat /\ resizing
         /\ th[p].pc \in Resizes /\ Token(th[p])
         /\ \A q \in Threads : q # p => th[q].pc \notin Resizes /\ ~Token(th[q])
<1>1. CopyOK(th[p], tables, ht)
  BY TypeFacts DEF ThreadOK
<1>2. th[p].pc \in Resizes /\ Token(th[p])
  BY DEF Copies, Resizes, Token
<1>3. ASSUME NEW q \in Threads, q # p
      PROVE  th[q].pc \notin Resizes /\ ~Token(th[q])
  BY <1>2, <1>3 DEF Inv, ApartInv, Apart
<1>4. resizing
  BY <1>2 DEF Inv, TokenInv
<1>5. Len(tables) = ht + 1 /\ ht \in 1..Len(tables) /\ ht + 1 \in 1..Len(tables) /\ tables[ht].n \in Nat
  BY <1>1, TypeFacts DEF CopyOK
<1> QED
  BY <1>1, <1>2, <1>3, <1>4, <1>5 DEF CopyOK, HasKey

\* The next bucket of the old table is locked for good.
LEMMA BucketLockKeeps ==
  ASSUME Inv, NEW p \in Threads, BucketLock(p)
  PROVE  Inv'
<1>1. PICK r \in Locals : r = th[p]
  BY TypeFacts
<1>2. r.pc = "copy" /\ r.pc \in Copies
  BY <1>1 DEF BucketLock, Copies
<1>3. /\ r.old = ht /\ r.new = ht + 1 /\ Len(tables) = ht + 1 /\ r.pos \in 0..tables[ht].n
      /\ \A c \in 0..(tables[ht].n - 1) : Passed(r, c) => tables[ht].lock[c] = "resize"
      /\ \A k \in Keys : HasKey(BinOf(tables, ht + 1, k), k) <=> WasCopied(r, tables, k)
      /\ ht \in 1..Len(tables) /\ ht + 1 \in 1..Len(tables) /\ tables[ht].n \in Nat /\ resizing
      /\ r.pc \in Resizes /\ Token(r)
      /\ \A q \in Threads : q # p => th[q].pc \notin Resizes /\ ~Token(th[q])
  BY <1>1, <1>2, CopyFacts
<1>4. PICK b \in 0..(tables[ht].n - 1) : b = r.pos
  BY <1>1, <1>3 DEF BucketLock
<1>5. tables[ht].lock[b] # "update" /\ UNCHANGED <<ht, resizing, given, ops>>
  BY <1>1, <1>3, <1>4 DEF BucketLock
<1>6. tables[ht].lock[b] # "resize"
  <2> SUFFICES ASSUME tables[ht].lock[b] = "resize"
               PROVE  FALSE
    OBVIOUS
  <2>1. PICK q \in Threads : th[q].pc \in Copies /\ Passed(th[q], b)
    BY DEF Inv, LocksInv
  <2>2. q = p
    BY <1>3, <2>1 DEF Copies, Resizes
  <2> QED
    BY <1>1, <1>2, <1>4, <2>1, <2>2 DEF Passed
<1>7. tables[ht].lock[b] = "free"
  <2>1. tables[ht].lock \in [0..(tables[ht].n - 1) -> {"free", "update", "resize"}]
    BY <1>3, TypeFacts, TableFacts
  <2> QED
    BY <1>5, <1>6, <2>1
<1>8. PICK V : V = tables' /\ Relocked(V, b, "resize")
  BY <1>1, <1>3, <1>4 DEF BucketLock, Relocked
<1>9. /\ Alike(tables, V) /\ V[ht].lock[b] = "resize"
      /\ \A u \in 1..Len(tables) : \A c \in 0..(tables[u].n - 1) :
           ~(u = ht /\ c = b) => V[u].lock[c] = tables[u].lock[c]
  BY <1>8, Relock
<1>10. PICK s : s = [r EXCEPT !.i = 1, !.pc = "copyslot"]
  OBVIOUS
<1>11. /\ s \in Locals /\ s.pc = "copyslot" /\ s.i = 1 /\ s.old = r.old /\ s.new = r.new /\ s.pos = r.pos
       /\ s.resize = r.resize
  BY <1>10 DEF Locals, PCs
<1>12. th' \in [Threads -> Locals] /\ th'[p] = s /\ \A q \in Threads : q # p => th'[q] = th[q]
  <2>1. th' = [th EXCEPT ![p] = s]
    BY <1>1, <1>3, <1>4, <1>7, <1>10 DEF BucketLock
  <2> QED
    BY <1>11, <2>1 DEF Inv, TypeInv
<1>13. Quiet(p, b)
  <2>1. Alone(p, b)
    BY <1>7, FreeAlone
  <2> QED
    BY <1>5, <1>6, <1>8, <1>9, <1>12, <2>1 DEF Quiet, Inv, TypeInv
<1>14. Moves(p, b)
  <2>1. s.pc \in Copies /\ s.pc \in Resizes /\ s.pc \notin Holds
    BY <1>11 DEF Copies, Resizes, Holds
  <2>2. \A c : Passed(r, c) => Passed(s, c)
    BY <1>2, <1>11 DEF Passed
  <2>3. Passed(s, b)
    BY <1>4, <1>11 DEF Passed
  <2> QED
    BY <1>1, <1>3, <1>5, <1>8, <1>12, <2>1, <2>2, <2>3 DEF Moves
<1>15. ThreadOK(s, V, ht)
  <2>1. /\ s.pc \notin InCall /\ s.pc \notin Holds /\ s.pc \notin Gets
        /\ s.pc \notin {"putkey", "got", "getkey", "getcheck", "get", "resize", "trylock", "publish"}
    BY <1>11 DEF InCall, Holds, Gets
  <2>2. CallOK(s, ht) /\ LockOK(s, V) /\ PutOK(s, V) /\ StatusOK(s, ht)
    BY <2>1, Zenon DEF CallOK, LockOK, PutOK, StatusOK
  <2>3. \A bin : ReadOK(s, bin) /\ FindOK(s, bin)
    BY <2>1 DEF ReadOK, FindOK
  <2>4. /\ Len(V) = Len(tables) /\ V[ht].n = tables[ht].n /\ V[ht].bins = tables[ht].bins
        /\ V[ht + 1].n = tables[ht + 1].n /\ V[ht + 1].bins = tables[ht + 1].bins
    BY <1>3, <1>9 DEF Alike
  <2>5. \A k : BinOf(V, ht, k) = BinOf(tables, ht, k) /\ BinOf(V, ht + 1, k) = BinOf(tables, ht + 1, k)
    BY <2>4 DEF BinOf
  <2>6. s.pos < tables[ht].n /\ 1 \in 1..Len(tables[ht].bins[s.pos])
    <3>1. GoodBin(tables[ht], b)
      BY <1>3, TypeFacts DEF GoodTable
    <3>2. tables[ht].bins[b] \in Seq(Entries)
      BY <1>3, TypeFacts
    <3>3. Len(tables[ht].bins[b]) \in Nat /\ Len(tables[ht].bins[b]) >= 1
      BY <3>1, <3>2 DEF GoodBin
    <3> QED
      BY <1>3, <1>4, <1>11, <3>3
  <2>7. \A c \in 0..(V[ht].n - 1) : Passed(s, c) => V[ht].lock[c] = "resize"
    BY <1>2, <1>3, <1>4, <1>9, <1>11, <2>4 DEF Passed
  <2>8. ASSUME NEW k \in Keys
        PROVE  WasCopied(s, V, k) <=> WasCopied(r, tables, k)
    BY <1>2, <1>3, <1>11, <2>4, <2>5 DEF WasCopied
  <2>9. \A k \in Keys : HasKey(BinOf(V, ht + 1, k), k) <=> WasCopied(s, V, k)
    BY <1>3, <2>5, <2>8
  <2>10. CopyOK(s, V, ht)
    BY <1>3, <1>11, <2>4, <2>6, <2>7, <2>9 DEF CopyOK, HasKey
  <2> QED
    BY <2>2, <2>3, <2>10 DEF ThreadOK
<1> QED
  BY <1>8, <1>12, <1>13, <1>14, <1>15, QuietCombine

\* A step of thread p, the only one at a resize, that changes the new table only.
Fills(p) ==
  /\ UNCHANGED <<ht, given>> /\ ops' \in Nat /\ resizing' = TRUE
  /\ th' \in [Threads -> Locals] /\ \A q \in Threads : q # p => th'[q] = th[q]
  /\ tables' \in Seq(Tables) /\ Len(tables') = ht + 1 /\ \A u \in 1..ht : tables'[u] = tables[u]
  /\ GoodTable(tables'[ht + 1]) /\ \A c \in 0..(tables'[ht + 1].n - 1) : tables'[ht + 1].lock[c] = "free"
  /\ Token(th[p]) /\ th'[p].pc \in Copies
  /\ \A q \in Threads : q # p => th[q].pc \notin Resizes /\ ~Token(th[q])
  /\ th[p].pc \in Copies => \A c \in Nat : Passed(th[p], c) => Passed(th'[p], c)

\* What there is to show for such a step.
LEMMA FillCombine ==
  ASSUME Inv, NEW p \in Threads, Fills(p), ThreadOK(th'[p], tables', ht)
  PROVE  Inv'
<1>1. /\ ht' = ht /\ given' = given /\ ops' \in Nat /\ resizing' = TRUE
      /\ th' \in [Threads -> Locals] /\ \A q \in Threads : q # p => th'[q] = th[q]
      /\ tables' \in Seq(Tables) /\ Len(tables') = ht + 1 /\ \A u \in 1..ht : tables'[u] = tables[u]
      /\ GoodTable(tables'[ht + 1]) /\ \A c \in 0..(tables'[ht + 1].n - 1) : tables'[ht + 1].lock[c] = "free"
      /\ Token(th[p]) /\ th'[p].pc \in Copies
      /\ \A q \in Threads : q # p => th[q].pc \notin Resizes /\ ~Token(th[q])
      /\ th[p].pc \in Copies => \A c \in Nat : Passed(th[p], c) => Passed(th'[p], c)
  BY DEF Fills
<1>2. ht \in Nat /\ ht \in 1..ht /\ ht \in 1..Len(tables) /\ tables'[ht] = tables[ht] /\ tables[ht].n \in Nat
  BY <1>1, TypeFacts
<1>3. TypeInv'
  BY <1>1, <1>2 DEF Inv, TypeInv
<1>4. TablesInv'
  <2> SUFFICES ASSUME NEW u \in 1..(ht + 1)
               PROVE  GoodTable(tables'[u])
    BY <1>1 DEF TablesInv
  <2>1. CASE u = ht + 1
    BY <1>1, <2>1
  <2>2. CASE u \in 1..ht
    <3>1. u \in 1..Len(tables)
      BY <1>2, <2>2, TypeFacts
    <3> QED
      BY <1>1, <2>2, <3>1, TypeFacts
  <2> QED
    BY <1>2, <2>1, <2>2
<1>5. ThreadsInv'
  <2>1. ASSUME NEW q \in Threads, q # p
        PROVE  ThreadOK(th[q], tables', ht)
    <3>1. PICK V, r : V = tables' /\ r = th[q]
      OBVIOUS
    <3>2. ThreadOK(r, tables, ht)
      BY <3>1, TypeFacts
    <3>3. r.pc \notin Resizes /\ r.pc \notin Copies
      BY <1>1, <2>1, <3>1 DEF Resizes, Copies
    <3>4. \A u \in 1..ht : V[u] = tables[u]
      BY <1>1, <3>1
    <3>5. ASSUME r.pc \in InCall
          PROVE  ThreadOK(r, V, ht)
      <4>1. r.t \in 1..ht
        BY <3>2, <3>5 DEF ThreadOK, CallOK
      <4>2. V[r.t] = tables[r.t] /\ BinOf(V, r.t, r.key) = BinOf(tables, r.t, r.key)
        BY <3>4, <4>1 DEF BinOf
      <4>3. CallOK(r, ht) /\ LockOK(r, V) /\ PutOK(r, V) /\ CopyOK(r, V, ht) /\ StatusOK(r, ht)
        BY <3>2, <3>3, <4>2 DEF ThreadOK, LockOK, PutOK, CopyOK
      <4> QED
        BY <3>2, <4>2, <4>3 DEF ThreadOK
    <3>6. ASSUME r.pc \notin InCall
          PROVE  ThreadOK(r, V, ht)
      <4>1. r.pc \notin Holds /\ r.pc \notin Gets /\ r.pc \notin {"putkey", "got", "getkey", "getcheck", "get"}
        BY <3>6 DEF InCall, Holds, Gets
      <4>2. CallOK(r, ht) /\ LockOK(r, V) /\ PutOK(r, V) /\ CopyOK(r, V, ht) /\ StatusOK(r, ht)
        BY <3>2, <3>3, <4>1 DEF ThreadOK, LockOK, PutOK, CopyOK
      <4>3. \A bin : ReadOK(r, bin) /\ FindOK(r, bin)
        BY <4>1 DEF ReadOK, FindOK
      <4> QED
        BY <4>2, <4>3 DEF ThreadOK
    <3> QED
      BY <3>1, <3>5, <3>6
  <2> QED
    BY <1>1, <2>1 DEF ThreadsInv
<1>6. th'[p].pc \in Resizes /\ Token(th'[p]) /\ th'[p].pc \notin Holds
  BY <1>1 DEF Copies, Resizes, Token, Holds
<1>7. ApartInv'
  <2>1. ASSUME NEW q \in Threads, q # p
        PROVE  Apart(th'[p], th[q], tables') /\ Apart(th[q], th'[p], tables')
    BY <1>1, <1>6, <2>1 DEF Apart
  <2>2. ASSUME NEW q \in Threads, NEW v \in Threads, q # p, v # p, q # v
        PROVE  Apart(th[q], th[v], tables')
    <3>1. Apart(th[q], th[v], tables)
      BY <2>2 DEF Inv, ApartInv
    <3>2. th[q].pc \in Holds => tables'[th[q].t] = tables[th[q].t]
      BY <1>1, CallFacts DEF Holds, InCall
    <3>3. th[v].pc \in Holds => tables'[th[v].t] = tables[th[v].t]
      BY <1>1, CallFacts DEF Holds, InCall
    <3> QED
      BY <3>1, <3>2, <3>3 DEF Apart
  <2> QED
    BY <1>1, <2>1, <2>2 DEF ApartInv
<1>8. LocksInv'
  <2>1. /\ \A t \in 1..(ht - 1) : \A c \in 0..(tables[t].n - 1) : tables[t].lock[c] = "resize"
        /\ \A c \in 0..(tables[ht].n - 1) : tables[ht].lock[c] = "resize" =>
             \E q \in Threads : th[q].pc \in Copies /\ Passed(th[q], c)
    BY DEF Inv, LocksInv
  <2>2. \A u \in 1..(ht - 1) : \A c \in 0..(tables'[u].n - 1) : tables'[u].lock[c] = "resize"
    BY <1>1, <1>2, <2>1
  <2>3. \A u \in (ht + 1)..Len(tables') : \A c \in 0..(tables'[u].n - 1) : tables'[u].lock[c] = "free"
    BY <1>1, <1>2
  <2>4. ASSUME NEW c \in 0..(tables'[ht].n - 1), tables'[ht].lock[c] = "resize"
        PROVE  \E q \in Threads : th'[q].pc \in Copies /\ Passed(th'[q], c)
    <3>1. c \in 0..(tables[ht].n - 1) /\ c \in Nat
      BY <1>2
    <3>2. PICK q \in Threads : th[q].pc \in Copies /\ Passed(th[q], c)
      BY <1>2, <2>1, <2>4, <3>1
    <3>3. q = p
      BY <1>1, <3>2 DEF Copies, Resizes
    <3> QED
      BY <1>1, <3>1, <3>2, <3>3
  <2> QED
    BY <1>1, <2>2, <2>3, <2>4 DEF LocksInv
<1>9. TokenInv'
  <2>1. tables[ht].expands >= tables[ht].n
    BY <1>1 DEF Inv, TokenInv
  <2> QED
    BY <1>1, <1>2, <2>1 DEF TokenInv
<1>10. KeptInv'
  <2>1. \A j : BinOf(tables', ht, j) = BinOf(tables, ht, j)
    BY <1>2 DEF BinOf
  <2> QED
    BY <1>1, <2>1 DEF Inv, KeptInv
<1> QED
  BY <1>3, <1>4, <1>5, <1>7, <1>8, <1>9, <1>10 DEF Inv

\* A thread that copies relies on its tables only.
LEMMA CopierFact ==
  ASSUME NEW s, NEW T, NEW h, s.pc \in Copies, CopyOK(s, T, h)
  PROVE  ThreadOK(s, T, h)
<1>1. /\ s.pc \notin InCall /\ s.pc \notin Holds /\ s.pc \notin Gets
      /\ s.pc \notin {"putkey", "got", "getkey", "getcheck", "get", "resize", "trylock", "publish"}
  BY DEF InCall, Holds, Gets, Copies
<1>2. CallOK(s, h) /\ LockOK(s, T) /\ PutOK(s, T) /\ StatusOK(s, h)
  BY <1>1, Zenon DEF CallOK, LockOK, PutOK, StatusOK
<1>3. \A bin : ReadOK(s, bin) /\ FindOK(s, bin)
  BY <1>1 DEF ReadOK, FindOK
<1> QED
  BY <1>2, <1>3 DEF ThreadOK

\* The resize lock is had by one thread only, which reads the current table before it.
LEMMA ResizeLockKeeps ==
  ASSUME Inv, NEW p \in Threads, ResizeLock(p)
  PROVE  Inv'
<1>1. PICK r \in Locals : r = th[p]
  BY TypeFacts
<1>2. /\ r.pc = "trylock" /\ UNCHANGED <<ht, given, ops>> /\ r.pc \notin Copies /\ Token(r) /\ r.old = ht
      /\ r.pc \notin Resizes
  BY <1>1, TypeFacts DEF ResizeLock, Copies, Resizes, Token, ThreadOK, StatusOK
<1>3. CASE th' = [th EXCEPT ![p] = Idle] /\ UNCHANGED <<resizing, tables>>
  BY <1>1, <1>2, <1>3, Leaves
<1>4. CASE /\ ~resizing /\ r.size > 0 /\ resizing' = TRUE /\ tables' = Append(tables, NewTable(r.size))
           /\ th' = [th EXCEPT ![p].new = Len(tables) + 1, ![p].pos = 0, ![p].pc = "copy"]
  <2>1. \A q \in Threads : th[q].pc \notin Resizes
    BY <1>4 DEF Inv, TokenInv
  <2>2. Len(tables) = ht /\ ht \in Nat /\ ht \in 1..Len(tables) /\ tables \in Seq(Tables) /\ tables[ht].n \in Nat
    <3>1. ~(Len(tables) > ht)
      BY <2>1 DEF Inv, LocksInv, Copies, Resizes
    <3> QED
      BY <3>1, TypeFacts
  <2>3. PICK n \in Nat \ {0} : n = r.size
    BY <1>4 DEF Locals
  <2>4. PICK N : N = NewTable(n)
    OBVIOUS
  <2>5. /\ N \in Tables /\ N.n = n /\ GoodTable(N)
        /\ \A b \in 0..(n - 1) : /\ N.lock[b] = "free"
                                 /\ \A i \in 1..Len(N.bins[b]) : N.bins[b][i].key = 0
    BY <2>4, NewTableFact
  <2>6. PICK V : V = tables' /\ V = Append(tables, N)
    BY <1>4, <2>3, <2>4
  <2>7. V \in Seq(Tables) /\ Len(V) = ht + 1 /\ V[ht + 1] = N /\ \A u \in 1..ht : V[u] = tables[u]
    BY <2>2, <2>5, <2>6
  <2>8. PICK s : s = [r EXCEPT !.new = ht + 1, !.pos = 0, !.pc = "copy"]
    OBVIOUS
  <2>9. s \in Locals /\ s.pc = "copy" /\ s.new = ht + 1 /\ s.pos = 0 /\ s.old = ht
    <3>1. ht + 1 \in Nat
      BY <2>2
    <3> QED
      BY <1>2, <2>8, <3>1 DEF Locals, PCs
  <2>10. th' \in [Threads -> Locals] /\ th'[p] = s /\ \A q \in Threads : q # p => th'[q] = th[q]
    <3>1. th' = [th EXCEPT ![p] = s]
      BY <1>1, <1>4, <2>2, <2>8
    <3> QED
      BY <2>9, <3>1 DEF Inv, TypeInv
  <2>11. \A q \in Threads : q # p => ~Token(th[q])
    BY <1>1, <1>2 DEF Inv, ApartInv, Apart
  <2>12. Fills(p)
    <3>1. s.pc \in Copies
      BY <2>9 DEF Copies
    <3>2. ops' \in Nat
      BY <1>2 DEF Inv, TypeInv
    <3>3. /\ tables' \in Seq(Tables) /\ Len(tables') = ht + 1 /\ \A u \in 1..ht : tables'[u] = tables[u]
          /\ tables'[ht + 1] = N
      BY <2>6, <2>7
    <3>4. GoodTable(tables'[ht + 1]) /\ \A c \in 0..(tables'[ht + 1].n - 1) : tables'[ht + 1].lock[c] = "free"
      BY <2>5, <3>3
    <3> QED
      BY <1>1, <1>2, <1>4, <2>1, <2>10, <2>11, <3>1, <3>2, <3>3, <3>4 DEF Fills
  <2>13. CopyOK(s, V, ht)
    <3>1. V[ht] = tables[ht]
      BY <2>2, <2>7
    <3>2. \A c \in 0..(V[ht].n - 1) : ~Passed(s, c)
      BY <2>2, <2>9, <3>1 DEF Passed
    <3>3. ASSUME NEW k \in Keys
          PROVE  ~WasCopied(s, V, k) /\ \A j \in 1..Len(BinOf(V, ht + 1, k)) : BinOf(V, ht + 1, k)[j].key # k
      <4>1. k % V[ht].n \in 0..(V[ht].n - 1) /\ k # 0
        BY <2>2, <3>1, TypeFacts, HashFact, ConstantFacts
      <4>2. ~WasCopied(s, V, k)
        BY <2>9, <4>1 DEF WasCopied
      <4>3. k % n \in 0..(n - 1)
        BY HashFact
      <4> QED
        BY <2>5, <2>7, <4>1, <4>2, <4>3 DEF BinOf
    <3> QED
      BY <2>2, <2>7, <2>9, <3>1, <3>2, <3>3 DEF CopyOK
  <2>14. ThreadOK(s, V, ht)
    BY <2>9, <2>13, CopierFact DEF Copies
  <2> QED
    BY <2>6, <2>10, <2>12, <2>14, FillCombine
<1> QED
  BY <1>1, <1>3, <1>4 DEF ResizeLock

\* The new table N becomes M: key k is added to it, or nothing (k is 0).
Gains(N, M, k) ==
  /\ M \in Tables /\ M.n = N.n /\ M.lock = N.lock /\ GoodTable(M)
  /\ \A j \in Keys : HasKey(M.bins[j % M.n], j) <=> HasKey(N.bins[j % N.n], j) \/ j = k

\* clht_put_seq adds a key that is not there.
LEMMA PutSeqGains ==
  ASSUME NEW N \in Tables, NEW k \in Keys, GoodTable(N), ~HasKey(N.bins[k % N.n], k)
  PROVE  Gains(N, PutSeq(N, k, ValueOf(k)), k)
<1>1. PICK b : b = k % N.n
  OBVIOUS
<1>2. PICK M : M = PutSeq(N, k, ValueOf(k))
  OBVIOUS
<1>3. PICK g \in Nat : PutDone(N, M, b, g, k)
  BY <1>1, <1>2, PutSeqFact
<1>4. /\ M \in Tables /\ M.n = N.n /\ M.lock = N.lock
      /\ \A c \in 0..(N.n - 1) : c # b => M.bins[c] = N.bins[c]
      /\ Added(N.bins[b], M.bins[b], g, k)
  BY <1>3 DEF PutDone
<1>5. N.n \in Nat \ {0} /\ b \in 0..(N.n - 1) /\ GoodBin(N, b)
  BY <1>1, TableFacts, HashFact DEF GoodTable
<1>6. /\ GoodBin(M, b) /\ HasKey(M.bins[b], k)
      /\ \A j \in Keys \ {k} : HasKey(M.bins[b], j) <=> HasKey(N.bins[b], j)
  <2>1. Wants(N, b, k)
    BY <1>1, <1>5 DEF Wants
  <2> QED
    BY <1>3, <2>1, AddedFact
<1>7. GoodTable(M)
  <2> SUFFICES ASSUME NEW c \in 0..(N.n - 1), c # b
               PROVE  GoodBin(M, c)
    BY <1>4, <1>6 DEF GoodTable
  <2>1. GoodBin(N, c) /\ M.bins[c] = N.bins[c] /\ M.n = N.n
    BY <1>4 DEF GoodTable
  <2> QED
    BY <2>1, Zenon DEF GoodBin
<1>8. ASSUME NEW j \in Keys
      PROVE  HasKey(M.bins[j % M.n], j) <=> HasKey(N.bins[j % N.n], j) \/ j = k
  <2>1. j % N.n \in 0..(N.n - 1)
    BY <1>5, HashFact
  <2>2. CASE j % N.n # b
    BY <1>1, <1>4, <2>1, <2>2
  <2>3. CASE j % N.n = b
    BY <1>4, <1>6, <2>3
  <2> QED
    BY <2>2, <2>3
<1> QED
  BY <1>2, <1>4, <1>7, <1>8 DEF Gains

\* The next slot of the bucket is copied.
LEMMA BucketCpyKeeps ==
  ASSUME Inv, NEW p \in Threads, BucketCpy(p)
  PROVE  Inv'
<1>1. PICK r \in Locals : r = th[p]
  BY TypeFacts
<1>2. r.pc = "copyslot" /\ r.pc \in Copies /\ UNCHANGED <<ht, resizing, given, ops>>
  BY <1>1 DEF BucketCpy, Copies
<1>3. /\ r.old = ht /\ r.new = ht + 1 /\ Len(tables) = ht + 1 /\ r.pos \in 0..tables[ht].n
      /\ r.pos < tables[ht].n /\ r.i \in 1..Len(tables[ht].bins[r.pos])
      /\ \A c \in 0..(tables[ht].n - 1) : Passed(r, c) => tables[ht].lock[c] = "resize"
      /\ \A k \in Keys : HasKey(BinOf(tables, ht + 1, k), k) <=> WasCopied(r, tables, k)
      /\ ht \in 1..Len(tables) /\ ht + 1 \in 1..Len(tables) /\ tables[ht].n \in Nat /\ resizing
      /\ r.pc \in Resizes /\ Token(r)
      /\ \A q \in Threads : q # p => th[q].pc \notin Resizes /\ ~Token(th[q])
  BY <1>1, <1>2, CopyFacts
<1>4. PICK T, N \in Tables : T = tables[ht] /\ N = tables[ht + 1] /\ T \in Tables
  BY <1>3, TypeFacts
<1>5. PICK b \in 0..(T.n - 1) : b = r.pos
  BY <1>3, <1>4
<1>6. PICK bin \in Seq(Entries) : bin = T.bins[b]
  BY <1>4, TableFacts
<1>7. /\ Len(bin) \in Nat /\ r.i \in 1..Len(bin) /\ r.i \in Nat /\ T.n \in Nat /\ GoodTable(N) /\ GoodTable(T)
      /\ \A k \in Keys : k % T.n \in 0..(T.n - 1)
  <2>1. T.n \in Nat \ {0} /\ GoodTable(N) /\ GoodTable(T)
    BY <1>3, <1>4, TypeFacts
  <2>2. Len(bin) \in Nat /\ r.i \in 1..Len(bin) /\ r.i \in Nat
    BY <1>3, <1>4, <1>5, <1>6 DEF Locals
  <2> QED
    BY <2>1, <2>2, HashFact
<1>8. PICK k0 : k0 = bin[r.i].key
  OBVIOUS
<1>9. /\ k0 \in Keys \cup {0} /\ (k0 # 0 => k0 % T.n = b /\ bin[r.i].val = ValueOf(k0))
      /\ \A i, j \in 1..Len(bin) : bin[i].key # 0 /\ bin[i].key = bin[j].key => i = j
  <2>1. GoodBin(T, b)
    BY <1>7 DEF GoodTable
  <2>2. bin[r.i] \in Entries
    BY <1>7
  <2> QED
    BY <1>6, <1>7, <1>8, <2>1, <2>2 DEF GoodBin, Entries
<1>10. k0 # 0 => ~WasCopied(r, tables, k0)
  <2> SUFFICES ASSUME k0 # 0, WasCopied(r, tables, k0)
               PROVE  FALSE
    OBVIOUS
  <2>1. BinOf(tables, r.old, k0) = bin /\ k0 % tables[r.old].n = b
    BY <1>3, <1>4, <1>6, <1>9 DEF BinOf
  <2>2. PICK j \in 1..Len(bin) : bin[j].key = k0 /\ (b < r.pos \/ j < r.i)
    BY <2>1 DEF WasCopied
  <2> QED
    BY <1>5, <1>7, <1>8, <1>9, <2>2
<1>11. PICK M : M = IF k0 = 0 THEN N ELSE PutSeq(N, k0, ValueOf(k0))
  OBVIOUS
<1>12. Gains(N, M, k0)
  <2>1. CASE k0 = 0
    BY <1>7, <1>11, <2>1, ConstantFacts DEF Gains
  <2>2. CASE k0 # 0
    <3>1. BinOf(tables, ht + 1, k0) = N.bins[k0 % N.n]
      BY <1>4 DEF BinOf
    <3>2. ~HasKey(N.bins[k0 % N.n], k0) /\ k0 \in Keys
      BY <1>3, <1>9, <1>10, <2>2, <3>1
    <3> QED
      BY <1>7, <1>11, <2>2, <3>2, PutSeqGains
  <2> QED
    BY <2>1, <2>2
<1>13. /\ M \in Tables /\ M.n = N.n /\ M.lock = N.lock /\ GoodTable(M)
       /\ \A j \in Keys : HasKey(M.bins[j % M.n], j) <=> HasKey(N.bins[j % N.n], j) \/ j = k0
  BY <1>12 DEF Gains
<1>14. PICK V : V = tables' /\ V = [tables EXCEPT ![ht + 1] = M]
  <2>1. tables' = IF bin[r.i].key = 0 THEN tables
                  ELSE [tables EXCEPT ![ht + 1] = PutSeq(N, bin[r.i].key, bin[r.i].val)]
    BY <1>1, <1>3, <1>4, <1>5, <1>6 DEF BucketCpy
  <2>2. k0 = 0 => tables = [tables EXCEPT ![ht + 1] = N]
    BY <1>3, <1>4, TypeFacts
  <2> QED
    BY <1>8, <1>9, <1>11, <2>1, <2>2
<1>15. V \in Seq(Tables) /\ Len(V) = ht + 1 /\ V[ht + 1] = M /\ \A u \in 1..ht : V[u] = tables[u]
  <2>1. /\ V \in Seq(Tables) /\ Len(V) = Len(tables) /\ V[ht + 1] = M
        /\ \A u \in 1..Len(tables) : u # ht + 1 => V[u] = tables[u]
    BY <1>3, <1>13, <1>14, TypeFacts, SeqUpdate
  <2> QED
    BY <1>3, <2>1
<1>16. PICK s : s = IF r.i < Len(bin) THEN [r EXCEPT !.i = r.i + 1] ELSE [r EXCEPT !.pos = b + 1, !.pc = "copy"]
  OBVIOUS
<1>17. /\ s \in Locals /\ s.pc \in Copies /\ s.old = ht /\ s.new = ht + 1
       /\ r.i < Len(bin) => s.pc = "copyslot" /\ s.i = r.i + 1 /\ s.pos = b
       /\ ~(r.i < Len(bin)) => s.pc = "copy" /\ s.pos = b + 1
  <2>1. r.i + 1 \in Nat /\ b + 1 \in Nat
    BY <1>5, <1>7
  <2>2. CASE r.i < Len(bin)
    BY <1>2, <1>3, <1>5, <1>16, <2>1, <2>2 DEF Locals, Copies
  <2>3. CASE ~(r.i < Len(bin))
    BY <1>2, <1>3, <1>5, <1>16, <2>1, <2>3 DEF Locals, Copies, PCs
  <2> QED
    BY <2>2, <2>3
<1>18. th' \in [Threads -> Locals] /\ th'[p] = s /\ \A q \in Threads : q # p => th'[q] = th[q]
  <2>1. th' = [th EXCEPT ![p] = s]
    BY <1>1, <1>3, <1>4, <1>5, <1>6, <1>16 DEF BucketCpy
  <2> QED
    BY <1>17, <2>1 DEF Inv, TypeInv
<1>19. \A c \in Nat : Passed(s, c) <=> Passed(r, c)
  BY <1>2, <1>5, <1>7, <1>17 DEF Passed
<1>20. Fills(p)
  <2>1. /\ tables' \in Seq(Tables) /\ Len(tables') = ht + 1 /\ \A u \in 1..ht : tables'[u] = tables[u]
        /\ GoodTable(tables'[ht + 1])
    BY <1>13, <1>14, <1>15
  <2>2. \A c \in 0..(N.n - 1) : N.lock[c] = "free"
    BY <1>3, <1>4, TypeFacts DEF Inv, LocksInv
  <2>3. \A c \in 0..(tables'[ht + 1].n - 1) : tables'[ht + 1].lock[c] = "free"
    BY <1>13, <1>14, <1>15, <2>2
  <2>4. ops' \in Nat /\ resizing' = TRUE
    BY <1>2, <1>3 DEF Inv, TypeInv
  <2> QED
    BY <1>1, <1>2, <1>3, <1>17, <1>18, <1>19, <2>1, <2>3, <2>4 DEF Fills
<1>21. V[ht] = T /\ V[ht].n = T.n
  BY <1>3, <1>4, <1>15, TypeFacts
<1>22. ASSUME NEW k \in Keys
       PROVE  WasCopied(s, V, k) <=> WasCopied(r, tables, k) \/ k = k0
  <2>1. k # 0
    BY ConstantFacts
  <2>2. PICK B, c : B = T.bins[k % T.n] /\ c = k % T.n /\ c \in Nat
    BY <1>7
  <2>3. WasCopied(r, tables, k) <=> \E j \in 1..Len(B) : B[j].key = k /\ (c < b \/ (c = b /\ j < r.i))
    BY <1>2, <1>3, <1>4, <1>5, <2>2 DEF WasCopied, BinOf
  <2>4. CASE c # b
    <3>1. k # k0
      BY <1>9, <2>1, <2>2, <2>4
    <3>2. WasCopied(s, V, k) <=> \E j \in 1..Len(B) : B[j].key = k /\ c < b
      <4>1. BinOf(V, s.old, k) = B /\ k % V[s.old].n = c
        BY <1>17, <1>21, <2>2 DEF BinOf
      <4>2. \A j \in 1..Len(B) : (c < s.pos \/ (s.pc = "copyslot" /\ c = s.pos /\ j < s.i)) <=> c < b
        BY <1>5, <1>7, <1>17, <2>2, <2>4
      <4> QED
        BY <4>1, <4>2 DEF WasCopied
    <3> QED
      BY <2>3, <2>4, <3>1, <3>2
  <2>5. CASE c = b
    <3>1. B = bin
      BY <1>6, <2>2, <2>5
    <3>2. WasCopied(s, V, k) <=> \E j \in 1..Len(bin) : bin[j].key = k /\ j <= r.i
      <4>1. BinOf(V, s.old, k) = bin /\ k % V[s.old].n = b
        BY <1>17, <1>21, <2>2, <2>5, <3>1 DEF BinOf
      <4>2. \A j \in 1..Len(bin) : (b < s.pos \/ (s.pc = "copyslot" /\ b = s.pos /\ j < s.i)) <=> j <= r.i
        BY <1>5, <1>7, <1>17
      <4> QED
        BY <4>1, <4>2 DEF WasCopied
    <3>3. WasCopied(r, tables, k) <=> \E j \in 1..Len(bin) : bin[j].key = k /\ j < r.i
      BY <1>5, <1>7, <2>3, <2>5, <3>1
    <3> QED
      BY <1>7, <1>8, <1>9, <2>1, <3>2, <3>3
  <2> QED
    BY <2>4, <2>5
<1>23. CopyOK(s, V, ht)
  <2>1. \A k : BinOf(V, ht + 1, k) = M.bins[k % M.n] /\ BinOf(tables, ht + 1, k) = N.bins[k % N.n]
    BY <1>4, <1>15 DEF BinOf
  <2>2. \A k \in Keys : HasKey(BinOf(V, ht + 1, k), k) <=> WasCopied(s, V, k)
    BY <1>3, <1>13, <1>22, <2>1
  <2>3. s.pos \in 0..T.n /\ (s.pc = "copyslot" => s.pos < T.n /\ s.i \in 1..Len(T.bins[s.pos]))
    BY <1>5, <1>6, <1>7, <1>17
  <2>4. \A c \in 0..(T.n - 1) : Passed(s, c) => T.lock[c] = "resize"
    BY <1>3, <1>4, <1>7, <1>19
  <2> QED
    BY <1>15, <1>17, <1>21, <2>2, <2>3, <2>4 DEF CopyOK, HasKey
<1>24. ThreadOK(s, V, ht)
  BY <1>17, <1>23, CopierFact
<1> QED
  BY <1>14, <1>18, <1>20, <1>24, FillCombine

\* The new table becomes the current one: it has every key, and nobody else is to
\* resize or writes to the old one.
LEMMA ResizeSwapKeeps ==
  ASSUME Inv, NEW p \in Threads, ResizeSwap(p)
  PROVE  Inv'
<1>1. PICK r \in Locals : r = th[p]
  BY TypeFacts
<1>2. r.pc = "copy" /\ r.pc \in Copies /\ UNCHANGED <<tables, resizing, given, ops>>
  BY <1>1 DEF ResizeSwap, Copies
<1>3. /\ r.old = ht /\ r.new = ht + 1 /\ Len(tables) = ht + 1
      /\ \A c \in 0..(tables[ht].n - 1) : Passed(r, c) => tables[ht].lock[c] = "resize"
      /\ \A k \in Keys : HasKey(BinOf(tables, ht + 1, k), k) <=> WasCopied(r, tables, k)
      /\ ht \in 1..Len(tables) /\ ht + 1 \in 1..Len(tables) /\ tables[ht].n \in Nat /\ resizing
      /\ r.pc \in Resizes /\ Token(r)
      /\ \A q \in Threads : q # p => th[q].pc \notin Resizes /\ ~Token(th[q])
  BY <1>1, <1>2, CopyFacts
<1>4. PICK h : h = ht + 1
  OBVIOUS
<1>5. /\ ht' = h /\ r.pos = tables[ht].n /\ h \in Nat /\ ht \in Nat /\ h \in 1..Len(tables) /\ ht \in 1..h
      /\ Len(tables) = h /\ tables[h].n \in Nat /\ tables[h].expands \in Nat
  BY <1>1, <1>3, <1>4, TypeFacts DEF ResizeSwap
<1>6. \A c \in 0..(tables[ht].n - 1) : tables[ht].lock[c] = "resize"
  BY <1>3, <1>5 DEF Passed
<1>7. \A q \in Threads : th[q].pc \notin Holds
  <2> SUFFICES ASSUME NEW q \in Threads, th[q].pc \in Holds
               PROVE  FALSE
    OBVIOUS
  <2>1. th[q].t = ht /\ tables[ht].lock[th[q].key % tables[ht].n] = "update"
    BY HolderCurrent
  <2>2. th[q].key % tables[ht].n \in 0..(tables[ht].n - 1)
    BY <2>1, CallFacts DEF Holds, InCall
  <2> QED
    BY <1>6, <2>1, <2>2
<1>8. PICK x \in BOOLEAN : x = (tables[h].expands >= tables[h].n)
  <2>1. (tables[h].expands >= tables[h].n) = TRUE \/ (tables[h].expands >= tables[h].n) = FALSE
    OBVIOUS
  <2> QED
    BY <2>1
<1>9. PICK s : s = [r EXCEPT !.resize = x, !.pc = "publish"]
  OBVIOUS
<1>10. s \in Locals /\ s.pc = "publish" /\ s.old = ht /\ s.resize = x
  BY <1>3, <1>9 DEF Locals, PCs
<1>11. th' \in [Threads -> Locals] /\ th'[p] = s /\ \A q \in Threads : q # p => th'[q] = th[q]
  <2>1. th' = [th EXCEPT ![p] = s]
    BY <1>1, <1>3, <1>4, <1>8, <1>9 DEF ResizeSwap
  <2> QED
    BY <1>10, <2>1 DEF Inv, TypeInv
<1>12. TypeInv'
  BY <1>2, <1>5, <1>11 DEF Inv, TypeInv
<1>13. TablesInv'
  BY <1>2 DEF Inv, TablesInv
<1>14. ThreadsInv'
  <2>1. ASSUME NEW q \in Threads, q # p
        PROVE  ThreadOK(th[q], tables, h)
    <3>1. PICK u : u = th[q]
      OBVIOUS
    <3>2. ThreadOK(u, tables, ht)
      BY <3>1, TypeFacts
    <3>3. u.pc \notin Resizes /\ ~Token(u) /\ u.pc \notin Copies /\ u.pc \notin {"resize", "trylock", "publish"}
      BY <1>3, <2>1, <3>1 DEF Resizes, Token, Copies
    <3>4. CallOK(u, h)
      BY <1>4, <1>5, <3>2 DEF ThreadOK, CallOK
    <3>5. CopyOK(u, tables, h) /\ StatusOK(u, h)
      BY <3>3 DEF CopyOK, StatusOK
    <3>6. ThreadOK(u, tables, h)
      BY <3>2, <3>4, <3>5 DEF ThreadOK
    <3> QED
      BY <3>1, <3>6
  <2>2. ThreadOK(s, tables, h)
    <3>1. /\ s.pc \notin InCall /\ s.pc \notin Holds /\ s.pc \notin Gets /\ s.pc \notin Copies
          /\ s.pc \notin {"putkey", "got", "getkey", "getcheck", "get", "resize", "trylock"}
      BY <1>10 DEF InCall, Holds, Gets, Copies
    <3>2. CallOK(s, h) /\ LockOK(s, tables) /\ PutOK(s, tables) /\ CopyOK(s, tables, h)
      BY <3>1, Zenon DEF CallOK, LockOK, PutOK, CopyOK
    <3>3. \A bin : ReadOK(s, bin) /\ FindOK(s, bin)
      BY <3>1 DEF ReadOK, FindOK
    <3>4. StatusOK(s, h)
      BY <1>5, <1>10 DEF StatusOK
    <3> QED
      BY <3>2, <3>3, <3>4 DEF ThreadOK
  <2> QED
    BY <1>2, <1>5, <1>11, <2>1, <2>2 DEF ThreadsInv
<1>15. ApartInv'
  <2>1. \A q \in Threads : th'[q].pc \notin Holds
    BY <1>7, <1>10, <1>11 DEF Holds
  <2>2. \A q \in Threads : q # p => th'[q].pc \notin Resizes /\ ~Token(th'[q])
    BY <1>3, <1>11
  <2> QED
    BY <2>1, <2>2 DEF ApartInv, Apart
<1>16. LocksInv'
  <2>1. \A t \in 1..(ht - 1) : \A c \in 0..(tables[t].n - 1) : tables[t].lock[c] = "resize"
    BY DEF Inv, LocksInv
  <2>2. \A c \in 0..(tables[h].n - 1) : tables[h].lock[c] = "free"
    BY <1>3, <1>4, <1>5 DEF Inv, LocksInv
  <2>3. \A t \in 1..(h - 1) : \A c \in 0..(tables[t].n - 1) : tables[t].lock[c] = "resize"
    BY <1>4, <1>5, <1>6, <2>1
  <2>4. \A t \in (h + 1)..Len(tables) : FALSE
    BY <1>5
  <2> QED
    BY <1>2, <1>5, <2>2, <2>3, <2>4 DEF LocksInv
<1>17. TokenInv'
  <2>1. Token(s) => tables[h].expands >= tables[h].n
    <3>1. Token(s) => x
      BY <1>10 DEF Token
    <3> QED
      BY <1>8, <3>1, Zenon
  <2>2. \A q \in Threads : Token(th'[q]) => tables[h].expands >= tables[h].n
    BY <1>3, <1>11, <2>1
  <2> QED
    BY <1>2, <1>3, <1>5, <2>2 DEF TokenInv
<1>18. KeptInv'
  <2>1. ASSUME NEW k \in Keys
        PROVE  HasKey(BinOf(tables, h, k), k) <=> HasKey(BinOf(tables, ht, k), k)
    <3>1. k % tables[ht].n \in 0..(tables[ht].n - 1)
      BY <1>3, TypeFacts, HashFact
    <3>2. k % tables[ht].n < r.pos
      <4>1. PICK n \in Nat : n = tables[ht].n
        BY <1>3
      <4>2. k % n \in 0..(n - 1)
        BY <3>1, <4>1
      <4>3. PICK c \in 0..(n - 1) : c = k % n
        BY <4>2
      <4>4. c < n
        OBVIOUS
      <4> QED
        BY <1>5, <4>1, <4>3, <4>4
    <3>3. WasCopied(r, tables, k) <=> HasKey(BinOf(tables, ht, k), k)
      BY <1>3, <3>2 DEF WasCopied, HasKey
    <3> QED
      BY <1>3, <1>4, <3>3
  <2>2. \A k \in Keys : k \in given <=> HasKey(BinOf(tables, ht, k), k)
    BY DEF Inv, KeptInv, HasKey
  <2> QED
    BY <1>2, <1>5, <2>1, <2>2 DEF KeptInv, HasKey
<1> QED
  BY <1>12, <1>13, <1>14, <1>15, <1>16, <1>17, <1>18 DEF Inv

-----------------------------------------------------------------------------
\* The invariant holds in every state.

\* The invariant holds of the table clht_create makes, with no call under way.
LEMMA InitInv ==
  ASSUME Init
  PROVE  Inv
<1>1. PICK N : N = NewTable(FirstBuckets)
  OBVIOUS
<1>2. /\ N \in Tables /\ N.n = FirstBuckets /\ GoodTable(N) /\ N.n \in Nat \ {0}
      /\ \A b \in 0..(N.n - 1) : N.lock[b] = "free" /\ \A i \in 1..Len(N.bins[b]) : N.bins[b][i].key = 0
  <2>1. PICK n \in Nat \ {0} : n = FirstBuckets
    BY ConstantFacts
  <2>2. N = NewTable(n)
    BY <1>1, <2>1
  <2>3. /\ N \in Tables /\ N.n = n /\ GoodTable(N)
        /\ \A b \in 0..(n - 1) : N.lock[b] = "free" /\ \A i \in 1..Len(N.bins[b]) : N.bins[b][i].key = 0
    BY <2>2, NewTableFact
  <2> QED
    BY <2>1, <2>3
<1>3. /\ ht = 1 /\ tables = <<N>> /\ resizing = FALSE /\ given = {} /\ ops = 0
      /\ th = [p \in Threads |-> Idle]
  BY <1>1 DEF Init
<1>4. Len(tables) = 1 /\ tables[1] = N /\ tables \in Seq(Tables)
  BY <1>2, <1>3
<1>5. \A p \in Threads : th[p] = Idle
  BY <1>3
<1>6. Idle \in Locals /\ Idle.pc = "idle" /\ \A T, h : ThreadOK(Idle, T, h)
  BY OutsideFact
<1>7. TypeInv
  <2>1. th \in [Threads -> Locals]
    BY <1>3, <1>6
  <2>2. ht \in 1..Len(tables) /\ ops \in Nat /\ given \subseteq Keys
    BY <1>3, <1>4
  <2>3. resizing \in BOOLEAN
    BY <1>3, Zenon
  <2> QED
    BY <1>4, <2>1, <2>2, <2>3 DEF TypeInv
<1>8. TablesInv
  BY <1>2, <1>4 DEF TablesInv
<1>9. ThreadsInv
  BY <1>5, <1>6 DEF ThreadsInv
<1>10. ApartInv
  BY <1>5, <1>6 DEF ApartInv, Apart, Holds, Resizes, Token
<1>11. LocksInv
  BY <1>2, <1>3, <1>4 DEF LocksInv
<1>12. TokenInv
  BY <1>5, <1>6 DEF TokenInv, Token, Resizes
<1>13. KeptInv
  <2> SUFFICES ASSUME NEW k \in Keys
               PROVE  \A j \in 1..Len(BinOf(tables, 1, k)) : BinOf(tables, 1, k)[j].key # k
    BY <1>3 DEF KeptInv
  <2>1. k % N.n \in 0..(N.n - 1) /\ k # 0
    BY <1>2, HashFact, ConstantFacts
  <2> QED
    BY <1>2, <1>4, <2>1 DEF BinOf
<1> QED
  BY <1>7, <1>8, <1>9, <1>10, <1>11, <1>12, <1>13 DEF Inv

\* Every step keeps it.
LEMMA StepInv ==
  ASSUME Inv, [Next]_vars
  PROVE  Inv'
<1>1. CASE UNCHANGED vars
  BY <1>1 DEF vars, Inv, TypeInv, TablesInv, ThreadsInv, ApartInv, LocksInv, TokenInv, KeptInv
<1>2. ASSUME NEW p \in Threads, NEW c \in Calls, Call(p, c[1], c[2])
      PROVE  Inv'
  BY <1>2, CallKeeps
<1>3. ASSUME NEW p \in Threads, Step(p)
      PROVE  Inv'
  <2>1. CASE GetVal(p) \/ GetKey(p) \/ GetCheck(p)
    BY <2>1, GetKeeps
  <2>2. CASE Got(p)
    BY <2>2, Leaves DEF Got, Copies
  <2>3. CASE Exists(p)
    BY <2>3, ExistsKeeps
  <2>4. CASE LockAcq(p)
    BY <2>4, LockAcqKeeps
  <2>5. CASE WaitNew(p)
    BY <2>5, WaitNewKeeps
  <2>6. CASE PutScan(p)
    BY <2>6, PutScanKeeps
  <2>7. CASE PutKey(p)
    BY <2>7, PutKeyKeeps
  <2>8. CASE RemoveScan(p)
    BY <2>8, RemoveScanKeeps
  <2>9. CASE LockRls(p)
    BY <2>9, LockRlsKeeps
  <2>10. CASE Status(p) \/ ResizeRead(p)
    BY <2>10, StatusKeeps
  <2>11. CASE ResizeLock(p)
    BY <2>11, ResizeLockKeeps
  <2>12. CASE BucketLock(p)
    BY <2>12, BucketLockKeeps
  <2>13. CASE BucketCpy(p)
    BY <2>13, BucketCpyKeeps
  <2>14. CASE ResizeSwap(p)
    BY <2>14, ResizeSwapKeeps
  <2>15. CASE ResizePublish(p) \/ ResizeRelease(p)
    BY <2>15, PublishKeeps
  \* The death of the process changes nothing the invariant speaks of.
  <2>16. CASE StatusUnregistered(p)
    <3>1. UNCHANGED <<ht, tables, resizing, th, given, ops>>
      BY <2>16 DEF StatusUnregistered
    <3> QED
      BY <3>1 DEF Inv, TypeInv, TablesInv, ThreadsInv, ApartInv, LocksInv, TokenInv, KeptInv
  <2> QED
    BY <1>3, <2>1, <2>2, <2>3, <2>4, <2>5, <2>6, <2>7, <2>8, <2>9, <2>10, <2>11, <2>12, <2>13, <2>14, <2>15, <2>16
       DEF Step
<1> QED
  BY <1>1, <1>2, <1>3 DEF Next

\* The invariant of the table: every key is in its bin, once, with its value; a
\* writer has the lock of its bin in the current table; one thread at most resizes.
THEOREM TableInvariance == Spec => []Inv
<1>1. Init => Inv
  BY InitInv
<1>2. Inv /\ [Next]_vars => Inv'
  BY StepInv
<1> QED
  BY <1>1, <1>2, PTL DEF Spec

\* In every table that ever was, a key is in one slot at most, whatever puts, removes
\* and copies overlap (clht_put, clht_remove, bucket_cpy).
THEOREM KeysAreOnce == Spec => []NoDuplicates
<1>1. Inv => NoDuplicates
  <2> SUFFICES ASSUME Inv, NEW t \in 1..Len(tables), NEW k \in Keys
               PROVE  Cardinality(Holding(Bin(t, k), k)) <= 1
    BY DEF NoDuplicates
  <2>1. k % tables[t].n \in 0..(tables[t].n - 1) /\ k # 0
    BY TypeFacts, HashFact, ConstantFacts
  <2>2. GoodBin(tables[t], k % tables[t].n)
    BY <2>1, TypeFacts DEF GoodTable
  <2>3. PICK S : S = Holding(Bin(t, k), k)
    OBVIOUS
  <2>4. \A i, j \in S : i = j
    BY <2>1, <2>2, <2>3 DEF GoodBin, Holding, Bin, clht_hash
  <2>5. CASE S = {}
    BY <2>3, <2>5, FS_EmptySet
  <2>6. CASE S # {}
    <3>0. PICK i \in S : \A j \in S : j = i
      BY <2>4, <2>6
    <3>1. S = {i}
      BY <3>0
    <3>2. Cardinality({i}) = 1
      BY FS_Singleton
    <3> QED
      BY <2>3, <3>1, <3>2
  <2> QED
    BY <2>5, <2>6
<1> QED
  BY <1>1, TableInvariance, PTL

\* clht_get, which locks nothing, returns no other key's value, unless the slot was
\* used again twice between its two looks at the value.
THEOREM GetsOwnValue == Spec => []GetOwnValue
<1>1. Inv => GetOwnValue
  BY DEF Inv, ThreadsInv, ThreadOK, ReadOK, GetOwnValue
<1> QED
  BY <1>1, TableInvariance, PTL

\* clht_get finds a key that is there all the time, in whatever table it walks and
\* whatever others put, remove or copy meanwhile.
THEOREM GetsFind == Spec => []GetFinds
<1>1. Inv => GetFinds
  BY ValueFacts DEF Inv, ThreadsInv, ThreadOK, FindOK, GetFinds
<1> QED
  BY <1>1, TableInvariance, PTL

\* No key is lost and none comes back: the current table holds the keys that were
\* put and not removed since, at every moment of any number of resizes.
THEOREM TableKeepsKeys == Spec => []KeysKept
<1>1. Inv => KeysKept
  BY DEF Inv, KeptInv, KeysKept, BinOf, bucket_exists, Bin, Holding, clht_hash
<1> QED
  BY <1>1, TableInvariance, PTL

\* A resize copies the current table, although ht_resize_pes reads h->ht before it
\* has the resize lock: one thread at most is on its way to a resize.
THEOREM ResizeIsOfCurrent == Spec => []ResizesCurrent
<1>1. Inv => ResizesCurrent
  BY DEF Inv, ThreadsInv, ThreadOK, CopyOK, Copies, ResizesCurrent
<1> QED
  BY <1>1, TableInvariance, PTL
=============================================================================
