-------------------------- MODULE NaliGroupProofs ---------------------------
(***************************************************************************)
(* The tree of the Nali index is the map that logdb takes its index for.   *)
(***************************************************************************)
EXTENDS NaliGroup, FiniteSetTheorems, SequenceTheorems, WellFoundedInduction, TLAPS

----------------------------------------------------------------------------
(* The inductive invariant, stated of a tree T.                            *)

Records == Keys \X Values
Buckets == [kv : Seq(Records), slot : Keys \cup {0}]
EntrySet == [key : Keys \cup {0}, b : Buckets]
GroupSet == [pbs : Seq(Seq(EntrySet)), next : Nat, min : Keys \cup {0}]

\* A place is the first of the tree, or of its group.
First(T, q) == \A r \in Places(T) : ~Before(r, q)
Leads(q) == q[2] = 1 /\ q[3] = 1

\* No PointerBEntry is empty or has more entries than it has room for, and no bucket
\* more records; the count of a group is that of its entries.
Formed(T) ==
  /\ T \in Seq(GroupSet) /\ Places(T) # {}
  /\ \A g \in 1..Len(T) : /\ T[g].next = Cardinality(PlacesIn(T, g))
                          /\ \A p \in 1..Len(T[g].pbs) : Len(T[g].pbs[p]) \in 1..PbCount
  /\ \A q \in Places(T) : Len(At(T, q).b.kv) <= BucketCap

\* The keys of a bucket, or what min_key takes for one.
Held(b) == IF b.kv = <<>> THEN {b.slot} ELSE {b.kv[j][1] : j \in 1..Len(b.kv)}

\* Entry keys ascend, and the keys of a bucket lie between its entry's and the next.
Sorted(T) ==
  /\ \A q, r \in Places(T) : Before(q, r) => At(T, q).key <= At(T, r).key
  /\ \A q \in Places(T) : \A x \in Held(At(T, q).b) :
       At(T, q).key <= x /\ \A r \in Places(T) : Before(q, r) => x <= At(T, r).key

\* 0 is the entry key of the first bucket until it is adjusted, and no bucket's key
\* once there are two.
Keyed(T) ==
  /\ \A q \in Places(T) : At(T, q).key \in Keys \/ First(T, q)
  /\ (\E q, r \in Places(T) : q # r) => \A q \in Places(T) : Held(At(T, q).b) \subseteq Keys

\* find_group goes left from the predicted group: that is not too far to the left.
Routed(T, M) ==
  \A q \in Places(T) : Leads(q) => First(T, q) \/ q[1] <= M[At(T, q).key]

Sound(T, M) ==
  /\ Formed(T) /\ Sorted(T) /\ Keyed(T) /\ Routed(T, M) /\ M \in Monotone(Len(T))

\* The place where a key is looked for: the last entry that is not above it, or the
\* first.
IsHome(T, q, k) ==
  /\ q \in Places(T) /\ \A r \in Places(T) : Before(q, r) => k < At(T, r).key
  /\ At(T, q).key <= k \/ First(T, q)

\* Record j of the bucket at place q has key k.
IsRecord(T, q, j, k) == q \in Places(T) /\ j \in 1..Len(At(T, q).b.kv) /\ At(T, q).b.kv[j][1] = k

Absent(T, k) == \A q, j : ~IsRecord(T, q, j, k)
Alone(T, k, v) ==
  \E q, j : /\ IsHome(T, q, k) /\ IsRecord(T, q, j, k) /\ At(T, q).b.kv[j][2] = v
            /\ \A r, i : IsRecord(T, r, i, k) => r = q /\ i = j
Present(T, k) == \E q, j : IsHome(T, q, k) /\ IsRecord(T, q, j, k)

\* What the tree holds is what the map holds.
Holds(T, k, x, P) ==
  /\ x = None => Absent(T, k)
  /\ x \in Values => Alone(T, k, x)
  /\ x = Unknown /\ P => Present(T, k)

MapInv == /\ ref \in [Keys -> Values \cup {None, Unknown}]
          /\ \A k \in Keys : Holds(tree, k, ref[k], k \in kept)

\* The key of a Put belongs into its group: behind everything in front of the group,
\* and in front of what is behind it; the model leads to the group, or it is the first
\* that has entries.
Fits(T, M, g, k) ==
  /\ g \in 1..Len(T) /\ T[g].pbs # <<>>
  /\ g <= M[k] \/ \A r \in Places(T) : r[1] >= g
  /\ \A r \in Places(T) :
       /\ r[1] > g => k < At(T, r).key
       /\ r[1] < g => At(T, r).key <= k /\ \A x \in Held(At(T, r).b) : x <= k

CallInv ==
  \/ call = NoCall
  \/ /\ call \in [k : Keys, v : Values, g : Nat, n : Nat]
     /\ call.g # 0 => Fits(tree, model, call.g, call.k)

\* The Put that has expanded its group or the tree finds PointerBEntrys of one entry;
\* the one that has split its bucket finds room.
Single(T, g) == \A p \in 1..Len(T[g].pbs) : Len(T[g].pbs[p]) = 1
RetryInv ==
  \/ call.n = 0
  \/ call.n = 1 /\ \A g \in 1..Len(tree) : call.g \in {0, g} => Single(tree, g)
  \/ call.n \in {1, 2} /\ call.g # 0 /\ ~BucketFull(Target)

\* What a scan returned is there until the next call.
ScanInv ==
  answer[1] = "scan" /\ call = NoCall =>
     Len(answer[4]) <= answer[3] /\ \A i \in 1..Len(answer[4]) : answer[4][i] \in Stored

Inv == Sound(tree, model) /\ MapInv /\ CallInv /\ RetryInv /\ ScanInv

----------------------------------------------------------------------------
(* Numbers, recursion and order.                                           *)

\* What the assumption says, in the form the proofs use.
LEMMA ConstantFacts ==
  /\ Keys \subseteq Nat /\ 0 \notin Keys /\ Keys # {} /\ IsFiniteSet(Keys)
  /\ BucketCap \in Nat /\ BucketCap >= 2 /\ PbCount \in Nat /\ PbCount >= 2
  /\ MaxEntries \in Nat /\ MinEntries \in Nat /\ MinEntries >= 1
  /\ None \notin Values /\ Unknown \notin Values /\ Unknown # None
BY NaliGroupAssumption

\* A set of numbers has a least one.
LEMMA LeastFact ==
  ASSUME NEW S \in SUBSET Nat, S # {}
  PROVE  Min(S) \in S /\ \A y \in S : Min(S) <= y
<1>1. PICK x \in S : \A y \in S : ~(<<y, x>> \in OpToRel(<, Nat))
  BY NatLessThanWellFounded, WFMin, Zenon
<1>2. \A y \in S : ~(y < x)
  BY <1>1, Zenon DEF OpToRel
<1>3. \E z \in S : \A y \in S : z <= y
  BY <1>2
<1> QED
  BY <1>3 DEF Min

\* A bounded set of numbers has a greatest one.
LEMMA GreatestFact ==
  ASSUME NEW S \in SUBSET Nat, S # {}, NEW n \in Nat, \A s \in S : s <= n
  PROVE  Max(S) \in S /\ \A y \in S : y <= Max(S)
<1> DEFINE T == {m \in Nat : \A s \in S : s <= m}
<1>1. T \in SUBSET Nat /\ n \in T
  OBVIOUS
<1>2. PICK m \in T : \A y \in T : m <= y
  BY <1>1, LeastFact
<1>3. m \in S
  <2> SUFFICES ASSUME m \notin S PROVE FALSE
    OBVIOUS
  <2>1. \A s \in S : s \in Nat /\ s <= m /\ s # m
    BY <1>2
  <2>2. m \in Nat /\ \E s \in S : TRUE
    BY <1>2
  <2>3. m # 0 /\ \A s \in S : s <= m - 1
    BY <2>1, <2>2
  <2>4. m - 1 \in T
    BY <2>2, <2>3
  <2> QED
    BY <1>2, <2>2, <2>4
<1>4. \E x \in S : \A y \in S : x >= y
  BY <1>2, <1>3
<1> QED
  BY <1>4 DEF Max

\* Numbers, one after the other.
LEMMA Stepwise ==
  ASSUME NEW a \in Nat, NEW n \in Nat, NEW S, a \in S,
         \A i \in (a + 1)..n : i - 1 \in S => i \in S
  PROVE  \A i \in a..n : i \in S
<1> SUFFICES ASSUME NEW j \in a..n, j \notin S PROVE FALSE
  OBVIOUS
<1> DEFINE B == {i \in a..n : i \notin S}
<1>1. B \in SUBSET Nat /\ B # {}
  OBVIOUS
<1>2. Min(B) \in B /\ \A y \in B : Min(B) <= y
  BY <1>1, LeastFact
<1>3. PICK m : m = Min(B)
  OBVIOUS
<1>4. m \in (a + 1)..n
  BY <1>2, <1>3
<1>5. m - 1 \in a..n /\ m - 1 \notin B
  BY <1>2, <1>3, <1>4
<1> QED
  BY <1>2, <1>3, <1>4, <1>5

\* A loop computes a function: the one that its recursive definition chooses.
IsLoop(f, a, n, c, h) == f = [i \in a..n |-> IF i = a THEN c ELSE h[i, f[i - 1]]]

\* The recursive definition of a loop has a solution.
LEMMA LoopDefined ==
  ASSUME NEW a \in Nat, NEW n \in Nat, NEW S, NEW c \in S, NEW h \in [Nat \X S -> S]
  PROVE  \E f \in [a..n -> S] : IsLoop(f, a, n, c, h)
<1> DEFINE Is(m, f) == IsLoop(f, a, m, c, h)
           B == {m \in Nat : ~ \E f \in [a..m -> S] : Is(m, f)}
<1> SUFFICES ASSUME n \in B PROVE FALSE
  OBVIOUS
<1> HIDE DEF Is, IsLoop
<1>1. PICK m \in B : \A y \in B : m <= y
  BY LeastFact
<1>4. m \in Nat /\ (m <= a \/ m > a)
  BY <1>1
<1>5. \A f \in [a..m -> S] : ~Is(m, f)
  BY <1>1
<1>6. \A k \in Nat : k < m => \E f \in [a..k -> S] : Is(k, f)
  BY <1>1
<1> HIDE DEF B
<1>2. CASE m <= a
  <2>1. [i \in a..m |-> c] \in [a..m -> S]
    OBVIOUS
  <2>3. \A i \in a..m : i = a
    BY <1>2, <1>4
  <2>2. Is(m, [i \in a..m |-> c])
    BY <2>3 DEF Is, IsLoop
  <2> QED
    BY <2>1, <2>2, <1>5
<1>3. CASE m > a
  <2>1. m - 1 \in Nat /\ m - 1 < m /\ m \in Nat /\ m # a
    BY <1>4, <1>3
  <2>2. PICK f \in [a..(m - 1) -> S] : Is(m - 1, f)
    BY <2>1, <1>6
  <2> DEFINE g == [i \in a..m |-> IF i = m THEN h[m, f[m - 1]] ELSE f[i]]
  <2>9. m - 1 \in a..(m - 1)
    BY <2>1, <1>3
  <2>3. f[m - 1] \in S
    BY <2>9
  <2>10. h[m, f[m - 1]] \in S
    BY <2>1, <2>3
  <2>8. \A i \in a..m : i = m \/ i \in a..(m - 1)
    BY <2>1
  <2>4. g \in [a..m -> S]
    BY <2>8, <2>10
  <2>5. \A i \in a..(m - 1) : f[i] = IF i = a THEN c ELSE h[i, f[i - 1]]
    BY <2>2 DEF Is, IsLoop
  <2>6. ASSUME NEW i \in a..m PROVE g[i] = IF i = a THEN c ELSE h[i, g[i - 1]]
    <3>1. CASE i = m
      <4>2. m - 1 \in a..m /\ m - 1 # m
        BY <2>1, <2>9
      <4>1. g[i - 1] = f[m - 1]
        BY <3>1, <4>2
      <4> QED
        BY <3>1, <4>1, <2>1
    <3>2. CASE i # m
      <4>1. i \in a..(m - 1) /\ g[i] = f[i]
        BY <3>2, <2>8
      <4>3. i # a => i - 1 \in a..m /\ i - 1 # m
        BY <2>1
      <4>2. i # a => g[i - 1] = f[i - 1]
        BY <4>3
      <4> QED
        BY <4>1, <4>2, <2>5
    <3> QED
      BY <3>1, <3>2
  <2>7. Is(m, g)
    BY <2>6, Zenon DEF Is, IsLoop
  <2> QED
    BY <2>4, <2>7, <1>5
<1> QED
  BY <1>4, <1>2, <1>3

\* Triples of numbers.
Triples == Nat \X Nat \X Nat

\* The lexicographic order of triples is a strict total order.
LEMMA BeforeFact ==
  /\ \A q, r \in Triples : q # r => Before(q, r) \/ Before(r, q)
  /\ \A q \in Triples : ~Before(q, q)
  /\ \A q, r, s \in Triples : Before(q, r) /\ Before(r, s) => Before(q, s)
<1>1. \A q, r \in Triples : q # r => Before(q, r) \/ Before(r, q)
  BY DEF Triples, Before
<1>2. \A q \in Triples : ~Before(q, q)
  BY DEF Triples, Before
<1>3. \A q, r, s \in Triples : Before(q, r) /\ Before(r, s) => Before(q, s)
  BY DEF Triples, Before
<1> QED
  BY <1>1, <1>2, <1>3

\* What InOrder is for a set of triples.
IsOrderOf(o, s) ==
  /\ Cardinality(s) \in Nat
  /\ \A i \in 1..Cardinality(s) : o[i] \in s
  /\ \A q \in s : \E i \in 1..Cardinality(s) : o[i] = q
  /\ \A i, j \in 1..Cardinality(s) : i < j <=> Before(o[i], o[j])

Rank(s, q) == Cardinality({r \in s : Before(r, q)})

\* The rank of a triple rises with the triple.
LEMMA RankFact ==
  ASSUME NEW s \in SUBSET Triples, IsFiniteSet(s)
  PROVE  /\ Cardinality(s) \in Nat
         /\ \A q \in s : Rank(s, q) \in Nat /\ Rank(s, q) < Cardinality(s)
         /\ \A q, r \in s : Before(q, r) => Rank(s, q) < Rank(s, r)
<1> DEFINE R(q) == {r \in s : Before(r, q)}
<1>1. Cardinality(s) \in Nat
  BY FS_CardinalityType
<1>2. ASSUME NEW q \in s PROVE IsFiniteSet(R(q)) /\ Cardinality(R(q)) \in Nat /\ Cardinality(R(q)) < Cardinality(s)
  <2>1. R(q) \in SUBSET s /\ R(q) # s
    BY BeforeFact
  <2> HIDE DEF R
  <2>2. IsFiniteSet(R(q)) /\ Cardinality(R(q)) <= Cardinality(s) /\ Cardinality(s) # Cardinality(R(q))
    BY <2>1, FS_Subset
  <2>3. Cardinality(R(q)) \in Nat
    BY <2>2, FS_CardinalityType
  <2> QED
    BY <2>2, <2>3, <1>1
<1>3. ASSUME NEW q \in s, NEW r \in s, Before(q, r) PROVE Cardinality(R(q)) < Cardinality(R(r))
  <2>1. R(q) \in SUBSET R(r) /\ R(q) # R(r)
    <3>1. \A x \in R(q) : x \in R(r)
      BY <1>3, BeforeFact
    <3>2. q \in R(r) /\ q \notin R(q)
      BY <1>3, BeforeFact
    <3> QED
      BY <3>1, <3>2
  <2>2. IsFiniteSet(R(r)) /\ Cardinality(R(r)) \in Nat /\ Cardinality(R(q)) \in Nat
    BY <1>2
  <2> HIDE DEF R
  <2>3. Cardinality(R(q)) <= Cardinality(R(r)) /\ Cardinality(R(q)) # Cardinality(R(r))
    BY <2>1, <2>2, FS_Subset
  <2> QED
    BY <2>2, <2>3
<1> QED
  BY <1>1, <1>2, <1>3 DEF Rank

\* InOrder lists a finite set of triples, each once and in order.
LEMMA InOrderFact ==
  ASSUME NEW s \in SUBSET Triples, IsFiniteSet(s)
  PROVE  IsOrderOf(InOrder(s), s)
<1>1. PICK n \in Nat : n = Cardinality(s)
  BY RankFact
<1>2. \A q \in s : Rank(s, q) + 1 \in 1..n
  BY RankFact, <1>1
<1>3. \A q, r \in s : q # r => Rank(s, q) # Rank(s, r)
  BY RankFact, BeforeFact
<1>4. \A q \in s : Rank(s, q) \in Nat
  BY RankFact
<1> DEFINE f == [q \in s |-> Rank(s, q) + 1]
<1>5. f \in Injection(s, 1..n)
  <2>1. f \in [s -> 1..n]
    BY <1>2
  <2>2. \A q, r \in s : q # r => f[q] # f[r]
    BY <1>3, <1>4
  <2> HIDE DEF f
  <2> QED
    BY <2>1, <2>2 DEF Injection, IsInjective
<1>6. IsFiniteSet(1..n) /\ Cardinality(1..n) = n
  BY FS_Interval
<1>7. f \in Surjection(s, 1..n)
  <2> HIDE DEF f
  <2> QED
    BY <1>1, <1>5, <1>6, FS_Injection
<1>8. \A i \in 1..n : \E q \in s : Rank(s, q) = i - 1
  <2> SUFFICES ASSUME NEW i \in 1..n PROVE \E q \in s : Rank(s, q) = i - 1
    OBVIOUS
  <2>1. PICK q \in s : f[q] = i
    BY <1>7, Zenon DEF Surjection
  <2>2. Rank(s, q) + 1 = i
    BY <2>1
  <2> QED
    BY <2>2, <1>4
<1>9. PICK o : o = InOrder(s)
  OBVIOUS
<1>10. \A i \in 1..n : o[i] = CHOOSE q \in s : Rank(s, q) = i - 1
  BY <1>9, <1>1 DEF InOrder, Rank
<1>11. \A i \in 1..n : o[i] \in s /\ Rank(s, o[i]) = i - 1
  BY <1>10, <1>8
<1>12. \A q \in s : \E i \in 1..n : o[i] = q
  <2> SUFFICES ASSUME NEW q \in s PROVE \E i \in 1..n : o[i] = q
    OBVIOUS
  <2>1. PICK i \in 1..n : i = Rank(s, q) + 1
    BY <1>2
  <2>2. Rank(s, o[i]) = Rank(s, q) /\ o[i] \in s
    BY <1>4, <1>11, <2>1
  <2> QED
    BY <2>2, <1>3
<1>13. ASSUME NEW i \in 1..n, NEW j \in 1..n PROVE i < j <=> Before(o[i], o[j])
  <2>1. o[i] \in s /\ o[j] \in s /\ Rank(s, o[i]) = i - 1 /\ Rank(s, o[j]) = j - 1
    BY <1>11
  <2>2. PICK x \in s, y \in s : x = o[i] /\ y = o[j]
    BY <2>1
  <2>3. Before(x, y) => i < j
    BY <2>1, <2>2, RankFact
  <2>4. Before(y, x) => j < i
    BY <2>1, <2>2, RankFact
  <2>5. x = y => i = j
    BY <2>1, <2>2
  <2>6. x = y \/ Before(x, y) \/ Before(y, x)
    BY BeforeFact
  <2> QED
    BY <2>2, <2>3, <2>4, <2>5, <2>6
<1> QED
  BY <1>1, <1>9, <1>11, <1>12, <1>13 DEF IsOrderOf

\* As many as the numbers up to n are finitely many.
LEMMA FiniteImage ==
  ASSUME NEW n \in Nat, NEW f
  PROVE  IsFiniteSet({f[i] : i \in 1..n})
<1> DEFINE X == {f[i] : i \in 1..n}
           h == [i \in 1..n |-> f[i]]
<1>1. h \in Surjection(1..n, X)
  BY DEF Surjection
<1>2. IsFiniteSet(1..n)
  BY FS_Interval
<1> HIDE DEF X, h
<1>3. IsFiniteSet(X)
  BY <1>1, <1>2, FS_Surjection
<1> QED
  BY <1>3 DEF X

\* A union of finite sets, one for each number up to n, is finite.
LEMMA FiniteUnion ==
  ASSUME NEW n \in Nat, NEW f, \A i \in 1..n : IsFiniteSet(f[i])
  PROVE  IsFiniteSet(UNION {f[i] : i \in 1..n})
<1>1. IsFiniteSet({f[i] : i \in 1..n})
  BY FiniteImage
<1> QED
  BY <1>1, FS_UNION

\* The shape of a tree.
Shaped(T) ==
  /\ Len(T) \in Nat
  /\ \A g \in 1..Len(T) :
       /\ Len(T[g].pbs) \in Nat
       /\ \A p \in 1..Len(T[g].pbs) : Len(T[g].pbs[p]) \in Nat

\* The parts of a tree have the types of their parts.
LEMMA GroupFact ==
  ASSUME NEW T \in Seq(GroupSet)
  PROVE  /\ Len(T) \in Nat
         /\ \A g \in 1..Len(T) :
              /\ T[g] \in GroupSet /\ T[g].pbs \in Seq(Seq(EntrySet)) /\ T[g].next \in Nat /\ T[g].min \in Keys \cup {0}
              /\ Len(T[g].pbs) \in Nat
              /\ \A p \in 1..Len(T[g].pbs) :
                   /\ T[g].pbs[p] \in Seq(EntrySet) /\ Len(T[g].pbs[p]) \in Nat
                   /\ \A i \in 1..Len(T[g].pbs[p]) : T[g].pbs[p][i] \in EntrySet
         /\ Shaped(T)
<1>1. \A g \in 1..Len(T) : T[g] \in GroupSet
  OBVIOUS
<1>2. \A g \in 1..Len(T) : T[g].pbs \in Seq(Seq(EntrySet)) /\ T[g].next \in Nat /\ T[g].min \in Keys \cup {0}
  BY <1>1 DEF GroupSet
<1>3. \A g \in 1..Len(T) : \A p \in 1..Len(T[g].pbs) : T[g].pbs[p] \in Seq(EntrySet)
  BY <1>2
<1>4. \A g \in 1..Len(T) : \A p \in 1..Len(T[g].pbs) : Len(T[g].pbs[p]) \in Nat
                   /\ \A i \in 1..Len(T[g].pbs[p]) : T[g].pbs[p][i] \in EntrySet
  BY <1>3
<1>5. Len(T) \in Nat /\ \A g \in 1..Len(T) : Len(T[g].pbs) \in Nat
  BY <1>2
<1> QED
  BY <1>1, <1>2, <1>3, <1>4, <1>5 DEF Shaped

\* What a place is.
IsPlace(T, g, p, i) == g \in 1..Len(T) /\ p \in 1..Len(T[g].pbs) /\ i \in 1..Len(T[g].pbs[p])

\* A place names a group, a PointerBEntry of it and an entry of that.
LEMMA PlaceFact ==
  ASSUME NEW T
  PROVE  /\ \A g, p, i : <<g, p, i>> \in Places(T) <=> IsPlace(T, g, p, i)
         /\ \A q \in Places(T) : q = <<q[1], q[2], q[3]>> /\ IsPlace(T, q[1], q[2], q[3])
         /\ \A g, p, i : At(T, <<g, p, i>>) = T[g].pbs[p][i]
<1>1. \A q : q \in Places(T) <=>
        \E g \in 1..Len(T) : \E p \in 1..Len(T[g].pbs) : \E i \in 1..Len(T[g].pbs[p]) : q = <<g, p, i>>
  <2> DEFINE I(g, p) == {<<g, p, i>> : i \in 1..Len(T[g].pbs[p])}
             P(g) == UNION {I(g, p) : p \in 1..Len(T[g].pbs)}
  <2>1. \A q, g, p : q \in I(g, p) <=> \E i \in 1..Len(T[g].pbs[p]) : q = <<g, p, i>>
    OBVIOUS
  <2> HIDE DEF I
  <2>2. \A q, g : q \in P(g) <=> \E p \in 1..Len(T[g].pbs) : q \in I(g, p)
    OBVIOUS
  <2>3. Places(T) = UNION {P(g) : g \in 1..Len(T)}
    BY Zenon DEF Places, I
  <2> HIDE DEF P
  <2>4. \A q : q \in Places(T) <=> \E g \in 1..Len(T) : q \in P(g)
    BY <2>3
  <2>5. \A q, g : q \in P(g) <=> \E p \in 1..Len(T[g].pbs) : \E i \in 1..Len(T[g].pbs[p]) : q = <<g, p, i>>
    <3> TAKE q, g
    <3>1. \A p : q \in I(g, p) <=> \E i \in 1..Len(T[g].pbs[p]) : q = <<g, p, i>>
      BY <2>1
    <3>2. q \in P(g) <=> \E p \in 1..Len(T[g].pbs) : q \in I(g, p)
      BY <2>2
    <3> QED
      BY <3>1, <3>2, Zenon
  <2> TAKE q
  <2>6. \A g : q \in P(g) <=> \E p \in 1..Len(T[g].pbs) : \E i \in 1..Len(T[g].pbs[p]) : q = <<g, p, i>>
    BY <2>5
  <2>7. q \in Places(T) <=> \E g \in 1..Len(T) : q \in P(g)
    BY <2>4
  <2> QED
    BY <2>6, <2>7, Zenon
<1>2. ASSUME NEW g, NEW p, NEW i PROVE <<g, p, i>> \in Places(T) <=> IsPlace(T, g, p, i)
  <2>1. ASSUME <<g, p, i>> \in Places(T) PROVE IsPlace(T, g, p, i)
    <3>1. PICK h \in 1..Len(T) : \E o \in 1..Len(T[h].pbs) : \E j \in 1..Len(T[h].pbs[o]) : <<g, p, i>> = <<h, o, j>>
      BY <2>1, <1>1
    <3>2. PICK o \in 1..Len(T[h].pbs) : \E j \in 1..Len(T[h].pbs[o]) : <<g, p, i>> = <<h, o, j>>
      BY <3>1
    <3>3. PICK j \in 1..Len(T[h].pbs[o]) : <<g, p, i>> = <<h, o, j>>
      BY <3>2
    <3>4. g = h /\ p = o /\ i = j
      BY <3>3
    <3> QED
      BY <3>4 DEF IsPlace
  <2>2. ASSUME IsPlace(T, g, p, i) PROVE <<g, p, i>> \in Places(T)
    BY <2>2, <1>1, Zenon DEF IsPlace
  <2> QED
    BY <2>1, <2>2
<1>3. ASSUME NEW q \in Places(T) PROVE q = <<q[1], q[2], q[3]>> /\ IsPlace(T, q[1], q[2], q[3])
  <2>1. PICK g \in 1..Len(T) : \E p \in 1..Len(T[g].pbs) : \E i \in 1..Len(T[g].pbs[p]) : q = <<g, p, i>>
    BY <1>1
  <2>2. PICK p \in 1..Len(T[g].pbs) : \E i \in 1..Len(T[g].pbs[p]) : q = <<g, p, i>>
    BY <2>1
  <2>3. PICK i \in 1..Len(T[g].pbs[p]) : q = <<g, p, i>>
    BY <2>2
  <2>4. q[1] = g /\ q[2] = p /\ q[3] = i
    BY <2>3
  <2> QED
    BY <2>3, <2>4 DEF IsPlace
<1>4. \A g, p, i : At(T, <<g, p, i>>) = T[g].pbs[p][i]
  BY DEF At
<1> QED
  BY <1>2, <1>3, <1>4

\* The places of a tree are finitely many triples.
LEMMA PlacesFinite ==
  ASSUME NEW T, Shaped(T)
  PROVE  Places(T) \subseteq Triples /\ IsFiniteSet(Places(T))
<1>1. ASSUME NEW q \in Places(T) PROVE q \in Triples
  <2>1. q = <<q[1], q[2], q[3]>> /\ IsPlace(T, q[1], q[2], q[3])
    BY PlaceFact
  <2>2. q[1] \in Nat /\ q[2] \in Nat /\ q[3] \in Nat
    BY <2>1 DEF IsPlace, Shaped
  <2> QED
    BY <2>1, <2>2 DEF Triples
<1> DEFINE I(g, p) == {<<g, p, i>> : i \in 1..Len(T[g].pbs[p])}
           P(g) == UNION {I(g, p) : p \in 1..Len(T[g].pbs)}
<1>2. ASSUME NEW g \in 1..Len(T), NEW p \in 1..Len(T[g].pbs) PROVE IsFiniteSet(I(g, p))
  <2>1. PICK n \in Nat : n = Len(T[g].pbs[p])
    BY DEF Shaped
  <2>2. PICK f : f = [i \in 1..n |-> <<g, p, i>>]
    OBVIOUS
  <2>3. I(g, p) = {f[i] : i \in 1..n}
    BY <2>1, <2>2
  <2> QED
    BY <2>3, FiniteImage
<1>3. ASSUME NEW g \in 1..Len(T) PROVE IsFiniteSet(P(g))
  <2>1. PICK n \in Nat : n = Len(T[g].pbs)
    BY DEF Shaped
  <2> HIDE DEF I
  <2>2. PICK f : f = [p \in 1..n |-> I(g, p)]
    OBVIOUS
  <2>3. \A p \in 1..n : f[p] = I(g, p)
    BY <2>2
  <2>4. P(g) = UNION {f[p] : p \in 1..n}
    BY <2>1, <2>3
  <2>5. \A p \in 1..n : IsFiniteSet(f[p])
    BY <2>1, <2>3, <1>2
  <2> QED
    BY <2>4, <2>5, FiniteUnion
<1>4. Places(T) = UNION {P(g) : g \in 1..Len(T)}
  BY Zenon DEF Places
<1>5. IsFiniteSet(Places(T))
  <2>1. PICK n \in Nat : n = Len(T)
    BY DEF Shaped
  <2> HIDE DEF P
  <2>2. PICK f : f = [g \in 1..n |-> P(g)]
    OBVIOUS
  <2>3. \A g \in 1..n : f[g] = P(g)
    BY <2>2
  <2>4. Places(T) = UNION {f[g] : g \in 1..n}
    BY <2>1, <2>3, <1>4
  <2>5. \A g \in 1..n : IsFiniteSet(f[g])
    BY <2>1, <2>3, <1>3
  <2> QED
    BY <2>4, <2>5, FiniteUnion
<1> QED
  BY <1>1, <1>5

\* Keys are numbers.
LEMMA KeyFact == \A k \in Keys \cup {0} : k \in Nat
<1>1. \A k \in Keys : k \in Nat
  BY ConstantFacts, Zenon
<1> QED
  BY <1>1

\* The entries of a tree are entries.
LEMMA AtFact ==
  ASSUME NEW T \in Seq(GroupSet), NEW q \in Places(T)
  PROVE  /\ At(T, q) \in EntrySet /\ At(T, q).key \in Keys \cup {0} /\ At(T, q).key \in Nat /\ At(T, q).b \in Buckets
         /\ At(T, q).b.kv \in Seq(Records) /\ Len(At(T, q).b.kv) \in Nat
         /\ Held(At(T, q).b) \subseteq Nat
         /\ q \in Triples /\ q[1] \in 1..Len(T) /\ q[2] \in 1..Len(T[q[1]].pbs) /\ q[3] \in 1..Len(T[q[1]].pbs[q[2]])
<1>1. IsPlace(T, q[1], q[2], q[3])
  BY PlaceFact
<1>2. At(T, q) \in EntrySet
  BY <1>1, GroupFact DEF IsPlace, At
<1>3. At(T, q).key \in Keys \cup {0} /\ At(T, q).b \in Buckets
  BY <1>2 DEF EntrySet
<1>4. PICK b \in Buckets : b = At(T, q).b
  BY <1>3
<1>5. b.kv \in Seq(Records) /\ b.slot \in Keys \cup {0}
  BY DEF Buckets
<1>6. \A j \in 1..Len(b.kv) : b.kv[j][1] \in Keys
  BY <1>5 DEF Records
<1>7. Held(b) \subseteq Nat
  <2>1. CASE b.kv = <<>>
    BY <2>1, <1>5, KeyFact DEF Held
  <2>2. CASE b.kv # <<>>
    <3>1. Held(b) = {b.kv[j][1] : j \in 1..Len(b.kv)}
      BY <2>2, Zenon DEF Held
    <3>2. \A x \in Held(b) : x \in Keys
      BY <3>1, <1>6, Zenon
    <3> QED
      BY <3>2, KeyFact
  <2> QED
    BY <2>1, <2>2
<1>8. q \in Triples
  BY PlacesFinite, GroupFact
<1>9. At(T, q).key \in Nat
  BY <1>3, KeyFact
<1>10. b.kv \in Seq(Records) /\ Len(b.kv) \in Nat
  BY <1>5
<1> QED
  BY <1>1, <1>2, <1>3, <1>4, <1>7, <1>8, <1>9, <1>10, Zenon DEF IsPlace

----------------------------------------------------------------------------
(* The searches.                                                           *)

\* Find_pos in ascending keys.
LEMMA FindPosFact ==
  ASSUME NEW pb \in Seq(EntrySet), Len(pb) >= 1, NEW k \in Nat,
         \A i, j \in 1..Len(pb) : i < j => pb[i].key <= pb[j].key
  PROVE  /\ FindPos(pb, k) \in 1..Len(pb)
         /\ \A i \in 1..Len(pb) : i > FindPos(pb, k) => k < pb[i].key
         /\ pb[FindPos(pb, k)].key <= k \/ (FindPos(pb, k) = 1 /\ k < pb[1].key)
<1>1. PICK n \in Nat : n = Len(pb) /\ n >= 1
  OBVIOUS
<1>2. PICK f : f = [i \in 1..n |-> pb[i].key]
  OBVIOUS
<1>3. \A i \in 1..n : f[i] \in Nat /\ pb[i].key = f[i]
  <2>1. \A i \in 1..n : pb[i] \in EntrySet
    BY <1>1
  <2>2. \A i \in 1..n : pb[i].key \in Keys \cup {0}
    BY <2>1 DEF EntrySet
  <2>3. \A i \in 1..n : pb[i].key \in Nat
    BY <2>2, KeyFact
  <2> QED
    BY <1>2, <2>3
<1>4. \A i, j \in 1..n : i < j => f[i] <= f[j]
  BY <1>1, <1>3
<1>5. PICK above : above = {i \in 1..n : f[i] > k}
  OBVIOUS
<1>6. above = {i \in 1..Len(pb) : pb[i].key > k}
  BY <1>1, <1>3, <1>5
<1>7. PICK x : x = FindPos(pb, k)
  OBVIOUS
<1>8. CASE above = {}
  <2>1. x = n
    BY <1>1, <1>6, <1>7, <1>8 DEF FindPos
  <2>2. f[n] <= k
    BY <1>1, <1>3, <1>5, <1>8
  <2> QED
    BY <1>1, <1>3, <1>7, <2>1, <2>2
<1>9. CASE above # {}
  <2>1. PICK m : m = Min(above)
    OBVIOUS
  <2>2. m \in 1..n /\ f[m] > k /\ \A y \in 1..n : f[y] > k => m <= y
    <3>1. above \in SUBSET Nat
      BY <1>5
    <3>2. m \in above /\ \A y \in above : m <= y
      BY <2>1, <3>1, <1>9, LeastFact
    <3> QED
      BY <3>2, <1>5
  <2>3. x = IF m - 1 = 0 THEN 1 ELSE m - 1
    BY <2>1, <1>6, <1>7, <1>9 DEF FindPos
  <2>4. \A i \in 1..n : i >= m => f[i] > k
    BY <2>2, <1>3, <1>4
  <2>5. CASE m = 1
    BY <2>3, <2>4, <2>5, <2>2, <1>1, <1>3, <1>7
  <2>6. CASE m # 1
    <3>1. x = m - 1 /\ x \in 1..n
      BY <2>3, <2>6, <2>2
    <3>2. f[x] <= k
      BY <3>1, <2>2, <1>3
    <3>3. \A i \in 1..n : i > x => f[i] > k
      BY <3>1, <2>2, <2>4
    <3> QED
      BY <3>1, <3>2, <3>3, <1>1, <1>3, <1>7
  <2> QED
    BY <2>5, <2>6
<1> QED
  BY <1>8, <1>9

\* find_entry: the last PointerBEntry whose key is not above k, or the first.
LEMMA FindEntryFact ==
  ASSUME NEW g, Len(g.pbs) \in Nat, Len(g.pbs) >= 1, NEW k \in Nat,
         \A p \in 1..Len(g.pbs) : g.pbs[p][1].key \in Nat
  PROVE  /\ FindEntry(g, k) \in 1..Len(g.pbs)
         /\ \A p \in 1..Len(g.pbs) : p > FindEntry(g, k) => k < g.pbs[p][1].key
         /\ g.pbs[FindEntry(g, k)][1].key <= k \/ FindEntry(g, k) = 1
<1>1. PICK n \in Nat : n = Len(g.pbs) /\ n >= 1
  OBVIOUS
<1>2. PICK f : f = [p \in 1..n |-> g.pbs[p][1].key]
  OBVIOUS
<1>3. \A p \in 1..n : f[p] \in Nat /\ g.pbs[p][1].key = f[p]
  BY <1>1, <1>2
<1>4. PICK S : S = {1} \cup {p \in 1..n : f[p] <= k}
  OBVIOUS
<1>5. {1} \cup {p \in 1..Len(g.pbs) : g.pbs[p][1].key <= k} = S
  BY <1>1, <1>3, <1>4
<1>6. PICK x : x = FindEntry(g, k)
  OBVIOUS
<1>7. x = Max(S)
  BY <1>5, <1>6, Zenon DEF FindEntry
<1>8. S \in SUBSET Nat /\ S # {} /\ \A s \in S : s <= n
  BY <1>1, <1>4
<1>9. x \in S /\ \A y \in S : y <= x
  BY <1>7, <1>8, GreatestFact
<1>10. x \in 1..n /\ (f[x] <= k \/ x = 1)
  BY <1>9, <1>4, <1>1
<1>11. \A p \in 1..n : p > x => k < f[p]
  BY <1>9, <1>4, <1>3, <1>10
<1> QED
  BY <1>1, <1>3, <1>6, <1>10, <1>11

\* The place of a key in a group: the last that is not above it, or the leading one.
IsSpot(T, g, q, k) ==
  /\ q \in Places(T) /\ q[1] = g
  /\ \A r \in Places(T) : r[1] = g /\ Before(q, r) => k < At(T, r).key
  /\ At(T, q).key <= k \/ Leads(q)

\* There is one such place.
LEMMA SpotUnique ==
  ASSUME NEW T \in Seq(GroupSet), NEW g, NEW q, NEW r, NEW k \in Nat,
         IsSpot(T, g, q, k), IsSpot(T, g, r, k)
  PROVE  q = r
<1>1. q \in Triples /\ r \in Triples /\ At(T, q).key \in Nat /\ At(T, r).key \in Nat
  BY AtFact, Zenon DEF IsSpot
<1>2. q[2] >= 1 /\ q[3] >= 1 /\ r[2] >= 1 /\ r[3] >= 1
  BY AtFact DEF IsSpot
<1>3. Leads(q) => ~Before(r, q)
  BY <1>1, <1>2 DEF IsSpot, Leads, Before, Triples
<1>4. Leads(r) => ~Before(q, r)
  BY <1>1, <1>2 DEF IsSpot, Leads, Before, Triples
<1>5. ~Before(q, r)
  BY <1>1, <1>4 DEF IsSpot
<1>6. ~Before(r, q)
  BY <1>1, <1>3 DEF IsSpot
<1> QED
  BY <1>1, <1>5, <1>6, BeforeFact

\* The entries of a group ascend.
LEMMA KeysAscend ==
  ASSUME NEW T \in Seq(GroupSet), Formed(T), Sorted(T), NEW g \in 1..Len(T)
  PROVE  /\ \A p \in 1..Len(T[g].pbs) : Len(T[g].pbs[p]) >= 1 /\ IsPlace(T, g, p, 1)
         /\ \A p \in 1..Len(T[g].pbs) : \A i \in 1..Len(T[g].pbs[p]) : T[g].pbs[p][i].key \in Nat
         /\ \A p \in 1..Len(T[g].pbs) : \A i, j \in 1..Len(T[g].pbs[p]) :
              i < j => T[g].pbs[p][i].key <= T[g].pbs[p][j].key
         /\ \A o, p \in 1..Len(T[g].pbs) : \A i \in 1..Len(T[g].pbs[o]), j \in 1..Len(T[g].pbs[p]) :
              o < p => T[g].pbs[o][i].key <= T[g].pbs[p][j].key
<1>1. \A p \in 1..Len(T[g].pbs) : Len(T[g].pbs[p]) \in Nat /\ Len(T[g].pbs[p]) >= 1
  <2>1. \A p \in 1..Len(T[g].pbs) : Len(T[g].pbs[p]) \in 1..PbCount
    BY DEF Formed
  <2> QED
    BY <2>1, ConstantFacts
<1>2. \A p \in 1..Len(T[g].pbs) : IsPlace(T, g, p, 1)
  BY <1>1 DEF IsPlace
<1>3. \A p \in 1..Len(T[g].pbs) : \A i \in 1..Len(T[g].pbs[p]) : <<g, p, i>> \in Places(T) /\ At(T, <<g, p, i>>) = T[g].pbs[p][i]
  BY PlaceFact DEF IsPlace
<1>4. \A p \in 1..Len(T[g].pbs) : \A i \in 1..Len(T[g].pbs[p]) : T[g].pbs[p][i].key \in Nat
  BY <1>3, AtFact
<1>5. \A p \in 1..Len(T[g].pbs) : \A i, j \in 1..Len(T[g].pbs[p]) :
              i < j => T[g].pbs[p][i].key <= T[g].pbs[p][j].key
  <2> SUFFICES ASSUME NEW p \in 1..Len(T[g].pbs), NEW i \in 1..Len(T[g].pbs[p]), NEW j \in 1..Len(T[g].pbs[p]), i < j
               PROVE  T[g].pbs[p][i].key <= T[g].pbs[p][j].key
    OBVIOUS
  <2>1. Before(<<g, p, i>>, <<g, p, j>>)
    BY DEF Before
  <2> QED
    BY <2>1, <1>3 DEF Sorted
<1>6. \A o, p \in 1..Len(T[g].pbs) : \A i \in 1..Len(T[g].pbs[o]), j \in 1..Len(T[g].pbs[p]) :
              o < p => T[g].pbs[o][i].key <= T[g].pbs[p][j].key
  <2> SUFFICES ASSUME NEW o \in 1..Len(T[g].pbs), NEW p \in 1..Len(T[g].pbs), o < p,
                      NEW i \in 1..Len(T[g].pbs[o]), NEW j \in 1..Len(T[g].pbs[p])
               PROVE  T[g].pbs[o][i].key <= T[g].pbs[p][j].key
    OBVIOUS
  <2>1. Before(<<g, o, i>>, <<g, p, j>>)
    BY DEF Before
  <2> QED
    BY <2>1, <1>3 DEF Sorted
<1> QED
  BY <1>1, <1>2, <1>4, <1>5, <1>6

\* Where a call looks in a group.
SpotOf(T, g, k) == <<g, Place(T[g], k)[1], Place(T[g], k)[2]>>

\* find_entry and Find_pos find the last entry of the group that is not above the key, or its first.
LEMMA PlaceSpot ==
  ASSUME NEW T \in Seq(GroupSet), Formed(T), Sorted(T), NEW g \in 1..Len(T), T[g].pbs # <<>>, NEW k \in Nat
  PROVE  IsSpot(T, g, SpotOf(T, g, k), k)
<1>1. PICK G \in GroupSet : G = T[g]
  BY GroupFact
<1>2. G.pbs \in Seq(Seq(EntrySet)) /\ Len(G.pbs) \in Nat /\ Len(G.pbs) >= 1
  BY <1>1 DEF GroupSet
<1>3. /\ \A p \in 1..Len(G.pbs) : Len(G.pbs[p]) >= 1 /\ IsPlace(T, g, p, 1)
      /\ \A p \in 1..Len(G.pbs) : \A i \in 1..Len(G.pbs[p]) : G.pbs[p][i].key \in Nat
      /\ \A p \in 1..Len(G.pbs) : \A i, j \in 1..Len(G.pbs[p]) : i < j => G.pbs[p][i].key <= G.pbs[p][j].key
      /\ \A o, p \in 1..Len(G.pbs) : \A i \in 1..Len(G.pbs[o]), j \in 1..Len(G.pbs[p]) :
              o < p => G.pbs[o][i].key <= G.pbs[p][j].key
  BY <1>1, KeysAscend, ZenonT(60)
<1>4. \A p \in 1..Len(G.pbs) : G.pbs[p] \in Seq(EntrySet) /\ Len(G.pbs[p]) \in Nat /\ 1 \in 1..Len(G.pbs[p])
  BY <1>1, <1>3, GroupFact
<1>5. PICK p : p = FindEntry(G, k)
  OBVIOUS
<1>6. \A o \in 1..Len(G.pbs) : G.pbs[o][1].key \in Nat
  BY <1>3, <1>4
<1>7. /\ p \in 1..Len(G.pbs)
      /\ \A o \in 1..Len(G.pbs) : o > p => k < G.pbs[o][1].key
      /\ G.pbs[p][1].key <= k \/ p = 1
  BY <1>2, <1>5, <1>6, FindEntryFact
<1>8. PICK i : i = FindPos(G.pbs[p], k)
  OBVIOUS
<1>9. /\ i \in 1..Len(G.pbs[p])
      /\ \A j \in 1..Len(G.pbs[p]) : j > i => k < G.pbs[p][j].key
      /\ G.pbs[p][i].key <= k \/ (i = 1 /\ k < G.pbs[p][1].key)
  <2>1. PICK pb : pb = G.pbs[p]
    OBVIOUS
  <2>2. pb \in Seq(EntrySet) /\ Len(pb) >= 1 /\ \A a, b \in 1..Len(pb) : a < b => pb[a].key <= pb[b].key
    BY <2>1, <1>3, <1>4, <1>7
  <2>3. /\ i \in 1..Len(pb)
        /\ \A j \in 1..Len(pb) : j > i => k < pb[j].key
        /\ pb[i].key <= k \/ (i = 1 /\ k < pb[1].key)
    BY <2>1, <2>2, <1>8, FindPosFact
  <2> QED
    BY <2>1, <2>3
<1>10. PICK q : q = <<g, p, i>>
  OBVIOUS
<1>11. SpotOf(T, g, k) = q
  BY <1>1, <1>5, <1>8, <1>10 DEF SpotOf, Place
<1>12. q \in Places(T) /\ q[1] = g /\ At(T, q) = G.pbs[p][i]
  BY <1>1, <1>7, <1>9, <1>10, PlaceFact DEF IsPlace
<1>13. At(T, q).key <= k \/ Leads(q)
  <2>1. CASE G.pbs[p][i].key <= k
    BY <2>1, <1>12
  <2>2. CASE i = 1 /\ k < G.pbs[p][1].key
    <3>1. p = 1
      BY <2>2, <1>7, <1>6
    <3> QED
      BY <3>1, <2>2, <1>10 DEF Leads
  <2> QED
    BY <2>1, <2>2, <1>9
<1>14. ASSUME NEW r \in Places(T), r[1] = g, Before(q, r) PROVE k < At(T, r).key
  <2>1. PICK o, j : r = <<g, o, j>> /\ IsPlace(T, g, o, j)
    BY <1>14, PlaceFact
  <2>2. o \in 1..Len(G.pbs) /\ j \in 1..Len(G.pbs[o]) /\ At(T, r) = G.pbs[o][j]
    BY <2>1, <1>1, PlaceFact DEF IsPlace
  <2>3. p < o \/ (p = o /\ i < j)
    BY <1>14, <1>10, <2>1 DEF Before
  <2>4. CASE p = o /\ i < j
    BY <2>4, <2>2, <1>9
  <2>5. CASE p < o
    <3>1. k < G.pbs[o][1].key
      BY <2>5, <2>2, <1>7
    <3>2. G.pbs[o][1].key <= G.pbs[o][j].key
      BY <2>2, <1>3, <1>4
    <3>3. G.pbs[o][1].key \in Nat /\ G.pbs[o][j].key \in Nat
      BY <2>2, <1>3, <1>4
    <3> QED
      BY <3>1, <3>2, <3>3, <2>2, SMTT(60)
  <2> QED
    BY <2>3, <2>4, <2>5
<1> QED
  BY <1>11, <1>12, <1>13, <1>14 DEF IsSpot

\* A group that is not empty has a leading entry, with the least key of the group.
LEMMA LeadFact ==
  ASSUME NEW T \in Seq(GroupSet), Formed(T), Sorted(T)
  PROVE  /\ \A g \in 1..Len(T) : T[g].pbs # <<>> =>
              /\ <<g, 1, 1>> \in Places(T) /\ At(T, <<g, 1, 1>>) = T[g].pbs[1][1]
              /\ T[g].pbs[1][1].key \in Nat
         /\ \A r \in Places(T) : r[1] \in 1..Len(T) /\ T[r[1]].pbs # <<>> /\ T[r[1]].pbs[1][1].key <= At(T, r).key
<1>1. ASSUME NEW g \in 1..Len(T), T[g].pbs # <<>>
      PROVE  /\ <<g, 1, 1>> \in Places(T) /\ At(T, <<g, 1, 1>>) = T[g].pbs[1][1]
             /\ T[g].pbs[1][1].key \in Nat
  <2>1. 1 \in 1..Len(T[g].pbs)
    BY <1>1, GroupFact
  <2>2. IsPlace(T, g, 1, 1)
    BY <2>1, KeysAscend
  <2>3. <<g, 1, 1>> \in Places(T) /\ At(T, <<g, 1, 1>>) = T[g].pbs[1][1]
    BY <2>2, PlaceFact
  <2> QED
    BY <2>3, AtFact
<1>2. ASSUME NEW r \in Places(T)
      PROVE  r[1] \in 1..Len(T) /\ T[r[1]].pbs # <<>> /\ T[r[1]].pbs[1][1].key <= At(T, r).key
  <2>1. r \in Triples /\ r[1] \in 1..Len(T) /\ r[2] \in 1..Len(T[r[1]].pbs) /\ r[3] \in 1..Len(T[r[1]].pbs[r[2]]) /\ At(T, r).key \in Nat
    BY AtFact
  <2>2. T[r[1]].pbs # <<>>
    BY <2>1
  <2>3. <<r[1], 1, 1>> \in Places(T) /\ At(T, <<r[1], 1, 1>>) = T[r[1]].pbs[1][1] /\ T[r[1]].pbs[1][1].key \in Nat
    BY <2>1, <2>2, <1>1
  <2>4. r = <<r[1], 1, 1>> \/ Before(<<r[1], 1, 1>>, r)
    BY <2>1 DEF Before, Triples
  <2>5. Before(<<r[1], 1, 1>>, r) => At(T, <<r[1], 1, 1>>).key <= At(T, r).key
    BY <2>3 DEF Sorted
  <2>6. T[r[1]].pbs[1][1].key <= At(T, r).key
    <3>1. CASE r = <<r[1], 1, 1>>
      <4>1. At(T, r).key = T[r[1]].pbs[1][1].key
        BY <3>1, <2>3, Zenon
      <4> QED
        BY <4>1, <2>1, SMTT(60)
    <3>2. CASE Before(<<r[1], 1, 1>>, r)
      BY <3>2, <2>5, <2>3, Zenon
    <3> QED
      BY <3>1, <3>2, <2>4
  <2> QED
    BY <2>1, <2>2, <2>6
<1> QED
  BY <1>1, <1>2

\* A key that fits into a group is in front of what follows its place in the group.
LEMMA FitsSpot ==
  ASSUME NEW T \in Seq(GroupSet), Formed(T), Sorted(T), NEW M, NEW g, NEW k \in Nat,
         Fits(T, M, g, k)
  PROVE  LET q == SpotOf(T, g, k)
         IN  /\ IsSpot(T, g, q, k) /\ q \in Places(T) /\ q[1] = g /\ (At(T, q).key <= k \/ Leads(q))
             /\ \A r \in Places(T) : Before(q, r) => k < At(T, r).key
<1>1. PICK q : q = SpotOf(T, g, k)
  OBVIOUS
<1>2. g \in 1..Len(T) /\ T[g].pbs # <<>>
  BY DEF Fits
<1>3. IsSpot(T, g, q, k)
  BY <1>1, <1>2, PlaceSpot
<1>4. q \in Places(T) /\ q[1] = g /\ (At(T, q).key <= k \/ Leads(q)) /\ \A r \in Places(T) : r[1] = g /\ Before(q, r) => k < At(T, r).key
  BY <1>3 DEF IsSpot
<1>5. \A r \in Places(T) : r[1] > g => k < At(T, r).key
  BY DEF Fits
<1>6. ASSUME NEW r \in Places(T), Before(q, r) PROVE k < At(T, r).key
  <2>1. q \in Triples /\ r \in Triples
    BY <1>4, AtFact
  <2>2. r[1] = g \/ r[1] > g
    BY <2>1, <1>6, <1>4 DEF Triples, Before
  <2> QED
    BY <2>2, <1>4, <1>5, <1>6
<1> QED
  BY <1>1, <1>3, <1>4, <1>6

\* A group with a key not above k, or the first one, is where k is at home.
LEMMA FitsHome ==
  ASSUME NEW T \in Seq(GroupSet), Formed(T), Sorted(T), NEW M, NEW g, NEW k \in Nat,
         Fits(T, M, g, k), T[g].pbs[1][1].key <= k \/ \A r \in Places(T) : r[1] >= g
  PROVE  IsHome(T, SpotOf(T, g, k), k)
<1>1. PICK q : q = SpotOf(T, g, k)
  OBVIOUS
<1>2. /\ q \in Places(T) /\ q[1] = g /\ (At(T, q).key <= k \/ Leads(q))
      /\ \A r \in Places(T) : Before(q, r) => k < At(T, r).key
  BY <1>1, FitsSpot
<1>3. CASE At(T, q).key <= k
  BY <1>1, <1>2, <1>3 DEF IsHome
<1>4. CASE Leads(q)
  <2>1. q \in Triples
    BY <1>2, AtFact
  <2>2. q = <<g, 1, 1>>
    BY <1>2, <1>4, <2>1 DEF Triples, Leads
  <2>3. At(T, q).key = T[g].pbs[1][1].key
    BY <2>2, PlaceFact
  <2>4. CASE T[g].pbs[1][1].key <= k
    BY <2>3, <2>4, <1>1, <1>2 DEF IsHome
  <2>5. CASE \A r \in Places(T) : r[1] >= g
    <3>1. ASSUME NEW r \in Places(T) PROVE ~Before(r, q)
      <4>1. r \in Triples /\ r[1] >= g /\ r[2] >= 1 /\ r[3] >= 1
        BY <2>5, AtFact
      <4>2. g \in Nat
        BY <2>1, <1>2 DEF Triples
      <4> QED
        BY <4>1, <4>2, <2>2 DEF Before, Triples
    <3> QED
      BY <3>1, <1>1, <1>2 DEF IsHome, First
  <2> QED
    BY <2>4, <2>5
<1> QED
  BY <1>2, <1>3, <1>4

\* The groups beyond the prediction are above the key.
LEMMA BeyondPrediction ==
  ASSUME NEW T \in Seq(GroupSet), NEW M, Sound(T, M), NEW k \in Keys,
         NEW g \in 1..Len(T), T[g].pbs # <<>>, NEW h \in 1..Len(T), T[h].pbs # <<>>, g < h, M[k] < h
  PROVE  k < T[h].pbs[1][1].key
<1>1. <<h, 1, 1>> \in Places(T) /\ At(T, <<h, 1, 1>>) = T[h].pbs[1][1] /\ <<g, 1, 1>> \in Places(T) /\ T[h].pbs[1][1].key \in Nat
  BY LeadFact DEF Sound
<1>2. PICK x : x = T[h].pbs[1][1].key
  OBVIOUS
<1>3. Before(<<g, 1, 1>>, <<h, 1, 1>>)
  BY DEF Before
<1>4. ~First(T, <<h, 1, 1>>)
  BY <1>1, <1>3 DEF First
<1>5. x \in Keys
  BY <1>1, <1>2, <1>4 DEF Sound, Keyed
<1>6. h <= M[x]
  <2>1. Leads(<<h, 1, 1>>)
    BY DEF Leads
  <2>2. <<h, 1, 1>>[1] = h
    OBVIOUS
  <2> QED
    BY <1>1, <1>2, <1>4, <2>1, <2>2 DEF Sound, Routed
<1>7. M \in [Keys -> 1..Len(T)] /\ \A i, j \in Keys : i <= j => M[i] <= M[j]
  BY DEF Sound, Monotone
<1>8. M[x] \in Nat /\ M[k] \in Nat /\ x \in Nat /\ k \in Nat
  BY <1>5, <1>7, KeyFact
<1>9. x <= k => M[x] <= M[k]
  BY <1>5, <1>7
<1> QED
  BY <1>2, <1>6, <1>8, <1>9

\* find_group finds the group of the key's home.
LEMMA FindGroupFits ==
  ASSUME NEW k \in Keys, tree \in Seq(GroupSet), Sound(tree, model)
  PROVE  Fits(tree, model, FindGroup(k), k) /\ IsHome(tree, SpotOf(tree, FindGroup(k), k), k)
<1>1. PICK T \in Seq(GroupSet) : T = tree
  OBVIOUS
<1>2. PICK M : M = model
  OBVIOUS
<1>3. Sound(T, M) /\ Formed(T) /\ Sorted(T) /\ k \in Nat
  BY <1>1, <1>2, KeyFact DEF Sound
<1>16. PICK n \in Nat : n = Len(T)
  OBVIOUS
<1>17. PICK m \in 1..n : m = M[k]
  BY <1>3, <1>16 DEF Sound, Monotone
<1>4. n = Len(T) /\ m = M[k]
  BY <1>16, <1>17
<1> DEFINE Full(g) == T[g].pbs # <<>>
           Key(g) == T[g].pbs[1][1].key
<1>5. PICK fits : fits = {g \in 1..m : Full(g) /\ Key(g) <= k}
  OBVIOUS
<1>6. PICK stop : stop = IF fits = {} THEN 1 ELSE Max(fits)
  OBVIOUS
<1>7. PICK behind : behind = {g \in stop..n : Full(g)}
  OBVIOUS
<1>8. PICK g : g = FindGroup(k)
  OBVIOUS
<1>9. g = Min(behind)
  BY <1>1, <1>2, <1>4, <1>5, <1>6, <1>7, <1>8, Zenon DEF FindGroup
<1>10. \A h \in 1..n : Full(h) => Key(h) \in Nat /\ <<h, 1, 1>> \in Places(T) /\ At(T, <<h, 1, 1>>).key = Key(h)
  BY <1>3, <1>4, LeadFact
<1>11. \A r \in Places(T) : r[1] \in 1..n /\ Full(r[1]) /\ Key(r[1]) <= At(T, r).key
  BY <1>3, <1>4, LeadFact
<1>12. \A i \in 1..n, h \in 1..n : Full(i) /\ Full(h) /\ i < h /\ m < h => k < Key(h)
  BY <1>3, <1>4, BeyondPrediction
<1>13. \A r \in Places(T) : At(T, r).key \in Nat /\ Held(At(T, r).b) \subseteq Nat /\ r \in Triples
  BY AtFact
<1> HIDE DEF Full, Key
<1>18. k \in Nat /\ m \in Nat /\ \A r \in Places(T) : Key(r[1]) \in Nat /\ At(T, r).key \in Nat
  <2>1. k \in Nat /\ m \in Nat
    BY <1>3
  <2>2. ASSUME NEW r \in Places(T) PROVE Key(r[1]) \in Nat
    BY <1>10, <1>11
  <2> QED
    BY <2>1, <2>2, <1>13
<1>19. \A r \in Places(T) : k < Key(r[1]) => k < At(T, r).key
  BY <1>11, <1>18
<1>20. \A r \in Places(T) : r[1] <= m /\ r[1] \notin fits => k < Key(r[1])
  <2> SUFFICES ASSUME NEW r \in Places(T), r[1] <= m, r[1] \notin fits PROVE k < Key(r[1])
    OBVIOUS
  <2>1. r[1] \in 1..m /\ Full(r[1])
    BY <1>11, <1>18
  <2>2. ~(Key(r[1]) <= k)
    BY <2>1, <1>5
  <2> QED
    BY <2>2, <1>18
<1>14. CASE fits # {}
  <2>1. fits \in SUBSET Nat /\ \A s \in fits : s <= m
    BY <1>5
  <2>2. stop \in fits /\ \A y \in fits : y <= stop
    BY <1>6, <1>14, <2>1, <1>18, GreatestFact
  <2>3. stop \in 1..m /\ Full(stop) /\ Key(stop) <= k
    BY <2>2, <1>5
  <2>4. behind \in SUBSET Nat /\ stop \in behind /\ \A y \in behind : stop <= y
    BY <1>7, <2>3
  <2>5. g \in behind /\ g <= stop
    BY <1>9, <2>4, LeastFact
  <2>6. g = stop /\ g \in 1..n
    BY <2>3, <2>4, <2>5
  <2>7. ASSUME NEW r \in Places(T), r[1] > g PROVE k < At(T, r).key
    <3>1. k < Key(r[1])
      <4>1. CASE r[1] <= m
        <5>1. r[1] \notin fits
          BY <2>2, <2>6, <2>7, <1>11
        <5> QED
          BY <5>1, <4>1, <1>20
      <4>2. CASE m < r[1]
        BY <4>2, <2>3, <2>6, <2>7, <1>11, <1>12
      <4> QED
        BY <4>1, <4>2, <1>11
    <3> QED
      BY <3>1, <1>19
  <2>8. ASSUME NEW r \in Places(T), r[1] < g PROVE At(T, r).key <= k /\ \A x \in Held(At(T, r).b) : x <= k
    <3>1. <<g, 1, 1>> \in Places(T) /\ At(T, <<g, 1, 1>>).key = Key(g) /\ Key(g) \in Nat
      BY <2>3, <2>6, <1>10
    <3>2. Before(r, <<g, 1, 1>>)
      BY <2>8, <1>13 DEF Before, Triples
    <3>3. At(T, r).key <= Key(g) /\ \A x \in Held(At(T, r).b) : x <= Key(g)
      BY <1>3, <3>1, <3>2 DEF Sorted
    <3>4. Key(g) <= k
      BY <2>3, <2>6
    <3>5. At(T, r).key \in Nat /\ \A x \in Held(At(T, r).b) : x \in Nat
      BY <1>13
    <3> QED
      BY <3>1, <3>3, <3>4, <3>5, <1>18
  <2>9. Fits(T, M, g, k)
    BY <2>3, <2>6, <2>7, <2>8, <1>4 DEF Fits, Full
  <2>10. T[g].pbs[1][1].key <= k
    BY <2>3, <2>6 DEF Key
  <2>11. IsHome(T, SpotOf(T, g, k), k)
    BY <2>9, <2>10, <1>3, FitsHome
  <2> QED
    BY <2>9, <2>11, <1>1, <1>2, <1>8
<1>15. CASE fits = {}
  <2>1. behind \in SUBSET Nat /\ \A h \in 1..n : Full(h) => h \in behind
    BY <1>6, <1>7, <1>15
  <2>2. behind # {}
    BY <2>1, <1>3, <1>11 DEF Formed
  <2>3. g \in behind /\ \A y \in behind : g <= y
    BY <1>9, <2>1, <2>2, LeastFact
  <2>4. g \in 1..n /\ Full(g)
    BY <2>3, <1>6, <1>7, <1>15
  <2>5. \A r \in Places(T) : r[1] >= g
    BY <2>1, <2>3, <2>4, <1>11
  <2>7. ASSUME NEW r \in Places(T), r[1] > g PROVE k < At(T, r).key
    <3>1. k < Key(r[1])
      <4>1. CASE r[1] <= m
        BY <4>1, <1>15, <1>20
      <4>2. CASE m < r[1]
        BY <4>2, <2>4, <2>7, <1>11, <1>12
      <4> QED
        BY <4>1, <4>2, <1>11
    <3> QED
      BY <3>1, <1>19
  <2>8. \A r \in Places(T) : ~(r[1] < g)
    BY <2>4, <2>5, <1>11
  <2>9. Fits(T, M, g, k)
    BY <2>4, <2>5, <2>7, <2>8, <1>4 DEF Fits, Full
  <2>11. IsHome(T, SpotOf(T, g, k), k)
    BY <2>9, <2>5, <1>3, FitsHome
  <2> QED
    BY <2>9, <2>11, <1>1, <1>2, <1>8
<1> QED
  BY <1>14, <1>15

\* Get of a bucket: a record of the key, if there is one.
LEMMA BucketGetFact ==
  ASSUME NEW b \in Buckets, NEW k
  PROVE  /\ BucketGet(b, k) \in Values \cup {None}
         /\ BucketGet(b, k) = None => \A j \in 1..Len(b.kv) : b.kv[j][1] # k
         /\ BucketGet(b, k) # None =>
              \E j \in 1..Len(b.kv) : b.kv[j][1] = k /\ b.kv[j][2] = BucketGet(b, k)
<1>1. b.kv \in Seq(Records)
  BY DEF Buckets
<1>2. \A j \in 1..Len(b.kv) : b.kv[j][2] \in Values
  BY <1>1 DEF Records
<1>3. CASE Slots(b, k) = {}
  BY <1>3 DEF BucketGet, Slots
<1>4. CASE Slots(b, k) # {}
  <2>1. Slots(b, k) \in SUBSET Nat
    BY <1>1 DEF Slots
  <2>2. PICK m : m = Min(Slots(b, k))
    OBVIOUS
  <2>3. m \in Slots(b, k)
    BY <2>1, <2>2, <1>4, LeastFact
  <2>4. m \in 1..Len(b.kv) /\ b.kv[m][1] = k
    BY <2>3, Zenon DEF Slots
  <2>5. BucketGet(b, k) = b.kv[m][2]
    BY <2>2, <1>4 DEF BucketGet
  <2>6. BucketGet(b, k) \in Values /\ BucketGet(b, k) # None
    BY <2>4, <2>5, <1>2, ConstantFacts
  <2> QED
    BY <2>4, <2>5, <2>6
<1> QED
  BY <1>3, <1>4

\* What a lookup may answer when the map holds x.
Answers(y, x, P) ==
  /\ y \in Values \cup {None}
  /\ x = None => y = None
  /\ x \in Values => y = x
  /\ x = Unknown /\ P => y # None

\* The bucket at the home of a key has the answer, and no bucket a wrong one.
LEMMA HomeAnswers ==
  ASSUME NEW T \in Seq(GroupSet), NEW k \in Keys, NEW x \in Values \cup {None, Unknown}, NEW P, Holds(T, k, x, P),
         NEW q \in Places(T)
  PROVE  LET y == BucketGet(At(T, q).b, k)
         IN  /\ IsHome(T, q, k) => Answers(y, x, P)
             /\ y # None => Answers(y, x, P)
<1>1. PICK b \in Buckets : b = At(T, q).b
  BY AtFact
<1>2. PICK y : y = BucketGet(b, k)
  OBVIOUS
<1>3. /\ y \in Values \cup {None}
      /\ y = None => \A j \in 1..Len(b.kv) : b.kv[j][1] # k
      /\ y # None => \E j \in 1..Len(b.kv) : b.kv[j][1] = k /\ b.kv[j][2] = y
  BY <1>2, BucketGetFact
<1>4. \A j : IsRecord(T, q, j, k) <=> j \in 1..Len(b.kv) /\ b.kv[j][1] = k
  BY <1>1 DEF IsRecord
<1>5. \A r : IsHome(T, q, k) /\ IsHome(T, r, k) => r = q
  <2> SUFFICES ASSUME NEW r, IsHome(T, q, k), IsHome(T, r, k) PROVE r = q
    OBVIOUS
  <2>1. r \in Places(T)
    BY DEF IsHome
  <2>2. q \in Triples /\ r \in Triples /\ At(T, q).key \in Nat /\ At(T, r).key \in Nat /\ k \in Nat
    BY <2>1, AtFact, KeyFact
  <2>3. ~Before(q, r) /\ ~Before(r, q)
    BY <2>1, <2>2 DEF IsHome, First
  <2> QED
    BY <2>2, <2>3, BeforeFact
<1>6. CASE x = None
  <2>1. y = None
    BY <1>3, <1>4, <1>6 DEF Holds, Absent
  <2> QED
    BY <2>1, <1>1, <1>2, <1>3, <1>6, ConstantFacts DEF Answers
<1>7. CASE x \in Values
  <2>1. PICK r, j : /\ IsHome(T, r, k) /\ IsRecord(T, r, j, k) /\ At(T, r).b.kv[j][2] = x
                    /\ \A s, i : IsRecord(T, s, i, k) => s = r /\ i = j
    BY <1>7 DEF Holds, Alone
  <2>2. y # None => y = x
    BY <2>1, <1>1, <1>3, <1>4
  <2>3. IsHome(T, q, k) => y # None
    BY <2>1, <1>3, <1>4, <1>5
  <2>4. x # None /\ x # Unknown
    BY <1>7, ConstantFacts
  <2> QED
    BY <2>2, <2>3, <2>4, <1>1, <1>2, <1>3 DEF Answers
<1>8. CASE x = Unknown
  <2>1. x \notin Values /\ x # None
    BY <1>8, ConstantFacts
  <2>2. IsHome(T, q, k) /\ P => y # None
    <3> SUFFICES ASSUME IsHome(T, q, k), P PROVE y # None
      OBVIOUS
    <3>1. PICK r, j : IsHome(T, r, k) /\ IsRecord(T, r, j, k)
      BY <1>8 DEF Holds, Present
    <3> QED
      BY <3>1, <1>3, <1>4, <1>5
  <2> QED
    BY <2>1, <2>2, <1>1, <1>2, <1>3 DEF Answers
<1> QED
  BY <1>6, <1>7, <1>8

\* The bucket a call uses is that at its place.
LEMMA BucketOfFact ==
  ASSUME NEW T, NEW g, NEW k
  PROVE  BucketOf(T[g], k) = At(T, SpotOf(T, g, k)).b
BY DEF BucketOf, SpotOf, At

\* Get, and what Update and Delete find, is what the map holds.
LEMMA LookupAnswers ==
  ASSUME NEW k \in Keys, tree \in Seq(GroupSet), Sound(tree, model), NEW x \in Values \cup {None, Unknown}, NEW P,
         Holds(tree, k, x, P)
  PROVE  /\ Answers(GroupGet(FindGroup(k), k), x, P)
         /\ Answers(Lookup(k), x, P)
<1>1. Formed(tree) /\ Sorted(tree) /\ k \in Nat /\ model[k] \in 1..Len(tree)
  BY KeyFact DEF Sound, Monotone
<1>2. PICK q : q = SpotOf(tree, FindGroup(k), k)
  OBVIOUS
<1>3. IsHome(tree, q, k) /\ q \in Places(tree)
  BY <1>2, FindGroupFits, Zenon DEF IsHome
<1>4. GroupGet(FindGroup(k), k) = BucketGet(At(tree, q).b, k)
  BY <1>2, BucketOfFact DEF GroupGet
<1>5. Answers(GroupGet(FindGroup(k), k), x, P)
  BY <1>3, <1>4, HomeAnswers
<1>6. ASSUME FastAsks(k), GroupGet(model[k], k) # None PROVE Answers(GroupGet(model[k], k), x, P)
  <2>1. PICK g : g = model[k]
    OBVIOUS
  <2>2. PICK r : r = SpotOf(tree, g, k)
    OBVIOUS
  <2>3. IsSpot(tree, g, r, k)
    BY <2>1, <2>2, <1>1, <1>6, PlaceSpot DEF FastAsks
  <2>4. r \in Places(tree)
    BY <2>3 DEF IsSpot
  <2>5. GroupGet(g, k) = BucketGet(At(tree, r).b, k)
    BY <2>2, BucketOfFact DEF GroupGet
  <2> QED
    BY <2>1, <2>4, <2>5, <1>6, HomeAnswers
<1> QED
  BY <1>5, <1>6 DEF Lookup

----------------------------------------------------------------------------
(* Trees that differ in an entry.                                          *)

SameShape(T, U) ==
  /\ Len(U) = Len(T)
  /\ \A g \in 1..Len(T) :
       /\ U[g].next = T[g].next /\ Len(U[g].pbs) = Len(T[g].pbs)
       /\ \A p \in 1..Len(T[g].pbs) : Len(U[g].pbs[p]) = Len(T[g].pbs[p])

\* Trees of the same shape have the same places.
LEMMA SamePlaces ==
  ASSUME NEW T, NEW U, SameShape(T, U)
  PROVE  Places(U) = Places(T) /\ \A g : PlacesIn(U, g) = PlacesIn(T, g)
<1>1. \A g, p, i : IsPlace(U, g, p, i) <=> IsPlace(T, g, p, i)
  BY DEF SameShape, IsPlace
<1>2. \A q : q \in Places(U) => q \in Places(T)
  BY <1>1, PlaceFact
<1>3. \A q : q \in Places(T) => q \in Places(U)
  BY <1>1, PlaceFact
<1>4. Places(U) = Places(T)
  BY <1>2, <1>3
<1> QED
  BY <1>4 DEF PlacesIn

\* The entry at a place is replaced.
Replaced(T, U, g, p, i, e) == U = [T EXCEPT ![g].pbs[p][i] = e]

\* The rest of the tree stays as it is when one entry is replaced.
LEMMA ReplacedFact ==
  ASSUME NEW T \in Seq(GroupSet), NEW g, NEW p, NEW i, <<g, p, i>> \in Places(T), NEW e \in EntrySet,
         NEW U, Replaced(T, U, g, p, i, e)
  PROVE  /\ U \in Seq(GroupSet) /\ SameShape(T, U)
         /\ At(U, <<g, p, i>>) = e
         /\ \A r \in Places(T) : r # <<g, p, i>> => At(U, r) = At(T, r)
<1>1. g \in 1..Len(T) /\ p \in 1..Len(T[g].pbs) /\ i \in 1..Len(T[g].pbs[p])
  BY PlaceFact DEF IsPlace
<1>2. PICK G \in GroupSet : G = T[g]
  BY <1>1, GroupFact
<1>3. G.pbs \in Seq(Seq(EntrySet)) /\ G.pbs[p] \in Seq(EntrySet)
  BY <1>1, <1>2, GroupFact
<1>4. PICK B : B = G.pbs[p]
  OBVIOUS
<1>5. PICK C : C = [B EXCEPT ![i] = e]
  OBVIOUS
<1>6. C \in Seq(EntrySet) /\ Len(C) = Len(B) /\ C[i] = e /\ \A j \in 1..Len(B) : j # i => C[j] = B[j]
  BY <1>1, <1>2, <1>3, <1>4, <1>5, SMTT(60)
<1>7. PICK Q : Q = [G.pbs EXCEPT ![p] = C]
  OBVIOUS
<1>8. Q \in Seq(Seq(EntrySet)) /\ Len(Q) = Len(G.pbs) /\ Q[p] = C /\ \A o \in 1..Len(G.pbs) : o # p => Q[o] = G.pbs[o]
  BY <1>1, <1>2, <1>3, <1>6, <1>7, SMTT(60)
<1>9. PICK H : H = [G EXCEPT !.pbs = Q]
  OBVIOUS
<1>10. H \in GroupSet /\ H.pbs = Q /\ H.next = G.next /\ H.min = G.min
  BY <1>8, <1>9 DEF GroupSet
<1>11. U = [T EXCEPT ![g] = H]
  BY <1>2, <1>4, <1>5, <1>7, <1>9 DEF Replaced
<1>12. U \in Seq(GroupSet) /\ Len(U) = Len(T) /\ U[g] = H /\ \A h \in 1..Len(T) : h # g => U[h] = T[h]
  BY <1>1, <1>10, <1>11, ExceptSeq
<1>13. SameShape(T, U)
  BY <1>2, <1>4, <1>6, <1>8, <1>10, <1>12 DEF SameShape
<1>14. At(U, <<g, p, i>>) = e
  BY <1>6, <1>8, <1>10, <1>12 DEF At
<1>15. ASSUME NEW r \in Places(T), r # <<g, p, i>> PROVE At(U, r) = At(T, r)
  <2>1. PICK h, o, j : r = <<h, o, j>> /\ IsPlace(T, h, o, j)
    BY PlaceFact
  <2>2. h \in 1..Len(T) /\ o \in 1..Len(T[h].pbs) /\ j \in 1..Len(T[h].pbs[o])
    BY <2>1 DEF IsPlace
  <2>3. At(U, r) = U[h].pbs[o][j] /\ At(T, r) = T[h].pbs[o][j]
    BY <2>1 DEF At
  <2>4. CASE h # g
    BY <2>2, <2>3, <2>4, <1>12
  <2>5. CASE h = g /\ o # p
    BY <2>2, <2>3, <2>5, <1>2, <1>8, <1>10, <1>12
  <2>6. CASE h = g /\ o = p
    <3>1. j # i
      BY <2>1, <2>6, <1>15
    <3> QED
      BY <3>1, <2>2, <2>3, <2>6, <1>2, <1>4, <1>6, <1>8, <1>10, <1>12
  <2> QED
    BY <2>4, <2>5, <2>6
<1> QED
  BY <1>12, <1>13, <1>14, <1>15

----------------------------------------------------------------------------
(* What keeps the map.                                                     *)

Once(T, y) == \A r, s, i, j : IsRecord(T, r, i, y) /\ IsRecord(T, s, j, y) => r = s /\ i = j

\* The records of y in U are records of T, none is doubled, and the home keeps one.
Moved(T, U, y) ==
  /\ \A r, j : IsRecord(U, r, j, y) =>
       \E s, i : IsRecord(T, s, i, y) /\ At(U, r).b.kv[j] = At(T, s).b.kv[i]
  /\ Present(T, y) => Present(U, y)
  /\ Once(T, y) => Once(U, y)

\* A tree whose records have moved holds what the map holds, as before.
LEMMA MovedHolds ==
  ASSUME NEW T, NEW U, NEW y, NEW x \in Values \cup {None, Unknown}, NEW P, Moved(T, U, y), Holds(T, y, x, P)
  PROVE  Holds(U, y, x, P)
<1>1. ASSUME x = None PROVE Absent(U, y)
  BY <1>1 DEF Moved, Holds, Absent
<1>2. ASSUME x \in Values PROVE Alone(U, y, x)
  <2>1. PICK q, m : /\ IsHome(T, q, y) /\ IsRecord(T, q, m, y) /\ At(T, q).b.kv[m][2] = x
                    /\ \A r, i : IsRecord(T, r, i, y) => r = q /\ i = m
    BY <1>2 DEF Holds, Alone
  <2>2. Present(T, y)
    BY <2>1 DEF Present
  <2>3. Once(T, y)
    BY <2>1 DEF Once
  <2>4. PICK r, j : IsHome(U, r, y) /\ IsRecord(U, r, j, y)
    BY <2>2 DEF Moved, Present
  <2>5. PICK s, i : IsRecord(T, s, i, y) /\ At(U, r).b.kv[j] = At(T, s).b.kv[i]
    BY <2>4 DEF Moved
  <2>6. At(U, r).b.kv[j][2] = x
    BY <2>1, <2>5
  <2>7. Once(U, y)
    BY <2>3 DEF Moved
  <2>8. \A a, b : IsRecord(U, a, b, y) => a = r /\ b = j
    BY <2>4, <2>7, Zenon DEF Once
  <2> QED
    BY <2>4, <2>6, <2>8 DEF Alone
<1>3. ASSUME x = Unknown, P PROVE Present(U, y)
  BY <1>3 DEF Moved, Holds
<1> QED
  BY <1>1, <1>2, <1>3 DEF Holds

----------------------------------------------------------------------------
(* Trees that differ in a bucket.                                          *)

\* The bucket at q is c.
Rebucketed(T, U, q, c) ==
  /\ U \in Seq(GroupSet) /\ SameShape(T, U)
  /\ At(U, q) = [key |-> At(T, q).key, b |-> c]
  /\ \A r \in Places(T) : r # q => At(U, r) = At(T, r)

\* A bucket is replaced: the keys, the homes and the other buckets stay.
LEMMA RebucketedAt ==
  ASSUME NEW T \in Seq(GroupSet), NEW U, NEW q \in Places(T), NEW c \in Buckets, Rebucketed(T, U, q, c)
  PROVE  /\ Places(U) = Places(T) /\ At(U, q).b = c
         /\ \A r \in Places(T) : At(U, r).key = At(T, r).key /\ (r # q => At(U, r).b = At(T, r).b)
         /\ \A r, k : IsHome(U, r, k) <=> IsHome(T, r, k)
         /\ \A r : First(U, r) <=> First(T, r)
<1>1. Places(U) = Places(T)
  BY SamePlaces DEF Rebucketed
<1>2. At(U, q).b = c /\ At(U, q).key = At(T, q).key
  BY DEF Rebucketed
<1>3. \A r \in Places(T) : At(U, r).key = At(T, r).key /\ (r # q => At(U, r).b = At(T, r).b)
  BY <1>2 DEF Rebucketed
<1>4. \A r : First(U, r) <=> First(T, r)
  BY <1>1 DEF First
<1>5. \A r, k : IsHome(U, r, k) <=> IsHome(T, r, k)
  BY <1>1, <1>3, <1>4 DEF IsHome
<1> QED
  BY <1>1, <1>2, <1>3, <1>4, <1>5

\* WithBucket replaces the bucket that a call uses.
LEMMA WithBucketFact ==
  ASSUME tree \in Seq(GroupSet), NEW g, NEW k, SpotOf(tree, g, k) \in Places(tree), NEW c \in Buckets
  PROVE  Rebucketed(tree, WithBucket(g, k, c), SpotOf(tree, g, k), c)
<1>1. PICK T \in Seq(GroupSet) : T = tree
  OBVIOUS
<1>2. PICK p : p = Place(T[g], k)[1]
  OBVIOUS
<1>3. PICK i : i = Place(T[g], k)[2]
  OBVIOUS
<1>4. PICK U : U = WithBucket(g, k, c)
  OBVIOUS
<1>5. PICK e : e = [key |-> At(T, <<g, p, i>>).key, b |-> c]
  OBVIOUS
<1>6. SpotOf(tree, g, k) = <<g, p, i>> /\ <<g, p, i>> \in Places(T)
  BY <1>1, <1>2, <1>3 DEF SpotOf
<1>7. At(T, <<g, p, i>>) \in EntrySet /\ At(T, <<g, p, i>>) = T[g].pbs[p][i]
  BY <1>6, AtFact, PlaceFact
<1>8. e \in EntrySet /\ [T[g].pbs[p][i] EXCEPT !.b = c] = e
  BY <1>5, <1>7, SMTT(60) DEF EntrySet
<1>9. U = [T EXCEPT ![g].pbs[p][i].b = c]
  BY <1>1, <1>2, <1>3, <1>4 DEF WithBucket
<1>10. Replaced(T, U, g, p, i, e)
  BY <1>8, <1>9 DEF Replaced
<1>11. /\ U \in Seq(GroupSet) /\ SameShape(T, U)
       /\ At(U, <<g, p, i>>) = e
       /\ \A r \in Places(T) : r # <<g, p, i>> => At(U, r) = At(T, r)
  BY <1>6, <1>8, <1>10, ReplacedFact
<1> QED
  BY <1>1, <1>4, <1>5, <1>6, <1>11 DEF Rebucketed

\* A bucket with no other keys keeps the tree sound.
LEMMA RebucketedSound ==
  ASSUME NEW T \in Seq(GroupSet), NEW M, Sound(T, M), NEW U, NEW q \in Places(T), NEW c \in Buckets,
         Rebucketed(T, U, q, c), Held(c) \subseteq Held(At(T, q).b), Len(c.kv) <= BucketCap
  PROVE  Sound(U, M)
<1>1. /\ Places(U) = Places(T) /\ At(U, q).b = c
      /\ \A r \in Places(T) : At(U, r).key = At(T, r).key /\ (r # q => At(U, r).b = At(T, r).b)
      /\ \A r : First(U, r) <=> First(T, r)
  BY RebucketedAt
<1>2. U \in Seq(GroupSet) /\ SameShape(T, U) /\ \A g : PlacesIn(U, g) = PlacesIn(T, g)
  BY SamePlaces DEF Rebucketed
<1>3. \A r \in Places(T) : Held(At(U, r).b) \subseteq Held(At(T, r).b)
  BY <1>1
<1>4. Formed(U)
  <2>1. \A r \in Places(U) : Len(At(U, r).b.kv) <= BucketCap
    BY <1>1 DEF Sound, Formed
  <2>2. \A g \in 1..Len(U) : /\ U[g].next = Cardinality(PlacesIn(U, g))
                             /\ \A p \in 1..Len(U[g].pbs) : Len(U[g].pbs[p]) \in 1..PbCount
    <3> SUFFICES ASSUME NEW g \in 1..Len(U)
                 PROVE  /\ U[g].next = Cardinality(PlacesIn(U, g))
                        /\ \A p \in 1..Len(U[g].pbs) : Len(U[g].pbs[p]) \in 1..PbCount
      OBVIOUS
    <3>1. g \in 1..Len(T) /\ U[g].next = T[g].next /\ Len(U[g].pbs) = Len(T[g].pbs)
          /\ \A p \in 1..Len(T[g].pbs) : Len(U[g].pbs[p]) = Len(T[g].pbs[p])
      BY <1>2 DEF SameShape
    <3>2. T[g].next = Cardinality(PlacesIn(T, g)) /\ \A p \in 1..Len(T[g].pbs) : Len(T[g].pbs[p]) \in 1..PbCount
      BY <3>1 DEF Sound, Formed
    <3> QED
      BY <3>1, <3>2, <1>2
  <2> QED
    BY <2>1, <2>2, <1>1, <1>2 DEF Sound, Formed
<1>5. Sorted(U)
  BY <1>1, <1>3 DEF Sound, Sorted
<1>6. Keyed(U)
  BY <1>1, <1>3 DEF Sound, Keyed
<1>7. Routed(U, M)
  BY <1>1 DEF Sound, Routed
<1>8. M \in Monotone(Len(U))
  BY <1>2 DEF Sound, SameShape
<1> QED
  BY <1>4, <1>5, <1>6, <1>7, <1>8 DEF Sound

\* Buckets b and c have the same records of y, as far as y is single.
SameFor(b, c, y) ==
  /\ Slots(c, y) = {} <=> Slots(b, y) = {}
  /\ \A j \in Slots(c, y) : \E i \in Slots(b, y) : c.kv[j] = b.kv[i]
  /\ (\A i, j \in Slots(b, y) : i = j) => \A i, j \in Slots(c, y) : i = j

\* The records of a key are the slots of the buckets that have it.
LEMMA RecordFact ==
  ASSUME NEW T, NEW q, NEW j, NEW y
  PROVE  IsRecord(T, q, j, y) <=> q \in Places(T) /\ j \in Slots(At(T, q).b, y)
BY DEF IsRecord, Slots

\* Records stay in their tree when a bucket is replaced by one that has the same of their key.
LEMMA RebucketedMoved ==
  ASSUME NEW T \in Seq(GroupSet), NEW U, NEW q \in Places(T), NEW c \in Buckets, NEW y,
         Rebucketed(T, U, q, c), SameFor(At(T, q).b, c, y)
  PROVE  Moved(T, U, y)
<1>1. /\ Places(U) = Places(T) /\ At(U, q).b = c
      /\ \A r \in Places(T) : r # q => At(U, r).b = At(T, r).b
      /\ \A r : IsHome(U, r, y) <=> IsHome(T, r, y)
  BY RebucketedAt
<1>2. ASSUME NEW r \in Places(T) PROVE SameFor(At(T, r).b, At(U, r).b, y)
  <2>1. CASE r = q
    BY <2>1, <1>1
  <2>2. CASE r # q
    BY <2>2, <1>1 DEF SameFor
  <2> QED
    BY <2>1, <2>2
<1>3. \A r, j : IsRecord(T, r, j, y) <=> r \in Places(T) /\ j \in Slots(At(T, r).b, y)
  BY RecordFact
<1>4. \A r, j : IsRecord(U, r, j, y) <=> r \in Places(T) /\ j \in Slots(At(U, r).b, y)
  BY <1>1, RecordFact
<1>5. ASSUME NEW r, NEW j, IsRecord(U, r, j, y)
      PROVE  \E i : IsRecord(T, r, i, y) /\ At(U, r).b.kv[j] = At(T, r).b.kv[i]
  BY <1>5, <1>2, <1>3, <1>4 DEF SameFor
<1>6. ASSUME Present(T, y) PROVE Present(U, y)
  <2>1. PICK r, j : IsHome(T, r, y) /\ IsRecord(T, r, j, y)
    BY <1>6 DEF Present
  <2>2. Slots(At(U, r).b, y) # {} /\ r \in Places(T)
    BY <2>1, <1>2, <1>3 DEF SameFor
  <2>3. PICK i : i \in Slots(At(U, r).b, y)
    BY <2>2
  <2> QED
    BY <2>1, <2>2, <2>3, <1>1, <1>4 DEF Present
<1>7. ASSUME Once(T, y) PROVE Once(U, y)
  <2> SUFFICES ASSUME NEW r, NEW s, NEW i, NEW j, IsRecord(U, r, i, y), IsRecord(U, s, j, y) PROVE r = s /\ i = j
    BY DEF Once
  <2>1. r = s
    BY <1>5, <1>7 DEF Once
  <2>2. \A a, b \in Slots(At(T, r).b, y) : a = b
    BY <1>3, <1>4, <1>7 DEF Once
  <2>3. i \in Slots(At(U, r).b, y) /\ j \in Slots(At(U, r).b, y) /\ r \in Places(T)
    BY <2>1, <1>4
  <2> QED
    BY <2>1, <2>2, <2>3, <1>2, ZenonT(60) DEF SameFor
<1> QED
  BY <1>5, <1>6, <1>7 DEF Moved

----------------------------------------------------------------------------
(* What the operations of a bucket do.                                     *)

\* The types of a bucket and its parts.
LEMMA BucketFact ==
  ASSUME NEW b \in Buckets
  PROVE  /\ b.kv \in Seq(Records) /\ Len(b.kv) \in Nat /\ b.slot \in Keys \cup {0}
         /\ \A j \in 1..Len(b.kv) : b.kv[j] \in Records /\ b.kv[j][1] \in Keys /\ b.kv[j][2] \in Values
                                    /\ b.kv[j][1] \in Nat /\ b.kv[j] = <<b.kv[j][1], b.kv[j][2]>>
         /\ \A y : Slots(b, y) \in SUBSET Nat /\ Slots(b, y) \subseteq 1..Len(b.kv)
         /\ b = [kv |-> b.kv, slot |-> b.slot]
<1>1. b.kv \in Seq(Records) /\ b.slot \in Keys \cup {0} /\ b = [kv |-> b.kv, slot |-> b.slot]
  BY DEF Buckets
<1>2. Len(b.kv) \in Nat /\ \A j \in 1..Len(b.kv) : b.kv[j] \in Records
  BY <1>1
<1>3. \A j \in 1..Len(b.kv) : b.kv[j][1] \in Keys /\ b.kv[j][2] \in Values /\ b.kv[j] = <<b.kv[j][1], b.kv[j][2]>>
  BY <1>2 DEF Records
<1>4. \A j \in 1..Len(b.kv) : b.kv[j][1] \in Nat
  BY <1>3, KeyFact
<1>5. \A y : Slots(b, y) \in SUBSET Nat /\ Slots(b, y) \subseteq 1..Len(b.kv)
  BY <1>2 DEF Slots
<1> QED
  BY <1>1, <1>2, <1>3, <1>4, <1>5

\* The keys of a bucket whose records are those of another.
LEMMA HeldFact ==
  ASSUME NEW b, NEW c, b.kv # <<>>, c.kv # <<>>, \A j \in 1..Len(c.kv) : \E i \in 1..Len(b.kv) : c.kv[j][1] = b.kv[i][1]
  PROVE  Held(c) \subseteq Held(b)
BY DEF Held

\* The bucket c is b with the value v in a record of k.
Rewrites(b, k, v, c) ==
  /\ c \in Buckets /\ Len(c.kv) = Len(b.kv) /\ Held(c) \subseteq Held(b)
  /\ \A y : Slots(c, y) = Slots(b, y)
  /\ \A j \in 1..Len(b.kv) : b.kv[j][1] # k => c.kv[j] = b.kv[j]
  /\ Slots(b, k) # {} => \E j \in Slots(b, k) : c.kv[j] = <<k, v>>

\* UnSortBuncket::Update changes the value of one record and no key.
LEMMA BucketUpdateFact ==
  ASSUME NEW b \in Buckets, NEW k \in Keys, NEW v \in Values, NEW c, c = BucketUpdate(b, k, v)
  PROVE  Rewrites(b, k, v, c)
<1>1. CASE Slots(b, k) = {}
  <2>1. c = b
    BY <1>1 DEF BucketUpdate
  <2> QED
    BY <2>1, <1>1 DEF Rewrites
<1>2. CASE Slots(b, k) # {}
  <2>1. PICK m : m = Min(Slots(b, k))
    OBVIOUS
  <2>2. m \in Slots(b, k)
    BY <2>1, <1>2, BucketFact, LeastFact
  <2>3. m \in 1..Len(b.kv) /\ b.kv[m][1] = k
    BY <2>2, Zenon DEF Slots
  <2>4. c = [b EXCEPT !.kv[m][2] = v]
    BY <2>1, <1>2, Zenon DEF BucketUpdate
  <2>5. [b.kv[m] EXCEPT ![2] = v] = <<k, v>>
    <3>1. PICK x \in Records : x = b.kv[m]
      BY <2>3, BucketFact
    <3>2. x[1] = k
      BY <3>1, <2>3
    <3>3. [x EXCEPT ![2] = v] = <<x[1], v>>
      BY DEF Records
    <3> QED
      BY <3>1, <3>2, <3>3
  <2>6. PICK s : s = [b.kv EXCEPT ![m] = <<k, v>>]
    OBVIOUS
  <2>7. c = [b EXCEPT !.kv = s]
    BY <2>4, <2>5, <2>6
  <2>8. <<k, v>> \in Records /\ b.kv \in Seq(Records)
    BY BucketFact DEF Records
  <2>9. s \in Seq(Records) /\ Len(s) = Len(b.kv) /\ s[m] = <<k, v>> /\ \A j \in 1..Len(b.kv) : j # m => s[j] = b.kv[j]
    BY <2>3, <2>6, <2>8, ExceptSeq
  <2>10. c \in Buckets /\ c.kv = s
    BY <2>7, <2>9 DEF Buckets
  <2>11. \A j \in 1..Len(b.kv) : s[j][1] = b.kv[j][1]
    BY <2>3, <2>9
  <2>12. \A y : Slots(c, y) = Slots(b, y)
    BY <2>9, <2>10, <2>11 DEF Slots
  <2>13. b.kv # <<>> /\ c.kv # <<>>
    BY <2>3, <2>9, <2>10, BucketFact
  <2>14. Held(c) \subseteq Held(b)
    BY <2>9, <2>10, <2>11, <2>13, HeldFact
  <2>15. \A j \in 1..Len(b.kv) : b.kv[j][1] # k => c.kv[j] = b.kv[j]
    BY <2>3, <2>9, <2>10
  <2> QED
    BY <2>2, <2>9, <2>10, <2>12, <2>14, <2>15 DEF Rewrites
<1> QED
  BY <1>1, <1>2

\* remove_key: the slot m of the first record with the key gets the last record.
LEMMA RemoveKeyFact ==
  ASSUME NEW b \in Buckets, NEW k, Slots(b, k) # {}, NEW c, c = RemoveKey(b, k)
  PROVE  \E n \in Nat, m \in 1..Len(b.kv) :
           /\ n + 1 = Len(b.kv) /\ c \in Buckets /\ Len(c.kv) = n /\ m \in Slots(b, k)
           /\ \A j \in 1..n : c.kv[j] = IF j = m THEN b.kv[n + 1] ELSE b.kv[j]
           /\ c.slot = b.kv[1][1]
<1>1. PICK m : m = Min(Slots(b, k))
  OBVIOUS
<1>2. m \in Slots(b, k)
  BY <1>1, BucketFact, LeastFact
<1>3. m \in 1..Len(b.kv) /\ b.kv[m][1] = k
  BY <1>2, Zenon DEF Slots
<1>4. b.kv \in Seq(Records) /\ Len(b.kv) \in Nat /\ 1 \in 1..Len(b.kv)
  BY <1>3, BucketFact
<1>5. PICK n \in Nat : n + 1 = Len(b.kv)
  <2>1. Len(b.kv) - 1 \in Nat /\ (Len(b.kv) - 1) + 1 = Len(b.kv)
    BY <1>4
  <2> QED
    BY <2>1
<1>6. PICK s : s = [b.kv EXCEPT ![m] = b.kv[n + 1]]
  OBVIOUS
<1>7. b.kv[n + 1] \in Records
  BY <1>4, <1>5
<1>8. s \in Seq(Records) /\ Len(s) = n + 1 /\ \A j \in 1..(n + 1) : s[j] = IF j = m THEN b.kv[n + 1] ELSE b.kv[j]
  BY <1>3, <1>4, <1>5, <1>6, <1>7, ExceptSeq
<1>9. PICK t : t = SubSeq(s, 1, n)
  OBVIOUS
<1>10. t \in Seq(Records) /\ Len(t) = n /\ \A j \in 1..n : t[j] = s[j]
  BY <1>8, <1>9
<1>11. c = [kv |-> t, slot |-> b.kv[1][1]]
  <2>1. Len(s) - 1 = n
    BY <1>8
  <2>2. Front(s) = t
    BY <2>1, <1>9 DEF Front
  <2>3. Last(b.kv) = b.kv[n + 1]
    BY <1>5 DEF Last
  <2> QED
    BY <2>2, <2>3, <1>1, <1>6, Zenon DEF RemoveKey
<1>12. b.kv[1][1] \in Keys
  BY <1>4, BucketFact
<1>13. c \in Buckets /\ c.kv = t /\ c.slot = b.kv[1][1]
  BY <1>10, <1>11, <1>12 DEF Buckets
<1>14. \A j \in 1..n : c.kv[j] = IF j = m THEN b.kv[n + 1] ELSE b.kv[j]
  BY <1>8, <1>10, <1>13
<1> QED
  BY <1>2, <1>3, <1>5, <1>10, <1>13, <1>14

\* The records left are as many as before of every other key, and one less of the key.
Leaves(b, k, c) ==
  /\ c \in Buckets /\ Len(c.kv) = Len(b.kv) - 1 /\ Held(c) \subseteq Held(b)
  /\ \A j \in 1..Len(c.kv) : \E i \in 1..Len(b.kv) : c.kv[j] = b.kv[i]
  /\ \A y : Cardinality(Slots(c, y)) = Cardinality(Slots(b, y)) - (IF y = k THEN 1 ELSE 0)

\* remove_key removes one record of the key and keeps the others.
LEMMA RemoveKeyLeaves ==
  ASSUME NEW b \in Buckets, NEW k, Slots(b, k) # {}, NEW c, c = RemoveKey(b, k)
  PROVE  Leaves(b, k, c)
<1>1. PICK n \in Nat, m \in 1..Len(b.kv) :
           /\ n + 1 = Len(b.kv) /\ c \in Buckets /\ Len(c.kv) = n /\ m \in Slots(b, k)
           /\ \A j \in 1..n : c.kv[j] = IF j = m THEN b.kv[n + 1] ELSE b.kv[j]
           /\ c.slot = b.kv[1][1]
  BY RemoveKeyFact
<1>2. Len(c.kv) = Len(b.kv) - 1
  BY <1>1
<1>3. \A j \in 1..Len(c.kv) : \E i \in 1..Len(b.kv) : c.kv[j] = b.kv[i]
  BY <1>1
<1>4. Held(c) \subseteq Held(b)
  <2>1. b.kv # <<>> /\ 1 \in 1..Len(b.kv)
    BY <1>1, BucketFact
  <2>2. CASE c.kv = <<>>
    BY <2>1, <2>2, <1>1 DEF Held
  <2>3. CASE c.kv # <<>>
    BY <2>1, <2>3, <1>3, HeldFact
  <2> QED
    BY <2>2, <2>3
<1>5. m <= n + 1 /\ m >= 1 /\ m \in Nat /\ b.kv[m][1] = k
  BY <1>1 DEF Slots
<1>6. ASSUME NEW y PROVE Cardinality(Slots(c, y)) = Cardinality(Slots(b, y)) - (IF y = k THEN 1 ELSE 0)
  <2>1. PICK S : S = Slots(b, y)
    OBVIOUS
  <2>2. S = {j \in 1..(n + 1) : b.kv[j][1] = y}
    BY <2>1, <1>1 DEF Slots
  <2>3. PICK R : R = Slots(c, y)
    OBVIOUS
  <2>4. R = {j \in 1..n : c.kv[j][1] = y}
    BY <2>3, <1>1 DEF Slots
  <2>5. IsFiniteSet(1..(n + 1))
    BY FS_Interval
  <2>6. IsFiniteSet(S)
    BY <2>2, <2>5, FS_Subset
  <2>7. m \in S <=> y = k
    BY <2>2, <1>5
  <2>8. IsFiniteSet(S \ {m}) /\ Cardinality(S \ {m}) = Cardinality(S) - (IF y = k THEN 1 ELSE 0)
    BY <2>6, <2>7, FS_RemoveElement, FS_CardinalityType
  <2>9. PICK f : f = [j \in S \ {m} |-> IF j = n + 1 THEN m ELSE j]
    OBVIOUS
  <2>10. \A j \in S \ {m} : f[j] = IF j = n + 1 THEN m ELSE j
    BY <2>9
  <2>11. f \in [S \ {m} -> R]
    <3>1. ASSUME NEW j \in S \ {m} PROVE f[j] \in R
      <4>1. CASE j = n + 1
        <5>1. m \in 1..n /\ c.kv[m] = b.kv[n + 1] /\ b.kv[n + 1][1] = y
          BY <4>1, <2>2, <1>1, <1>5
        <5> QED
          BY <4>1, <5>1, <2>4, <2>10
      <4>2. CASE j # n + 1
        <5>1. j \in 1..n /\ c.kv[j] = b.kv[j] /\ b.kv[j][1] = y
          BY <4>2, <2>2, <1>1
        <5> QED
          BY <4>2, <5>1, <2>4, <2>10
      <4> QED
        BY <4>1, <4>2
    <3> QED
      BY <3>1, <2>9
  <2>12. \A i, j \in S \ {m} : f[i] = f[j] => i = j
    BY <2>10
  <2>13. \A i \in R : \E j \in S \ {m} : f[j] = i
    <3> SUFFICES ASSUME NEW i \in R PROVE \E j \in S \ {m} : f[j] = i
      OBVIOUS
    <3>1. i \in 1..n /\ c.kv[i][1] = y
      BY <2>4
    <3>2. CASE i = m
      <4>1. n + 1 \in S \ {m}
        BY <3>1, <3>2, <2>2, <1>1, <1>5
      <4> QED
        BY <4>1, <3>2, <2>10
    <3>3. CASE i # m
      <4>1. i \in S \ {m} /\ i # n + 1
        BY <3>1, <3>3, <2>2, <1>1, <1>5
      <4> QED
        BY <4>1, <2>10
    <3> QED
      BY <3>2, <3>3
  <2>14. f \in Bijection(S \ {m}, R)
    BY <2>11, <2>12, <2>13 DEF Bijection, Injection, IsInjective, Surjection
  <2>15. IsFiniteSet(R) /\ Cardinality(R) = Cardinality(S \ {m})
    BY <2>8, <2>14, FS_Bijection DEF ExistsBijection
  <2> QED
    BY <2>1, <2>3, <2>8, <2>15
<1> QED
  BY <1>1, <1>2, <1>3, <1>4, <1>6 DEF Leaves

\* The first n numbers are n.
LEMMA IntervalFact ==
  ASSUME NEW n \in Nat
  PROVE  IsFiniteSet(1..n) /\ Cardinality(1..n) = n
BY FS_Interval

\* The records of a key are finitely many.
LEMMA SlotsFinite ==
  ASSUME NEW b \in Buckets, NEW y
  PROVE  /\ IsFiniteSet(Slots(b, y)) /\ Cardinality(Slots(b, y)) \in Nat
         /\ Cardinality(Slots(b, y)) = 0 <=> Slots(b, y) = {}
         /\ Cardinality(Slots(b, y)) <= 1 <=> \A i, j \in Slots(b, y) : i = j
<1>1. PICK S : S = Slots(b, y)
  OBVIOUS
<1>2. IsFiniteSet(1..Len(b.kv)) /\ S \in SUBSET (1..Len(b.kv))
  BY <1>1, BucketFact, FS_Interval
<1>3. IsFiniteSet(S)
  BY <1>2, FS_Subset
<1>4. Cardinality(S) \in Nat /\ (Cardinality(S) = 0 <=> S = {}) /\ (Cardinality(S) = 1 <=> \E x : S = {x})
  BY <1>3, FS_CardinalityType, FS_EmptySet, FS_Singleton
<1>5. Cardinality(S) <= 1 <=> Cardinality(S) = 0 \/ Cardinality(S) = 1
  BY <1>4
<1>6. (\A i, j \in S : i = j) <=> S = {} \/ \E x : S = {x}
  OBVIOUS
<1> QED
  BY <1>1, <1>3, <1>4, <1>5, <1>6

\* A bucket with as many records of a key as another, all from there, has the same for the key.
LEMMA CountSame ==
  ASSUME NEW b \in Buckets, NEW c \in Buckets, NEW y,
         \A j \in 1..Len(c.kv) : \E i \in 1..Len(b.kv) : c.kv[j] = b.kv[i],
         Cardinality(Slots(c, y)) = Cardinality(Slots(b, y))
  PROVE  SameFor(b, c, y)
<1>1. \A j \in Slots(c, y) : \E i \in Slots(b, y) : c.kv[j] = b.kv[i]
  <2> SUFFICES ASSUME NEW j \in Slots(c, y) PROVE \E i \in Slots(b, y) : c.kv[j] = b.kv[i]
    OBVIOUS
  <2>1. j \in 1..Len(c.kv) /\ c.kv[j][1] = y
    BY DEF Slots
  <2>2. PICK i \in 1..Len(b.kv) : c.kv[j] = b.kv[i]
    BY <2>1
  <2>3. i \in Slots(b, y)
    BY <2>1, <2>2 DEF Slots
  <2> QED
    BY <2>2, <2>3
<1>2. Slots(c, y) = {} <=> Slots(b, y) = {}
  BY SlotsFinite
<1>3. (\A i, j \in Slots(b, y) : i = j) => \A i, j \in Slots(c, y) : i = j
  <2>1. (\A i, j \in Slots(b, y) : i = j) <=> Cardinality(Slots(b, y)) <= 1
    BY SlotsFinite
  <2>2. (\A i, j \in Slots(c, y) : i = j) <=> Cardinality(Slots(c, y)) <= 1
    BY SlotsFinite
  <2> QED
    BY <2>1, <2>2
<1> QED
  BY <1>1, <1>2, <1>3 DEF SameFor

\* getSortedIndex: the slots, each once, by ascending key.
Sorts(s, n, b) ==
  /\ s \in [1..n -> 1..n]
  /\ \A i, j \in 1..n : s[i] = s[j] => i = j
  /\ \A x \in 1..n : \E i \in 1..n : s[i] = x
  /\ \A i, j \in 1..n : i < j => b.kv[s[i]][1] <= b.kv[s[j]][1]

\* getSortedIndex returns a permutation of the slots in which the keys ascend.
LEMMA SortedIndexFact ==
  ASSUME NEW b \in Buckets, NEW n \in Nat, n = Len(b.kv), NEW s, s = SortedIndex(b)
  PROVE  Sorts(s, n, b)
<1>1. PICK f : f = [i \in 1..n |-> <<b.kv[i][1], i, 0>>]
  OBVIOUS
<1>2. PICK X : X = {<<b.kv[i][1], i, 0>> : i \in 1..Len(b.kv)}
  OBVIOUS
<1>3. \A i \in 1..n : b.kv[i][1] \in Nat
  BY BucketFact
<1>4. \A i \in 1..n : f[i] \in Triples /\ f[i][1] = b.kv[i][1] /\ f[i][2] = i
  BY <1>1, <1>3 DEF Triples
<1>5. X = {f[i] : i \in 1..n}
  BY <1>1, <1>2
<1>6. f \in Bijection(1..n, X)
  <2>1. f \in [1..n -> X]
    BY <1>1, <1>5
  <2>2. \A i, j \in 1..n : f[i] = f[j] => i = j
    <3> SUFFICES ASSUME NEW i \in 1..n, NEW j \in 1..n, f[i] = f[j] PROVE i = j
      OBVIOUS
    <3>1. f[i][2] = i /\ f[j][2] = j
      BY <1>4
    <3> QED
      BY <3>1
  <2>3. \A x \in X : \E i \in 1..n : f[i] = x
    BY <1>5
  <2> QED
    BY <2>1, <2>2, <2>3 DEF Bijection, Injection, IsInjective, Surjection
<1>7. IsFiniteSet(X) /\ Cardinality(X) = n
  <2>1. IsFiniteSet(1..n) /\ Cardinality(1..n) = n
    BY IntervalFact
  <2> QED
    BY <2>1, <1>6, FS_Bijection DEF ExistsBijection
<1>8. X \in SUBSET Triples
  BY <1>4, <1>5
<1>9. PICK o : o = InOrder(X)
  OBVIOUS
<1>10. IsOrderOf(o, X)
  BY <1>7, <1>8, <1>9, InOrderFact
<1>11. /\ \A i \in 1..n : o[i] \in X
       /\ \A q \in X : \E i \in 1..n : o[i] = q
       /\ \A i, j \in 1..n : i < j <=> Before(o[i], o[j])
  BY <1>7, <1>10 DEF IsOrderOf
<1>12. s = [i \in 1..n |-> o[i][2]]
  BY <1>2, <1>9 DEF SortedIndex
<1>13. \A i \in 1..n : o[i][2] \in 1..n /\ o[i] = f[o[i][2]]
  <2> SUFFICES ASSUME NEW i \in 1..n PROVE o[i][2] \in 1..n /\ o[i] = f[o[i][2]]
    OBVIOUS
  <2>1. PICK x \in 1..n : o[i] = f[x]
    BY <1>5, <1>11
  <2> QED
    BY <2>1, <1>4
<1>14. \A i \in 1..n : s[i] = o[i][2] /\ s[i] \in 1..n /\ o[i] = f[s[i]]
  BY <1>12, <1>13
<1>15. s \in [1..n -> 1..n]
  BY <1>12, <1>13
<1>16. \A i, j \in 1..n : s[i] = s[j] => i = j
  <2> SUFFICES ASSUME NEW i \in 1..n, NEW j \in 1..n, s[i] = s[j] PROVE i = j
    OBVIOUS
  <2>1. o[i] = o[j]
    BY <1>14
  <2>2. ~Before(o[i], o[j]) /\ ~Before(o[j], o[i])
    BY <2>1, <1>8, <1>11, BeforeFact
  <2> QED
    BY <2>2, <1>11
<1>17. \A x \in 1..n : \E i \in 1..n : s[i] = x
  <2> SUFFICES ASSUME NEW x \in 1..n PROVE \E i \in 1..n : s[i] = x
    OBVIOUS
  <2>1. PICK i \in 1..n : o[i] = f[x]
    BY <1>5, <1>11
  <2>2. s[i] = x
    BY <2>1, <1>4, <1>14
  <2> QED
    BY <2>2
<1>18. ASSUME NEW i \in 1..n, NEW j \in 1..n, i < j PROVE b.kv[s[i]][1] <= b.kv[s[j]][1]
  <2>1. Before(o[i], o[j])
    BY <1>11, <1>18
  <2>2. o[i][1] = b.kv[s[i]][1] /\ o[j][1] = b.kv[s[j]][1] /\ o[i][1] \in Nat /\ o[j][1] \in Nat
    <3>1. s[i] \in 1..n /\ o[i] = f[s[i]] /\ s[j] \in 1..n /\ o[j] = f[s[j]]
      BY <1>14
    <3>2. f[s[i]][1] = b.kv[s[i]][1] /\ b.kv[s[i]][1] \in Nat
      BY <3>1, <1>3, <1>4
    <3>3. f[s[j]][1] = b.kv[s[j]][1] /\ b.kv[s[j]][1] \in Nat
      BY <3>1, <1>3, <1>4
    <3> QED
      BY <3>1, <3>2, <3>3
  <2>3. o[i][1] < o[j][1] \/ o[i][1] = o[j][1]
    BY <2>1 DEF Before
  <2> QED
    BY <2>2, <2>3
<1> QED
  BY <1>15, <1>16, <1>17, <1>18 DEF Sorts

\* Half of a number.
LEMMA HalfFact ==
  ASSUME NEW n \in Nat, n >= 2
  PROVE  n \div 2 \in 1..(n - 1)
OBVIOUS

\* The end of a sequence.
LEMMA EndFact ==
  ASSUME NEW S, NEW r \in Seq(S), NEW n \in Nat, n = Len(r), NEW h \in 1..(n - 1)
  PROVE  /\ SubSeq(r, 1 + h, n) \in Seq(S) /\ Len(SubSeq(r, 1 + h, n)) = n - h
         /\ \A i \in 1..(n - h) : i + h \in 1..n /\ SubSeq(r, 1 + h, n)[i] = r[i + h]
<1>1. 1 + h \in 1..n /\ n \in 1..n /\ n - h \in Nat /\ \A i \in 1..(n - h) : i + h \in 1..n
  OBVIOUS
<1>2. SubSeq(r, 1 + h, n) \in Seq(S) /\ Len(SubSeq(r, 1 + h, n)) = n - h
  BY <1>1
<1>3. \A i \in 1..(n - h) : SubSeq(r, 1 + h, n)[i] = r[i + h]
  BY <1>1
<1> QED
  BY <1>1, <1>2, <1>3

\* The records that Expand_ moves: those from the middle on.
IsEnd(u, n, h, s, b) ==
  /\ h \in 1..(n - 1) /\ u \in Seq(Records) /\ Len(u) = n - h
  /\ \A i \in 1..(n - h) : i + h \in 1..n /\ u[i] = b.kv[s[i + h]]

\* The new bucket of Expand_ gets the upper half of the sorted records.
LEMMA UpperRecords ==
  ASSUME NEW b \in Buckets, NEW n \in Nat, n = Len(b.kv), n >= 2, NEW s, s = SortedIndex(b)
  PROVE  IsEnd(Upper(b), n, n \div 2, s, b)
<1>1. PICK h \in 1..(n - 1) : h = n \div 2
  BY HalfFact
<1>10. PICK u : u = Upper(b)
  OBVIOUS
<1>2. s \in [1..n -> 1..n]
  BY SortedIndexFact DEF Sorts
<1>3. PICK r : r = SortedRecords(b)
  OBVIOUS
<1>4. r = [i \in 1..n |-> b.kv[s[i]]]
  BY <1>3 DEF SortedRecords
<1>5. \A i \in 1..n : s[i] \in 1..n /\ b.kv[s[i]] \in Records
  BY <1>2, BucketFact
<1>6. r \in Seq(Records) /\ Len(r) = n /\ \A i \in 1..n : r[i] = b.kv[s[i]]
  BY <1>4, <1>5
<1>7. u = SubSeq(r, 1 + h, n)
  BY <1>1, <1>3, <1>10 DEF Upper
<1>8. u \in Seq(Records) /\ Len(u) = n - h /\ \A i \in 1..(n - h) : i + h \in 1..n /\ u[i] = r[i + h]
  BY <1>6, <1>7, EndFact
<1> QED
  BY <1>1, <1>6, <1>8, <1>10 DEF IsEnd

\* The new bucket of Expand_, and how it shares the keys with the old one.
UpperBucket(b) == [kv |-> Upper(b), slot |-> 0]
SplitKey(b) == Upper(b)[1][1]

IsUpper(c, b, x) ==
  /\ c \in Buckets /\ Len(c.kv) \in 1..(Len(b.kv) - 1)
  /\ c.kv = Upper(b) /\ x = c.kv[1][1] /\ x \in Keys /\ x \in Nat
  /\ \A i \in 1..Len(c.kv) : x <= c.kv[i][1] /\ \E j \in 1..Len(b.kv) : c.kv[i] = b.kv[j]
  /\ \A y : Cardinality(Slots(c, y)) <= Cardinality(Slots(b, y))
  /\ \A y \in Nat : y > x => Cardinality(Slots(c, y)) = Cardinality(Slots(b, y))

\* The new bucket of Expand_ has the keys from the split key on, and all records of those above it.
LEMMA UpperFact ==
  ASSUME NEW b \in Buckets, Len(b.kv) >= 2, NEW c, c = UpperBucket(b), NEW x, x = SplitKey(b)
  PROVE  IsUpper(c, b, x)
<1>1. PICK n \in Nat : n = Len(b.kv) /\ n >= 2
  BY BucketFact
<1>2. PICK h : h = n \div 2
  OBVIOUS
<1>3. PICK s : s = SortedIndex(b)
  OBVIOUS
<1>4. PICK u : u = Upper(b)
  OBVIOUS
<1>5. /\ h \in 1..(n - 1) /\ u \in Seq(Records) /\ Len(u) = n - h
      /\ \A i \in 1..(n - h) : i + h \in 1..n /\ u[i] = b.kv[s[i + h]]
  <2>1. IsEnd(u, n, h, s, b)
    BY <1>1, <1>2, <1>3, <1>4, UpperRecords
  <2> QED
    BY <2>1 DEF IsEnd
<1>6. /\ s \in [1..n -> 1..n]
      /\ \A i, j \in 1..n : s[i] = s[j] => i = j
      /\ \A z \in 1..n : \E i \in 1..n : s[i] = z
      /\ \A i, j \in 1..n : i < j => b.kv[s[i]][1] <= b.kv[s[j]][1]
  <2>1. Sorts(s, n, b)
    BY <1>1, <1>3, SortedIndexFact
  <2> QED
    BY <2>1 DEF Sorts
<1>7. c.kv = u /\ c.slot = 0
  BY <1>4 DEF UpperBucket
<1>8. c \in Buckets
  BY <1>4, <1>5 DEF UpperBucket, Buckets
<1>9. PICK l \in Nat : l = n - h /\ l \in 1..(n - 1) /\ 1 \in 1..l
  BY <1>5
<1>10. x = u[1][1]
  BY <1>4 DEF SplitKey
<1>11. \A i \in 1..l : u[i][1] \in Keys /\ u[i][1] \in Nat
  BY <1>5, <1>7, <1>8, <1>9, BucketFact
<1>12. x \in Keys /\ x \in Nat
  BY <1>9, <1>10, <1>11
<1>13. \A i \in 1..l : s[i + h] \in 1..n
  BY <1>5, <1>6, <1>9
<1>14. \A i \in 1..l : \E j \in 1..n : u[i] = b.kv[j]
  BY <1>5, <1>9, <1>13
<1>15. \A i \in 1..n : i <= h + 1 => b.kv[s[i]][1] <= x
  <2>0. \A i \in 1..n : s[i] \in 1..n
    BY <1>6
  <2>1. u[1] = b.kv[s[1 + h]] /\ 1 + h \in 1..n
    BY <1>5, <1>9
  <2> SUFFICES ASSUME NEW i \in 1..n, i <= h + 1 PROVE b.kv[s[i]][1] <= x
    OBVIOUS
  <2>2. b.kv[s[i]][1] \in Nat
    BY <2>0, <1>1, BucketFact
  <2>3. CASE i = 1 + h
    BY <2>1, <2>2, <2>3, <1>10
  <2>4. CASE i < 1 + h
    <3>1. PICK a \in 1..n : a = 1 + h
      BY <2>1
    <3>2. b.kv[s[i]][1] <= b.kv[s[a]][1]
      BY <3>1, <2>4, <1>6
    <3> QED
      BY <3>1, <3>2, <2>1, <1>10
  <2> QED
    BY <2>3, <2>4, <1>5
<1>16. \A i \in 1..l : x <= u[i][1]
  <2> SUFFICES ASSUME NEW i \in 1..l PROVE x <= u[i][1]
    OBVIOUS
  <2>1. u[1] = b.kv[s[1 + h]] /\ u[i] = b.kv[s[i + h]] /\ 1 + h \in 1..n /\ i + h \in 1..n
    BY <1>5, <1>9
  <2>2. CASE i = 1
    BY <2>2, <1>10, <1>12
  <2>3. CASE i # 1
    <3>1. 1 + h < i + h
      BY <2>3, <1>5
    <3>2. PICK a \in 1..n : a = 1 + h
      BY <2>1
    <3>3. PICK e \in 1..n : e = i + h
      BY <2>1
    <3>4. b.kv[s[a]][1] <= b.kv[s[e]][1]
      BY <3>1, <3>2, <3>3, <1>6
    <3> QED
      BY <3>2, <3>3, <3>4, <2>1, <1>10
  <2> QED
    BY <2>2, <2>3
<1>17. ASSUME NEW y
       PROVE  /\ Cardinality(Slots(c, y)) <= Cardinality(Slots(b, y))
              /\ y \in Nat /\ y > x => Cardinality(Slots(c, y)) = Cardinality(Slots(b, y))
  <2>1. PICK R : R = Slots(c, y)
    OBVIOUS
  <2>2. PICK S : S = Slots(b, y)
    OBVIOUS
  <2>3. R = {i \in 1..l : u[i][1] = y}
    BY <2>1, <1>5, <1>7, <1>9 DEF Slots
  <2>4. S = {i \in 1..n : b.kv[i][1] = y}
    BY <2>2, <1>1 DEF Slots
  <2>5. PICK f : f = [i \in R |-> s[i + h]]
    OBVIOUS
  <2>6. \A i \in R : f[i] = s[i + h] /\ i \in 1..l /\ i + h \in 1..n
    BY <2>3, <2>5, <1>5, <1>9
  <2>7. f \in [R -> S]
    BY <2>3, <2>4, <2>5, <2>6, <1>5, <1>9, <1>13
  <2>8. \A i, j \in R : f[i] = f[j] => i = j
    <3> SUFFICES ASSUME NEW i \in R, NEW j \in R, f[i] = f[j] PROVE i = j
      OBVIOUS
    <3>1. i + h = j + h
      BY <2>6, <1>6
    <3> QED
      BY <3>1, <2>6, <1>5
  <2>9. f \in Injection(R, S)
    BY <2>7, <2>8 DEF Injection, IsInjective
  <2>10. IsFiniteSet(S)
    BY <2>2, SlotsFinite
  <2>11. Cardinality(R) <= Cardinality(S) /\ (f \in Surjection(R, S) => Cardinality(R) = Cardinality(S))
    BY <2>9, <2>10, FS_Injection
  <2>12. ASSUME y \in Nat, y > x PROVE f \in Surjection(R, S)
    <3>1. ASSUME NEW j \in S PROVE \E i \in R : f[i] = j
      <4>1. j \in 1..n /\ b.kv[j][1] = y
        BY <2>4
      <4>2. PICK i \in 1..n : s[i] = j
        BY <4>1, <1>6
      <4>3. ~(i <= h + 1)
        BY <4>1, <4>2, <2>12, <1>12, <1>15
      <4>4. i - h \in 1..l /\ (i - h) + h = i
        BY <4>3, <1>5, <1>9
      <4>5. i - h \in R /\ f[i - h] = j
        BY <4>1, <4>2, <4>4, <2>3, <2>6, <1>5, <1>9
      <4> QED
        BY <4>5
    <3> QED
      BY <3>1, <2>7 DEF Surjection
  <2> QED
    BY <2>1, <2>2, <2>11, <2>12
<1>18. Len(c.kv) = l
  BY <1>5, <1>7, <1>9
<1>19. Len(c.kv) \in 1..(Len(b.kv) - 1)
  BY <1>1, <1>9, <1>18
<1>20. c.kv = Upper(b) /\ x = c.kv[1][1]
  BY <1>4, <1>7, <1>10
<1>21. \A i \in 1..Len(c.kv) : x <= c.kv[i][1] /\ \E j \in 1..Len(b.kv) : c.kv[i] = b.kv[j]
  BY <1>1, <1>7, <1>14, <1>16, <1>18
<1> QED
  BY <1>8, <1>12, <1>17, <1>19, <1>20, <1>21 DEF IsUpper

\* remove_key makes a bucket of a bucket.
LEMMA RemoveKeyType ==
  ASSUME NEW b \in Buckets, NEW k
  PROVE  RemoveKey(b, k) \in Buckets
<1>1. CASE Slots(b, k) = {}
  BY <1>1 DEF RemoveKey
<1>2. CASE Slots(b, k) # {}
  BY <1>2, RemoveKeyFact
<1> QED
  BY <1>1, <1>2

\* The loop that removes the records from the old bucket.
Removes(f, b, u) ==
  f[0] = b /\ \A i \in 1..Len(u) : f[i] = RemoveKey(f[i - 1], u[i][1])

\* What Expand_ leaves in the old bucket is what the loop of remove_key computes.
LEMMA LowerLoop ==
  ASSUME NEW b \in Buckets, NEW u \in Seq(Records), u = Upper(b)
  PROVE  \E f : Lower(b) = f[Len(u)] /\ Removes(f, b, u)
<1>1. PICK n \in Nat : n = Len(u)
  OBVIOUS
<1>2. PICK h : h = [p \in Nat \X Buckets |-> RemoveKey(p[2], u[p[1]][1])]
  OBVIOUS
<1>3. h \in [Nat \X Buckets -> Buckets] /\ \A i \in Nat, c \in Buckets : h[i, c] = RemoveKey(c, u[i][1])
  BY <1>2, RemoveKeyType
<1>4. PICK f \in [0..n -> Buckets] : IsLoop(f, 0, n, b, h)
  BY <1>3, LoopDefined
<1>5. \A i \in 0..n : i # 0 => i \in Nat /\ i - 1 \in 0..n
  BY <1>1
<1>6. f = [i \in 0..n |-> IF i = 0 THEN b ELSE RemoveKey(f[i - 1], u[i][1])]
  BY <1>3, <1>4, <1>5 DEF IsLoop
<1> DEFINE R == CHOOSE g : g = [i \in 0..Len(u) |-> IF i = 0 THEN b ELSE RemoveKey(g[i - 1], u[i][1])]
<1>7. R = [i \in 0..Len(u) |-> IF i = 0 THEN b ELSE RemoveKey(R[i - 1], u[i][1])]
  BY <1>1, <1>6
<1>8. Lower(b) = R[Len(u)]
  BY DEF Lower
<1> HIDE DEF R
<1>9. R[0] = b /\ \A i \in 1..n : R[i] = RemoveKey(R[i - 1], u[i][1])
  BY <1>1, <1>7
<1> QED
  BY <1>1, <1>8, <1>9 DEF Removes

\* The records removed so far that have a key.
UpTo(u, i, y) == {j \in 1..i : u[j][1] = y}

\* The count of the records removed so far grows by one with each of the key.
LEMMA UpToFact ==
  ASSUME NEW u, NEW y
  PROVE  /\ Cardinality(UpTo(u, 0, y)) = 0
         /\ \A i \in Nat : IsFiniteSet(UpTo(u, i, y)) /\ Cardinality(UpTo(u, i, y)) \in Nat
         /\ \A i \in Nat \ {0} : Cardinality(UpTo(u, i, y)) = Cardinality(UpTo(u, i - 1, y)) + (IF u[i][1] = y THEN 1 ELSE 0)
         /\ \A i, n \in Nat : i <= n => Cardinality(UpTo(u, i, y)) <= Cardinality(UpTo(u, n, y))
<1>1. ASSUME NEW i \in Nat PROVE IsFiniteSet(UpTo(u, i, y)) /\ Cardinality(UpTo(u, i, y)) \in Nat
  <2>1. IsFiniteSet(1..i) /\ UpTo(u, i, y) \in SUBSET (1..i)
    BY IntervalFact DEF UpTo
  <2> QED
    BY <2>1, FS_Subset, FS_CardinalityType
<1>2. UpTo(u, 0, y) = {}
  BY DEF UpTo
<1>3. ASSUME NEW i \in Nat \ {0}
      PROVE  Cardinality(UpTo(u, i, y)) = Cardinality(UpTo(u, i - 1, y)) + (IF u[i][1] = y THEN 1 ELSE 0)
  <2>1. IsFiniteSet(UpTo(u, i - 1, y)) /\ i \notin UpTo(u, i - 1, y)
    BY <1>1 DEF UpTo
  <2>2. CASE u[i][1] = y
    <3>1. UpTo(u, i, y) = UpTo(u, i - 1, y) \cup {i}
      BY <2>2 DEF UpTo
    <3> QED
      BY <3>1, <2>1, <2>2, FS_AddElement, ZenonT(60)
  <2>3. CASE u[i][1] # y
    <3>1. UpTo(u, i, y) = UpTo(u, i - 1, y)
      BY <2>3 DEF UpTo
    <3>2. Cardinality(UpTo(u, i - 1, y)) \in Nat
      BY <1>1
    <3> QED
      BY <3>1, <3>2, <2>3
  <2> QED
    BY <2>2, <2>3
<1>4. ASSUME NEW i \in Nat, NEW n \in Nat, i <= n PROVE Cardinality(UpTo(u, i, y)) <= Cardinality(UpTo(u, n, y))
  <2>1. UpTo(u, i, y) \in SUBSET UpTo(u, n, y)
    BY <1>4 DEF UpTo
  <2> QED
    BY <2>1, <1>1, FS_Subset
<1> QED
  BY <1>1, <1>2, <1>3, <1>4, FS_EmptySet

\* What is left of b when the first i records of u are removed.
Left(b, u, i, e) ==
  /\ e \in Buckets /\ Len(e.kv) = Len(b.kv) - i /\ Held(e) \subseteq Held(b)
  /\ \A j \in 1..Len(e.kv) : \E m \in 1..Len(b.kv) : e.kv[j] = b.kv[m]
  /\ \A y : Cardinality(Slots(e, y)) = Cardinality(Slots(b, y)) - Cardinality(UpTo(u, i, y))

\* One more turn of the loop of Expand_.
LEMMA LeftNext ==
  ASSUME NEW b \in Buckets, NEW u, NEW n \in Nat, NEW i \in 1..n, NEW e, Left(b, u, i - 1, e),
         \A y : Cardinality(UpTo(u, n, y)) <= Cardinality(Slots(b, y))
  PROVE  Left(b, u, i, RemoveKey(e, u[i][1]))
<1>1. PICK k : k = u[i][1]
  OBVIOUS
<1>2. PICK c : c = RemoveKey(e, k)
  OBVIOUS
<1>3. /\ e \in Buckets /\ Len(e.kv) = Len(b.kv) - (i - 1) /\ Held(e) \subseteq Held(b)
      /\ \A j \in 1..Len(e.kv) : \E m \in 1..Len(b.kv) : e.kv[j] = b.kv[m]
      /\ \A y : Cardinality(Slots(e, y)) = Cardinality(Slots(b, y)) - Cardinality(UpTo(u, i - 1, y))
  BY DEF Left
<1>10. i \in Nat \ {0} /\ i \in Nat /\ i - 1 \in Nat /\ i <= n
  OBVIOUS
<1>4. Slots(e, k) # {}
  <2>1. Cardinality(UpTo(u, i, k)) = Cardinality(UpTo(u, i - 1, k)) + 1
    BY <1>1, <1>10, UpToFact
  <2>2. Cardinality(UpTo(u, i, k)) <= Cardinality(UpTo(u, n, k))
    BY <1>10, UpToFact
  <2>3. Cardinality(UpTo(u, n, k)) <= Cardinality(Slots(b, k))
    OBVIOUS
  <2>4. Cardinality(UpTo(u, i - 1, k)) \in Nat /\ Cardinality(UpTo(u, i, k)) \in Nat /\ Cardinality(UpTo(u, n, k)) \in Nat
    BY <1>10, UpToFact
  <2>5. Cardinality(Slots(b, k)) \in Nat
    BY SlotsFinite
  <2>6. Cardinality(Slots(e, k)) = Cardinality(Slots(b, k)) - Cardinality(UpTo(u, i - 1, k))
    BY <1>3
  <2>7. Cardinality(Slots(e, k)) # 0
    BY <2>1, <2>2, <2>3, <2>4, <2>5, <2>6
  <2> QED
    BY <2>7, <1>3, SlotsFinite
<1>5. /\ c \in Buckets /\ Len(c.kv) = Len(e.kv) - 1 /\ Held(c) \subseteq Held(e)
      /\ \A j \in 1..Len(c.kv) : \E m \in 1..Len(e.kv) : c.kv[j] = e.kv[m]
      /\ \A y : Cardinality(Slots(c, y)) = Cardinality(Slots(e, y)) - (IF y = k THEN 1 ELSE 0)
  <2>1. Leaves(e, k, c)
    BY <1>2, <1>3, <1>4, RemoveKeyLeaves
  <2> QED
    BY <2>1 DEF Leaves
<1>6. Len(c.kv) = Len(b.kv) - i
  BY <1>3, <1>5, BucketFact
<1>7. \A j \in 1..Len(c.kv) : \E m \in 1..Len(b.kv) : c.kv[j] = b.kv[m]
  BY <1>3, <1>5
<1>8. ASSUME NEW y PROVE Cardinality(Slots(c, y)) = Cardinality(Slots(b, y)) - Cardinality(UpTo(u, i, y))
  <2>1. Cardinality(UpTo(u, i, y)) = Cardinality(UpTo(u, i - 1, y)) + (IF k = y THEN 1 ELSE 0)
    BY <1>1, <1>10, UpToFact
  <2>2. Cardinality(UpTo(u, i - 1, y)) \in Nat
    BY <1>10, UpToFact
  <2>3. Cardinality(Slots(b, y)) \in Nat
    BY SlotsFinite
  <2>4. Cardinality(Slots(e, y)) = Cardinality(Slots(b, y)) - Cardinality(UpTo(u, i - 1, y))
    BY <1>3
  <2>5. Cardinality(Slots(c, y)) = Cardinality(Slots(e, y)) - (IF y = k THEN 1 ELSE 0)
    BY <1>5
  <2> QED
    BY <2>1, <2>2, <2>3, <2>4, <2>5
<1>9. Held(c) \subseteq Held(b)
  BY <1>3, <1>5
<1> QED
  BY <1>1, <1>2, <1>5, <1>6, <1>7, <1>8, <1>9 DEF Left

\* The old bucket after Expand_: what the new one does not have.
IsLower(l, b, c) ==
  /\ l \in Buckets /\ Len(l.kv) = Len(b.kv) - Len(c.kv) /\ Held(l) \subseteq Held(b)
  /\ \A j \in 1..Len(l.kv) : \E i \in 1..Len(b.kv) : l.kv[j] = b.kv[i]
  /\ \A y : Cardinality(Slots(l, y)) = Cardinality(Slots(b, y)) - Cardinality(Slots(c, y))

\* The old bucket keeps the records that the new one did not get.
LEMMA LowerFact ==
  ASSUME NEW b \in Buckets, Len(b.kv) >= 2, NEW l, l = Lower(b), NEW c, c = UpperBucket(b)
  PROVE  IsLower(l, b, c)
<1>1. /\ c \in Buckets /\ c.kv = Upper(b)
      /\ \A y : Cardinality(Slots(c, y)) <= Cardinality(Slots(b, y))
  <2>1. IsUpper(c, b, SplitKey(b))
    BY UpperFact
  <2> QED
    BY <2>1 DEF IsUpper
<1>2. PICK u \in Seq(Records) : u = c.kv
  BY <1>1, BucketFact
<1>3. PICK n \in Nat : n = Len(u)
  OBVIOUS
<1>4. PICK f : Lower(b) = f[n] /\ Removes(f, b, u)
  BY <1>1, <1>2, <1>3, LowerLoop
<1>5. f[0] = b /\ \A i \in 1..n : f[i] = RemoveKey(f[i - 1], u[i][1])
  BY <1>3, <1>4 DEF Removes
<1>6. \A y : UpTo(u, n, y) = Slots(c, y)
  BY <1>2, <1>3 DEF UpTo, Slots
<1>7. \A y : Cardinality(UpTo(u, n, y)) <= Cardinality(Slots(b, y))
  BY <1>1, <1>6
<1> DEFINE S == {i \in 0..n : Left(b, u, i, f[i])}
<1>8. 0 \in S
  <2>1. \A y : Cardinality(Slots(b, y)) = Cardinality(Slots(b, y)) - Cardinality(UpTo(u, 0, y))
    BY UpToFact, SlotsFinite
  <2>2. Len(b.kv) = Len(b.kv) - 0
    BY BucketFact
  <2>3. Left(b, u, 0, b)
    BY <2>1, <2>2 DEF Left
  <2> QED
    BY <2>3, <1>5
<1>9. ASSUME NEW i \in (0 + 1)..n, i - 1 \in S PROVE i \in S
  <2>1. Left(b, u, i - 1, f[i - 1])
    BY <1>9
  <2>3. i \in 1..n /\ i \in 0..n
    OBVIOUS
  <2>2. Left(b, u, i, RemoveKey(f[i - 1], u[i][1]))
    BY <2>1, <2>3, <1>7, LeftNext
  <2> QED
    BY <2>2, <2>3, <1>5
<1> HIDE DEF S
<1>10. \A i \in 0..n : i \in S
  BY <1>8, <1>9, Stepwise
<1>11. Left(b, u, n, l)
  BY <1>4, <1>10 DEF S
<1> QED
  BY <1>2, <1>3, <1>6, <1>11 DEF Left, IsLower

\* How Expand_ shares the records of a bucket: those below the first key of the new
\* bucket stay, and the others are found in the new one.
Shares(b, l, c, x) ==
  /\ l \in Buckets /\ c \in Buckets /\ x \in Keys /\ x \in Nat /\ x \in Held(b)
  /\ Len(l.kv) \in 1..(Len(b.kv) - 1) /\ Len(c.kv) \in 1..(Len(b.kv) - 1)
  /\ Held(b) \subseteq Keys /\ Held(l) \subseteq Held(b) /\ Held(c) \subseteq Held(b)
  /\ \A z \in Held(l) : z <= x
  /\ \A z \in Held(c) : x <= z
  /\ \A j \in 1..Len(l.kv) : \E i \in 1..Len(b.kv) : l.kv[j] = b.kv[i]
  /\ \A j \in 1..Len(c.kv) : \E i \in 1..Len(b.kv) : c.kv[j] = b.kv[i]
  /\ \A y \in Nat : y < x => SameFor(b, l, y) /\ Slots(c, y) = {}
  /\ \A y \in Nat : x <= y =>
       /\ Slots(b, y) # {} => Slots(c, y) # {}
       /\ (\A i, j \in Slots(b, y) : i = j) => Slots(l, y) = {} /\ \A i, j \in Slots(c, y) : i = j

\* The keys of a bucket that has records.
LEMMA HeldKeys ==
  ASSUME NEW b \in Buckets, Len(b.kv) >= 1
  PROVE  /\ b.kv # <<>> /\ Held(b) \subseteq Keys
         /\ \A z : z \in Held(b) <=> \E j \in 1..Len(b.kv) : b.kv[j][1] = z
         /\ \A z : z \in Held(b) <=> Slots(b, z) # {}
<1>1. b.kv # <<>>
  BY BucketFact
<1>2. Held(b) = {b.kv[j][1] : j \in 1..Len(b.kv)}
  BY <1>1 DEF Held
<1>3. \A z : z \in Held(b) <=> \E j \in 1..Len(b.kv) : b.kv[j][1] = z
  BY <1>2
<1>4. Held(b) \subseteq Keys
  BY <1>2, BucketFact
<1>5. \A z : z \in Held(b) <=> Slots(b, z) # {}
  BY <1>3 DEF Slots
<1> QED
  BY <1>1, <1>3, <1>4, <1>5

\* Expand_ shares the records of a bucket between two, and loses and doubles none.
LEMMA SplitFact ==
  ASSUME NEW b \in Buckets, Len(b.kv) >= 2
  PROVE  Shares(b, Lower(b), UpperBucket(b), SplitKey(b))
<1>1. PICK l : l = Lower(b)
  OBVIOUS
<1>2. PICK c : c = UpperBucket(b)
  OBVIOUS
<1>3. PICK x : x = SplitKey(b)
  OBVIOUS
<1>4. /\ c \in Buckets /\ Len(c.kv) \in 1..(Len(b.kv) - 1)
      /\ x = c.kv[1][1] /\ x \in Keys /\ x \in Nat
      /\ \A i \in 1..Len(c.kv) : x <= c.kv[i][1] /\ \E j \in 1..Len(b.kv) : c.kv[i] = b.kv[j]
      /\ \A y \in Nat : y > x => Cardinality(Slots(c, y)) = Cardinality(Slots(b, y))
  <2>1. IsUpper(c, b, x)
    BY <1>2, <1>3, UpperFact
  <2> QED
    BY <2>1 DEF IsUpper
<1>5. /\ l \in Buckets /\ Len(l.kv) = Len(b.kv) - Len(c.kv) /\ Held(l) \subseteq Held(b)
      /\ \A j \in 1..Len(l.kv) : \E i \in 1..Len(b.kv) : l.kv[j] = b.kv[i]
      /\ \A y : Cardinality(Slots(l, y)) = Cardinality(Slots(b, y)) - Cardinality(Slots(c, y))
  <2>1. IsLower(l, b, c)
    BY <1>1, <1>2, LowerFact
  <2> QED
    BY <2>1 DEF IsLower
<1>6. Len(b.kv) \in Nat /\ Len(b.kv) >= 1 /\ Len(c.kv) >= 1 /\ Len(l.kv) \in 1..(Len(b.kv) - 1) /\ Len(l.kv) >= 1
  <2>1. PICK n \in Nat : n = Len(b.kv)
    BY BucketFact
  <2>2. PICK m \in 1..(n - 1) : m = Len(c.kv)
    BY <2>1, <1>4
  <2>3. Len(l.kv) = n - m
    BY <2>1, <2>2, <1>5
  <2>4. n - m \in 1..(n - 1) /\ m >= 1 /\ n - m >= 1 /\ n >= 1
    OBVIOUS
  <2> QED
    BY <2>1, <2>2, <2>3, <2>4
<1>7. Held(b) \subseteq Keys /\ \A z : z \in Held(b) <=> \E j \in 1..Len(b.kv) : b.kv[j][1] = z
  BY <1>6, HeldKeys
<1>8. Held(c) \subseteq Keys /\ \A z : z \in Held(c) <=> \E j \in 1..Len(c.kv) : c.kv[j][1] = z
  BY <1>4, <1>6, HeldKeys
<1>9. Held(c) \subseteq Held(b) /\ \A z \in Held(c) : x <= z
  BY <1>4, <1>7, <1>8, ZenonT(60)
<1>10. x \in Held(c) /\ x \in Held(b)
  BY <1>4, <1>8, <1>9
<1>11. \A z \in Held(l) : z <= x
  <2> SUFFICES ASSUME NEW z \in Held(l), z > x PROVE FALSE
    <3>1. \A z \in Held(l) : z \in Nat
      BY <1>5, <1>7, KeyFact
    <3> QED
      BY <3>1, <1>4
  <2>1. z \in Nat
    BY <1>5, <1>7, KeyFact
  <2>2. Slots(l, z) # {}
    BY <1>5, <1>6, HeldKeys
  <2>3. Cardinality(Slots(c, z)) = Cardinality(Slots(b, z))
    BY <2>1, <1>4
  <2>4. Cardinality(Slots(l, z)) = Cardinality(Slots(b, z)) - Cardinality(Slots(c, z))
    BY <1>5
  <2>5. Cardinality(Slots(b, z)) \in Nat
    BY SlotsFinite
  <2>6. Cardinality(Slots(l, z)) = 0
    BY <2>3, <2>4, <2>5
  <2> QED
    BY <2>2, <2>6, <1>5, SlotsFinite
<1>12. ASSUME NEW y \in Nat, y < x PROVE SameFor(b, l, y) /\ Slots(c, y) = {}
  <2>1. y \notin Held(c)
    BY <1>9, <1>12, <1>4
  <2>2. Slots(c, y) = {}
    BY <2>1, <1>4, <1>6, HeldKeys
  <2>3. Cardinality(Slots(c, y)) = 0
    BY <2>2, FS_EmptySet
  <2>4. Cardinality(Slots(b, y)) \in Nat
    BY SlotsFinite
  <2>5. Cardinality(Slots(l, y)) = Cardinality(Slots(b, y))
    BY <2>3, <2>4, <1>5
  <2> QED
    BY <2>2, <2>5, <1>5, CountSame
<1>13. ASSUME NEW y \in Nat, x <= y
       PROVE  /\ Slots(b, y) # {} => Slots(c, y) # {}
              /\ (\A i, j \in Slots(b, y) : i = j) => Slots(l, y) = {} /\ \A i, j \in Slots(c, y) : i = j
  <2>1. PICK B \in Nat : B = Cardinality(Slots(b, y)) /\ (B = 0 <=> Slots(b, y) = {}) /\ (B <= 1 <=> \A i, j \in Slots(b, y) : i = j)
    BY SlotsFinite
  <2>2. PICK C \in Nat : C = Cardinality(Slots(c, y)) /\ (C = 0 <=> Slots(c, y) = {}) /\ (C <= 1 <=> \A i, j \in Slots(c, y) : i = j)
    BY <1>4, SlotsFinite
  <2>3. PICK L \in Nat : L = Cardinality(Slots(l, y)) /\ (L = 0 <=> Slots(l, y) = {})
    BY <1>5, SlotsFinite
  <2>4. L = B - C
    BY <2>1, <2>2, <2>3, <1>5
  <2>5. y > x => C = B
    BY <2>1, <2>2, <1>4
  <2>6. y = x => C # 0
    BY <2>2, <1>10, <1>4, <1>6, HeldKeys
  <2>7. y = x \/ y > x
    BY <1>4, <1>13
  <2>8. B # 0 => C # 0
    BY <2>5, <2>6, <2>7
  <2>9. B <= 1 => L = 0 /\ C <= 1
    BY <2>4, <2>8
  <2> QED
    BY <2>1, <2>2, <2>3, <2>8, <2>9
<1>14. Shares(b, l, c, x)
  BY <1>4, <1>5, <1>6, <1>7, <1>9, <1>10, <1>11, <1>12, <1>13 DEF Shares
<1> QED
  BY <1>1, <1>2, <1>3, <1>14

----------------------------------------------------------------------------
(* An entry more.                                                          *)

WithOneMore(t, S, s, n, i, e) ==
  /\ t \in Seq(S) /\ Len(t) = n + 1
  /\ \A j \in 1..(n + 1) : t[j] = IF j <= i THEN s[j] ELSE IF j = i + 1 THEN e ELSE s[j - 1]

\* InsertAt moves what is behind the new element by one.
LEMMA InsertAtFact ==
  ASSUME NEW S, NEW s \in Seq(S), NEW n \in Nat, n = Len(s), NEW i \in 1..n, NEW e \in S, NEW t, t = InsertAt(s, i + 1, e)
  PROVE  WithOneMore(t, S, s, n, i, e)
<1>1. PICK a : a = SubSeq(s, 1, i)
  OBVIOUS
<1>2. PICK z : z = SubSeq(s, i + 1, n)
  OBVIOUS
<1>3. a \in Seq(S) /\ Len(a) = i /\ \A j \in 1..i : a[j] = s[j]
  BY <1>1
<1>4. z \in Seq(S) /\ Len(z) = n - i /\ \A j \in 1..(n - i) : z[j] = s[j + i]
  <2>1. CASE i = n
    BY <2>1, <1>2
  <2>2. CASE i < n
    <3>1. i + 1 \in 1..n /\ n \in 1..n
      BY <2>2
    <3> QED
      BY <3>1, <1>2
  <2> QED
    BY <2>1, <2>2
<1>5. t = a \o <<e>> \o z
  <2>1. (i + 1) - 1 = i
    OBVIOUS
  <2> QED
    BY <2>1, <1>1, <1>2 DEF InsertAt
<1>6. PICK y : y = a \o <<e>>
  OBVIOUS
<1>7. y \in Seq(S) /\ Len(y) = i + 1 /\ (\A j \in 1..i : y[j] = s[j]) /\ y[i + 1] = e
  BY <1>3, <1>6
<1>8. t = y \o z
  BY <1>5, <1>6
<1>12. y \in Seq(S) /\ z \in Seq(S)
  BY <1>4, <1>7
<1>13. /\ y \o z \in Seq(S)
       /\ Len(y \o z) = Len(y) + Len(z)
       /\ \A j \in 1..(Len(y) + Len(z)) : (y \o z)[j] = IF j <= Len(y) THEN y[j] ELSE z[j - Len(y)]
  BY <1>12, ConcatProperties
<1>9. t \in Seq(S) /\ Len(t) = n + 1
  <2>1. t \in Seq(S) /\ Len(t) = Len(y) + Len(z)
    BY <1>8, <1>13
  <2> QED
    BY <2>1, <1>4, <1>7
<1>10. \A j \in 1..(i + 1) : t[j] = y[j]
  <2>1. \A j \in 1..(Len(y) + Len(z)) : t[j] = IF j <= Len(y) THEN y[j] ELSE z[j - Len(y)]
    BY <1>8, <1>13
  <2>2. \A j \in 1..(i + 1) : j \in 1..(Len(y) + Len(z)) /\ j <= Len(y)
    BY <1>4, <1>7
  <2> QED
    BY <2>1, <2>2
<1>11. \A j \in (i + 2)..(n + 1) : t[j] = s[j - 1]
  <2> SUFFICES ASSUME NEW j \in (i + 2)..(n + 1) PROVE t[j] = s[j - 1]
    OBVIOUS
  <2>1. t[j] = z[j - (i + 1)]
    BY <1>4, <1>7, <1>8, SMTT(60)
  <2>2. j - (i + 1) \in 1..(n - i) /\ (j - (i + 1)) + i = j - 1
    OBVIOUS
  <2>3. z[j - (i + 1)] = s[(j - (i + 1)) + i]
    BY <2>2, <1>4
  <2> QED
    BY <2>1, <2>2, <2>3
<1> QED
  <2>1. \A j \in 1..(n + 1) : j \in 1..i \/ j = i + 1 \/ j \in (i + 2)..(n + 1)
    OBVIOUS
  <2>2. ASSUME NEW j \in 1..(n + 1) PROVE t[j] = IF j <= i THEN s[j] ELSE IF j = i + 1 THEN e ELSE s[j - 1]
    <3>1. CASE j \in 1..i
      BY <3>1, <1>7, <1>10
    <3>2. CASE j = i + 1
      BY <3>2, <1>7, <1>10
    <3>3. CASE j \in (i + 2)..(n + 1)
      BY <3>3, <1>11
    <3> QED
      BY <3>1, <3>2, <3>3, <2>1
  <2> QED
    BY <2>2, <1>9 DEF WithOneMore

Inserts(W, U, g, p, i, e) ==
  U = [W EXCEPT ![g].pbs[p] = InsertAt(@, i + 1, e), ![g].next = @ + 1]

Inserted(W, U, g, p, i, e) ==
  /\ U \in Seq(GroupSet) /\ Len(U) = Len(W)
  /\ \A h \in 1..Len(W) : h # g => U[h] = W[h]
  /\ U[g].next = W[g].next + 1 /\ Len(U[g].pbs) = Len(W[g].pbs)
  /\ \A o \in 1..Len(W[g].pbs) : o # p => U[g].pbs[o] = W[g].pbs[o]
  /\ Len(U[g].pbs[p]) = Len(W[g].pbs[p]) + 1
  /\ \A j \in 1..(Len(W[g].pbs[p]) + 1) :
       U[g].pbs[p][j] = IF j <= i THEN W[g].pbs[p][j] ELSE IF j = i + 1 THEN e ELSE W[g].pbs[p][j - 1]

\* What PutSplit inserts a new entry into.
LEMMA InsertedFact ==
  ASSUME NEW W \in Seq(GroupSet), NEW g, NEW p, NEW i, <<g, p, i>> \in Places(W), NEW e \in EntrySet,
         NEW U, Inserts(W, U, g, p, i, e)
  PROVE  Inserted(W, U, g, p, i, e)
<1>1. g \in 1..Len(W) /\ p \in 1..Len(W[g].pbs) /\ i \in 1..Len(W[g].pbs[p])
  BY PlaceFact DEF IsPlace
<1>2. PICK G \in GroupSet : G = W[g]
  BY <1>1, GroupFact
<1>3. G.pbs \in Seq(Seq(EntrySet)) /\ G.pbs[p] \in Seq(EntrySet) /\ G.next \in Nat /\ Len(G.pbs[p]) \in Nat
  BY <1>1, <1>2, GroupFact
<1>4. PICK B \in Seq(EntrySet) : B = G.pbs[p]
  BY <1>3
<1>5. PICK n \in Nat : n = Len(B) /\ i \in 1..n
  BY <1>1, <1>2, <1>4
<1>6. PICK C : C = InsertAt(B, i + 1, e)
  OBVIOUS
<1>7. /\ C \in Seq(EntrySet) /\ Len(C) = n + 1
      /\ \A j \in 1..(n + 1) : C[j] = IF j <= i THEN B[j] ELSE IF j = i + 1 THEN e ELSE B[j - 1]
  <2>1. WithOneMore(C, EntrySet, B, n, i, e)
    BY <1>5, <1>6, InsertAtFact
  <2> QED
    BY <2>1 DEF WithOneMore
<1>8. PICK Q : Q = [G.pbs EXCEPT ![p] = C]
  OBVIOUS
<1>9. Q \in Seq(Seq(EntrySet)) /\ Len(Q) = Len(G.pbs) /\ Q[p] = C /\ \A o \in 1..Len(G.pbs) : o # p => Q[o] = G.pbs[o]
  BY <1>1, <1>2, <1>3, <1>7, <1>8, ExceptSeq, SMTT(60)
<1>10. PICK H : H = [G EXCEPT !.pbs = Q, !.next = G.next + 1]
  OBVIOUS
<1>11. H \in GroupSet /\ H.pbs = Q /\ H.next = G.next + 1
  <2>1. G.min \in Keys \cup {0} /\ G.next + 1 \in Nat
    BY <1>3 DEF GroupSet
  <2>2. H = [pbs |-> Q, next |-> G.next + 1, min |-> G.min]
    BY <1>10 DEF GroupSet
  <2> QED
    BY <2>1, <2>2, <1>9 DEF GroupSet
<1>12. U = [W EXCEPT ![g] = H]
  <2>1. G = [pbs |-> G.pbs, next |-> G.next, min |-> G.min]
    BY DEF GroupSet
  <2> QED
    BY <2>1, <1>2, <1>4, <1>6, <1>8, <1>10 DEF Inserts
<1>13. U \in Seq(GroupSet) /\ Len(U) = Len(W) /\ U[g] = H /\ \A h \in 1..Len(W) : h # g => U[h] = W[h]
  BY <1>1, <1>11, <1>12, ExceptSeq
<1> QED
  BY <1>2, <1>4, <1>5, <1>7, <1>9, <1>11, <1>13 DEF Inserted

\* The place behind q, and where r moves to when an entry is inserted there.
NextTo(q) == <<q[1], q[2], q[3] + 1>>
Shift(q, r) == IF r[1] = q[1] /\ r[2] = q[2] /\ r[3] > q[3] THEN <<r[1], r[2], r[3] + 1>> ELSE r

\* Where the place behind q lies among the places that have moved.
LEMMA ShiftFact ==
  ASSUME NEW q \in Triples, NEW r \in Triples
  PROVE  /\ Shift(q, r) \in Triples /\ NextTo(q) \in Triples /\ Shift(q, q) = q
         /\ Shift(q, r)[1] = r[1] /\ NextTo(q)[1] = q[1]
         /\ Shift(q, r) # NextTo(q)
         /\ Before(Shift(q, r), NextTo(q)) <=> r = q \/ Before(r, q)
         /\ Before(NextTo(q), Shift(q, r)) <=> Before(q, r)
         /\ q[3] >= 1 => (Leads(Shift(q, r)) <=> Leads(r)) /\ ~Leads(NextTo(q))
<1>1. PICK a \in Nat, b \in Nat, c \in Nat : q = <<a, b, c>>
  BY DEF Triples
<1>2. PICK x \in Nat, y \in Nat, z \in Nat : r = <<x, y, z>>
  BY DEF Triples
<1>3. NextTo(q) = <<a, b, c + 1>>
  BY <1>1 DEF NextTo
<1>4. CASE x = a /\ y = b /\ z > c
  <2>1. Shift(q, r) = <<a, b, z + 1>>
    BY <1>1, <1>2, <1>4 DEF Shift
  <2> QED
    BY <1>1, <1>2, <1>3, <1>4, <2>1 DEF Triples, Before, Leads, Shift
<1>5. CASE ~(x = a /\ y = b /\ z > c)
  <2>1. Shift(q, r) = r
    BY <1>1, <1>2, <1>5 DEF Shift
  <2> QED
    BY <1>1, <1>2, <1>3, <1>5, <2>1 DEF Triples, Before, Leads, Shift
<1> QED
  BY <1>4, <1>5

\* Places that move keep their order.
LEMMA ShiftOrder ==
  ASSUME NEW q \in Triples, NEW r \in Triples, NEW s \in Triples
  PROVE  /\ Before(Shift(q, r), Shift(q, s)) <=> Before(r, s)
         /\ Shift(q, r) = Shift(q, s) => r = s
<1>1. PICK a \in Nat, b \in Nat, c \in Nat : q = <<a, b, c>>
  BY DEF Triples
<1>2. PICK x \in Nat, y \in Nat, z \in Nat : r = <<x, y, z>>
  BY DEF Triples
<1>3. PICK u \in Nat, v \in Nat, w \in Nat : s = <<u, v, w>>
  BY DEF Triples
<1>4. Shift(q, r) = IF x = a /\ y = b /\ z > c THEN <<x, y, z + 1>> ELSE <<x, y, z>>
  BY <1>1, <1>2 DEF Shift
<1>5. Shift(q, s) = IF u = a /\ v = b /\ w > c THEN <<u, v, w + 1>> ELSE <<u, v, w>>
  BY <1>1, <1>3 DEF Shift
<1>6. CASE x = a /\ y = b /\ z > c
  <2>1. Shift(q, r) = <<x, y, z + 1>>
    BY <1>4, <1>6
  <2>2. CASE u = a /\ v = b /\ w > c
    BY <1>2, <1>3, <1>5, <1>6, <2>1, <2>2 DEF Before
  <2>3. CASE ~(u = a /\ v = b /\ w > c)
    BY <1>2, <1>3, <1>5, <1>6, <2>1, <2>3 DEF Before
  <2> QED
    BY <2>2, <2>3
<1>7. CASE ~(x = a /\ y = b /\ z > c)
  <2>1. Shift(q, r) = <<x, y, z>>
    BY <1>4, <1>7
  <2>2. CASE u = a /\ v = b /\ w > c
    BY <1>2, <1>3, <1>5, <1>7, <2>1, <2>2 DEF Before
  <2>3. CASE ~(u = a /\ v = b /\ w > c)
    BY <1>2, <1>3, <1>5, <1>7, <2>1, <2>3 DEF Before
  <2> QED
    BY <2>2, <2>3
<1> QED
  BY <1>6, <1>7

\* U is T with the entry e behind q, where the bucket has become l.
Grown(T, U, q, l, e) ==
  /\ U \in Seq(GroupSet) /\ Len(U) = Len(T)
  /\ \A r \in Places(T) : Shift(q, r) \in Places(U)
  /\ NextTo(q) \in Places(U)
  /\ \A s \in Places(U) : s = NextTo(q) \/ \E r \in Places(T) : s = Shift(q, r)
  /\ At(U, q) = [key |-> At(T, q).key, b |-> l] /\ At(U, NextTo(q)) = e
  /\ \A r \in Places(T) : r # q => At(U, Shift(q, r)) = At(T, r)
  /\ \A g \in 1..Len(T) :
       /\ U[g].next = T[g].next + (IF g = q[1] THEN 1 ELSE 0)
       /\ Len(U[g].pbs) = Len(T[g].pbs)
       /\ \A p \in 1..Len(T[g].pbs) : Len(U[g].pbs[p]) = Len(T[g].pbs[p]) + (IF g = q[1] /\ p = q[2] THEN 1 ELSE 0)

\* A bucket is replaced and an entry inserted behind it.
LEMMA GrownFact ==
  ASSUME NEW T \in Seq(GroupSet), NEW W, NEW U, NEW g, NEW p, NEW i, NEW q, q = <<g, p, i>>, q \in Places(T),
         NEW l \in Buckets, NEW e \in EntrySet, Rebucketed(T, W, q, l), Inserted(W, U, g, p, i, e)
  PROVE  Grown(T, U, q, l, e)
<1>1. g \in 1..Len(T) /\ p \in 1..Len(T[g].pbs) /\ i \in 1..Len(T[g].pbs[p])
  BY PlaceFact DEF IsPlace
<1>2. W \in Seq(GroupSet) /\ SameShape(T, W)
  BY DEF Rebucketed
<1>3. /\ Len(W) = Len(T)
      /\ \A h \in 1..Len(T) : /\ W[h].next = T[h].next /\ Len(W[h].pbs) = Len(T[h].pbs)
                              /\ \A o \in 1..Len(T[h].pbs) : Len(W[h].pbs[o]) = Len(T[h].pbs[o])
  BY <1>2 DEF SameShape
<1>4. PICK n \in Nat : n = Len(T[g].pbs[p]) /\ i \in 1..n
  BY <1>1, GroupFact
<1>5. /\ U \in Seq(GroupSet) /\ Len(U) = Len(T)
      /\ \A h \in 1..Len(T) : h # g => U[h] = W[h]
      /\ U[g].next = W[g].next + 1 /\ Len(U[g].pbs) = Len(T[g].pbs)
      /\ \A o \in 1..Len(T[g].pbs) : o # p => U[g].pbs[o] = W[g].pbs[o]
      /\ Len(U[g].pbs[p]) = n + 1
      /\ \A j \in 1..(n + 1) :
            U[g].pbs[p][j] = IF j <= i THEN W[g].pbs[p][j] ELSE IF j = i + 1 THEN e ELSE W[g].pbs[p][j - 1]
  BY <1>1, <1>3, <1>4 DEF Inserted
<1>6. Places(W) = Places(T)
  BY <1>2, SamePlaces
<1>7. ASSUME NEW h, NEW o, NEW j
      PROVE  /\ IsPlace(U, h, o, j) => \/ <<h, o, j>> = NextTo(q)
                                       \/ h = g /\ o = p /\ j > i + 1 /\ IsPlace(T, h, o, j - 1)
                                       \/ ~(h = g /\ o = p /\ j > i) /\ IsPlace(T, h, o, j)
             /\ IsPlace(T, h, o, j) => IF h = g /\ o = p /\ j > i THEN IsPlace(U, h, o, j + 1) ELSE IsPlace(U, h, o, j)
  <2>1. CASE h # g
    <3>1. h \in 1..Len(T) => U[h] = W[h]
      BY <2>1, <1>5
    <3>3. IsPlace(W, h, o, j) <=> IsPlace(T, h, o, j)
      BY <1>6, PlaceFact, Zenon
    <3>4. Len(U) = Len(T) /\ Len(W) = Len(T)
      BY <1>3, <1>5
    <3>2. IsPlace(U, h, o, j) <=> IsPlace(T, h, o, j)
      BY <3>1, <3>3, <3>4 DEF IsPlace
    <3> QED
      BY <2>1, <3>2
  <2>2. CASE h = g /\ o # p
    BY <2>2, <1>3, <1>5, ZenonT(60) DEF IsPlace
  <2>3. CASE h = g /\ o = p
    <3>1. NextTo(q) = <<g, p, i + 1>>
      BY DEF NextTo
    <3>2. IsPlace(U, h, o, j) <=> j \in 1..(n + 1)
      BY <2>3, <1>1, <1>5 DEF IsPlace
    <3>3. \A m : IsPlace(T, g, p, m) <=> m \in 1..n
      BY <1>1, <1>4 DEF IsPlace
    <3>4. \A m : IsPlace(U, g, p, m) <=> m \in 1..(n + 1)
      BY <1>1, <1>5 DEF IsPlace
    <3>5. ASSUME j \in 1..(n + 1) PROVE j = i + 1 \/ (j > i + 1 /\ j - 1 \in 1..n) \/ (~(j > i) /\ j \in 1..n)
      BY <3>5, <1>4
    <3>6. ASSUME j \in 1..n PROVE IF j > i THEN j + 1 \in 1..(n + 1) ELSE j \in 1..(n + 1)
      BY <3>6, <1>4
    <3> QED
      BY <2>3, <3>1, <3>2, <3>3, <3>4, <3>5, <3>6
  <2> QED
    BY <2>1, <2>2, <2>3
<1>8. NextTo(q) \in Places(U) /\ At(U, NextTo(q)) = e
  <2>1. NextTo(q) = <<g, p, i + 1>> /\ i + 1 \in 1..(n + 1) /\ ~(i + 1 <= i)
    BY <1>4 DEF NextTo
  <2>2. IsPlace(U, g, p, i + 1)
    BY <2>1, <1>1, <1>5 DEF IsPlace
  <2>3. U[g].pbs[p][i + 1] = e
    BY <2>1, <1>5
  <2> QED
    BY <2>1, <2>2, <2>3, PlaceFact
<1>9. ASSUME NEW r \in Places(T) PROVE Shift(q, r) \in Places(U) /\ At(U, Shift(q, r)) = At(W, r)
  <2>1. PICK h, o, j : r = <<h, o, j>> /\ IsPlace(T, h, o, j)
    BY PlaceFact
  <2>2. h \in 1..Len(T) /\ o \in 1..Len(T[h].pbs) /\ j \in 1..Len(T[h].pbs[o]) /\ At(W, r) = W[h].pbs[o][j]
    BY <2>1 DEF IsPlace, At
  <2>3. CASE h = g /\ o = p /\ j > i
    <3>1. Shift(q, r) = <<g, p, j + 1>>
      BY <2>1, <2>3 DEF Shift
    <3>2. IsPlace(U, g, p, j + 1)
      BY <2>1, <2>3, <1>7
    <3>3. j \in 1..n /\ j + 1 \in 1..(n + 1) /\ ~(j + 1 <= i) /\ j + 1 # i + 1 /\ (j + 1) - 1 = j
      BY <2>2, <2>3, <1>4, SMTT(60)
    <3>4. U[g].pbs[p][j + 1] = W[g].pbs[p][j]
      BY <3>3, <1>5
    <3>5. At(U, <<g, p, j + 1>>) = U[g].pbs[p][j + 1]
      BY PlaceFact
    <3> QED
      BY <3>1, <3>2, <3>4, <3>5, <2>2, <2>3, PlaceFact
  <2>4. CASE ~(h = g /\ o = p /\ j > i)
    <3>1. Shift(q, r) = <<h, o, j>>
      BY <2>1, <2>4 DEF Shift
    <3>2. IsPlace(U, h, o, j)
      BY <2>1, <2>4, <1>7
    <3>3. U[h].pbs[o][j] = W[h].pbs[o][j]
      <4>1. CASE h # g
        BY <4>1, <2>2, <1>5
      <4>2. CASE h = g /\ o # p
        BY <4>2, <2>2, <1>5
      <4>3. CASE h = g /\ o = p /\ ~(j > i)
        <5>1. j \in 1..(n + 1) /\ j <= i
          BY <4>3, <2>2, <1>4
        <5> QED
          BY <5>1, <4>3, <1>5
      <4> QED
        BY <4>1, <4>2, <4>3, <2>4
    <3>4. At(U, <<h, o, j>>) = U[h].pbs[o][j]
      BY PlaceFact
    <3> QED
      BY <3>1, <3>2, <3>3, <3>4, <2>2, PlaceFact
  <2> QED
    BY <2>3, <2>4
<1>10. ASSUME NEW s \in Places(U) PROVE s = NextTo(q) \/ \E r \in Places(T) : s = Shift(q, r)
  <2>1. PICK h, o, j : s = <<h, o, j>> /\ IsPlace(U, h, o, j)
    BY PlaceFact
  <2>2. CASE h = g /\ o = p /\ j > i + 1 /\ IsPlace(T, h, o, j - 1)
    <3>1. j - 1 \in Int /\ j \in Int /\ i \in Int
      BY <2>1, <1>1, <1>4, <1>5, <2>2 DEF IsPlace
    <3>2. j - 1 > i /\ (j - 1) + 1 = j
      BY <3>1, <2>2
    <3>3. Shift(q, <<g, p, j - 1>>) = <<g, p, j>>
      BY <3>2 DEF Shift
    <3>4. <<g, p, j - 1>> \in Places(T)
      BY <2>2, PlaceFact
    <3> QED
      BY <3>3, <3>4, <2>1, <2>2
  <2>3. CASE ~(h = g /\ o = p /\ j > i) /\ IsPlace(T, h, o, j)
    <3>1. Shift(q, <<h, o, j>>) = <<h, o, j>>
      BY <2>3 DEF Shift
    <3> QED
      BY <3>1, <2>1, <2>3, PlaceFact
  <2> QED
    BY <2>1, <2>2, <2>3, <1>7
<1>11. At(W, q) = [key |-> At(T, q).key, b |-> l] /\ \A r \in Places(T) : r # q => At(W, r) = At(T, r)
  BY DEF Rebucketed
<1>12. Shift(q, q) = q
  BY ShiftFact, AtFact
<1>13. At(U, q) = [key |-> At(T, q).key, b |-> l]
  BY <1>9, <1>11, <1>12
<1>14. q[1] = g /\ q[2] = p
  OBVIOUS
<1>15. ASSUME NEW h \in 1..Len(T)
       PROVE  /\ U[h].next = T[h].next + (IF h = q[1] THEN 1 ELSE 0)
              /\ Len(U[h].pbs) = Len(T[h].pbs)
              /\ \A o \in 1..Len(T[h].pbs) : Len(U[h].pbs[o]) = Len(T[h].pbs[o]) + (IF h = q[1] /\ o = q[2] THEN 1 ELSE 0)
  <2>1. T[h].next \in Nat /\ \A o \in 1..Len(T[h].pbs) : Len(T[h].pbs[o]) \in Nat
    BY GroupFact
  <2>2. CASE h # g
    <3>1. U[h] = W[h] /\ W[h].next = T[h].next /\ Len(W[h].pbs) = Len(T[h].pbs)
      BY <2>2, <1>3, <1>5
    <3>2. \A o \in 1..Len(T[h].pbs) : Len(W[h].pbs[o]) = Len(T[h].pbs[o])
      BY <1>3
    <3> QED
      BY <2>1, <2>2, <3>1, <3>2, <1>14
  <2>3. CASE h = g
    <3>1. U[h].next = T[h].next + 1 /\ Len(U[h].pbs) = Len(T[h].pbs)
      BY <2>3, <1>3, <1>5
    <3>2. ASSUME NEW o \in 1..Len(T[h].pbs)
          PROVE  Len(U[h].pbs[o]) = Len(T[h].pbs[o]) + (IF o = p THEN 1 ELSE 0)
      <4>1. CASE o = p
        BY <4>1, <2>3, <1>4, <1>5
      <4>2. CASE o # p
        <5>1. U[h].pbs[o] = W[h].pbs[o] /\ Len(W[h].pbs[o]) = Len(T[h].pbs[o])
          BY <4>2, <2>3, <1>3, <1>5
        <5> QED
          BY <4>2, <5>1, <2>1
      <4> QED
        BY <4>1, <4>2
    <3> QED
      BY <2>3, <3>1, <3>2, <1>14
  <2> QED
    BY <2>2, <2>3
<1> QED
  BY <1>5, <1>8, <1>9, <1>10, <1>11, <1>13, <1>15 DEF Grown

\* Expand_ and the entry of the new bucket.
Splits(T, U, q, l, c, x) ==
  /\ q \in Places(T) /\ Shares(At(T, q).b, l, c, x) /\ Grown(T, U, q, l, [key |-> x, b |-> c])

SplitView(T, U, q, l, c, x) ==
  /\ U \in Seq(GroupSet) /\ q \in Triples /\ q[3] >= 1
  /\ \A r \in Places(T) : /\ r \in Triples /\ Shift(q, r) \in Places(U) /\ At(U, Shift(q, r)).key = At(T, r).key
                          /\ r # q => At(U, Shift(q, r)).b = At(T, r).b
  /\ q \in Places(U) /\ Shift(q, q) = q /\ At(U, q).key = At(T, q).key /\ At(U, q).b = l
  /\ NextTo(q) \in Places(U) /\ At(U, NextTo(q)).key = x /\ At(U, NextTo(q)).b = c
  /\ \A s \in Places(U) : s = NextTo(q) \/ \E r \in Places(T) : s = Shift(q, r)

\* What is where after a split.
LEMMA SplitViewFact ==
  ASSUME NEW T \in Seq(GroupSet), NEW U, NEW q, NEW l, NEW c, NEW x, Splits(T, U, q, l, c, x)
  PROVE  SplitView(T, U, q, l, c, x)
<1>1. q \in Places(T) /\ Grown(T, U, q, l, [key |-> x, b |-> c])
  BY DEF Splits
<1>2. q \in Triples /\ q[3] >= 1 /\ \A r \in Places(T) : r \in Triples
  BY <1>1, AtFact
<1>3. Shift(q, q) = q
  BY <1>2, ShiftFact
<1>4. At(U, q).key = At(T, q).key /\ At(U, q).b = l /\ q \in Places(U)
  BY <1>1, <1>3 DEF Grown
<1>5. At(U, NextTo(q)).key = x /\ At(U, NextTo(q)).b = c /\ NextTo(q) \in Places(U)
  BY <1>1 DEF Grown
<1>6. \A r \in Places(T) : r # q => At(U, Shift(q, r)).key = At(T, r).key /\ At(U, Shift(q, r)).b = At(T, r).b
  BY <1>1 DEF Grown
<1>7. \A r \in Places(T) : At(U, Shift(q, r)).key = At(T, r).key /\ Shift(q, r) \in Places(U)
  BY <1>1, <1>3, <1>4, <1>6 DEF Grown
<1>8. U \in Seq(GroupSet) /\ \A s \in Places(U) : s = NextTo(q) \/ \E r \in Places(T) : s = Shift(q, r)
  BY <1>1 DEF Grown
<1> QED
  BY <1>2, <1>3, <1>4, <1>5, <1>6, <1>7, <1>8 DEF SplitView

\* The first place stays the first.
LEMMA SplitFirst ==
  ASSUME NEW T \in Seq(GroupSet), NEW U, NEW q \in Places(T), NEW l, NEW c, NEW x, SplitView(T, U, q, l, c, x),
         NEW r \in Places(T), First(T, r)
  PROVE  First(U, Shift(q, r))
<1> SUFFICES ASSUME NEW s \in Places(U), Before(s, Shift(q, r)) PROVE FALSE
  BY DEF First
<1>1. q \in Triples /\ r \in Triples
  BY DEF SplitView
<1>2. CASE s = NextTo(q)
  <2>1. Before(q, r)
    BY <1>1, <1>2, ShiftFact
  <2> QED
    BY <2>1 DEF First
<1>3. ASSUME NEW a \in Places(T), s = Shift(q, a) PROVE FALSE
  <2>1. a \in Triples
    BY DEF SplitView
  <2>2. Before(a, r)
    BY <1>1, <1>3, <2>1, ShiftOrder
  <2> QED
    BY <2>2 DEF First
<1> QED
  BY <1>2, <1>3 DEF SplitView

\* Entry keys and the keys of buckets ascend.
LEMMA SplitSorted ==
  ASSUME NEW T \in Seq(GroupSet), Sorted(T), NEW U, NEW q, NEW l, NEW c, NEW x, Splits(T, U, q, l, c, x)
  PROVE  Sorted(U)
<1> DEFINE K(r) == At(T, r).key
           H(r) == Held(At(T, r).b)
           KU(r) == At(U, r).key
           HU(r) == Held(At(U, r).b)
           N(r) == Shift(q, r)
<1>1. SplitView(T, U, q, l, c, x) /\ q \in Places(T) /\ Shares(At(T, q).b, l, c, x)
  BY SplitViewFact DEF Splits
<1>2. \A r \in Places(T) : r \in Triples /\ KU(N(r)) = K(r) /\ K(r) \in Nat /\ H(r) \subseteq Nat
  BY <1>1, AtFact DEF SplitView
<1>3. \A r \in Places(T) : HU(N(r)) \subseteq H(r)
  <2>1. HU(q) \subseteq H(q) /\ N(q) = q
    BY <1>1 DEF SplitView, Shares
  <2>2. \A r \in Places(T) : r # q => HU(N(r)) = H(r)
    BY <1>1 DEF SplitView
  <2> QED
    BY <2>1, <2>2
<1>4. KU(NextTo(q)) = x /\ HU(NextTo(q)) \subseteq H(q) /\ x \in H(q) /\ (\A z \in HU(NextTo(q)) : x <= z) /\ x \in Nat
  BY <1>1 DEF SplitView, Shares
<1>5. N(q) = q /\ \A z \in HU(q) : z <= x
  BY <1>1 DEF SplitView, Shares
<1>6. \A r, s \in Places(T) : Before(r, s) => K(r) <= K(s) /\ \A z \in H(r) : z <= K(s)
  BY DEF Sorted
<1>7. \A r \in Places(T) : \A z \in H(r) : K(r) <= z
  BY DEF Sorted
<1>8. \A r, s \in Places(T) : Before(N(r), N(s)) => Before(r, s)
  BY <1>1, <1>2, ShiftOrder
<1>9. \A r \in Places(T) : (Before(N(r), NextTo(q)) => r = q \/ Before(r, q)) /\ (Before(NextTo(q), N(r)) => Before(q, r))
  BY <1>1, <1>2, ShiftFact
<1>10. ~Before(NextTo(q), NextTo(q))
  BY <1>1, <1>2, ShiftFact, BeforeFact
<1>11. \A s \in Places(U) : s = NextTo(q) \/ \E r \in Places(T) : s = N(r)
  BY <1>1 DEF SplitView
<1> HIDE DEF K, H, KU, HU, N
<1>12. ASSUME NEW r \in Places(U), NEW s \in Places(U), Before(r, s)
       PROVE  KU(r) <= KU(s) /\ \A z \in HU(r) : z <= KU(s)
  <2>1. CASE r = NextTo(q)
    <3>1. PICK b \in Places(T) : s = N(b)
      BY <2>1, <1>10, <1>11, <1>12
    <3>2. Before(q, b)
      BY <2>1, <3>1, <1>9, <1>12
    <3> QED
      BY <2>1, <3>1, <3>2, <1>1, <1>2, <1>4, <1>6
  <2>2. ASSUME NEW a \in Places(T), r = N(a), s = NextTo(q) PROVE KU(r) <= KU(s) /\ \A z \in HU(r) : z <= KU(s)
    <3>1. a = q \/ Before(a, q)
      BY <2>2, <1>9, <1>12
    <3>2. K(q) <= x /\ K(q) \in Nat /\ x \in Nat
      BY <1>1, <1>2, <1>4, <1>7
    <3>3. CASE a = q
      BY <2>2, <3>2, <3>3, <1>2, <1>4, <1>5
    <3>4. CASE Before(a, q)
      <4>1. K(a) <= K(q) /\ (\A z \in H(a) : z <= K(q)) /\ K(a) \in Nat /\ H(a) \subseteq Nat
        BY <3>4, <1>1, <1>2, <1>6
      <4>2. K(a) <= x /\ \A z \in H(a) : z <= x
        BY <4>1, <3>2
      <4> QED
        BY <4>2, <2>2, <1>2, <1>3, <1>4
    <3> QED
      BY <3>1, <3>3, <3>4
  <2>3. ASSUME NEW a \in Places(T), r = N(a), NEW b \in Places(T), s = N(b) PROVE KU(r) <= KU(s) /\ \A z \in HU(r) : z <= KU(s)
    <3>1. Before(a, b)
      BY <2>3, <1>8, <1>12
    <3> QED
      BY <3>1, <2>3, <1>2, <1>3, <1>6
  <2> QED
    BY <2>1, <2>2, <2>3, <1>11
<1>13. ASSUME NEW r \in Places(U), NEW z \in HU(r) PROVE KU(r) <= z
  <2>1. CASE r = NextTo(q)
    BY <2>1, <1>4, <1>13
  <2>2. ASSUME NEW a \in Places(T), r = N(a) PROVE KU(r) <= z
    BY <2>2, <1>2, <1>3, <1>7, <1>13
  <2> QED
    BY <2>1, <2>2, <1>11
<1> QED
  BY <1>12, <1>13 DEF Sorted, KU, HU

\* Entry keys are keys after a split.
LEMMA SplitKeyed ==
  ASSUME NEW T \in Seq(GroupSet), Keyed(T), NEW U, NEW q, NEW l, NEW c, NEW x, Splits(T, U, q, l, c, x)
  PROVE  Keyed(U)
<1>1. SplitView(T, U, q, l, c, x) /\ q \in Places(T) /\ Shares(At(T, q).b, l, c, x)
  BY SplitViewFact DEF Splits
<1>2. ASSUME NEW s \in Places(U) PROVE At(U, s).key \in Keys \/ First(U, s)
  <2>1. CASE s = NextTo(q)
    BY <2>1, <1>1 DEF SplitView, Shares
  <2>2. ASSUME NEW r \in Places(T), s = Shift(q, r) PROVE At(U, s).key \in Keys \/ First(U, s)
    <3>1. At(U, s).key = At(T, r).key
      BY <2>2, <1>1 DEF SplitView
    <3>2. At(T, r).key \in Keys \/ First(T, r)
      BY DEF Keyed
    <3>3. First(T, r) => First(U, s)
      BY <2>2, <1>1, SplitFirst
    <3> QED
      BY <3>1, <3>2, <3>3
  <2> QED
    BY <2>1, <2>2, <1>1 DEF SplitView
<1>3. ASSUME NEW s \in Places(U) PROVE Held(At(U, s).b) \subseteq Keys
  <2>1. CASE s = NextTo(q)
    BY <2>1, <1>1 DEF SplitView, Shares
  <2>2. CASE s = q
    BY <2>2, <1>1 DEF SplitView, Shares
  <2>3. ASSUME NEW r \in Places(T), s = Shift(q, r), r # q PROVE Held(At(U, s).b) \subseteq Keys
    <3>1. At(U, s).b = At(T, r).b
      BY <2>3, <1>1 DEF SplitView
    <3>2. Held(At(T, r).b) \subseteq Keys
      BY <2>3, <1>1 DEF Keyed
    <3> QED
      BY <3>1, <3>2
  <2> QED
    BY <2>1, <2>2, <2>3, <1>1 DEF SplitView
<1> QED
  BY <1>2, <1>3 DEF Keyed

\* A split changes no leading entry, so find_group finds the groups as before.
LEMMA SplitRouted ==
  ASSUME NEW T \in Seq(GroupSet), NEW M, Routed(T, M), NEW U, NEW q, NEW l, NEW c, NEW x, Splits(T, U, q, l, c, x)
  PROVE  Routed(U, M)
<1>1. SplitView(T, U, q, l, c, x) /\ q \in Places(T)
  BY SplitViewFact DEF Splits
<1>2. q \in Triples /\ q[3] >= 1
  BY <1>1 DEF SplitView
<1> SUFFICES ASSUME NEW s \in Places(U), Leads(s) PROVE First(U, s) \/ s[1] <= M[At(U, s).key]
  BY DEF Routed
<1>3. s # NextTo(q)
  BY <1>2, ShiftFact
<1>4. PICK r \in Places(T) : s = Shift(q, r)
  BY <1>1, <1>3 DEF SplitView
<1>5. r \in Triples /\ At(U, s).key = At(T, r).key
  BY <1>1, <1>4 DEF SplitView
<1>6. Leads(r) /\ s[1] = r[1]
  BY <1>2, <1>4, <1>5, ShiftFact
<1>7. First(T, r) \/ r[1] <= M[At(T, r).key]
  BY <1>6 DEF Routed
<1>8. First(T, r) => First(U, s)
  BY <1>1, <1>4, SplitFirst
<1> QED
  BY <1>5, <1>6, <1>7, <1>8

\* W has the images of S and one place more.
OneMore(S, f, x, W) ==
  /\ \A a, b \in S : f[a] = f[b] => a = b
  /\ \A a \in S : f[a] # x
  /\ W = {f[a] : a \in S} \cup {x}

\* The count of the places after a split.
LEMMA OneMorePlace ==
  ASSUME NEW S, IsFiniteSet(S), NEW f, NEW x, NEW W, OneMore(S, f, x, W)
  PROVE  Cardinality(W) = Cardinality(S) + 1
<1> DEFINE I == {f[a] : a \in S}
           h == [a \in S |-> f[a]]
<1>1. h \in Bijection(S, I)
  <2>1. h \in [S -> I] /\ \A a, b \in S : h[a] = h[b] => a = b
    BY DEF OneMore
  <2>2. \A y \in I : \E a \in S : h[a] = y
    OBVIOUS
  <2> QED
    BY <2>1, <2>2 DEF Bijection, Injection, Surjection, IsInjective
<1>2. x \notin I /\ W = I \cup {x}
  BY DEF OneMore
<1> HIDE DEF I, h
<1>3. IsFiniteSet(I) /\ Cardinality(I) = Cardinality(S)
  <2>1. IsFiniteSet(I) /\ Cardinality(S) = Cardinality(I)
    BY <1>1, FS_Bijection DEF ExistsBijection
  <2> QED
    BY <2>1
<1>4. Cardinality(I \cup {x}) = Cardinality(I) + 1
  BY <1>2, <1>3, FS_AddElement
<1> QED
  BY <1>2, <1>3, <1>4

\* The count of the group is that of its entries, and the PointerBEntry has room.
LEMMA SplitFormed ==
  ASSUME NEW T \in Seq(GroupSet), Formed(T), NEW U, NEW q, NEW l, NEW c, NEW x, Splits(T, U, q, l, c, x),
         Len(T[q[1]].pbs[q[2]]) < PbCount
  PROVE  Formed(U)
<1>1. SplitView(T, U, q, l, c, x) /\ q \in Places(T) /\ Shares(At(T, q).b, l, c, x) /\ Grown(T, U, q, l, [key |-> x, b |-> c])
  BY SplitViewFact DEF Splits
<1>2. /\ U \in Seq(GroupSet) /\ Len(U) = Len(T)
      /\ \A g \in 1..Len(T) :
           /\ U[g].next = T[g].next + (IF g = q[1] THEN 1 ELSE 0)
           /\ Len(U[g].pbs) = Len(T[g].pbs)
           /\ \A p \in 1..Len(T[g].pbs) : Len(U[g].pbs[p]) = Len(T[g].pbs[p]) + (IF g = q[1] /\ p = q[2] THEN 1 ELSE 0)
  BY <1>1 DEF Grown
<1>3. q \in Triples /\ \A r \in Places(T) : r \in Triples
  BY <1>1 DEF SplitView
<1>4. ASSUME NEW g \in 1..Len(T) PROVE U[g].next = Cardinality(PlacesIn(U, g))
  <2>1. T[g].next = Cardinality(PlacesIn(T, g))
    BY DEF Formed
  <2>2. CASE g = q[1]
    <3>1. PICK S : S = PlacesIn(T, g)
      OBVIOUS
    <3>2. IsFiniteSet(S)
      <4>1. IsFiniteSet(Places(T))
        BY PlacesFinite, GroupFact
      <4>2. S \subseteq Places(T)
        BY <3>1 DEF PlacesIn
      <4> QED
        BY <4>1, <4>2, FS_Subset
    <3>3. \A a : a \in S <=> a \in Places(T) /\ a[1] = g
      BY <3>1 DEF PlacesIn
    <3>4. PICK f : f = [a \in S |-> Shift(q, a)]
      OBVIOUS
    <3>5. f \in [S -> Triples] /\ \A a, b \in S : f[a] = f[b] => a = b
      <4>1. \A a \in S : f[a] = Shift(q, a) /\ a \in Triples
        BY <3>3, <3>4, <1>3
      <4>2. \A a \in S : Shift(q, a) \in Triples
        BY <4>1, <1>3, ShiftFact
      <4>3. \A a, b \in S : Shift(q, a) = Shift(q, b) => a = b
        BY <4>1, <1>3, ShiftOrder
      <4> QED
        BY <3>4, <4>1, <4>2, <4>3
    <3>6. \A a \in S : f[a] # NextTo(q)
      BY <3>3, <3>4, <1>3, ShiftFact
    <3>7. PICK W : W = PlacesIn(U, g)
      OBVIOUS
    <3>8. \A s : s \in W <=> s \in Places(U) /\ s[1] = g
      BY <3>7 DEF PlacesIn
    <3>9. \A a \in S : f[a] \in W
      <4> SUFFICES ASSUME NEW a \in S PROVE f[a] \in W
        OBVIOUS
      <4>1. f[a] = Shift(q, a) /\ a \in Places(T) /\ a[1] = g
        BY <3>3, <3>4
      <4>2. Shift(q, a)[1] = a[1]
        BY <4>1, <1>3, ShiftFact, SMTT(60)
      <4>3. Shift(q, a) \in Places(U)
        BY <4>1, <1>1 DEF SplitView
      <4> QED
        BY <4>1, <4>2, <4>3, <3>8
    <3>10. NextTo(q) \in W
      BY <2>2, <3>8, <1>1, <1>3, ShiftFact DEF SplitView
    <3>11. ASSUME NEW s \in W, s # NextTo(q) PROVE \E a \in S : s = f[a]
      <4>1. PICK a \in Places(T) : s = Shift(q, a)
        BY <3>8, <3>11, <1>1 DEF SplitView
      <4>2. a[1] = g
        BY <4>1, <3>8, <3>11, <1>3, ShiftFact
      <4> QED
        BY <4>1, <4>2, <3>3, <3>4
    <3>12. W = {f[a] : a \in S} \cup {NextTo(q)}
      BY <3>9, <3>10, <3>11
    <3>13. Cardinality(W) = Cardinality(S) + 1
      <4>1. PICK x0 : x0 = NextTo(q)
        OBVIOUS
      <4>2. (\A a \in S : f[a] # x0) /\ W = {f[a] : a \in S} \cup {x0}
        BY <4>1, <3>6, <3>12
      <4> QED
        <5>1. \A a, b \in S : f[a] = f[b] => a = b
          BY <3>5
        <5>2. \A a \in S : f[a] # x0
          BY <4>2
        <5>3. W = {f[a] : a \in S} \cup {x0}
          BY <4>2
        <5> QED
          <6>1. OneMore(S, f, x0, W)
            BY <5>1, <5>2, <5>3 DEF OneMore
          <6> QED
            BY <6>1, <3>2, OneMorePlace
    <3> QED
      BY <3>1, <3>7, <3>13, <2>1, <2>2, <1>2
  <2>3. CASE g # q[1]
    <3>1. PlacesIn(U, g) = PlacesIn(T, g)
      <4>1. \A a \in Places(T) : a[1] = g => Shift(q, a) = a
        BY <2>3 DEF Shift
      <4>2. \A a \in Places(T) : a[1] = g => a \in Places(U)
        BY <4>1, <1>1 DEF SplitView
      <4>3. ASSUME NEW s \in Places(U), s[1] = g PROVE s \in Places(T)
        <5>1. s # NextTo(q)
          <6>1. NextTo(q)[1] = q[1]
            BY <1>3, ShiftFact
          <6> QED
            BY <6>1, <4>3, <2>3
        <5>2. PICK a \in Places(T) : s = Shift(q, a)
          BY <5>1, <1>1 DEF SplitView
        <5>3. a[1] = g
          BY <5>2, <4>3, <1>3, ShiftFact, SMTT(60)
        <5> QED
          BY <5>2, <5>3, <4>1
      <4> QED
        BY <4>2, <4>3 DEF PlacesIn
    <3>2. T[g].next \in Nat
      BY GroupFact
    <3> QED
      <4>1. U[g].next = T[g].next + 0
        BY <2>3, <1>2
      <4>2. T[g].next + 0 = T[g].next
        BY <3>2
      <4> QED
        BY <4>1, <4>2, <3>1, <2>1
  <2> QED
    BY <2>2, <2>3
<1>5. ASSUME NEW g \in 1..Len(T), NEW p \in 1..Len(T[g].pbs) PROVE Len(U[g].pbs[p]) \in 1..PbCount
  <2>1. PICK n \in 1..PbCount : n = Len(T[g].pbs[p])
    BY DEF Formed
  <2>2. Len(U[g].pbs[p]) = n + (IF g = q[1] /\ p = q[2] THEN 1 ELSE 0)
    BY <2>1, <1>2
  <2>3. g = q[1] /\ p = q[2] => n < PbCount
    BY <2>1
  <2> QED
    BY <2>2, <2>3, ConstantFacts
<1>6. ASSUME NEW s \in Places(U) PROVE Len(At(U, s).b.kv) <= BucketCap
  <2>0. \A r \in Places(T) : Len(At(T, r).b.kv) <= BucketCap /\ Len(At(T, r).b.kv) \in Nat
    BY AtFact DEF Formed
  <2>1. PICK n \in Nat : n = Len(At(T, q).b.kv) /\ n <= BucketCap
    BY <2>0, <1>1
  <2>2. Len(l.kv) \in 1..(n - 1) /\ Len(c.kv) \in 1..(n - 1)
    BY <2>1, <1>1 DEF Shares
  <2>3. Len(l.kv) <= BucketCap /\ Len(c.kv) <= BucketCap
    BY <2>1, <2>2, ConstantFacts
  <2>4. CASE s = NextTo(q)
    BY <2>3, <2>4, <1>1 DEF SplitView
  <2>5. CASE s = q
    BY <2>3, <2>5, <1>1 DEF SplitView
  <2>6. ASSUME NEW r \in Places(T), s = Shift(q, r), r # q PROVE Len(At(U, s).b.kv) <= BucketCap
    BY <2>0, <2>6, <1>1 DEF SplitView
  <2> QED
    BY <2>4, <2>5, <2>6, <1>1 DEF SplitView
<1>7. Places(U) # {}
  BY <1>1 DEF SplitView
<1> QED
  BY <1>2, <1>4, <1>5, <1>6, <1>7 DEF Formed

\* The records of the bucket are at home in one of the two.
LEMMA SplitHome ==
  ASSUME NEW T \in Seq(GroupSet), Sorted(T), NEW U, NEW q, NEW l, NEW c, NEW x, Splits(T, U, q, l, c, x),
         NEW y \in Nat, NEW r, IsHome(T, r, y)
  PROVE  IF r = q /\ x <= y THEN IsHome(U, NextTo(q), y) ELSE IsHome(U, Shift(q, r), y)
<1>1. SplitView(T, U, q, l, c, x) /\ q \in Places(T) /\ Shares(At(T, q).b, l, c, x)
  BY SplitViewFact DEF Splits
<1>2. r \in Places(T) /\ (\A a \in Places(T) : Before(r, a) => y < At(T, a).key) /\ (At(T, r).key <= y \/ First(T, r))
  BY DEF IsHome
<1>3. q \in Triples /\ r \in Triples /\ (\A a \in Places(T) : a \in Triples /\ At(U, Shift(q, a)).key = At(T, a).key /\ Shift(q, a) \in Places(U))
  BY <1>1, <1>2 DEF SplitView
<1>4. At(T, q).key \in Nat /\ At(T, q).key <= x /\ x \in Nat
  BY <1>1, AtFact DEF Sorted, Shares
<1>5. \A s \in Places(U) : s = NextTo(q) \/ \E a \in Places(T) : s = Shift(q, a)
  BY <1>1 DEF SplitView
<1>6. At(U, NextTo(q)).key = x /\ NextTo(q) \in Places(U)
  BY <1>1 DEF SplitView
<1>7. CASE r = q /\ x <= y
  <2>1. ASSUME NEW s \in Places(U), Before(NextTo(q), s) PROVE y < At(U, s).key
    <3>1. ~Before(NextTo(q), NextTo(q))
      BY <1>3, ShiftFact, BeforeFact
    <3>2. PICK a \in Places(T) : s = Shift(q, a)
      BY <1>5, <2>1, <3>1
    <3>3. Before(q, a)
      BY <1>3, <2>1, <3>2, ShiftFact
    <3> QED
      BY <3>2, <3>3, <1>2, <1>3, <1>7
  <2> QED
    BY <2>1, <1>6, <1>7 DEF IsHome
<1>8. CASE ~(r = q /\ x <= y)
  <2>1. ASSUME NEW s \in Places(U), Before(Shift(q, r), s) PROVE y < At(U, s).key
    <3>1. CASE s = NextTo(q)
      <4>1. r = q \/ Before(r, q)
        BY <2>1, <3>1, <1>3, ShiftFact
      <4>2. CASE r = q
        BY <4>2, <3>1, <1>4, <1>6, <1>8
      <4>3. CASE Before(r, q)
        <5>1. y < At(T, q).key
          BY <4>3, <1>1, <1>2
        <5> QED
          BY <5>1, <3>1, <1>4, <1>6
      <4> QED
        BY <4>1, <4>2, <4>3
    <3>2. ASSUME NEW a \in Places(T), s = Shift(q, a) PROVE y < At(U, s).key
      <4>1. Before(r, a)
        BY <2>1, <3>2, <1>3, ShiftOrder
      <4> QED
        BY <4>1, <3>2, <1>2, <1>3
    <3> QED
      BY <3>1, <3>2, <1>5
  <2>2. At(U, Shift(q, r)).key <= y \/ First(U, Shift(q, r))
    BY <1>1, <1>2, <1>3, SplitFirst
  <2>3. IsHome(U, Shift(q, r), y)
    BY <2>1, <2>2, <1>2, <1>3 DEF IsHome
  <2> QED
    BY <2>3, <1>8
<1> QED
  BY <1>7, <1>8

\* Which record a record was.
LEMMA SplitRecord ==
  ASSUME NEW T \in Seq(GroupSet), NEW U, NEW q, NEW l, NEW c, NEW x, Splits(T, U, q, l, c, x), NEW y,
         NEW s, NEW j, IsRecord(U, s, j, y)
  PROVE  \/ s = NextTo(q) /\ j \in Slots(c, y) /\ \E i : IsRecord(T, q, i, y) /\ At(U, s).b.kv[j] = At(T, q).b.kv[i]
         \/ s = q /\ j \in Slots(l, y) /\ \E i : IsRecord(T, q, i, y) /\ At(U, s).b.kv[j] = At(T, q).b.kv[i]
         \/ \E r : s = Shift(q, r) /\ r # q /\ IsRecord(T, r, j, y) /\ At(U, s).b.kv[j] = At(T, r).b.kv[j]
<1>1. SplitView(T, U, q, l, c, x) /\ q \in Places(T) /\ Shares(At(T, q).b, l, c, x)
  BY SplitViewFact DEF Splits
<1>2. s \in Places(U) /\ j \in 1..Len(At(U, s).b.kv) /\ At(U, s).b.kv[j][1] = y
  BY DEF IsRecord
<1>3. CASE s = NextTo(q)
  <2>1. At(U, s).b = c
    BY <1>1, <1>3 DEF SplitView
  <2>2. PICK i \in 1..Len(At(T, q).b.kv) : c.kv[j] = At(T, q).b.kv[i]
    BY <2>1, <1>1, <1>2 DEF Shares
  <2> QED
    BY <2>1, <2>2, <1>1, <1>2, <1>3 DEF IsRecord, Slots
<1>4. CASE s = q
  <2>1. At(U, s).b = l
    BY <1>1, <1>4 DEF SplitView
  <2>2. PICK i \in 1..Len(At(T, q).b.kv) : l.kv[j] = At(T, q).b.kv[i]
    BY <2>1, <1>1, <1>2 DEF Shares
  <2> QED
    BY <2>1, <2>2, <1>1, <1>2, <1>4 DEF IsRecord, Slots
<1>5. ASSUME NEW r \in Places(T), s = Shift(q, r), r # q
      PROVE  \E a : s = Shift(q, a) /\ a # q /\ IsRecord(T, a, j, y) /\ At(U, s).b.kv[j] = At(T, a).b.kv[j]
  <2>1. At(U, s).b = At(T, r).b
    BY <1>1, <1>5 DEF SplitView
  <2> QED
    BY <2>1, <1>2, <1>5 DEF IsRecord
<1> QED
  BY <1>1, <1>2, <1>3, <1>4, <1>5 DEF SplitView

\* No record is lost or doubled by a split, and those of a home are at its new home.
LEMMA SplitMoved ==
  ASSUME NEW T \in Seq(GroupSet), Sorted(T), NEW U, NEW q, NEW l, NEW c, NEW x, Splits(T, U, q, l, c, x), NEW y \in Nat
  PROVE  Moved(T, U, y)
<1>1. SplitView(T, U, q, l, c, x) /\ q \in Places(T) /\ Shares(At(T, q).b, l, c, x)
  BY SplitViewFact DEF Splits
<1>2. ASSUME NEW r, NEW j, IsRecord(U, r, j, y) PROVE \E s, i : IsRecord(T, s, i, y) /\ At(U, r).b.kv[j] = At(T, s).b.kv[i]
  BY <1>2, SplitRecord
<1>3. PICK b : b = At(T, q).b
  OBVIOUS
<1>4. x \in Nat /\ (y < x => SameFor(b, l, y) /\ Slots(c, y) = {})
      /\ (x <= y => /\ Slots(b, y) # {} => Slots(c, y) # {}
                    /\ (\A i, j \in Slots(b, y) : i = j) => Slots(l, y) = {} /\ \A i, j \in Slots(c, y) : i = j)
  BY <1>1, <1>3 DEF Shares
<1>5. ASSUME Present(T, y) PROVE Present(U, y)
  <2>1. PICK r, j : IsHome(T, r, y) /\ IsRecord(T, r, j, y)
    BY <1>5 DEF Present
  <2>2. IF r = q /\ x <= y THEN IsHome(U, NextTo(q), y) ELSE IsHome(U, Shift(q, r), y)
    BY <2>1, SplitHome
  <2>3. r \in Places(T) /\ j \in Slots(At(T, r).b, y)
    BY <2>1, RecordFact
  <2>4. CASE r = q /\ x <= y
    <3>1. PICK i : i \in Slots(c, y)
      BY <2>3, <2>4, <1>3, <1>4
    <3>2. IsRecord(U, NextTo(q), i, y)
      BY <3>1, <1>1, RecordFact DEF SplitView
    <3> QED
      BY <3>2, <2>2, <2>4 DEF Present
  <2>5. CASE r = q /\ y < x
    <3>1. PICK i : i \in Slots(l, y)
      BY <2>3, <2>5, <1>3, <1>4 DEF SameFor
    <3>2. IsRecord(U, q, i, y) /\ Shift(q, r) = q
      BY <3>1, <2>5, <1>1, RecordFact DEF SplitView
    <3>3. ~(x <= y)
      BY <2>5, <1>4
    <3> QED
      BY <3>2, <3>3, <2>2 DEF Present
  <2>6. CASE r # q
    <3>1. At(U, Shift(q, r)).b = At(T, r).b /\ Shift(q, r) \in Places(U)
      BY <2>3, <2>6, <1>1 DEF SplitView
    <3>2. IsRecord(U, Shift(q, r), j, y)
      BY <3>1, <2>3, RecordFact
    <3> QED
      BY <3>2, <2>2, <2>6 DEF Present
  <2> QED
    BY <2>4, <2>5, <2>6, <1>4
<1>6. ASSUME Once(T, y) PROVE Once(U, y)
  <2> SUFFICES ASSUME NEW r, NEW s, NEW i, NEW j, IsRecord(U, r, i, y), IsRecord(U, s, j, y) PROVE r = s /\ i = j
    BY DEF Once
  <2>1. \A r1, s1, i1, j1 : IsRecord(T, r1, i1, y) /\ IsRecord(T, s1, j1, y) => r1 = s1 /\ i1 = j1
    BY <1>6 DEF Once
  <2>2. \A i1, j1 \in Slots(b, y) : i1 = j1
    <3>1. \A i1 : i1 \in Slots(b, y) => IsRecord(T, q, i1, y)
      BY <1>1, <1>3, RecordFact
    <3> QED
      BY <3>1, <2>1
  <2>3. \/ r = NextTo(q) /\ i \in Slots(c, y) /\ \E m : IsRecord(T, q, m, y)
        \/ r = q /\ i \in Slots(l, y) /\ \E m : IsRecord(T, q, m, y)
        \/ \E a : r = Shift(q, a) /\ a # q /\ IsRecord(T, a, i, y)
    BY SplitRecord
  <2>4. \/ s = NextTo(q) /\ j \in Slots(c, y) /\ \E m : IsRecord(T, q, m, y)
        \/ s = q /\ j \in Slots(l, y) /\ \E m : IsRecord(T, q, m, y)
        \/ \E a : s = Shift(q, a) /\ a # q /\ IsRecord(T, a, j, y)
    BY SplitRecord
  <2>5. CASE \E m : IsRecord(T, q, m, y)
    <3>1. /\ (r = NextTo(q) /\ i \in Slots(c, y)) \/ (r = q /\ i \in Slots(l, y))
          /\ (s = NextTo(q) /\ j \in Slots(c, y)) \/ (s = q /\ j \in Slots(l, y))
      <4>1. \A a, m : a # q => ~IsRecord(T, a, m, y)
        BY <2>1, <2>5
      <4> QED
        BY <4>1, <2>3, <2>4
    <3>2. CASE y < x
      BY <3>1, <3>2, <2>2, <1>4 DEF SameFor
    <3>3. CASE x <= y
      BY <3>1, <3>3, <2>2, <1>4
    <3> QED
      BY <3>2, <3>3, <1>4
  <2>6. CASE ~ \E m : IsRecord(T, q, m, y)
    BY <2>1, <2>3, <2>4, <2>6
  <2> QED
    BY <2>5, <2>6
<1> QED
  BY <1>2, <1>5, <1>6 DEF Moved

\* The key of the Put still belongs into its group after the split.
LEMMA SplitFits ==
  ASSUME NEW T \in Seq(GroupSet), Sorted(T), NEW M, NEW U, NEW q, NEW l, NEW c, NEW x, Splits(T, U, q, l, c, x),
         NEW g, NEW k \in Nat, Fits(T, M, g, k)
  PROVE  Fits(U, M, g, k)
<1>1. SplitView(T, U, q, l, c, x) /\ q \in Places(T) /\ Shares(At(T, q).b, l, c, x) /\ Grown(T, U, q, l, [key |-> x, b |-> c])
  BY SplitViewFact DEF Splits
<1>2. /\ g \in 1..Len(T) /\ T[g].pbs # <<>>
      /\ g <= M[k] \/ \A r \in Places(T) : r[1] >= g
      /\ \A r \in Places(T) :
           /\ r[1] > g => k < At(T, r).key
           /\ r[1] < g => At(T, r).key <= k /\ \A z \in Held(At(T, r).b) : z <= k
  BY DEF Fits
<1>3. g \in 1..Len(U) /\ U[g].pbs # <<>>
  <2>1. U \in Seq(GroupSet) /\ Len(U) = Len(T) /\ Len(U[g].pbs) = Len(T[g].pbs)
    BY <1>1, <1>2 DEF Grown
  <2>2. Len(T[g].pbs) # 0
    BY <1>2, GroupFact
  <2> QED
    BY <1>2, <2>1, <2>2
<1>4. q \in Triples /\ \A r \in Places(T) : r \in Triples /\ Shift(q, r)[1] = r[1] /\ NextTo(q)[1] = q[1]
  BY <1>1, ShiftFact DEF SplitView
<1>5. \A s \in Places(U) : s = NextTo(q) \/ \E a \in Places(T) : s = Shift(q, a)
  BY <1>1 DEF SplitView
<1>6. ASSUME NEW s \in Places(U)
      PROVE  /\ (\A r \in Places(T) : r[1] >= g) => s[1] >= g
             /\ s[1] > g => k < At(U, s).key
             /\ s[1] < g => At(U, s).key <= k /\ \A z \in Held(At(U, s).b) : z <= k
  <2>1. CASE s = NextTo(q)
    <3>1. At(U, s).key = x /\ At(U, s).b = c /\ s[1] = q[1]
      BY <2>1, <1>1, <1>4 DEF SplitView
    <3>2. x \in Held(At(T, q).b) /\ Held(c) \subseteq Held(At(T, q).b) /\ x \in Nat
      BY <1>1 DEF Shares
    <3>3. At(T, q).key <= x /\ At(T, q).key \in Nat
      BY <3>2, <1>1, AtFact DEF Sorted
    <3>4. q[1] > g => k < x
      <4>1. q[1] > g => k < At(T, q).key
        BY <1>1, <1>2
      <4> QED
        BY <4>1, <3>2, <3>3
    <3> QED
      BY <3>1, <3>2, <3>4, <1>1, <1>2
  <2>2. ASSUME NEW r \in Places(T), s = Shift(q, r)
        PROVE  /\ (\A a \in Places(T) : a[1] >= g) => s[1] >= g
               /\ s[1] > g => k < At(U, s).key
               /\ s[1] < g => At(U, s).key <= k /\ \A z \in Held(At(U, s).b) : z <= k
    <3>1. s[1] = r[1] /\ At(U, s).key = At(T, r).key
      BY <2>2, <1>1, <1>4 DEF SplitView
    <3>2. Held(At(U, s).b) \subseteq Held(At(T, r).b)
      <4>1. CASE r = q
        BY <4>1, <2>2, <1>1 DEF SplitView, Shares
      <4>2. CASE r # q
        BY <4>2, <2>2, <1>1 DEF SplitView
      <4> QED
        BY <4>1, <4>2
    <3> QED
      BY <3>1, <3>2, <1>2
  <2> QED
    BY <2>1, <2>2, <1>5
<1>7. g <= M[k] \/ \A s \in Places(U) : s[1] >= g
  BY <1>2, <1>6
<1> QED
  BY <1>3, <1>6, <1>7 DEF Fits

\* After the split there is room for the key.
LEMMA SplitRoom ==
  ASSUME NEW T \in Seq(GroupSet), Formed(T), Sorted(T), NEW U, NEW q, NEW l, NEW c, NEW x, Splits(T, U, q, l, c, x), Formed(U), Sorted(U),
         NEW g \in 1..Len(U), U[g].pbs # <<>>, NEW k \in Nat, IsSpot(T, g, q, k)
  PROVE  Len(At(U, SpotOf(U, g, k)).b.kv) < BucketCap
<1>1. SplitView(T, U, q, l, c, x) /\ q \in Places(T) /\ Shares(At(T, q).b, l, c, x)
  BY SplitViewFact DEF Splits
<1>2. U \in Seq(GroupSet) /\ q \in Triples /\ \A r \in Places(T) : r \in Triples
  BY <1>1 DEF SplitView
<1>3. IsSpot(U, g, SpotOf(U, g, k), k)
  BY <1>2, PlaceSpot
<1>4. q[1] = g /\ (\A r \in Places(T) : r[1] = g /\ Before(q, r) => k < At(T, r).key) /\ (At(T, q).key <= k \/ Leads(q))
  BY DEF IsSpot
<1>5. x \in Nat
  BY <1>1 DEF Shares
<1>6. ASSUME NEW s \in Places(U), s[1] = g, s # NextTo(q), Before(q, s) \/ Before(NextTo(q), s) PROVE k < At(U, s).key
  <2>1. PICK a \in Places(T) : s = Shift(q, a)
    BY <1>1, <1>6 DEF SplitView
  <2>2. a \in Triples /\ a[1] = g
    BY <2>1, <1>2, <1>6, ShiftFact, SMTT(60)
  <2>3. Shift(q, q) = q
    BY <1>2, ShiftFact
  <2>4. Before(q, a)
    BY <2>1, <2>2, <2>3, <1>2, <1>6, ShiftFact, ShiftOrder
  <2> QED
    BY <2>1, <2>2, <2>4, <1>1, <1>4 DEF SplitView
<1>7. NextTo(q)[1] = g /\ ~Before(NextTo(q), NextTo(q))
  BY <1>2, <1>4, ShiftFact, BeforeFact
<1>8. PICK n \in Nat : n = Len(At(T, q).b.kv) /\ n <= BucketCap
  BY <1>1, AtFact DEF Formed
<1>9. Len(l.kv) < BucketCap /\ Len(c.kv) < BucketCap
  <2>1. Len(l.kv) \in 1..(n - 1) /\ Len(c.kv) \in 1..(n - 1)
    BY <1>1, <1>8 DEF Shares
  <2> QED
    <3>1. BucketCap \in Nat
      BY ConstantFacts
    <3> QED
      BY <3>1, <2>1, <1>8, SMTT(60)
<1>10. CASE x <= k
  <2>1. IsSpot(U, g, NextTo(q), k)
    BY <1>1, <1>6, <1>7, <1>10 DEF IsSpot, SplitView
  <2>2. SpotOf(U, g, k) = NextTo(q)
    BY <2>1, <1>2, <1>3, SpotUnique
  <2> QED
    BY <2>2, <1>1, <1>9 DEF SplitView
<1>11. CASE k < x
  <2>1. \A s \in Places(U) : s[1] = g /\ Before(q, s) => k < At(U, s).key
    BY <1>1, <1>6, <1>11 DEF SplitView
  <2>3. IsSpot(U, g, q, k)
    BY <2>1, <1>1, <1>4 DEF IsSpot, SplitView
  <2>2. SpotOf(U, g, k) = q
    BY <2>3, <1>2, <1>3, SpotUnique
  <2> QED
    BY <2>2, <1>1, <1>9 DEF SplitView
<1> QED
  BY <1>10, <1>11, <1>5

\* The state a Put under way is in.
LEMMA CallFact ==
  ASSUME Sound(tree, model), CallInv, call.g # 0
  PROVE  /\ tree \in Seq(GroupSet) /\ Formed(tree) /\ Sorted(tree) /\ Keyed(tree) /\ Routed(tree, model)
         /\ model \in Monotone(Len(tree))
         /\ call \in [k : Keys, v : Values, g : Nat, n : Nat] /\ call.k \in Keys /\ call.k \in Nat /\ call.v \in Values /\ call.n \in Nat
         /\ Fits(tree, model, call.g, call.k) /\ call # NoCall
<1>1. call \in [k : Keys, v : Values, g : Nat, n : Nat] /\ Fits(tree, model, call.g, call.k)
  BY DEF CallInv, NoCall
<1>2. call.k \in Keys /\ call.v \in Values /\ call.n \in Nat
  BY <1>1
<1>3. call.k \in Nat
  BY <1>2, KeyFact
<1>4. call # NoCall
  BY DEF NoCall
<1> QED
  BY <1>1, <1>2, <1>3, <1>4 DEF Sound, Formed

\* The bucket that group::Put uses is the one at the spot of its key.
LEMMA TargetFact ==
  ASSUME NEW q, q = SpotOf(tree, call.g, call.k)
  PROVE  /\ Target = At(tree, q).b
         /\ TargetPb = tree[q[1]].pbs[q[2]] /\ q = <<call.g, Place(tree[call.g], call.k)[1], Place(tree[call.g], call.k)[2]>>
BY BucketOfFact DEF Target, TargetPb, SpotOf

\* What PutSplit does.
LEMMA PutSplitSplits ==
  ASSUME Sound(tree, model), CallInv, PutSplit, NEW q, q = SpotOf(tree, call.g, call.k)
  PROVE  /\ Splits(tree, tree', q, Lower(Target), UpperBucket(Target), SplitKey(Target))
         /\ Len(tree[q[1]].pbs[q[2]]) < PbCount
<1>1. call.g # 0 /\ BucketFull(Target) /\ Len(TargetPb) < PbCount
  BY DEF PutSplit
<1>2. tree \in Seq(GroupSet) /\ Formed(tree) /\ Sorted(tree) /\ Fits(tree, model, call.g, call.k) /\ call.k \in Nat
  BY <1>1, CallFact
<1>3. q \in Places(tree)
  BY <1>2, FitsSpot
<1>4. PICK b \in Buckets : b = Target /\ b = At(tree, q).b
  BY <1>3, <1>2, AtFact, TargetFact
<1>5. Len(b.kv) >= 2
  BY <1>1, <1>4, BucketFact, ConstantFacts DEF BucketFull
<1>6. PICK l : l = Lower(b)
  OBVIOUS
<1>7. PICK c : c = UpperBucket(b)
  OBVIOUS
<1>8. PICK x : x = SplitKey(b)
  OBVIOUS
<1>9. Shares(b, l, c, x)
  BY <1>5, <1>6, <1>7, <1>8, SplitFact
<1>10. l \in Buckets /\ c \in Buckets /\ x \in Keys
  BY <1>9 DEF Shares
<1>11. PICK g : g = call.g
  OBVIOUS
<1>12. PICK p : p = Place(tree[call.g], call.k)[1]
  OBVIOUS
<1>13. PICK i : i = Place(tree[call.g], call.k)[2]
  OBVIOUS
<1>14. q = <<g, p, i>>
  BY <1>11, <1>12, <1>13, TargetFact
<1>15. PICK W : W = WithBucket(call.g, call.k, l)
  OBVIOUS
<1>16. Rebucketed(tree, W, q, l)
  BY <1>2, <1>3, <1>10, <1>15, WithBucketFact
<1>17. PICK e : e = [key |-> x, b |-> c]
  OBVIOUS
<1>18. e \in EntrySet
  BY <1>10, <1>17 DEF EntrySet
<1>19. e = [key |-> Upper(Target)[1][1], b |-> [kv |-> Upper(Target), slot |-> 0]]
  BY <1>4, <1>7, <1>8, <1>17 DEF UpperBucket, SplitKey
<1>20. Inserts(W, tree', g, p, i, e)
  BY <1>4, <1>6, <1>11, <1>12, <1>13, <1>15, <1>19, ZenonT(60) DEF PutSplit, Inserts
<1>21. W \in Seq(GroupSet) /\ Places(W) = Places(tree)
  BY <1>16, SamePlaces DEF Rebucketed
<1>22. Inserted(W, tree', g, p, i, e)
  BY <1>3, <1>14, <1>18, <1>20, <1>21, InsertedFact
<1>23. Grown(tree, tree', q, l, e)
  BY <1>2, <1>3, <1>10, <1>14, <1>16, <1>18, <1>22, GrownFact
<1>24. Splits(tree, tree', q, l, c, x)
  BY <1>3, <1>4, <1>9, <1>17, <1>23 DEF Splits
<1> QED
  BY <1>1, <1>4, <1>6, <1>7, <1>8, <1>24, TargetFact, SMTT(60)

\* PutSplit keeps the invariant: the bucket that the retry finds has room.
LEMMA SplitStep ==
  ASSUME Inv, PutSplit
  PROVE  Inv'
<1>1. Sound(tree, model) /\ MapInv /\ CallInv /\ RetryInv
  BY DEF Inv
<1>2. call.g # 0 /\ BucketFull(Target) /\ model' = model /\ ref' = ref /\ kept' = kept /\ call' = [call EXCEPT !.n = @ + 1]
  BY DEF PutSplit
<1>3. /\ tree \in Seq(GroupSet) /\ Formed(tree) /\ Sorted(tree) /\ Keyed(tree) /\ Routed(tree, model)
      /\ model \in Monotone(Len(tree))
      /\ call \in [k : Keys, v : Values, g : Nat, n : Nat] /\ call.k \in Keys /\ call.k \in Nat /\ call.n \in Nat
      /\ Fits(tree, model, call.g, call.k)
  BY <1>1, <1>2, CallFact
<1>4. PICK T \in Seq(GroupSet) : T = tree
  BY <1>3
<1>5. PICK U : U = tree'
  OBVIOUS
<1>6. PICK q : q = SpotOf(tree, call.g, call.k)
  OBVIOUS
<1>7. PICK l, c, x : Splits(T, U, q, l, c, x) /\ Len(T[q[1]].pbs[q[2]]) < PbCount
  BY <1>1, <1>4, <1>5, <1>6, PutSplitSplits
<1>8. Formed(U) /\ Sorted(U) /\ Keyed(U) /\ Routed(U, model)
  BY <1>3, <1>4, <1>7, SplitFormed, SplitSorted, SplitKeyed, SplitRouted
<1>9. U \in Seq(GroupSet) /\ Len(U) = Len(T)
  BY <1>7 DEF Splits, Grown
<1>10. Sound(tree', model')
  BY <1>2, <1>3, <1>4, <1>5, <1>8, <1>9 DEF Sound
<1>11. MapInv'
  <2>1. ASSUME NEW y \in Keys PROVE Holds(U, y, ref[y], y \in kept)
    <3>1. Holds(T, y, ref[y], y \in kept) /\ ref[y] \in Values \cup {None, Unknown}
      BY <1>1, <1>4 DEF MapInv
    <3>2. y \in Nat
      BY KeyFact
    <3>3. Moved(T, U, y)
      BY <3>2, <1>3, <1>4, <1>7, SplitMoved
    <3> QED
      BY <3>1, <3>3, MovedHolds
  <2> QED
    BY <2>1, <1>1, <1>2, <1>5 DEF MapInv
<1>12. call'.k = call.k /\ call'.g = call.g /\ call'.n = call.n + 1 /\ call' \in [k : Keys, v : Values, g : Nat, n : Nat]
  BY <1>2, <1>3
<1>13. Fits(U, model, call.g, call.k)
  BY <1>3, <1>4, <1>7, SplitFits
<1>14. CallInv'
  BY <1>2, <1>5, <1>12, <1>13 DEF CallInv
<1>15. Len(At(U, SpotOf(U, call.g, call.k)).b.kv) < BucketCap
  <2>1. IsSpot(T, call.g, q, call.k)
    BY <1>3, <1>4, <1>6, FitsSpot
  <2>2. call.g \in 1..Len(U) /\ U[call.g].pbs # <<>>
    BY <1>13 DEF Fits
  <2> QED
    BY <2>1, <2>2, <1>3, <1>4, <1>7, <1>8, SplitRoom
<1>16. ~BucketFull(Target)'
  <2>1. Target' = BucketOf(U[call.g], call.k)
    BY <1>5, <1>12 DEF Target
  <2>2. Target' = At(U, SpotOf(U, call.g, call.k)).b
    BY <2>1, BucketOfFact
  <2>3. SpotOf(U, call.g, call.k) \in Places(U)
    BY <1>3, <1>8, <1>9, <1>13, FitsSpot
  <2>4. Len(At(U, SpotOf(U, call.g, call.k)).b.kv) \in Nat
    BY <2>3, <1>9, AtFact
  <2> QED
    BY <2>2, <2>4, <1>15, ConstantFacts DEF BucketFull
<1>17. call.n \in {0, 1}
  BY <1>1, <1>2 DEF RetryInv
<1>18. RetryInv'
  BY <1>2, <1>12, <1>16, <1>17 DEF RetryInv
<1>19. ScanInv'
  BY <1>2, <1>12 DEF ScanInv, NoCall
<1> QED
  BY <1>10, <1>11, <1>14, <1>18, <1>19 DEF Inv

----------------------------------------------------------------------------
(* Update and Delete.                                                      *)

\* A key has one home.
LEMMA HomeUnique ==
  ASSUME NEW T \in Seq(GroupSet), NEW k \in Nat, NEW q, NEW r, IsHome(T, q, k), IsHome(T, r, k)
  PROVE  q = r
<1>1. q \in Places(T) /\ r \in Places(T)
  BY DEF IsHome
<1>2. q \in Triples /\ r \in Triples /\ At(T, q).key \in Nat /\ At(T, r).key \in Nat
  BY <1>1, AtFact
<1>3. ~Before(q, r) /\ ~Before(r, q)
  BY <1>1, <1>2 DEF IsHome, First
<1> QED
  BY <1>2, <1>3, BeforeFact

\* Where Update and Delete look: at home.
LEMMA FoundFact ==
  ASSUME Sound(tree, model), NEW k \in Keys, NEW g, g = FindGroup(k), NEW q, q = SpotOf(tree, g, k)
  PROVE  /\ tree \in Seq(GroupSet) /\ IsHome(tree, q, k) /\ q \in Places(tree) /\ k \in Nat
         /\ At(tree, q).b \in Buckets /\ BucketOf(tree[g], k) = At(tree, q).b
         /\ Len(At(tree, q).b.kv) <= BucketCap
         /\ \A c \in Buckets : Rebucketed(tree, WithBucket(g, k, c), q, c)
<1>1. tree \in Seq(GroupSet) /\ k \in Nat
  BY KeyFact DEF Sound, Formed
<1>2. IsHome(tree, q, k) /\ q \in Places(tree)
  BY <1>1, FindGroupFits DEF IsHome
<1>3. At(tree, q).b \in Buckets
  BY <1>1, <1>2, AtFact
<1>4. BucketOf(tree[g], k) = At(tree, q).b
  BY BucketOfFact
<1>5. Len(At(tree, q).b.kv) <= BucketCap
  BY <1>2 DEF Sound, Formed
<1>6. \A c \in Buckets : Rebucketed(tree, WithBucket(g, k, c), q, c)
  BY <1>1, <1>2, WithBucketFact
<1> QED
  BY <1>1, <1>2, <1>3, <1>4, <1>5, <1>6

\* What remove_key leaves in the bucket, whether the key is in it or not.
LEMMA RemoveKeyShares ==
  ASSUME NEW b \in Buckets, NEW k, NEW c, c = RemoveKey(b, k)
  PROVE  /\ c \in Buckets /\ Len(c.kv) <= Len(b.kv) /\ Held(c) \subseteq Held(b)
         /\ \A j \in 1..Len(c.kv) : \E i \in 1..Len(b.kv) : c.kv[j] = b.kv[i]
         /\ \A y : y # k => SameFor(b, c, y)
         /\ (\A i, j \in Slots(b, k) : i = j) => Slots(c, k) = {}
<1>1. CASE Slots(b, k) = {}
  <2>1. c = b
    BY <1>1 DEF RemoveKey
  <2> QED
    BY <1>1, <2>1, BucketFact DEF SameFor
<1>2. CASE Slots(b, k) # {}
  <2>1. Leaves(b, k, c)
    BY <1>2, RemoveKeyLeaves
  <2> QED
    <3>1. /\ c \in Buckets /\ Len(c.kv) = Len(b.kv) - 1 /\ Held(c) \subseteq Held(b)
          /\ \A j \in 1..Len(c.kv) : \E i \in 1..Len(b.kv) : c.kv[j] = b.kv[i]
      BY <2>1 DEF Leaves
    <3>2. Len(c.kv) <= Len(b.kv)
      BY <3>1, BucketFact
    <3>3. ASSUME NEW y, y # k PROVE SameFor(b, c, y)
      <4>1. Cardinality(Slots(c, y)) = Cardinality(Slots(b, y)) - 0 /\ Cardinality(Slots(b, y)) \in Nat
        BY <2>1, <3>3, SlotsFinite DEF Leaves
      <4>2. Cardinality(Slots(c, y)) = Cardinality(Slots(b, y))
        BY <4>1
      <4> QED
        BY <4>2, <3>1, CountSame
    <3>4. ASSUME \A i, j \in Slots(b, k) : i = j PROVE Slots(c, k) = {}
      <4>1. PICK n \in Nat : n = Cardinality(Slots(b, k)) /\ n <= 1 /\ n # 0
        BY <1>2, <3>4, SlotsFinite
      <4>2. Cardinality(Slots(c, k)) = n - 1
        BY <2>1, <4>1 DEF Leaves
      <4>3. n - 1 = 0
        BY <4>1
      <4> QED
        BY <4>2, <4>3, <3>1, SlotsFinite
    <3> QED
      BY <3>1, <3>2, <3>3, <3>4
<1> QED
  BY <1>1, <1>2

\* Update keeps the invariant.
LEMMA UpdateStep ==
  ASSUME Inv, NEW k \in Keys, NEW v \in Values, Update(k, v)
  PROVE  Inv'
<1>1. Sound(tree, model) /\ MapInv
  BY DEF Inv
<1>2. /\ call = NoCall /\ call' = NoCall /\ model' = model /\ kept' = kept /\ answer'[1] = "update"
      /\ ref' = [ref EXCEPT ![k] = IF @ \in Values THEN v ELSE @]
  BY DEF Update, Asked
<1>3. PICK g : g = FindGroup(k)
  OBVIOUS
<1>4. PICK q : q = SpotOf(tree, g, k)
  OBVIOUS
<1>5. PICK T \in Seq(GroupSet) : T = tree
  BY <1>1 DEF Sound, Formed
<1>6. PICK U : U = tree'
  OBVIOUS
<1>7. PICK b \in Buckets : b = At(T, q).b
  BY <1>1, <1>3, <1>4, <1>5, FoundFact
<1>8. PICK c : c = BucketUpdate(b, k, v)
  OBVIOUS
<1>9. /\ c \in Buckets /\ Len(c.kv) = Len(b.kv) /\ Held(c) \subseteq Held(b)
      /\ \A y : Slots(c, y) = Slots(b, y)
      /\ \A j \in 1..Len(b.kv) : b.kv[j][1] # k => c.kv[j] = b.kv[j]
      /\ Slots(b, k) # {} => \E j \in Slots(b, k) : c.kv[j] = <<k, v>>
  <2>1. Rewrites(b, k, v, c)
    BY <1>7, <1>8, BucketUpdateFact
  <2> QED
    BY <2>1 DEF Rewrites
<1>10. /\ IsHome(T, q, k) /\ q \in Places(T) /\ k \in Nat /\ BucketOf(tree[g], k) = b
       /\ Len(b.kv) <= BucketCap
       /\ Rebucketed(T, WithBucket(g, k, c), q, c)
  BY <1>1, <1>3, <1>4, <1>5, <1>7, <1>9, FoundFact
<1>11. U = WithBucket(g, k, c)
  BY <1>3, <1>6, <1>8, <1>10 DEF Update
<1>12. Rebucketed(T, U, q, c)
  BY <1>10, <1>11
<1>13. Sound(U, model)
  BY <1>1, <1>5, <1>7, <1>9, <1>10, <1>12, RebucketedSound
<1>14. \A y : y # k => SameFor(b, c, y)
  <2> SUFFICES ASSUME NEW y, y # k PROVE SameFor(b, c, y)
    OBVIOUS
  <2>1. \A j \in Slots(b, y) : j \in 1..Len(b.kv) /\ b.kv[j][1] # k
    BY DEF Slots
  <2>2. \A j \in Slots(b, y) : c.kv[j] = b.kv[j]
    BY <2>1, <1>9
  <2>3. Slots(c, y) = Slots(b, y)
    BY <1>9
  <2> QED
    BY <2>2, <2>3 DEF SameFor
<1>15. \A y \in Keys : Holds(T, y, ref[y], y \in kept) /\ ref[y] \in Values \cup {None, Unknown}
  BY <1>1, <1>5 DEF MapInv
<1>16. \A y \in Keys : y # k => Holds(U, y, ref[y], y \in kept)
  <2> SUFFICES ASSUME NEW y \in Keys, y # k PROVE Holds(U, y, ref[y], y \in kept)
    OBVIOUS
  <2>1. Holds(T, y, ref[y], y \in kept) /\ ref[y] \in Values \cup {None, Unknown}
    BY <1>15
  <2> QED
    <3>1. Moved(T, U, y)
      BY <1>7, <1>9, <1>10, <1>12, <1>14, RebucketedMoved
    <3> QED
      BY <2>1, <3>1, MovedHolds
<1>17. /\ Places(U) = Places(T) /\ At(U, q).b = c
       /\ \A r \in Places(T) : r # q => At(U, r).b = At(T, r).b
       /\ \A r : IsHome(U, r, k) <=> IsHome(T, r, k)
  BY <1>9, <1>10, <1>12, RebucketedAt
<1>18. \A r, j : IsRecord(U, r, j, k) <=> IsRecord(T, r, j, k)
  <2> SUFFICES ASSUME NEW r, NEW j PROVE IsRecord(U, r, j, k) <=> IsRecord(T, r, j, k)
    OBVIOUS
  <2>1. r \in Places(T) => Slots(At(U, r).b, k) = Slots(At(T, r).b, k)
    BY <1>7, <1>9, <1>17
  <2> QED
    BY <2>1, <1>17, RecordFact
<1>19. Absent(T, k) => Absent(U, k)
  BY <1>18 DEF Absent
<1>20. Present(T, k) => Present(U, k)
  BY <1>17, <1>18 DEF Present
<1>21. ASSUME NEW x, Alone(T, k, x) PROVE Alone(U, k, v)
  <2>1. PICK r, j : /\ IsHome(T, r, k) /\ IsRecord(T, r, j, k) /\ \A s, i : IsRecord(T, s, i, k) => s = r /\ i = j
    BY <1>21 DEF Alone
  <2>2. r = q
    BY <2>1, <1>10, HomeUnique
  <2>3. \A i : i \in Slots(b, k) => IsRecord(T, q, i, k)
    BY <1>7, <1>10, RecordFact
  <2>4. j \in Slots(b, k)
    BY <2>1, <2>2, <1>7, RecordFact
  <2>5. PICK i \in Slots(b, k) : c.kv[i] = <<k, v>>
    BY <2>4, <1>9
  <2>6. i = j
    BY <2>1, <2>3
  <2>7. At(U, q).b.kv[j][2] = v
    BY <2>5, <2>6, <1>17
  <2> QED
    BY <2>1, <2>2, <2>7, <1>17, <1>18 DEF Alone
<1>22. Holds(U, k, IF ref[k] \in Values THEN v ELSE ref[k], k \in kept)
  <2>1. CASE ref[k] \in Values
    <3>1. Alone(U, k, v)
      BY <2>1, <1>15, <1>21 DEF Holds
    <3>2. v # None /\ v # Unknown
      BY ConstantFacts
    <3> QED
      BY <2>1, <3>1, <3>2 DEF Holds
  <2>2. CASE ref[k] \notin Values
    BY <2>2, <1>15, <1>19, <1>20 DEF Holds
  <2> QED
    BY <2>1, <2>2
<1>23. MapInv'
  <2>1. ref \in [Keys -> Values \cup {None, Unknown}]
    BY <1>1 DEF MapInv
  <2>2. ref' \in [Keys -> Values \cup {None, Unknown}]
    BY <2>1, <1>2
  <2>3. ref'[k] = (IF ref[k] \in Values THEN v ELSE ref[k]) /\ \A y \in Keys : y # k => ref'[y] = ref[y]
    BY <2>1, <1>2
  <2>4. ASSUME NEW y \in Keys PROVE Holds(U, y, ref'[y], y \in kept)
    <3>1. CASE y = k
      BY <3>1, <2>3, <1>22
    <3>2. CASE y # k
      BY <3>2, <2>3, <1>16
    <3> QED
      BY <3>1, <3>2
  <2> QED
    BY <2>2, <2>4, <1>2, <1>6 DEF MapInv
<1>24. Sound(tree', model') /\ CallInv' /\ RetryInv' /\ ScanInv'
  <2>1. call'.n = 0
    BY <1>2 DEF NoCall
  <2> QED
    BY <2>1, <1>2, <1>6, <1>13 DEF CallInv, RetryInv, ScanInv
<1> QED
  BY <1>23, <1>24 DEF Inv

\* Delete keeps the invariant: a record that is alone is gone, and of several one.
LEMMA DeleteStep ==
  ASSUME Inv, NEW k \in Keys, Delete(k)
  PROVE  Inv'
<1>1. Sound(tree, model) /\ MapInv
  BY DEF Inv
<1>2. /\ call = NoCall /\ call' = NoCall /\ model' = model /\ kept' = kept \ {k} /\ answer'[1] = "delete"
      /\ ref' = [ref EXCEPT ![k] = IF @ \in Values THEN None ELSE @]
  BY DEF Delete, Asked
<1>3. PICK g : g = FindGroup(k)
  OBVIOUS
<1>4. PICK q : q = SpotOf(tree, g, k)
  OBVIOUS
<1>5. PICK T \in Seq(GroupSet) : T = tree
  BY <1>1 DEF Sound, Formed
<1>6. PICK U : U = tree'
  OBVIOUS
<1>7. PICK b \in Buckets : b = At(T, q).b
  BY <1>1, <1>3, <1>4, <1>5, FoundFact
<1>8. PICK c : c = RemoveKey(b, k)
  OBVIOUS
<1>9. /\ c \in Buckets /\ Len(c.kv) <= Len(b.kv) /\ Held(c) \subseteq Held(b)
      /\ \A j \in 1..Len(c.kv) : \E i \in 1..Len(b.kv) : c.kv[j] = b.kv[i]
      /\ \A y : y # k => SameFor(b, c, y)
      /\ (\A i, j \in Slots(b, k) : i = j) => Slots(c, k) = {}
  BY <1>8, RemoveKeyShares
<1>10. /\ IsHome(T, q, k) /\ q \in Places(T) /\ k \in Nat /\ BucketOf(tree[g], k) = b
       /\ Len(b.kv) <= BucketCap
       /\ Rebucketed(T, WithBucket(g, k, c), q, c)
  BY <1>1, <1>3, <1>4, <1>5, <1>7, <1>9, FoundFact
<1>11. U = WithBucket(g, k, c)
  BY <1>3, <1>6, <1>8, <1>10 DEF Delete
<1>12. Rebucketed(T, U, q, c)
  BY <1>10, <1>11
<1>13. Sound(U, model)
  <2>1. Len(c.kv) <= BucketCap
    BY <1>9, <1>10, BucketFact, ConstantFacts
  <2> QED
    BY <2>1, <1>1, <1>5, <1>7, <1>9, <1>10, <1>12, RebucketedSound
<1>15. \A y \in Keys : Holds(T, y, ref[y], y \in kept) /\ ref[y] \in Values \cup {None, Unknown}
  BY <1>1, <1>5 DEF MapInv
<1>16. \A y \in Keys : y # k => Holds(U, y, ref[y], y \in kept)
  <2> SUFFICES ASSUME NEW y \in Keys, y # k PROVE Holds(U, y, ref[y], y \in kept)
    OBVIOUS
  <2>1. Holds(T, y, ref[y], y \in kept) /\ ref[y] \in Values \cup {None, Unknown}
    BY <1>15
  <2> QED
    <3>1. Moved(T, U, y)
      BY <1>7, <1>9, <1>10, <1>12, RebucketedMoved
    <3> QED
      BY <2>1, <3>1, MovedHolds
<1>17. /\ Places(U) = Places(T) /\ At(U, q).b = c
       /\ \A r \in Places(T) : r # q => At(U, r).b = At(T, r).b
  BY <1>9, <1>10, <1>12, RebucketedAt
<1>18. \A r, j : IsRecord(U, r, j, k) => IF r = q THEN j \in Slots(c, k) /\ Slots(b, k) # {} ELSE IsRecord(T, r, j, k)
  <2> SUFFICES ASSUME NEW r, NEW j, IsRecord(U, r, j, k)
               PROVE  IF r = q THEN j \in Slots(c, k) /\ Slots(b, k) # {} ELSE IsRecord(T, r, j, k)
    OBVIOUS
  <2>1. r \in Places(T) /\ j \in Slots(At(U, r).b, k)
    BY <1>17, RecordFact
  <2>2. CASE r = q
    <3>1. j \in Slots(c, k)
      BY <2>1, <2>2, <1>17
    <3>2. j \in 1..Len(c.kv) /\ c.kv[j][1] = k
      BY <3>1 DEF Slots
    <3>3. Slots(b, k) # {}
      BY <3>2, <1>9 DEF Slots
    <3> QED
      BY <2>2, <3>1, <3>3
  <2>3. CASE r # q
    BY <2>1, <2>3, <1>17, RecordFact
  <2> QED
    BY <2>2, <2>3
<1>19. Absent(T, k) => Absent(U, k)
  <2> SUFFICES ASSUME Absent(T, k), NEW r, NEW j, IsRecord(U, r, j, k) PROVE FALSE
    BY DEF Absent
  <2>1. \A i : i \in Slots(b, k) => IsRecord(T, q, i, k)
    BY <1>7, <1>10, RecordFact
  <2> QED
    BY <2>1, <1>18 DEF Absent
<1>21. ASSUME NEW x, Alone(T, k, x) PROVE Absent(U, k)
  <2>1. PICK r, j : /\ IsHome(T, r, k) /\ IsRecord(T, r, j, k) /\ \A s, i : IsRecord(T, s, i, k) => s = r /\ i = j
    BY <1>21 DEF Alone
  <2>2. r = q
    BY <2>1, <1>10, HomeUnique
  <2>3. \A i : i \in Slots(b, k) => IsRecord(T, q, i, k)
    BY <1>7, <1>10, RecordFact
  <2>4. \A m, i \in Slots(b, k) : m = i
    BY <2>1, <2>3
  <2>5. Slots(c, k) = {}
    BY <2>4, <1>9
  <2> QED
    BY <2>1, <2>2, <2>5, <1>18 DEF Absent
<1>22. Holds(U, k, IF ref[k] \in Values THEN None ELSE ref[k], k \in kept')
  <2>1. CASE ref[k] \in Values
    <3>1. Absent(U, k)
      BY <2>1, <1>15, <1>21 DEF Holds
    <3>2. None \notin Values /\ None # Unknown
      BY ConstantFacts
    <3> QED
      BY <2>1, <3>1, <3>2 DEF Holds
  <2>2. CASE ref[k] \notin Values
    BY <2>2, <1>2, <1>15, <1>19 DEF Holds
  <2> QED
    BY <2>1, <2>2
<1>23. MapInv'
  <2>1. ref \in [Keys -> Values \cup {None, Unknown}]
    BY <1>1 DEF MapInv
  <2>2. ref' \in [Keys -> Values \cup {None, Unknown}]
    BY <2>1, <1>2
  <2>3. ref'[k] = (IF ref[k] \in Values THEN None ELSE ref[k]) /\ \A y \in Keys : y # k => ref'[y] = ref[y]
    BY <2>1, <1>2
  <2>4. ASSUME NEW y \in Keys PROVE Holds(U, y, ref'[y], y \in kept')
    <3>1. CASE y = k
      BY <3>1, <2>3, <1>22
    <3>2. CASE y # k
      <4>1. (y \in kept') = (y \in kept)
        BY <3>2, <1>2
      <4> QED
        BY <4>1, <3>2, <2>3, <1>16
    <3> QED
      BY <3>1, <3>2
  <2> QED
    BY <2>2, <2>4, <1>2, <1>6 DEF MapInv
<1>24. Sound(tree', model') /\ CallInv' /\ RetryInv' /\ ScanInv'
  <2>1. call'.n = 0
    BY <1>2 DEF NoCall
  <2> QED
    BY <2>1, <1>2, <1>6, <1>13 DEF CallInv, RetryInv, ScanInv
<1> QED
  BY <1>23, <1>24 DEF Inv

----------------------------------------------------------------------------
(* A record more.                                                          *)

\* The bucket c is b with the record <<k, v>> at the end.
Appends(b, k, v, c) ==
  /\ c \in Buckets /\ Len(c.kv) = Len(b.kv) + 1 /\ c.kv[Len(b.kv) + 1] = <<k, v>>
  /\ \A j \in 1..Len(b.kv) : c.kv[j] = b.kv[j]
  /\ Held(c) \subseteq Held(b) \cup {k}

\* A record is appended to a bucket.
LEMMA AppendFact ==
  ASSUME NEW b \in Buckets, NEW k \in Keys, NEW v \in Values, NEW c, c = [b EXCEPT !.kv = Append(@, <<k, v>>)]
  PROVE  Appends(b, k, v, c)
<1>1. PICK n \in Nat : n = Len(b.kv) /\ b.kv \in Seq(Records) /\ b.slot \in Keys \cup {0} /\ b = [kv |-> b.kv, slot |-> b.slot]
  BY BucketFact
<1>2. <<k, v>> \in Records
  BY DEF Records
<1>3. PICK s : s = Append(b.kv, <<k, v>>)
  OBVIOUS
<1>4. s \in Seq(Records) /\ Len(s) = n + 1 /\ s[n + 1] = <<k, v>> /\ \A j \in 1..n : s[j] = b.kv[j]
  BY <1>1, <1>2, <1>3
<1>5. c = [kv |-> s, slot |-> b.slot]
  BY <1>1, <1>3
<1>6. c \in Buckets /\ c.kv = s
  <2>1. b.slot \in Keys \cup {0} /\ s \in Seq(Records)
    BY <1>1, <1>4
  <2>2. [kv |-> s, slot |-> b.slot] \in [kv : Seq(Records), slot : Keys \cup {0}]
    BY <2>1, Zenon
  <2> QED
    <3>1. c \in Buckets
      BY <2>2, <1>5, Zenon DEF Buckets
    <3>2. c.kv = s
      BY <1>5
    <3> QED
      BY <3>1, <3>2
<1>7. ASSUME NEW z \in Held(c) PROVE z \in Held(b) \cup {k}
  <2>1. s # <<>>
    BY <1>4
  <2>2. PICK j \in 1..(n + 1) : z = s[j][1]
    BY <2>1, <1>4, <1>6, <1>7 DEF Held
  <2>3. CASE j = n + 1
    BY <2>2, <2>3, <1>4
  <2>4. CASE j \in 1..n
    <3>1. b.kv # <<>> /\ z = b.kv[j][1]
      BY <2>2, <2>4, <1>1, <1>4
    <3> QED
      BY <3>1, <2>4, <1>1 DEF Held
  <2> QED
    BY <2>2, <2>3, <2>4
<1> QED
  BY <1>1, <1>4, <1>6, <1>7 DEF Appends

\* U is T with the bucket c at q, and an entry key there that is not above k.
Takes(T, U, q, k, c) ==
  /\ U \in Seq(GroupSet) /\ SameShape(T, U)
  /\ At(U, q).b = c /\ At(U, q).key = IF At(T, q).key <= k THEN At(T, q).key ELSE k
  /\ \A r \in Places(T) : r # q => At(U, r) = At(T, r)

\* The place of the key is in front of the keys above it, and behind those below it.
Between(T, q, k) ==
  /\ \A r \in Places(T) : Before(q, r) => k < At(T, r).key
  /\ \A r \in Places(T) : Before(r, q) => At(T, r).key <= k /\ \A z \in Held(At(T, r).b) : z <= k

\* The spot of a key that fits its group is between the smaller keys and the larger ones.
LEMMA BetweenFact ==
  ASSUME NEW T \in Seq(GroupSet), Formed(T), Sorted(T), NEW M, NEW g, NEW k \in Nat, Fits(T, M, g, k),
         NEW q, q = SpotOf(T, g, k)
  PROVE  Between(T, q, k)
<1>1. /\ q \in Places(T) /\ q[1] = g /\ (At(T, q).key <= k \/ Leads(q))
      /\ \A r \in Places(T) : Before(q, r) => k < At(T, r).key
  BY FitsSpot
<1>2. ASSUME NEW r \in Places(T), Before(r, q) PROVE At(T, r).key <= k /\ \A z \in Held(At(T, r).b) : z <= k
  <2>1. q \in Triples /\ r \in Triples /\ r[2] >= 1 /\ r[3] >= 1 /\ At(T, q).key \in Nat /\ At(T, r).key \in Nat /\ Held(At(T, r).b) \subseteq Nat
    BY <1>1, AtFact
  <2>2. CASE r[1] < g
    BY <2>2 DEF Fits
  <2>3. CASE ~(r[1] < g)
    <3>1. ~Leads(q)
      BY <2>1, <2>3, <1>1, <1>2 DEF Leads, Before, Triples
    <3>2. At(T, q).key <= k
      BY <3>1, <1>1
    <3>3. At(T, r).key <= At(T, q).key /\ \A z \in Held(At(T, r).b) : z <= At(T, q).key
      BY <1>1, <1>2 DEF Sorted
    <3> QED
      BY <2>1, <3>2, <3>3
  <2> QED
    BY <2>2, <2>3
<1> QED
  BY <1>1, <1>2 DEF Between

\* What is where.
TakesView(T, U, q, k, c) ==
  /\ U \in Seq(GroupSet) /\ Places(U) = Places(T) /\ q \in Places(T) /\ At(U, q).b = c
  /\ At(U, q).key \in Nat /\ At(U, q).key <= k /\ At(U, q).key <= At(T, q).key /\ (At(U, q).key = At(T, q).key \/ At(U, q).key = k)
  /\ \A r \in Places(T) : /\ r # q => At(U, r).key = At(T, r).key /\ At(U, r).b = At(T, r).b
                          /\ At(T, r).key \in Nat /\ Held(At(T, r).b) \subseteq Nat /\ r \in Triples
  /\ \A r : First(U, r) <=> First(T, r)

\* What is where after a Put.
LEMMA TakesViewFact ==
  ASSUME NEW T \in Seq(GroupSet), NEW U, NEW q \in Places(T), NEW k \in Nat, NEW c, Takes(T, U, q, k, c)
  PROVE  TakesView(T, U, q, k, c)
<1>1. U \in Seq(GroupSet) /\ At(U, q).b = c
  BY DEF Takes
<1>2. Places(U) = Places(T)
  BY SamePlaces DEF Takes
<1>3. \A r \in Places(T) : At(T, r).key \in Nat /\ Held(At(T, r).b) \subseteq Nat /\ r \in Triples
  BY AtFact
<1>4. At(U, q).key = IF At(T, q).key <= k THEN At(T, q).key ELSE k
  BY DEF Takes
<1>5. At(U, q).key \in Nat /\ At(U, q).key <= k /\ At(U, q).key <= At(T, q).key /\ (At(U, q).key = At(T, q).key \/ At(U, q).key = k)
  BY <1>3, <1>4
<1>6. \A r \in Places(T) : r # q => At(U, r).key = At(T, r).key /\ At(U, r).b = At(T, r).b
  BY DEF Takes
<1>7. \A r : First(U, r) <=> First(T, r)
  BY <1>2 DEF First
<1> QED
  BY <1>1, <1>2, <1>3, <1>5, <1>6, <1>7 DEF TakesView

\* Entry keys ascend after a Put, and the new key lies in its range.
LEMMA TakesSorted ==
  ASSUME NEW T \in Seq(GroupSet), Sorted(T), NEW U, NEW q \in Places(T), NEW k \in Keys, NEW v, NEW c,
         Takes(T, U, q, k, c), Between(T, q, k), Appends(At(T, q).b, k, v, c)
  PROVE  Sorted(U)
<1> DEFINE K(r) == At(T, r).key
           H(r) == Held(At(T, r).b)
           KU(r) == At(U, r).key
           HU(r) == Held(At(U, r).b)
<1>1. k \in Nat
  BY KeyFact
<1>2. TakesView(T, U, q, k, c)
  BY <1>1, TakesViewFact
<1>3. /\ Places(U) = Places(T) /\ KU(q) \in Nat /\ KU(q) <= k /\ KU(q) <= K(q) /\ (KU(q) = K(q) \/ KU(q) = k)
      /\ \A r \in Places(T) : (r # q => KU(r) = K(r) /\ HU(r) = H(r)) /\ K(r) \in Nat /\ H(r) \subseteq Nat
  BY <1>2 DEF TakesView
<1>4. HU(q) \subseteq H(q) \cup {k}
  BY <1>2 DEF TakesView, Appends
<1>5. \A r, s \in Places(T) : Before(r, s) => K(r) <= K(s) /\ \A z \in H(r) : z <= K(s)
  BY DEF Sorted
<1>6. \A r \in Places(T) : \A z \in H(r) : K(r) <= z
  BY DEF Sorted
<1>7. \A r \in Places(T) : Before(q, r) => k < K(r)
  BY DEF Between
<1>8. \A r \in Places(T) : Before(r, q) => K(r) <= k /\ \A z \in H(r) : z <= k
  BY DEF Between
<1>9. ~Before(q, q)
  BY <1>2, BeforeFact DEF TakesView
<1> HIDE DEF K, H, KU, HU
<1>10. ASSUME NEW r \in Places(T), NEW s \in Places(T), Before(r, s)
       PROVE  KU(r) <= KU(s) /\ \A z \in HU(r) : z <= KU(s)
  <2>1. CASE r = q
    <3>1. s # q /\ KU(s) = K(s) /\ K(s) \in Nat /\ k < K(s) /\ K(q) <= K(s) /\ \A z \in H(q) : z <= K(s)
      BY <2>1, <1>3, <1>5, <1>7, <1>9, <1>10
    <3>2. KU(q) <= K(s) /\ K(q) \in Nat
      BY <3>1, <1>1, <1>3
    <3>3. \A z \in H(q) \cup {k} : z <= K(s)
      BY <3>1, <1>1
    <3> QED
      BY <2>1, <3>1, <3>2, <3>3, <1>4
  <2>2. CASE r # q /\ s = q
    <3>1. KU(r) = K(r) /\ HU(r) = H(r) /\ K(r) <= k /\ K(r) <= K(q) /\ (\A z \in H(r) : z <= k /\ z <= K(q))
      BY <2>2, <1>3, <1>5, <1>8, <1>10
    <3> QED
      BY <2>2, <3>1, <1>3
  <2>3. CASE r # q /\ s # q
    BY <2>3, <1>3, <1>5, <1>10
  <2> QED
    BY <2>1, <2>2, <2>3
<1>11. ASSUME NEW r \in Places(T), NEW z \in HU(r) PROVE KU(r) <= z
  <2>1. CASE r = q
    <3>1. z = k \/ z \in H(q)
      BY <2>1, <1>4, <1>11
    <3>2. z \in H(q) => K(q) <= z /\ z \in Nat /\ K(q) \in Nat
      BY <1>3, <1>6
    <3> QED
      BY <2>1, <3>1, <3>2, <1>3
  <2>2. CASE r # q
    BY <2>2, <1>3, <1>6, <1>11
  <2> QED
    BY <2>1, <2>2
<1> QED
  BY <1>3, <1>10, <1>11 DEF Sorted, KU, HU

\* The tree is sound after a Put: its entry key is lowered to the new key at most.
LEMMA TakesSound ==
  ASSUME NEW T \in Seq(GroupSet), NEW M, Sound(T, M), NEW U, NEW q \in Places(T), NEW k \in Keys, NEW v, NEW c,
         Takes(T, U, q, k, c), Between(T, q, k), Appends(At(T, q).b, k, v, c), Len(At(T, q).b.kv) < BucketCap,
         Fits(T, M, q[1], k)
  PROVE  Sound(U, M)
<1>1. k \in Nat
  BY KeyFact
<1>2. TakesView(T, U, q, k, c)
  BY <1>1, TakesViewFact
<1>3. U \in Seq(GroupSet) /\ SameShape(T, U) /\ Places(U) = Places(T) /\ \A g : PlacesIn(U, g) = PlacesIn(T, g)
  BY SamePlaces DEF Takes
<1>4. Formed(U)
  <2>1. ASSUME NEW r \in Places(U) PROVE Len(At(U, r).b.kv) <= BucketCap
    <3>1. CASE r = q
      <4>1. At(U, r).b = c /\ Len(c.kv) = Len(At(T, q).b.kv) + 1
        BY <3>1, <1>2 DEF TakesView, Appends
      <4>2. Len(At(T, q).b.kv) \in Nat
        BY AtFact
      <4>3. BucketCap \in Nat
        BY ConstantFacts
      <4> QED
        BY <4>1, <4>2, <4>3
    <3>2. CASE r # q
      BY <3>2, <1>2, <1>3 DEF TakesView, Sound, Formed
    <3> QED
      BY <3>1, <3>2
  <2>2. \A g \in 1..Len(U) : /\ U[g].next = Cardinality(PlacesIn(U, g))
                             /\ \A p \in 1..Len(U[g].pbs) : Len(U[g].pbs[p]) \in 1..PbCount
    <3> SUFFICES ASSUME NEW g \in 1..Len(U)
                 PROVE  /\ U[g].next = Cardinality(PlacesIn(U, g))
                        /\ \A p \in 1..Len(U[g].pbs) : Len(U[g].pbs[p]) \in 1..PbCount
      OBVIOUS
    <3>1. g \in 1..Len(T) /\ U[g].next = T[g].next /\ Len(U[g].pbs) = Len(T[g].pbs)
          /\ \A p \in 1..Len(T[g].pbs) : Len(U[g].pbs[p]) = Len(T[g].pbs[p])
      BY <1>3 DEF SameShape
    <3>2. T[g].next = Cardinality(PlacesIn(T, g)) /\ \A p \in 1..Len(T[g].pbs) : Len(T[g].pbs[p]) \in 1..PbCount
      BY <3>1 DEF Sound, Formed
    <3> QED
      BY <3>1, <3>2, <1>3
  <2> QED
    BY <2>1, <2>2, <1>3 DEF Sound, Formed
<1>5. Sorted(U)
  BY TakesSorted DEF Sound
<1>6. Keyed(U)
  <2>1. Keyed(T)
    BY DEF Sound
  <2>2. ASSUME NEW r \in Places(T) PROVE At(U, r).key \in Keys \/ First(U, r)
    BY <2>1, <1>2 DEF Keyed, TakesView
  <2>3. ASSUME NEW r \in Places(T), Held(At(T, r).b) \subseteq Keys PROVE Held(At(U, r).b) \subseteq Keys
    <3>1. CASE r = q
      <4>1. At(U, r).b = c /\ Held(c) \subseteq Held(At(T, q).b) \cup {k}
        BY <3>1, <1>2 DEF TakesView, Appends
      <4> QED
        BY <3>1, <4>1, <2>3
    <3>2. CASE r # q
      <4>1. At(U, r).b = At(T, r).b
        BY <3>2, <1>2 DEF TakesView
      <4> QED
        BY <4>1, <2>3
    <3> QED
      BY <3>1, <3>2
  <2> QED
    BY <2>1, <2>2, <2>3, <1>3 DEF Keyed
<1>7. Routed(U, M)
  <2> SUFFICES ASSUME NEW r \in Places(T), Leads(r) PROVE First(U, r) \/ r[1] <= M[At(U, r).key]
    BY <1>3 DEF Routed
  <2>1. First(T, r) \/ r[1] <= M[At(T, r).key]
    BY DEF Sound, Routed
  <2>2. CASE At(U, r).key = At(T, r).key
    BY <2>1, <2>2, <1>2 DEF TakesView
  <2>3. CASE r = q /\ At(U, r).key = k
    <3>1. q[1] <= M[k] \/ \A s \in Places(T) : s[1] >= q[1]
      BY DEF Fits
    <3>2. ASSUME \A s \in Places(T) : s[1] >= q[1] PROVE First(T, q)
      <4> SUFFICES ASSUME NEW s \in Places(T), Before(s, q) PROVE FALSE
        BY DEF First
      <4>1. s \in Triples /\ q \in Triples /\ s[1] >= q[1] /\ s[2] >= 1 /\ s[3] >= 1 /\ q[2] = 1 /\ q[3] = 1
        BY <3>2, <2>3, AtFact DEF Leads
      <4> QED
        BY <4>1 DEF Before, Triples
    <3> QED
      BY <2>3, <3>1, <3>2, <1>2 DEF TakesView
  <2> QED
    BY <2>2, <2>3, <1>2 DEF TakesView
<1>8. M \in Monotone(Len(U))
  BY <1>3 DEF Sound, SameShape
<1> QED
  BY <1>4, <1>5, <1>6, <1>7, <1>8 DEF Sound

\* The records: the new one, and those there were.
RecordMore(T, U, q, k, v, n) ==
  /\ IsRecord(U, q, n, k) /\ At(U, q).b.kv[n][2] = v
  /\ \A y, r, j : IsRecord(U, r, j, y) => (r = q /\ j = n /\ y = k) \/ (IsRecord(T, r, j, y) /\ At(U, r).b.kv[j] = At(T, r).b.kv[j])
  /\ \A y, r, j : IsRecord(T, r, j, y) => IsRecord(U, r, j, y)

\* The records after a Put are those before and the new one.
LEMMA TakesRecords ==
  ASSUME NEW T \in Seq(GroupSet), NEW U, NEW q \in Places(T), NEW k \in Keys, NEW v, NEW c,
         Takes(T, U, q, k, c), Appends(At(T, q).b, k, v, c), NEW n, n = Len(At(T, q).b.kv) + 1
  PROVE  RecordMore(T, U, q, k, v, n)
<1>1. k \in Nat
  BY KeyFact
<1>2. TakesView(T, U, q, k, c)
  BY <1>1, TakesViewFact
<1>3. PICK b \in Buckets : b = At(T, q).b
  BY AtFact
<1>4. PICK m \in Nat : m = Len(b.kv) /\ n = m + 1
  BY <1>3, BucketFact
<1>5. Len(c.kv) = n /\ c.kv[n] = <<k, v>> /\ (\A j \in 1..m : c.kv[j] = b.kv[j]) /\ Places(U) = Places(T) /\ At(U, q).b = c
  BY <1>2, <1>3, <1>4 DEF Appends, TakesView
<1>6. \A r \in Places(T) : r # q => At(U, r).b = At(T, r).b
  BY <1>2 DEF TakesView
<1>7. IsRecord(U, q, n, k) /\ At(U, q).b.kv[n][2] = v
  BY <1>4, <1>5 DEF IsRecord
<1>8. ASSUME NEW y, NEW r, NEW j, IsRecord(U, r, j, y)
      PROVE  (r = q /\ j = n /\ y = k) \/ (IsRecord(T, r, j, y) /\ At(U, r).b.kv[j] = At(T, r).b.kv[j])
  <2>1. r \in Places(T) /\ j \in 1..Len(At(U, r).b.kv) /\ At(U, r).b.kv[j][1] = y
    BY <1>5, <1>8 DEF IsRecord
  <2>2. CASE r = q
    <3>1. j \in 1..n /\ c.kv[j][1] = y
      BY <2>1, <2>2, <1>5
    <3>2. CASE j = n
      BY <2>2, <3>1, <3>2, <1>5
    <3>3. CASE j \in 1..m
      BY <2>1, <2>2, <3>1, <3>3, <1>3, <1>4, <1>5 DEF IsRecord
    <3> QED
      BY <3>1, <3>2, <3>3, <1>4
  <2>3. CASE r # q
    BY <2>1, <2>3, <1>6 DEF IsRecord
  <2> QED
    BY <2>2, <2>3
<1>9. ASSUME NEW y, NEW r, NEW j, IsRecord(T, r, j, y) PROVE IsRecord(U, r, j, y)
  <2>1. r \in Places(T) /\ j \in 1..Len(At(T, r).b.kv) /\ At(T, r).b.kv[j][1] = y
    BY <1>9 DEF IsRecord
  <2>2. CASE r = q
    <3>1. j \in 1..m /\ b.kv[j][1] = y
      BY <2>1, <2>2, <1>3, <1>4
    <3>2. j \in 1..n /\ c.kv[j][1] = y
      BY <3>1, <1>4, <1>5, SMTT(60)
    <3> QED
      BY <2>1, <2>2, <3>2, <1>5 DEF IsRecord
  <2>3. CASE r # q
    BY <2>1, <2>3, <1>5, <1>6 DEF IsRecord
  <2> QED
    BY <2>2, <2>3
<1> QED
  BY <1>7, <1>8, <1>9 DEF RecordMore

\* The other keys stay where they are, and the key is at home.
LEMMA TakesMoved ==
  ASSUME NEW T \in Seq(GroupSet), NEW U, NEW q \in Places(T), NEW k \in Keys, NEW v, NEW c,
         Takes(T, U, q, k, c), Between(T, q, k), Appends(At(T, q).b, k, v, c)
  PROVE  IsHome(U, q, k) /\ \A y \in Keys : y # k => Moved(T, U, y)
<1>1. k \in Nat
  BY KeyFact
<1>2. TakesView(T, U, q, k, c)
  BY <1>1, TakesViewFact
<1>3. PICK n : n = Len(At(T, q).b.kv) + 1
  OBVIOUS
<1>4. /\ \A y, r, j : IsRecord(U, r, j, y) => (r = q /\ j = n /\ y = k) \/ (IsRecord(T, r, j, y) /\ At(U, r).b.kv[j] = At(T, r).b.kv[j])
      /\ \A y, r, j : IsRecord(T, r, j, y) => IsRecord(U, r, j, y)
  <2>1. RecordMore(T, U, q, k, v, n)
    BY <1>3, TakesRecords
  <2> QED
    BY <2>1 DEF RecordMore
<1>5. IsHome(U, q, k)
  <2>1. ASSUME NEW r \in Places(U), Before(q, r) PROVE k < At(U, r).key
    <3>1. r # q /\ r \in Places(T)
      BY <2>1, <1>2, BeforeFact DEF TakesView
    <3> QED
      BY <3>1, <2>1, <1>2 DEF TakesView, Between
  <2> QED
    BY <2>1, <1>2 DEF IsHome, TakesView
<1>6. ASSUME NEW y \in Keys, y # k PROVE Moved(T, U, y)
  <2>1. \A r, j : IsRecord(U, r, j, y) => IsRecord(T, r, j, y) /\ At(U, r).b.kv[j] = At(T, r).b.kv[j]
    BY <1>4, <1>6
  <2>2. Once(T, y) => Once(U, y)
    BY <2>1 DEF Once
  <2>3. ASSUME Present(T, y) PROVE Present(U, y)
    <3>1. PICK r, j : IsHome(T, r, y) /\ IsRecord(T, r, j, y)
      BY <2>3 DEF Present
    <3>2. r \in Places(T) /\ j \in 1..Len(At(T, r).b.kv) /\ At(T, r).b.kv[j][1] = y
      BY <3>1 DEF IsRecord
    <3>3. y \in Held(At(T, r).b)
      <4>1. At(T, r).b.kv # <<>>
        BY <3>2, AtFact
      <4> QED
        BY <4>1, <3>2 DEF Held
    <3>4. y \in Nat
      BY KeyFact
    <3>5. ASSUME NEW s \in Places(T), Before(r, s) PROVE y < At(U, s).key
      <4>1. y < At(T, s).key
        BY <3>1, <3>5 DEF IsHome
      <4>2. CASE s # q
        BY <4>1, <4>2, <1>2 DEF TakesView
      <4>3. CASE s = q
        <5>1. y <= k
          BY <3>2, <3>3, <3>5, <4>3 DEF Between
        <5>2. y < k
          BY <5>1, <3>4, <1>1, <1>6
        <5> QED
          BY <4>1, <4>3, <5>2, <1>2 DEF TakesView
      <4> QED
        BY <4>2, <4>3
    <3>6. At(U, r).key <= y \/ First(U, r)
      <4>1. At(T, r).key <= y \/ First(T, r)
        BY <3>1 DEF IsHome
      <4>2. At(U, r).key <= At(T, r).key /\ At(U, r).key \in Nat /\ At(T, r).key \in Nat
        BY <3>2, <1>2 DEF TakesView
      <4> QED
        BY <4>1, <4>2, <3>4, <1>2 DEF TakesView
    <3>7. IsHome(U, r, y)
      BY <3>2, <3>5, <3>6, <1>2 DEF IsHome, TakesView
    <3> QED
      BY <3>1, <3>7, <1>4 DEF Present
  <2> QED
    BY <2>1, <2>2, <2>3 DEF Moved
<1> QED
  BY <1>5, <1>6

\* What PutRoom does.
LEMMA PutRoomTakes ==
  ASSUME Sound(tree, model), CallInv, PutRoom, NEW q, q = SpotOf(tree, call.g, call.k),
         NEW c, c = [Target EXCEPT !.kv = Append(@, <<call.k, call.v>>)]
  PROVE  Takes(tree, tree', q, call.k, c)
<1>1. call.g # 0
  BY ZenonT(60) DEF PutRoom
<1>2. tree \in Seq(GroupSet) /\ Formed(tree) /\ Sorted(tree) /\ Fits(tree, model, call.g, call.k) /\ call.k \in Nat /\ call.k \in Keys /\ call.v \in Values
  BY <1>1, CallFact
<1>3. PICK T \in Seq(GroupSet) : T = tree
  BY <1>2
<1>4. PICK g : g = call.g
  OBVIOUS
<1>5. PICK k \in Keys : k = call.k /\ k \in Nat
  BY <1>2
<1>6. PICK p : p = Place(T[g], k)[1]
  OBVIOUS
<1>7. PICK i : i = Place(T[g], k)[2]
  OBVIOUS
<1>8. q = <<g, p, i>>
  BY <1>3, <1>4, <1>5, <1>6, <1>7 DEF SpotOf
<1>9. q \in Places(T) /\ (At(T, q).key <= k \/ Leads(q))
  BY <1>2, <1>3, <1>4, <1>5, FitsSpot
<1>10. PICK b \in Buckets : b = Target /\ b = At(T, q).b
  BY <1>3, <1>9, AtFact, TargetFact
<1>11. c \in Buckets
  <2>1. PICK v \in Values : v = call.v
    BY <1>2
  <2>2. c = [b EXCEPT !.kv = Append(@, <<k, v>>)]
    BY <2>1, <1>5, <1>10
  <2>3. Appends(b, k, v, c)
    BY <2>2, <1>5, <1>10, AppendFact
  <2> QED
    BY <2>3 DEF Appends
<1>12. PICK W : W = WithBucket(call.g, call.k, c)
  OBVIOUS
<1>13. Rebucketed(T, W, q, c)
  BY <1>3, <1>9, <1>11, <1>12, WithBucketFact
<1>14. PICK U : U = tree'
  OBVIOUS
<1>15. U = [W EXCEPT ![g].pbs[p][1].key = Min({@, k})]
  BY <1>3, <1>4, <1>5, <1>6, <1>12, <1>14, ZenonT(60) DEF PutRoom
<1>16. W \in Seq(GroupSet) /\ SameShape(T, W) /\ Places(W) = Places(T) /\ At(W, q) = [key |-> At(T, q).key, b |-> c]
       /\ \A r \in Places(T) : r # q => At(W, r) = At(T, r)
  BY <1>13, SamePlaces DEF Rebucketed
<1>17. PICK f : f = <<g, p, 1>>
  OBVIOUS
<1>18. f \in Places(T)
  <2>1. IsPlace(T, g, p, i)
    BY <1>8, <1>9, PlaceFact
  <2>2. 1 \in 1..Len(T[g].pbs[p])
    BY <2>1, GroupFact DEF IsPlace
  <2>3. IsPlace(T, g, p, 1)
    BY <2>1, <2>2 DEF IsPlace
  <2> QED
    BY <2>3, <1>17, PlaceFact
<1>19. PICK x \in Nat : x = At(W, f).key /\ x = At(T, f).key /\ x \in Keys \cup {0}
  <2>1. At(W, q).key = At(T, q).key
    BY <1>16
  <2>2. At(W, f).key = At(T, f).key
    BY <2>1, <1>16, <1>18
  <2> QED
    BY <2>2, <1>18, AtFact
<1>20. PICK e : e = [key |-> Min({x, k}), b |-> At(W, f).b]
  OBVIOUS
<1>21. Min({x, k}) = (IF x <= k THEN x ELSE k)
  <2>1. {x, k} \in SUBSET Nat /\ {x, k} # {}
    BY <1>5
  <2>2. Min({x, k}) \in {x, k} /\ \A y \in {x, k} : Min({x, k}) <= y
    BY <2>1, LeastFact
  <2> QED
    BY <2>2, <1>5
<1>22. e \in EntrySet /\ At(W, f) = W[g].pbs[p][1]
  <2>1. At(W, f).b \in Buckets
    BY <1>16, <1>18, AtFact
  <2>2. Min({x, k}) \in Keys \cup {0}
    BY <1>5, <1>19, <1>21
  <2> QED
    BY <2>1, <2>2, <1>17, <1>20, PlaceFact DEF EntrySet
<1>23. [W[g].pbs[p][1] EXCEPT !.key = Min({@, k})] = e
  <2>1. At(W, f) \in EntrySet
    BY <1>16, <1>18, AtFact
  <2>2. PICK d \in EntrySet : d = At(W, f)
    BY <2>1
  <2>3. [d EXCEPT !.key = Min({@, k})] = [key |-> Min({d.key, k}), b |-> d.b]
    BY DEF EntrySet
  <2> QED
    BY <2>2, <2>3, <1>19, <1>20, <1>22
<1>24. Replaced(W, U, g, p, 1, e)
  BY <1>15, <1>23 DEF Replaced
<1>25. /\ U \in Seq(GroupSet) /\ SameShape(W, U)
       /\ At(U, f) = e
       /\ \A r \in Places(T) : r # f => At(U, r) = At(W, r)
  BY <1>16, <1>17, <1>18, <1>22, <1>24, ReplacedFact
<1>26. SameShape(T, U)
  BY <1>16, <1>25 DEF SameShape
<1>27. CASE f = q
  <2>1. At(U, q).b = c /\ At(U, q).key = IF At(T, q).key <= k THEN At(T, q).key ELSE k
    <3>1. At(U, q).b = At(W, q).b /\ At(U, q).key = Min({x, k})
      <4>1. At(U, q) = e
        BY <1>25, <1>27
      <4>2. e.b = At(W, q).b /\ e.key = Min({x, k})
        BY <1>20, <1>27
      <4> QED
        BY <4>1, <4>2
    <3>2. At(W, q).b = c
      BY <1>16
    <3> QED
      BY <3>1, <3>2, <1>19, <1>21, <1>27
  <2> QED
    BY <2>1, <1>3, <1>5, <1>14, <1>16, <1>25, <1>26, <1>27 DEF Takes
<1>28. CASE f # q
  <2>1. f \in Triples /\ q \in Triples
    BY <1>9, <1>18, AtFact
  <2>2. i >= 1 /\ i # 1
    BY <1>8, <1>9, <1>17, <1>28, AtFact
  <2>3. Before(f, q) /\ ~Leads(q)
    BY <2>1, <2>2, <1>8, <1>17 DEF Before, Triples, Leads
  <2>4. At(T, q).key <= k
    BY <2>3, <1>9
  <2>5. x <= At(T, q).key /\ At(T, q).key \in Nat
    BY <2>3, <1>2, <1>3, <1>9, <1>18, <1>19, AtFact DEF Sorted
  <2>6. Min({x, k}) = x
    BY <2>4, <2>5, <1>5, <1>21
  <2>7. At(W, f) = At(T, f) /\ At(T, f) \in EntrySet
    BY <1>16, <1>18, <1>28, AtFact
  <2>8. At(U, f) = At(T, f)
    BY <2>6, <2>7, <1>19, <1>20, <1>25 DEF EntrySet
  <2>9. \A r \in Places(T) : r # q => At(U, r) = At(T, r)
    BY <2>8, <1>16, <1>25
  <2>10. At(U, q).b = c /\ At(U, q).key = At(T, q).key
    <3>1. At(U, q) = At(W, q)
      BY <1>9, <1>25, <1>28
    <3> QED
      BY <3>1, <1>16
  <2> QED
    BY <2>4, <2>9, <2>10, <1>3, <1>5, <1>14, <1>25, <1>26 DEF Takes
<1> QED
  BY <1>27, <1>28, SMTT(60)

\* PutRoom keeps the invariant.
LEMMA RoomStep ==
  ASSUME Inv, PutRoom
  PROVE  Inv'
<1>1. Sound(tree, model) /\ MapInv /\ CallInv
  BY SMTT(60) DEF Inv
<1>2. /\ call.g # 0 /\ ~BucketFull(Target) /\ model' = model /\ call' = NoCall /\ answer'[1] = "put"
      /\ ref' = [ref EXCEPT ![call.k] = IF @ = None THEN call.v ELSE Unknown] /\ kept' = kept \cup {call.k}
  BY ZenonT(60) DEF PutRoom
<1>3. /\ tree \in Seq(GroupSet) /\ Formed(tree) /\ Sorted(tree)
      /\ call.k \in Keys /\ call.k \in Nat /\ call.v \in Values
      /\ Fits(tree, model, call.g, call.k)
  BY <1>1, <1>2, CallFact
<1>4. PICK T \in Seq(GroupSet) : T = tree
  BY <1>3
<1>5. PICK U : U = tree'
  OBVIOUS
<1>6. PICK q : q = SpotOf(tree, call.g, call.k)
  OBVIOUS
<1>7. PICK k \in Keys : k = call.k /\ k \in Nat
  BY <1>3
<1>8. PICK v \in Values : v = call.v
  BY <1>3
<1>9. q \in Places(T) /\ q[1] = call.g
  BY <1>3, <1>4, <1>6, FitsSpot
<1>10. PICK b \in Buckets : b = Target /\ b = At(T, q).b
  BY <1>4, <1>6, <1>9, AtFact, TargetFact
<1>11. PICK c : c = [b EXCEPT !.kv = Append(@, <<k, v>>)]
  OBVIOUS
<1>12. Appends(At(T, q).b, k, v, c)
  BY <1>10, <1>11, AppendFact
<1>13. Takes(T, U, q, k, c)
  BY <1>1, <1>4, <1>5, <1>6, <1>7, <1>8, <1>10, <1>11, PutRoomTakes
<1>14. Between(T, q, k)
  BY <1>3, <1>4, <1>6, <1>7, BetweenFact
<1>15. Len(At(T, q).b.kv) < BucketCap
  BY <1>2, <1>10, BucketFact, ConstantFacts DEF BucketFull
<1>16. Fits(T, model, q[1], k)
  BY <1>3, <1>4, <1>7, <1>9
<1>17. Sound(U, model)
  BY <1>1, <1>4, <1>9, <1>12, <1>13, <1>14, <1>15, <1>16, TakesSound
<1>18. IsHome(U, q, k) /\ \A y \in Keys : y # k => Moved(T, U, y)
  BY <1>9, <1>12, <1>13, <1>14, TakesMoved
<1>19. PICK n : n = Len(At(T, q).b.kv) + 1
  OBVIOUS
<1>20. RecordMore(T, U, q, k, v, n)
  BY <1>9, <1>12, <1>13, <1>19, TakesRecords
<1>21. \A y \in Keys : Holds(T, y, ref[y], y \in kept) /\ ref[y] \in Values \cup {None, Unknown}
  BY <1>1, <1>4 DEF MapInv
<1>22. ASSUME NEW y \in Keys, y # k PROVE Holds(U, y, ref[y], y \in kept)
  <2>1. Holds(T, y, ref[y], y \in kept) /\ ref[y] \in Values \cup {None, Unknown}
    BY <1>21
  <2>2. Moved(T, U, y)
    BY <1>18, <1>22
  <2> QED
    BY <2>1, <2>2, MovedHolds
<1>23. Present(U, k)
  BY <1>18, <1>20 DEF Present, RecordMore
<1>24. ASSUME ref[k] = None PROVE Alone(U, k, v)
  <2>1. Absent(T, k)
    BY <1>21, <1>24 DEF Holds
  <2>2. \A r, j : IsRecord(U, r, j, k) => r = q /\ j = n
    BY <2>1, <1>20 DEF Absent, RecordMore
  <2>3. IsRecord(U, q, n, k) /\ At(U, q).b.kv[n][2] = v
    BY <1>20 DEF RecordMore
  <2> QED
    BY <2>2, <2>3, <1>18 DEF Alone
<1>25. Holds(U, k, IF ref[k] = None THEN v ELSE Unknown, TRUE)
  BY <1>23, <1>24, ConstantFacts DEF Holds
<1>26. MapInv'
  <2>1. ref \in [Keys -> Values \cup {None, Unknown}]
    BY <1>1 DEF MapInv
  <2>2. ref' \in [Keys -> Values \cup {None, Unknown}]
    BY <2>1, <1>2, <1>3
  <2>3. ref'[k] = (IF ref[k] = None THEN v ELSE Unknown) /\ \A y \in Keys : y # k => ref'[y] = ref[y]
    BY <2>1, <1>2, <1>7, <1>8
  <2>4. ASSUME NEW y \in Keys PROVE Holds(U, y, ref'[y], y \in kept')
    <3>1. CASE y = k
      <4>1. (y \in kept') = TRUE
        BY <3>1, <1>2, <1>7
      <4> QED
        BY <3>1, <4>1, <2>3, <1>25
    <3>2. CASE y # k
      <4>1. (y \in kept') = (y \in kept)
        BY <3>2, <1>2, <1>7
      <4> QED
        BY <4>1, <3>2, <2>3, <1>22
    <3> QED
      BY <3>1, <3>2
  <2> QED
    BY <2>2, <2>4, <1>2, <1>5 DEF MapInv
<1>27. Sound(tree', model') /\ CallInv' /\ RetryInv' /\ ScanInv'
  <2>1. call'.n = 0
    BY <1>2 DEF NoCall
  <2> QED
    BY <2>1, <1>2, <1>5, <1>17 DEF CallInv, RetryInv, ScanInv
<1> QED
  BY <1>26, <1>27 DEF Inv

----------------------------------------------------------------------------
(* Entries in other places.                                                *)

\* min_key is the least of the keys of a bucket.
LEMMA MinKeyFact ==
  ASSUME NEW b \in Buckets
  PROVE  MinKey(b) \in Held(b) /\ MinKey(b) \in Keys \cup {0} /\ MinKey(b) \in Nat /\ \A z \in Held(b) : MinKey(b) <= z
<1>1. CASE b.kv = <<>>
  <2>1. MinKey(b) = b.slot /\ Held(b) = {b.slot} /\ b.slot \in Keys \cup {0}
    BY <1>1, BucketFact DEF MinKey, Held
  <2>2. b.slot \in Nat
    BY <2>1, KeyFact
  <2> QED
    BY <2>1, <2>2
<1>2. CASE b.kv # <<>>
  <2>1. Len(b.kv) >= 1
    BY <1>2, BucketFact
  <2>2. Held(b) = {b.kv[j][1] : j \in 1..Len(b.kv)} /\ Held(b) \subseteq Keys
    BY <1>2, <2>1, HeldKeys DEF Held
  <2>3. MinKey(b) = Min(Held(b))
    BY <1>2, <2>2 DEF MinKey
  <2>4. Held(b) \in SUBSET Nat /\ Held(b) # {}
    <3>1. \A z \in Held(b) : z \in Nat
      BY <2>2, KeyFact
    <3>2. b.kv[1][1] \in Held(b)
      BY <2>1, <2>2, BucketFact
    <3> QED
      BY <3>1, <3>2
  <2>5. MinKey(b) \in Held(b) /\ \A z \in Held(b) : MinKey(b) <= z
    BY <2>3, <2>4, LeastFact
  <2> QED
    BY <2>2, <2>4, <2>5
<1> QED
  BY <1>1, <1>2

\* f shows where the entries of U were in T: in the same order, with the same buckets,
\* and with keys that are raised at most to the least key of the bucket.
Rearranged(T, U, f) ==
  /\ f \in [Places(U) -> Places(T)]
  /\ \A r \in Places(T) : \E s \in Places(U) : f[s] = r
  /\ \A s, t \in Places(U) : Before(s, t) <=> Before(f[s], f[t])
  /\ \A s \in Places(U) :
       /\ At(U, s).b = At(T, f[s]).b
       /\ At(U, s).key = At(T, f[s]).key \/ At(U, s).key = MinKey(At(T, f[s]).b)

RearrangedView(T, U, f) ==
  /\ \A s \in Places(U) :
       /\ f[s] \in Places(T) /\ At(U, s).key \in Nat /\ At(T, f[s]).key \in Nat
       /\ At(T, f[s]).key <= At(U, s).key /\ \A z \in Held(At(U, s).b) : At(U, s).key <= z
       /\ Held(At(U, s).b) = Held(At(T, f[s]).b) /\ Held(At(U, s).b) \subseteq Nat /\ \E z : z \in Held(At(U, s).b)
       /\ At(U, s).key = At(T, f[s]).key \/ At(U, s).key \in Held(At(T, f[s]).b)
       /\ First(U, s) <=> First(T, f[s])
  /\ \A s, t \in Places(U) : f[s] = f[t] => s = t

\* What is where after entries have moved.
LEMMA RearrangedViewFact ==
  ASSUME NEW T \in Seq(GroupSet), Sorted(T), NEW U \in Seq(GroupSet), NEW f, Rearranged(T, U, f)
  PROVE  RearrangedView(T, U, f)
<1>1. \A s \in Places(U) : f[s] \in Places(T)
  BY DEF Rearranged
<1>2. ASSUME NEW s \in Places(U)
      PROVE  /\ At(U, s).key \in Nat /\ At(T, f[s]).key \in Nat
             /\ At(T, f[s]).key <= At(U, s).key /\ \A z \in Held(At(U, s).b) : At(U, s).key <= z
             /\ Held(At(U, s).b) = Held(At(T, f[s]).b) /\ Held(At(U, s).b) \subseteq Nat /\ \E z : z \in Held(At(U, s).b)
             /\ At(U, s).key = At(T, f[s]).key \/ At(U, s).key \in Held(At(T, f[s]).b)
  <2>1. PICK b \in Buckets : b = At(U, s).b /\ b = At(T, f[s]).b
    BY AtFact DEF Rearranged
  <2>2. PICK m : m = MinKey(b) /\ m \in Held(b) /\ m \in Nat /\ \A z \in Held(b) : m <= z
    BY MinKeyFact
  <2>3. PICK x \in Nat : x = At(T, f[s]).key
    BY <1>1, AtFact
  <2>4. \A z \in Held(b) : x <= z
    BY <2>1, <2>3, <1>1 DEF Sorted
  <2>5. At(U, s).key = x \/ At(U, s).key = m
    BY <2>1, <2>2, <2>3 DEF Rearranged
  <2>6. Held(b) \subseteq Nat /\ At(U, s).key \in Nat
    BY <2>1, AtFact
  <2> QED
    BY <2>1, <2>2, <2>3, <2>4, <2>5, <2>6
<1>3. ASSUME NEW s \in Places(U), NEW t \in Places(U), f[s] = f[t] PROVE s = t
  <2>1. s \in Triples /\ t \in Triples /\ f[s] \in Triples
    BY <1>1, AtFact
  <2>2. ~Before(f[s], f[t]) /\ ~Before(f[t], f[s])
    BY <2>1, <1>3, BeforeFact
  <2>3. ~Before(s, t) /\ ~Before(t, s)
    BY <2>2 DEF Rearranged
  <2> QED
    BY <2>1, <2>3, BeforeFact
<1>4. ASSUME NEW s \in Places(U) PROVE First(U, s) <=> First(T, f[s])
  BY <1>1 DEF First, Rearranged
<1> QED
  BY <1>1, <1>2, <1>3, <1>4 DEF RearrangedView

\* Entries that keep their order keep ascending.
LEMMA RearrangedSorted ==
  ASSUME NEW T \in Seq(GroupSet), Sorted(T), NEW U \in Seq(GroupSet), NEW f, Rearranged(T, U, f)
  PROVE  Sorted(U)
<1>1. RearrangedView(T, U, f)
  BY RearrangedViewFact
<1>2. ASSUME NEW s \in Places(U), NEW t \in Places(U), Before(s, t)
      PROVE  At(U, s).key <= At(U, t).key /\ \A z \in Held(At(U, s).b) : z <= At(U, t).key
  <2>1. f[s] \in Places(T) /\ f[t] \in Places(T) /\ Before(f[s], f[t])
    BY <1>1, <1>2 DEF Rearranged, RearrangedView
  <2>2. PICK x \in Nat, y \in Nat : x = At(T, f[t]).key /\ y = At(U, t).key /\ x <= y
    BY <1>1 DEF RearrangedView
  <2>3. PICK H : H = Held(At(U, s).b) /\ H = Held(At(T, f[s]).b) /\ H \subseteq Nat /\ \E z : z \in H
    BY <1>1 DEF RearrangedView
  <2>4. \A z \in H : z <= x
    BY <2>1, <2>2, <2>3 DEF Sorted
  <2>5. \A z \in H : z <= y
    BY <2>2, <2>3, <2>4
  <2>6. PICK z \in H : At(U, s).key <= z /\ At(U, s).key \in Nat
    BY <2>3, <1>1 DEF RearrangedView
  <2>7. z \in Nat /\ z <= y
    BY <2>3, <2>5
  <2>8. At(U, s).key <= y
    BY <2>2, <2>6, <2>7
  <2> QED
    BY <2>2, <2>3, <2>5, <2>8
<1>3. \A s \in Places(U) : \A z \in Held(At(U, s).b) : At(U, s).key <= z
  BY <1>1 DEF RearrangedView
<1> QED
  BY <1>2, <1>3 DEF Sorted

\* Their keys are keys, except 0 for the first of all.
LEMMA RearrangedKeyed ==
  ASSUME NEW T \in Seq(GroupSet), Sorted(T), Keyed(T), NEW U \in Seq(GroupSet), NEW f, Rearranged(T, U, f)
  PROVE  Keyed(U)
<1>1. RearrangedView(T, U, f)
  BY RearrangedViewFact
<1>2. (\E s, t \in Places(U) : s # t) => \A r \in Places(T) : Held(At(T, r).b) \subseteq Keys
  <2> SUFFICES ASSUME NEW s \in Places(U), NEW t \in Places(U), s # t PROVE \A r \in Places(T) : Held(At(T, r).b) \subseteq Keys
    OBVIOUS
  <2>1. f[s] # f[t] /\ f[s] \in Places(T) /\ f[t] \in Places(T)
    BY <1>1 DEF RearrangedView
  <2> QED
    BY <2>1 DEF Keyed
<1>3. ASSUME NEW s \in Places(U) PROVE At(U, s).key \in Keys \/ First(U, s)
  <2>1. CASE First(U, s)
    BY <2>1
  <2>2. CASE ~First(U, s)
    <3>1. PICK t \in Places(U) : Before(t, s)
      BY <2>2 DEF First
    <3>2. t # s
      BY <3>1, AtFact, BeforeFact
    <3>3. f[s] \in Places(T) /\ Held(At(T, f[s]).b) \subseteq Keys
      BY <3>2, <1>1, <1>2 DEF RearrangedView
    <3>4. At(T, f[s]).key \in Keys
      BY <2>2, <3>3, <1>1 DEF Keyed, RearrangedView
    <3> QED
      BY <3>3, <3>4, <1>1 DEF RearrangedView
  <2> QED
    BY <2>1, <2>2
<1>4. ASSUME \E s, t \in Places(U) : s # t, NEW s \in Places(U) PROVE Held(At(U, s).b) \subseteq Keys
  <2>1. Held(At(U, s).b) = Held(At(T, f[s]).b) /\ f[s] \in Places(T)
    BY <1>1 DEF RearrangedView
  <2> QED
    BY <2>1, <1>2, <1>4
<1> QED
  BY <1>3, <1>4 DEF Keyed

\* Their records are found where they were.
LEMMA RearrangedMoved ==
  ASSUME NEW T \in Seq(GroupSet), Sorted(T), NEW U \in Seq(GroupSet), NEW f, Rearranged(T, U, f), NEW y \in Nat
  PROVE  Moved(T, U, y)
<1>1. RearrangedView(T, U, f)
  BY RearrangedViewFact
<1>2. \A s, j : IsRecord(U, s, j, y) => IsRecord(T, f[s], j, y) /\ At(U, s).b.kv[j] = At(T, f[s]).b.kv[j]
  BY DEF IsRecord, Rearranged
<1>3. ASSUME Present(T, y) PROVE Present(U, y)
  <2>1. PICK r, j : IsHome(T, r, y) /\ IsRecord(T, r, j, y)
    BY <1>3 DEF Present
  <2>2. r \in Places(T) /\ j \in 1..Len(At(T, r).b.kv) /\ At(T, r).b.kv[j][1] = y
    BY <2>1 DEF IsRecord
  <2>3. PICK s \in Places(U) : f[s] = r
    BY <2>2 DEF Rearranged
  <2>4. At(U, s).b = At(T, r).b
    BY <2>3 DEF Rearranged
  <2>5. IsRecord(U, s, j, y)
    BY <2>2, <2>4 DEF IsRecord
  <2>6. y \in Held(At(U, s).b)
    <3>1. At(T, r).b.kv # <<>>
      BY <2>2, AtFact
    <3> QED
      BY <3>1, <2>2, <2>4 DEF Held
  <2>7. At(U, s).key <= y
    BY <2>6, <1>1 DEF RearrangedView
  <2>8. ASSUME NEW t \in Places(U), Before(s, t) PROVE y < At(U, t).key
    <3>1. f[t] \in Places(T) /\ Before(r, f[t])
      BY <2>3, <2>8, <1>1 DEF Rearranged, RearrangedView
    <3>2. y < At(T, f[t]).key
      BY <3>1, <2>1 DEF IsHome
    <3>3. At(T, f[t]).key <= At(U, t).key /\ At(T, f[t]).key \in Nat /\ At(U, t).key \in Nat
      BY <1>1 DEF RearrangedView
    <3> QED
      BY <3>2, <3>3
  <2>9. IsHome(U, s, y)
    BY <2>7, <2>8 DEF IsHome
  <2> QED
    BY <2>5, <2>9 DEF Present
<1>4. ASSUME Once(T, y) PROVE Once(U, y)
  <2> SUFFICES ASSUME NEW r, NEW s, NEW i, NEW j, IsRecord(U, r, i, y), IsRecord(U, s, j, y) PROVE r = s /\ i = j
    BY DEF Once
  <2>1. r \in Places(U) /\ s \in Places(U)
    BY DEF IsRecord
  <2>2. f[r] = f[s] /\ i = j
    BY <1>2, <1>4 DEF Once
  <2> QED
    BY <2>1, <2>2, <1>1 DEF RearrangedView
<1> QED
  BY <1>2, <1>3, <1>4 DEF Moved

\* The entry keys of some leading entries are adjusted.
Raised(T, A) ==
  /\ A \in Seq(GroupSet) /\ SameShape(T, A)
  /\ \A r \in Places(T) : /\ At(A, r).b = At(T, r).b
                          /\ At(A, r).key = At(T, r).key \/ At(A, r).key = MinKey(At(T, r).b)

\* AdjustEntryKey keeps a tree well formed, and changes no place and no record.
LEMMA RaisedFact ==
  ASSUME NEW T \in Seq(GroupSet), Formed(T), Sorted(T), Keyed(T), NEW A, Raised(T, A)
  PROVE  /\ A \in Seq(GroupSet) /\ Formed(A) /\ Sorted(A) /\ Keyed(A) /\ Places(A) = Places(T)
         /\ \A g : PlacesIn(A, g) = PlacesIn(T, g)
         /\ \A y \in Nat : Moved(T, A, y)
<1>1. A \in Seq(GroupSet) /\ SameShape(T, A) /\ Places(A) = Places(T) /\ \A g : PlacesIn(A, g) = PlacesIn(T, g)
  BY SamePlaces DEF Raised
<1>2. PICK f : f = [s \in Places(A) |-> s]
  OBVIOUS
<1>3. Rearranged(T, A, f)
  BY <1>1, <1>2 DEF Rearranged, Raised
<1>4. Sorted(A) /\ Keyed(A) /\ \A y \in Nat : Moved(T, A, y)
  BY <1>1, <1>3, RearrangedSorted, RearrangedKeyed, RearrangedMoved
<1>5. \A g \in 1..Len(A) : /\ A[g].next = Cardinality(PlacesIn(A, g))
                           /\ \A p \in 1..Len(A[g].pbs) : Len(A[g].pbs[p]) \in 1..PbCount
  <2> SUFFICES ASSUME NEW g \in 1..Len(A)
               PROVE  /\ A[g].next = Cardinality(PlacesIn(A, g))
                      /\ \A p \in 1..Len(A[g].pbs) : Len(A[g].pbs[p]) \in 1..PbCount
    OBVIOUS
  <2>1. g \in 1..Len(T) /\ A[g].next = T[g].next /\ Len(A[g].pbs) = Len(T[g].pbs)
        /\ \A p \in 1..Len(T[g].pbs) : Len(A[g].pbs[p]) = Len(T[g].pbs[p])
    BY <1>1 DEF SameShape
  <2>2. T[g].next = Cardinality(PlacesIn(T, g)) /\ \A p \in 1..Len(T[g].pbs) : Len(T[g].pbs[p]) \in 1..PbCount
    BY <2>1 DEF Formed
  <2> QED
    BY <2>1, <2>2, <1>1
<1>6. \A r \in Places(A) : Len(At(A, r).b.kv) <= BucketCap
  BY <1>1 DEF Formed, Raised
<1>7. Formed(A)
  BY <1>1, <1>5, <1>6 DEF Formed
<1> QED
  BY <1>1, <1>4, <1>7

----------------------------------------------------------------------------
(* Adjusted keys.                                                          *)

IsAdjusted(G, H) ==
  /\ H \in GroupSet /\ H.next = G.next /\ Len(H.pbs) = Len(G.pbs)
  /\ \A p \in 1..Len(G.pbs) : Len(H.pbs[p]) = Len(G.pbs[p])
  /\ H.pbs[1][1].b = G.pbs[1][1].b /\ H.pbs[1][1].key = MinKey(G.pbs[1][1].b)
  /\ \A p \in 1..Len(G.pbs) : \A i \in 1..Len(G.pbs[p]) : (p = 1 /\ i = 1) \/ H.pbs[p][i] = G.pbs[p][i]

\* AdjustEntryKey changes the first key of a group alone.
LEMMA AdjustedFact ==
  ASSUME NEW T \in Seq(GroupSet), Formed(T), Sorted(T), NEW g \in 1..Len(T), T[g].pbs # <<>>
  PROVE  IsAdjusted(T[g], Adjusted(T[g]))
<1>1. <<g, 1, 1>> \in Places(T) /\ At(T, <<g, 1, 1>>) = T[g].pbs[1][1]
  BY LeadFact
<1>2. PICK d \in EntrySet : d = T[g].pbs[1][1]
  BY <1>1, AtFact
<1>3. d.b \in Buckets /\ d = [key |-> d.key, b |-> d.b]
  BY DEF EntrySet
<1>4. PICK m : m = MinKey(d.b) /\ m \in Keys \cup {0}
  BY <1>3, MinKeyFact
<1>5. PICK e : e = [key |-> m, b |-> d.b]
  OBVIOUS
<1>6. e \in EntrySet
  BY <1>3, <1>4, <1>5 DEF EntrySet
<1>7. PICK U : U = [T EXCEPT ![g].pbs[1][1] = e]
  OBVIOUS
<1>8. /\ U \in Seq(GroupSet) /\ SameShape(T, U)
      /\ At(U, <<g, 1, 1>>) = e
      /\ \A r \in Places(T) : r # <<g, 1, 1>> => At(U, r) = At(T, r)
  <2>1. Replaced(T, U, g, 1, 1, e)
    BY <1>7 DEF Replaced
  <2> QED
    BY <2>1, <1>1, <1>6, ReplacedFact
<1>9. PICK G : G = T[g]
  OBVIOUS
<1>10. PICK H : H = Adjusted(G)
  OBVIOUS
<1>11. U[g] = H
  <2>1. U[g] = [G EXCEPT !.pbs[1][1] = e]
    BY <1>7, <1>9
  <2>2. H = [G EXCEPT !.pbs[1][1] = [d EXCEPT !.key = m]]
    BY <1>2, <1>4, <1>9, <1>10 DEF Adjusted
  <2>3. [d EXCEPT !.key = m] = e
    BY <1>3, <1>5
  <2> QED
    BY <2>1, <2>2, <2>3
<1>12. H \in GroupSet /\ H.next = G.next /\ Len(H.pbs) = Len(G.pbs) /\ \A p \in 1..Len(G.pbs) : Len(H.pbs[p]) = Len(G.pbs[p])
  BY <1>8, <1>9, <1>11, GroupFact DEF SameShape
<1>13. H.pbs[1][1].b = G.pbs[1][1].b /\ H.pbs[1][1].key = MinKey(G.pbs[1][1].b)
  <2>1. H.pbs[1][1] = e
    BY <1>8, <1>11, PlaceFact
  <2> QED
    BY <2>1, <1>2, <1>4, <1>5, <1>9
<1>14. ASSUME NEW p \in 1..Len(G.pbs), NEW i \in 1..Len(G.pbs[p]), ~(p = 1 /\ i = 1) PROVE H.pbs[p][i] = G.pbs[p][i]
  <2>1. <<g, p, i>> \in Places(T)
    BY <1>9, PlaceFact DEF IsPlace
  <2>2. <<g, p, i>> # <<g, 1, 1>>
    BY <1>14
  <2>3. At(U, <<g, p, i>>) = At(T, <<g, p, i>>)
    BY <2>1, <2>2, <1>8
  <2>4. At(U, <<g, p, i>>) = U[g].pbs[p][i] /\ At(T, <<g, p, i>>) = T[g].pbs[p][i]
    BY PlaceFact
  <2> QED
    BY <2>3, <2>4, <1>9, <1>11
<1>15. IsAdjusted(G, H)
  BY <1>12, <1>13, <1>14 DEF IsAdjusted
<1> QED
  BY <1>9, <1>10, <1>15

\* A is T with the keys of some groups adjusted.
Adjusts(T, A) ==
  /\ A = [h \in 1..Len(T) |-> A[h]]
  /\ \A h \in 1..Len(T) : A[h] = T[h] \/ (T[h].pbs # <<>> /\ A[h] = Adjusted(T[h]))

\* Adjusted keys are raised to the least key of their bucket at most.
LEMMA AdjustsRaised ==
  ASSUME NEW T \in Seq(GroupSet), Formed(T), Sorted(T), NEW A, Adjusts(T, A)
  PROVE  Raised(T, A)
<1>1. \A h \in 1..Len(T) : A[h] = T[h] \/ IsAdjusted(T[h], A[h])
  BY AdjustedFact DEF Adjusts
<1>2. \A h \in 1..Len(T) : A[h] \in GroupSet
  BY <1>1, GroupFact DEF IsAdjusted
<1>3. A \in Seq(GroupSet) /\ Len(A) = Len(T)
  <2>1. PICK n \in Nat : n = Len(T)
    BY GroupFact
  <2>2. A \in [1..n -> GroupSet]
    BY <2>1, <1>2 DEF Adjusts
  <2> QED
    BY <2>1, <2>2
<1>4. SameShape(T, A)
  <2> SUFFICES ASSUME NEW h \in 1..Len(T)
               PROVE  /\ A[h].next = T[h].next /\ Len(A[h].pbs) = Len(T[h].pbs)
                      /\ \A p \in 1..Len(T[h].pbs) : Len(A[h].pbs[p]) = Len(T[h].pbs[p])
    BY <1>3 DEF SameShape
  <2> QED
    BY <1>1 DEF IsAdjusted
<1>5. ASSUME NEW r \in Places(T)
      PROVE  At(A, r).b = At(T, r).b /\ (At(A, r).key = At(T, r).key \/ At(A, r).key = MinKey(At(T, r).b))
  <2>1. PICK h, p, i : r = <<h, p, i>> /\ IsPlace(T, h, p, i)
    BY PlaceFact
  <2>2. h \in 1..Len(T) /\ p \in 1..Len(T[h].pbs) /\ i \in 1..Len(T[h].pbs[p])
    BY <2>1 DEF IsPlace
  <2>3. At(A, r) = A[h].pbs[p][i] /\ At(T, r) = T[h].pbs[p][i]
    BY <2>1 DEF At
  <2>4. CASE A[h] = T[h]
    BY <2>3, <2>4
  <2>5. CASE IsAdjusted(T[h], A[h])
    <3>1. CASE p = 1 /\ i = 1
      BY <2>3, <2>5, <3>1 DEF IsAdjusted
    <3>2. CASE ~(p = 1 /\ i = 1)
      <4>1. A[h].pbs[p][i] = T[h].pbs[p][i]
        BY <2>2, <2>5, <3>2 DEF IsAdjusted
      <4> QED
        BY <4>1, <2>3
    <3> QED
      BY <3>1, <3>2
  <2> QED
    BY <2>2, <2>4, <2>5, <1>1
<1> QED
  BY <1>3, <1>4, <1>5 DEF Raised

----------------------------------------------------------------------------
(* PointerBEntrys of one entry.                                            *)

IsSpread(P, A, S) ==
  /\ IsOrderOf(InOrder(S), S)
  /\ P \in Seq(Seq(EntrySet)) /\ Len(P) = Cardinality(S) /\ Cardinality(S) \in Nat
  /\ \A i \in 1..Cardinality(S) : Len(P[i]) = 1 /\ P[i][1] = At(A, InOrder(S)[i])

\* The entries at some places, each in a PointerBEntry of its own, in their order.
LEMMA SpreadFact ==
  ASSUME NEW A \in Seq(GroupSet), NEW S, S \subseteq Places(A)
  PROVE  IsSpread(Spread(A, S), A, S)
<1>1. S \in SUBSET Triples /\ IsFiniteSet(S)
  <2>1. Places(A) \subseteq Triples /\ IsFiniteSet(Places(A))
    BY PlacesFinite, GroupFact
  <2>2. S \in SUBSET Triples
    BY <2>1
  <2>3. IsFiniteSet(S)
    BY <2>1, FS_Subset
  <2> QED
    BY <2>2, <2>3
<1>2. PICK o : o = InOrder(S)
  OBVIOUS
<1>3. IsOrderOf(o, S)
  BY <1>1, <1>2, InOrderFact
<1>4. PICK n \in Nat : n = Cardinality(S)
  BY <1>3 DEF IsOrderOf
<1>5. \A i \in 1..n : o[i] \in Places(A)
  BY <1>3, <1>4 DEF IsOrderOf
<1>6. \A i \in 1..n : At(A, o[i]) \in EntrySet
  BY <1>5, AtFact
<1>7. PICK P : P = [i \in 1..n |-> <<At(A, o[i])>>]
  OBVIOUS
<1>8. Spread(A, S) = P
  BY <1>2, <1>4, <1>7 DEF Spread
<1>9. \A i \in 1..n : P[i] = <<At(A, o[i])>> /\ P[i] \in Seq(EntrySet)
  BY <1>6, <1>7
<1>10. P \in Seq(Seq(EntrySet)) /\ Len(P) = n
  <2>1. P \in [1..n -> Seq(EntrySet)]
    BY <1>7, <1>9
  <2> QED
    BY <2>1
<1>11. \A i \in 1..n : Len(P[i]) = 1 /\ P[i][1] = At(A, o[i])
  <2> SUFFICES ASSUME NEW i \in 1..n PROVE Len(P[i]) = 1 /\ P[i][1] = At(A, o[i])
    OBVIOUS
  <2>1. PICK x \in EntrySet : x = At(A, o[i])
    BY <1>6
  <2>2. P[i] = <<x>>
    BY <2>1, <1>9
  <2>3. Len(<<x>>) = 1 /\ <<x>>[1] = x
    OBVIOUS
  <2> QED
    BY <2>1, <2>2, <2>3
<1> QED
  BY <1>2, <1>3, <1>4, <1>8, <1>10, <1>11 DEF IsSpread

\* A group of such PointerBEntrys has as many places as PointerBEntrys.
LEMMA SingleFact ==
  ASSUME NEW U \in Seq(GroupSet), NEW g \in 1..Len(U), Single(U, g)
  PROVE  /\ \A s : s \in PlacesIn(U, g) <=> \E p \in 1..Len(U[g].pbs) : s = <<g, p, 1>>
         /\ Cardinality(PlacesIn(U, g)) = Len(U[g].pbs)
<1>1. PICK n \in Nat : n = Len(U[g].pbs)
  BY GroupFact
<1>2. ASSUME NEW s, s \in PlacesIn(U, g) PROVE \E p \in 1..n : s = <<g, p, 1>>
  <2>1. s \in Places(U) /\ s[1] = g
    BY <1>2 DEF PlacesIn
  <2>2. PICK h, p, i : s = <<h, p, i>> /\ IsPlace(U, h, p, i)
    BY <2>1, PlaceFact
  <2>3. h = g /\ p \in 1..n /\ i \in 1..Len(U[g].pbs[p])
    BY <2>1, <2>2, <1>1 DEF IsPlace
  <2>4. Len(U[g].pbs[p]) = 1
    BY <2>3, <1>1 DEF Single
  <2>5. i = 1
    BY <2>3, <2>4
  <2> QED
    BY <2>2, <2>3, <2>5
<1>3. ASSUME NEW p \in 1..n PROVE <<g, p, 1>> \in PlacesIn(U, g)
  <2>1. Len(U[g].pbs[p]) = 1
    BY <1>1 DEF Single
  <2>2. 1 \in 1..Len(U[g].pbs[p])
    BY <2>1
  <2>3. IsPlace(U, g, p, 1)
    BY <2>2, <1>1 DEF IsPlace
  <2>4. <<g, p, 1>> \in Places(U)
    BY <2>3, PlaceFact
  <2> QED
    BY <2>4 DEF PlacesIn
<1>4. PICK W : W = PlacesIn(U, g)
  OBVIOUS
<1>5. PICK h : h = [p \in 1..n |-> <<g, p, 1>>]
  OBVIOUS
<1>6. h \in Bijection(1..n, W)
  <2>1. h \in [1..n -> W] /\ \A a, b \in 1..n : h[a] = h[b] => a = b
    BY <1>3, <1>4, <1>5
  <2>2. \A y \in W : \E a \in 1..n : h[a] = y
    BY <1>2, <1>4, <1>5
  <2> QED
    BY <2>1, <2>2 DEF Bijection, Injection, Surjection, IsInjective
<1>7. IsFiniteSet(1..n) /\ Cardinality(1..n) = n
  BY IntervalFact
<1>8. Cardinality(W) = n
  BY <1>6, <1>7, FS_Bijection DEF ExistsBijection
<1> QED
  BY <1>1, <1>2, <1>3, <1>4, <1>8

----------------------------------------------------------------------------
(* group::expand.                                                          *)

\* U is A with the entries of g spread over PointerBEntrys of their own.
SpreadsGroup(A, U, g) ==
  /\ U \in Seq(GroupSet) /\ Len(U) = Len(A) /\ g \in 1..Len(A)
  /\ \A h \in 1..Len(A) : h # g => U[h] = A[h]
  /\ IsSpread(U[g].pbs, A, PlacesIn(A, g)) /\ U[g].next = Cardinality(PlacesIn(A, g))

FromGroup(A, U, g) == [s \in Places(U) |-> IF s[1] = g THEN InOrder(PlacesIn(A, g))[s[2]] ELSE s]

\* What is where.
GroupView(A, U, g, n, o) ==
  /\ n \in Nat /\ n = Cardinality(PlacesIn(A, g)) /\ n = Len(U[g].pbs) /\ Single(U, g)
  /\ \A i \in 1..n : o[i] \in Places(A) /\ o[i][1] = g /\ <<g, i, 1>> \in Places(U) /\ At(U, <<g, i, 1>>) = At(A, o[i])
  /\ \A r \in Places(A) : r[1] = g => \E i \in 1..n : o[i] = r
  /\ \A i, j \in 1..n : i < j <=> Before(o[i], o[j])
  /\ \A s \in Places(U) : s[1] = g => \E i \in 1..n : s = <<g, i, 1>>
  /\ \A s : s[1] # g => (s \in Places(U) <=> s \in Places(A)) /\ (s \in Places(A) => At(U, s) = At(A, s))

\* What is where after group::expand.
LEMMA GroupViewFact ==
  ASSUME NEW A \in Seq(GroupSet), NEW U, NEW g, SpreadsGroup(A, U, g), NEW o, o = InOrder(PlacesIn(A, g))
  PROVE  GroupView(A, U, g, Cardinality(PlacesIn(A, g)), o)
<1>1. /\ U \in Seq(GroupSet) /\ Len(U) = Len(A) /\ g \in 1..Len(A)
      /\ \A h \in 1..Len(A) : h # g => U[h] = A[h]
      /\ IsSpread(U[g].pbs, A, PlacesIn(A, g))
  BY DEF SpreadsGroup
<1>2. PICK S : S = PlacesIn(A, g)
  OBVIOUS
<1>3. PICK n \in Nat : n = Cardinality(S) /\ n = Len(U[g].pbs)
  BY <1>1, <1>2 DEF IsSpread
<1>4. \A i \in 1..n : Len(U[g].pbs[i]) = 1 /\ U[g].pbs[i][1] = At(A, o[i])
  BY <1>1, <1>2, <1>3 DEF IsSpread
<1>5. IsOrderOf(o, S)
  BY <1>1, <1>2 DEF IsSpread
<1>6. \A r : r \in S <=> r \in Places(A) /\ r[1] = g
  BY <1>2 DEF PlacesIn
<1>7. Single(U, g)
  BY <1>3, <1>4 DEF Single
<1>8. \A s : s \in PlacesIn(U, g) <=> \E p \in 1..n : s = <<g, p, 1>>
  BY <1>1, <1>3, <1>7, SingleFact
<1>9. \A s : s \in PlacesIn(U, g) <=> s \in Places(U) /\ s[1] = g
  BY DEF PlacesIn
<1>10. \A i \in 1..n : <<g, i, 1>> \in Places(U) /\ At(U, <<g, i, 1>>) = At(A, o[i])
  BY <1>4, <1>8, <1>9, PlaceFact
<1>11. \A s \in Places(U) : s[1] = g => \E i \in 1..n : s = <<g, i, 1>>
  BY <1>8, <1>9
<1>12. ASSUME NEW s, s[1] # g PROVE (s \in Places(U) <=> s \in Places(A)) /\ (s \in Places(A) => At(U, s) = At(A, s))
  <2>1. ASSUME s \in Places(U) PROVE s \in Places(A)
    <3>1. s = <<s[1], s[2], s[3]>> /\ IsPlace(U, s[1], s[2], s[3])
      BY <2>1, PlaceFact
    <3>2. IsPlace(A, s[1], s[2], s[3])
      BY <3>1, <1>1, <1>12 DEF IsPlace
    <3> QED
      BY <3>1, <3>2, PlaceFact
  <2>2. ASSUME s \in Places(A) PROVE s \in Places(U) /\ At(U, s) = At(A, s)
    <3>1. s = <<s[1], s[2], s[3]>> /\ IsPlace(A, s[1], s[2], s[3])
      BY <2>2, PlaceFact
    <3>2. U[s[1]] = A[s[1]]
      BY <3>1, <1>1, <1>12 DEF IsPlace
    <3>3. IsPlace(U, s[1], s[2], s[3])
      BY <3>1, <3>2, <1>1 DEF IsPlace
    <3>4. s \in Places(U)
      BY <3>1, <3>3, PlaceFact
    <3> QED
      BY <3>2, <3>4 DEF At
  <2> QED
    BY <2>1, <2>2
<1>13. /\ \A i \in 1..n : o[i] \in Places(A) /\ o[i][1] = g
       /\ \A r \in Places(A) : r[1] = g => \E i \in 1..n : o[i] = r
       /\ \A i, j \in 1..n : i < j <=> Before(o[i], o[j])
  BY <1>3, <1>5, <1>6 DEF IsOrderOf
<1>14. GroupView(A, U, g, n, o)
  BY <1>2, <1>3, <1>7, <1>10, <1>11, <1>12, <1>13 DEF GroupView
<1> QED
  BY <1>2, <1>3, <1>14

\* group::expand keeps the order of the entries.
LEMMA GroupRearranged ==
  ASSUME NEW A \in Seq(GroupSet), NEW U, NEW g, SpreadsGroup(A, U, g)
  PROVE  Rearranged(A, U, FromGroup(A, U, g))
<1>1. PICK o : o = InOrder(PlacesIn(A, g))
  OBVIOUS
<1>2. PICK n : n = Cardinality(PlacesIn(A, g))
  OBVIOUS
<1>3. GroupView(A, U, g, n, o) /\ U \in Seq(GroupSet)
  BY <1>1, <1>2, GroupViewFact DEF SpreadsGroup
<1>4. PICK f : f = FromGroup(A, U, g)
  OBVIOUS
<1>5. \A s \in Places(U) : f[s] = IF s[1] = g THEN o[s[2]] ELSE s
  BY <1>1, <1>4 DEF FromGroup
<1>6. ASSUME NEW s \in Places(U), s[1] = g PROVE \E i \in 1..n : s = <<g, i, 1>> /\ f[s] = o[i] /\ f[s] \in Places(A) /\ f[s][1] = g /\ At(U, s) = At(A, f[s])
  <2>1. PICK i \in 1..n : s = <<g, i, 1>>
    BY <1>3, <1>6 DEF GroupView
  <2>2. f[s] = o[i]
    BY <2>1, <1>5, <1>6
  <2> QED
    BY <2>1, <2>2, <1>3 DEF GroupView
<1>7. ASSUME NEW s \in Places(U), s[1] # g PROVE f[s] = s /\ s \in Places(A) /\ At(U, s) = At(A, s)
  BY <1>3, <1>5, <1>7 DEF GroupView
<1>8. \A s \in Places(U) : f[s] \in Places(A) /\ f[s][1] = s[1] /\ At(U, s) = At(A, f[s])
  BY <1>6, <1>7
<1>9. f \in [Places(U) -> Places(A)]
  BY <1>4, <1>8 DEF FromGroup
<1>10. ASSUME NEW r \in Places(A) PROVE \E s \in Places(U) : f[s] = r
  <2>1. CASE r[1] = g
    <3>1. PICK i \in 1..n : o[i] = r
      BY <2>1, <1>3 DEF GroupView
    <3>2. PICK s : s = <<g, i, 1>>
      OBVIOUS
    <3>3. s \in Places(U) /\ s[1] = g /\ s[2] = i
      BY <3>2, <1>3 DEF GroupView
    <3>4. f[s] = o[i]
      BY <3>3, <1>5
    <3> QED
      BY <3>1, <3>3, <3>4
  <2>2. CASE r[1] # g
    <3>1. r \in Places(U)
      BY <2>2, <1>3 DEF GroupView
    <3> QED
      BY <3>1, <2>2, <1>5
  <2> QED
    BY <2>1, <2>2
<1>11. ASSUME NEW s \in Places(U), NEW t \in Places(U) PROVE Before(s, t) <=> Before(f[s], f[t])
  <2>1. s \in Triples /\ t \in Triples /\ f[s] \in Triples /\ f[t] \in Triples /\ f[s][1] = s[1] /\ f[t][1] = t[1]
    BY <1>3, <1>8, AtFact
  <2>2. CASE s[1] # t[1]
    BY <2>1, <2>2 DEF Before, Triples
  <2>3. CASE s[1] = t[1] /\ s[1] # g
    BY <2>3, <1>7
  <2>4. CASE s[1] = g /\ t[1] = g
    <3>1. PICK i \in 1..n : s = <<g, i, 1>> /\ f[s] = o[i]
      BY <2>4, <1>6
    <3>2. PICK j \in 1..n : t = <<g, j, 1>> /\ f[t] = o[j]
      BY <2>4, <1>6
    <3>3. n \in Nat
      BY <1>3 DEF GroupView
    <3>4. i \in Nat /\ j \in Nat /\ g \in Nat
      BY <3>1, <3>3, <2>1 DEF Triples
    <3>5. Before(s, t) <=> i < j
      BY <3>1, <3>2, <3>4 DEF Before
    <3>6. i < j <=> Before(o[i], o[j])
      BY <1>3 DEF GroupView
    <3> QED
      BY <3>1, <3>2, <3>5, <3>6
  <2> QED
    BY <2>2, <2>3, <2>4
<1>12. Rearranged(A, U, f)
  BY <1>8, <1>9, <1>10, <1>11 DEF Rearranged
<1> QED
  BY <1>4, <1>12

\* The tree after group::expand.
LEMMA SpreadFormed ==
  ASSUME NEW A \in Seq(GroupSet), Formed(A), NEW U, NEW g, SpreadsGroup(A, U, g)
  PROVE  Formed(U)
<1>1. /\ U \in Seq(GroupSet) /\ Len(U) = Len(A) /\ g \in 1..Len(A)
      /\ \A h \in 1..Len(A) : h # g => U[h] = A[h]
      /\ U[g].next = Cardinality(PlacesIn(A, g))
  BY DEF SpreadsGroup
<1>2. PICK o : o = InOrder(PlacesIn(A, g))
  OBVIOUS
<1>3. PICK n : n = Cardinality(PlacesIn(A, g))
  OBVIOUS
<1>4. GroupView(A, U, g, n, o)
  BY <1>2, <1>3, GroupViewFact
<1>5. PICK f : f = FromGroup(A, U, g)
  OBVIOUS
<1>6. Rearranged(A, U, f)
  BY <1>5, GroupRearranged
<1>7. ASSUME NEW h \in 1..Len(U)
      PROVE  /\ U[h].next = Cardinality(PlacesIn(U, h))
             /\ \A p \in 1..Len(U[h].pbs) : Len(U[h].pbs[p]) \in 1..PbCount
  <2>1. CASE h = g
    <3>1. Cardinality(PlacesIn(U, g)) = Len(U[g].pbs)
      BY <1>1, <1>4, SingleFact DEF GroupView
    <3>2. \A p \in 1..Len(U[g].pbs) : Len(U[g].pbs[p]) = 1
      BY <1>4 DEF GroupView, Single
    <3>3. 1 \in 1..PbCount
      BY ConstantFacts
    <3> QED
      BY <2>1, <3>1, <3>2, <3>3, <1>1, <1>3, <1>4 DEF GroupView
  <2>2. CASE h # g
    <3>1. PlacesIn(U, h) = PlacesIn(A, h)
      BY <2>2, <1>4 DEF GroupView, PlacesIn
    <3>2. U[h] = A[h] /\ h \in 1..Len(A)
      BY <2>2, <1>1
    <3> QED
      BY <3>1, <3>2 DEF Formed
  <2> QED
    BY <2>1, <2>2
<1>8. \A s \in Places(U) : Len(At(U, s).b.kv) <= BucketCap
  BY <1>6 DEF Rearranged, Formed
<1>9. Places(U) # {}
  BY <1>6 DEF Rearranged, Formed
<1> QED
  BY <1>1, <1>7, <1>8, <1>9 DEF Formed

\* Adjusting keys and moving entries together.
LEMMA RaisedRearranged ==
  ASSUME NEW T, NEW A, Raised(T, A), NEW U, NEW f, Rearranged(A, U, f)
  PROVE  Rearranged(T, U, f)
<1>1. Places(A) = Places(T)
  BY SamePlaces DEF Raised
<1>2. ASSUME NEW s \in Places(U)
      PROVE  /\ At(U, s).b = At(T, f[s]).b
             /\ At(U, s).key = At(T, f[s]).key \/ At(U, s).key = MinKey(At(T, f[s]).b)
  <2>1. f[s] \in Places(T)
    BY <1>1 DEF Rearranged
  <2>2. At(A, f[s]).b = At(T, f[s]).b /\ (At(A, f[s]).key = At(T, f[s]).key \/ At(A, f[s]).key = MinKey(At(T, f[s]).b))
    BY <2>1 DEF Raised
  <2>3. At(U, s).b = At(A, f[s]).b /\ (At(U, s).key = At(A, f[s]).key \/ At(U, s).key = MinKey(At(A, f[s]).b))
    BY DEF Rearranged
  <2> QED
    BY <2>2, <2>3
<1> QED
  BY <1>1, <1>2 DEF Rearranged

\* Entries that stay in their groups can be found from the left as before.
LEMMA RearrangedRouted ==
  ASSUME NEW T \in Seq(GroupSet), Sorted(T), Keyed(T), NEW U \in Seq(GroupSet), NEW f, Rearranged(T, U, f),
         NEW n \in Nat, NEW M \in Monotone(n), Routed(T, M),
         \A s \in Places(U) : f[s][1] = s[1] /\ (Leads(s) => Leads(f[s]))
  PROVE  Routed(U, M)
<1> SUFFICES ASSUME NEW s \in Places(U), Leads(s), ~First(U, s) PROVE s[1] <= M[At(U, s).key]
  BY DEF Routed
<1>1. RearrangedView(T, U, f) /\ Keyed(U)
  BY RearrangedViewFact, RearrangedKeyed
<1>2. PICK r \in Places(T) : r = f[s]
  BY <1>1 DEF RearrangedView
<1>3. ~First(T, r) /\ Leads(r) /\ r[1] = s[1]
  BY <1>1, <1>2 DEF RearrangedView
<1>4. PICK x \in Keys : x = At(T, r).key
  BY <1>3 DEF Keyed
<1>5. PICK y \in Keys : y = At(U, s).key
  BY <1>1 DEF Keyed
<1>6. x <= y
  BY <1>1, <1>2, <1>4, <1>5 DEF RearrangedView
<1>7. M[x] \in 1..n /\ M[y] \in 1..n /\ M[x] <= M[y]
  BY <1>6 DEF Monotone
<1>8. r[1] <= M[x]
  BY <1>3, <1>4 DEF Routed
<1>9. r[1] \in Nat
  BY <1>2, AtFact DEF Triples
<1> QED
  BY <1>3, <1>5, <1>7, <1>8, <1>9

\* The leading entry of the group still leads.
LEMMA GroupLeads ==
  ASSUME NEW A \in Seq(GroupSet), Formed(A), Sorted(A), NEW U, NEW g, SpreadsGroup(A, U, g), A[g].pbs # <<>>,
         NEW f, f = FromGroup(A, U, g)
  PROVE  /\ \A s \in Places(U) : f[s][1] = s[1] /\ (Leads(s) => Leads(f[s]))
         /\ \A s \in Places(U) : s[1] # g => f[s] = s /\ s \in Places(A) /\ At(U, s) = At(A, s)
         /\ U[g].pbs # <<>> /\ Single(U, g)
<1>1. PICK o : o = InOrder(PlacesIn(A, g))
  OBVIOUS
<1>2. PICK n : n = Cardinality(PlacesIn(A, g))
  OBVIOUS
<1>3. GroupView(A, U, g, n, o) /\ U \in Seq(GroupSet) /\ g \in 1..Len(A) /\ Len(U) = Len(A)
  BY <1>1, <1>2, GroupViewFact DEF SpreadsGroup
<1>4. \A s \in Places(U) : f[s] = IF s[1] = g THEN o[s[2]] ELSE s
  BY <1>1 DEF FromGroup
<1>5. <<g, 1, 1>> \in Places(A)
  BY <1>3, LeadFact
<1>6. PICK r : r = <<g, 1, 1>>
  OBVIOUS
<1>7. r \in Places(A) /\ r[1] = g /\ r[2] = 1 /\ r[3] = 1 /\ Leads(r)
  BY <1>5, <1>6 DEF Leads
<1>8. PICK i \in 1..n : o[i] = r
  BY <1>7, <1>3 DEF GroupView
<1>9. n \in Nat /\ n = Len(U[g].pbs)
  BY <1>3 DEF GroupView
<1>10. i \in Nat /\ 1 \in 1..n
  BY <1>8, <1>9
<1>11. o[1] \in Places(A) /\ o[1][1] = g
  BY <1>10, <1>3 DEF GroupView
<1>12. ~Before(o[1], r)
  <2>1. o[1] \in Triples /\ o[1][2] \in 1..Len(A[g].pbs) /\ o[1][3] \in 1..Len(A[o[1][1]].pbs[o[1][2]])
    BY <1>11, AtFact
  <2>2. o[1][2] \in Nat /\ o[1][3] \in Nat
    BY <2>1 DEF Triples
  <2>3. o[1][2] >= 1 /\ o[1][3] >= 1
    BY <2>1, <2>2
  <2>4. g \in Nat
    BY <2>1, <1>11 DEF Triples
  <2> QED
    BY <1>7, <1>11, <2>2, <2>3, <2>4 DEF Before
<1>13. i = 1
  <2>1. ~(1 < i)
    BY <1>3, <1>8, <1>10, <1>12 DEF GroupView
  <2> QED
    BY <2>1, <1>8, <1>10
<1>14. ASSUME NEW s \in Places(U), s[1] # g PROVE f[s] = s /\ s \in Places(A) /\ At(U, s) = At(A, s)
  BY <1>3, <1>4, <1>14 DEF GroupView
<1>15. ASSUME NEW s \in Places(U), s[1] = g PROVE f[s][1] = g /\ (Leads(s) => Leads(f[s]))
  <2>1. PICK m \in 1..n : s = <<g, m, 1>>
    BY <1>3, <1>15 DEF GroupView
  <2>2. f[s] = o[m]
    BY <2>1, <1>4, <1>15
  <2>3. o[m][1] = g
    BY <1>3 DEF GroupView
  <2>4. Leads(s) => m = 1
    BY <2>1 DEF Leads
  <2> QED
    BY <2>2, <2>3, <2>4, <1>7, <1>8, <1>13
<1>16. U[g].pbs # <<>>
  BY <1>9, <1>10
<1>17. Single(U, g)
  BY <1>3 DEF GroupView
<1> QED
  BY <1>14, <1>15, <1>16, <1>17

\* What GroupExpand does: the keys of the group are adjusted, then its entries spread.
LEMMA ExpandSpreads ==
  ASSUME Sound(tree, model), CallInv, GroupExpand
  PROVE  \E A : Adjusts(tree, A) /\ SpreadsGroup(A, tree', call.g) /\ A[call.g].pbs # <<>>
                /\ \A h \in 1..Len(tree) : h # call.g => A[h] = tree[h]
<1>1. call.g # 0 /\ tree' = [tree EXCEPT ![call.g] = Expanded(call.g)]
  BY DEF GroupExpand
<1>2. tree \in Seq(GroupSet) /\ Formed(tree) /\ Sorted(tree) /\ Keyed(tree) /\ Fits(tree, model, call.g, call.k)
  BY <1>1, CallFact
<1>3. PICK T \in Seq(GroupSet) : T = tree
  BY <1>2
<1>4. PICK g \in 1..Len(T) : g = call.g /\ T[g].pbs # <<>>
  BY <1>2, <1>3 DEF Fits
<1>5. PICK A : A = [T EXCEPT ![g] = Adjusted(@)]
  OBVIOUS
<1>6. \A h \in 1..Len(T) : A[h] = IF h = g THEN Adjusted(T[h]) ELSE T[h]
  BY <1>5
<1>7. Adjusts(T, A)
  <2>1. A = [h \in 1..Len(T) |-> A[h]]
    <3>1. DOMAIN T = 1..Len(T) /\ DOMAIN A = DOMAIN T
      BY <1>5
    <3>2. A = [h \in DOMAIN A |-> A[h]]
      BY <1>5
    <3> QED
      BY <3>1, <3>2
  <2>2. \A h \in 1..Len(T) : A[h] = T[h] \/ (T[h].pbs # <<>> /\ A[h] = Adjusted(T[h]))
    BY <1>4, <1>6
  <2> QED
    BY <2>1, <2>2 DEF Adjusts
<1>8. Raised(T, A)
  BY <1>2, <1>3, <1>7, AdjustsRaised
<1>9. A \in Seq(GroupSet) /\ Len(A) = Len(T)
  BY <1>8 DEF Raised, SameShape
<1>10. A[g].pbs # <<>>
  <2>1. Len(A[g].pbs) = Len(T[g].pbs)
    BY <1>8 DEF Raised, SameShape
  <2> QED
    BY <2>1, <1>4, <1>9, GroupFact
<1>11. PICK S : S = PlacesIn(A, g)
  OBVIOUS
<1>12. S \subseteq Places(A)
  BY <1>11 DEF PlacesIn
<1>13. PICK P : P = Spread(A, S)
  OBVIOUS
<1>14. IsSpread(P, A, S)
  BY <1>9, <1>12, <1>13, SpreadFact
<1>15. PICK X : X = [pbs |-> P, next |-> Cardinality(S), min |-> T[g].min]
  OBVIOUS
<1>16. Expanded(g) = X
  BY <1>3, <1>5, <1>11, <1>13, <1>15 DEF Expanded
<1>17. X \in GroupSet
  <2>1. P \in Seq(Seq(EntrySet)) /\ Cardinality(S) \in Nat
    BY <1>14 DEF IsSpread
  <2>2. T[g].min \in Keys \cup {0}
    BY GroupFact
  <2> QED
    BY <2>1, <2>2, <1>15 DEF GroupSet
<1>18. PICK U : U = [T EXCEPT ![g] = X]
  OBVIOUS
<1>19. U \in Seq(GroupSet) /\ Len(U) = Len(T) /\ U[g] = X /\ \A h \in 1..Len(T) : h # g => U[h] = T[h]
  BY <1>17, <1>18
<1>20. U = tree'
  BY <1>1, <1>3, <1>4, <1>16, <1>18
<1>21. SpreadsGroup(A, U, g)
  <2>1. U[g].pbs = P /\ U[g].next = Cardinality(S)
    BY <1>15, <1>19
  <2>2. \A h \in 1..Len(A) : h # g => U[h] = A[h]
    BY <1>6, <1>9, <1>19
  <2> QED
    BY <2>1, <2>2, <1>9, <1>11, <1>14, <1>19 DEF SpreadsGroup
<1> QED
  BY <1>3, <1>4, <1>6, <1>7, <1>10, <1>20, <1>21

\* GroupExpand keeps the invariant: it happens once in a Put.
LEMMA ExpandStep ==
  ASSUME Inv, GroupExpand
  PROVE  Inv'
<1>1. Sound(tree, model) /\ MapInv /\ CallInv /\ RetryInv
  BY DEF Inv
<1>2. /\ call.g # 0 /\ BucketFull(Target) /\ Len(TargetPb) = PbCount
      /\ model' = model /\ ref' = ref /\ kept' = kept /\ call' = [call EXCEPT !.n = @ + 1]
  BY DEF GroupExpand
<1>3. /\ tree \in Seq(GroupSet) /\ Formed(tree) /\ Sorted(tree) /\ Keyed(tree) /\ Routed(tree, model)
      /\ model \in Monotone(Len(tree))
      /\ call \in [k : Keys, v : Values, g : Nat, n : Nat] /\ call.k \in Keys /\ call.k \in Nat /\ call.n \in Nat
      /\ Fits(tree, model, call.g, call.k)
  BY <1>1, <1>2, CallFact
<1>4. PICK T \in Seq(GroupSet) : T = tree
  BY <1>3
<1>5. PICK U : U = tree'
  OBVIOUS
<1>6. PICK g \in 1..Len(T) : g = call.g
  BY <1>3, <1>4 DEF Fits
<1>7. PICK A : Adjusts(T, A) /\ SpreadsGroup(A, U, g) /\ A[g].pbs # <<>> /\ \A h \in 1..Len(T) : h # g => A[h] = T[h]
  BY <1>1, <1>4, <1>5, <1>6, ExpandSpreads
<1>8. Raised(T, A)
  BY <1>3, <1>4, <1>7, AdjustsRaised
<1>9. A \in Seq(GroupSet) /\ Formed(A) /\ Sorted(A) /\ Places(A) = Places(T) /\ Len(A) = Len(T)
  <2>1. Len(A) = Len(T)
    BY <1>8 DEF Raised, SameShape
  <2> QED
    BY <2>1, <1>3, <1>4, <1>8, RaisedFact
<1>10. U \in Seq(GroupSet) /\ Len(U) = Len(T)
  BY <1>7, <1>9 DEF SpreadsGroup
<1>11. PICK f : f = FromGroup(A, U, g)
  OBVIOUS
<1>12. Rearranged(T, U, f)
  BY <1>7, <1>8, <1>9, <1>11, GroupRearranged, RaisedRearranged
<1>13. /\ \A s \in Places(U) : f[s][1] = s[1] /\ (Leads(s) => Leads(f[s]))
       /\ \A s \in Places(U) : s[1] # g => f[s] = s /\ s \in Places(A) /\ At(U, s) = At(A, s)
       /\ U[g].pbs # <<>> /\ Single(U, g)
  BY <1>7, <1>9, <1>11, GroupLeads
<1>14. Formed(U)
  BY <1>7, <1>9, SpreadFormed
<1>15. Sorted(U) /\ Keyed(U)
  BY <1>3, <1>4, <1>10, <1>12, RearrangedSorted, RearrangedKeyed
<1>16. Routed(U, model)
  <2>1. PICK n \in Nat : n = Len(T)
    BY GroupFact
  <2>2. model \in Monotone(n) /\ Sorted(T) /\ Keyed(T) /\ Routed(T, model)
    BY <2>1, <1>3, <1>4
  <2>3. \A s \in Places(U) : f[s][1] = s[1] /\ (Leads(s) => Leads(f[s]))
    BY <1>13
  <2> QED
    BY <2>2, <2>3, <1>10, <1>12, RearrangedRouted
<1>17. Sound(tree', model')
  BY <1>2, <1>3, <1>4, <1>5, <1>10, <1>14, <1>15, <1>16 DEF Sound
<1>18. MapInv'
  <2>1. ASSUME NEW y \in Keys PROVE Holds(U, y, ref[y], y \in kept)
    <3>1. Holds(T, y, ref[y], y \in kept) /\ ref[y] \in Values \cup {None, Unknown}
      BY <1>1, <1>4 DEF MapInv
    <3>2. y \in Nat
      BY KeyFact
    <3>3. Moved(T, U, y)
      BY <3>2, <1>3, <1>4, <1>10, <1>12, RearrangedMoved
    <3> QED
      BY <3>1, <3>3, MovedHolds
  <2> QED
    BY <2>1, <1>1, <1>2, <1>5 DEF MapInv
<1>19. call'.k = call.k /\ call'.g = call.g /\ call'.n = call.n + 1 /\ call' \in [k : Keys, v : Values, g : Nat, n : Nat]
  BY <1>2, <1>3
<1>20. Fits(U, model, g, call.k)
  <2>1. PICK k \in Nat : k = call.k
    BY <1>3
  <2>2. Fits(T, model, g, k)
    BY <1>3, <1>4, <1>6, <2>1
  <2>3. ASSUME NEW s \in Places(U), s[1] # g PROVE s \in Places(T) /\ At(U, s) = At(T, s)
    <3>1. s \in Places(T) /\ At(U, s) = At(A, s)
      BY <2>3, <1>9, <1>13
    <3>2. s[1] \in 1..Len(T)
      BY <3>1, AtFact
    <3>3. A[s[1]] = T[s[1]]
      BY <2>3, <3>2, <1>7
    <3> QED
      BY <3>1, <3>3 DEF At
  <2>4. ASSUME NEW s \in Places(U)
        PROVE  /\ s[1] > g => k < At(U, s).key
               /\ s[1] < g => At(U, s).key <= k /\ \A x \in Held(At(U, s).b) : x <= k
    <3>1. g \in Nat /\ s[1] \in Nat
      BY <1>10, AtFact DEF Triples
    <3>2. CASE s[1] = g
      BY <3>1, <3>2
    <3>3. CASE s[1] # g
      <4>1. s \in Places(T) /\ At(U, s) = At(T, s)
        BY <2>3, <3>3
      <4>2. /\ s[1] > g => k < At(T, s).key
            /\ s[1] < g => At(T, s).key <= k /\ \A x \in Held(At(T, s).b) : x <= k
        BY <4>1, <2>2 DEF Fits
      <4> QED
        BY <4>1, <4>2
    <3> QED
      BY <3>2, <3>3
  <2>5. g <= model[k] \/ \A s \in Places(U) : s[1] >= g
    <3>1. CASE g <= model[k]
      BY <3>1
    <3>2. CASE \A r \in Places(T) : r[1] >= g
      <4>1. \A s \in Places(U) : f[s] \in Places(T) /\ f[s][1] = s[1]
        BY <1>12, <1>13 DEF Rearranged
      <4> QED
        BY <3>2, <4>1
    <3> QED
      BY <3>1, <3>2, <2>2 DEF Fits
  <2>6. g \in 1..Len(U) /\ U[g].pbs # <<>>
    BY <1>10, <1>13
  <2> QED
    BY <2>1, <2>4, <2>5, <2>6 DEF Fits
<1>21. CallInv'
  BY <1>2, <1>5, <1>6, <1>19, <1>20 DEF CallInv
<1>22. call.n = 0
  <2>1. ~Single(T, g)
    <3>1. PICK q : q = SpotOf(tree, call.g, call.k)
      OBVIOUS
    <3>2. q \in Places(T) /\ q[1] = g
      BY <3>1, <1>3, <1>4, <1>6, FitsSpot
    <3>3. q[2] \in 1..Len(T[g].pbs)
      BY <3>2, AtFact
    <3>4. Len(T[g].pbs[q[2]]) = PbCount
      BY <3>1, <3>2, <1>2, <1>4, TargetFact
    <3>5. PbCount # 1
      BY ConstantFacts
    <3>6. ~(Len(T[g].pbs[q[2]]) = 1)
      BY <3>4, <3>5
    <3> QED
      BY <3>3, <3>6 DEF Single
  <2> QED
    BY <2>1, <1>1, <1>2, <1>4, <1>6 DEF RetryInv
<1>23. RetryInv'
  <2>1. call'.n = 1
    BY <1>19, <1>22
  <2>2. ASSUME NEW h \in 1..Len(tree'), call'.g \in {0, h} PROVE Single(tree', h)
    <3>1. h = g
      BY <2>2, <1>2, <1>6, <1>19
    <3> QED
      BY <3>1, <1>5, <1>13
  <2> QED
    BY <2>1, <2>2 DEF RetryInv
<1>24. ScanInv'
  BY <1>2, <1>19 DEF ScanInv, NoCall
<1> QED
  BY <1>17, <1>18, <1>21, <1>23, <1>24 DEF Inv

----------------------------------------------------------------------------
(* ExpandTree.                                                             *)

\* The places of the entries that F assigns to g.
Chosen(A, F, g) == {q \in Places(A) : F[At(A, q).key] = g}

\* U holds the entries of A in the groups that F assigns them to.
Regroups(A, U, F) ==
  /\ U \in Seq(GroupSet) /\ F \in Monotone(Len(U))
  /\ \A q \in Places(A) : At(A, q).key \in Keys
  /\ \A g \in 1..Len(U) : IsSpread(U[g].pbs, A, Chosen(A, F, g)) /\ U[g].next = Cardinality(Chosen(A, F, g))

FromTree(A, U, F) == [s \in Places(U) |-> InOrder(Chosen(A, F, s[1]))[s[2]]]

\* Every group has its entries in their order.
RegroupView(A, U, F, f) ==
  /\ \A s \in Places(U) : /\ s \in Triples /\ f[s] \in Places(A) /\ F[At(A, f[s]).key] = s[1]
                          /\ At(U, s) = At(A, f[s])
  /\ \A r \in Places(A) : \E s \in Places(U) : f[s] = r
  /\ \A s, t \in Places(U) : s[1] = t[1] /\ Before(s, t) => Before(f[s], f[t])
  /\ \A g \in 1..Len(U) : Single(U, g)

\* What is where after ExpandTree.
LEMMA RegroupViewFact ==
  ASSUME NEW A \in Seq(GroupSet), NEW U, NEW F, Regroups(A, U, F), NEW f, f = FromTree(A, U, F)
  PROVE  RegroupView(A, U, F, f)
<1>1. U \in Seq(GroupSet)
  BY DEF Regroups
<1>2. \A g \in 1..Len(U) : IsSpread(U[g].pbs, A, Chosen(A, F, g))
  BY DEF Regroups
<1>3. ASSUME NEW g \in 1..Len(U) PROVE Single(U, g)
  BY <1>2 DEF IsSpread, Single
<1>4. \A s \in Places(U) : f[s] = InOrder(Chosen(A, F, s[1]))[s[2]]
  BY DEF FromTree
<1>5. ASSUME NEW s \in Places(U)
      PROVE  \E g \in 1..Len(U) : \E p \in 1..Cardinality(Chosen(A, F, g)) :
               s = <<g, p, 1>> /\ f[s] = InOrder(Chosen(A, F, g))[p]
  <2>1. PICK g \in 1..Len(U) : g = s[1]
    BY <1>1, AtFact
  <2>2. s \in PlacesIn(U, g)
    BY <2>1 DEF PlacesIn
  <2>3. PICK p \in 1..Len(U[g].pbs) : s = <<g, p, 1>>
    BY <2>2, <1>1, <1>3, SingleFact
  <2>4. Len(U[g].pbs) = Cardinality(Chosen(A, F, g))
    BY <1>2 DEF IsSpread
  <2>5. f[s] = InOrder(Chosen(A, F, g))[p]
    BY <2>3, <1>4
  <2> QED
    BY <2>3, <2>4, <2>5
<1>6. ASSUME NEW g \in 1..Len(U), NEW S, S = Chosen(A, F, g), NEW p \in 1..Cardinality(S)
      PROVE  /\ <<g, p, 1>> \in Places(U) /\ InOrder(S)[p] \in S /\ At(U, <<g, p, 1>>) = At(A, InOrder(S)[p])
             /\ p \in Nat
  <2>1. IsSpread(U[g].pbs, A, S)
    BY <1>2, <1>6
  <2>2. p \in 1..Len(U[g].pbs) /\ U[g].pbs[p][1] = At(A, InOrder(S)[p]) /\ p \in Nat
    BY <2>1 DEF IsSpread
  <2>3. <<g, p, 1>> \in PlacesIn(U, g)
    BY <2>2, <1>1, <1>3, SingleFact
  <2>4. <<g, p, 1>> \in Places(U)
    BY <2>3 DEF PlacesIn
  <2>5. InOrder(S)[p] \in S
    BY <2>1 DEF IsSpread, IsOrderOf
  <2>6. At(U, <<g, p, 1>>) = U[g].pbs[p][1]
    BY PlaceFact
  <2> QED
    BY <2>2, <2>4, <2>5, <2>6
<1>7. ASSUME NEW s \in Places(U)
      PROVE  s \in Triples /\ f[s] \in Places(A) /\ F[At(A, f[s]).key] = s[1] /\ At(U, s) = At(A, f[s])
  <2>1. PICK g \in 1..Len(U) : \E p \in 1..Cardinality(Chosen(A, F, g)) :
               s = <<g, p, 1>> /\ f[s] = InOrder(Chosen(A, F, g))[p]
    BY <1>5
  <2>2. PICK S : S = Chosen(A, F, g)
    OBVIOUS
  <2>3. PICK p \in 1..Cardinality(S) : s = <<g, p, 1>> /\ f[s] = InOrder(S)[p]
    BY <2>1, <2>2
  <2>4. f[s] \in S /\ At(U, s) = At(A, f[s])
    BY <2>2, <2>3, <1>6
  <2>5. f[s] \in Places(A) /\ F[At(A, f[s]).key] = g
    BY <2>2, <2>4 DEF Chosen
  <2>6. s \in Triples
    BY <1>1, AtFact
  <2> QED
    BY <2>3, <2>4, <2>5, <2>6
<1>8. ASSUME NEW r \in Places(A) PROVE \E s \in Places(U) : f[s] = r
  <2>1. PICK g \in 1..Len(U) : g = F[At(A, r).key]
    BY DEF Regroups, Monotone
  <2>2. PICK S : S = Chosen(A, F, g)
    OBVIOUS
  <2>3. r \in S
    BY <2>1, <2>2 DEF Chosen
  <2>4. IsOrderOf(InOrder(S), S)
    BY <2>2, <1>2 DEF IsSpread
  <2>5. PICK p \in 1..Cardinality(S) : InOrder(S)[p] = r
    BY <2>3, <2>4 DEF IsOrderOf
  <2>6. PICK s : s = <<g, p, 1>>
    OBVIOUS
  <2>7. s \in Places(U) /\ s[1] = g /\ s[2] = p
    BY <2>2, <2>5, <2>6, <1>6
  <2>8. f[s] = InOrder(S)[p]
    BY <2>2, <2>7, <1>4
  <2> QED
    BY <2>5, <2>7, <2>8
<1>9. ASSUME NEW s \in Places(U), NEW t \in Places(U), s[1] = t[1], Before(s, t) PROVE Before(f[s], f[t])
  <2>1. PICK g \in 1..Len(U) : \E p \in 1..Cardinality(Chosen(A, F, g)) :
               s = <<g, p, 1>> /\ f[s] = InOrder(Chosen(A, F, g))[p]
    BY <1>5
  <2>2. PICK S : S = Chosen(A, F, g)
    OBVIOUS
  <2>3. PICK p \in 1..Cardinality(S) : s = <<g, p, 1>> /\ f[s] = InOrder(S)[p]
    BY <2>1, <2>2
  <2>4. PICK h \in 1..Len(U) : \E p2 \in 1..Cardinality(Chosen(A, F, h)) :
               t = <<h, p2, 1>> /\ f[t] = InOrder(Chosen(A, F, h))[p2]
    BY <1>5
  <2>5. h = g
    BY <2>3, <2>4, <1>9
  <2>6. PICK m \in 1..Cardinality(S) : t = <<g, m, 1>> /\ f[t] = InOrder(S)[m]
    BY <2>2, <2>4, <2>5
  <2>7. p \in Nat /\ m \in Nat
    BY <2>2, <1>6
  <2>8. g \in Nat
    BY <1>1, GroupFact
  <2>9. p < m
    BY <2>3, <2>6, <2>7, <2>8, <1>9 DEF Before
  <2>10. IsOrderOf(InOrder(S), S)
    BY <2>2, <1>2 DEF IsSpread
  <2>11. Before(InOrder(S)[p], InOrder(S)[m])
    BY <2>9, <2>10 DEF IsOrderOf
  <2> QED
    BY <2>3, <2>6, <2>11
<1> QED
  BY <1>3, <1>7, <1>8, <1>9 DEF RegroupView

\* The new model is monotone, so ExpandTree keeps the order of the entries.
LEMMA RegroupRearranged ==
  ASSUME NEW A \in Seq(GroupSet), Sorted(A), NEW U, NEW F, Regroups(A, U, F)
  PROVE  Rearranged(A, U, FromTree(A, U, F))
<1>1. PICK f : f = FromTree(A, U, F)
  OBVIOUS
<1>2. RegroupView(A, U, F, f) /\ U \in Seq(GroupSet)
  BY <1>1, RegroupViewFact DEF Regroups
<1>3. f \in [Places(U) -> Places(A)]
  BY <1>1, <1>2 DEF FromTree, RegroupView
<1>4. ASSUME NEW s \in Places(U) PROVE s \in Triples /\ f[s] \in Triples
  BY <1>2, <1>3, AtFact DEF RegroupView
<1>5. ASSUME NEW s \in Places(U), NEW t \in Places(U), Before(s, t) PROVE Before(f[s], f[t])
  <2>1. CASE s[1] = t[1]
    BY <2>1, <1>2, <1>5 DEF RegroupView
  <2>2. CASE s[1] # t[1]
    <3>1. s[1] < t[1] /\ s[1] \in Nat /\ t[1] \in Nat
      BY <2>2, <1>4, <1>5 DEF Before, Triples
    <3>2. PICK x \in Keys : x = At(A, f[s]).key
      BY <1>3 DEF Regroups
    <3>3. PICK y \in Keys : y = At(A, f[t]).key
      BY <1>3 DEF Regroups
    <3>4. F[x] = s[1] /\ F[y] = t[1]
      BY <3>2, <3>3, <1>2 DEF RegroupView
    <3>5. ~(y <= x)
      <4>1. y <= x => F[y] <= F[x]
        BY DEF Regroups, Monotone
      <4> QED
        BY <4>1, <3>1, <3>4
    <3>6. f[s] # f[t]
      BY <3>1, <3>2, <3>3, <3>4
    <3>7. ~Before(f[t], f[s])
      BY <3>2, <3>3, <3>5, <1>3 DEF Sorted
    <3> QED
      BY <3>6, <3>7, <1>4, BeforeFact
  <2> QED
    BY <2>1, <2>2
<1>6. ASSUME NEW s \in Places(U), NEW t \in Places(U), Before(f[s], f[t]) PROVE Before(s, t)
  <2>1. ~Before(f[t], f[s]) /\ f[s] # f[t]
    BY <1>4, <1>6, BeforeFact
  <2>2. ~Before(t, s)
    BY <2>1, <1>5
  <2> QED
    BY <2>1, <2>2, <1>4, BeforeFact
<1>7. Rearranged(A, U, f)
  BY <1>2, <1>3, <1>5, <1>6 DEF Rearranged, RegroupView
<1> QED
  BY <1>1, <1>7

\* The tree of ExpandTree is sound for its model.
LEMMA RegroupSound ==
  ASSUME NEW A \in Seq(GroupSet), Formed(A), Sorted(A), Keyed(A), NEW U, NEW F, Regroups(A, U, F)
  PROVE  Sound(U, F) /\ \A g \in 1..Len(U) : Single(U, g)
<1>1. PICK f : f = FromTree(A, U, F)
  OBVIOUS
<1>2. RegroupView(A, U, F, f) /\ U \in Seq(GroupSet) /\ F \in Monotone(Len(U))
  BY <1>1, RegroupViewFact DEF Regroups
<1>3. Rearranged(A, U, f)
  BY <1>1, RegroupRearranged
<1>4. Sorted(U) /\ Keyed(U)
  BY <1>2, <1>3, RearrangedSorted, RearrangedKeyed
<1>5. \A g \in 1..Len(U) : Single(U, g)
  BY <1>2 DEF RegroupView
<1>6. Routed(U, F)
  <2> SUFFICES ASSUME NEW s \in Places(U) PROVE s[1] <= F[At(U, s).key]
    BY DEF Routed
  <2>1. F[At(U, s).key] = s[1]
    BY <1>2 DEF RegroupView
  <2>2. s[1] \in Nat
    BY <1>2 DEF RegroupView, Triples
  <2> QED
    BY <2>1, <2>2
<1>7. ASSUME NEW g \in 1..Len(U)
      PROVE  /\ U[g].next = Cardinality(PlacesIn(U, g))
             /\ \A p \in 1..Len(U[g].pbs) : Len(U[g].pbs[p]) \in 1..PbCount
  <2>1. Cardinality(PlacesIn(U, g)) = Len(U[g].pbs)
    BY <1>2, <1>5, SingleFact
  <2>2. U[g].next = Len(U[g].pbs)
    BY DEF Regroups, IsSpread
  <2>3. 1 \in 1..PbCount
    BY ConstantFacts
  <2>4. \A p \in 1..Len(U[g].pbs) : Len(U[g].pbs[p]) = 1
    BY <1>5 DEF Single
  <2> QED
    BY <2>1, <2>2, <2>3, <2>4
<1>8. \A s \in Places(U) : Len(At(U, s).b.kv) <= BucketCap
  BY <1>3 DEF Rearranged, Formed
<1>9. Places(U) # {}
  BY <1>3 DEF Rearranged, Formed
<1>10. Formed(U)
  BY <1>2, <1>7, <1>8, <1>9 DEF Formed
<1> QED
  BY <1>2, <1>4, <1>5, <1>6, <1>10 DEF Sound

\* The entries of a tree can be counted.
LEMMA EntryCountFact ==
  ASSUME tree \in Seq(GroupSet)
  PROVE  EntryCount \in Nat
<1>1. PICK n \in Nat : n = Len(tree)
  BY GroupFact
<1>2. PICK f : f = [g \in 1..n |-> {g} \X (1..tree[g].next)]
  OBVIOUS
<1>3. ASSUME NEW g \in 1..n PROVE IsFiniteSet(f[g])
  <2>1. tree[g].next \in Nat
    BY <1>1, GroupFact
  <2>2. PICK I : I = 1..tree[g].next /\ IsFiniteSet(I)
    BY <2>1, IntervalFact
  <2>3. PICK S : S = {g} /\ IsFiniteSet(S)
    BY FS_Singleton
  <2>4. f[g] = S \X I
    BY <2>2, <2>3, <1>2
  <2>5. IsFiniteSet(S \X I)
    BY <2>2, <2>3, FS_Product
  <2> QED
    BY <2>4, <2>5
<1>4. IsFiniteSet(UNION {f[g] : g \in 1..n})
  BY <1>3, FiniteUnion
<1>5. {f[g] : g \in 1..n} = {{g} \X (1..tree[g].next) : g \in 1..Len(tree)}
  BY <1>1, <1>2
<1>6. EntryCount = Cardinality(UNION {f[g] : g \in 1..n})
  BY <1>5 DEF EntryCount
<1> QED
  BY <1>4, <1>6, FS_CardinalityType

\* Adjusted keys are keys when a bucket is full.
LEMMA AdjustedKeys ==
  ASSUME NEW T \in Seq(GroupSet), Formed(T), Sorted(T), Keyed(T), NEW A, Raised(T, A),
         \A h \in 1..Len(T) : T[h].pbs # <<>> => A[h] = Adjusted(T[h]),
         NEW q \in Places(T), Len(At(T, q).b.kv) >= 1, NEW r \in Places(T)
  PROVE  At(A, r).key \in Keys
<1>1. Held(At(T, r).b) \subseteq Keys
  <2>1. CASE r = q
    <3>1. At(T, q).b \in Buckets
      BY AtFact
    <3> QED
      BY <2>1, <3>1, HeldKeys
  <2>2. CASE r # q
    BY <2>2 DEF Keyed
  <2> QED
    BY <2>1, <2>2
<1>2. PICK b \in Buckets : b = At(T, r).b
  BY AtFact
<1>3. MinKey(b) \in Keys
  BY <1>1, <1>2, MinKeyFact
<1>4. r[1] \in 1..Len(T) /\ r \in Triples /\ r = <<r[1], r[2], r[3]>>
  BY AtFact, PlaceFact
<1>5. CASE Leads(r)
  <2>1. T[r[1]].pbs # <<>>
    BY LeadFact
  <2>2. IsAdjusted(T[r[1]], A[r[1]])
    BY <2>1, <1>4, AdjustedFact
  <2>3. At(A, r) = A[r[1]].pbs[1][1] /\ At(T, r) = T[r[1]].pbs[1][1]
    BY <1>5 DEF Leads, At
  <2>4. At(A, r).key = MinKey(b)
    BY <2>2, <2>3, <1>2 DEF IsAdjusted
  <2> QED
    BY <2>4, <1>3
<1>6. CASE ~Leads(r)
  <2>1. PICK s : s = <<r[1], 1, 1>>
    OBVIOUS
  <2>2. T[r[1]].pbs # <<>>
    BY LeadFact
  <2>3. s \in Places(T)
    BY <2>1, <2>2, <1>4, LeadFact
  <2>4. r[2] \in 1..Len(T[r[1]].pbs) /\ r[3] \in 1..Len(T[r[1]].pbs[r[2]])
    BY AtFact
  <2>5. r[2] \in Nat /\ r[3] \in Nat /\ r[2] >= 1 /\ r[3] >= 1 /\ r[1] \in Nat
    BY <2>4, <1>4 DEF Triples
  <2>6. Before(s, r)
    BY <2>1, <2>5, <1>6 DEF Before, Leads
  <2>7. At(T, r).key \in Keys
    BY <2>3, <2>6 DEF Keyed, First
  <2> QED
    BY <2>7, <1>2, <1>3 DEF Raised
<1> QED
  BY <1>5, <1>6

\* A group of ExpandTree.
LEMMA NewGroupFact ==
  ASSUME NEW A \in Seq(GroupSet), NEW S, S \subseteq Places(A)
  PROVE  NewGroup(A, S) \in GroupSet /\ IsSpread(NewGroup(A, S).pbs, A, S) /\ NewGroup(A, S).next = Cardinality(S)
<1>1. PICK P : P = Spread(A, S)
  OBVIOUS
<1>2. IsSpread(P, A, S)
  BY <1>1, SpreadFact
<1>3. PICK n \in Nat : n = Cardinality(S)
  BY <1>2 DEF IsSpread
<1>4. PICK m : m = IF S = {} THEN 0 ELSE P[1][1].key
  OBVIOUS
<1>5. m \in Keys \cup {0}
  <2>1. CASE S = {}
    BY <2>1, <1>4
  <2>2. CASE S # {}
    <3>1. IsOrderOf(InOrder(S), S)
      BY <1>2 DEF IsSpread
    <3>2. PICK r \in S : TRUE
      BY <2>2
    <3>3. PICK i \in 1..n : InOrder(S)[i] = r
      BY <3>1, <1>3 DEF IsOrderOf
    <3>4. 1 \in 1..n
      BY <3>3
    <3>5. InOrder(S)[1] \in Places(A)
      BY <3>1, <3>4, <1>3 DEF IsOrderOf
    <3>6. P[1][1] = At(A, InOrder(S)[1])
      BY <3>4, <1>2, <1>3 DEF IsSpread
    <3> QED
      BY <2>2, <3>5, <3>6, <1>4, AtFact
  <2> QED
    BY <2>1, <2>2
<1>6. NewGroup(A, S) = [pbs |-> P, next |-> n, min |-> m]
  BY <1>1, <1>3, <1>4 DEF NewGroup
<1>7. P \in Seq(Seq(EntrySet))
  BY <1>2 DEF IsSpread
<1>8. [pbs |-> P, next |-> n, min |-> m] \in GroupSet
  BY <1>5, <1>7 DEF GroupSet
<1> QED
  BY <1>2, <1>3, <1>6, <1>8

\* What ExpandTree does.
LEMMA ExpandTreeRegroups ==
  ASSUME Sound(tree, model), CallInv, ExpandTree
  PROVE  \E A : Raised(tree, A) /\ Regroups(A, tree', model')
<1>1. call.g # 0 /\ BucketFull(Target)
  BY DEF ExpandTree
<1>2. /\ tree \in Seq(GroupSet) /\ Formed(tree) /\ Sorted(tree) /\ Keyed(tree) /\ Fits(tree, model, call.g, call.k)
      /\ call.k \in Nat
  BY <1>1, CallFact
<1>3. PICK T \in Seq(GroupSet) : T = tree
  BY <1>2
<1> DEFINE A == [g \in 1..Len(tree) |-> IF tree[g].pbs = <<>> THEN tree[g] ELSE Adjusted(tree[g])]
           n == (EntryCount + MinEntries - 1) \div MinEntries
<1>4. A = [g \in 1..Len(T) |-> IF T[g].pbs = <<>> THEN T[g] ELSE Adjusted(T[g])]
  BY <1>3
<1>5. n = (EntryCount + MinEntries - 1) \div MinEntries
  OBVIOUS
<1>6. PICK F \in Monotone(n) :
        /\ model' = F
        /\ tree' = [g \in 1..n |-> NewGroup(A, {q \in Places(A) : F[At(A, q).key] = g})]
  BY DEF ExpandTree
<1> HIDE DEF A, n
<1>7. n \in Int
  <2>1. PICK e \in Nat : e = EntryCount
    BY <1>2, EntryCountFact
  <2>2. PICK m \in Nat : m = MinEntries /\ m >= 1
    BY ConstantFacts
  <2>3. (e + m - 1) \in Int
    BY <2>1, <2>2
  <2>4. (e + m - 1) \div m \in Int
    BY <2>2, <2>3
  <2> QED
    BY <2>1, <2>2, <2>4, <1>5
<1>8. n \in Nat
  <2>1. PICK k \in Keys : TRUE
    BY ConstantFacts
  <2>2. F[k] \in 1..n
    BY DEF Monotone
  <2> QED
    BY <2>2, <1>7
<1>9. Adjusts(T, A)
  <2>1. A = [h \in 1..Len(T) |-> A[h]]
    BY <1>4
  <2>2. \A h \in 1..Len(T) : A[h] = T[h] \/ (T[h].pbs # <<>> /\ A[h] = Adjusted(T[h]))
    BY <1>4
  <2> QED
    BY <2>1, <2>2 DEF Adjusts
<1>10. Raised(T, A)
  BY <1>2, <1>3, <1>9, AdjustsRaised
<1>11. A \in Seq(GroupSet) /\ Places(A) = Places(T)
  BY <1>10, SamePlaces DEF Raised
<1>12. \A h \in 1..Len(T) : T[h].pbs # <<>> => A[h] = Adjusted(T[h])
  BY <1>4
<1>13. PICK q : q = SpotOf(tree, call.g, call.k)
  OBVIOUS
<1>14. q \in Places(T)
  BY <1>2, <1>3, <1>13, FitsSpot
<1>15. Len(At(T, q).b.kv) >= 1
  <2>1. Target = At(T, q).b
    BY <1>3, <1>13, TargetFact
  <2>2. Len(At(T, q).b.kv) \in Nat
    BY <1>14, AtFact
  <2> QED
    BY <2>1, <2>2, <1>1, ConstantFacts DEF BucketFull
<1>16. ASSUME NEW r \in Places(A) PROVE At(A, r).key \in Keys
  <2>1. r \in Places(T)
    BY <1>11
  <2> QED
    BY <2>1, <1>2, <1>3, <1>10, <1>12, <1>14, <1>15, AdjustedKeys
<1>17. PICK U : U = [g \in 1..n |-> NewGroup(A, Chosen(A, F, g))]
  OBVIOUS
<1>18. U = tree'
  BY <1>6, <1>17 DEF Chosen
<1>19. ASSUME NEW g \in 1..n
       PROVE  U[g] \in GroupSet /\ IsSpread(U[g].pbs, A, Chosen(A, F, g)) /\ U[g].next = Cardinality(Chosen(A, F, g))
  <2>1. Chosen(A, F, g) \subseteq Places(A)
    BY DEF Chosen
  <2>2. U[g] = NewGroup(A, Chosen(A, F, g))
    BY <1>17
  <2> QED
    BY <2>1, <2>2, <1>11, NewGroupFact
<1>20. U \in Seq(GroupSet) /\ Len(U) = n
  <2>1. U \in [1..n -> GroupSet]
    BY <1>17, <1>19
  <2> QED
    BY <2>1, <1>8
<1>21. Regroups(A, U, F)
  BY <1>16, <1>19, <1>20 DEF Regroups
<1> QED
  BY <1>3, <1>6, <1>10, <1>18, <1>21

\* ExpandTree keeps the invariant: it happens once in a Put.
LEMMA ExpandTreeStep ==
  ASSUME Inv, ExpandTree
  PROVE  Inv'
<1>1. Sound(tree, model) /\ MapInv /\ CallInv /\ RetryInv
  BY DEF Inv
<1>2. /\ call.g # 0 /\ BucketFull(Target) /\ Len(TargetPb) = PbCount
      /\ ref' = ref /\ kept' = kept /\ call' = [call EXCEPT !.g = 0, !.n = @ + 1]
  BY DEF ExpandTree
<1>3. /\ tree \in Seq(GroupSet) /\ Formed(tree) /\ Sorted(tree) /\ Keyed(tree)
      /\ call \in [k : Keys, v : Values, g : Nat, n : Nat] /\ call.k \in Keys /\ call.k \in Nat /\ call.n \in Nat
      /\ Fits(tree, model, call.g, call.k)
  BY <1>1, <1>2, CallFact
<1>4. PICK T \in Seq(GroupSet) : T = tree
  BY <1>3
<1>5. PICK U : U = tree'
  OBVIOUS
<1>6. PICK F : F = model'
  OBVIOUS
<1>7. PICK A : Raised(T, A) /\ Regroups(A, U, F)
  BY <1>1, <1>4, <1>5, <1>6, ExpandTreeRegroups
<1>8. A \in Seq(GroupSet) /\ Formed(A) /\ Sorted(A) /\ Keyed(A)
  BY <1>3, <1>4, <1>7, RaisedFact
<1>9. Sound(U, F) /\ \A g \in 1..Len(U) : Single(U, g)
  BY <1>7, <1>8, RegroupSound
<1>10. PICK f : f = FromTree(A, U, F)
  OBVIOUS
<1>11. Rearranged(T, U, f)
  BY <1>7, <1>8, <1>10, RegroupRearranged, RaisedRearranged
<1>12. U \in Seq(GroupSet)
  BY <1>7 DEF Regroups
<1>13. MapInv'
  <2>1. ASSUME NEW y \in Keys PROVE Holds(U, y, ref[y], y \in kept)
    <3>1. Holds(T, y, ref[y], y \in kept) /\ ref[y] \in Values \cup {None, Unknown}
      BY <1>1, <1>4 DEF MapInv
    <3>2. y \in Nat
      BY KeyFact
    <3>3. Moved(T, U, y)
      BY <3>2, <1>3, <1>4, <1>11, <1>12, RearrangedMoved
    <3> QED
      BY <3>1, <3>3, MovedHolds
  <2> QED
    BY <2>1, <1>1, <1>2, <1>5 DEF MapInv
<1>14. call'.k = call.k /\ call'.g = 0 /\ call'.n = call.n + 1 /\ call' \in [k : Keys, v : Values, g : Nat, n : Nat]
  <2>1. call.v \in Values /\ call = [k |-> call.k, v |-> call.v, g |-> call.g, n |-> call.n]
    BY <1>3
  <2>2. call' = [k |-> call.k, v |-> call.v, g |-> 0, n |-> call.n + 1]
    BY <2>1, <1>2
  <2> QED
    BY <2>1, <2>2, <1>3
<1>15. CallInv'
  BY <1>14 DEF CallInv
<1>16. call.n = 0
  <2>1. PICK q : q = SpotOf(tree, call.g, call.k)
    OBVIOUS
  <2>2. q \in Places(T) /\ q[1] = call.g /\ call.g \in 1..Len(T)
    <3>1. call.g \in 1..Len(T)
      BY <1>3, <1>4 DEF Fits
    <3>2. q \in Places(T) /\ q[1] = call.g
      BY <2>1, <1>3, <1>4, FitsSpot
    <3> QED
      BY <3>1, <3>2
  <2>3. q[2] \in 1..Len(T[call.g].pbs)
    BY <2>2, AtFact
  <2>4. Len(T[call.g].pbs[q[2]]) = PbCount
    BY <2>1, <2>2, <1>2, <1>4, TargetFact
  <2>5. PbCount # 1
    BY ConstantFacts
  <2>6. ~(Len(T[call.g].pbs[q[2]]) = 1)
    BY <2>4, <2>5
  <2>7. ~Single(T, call.g)
    BY <2>3, <2>6 DEF Single
  <2> QED
    BY <2>2, <2>7, <1>1, <1>2, <1>4 DEF RetryInv
<1>17. RetryInv'
  <2>1. call'.n = 1
    BY <1>14, <1>16
  <2> QED
    BY <2>1, <1>5, <1>9 DEF RetryInv
<1>18. call' # NoCall
  BY <1>14, <1>16 DEF NoCall
<1>19. ScanInv'
  BY <1>18 DEF ScanInv
<1> QED
  BY <1>5, <1>6, <1>9, <1>13, <1>15, <1>17, <1>19 DEF Inv

\* The tree, the model and what they are compared with do not change.
LEMMA UnchangedSound ==
  ASSUME Inv, UNCHANGED <<tree, model, kept, ref>>
  PROVE  Sound(tree, model)' /\ MapInv'
<1>1. Sound(tree, model) /\ MapInv
  BY DEF Inv
<1>2. tree' = tree /\ model' = model /\ kept' = kept /\ ref' = ref
  OBVIOUS
<1>3. Sound(tree', model')
  BY <1>1, <1>2
<1>4. MapInv'
  <2>1. ASSUME NEW y \in Keys PROVE Holds(tree', y, ref'[y], y \in kept')
    <3>1. Holds(tree, y, ref[y], y \in kept)
      BY <1>1 DEF MapInv
    <3> QED
      BY <3>1, <1>2
  <2> QED
    BY <2>1, <1>1, <1>2 DEF MapInv
<1> QED
  BY <1>3, <1>4

\* No call is under way.
LEMMA NoCallFact ==
  ASSUME call = NoCall
  PROVE  CallInv /\ RetryInv
BY DEF CallInv, RetryInv, NoCall

\* Get keeps the invariant.
LEMMA GetStep ==
  ASSUME Inv, NEW k \in Keys, Get(k)
  PROVE  Inv'
<1>1. call = NoCall /\ answer' = <<"get", k, Lookup(k)>> /\ call' = call
  BY DEF Get, Asked
<1>2. Sound(tree, model)' /\ MapInv'
  BY UnchangedSound DEF Get
<1>3. (CallInv /\ RetryInv)'
  BY <1>1 DEF CallInv, RetryInv, NoCall
<1>4. ScanInv'
  BY <1>1 DEF ScanInv
<1> QED
  BY <1>2, <1>3, <1>4 DEF Inv

\* A Put begins in a group that its key belongs into.
LEMMA PutStep ==
  ASSUME Inv, NEW k \in Keys, NEW v \in Values, Put(k, v)
  PROVE  Inv'
<1>1. PICK g : g = FindGroup(k)
  OBVIOUS
<1>2. call' = [k |-> k, v |-> v, g |-> g, n |-> 0] /\ tree' = tree /\ model' = model
  BY <1>1 DEF Put
<1>3. Sound(tree, model)' /\ MapInv'
  BY UnchangedSound DEF Put
<1>4. Fits(tree, model, g, k)
  BY <1>1, FindGroupFits DEF Inv, Sound, Formed
<1>5. g \in Nat /\ g # 0
  BY <1>4 DEF Fits
<1>6. call'.k = k /\ call'.g = g /\ call'.n = 0 /\ call' \in [k : Keys, v : Values, g : Nat, n : Nat]
  BY <1>2, <1>5
<1>7. CallInv'
  BY <1>2, <1>4, <1>6 DEF CallInv
<1>8. RetryInv'
  BY <1>6 DEF RetryInv
<1>9. ScanInv'
  BY <1>5, <1>6 DEF ScanInv, NoCall
<1> QED
  BY <1>3, <1>7, <1>8, <1>9 DEF Inv

\* So does one that starts again after ExpandTree.
LEMMA RetryStep ==
  ASSUME Inv, PutRetry
  PROVE  Inv'
<1>1. call # NoCall /\ call.g = 0 /\ tree' = tree /\ model' = model
  BY DEF PutRetry
<1>2. PICK g : g = FindGroup(call.k)
  OBVIOUS
<1>3. call' = [call EXCEPT !.g = g]
  BY <1>2 DEF PutRetry
<1>4. call \in [k : Keys, v : Values, g : Nat, n : Nat] /\ RetryInv
  BY <1>1 DEF Inv, CallInv
<1>5. call.k \in Keys
  BY <1>4
<1>6. Sound(tree, model)' /\ MapInv'
  BY UnchangedSound DEF PutRetry
<1>7. Fits(tree, model, g, call.k)
  BY <1>2, <1>5, FindGroupFits DEF Inv, Sound, Formed
<1>8. g \in Nat /\ g # 0 /\ g \in 1..Len(tree)
  BY <1>7 DEF Fits
<1>9. call'.k = call.k /\ call'.g = g /\ call'.n = call.n /\ call' \in [k : Keys, v : Values, g : Nat, n : Nat]
  BY <1>3, <1>4, <1>8
<1>10. CallInv'
  BY <1>1, <1>7, <1>9 DEF CallInv
<1>11. RetryInv'
  <2>1. CASE call.n = 0
    BY <2>1, <1>9 DEF RetryInv
  <2>2. CASE call.n = 1 /\ \A h \in 1..Len(tree) : Single(tree, h)
    BY <2>2, <1>1, <1>9 DEF RetryInv
  <2> QED
    BY <2>1, <2>2, <1>1, <1>4 DEF RetryInv
<1>12. ScanInv'
  BY <1>8, <1>9 DEF ScanInv, NoCall
<1> QED
  BY <1>6, <1>10, <1>11, <1>12 DEF Inv

\* A step that changes nothing.
LEMMA StutterStep ==
  ASSUME Inv, UNCHANGED vars
  PROVE  Inv'
<1>1. tree' = tree /\ model' = model /\ call' = call /\ answer' = answer /\ kept' = kept /\ ref' = ref
  BY DEF vars
<1>2. Sound(tree, model)' /\ MapInv'
  BY <1>1, UnchangedSound
<1>3. CallInv'
  BY <1>1 DEF Inv, CallInv
<1>4. Target' = Target
  BY <1>1 DEF Target
<1>5. RetryInv'
  BY <1>1, <1>4 DEF Inv, RetryInv
<1>6. Stored' = Stored
  BY <1>1 DEF Stored
<1>7. ScanInv'
  BY <1>1, <1>6 DEF Inv, ScanInv
<1> QED
  BY <1>2, <1>3, <1>5, <1>7 DEF Inv

\* The tree of Nali::Init.
LEMMA InitSound ==
  ASSUME NEW m \in Keys \cup {0}, NEW e, e = [key |-> 0, b |-> [kv |-> <<>>, slot |-> 0]],
         NEW T, T = << [pbs |-> << <<e>> >>, next |-> 1, min |-> m] >>,
         NEW M, M = [k \in Keys |-> 1]
  PROVE  Sound(T, M) /\ \A k : Absent(T, k)
<1>1. <<>> \in Seq(Records)
  OBVIOUS
<1>2. PICK b : b = [kv |-> <<>>, slot |-> 0]
  OBVIOUS
<1>3. b \in Buckets
  BY <1>1, <1>2 DEF Buckets
<1>4. e = [key |-> 0, b |-> b]
  BY <1>2
<1>5. e \in EntrySet /\ e.key = 0 /\ e.b = b
  BY <1>3, <1>4 DEF EntrySet
<1>6. PICK pb : pb = <<e>>
  OBVIOUS
<1>7. pb \in Seq(EntrySet) /\ Len(pb) = 1 /\ pb[1] = e
  BY <1>5, <1>6
<1>8. PICK ps : ps = <<pb>>
  OBVIOUS
<1>9. ps \in Seq(Seq(EntrySet)) /\ Len(ps) = 1 /\ ps[1] = pb
  BY <1>7, <1>8
<1>10. PICK g : g = [pbs |-> ps, next |-> 1, min |-> m]
  OBVIOUS
<1>11. g \in GroupSet /\ g.pbs = ps /\ g.next = 1
  BY <1>9, <1>10 DEF GroupSet
<1>12. T = <<g>>
  BY <1>6, <1>8, <1>10
<1>13. T \in Seq(GroupSet) /\ Len(T) = 1 /\ T[1] = g
  BY <1>11, <1>12
<1>14. \A q : q \in Places(T) <=> q = <<1, 1, 1>>
  <2>2. \A x : x \in 1..1 <=> x = 1
    OBVIOUS
  <2>1. \A h, p, i : IsPlace(T, h, p, i) <=> h = 1 /\ p = 1 /\ i = 1
    BY <2>2, <1>7, <1>9, <1>11, <1>13, Zenon DEF IsPlace
  <2> QED
    BY <2>1, PlaceFact
<1>15. At(T, <<1, 1, 1>>) = e
  BY <1>7, <1>9, <1>11, <1>13, PlaceFact
<1>16. b.kv = <<>> /\ b.slot = 0 /\ Len(b.kv) = 0
  BY <1>2
<1>17. Held(b) = {0}
  BY <1>16 DEF Held
<1>18. ~Before(<<1, 1, 1>>, <<1, 1, 1>>)
  BY DEF Before
<1>19. First(T, <<1, 1, 1>>)
  BY <1>14, <1>18 DEF First
<1>20. Formed(T)
  <2>1. PlacesIn(T, 1) = {<<1, 1, 1>>}
    BY <1>14 DEF PlacesIn
  <2>2. Cardinality(PlacesIn(T, 1)) = 1
    BY <2>1, FS_Singleton
  <2>3. BucketCap >= 0 /\ 1 \in 1..PbCount
    BY ConstantFacts
  <2>4. \A q \in Places(T) : Len(At(T, q).b.kv) <= BucketCap
    BY <2>3, <1>5, <1>14, <1>15, <1>16
  <2>5. ASSUME NEW h \in 1..Len(T)
        PROVE  /\ T[h].next = Cardinality(PlacesIn(T, h))
               /\ \A p \in 1..Len(T[h].pbs) : Len(T[h].pbs[p]) \in 1..PbCount
    <3>1. h = 1
      BY <1>13
    <3>2. \A p \in 1..Len(g.pbs) : p = 1
      <4>1. \A x : x \in 1..1 => x = 1
        OBVIOUS
      <4> QED
        BY <4>1, <1>9, <1>11, Zenon
    <3> QED
      BY <3>1, <3>2, <2>2, <2>3, <1>7, <1>9, <1>11, <1>13
  <2> QED
    BY <2>4, <2>5, <1>13, <1>14 DEF Formed
<1>21. Sorted(T)
  <2>1. \A q, r \in Places(T) : ~Before(q, r)
    BY <1>14, <1>18
  <2>2. \A q \in Places(T) : At(T, q).key = 0 /\ Held(At(T, q).b) = {0}
    BY <1>5, <1>14, <1>15, <1>17
  <2>3. \A x \in {0} : 0 <= x
    OBVIOUS
  <2>4. ASSUME NEW q \in Places(T), NEW x \in Held(At(T, q).b) PROVE At(T, q).key <= x
    <3>1. At(T, q).key = 0 /\ x \in {0}
      BY <2>2, Zenon
    <3> QED
      BY <3>1
  <2> QED
    BY <2>1, <2>4, Zenon DEF Sorted
<1>22. Keyed(T)
  BY <1>14, <1>19, SMTT(60) DEF Keyed
<1>23. Routed(T, M)
  BY <1>14, <1>19 DEF Routed
<1>24. M \in Monotone(Len(T))
  <2>1. M \in [Keys -> 1..1] /\ \A j, k \in Keys : j <= k => M[j] <= M[k]
    OBVIOUS
  <2> QED
    BY <2>1, <1>13 DEF Monotone
<1>25. ASSUME NEW k PROVE Absent(T, k)
  <2>1. \A q \in Places(T) : Len(At(T, q).b.kv) = 0
    BY <1>5, <1>14, <1>15, <1>16
  <2> QED
    BY <2>1 DEF Absent, IsRecord
<1> QED
  BY <1>20, <1>21, <1>22, <1>23, <1>24, <1>25 DEF Sound

\* A finite set of numbers has a bound.
LEMMA FiniteBound ==
  ASSUME NEW S \in SUBSET Nat, IsFiniteSet(S)
  PROVE  \E n \in Nat : \A s \in S : s <= n
<1>9. PICK n \in Nat : ExistsBijection(1..n, S)
  BY FS_CardinalityType
<1>1. PICK f : f \in Bijection(1..n, S)
  BY <1>9 DEF ExistsBijection
<1>2. f \in [1..n -> S] /\ \A s \in S : \E i \in 1..n : f[i] = s
  BY <1>1 DEF Bijection, Injection, Surjection
<1>3. \A i \in 1..n : f[i] \in Nat
  BY <1>2
<1>4. PICK Z : Z = {i \in 0..n : \E b \in Nat : \A j \in 1..i : f[j] <= b}
  OBVIOUS
<1>5. 0 \in Z
  BY <1>4
<1>6. ASSUME NEW i \in (0 + 1)..n, i - 1 \in Z PROVE i \in Z
  <2>1. PICK b \in Nat : \A j \in 1..(i - 1) : f[j] <= b
    BY <1>4, <1>6
  <2>2. i \in 1..n /\ i \in 0..n /\ f[i] \in Nat /\ b + f[i] \in Nat
    BY <2>1, <1>3
  <2>3. \A j \in 1..i : j = i \/ j \in 1..(i - 1)
    BY <2>2
  <2>4. \A j \in 1..i : f[j] <= b + f[i]
    <3> SUFFICES ASSUME NEW j \in 1..i PROVE f[j] <= b + f[i]
      OBVIOUS
    <3>1. f[j] \in Nat
      BY <2>2, <1>3
    <3> QED
      BY <3>1, <2>1, <2>2, <2>3
  <2> QED
    BY <2>2, <2>4, <1>4
<1>7. \A i \in 0..n : i \in Z
  BY <1>5, <1>6, Stepwise
<1>8. PICK b \in Nat : \A j \in 1..n : f[j] <= b
  BY <1>4, <1>7
<1> QED
  BY <1>2, <1>8

\* The invariant holds in the tree of Nali::Init.
LEMMA InitInv ==
  ASSUME Init
  PROVE  Inv
<1>1. PICK m \in {0, Max(Keys)} :
         tree = << [pbs |-> << <<[key |-> 0, b |-> [kv |-> <<>>, slot |-> 0]]>> >>, next |-> 1, min |-> m] >>
  BY DEF Init
<1>2. m \in Keys \cup {0}
  <2>1. Max(Keys) \in Keys
    <3>1. Keys \in SUBSET Nat /\ Keys # {} /\ IsFiniteSet(Keys)
      BY ConstantFacts
    <3>2. PICK n \in Nat : \A s \in Keys : s <= n
      BY <3>1, FiniteBound
    <3> QED
      BY <3>1, <3>2, GreatestFact
  <2> QED
    BY <2>1
<1>3. PICK e : e = [key |-> 0, b |-> [kv |-> <<>>, slot |-> 0]]
  OBVIOUS
<1>4. tree = << [pbs |-> << <<e>> >>, next |-> 1, min |-> m] >>
  BY <1>1, <1>3
<1>5. Sound(tree, model) /\ \A k : Absent(tree, k)
  <2>1. model = [k \in Keys |-> 1]
    BY DEF Init
  <2> QED
    BY <2>1, <1>2, <1>3, <1>4, InitSound
<1>6. MapInv
  <2>1. ref = [k \in Keys |-> None]
    BY DEF Init
  <2>2. ASSUME NEW k \in Keys PROVE Holds(tree, k, ref[k], k \in kept)
    <3>1. ref[k] = None
      BY <2>1
    <3> QED
      BY <3>1, <1>5, ConstantFacts DEF Holds
  <2>3. ref \in [Keys -> Values \cup {None, Unknown}]
    BY <2>1
  <2> QED
    BY <2>2, <2>3 DEF MapInv
<1>7. CallInv /\ RetryInv
  BY NoCallFact DEF Init
<1>8. ScanInv
  BY DEF Init, ScanInv
<1> QED
  BY <1>5, <1>6, <1>7, <1>8 DEF Inv

----------------------------------------------------------------------------
(* Scans.                                                                  *)

\* An accumulator of a scan for n records of R.
Scans(R, n) == {a \in [out : Seq(R), left : Nat, stuck : BOOLEAN] : Len(a.out) + a.left = n}

\* Records are taken, no more than are left to take.
LEMMA TakeFact ==
  ASSUME NEW R, NEW n, NEW a \in Scans(R, n), NEW w \in Seq(R), Len(w) <= a.left
  PROVE  Take(a, w) \in Scans(R, n)
<1>1. /\ a.out \in Seq(R) /\ a.left \in Nat /\ a.stuck \in BOOLEAN /\ Len(a.out) + a.left = n
      /\ a = [out |-> a.out, left |-> a.left, stuck |-> a.stuck]
  BY DEF Scans
<1>2. PICK o : o = a.out \o w
  OBVIOUS
<1>3. o \in Seq(R) /\ Len(o) = Len(a.out) + Len(w)
  BY <1>1, <1>2
<1>4. PICK l : l = a.left - Len(w)
  OBVIOUS
<1>5. l \in Nat /\ Len(o) + l = n
  BY <1>1, <1>3, <1>4
<1>6. Take(a, w) = [out |-> o, left |-> l, stuck |-> a.stuck]
  <2>1. PICK t : t = a.stuck
    OBVIOUS
  <2>2. Take(a, w) = [a EXCEPT !.out = o, !.left = l]
    BY <1>2, <1>4, Zenon DEF Take
  <2>3. a = [out |-> a.out, left |-> a.left, stuck |-> t]
    BY <1>1, <2>1
  <2>5. PICK x, y : x = a.out /\ y = a.left
    OBVIOUS
  <2>6. a = [out |-> x, left |-> y, stuck |-> t]
    BY <2>3, <2>5
  <2>4. [a EXCEPT !.out = o, !.left = l] = [out |-> o, left |-> l, stuck |-> t]
    <3>1. PICK d : d = [a EXCEPT !.out = o]
      OBVIOUS
    <3>2. d = [out |-> o, left |-> y, stuck |-> t]
      BY <3>1, <2>6
    <3>3. [d EXCEPT !.left = l] = [out |-> o, left |-> l, stuck |-> t]
      BY <3>2
    <3> QED
      BY <3>1, <3>3
  <2> QED
    BY <2>1, <2>2, <2>4
<1>7. [out |-> o, left |-> l, stuck |-> a.stuck] \in [out : Seq(R), left : Nat, stuck : BOOLEAN]
  BY <1>1, <1>3, <1>5
<1> QED
  BY <1>5, <1>6, <1>7 DEF Scans

\* The records of a bucket are among R.
Within(b, R) == b \in Buckets /\ \A j \in 1..Len(b.kv) : b.kv[j] \in R

\* A bucket behind the first gives its own records, no more than are left to take.
LEMMA ScanBucketLater ==
  ASSUME NEW R, NEW n, NEW a \in Scans(R, n), NEW b, Within(b, R)
  PROVE  ScanBucket(a, b, FALSE) \in Scans(R, n)
<1>1. a.left \in Nat
  BY DEF Scans
<1>2. PICK m \in Nat : m = Len(b.kv)
  BY BucketFact DEF Within
<1>3. PICK w : w = IF a.left >= m THEN b.kv ELSE [i \in 1..a.left |-> b.kv[1]]
  OBVIOUS
<1>4. w \in Seq(R) /\ Len(w) <= a.left
  <2>1. b.kv \in Seq(Records) /\ \A j \in 1..m : b.kv[j] \in R
    BY <1>2, BucketFact DEF Within
  <2>2. b.kv \in Seq(R)
    BY <2>1, <1>2
  <2>3. CASE a.left >= m
    BY <2>2, <2>3, <1>1, <1>2, <1>3
  <2>4. CASE ~(a.left >= m)
    <3>1. b.kv[1] \in R
      BY <2>1, <2>4, <1>1
    <3>2. w \in [1..a.left -> R]
      BY <2>4, <3>1, <1>3
    <3>3. w \in Seq(R) /\ Len(w) = a.left
      BY <3>2, <1>1
    <3> QED
      BY <3>3, <1>1
  <2> QED
    BY <2>3, <2>4
<1>5. ScanBucket(a, b, FALSE) = Take(a, w)
  BY <1>2, <1>3 DEF ScanBucket
<1> QED
  BY <1>4, <1>5, TakeFact

\* So does the first, wherever its smallest key lies.
LEMMA ScanBucketFirst ==
  ASSUME NEW R, NEW n, NEW a \in Scans(R, n), NEW b, Within(b, R)
  PROVE  ScanBucket(a, b, TRUE) \in Scans(R, n)
<1>1. PICK l \in Nat : l = a.left
  BY DEF Scans
<1>2. PICK m \in Nat : m = Len(b.kv)
  BY BucketFact DEF Within
<1>3. CASE m = 0
  BY <1>2, <1>3 DEF ScanBucket
<1>4. CASE m # 0
  <2>1. PICK s : s = SortedIndex(b)
    OBVIOUS
  <2>2. s \in [1..m -> 1..m]
    BY <2>1, <1>2, SortedIndexFact DEF Sorts, Within
  <2>3. PICK r : r = SortedRecords(b)
    OBVIOUS
  <2>4. r = [i \in 1..m |-> b.kv[s[i]]]
    BY <2>1, <2>3, <1>2 DEF SortedRecords
  <2>5. \A i \in 1..m : r[i] \in R
    BY <2>2, <2>4, <1>2 DEF Within
  <2>6. PICK x \in 1..m : x = s[1]
    BY <2>2, <1>4
  <2>7. x \in Nat /\ x >= 1 /\ x <= m /\ x - 1 + l \in Nat
    BY <2>6
  <2>8. PICK z : z = Min({m, x - 1 + l})
    OBVIOUS
  <2>9. z \in {m, x - 1 + l} /\ z <= m /\ z <= x - 1 + l
    <3>1. PICK S : S = {m, x - 1 + l}
      OBVIOUS
    <3>2. S \in SUBSET Nat /\ S # {} /\ m \in S /\ x - 1 + l \in S
      BY <3>1, <2>7
    <3>3. Min(S) \in S /\ \A y \in S : Min(S) <= y
      BY <3>2, LeastFact
    <3> QED
      BY <3>1, <3>2, <3>3, <2>8
  <2>10. z \in Nat
    BY <2>7, <2>9
  <2>11. PICK w : w = SubSeq(r, x, z)
    OBVIOUS
  <2>12. w \in Seq(R) /\ Len(w) = IF x <= z THEN z - x + 1 ELSE 0
    <3>1. \A i \in x..z : r[i] \in R
      BY <2>5, <2>7, <2>9, <2>10
    <3> QED
      BY <3>1, <2>7, <2>10, <2>11, SubSeqProperties
  <2>13. Len(w) <= l
    BY <2>7, <2>9, <2>10, <2>12
  <2>14. ScanBucket(a, b, TRUE) = Take(a, w)
    BY <1>1, <1>2, <1>4, <2>1, <2>3, <2>6, <2>8, <2>11 DEF ScanBucket
  <2> QED
    BY <2>12, <2>13, <2>14, <1>1, TakeFact
<1> QED
  BY <1>3, <1>4

\* A PointerBEntry: its entries ascend, and their records are among R.
PbWithin(pb, R) ==
  /\ pb \in Seq(EntrySet) /\ Len(pb) >= 1 /\ \A i \in 1..Len(pb) : Within(pb[i].b, R)
  /\ \A i, j \in 1..Len(pb) : i < j => pb[i].key <= pb[j].key

\* What PointerBEntry::Scan does behind its first bucket.
Again(one, second) ==
  LET again[i \in 0..one.left] == IF i = 0 THEN one ELSE ScanBucket(again[i - 1], second, FALSE)
  IN again[one.left]

\* The loop over the second bucket takes its records again and again, but never too many.
LEMMA ScanPbRest ==
  ASSUME NEW R, NEW n, NEW one \in Scans(R, n), NEW pb, PbWithin(pb, R), Len(pb) >= 2,
         NEW second, second = pb[2].b
  PROVE  Again(one, second) \in Scans(R, n)
<1>1. PICK l \in Nat : l = one.left
  BY DEF Scans
<1>2. Within(second, R)
  BY DEF PbWithin
<1>3. PICK S : S = Scans(R, n)
  OBVIOUS
<1>4. PICK h : h = [p \in Nat \X S |-> ScanBucket(p[2], second, FALSE)]
  OBVIOUS
<1>5. \A a \in S : ScanBucket(a, second, FALSE) \in S
  BY <1>2, <1>3, ScanBucketLater
<1>6. h \in [Nat \X S -> S] /\ \A i \in Nat, a \in S : h[i, a] = ScanBucket(a, second, FALSE)
  BY <1>4, <1>5
<1>7. one \in S
  BY <1>3
<1>8. PICK f \in [0..l -> S] : IsLoop(f, 0, l, one, h)
  BY <1>6, <1>7, LoopDefined
<1>9. \A i \in 0..l : i # 0 => i \in Nat /\ i - 1 \in 0..l
  BY <1>1
<1>10. f = [i \in 0..l |-> IF i = 0 THEN one ELSE ScanBucket(f[i - 1], second, FALSE)]
  <2>1. f = [i \in 0..l |-> IF i = 0 THEN one ELSE h[i, f[i - 1]]]
    BY <1>8 DEF IsLoop
  <2>2. \A i \in 0..l : i # 0 => h[i, f[i - 1]] = ScanBucket(f[i - 1], second, FALSE)
    BY <1>6, <1>8, <1>9
  <2> QED
    BY <2>1, <2>2, Zenon
<1> DEFINE A == CHOOSE g : g = [i \in 0..one.left |-> IF i = 0 THEN one ELSE ScanBucket(g[i - 1], second, FALSE)]
<1>11. A = [i \in 0..one.left |-> IF i = 0 THEN one ELSE ScanBucket(A[i - 1], second, FALSE)]
  BY <1>1, <1>10
<1>19. Again(one, second) = A[one.left]
  BY DEF Again
<1> HIDE DEF A
<1>12. \A i \in 0..l : A[i] = IF i = 0 THEN one ELSE ScanBucket(A[i - 1], second, FALSE)
  BY <1>1, <1>11
<1>13. PICK Z : Z = {i \in 0..l : A[i] \in S}
  OBVIOUS
<1>14. 0 \in Z
  BY <1>7, <1>12, <1>13
<1>15. ASSUME NEW i \in (0 + 1)..l, i - 1 \in Z PROVE i \in Z
  <2>1. i \in 0..l /\ i # 0 /\ A[i - 1] \in S
    BY <1>13, <1>15
  <2> QED
    BY <2>1, <1>5, <1>12, <1>13
<1>18. \A i \in 0..l : i \in Z
  BY <1>14, <1>15, Stepwise
<1>16. l \in Z
  BY <1>18
<1>17. A[one.left] \in Scans(R, n)
  BY <1>1, <1>3, <1>13, <1>16
<1> QED
  BY <1>17, <1>19

\* Being stuck changes nothing of what was found.
LEMMA StuckFact ==
  ASSUME NEW R, NEW n, NEW a \in Scans(R, n), NEW t \in BOOLEAN
  PROVE  [a EXCEPT !.stuck = t] \in Scans(R, n) /\ [a EXCEPT !.stuck = t].out = a.out
<1>1. /\ a.out \in Seq(R) /\ a.left \in Nat /\ Len(a.out) + a.left = n
      /\ a \in [out : Seq(R), left : Nat, stuck : BOOLEAN]
  BY DEF Scans
<1>2. PICK d : d = [a EXCEPT !.stuck = t]
  OBVIOUS
<1>3. d \in [out : Seq(R), left : Nat, stuck : BOOLEAN] /\ d.out = a.out /\ d.left = a.left
  BY <1>1, <1>2
<1> QED
  BY <1>1, <1>2, <1>3 DEF Scans

\* PointerBEntry::Scan, from what its first bucket gives.
LEMMA ScanPbEnds ==
  ASSUME NEW R, NEW n, NEW acc \in Scans(R, n), NEW pb, PbWithin(pb, R), NEW start, NEW first, NEW one, one \in Scans(R, n),
         one = ScanBucket(acc, pb[IF first THEN 1 ELSE FindPos(pb, start)].b, first)
  PROVE  ScanPb(acc, pb, start, first) \in Scans(R, n)
<1> DEFINE o == ScanBucket(acc, pb[IF first THEN 1 ELSE FindPos(pb, start)].b, first)
           s == pb[2].b
           p == ScanPb(acc, pb, start, first)
<1>1. CASE o.left = 0 \/ Len(pb) < 2
  <2>1. p = o
    BY <1>1 DEF ScanPb
  <2> QED
    BY <2>1
<1>2. CASE ~(o.left = 0 \/ Len(pb) < 2) /\ s.kv = <<>>
  <2>1. p = [o EXCEPT !.stuck = TRUE]
    BY <1>2 DEF ScanPb
  <2>2. [one EXCEPT !.stuck = TRUE] \in Scans(R, n)
    BY StuckFact, Zenon
  <2> QED
    BY <2>1, <2>2
<1>3. CASE ~(o.left = 0 \/ Len(pb) < 2) /\ s.kv # <<>>
  <2>1. p = Again(o, s)
    BY <1>3 DEF ScanPb, Again
  <2>2. Len(pb) >= 2
    BY <1>3 DEF PbWithin
  <2>3. PICK z : z = s
    OBVIOUS
  <2>4. Again(one, z) \in Scans(R, n)
    BY <2>2, <2>3, ScanPbRest
  <2> QED
    BY <2>1, <2>3, <2>4
<1> QED
  BY <1>1, <1>2, <1>3

\* PointerBEntry::Scan returns its own records, no more than are left to take.
LEMMA ScanPbFact ==
  ASSUME NEW R, NEW n, NEW acc \in Scans(R, n), NEW pb, PbWithin(pb, R), NEW start \in Nat
  PROVE  ScanPb(acc, pb, start, TRUE) \in Scans(R, n) /\ ScanPb(acc, pb, start, FALSE) \in Scans(R, n)
<1>1. pb \in Seq(EntrySet) /\ Len(pb) >= 1
  BY DEF PbWithin
<1>2. \A i \in 1..Len(pb) : Within(pb[i].b, R)
  BY DEF PbWithin
<1>3. PICK i \in 1..Len(pb) : i = FindPos(pb, start)
  BY <1>1, FindPosFact DEF PbWithin
<1>4. 1 \in 1..Len(pb)
  BY <1>1
<1>5. ScanBucket(acc, pb[1].b, TRUE) \in Scans(R, n)
  BY <1>2, <1>4, ScanBucketFirst
<1>6. ScanBucket(acc, pb[FindPos(pb, start)].b, FALSE) \in Scans(R, n)
  BY <1>2, <1>3, ScanBucketLater
<1>7. ScanPb(acc, pb, start, TRUE) \in Scans(R, n)
  <2>1. ScanBucket(acc, pb[IF TRUE THEN 1 ELSE FindPos(pb, start)].b, TRUE) = ScanBucket(acc, pb[1].b, TRUE)
    OBVIOUS
  <2> QED
    BY <2>1, <1>5, ScanPbEnds
<1>8. ScanPb(acc, pb, start, FALSE) \in Scans(R, n)
  <2>1. ScanBucket(acc, pb[IF FALSE THEN 1 ELSE FindPos(pb, start)].b, FALSE) = ScanBucket(acc, pb[FindPos(pb, start)].b, FALSE)
    OBVIOUS
  <2> QED
    BY <2>1, <1>6, ScanPbEnds
<1> QED
  BY <1>7, <1>8

\* The loop of a group over its PointerBEntrys.
GroupLoop(acc, g, start, first, from) ==
  LET upto[i \in (from - 1)..Len(g.pbs)] ==
        IF i = from - 1 THEN acc
        ELSE IF GoesOn(upto[i - 1]) THEN ScanPb(upto[i - 1], g.pbs[i], start, first /\ i = 1)
        ELSE upto[i - 1]
  IN upto[Len(g.pbs)]

GroupWithin(g, R) == Len(g.pbs) \in Nat /\ \A p \in 1..Len(g.pbs) : PbWithin(g.pbs[p], R)

\* The loop of a group, from any PointerBEntry on.
LEMMA GroupLoopFact ==
  ASSUME NEW R, NEW n, NEW acc \in Scans(R, n), NEW g, GroupWithin(g, R), NEW start \in Nat, NEW first \in BOOLEAN,
         NEW from \in 1..(Len(g.pbs) + 1)
  PROVE  GroupLoop(acc, g, start, first, from) \in Scans(R, n)
<1>1. PICK l \in Nat : l = Len(g.pbs)
  BY DEF GroupWithin
<1>2. PICK m \in Nat : m = from - 1 /\ m <= l
  BY <1>1
<1>3. PICK S : S = Scans(R, n)
  OBVIOUS
<1> DEFINE Y(i, a) == ScanPb(a, g.pbs[i], start, first /\ i = 1)
<1>4. ASSUME NEW i \in 1..l, NEW a \in S PROVE Y(i, a) \in S
  <2>1. PbWithin(g.pbs[i], R)
    BY <1>1 DEF GroupWithin
  <2>2. ScanPb(a, g.pbs[i], start, TRUE) \in S /\ ScanPb(a, g.pbs[i], start, FALSE) \in S
    BY <2>1, <1>3, ScanPbFact
  <2>3. CASE first /\ i = 1
    <3>1. (first /\ i = 1) = TRUE
      BY <2>3, Zenon
    <3>2. Y(i, a) = ScanPb(a, g.pbs[i], start, TRUE)
      BY <3>1, Zenon
    <3> QED
      BY <3>2, <2>2, Zenon
  <2>4. CASE ~(first /\ i = 1)
    <3>1. (first /\ i = 1) = FALSE
      BY <2>4, Zenon
    <3>2. Y(i, a) = ScanPb(a, g.pbs[i], start, FALSE)
      BY <3>1, Zenon
    <3> QED
      BY <3>2, <2>2, Zenon
  <2> QED
    BY <2>3, <2>4
<1> DEFINE B(i, a) == IF GoesOn(a) THEN Y(i, a) ELSE a
           A == CHOOSE u : u = [i \in (from - 1)..Len(g.pbs) |-> IF i = from - 1 THEN acc ELSE B(i, u[i - 1])]
<1>5. GroupLoop(acc, g, start, first, from) = A[Len(g.pbs)]
  BY DEF GroupLoop
<1> HIDE DEF Y
<1>6. \A i \in 1..l, a \in S : B(i, a) \in S
  BY <1>4
<1> HIDE DEF B
<1>7. PICK h : h = [p \in Nat \X S |-> IF p[1] \in 1..l THEN B(p[1], p[2]) ELSE p[2]]
  OBVIOUS
<1>8. h \in [Nat \X S -> S] /\ \A i \in 1..l, a \in S : h[i, a] = B(i, a)
  <2> DEFINE C(i, a) == IF i \in 1..l THEN B(i, a) ELSE a
  <2>1. \A i \in Nat, a \in S : C(i, a) \in S
    BY <1>6
  <2>2. h = [p \in Nat \X S |-> C(p[1], p[2])]
    BY <1>7
  <2>3. \A i \in 1..l, a \in S : C(i, a) = B(i, a) /\ i \in Nat
    OBVIOUS
  <2> HIDE DEF C
  <2>4. h \in [Nat \X S -> S] /\ \A i \in Nat, a \in S : h[i, a] = C(i, a)
    BY <2>1, <2>2
  <2> QED
    BY <2>3, <2>4
<1>9. acc \in S
  BY <1>3
<1>10. PICK f \in [m..l -> S] : IsLoop(f, m, l, acc, h)
  BY <1>8, <1>9, LoopDefined
<1>11. \A i \in m..l : i # m => i \in 1..l /\ i - 1 \in m..l
  OBVIOUS
<1>12. f = [i \in m..l |-> IF i = m THEN acc ELSE B(i, f[i - 1])]
  <2>1. f = [i \in m..l |-> IF i = m THEN acc ELSE h[i, f[i - 1]]]
    BY <1>10 DEF IsLoop
  <2>2. \A i \in m..l : i # m => h[i, f[i - 1]] = B(i, f[i - 1])
    BY <1>8, <1>10, <1>11
  <2> QED
    BY <2>1, <2>2, Zenon
<1>13. A = [i \in (from - 1)..Len(g.pbs) |-> IF i = from - 1 THEN acc ELSE B(i, A[i - 1])]
  BY <1>1, <1>2, <1>12, ZenonT(60)
<1> HIDE DEF A
<1>14. \A i \in m..l : A[i] = IF i = m THEN acc ELSE B(i, A[i - 1])
  BY <1>1, <1>2, <1>13
<1>15. PICK Z : Z = {i \in m..l : A[i] \in S}
  OBVIOUS
<1>16. m \in Z
  <2>1. m \in m..l
    BY <1>2
  <2> QED
    BY <2>1, <1>9, <1>14, <1>15
<1>17. ASSUME NEW i \in (m + 1)..l, i - 1 \in Z PROVE i \in Z
  <2>1. i \in m..l /\ i # m /\ A[i - 1] \in S
    BY <1>15, <1>17
  <2>2. i \in 1..l
    BY <2>1, <1>11
  <2>3. B(i, A[i - 1]) \in S
    BY <2>1, <2>2, <1>6
  <2> QED
    BY <2>1, <2>3, <1>14, <1>15
<1>18. \A i \in m..l : i \in Z
  BY <1>16, <1>17, Stepwise
<1>19. A[l] \in S
  BY <1>2, <1>15, <1>18
<1> QED
  BY <1>1, <1>3, <1>5, <1>19

\* The scan of a group returns its records, no more than are left to take.
LEMMA ScanGroupFact ==
  ASSUME NEW R, NEW n, NEW acc \in Scans(R, n), NEW g, GroupWithin(g, R), NEW start \in Nat, g.pbs # <<>>, g.pbs \in Seq(Seq(EntrySet))
  PROVE  ScanGroup(acc, g, start, TRUE) \in Scans(R, n) /\ ScanGroup(acc, g, start, FALSE) \in Scans(R, n)
<1>1. PICK l \in Nat : l = Len(g.pbs) /\ l >= 1
  OBVIOUS
<1>2. \A p \in 1..l : g.pbs[p][1].key \in Nat
  <2> SUFFICES ASSUME NEW p \in 1..l PROVE g.pbs[p][1].key \in Nat
    OBVIOUS
  <2>1. PICK pb : pb = g.pbs[p] /\ pb \in Seq(EntrySet) /\ Len(pb) >= 1
    BY <1>1 DEF GroupWithin, PbWithin
  <2>2. pb[1] \in EntrySet
    BY <2>1
  <2>3. pb[1].key \in Keys \cup {0}
    BY <2>2 DEF EntrySet
  <2> QED
    BY <2>1, <2>3, KeyFact
<1>3. FindEntry(g, start) \in 1..(l + 1)
  BY <1>1, <1>2, FindEntryFact
<1>4. 1 \in 1..(l + 1)
  BY <1>1
<1>5. GroupLoop(acc, g, start, TRUE, 1) \in Scans(R, n)
  <2>1. TRUE \in BOOLEAN /\ 1 \in 1..(Len(g.pbs) + 1)
    BY <1>1, <1>4
  <2> QED
    BY <2>1, GroupLoopFact, Zenon
<1>6. GroupLoop(acc, g, start, FALSE, FindEntry(g, start)) \in Scans(R, n)
  <2>1. FALSE \in BOOLEAN /\ FindEntry(g, start) \in 1..(Len(g.pbs) + 1)
    BY <1>1, <1>3
  <2> QED
    BY <2>1, GroupLoopFact, Zenon
<1>7. ScanGroup(acc, g, start, TRUE) = GroupLoop(acc, g, start, TRUE, 1)
  BY DEF ScanGroup, GroupLoop
<1>8. ScanGroup(acc, g, start, FALSE) = GroupLoop(acc, g, start, FALSE, FindEntry(g, start))
  BY DEF ScanGroup, GroupLoop
<1> QED
  BY <1>5, <1>6, <1>7, <1>8

\* The loop of a scan over the groups.
TreeLoop(from, start, len) ==
  LET upto[g \in from..Len(tree)] ==
        IF g = from THEN ScanGroup([out |-> <<>>, left |-> len, stuck |-> FALSE], tree[g], start, TRUE)
        ELSE IF GoesOn(upto[g - 1]) /\ tree[g].pbs # <<>> THEN ScanGroup(upto[g - 1], tree[g], start, FALSE)
        ELSE upto[g - 1]
  IN upto[Len(tree)]

\* The loop over the groups, from any group on that has entries.
LEMMA TreeLoopFact ==
  ASSUME NEW R, NEW len \in Nat, NEW start \in Nat, tree \in Seq(GroupSet),
         \A g \in 1..Len(tree) : GroupWithin(tree[g], R), NEW from \in 1..Len(tree), tree[from].pbs # <<>>
  PROVE  TreeLoop(from, start, len) \in Scans(R, len)
<1>1. PICK l \in Nat : l = Len(tree)
  BY GroupFact
<1>2. from \in Nat /\ from <= l
  BY <1>1
<1>3. PICK S : S = Scans(R, len)
  OBVIOUS
<1>4. PICK z : z = [out |-> <<>>, left |-> len, stuck |-> FALSE]
  OBVIOUS
<1>5. z \in S
  <2>1. z.out = <<>> /\ z.left = len /\ z \in [out : Seq(R), left : Nat, stuck : BOOLEAN]
    BY <1>4
  <2> QED
    BY <2>1, <1>3 DEF Scans
<1>6. ASSUME NEW g \in 1..l, NEW a \in S, tree[g].pbs # <<>>
      PROVE  ScanGroup(a, tree[g], start, TRUE) \in S /\ ScanGroup(a, tree[g], start, FALSE) \in S
  <2>1. tree[g].pbs \in Seq(Seq(EntrySet)) /\ GroupWithin(tree[g], R)
    BY <1>1, GroupFact
  <2> QED
    BY <2>1, <1>3, <1>6, ScanGroupFact
<1> DEFINE Z(g) == ScanGroup([out |-> <<>>, left |-> len, stuck |-> FALSE], tree[g], start, TRUE)
           B(g, a) == IF GoesOn(a) /\ tree[g].pbs # <<>> THEN ScanGroup(a, tree[g], start, FALSE) ELSE a
           A == CHOOSE u : u = [g \in from..Len(tree) |-> IF g = from THEN Z(g) ELSE B(g, u[g - 1])]
<1>7. TreeLoop(from, start, len) = A[Len(tree)]
  BY DEF TreeLoop
<1>8. \A g \in 1..l, a \in S : B(g, a) \in S
  BY <1>6
<1>9. Z(from) \in S
  BY <1>1, <1>4, <1>5, <1>6
<1> HIDE DEF B, Z
<1> DEFINE C(i, a) == IF i \in 1..l THEN B(i, a) ELSE a
<1>10. \A i \in Nat, a \in S : C(i, a) \in S
  BY <1>8
<1>11. \A i \in 1..l, a \in S : C(i, a) = B(i, a) /\ i \in Nat
  OBVIOUS
<1> HIDE DEF C
<1>12. PICK h : h = [p \in Nat \X S |-> C(p[1], p[2])]
  OBVIOUS
<1>13. h \in [Nat \X S -> S] /\ \A i \in Nat, a \in S : h[i, a] = C(i, a)
  BY <1>10, <1>12
<1>14. PICK f \in [from..l -> S] : IsLoop(f, from, l, Z(from), h)
  BY <1>2, <1>9, <1>13, LoopDefined
<1>15. \A i \in from..l : i # from => i \in 1..l /\ i - 1 \in from..l
  BY <1>2
<1>16. f = [g \in from..l |-> IF g = from THEN Z(g) ELSE B(g, f[g - 1])]
  <2>1. f = [g \in from..l |-> IF g = from THEN Z(from) ELSE h[g, f[g - 1]]]
    BY <1>14 DEF IsLoop
  <2>2. \A i \in from..l : i # from => h[i, f[i - 1]] = B(i, f[i - 1])
    BY <1>11, <1>13, <1>14, <1>15, ZenonT(60)
  <2> QED
    BY <2>1, <2>2, Zenon
<1>17. A = [g \in from..Len(tree) |-> IF g = from THEN Z(g) ELSE B(g, A[g - 1])]
  BY <1>1, <1>16
<1> HIDE DEF A
<1>18. \A i \in from..l : A[i] = IF i = from THEN Z(i) ELSE B(i, A[i - 1])
  BY <1>1, <1>17
<1>19. PICK W : W = {i \in from..l : A[i] \in S}
  OBVIOUS
<1>20. from \in W
  <2>1. from \in from..l
    BY <1>2
  <2>2. A[from] = Z(from)
    BY <2>1, <1>18
  <2> QED
    BY <2>1, <2>2, <1>9, <1>19
<1>21. ASSUME NEW i \in (from + 1)..l, i - 1 \in W PROVE i \in W
  <2>1. i \in from..l /\ i # from
    BY <1>2
  <2>4. A[i - 1] \in S
    BY <1>19, <1>21
  <2>2. i \in 1..l
    BY <2>1, <1>15
  <2>3. B(i, A[i - 1]) \in S
    BY <2>2, <2>4, <1>8
  <2> QED
    BY <2>1, <2>3, <1>18, <1>19
<1>22. \A i \in from..l : i \in W
  BY <1>2, <1>20, <1>21, Stepwise
<1>23. A[l] \in S
  BY <1>2, <1>19, <1>22
<1> QED
  BY <1>1, <1>3, <1>7, <1>23

\* The records of the tree are in its PointerBEntrys.
LEMMA StoredWithin ==
  ASSUME tree \in Seq(GroupSet), Formed(tree), Sorted(tree), NEW g \in 1..Len(tree)
  PROVE  GroupWithin(tree[g], Stored)
<1>1. Len(tree[g].pbs) \in Nat
  BY GroupFact
<1>2. ASSUME NEW p \in 1..Len(tree[g].pbs) PROVE PbWithin(tree[g].pbs[p], Stored)
  <2>1. PICK pb : pb = tree[g].pbs[p]
    OBVIOUS
  <2>2. pb \in Seq(EntrySet) /\ Len(pb) >= 1 /\ \A i, j \in 1..Len(pb) : i < j => pb[i].key <= pb[j].key
    BY <2>1, GroupFact, KeysAscend
  <2>3. ASSUME NEW i \in 1..Len(pb) PROVE Within(pb[i].b, Stored)
    <3>1. PICK q : q = <<g, p, i>>
      OBVIOUS
    <3>2. q \in Places(tree) /\ At(tree, q) = pb[i]
      BY <3>1, <2>1, PlaceFact DEF IsPlace
    <3>3. At(tree, q).b \in Buckets
      BY <3>2, AtFact
    <3>4. \A j \in 1..Len(At(tree, q).b.kv) : At(tree, q).b.kv[j] \in Stored
      BY <3>2 DEF Stored
    <3> QED
      BY <3>2, <3>3, <3>4 DEF Within
  <2> QED
    BY <2>1, <2>2, <2>3 DEF PbWithin
<1> QED
  BY <1>1, <1>2 DEF GroupWithin

\* A scan that scan_fast or scan_slow starts returns records of the tree, no more than asked for.
LEMMA ScanTreeFact ==
  ASSUME Sound(tree, model), NEW k \in Keys, NEW len \in Nat
  PROVE  /\ ScanTree(k, len).out \in Seq(Stored) /\ Len(ScanTree(k, len).out) <= len
<1>1. tree \in Seq(GroupSet) /\ Formed(tree) /\ Sorted(tree) /\ k \in Nat
  BY KeyFact DEF Sound, Formed
<1>2. PICK from : from = IF model[k] # 1 /\ FastAsks(k) THEN model[k] ELSE FindGroup(k)
  OBVIOUS
<1>3. from \in 1..Len(tree) /\ tree[from].pbs # <<>>
  <2>1. CASE model[k] # 1 /\ FastAsks(k)
    <3>1. model[k] \in 1..Len(tree)
      BY DEF Sound, Monotone
    <3> QED
      BY <2>1, <3>1, <1>2 DEF FastAsks
  <2>2. CASE ~(model[k] # 1 /\ FastAsks(k))
    <3>1. Fits(tree, model, FindGroup(k), k)
      BY <1>1, FindGroupFits
    <3> QED
      BY <2>2, <3>1, <1>2 DEF Fits
  <2> QED
    BY <2>1, <2>2
<1>4. TreeLoop(from, k, len) \in Scans(Stored, len)
  BY <1>1, <1>3, StoredWithin, TreeLoopFact
<1> DEFINE f == IF model[k] # 1 /\ FastAsks(k) THEN model[k] ELSE FindGroup(k)
           acc == TreeLoop(f, k, len)
           t == acc.stuck \/ (acc.left > 0 /\ Last(tree).pbs = <<>>)
<1>5. ScanTree(k, len) = [acc EXCEPT !.stuck = t]
  BY DEF ScanTree, TreeLoop
<1>6. acc \in Scans(Stored, len)
  BY <1>2, <1>4
<1> HIDE DEF acc
<1>7. t \in BOOLEAN
  BY Zenon
<1> HIDE DEF t
<1>8. ScanTree(k, len) \in Scans(Stored, len)
  <2>1. PICK a : a = acc
    OBVIOUS
  <2>2. PICK w : w = t
    OBVIOUS
  <2>3. a \in Scans(Stored, len) /\ w \in BOOLEAN
    BY <2>1, <2>2, <1>6, <1>7, Zenon
  <2>4. [a EXCEPT !.stuck = w] \in Scans(Stored, len)
    BY <2>3, StuckFact, Zenon
  <2> QED
    BY <2>1, <2>2, <2>4, <1>5, Zenon
<1> QED
  BY <1>8 DEF Scans

\* Scan keeps the invariant.
LEMMA ScanStep ==
  ASSUME Inv, NEW k \in Keys, NEW len \in 1..Cardinality(Keys), Scan(k, len)
  PROVE  Inv'
<1>1. PICK o : o = ScanTree(k, len).out
  OBVIOUS
<1>2. call = NoCall /\ call' = call /\ answer' = <<"scan", k, len, o>> /\ tree' = tree
  BY <1>1 DEF Scan, Asked
<1>3. Sound(tree, model)' /\ MapInv'
  BY UnchangedSound DEF Scan
<1>4. (CallInv /\ RetryInv)'
  BY <1>2 DEF CallInv, RetryInv, NoCall
<1>5. len \in Nat
  BY ConstantFacts, FS_CardinalityType
<1>6. o \in Seq(Stored) /\ Len(o) <= len
  BY <1>1, <1>5, ScanTreeFact DEF Inv
<1>7. ScanInv'
  <2>1. Stored' = Stored
    BY <1>2 DEF Stored
  <2>2. answer'[3] = len /\ answer'[4] = o
    BY <1>2
  <2>3. \A i \in 1..Len(o) : o[i] \in Stored
    BY <1>6
  <2> QED
    BY <2>1, <2>2, <2>3, <1>6 DEF ScanInv
<1> QED
  BY <1>3, <1>4, <1>7 DEF Inv

----------------------------------------------------------------------------
(* The theorems.                                                           *)

\* Every step keeps the invariant.
LEMMA NextInv ==
  ASSUME Inv, [Next]_vars
  PROVE  Inv'
<1>1. ASSUME NEW k \in Keys, Get(k) PROVE Inv'
  BY <1>1, GetStep
<1>2. ASSUME NEW k \in Keys, Delete(k) PROVE Inv'
  BY <1>2, DeleteStep
<1>3. ASSUME NEW k \in Keys, NEW v \in Values, Put(k, v) PROVE Inv'
  BY <1>3, PutStep
<1>4. ASSUME NEW k \in Keys, NEW v \in Values, Update(k, v) PROVE Inv'
  BY <1>4, UpdateStep
<1>5. ASSUME NEW k \in Keys, NEW n \in 1..Cardinality(Keys), Scan(k, n) PROVE Inv'
  BY <1>5, ScanStep
<1>6. CASE PutSteps
  BY <1>6, RoomStep, SplitStep, ExpandStep, ExpandTreeStep, RetryStep DEF PutSteps
<1>7. CASE UNCHANGED vars
  BY <1>7, StutterStep
<1> QED
  BY <1>1, <1>2, <1>3, <1>4, <1>5, <1>6, <1>7 DEF Next

\* The invariant of the tree, the model and the Put under way (nali.h:832-1208).
THEOREM TreeInvariant == Spec => []Inv
<1>1. Init => Inv
  BY InitInv
<1>2. Inv /\ [Next]_vars => Inv'
  BY NextInv
<1> QED
  BY <1>1, <1>2, PTL DEF Spec

\* Through every Put, split, expansion and rebuilding the entry keys ascend, so that find_entry's
\* search is right, and next_entry_count is the number of entries (nali.h:228-281, 393-413).
THEOREM GroupsStayInOrder == Spec => []GroupsInOrder
<1>1. Inv => GroupsInOrder
  BY DEF Inv, Sound, Formed, Sorted, GroupsInOrder
<1> QED
  BY <1>1, TreeInvariant, PTL

\* A Put is retried at most twice, once after an expansion and once after a split, however
\* many duplicates a bucket holds and whatever the models predict (nali.h:300-324, 832-861).
THEOREM RetriesAreBounded == Spec => []RetriesEnd
<1>1. Inv => RetriesEnd
  BY DEF Inv, RetryInv, RetriesEnd
<1> QED
  BY <1>1, TreeInvariant, PTL

\* A scan returns at most as many records as asked for, and each is in the tree
\* (nali.h:891-901, nali_entry.h:1065-1111).
THEOREM ScansReturnStored == Spec => []ScanReturnsStored
<1>1. Inv => ScanReturnsStored
  BY DEF Inv, ScanInv, ScanReturnsStored
<1> QED
  BY <1>1, TreeInvariant, PTL

\* What a lookup answers.
LEMMA LookupFact ==
  ASSUME Inv, NEW k \in Keys
  PROVE  /\ Lookup(k) \in Values \cup {None} /\ GroupGet(FindGroup(k), k) \in Values \cup {None}
         /\ ref[k] # Unknown => Lookup(k) = ref[k] /\ GroupGet(FindGroup(k), k) = ref[k]
         /\ ref[k] = Unknown /\ k \in kept => Lookup(k) # None
<1>1. tree \in Seq(GroupSet) /\ Sound(tree, model) /\ MapInv
  BY DEF Inv, Sound, Formed
<1>2. PICK x \in Values \cup {None, Unknown} : x = ref[k]
  BY <1>1 DEF MapInv
<1>3. Holds(tree, k, x, k \in kept)
  BY <1>1, <1>2 DEF MapInv
<1>4. Answers(GroupGet(FindGroup(k), k), x, k \in kept) /\ Answers(Lookup(k), x, k \in kept)
  BY <1>1, <1>3, LookupAnswers
<1> QED
  BY <1>2, <1>4 DEF Answers

\* The tree holds what a map would, for every number of groups, entries and records, every
\* monotone model and every min_key, fast path or not (nali.h:832-1208, nali_entry.h:1013-1027).
THEOREM TreeHoldsMap == Spec => []TreeIsMap
<1>1. Inv => TreeIsMap
  BY LookupFact DEF TreeIsMap
<1> QED
  BY <1>1, TreeInvariant, PTL

----------------------------------------------------------------------------
(* The tree implements IndexMap.                                           *)

Report == IF answer[1] = "scan" THEN <<"scan", answer[4]>> ELSE answer

\* Get is a search.
LEMMA GetSearches ==
  ASSUME Inv, NEW k \in Keys, Get(k)
  PROVE  Index!search(k)
<1>1. PICK y : y = Lookup(k)
  OBVIOUS
<1>2. answer' = <<"get", k, y>> /\ ref' = ref
  BY <1>1 DEF Get
<1>3. Report' = answer'
  BY <1>2 DEF Report
<1>4. y \in Values \cup {None} /\ (ref[k] # Unknown => y = ref[k])
  BY <1>1, LookupFact
<1> QED
  BY <1>2, <1>3, <1>4 DEF Index!search, Index!May, Report

\* Update reports what it replaces.
LEMMA UpdateUpdates ==
  ASSUME Inv, NEW k \in Keys, NEW v \in Values, Update(k, v)
  PROVE  Index!update(k, v)
<1>1. PICK y : y = GroupGet(FindGroup(k), k)
  OBVIOUS
<1>2. answer' = <<"update", k, y>> /\ ref' = [ref EXCEPT ![k] = IF @ \in Values THEN v ELSE @]
  BY <1>1 DEF Update, GroupGet
<1>3. Report' = answer'
  BY <1>2 DEF Report
<1>4. y \in Values \cup {None} /\ (ref[k] # Unknown => y = ref[k])
  BY <1>1, LookupFact
<1> QED
  BY <1>2, <1>3, <1>4 DEF Index!update, Index!May, Report

\* Delete reports what it removes.
LEMMA DeleteErases ==
  ASSUME Inv, NEW k \in Keys, Delete(k)
  PROVE  Index!erase(k)
<1>1. PICK y : y = GroupGet(FindGroup(k), k)
  OBVIOUS
<1>2. answer' = <<"delete", k, y>> /\ ref' = [ref EXCEPT ![k] = IF @ \in Values THEN None ELSE @]
  BY <1>1 DEF Delete, GroupGet
<1>3. Report' = answer'
  BY <1>2 DEF Report
<1>4. y \in Values \cup {None} /\ (ref[k] # Unknown => y = ref[k])
  BY <1>1, LookupFact
<1> QED
  BY <1>2, <1>3, <1>4 DEF Index!erase, Index!May, Report

\* The last step of a Put inserts.
LEMMA RoomInserts ==
  ASSUME Inv, PutRoom
  PROVE  \E k \in Keys : \E v \in Values : Index!insert(k, v)
<1>1. /\ answer' = <<"put", call.k>> /\ call.g # 0
      /\ ref' = [ref EXCEPT ![call.k] = IF @ = None THEN call.v ELSE Unknown]
  BY ZenonT(60) DEF PutRoom
<1>2. call.k \in Keys /\ call.v \in Values
  BY <1>1, CallFact DEF Inv
<1>3. Report' = answer'
  BY <1>1 DEF Report
<1>4. Index!insert(call.k, call.v)
  BY <1>1, <1>3 DEF Index!insert, Report
<1> QED
  BY <1>2, <1>4, SMTT(60)

\* A scan changes nothing.
LEMMA ScanScans ==
  ASSUME NEW k, NEW n, Scan(k, n)
  PROVE  Report'[1] = "scan" /\ Index!range_scan(Report'[2])
<1>1. PICK o : o = ScanTree(k, n).out
  OBVIOUS
<1>2. answer' = <<"scan", k, n, o>> /\ ref' = ref
  BY <1>1 DEF Scan
<1>3. Report' = <<"scan", o>>
  BY <1>2 DEF Report
<1> QED
  BY <1>2, <1>3 DEF Index!range_scan, Report

\* Every step is one of the map, or changes nothing there.
LEMMA IndexStep ==
  ASSUME Inv, [Next]_vars
  PROVE  [Index!Next]_(Index!vars)
<1>1. ASSUME NEW k \in Keys, Get(k) PROVE Index!Next
  BY <1>1, GetSearches DEF Index!Next
<1>2. ASSUME NEW k \in Keys, Delete(k) PROVE Index!Next
  BY <1>2, DeleteErases DEF Index!Next
<1>3. ASSUME NEW k \in Keys, NEW v \in Values, Update(k, v) PROVE Index!Next
  BY <1>3, UpdateUpdates DEF Index!Next
<1>4. ASSUME NEW k \in Keys, NEW n \in 1..Cardinality(Keys), Scan(k, n) PROVE Index!Next
  BY <1>4, ScanScans DEF Index!Next, Report
<1>5. ASSUME PutRoom PROVE Index!Next
  BY <1>5, RoomInserts DEF Index!Next
<1>6. ASSUME UNCHANGED <<answer, ref>> PROVE UNCHANGED Index!vars
  BY <1>6 DEF Index!vars
<1>7. ASSUME NEW k \in Keys, NEW v \in Values, Put(k, v) PROVE UNCHANGED <<answer, ref>>
  BY <1>7, SMTT(60) DEF Put
<1>8. ASSUME PutSplit \/ GroupExpand \/ ExpandTree \/ PutRetry PROVE UNCHANGED <<answer, ref>>
  BY <1>8 DEF PutSplit, GroupExpand, ExpandTree, PutRetry
<1>9. ASSUME UNCHANGED vars PROVE UNCHANGED <<answer, ref>>
  BY <1>9 DEF vars
<1> QED
  BY <1>1, <1>2, <1>3, <1>4, <1>5, <1>6, <1>7, <1>8, <1>9 DEF Next, PutSteps

\* The Nali index implements the map that logdb relies on: the calls answer as its
\* operations do, and the retries of a Put are invisible (nali.h:832-917).
THEOREM TreeImplementsIndexMap == Spec => ImplementsIndexMap
<1>1. Init => Index!Init
  BY DEF Init, Index!Init
<1>2. Inv /\ [Next]_vars => [Index!Next]_(Index!vars)
  BY IndexStep
<1> QED
  BY <1>1, <1>2, TreeInvariant, PTL DEF Spec, ImplementsIndexMap, Index!Spec
=============================================================================
