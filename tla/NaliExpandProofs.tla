-------------------------- MODULE NaliExpandProofs --------------------------
(***************************************************************************)
(* For any number of threads, keys, groups and calls: one thread at a time *)
(* rebuilds the tree, whatever the operations do meanwhile; and as long as *)
(* no operation has strayed, ExpandTree has reserved the room that it uses *)
(* and the keys whose Put returned are found.                              *)
(***************************************************************************)
EXTENDS NaliExpand, FiniteSetTheorems, SequenceTheorems, WellFoundedInduction, TLAPS

Rebuilding == ExpandSteps \ {"notify"}

\* The state of a thread has the fields it began with.
Fields == {"pc", "op", "key", "gid", "gv", "lv", "wv", "pos", "nb", "ret"}

Shape ==
  /\ DOMAIN th = Threads /\ th = [t \in Threads |-> th[t]]
  /\ \A t \in Threads : DOMAIN th[t] = Fields /\ th[t] = [f \in Fields |-> th[t][f]]

\* The flag is set as long as somebody rebuilds, and that is one thread.
Inv == Shape /\ flag \in BOOLEAN /\ OneExpander

----------------------------------------------------------------------------
\* What a step does to the threads: one of them goes on, and it does not begin
\* to rebuild while the flag is set.
Moves(t) ==
  /\ DOMAIN th' = Threads /\ th' = [u \in Threads |-> th'[u]]
  /\ \A u \in Threads : DOMAIN th'[u] = Fields /\ th'[u] = [f \in Fields |-> th'[u][f]]
  /\ \A u \in Threads \ {t} : th'[u] = th[u]
  /\ t \in Threads

\* A thread that moves to a place outside ExpandTree leaves the claim true.
LEMMA MovesOutside ==
  ASSUME NEW t \in Threads, Inv, Moves(t), UNCHANGED flag,
         th'[t].pc \in Rebuilding => th[t].pc \in Rebuilding
  PROVE  Inv'
BY DEF Inv, Shape, Moves, OneExpander, Rebuilding

\* A new value of a field, and a new record, keep the shape of the threads.
LEMMA GoMoves ==
  ASSUME NEW t \in Threads, Shape, NEW p, Go(t, p)
  PROVE  Moves(t) /\ th'[t].pc = p
BY DEF Shape, Go, Moves, Fields

\* A thread that touches freed memory stops, outside ExpandTree.
LEMMA WildInv == ASSUME NEW t \in Threads, Inv, Wild(t) PROVE Inv'
<1>1. Moves(t) /\ th'[t].pc = "wild"
  BY GoMoves DEF Wild, Inv
<1> QED BY <1>1, MovesOutside DEF Wild, Rebuilding, ExpandSteps

\* The state of a thread that is set anew.
LEMMA SetMoves ==
  ASSUME NEW t \in Threads, Shape, NEW rec, DOMAIN rec = Fields,
         rec = [f \in Fields |-> rec[f]], th' = [th EXCEPT ![t] = rec]
  PROVE  Moves(t) /\ th'[t] = rec
BY DEF Shape, Moves

\* A thread between calls.
LEMMA IdleShape == DOMAIN Idle = Fields /\ Idle = [f \in Fields |-> Idle[f]] /\ Idle.pc = "idle"
BY DEF Idle, Fields

\* A call begins outside ExpandTree.
LEMMA StartInv == ASSUME NEW t \in Threads, NEW o, NEW k, Inv, Start(t, o, k) PROVE Inv'
<1> DEFINE rec == [Idle EXCEPT !.pc = Entry, !.op = o, !.key = k]
<1>1. DOMAIN rec = Fields /\ rec = [f \in Fields |-> rec[f]] /\ rec.pc = Entry
  BY IdleShape DEF Fields
<1>2. th' = [th EXCEPT ![t] = rec] /\ UNCHANGED flag
  BY DEF Start
<1> HIDE DEF rec
<1>3. Moves(t) /\ th'[t].pc = Entry
  BY <1>1, <1>2, SetMoves DEF Inv
<1> QED BY <1>2, <1>3, MovesOutside DEF Entry, Rebuilding, ExpandSteps

\* The steps that only move on: trans_begin and the publication of the locks.
LEMMA GoInv ==
  ASSUME NEW t \in Threads, NEW p, Inv, Go(t, p), UNCHANGED flag,
         p \in Rebuilding => th[t].pc \in Rebuilding
  PROVE  Inv'
BY GoMoves, MovesOutside DEF Inv

\* find_group, and the two ways of Get.
LEMMA LookupInv ==
  ASSUME NEW t \in Threads, Inv, Find(t) \/ Get(t) \/ GetSlow(t)
  PROVE  Inv'
<1>1. CASE Wild(t)
  BY <1>1, WildInv
<1>2. ASSUME Find(t), ~Wild(t) PROVE Inv'
  <2> DEFINE g == FindGroup(space[gs], model, th[t].key)
  <2>1. th' = [th EXCEPT ![t].gid = g, ![t].gv = gs, ![t].pc = "lock"] /\ UNCHANGED flag
    BY <1>2 DEF Find
  <2> HIDE DEF g
  <2>2. Moves(t) /\ th'[t].pc = "lock"
    BY <2>1 DEF Inv, Shape, Moves, Fields
  <2> QED BY <2>1, <2>2, MovesOutside DEF Rebuilding, ExpandSteps
<1>3. ASSUME Get(t), ~Wild(t) PROVE Inv'
  <2> DEFINE slow == [th[t] EXCEPT !.pc = "slow"]
  <2>1. DOMAIN slow = Fields /\ slow = [f \in Fields |-> slow[f]] /\ slow.pc = "slow"
    BY DEF Inv, Shape, Fields
  <2>2. UNCHANGED flag /\ (th' = [th EXCEPT ![t] = Idle] \/ th' = [th EXCEPT ![t] = slow])
    BY <1>3 DEF Get
  <2> HIDE DEF slow
  <2>3. Moves(t) /\ th'[t].pc \in {"idle", "slow"}
    BY <2>1, <2>2, SetMoves, IdleShape DEF Inv
  <2> QED BY <2>2, <2>3, MovesOutside DEF Rebuilding, ExpandSteps
<1>4. ASSUME GetSlow(t), ~Wild(t) PROVE Inv'
  <2>1. UNCHANGED flag /\ th' = [th EXCEPT ![t] = Idle]
    BY <1>4 DEF GetSlow
  <2>2. Moves(t) /\ th'[t].pc = "idle"
    BY <2>1, SetMoves, IdleShape DEF Inv
  <2> QED BY <2>1, <2>2, MovesOutside DEF Rebuilding, ExpandSteps
<1> QED BY <1>1, <1>2, <1>3, <1>4

\* The group's lock and the second look at the flag.
LEMMA LockInv ==
  ASSUME NEW t \in Threads, Inv, LockPointer(t) \/ Lock(t) \/ Check(t)
  PROVE  Inv'
<1>1. CASE Wild(t)
  BY <1>1, WildInv
<1>2. ASSUME LockPointer(t) PROVE Inv'
  <2>1. Moves(t) /\ th'[t].pc = "spin" /\ UNCHANGED flag
    BY <1>2 DEF LockPointer, Inv, Shape, Moves, Fields
  <2> QED BY <2>1, MovesOutside DEF Rebuilding, ExpandSteps
<1>3. ASSUME Lock(t), ~Wild(t) PROVE Inv'
  <2>1. (Go(t, "check") \/ Go(t, "work")) /\ UNCHANGED flag
    BY <1>3 DEF Lock
  <2> QED BY <2>1, GoInv DEF Rebuilding, ExpandSteps
<1>4. ASSUME Check(t) PROVE Inv'
  <2>1. Moves(t) /\ th'[t].pc \in {"unlock", "work"} /\ UNCHANGED flag
    BY <1>4 DEF Check, Inv, Shape, Moves, Fields
  <2> QED BY <2>1, MovesOutside DEF Rebuilding, ExpandSteps
<1> QED BY <1>1, <1>2, <1>3, <1>4

\* What is done inside a group.
LEMMA WorkInv ==
  ASSUME NEW t \in Threads, Inv, Put(t) \/ Link(t) \/ UpdateDelete(t)
  PROVE  Inv'
<1>1. CASE Wild(t)
  BY <1>1, WildInv
<1>2. ASSUME PutRoom(t) \/ PutFull(t) PROVE Inv'
  <2>1. UNCHANGED flag /\ \/ th' = [th EXCEPT ![t].pc = "unlock", ![t].ret = "ok"]
                          \/ th' = [th EXCEPT ![t].pc = "unlock", ![t].ret = "full", ![t].wv = 0]
    BY <1>2 DEF PutRoom, PutFull
  <2>2. Moves(t) /\ th'[t].pc = "unlock"
    BY <2>1 DEF Inv, Shape, Moves, Fields
  <2> QED BY <2>1, <2>2, MovesOutside DEF Rebuilding, ExpandSteps
<1>3. ASSUME PutSplit(t) PROVE Inv'
  <2>1. Moves(t) /\ th'[t].pc = "link" /\ UNCHANGED flag
    BY <1>3 DEF PutSplit, Inv, Shape, Moves, Fields
  <2> QED BY <2>1, MovesOutside DEF Rebuilding, ExpandSteps
<1>4. ASSUME Link(t), ~Wild(t) PROVE Inv'
  <2>1. Go(t, "work") /\ UNCHANGED flag
    BY <1>4 DEF Link
  <2> QED BY <2>1, GoInv DEF Rebuilding, ExpandSteps
<1>5. ASSUME UpdateDelete(t), ~Wild(t) PROVE Inv'
  <2>1. Moves(t) /\ th'[t].pc = "unlock" /\ UNCHANGED flag
    BY <1>5 DEF UpdateDelete, Inv, Shape, Moves, Fields
  <2> QED BY <2>1, MovesOutside DEF Rebuilding, ExpandSteps
<1> QED BY <1>1, <1>2, <1>3, <1>4, <1>5 DEF Put

\* A call ends, begins anew, or goes on to expand the tree.
LEMMA UnlockInv == ASSUME NEW t \in Threads, Inv, Unlock(t) PROVE Inv'
<1>1. CASE Wild(t)
  BY <1>1, WildInv
<1>2. ASSUME ~Wild(t) PROVE Inv'
  <2> DEFINE expand == [th[t] EXCEPT !.pc = "expand"]
             begin == [th[t] EXCEPT !.pc = "begin"]
  <2>1. /\ DOMAIN expand = Fields /\ expand = [f \in Fields |-> expand[f]] /\ expand.pc = "expand"
        /\ DOMAIN begin = Fields /\ begin = [f \in Fields |-> begin[f]] /\ begin.pc = "begin"
    BY DEF Inv, Shape, Fields
  <2>2. UNCHANGED flag /\ \/ th' = [th EXCEPT ![t] = Idle]
                          \/ th' = [th EXCEPT ![t] = expand]
                          \/ th' = [th EXCEPT ![t] = begin]
    BY <1>2 DEF Unlock
  <2> HIDE DEF expand, begin
  <2>3. Moves(t) /\ th'[t].pc \in {"idle", "expand", "begin"}
    BY <2>1, <2>2, SetMoves, IdleShape DEF Inv
  <2> QED BY <2>2, <2>3, MovesOutside DEF Rebuilding, ExpandSteps
<1> QED BY <1>1, <1>2

\* The compare_exchange: when it succeeds nobody else rebuilds.
LEMMA EnterInv == ASSUME NEW t \in Threads, Inv, ExpandEnter(t) PROVE Inv'
<1>1. flag' = TRUE /\ Go(t, IF flag THEN "begin" ELSE "train")
  BY DEF ExpandEnter
<1>2. Moves(t) /\ th'[t].pc = IF flag THEN "begin" ELSE "train"
  BY <1>1, GoMoves DEF Inv
<1>3. CASE flag
  BY <1>1, <1>2, <1>3 DEF Inv, Shape, Moves, OneExpander, ExpandSteps
<1>4. CASE ~flag
  <2>1. \A u \in Threads : th[u].pc \notin Rebuilding
    BY <1>4 DEF Inv, OneExpander, Rebuilding
  <2> QED BY <1>1, <1>2, <2>1 DEF Inv, Shape, Moves, OneExpander, Rebuilding
<1> QED BY <1>3, <1>4 DEF Inv

\* The steps between the entry of ExpandTree and its end.
LEMMA RebuildInv ==
  ASSUME NEW t \in Threads, Inv,
         \/ ExpandTrain(t) \/ ExpandCount(t) \/ ExpandCopy(t) \/ ExpandFree(t)
         \/ ExpandPublishGroups(t) \/ ExpandPublishLocks(t)
  PROVE  Inv'
<1>1. UNCHANGED flag /\ th[t].pc \in Rebuilding
  BY DEF ExpandTrain, ExpandCount, ExpandCopy, ExpandFree, ExpandPublishGroups,
         ExpandPublishLocks, Rebuilding, ExpandSteps
<1>2. UNCHANGED th \/ \E p \in {"count", "copy", "free", "groups", "locks", "clear"} : Go(t, p)
  BY DEF ExpandTrain, ExpandCount, ExpandCopy, ExpandFree, ExpandPublishGroups,
         ExpandPublishLocks
<1>3. CASE UNCHANGED th
  BY <1>1, <1>3 DEF Inv, Shape, OneExpander
<1> QED BY <1>1, <1>2, <1>3, GoInv

\* The flag is cleared by the one thread that rebuilds, which then is done.
LEMMA ClearInv == ASSUME NEW t \in Threads, Inv, ExpandClear(t) PROVE Inv'
<1>1. Moves(t) /\ th'[t].pc = "notify" /\ flag' = FALSE
  BY GoMoves DEF ExpandClear, Inv
<1>2. \A u \in Threads \ {t} : th[u].pc \notin Rebuilding
  BY DEF ExpandClear, Inv, OneExpander, Rebuilding, ExpandSteps
<1> QED BY <1>1, <1>2 DEF Inv, Shape, Moves, OneExpander, Rebuilding

\* notify_all sends threads back to their operations.
LEMMA NotifyInv == ASSUME NEW t \in Threads, Inv, ExpandNotify(t) PROVE Inv'
<1>1. UNCHANGED flag /\ DOMAIN th' = Threads /\ th' = [u \in Threads |-> th'[u]]
  BY DEF ExpandNotify
<1>2. ASSUME NEW u \in Threads
      PROVE  /\ DOMAIN th'[u] = Fields /\ th'[u] = [f \in Fields |-> th'[u][f]]
             /\ th'[u] = th[u] \/ th'[u].pc \in {"find", "begin"}
  <2>1. th'[u] \in {th[u], [th[u] EXCEPT !.pc = "find"], [th[u] EXCEPT !.pc = "begin"]}
    BY DEF ExpandNotify
  <2>2. DOMAIN th[u] = Fields /\ th[u] = [f \in Fields |-> th[u][f]]
    BY DEF Inv, Shape
  <2> QED BY <2>1, <2>2 DEF Fields
<1>3. \A u \in Threads : th'[u].pc \in Rebuilding => th[u].pc \in Rebuilding
  BY <1>2 DEF Rebuilding, ExpandSteps
<1> QED BY <1>1, <1>2, <1>3 DEF Inv, Shape, OneExpander, Rebuilding

\* Every step keeps it so.
LEMMA InvStep == ASSUME Inv, [Next]_vars PROVE Inv'
<1>1. CASE UNCHANGED vars
  BY <1>1 DEF vars, Inv, Shape, OneExpander
<1>2. ASSUME NEW t \in Threads, NEW c \in Calls, Start(t, c[1], c[2]) PROVE Inv'
  BY <1>2, StartInv
<1>3. ASSUME NEW t \in Threads, Operation(t) PROVE Inv'
  <2>1. ASSUME Retry(t) \/ Block(t) PROVE Inv'
    <3>1. UNCHANGED flag /\ (Go(t, "block") \/ Go(t, "find") \/ Go(t, "wait"))
      BY <2>1 DEF Retry, Block, Entry
    <3> QED BY <3>1, GoInv DEF Rebuilding, ExpandSteps
  <2> QED BY <1>3, <2>1, LookupInv, LockInv, WorkInv, UnlockInv DEF Operation
<1>4. ASSUME NEW t \in Threads, ExpandTree(t) PROVE Inv'
  BY <1>4, EnterInv, RebuildInv, ClearInv, NotifyInv DEF ExpandTree
<1>5. ASSUME NEW t \in Threads, SpuriousWake(t) PROVE Inv'
  BY <1>5, GoInv DEF SpuriousWake, Rebuilding, ExpandSteps
<1> QED BY <1>1, <1>2, <1>3, <1>4, <1>5 DEF Next

\* It is so at the beginning.
LEMMA InvInit == Init => Inv
<1> SUFFICES ASSUME Init PROVE Inv
    OBVIOUS
<1>1. th = [t \in Threads |-> Idle] /\ flag = FALSE
  BY DEF Init
<1>2. \A t \in Threads : th[t] = Idle /\ th[t].pc = "idle"
  BY <1>1, IdleShape
<1>3. Shape
  BY <1>1, <1>2, IdleShape DEF Shape
<1>4. OneExpander
  BY <1>2 DEF OneExpander, ExpandSteps
<1> QED BY <1>1, <1>3, <1>4 DEF Inv

\* At most one thread is between the compare_exchange of ExpandTree and the
\* store that clears is_tree_expand, and the flag is set all the while.
THEOREM ExpandTreeAlone == Spec => []OneExpander
<1>1. Inv /\ [Next]_vars => Inv'
  BY InvStep
<1>2. Inv => OneExpander
  BY DEF Inv
<1> QED BY <1>1, <1>2, InvInit, PTL DEF Spec
----------------------------------------------------------------------------
(* Numbers and sets of numbers.                                            *)

Entries == [low : Keys, b : Nat]
Groups == Seq(Seq(Entries))

\* What the assumptions say of the constants.
LEMMA ConstantFacts ==
  /\ \A k \in Keys : k \in Nat /\ k # 0
  /\ Keys \subseteq Nat
  /\ BucketCap \in Nat /\ BucketCap >= 2 /\ MaxEntries \in Nat /\ MinEntries \in Nat \ {0}
BY NaliExpandAssumption

\* min_key of a bucket that is not empty is one of its keys.
LEMMA LeastFact ==
  ASSUME NEW S \in SUBSET Nat, S # {}
  PROVE  Least(S) \in S /\ \A y \in S : Least(S) <= y
<1>1. PICK x \in S : \A y \in S : ~(<<y, x>> \in OpToRel(<, Nat))
  BY NatLessThanWellFounded, WFMin, Zenon
<1>2. \A y \in S : ~(y < x)
  BY <1>1, Zenon DEF OpToRel
<1>3. \E z \in S : \A y \in S : z <= y
  BY <1>2
<1> QED
  BY <1>3 DEF Least

\* A bounded set of numbers has a greatest one.
LEMMA GreatestFact ==
  ASSUME NEW S \in SUBSET Nat, S # {}, NEW n \in Nat, \A s \in S : s <= n
  PROVE  \E x \in S : \A y \in S : y <= x
<1> DEFINE T == {m \in Nat : \A s \in S : s <= m}
<1>1. T \in SUBSET Nat /\ n \in T
  OBVIOUS
<1>2. PICK m \in T : \A y \in T : m <= y
  BY <1>1, LeastFact
<1>3. m \in S
  <2> SUFFICES ASSUME m \notin S PROVE FALSE
    OBVIOUS
  <2>1. \A s \in S : s \in Nat /\ s <= m /\ s # m
    BY <1>2
  <2>2. m \in Nat /\ \E s \in S : TRUE
    BY <1>2
  <2>4. m # 0 /\ \A s \in S : s <= m - 1
    BY <2>1, <2>2
  <2>3. m - 1 \in T
    BY <2>2, <2>4
  <2> QED
    BY <1>2, <2>2, <2>3
<1> QED
  BY <1>2, <1>3

\* Division is monotonic.
LEMMA DivMonotonic ==
  ASSUME NEW a \in Nat, NEW b \in Nat, a <= b, NEW p \in Nat \ {0}
  PROVE  a \div p \in Nat /\ a \div p <= b \div p
<1>2. /\ a \div p \in Int /\ b \div p \in Int
      /\ p * (a \div p) <= a /\ a < p * (a \div p) + p
      /\ p * (b \div p) <= b /\ b < p * (b \div p) + p
  OBVIOUS
<1>3. PICK x \in Int, y \in Int : x = a \div p /\ y = b \div p
  BY <1>2
<1>4. x >= 0
  <2> SUFFICES ASSUME x + 1 <= 0 PROVE FALSE
    OBVIOUS
  <2>1. p * (x + 1) <= 0
    OBVIOUS
  <2> QED
    BY <1>2, <1>3, <2>1
<1>5. x <= y
  <2> SUFFICES ASSUME y + 1 <= x PROVE FALSE
    OBVIOUS
  <2>1. p * (y + 1) <= p * x
    OBVIOUS
  <2> QED
    BY <1>2, <1>3, <2>1
<1> QED
  BY <1>3, <1>4, <1>5

\* A set of numbers has a lower part of every size.
LEMMA LowerPart ==
  ASSUME NEW S \in SUBSET Nat, IsFiniteSet(S), NEW n \in Nat, n <= Cardinality(S)
  PROVE  \E w \in SUBSET S : Cardinality(w) = n /\ \A x \in S \ w, y \in w : y < x
<1> DEFINE Lower(w, j) == Cardinality(w) = j /\ \A x \in S \ w, y \in w : y < x
           T == {j \in Nat : j <= Cardinality(S) /\ ~\E w \in SUBSET S : Lower(w, j)}
<1>1. Cardinality(S) \in Nat
  BY FS_CardinalityType
<1>2. SUFFICES ASSUME T # {} PROVE FALSE
  <2> HIDE DEF Lower
  <2>1. n \notin T
    BY <1>2
  <2>2. \E w \in SUBSET S : Lower(w, n)
    BY <2>1
  <2> QED
    BY <2>2 DEF Lower
<1>3. PICK j \in T : \A i \in T : j <= i
  BY <1>2, LeastFact
<1>4. j # 0
  <2>1. Lower({}, 0)
    BY FS_EmptySet
  <2> QED
    BY <1>3, <2>1
<1>5. j - 1 \in Nat /\ j - 1 \notin T /\ j - 1 <= Cardinality(S)
  BY <1>1, <1>3, <1>4
<1>6. PICK w \in SUBSET S : Lower(w, j - 1)
  BY <1>5
<1>13. j \in Nat /\ j <= Cardinality(S) /\ Cardinality(w) = j - 1
  BY <1>3, <1>6
<1>7. S \ w # {}
  <2> SUFFICES ASSUME S \ w = {} PROVE FALSE
    OBVIOUS
  <2>1. w = S
    OBVIOUS
  <2> QED
    BY <1>1, <1>13, <2>1
<1>8. PICK z \in S \ w : \A y \in S \ w : z <= y
  BY <1>7, LeastFact
<1>9. IsFiniteSet(w)
  BY FS_Subset
<1>10. Cardinality(w \cup {z}) = j
  <2>1. Cardinality(w \cup {z}) = Cardinality(w) + 1
    BY <1>8, <1>9, FS_AddElement
  <2> QED
    BY <1>13, <2>1
<1>11. ASSUME NEW x \in S \ (w \cup {z}), NEW y \in w \cup {z}
       PROVE  y < x
  <2>1. x \in Nat /\ y \in Nat /\ z <= x /\ x # z
    BY <1>8, <1>11
  <2>2. CASE y = z
    BY <2>1, <2>2
  <2>3. CASE y \in w
    BY <1>6, <1>11, <2>3
  <2> QED
    BY <1>11, <2>2, <2>3
<1>12. Lower(w \cup {z}, j) /\ w \cup {z} \in SUBSET S
  BY <1>8, <1>10, <1>11
<1> QED
  BY <1>3, <1>12

\* Expand_ of a full bucket leaves something in it and moves something larger.
LEMMA UpperHalfFact ==
  ASSUME NEW S \in SUBSET Nat, IsFiniteSet(S), Cardinality(S) >= 2
  PROVE  LET u == UpperHalf(S) IN
         /\ u \subseteq S /\ u # {} /\ S \ u # {} /\ \A x \in u, y \in S \ u : y < x
<1> DEFINE c == Cardinality(S)  n == c \div 2
<1>1. c \in Nat /\ c >= 2
  BY FS_CardinalityType
<1> HIDE DEF c
<1>2. n \in Nat /\ n >= 1 /\ n < c
  BY <1>1
<1> HIDE DEF n
<1>3. PICK w \in SUBSET S : Cardinality(w) = n /\ \A x \in S \ w, y \in w : y < x
  <2>1. n \in Nat /\ n <= Cardinality(S)
    BY <1>1, <1>2 DEF c
  <2> QED
    BY <2>1, LowerPart
<1> DEFINE u == UpperHalf(S)
<1>4. IsFiniteSet(w) /\ S \cap w = w /\ S \ (S \ w) = w
  BY FS_Subset
<1>5. Cardinality(S \ w) = c - n
  BY <1>3, <1>4, FS_Difference DEF c
<1>6. \E v \in SUBSET S : Cardinality(v) = c - n /\ \A x \in v, y \in S \ v : y < x
  <2>1. \A x \in S \ w, y \in S \ (S \ w) : y < x
    BY <1>3, <1>4
  <2> QED
    BY <1>5, <2>1
<1>7. u \in SUBSET S /\ Cardinality(u) = c - n /\ \A x \in u, y \in S \ u : y < x
  BY <1>6 DEF UpperHalf, c, n
<1> HIDE DEF u
<1>8. u # {}
  BY <1>1, <1>2, <1>7, FS_EmptySet
<1>9. S \ u # {}
  <2> SUFFICES ASSUME S \ u = {} PROVE FALSE
    OBVIOUS
  <2>1. u = S
    BY <1>7
  <2> QED
    BY <1>1, <1>2, <1>7, <2>1 DEF c
<1> QED
  BY <1>7, <1>8, <1>9 DEF u

----------------------------------------------------------------------------
(* Routing.                                                                *)

\* The fields of the entries of a group.
LEMMA EntryFacts ==
  ASSUME NEW G \in Groups
  PROVE  /\ Len(G) \in Nat
         /\ \A g \in 1..Len(G) : G[g] \in Seq(Entries) /\ Len(G[g]) \in Nat
         /\ \A g \in 1..Len(G) : G[g] # <<>> => 1 \in 1..Len(G[g])
         /\ \A g \in 1..Len(G) : \A i \in 1..Len(G[g]) :
              /\ G[g][i] \in Entries /\ G[g][i].low \in Keys /\ G[g][i].low \in Nat /\ G[g][i].b \in Nat
              /\ G[g] # <<>>
<1>1. Len(G) \in Nat /\ \A g \in 1..Len(G) : G[g] \in Seq(Entries)
  BY DEF Groups
<1>2. ASSUME NEW g \in 1..Len(G)
      PROVE  /\ Len(G[g]) \in Nat
             /\ G[g] # <<>> => 1 \in 1..Len(G[g])
             /\ \A i \in 1..Len(G[g]) : G[g][i] \in Entries /\ G[g] # <<>>
  <2>1. G[g] \in Seq(Entries)
    BY <1>1
  <2> QED
    BY <2>1
<1>3. \A e \in Entries : e.low \in Keys /\ e.low \in Nat /\ e.b \in Nat
  BY ConstantFacts DEF Entries
<1> QED
  BY <1>1, <1>2, <1>3

\* The entry keys are those of the entries, and there are finitely many.
LEMMA EntryKeysFact ==
  ASSUME NEW G \in Groups
  PROVE  /\ \A x : x \in EntryKeys(G) <=> \E g \in 1..Len(G) : \E i \in 1..Len(G[g]) : x = G[g][i].low
         /\ EntryKeys(G) \subseteq Keys
         /\ IsFiniteSet(EntryKeys(G))
<1>1. \A x : x \in EntryKeys(G) <=> \E g \in 1..Len(G) : \E i \in 1..Len(G[g]) : x = G[g][i].low
  BY DEF EntryKeys
<1>2. EntryKeys(G) \subseteq Keys
  BY <1>1, EntryFacts
<1>3. ASSUME NEW g \in 1..Len(G)
      PROVE  IsFiniteSet({G[g][i].low : i \in 1..Len(G[g])})
  <2> DEFINE T == {G[g][i].low : i \in 1..Len(G[g])}
             f == [i \in 1..Len(G[g]) |-> G[g][i].low]
  <2>4. Len(G[g]) \in Nat
    BY EntryFacts
  <2>1. IsFiniteSet(1..Len(G[g]))
    BY <2>4, FS_Interval
  <2>2. f \in Surjection(1..Len(G[g]), T)
    BY DEF Surjection
  <2> HIDE DEF f, T
  <2>3. IsFiniteSet(T)
    BY <2>1, <2>2, FS_Surjection
  <2> QED
    BY <2>3 DEF T
<1>4. IsFiniteSet(EntryKeys(G))
  <2> DEFINE S == {{G[g][i].low : i \in 1..Len(G[g])} : g \in 1..Len(G)}
             f == [g \in 1..Len(G) |-> {G[g][i].low : i \in 1..Len(G[g])}]
  <2>6. Len(G) \in Nat
    BY EntryFacts
  <2>1. IsFiniteSet(1..Len(G))
    BY <2>6, FS_Interval
  <2>2. f \in Surjection(1..Len(G), S)
    BY DEF Surjection
  <2>3. \A T \in S : IsFiniteSet(T)
    BY <1>3
  <2>4. EntryKeys(G) = UNION S
    BY DEF EntryKeys
  <2> HIDE DEF f, S
  <2>5. IsFiniteSet(S)
    BY <2>1, <2>2, FS_Surjection
  <2> QED
    BY <2>3, <2>4, <2>5, FS_UNION
<1> QED
  BY <1>1, <1>2, <1>4

\* The model predicts a group, and no lower one for a larger key.
LEMMA PredictedFact ==
  ASSUME NEW M, IsFiniteSet(M), NEW k \in Nat, NEW l \in Nat, k <= l, M \subseteq Nat,
         NEW n \in Nat \ {0}
  PROVE  Predicted(M, k, n) \in 1..n /\ Predicted(M, k, n) <= Predicted(M, l, n)
<1> DEFINE A == {x \in M : x <= k}  B == {x \in M : x <= l}
<1>1. A \in SUBSET B /\ B \in SUBSET M
  <2>1. \A x \in A : x \in Nat /\ x <= l
    OBVIOUS
  <2> QED
    BY <2>1
<1>2. IsFiniteSet(B) /\ IsFiniteSet(A) /\ Cardinality(A) <= Cardinality(B)
  BY <1>1, FS_Subset
<1>3. Cardinality(A) \in Nat /\ Cardinality(B) \in Nat
  BY <1>2, FS_CardinalityType
<1>4. Rank(M, k) \in Nat /\ Rank(M, l) \in Nat /\ Rank(M, k) <= Rank(M, l)
  BY <1>2, <1>3 DEF Rank
<1>5. /\ Rank(M, k) \div MinEntries \in Nat /\ Rank(M, l) \div MinEntries \in Nat
      /\ Rank(M, k) \div MinEntries <= Rank(M, l) \div MinEntries
  BY <1>4, ConstantFacts, DivMonotonic
<1> QED
  BY <1>5 DEF Predicted

\* The prediction is a group.
LEMMA PredictedIn ==
  ASSUME NEW M \in SUBSET Nat, IsFiniteSet(M), NEW k \in Nat, NEW n \in Nat \ {0}
  PROVE  Predicted(M, k, n) \in 1..n /\ Predicted(M, k, n) \in Nat
<1>1. k <= k /\ M \subseteq Nat
  OBVIOUS
<1>2. Predicted(M, k, n) \in 1..n
  BY <1>1, PredictedFact
<1> QED
  BY <1>2

\* find_group finds a group with entries, whatever the model is: the last of those up
\* to the predicted one that begin at the key or below it, or the first of all.
LEMMA FindGroupFact ==
  ASSUME NEW G \in Groups, NEW M \in SUBSET Nat, IsFiniteSet(M), NEW k \in Nat,
         \E g \in 1..Len(G) : G[g] # <<>>
  PROVE  LET f == FindGroup(G, M, k) IN
         /\ f \in 1..Len(G) /\ G[f] # <<>>
         /\ FirstUsed(G, f) \/ G[f][1].low <= k
         /\ \A h \in 1..Predicted(M, k, Len(G)) : G[h] # <<>> /\ G[h][1].low <= k => h <= f
<1> DEFINE n == Len(G)  start == Predicted(M, k, n)
           Fits(g) == G[g] # <<>> /\ G[g][1].low <= k
           left == {g \in 1..start : g = 1 \/ Fits(g)}
<1>1. n \in Nat \ {0}
  BY EntryFacts
<1>2. start \in 1..n
  BY <1>1, PredictedIn
<1> HIDE DEF start
<1>3. \E s \in left : \A h \in left : h <= s
  <2>1. left \in SUBSET Nat /\ 1 \in left /\ \A s \in left : s <= n
    BY <1>1, <1>2
  <2> QED
    BY <1>1, <2>1, GreatestFact
<1> DEFINE stop == CHOOSE g \in left : \A h \in left : h <= g
<1>4. stop \in left /\ \A h \in left : h <= stop
  BY <1>3
<1> DEFINE f == CHOOSE g \in stop..n : G[g] # <<>> /\ \A h \in stop..(g - 1) : G[h] = <<>>
<1>5. f = FindGroup(G, M, k)
  BY DEF FindGroup, start
<1> HIDE DEF stop
<1>6. stop \in 1..start /\ stop \in 1..n
  BY <1>1, <1>2, <1>4
<1> DEFINE R == {g \in stop..n : G[g] # <<>>}
<1>7. R # {}
  <2>1. CASE G[stop] # <<>>
    BY <1>1, <1>6, <2>1
  <2>2. CASE G[stop] = <<>>
    BY <1>1, <1>4, <2>2
  <2> QED
    BY <2>1, <2>2
<1>14. R \in SUBSET Nat
  BY <1>1, <1>6
<1>8. PICK r \in R : \A g \in R : r <= g
  <2> HIDE DEF R
  <2> QED
    BY <1>7, <1>14, LeastFact
<1>9. \E g \in stop..n : G[g] # <<>> /\ \A h \in stop..(g - 1) : G[h] = <<>>
  <2>1. ASSUME NEW h \in stop..(r - 1) PROVE G[h] = <<>>
    BY <1>1, <1>6, <1>8, <2>1
  <2> QED
    BY <1>8, <2>1
<1>10. f \in stop..n /\ G[f] # <<>> /\ \A h \in stop..(f - 1) : G[h] = <<>>
  BY <1>9
<1> HIDE DEF f
<1>11. f \in 1..n
  BY <1>1, <1>6, <1>10
<1>12. CASE Fits(stop)
  <2>1. f = stop
    BY <1>1, <1>6, <1>10, <1>12
  <2>2. \A h \in 1..start : Fits(h) => h <= f
    BY <1>4, <2>1
  <2> QED
    BY <1>5, <1>10, <1>11, <1>12, <2>1, <2>2 DEF start
<1>13. CASE ~Fits(stop)
  <2>1. stop = 1
    BY <1>4, <1>13
  <2>2. FirstUsed(G, f)
    BY <1>10, <2>1 DEF FirstUsed
  <2>3. \A h \in 1..start : ~Fits(h)
    <3> SUFFICES ASSUME NEW h \in 1..start, Fits(h) PROVE FALSE
      OBVIOUS
    <3>1. h \in left
      OBVIOUS
    <3>2. h <= 1
      BY <1>4, <2>1, <3>1
    <3>3. h = 1
      BY <1>1, <1>2, <3>2
    <3> QED
      BY <1>13, <2>1, <3>3
  <2> QED
    BY <1>5, <1>10, <1>11, <2>2, <2>3 DEF start
<1> QED
  BY <1>12, <1>13

\* Key k is below the groups behind group g.
Under(G, k, g) == \A h \in 1..Len(G) : h > g /\ G[h] # <<>> => k < G[h][1].low

\* Group g is the one for key k.
Owns(G, k, g) ==
  /\ g \in 1..Len(G) /\ G[g] # <<>> /\ Under(G, k, g)
  /\ FirstUsed(G, g) \/ G[g][1].low <= k

\* In a tree the model is for, find_group finds the group of a key.
LEMMA FindGroupOwns ==
  ASSUME NEW G \in Groups, NEW M \in SUBSET Nat, IsFiniteSet(M), NEW k \in Nat,
         \E g \in 1..Len(G) : G[g] # <<>>, Routed(G, M)
  PROVE  Owns(G, k, FindGroup(G, M, k))
<1> DEFINE f == FindGroup(G, M, k)
<1>1. /\ f \in 1..Len(G) /\ G[f] # <<>>
      /\ FirstUsed(G, f) \/ G[f][1].low <= k
      /\ \A h \in 1..Predicted(M, k, Len(G)) : G[h] # <<>> /\ G[h][1].low <= k => h <= f
  BY FindGroupFact
<1> HIDE DEF f
<1>2. Len(G) \in Nat \ {0}
  BY <1>1, EntryFacts
<1>3. ASSUME NEW h \in 1..Len(G), h > f, G[h] # <<>>
      PROVE  k < G[h][1].low
  <2> SUFFICES ASSUME ~(k < G[h][1].low) PROVE FALSE
    OBVIOUS
  <2>1. G[h][1].low \in Nat
    BY <1>3, EntryFacts
  <2>2. G[h][1].low <= k
    BY <2>1
  <2>3. ~FirstUsed(G, h)
    BY <1>1, <1>2, <1>3 DEF FirstUsed
  <2>4. h <= Predicted(M, G[h][1].low, Len(G))
    BY <1>3, <2>3 DEF Routed
  <2>5. Predicted(M, G[h][1].low, Len(G)) <= Predicted(M, k, Len(G))
    <3>1. M \subseteq Nat
      OBVIOUS
    <3> QED
      BY <1>2, <2>1, <2>2, <3>1, PredictedFact
  <2>6. Predicted(M, k, Len(G)) \in Nat /\ Predicted(M, G[h][1].low, Len(G)) \in Nat
    BY <1>2, <2>1, PredictedIn
  <2>7. h \in 1..Predicted(M, k, Len(G))
    BY <2>4, <2>5, <2>6
  <2>8. h <= f
    BY <1>1, <1>3, <2>2, <2>7
  <2> QED
    BY <1>1, <1>2, <1>3, <2>8
<1> QED
  BY <1>1, <1>3 DEF Owns, Under, f

\* find_entry's entry: the last that begins at the key or below it, or the first.
LEMMA FindEntryFact ==
  ASSUME NEW group \in Seq(Entries), group # <<>>, NEW k \in Nat
  PROVE  LET i == FindEntry(group, k) IN
         /\ i \in 1..Len(group)
         /\ group[i].low <= k \/ (i = 1 /\ \A j \in 1..Len(group) : k < group[j].low)
         /\ \A j \in 1..Len(group) : group[j].low <= k => j <= i
<1> DEFINE below == {i \in 1..Len(group) : group[i].low <= k}
<1>1. Len(group) \in Nat /\ 1 \in 1..Len(group)
  OBVIOUS
<1>5. \A e \in Entries : e.low \in Nat
  BY ConstantFacts DEF Entries
<1>2. \A j \in 1..Len(group) : group[j].low \in Nat
  BY <1>5
<1>3. CASE below = {}
  <2>1. FindEntry(group, k) = 1
    BY <1>3 DEF FindEntry
  <2>2. \A j \in 1..Len(group) : k < group[j].low /\ ~(group[j].low <= k)
    BY <1>2, <1>3
  <2> QED
    BY <1>1, <2>1, <2>2
<1>4. CASE below # {}
  <2>1. below \in SUBSET Nat /\ \A j \in below : j <= Len(group)
    OBVIOUS
  <2>2. \E i \in below : \A j \in below : j <= i
    BY <1>1, <1>4, <2>1, GreatestFact
  <2>3. FindEntry(group, k) = CHOOSE i \in below : \A j \in below : j <= i
    BY <1>4 DEF FindEntry
  <2>4. FindEntry(group, k) \in below /\ \A j \in below : j <= FindEntry(group, k)
    BY <2>2, <2>3
  <2> QED
    BY <2>4
<1> QED
  BY <1>3, <1>4

\* In a sound tree a key that is in a bucket is found there.
LEMMA FoundInTree ==
  ASSUME NEW G \in Groups, NEW B, Sound(G, B), NEW g \in 1..Len(G), NEW i \in 1..Len(G[g]),
         NEW k \in Nat, k \in B[G[g][i].b], NEW f, Owns(G, k, f)
  PROVE  f = g /\ FindEntry(G[f], k) = i
<1>1. /\ G[g][i].low <= k
      /\ \A x \in EntryKeys(G) : G[g][i].low < x => k < x
  BY DEF Sound, InRange
<1>2. \A h \in 1..Len(G) : \A j \in 1..Len(G[h]) : G[h][j].low \in EntryKeys(G) /\ G[h][j].low \in Nat
  BY EntryKeysFact, EntryFacts
<1>3. /\ Len(G) \in Nat /\ f \in 1..Len(G) /\ G[f] # <<>> /\ Len(G[f]) \in Nat /\ 1 \in 1..Len(G[f])
      /\ G[g] # <<>> /\ Len(G[g]) \in Nat /\ 1 \in 1..Len(G[g])
  BY EntryFacts DEF Owns
<1>4. ~(f < g)
  <2> SUFFICES ASSUME f < g PROVE FALSE
    OBVIOUS
  <2>1. k < G[g][1].low
    BY <1>3 DEF Owns, Under
  <2>2. G[g][1].low <= G[g][i].low
    BY <1>2, <1>3 DEF Sound, Ascending
  <2> QED
    BY <1>1, <1>2, <1>3, <2>1, <2>2
<1>5. ~(g < f)
  <2> SUFFICES ASSUME g < f PROVE FALSE
    OBVIOUS
  <2>1. ~FirstUsed(G, f)
    BY <1>3 DEF FirstUsed
  <2>2. G[f][1].low <= k
    BY <2>1 DEF Owns
  <2>3. G[g][i].low < G[f][1].low
    BY <1>3 DEF Sound, Ascending
  <2> QED
    BY <1>1, <1>2, <1>3, <2>2, <2>3
<1>6. f = g
  BY <1>3, <1>4, <1>5
<1> DEFINE e == FindEntry(G[g], k)
<1>7. e \in 1..Len(G[g]) /\ (\A j \in 1..Len(G[g]) : G[g][j].low <= k => j <= e)
      /\ (G[g][e].low <= k \/ (\A j \in 1..Len(G[g]) : k < G[g][j].low))
  <2>1. G[g] \in Seq(Entries)
    BY EntryFacts
  <2> QED
    BY <1>3, <2>1, FindEntryFact
<1> HIDE DEF e
<1>8. i <= e
  BY <1>1, <1>7
<1>9. G[g][e].low <= k
  BY <1>1, <1>2, <1>7, SMTT(30)
<1>10. ~(i < e)
  <2> SUFFICES ASSUME i < e PROVE FALSE
    OBVIOUS
  <2>1. G[g][i].low < G[g][e].low
    BY <1>7 DEF Sound, Ascending
  <2>2. k < G[g][e].low
    BY <1>1, <1>2, <1>7, <2>1
  <2> QED
    BY <1>2, <1>7, <1>9, <2>2
<1> QED
  BY <1>3, <1>6, <1>7, <1>8, <1>10 DEF e

----------------------------------------------------------------------------
(* The inductive invariant.  It speaks of the behaviours in which nothing  *)
(* has strayed; what is said of threads and trees is stated of their       *)
(* values: a thread's record r, the groups G, the buckets B.               *)

PCs == {"idle", "begin", "block", "wait", "find", "slow", "lock", "spin", "check", "work",
        "link", "unlock", "expand", "wild"} \cup ExpandSteps
Locals == [pc : PCs, op : {"put", "update", "delete", "get"}, key : Keys \cup {0}, gid : Nat,
           gv : Nat, lv : Nat, wv : Nat, pos : Nat, nb : Nat,
           ret : {"none", "ok", "full", "retry", "done"}]

\* Somebody is at one of the steps P.
IsAt(P) == \E t \in Threads : th[t].pc \in P

TypeInv ==
  /\ th \in [Threads -> Locals]
  /\ space \in Seq(Groups) /\ bkt \in Seq(SUBSET Keys)
  /\ \A b \in 1..Len(bkt) : IsFiniteSet(bkt[b])
  /\ model \in SUBSET Keys /\ IsFiniteSet(model)
  /\ locked \in Seq(SUBSET Nat) /\ Len(locked) = Len(space)
  /\ acked \in SUBSET Keys
  /\ xpos \in Nat /\ xat \in Nat /\ xnew \in Groups

\* All versions but the newest are freed, and that one too before the next is there.
VersionInv ==
  /\ gs \in Nat \ {0} /\ gs = Len(space) /\ freed \subseteq 1..gs
  /\ \A v \in 1..gs : v \in freed <=> v < gs \/ IsAt({"groups"})
  /\ ls \in Nat \ {0} /\ ls = IF IsAt({"locks"}) THEN gs - 1 ELSE gs
  /\ \E g \in 1..Len(space[gs]) : space[gs][g] # <<>>

HasGroup == {"lock", "spin", "check", "work", "link", "unlock"}
HasLock == {"check", "work", "link", "unlock"}

LocalOK(r) ==
  /\ r.pc # "wild" /\ (r.pc # "idle" => r.key \in Keys)
  /\ r.pc \in HasGroup => r.op # "get"
  /\ r.pc = "link" => r.wv # 0
  /\ r.wv # 0 => /\ r.pc \in {"work", "link"} \/ (r.pc = "unlock" /\ r.ret = "ok")
                 /\ r.op = "put" /\ r.wv = r.gv

\* The group looked up is one of the array it was looked up in.
GroupOK(r, S, n) == r.pc \in HasGroup => r.gv \in 1..n /\ r.gid \in 1..Len(S[r.gv])

\* The lock held is of an array that is not older.
LockOK(r, L, l) ==
  /\ r.pc \in HasLock \cup {"spin"} => r.lv \in 1..l
  /\ r.pc \in HasLock => r.gv <= r.lv /\ r.gid \in L[r.lv]

\* Nobody puts into the new groups before the flag is cleared.
NewOK(r, n, P) == r.pc \in {"work", "link"} /\ r.op = "put" /\ r.gv = n => ~P

ThreadOK(r, S, n, L, l, P) == LocalOK(r) /\ GroupOK(r, S, n) /\ LockOK(r, L, l) /\ NewOK(r, n, P)

ThreadInv == \A t \in Threads : ThreadOK(th[t], space, gs, locked, ls, IsAt({"locks", "clear"}))

\* Two threads hold different locks, and are to change different keys.
PairOK(r, s) ==
  /\ r.pc \in HasLock /\ s.pc \in HasLock /\ r.lv = s.lv => r.gid # s.gid
  /\ r.pc # "idle" /\ s.pc # "idle" /\ r.op # "get" /\ s.op # "get" => r.key # s.key

PairInv == \A t, u \in Threads : t # u => PairOK(th[t], th[u])

Base == TypeInv /\ VersionInv /\ ThreadInv /\ PairInv

\* Where the copy is: the entries before it have been appended.
Copies == {"copy", "free", "groups"}
Positions(G) == UNION {{h} \X (1..Len(G[h])) : h \in 1..Len(G)}
Passed(h, i, p, a) == h <= p \/ (h = p + 1 /\ i <= a)
PassedTo(G, M, n, g, p, a) ==
  {q \in Positions(G) : Passed(q[1], q[2], p, a) /\ Predicted(M, G[q[1]][q[2]].low, n) = g}

\* A new group has the entries that were appended to it, and room for all.
RoomInv ==
  /\ IsAt(Copies) =>
       LET n == Len(xnew) IN
       /\ n # 0 /\ xpos <= Len(space[gs])
       /\ xres = [g \in 1..n |-> Reserved(space[gs], g, n)]
       /\ \A g \in 1..n : Len(xnew[g]) = Cardinality(PassedTo(space[gs], model, n, g, xpos, xat))
  /\ IsAt({"free", "groups"}) => xpos = Len(space[gs])
  /\ ~IsAt(Copies) => xnew = <<>>

\* A split that an expansion overtook: its link is lost, and with it the keys that
\* it moved.  Where there is one, the tree may lack keys until the link strays.
Doomed(t) == th[t].pc = "link" /\ (flag \/ th[t].wv # gs)
Calm == \A t \in Threads : ~Doomed(t)

\* The steps at which the model is not that of the current groups.
Trained == {"count", "copy", "free", "groups"}

\* A Put has found the group of its key.
OwnOK(r, G, n, P) ==
  r.op = "put" /\ r.gv = n =>
    /\ r.pc \in {"lock", "spin", "check", "work", "link"} /\ ~P => Owns(G, r.key, r.gid)
    /\ r.pc = "work" => G[r.gid] # <<>> /\ Under(G, r.key, r.gid)

OwnInv == \A t \in Threads : OwnOK(th[t], space[gs], gs, IsAt(Trained))

\* The bucket b has no entry.
Loose(G, b) == \A g \in 1..Len(G) : \A i \in 1..Len(G[g]) : G[g][i].b # b

\* A split has moved keys that belong between its entry and the next.
SplitOK(r, G, B, n) ==
  r.pc = "link" =>
    /\ r.op = "put" /\ r.gv = n /\ r.gid \in 1..Len(G) /\ r.pos \in 1..Len(G[r.gid])
    /\ r.nb \in 1..Len(B) /\ B[r.nb] # {} /\ Loose(G, r.nb)
    /\ \A x \in B[r.nb] :
         /\ G[r.gid][r.pos].low < x /\ \A y \in B[G[r.gid][r.pos].b] : y < x
         /\ \A l \in EntryKeys(G) : G[r.gid][r.pos].low < l => x < l

SplitInv == /\ \A t \in Threads : ~Doomed(t) => SplitOK(th[t], space[gs], bkt, gs)
            /\ \A t, u \in Threads : t # u /\ th[t].pc = "link" /\ th[u].pc = "link"
                 /\ ~Doomed(t) /\ ~Doomed(u) => th[t].nb # th[u].nb

\* Key k is in a bucket of the tree, or of a split that is to be linked.
Within(k, G, B) == \E g \in 1..Len(G) : \E i \in 1..Len(G[g]) : k \in B[G[g][i].b]
Kept(k) == Within(k, space[gs], bkt) \/ \E t \in Threads : th[t].pc = "link" /\ k \in bkt[th[t].nb]

KeyInv == /\ \A k \in acked : Kept(k)
          /\ \A t \in Threads : th[t].pc = "unlock" /\ th[t].ret = "ok" => Kept(th[t].key)

TreeInv == Sound(space[gs], bkt) /\ (~IsAt(Trained) => Routed(space[gs], model))

\* The new groups have the entries that were copied, each in the group that the
\* model predicts, in ascending order.
CopyOK(G, M, X, p, a) ==
  /\ \A g \in 1..Len(X) : \A j \in 1..Len(X[g]) :
       /\ Predicted(M, X[g][j].low, Len(X)) = g
       /\ \E h \in 1..Len(G) : \E i \in 1..Len(G[h]) : Passed(h, i, p, a) /\ G[h][i] = X[g][j]
  /\ \A h \in 1..Len(G) : \A i \in 1..Len(G[h]) : Passed(h, i, p, a) =>
       \E j \in 1..Len(X[Predicted(M, G[h][i].low, Len(X))]) :
         X[Predicted(M, G[h][i].low, Len(X))][j] = G[h][i]
  /\ \A g \in 1..Len(X) : \A i, j \in 1..Len(X[g]) : i < j => X[g][i].low < X[g][j].low

CopyInv == IsAt(Copies) => CopyOK(space[gs], model, xnew, xpos, xat)

Core == OwnInv /\ SplitInv /\ (Calm => KeyInv) /\ TreeInv
Tree == Core /\ CopyInv

Safe == Base /\ RoomInv /\ Tree

\* What the training has counted is not nothing.
CountOK == \A t \in Threads : th[t].pc = "count" => xcount \in Nat \ {0}

----------------------------------------------------------------------------
(* Steps of one thread.                                                    *)

\* What is at a step P stays the same when the thread that moves is not concerned.
LEMMA AtKept ==
  ASSUME NEW t \in Threads, Moves(t), NEW P, th'[t].pc \in P <=> th[t].pc \in P
  PROVE  IsAt(P)' <=> IsAt(P)
BY DEF Moves, IsAt

\* The one who rebuilds decides where the expansion is.
LEMMA AtIs ==
  ASSUME NEW t \in Threads, Inv, th[t].pc \in Rebuilding, NEW P \in SUBSET Rebuilding
  PROVE  IsAt(P) <=> th[t].pc \in P
BY DEF Inv, OneExpander, IsAt, Rebuilding

\* Somebody who rebuilds has set the flag.
LEMMA AtFlag ==
  ASSUME Inv, NEW P \in SUBSET Rebuilding, IsAt(P)
  PROVE  flag
BY DEF Inv, OneExpander, IsAt, Rebuilding

\* One thread moves; the arrays grow and the others' locks stay.
LEMMA BaseThreads ==
  ASSUME Base, NEW t \in Threads, Moves(t),
         LocalOK(th'[t]), GroupOK(th'[t], space', gs'), LockOK(th'[t], locked', ls'),
         NewOK(th'[t], gs', IsAt({"locks", "clear"})'),
         gs' \in Nat, gs <= gs', \A v \in 1..gs : Len(space'[v]) = Len(space[v]),
         ls' \in Nat, ls <= ls',
         \A u \in Threads \ {t} : /\ th[u].pc \in HasLock => th[u].gid \in locked'[th[u].lv]
                                  /\ NewOK(th[u], gs', IsAt({"locks", "clear"})')
                                  /\ PairOK(th'[t], th[u]) /\ PairOK(th[u], th'[t])
  PROVE  ThreadInv' /\ PairInv'
<1>1. \A u \in Threads \ {t} : th'[u] = th[u]
  BY DEF Moves
<1>2. ASSUME NEW u \in Threads
      PROVE  ThreadOK(th'[u], space', gs', locked', ls', IsAt({"locks", "clear"})')
  <2>1. CASE u = t
    BY <2>1 DEF ThreadOK
  <2>2. CASE u # t
    <3>1. LocalOK(th[u]) /\ GroupOK(th[u], space, gs) /\ LockOK(th[u], locked, ls)
      BY DEF Base, ThreadInv, ThreadOK
    <3>2. gs \in Nat /\ ls \in Nat
      BY DEF Base, VersionInv
    <3>3. GroupOK(th[u], space', gs')
      BY <3>1, <3>2 DEF GroupOK
    <3>4. LockOK(th[u], locked', ls')
      BY <2>2, <3>1, <3>2 DEF LockOK
    <3> QED
      BY <1>1, <2>2, <3>1, <3>3, <3>4 DEF ThreadOK
  <2> QED
    BY <2>1, <2>2
<1>3. ASSUME NEW u \in Threads, NEW v \in Threads, u # v
      PROVE  PairOK(th'[u], th'[v])
  <2>1. CASE u = t
    BY <1>1, <1>3, <2>1
  <2>2. CASE v = t
    BY <1>1, <1>3, <2>2
  <2>3. CASE u # t /\ v # t
    BY <1>1, <1>3, <2>3 DEF Base, PairInv
  <2> QED
    BY <2>1, <2>2, <2>3
<1> QED
  BY <1>2, <1>3 DEF ThreadInv, PairInv

\* Threads move, but not from or to a link or the end of a Put; the tree stays.
LEMMA QuietCore ==
  ASSUME Core, UNCHANGED <<space, gs, bkt, model>>, Calm => \A k \in acked' : Kept(k),
         \A u \in Threads : Doomed(u) => Doomed(u)',
         IsAt(Trained)' <=> IsAt(Trained),
         \A u \in Threads :
            th'[u] = th[u] \/ /\ th[u].pc # "link" /\ th'[u].pc # "link"
                              /\ ~(th'[u].pc = "unlock" /\ th'[u].ret = "ok")
                              /\ OwnOK(th'[u], space[gs], gs, IsAt(Trained))
  PROVE  Core'
<1>1. IsAt(Trained)' <=> IsAt(Trained)
  OBVIOUS
<1>2. OwnInv'
  <2> SUFFICES ASSUME NEW u \in Threads
               PROVE  OwnOK(th'[u], space[gs], gs, IsAt(Trained)')
    BY DEF OwnInv
  <2>1. OwnOK(th'[u], space[gs], gs, IsAt(Trained))
    BY DEF Core, OwnInv
  <2> QED
    BY <1>1, <2>1 DEF OwnOK
<1>3. \A u \in Threads : /\ th'[u].pc = "link" => th'[u] = th[u]
                         /\ th[u].pc = "link" => th'[u] = th[u]
  OBVIOUS
<1>4. SplitInv'
  <2>1. ASSUME NEW u \in Threads, ~Doomed(u)' PROVE SplitOK(th'[u], space[gs], bkt, gs)
    <3>1. CASE th'[u].pc = "link"
      BY <1>3, <2>1, <3>1 DEF Core, SplitInv
    <3>2. CASE th'[u].pc # "link"
      BY <3>2 DEF SplitOK
    <3> QED
      BY <3>1, <3>2
  <2>2. \A u, v \in Threads : u # v /\ th'[u].pc = "link" /\ th'[v].pc = "link"
          /\ ~Doomed(u)' /\ ~Doomed(v)' => th'[u].nb # th'[v].nb
    BY <1>3 DEF Core, SplitInv
  <2> QED
    BY <2>1, <2>2 DEF SplitInv
<1>5. \A k : Kept(k) => Kept(k)'
  BY <1>3 DEF Kept
<1>6. ASSUME Calm' PROVE KeyInv'
  <2>0. Calm
    BY <1>6 DEF Calm
  <2>1. \A k \in acked' : Kept(k)'
    BY <1>5, <2>0
  <2>2. ASSUME NEW u \in Threads, th'[u].pc = "unlock", th'[u].ret = "ok"
        PROVE  Kept(th[u].key)' /\ th'[u] = th[u]
    BY <1>5, <2>0, <2>2 DEF Core, KeyInv
  <2> QED
    BY <2>1, <2>2 DEF KeyInv
<1>7. TreeInv'
  BY <1>1 DEF Core, TreeInv
<1> QED
  BY <1>2, <1>4, <1>6, <1>7 DEF Core

\* The same for the whole tree, if the copy stays too.
LEMMA QuietTree ==
  ASSUME Tree, UNCHANGED <<space, gs, bkt, model, xpos, xat, xnew>>, Calm => \A k \in acked' : Kept(k),
         \A u \in Threads : Doomed(u) => Doomed(u)',
         \A P \in {Trained, Copies} : IsAt(P)' <=> IsAt(P),
         \A u \in Threads :
            th'[u] = th[u] \/ /\ th[u].pc # "link" /\ th'[u].pc # "link"
                              /\ ~(th'[u].pc = "unlock" /\ th'[u].ret = "ok")
                              /\ OwnOK(th'[u], space[gs], gs, IsAt(Trained))
  PROVE  Tree'
<1>1. (IsAt(Trained)' <=> IsAt(Trained)) /\ (IsAt(Copies)' <=> IsAt(Copies))
  OBVIOUS
<1>2. Core
  BY DEF Tree, Core
<1>3. Core'
  BY <1>1, <1>2, QuietCore
<1>4. CopyInv'
  BY <1>1 DEF Tree, CopyInv
<1> QED
  BY <1>3, <1>4 DEF Tree, Core

\* A thread that goes on with its call, or ends it, is apart from the others.
LEMMA PairKept ==
  ASSUME PairInv, NEW t \in Threads, NEW r,
         r.pc # "idle" =>
           /\ th[t].pc # "idle" /\ r.op = th[t].op /\ r.key = th[t].key
           /\ r.pc \in HasLock => th[t].pc \in HasLock /\ r.lv = th[t].lv /\ r.gid = th[t].gid
  PROVE  \A u \in Threads \ {t} : PairOK(r, th[u]) /\ PairOK(th[u], r)
<1> SUFFICES ASSUME NEW u \in Threads \ {t} PROVE PairOK(r, th[u]) /\ PairOK(th[u], r)
  OBVIOUS
<1>1. PairOK(th[t], th[u]) /\ PairOK(th[u], th[t])
  BY DEF PairInv
<1> QED
  BY <1>1 DEF PairOK, HasLock

\* A thread outside ExpandTree moves, changes its lock, and may report its key.
LEMMA LockingStep ==
  ASSUME Inv, Safe, NEW t \in Threads, Moves(t), UNCHANGED <<memory, expandVars>>,
         flag => flag', locked' \in Seq(SUBSET Nat), Len(locked') = Len(locked), acked' \in SUBSET Keys,
         Calm => \A k \in acked' : Kept(k),
         \A u \in Threads \ {t} : th[u].pc \in HasLock => th[u].gid \in locked'[th[u].lv],
         th[t].pc \notin Rebuilding \cup {"link"},
         th'[t].pc \notin (Rebuilding \ {"train"}) \cup {"link"},
         ~(th'[t].pc = "unlock" /\ th'[t].ret = "ok"),
         th' \in [Threads -> Locals], LocalOK(th'[t]), GroupOK(th'[t], space, gs),
         LockOK(th'[t], locked', ls), NewOK(th'[t], gs, IsAt({"locks", "clear"})),
         \A u \in Threads \ {t} : PairOK(th'[t], th[u]) /\ PairOK(th[u], th'[t]),
         Tree => OwnOK(th'[t], space[gs], gs, IsAt(Trained))
  PROVE  Safe'
<1>1. ASSUME NEW P \in SUBSET (Rebuilding \ {"train"})
      PROVE  IsAt(P)' <=> IsAt(P)
  <2>1. th'[t].pc \in P <=> th[t].pc \in P
    BY <1>1
  <2> QED
    BY <2>1, AtKept
<1>2. \A P \in {Trained, Copies, {"free", "groups"}, {"groups"}, {"locks"}, {"locks", "clear"}} :
         IsAt(P)' <=> IsAt(P)
  BY <1>1 DEF Trained, Copies, Rebuilding, ExpandSteps
<1>3. TypeInv'
  BY DEF Safe, Base, TypeInv, memory, expandVars
<1>4. VersionInv'
  <2>1. (IsAt({"groups"})' <=> IsAt({"groups"})) /\ (IsAt({"locks"})' <=> IsAt({"locks"}))
    BY <1>2
  <2> QED
    BY <2>1 DEF Safe, Base, VersionInv, memory
<1>5. ThreadInv' /\ PairInv'
  <2>1. IsAt({"locks", "clear"})' <=> IsAt({"locks", "clear"})
    BY <1>2
  <2>2. gs' = gs /\ ls' = ls /\ space' = space /\ gs \in Nat /\ ls \in Nat
    BY DEF memory, Safe, Base, VersionInv
  <2>3. NewOK(th'[t], gs', IsAt({"locks", "clear"})')
    BY <2>1, <2>2 DEF NewOK
  <2>4. \A u \in Threads \ {t} : /\ th[u].pc \in HasLock => th[u].gid \in locked'[th[u].lv]
                                 /\ NewOK(th[u], gs', IsAt({"locks", "clear"})')
    BY <2>1, <2>2 DEF Safe, Base, ThreadInv, ThreadOK, LockOK, NewOK
  <2>5. Base
    BY DEF Safe
  <2> QED
    BY <2>2, <2>3, <2>4, <2>5, BaseThreads
<1>6. RoomInv'
  <2>1. (IsAt(Copies)' <=> IsAt(Copies)) /\ (IsAt({"free", "groups"})' <=> IsAt({"free", "groups"}))
    BY <1>2
  <2> QED
    BY <2>1 DEF Safe, RoomInv, memory, expandVars, Reserved
<1>7. Tree'
  <2>1. \A u \in Threads : u # t => th'[u] = th[u]
    BY DEF Moves
  <2>2. \A u \in Threads : Doomed(u) => Doomed(u)'
    BY <2>1 DEF Doomed, memory
  <2>3. Tree /\ OwnOK(th'[t], space[gs], gs, IsAt(Trained))
    BY DEF Safe
  <2>4. UNCHANGED <<space, gs, bkt, model, xpos, xat, xnew>> /\ (Calm => \A k \in acked' : Kept(k))
    BY DEF memory, expandVars
  <2>5. \A P \in {Trained, Copies} : IsAt(P)' <=> IsAt(P)
    BY <1>2
  <2> QED
    BY <2>1, <2>2, <2>3, <2>4, <2>5, QuietTree
<1> QED
  BY <1>3, <1>4, <1>5, <1>6, <1>7 DEF Safe, Base

\* A thread outside ExpandTree moves and nothing else changes but the flag.
LEMMA QuietStep ==
  ASSUME Inv, Safe, NEW t \in Threads, Moves(t), UNCHANGED <<memory, locked, expandVars, acked>>,
         flag => flag',
         th[t].pc \notin Rebuilding \cup {"link"},
         th'[t].pc \notin (Rebuilding \ {"train"}) \cup {"link"},
         ~(th'[t].pc = "unlock" /\ th'[t].ret = "ok"),
         th' \in [Threads -> Locals], LocalOK(th'[t]), GroupOK(th'[t], space, gs),
         LockOK(th'[t], locked, ls), NewOK(th'[t], gs, IsAt({"locks", "clear"})),
         \A u \in Threads \ {t} : PairOK(th'[t], th[u]) /\ PairOK(th[u], th'[t]),
         Tree => OwnOK(th'[t], space[gs], gs, IsAt(Trained))
  PROVE  Safe'
<1>1. /\ locked' \in Seq(SUBSET Nat) /\ Len(locked') = Len(locked) /\ acked' \in SUBSET Keys
      /\ UNCHANGED <<memory, expandVars>> /\ LockOK(th'[t], locked', ls)
  BY DEF Safe, Base, TypeInv
<1>2. \A u \in Threads \ {t} : th[u].pc \in HasLock => th[u].gid \in locked'[th[u].lv]
  BY DEF Safe, Base, ThreadInv, ThreadOK, LockOK
<1>3. Calm => \A k \in acked' : Kept(k)
  BY DEF Safe, Tree, Core, KeyInv
<1> QED
  BY <1>1, <1>2, <1>3, LockingStep

\* A new record for one thread.
LEMMA RecordMoves ==
  ASSUME TypeInv, NEW t \in Threads, NEW r \in Locals, th' = [th EXCEPT ![t] = r]
  PROVE  Moves(t) /\ th'[t] = r /\ th' \in [Threads -> Locals]
<1>1. th' \in [Threads -> Locals] /\ th'[t] = r /\ \A u \in Threads \ {t} : th'[u] = th[u]
  BY DEF TypeInv
<1>2. \A s \in Locals : DOMAIN s = Fields /\ s = [f \in Fields |-> s[f]]
  BY DEF Locals, Fields
<1> HIDE DEF Locals
<1> QED
  BY <1>1, <1>2 DEF Moves

\* The fields of a thread.
LEMMA LocalFacts ==
  ASSUME NEW r \in Locals
  PROVE  /\ r.pc \in PCs /\ r.key \in Keys \cup {0} /\ r.gid \in Nat /\ r.gv \in Nat /\ r.lv \in Nat
         /\ r.wv \in Nat /\ r.pos \in Nat /\ r.nb \in Nat
         /\ r.op \in {"put", "update", "delete", "get"} /\ r.ret \in {"none", "ok", "full", "retry", "done"}
BY DEF Locals

\* A thread that moves on without a group.
LEMMA GoFacts ==
  ASSUME TypeInv, NEW t \in Threads, NEW p \in PCs, Go(t, p)
  PROVE  /\ Moves(t) /\ th' \in [Threads -> Locals] /\ th'[t] = [th[t] EXCEPT !.pc = p]
         /\ th'[t].pc = p /\ th'[t].op = th[t].op /\ th'[t].key = th[t].key /\ th'[t].wv = th[t].wv
         /\ th'[t].gid = th[t].gid /\ th'[t].gv = th[t].gv /\ th'[t].lv = th[t].lv
         /\ th'[t].ret = th[t].ret /\ th'[t].pos = th[t].pos /\ th'[t].nb = th[t].nb
<1> DEFINE r == [th[t] EXCEPT !.pc = p]
<1>1. th[t] \in Locals
  BY DEF TypeInv
<1>2. /\ r \in Locals /\ r.pc = p /\ r.op = th[t].op /\ r.key = th[t].key /\ r.wv = th[t].wv
      /\ r.gid = th[t].gid /\ r.gv = th[t].gv /\ r.lv = th[t].lv
      /\ r.ret = th[t].ret /\ r.pos = th[t].pos /\ r.nb = th[t].nb
  BY <1>1 DEF Locals
<1>3. th' = [th EXCEPT ![t] = r]
  BY DEF Go
<1> HIDE DEF r
<1>4. Moves(t) /\ th' \in [Threads -> Locals] /\ th'[t] = r
  BY <1>2, <1>3, RecordMoves
<1> QED
  BY <1>2, <1>4 DEF r

\* What is known of one thread.
LEMMA ThreadFacts ==
  ASSUME Base, NEW t \in Threads
  PROVE  /\ th[t] \in Locals /\ LocalOK(th[t]) /\ GroupOK(th[t], space, gs)
         /\ LockOK(th[t], locked, ls) /\ NewOK(th[t], gs, IsAt({"locks", "clear"}))
BY DEF Base, TypeInv, ThreadInv, ThreadOK

\* A thread moves that has no group and gets none.
LEMMA OutsideStep ==
  ASSUME Inv, Safe, NEW t \in Threads, NEW p \in {"find", "block", "wait", "begin", "train"},
         th[t].pc \notin HasGroup \cup Rebuilding \cup {"idle"}, Go(t, p), flag => flag',
         UNCHANGED <<memory, locked, expandVars, acked>>
  PROVE  Safe'
<1>1. TypeInv /\ Base /\ PairInv
  BY DEF Safe, Base
<1>2. p \in PCs
  BY DEF PCs, ExpandSteps
<1>3. /\ Moves(t) /\ th' \in [Threads -> Locals] /\ th'[t].pc = p
      /\ th'[t].op = th[t].op /\ th'[t].key = th[t].key /\ th'[t].wv = th[t].wv
  BY <1>1, <1>2, GoFacts
<1>4. LocalOK(th[t])
  BY <1>1, ThreadFacts
<1>5. /\ LocalOK(th'[t]) /\ GroupOK(th'[t], space, gs) /\ LockOK(th'[t], locked, ls)
      /\ NewOK(th'[t], gs, IsAt({"locks", "clear"})) /\ OwnOK(th'[t], space[gs], gs, IsAt(Trained))
  BY <1>3, <1>4 DEF LocalOK, GroupOK, LockOK, NewOK, OwnOK, HasGroup, HasLock
<1>6. \A u \in Threads \ {t} : PairOK(th'[t], th[u]) /\ PairOK(th[u], th'[t])
  BY <1>1, <1>3, PairKept DEF HasLock
<1>7. /\ th[t].pc \notin Rebuilding \cup {"link"} /\ th'[t].pc \notin (Rebuilding \ {"train"}) \cup {"link"}
      /\ ~(th'[t].pc = "unlock" /\ th'[t].ret = "ok")
  BY <1>3 DEF HasGroup, Rebuilding, ExpandSteps
<1> QED
  BY <1>3, <1>5, <1>6, <1>7, QuietStep

\* trans_begin, the wait and the entry of ExpandTree.
LEMMA BeginSafe ==
  ASSUME Inv, Safe, NEW t \in Threads,
         Retry(t) \/ Block(t) \/ SpuriousWake(t) \/ ExpandEnter(t)
  PROVE  Safe'
<1>1. /\ th[t].pc \in {"begin", "block", "wait", "expand"} /\ (flag => flag')
      /\ \E p \in {"find", "block", "wait", "begin", "train"} : Go(t, p)
      /\ UNCHANGED <<memory, locked, expandVars, acked>>
  BY DEF Retry, Block, SpuriousWake, ExpandEnter, Entry
<1>2. th[t].pc \notin HasGroup \cup Rebuilding \cup {"idle"}
  BY <1>1 DEF HasGroup, Rebuilding, ExpandSteps
<1> QED
  BY <1>1, <1>2, OutsideStep

\* A thread that ends its call.
LEMMA IdleLocal == Idle \in Locals /\ Idle.pc = "idle" /\ Idle.wv = 0 /\ Idle.op = "get"
BY DEF Idle, Locals, PCs

\* A call begins with a key that no other call is to change.
LEMMA StartSafe ==
  ASSUME Inv, Safe, NEW t \in Threads, NEW c \in Calls, Start(t, c[1], c[2])
  PROVE  Safe'
<1> DEFINE r == [Idle EXCEPT !.pc = Entry, !.op = c[1], !.key = c[2]]
<1>1. c[1] \in {"put", "update", "delete", "get"} /\ c[2] \in Keys
  BY NaliExpandAssumption
<1>2. r \in Locals /\ r.pc \in {"find", "block"} /\ r.op = c[1] /\ r.key = c[2] /\ r.wv = 0
  BY <1>1 DEF Idle, Locals, PCs, Entry
<1>3. /\ th' = [th EXCEPT ![t] = r] /\ UNCHANGED <<flag, memory, locked, expandVars, acked>>
      /\ th[t].pc = "idle"
      /\ r.op # "get" => \A u \in Threads : th[u].pc = "idle" \/ th[u].op = "get" \/ th[u].key # r.key
  BY <1>2 DEF Start
<1> HIDE DEF r
<1>4. TypeInv /\ Base /\ PairInv
  BY DEF Safe, Base
<1>5. Moves(t) /\ th'[t] = r /\ th' \in [Threads -> Locals]
  BY <1>2, <1>3, <1>4, RecordMoves
<1>6. /\ LocalOK(r) /\ GroupOK(r, space, gs) /\ LockOK(r, locked, ls)
      /\ NewOK(r, gs, IsAt({"locks", "clear"})) /\ OwnOK(r, space[gs], gs, IsAt(Trained))
  BY <1>1, <1>2 DEF LocalOK, GroupOK, LockOK, NewOK, OwnOK, HasGroup, HasLock
<1>7. \A u \in Threads \ {t} : PairOK(r, th[u]) /\ PairOK(th[u], r)
  BY <1>2, <1>3 DEF PairOK, HasLock
<1>8. /\ th[t].pc \notin Rebuilding \cup {"link"} /\ r.pc \notin (Rebuilding \ {"train"}) \cup {"link"}
      /\ ~(r.pc = "unlock" /\ r.ret = "ok")
  BY <1>2, <1>3 DEF Rebuilding, ExpandSteps
<1> QED
  BY <1>3, <1>5, <1>6, <1>7, <1>8, QuietStep

\* A thread goes on with its call, or ends it, and leaves the tree alone.
LEMMA RecordStep ==
  ASSUME Inv, Safe, NEW t \in Threads, NEW r \in Locals, th' = [th EXCEPT ![t] = r],
         UNCHANGED <<flag, memory, locked, expandVars, acked>>,
         th[t].pc \notin Rebuilding \cup {"link"}, r.pc \notin Rebuilding \cup {"link"},
         ~(r.pc = "unlock" /\ r.ret = "ok"),
         r.pc # "idle" =>
           /\ th[t].pc # "idle" /\ r.op = th[t].op /\ r.key = th[t].key
           /\ r.pc \in HasLock => th[t].pc \in HasLock /\ r.lv = th[t].lv /\ r.gid = th[t].gid,
         LocalOK(r), GroupOK(r, space, gs), LockOK(r, locked, ls),
         NewOK(r, gs, IsAt({"locks", "clear"})),
         Tree => OwnOK(r, space[gs], gs, IsAt(Trained))
  PROVE  Safe'
<1>1. TypeInv /\ PairInv
  BY DEF Safe, Base
<1>2. Moves(t) /\ th'[t] = r /\ th' \in [Threads -> Locals]
  BY <1>1, RecordMoves
<1>3. \A u \in Threads \ {t} : PairOK(r, th[u]) /\ PairOK(th[u], r)
  BY <1>1, PairKept
<1> QED
  BY <1>2, <1>3, QuietStep

\* Get looks and leaves.
LEMMA GetSafe ==
  ASSUME Inv, Safe, NEW t \in Threads, Get(t) \/ GetSlow(t), ~strayed'
  PROVE  Safe'
<1> DEFINE slow == [th[t] EXCEPT !.pc = "slow"]
<1>1. TypeInv /\ Base
  BY DEF Safe, Base
<1>2. th[t] \in Locals /\ LocalOK(th[t])
  BY <1>1, ThreadFacts
<1>3. slow \in Locals /\ slow.pc = "slow" /\ slow.op = th[t].op /\ slow.key = th[t].key /\ slow.wv = th[t].wv
  BY <1>2 DEF Locals, PCs
<1>4. /\ th[t].pc \in {"find", "slow"} /\ UNCHANGED <<flag, memory, locked, expandVars, acked>>
      /\ th' = [th EXCEPT ![t] = Idle] \/ th' = [th EXCEPT ![t] = slow]
  BY DEF Get, GetSlow, Wild
<1> HIDE DEF slow
<1>5. PICK r \in {Idle, slow} : th' = [th EXCEPT ![t] = r]
  BY <1>4
<1>6. /\ r \in Locals /\ r.pc \in {"idle", "slow"} /\ r.wv = 0
      /\ r.pc = "slow" => r.op = th[t].op /\ r.key = th[t].key /\ r.key \in Keys
  BY <1>2, <1>3, <1>4, <1>5, IdleLocal DEF LocalOK
<1>7. /\ LocalOK(r) /\ GroupOK(r, space, gs) /\ LockOK(r, locked, ls)
      /\ NewOK(r, gs, IsAt({"locks", "clear"})) /\ OwnOK(r, space[gs], gs, IsAt(Trained))
  BY <1>6 DEF LocalOK, GroupOK, LockOK, NewOK, OwnOK, HasGroup, HasLock
<1>8. /\ th[t].pc \notin Rebuilding \cup {"link"} /\ r.pc \notin Rebuilding \cup {"link"}
      /\ ~(r.pc = "unlock" /\ r.ret = "ok") /\ r.pc \notin HasLock /\ th[t].pc # "idle"
  BY <1>4, <1>6 DEF Rebuilding, ExpandSteps, HasLock
<1> QED
  BY <1>4, <1>5, <1>6, <1>7, <1>8, RecordStep

\* The current tree, as long as it is not freed.
LEMMA CurrentFacts ==
  ASSUME Base
  PROVE  /\ space[gs] \in Groups /\ gs \in Nat /\ gs \in 1..Len(space)
         /\ model \in SUBSET Nat /\ IsFiniteSet(model)
         /\ \E g \in 1..Len(space[gs]) : space[gs][g] # <<>>
BY ConstantFacts DEF Base, TypeInv, VersionInv

\* find_group: the group is one of the array, and the key's if the model is that
\* of the array.
LEMMA FindSafe ==
  ASSUME Inv, Safe, NEW t \in Threads, Find(t), ~strayed'
  PROVE  Safe'
<1> DEFINE f == FindGroup(space[gs], model, th[t].key)
           r == [th[t] EXCEPT !.gid = f, !.gv = gs, !.pc = "lock"]
<1>1. TypeInv /\ Base
  BY DEF Safe, Base
<1>2. th[t] \in Locals /\ LocalOK(th[t])
  BY <1>1, ThreadFacts
<1>3. /\ th[t].pc = "find" /\ UNCHANGED <<flag, memory, locked, expandVars, acked>>
      /\ th' = [th EXCEPT ![t].gid = f, ![t].gv = gs, ![t].pc = "lock"] /\ th[t].op # "get"
  BY DEF Find, Wild
<1>4. th[t].key \in Nat /\ th[t].key \in Keys
  BY <1>2, <1>3, ConstantFacts DEF LocalOK
<1>5. f \in 1..Len(space[gs])
  BY <1>1, <1>4, CurrentFacts, FindGroupFact
<1>6. Routed(space[gs], model) => Owns(space[gs], th[t].key, f)
  BY <1>1, <1>4, CurrentFacts, FindGroupOwns
<1> HIDE DEF f
<1>7. f \in Nat /\ gs \in Nat /\ gs \in 1..gs
  BY <1>1, <1>5, CurrentFacts DEF Base, VersionInv
<1>8. /\ r \in Locals /\ r.pc = "lock" /\ r.op = th[t].op /\ r.key = th[t].key /\ r.wv = th[t].wv
      /\ r.gid = f /\ r.gv = gs
  BY <1>2, <1>7 DEF Locals, PCs
<1>9. th' = [th EXCEPT ![t] = r]
  BY <1>3
<1> HIDE DEF r
<1>10. /\ LocalOK(r) /\ GroupOK(r, space, gs) /\ LockOK(r, locked, ls)
       /\ NewOK(r, gs, IsAt({"locks", "clear"}))
  BY <1>2, <1>3, <1>5, <1>7, <1>8 DEF LocalOK, GroupOK, LockOK, NewOK, HasGroup, HasLock
<1>11. Tree => OwnOK(r, space[gs], gs, IsAt(Trained))
  BY <1>6, <1>8 DEF Tree, Core, TreeInv, OwnOK
<1>12. /\ th[t].pc \notin Rebuilding \cup {"link"} /\ r.pc \notin Rebuilding \cup {"link"}
       /\ ~(r.pc = "unlock" /\ r.ret = "ok") /\ r.pc \notin HasLock /\ th[t].pc # "idle"
  BY <1>3, <1>8 DEF Rebuilding, ExpandSteps, HasLock
<1> QED
  BY <1>3, <1>8, <1>9, <1>10, <1>11, <1>12, RecordStep

\* The pointer to the locks is read.
LEMMA LockPointerSafe ==
  ASSUME Inv, Safe, NEW t \in Threads, LockPointer(t)
  PROVE  Safe'
<1> DEFINE r == [th[t] EXCEPT !.lv = ls, !.pc = "spin"]
<1>1. TypeInv /\ Base
  BY DEF Safe, Base
<1>2. th[t] \in Locals /\ LocalOK(th[t]) /\ GroupOK(th[t], space, gs)
  BY <1>1, ThreadFacts
<1>3. /\ th[t].pc = "lock" /\ UNCHANGED <<flag, memory, locked, expandVars, acked>>
      /\ th' = [th EXCEPT ![t].lv = ls, ![t].pc = "spin"]
  BY DEF LockPointer
<1>4. ls \in Nat /\ ls \in 1..ls
  BY <1>1 DEF Base, VersionInv
<1>5. /\ r \in Locals /\ r.pc = "spin" /\ r.op = th[t].op /\ r.key = th[t].key /\ r.wv = th[t].wv
      /\ r.gid = th[t].gid /\ r.gv = th[t].gv /\ r.lv = ls
  BY <1>2, <1>4 DEF Locals, PCs
<1>6. th' = [th EXCEPT ![t] = r]
  BY <1>3
<1> HIDE DEF r
<1>7. /\ LocalOK(r) /\ GroupOK(r, space, gs) /\ LockOK(r, locked, ls)
      /\ NewOK(r, gs, IsAt({"locks", "clear"}))
  BY <1>2, <1>3, <1>4, <1>5 DEF LocalOK, GroupOK, LockOK, NewOK, HasGroup, HasLock
<1>8. Tree => OwnOK(r, space[gs], gs, IsAt(Trained))
  BY <1>3, <1>5 DEF Tree, Core, OwnInv, OwnOK
<1>9. /\ th[t].pc \notin Rebuilding \cup {"link"} /\ r.pc \notin Rebuilding \cup {"link"}
      /\ ~(r.pc = "unlock" /\ r.ret = "ok") /\ r.pc \notin HasLock /\ th[t].pc # "idle"
  BY <1>3, <1>5 DEF Rebuilding, ExpandSteps, HasLock
<1> QED
  BY <1>3, <1>5, <1>6, <1>7, <1>8, <1>9, RecordStep

\* A Put that goes on after its second look at the flag is not overtaken yet.
LEMMA CheckSafe ==
  ASSUME Inv, Safe, NEW t \in Threads, Check(t)
  PROVE  Safe'
<1> DEFINE p == IF flag THEN "unlock" ELSE "work"
           q == IF flag THEN "retry" ELSE "none"
           r == [th[t] EXCEPT !.pc = p, !.ret = q]
<1>1. TypeInv /\ Base
  BY DEF Safe, Base
<1>2. th[t] \in Locals /\ LocalOK(th[t]) /\ GroupOK(th[t], space, gs) /\ LockOK(th[t], locked, ls)
  BY <1>1, ThreadFacts
<1>3. /\ th[t].pc = "check" /\ UNCHANGED <<flag, memory, locked, expandVars, acked>>
      /\ th' = [th EXCEPT ![t].pc = p, ![t].ret = q]
  BY DEF Check
<1>4. ~flag => ~IsAt({"locks", "clear"}) /\ ~IsAt(Trained)
  BY AtFlag DEF Trained, Rebuilding, ExpandSteps
<1>5. /\ p \in PCs /\ q \in {"none", "retry"} /\ p \in {"unlock", "work"} /\ (p = "work" => ~flag)
  BY DEF PCs
<1> HIDE DEF p, q
<1>6. /\ r \in Locals /\ r.pc = p /\ r.ret = q /\ r.op = th[t].op /\ r.key = th[t].key /\ r.wv = th[t].wv
      /\ r.gid = th[t].gid /\ r.gv = th[t].gv /\ r.lv = th[t].lv
  BY <1>2, <1>5 DEF Locals
<1>7. th' = [th EXCEPT ![t] = r]
  BY <1>3
<1> HIDE DEF r
<1>8. /\ LocalOK(r) /\ GroupOK(r, space, gs) /\ LockOK(r, locked, ls)
      /\ NewOK(r, gs, IsAt({"locks", "clear"}))
  BY <1>2, <1>3, <1>4, <1>5, <1>6 DEF LocalOK, GroupOK, LockOK, NewOK, HasGroup, HasLock
<1>9. Tree => OwnOK(r, space[gs], gs, IsAt(Trained))
  BY <1>3, <1>4, <1>5, <1>6 DEF Tree, Core, OwnInv, OwnOK, Owns
<1>10. /\ th[t].pc \notin Rebuilding \cup {"link"} /\ r.pc \notin Rebuilding \cup {"link"}
       /\ ~(r.pc = "unlock" /\ r.ret = "ok") /\ th[t].pc \in HasLock /\ th[t].pc # "idle"
  BY <1>3, <1>5, <1>6 DEF Rebuilding, ExpandSteps, HasLock
<1> QED
  BY <1>3, <1>6, <1>7, <1>8, <1>9, <1>10, RecordStep

\* A Put that finds its group full leaves it as it is.
LEMMA PutFullSafe ==
  ASSUME Inv, Safe, NEW t \in Threads, th[t].pc = "work", PutFull(t)
  PROVE  Safe'
<1> DEFINE r == [th[t] EXCEPT !.pc = "unlock", !.ret = "full", !.wv = 0]
<1>1. TypeInv /\ Base
  BY DEF Safe, Base
<1>2. th[t] \in Locals /\ LocalOK(th[t]) /\ GroupOK(th[t], space, gs) /\ LockOK(th[t], locked, ls)
  BY <1>1, ThreadFacts
<1>3. /\ UNCHANGED <<flag, memory, locked, expandVars, acked>>
      /\ th' = [th EXCEPT ![t].pc = "unlock", ![t].ret = "full", ![t].wv = 0]
  BY DEF PutFull
<1>4. /\ r \in Locals /\ r.pc = "unlock" /\ r.ret = "full" /\ r.op = th[t].op /\ r.key = th[t].key
      /\ r.wv = 0 /\ r.gid = th[t].gid /\ r.gv = th[t].gv /\ r.lv = th[t].lv
  BY <1>2 DEF Locals, PCs
<1>5. th' = [th EXCEPT ![t] = r]
  BY <1>3
<1> HIDE DEF r
<1>6. /\ LocalOK(r) /\ GroupOK(r, space, gs) /\ LockOK(r, locked, ls)
      /\ NewOK(r, gs, IsAt({"locks", "clear"})) /\ OwnOK(r, space[gs], gs, IsAt(Trained))
  BY <1>2, <1>4 DEF LocalOK, GroupOK, LockOK, NewOK, OwnOK, HasGroup, HasLock
<1>7. /\ th[t].pc \notin Rebuilding \cup {"link"} /\ r.pc \notin Rebuilding \cup {"link"}
      /\ ~(r.pc = "unlock" /\ r.ret = "ok") /\ th[t].pc \in HasLock /\ th[t].pc # "idle"
  BY <1>4 DEF Rebuilding, ExpandSteps, HasLock
<1> QED
  BY <1>3, <1>4, <1>5, <1>6, <1>7, RecordStep

\* A lock that is taken is one of the newest array, and nobody else has it.
LEMMA LockSafe ==
  ASSUME Inv, Safe, NEW t \in Threads, Lock(t), ~strayed'
  PROVE  Safe'
<1> DEFINE p == IF th[t].op = "put" THEN "check" ELSE "work"
           v == th[t].lv  g == th[t].gid
<1>1. TypeInv /\ Base /\ PairInv
  BY DEF Safe, Base
<1>2. th[t] \in Locals /\ LocalOK(th[t]) /\ GroupOK(th[t], space, gs) /\ LockOK(th[t], locked, ls)
  BY <1>1, ThreadFacts
<1>3. /\ th[t].pc = "spin" /\ Go(t, p) /\ UNCHANGED <<flag, memory, expandVars, acked>>
      /\ v \notin freed /\ g \notin locked[v] /\ locked' = [locked EXCEPT ![v] = @ \cup {g}]
  BY DEF Lock, Wild, InLocks, Live
<1>4. /\ p \in PCs /\ p \in {"check", "work"} /\ (p = "work" => th[t].op # "put")
      /\ g \in Nat
  BY <1>2, LocalFacts DEF PCs
<1> HIDE DEF p
<1>5. /\ Moves(t) /\ th' \in [Threads -> Locals] /\ th'[t].pc = p /\ th'[t].op = th[t].op
      /\ th'[t].key = th[t].key /\ th'[t].wv = th[t].wv /\ th'[t].gid = g /\ th'[t].gv = th[t].gv
      /\ th'[t].lv = v
  BY <1>1, <1>3, <1>4, GoFacts
<1>6. /\ gs \in Nat /\ ls \in Nat /\ ls <= gs /\ gs = Len(locked) /\ locked \in Seq(SUBSET Nat)
      /\ \A w \in 1..gs : w \in freed <=> w < gs \/ IsAt({"groups"})
  BY <1>1 DEF Base, TypeInv, VersionInv
<1>7. v = gs /\ v \in 1..Len(locked) /\ th[t].gv <= v /\ v \in 1..ls
  BY <1>2, <1>3, <1>6 DEF LockOK, GroupOK, HasGroup
<1> HIDE DEF v, g
<1>8. /\ locked' \in Seq(SUBSET Nat) /\ Len(locked') = Len(locked) /\ g \in locked'[v]
      /\ \A w \in 1..Len(locked) : locked[w] \subseteq locked'[w]
  BY <1>3, <1>4, <1>6, <1>7
<1>9. \A u \in Threads \ {t} : th[u].pc \in HasLock =>
         th[u].gid \in locked[th[u].lv] /\ th[u].lv \in 1..Len(locked)
  BY <1>1, <1>6, ThreadFacts DEF LockOK
<1>10. \A u \in Threads \ {t} : th[u].pc \in HasLock => th[u].gid \in locked'[th[u].lv]
  BY <1>8, <1>9
<1>11. \A u \in Threads \ {t} : PairOK(th'[t], th[u]) /\ PairOK(th[u], th'[t])
  <2> SUFFICES ASSUME NEW u \in Threads \ {t} PROVE PairOK(th'[t], th[u]) /\ PairOK(th[u], th'[t])
    OBVIOUS
  <2>1. PairOK(th[t], th[u])
    BY <1>1 DEF PairInv
  <2>2. th[u].pc \in HasLock /\ th[u].lv = v => th[u].gid # g
    BY <1>3, <1>9
  <2> QED
    BY <1>3, <1>5, <2>1, <2>2 DEF PairOK
<1>12. /\ LocalOK(th'[t]) /\ GroupOK(th'[t], space, gs) /\ LockOK(th'[t], locked', ls)
       /\ NewOK(th'[t], gs, IsAt({"locks", "clear"}))
  BY <1>2, <1>3, <1>4, <1>5, <1>7, <1>8 DEF LocalOK, GroupOK, LockOK, NewOK, HasGroup, HasLock, g
<1>13. Tree => OwnOK(th'[t], space[gs], gs, IsAt(Trained))
  BY <1>3, <1>4, <1>5 DEF Tree, Core, OwnInv, OwnOK, g
<1>14. /\ th[t].pc \notin Rebuilding \cup {"link"} /\ th'[t].pc \notin (Rebuilding \ {"train"}) \cup {"link"}
       /\ ~(th'[t].pc = "unlock" /\ th'[t].ret = "ok")
  BY <1>3, <1>4, <1>5 DEF Rebuilding, ExpandSteps
<1>15. acked' \in SUBSET Keys /\ (Calm => \A k \in acked' : Kept(k))
  BY <1>1, <1>3 DEF TypeInv, Safe, Tree, Core, KeyInv
<1> QED
  BY <1>3, <1>5, <1>8, <1>10, <1>11, <1>12, <1>13, <1>14, <1>15, LockingStep

\* The lock that is released is the one that was taken, and a key that is reported
\* is in the tree.
LEMMA UnlockSafe ==
  ASSUME Inv, Safe, NEW t \in Threads, Unlock(t), ~strayed'
  PROVE  Safe'
<1> DEFINE expand == [th[t] EXCEPT !.pc = "expand"]
           begin == [th[t] EXCEPT !.pc = "begin"]
           g == th[t].gid
<1>1. TypeInv /\ Base /\ PairInv
  BY DEF Safe, Base
<1>2. th[t] \in Locals /\ LocalOK(th[t]) /\ LockOK(th[t], locked, ls)
  BY <1>1, ThreadFacts
<1>3. /\ th[t].pc = "unlock" /\ UNCHANGED <<flag, memory, expandVars>> /\ ls = th[t].lv
      /\ locked' = [locked EXCEPT ![ls] = @ \ {g}]
      /\ acked' = IF th[t].ret = "ok" THEN acked \cup {th[t].key} ELSE acked
      /\ th' = [th EXCEPT ![t] = CASE @.ret = "full" -> [@ EXCEPT !.pc = "expand"]
                                   [] @.ret = "retry" -> [@ EXCEPT !.pc = "begin"]
                                   [] OTHER -> Idle]
  BY DEF Unlock, Wild
<1>4. /\ expand \in Locals /\ expand.pc = "expand" /\ expand.op = th[t].op
      /\ expand.key = th[t].key /\ expand.wv = th[t].wv
      /\ begin \in Locals /\ begin.pc = "begin" /\ begin.op = th[t].op
      /\ begin.key = th[t].key /\ begin.wv = th[t].wv
  BY <1>2 DEF Locals, PCs
<1>5. \E r \in {Idle, expand, begin} : /\ th' = [th EXCEPT ![t] = r]
                                       /\ r # Idle => th[t].ret \in {"full", "retry"}
  BY <1>3
<1> HIDE DEF expand, begin
<1>6. PICK r \in {Idle, expand, begin} : /\ th' = [th EXCEPT ![t] = r]
                                         /\ r # Idle => th[t].ret \in {"full", "retry"}
  BY <1>5
<1>7. /\ r \in Locals /\ r.pc \in {"idle", "expand", "begin"} /\ r.wv = 0
      /\ r.pc # "idle" => r.op = th[t].op /\ r.key = th[t].key /\ r.key \in Keys
  BY <1>2, <1>3, <1>4, <1>6, IdleLocal DEF LocalOK
<1>8. Moves(t) /\ th'[t] = r /\ th' \in [Threads -> Locals]
  BY <1>1, <1>6, <1>7, RecordMoves
<1>9. \A u \in Threads \ {t} : PairOK(r, th[u]) /\ PairOK(th[u], r)
  BY <1>1, <1>3, <1>7, PairKept DEF HasLock
<1>10. /\ ls \in 1..Len(locked) /\ locked \in Seq(SUBSET Nat)
  BY <1>1 DEF Base, TypeInv, VersionInv
<1> HIDE DEF g
<1>11. /\ locked' \in Seq(SUBSET Nat) /\ Len(locked') = Len(locked)
       /\ locked'[ls] = locked[ls] \ {g} /\ \A w \in 1..Len(locked) : w # ls => locked'[w] = locked[w]
  BY <1>3, <1>10
<1>12. ASSUME NEW u \in Threads \ {t}, th[u].pc \in HasLock PROVE th[u].gid \in locked'[th[u].lv]
  <2>1. th[u].gid \in locked[th[u].lv] /\ th[u].lv \in 1..Len(locked)
    BY <1>1, <1>12, ThreadFacts DEF LockOK, Base, VersionInv, TypeInv
  <2>2. th[u].lv = ls => th[u].gid # g
    BY <1>1, <1>3, <1>12 DEF PairInv, PairOK, HasLock, g
  <2> QED
    BY <1>11, <2>1, <2>2
<1>13. /\ LocalOK(r) /\ GroupOK(r, space, gs) /\ LockOK(r, locked', ls)
       /\ NewOK(r, gs, IsAt({"locks", "clear"})) /\ OwnOK(r, space[gs], gs, IsAt(Trained))
  BY <1>7 DEF LocalOK, GroupOK, LockOK, NewOK, OwnOK, HasGroup, HasLock
<1>14. /\ th[t].pc \notin Rebuilding \cup {"link"} /\ r.pc \notin (Rebuilding \ {"train"}) \cup {"link"}
       /\ ~(r.pc = "unlock" /\ r.ret = "ok")
  BY <1>3, <1>7 DEF Rebuilding, ExpandSteps
<1>15. acked' \in SUBSET Keys /\ (Calm => \A k \in acked' : Kept(k))
  BY <1>1, <1>2, <1>3 DEF TypeInv, Safe, Tree, Core, KeyInv, LocalOK
<1> QED
  BY <1>3, <1>8, <1>9, <1>11, <1>12, <1>13, <1>14, <1>15, LockingStep

----------------------------------------------------------------------------
(* Steps of ExpandTree.                                                    *)

\* The one who rebuilds goes on; the arrays grow and the locks stay.
LEMMA ExpanderStep ==
  ASSUME Inv, Base, NEW t \in Threads, th[t].pc \in Rebuilding, NEW p \in ExpandSteps, Go(t, p),
         gs' \in Nat, gs <= gs', \A v \in 1..gs : Len(space'[v]) = Len(space[v]),
         ls' \in Nat, ls <= ls', \A v \in 1..gs : locked'[v] = locked[v],
         p \in {"locks", "clear"} => gs' > gs \/ th[t].pc \in {"locks", "clear"}
  PROVE  /\ Moves(t) /\ th' \in [Threads -> Locals] /\ th'[t].pc = p /\ ThreadInv' /\ PairInv'
         /\ \A P \in SUBSET Rebuilding : (IsAt(P)' <=> p \in P) /\ (IsAt(P) <=> th[t].pc \in P)
<1>1. TypeInv /\ PairInv /\ p \in PCs
  BY DEF Base, PCs
<1>2. /\ Moves(t) /\ th' \in [Threads -> Locals] /\ th'[t].pc = p
      /\ th'[t].op = th[t].op /\ th'[t].key = th[t].key /\ th'[t].wv = th[t].wv
  BY <1>1, GoFacts
<1>3. \A P \in SUBSET Rebuilding : (IsAt(P)' <=> p \in P) /\ (IsAt(P) <=> th[t].pc \in P)
  <2> SUFFICES ASSUME NEW P \in SUBSET Rebuilding
               PROVE  (IsAt(P)' <=> p \in P) /\ (IsAt(P) <=> th[t].pc \in P)
    OBVIOUS
  <2>1. \A u \in Threads \ {t} : th[u].pc \notin Rebuilding /\ th'[u] = th[u]
    BY <1>2 DEF Inv, OneExpander, Rebuilding, Moves
  <2> QED
    BY <1>2, <2>1 DEF IsAt
<1>4. LocalOK(th[t]) /\ th[t].pc \notin HasGroup /\ p \notin HasGroup \cup {"idle", "wild", "spin"}
  BY <1>1, ThreadFacts DEF HasGroup, Rebuilding, ExpandSteps
<1>5. /\ LocalOK(th'[t]) /\ GroupOK(th'[t], space', gs') /\ LockOK(th'[t], locked', ls')
      /\ NewOK(th'[t], gs', IsAt({"locks", "clear"})')
  BY <1>2, <1>4 DEF LocalOK, GroupOK, LockOK, NewOK, HasGroup, HasLock, Rebuilding, ExpandSteps
<1>6. \A u \in Threads \ {t} : PairOK(th'[t], th[u]) /\ PairOK(th[u], th'[t])
  <2>1. th[t].pc # "idle" /\ th'[t].pc \notin HasLock
    BY <1>2, <1>4 DEF Rebuilding, ExpandSteps, HasGroup, HasLock
  <2> QED
    BY <1>1, <1>2, <2>1, PairKept
<1>7. ASSUME NEW u \in Threads \ {t}
      PROVE  /\ th[u].pc \in HasLock => th[u].gid \in locked'[th[u].lv]
             /\ NewOK(th[u], gs', IsAt({"locks", "clear"})')
  <2>1. /\ LocalOK(th[u]) /\ GroupOK(th[u], space, gs) /\ LockOK(th[u], locked, ls)
        /\ NewOK(th[u], gs, IsAt({"locks", "clear"}))
    BY ThreadFacts
  <2>2. gs \in Nat /\ ls \in Nat /\ ls <= gs
    BY DEF Base, VersionInv
  <2>3. {"locks", "clear"} \in SUBSET Rebuilding
    BY DEF Rebuilding, ExpandSteps
  <2>4. IsAt({"locks", "clear"})' => gs' > gs \/ IsAt({"locks", "clear"})
    BY <1>3, <2>3
  <2>5. th[u].pc \in HasLock => th[u].gid \in locked'[th[u].lv]
    BY <2>1, <2>2 DEF LockOK
  <2>6. NewOK(th[u], gs', IsAt({"locks", "clear"})')
    BY <2>1, <2>2, <2>4 DEF NewOK, GroupOK, HasGroup
  <2> QED
    BY <2>5, <2>6
<1>8. ThreadInv' /\ PairInv'
  BY <1>2, <1>5, <1>6, <1>7, BaseThreads
<1> QED
  BY <1>2, <1>3, <1>8

\* The steps that leave the current tree and the new groups alone: the arrays are
\* freed, the new locks are published, the flag is cleared.
LEMMA ExpandQuietTree ==
  ASSUME Inv, Tree, NEW t \in Threads, Moves(t), th[t].pc \in Rebuilding, th'[t].pc \in ExpandSteps,
         UNCHANGED <<space, gs, bkt, model, xpos, xat, xnew, acked>>,
         \A u \in Threads : Doomed(u) => Doomed(u)',
         \A P \in {Trained, Copies} : IsAt(P)' <=> IsAt(P)
  PROVE  Tree'
<1>1. \A u \in Threads : u # t => th'[u] = th[u]
  BY DEF Moves
<1>2. th[t].pc # "link" /\ th'[t].pc # "link" /\ th'[t].pc # "unlock"
  BY DEF Rebuilding, ExpandSteps
<1>3. OwnOK(th'[t], space[gs], gs, IsAt(Trained))
  BY DEF OwnOK, ExpandSteps
<1>4. Calm => \A k \in acked' : Kept(k)
  BY DEF Tree, Core, KeyInv
<1> QED
  BY <1>1, <1>2, <1>3, <1>4, QuietTree

\* Where the expansion is, as sets of steps.
LEMMA StepSets ==
  /\ Trained \in SUBSET Rebuilding /\ Copies \in SUBSET Rebuilding /\ {"free", "groups"} \in SUBSET Rebuilding
  /\ {"groups"} \in SUBSET Rebuilding /\ {"locks"} \in SUBSET Rebuilding
  /\ {"locks", "clear"} \in SUBSET Rebuilding
BY DEF Trained, Copies, Rebuilding, ExpandSteps

\* The arrays are freed.
LEMMA FreeSafe == ASSUME Inv, Safe, NEW t \in Threads, ExpandFree(t) PROVE Safe'
<1>1. /\ th[t].pc = "free" /\ freed' = freed \cup {gs} /\ Go(t, "groups")
      /\ UNCHANGED <<flag, model, space, bkt, gs, ls, locked, expandVars, acked>>
  BY DEF ExpandFree
<1>2. Base /\ gs \in Nat /\ ls \in Nat /\ th[t].pc \in Rebuilding /\ "groups" \in ExpandSteps
  BY <1>1 DEF Safe, Base, VersionInv, Rebuilding, ExpandSteps
<1>3. /\ Moves(t) /\ th' \in [Threads -> Locals] /\ th'[t].pc = "groups" /\ ThreadInv' /\ PairInv'
      /\ \A P \in SUBSET Rebuilding : (IsAt(P)' <=> "groups" \in P) /\ (IsAt(P) <=> "free" \in P)
  BY <1>1, <1>2, ExpanderStep
<1>4. /\ IsAt(Trained) /\ IsAt(Trained)' /\ IsAt(Copies) /\ IsAt(Copies)'
      /\ IsAt({"free", "groups"}) /\ IsAt({"free", "groups"})'
      /\ ~IsAt({"groups"}) /\ IsAt({"groups"})' /\ ~IsAt({"locks"}) /\ ~IsAt({"locks"})'
  BY <1>3, StepSets DEF Trained, Copies
<1>9. TypeInv'
  BY <1>1, <1>3 DEF Safe, Base, TypeInv, expandVars
<1>5. VersionInv'
  <2>1. VersionInv
    BY DEF Safe, Base
  <2>2. \A v \in 1..gs : v \in freed' <=> v < gs \/ IsAt({"groups"})'
    BY <1>1, <1>2, <1>4, <2>1 DEF VersionInv
  <2>3. freed' \subseteq 1..gs
    <3>1. gs \in 1..gs /\ freed \subseteq 1..gs
      BY <2>1 DEF VersionInv
    <3> QED
      BY <1>1, <3>1
  <2> QED
    BY <1>1, <1>4, <2>1, <2>2, <2>3 DEF VersionInv
<1>6. RoomInv'
  BY <1>1, <1>4 DEF Safe, RoomInv, expandVars, Reserved
<1>7. \A u \in Threads : Doomed(u) => Doomed(u)'
  BY <1>1, <1>3 DEF Doomed, Moves
<1>8. Tree'
  BY <1>1, <1>2, <1>3, <1>4, <1>7, ExpandQuietTree DEF Safe, expandVars
<1> QED
  BY <1>3, <1>5, <1>6, <1>8, <1>9 DEF Safe, Base

\* The new locks are published.
LEMMA PublishLocksSafe ==
  ASSUME Inv, Safe, NEW t \in Threads, ExpandPublishLocks(t)
  PROVE  Safe'
<1>1. /\ th[t].pc = "locks" /\ ls' = gs /\ Go(t, "clear")
      /\ UNCHANGED <<flag, model, space, bkt, freed, gs, locked, expandVars, acked>>
  BY DEF ExpandPublishLocks
<1>2. /\ Base /\ gs \in Nat /\ ls \in Nat /\ ls <= gs /\ th[t].pc \in Rebuilding /\ "clear" \in ExpandSteps
  BY <1>1 DEF Safe, Base, VersionInv, Rebuilding, ExpandSteps
<1>3. /\ Moves(t) /\ th' \in [Threads -> Locals] /\ th'[t].pc = "clear" /\ ThreadInv' /\ PairInv'
      /\ \A P \in SUBSET Rebuilding : (IsAt(P)' <=> "clear" \in P) /\ (IsAt(P) <=> "locks" \in P)
  BY <1>1, <1>2, ExpanderStep
<1>4. /\ ~IsAt(Trained) /\ ~IsAt(Trained)' /\ ~IsAt(Copies) /\ ~IsAt(Copies)'
      /\ ~IsAt({"free", "groups"}) /\ ~IsAt({"free", "groups"})'
      /\ ~IsAt({"groups"}) /\ ~IsAt({"groups"})' /\ ~IsAt({"locks"})'
  BY <1>3, StepSets DEF Trained, Copies
<1>9. TypeInv'
  BY <1>1, <1>3 DEF Safe, Base, TypeInv, expandVars
<1>5. VersionInv'
  BY <1>1, <1>4 DEF Safe, Base, VersionInv
<1>6. RoomInv'
  BY <1>1, <1>4 DEF Safe, RoomInv, expandVars
<1>7. \A u \in Threads : Doomed(u) => Doomed(u)'
  BY <1>1, <1>3 DEF Doomed, Moves
<1>8. Tree'
  BY <1>1, <1>2, <1>3, <1>4, <1>7, ExpandQuietTree DEF Safe, expandVars
<1> QED
  BY <1>3, <1>5, <1>6, <1>8, <1>9 DEF Safe, Base

\* The flag is cleared: no Put is inside the new groups yet.
LEMMA ClearSafe == ASSUME Inv, Safe, NEW t \in Threads, ExpandClear(t) PROVE Safe'
<1>1. /\ th[t].pc = "clear" /\ Go(t, "notify") /\ UNCHANGED <<memory, locked, expandVars, acked>>
  BY DEF ExpandClear
<1>2. Base /\ gs \in Nat /\ ls \in Nat /\ th[t].pc \in Rebuilding /\ "notify" \in ExpandSteps
  BY <1>1 DEF Safe, Base, VersionInv, Rebuilding, ExpandSteps
<1>3. /\ Moves(t) /\ th' \in [Threads -> Locals] /\ th'[t].pc = "notify" /\ ThreadInv' /\ PairInv'
      /\ \A P \in SUBSET Rebuilding : (IsAt(P)' <=> "notify" \in P) /\ (IsAt(P) <=> "clear" \in P)
  BY <1>1, <1>2, ExpanderStep DEF memory
<1>4. /\ ~IsAt(Trained) /\ ~IsAt(Trained)' /\ ~IsAt(Copies) /\ ~IsAt(Copies)'
      /\ ~IsAt({"free", "groups"}) /\ ~IsAt({"free", "groups"})' /\ IsAt({"locks", "clear"})
      /\ ~IsAt({"groups"}) /\ ~IsAt({"groups"})' /\ ~IsAt({"locks"}) /\ ~IsAt({"locks"})'
  BY <1>3, StepSets DEF Trained, Copies
<1>5. TypeInv' /\ VersionInv'
  BY <1>1, <1>3, <1>4 DEF Safe, Base, TypeInv, VersionInv, memory, expandVars
<1>6. RoomInv'
  BY <1>1, <1>4 DEF Safe, RoomInv, memory, expandVars
<1>7. ASSUME NEW u \in Threads, Doomed(u) PROVE Doomed(u)'
  <2>1. th[u].pc = "link" /\ th'[u] = th[u]
    BY <1>1, <1>3, <1>7 DEF Doomed, Moves
  <2>2. LocalOK(th[u]) /\ NewOK(th[u], gs, IsAt({"locks", "clear"}))
    BY <1>2, ThreadFacts
  <2>3. th[u].wv # gs
    BY <1>2, <1>4, <2>1, <2>2 DEF LocalOK, NewOK, Base, VersionInv
  <2> QED
    BY <1>1, <2>1, <2>3 DEF Doomed, memory
<1>8. Tree'
  BY <1>1, <1>2, <1>3, <1>4, <1>7, ExpandQuietTree DEF Safe, memory, expandVars
<1> QED
  BY <1>3, <1>5, <1>6, <1>8 DEF Safe, Base

\* The threads in expand_wait_cv.wait are those that are to be woken.
Waiters == \A u \in Threads : u \in waiting => th[u].pc = "wait"

\* Every step keeps it so.
LEMMA WaitersStep == ASSUME Inv, Waiters, [Next]_vars PROVE Waiters'
<1>0. Shape
  BY DEF Inv
<1>1. ASSUME NEW t \in Threads, th[t].pc # "wait", UNCHANGED waiting,
             \A u \in Threads \ {t} : th'[u] = th[u]
      PROVE  Waiters'
  BY <1>1 DEF Waiters
<1>2. ASSUME NEW t \in Threads, NEW c \in Calls, Start(t, c[1], c[2]) PROVE Waiters'
  BY <1>0, <1>1, <1>2 DEF Start, Shape
<1>3. ASSUME NEW t \in Threads, NEW p, Go(t, p) PROVE \A u \in Threads \ {t} : th'[u] = th[u]
  BY <1>0, <1>3 DEF Go, Shape
<1>4. ASSUME NEW t \in Threads, Wild(t), th[t].pc # "wait" PROVE Waiters'
  BY <1>1, <1>3, <1>4 DEF Wild
<1>5. ASSUME NEW t \in Threads, Retry(t) \/ LockPointer(t) \/ Lock(t) \/ Check(t) \/ Link(t) PROVE Waiters'
  <2>1. CASE Retry(t)
    BY <1>1, <1>3, <2>1 DEF Retry
  <2>2. CASE LockPointer(t)
    BY <1>0, <1>1, <2>2 DEF LockPointer, Shape
  <2>3. CASE Lock(t)
    BY <1>1, <1>3, <1>4, <2>3 DEF Lock
  <2>4. CASE Check(t)
    BY <1>0, <1>1, <2>4 DEF Check, Shape
  <2>5. CASE Link(t)
    BY <1>1, <1>3, <1>4, <2>5 DEF Link
  <2> QED
    BY <1>5, <2>1, <2>2, <2>3, <2>4, <2>5
<1>6. ASSUME NEW t \in Threads, Find(t) \/ Get(t) \/ GetSlow(t) PROVE Waiters'
  <2>1. CASE Wild(t)
    BY <1>4, <1>6, <2>1 DEF Find, Get, GetSlow
  <2>2. CASE ~Wild(t)
    BY <1>0, <1>1, <1>6, <2>2 DEF Find, Get, GetSlow, Shape
  <2> QED
    BY <2>1, <2>2
<1>7. ASSUME NEW t \in Threads, Put(t) \/ UpdateDelete(t) PROVE Waiters'
  <2>1. CASE Wild(t)
    BY <1>4, <1>7, <2>1 DEF Put, UpdateDelete
  <2>2. CASE ~Wild(t)
    BY <1>0, <1>1, <1>7, <2>2 DEF Put, PutRoom, PutFull, PutSplit, UpdateDelete, Shape
  <2> QED
    BY <2>1, <2>2
<1>8. ASSUME NEW t \in Threads, Unlock(t) PROVE Waiters'
  <2>1. CASE Wild(t)
    BY <1>4, <1>8, <2>1 DEF Unlock
  <2>2. CASE ~Wild(t)
    BY <1>0, <1>1, <1>8, <2>2 DEF Unlock, Shape
  <2> QED
    BY <2>1, <2>2
<1>9. ASSUME NEW t \in Threads, Block(t) \/ SpuriousWake(t) PROVE Waiters'
  <2>1. \A u \in Threads \ {t} : th'[u] = th[u]
    BY <1>3, <1>9 DEF Block, SpuriousWake
  <2>2. Block(t) => th'[t].pc = "wait"
    BY <1>0, GoMoves DEF Block
  <2> QED
    BY <1>9, <2>1, <2>2 DEF Block, SpuriousWake, Waiters
<1>10. ASSUME NEW t \in Threads,
              \/ ExpandEnter(t) \/ ExpandTrain(t) \/ ExpandCount(t) \/ ExpandCopy(t)
              \/ ExpandFree(t) \/ ExpandPublishGroups(t) \/ ExpandPublishLocks(t) \/ ExpandClear(t)
       PROVE  Waiters'
  <2>1. UNCHANGED waiting /\ th[t].pc # "wait"
    BY <1>10 DEF ExpandEnter, ExpandTrain, ExpandCount, ExpandCopy, ExpandFree,
                 ExpandPublishGroups, ExpandPublishLocks, ExpandClear
  <2>2. UNCHANGED th \/ \E p : Go(t, p)
    BY <1>10 DEF ExpandEnter, ExpandTrain, ExpandCount, ExpandCopy, ExpandFree,
                 ExpandPublishGroups, ExpandPublishLocks, ExpandClear
  <2> QED
    BY <1>1, <1>3, <2>1, <2>2
<1>11. ASSUME NEW t \in Threads, ExpandNotify(t) PROVE Waiters'
  BY <1>11 DEF ExpandNotify, Waiters
<1>12. CASE UNCHANGED vars
  BY <1>12 DEF vars, Waiters
<1> QED
  BY <1>2, <1>5, <1>6, <1>7, <1>8, <1>9, <1>10, <1>11, <1>12 DEF Next, Operation, ExpandTree

\* notify_all: the waiters look for their groups, the one who expanded begins anew.
LEMMA NotifySafe == ASSUME Inv, Waiters, Safe, NEW t \in Threads, ExpandNotify(t) PROVE Safe'
<1>1. th[t].pc = "notify" /\ UNCHANGED <<flag, memory, locked, expandVars, acked>>
  BY DEF ExpandNotify
<1>2. Base /\ TypeInv /\ th \in [Threads -> Locals]
  BY DEF Safe, Base, TypeInv
<1>3. ASSUME NEW u \in Threads
      PROVE  \/ th'[u] = th[u]
             \/ /\ th[u].pc \in {"wait", "notify"} /\ th'[u] \in Locals /\ th'[u].pc \in {"find", "begin"}
                /\ th'[u].op = th[u].op /\ th'[u].key = th[u].key /\ th'[u].wv = th[u].wv
  <2> DEFINE R(p) == [th[u] EXCEPT !.pc = p]
  <2>1. th[u] \in Locals
    BY <1>2
  <2>2. ASSUME NEW p \in {"find", "begin"}
        PROVE  R(p) \in Locals /\ R(p).pc = p /\ R(p).op = th[u].op /\ R(p).key = th[u].key
               /\ R(p).wv = th[u].wv
    BY <2>1 DEF Locals, PCs
  <2>3. \/ u \in waiting /\ th'[u] = R("find")
        \/ u = t /\ th'[u] = R("begin")
        \/ th'[u] = th[u]
    BY DEF ExpandNotify
  <2> HIDE DEF R
  <2> QED
    BY <1>1, <2>2, <2>3 DEF Waiters
<1>4. th' \in [Threads -> Locals]
  <2>1. \A u \in Threads : th'[u] \in Locals
    BY <1>2, <1>3
  <2>2. th' = [u \in Threads |-> th'[u]]
    BY DEF ExpandNotify
  <2> QED
    BY <2>1, <2>2
<1>5. ASSUME NEW P \in SUBSET Rebuilding PROVE IsAt(P)' <=> IsAt(P)
  <2>1. \A u \in Threads : th'[u].pc \in P <=> th[u].pc \in P
    BY <1>3 DEF Rebuilding, ExpandSteps
  <2> QED
    BY <2>1 DEF IsAt
<1>6. /\ IsAt(Trained)' <=> IsAt(Trained)
      /\ IsAt(Copies)' <=> IsAt(Copies)
      /\ IsAt({"free", "groups"})' <=> IsAt({"free", "groups"})
      /\ IsAt({"groups"})' <=> IsAt({"groups"})
      /\ IsAt({"locks"})' <=> IsAt({"locks"})
      /\ IsAt({"locks", "clear"})' <=> IsAt({"locks", "clear"})
  BY <1>5, StepSets
<1>7. TypeInv' /\ VersionInv'
  BY <1>1, <1>2, <1>4, <1>6 DEF Base, TypeInv, VersionInv, memory, expandVars
<1>8. ThreadInv'
  <2> SUFFICES ASSUME NEW u \in Threads
               PROVE  ThreadOK(th'[u], space, gs, locked, ls, IsAt({"locks", "clear"})')
    BY <1>1 DEF ThreadInv, memory
  <2>1. ThreadOK(th[u], space, gs, locked, ls, IsAt({"locks", "clear"}))
    BY <1>2 DEF Base, ThreadInv
  <2>2. CASE th'[u] = th[u]
    BY <1>6, <2>1, <2>2 DEF ThreadOK, NewOK
  <2>3. CASE th'[u] # th[u]
    BY <1>3, <2>1, <2>3 DEF ThreadOK, LocalOK, GroupOK, LockOK, NewOK, HasGroup, HasLock
  <2> QED
    BY <2>2, <2>3
<1>9. PairInv'
  <2> SUFFICES ASSUME NEW u \in Threads, NEW v \in Threads, u # v PROVE PairOK(th'[u], th'[v])
    BY DEF PairInv
  <2>1. PairOK(th[u], th[v])
    BY <1>2 DEF Base, PairInv
  <2>2. \A w \in Threads : /\ th'[w].pc \in HasLock => th'[w] = th[w]
                           /\ th'[w].op = th[w].op /\ th'[w].key = th[w].key
                           /\ th'[w].pc # "idle" => th[w].pc # "idle"
    BY <1>3 DEF HasLock
  <2> QED
    BY <2>1, <2>2 DEF PairOK
<1>10. RoomInv'
  <2>1. RoomInv /\ UNCHANGED <<space, gs, model, xnew, xres, xpos, xat>>
    BY <1>1 DEF Safe, memory, expandVars
  <2>2. (IsAt(Copies)' <=> IsAt(Copies)) /\ (IsAt({"free", "groups"})' <=> IsAt({"free", "groups"}))
    BY <1>6
  <2> QED
    BY <2>1, <2>2 DEF RoomInv, Reserved
<1>11. Tree'
  <2>1. \A u \in Threads : Doomed(u) => Doomed(u)'
    BY <1>1, <1>3 DEF Doomed, memory
  <2>2. Tree /\ (Calm => \A k \in acked' : Kept(k))
    BY <1>1 DEF Safe, Tree, Core, KeyInv
  <2>3. \A u \in Threads :
            th'[u] = th[u] \/ /\ th[u].pc # "link" /\ th'[u].pc # "link"
                              /\ ~(th'[u].pc = "unlock" /\ th'[u].ret = "ok")
                              /\ OwnOK(th'[u], space[gs], gs, IsAt(Trained))
    BY <1>3 DEF OwnOK
  <2> QED
    BY <1>1, <1>6, <2>1, <2>2, <2>3, QuietTree DEF memory, expandVars
<1> QED
  BY <1>7, <1>8, <1>9, <1>10, <1>11 DEF Safe, Base

----------------------------------------------------------------------------
(* Steps inside a group.                                                   *)

\* A thread that has the lock of a group works on the groups and buckets.
LEMMA WorkStep ==
  ASSUME Inv, Base, NEW t \in Threads, NEW r \in Locals, th' = [th EXCEPT ![t] = r],
         th[t].pc \in HasLock, r.pc \in HasLock, r.op = th[t].op, r.key = th[t].key,
         r.lv = th[t].lv, r.gid = th[t].gid, r.gv = th[t].gv, LocalOK(r),
         NewOK(r, gs, IsAt({"locks", "clear"})),
         UNCHANGED <<flag, model, locked, freed, gs, ls, expandVars>>,
         bkt' \in Seq(SUBSET Keys), \A b \in 1..Len(bkt') : IsFiniteSet(bkt'[b]),
         acked' \in SUBSET Keys, space' \in Seq(Groups), Len(space') = Len(space),
         \A v \in 1..gs : Len(space'[v]) = Len(space[v]),
         \A g \in 1..Len(space[gs]) : space[gs][g] # <<>> => space'[gs][g] # <<>>
  PROVE  /\ Base' /\ Moves(t) /\ th'[t] = r
         /\ \A P \in SUBSET Rebuilding : IsAt(P)' <=> IsAt(P)
<1>1. TypeInv /\ PairInv /\ VersionInv /\ th[t].pc \notin Rebuilding /\ r.pc \notin Rebuilding /\ th[t].pc # "idle"
  BY DEF Base, HasLock, Rebuilding, ExpandSteps
<1>2. Moves(t) /\ th'[t] = r /\ th' \in [Threads -> Locals]
  BY <1>1, RecordMoves
<1>3. ASSUME NEW P \in SUBSET Rebuilding PROVE IsAt(P)' <=> IsAt(P)
  <2>1. th'[t].pc \in P <=> th[t].pc \in P
    BY <1>1, <1>2
  <2> QED
    BY <1>2, <2>1, AtKept
<1>4. /\ IsAt({"groups"})' <=> IsAt({"groups"})
      /\ IsAt({"locks"})' <=> IsAt({"locks"})
      /\ IsAt({"locks", "clear"})' <=> IsAt({"locks", "clear"})
  BY <1>3, StepSets
<1>5. TypeInv'
  BY <1>1, <1>2 DEF TypeInv, expandVars
<1>6. VersionInv'
  <2>1. gs \in 1..gs /\ gs' = gs
    BY <1>1 DEF VersionInv
  <2>2. \E g \in 1..Len(space'[gs]) : space'[gs][g] # <<>>
    BY <1>1, <2>1 DEF VersionInv
  <2> QED
    BY <1>1, <1>4, <2>1, <2>2 DEF VersionInv
<1>7. \A u \in Threads \ {t} : PairOK(r, th[u]) /\ PairOK(th[u], r)
  BY <1>1, PairKept
<1>8. /\ gs' = gs /\ ls' = ls /\ locked' = locked /\ gs \in Nat /\ ls \in Nat /\ gs <= gs /\ ls <= ls
  BY <1>1 DEF VersionInv
<1>9. GroupOK(r, space', gs) /\ LockOK(r, locked, ls) /\ NewOK(r, gs, IsAt({"locks", "clear"})')
  <2>1. GroupOK(th[t], space, gs) /\ LockOK(th[t], locked, ls)
    BY ThreadFacts
  <2> QED
    BY <1>4, <1>8, <2>1 DEF GroupOK, LockOK, NewOK, HasLock, HasGroup
<1>10. \A u \in Threads \ {t} : /\ th[u].pc \in HasLock => th[u].gid \in locked[th[u].lv]
                                /\ NewOK(th[u], gs, IsAt({"locks", "clear"})')
  BY <1>4, ThreadFacts DEF LockOK, NewOK
<1>11. ThreadInv' /\ PairInv'
  BY <1>2, <1>7, <1>8, <1>9, <1>10, BaseThreads
<1> QED
  BY <1>2, <1>3, <1>5, <1>6, <1>11 DEF Base

\* The groups that are copied from stay as they are.
LEMMA RoomKept ==
  ASSUME Inv, RoomInv, UNCHANGED <<gs, model, expandVars>>,
         \A P \in SUBSET Rebuilding : IsAt(P)' <=> IsAt(P),
         flag => space'[gs] = space[gs]
  PROVE  RoomInv'
<1>1. (IsAt(Copies)' <=> IsAt(Copies)) /\ (IsAt({"free", "groups"})' <=> IsAt({"free", "groups"}))
  BY StepSets
<1>2. IsAt(Copies) \/ IsAt({"free", "groups"}) => flag
  BY AtFlag, StepSets
<1>3. CASE flag
  BY <1>1, <1>3, SMTT(30) DEF RoomInv, expandVars, Reserved
<1>4. CASE ~flag
  BY <1>1, <1>2, <1>4 DEF RoomInv, expandVars
<1> QED
  BY <1>3, <1>4 DEF Inv

\* What a thread that has a lock works on.
LEMMA TargetFacts ==
  ASSUME Base, NEW t \in Threads, th[t].pc = "work", InGroups(t)
  PROVE  LET v == WorkVersion(t)  g == th[t].gid  i == TargetEntry(t) IN
         /\ v = gs /\ g \in 1..Len(space[gs]) /\ i \in 1..Len(space[gs][g])
         /\ TargetGroup(t) = space[gs][g] /\ TargetBucket(t) = space[gs][g][i].b
         /\ space[gs][g] # <<>> /\ th[t].key \in Keys
         /\ space[gs][g][i].low <= th[t].key \/
              (i = 1 /\ \A j \in 1..Len(space[gs][g]) : th[t].key < space[gs][g][j].low)
         /\ \A j \in 1..Len(space[gs][g]) : space[gs][g][j].low <= th[t].key => j <= i
<1> DEFINE v == WorkVersion(t)  g == th[t].gid  i == TargetEntry(t)
<1>1. th[t] \in Locals /\ LocalOK(th[t]) /\ GroupOK(th[t], space, gs)
  BY ThreadFacts
<1>2. v \notin freed /\ g <= Len(space[v]) /\ space[v][g] # <<>>
  BY DEF InGroups, Live
<1>3. gs \in Nat /\ gs = Len(space) /\ gs \in 1..gs /\ \A w \in 1..gs : w < gs => w \in freed
  BY DEF Base, VersionInv
<1>4. v \in 1..gs /\ g \in Nat /\ g >= 1
  BY <1>1, <1>3 DEF WorkVersion, LocalOK, GroupOK, HasGroup
<1>5. v = gs
  BY <1>2, <1>3, <1>4
<1>6. space[gs] \in Groups /\ Len(space[gs]) \in Nat
  BY CurrentFacts, EntryFacts
<1>7. g \in 1..Len(space[gs]) /\ TargetGroup(t) = space[gs][g]
  BY <1>2, <1>4, <1>5, <1>6 DEF TargetGroup
<1>8. th[t].key \in Keys /\ th[t].key \in Nat
  BY <1>1, ConstantFacts DEF LocalOK
<1>9. space[gs][g] \in Seq(Entries) /\ space[gs][g] # <<>>
  BY <1>2, <1>5, <1>6, <1>7, EntryFacts
<1>10. i = FindEntry(space[gs][g], th[t].key) /\ TargetBucket(t) = space[gs][g][i].b
  BY <1>7 DEF TargetEntry, TargetBucket
<1> QED
  BY <1>5, <1>7, <1>8, <1>9, <1>10, FindEntryFact

\* One bucket is set anew, if there is one of that number.
SetBucket(b, S) == bkt' = [bkt EXCEPT ![b] = S]

\* The other buckets stay.
LEMMA BucketSet ==
  ASSUME TypeInv, NEW b, NEW S, b \in 1..Len(bkt) => S \in SUBSET Keys, SetBucket(b, S)
  PROVE  /\ bkt' \in Seq(SUBSET Keys) /\ Len(bkt') = Len(bkt)
         /\ \A c \in 1..Len(bkt) : bkt'[c] = IF c = b THEN S ELSE bkt[c]
<1>1. Len(bkt) \in Nat /\ DOMAIN bkt = 1..Len(bkt) /\ \A c \in 1..Len(bkt) : bkt[c] \in SUBSET Keys
  BY DEF TypeInv
<1>2. bkt' = [c \in 1..Len(bkt) |-> IF c = b THEN S ELSE bkt[c]]
  BY <1>1 DEF SetBucket
<1>3. /\ DOMAIN bkt' = 1..Len(bkt)
      /\ \A c \in 1..Len(bkt) : bkt'[c] = (IF c = b THEN S ELSE bkt[c]) /\ bkt'[c] \in SUBSET Keys
  BY <1>1, <1>2
<1>4. bkt' \in [1..Len(bkt) -> SUBSET Keys]
  BY <1>2, <1>3
<1>5. bkt' \in Seq(SUBSET Keys) /\ Len(bkt') = Len(bkt)
  BY <1>1, <1>4
<1> QED
  BY <1>3, <1>5

\* Update and Delete: at most the key itself is taken out of its bucket.
LEMMA UpdateDeleteSafe ==
  ASSUME Inv, Safe, NEW t \in Threads, UpdateDelete(t), ~strayed'
  PROVE  Safe'
<1> DEFINE b == TargetBucket(t)
           gone == {th[t].key} \cap (IF th[t].op = "delete" THEN bkt[b] ELSE {})
           r == [th[t] EXCEPT !.pc = "unlock", !.ret = "done"]
           G == space[gs]
<1>1. /\ th[t].pc = "work" /\ th[t].op # "put" /\ th[t].op # "get" /\ InGroups(t)
      /\ bkt' = [bkt EXCEPT ![b] = @ \ gone] /\ acked' = acked \ gone
      /\ th' = [th EXCEPT ![t].pc = "unlock", ![t].ret = "done"]
      /\ UNCHANGED <<flag, model, space, locked, freed, gs, ls, expandVars>>
  BY DEF UpdateDelete, Wild
<1>2. Base /\ RoomInv /\ TypeInv /\ bkt \in Seq(SUBSET Keys) /\ acked \in SUBSET Keys
  BY DEF Safe, Base, TypeInv
<1>3. th[t] \in Locals /\ LocalOK(th[t])
  BY <1>2, ThreadFacts
<1>4. /\ r \in Locals /\ r.pc = "unlock" /\ r.ret = "done" /\ r.op = th[t].op /\ r.key = th[t].key
      /\ r.wv = th[t].wv /\ r.gid = th[t].gid /\ r.gv = th[t].gv /\ r.lv = th[t].lv
  BY <1>3 DEF Locals, PCs
<1>5. th' = [th EXCEPT ![t] = r]
  BY <1>1
<1> HIDE DEF r
<1>6. gone \subseteq {th[t].key}
  OBVIOUS
<1>7. th[t].gid \in 1..Len(G) /\ \E i \in 1..Len(G[th[t].gid]) : b = G[th[t].gid][i].b
  BY <1>1, <1>2, TargetFacts
<1> HIDE DEF gone, b
<1>8. /\ Len(bkt') = Len(bkt) /\ bkt' \in Seq(SUBSET Keys)
      /\ \A c \in 1..Len(bkt) : /\ bkt'[c] \subseteq bkt[c] /\ bkt[c] \ {th[t].key} \subseteq bkt'[c]
                                /\ c # b => bkt'[c] = bkt[c]
                                /\ bkt[c] \ gone \subseteq bkt'[c]
  <2>3. bkt' = [bkt EXCEPT ![b] = bkt[b] \ gone]
    BY <1>1
  <2>4. bkt \in Seq(SUBSET Keys) /\ (b \in 1..Len(bkt) => bkt[b] \ gone \in SUBSET Keys)
    BY <1>2
  <2>1. /\ bkt' \in Seq(SUBSET Keys) /\ Len(bkt') = Len(bkt)
        /\ \A c \in 1..Len(bkt) : bkt'[c] = IF c = b THEN bkt[b] \ gone ELSE bkt[c]
    <3> DEFINE S == bkt[b] \ gone
    <3>1. SetBucket(b, S)
      BY <2>3 DEF SetBucket
    <3>3. b \in 1..Len(bkt) => S \in SUBSET Keys
      BY <2>4
    <3> HIDE DEF S
    <3>2. /\ bkt' \in Seq(SUBSET Keys) /\ Len(bkt') = Len(bkt)
          /\ \A c \in 1..Len(bkt) : bkt'[c] = IF c = b THEN S ELSE bkt[c]
      BY <1>2, <3>1, <3>3, BucketSet
    <3> QED
      BY <3>2 DEF S
  <2> QED
    BY <1>6, <2>1
<1>9. \A c \in 1..Len(bkt') : IsFiniteSet(bkt'[c])
  BY <1>2, <1>8, FS_Subset DEF TypeInv
<1>10. LocalOK(r) /\ NewOK(r, gs, IsAt({"locks", "clear"}))
  BY <1>1, <1>3, <1>4 DEF LocalOK, NewOK, HasGroup
<1>11. /\ Base' /\ Moves(t) /\ th'[t] = r
       /\ \A P \in SUBSET Rebuilding : IsAt(P)' <=> IsAt(P)
  <2>1. /\ th[t].pc \in HasLock /\ r.pc \in HasLock /\ space' \in Seq(Groups) /\ acked' \in SUBSET Keys
        /\ \A v \in 1..gs : Len(space'[v]) = Len(space[v])
    BY <1>1, <1>2, <1>4 DEF HasLock, TypeInv
  <2> QED
    BY <1>1, <1>2, <1>4, <1>5, <1>8, <1>9, <1>10, <2>1, WorkStep
<1>12. RoomInv'
  BY <1>1, <1>2, <1>11, RoomKept
<1>13. Tree'
  <2>1. \A u \in Threads \ {t} : th'[u] = th[u]
    BY <1>11 DEF Moves
  <2>2. \A u \in Threads : Doomed(u) <=> Doomed(u)'
    BY <1>1, <1>4, <1>11, <2>1, ZenonT(30) DEF Doomed
  <2>3. Tree /\ G \in Groups
    BY <1>2, CurrentFacts DEF Safe
  <2>4. (IsAt(Trained)' <=> IsAt(Trained)) /\ (IsAt(Copies)' <=> IsAt(Copies))
    BY <1>11, StepSets
  <2>5. OwnInv'
    BY <1>1, <1>4, <1>11, <2>1, <2>3, <2>4, ZenonT(30) DEF Tree, Core, OwnInv, OwnOK
  <2>6. ASSUME NEW u \in Threads, th'[u].pc = "link", ~Doomed(u)
        PROVE  /\ u # t /\ th'[u] = th[u] /\ SplitOK(th[u], G, bkt, gs) /\ th[u].nb # b
               /\ th[u].nb \in 1..Len(bkt)
    <3>1. u # t /\ th'[u] = th[u] /\ SplitOK(th[u], G, bkt, gs)
      BY <1>4, <1>11, <2>1, <2>3, <2>6 DEF Tree, Core, SplitInv
    <3> QED
      BY <1>7, <2>6, <3>1 DEF SplitOK, Loose
  <2>7. \A g \in 1..Len(G) : \A i \in 1..Len(G[g]) : G[g][i].b \in 1..Len(bkt)
    BY <2>3 DEF Tree, Core, TreeInv, Sound, InRange
  <2>8. SplitInv'
    <3>1. ASSUME NEW u \in Threads, th'[u].pc = "link", ~Doomed(u) PROVE SplitOK(th'[u], G, bkt', gs)
      <4>1. /\ th'[u] = th[u] /\ SplitOK(th[u], G, bkt, gs) /\ bkt'[th[u].nb] = bkt[th[u].nb]
            /\ Len(bkt') = Len(bkt)
        BY <1>8, <2>6, <3>1
      <4>2. \A g \in 1..Len(G) : \A i \in 1..Len(G[g]) : bkt'[G[g][i].b] \subseteq bkt[G[g][i].b]
        BY <1>8, <2>7, ZenonT(30)
      <4> HIDE DEF G
      <4> QED
        BY <3>1, <4>1, <4>2 DEF SplitOK
    <3>2. \A u \in Threads : ~Doomed(u)' => SplitOK(th'[u], G, bkt', gs)
      BY <2>2, <3>1 DEF SplitOK
    <3>3. \A u, v \in Threads : u # v /\ th'[u].pc = "link" /\ th'[v].pc = "link"
            /\ ~Doomed(u)' /\ ~Doomed(v)' => th'[u].nb # th'[v].nb
      BY <2>2, <2>3, <2>6 DEF Tree, Core, SplitInv
    <3> QED
      BY <1>1, <3>2, <3>3 DEF SplitInv
  <2>9. ASSUME Calm, NEW k, Kept(k), k \notin gone PROVE Kept(k)'
    <3>1. ASSUME Within(k, G, bkt) PROVE Within(k, G, bkt')
      BY <1>8, <2>7, <2>9, <3>1 DEF Within
    <3>2. ASSUME NEW u \in Threads, th[u].pc = "link", k \in bkt[th[u].nb]
          PROVE  th'[u].pc = "link" /\ k \in bkt'[th'[u].nb]
      <4>1. u # t /\ th'[u] = th[u]
        BY <1>1, <2>1, <3>2
      <4> QED
        BY <1>8, <2>6, <2>9, <3>2, <4>1 DEF Calm
    <3> QED
      BY <1>1, <2>9, <3>1, <3>2 DEF Kept
  <2>10. ASSUME Calm' PROVE KeyInv'
    <3>0. Calm
      BY <2>2, <2>10 DEF Calm
    <3>1. \A k \in acked' : Kept(k)'
      BY <1>1, <2>3, <2>9, <3>0 DEF Tree, Core, KeyInv
    <3>2. ASSUME NEW u \in Threads, th'[u].pc = "unlock", th'[u].ret = "ok"
          PROVE  Kept(th[u].key)' /\ th'[u] = th[u]
      <4>1. u # t /\ th'[u] = th[u]
        BY <1>4, <1>11, <2>1, <3>2
      <4>2. LocalOK(th[u]) /\ PairOK(th[t], th[u])
        BY <1>2, <4>1, ThreadFacts DEF Base, PairInv
      <4>3. th[u].key # th[t].key
        BY <1>1, <3>2, <4>1, <4>2 DEF PairOK, LocalOK, HasGroup
      <4>4. PICK k : k = th[u].key
        OBVIOUS
      <4>5. Kept(k)
        BY <2>3, <3>0, <3>2, <4>1, <4>4 DEF Tree, Core, KeyInv
      <4>6. Kept(k)'
        BY <1>6, <3>0, <2>9, <4>3, <4>4, <4>5
      <4> QED
        BY <4>1, <4>4, <4>6
    <3> QED
      BY <3>1, <3>2 DEF KeyInv
  <2>11. TreeInv'
    <3>1. Sound(G, bkt')
      BY <1>8, <2>3, <2>7 DEF Tree, Core, TreeInv, Sound, InRange
    <3> QED
      BY <1>1, <2>3, <2>4, <3>1 DEF Tree, Core, TreeInv
  <2>12. CopyInv'
    BY <1>1, <2>3, <2>4 DEF Tree, Core, CopyInv, expandVars
  <2> QED
    BY <2>5, <2>8, <2>10, <2>11, <2>12 DEF Tree, Core
<1> QED
  BY <1>11, <1>12, <1>13 DEF Safe

\* H is G with the key of one entry set anew.
Rekeyed(G, H, g, i, l) ==
  /\ H \in Groups /\ Len(H) = Len(G)
  /\ \A h \in 1..Len(G) :
       /\ Len(H[h]) = Len(G[h]) /\ (H[h] = <<>> <=> G[h] = <<>>)
       /\ \A j \in 1..Len(G[h]) : /\ H[h][j].b = G[h][j].b
                                  /\ H[h][j].low = IF h = g /\ j = i THEN l ELSE G[h][j].low

\* The assignment to an entry's key.
Rekey(G, g, i, l) == [G EXCEPT ![g][i].low = l]

\* It sets that key and leaves the others.
LEMMA RekeyFact ==
  ASSUME NEW G \in Groups, NEW g \in 1..Len(G), NEW i \in 1..Len(G[g]), NEW l \in Keys
  PROVE  /\ Rekeyed(G, Rekey(G, g, i, l), g, i, l)
         /\ l = G[g][i].low => Rekey(G, g, i, l) = G
<1> DEFINE e == G[g][i]
           d == [e EXCEPT !.low = l]
           K == [G[g] EXCEPT ![i] = d]
           H == [G EXCEPT ![g] = K]
<1>1. /\ Len(G) \in Nat /\ G[g] \in Seq(Entries) /\ Len(G[g]) \in Nat /\ e \in Entries
      /\ DOMAIN G = 1..Len(G) /\ G \in Seq(Seq(Entries))
      /\ \A h \in 1..Len(G) : G[h] \in Seq(Entries) /\ Len(G[h]) \in Nat
  BY EntryFacts DEF Groups
<1>2. d \in Entries /\ d.low = l /\ d.b = e.b /\ (l = e.low => d = e)
  BY <1>1 DEF Entries
<1>3. H = Rekey(G, g, i, l)
  BY DEF Rekey
<1> HIDE DEF d
<1>4. /\ K \in Seq(Entries) /\ Len(K) = Len(G[g]) /\ (K = <<>> <=> G[g] = <<>>)
      /\ \A j \in 1..Len(G[g]) : K[j] = IF j = i THEN d ELSE G[g][j]
  BY <1>1, <1>2
<1>5. d = e => K = G[g]
  BY <1>1
<1> HIDE DEF K
<1>6. H \in Groups /\ Len(H) = Len(G) /\ \A h \in 1..Len(G) : H[h] = IF h = g THEN K ELSE G[h]
  BY <1>1, <1>4 DEF Groups
<1>7. K = G[g] => H = G
  BY <1>1
<1> HIDE DEF H
<1>8. Rekeyed(G, H, g, i, l)
  BY <1>2, <1>4, <1>6 DEF Rekeyed
<1> QED
  BY <1>2, <1>3, <1>5, <1>7, <1>8

\* The entry keys afterwards.
LEMMA RekeyedKeys ==
  ASSUME NEW G \in Groups, NEW H, NEW g \in 1..Len(G), NEW i \in 1..Len(G[g]), NEW l \in Keys,
         Rekeyed(G, H, g, i, l)
  PROVE  \A x \in EntryKeys(H) :
           x = l \/ \E h \in 1..Len(G) : \E j \in 1..Len(G[h]) : ~(h = g /\ j = i) /\ x = G[h][j].low
<1> SUFFICES ASSUME NEW x \in EntryKeys(H)
             PROVE  x = l \/ \E h \in 1..Len(G) : \E j \in 1..Len(G[h]) : ~(h = g /\ j = i) /\ x = G[h][j].low
  OBVIOUS
<1>0. H \in Groups /\ Len(H) = Len(G)
  BY DEF Rekeyed
<1>1. PICK h \in 1..Len(H) : \E j \in 1..Len(H[h]) : x = H[h][j].low
  BY <1>0, EntryKeysFact
<1>2. PICK j \in 1..Len(H[h]) : x = H[h][j].low
  BY <1>1
<1>3. h \in 1..Len(G) /\ j \in 1..Len(G[h]) /\ x = IF h = g /\ j = i THEN l ELSE G[h][j].low
  BY <1>0, <1>2 DEF Rekeyed
<1> QED
  BY <1>3

\* A sound tree, said of places: the entry (g, i) comes before the entry (h, j).
Before(g, i, h, j) == g < h \/ (g = h /\ i < j)

Placed(G, B) ==
  /\ OneEntryEach(G) /\ \E g \in 1..Len(G) : G[g] # <<>>
  /\ \A g \in 1..Len(G) : \A i \in 1..Len(G[g]) :
       G[g][i].b \in 1..Len(B) /\ \A k \in B[G[g][i].b] : G[g][i].low <= k
  /\ \A g, h \in 1..Len(G) : \A i \in 1..Len(G[g]), j \in 1..Len(G[h]) : Before(g, i, h, j) =>
       G[g][i].low < G[h][j].low /\ \A k \in B[G[g][i].b] : k < G[h][j].low

\* Of two entries one comes first.
LEMMA PlacesOrdered ==
  ASSUME NEW G \in Groups, NEW g \in 1..Len(G), NEW i \in 1..Len(G[g]),
         NEW h \in 1..Len(G), NEW j \in 1..Len(G[h])
  PROVE  Before(g, i, h, j) \/ Before(h, j, g, i) \/ (g = h /\ i = j)
<1>1. g \in Nat /\ h \in Nat /\ i \in Nat /\ j \in Nat
  BY EntryFacts
<1> QED
  BY <1>1 DEF Before

\* The two ways to say it are the same.
LEMMA SoundIsPlaced ==
  ASSUME NEW G \in Groups, NEW B
  PROVE  Sound(G, B) <=> Placed(G, B)
<1>0. \A g \in 1..Len(G) : \A i \in 1..Len(G[g]) : G[g][i].low \in EntryKeys(G) /\ G[g][i].low \in Nat
  BY EntryKeysFact, EntryFacts
<1>1. ASSUME Sound(G, B) PROVE Placed(G, B)
  <2>1. ASSUME NEW g \in 1..Len(G), NEW h \in 1..Len(G), NEW i \in 1..Len(G[g]), NEW j \in 1..Len(G[h]),
               Before(g, i, h, j)
        PROVE  G[g][i].low < G[h][j].low /\ \A k \in B[G[g][i].b] : k < G[h][j].low
    <3>1. G[g][i].low < G[h][j].low
      BY <1>1, <2>1 DEF Sound, Ascending, Before
    <3> QED
      BY <1>0, <1>1, <2>1, <3>1 DEF Sound, InRange
  <2> QED
    BY <1>1, <2>1 DEF Sound, InRange, Placed
<1>2. ASSUME Placed(G, B) PROVE Sound(G, B)
  <2>1. Ascending(G)
    BY <1>2 DEF Placed, Ascending, Before
  <2>2. ASSUME NEW g \in 1..Len(G), NEW i \in 1..Len(G[g]), NEW k \in B[G[g][i].b],
               NEW x \in EntryKeys(G), G[g][i].low < x
        PROVE  k < x
    <3>1. PICK h \in 1..Len(G) : \E j \in 1..Len(G[h]) : x = G[h][j].low
      BY EntryKeysFact
    <3>2. PICK j \in 1..Len(G[h]) : x = G[h][j].low
      BY <3>1
    <3>3. ~(G[h][j].low < G[g][i].low) /\ G[g][i].low # G[h][j].low
      BY <1>0, <2>2, <3>2
    <3>4. ~Before(h, j, g, i) /\ ~(g = h /\ i = j)
      BY <1>2, <3>3 DEF Placed
    <3>5. Before(g, i, h, j)
      BY <3>4, PlacesOrdered
    <3> QED
      BY <1>2, <3>2, <3>5 DEF Placed
  <2>3. InRange(G, B)
    BY <1>2, <2>2 DEF Placed, InRange
  <2> QED
    BY <1>2, <2>1, <2>3 DEF Placed, Sound
<1> QED
  BY <1>1, <1>2

\* C has the key k in its bucket b, and else what B has.
Added(B, C, b, k) ==
  Len(C) = Len(B) /\ \A c \in 1..Len(B) : C[c] = IF c = b THEN B[c] \cup {k} ELSE B[c]

\* The entry (g, i) may get the key k, and the entry key l.
Fits(G, B, g, i, k, l) ==
  /\ l <= G[g][i].low /\ l <= k
  /\ \A h \in 1..Len(G) : \A j \in 1..Len(G[h]) :
       /\ Before(g, i, h, j) => k < G[h][j].low
       /\ Before(h, j, g, i) => G[h][j].low < l /\ \A y \in B[G[h][j].b] : y < l

\* A key goes into the bucket of an entry that comes last of those not above it; the
\* key of the entry may be lowered to it.
LEMMA PutPlaced ==
  ASSUME NEW G \in Groups, NEW B, Placed(G, B), NEW g \in 1..Len(G), NEW i \in 1..Len(G[g]),
         NEW H, NEW k \in Keys, NEW l \in Keys, Rekeyed(G, H, g, i, l), Fits(G, B, g, i, k, l),
         NEW C, Added(B, C, G[g][i].b, k), \A b \in 1..Len(B) : B[b] \subseteq Keys
  PROVE  Placed(H, C)
<1>0. /\ l <= G[g][i].low /\ l <= k /\ Len(C) = Len(B)
      /\ \A b \in 1..Len(B) : C[b] = IF b = G[g][i].b THEN B[b] \cup {k} ELSE B[b]
      /\ \A h \in 1..Len(G) : \A j \in 1..Len(G[h]) :
           /\ Before(g, i, h, j) => k < G[h][j].low
           /\ Before(h, j, g, i) => G[h][j].low < l /\ \A y \in B[G[h][j].b] : y < l
  BY DEF Fits, Added
<1>1. /\ H \in Groups /\ Len(H) = Len(G)
      /\ \A h \in 1..Len(G) : /\ Len(H[h]) = Len(G[h]) /\ (H[h] = <<>> <=> G[h] = <<>>)
  BY DEF Rekeyed
<1>2. \A h \in 1..Len(G) : \A j \in 1..Len(G[h]) :
        /\ H[h][j].b = G[h][j].b
        /\ ~(h = g /\ j = i) => H[h][j].low = G[h][j].low
  BY DEF Rekeyed
<1>3. H[g][i].low = l /\ H[g][i].b = G[g][i].b
  BY DEF Rekeyed
<1>4. ASSUME NEW h \in 1..Len(G), NEW j \in 1..Len(G[h])
      PROVE  /\ G[h][j].b \in 1..Len(B)
             /\ ~(h = g /\ j = i) => C[G[h][j].b] = B[G[h][j].b]
             /\ C[G[g][i].b] = B[G[g][i].b] \cup {k}
             /\ G[h][j].low \in Nat /\ \A y \in B[G[h][j].b] : y \in Nat
  <2>1. G[h][j].b \in 1..Len(B) /\ G[g][i].b \in 1..Len(B)
    BY DEF Placed
  <2>2. ~(h = g /\ j = i) => G[h][j].b # G[g][i].b
    BY DEF Placed, OneEntryEach
  <2>3. G[h][j].low \in Nat
    BY EntryFacts
  <2>4. \A y \in B[G[h][j].b] : y \in Nat
    BY <2>1, ConstantFacts
  <2> QED
    BY <1>0, <2>1, <2>2, <2>3, <2>4
<1>5. k \in Nat /\ l \in Nat
  BY ConstantFacts
<1>6. OneEntryEach(H) /\ \E h \in 1..Len(H) : H[h] # <<>>
  <2>1. \E h \in 1..Len(H) : H[h] # <<>>
    BY <1>1 DEF Placed
  <2>2. OneEntryEach(H)
    <3>1. OneEntryEach(G)
      BY DEF Placed
    <3> QED
      BY <1>1, <1>2, <3>1 DEF OneEntryEach
  <2> QED
    BY <2>1, <2>2
<1>7. ASSUME NEW h \in 1..Len(G), NEW j \in 1..Len(G[h])
      PROVE  H[h][j].b \in 1..Len(C) /\ \A y \in C[H[h][j].b] : H[h][j].low <= y
  <2>1. G[h][j].b \in 1..Len(B) /\ \A y \in B[G[h][j].b] : G[h][j].low <= y
    BY DEF Placed
  <2>2. CASE h = g /\ j = i
    <3>1. \A y \in B[G[g][i].b] : y \in Nat /\ G[g][i].low \in Nat /\ G[g][i].low <= y
      BY <1>4, <2>1, <2>2
    <3>3. C[G[g][i].b] = B[G[g][i].b] \cup {k} /\ G[g][i].low \in Nat
      BY <1>4
    <3>2. \A y \in C[G[g][i].b] : l <= y
      BY <1>0, <1>5, <3>1, <3>3
    <3> QED
      BY <1>0, <1>3, <2>1, <2>2, <3>2
  <2>3. CASE ~(h = g /\ j = i)
    BY <1>0, <1>2, <1>4, <2>1, <2>3, ZenonT(30)
  <2> QED
    BY <2>2, <2>3
<1>8. ASSUME NEW a \in 1..Len(G), NEW h \in 1..Len(G), NEW c \in 1..Len(G[a]), NEW j \in 1..Len(G[h]),
             Before(a, c, h, j)
      PROVE  H[a][c].low < H[h][j].low /\ \A y \in C[H[a][c].b] : y < H[h][j].low
  <2>1. G[a][c].low < G[h][j].low /\ \A y \in B[G[a][c].b] : y < G[h][j].low
    BY <1>8 DEF Placed
  <2>2. CASE h = g /\ j = i
    <3>1. ~(a = g /\ c = i)
      BY <1>4, <2>1, <2>2
    <3>2. H[a][c].low = G[a][c].low /\ H[a][c].b = G[a][c].b /\ C[G[a][c].b] = B[G[a][c].b]
      BY <1>2, <1>4, <3>1
    <3> QED
      BY <1>0, <1>3, <1>8, <2>2, <3>2
  <2>3. CASE a = g /\ c = i
    <3>1. ~(h = g /\ j = i)
      BY <1>4, <2>1, <2>3
    <3>2. H[h][j].low = G[h][j].low /\ k < G[h][j].low
      BY <1>0, <1>2, <1>8, <2>3, <3>1
    <3>3. G[g][i].low \in Nat /\ G[h][j].low \in Nat /\ C[G[g][i].b] = B[G[g][i].b] \cup {k}
      BY <1>4
    <3>4. l < G[h][j].low /\ \A y \in C[G[g][i].b] : y < G[h][j].low
      BY <1>0, <1>5, <2>1, <2>3, <3>2, <3>3
    <3> QED
      BY <1>3, <2>3, <3>2, <3>4
  <2>4. CASE ~(h = g /\ j = i) /\ ~(a = g /\ c = i)
    <3>1. H[h][j].low = G[h][j].low /\ H[a][c].low = G[a][c].low
      BY <1>2, <2>4
    <3>2. H[a][c].b = G[a][c].b /\ C[G[a][c].b] = B[G[a][c].b]
      BY <1>2, <1>4, <2>4
    <3> QED
      BY <2>1, <3>1, <3>2
  <2> QED
    BY <2>2, <2>3, <2>4
<1> QED
  BY <1>1, <1>6, <1>7, <1>8 DEF Placed

\* Two threads that have locks for groups of the current array have different groups.
LEMMA OtherGroup ==
  ASSUME Base, NEW t \in Threads, NEW u \in Threads, t # u, th[t].pc \in HasLock, th[u].pc \in HasLock,
         th[t].gv = gs, th[u].gv = gs
  PROVE  th[t].gid # th[u].gid
<1>1. LockOK(th[t], locked, ls) /\ LockOK(th[u], locked, ls) /\ PairOK(th[t], th[u])
  BY ThreadFacts DEF Base, PairInv
<1>2. gs \in Nat /\ ls \in Nat /\ ls <= gs
  BY DEF Base, VersionInv
<1>3. th[t].lv = gs /\ th[u].lv = gs
  BY <1>1, <1>2 DEF LockOK
<1> QED
  BY <1>1, <1>3 DEF PairOK

\* An entry's key of one array is set anew.
LEMMA SpaceSet ==
  ASSUME TypeInv, NEW v \in 1..Len(space), NEW H \in Groups, space' = [space EXCEPT ![v] = H]
  PROVE  /\ space' \in Seq(Groups) /\ Len(space') = Len(space)
         /\ \A w \in 1..Len(space) : space'[w] = IF w = v THEN H ELSE space[w]
BY SMTT(30) DEF TypeInv

\* What a Put into a bucket with room does to the arrays, the buckets and the thread.
LEMMA PutRoomFacts ==
  ASSUME Inv, Safe, NEW t \in Threads, th[t].pc = "work", th[t].op = "put", InGroups(t), PutRoom(t),
         ~strayed'
  PROVE  LET g == th[t].gid  i == TargetEntry(t)  k == th[t].key  G == space[gs]  H == space'[gs]
             l == IF k < G[g][i].low THEN k ELSE G[g][i].low
         IN /\ Base' /\ RoomInv' /\ Moves(t) /\ th'[t].pc = "unlock" /\ th'[t].key = k
            /\ \A P \in SUBSET Rebuilding : IsAt(P)' <=> IsAt(P)
            /\ Len(bkt') = Len(bkt)
            /\ \A b \in 1..Len(bkt) : bkt'[b] = IF b = G[g][i].b THEN bkt[b] \cup {k} ELSE bkt[b]
            /\ Rekeyed(G, H, g, i, l) /\ (l = G[g][i].low => H = G) /\ (flag => H = G)
            /\ th[t].gv = gs /\ (k < G[g][i].low => ~flag)
<1> DEFINE g == th[t].gid  i == TargetEntry(t)  k == th[t].key  G == space[gs]
           low == G[g][i].low  l == IF k < low THEN k ELSE low
           b == G[g][i].b
           H == Rekey(G, g, i, l)
           r == [th[t] EXCEPT !.pc = "unlock", !.ret = "ok"]
<1>1. Base /\ RoomInv /\ TypeInv
  BY DEF Safe, Base
<1>2. th[t] \in Locals /\ LocalOK(th[t])
  BY <1>1, ThreadFacts
<1>3. /\ WorkVersion(t) = gs /\ g \in 1..Len(G) /\ i \in 1..Len(G[g]) /\ TargetGroup(t) = G[g]
      /\ TargetBucket(t) = b /\ k \in Keys
  BY <1>1, TargetFacts
<1>4. /\ bkt' = [bkt EXCEPT ![b] = bkt[b] \cup {k}]
      /\ space' = [space EXCEPT ![gs][g][i].low = l]
      /\ ~StaleGroup(t) /\ ~(flag /\ k < low)
      /\ th' = [th EXCEPT ![t].pc = "unlock", ![t].ret = "ok"]
      /\ UNCHANGED <<flag, model, locked, freed, gs, ls, expandVars, acked>>
  BY <1>3, ZenonT(30) DEF PutRoom
<1>5. th[t].gv = gs
  BY <1>3, <1>4, ZenonT(30) DEF StaleGroup
<1>6. /\ r \in Locals /\ r.pc = "unlock" /\ r.ret = "ok" /\ r.op = th[t].op /\ r.key = k
      /\ r.wv = th[t].wv /\ r.gid = th[t].gid /\ r.gv = th[t].gv /\ r.lv = th[t].lv
  BY <1>2, ZenonT(30) DEF Locals, PCs
<1>7. th' = [th EXCEPT ![t] = r]
  BY <1>4, ZenonT(30)
<1> HIDE DEF r
<1>8. G \in Groups /\ low \in Keys /\ low \in Nat /\ k \in Nat /\ gs \in 1..Len(space) /\ gs \in Nat
  BY <1>1, <1>3, CurrentFacts, EntryFacts, ConstantFacts
<1>9. l \in Keys /\ (l = low \/ (l = k /\ k < low))
  BY <1>3, <1>8
<1>10. space' = [space EXCEPT ![gs] = H]
  BY <1>4, ZenonT(30) DEF Rekey
<1> HIDE DEF l, low, G, i, b, g, k
<1>11. Rekeyed(G, H, g, i, l) /\ (l = G[g][i].low => H = G)
  <2>1. G \in Groups /\ g \in 1..Len(G) /\ i \in 1..Len(G[g]) /\ l \in Keys
    BY <1>3, <1>8, <1>9
  <2> QED
    BY <2>1, RekeyFact
<1> HIDE DEF H
<1>12. H \in Groups /\ Len(H) = Len(G) /\ \A h \in 1..Len(G) : H[h] = <<>> <=> G[h] = <<>>
  BY <1>11 DEF Rekeyed
<1>13. /\ space' \in Seq(Groups) /\ Len(space') = Len(space)
       /\ \A w \in 1..Len(space) : space'[w] = IF w = gs THEN H ELSE space[w]
  BY <1>1, <1>8, <1>10, <1>12, SpaceSet
<1>14. flag => H = G
  BY <1>4, <1>9, <1>11 DEF low
<1>15. /\ bkt' \in Seq(SUBSET Keys) /\ Len(bkt') = Len(bkt)
       /\ \A c \in 1..Len(bkt) : bkt'[c] = IF c = b THEN bkt[b] \cup {k} ELSE bkt[c]
  <2> DEFINE S == bkt[b] \cup {k}
  <2>1. SetBucket(b, S)
    BY <1>4 DEF SetBucket
  <2>2. b \in 1..Len(bkt) => S \in SUBSET Keys
    BY <1>1, <1>3 DEF TypeInv
  <2> HIDE DEF S
  <2>3. /\ bkt' \in Seq(SUBSET Keys) /\ Len(bkt') = Len(bkt)
        /\ \A c \in 1..Len(bkt) : bkt'[c] = IF c = b THEN S ELSE bkt[c]
    <3>1. TypeInv /\ bkt \in Seq(SUBSET Keys)
      BY <1>1 DEF TypeInv
    <3> QED
      BY <2>1, <2>2, <3>1, BucketSet
  <2> QED
    BY <2>3 DEF S
<1>16. \A c \in 1..Len(bkt') : IsFiniteSet(bkt'[c])
  <2> SUFFICES ASSUME NEW c \in 1..Len(bkt) PROVE IsFiniteSet(bkt'[c])
    BY <1>15
  <2>1. IsFiniteSet(bkt[c])
    BY <1>1 DEF TypeInv
  <2> QED
    <3>1. IsFiniteSet(bkt[c] \cup {k}) 
      BY <2>1, FS_AddElement
    <3>2. bkt'[c] = bkt[c] \cup {k} \/ bkt'[c] = bkt[c]
      BY <1>15
    <3> QED
      BY <2>1, <3>1, <3>2
<1>17. LocalOK(r) /\ NewOK(r, gs, IsAt({"locks", "clear"}))
  BY <1>2, <1>6 DEF LocalOK, NewOK, HasGroup, k
<1>18. /\ Base' /\ Moves(t) /\ th'[t] = r
       /\ \A P \in SUBSET Rebuilding : IsAt(P)' <=> IsAt(P)
  <2>1. /\ th[t].pc \in HasLock /\ r.pc \in HasLock /\ acked' \in SUBSET Keys /\ r.key = th[t].key
    BY <1>1, <1>4, <1>6 DEF HasLock, TypeInv, k
  <2>2. /\ \A v \in 1..gs : Len(space'[v]) = Len(space[v])
        /\ \A h \in 1..Len(space[gs]) : space[gs][h] # <<>> => space'[gs][h] # <<>>
    BY <1>1, <1>8, <1>12, <1>13 DEF G, Base, VersionInv
  <2> QED
    BY <1>1, <1>4, <1>6, <1>7, <1>13, <1>15, <1>16, <1>17, <2>1, <2>2, WorkStep
<1>19. space'[gs] = H
  BY <1>8, <1>13
<1>20. RoomInv'
  BY <1>1, <1>4, <1>14, <1>18, <1>19, RoomKept DEF G
<1> QED
  BY <1>4, <1>5, <1>6, <1>11, <1>14, <1>15, <1>18, <1>19, <1>20, ZenonT(30) DEF l, low, G, i, b, g, k

\* The key of the very first entry is lowered: keys keep their groups.
LEMMA FirstLowered ==
  ASSUME NEW G \in Groups, NEW H, NEW g \in 1..Len(G), NEW i \in 1..Len(G[g]), NEW l \in Keys,
         Rekeyed(G, H, g, i, l), FirstUsed(G, g), i = 1, NEW k \in Nat, NEW f
  PROVE  /\ \A h : FirstUsed(G, h) /\ h \in 1..Len(G) => FirstUsed(H, h)
         /\ f \in 1..Len(G) /\ G[f] # <<>> /\ Under(G, k, f) => H[f] # <<>> /\ Under(H, k, f)
         /\ Owns(G, k, f) => Owns(H, k, f)
         /\ \A M : Routed(G, M) => Routed(H, M)
<1>1. /\ Len(H) = Len(G) /\ Len(G) \in Nat
      /\ \A h \in 1..Len(G) : (H[h] = <<>> <=> G[h] = <<>>) /\ (h # g /\ G[h] # <<>> => H[h][1].low = G[h][1].low)
      /\ H[g][1].low = l
  BY EntryFacts DEF Rekeyed
<1>2. \A h \in 1..Len(G) : FirstUsed(G, h) => FirstUsed(H, h)
  BY <1>1 DEF FirstUsed
<1>3. ASSUME f \in 1..Len(G), G[f] # <<>>, Under(G, k, f) PROVE H[f] # <<>> /\ Under(H, k, f)
  <2>1. ~(g > f)
    BY <1>1, <1>3 DEF FirstUsed
  <2> QED
    BY <1>1, <1>3, <2>1 DEF Under
<1>4. ASSUME Owns(G, k, f) PROVE Owns(H, k, f)
  <2>1. /\ f \in 1..Len(G) /\ H[f] # <<>> /\ Under(H, k, f)
    BY <1>3, <1>4 DEF Owns
  <2>2. FirstUsed(H, f) \/ H[f][1].low <= k
    BY <1>1, <1>2, <1>4 DEF Owns
  <2> QED
    BY <1>1, <2>1, <2>2 DEF Owns
<1>5. ASSUME NEW M, Routed(G, M) PROVE Routed(H, M)
  <2> SUFFICES ASSUME NEW h \in 1..Len(G), H[h] # <<>>
               PROVE  FirstUsed(H, h) \/ h <= Predicted(M, H[h][1].low, Len(G))
    BY <1>1 DEF Routed
  <2>1. FirstUsed(G, h) \/ h <= Predicted(M, G[h][1].low, Len(G))
    BY <1>1, <1>5 DEF Routed
  <2> QED
    BY <1>1, <1>2, <2>1
<1> QED
  BY <1>2, <1>3, <1>4, <1>5

\* group::Put into a bucket with room.
LEMMA PutRoomSafe ==
  ASSUME Inv, Safe, NEW t \in Threads, th[t].pc = "work", th[t].op = "put", InGroups(t), PutRoom(t),
         ~strayed'
  PROVE  Safe'
<1> DEFINE g == th[t].gid  i == TargetEntry(t)  k == th[t].key  G == space[gs]  H == space'[gs]
           l == IF k < G[g][i].low THEN k ELSE G[g][i].low
<1>1. /\ Base' /\ RoomInv' /\ Moves(t) /\ th'[t].pc = "unlock" /\ th'[t].key = k
      /\ \A P \in SUBSET Rebuilding : IsAt(P)' <=> IsAt(P)
      /\ Len(bkt') = Len(bkt)
      /\ \A b \in 1..Len(bkt) : bkt'[b] = IF b = G[g][i].b THEN bkt[b] \cup {k} ELSE bkt[b]
      /\ Rekeyed(G, H, g, i, l) /\ (l = G[g][i].low => H = G) /\ (flag => H = G)
      /\ th[t].gv = gs /\ (k < G[g][i].low => ~flag)
  BY PutRoomFacts
<1>2. UNCHANGED <<flag, model, gs, expandVars, acked>>
  BY DEF PutRoom
<1>3. Base /\ G \in Groups /\ bkt \in Seq(SUBSET Keys) /\ \A b \in 1..Len(bkt) : bkt[b] \subseteq Keys
  BY CurrentFacts DEF Safe, Base, TypeInv
<1>4. /\ g \in 1..Len(G) /\ i \in 1..Len(G[g]) /\ G[g] # <<>> /\ k \in Keys
      /\ G[g][i].low <= k \/ (i = 1 /\ \A j \in 1..Len(G[g]) : k < G[g][j].low)
      /\ \A j \in 1..Len(G[g]) : G[g][j].low <= k => j <= i
  BY <1>3, TargetFacts, ZenonT(30)
<1>5. k \in Nat /\ G[g][i].low \in Keys /\ G[g][i].low \in Nat
  BY <1>3, <1>4, EntryFacts, ConstantFacts
<1>6. l \in Keys /\ l <= G[g][i].low /\ l <= k /\ l \in Nat
  BY <1>4, <1>5, SMTT(30)
<1> SUFFICES Tree'
  BY <1>1, ZenonT(30) DEF Safe
<1>7. \A u \in Threads \ {t} : th'[u] = th[u]
  BY <1>1, ZenonT(30) DEF Moves
<1>8. \A u \in Threads : Doomed(u) <=> Doomed(u)'
  BY <1>1, <1>2, <1>7 DEF Doomed
<1>9. Tree
  BY ZenonT(30) DEF Safe
<1>10. (IsAt(Trained)' <=> IsAt(Trained)) /\ (IsAt(Copies)' <=> IsAt(Copies))
  BY <1>1, StepSets
<1>11. OwnOK(th[t], G, gs, IsAt(Trained)) /\ Sound(G, bkt)
  BY <1>9, ZenonT(30) DEF Tree, Core, OwnInv, TreeInv
<1>12. Under(G, k, g)
  BY <1>1, <1>11 DEF OwnOK
<1>13. IsAt(Trained) \/ IsAt(Copies) => flag
  BY AtFlag, StepSets
<1>14. ASSUME l # G[g][i].low PROVE i = 1 /\ FirstUsed(G, g) /\ l = k /\ \A j \in 1..Len(G[g]) : k < G[g][j].low
  <2>1. k < G[g][i].low /\ l = k
    BY <1>14, ZenonT(30)
  <2>2. i = 1 /\ \A j \in 1..Len(G[g]) : k < G[g][j].low
    BY <1>4, <1>5, <2>1
  <2>3. Owns(G, k, g)
    BY <1>1, <1>11, <1>13, <2>1 DEF OwnOK
  <2>4. FirstUsed(G, g)
    BY <1>5, <2>1, <2>2, <2>3 DEF Owns
  <2> QED
    BY <2>1, <2>2, <2>4
<1> HIDE DEF l, k, i, g, G, H
<1>15. Placed(G, bkt)
  BY <1>3, <1>11, SoundIsPlaced
<1>16. ASSUME NEW h \in 1..Len(G), NEW j \in 1..Len(G[h])
       PROVE  /\ Before(g, i, h, j) => k < G[h][j].low
              /\ Before(h, j, g, i) => G[h][j].low < l /\ \A y \in bkt[G[h][j].b] : y < l
  <2>0. /\ G[h][j].low \in Nat /\ G[h][1].low \in Nat /\ G[h] # <<>> /\ 1 \in 1..Len(G[h])
        /\ g \in Nat /\ h \in Nat /\ i \in Nat /\ j \in Nat
    BY <1>3, <1>4, EntryFacts
  <2>1. ASSUME Before(g, i, h, j) PROVE k < G[h][j].low
    <3>1. CASE g < h
      <4>1. k < G[h][1].low
        BY <1>12, <2>0, <3>1 DEF Under
      <4>2. G[h][1].low <= G[h][j].low
        <5>1. j = 1 \/ Before(h, 1, h, j)
          BY <2>0 DEF Before
        <5> QED
          BY <1>15, <2>0, <5>1 DEF Placed
      <4> QED
        BY <1>5, <2>0, <4>1, <4>2
    <3>2. CASE g = h /\ i < j
      <4>1. ~(G[g][j].low <= k)
        BY <1>4, <2>0, <3>2
      <4> QED
        BY <1>5, <2>0, <3>2, <4>1
    <3> QED
      BY <2>1, <3>1, <3>2 DEF Before
  <2>2. ASSUME Before(h, j, g, i) PROVE G[h][j].low < l /\ \A y \in bkt[G[h][j].b] : y < l
    <3>1. l = G[g][i].low
      <4> SUFFICES ASSUME l # G[g][i].low PROVE FALSE
        OBVIOUS
      <4>1. i = 1 /\ FirstUsed(G, g)
        BY <1>14
      <4> QED
        BY <2>0, <2>2, <4>1 DEF FirstUsed, Before
    <3> QED
      BY <1>4, <1>15, <2>2, <3>1 DEF Placed
  <2> QED
    BY <2>1, <2>2
<1>17. Placed(H, bkt')
  <2>1. Fits(G, bkt, g, i, k, l)
    BY <1>6, <1>16 DEF Fits
  <2>2. Rekeyed(G, H, g, i, l) /\ Added(bkt, bkt', G[g][i].b, k)
    BY <1>1 DEF Added
  <2> QED
    BY <1>3, <1>4, <1>6, <1>15, <2>1, <2>2, PutPlaced
<1>18. H \in Groups /\ Len(H) = Len(G)
  BY <1>1 DEF Rekeyed
<1>19. Sound(H, bkt')
  BY <1>17, <1>18, SoundIsPlaced
<1>20. H = G \/ \A f, q : q \in Nat =>
         /\ f \in 1..Len(G) /\ G[f] # <<>> /\ Under(G, q, f) => H[f] # <<>> /\ Under(H, q, f)
         /\ Owns(G, q, f) => Owns(H, q, f)
         /\ \A M : Routed(G, M) => Routed(H, M)
  <2> SUFFICES ASSUME H # G, NEW f, NEW q \in Nat
               PROVE  /\ f \in 1..Len(G) /\ G[f] # <<>> /\ Under(G, q, f) => H[f] # <<>> /\ Under(H, q, f)
                      /\ Owns(G, q, f) => Owns(H, q, f)
                      /\ \A M : Routed(G, M) => Routed(H, M)
    OBVIOUS
  <2>1. i = 1 /\ FirstUsed(G, g)
    BY <1>1, <1>14
  <2> QED
    BY <1>1, <1>3, <1>4, <1>6, <2>1, FirstLowered
<1>21. OwnInv'
  <2> SUFFICES ASSUME NEW u \in Threads PROVE OwnOK(th'[u], H, gs, IsAt(Trained)')
    BY <1>2 DEF OwnInv, H
  <2>1. CASE u = t
    BY <1>1, <2>1 DEF OwnOK
  <2>2. CASE u # t
    <3>1. th'[u] = th[u] /\ OwnOK(th[u], G, gs, IsAt(Trained))
      BY <1>7, <1>9, <2>2 DEF Tree, Core, OwnInv, G
    <3>2. GroupOK(th[u], space, gs) /\ th[u] \in Locals /\ LocalOK(th[u])
      BY <1>3, ThreadFacts
    <3>3. th[u].pc # "idle" => th[u].key \in Nat
      BY <3>2, ConstantFacts DEF LocalOK
    <3>4. th[u].pc = "work" /\ th[u].gv = gs => th[u].gid \in 1..Len(G)
      BY <3>2 DEF GroupOK, HasGroup, G
    <3> QED
      BY <1>10, <1>20, <3>1, <3>3, <3>4 DEF OwnOK
  <2> QED
    BY <2>1, <2>2
<1>22. ASSUME NEW h \in 1..Len(G)
       PROVE  /\ Len(H[h]) = Len(G[h]) /\ (H[h] = <<>> <=> G[h] = <<>>)
              /\ \A j \in 1..Len(G[h]) : /\ H[h][j].b = G[h][j].b /\ G[h][j].b \in 1..Len(bkt)
                                         /\ h # g => H[h][j].low = G[h][j].low
  BY <1>1, <1>15 DEF Rekeyed, Placed
<1>23. ASSUME NEW u \in Threads, th'[u].pc = "link", ~Doomed(u)
       PROVE  /\ u # t /\ th'[u] = th[u] /\ SplitOK(th[u], G, bkt, gs)
              /\ th[u].gid # g /\ th[u].gid \in 1..Len(G) /\ th[u].pos \in 1..Len(G[th[u].gid])
              /\ bkt'[th[u].nb] = bkt[th[u].nb] /\ th[u].nb \in 1..Len(bkt)
              /\ bkt'[G[th[u].gid][th[u].pos].b] = bkt[G[th[u].gid][th[u].pos].b]
  <2>1. u # t /\ th'[u] = th[u] /\ SplitOK(th[u], G, bkt, gs)
    BY <1>1, <1>7, <1>9, <1>23 DEF Tree, Core, SplitInv, G
  <2>2. /\ th[u].gv = gs /\ th[u].nb \in 1..Len(bkt) /\ Loose(G, th[u].nb)
        /\ th[u].gid \in 1..Len(G) /\ th[u].pos \in 1..Len(G[th[u].gid])
    BY <1>23, <2>1 DEF SplitOK
  <2>3. th[u].gid # g
    BY <1>1, <1>3, <1>23, <2>1, <2>2, OtherGroup DEF HasLock, g
  <2>4. th[u].nb # G[g][i].b
    BY <1>4, <2>2 DEF Loose
  <2>5. G[th[u].gid][th[u].pos].b # G[g][i].b
    <3>1. OneEntryEach(G)
      BY <1>15 DEF Placed
    <3> QED
      BY <1>4, <2>2, <2>3, <3>1 DEF OneEntryEach
  <2>6. G[th[u].gid][th[u].pos].b \in 1..Len(bkt)
    BY <1>22, <2>2
  <2> QED
    BY <1>1, <2>1, <2>2, <2>3, <2>4, <2>5, <2>6
<1>24. SplitInv'
  <2>1. ASSUME NEW u \in Threads, th'[u].pc = "link", ~Doomed(u) PROVE SplitOK(th'[u], H, bkt', gs)
    <3> DEFINE f == th[u].gid  p == th[u].pos  n == th[u].nb
    <3>1. /\ th'[u] = th[u] /\ f \in 1..Len(G) /\ p \in 1..Len(G[f]) /\ f # g /\ n \in 1..Len(bkt)
          /\ bkt'[n] = bkt[n] /\ bkt'[G[f][p].b] = bkt[G[f][p].b]
      BY <1>23, <2>1
    <3>2. /\ th[u].op = "put" /\ th[u].gv = gs /\ bkt[n] # {} /\ Loose(G, n)
          /\ \A x \in bkt[n] : /\ G[f][p].low < x /\ \A y \in bkt[G[f][p].b] : y < x
                               /\ \A z \in EntryKeys(G) : G[f][p].low < z => x < z
      BY <1>23, <2>1 DEF SplitOK
    <3>3. Len(H[f]) = Len(G[f]) /\ H[f][p].low = G[f][p].low /\ H[f][p].b = G[f][p].b
      BY <1>22, <3>1
    <3>4. Loose(H, n)
      BY <1>18, <1>22, <3>2 DEF Loose
    <3>5. ASSUME NEW z \in EntryKeys(H), G[f][p].low < z PROVE z \in EntryKeys(G)
      <4>1. z = l \/ \E h \in 1..Len(G) : \E j \in 1..Len(G[h]) : z = G[h][j].low
        BY <1>1, <1>3, <1>4, <1>6, RekeyedKeys
      <4>2. CASE z = l /\ l # G[g][i].low
        <5>1. i = 1 /\ FirstUsed(G, g) /\ l = k
          BY <1>14, <4>2
        <5>2. G[f] # <<>> /\ f \in Nat /\ g \in Nat /\ G[f][p].low \in Nat
          <6>1. f \in 1..Len(G) /\ p \in 1..Len(G[f]) /\ g \in 1..Len(G)
            BY <1>4, <3>1
          <6> HIDE DEF f, p
          <6>2. /\ Len(G) \in Nat
                /\ \A h \in 1..Len(G) : \A j \in 1..Len(G[h]) : G[h][j].low \in Nat /\ G[h] # <<>>
            BY <1>3, EntryFacts
          <6> QED
            BY <6>1, <6>2
        <5>3. g < f
          BY <3>1, <5>1, <5>2 DEF FirstUsed
        <5>4. k < G[f][p].low
          BY <1>16, <3>1, <5>3 DEF Before
        <5> QED
          BY <1>5, <3>5, <4>2, <5>1, <5>2, <5>4
      <4>3. CASE l = G[g][i].low \/ z # l
        BY <1>3, <1>4, <4>1, <4>3, EntryKeysFact
      <4> QED
        BY <4>2, <4>3
    <3> QED
      BY <1>1, <1>18, <3>1, <3>2, <3>3, <3>4, <3>5, ZenonT(30) DEF SplitOK
  <2>2. \A u \in Threads : ~Doomed(u)' => SplitOK(th'[u], H, bkt', gs)
    BY <1>8, <2>1 DEF SplitOK
  <2>3. \A u, v \in Threads : u # v /\ th'[u].pc = "link" /\ th'[v].pc = "link"
          /\ ~Doomed(u)' /\ ~Doomed(v)' => th'[u].nb # th'[v].nb
    BY <1>8, <1>9, <1>23 DEF Tree, Core, SplitInv
  <2> QED
    BY <1>2, <2>2, <2>3, ZenonT(30) DEF SplitInv, H
<1>25. ASSUME Calm, NEW q, Kept(q) PROVE Kept(q)'
  <2>1. ASSUME Within(q, G, bkt) PROVE Within(q, H, bkt')
    BY <1>1, <1>18, <1>22, <2>1, ZenonT(30) DEF Within
  <2>2. ASSUME NEW u \in Threads, th[u].pc = "link", q \in bkt[th[u].nb]
        PROVE  th'[u].pc = "link" /\ q \in bkt'[th'[u].nb]
    BY <1>7, <1>23, <1>25, <2>2 DEF Calm
  <2> QED
    BY <1>2, <1>25, <2>1, <2>2 DEF Kept, G, H
<1>26. ASSUME Calm' PROVE KeyInv'
  <2>0. Calm
    BY <1>8, <1>26 DEF Calm
  <2>1. \A q \in acked' : Kept(q)'
    BY <1>2, <1>9, <1>25, <2>0 DEF Tree, Core, KeyInv
  <2>2. ASSUME NEW u \in Threads \ {t}, th'[u].pc = "unlock", th'[u].ret = "ok"
        PROVE  Kept(th[u].key)' /\ th'[u] = th[u]
    <3>1. PICK q : q = th[u].key
      OBVIOUS
    <3>2. th'[u] = th[u] /\ Kept(q)
      BY <1>7, <1>9, <2>0, <2>2, <3>1 DEF Tree, Core, KeyInv
    <3>3. Kept(q)'
      BY <1>25, <2>0, <3>2
    <3> QED
      BY <3>1, <3>2, <3>3
  <2>3. Within(k, H, bkt')
    BY <1>1, <1>4, <1>18, <1>22 DEF Within
  <2>4. Kept(th[t].key)'
    <3>1. k = th'[t].key /\ Within(k, space'[gs'], bkt')
      BY <1>1, <1>2, <2>3 DEF H
    <3> QED
      BY <3>1 DEF Kept
  <2> QED
    BY <2>1, <2>2, <2>4 DEF KeyInv
<1>27. TreeInv'
  <2>1. ~IsAt(Trained) => Routed(H, model)
    BY <1>5, <1>9, <1>20 DEF Tree, Core, TreeInv, G
  <2> QED
    BY <1>2, <1>10, <1>19, <2>1 DEF TreeInv, H
<1>28. CopyInv'
  <2>1. IsAt(Copies) => H = G
    BY <1>1, <1>13
  <2> QED
    BY <1>2, <1>9, <1>10, <2>1 DEF Tree, Core, CopyInv, expandVars, G, H
<1> QED
  BY <1>21, <1>24, <1>26, <1>27, <1>28 DEF Tree, Core

\* The buckets after the first step of a split: bucket b has lost what the new one has.
Halved(B, C, b) ==
  /\ C \in Seq(SUBSET Keys) /\ Len(C) = Len(B) + 1
  /\ \A c \in 1..Len(B) : c # b => C[c] = B[c]
  /\ C[b] = B[b] \ C[Len(B) + 1] /\ C[Len(B) + 1] \subseteq B[b]
  /\ C[Len(B) + 1] # {} /\ C[b] # {} /\ \A x \in C[Len(B) + 1], y \in C[b] : y < x

\* Expand_ of a full bucket does that.
LEMMA HalvedFact ==
  ASSUME TypeInv, NEW b \in 1..Len(bkt), ~HasRoom(b),
         bkt' = Append([bkt EXCEPT ![b] = @ \ UpperHalf(@)], UpperHalf(bkt[b]))
  PROVE  Halved(bkt, bkt', b) /\ \A c \in 1..Len(bkt') : IsFiniteSet(bkt'[c])
<1> DEFINE S == bkt[b]  u == UpperHalf(S)  D == [bkt EXCEPT ![b] = S \ u]
<1>1. /\ bkt \in Seq(SUBSET Keys) /\ Len(bkt) \in Nat /\ S \in SUBSET Keys /\ S \in SUBSET Nat /\ IsFiniteSet(S)
      /\ DOMAIN bkt = 1..Len(bkt) /\ \A c \in 1..Len(bkt) : bkt[c] \in SUBSET Keys
  <2>1. bkt \in Seq(SUBSET Keys) /\ IsFiniteSet(bkt[b])
    BY DEF TypeInv
  <2>2. Len(bkt) \in Nat /\ DOMAIN bkt = 1..Len(bkt) /\ \A c \in 1..Len(bkt) : bkt[c] \in SUBSET Keys
    BY <2>1
  <2> QED
    BY <2>1, <2>2, ConstantFacts
<1>2. Cardinality(S) >= 2
  BY <1>1, ConstantFacts, FS_CardinalityType DEF HasRoom
<1> HIDE DEF S
<1>3. u \subseteq S /\ u # {} /\ S \ u # {} /\ \A x \in u, y \in S \ u : y < x
  BY <1>1, <1>2, UpperHalfFact
<1>4. bkt' = Append(D, u)
  BY DEF S
<1> HIDE DEF u
<1>5. /\ D \in Seq(SUBSET Keys) /\ Len(D) = Len(bkt)
      /\ \A c \in 1..Len(bkt) : D[c] = IF c = b THEN S \ u ELSE bkt[c]
  <2> DEFINE w == S \ u
  <2>1. D = [bkt EXCEPT ![b] = w] /\ w \in SUBSET Keys
    BY <1>1
  <2> HIDE DEF w, D
  <2>2. D = [c \in 1..Len(bkt) |-> IF c = b THEN w ELSE bkt[c]]
    BY <1>1, <2>1
  <2>3. D \in [1..Len(bkt) -> SUBSET Keys]
    BY <1>1, <2>1, <2>2
  <2>4. D \in Seq(SUBSET Keys) /\ Len(D) = Len(bkt)
    BY <1>1, <2>3
  <2>5. \A c \in 1..Len(bkt) : D[c] = IF c = b THEN w ELSE bkt[c]
    BY <2>2
  <2> QED
    BY <2>4, <2>5 DEF w
<1> HIDE DEF D
<1>6. /\ bkt' \in Seq(SUBSET Keys) /\ Len(bkt') = Len(bkt) + 1 /\ bkt'[Len(bkt) + 1] = u
      /\ \A c \in 1..Len(bkt) : bkt'[c] = D[c]
  <2> DEFINE T == SUBSET Keys
  <2>1. u \in T /\ D \in Seq(T) /\ Len(D) = Len(bkt)
    BY <1>1, <1>3, <1>5
  <2> HIDE DEF T
  <2>2. /\ bkt' \in Seq(T) /\ Len(bkt') = Len(D) + 1 /\ bkt'[Len(D) + 1] = u
        /\ \A c \in 1..Len(D) : bkt'[c] = D[c]
    <3>1. /\ Append(D, u) \in Seq(T) /\ Len(Append(D, u)) = Len(D) + 1 /\ Append(D, u)[Len(D) + 1] = u
          /\ \A c \in 1..Len(D) : Append(D, u)[c] = D[c]
      BY <2>1
    <3> QED
      BY <1>4, <3>1
  <2> QED
    BY <2>1, <2>2 DEF T
<1>7. Halved(bkt, bkt', b)
  BY <1>3, <1>5, <1>6 DEF Halved, S
<1>8. ASSUME NEW c \in 1..Len(bkt') PROVE IsFiniteSet(bkt'[c])
  <2>1. CASE c = Len(bkt) + 1
    BY <1>1, <1>3, <1>6, <2>1, FS_Subset
  <2>2. CASE c = b
    <3>1. bkt'[c] = S \ u /\ S \ u \in SUBSET S
      BY <1>5, <1>6, <2>2
    <3> QED
      BY <1>1, <3>1, FS_Subset
  <2>3. CASE c \in 1..Len(bkt) /\ c # b
    BY <1>5, <1>6, <2>3 DEF TypeInv
  <2>4. c \in 1..Len(bkt) \/ c = Len(bkt) + 1
    BY <1>1, <1>6
  <2> QED
    BY <2>1, <2>2, <2>3, <2>4
<1> QED
  BY <1>7, <1>8

\* group::Put into a full bucket, first step: the upper half moves to a new bucket.
LEMMA PutSplitSafe ==
  ASSUME Inv, Safe, NEW t \in Threads, th[t].pc = "work", th[t].op = "put", InGroups(t), PutSplit(t),
         ~strayed'
  PROVE  Safe'
<1> DEFINE g == th[t].gid  i == TargetEntry(t)  G == space[gs]  b == G[g][i].b  N == Len(bkt) + 1
           r == [th[t] EXCEPT !.pc = "link", !.pos = i, !.wv = gs, !.nb = N]
<1>1. Base /\ RoomInv /\ TypeInv /\ Tree /\ G \in Groups /\ gs \in Nat
  BY CurrentFacts DEF Safe, Base
<1>2. th[t] \in Locals /\ LocalOK(th[t]) /\ NewOK(th[t], gs, IsAt({"locks", "clear"}))
  BY <1>1, ThreadFacts
<1>3. /\ WorkVersion(t) = gs /\ g \in 1..Len(G) /\ i \in 1..Len(G[g]) /\ TargetGroup(t) = G[g]
      /\ TargetBucket(t) = b /\ th[t].key \in Keys
  BY <1>1, TargetFacts, ZenonT(30)
<1>4. /\ ~HasRoom(b) /\ bkt' = Append([bkt EXCEPT ![b] = @ \ UpperHalf(@)], UpperHalf(bkt[b]))
      /\ th' = [th EXCEPT ![t].pc = "link", ![t].pos = i, ![t].wv = gs, ![t].nb = N]
      /\ ~StaleGroup(t)
      /\ UNCHANGED <<flag, model, space, locked, freed, gs, ls, expandVars, acked>>
  BY <1>3, ZenonT(30) DEF PutSplit
<1>5. th[t].gv = gs
  BY <1>3, <1>4, ZenonT(30) DEF StaleGroup
<1>6. i \in Nat /\ Len(bkt) \in Nat /\ N \in Nat /\ bkt \in Seq(SUBSET Keys)
  BY <1>1, <1>3, EntryFacts DEF TypeInv
<1>7. Sound(G, bkt) /\ \A h \in 1..Len(G) : \A j \in 1..Len(G[h]) : G[h][j].b \in 1..Len(bkt)
  BY <1>1 DEF Tree, Core, TreeInv, Sound, InRange
<1> HIDE DEF i
<1>8. /\ r \in Locals /\ r.pc = "link" /\ r.pos = i /\ r.wv = gs /\ r.nb = N
      /\ r.op = th[t].op /\ r.key = th[t].key /\ r.gid = th[t].gid /\ r.gv = th[t].gv /\ r.lv = th[t].lv
  BY <1>1, <1>2, <1>6, ZenonT(30) DEF Locals, PCs
<1>9. th' = [th EXCEPT ![t] = r]
  BY <1>4, ZenonT(30)
<1> HIDE DEF r
<1>10. b \in 1..Len(bkt)
  BY <1>3, <1>7
<1> HIDE DEF g, b
<1>11. Halved(bkt, bkt', b) /\ \A c \in 1..Len(bkt') : IsFiniteSet(bkt'[c])
  BY <1>1, <1>4, <1>10, HalvedFact
<1>12. /\ bkt' \in Seq(SUBSET Keys) /\ Len(bkt') = N /\ \A c \in 1..Len(bkt) : c # b => bkt'[c] = bkt[c]
       /\ bkt'[b] = bkt[b] \ bkt'[N] /\ bkt'[N] \subseteq bkt[b] /\ bkt'[N] # {} /\ bkt'[b] # {}
       /\ \A x \in bkt'[N], y \in bkt'[b] : y < x
  BY <1>11 DEF Halved
<1>13. LocalOK(r) /\ NewOK(r, gs, IsAt({"locks", "clear"}))
  <2>1. gs # 0
    BY <1>1 DEF Base, VersionInv
  <2> QED
    BY <1>2, <1>3, <1>5, <1>8, <2>1 DEF LocalOK, NewOK, HasGroup
<1>14. /\ Base' /\ Moves(t) /\ th'[t] = r
       /\ \A P \in SUBSET Rebuilding : IsAt(P)' <=> IsAt(P)
  <2>1. /\ th[t].pc \in HasLock /\ r.pc \in HasLock /\ acked' \in SUBSET Keys
        /\ space' \in Seq(Groups) /\ space' = space
    BY <1>1, <1>4, <1>8 DEF HasLock, TypeInv
  <2> QED
    BY <1>1, <1>4, <1>8, <1>9, <1>11, <1>12, <1>13, <2>1, WorkStep
<1>15. RoomInv'
  BY <1>1, <1>4, <1>14, RoomKept
<1>16. \A u \in Threads \ {t} : th'[u] = th[u] /\ (Doomed(u) <=> Doomed(u)')
  BY <1>4, <1>14 DEF Moves, Doomed
<1>17. (IsAt(Trained)' <=> IsAt(Trained)) /\ (IsAt(Copies)' <=> IsAt(Copies))
  BY <1>14, StepSets
<1>18. OwnInv'
  <2> SUFFICES ASSUME NEW u \in Threads PROVE OwnOK(th'[u], G, gs, IsAt(Trained)')
    BY <1>4 DEF OwnInv
  <2>1. OwnOK(th[u], G, gs, IsAt(Trained))
    BY <1>1 DEF Tree, Core, OwnInv
  <2>2. CASE u = t
    BY <1>8, <1>14, <1>17, <2>1, <2>2 DEF OwnOK
  <2>3. CASE u # t
    BY <1>16, <1>17, <2>1, <2>3 DEF OwnOK
  <2> QED
    BY <2>2, <2>3
<1> HIDE DEF G
<1>19. ASSUME NEW u \in Threads \ {t}, th[u].pc = "link", ~Doomed(u)
       PROVE  /\ SplitOK(th[u], G, bkt, gs) /\ th[u].nb \in 1..Len(bkt) /\ th[u].nb # b /\ th[u].nb # N
              /\ bkt'[th[u].nb] = bkt[th[u].nb]
  <2>1. SplitOK(th[u], G, bkt, gs)
    BY <1>1, <1>19 DEF Tree, Core, SplitInv, G
  <2>2. th[u].nb \in 1..Len(bkt) /\ Loose(G, th[u].nb)
    BY <1>19, <2>1 DEF SplitOK
  <2>3. th[u].nb # b
    BY <1>3, <2>2 DEF Loose, b
  <2> QED
    BY <1>6, <1>12, <2>1, <2>2, <2>3
<1>20. \A h \in 1..Len(G) : \A j \in 1..Len(G[h]) :
          bkt'[G[h][j].b] \subseteq bkt[G[h][j].b] /\ G[h][j].b \in 1..Len(bkt')
  <2>1. \A c \in 1..Len(bkt) : bkt'[c] \subseteq bkt[c] /\ c \in 1..Len(bkt')
    <3> SUFFICES ASSUME NEW c \in 1..Len(bkt) PROVE bkt'[c] \subseteq bkt[c] /\ c \in 1..Len(bkt')
      OBVIOUS
    <3>1. CASE c = b
      BY <1>6, <1>12, <3>1
    <3>2. CASE c # b
      BY <1>6, <1>12, <3>2
    <3> QED
      BY <3>1, <3>2
  <2> QED
    BY <1>7, <2>1
<1>21. SplitInv'
  <2>1. ASSUME NEW u \in Threads \ {t}, ~Doomed(u) PROVE SplitOK(th[u], G, bkt', gs)
    <3> SUFFICES ASSUME th[u].pc = "link" PROVE SplitOK(th[u], G, bkt', gs)
      BY DEF SplitOK
    <3>1. SplitOK(th[u], G, bkt, gs) /\ th[u].nb \in 1..Len(bkt) /\ bkt'[th[u].nb] = bkt[th[u].nb]
      BY <1>19, <2>1
    <3> QED
      BY <1>6, <1>12, <1>20, <3>1, SMTT(30) DEF SplitOK
  <2>2. SplitOK(r, G, bkt', gs)
    <3>1. Loose(G, N)
      BY <1>6, <1>7 DEF Loose
    <3>2. ASSUME NEW x \in bkt'[N]
          PROVE  /\ G[g][i].low < x /\ \A y \in bkt'[G[g][i].b] : y < x
                 /\ \A l \in EntryKeys(G) : G[g][i].low < l => x < l
      <4>1. x \in bkt[b] /\ b = G[g][i].b
        BY <1>12 DEF b, G
      <4>2. PICK y \in bkt'[b] : TRUE
        BY <1>12
      <4>3. G[g][i].low <= y /\ y < x
        BY <1>3, <1>7, <1>12, <4>1, <4>2 DEF Sound, InRange
      <4>4. G[g][i].low \in Nat /\ x \in Nat /\ y \in Nat
        <5>1. G[g][i].low \in Nat
          BY <1>1, <1>3, EntryFacts
        <5>2. bkt[b] \subseteq Nat
          BY <1>6, <1>10, ConstantFacts
        <5> QED
          BY <1>12, <4>1, <4>2, <5>1, <5>2
      <4>5. \A l \in EntryKeys(G) : G[g][i].low < l => x < l
        BY <1>3, <1>7, <4>1 DEF Sound, InRange
      <4> QED
        BY <1>12, <4>1, <4>3, <4>4, <4>5
    <3> QED
      BY <1>3, <1>5, <1>6, <1>8, <1>12, <3>1, <3>2 DEF SplitOK, g
  <2>3. \A u \in Threads : ~Doomed(u)' => SplitOK(th'[u], G, bkt', gs)
    BY <1>14, <1>16, <2>1, <2>2
  <2>4. ASSUME NEW u \in Threads, NEW v \in Threads, u # v, th'[u].pc = "link", th'[v].pc = "link",
               ~Doomed(u)', ~Doomed(v)'
        PROVE  th'[u].nb # th'[v].nb
    <3>1. CASE u = t
      BY <1>8, <1>14, <1>16, <1>19, <2>4, <3>1
    <3>2. CASE v = t
      BY <1>8, <1>14, <1>16, <1>19, <2>4, <3>2
    <3>3. CASE u # t /\ v # t
      BY <1>1, <1>16, <2>4, <3>3 DEF Tree, Core, SplitInv
    <3> QED
      BY <3>1, <3>2, <3>3
  <2> QED
    BY <1>4, <2>3, <2>4 DEF SplitInv, G
<1>22. ASSUME Calm, NEW q, Kept(q) PROVE Kept(q)'
  <2>1. CASE q \in bkt'[N]
    BY <1>8, <1>14, <2>1 DEF Kept
  <2>2. ASSUME Within(q, G, bkt), q \notin bkt'[N] PROVE Within(q, G, bkt')
    BY <1>7, <1>12, <2>2 DEF Within
  <2>3. ASSUME NEW u \in Threads, th[u].pc = "link", q \in bkt[th[u].nb]
        PROVE  th'[u].pc = "link" /\ q \in bkt'[th'[u].nb]
    BY <1>16, <1>19, <1>22, <2>3 DEF Calm
  <2> QED
    BY <1>4, <1>22, <2>1, <2>2, <2>3 DEF Kept, G
<1>23. ASSUME Calm' PROVE KeyInv'
  <2>0. Calm
    BY <1>16, <1>23 DEF Calm, Doomed
  <2>1. \A q \in acked' : Kept(q)'
    BY <1>1, <1>4, <1>22, <2>0 DEF Tree, Core, KeyInv
  <2>2. ASSUME NEW u \in Threads, th'[u].pc = "unlock", th'[u].ret = "ok"
        PROVE  Kept(th[u].key)' /\ th'[u] = th[u]
    <3>1. PICK q : q = th[u].key
      OBVIOUS
    <3>2. th'[u] = th[u] /\ Kept(q)
      BY <1>1, <1>8, <1>14, <1>16, <2>0, <2>2, <3>1 DEF Tree, Core, KeyInv
    <3>3. Kept(q)'
      BY <1>22, <2>0, <3>2
    <3> QED
      BY <3>1, <3>2, <3>3
  <2> QED
    BY <2>1, <2>2 DEF KeyInv
<1>24. TreeInv'
  <2>1. Sound(G, bkt')
    BY <1>7, <1>20 DEF Sound, InRange
  <2> QED
    BY <1>1, <1>4, <1>17, <2>1 DEF Tree, Core, TreeInv, G
<1>25. CopyInv'
  BY <1>1, <1>4, <1>17 DEF Tree, Core, CopyInv, expandVars
<1> QED
  BY <1>14, <1>15, <1>18, <1>21, <1>23, <1>24, <1>25 DEF Safe, Tree, Core

\* group::Put, whole.
LEMMA PutSafe == ASSUME Inv, Safe, NEW t \in Threads, Put(t), ~strayed' PROVE Safe'
<1>1. th[t].pc = "work" /\ th[t].op = "put" /\ InGroups(t) /\ (PutRoom(t) \/ PutFull(t) \/ PutSplit(t))
  BY DEF Put, Wild
<1> QED
  BY <1>1, PutRoomSafe, PutFullSafe, PutSplitSafe

----------------------------------------------------------------------------
(* A new entry.                                                            *)

\* What InsertAfter makes of a sequence.
LEMMA InsertAfterFact ==
  ASSUME NEW T, NEW s \in Seq(T), NEW p \in 1..Len(s), NEW e \in T
  PROVE  /\ InsertAfter(s, p, e) \in Seq(T) /\ Len(InsertAfter(s, p, e)) = Len(s) + 1
         /\ \A j \in 1..(Len(s) + 1) :
              InsertAfter(s, p, e)[j] = IF j <= p THEN s[j] ELSE IF j = p + 1 THEN e ELSE s[j - 1]
<1> DEFINE a == SubSeq(s, 1, p)  c == SubSeq(s, p + 1, Len(s))  d == a \o <<e>>
<1>1. Len(s) \in Nat /\ p \in Nat
  OBVIOUS
<1>2. a \in Seq(T) /\ Len(a) = p /\ \A j \in 1..p : a[j] = s[j]
  BY <1>1
<1>3. c \in Seq(T) /\ Len(c) = Len(s) - p /\ \A j \in 1..(Len(s) - p) : c[j] = s[j + p]
  BY <1>1
<1> HIDE DEF a, c
<1>4. d \in Seq(T) /\ Len(d) = p + 1 /\ \A j \in 1..(p + 1) : d[j] = IF j <= p THEN s[j] ELSE e
  BY <1>1, <1>2
<1> HIDE DEF d
<1>5. /\ d \o c \in Seq(T) /\ Len(d \o c) = Len(s) + 1
      /\ \A j \in 1..(Len(s) + 1) : (d \o c)[j] = IF j <= p + 1 THEN d[j] ELSE c[j - (p + 1)]
  <2>1. /\ d \o c \in Seq(T) /\ Len(d \o c) = Len(d) + Len(c)
        /\ \A j \in 1..(Len(d) + Len(c)) : (d \o c)[j] = IF j <= Len(d) THEN d[j] ELSE c[j - Len(d)]
    BY <1>3, <1>4, ConcatProperties
  <2>2. Len(d) = p + 1 /\ Len(d) + Len(c) = Len(s) + 1
    BY <1>1, <1>3, <1>4
  <2> QED
    BY <2>1, <2>2
<1>6. ASSUME NEW j \in 1..(Len(s) + 1)
      PROVE  (d \o c)[j] = IF j <= p THEN s[j] ELSE IF j = p + 1 THEN e ELSE s[j - 1]
  <2>1. CASE j <= p + 1
    BY <1>1, <1>4, <1>5, <2>1
  <2>2. CASE j > p + 1
    <3>1. j - (p + 1) \in 1..(Len(s) - p) /\ j - (p + 1) + p = j - 1
      BY <1>1, <2>2
    <3> QED
      <4>1. (d \o c)[j] = c[j - (p + 1)]
        BY <1>1, <1>5, <2>2
      <4>2. c[j - (p + 1)] = s[j - 1]
        BY <1>3, <3>1
      <4> QED
        BY <1>1, <2>2, <4>1, <4>2
  <2>3. j <= p + 1 \/ j > p + 1
    BY <1>1
  <2> QED
    BY <2>1, <2>2, <2>3
<1>7. InsertAfter(s, p, e) = d \o c
  BY DEF InsertAfter, d, a, c
<1> QED
  BY <1>5, <1>6, <1>7

\* H is G with the entry e behind the entry (g, p).
Inserted(G, H, g, p, e) ==
  /\ H \in Groups /\ Len(H) = Len(G) /\ Len(H[g]) = Len(G[g]) + 1
  /\ \A h \in 1..Len(G) : h # g => H[h] = G[h]
  /\ \A j \in 1..Len(H[g]) : H[g][j] = IF j <= p THEN G[g][j] ELSE IF j = p + 1 THEN e ELSE G[g][j - 1]

\* The assignment to the group.
Insert(G, g, p, e) == [G EXCEPT ![g] = InsertAfter(@, p, e)]

\* It inserts the entry and leaves the other groups.
LEMMA InsertFact ==
  ASSUME NEW G \in Groups, NEW g \in 1..Len(G), NEW p \in 1..Len(G[g]), NEW e \in Entries
  PROVE  Inserted(G, Insert(G, g, p, e), g, p, e)
<1> DEFINE K == InsertAfter(G[g], p, e)  H == [G EXCEPT ![g] = K]
<1>1. /\ Len(G) \in Nat /\ G[g] \in Seq(Entries) /\ DOMAIN G = 1..Len(G) /\ G \in Seq(Seq(Entries))
  BY EntryFacts DEF Groups
<1>2. /\ K \in Seq(Entries) /\ Len(K) = Len(G[g]) + 1
      /\ \A j \in 1..Len(K) : K[j] = IF j <= p THEN G[g][j] ELSE IF j = p + 1 THEN e ELSE G[g][j - 1]
  BY <1>1, InsertAfterFact
<1> HIDE DEF K
<1>3. H \in Groups /\ Len(H) = Len(G) /\ \A h \in 1..Len(G) : H[h] = IF h = g THEN K ELSE G[h]
  BY <1>1, <1>2 DEF Groups
<1>4. H = Insert(G, g, p, e)
  BY DEF Insert, K
<1> HIDE DEF H
<1> QED
  BY <1>2, <1>3, <1>4, SMTT(30) DEF Inserted

\* The place (h, j) of H is the new one, or one of G.
Came(G, H, g, p, e, h, j) ==
  \/ h = g /\ j = p + 1 /\ H[h][j] = e
  \/ \E i \in 1..Len(G[h]) : H[h][j] = G[h][i] /\ IF h = g /\ i > p THEN j = i + 1 ELSE j = i

\* All places of H are such.
LEMMA InsertedPlaces ==
  ASSUME NEW G \in Groups, NEW H, NEW g \in 1..Len(G), NEW p \in 1..Len(G[g]), NEW e,
         Inserted(G, H, g, p, e), NEW h \in 1..Len(H), NEW j \in 1..Len(H[h])
  PROVE  Came(G, H, g, p, e, h, j)
<1>1. h \in 1..Len(G) /\ Len(G[g]) \in Nat /\ Len(G[h]) \in Nat /\ p \in Nat /\ j \in Nat
  BY EntryFacts DEF Inserted, Came
<1>2. CASE h # g
  BY <1>1, <1>2 DEF Inserted, Came
<1>3. CASE h = g /\ j <= p
  BY <1>1, <1>3 DEF Inserted, Came
<1>4. CASE h = g /\ j = p + 1
  BY <1>1, <1>4 DEF Inserted, Came
<1>5. CASE h = g /\ j > p + 1
  <2>1. j - 1 \in 1..Len(G[g]) /\ H[g][j] = G[g][j - 1] /\ j - 1 > p
    BY <1>1, <1>5 DEF Inserted, Came
  <2> QED
    BY <1>1, <1>5, <2>1 DEF Came
<1> QED
  BY <1>1, <1>2, <1>3, <1>4, <1>5

\* The entries of G are among those of H, the first ones unmoved.
Extended(G, H, g, p, e) ==
  /\ p + 1 \in 1..Len(H[g]) /\ H[g][p + 1] = e
  /\ \A h \in 1..Len(G) : \A i \in 1..Len(G[h]) : \E j \in 1..Len(H[h]) : H[h][j] = G[h][i]
  /\ \A h \in 1..Len(G) : (H[h] = <<>> <=> G[h] = <<>>) /\ (G[h] # <<>> => H[h][1] = G[h][1])

\* An insertion makes it so.
LEMMA PlacesInserted ==
  ASSUME NEW G \in Groups, NEW H, NEW g \in 1..Len(G), NEW p \in 1..Len(G[g]), NEW e,
         Inserted(G, H, g, p, e)
  PROVE  Extended(G, H, g, p, e)
<1>1. /\ Len(G) \in Nat /\ Len(G[g]) \in Nat /\ p \in Nat /\ p >= 1 /\ p <= Len(G[g])
      /\ G[g] # <<>> /\ G[g] \in Seq(Entries) /\ H[g] \in Seq(Entries)
      /\ Len(H[g]) = Len(G[g]) + 1
  BY EntryFacts DEF Inserted
<1>2. p + 1 \in 1..Len(H[g]) /\ H[g][p + 1] = e
  BY <1>1 DEF Inserted
<1>3. ASSUME NEW i \in 1..Len(G[g]) PROVE \E j \in 1..Len(H[g]) : H[g][j] = G[g][i]
  <2>1. CASE i <= p
    BY <1>1, <2>1 DEF Inserted
  <2>2. CASE i > p
    <3>1. i + 1 \in 1..Len(H[g]) /\ H[g][i + 1] = G[g][i]
      BY <1>1, <2>2 DEF Inserted
    <3> QED
      BY <3>1
  <2> QED
    BY <1>1, <2>1, <2>2
<1>4. H[g] # <<>> /\ H[g][1] = G[g][1]
  BY <1>1 DEF Inserted
<1> QED
  BY <1>1, <1>2, <1>3, <1>4, ZenonT(30) DEF Inserted, Extended

\* The entry e may come behind the entry (g, p).
Between(G, B, g, p, e) ==
  /\ Loose(G, e.b) /\ e.b \in 1..Len(B)
  /\ G[g][p].low < e.low /\ \A y \in B[G[g][p].b] : y < e.low
  /\ \A x \in B[e.b] : e.low <= x
  /\ \A h \in 1..Len(G) : \A j \in 1..Len(G[h]) : Before(g, p, h, j) =>
       e.low < G[h][j].low /\ \A x \in B[e.b] : x < G[h][j].low

\* What is known of the two entries at places of H.
LEMMA InsertPlaced ==
  ASSUME NEW G \in Groups, NEW B, Placed(G, B), NEW g \in 1..Len(G), NEW p \in 1..Len(G[g]),
         NEW e \in Entries, NEW H, Inserted(G, H, g, p, e), Between(G, B, g, p, e),
         \A b \in 1..Len(B) : B[b] \subseteq Nat
  PROVE  Placed(H, B)
<1>1. H \in Groups /\ Len(H) = Len(G) /\ g \in Nat /\ p \in Nat
  BY EntryFacts DEF Inserted
<1>2. ASSUME NEW h \in 1..Len(H), NEW j \in 1..Len(H[h])
      PROVE  \/ h = g /\ j = p + 1 /\ H[h][j] = e
             \/ \E i \in 1..Len(G[h]) : H[h][j] = G[h][i] /\ IF h = g /\ i > p THEN j = i + 1 ELSE j = i
  <2>1. Came(G, H, g, p, e, h, j)
    BY InsertedPlaces
  <2> QED
    BY <2>1 DEF Came
<1>3. \A h \in 1..Len(G) : \A i \in 1..Len(G[h]) :
         /\ h \in Nat /\ i \in Nat /\ G[h][i].low \in Nat /\ G[h][i].b \in 1..Len(B) /\ G[h][i].b # e.b
         /\ B[G[h][i].b] \subseteq Nat
         /\ \A k \in B[G[h][i].b] : G[h][i].low <= k
  <2> SUFFICES ASSUME NEW h \in 1..Len(G), NEW i \in 1..Len(G[h])
               PROVE  /\ h \in Nat /\ i \in Nat /\ G[h][i].low \in Nat /\ G[h][i].b \in 1..Len(B)
                      /\ G[h][i].b # e.b /\ B[G[h][i].b] \subseteq Nat
                      /\ \A k \in B[G[h][i].b] : G[h][i].low <= k
    OBVIOUS
  <2>1. h \in Nat /\ i \in Nat /\ G[h][i].low \in Nat
    BY EntryFacts
  <2>2. G[h][i].b \in 1..Len(B) /\ \A k \in B[G[h][i].b] : G[h][i].low <= k
    BY DEF Placed
  <2>3. G[h][i].b # e.b
    BY DEF Between, Loose
  <2> QED
    BY <2>1, <2>2, <2>3
<1>4. e.low \in Nat /\ e.b \in 1..Len(B) /\ B[e.b] \subseteq Nat
  BY ConstantFacts DEF Between, Entries
<1>5. ASSUME NEW h \in 1..Len(H), NEW j \in 1..Len(H[h]), NEW f \in 1..Len(H), NEW i \in 1..Len(H[f])
      PROVE  /\ H[h][j].b = H[f][i].b => h = f /\ j = i
             /\ Before(h, j, f, i) => H[h][j].low < H[f][i].low /\ \A k \in B[H[h][j].b] : k < H[f][i].low
  <2>0. j \in Nat /\ i \in Nat /\ h \in Nat /\ f \in Nat
    BY <1>1, EntryFacts
  <2>1. CASE h = g /\ j = p + 1 /\ H[h][j] = e
    <3>1. CASE f = g /\ i = p + 1 /\ H[f][i] = e
      BY <1>1, <2>1, <3>1 DEF Before
    <3>2. ASSUME NEW m \in 1..Len(G[f]), H[f][i] = G[f][m], IF f = g /\ m > p THEN i = m + 1 ELSE i = m
          PROVE  /\ H[h][j].b # H[f][i].b
                 /\ Before(h, j, f, i) => H[h][j].low < H[f][i].low /\ \A k \in B[H[h][j].b] : k < H[f][i].low
      <4>1. m \in Nat /\ G[f][m].b # e.b /\ f \in 1..Len(G)
        BY <1>1, <1>3
      <4>2. Before(h, j, f, i) => Before(g, p, f, m)
        BY <1>1, <2>0, <2>1, <3>2, <4>1 DEF Before
      <4> QED
        BY <2>1, <3>2, <4>1, <4>2 DEF Between
    <3> QED
      BY <1>2, <2>1, <3>1, <3>2
  <2>2. ASSUME NEW m \in 1..Len(G[h]), H[h][j] = G[h][m], IF h = g /\ m > p THEN j = m + 1 ELSE j = m
        PROVE  /\ H[h][j].b = H[f][i].b => h = f /\ j = i
               /\ Before(h, j, f, i) => H[h][j].low < H[f][i].low /\ \A k \in B[H[h][j].b] : k < H[f][i].low
    <3>0. m \in Nat /\ h \in 1..Len(G) /\ G[h][m].b # e.b
      BY <1>1, <1>3
    <3>1. CASE f = g /\ i = p + 1 /\ H[f][i] = e
      <4>1. Before(h, j, f, i) => Before(h, m, g, p) \/ (h = g /\ m = p)
        BY <1>1, <2>0, <2>2, <3>0, <3>1 DEF Before
      <4>2. ASSUME Before(h, m, g, p) PROVE G[h][m].low < e.low /\ \A k \in B[G[h][m].b] : k < e.low
        <5>1. G[h][m].low < G[g][p].low /\ \A k \in B[G[h][m].b] : k < G[g][p].low
          BY <3>0, <4>2 DEF Placed
        <5>2. G[g][p].low < e.low
          BY DEF Between
        <5>3. G[h][m].low \in Nat /\ G[g][p].low \in Nat /\ B[G[h][m].b] \subseteq Nat
          BY <1>3, <3>0
        <5>4. ASSUME NEW k \in B[G[h][m].b] PROVE k < e.low
          <6>1. k \in Nat /\ k < G[g][p].low
            BY <5>1, <5>3
          <6> QED
            BY <1>4, <5>2, <5>3, <6>1
        <5>5. G[h][m].low < e.low
          <6>1. G[h][m].low < G[g][p].low /\ G[h][m].low \in Nat /\ G[g][p].low \in Nat /\ e.low \in Nat
            BY <1>4, <5>1, <5>3
          <6>2. \A a, b, c \in Nat : a < b /\ b < c => a < c
            OBVIOUS
          <6> QED
            BY <5>2, <6>1, <6>2, Zenon
        <5> QED
          BY <5>4, <5>5
      <4>3. h = g /\ m = p => G[h][m].low < e.low /\ \A k \in B[G[h][m].b] : k < e.low
        BY DEF Between
      <4> QED
        BY <2>2, <3>0, <3>1, <4>1, <4>2, <4>3
    <3>2. ASSUME NEW n \in 1..Len(G[f]), H[f][i] = G[f][n], IF f = g /\ n > p THEN i = n + 1 ELSE i = n
          PROVE  /\ H[h][j].b = H[f][i].b => h = f /\ j = i
                 /\ Before(h, j, f, i) => H[h][j].low < H[f][i].low /\ \A k \in B[H[h][j].b] : k < H[f][i].low
      <4>1. n \in Nat /\ f \in 1..Len(G)
        BY <1>1, <1>3
      <4>2. Before(h, j, f, i) => Before(h, m, f, n)
        BY <1>1, <2>0, <2>2, <3>0, <3>2, <4>1 DEF Before
      <4>3. G[h][m].b = G[f][n].b => h = f /\ m = n
        BY <3>0, <4>1 DEF Placed, OneEntryEach
      <4>4. Before(h, m, f, n) => G[h][m].low < G[f][n].low /\ \A k \in B[G[h][m].b] : k < G[f][n].low
        BY <3>0, <4>1 DEF Placed
      <4> QED
        BY <2>2, <3>2, <4>2, <4>3, <4>4
    <3> QED
      BY <1>2, <3>1, <3>2
  <2> QED
    BY <1>2, <2>1, <2>2
<1>6. ASSUME NEW h \in 1..Len(H), NEW j \in 1..Len(H[h])
      PROVE  H[h][j].b \in 1..Len(B) /\ \A k \in B[H[h][j].b] : H[h][j].low <= k
  <2>1. h \in 1..Len(G)
    BY <1>1
  <2>2. H[h][j] = e \/ \E i \in 1..Len(G[h]) : H[h][j] = G[h][i]
    BY <1>2
  <2> QED
    BY <1>3, <1>4, <2>1, <2>2 DEF Between
<1>7. \E h \in 1..Len(H) : H[h] # <<>>
  <2>1. G[g] # <<>> /\ g \in 1..Len(H)
    BY <1>1, EntryFacts
  <2> QED
    BY <2>1, PlacesInserted DEF Extended
<1> QED
  BY <1>5, <1>6, <1>7, SMTT(30) DEF Placed, OneEntryEach

\* The first entries of the groups decide whose group a key is.
LEMMA SameFirsts ==
  ASSUME NEW G \in Groups, NEW H, Len(H) = Len(G),
         \A h \in 1..Len(G) : (H[h] = <<>> <=> G[h] = <<>>) /\ (G[h] # <<>> => H[h][1].low = G[h][1].low)
  PROVE  /\ \A k, f : Under(G, k, f) => Under(H, k, f)
         /\ \A k, f : Owns(G, k, f) => Owns(H, k, f)
         /\ \A M : Routed(G, M) => Routed(H, M)
<1>1. \A f \in 1..Len(G) : FirstUsed(G, f) => FirstUsed(H, f)
  BY EntryFacts DEF FirstUsed
<1>2. \A k, f : Under(G, k, f) => Under(H, k, f)
  BY DEF Under
<1>3. \A k, f : Owns(G, k, f) => Owns(H, k, f)
  BY <1>1, <1>2 DEF Owns
<1>4. \A M : Routed(G, M) => Routed(H, M)
  BY <1>1 DEF Routed
<1> QED
  BY <1>2, <1>3, <1>4

\* What the second step of a split does to the arrays and the thread.
LEMMA LinkFacts ==
  ASSUME Inv, Safe, NEW t \in Threads, Link(t), ~strayed'
  PROVE  LET e == [low |-> Least(bkt[th[t].nb]), b |-> th[t].nb]
         IN /\ Base' /\ RoomInv' /\ Moves(t) /\ th[t].pc = "link" /\ th'[t].pc = "work"
            /\ th'[t].op = th[t].op /\ th'[t].key = th[t].key /\ th'[t].gid = th[t].gid /\ th'[t].gv = th[t].gv
            /\ \A P \in SUBSET Rebuilding : IsAt(P)' <=> IsAt(P)
            /\ ~flag /\ th[t].gv = gs /\ ~Doomed(t) /\ SplitOK(th[t], space[gs], bkt, gs)
            /\ e \in Entries /\ e.low \in bkt[th[t].nb] /\ \A x \in bkt[th[t].nb] : e.low <= x
            /\ Inserted(space[gs], space'[gs], th[t].gid, th[t].pos, e)
            /\ UNCHANGED <<flag, model, gs, bkt, expandVars, acked>>
<1> DEFINE e == [low |-> Least(bkt[th[t].nb]), b |-> th[t].nb]
           g == th[t].gid  p == th[t].pos  G == space[gs]
           r == [th[t] EXCEPT !.pc = "work"]
           H == Insert(G, g, p, e)
<1>1. Base /\ RoomInv /\ TypeInv /\ Tree /\ G \in Groups /\ gs \in 1..Len(space) /\ gs \in Nat
  BY CurrentFacts DEF Safe, Base
<1>2. /\ th[t] \in Locals /\ LocalOK(th[t]) /\ NewOK(th[t], gs, IsAt({"locks", "clear"}))
      /\ GroupOK(th[t], space, gs)
  BY <1>1, ThreadFacts
<1>3. /\ th[t].pc = "link" /\ Live(th[t].wv) /\ ~flag
      /\ space' = [space EXCEPT ![th[t].wv][g] = InsertAfter(@, p, e)] /\ Go(t, "work")
      /\ UNCHANGED <<flag, model, bkt, locked, freed, gs, ls, expandVars, acked>>
  BY DEF Link, Wild
<1>4. th[t].wv = gs /\ th[t].gv = gs
  <2>1. th[t].wv = th[t].gv /\ th[t].gv \in 1..gs
    BY <1>2, <1>3 DEF LocalOK, GroupOK, HasGroup
  <2>2. th[t].gv \notin freed
    BY <1>3, <2>1 DEF Live
  <2> QED
    BY <1>1, <2>1, <2>2 DEF Base, VersionInv
<1>5. ~Doomed(t)
  BY <1>3, <1>4 DEF Doomed
<1>6. SplitOK(th[t], G, bkt, gs)
  BY <1>1, <1>5, ZenonT(30) DEF Tree, Core, SplitInv
<1>7. g \in 1..Len(G) /\ p \in 1..Len(G[g]) /\ th[t].nb \in 1..Len(bkt) /\ bkt[th[t].nb] # {}
  BY <1>3, <1>6 DEF SplitOK
<1>8. bkt[th[t].nb] \in SUBSET Keys /\ bkt[th[t].nb] \in SUBSET Nat /\ th[t].nb \in Nat
  <2>1. bkt[th[t].nb] \in SUBSET Keys /\ th[t].nb \in Nat
    BY <1>1, <1>2, <1>7, LocalFacts DEF TypeInv
  <2> QED
    BY <2>1, ConstantFacts
<1>9. Least(bkt[th[t].nb]) \in bkt[th[t].nb] /\ \A x \in bkt[th[t].nb] : Least(bkt[th[t].nb]) <= x
  BY <1>7, <1>8, LeastFact
<1>10. e \in Entries /\ e.low = Least(bkt[th[t].nb]) /\ e.b = th[t].nb
  BY <1>8, <1>9 DEF Entries
<1>11. space' = [space EXCEPT ![gs] = H]
  BY <1>3, <1>4 DEF Insert
<1>12. r \in Locals /\ r = th'[t] /\ th' = [th EXCEPT ![t] = r]
       /\ r.pc = "work" /\ r.op = th[t].op /\ r.key = th[t].key /\ r.wv = th[t].wv
       /\ r.gid = th[t].gid /\ r.gv = th[t].gv /\ r.lv = th[t].lv
  <2>1. "work" \in PCs
    BY DEF PCs
  <2>2. r \in Locals
    BY <1>2, <2>1 DEF Locals
  <2>3. th' = [th EXCEPT ![t] = r]
    BY <1>3 DEF Go
  <2> QED
    BY <1>1, <1>3, <2>1, <2>2, <2>3, GoFacts
<1> HIDE DEF e, g, p, G, r
<1>13. Inserted(G, H, g, p, e)
  BY <1>1, <1>7, <1>10, InsertFact
<1> HIDE DEF H
<1>14. H \in Groups /\ Len(H) = Len(G) /\ \A h \in 1..Len(G) : G[h] # <<>> => H[h] # <<>>
  <2>1. H \in Groups /\ Len(H) = Len(G)
    BY <1>13 DEF Inserted
  <2>2. Extended(G, H, g, p, e)
    BY <1>1, <1>7, <1>13, PlacesInserted
  <2>3. \A h \in 1..Len(G) : H[h] = <<>> <=> G[h] = <<>>
    BY <2>2 DEF Extended
  <2> QED
    BY <2>1, <2>3
<1>15. /\ space' \in Seq(Groups) /\ Len(space') = Len(space)
       /\ \A w \in 1..Len(space) : space'[w] = IF w = gs THEN H ELSE space[w]
  BY <1>1, <1>11, <1>14, SpaceSet
<1>16. space'[gs] = H
  BY <1>1, <1>15
<1>17. LocalOK(r) /\ NewOK(r, gs, IsAt({"locks", "clear"}))
  BY <1>2, <1>3, <1>12 DEF LocalOK, NewOK, HasGroup
<1>18. /\ Base' /\ Moves(t) /\ th'[t] = r
       /\ \A P \in SUBSET Rebuilding : IsAt(P)' <=> IsAt(P)
  <2>1. /\ th[t].pc \in HasLock /\ r.pc \in HasLock /\ acked' \in SUBSET Keys
        /\ bkt' \in Seq(SUBSET Keys) /\ \A b \in 1..Len(bkt') : IsFiniteSet(bkt'[b])
    BY <1>1, <1>3, <1>12 DEF HasLock, TypeInv
  <2>2. /\ \A v \in 1..gs : Len(space'[v]) = Len(space[v])
        /\ \A h \in 1..Len(space[gs]) : space[gs][h] # <<>> => space'[gs][h] # <<>>
    BY <1>1, <1>14, <1>15 DEF G, Base, VersionInv
  <2> QED
    BY <1>1, <1>3, <1>12, <1>15, <1>17, <2>1, <2>2, WorkStep
<1>19. RoomInv'
  BY <1>1, <1>3, <1>18, RoomKept
<1> QED
  BY <1>3, <1>4, <1>5, <1>6, <1>9, <1>10, <1>12, <1>13, <1>16, <1>18, <1>19 DEF e, g, p, G

\* The new entry is linked.
LEMMA LinkSafe == ASSUME Inv, Safe, NEW t \in Threads, Link(t), ~strayed' PROVE Safe'
<1> DEFINE e == [low |-> Least(bkt[th[t].nb]), b |-> th[t].nb]
           g == th[t].gid  p == th[t].pos  G == space[gs]  H == space'[gs]  S == bkt[th[t].nb]
<1>1. /\ Base' /\ RoomInv' /\ Moves(t) /\ th[t].pc = "link" /\ th'[t].pc = "work"
      /\ th'[t].op = th[t].op /\ th'[t].key = th[t].key /\ th'[t].gid = g /\ th'[t].gv = th[t].gv
      /\ \A P \in SUBSET Rebuilding : IsAt(P)' <=> IsAt(P)
      /\ ~flag /\ th[t].gv = gs /\ ~Doomed(t) /\ SplitOK(th[t], G, bkt, gs)
      /\ e \in Entries /\ e.low \in S /\ \A x \in S : e.low <= x
      /\ Inserted(G, H, g, p, e)
      /\ UNCHANGED <<flag, model, gs, bkt, expandVars, acked>>
  BY LinkFacts
<1>2. e.b = th[t].nb
  OBVIOUS
<1>3. Base /\ Tree /\ G \in Groups /\ bkt \in Seq(SUBSET Keys) /\ Sound(G, bkt)
  BY CurrentFacts, ZenonT(30) DEF Safe, Base, TypeInv, Tree, Core, TreeInv
<1>4. /\ g \in 1..Len(G) /\ p \in 1..Len(G[g]) /\ th[t].nb \in 1..Len(bkt) /\ Loose(G, th[t].nb)
      /\ \A x \in S : /\ G[g][p].low < x /\ \A y \in bkt[G[g][p].b] : y < x
                      /\ \A l \in EntryKeys(G) : G[g][p].low < l => x < l
  BY <1>1, ZenonT(30) DEF SplitOK
<1>5. (IsAt(Trained)' <=> IsAt(Trained)) /\ (IsAt(Copies)' <=> IsAt(Copies)) /\ ~IsAt(Trained) /\ ~IsAt(Copies)
  BY <1>1, StepSets, AtFlag
<1>6. \A u \in Threads \ {t} : th'[u] = th[u] /\ (Doomed(u) <=> Doomed(u)')
  BY <1>1 DEF Moves, Doomed
<1> HIDE DEF e, g, p, G, H, S
<1>7. Placed(G, bkt)
  BY <1>3, SoundIsPlaced
<1>8. \A b \in 1..Len(bkt) : bkt[b] \subseteq Nat
  <2>1. \A b \in 1..Len(bkt) : bkt[b] \in SUBSET Keys
    BY <1>3
  <2> QED
    BY <2>1, ConstantFacts
<1>9. \A h \in 1..Len(G) : \A j \in 1..Len(G[h]) : Before(g, p, h, j) => \A x \in S : x < G[h][j].low
  <2> SUFFICES ASSUME NEW h \in 1..Len(G), NEW j \in 1..Len(G[h]), Before(g, p, h, j)
               PROVE  \A x \in S : x < G[h][j].low
    OBVIOUS
  <2>1. G[g][p].low < G[h][j].low
    BY <1>4, <1>7 DEF Placed
  <2>2. G[h][j].low \in EntryKeys(G)
    BY <1>3, EntryKeysFact
  <2> QED
    BY <1>4, <2>1, <2>2
<1>10. Between(G, bkt, g, p, e)
  BY <1>1, <1>2, <1>4, <1>9 DEF Between, S
<1>11. Placed(H, bkt)
  BY <1>1, <1>3, <1>4, <1>7, <1>8, <1>10, InsertPlaced
<1>12. H \in Groups /\ Len(H) = Len(G)
  BY <1>1 DEF Inserted
<1>13. Sound(H, bkt)
  BY <1>11, <1>12, SoundIsPlaced
<1>14. /\ p + 1 \in 1..Len(H[g]) /\ H[g][p + 1] = e
       /\ \A h \in 1..Len(G) : \A i \in 1..Len(G[h]) : \E j \in 1..Len(H[h]) : H[h][j] = G[h][i]
       /\ \A h \in 1..Len(G) : (H[h] = <<>> <=> G[h] = <<>>) /\ (G[h] # <<>> => H[h][1] = G[h][1])
  <2>1. Extended(G, H, g, p, e)
    BY <1>1, <1>3, <1>4, PlacesInserted
  <2> QED
    BY <2>1 DEF Extended
<1>15. /\ \A k, f : Under(G, k, f) => Under(H, k, f)
       /\ \A k, f : Owns(G, k, f) => Owns(H, k, f)
       /\ \A M : Routed(G, M) => Routed(H, M)
  BY <1>3, <1>12, <1>14, SameFirsts
<1>16. OwnInv'
  <2> SUFFICES ASSUME NEW u \in Threads PROVE OwnOK(th'[u], H, gs, IsAt(Trained)')
    BY <1>1 DEF OwnInv, H
  <2>1. OwnOK(th[u], G, gs, FALSE)
    BY <1>3, <1>5 DEF Tree, Core, OwnInv, OwnOK, G
  <2>2. CASE u = t
    <3>1. th[t].op = "put" => Owns(G, th[t].key, g)
      BY <1>1, <2>1, <2>2 DEF OwnOK, g
    <3>2. th[t].op = "put" => Owns(H, th[t].key, g)
      BY <1>15, <3>1
    <3> QED
      BY <1>1, <2>2, <3>2 DEF OwnOK, Owns
  <2>3. CASE u # t
    <3>1. GroupOK(th[u], space, gs)
      BY <1>3, ThreadFacts
    <3>2. th[u].pc = "work" /\ th[u].gv = gs => th[u].gid \in 1..Len(G)
      BY <3>1 DEF GroupOK, HasGroup, G
    <3> QED
      BY <1>6, <1>14, <1>15, <2>1, <2>3, <3>2 DEF OwnOK
  <2> QED
    BY <2>2, <2>3
<1>17. \A z \in EntryKeys(H) : z = e.low \/ z \in EntryKeys(G)
  <2> SUFFICES ASSUME NEW z \in EntryKeys(H) PROVE z = e.low \/ z \in EntryKeys(G)
    OBVIOUS
  <2>1. PICK h \in 1..Len(H) : \E j \in 1..Len(H[h]) : z = H[h][j].low
    BY <1>12, EntryKeysFact
  <2>2. PICK j \in 1..Len(H[h]) : z = H[h][j].low
    BY <2>1
  <2>3. Came(G, H, g, p, e, h, j)
    BY <1>1, <1>3, <1>4, InsertedPlaces
  <2>4. H[h][j] = e \/ \E i \in 1..Len(G[h]) : H[h][j] = G[h][i]
    BY <2>3 DEF Came
  <2> QED
    BY <1>3, <1>12, <2>2, <2>4, EntryKeysFact
<1>18. SplitInv'
  <2>1. ASSUME NEW u \in Threads \ {t}, ~Doomed(u) PROVE SplitOK(th[u], H, bkt, gs)
    <3> SUFFICES ASSUME th[u].pc = "link" PROVE SplitOK(th[u], H, bkt, gs)
      BY ZenonT(30) DEF SplitOK
    <3> DEFINE f == th[u].gid  q == th[u].pos  n == th[u].nb
    <3>1. /\ th[u].op = "put" /\ th[u].gv = gs /\ f \in 1..Len(G) /\ q \in 1..Len(G[f])
          /\ n \in 1..Len(bkt) /\ bkt[n] # {} /\ Loose(G, n)
          /\ \A x \in bkt[n] : /\ G[f][q].low < x /\ \A y \in bkt[G[f][q].b] : y < x
                               /\ \A l \in EntryKeys(G) : G[f][q].low < l => x < l
      BY <1>3, <2>1 DEF Tree, Core, SplitInv, SplitOK, G
    <3>2. n # th[t].nb
      BY <1>1, <1>3, <2>1 DEF Tree, Core, SplitInv
    <3>3. f # g
      BY <1>1, <1>3, <3>1, OtherGroup DEF HasLock, g
    <3> HIDE DEF f, q, n
    <3>4. H[f] = G[f]
      BY <1>1, <3>1, <3>3 DEF Inserted
    <3>5. Loose(H, n)
      <4> SUFFICES ASSUME NEW h \in 1..Len(H), NEW j \in 1..Len(H[h]) PROVE H[h][j].b # n
        BY DEF Loose
      <4>1. Came(G, H, g, p, e, h, j) /\ h \in 1..Len(G)
        BY <1>1, <1>3, <1>4, <1>12, InsertedPlaces
      <4>2. H[h][j] = e \/ \E i \in 1..Len(G[h]) : H[h][j] = G[h][i]
        BY <4>1 DEF Came
      <4> QED
        BY <1>2, <3>1, <3>2, <4>1, <4>2 DEF Loose
    <3>6. ASSUME NEW x \in bkt[n], G[f][q].low < e.low PROVE x < e.low
      <4>0. /\ G[f] # <<>> /\ G[g] # <<>> /\ 1 \in 1..Len(G[g]) /\ f \in Nat /\ g \in Nat /\ p \in Nat
            /\ G[f][q].low \in Nat /\ G[g][1].low \in Nat /\ G[g][p].low \in Nat
        BY <1>3, <1>4, <3>1, EntryFacts
      <4>1. x \in Nat /\ e.low \in Nat
        <5>1. bkt[n] \subseteq Nat /\ bkt[th[t].nb] \subseteq Nat
          BY <1>4, <1>8, <3>1
        <5> QED
          BY <1>1, <5>1 DEF S
      <4>2. ~(g < f)
        <5> SUFFICES ASSUME g < f PROVE FALSE
          OBVIOUS
        <5>1. e.low < G[f][q].low
          BY <1>1, <1>9, <3>1 DEF Before
        <5> QED
          BY <3>6, <4>0, <4>1, <5>1
      <4>3. f < g
        BY <3>3, <4>0, <4>2
      <4>4. G[f][q].low < G[g][1].low
        BY <1>4, <1>7, <3>1, <4>0, <4>3 DEF Placed, Before
      <4>5. x < G[g][1].low
        <5>1. G[g][1].low \in EntryKeys(G)
          BY <1>3, <1>4, <4>0, EntryKeysFact
        <5> QED
          BY <3>1, <4>4, <5>1
      <4>6. G[g][1].low <= G[g][p].low
        <5>1. p = 1 \/ Before(g, 1, g, p)
          BY <1>4, <4>0 DEF Before
        <5>2. Before(g, 1, g, p) => G[g][1].low < G[g][p].low
          BY <1>4, <1>7, <4>0 DEF Placed
        <5> QED
          BY <4>0, <5>1, <5>2
      <4>7. G[g][p].low < e.low
        BY <1>1, <1>4
      <4> QED
        BY <4>0, <4>1, <4>5, <4>6, <4>7
    <3>7. \A x \in bkt[n] : \A l \in EntryKeys(H) : G[f][q].low < l => x < l
      BY <1>17, <3>1, <3>6
    <3> QED
      BY <1>12, <3>1, <3>4, <3>5, <3>7 DEF SplitOK, f, q, n
  <2>2. \A u \in Threads : ~Doomed(u)' => SplitOK(th'[u], H, bkt, gs)
    <3>1. SplitOK(th'[t], H, bkt, gs)
      BY <1>1 DEF SplitOK
    <3> QED
      BY <1>6, <2>1, <3>1
  <2>3. \A u, v \in Threads : u # v /\ th'[u].pc = "link" /\ th'[v].pc = "link"
          /\ ~Doomed(u)' /\ ~Doomed(v)' => th'[u].nb # th'[v].nb
    BY <1>1, <1>3, <1>6 DEF Tree, Core, SplitInv
  <2> QED
    BY <1>1, <2>2, <2>3 DEF SplitInv, H
<1>19. ASSUME NEW q, Kept(q) PROVE Kept(q)'
  <2>1. ASSUME Within(q, G, bkt) PROVE Within(q, H, bkt)
    BY <1>12, <1>14, <2>1 DEF Within
  <2>2. ASSUME q \in bkt[th[t].nb] PROVE Within(q, H, bkt)
    BY <1>2, <1>4, <1>12, <1>14, <2>2 DEF Within
  <2>3. ASSUME NEW u \in Threads \ {t}, th[u].pc = "link", q \in bkt[th[u].nb]
        PROVE  th'[u].pc = "link" /\ q \in bkt'[th'[u].nb]
    BY <1>1, <1>6, <2>3
  <2> QED
    BY <1>1, <1>19, <2>1, <2>2, <2>3 DEF Kept, G, H
<1>20. ASSUME Calm' PROVE KeyInv'
  <2>0. Calm
    BY <1>1, <1>6, <1>20 DEF Calm
  <2>1. \A q \in acked' : Kept(q)'
    BY <1>1, <1>3, <1>19, <2>0 DEF Tree, Core, KeyInv
  <2>2. ASSUME NEW u \in Threads, th'[u].pc = "unlock", th'[u].ret = "ok"
        PROVE  Kept(th[u].key)' /\ th'[u] = th[u]
    <3>1. PICK q : q = th[u].key
      OBVIOUS
    <3>2. th'[u] = th[u] /\ Kept(q)
      BY <1>1, <1>3, <1>6, <2>0, <2>2, <3>1 DEF Tree, Core, KeyInv
    <3>3. Kept(q)'
      BY <1>19, <3>2
    <3> QED
      BY <3>1, <3>2, <3>3
  <2> QED
    BY <2>1, <2>2 DEF KeyInv
<1>21. TreeInv'
  <2>1. ~IsAt(Trained) => Routed(H, model)
    BY <1>3, <1>15 DEF Tree, Core, TreeInv, G
  <2> QED
    BY <1>1, <1>5, <1>13, <2>1 DEF TreeInv, H
<1>22. CopyInv'
  BY <1>5 DEF CopyInv
<1> QED
  BY <1>1, <1>16, <1>18, <1>20, <1>21, <1>22 DEF Safe, Tree, Core

----------------------------------------------------------------------------
(* Steps of ExpandTree.                                                    *)

\* AdjustEntryKey raises an entry key, not beyond a key of the bucket or the next entry.
LEMMA AdjustedKey ==
  ASSUME TypeInv, NEW G \in Groups, Sound(G, bkt), NEW g \in 1..Len(G), G[g] # <<>>,
         NEW l \in AdjustedKeys(G, g)
  PROVE  /\ l \in Keys /\ G[g][1].low <= l /\ \A k \in bkt[G[g][1].b] : l <= k
         /\ \A x \in EntryKeys(G) : G[g][1].low < x => l < x
<1>1. 1 \in 1..Len(G[g])
  BY EntryFacts
<1>2. /\ G[g][1].b \in 1..Len(bkt)
      /\ \A k \in bkt[G[g][1].b] : /\ G[g][1].low <= k
                                   /\ \A x \in EntryKeys(G) : G[g][1].low < x => k < x
  BY <1>1 DEF Sound, InRange
<1>3. bkt[G[g][1].b] \in SUBSET Keys /\ bkt[G[g][1].b] \in SUBSET Nat
  <2>1. bkt[G[g][1].b] \in SUBSET Keys
    BY <1>2 DEF TypeInv
  <2> QED
    BY <2>1, ConstantFacts
<1>4. CASE bkt[G[g][1].b] # {}
  <2>1. l = Least(bkt[G[g][1].b])
    BY <1>4 DEF AdjustedKeys
  <2>2. l \in bkt[G[g][1].b] /\ \A k \in bkt[G[g][1].b] : l <= k
    BY <1>3, <1>4, <2>1, LeastFact
  <2> QED
    BY <1>2, <1>3, <2>2
<1>5. CASE bkt[G[g][1].b] = {}
  BY <1>5 DEF AdjustedKeys
<1> QED
  BY <1>4, <1>5

\* The assignment to the first entry keys.
Adjust(G, low) == [g \in 1..Len(G) |-> IF G[g] # <<>> THEN [G[g] EXCEPT ![1].low = low[g]] ELSE G[g]]

\* It sets those and leaves all else.
LEMMA AdjustFact ==
  ASSUME NEW G \in Groups, NEW low, \A g \in 1..Len(G) : G[g] # <<>> => low[g] \in Keys
  PROVE  LET H == Adjust(G, low) IN
         /\ H \in Groups /\ Len(H) = Len(G)
         /\ \A g \in 1..Len(G) : /\ Len(H[g]) = Len(G[g]) /\ (H[g] = <<>> <=> G[g] = <<>>)
              /\ \A j \in 1..Len(G[g]) : /\ H[g][j].b = G[g][j].b
                                         /\ H[g][j].low = IF j = 1 THEN low[g] ELSE G[g][j].low
<1> DEFINE H == Adjust(G, low)
<1>1. Len(G) \in Nat
  BY EntryFacts
<1>2. ASSUME NEW g \in 1..Len(G)
      PROVE  /\ H[g] \in Seq(Entries) /\ Len(H[g]) = Len(G[g]) /\ (H[g] = <<>> <=> G[g] = <<>>)
             /\ \A j \in 1..Len(G[g]) : /\ H[g][j].b = G[g][j].b
                                        /\ H[g][j].low = IF j = 1 THEN low[g] ELSE G[g][j].low
  <2>1. G[g] \in Seq(Entries)
    BY EntryFacts
  <2>2. CASE G[g] = <<>>
    <3>1. H[g] = <<>>
      BY <2>2 DEF Adjust
    <3> QED
      BY <2>1, <2>2, <3>1
  <2>3. CASE G[g] # <<>>
    <3> DEFINE d == [G[g][1] EXCEPT !.low = low[g]]
    <3>1. 1 \in 1..Len(G[g]) /\ G[g][1] \in Entries
      BY <2>3, EntryFacts
    <3>2. d \in Entries /\ d.low = low[g] /\ d.b = G[g][1].b
      BY <2>3, <3>1 DEF Entries
    <3>3. H[g] = [G[g] EXCEPT ![1] = d]
      BY <2>3 DEF Adjust
    <3> HIDE DEF d, H
    <3>4. /\ H[g] \in Seq(Entries) /\ Len(H[g]) = Len(G[g])
          /\ \A j \in 1..Len(G[g]) : H[g][j] = IF j = 1 THEN d ELSE G[g][j]
      BY <2>1, <3>1, <3>2, <3>3
    <3>5. H[g] # <<>>
      BY <2>1, <2>3, <3>1, <3>4
    <3> QED
      BY <2>3, <3>2, <3>4, <3>5
  <2> QED
    BY <2>2, <2>3
<1>3. H = [g \in 1..Len(G) |-> H[g]]
  BY DEF Adjust
<1> HIDE DEF H
<1>4. H \in Groups /\ Len(H) = Len(G)
  BY <1>1, <1>2, <1>3 DEF Groups
<1> QED
  BY <1>2, <1>4 DEF H

\* H is G with entry keys raised, each not beyond its bucket and the next entry.
Raised(G, H, B) ==
  /\ H \in Groups /\ Len(H) = Len(G)
  /\ \A g \in 1..Len(G) : /\ Len(H[g]) = Len(G[g]) /\ (H[g] = <<>> <=> G[g] = <<>>)
       /\ \A j \in 1..Len(G[g]) :
            /\ H[g][j].b = G[g][j].b /\ G[g][j].low <= H[g][j].low
            /\ \A k \in B[G[g][j].b] : H[g][j].low <= k
            /\ \A h \in 1..Len(G) : \A i \in 1..Len(G[h]) : Before(g, j, h, i) => H[g][j].low < G[h][i].low

\* AdjustEntryKey of all groups does that.
LEMMA AdjustRaises ==
  ASSUME TypeInv, NEW G \in Groups, Sound(G, bkt), NEW low,
         \A g \in 1..Len(G) : G[g] # <<>> => low[g] \in AdjustedKeys(G, g)
  PROVE  Raised(G, Adjust(G, low), bkt)
<1> DEFINE H == Adjust(G, low)
<1>1. ASSUME NEW g \in 1..Len(G), G[g] # <<>>
      PROVE  /\ low[g] \in Keys /\ G[g][1].low <= low[g] /\ \A k \in bkt[G[g][1].b] : low[g] <= k
             /\ \A x \in EntryKeys(G) : G[g][1].low < x => low[g] < x
  BY <1>1, AdjustedKey
<1>2. /\ H \in Groups /\ Len(H) = Len(G)
      /\ \A g \in 1..Len(G) : /\ Len(H[g]) = Len(G[g]) /\ (H[g] = <<>> <=> G[g] = <<>>)
           /\ \A j \in 1..Len(G[g]) : /\ H[g][j].b = G[g][j].b
                                      /\ H[g][j].low = IF j = 1 THEN low[g] ELSE G[g][j].low
  BY <1>1, AdjustFact
<1> HIDE DEF H
<1>3. Placed(G, bkt)
  BY SoundIsPlaced
<1>4. ASSUME NEW g \in 1..Len(G), NEW j \in 1..Len(G[g])
      PROVE  /\ G[g][j].low <= H[g][j].low /\ \A k \in bkt[G[g][j].b] : H[g][j].low <= k
             /\ \A h \in 1..Len(G) : \A i \in 1..Len(G[h]) : Before(g, j, h, i) => H[g][j].low < G[h][i].low
  <2>1. G[g] # <<>> /\ G[g][j].low \in Nat /\ \A h \in 1..Len(G) : \A i \in 1..Len(G[h]) : G[h][i].low \in EntryKeys(G)
    BY EntryFacts, EntryKeysFact
  <2>2. /\ \A k \in bkt[G[g][j].b] : G[g][j].low <= k
        /\ \A h \in 1..Len(G) : \A i \in 1..Len(G[h]) : Before(g, j, h, i) => G[g][j].low < G[h][i].low
    BY <1>3 DEF Placed
  <2>3. CASE j = 1
    BY <1>1, <1>2, <2>1, <2>2, <2>3
  <2>4. CASE j # 1
    BY <1>2, <2>1, <2>2, <2>4
  <2> QED
    BY <2>3, <2>4
<1>5. Raised(G, H, bkt)
  BY <1>2, <1>4 DEF Raised
<1> QED
  BY <1>5 DEF H

\* The tree stays sound, and keys stay below the groups behind theirs.
LEMMA RaisedSound ==
  ASSUME NEW G \in Groups, NEW B, Sound(G, B), \A b \in 1..Len(B) : B[b] \subseteq Nat, NEW H, Raised(G, H, B)
  PROVE  /\ Sound(H, B) /\ \A k \in Nat : \A f : Under(G, k, f) => Under(H, k, f)
         /\ \A k : Within(k, G, B) => Within(k, H, B)
<1>1. H \in Groups /\ Len(H) = Len(G)
  BY DEF Raised
<1>2. Placed(G, B)
  BY SoundIsPlaced
<1>3. \A g \in 1..Len(G) : \A j \in 1..Len(G[g]) :
         /\ G[g][j].low \in Nat /\ H[g][j].low \in Nat /\ G[g][j].b \in 1..Len(B) /\ B[G[g][j].b] \subseteq Nat
  <2> SUFFICES ASSUME NEW g \in 1..Len(G), NEW j \in 1..Len(G[g])
               PROVE  /\ G[g][j].low \in Nat /\ H[g][j].low \in Nat
                      /\ G[g][j].b \in 1..Len(B) /\ B[G[g][j].b] \subseteq Nat
    OBVIOUS
  <2>1. g \in 1..Len(H) /\ j \in 1..Len(H[g])
    BY DEF Raised
  <2> QED
    BY <1>1, <1>2, <2>1, EntryFacts DEF Placed
<1>4. ASSUME NEW g \in 1..Len(G), NEW j \in 1..Len(G[g]), NEW h \in 1..Len(G), NEW i \in 1..Len(G[h])
      PROVE  /\ H[g][j].b = H[h][i].b => g = h /\ j = i
             /\ Before(g, j, h, i) => H[g][j].low < H[h][i].low /\ \A k \in B[H[g][j].b] : k < H[h][i].low
  <2>1. H[g][j].b = G[g][j].b /\ H[h][i].b = G[h][i].b /\ G[h][i].low <= H[h][i].low
    BY DEF Raised
  <2>2. G[g][j].b = G[h][i].b => g = h /\ j = i
    BY <1>2 DEF Placed, OneEntryEach
  <2>3. ASSUME Before(g, j, h, i)
        PROVE  H[g][j].low < H[h][i].low /\ \A k \in B[G[g][j].b] : k < H[h][i].low
    <3>1. H[g][j].low < G[h][i].low
      BY <2>3 DEF Raised
    <3>2. \A k \in B[G[g][j].b] : k < G[h][i].low
      BY <1>2, <2>3 DEF Placed
    <3>3. G[h][i].low \in Nat /\ H[h][i].low \in Nat /\ H[g][j].low \in Nat /\ B[G[g][j].b] \subseteq Nat
      BY <1>3
    <3>4. \A a, b, c \in Nat : a < b /\ b <= c => a < c
      OBVIOUS
    <3>5. ASSUME NEW k \in B[G[g][j].b] PROVE k < H[h][i].low
      <4>1. k \in Nat /\ k < G[h][i].low
        BY <3>2, <3>3
      <4> QED
        BY <2>1, <3>3, <3>4, <4>1, Zenon
    <3>6. H[g][j].low < H[h][i].low
      BY <2>1, <3>1, <3>3, <3>4, Zenon
    <3> QED
      BY <3>5, <3>6
  <2> QED
    BY <2>1, <2>2, <2>3
<1>5. \E g \in 1..Len(H) : H[g] # <<>>
  BY <1>1, <1>2 DEF Raised, Placed
<1>6. Placed(H, B)
  <2>1. \A g \in 1..Len(G) : Len(H[g]) = Len(G[g])
    BY DEF Raised
  <2>2. \A g \in 1..Len(G) : \A j \in 1..Len(G[g]) :
           H[g][j].b \in 1..Len(B) /\ \A k \in B[H[g][j].b] : H[g][j].low <= k
    BY <1>3 DEF Raised
  <2>3. OneEntryEach(H)
    <3>1. OneEntryEach(G) /\ \A g \in 1..Len(G) : \A j \in 1..Len(G[g]) : H[g][j].b = G[g][j].b
      BY <1>2, <1>3 DEF Placed, Raised
    <3> QED
      BY <1>1, <2>1, <3>1 DEF OneEntryEach
  <2> QED
    BY <1>1, <1>4, <1>5, <2>1, <2>2, <2>3 DEF Placed
<1>7. Sound(H, B)
  BY <1>1, <1>6, SoundIsPlaced
<1>8. ASSUME NEW k \in Nat, NEW f, Under(G, k, f) PROVE Under(H, k, f)
  <2> SUFFICES ASSUME NEW h \in 1..Len(G), h > f, H[h] # <<>> PROVE k < H[h][1].low
    BY <1>1 DEF Under
  <2>1. G[h] # <<>>
    BY DEF Raised
  <2>2. k < G[h][1].low /\ 1 \in 1..Len(G[h])
    BY <1>8, <2>1, EntryFacts DEF Under
  <2>3. G[h][1].low <= H[h][1].low /\ G[h][1].low \in Nat /\ H[h][1].low \in Nat
    BY <1>3, <2>2 DEF Raised
  <2> QED
    BY <2>2, <2>3
<1>9. \A k : Within(k, G, B) => Within(k, H, B)
  BY <1>1 DEF Within, Raised
<1> QED
  BY <1>7, <1>8, <1>9

\* The entry keys are adjusted and the model is trained.
LEMMA TrainSafe == ASSUME Inv, Safe, NEW t \in Threads, ExpandTrain(t) PROVE Safe'
<1> DEFINE G == space[gs]  H == space'[gs]
<1>1. /\ th[t].pc = "train" /\ Go(t, "count") /\ model' = EntryKeys(H)
      /\ UNCHANGED <<flag, bkt, locked, freed, gs, ls, xpos, xat, xnew, xres, acked>>
  BY DEF ExpandTrain
<1>2. Base /\ TypeInv /\ VersionInv /\ Tree /\ G \in Groups /\ gs \in 1..Len(space) /\ gs \in Nat /\ ls \in Nat
  BY CurrentFacts DEF Safe, Base, VersionInv
<1>3. Sound(G, bkt)
  BY <1>2 DEF Tree, Core, TreeInv
<1>4. PICK low : /\ \A g \in 1..Len(G) : G[g] # <<>> => low[g] \in AdjustedKeys(G, g)
                 /\ space' = [space EXCEPT ![gs] = Adjust(G, low)]
  <2>1. \E low \in [1..Len(G) -> {0} \cup Keys] :
          /\ \A g \in 1..Len(G) : IF G[g] # <<>> THEN low[g] \in AdjustedKeys(G, g) ELSE low[g] = 0
          /\ space' = [space EXCEPT ![gs] = [g \in 1..Len(G) |->
                IF G[g] # <<>> THEN [G[g] EXCEPT ![1].low = low[g]] ELSE G[g]]]
    BY DEF ExpandTrain
  <2> QED
    BY <2>1 DEF Adjust
<1> DEFINE A == Adjust(G, low)
<1>5. Raised(G, A, bkt)
  BY <1>2, <1>3, <1>4, AdjustRaises
<1>6. A \in Groups /\ Len(A) = Len(G) /\ \A g \in 1..Len(G) : A[g] = <<>> <=> G[g] = <<>>
  BY <1>5 DEF Raised
<1> HIDE DEF A
<1>7. /\ space' \in Seq(Groups) /\ Len(space') = Len(space)
      /\ \A w \in 1..Len(space) : space'[w] = IF w = gs THEN A ELSE space[w]
  <2>1. space' = [space EXCEPT ![gs] = A]
    BY <1>4 DEF A
  <2> QED
    BY <1>2, <1>6, <2>1, SpaceSet
<1>8. H = A /\ \A v \in 1..gs : Len(space'[v]) = Len(space[v])
  BY <1>2, <1>6, <1>7 DEF VersionInv
<1>9. th[t].pc \in Rebuilding /\ "count" \in ExpandSteps
  BY <1>1 DEF Rebuilding, ExpandSteps
<1>10. /\ Moves(t) /\ th' \in [Threads -> Locals] /\ th'[t].pc = "count" /\ ThreadInv' /\ PairInv'
       /\ \A P \in SUBSET Rebuilding : (IsAt(P)' <=> "count" \in P) /\ (IsAt(P) <=> "train" \in P)
  BY <1>1, <1>2, <1>8, <1>9, ExpanderStep
<1>11. /\ IsAt(Trained)' /\ ~IsAt(Copies) /\ ~IsAt(Copies)' /\ ~IsAt({"free", "groups"})'
       /\ ~IsAt({"groups"}) /\ ~IsAt({"groups"})' /\ ~IsAt({"locks"}) /\ ~IsAt({"locks"})'
  BY <1>10, StepSets DEF Trained, Copies
<1>12. flag
  BY <1>1, <1>9 DEF Inv, OneExpander, Rebuilding
<1>13. EntryKeys(H) \subseteq Keys /\ IsFiniteSet(EntryKeys(H))
  BY <1>6, <1>8, EntryKeysFact
<1>14. TypeInv'
  BY <1>1, <1>2, <1>7, <1>10, <1>13 DEF TypeInv
<1>15. VersionInv'
  <2>1. \E g \in 1..Len(H) : H[g] # <<>>
    BY <1>2, <1>6, <1>8 DEF VersionInv
  <2> QED
    BY <1>1, <1>2, <1>7, <1>11, <2>1 DEF VersionInv
<1>16. RoomInv'
  BY <1>1, <1>11 DEF Safe, RoomInv
<1>17. /\ Sound(H, bkt) /\ \A k \in Nat : \A f : Under(G, k, f) => Under(H, k, f)
       /\ \A k : Within(k, G, bkt) => Within(k, H, bkt)
  <2>1. \A b \in 1..Len(bkt) : bkt[b] \subseteq Nat
    <3>1. \A b \in 1..Len(bkt) : bkt[b] \in SUBSET Keys
      BY <1>2 DEF TypeInv
    <3> QED
      BY <3>1, ConstantFacts
  <2> QED
    BY <1>2, <1>3, <1>5, <1>8, <2>1, RaisedSound
<1>18. \A u \in Threads : u # t => th'[u] = th[u]
  BY <1>10 DEF Moves
<1>19. OwnInv'
  <2> SUFFICES ASSUME NEW u \in Threads PROVE OwnOK(th'[u], H, gs, IsAt(Trained)')
    BY <1>1 DEF OwnInv
  <2>1. CASE u = t
    BY <1>10, <1>11, <2>1 DEF OwnOK
  <2>2. CASE u # t
    <3>1. th'[u] = th[u] /\ OwnOK(th[u], G, gs, IsAt(Trained))
      BY <1>2, <1>18, <2>2 DEF Tree, Core, OwnInv
    <3>2. GroupOK(th[u], space, gs) /\ LocalOK(th[u])
      BY <1>2, ThreadFacts
    <3>3. th[u].pc = "work" /\ th[u].gv = gs => th[u].gid \in 1..Len(G) /\ th[u].key \in Nat
      BY <3>2, ConstantFacts DEF GroupOK, HasGroup, LocalOK
    <3> QED
      BY <1>6, <1>8, <1>11, <1>17, <3>1, <3>3 DEF OwnOK
  <2> QED
    BY <2>1, <2>2
<1>20. \A u \in Threads : /\ Doomed(u) <=> Doomed(u)'
                          /\ ~Doomed(u)' => th'[u].pc # "link" /\ th[u].pc # "link"
  BY <1>1, <1>10, <1>12, <1>18 DEF Doomed
<1>21. SplitInv'
  <2>1. ASSUME NEW u \in Threads, ~Doomed(u)' PROVE SplitOK(th'[u], H, bkt, gs)
    BY <1>20, <2>1 DEF SplitOK
  <2> QED
    BY <1>1, <1>20, <2>1 DEF SplitInv
<1>22. ASSUME NEW q, Kept(q) PROVE Kept(q)'
  <2>1. \A u \in Threads : th[u].pc = "link" => th'[u] = th[u]
    BY <1>1, <1>18
  <2> QED
    BY <1>1, <1>17, <1>22, <2>1 DEF Kept
<1>23. ASSUME Calm' PROVE KeyInv'
  <2>0. Calm
    BY <1>20, <1>23 DEF Calm
  <2>1. \A q \in acked' : Kept(q)'
    BY <1>1, <1>2, <1>22, <2>0 DEF Tree, Core, KeyInv
  <2>2. ASSUME NEW u \in Threads, th'[u].pc = "unlock", th'[u].ret = "ok"
        PROVE  Kept(th[u].key)' /\ th'[u] = th[u]
    <3>1. PICK q : q = th[u].key
      OBVIOUS
    <3>2. th'[u] = th[u] /\ Kept(q)
      BY <1>2, <1>10, <1>18, <2>0, <2>2, <3>1 DEF Tree, Core, KeyInv
    <3>3. Kept(q)'
      BY <1>22, <3>2
    <3> QED
      BY <3>1, <3>2, <3>3
  <2> QED
    BY <2>1, <2>2 DEF KeyInv
<1>24. TreeInv' /\ CopyInv'
  BY <1>1, <1>11, <1>17 DEF TreeInv, CopyInv
<1> QED
  BY <1>10, <1>14, <1>15, <1>16, <1>19, <1>21, <1>23, <1>24 DEF Safe, Base, Tree, Core

\* There are finitely many places.
LEMMA PositionsFact ==
  ASSUME NEW G \in Groups
  PROVE  /\ IsFiniteSet(Positions(G))
         /\ \A q : q \in Positions(G) <=> \E g \in 1..Len(G) : \E i \in 1..Len(G[g]) : q = <<g, i>>
         /\ \A q \in Positions(G) : q[1] \in 1..Len(G) /\ q[2] \in 1..Len(G[q[1]]) /\ q = <<q[1], q[2]>>
<1>1. \A q : q \in Positions(G) <=> \E g \in 1..Len(G) : \E i \in 1..Len(G[g]) : q = <<g, i>>
  BY DEF Positions
<1>2. \A q \in Positions(G) : q[1] \in 1..Len(G) /\ q[2] \in 1..Len(G[q[1]]) /\ q = <<q[1], q[2]>>
  BY <1>1
<1>3. IsFiniteSet(Positions(G))
  <2> DEFINE S == {{h} \X (1..Len(G[h])) : h \in 1..Len(G)}
             f == [h \in 1..Len(G) |-> {h} \X (1..Len(G[h]))]
  <2>1. Len(G) \in Nat /\ \A h \in 1..Len(G) : Len(G[h]) \in Nat
    BY EntryFacts
  <2>2. IsFiniteSet(1..Len(G))
    BY <2>1, FS_Interval
  <2>3. f \in Surjection(1..Len(G), S)
    BY DEF Surjection
  <2>4. ASSUME NEW T \in S PROVE IsFiniteSet(T)
    <3>1. PICK h \in 1..Len(G) : T = {h} \X (1..Len(G[h]))
      OBVIOUS
    <3>2. IsFiniteSet(1..Len(G[h]))
      <4>1. PICK n \in Nat : n = Len(G[h])
        BY <2>1
      <4>2. IsFiniteSet(1..n)
        BY FS_Interval
      <4> QED
        BY <4>1, <4>2
    <3>3. IsFiniteSet({h})
      BY FS_Singleton
    <3> QED
      BY <3>1, <3>2, <3>3, FS_Product
  <2>5. Positions(G) = UNION S
    BY DEF Positions
  <2> HIDE DEF f, S
  <2>6. IsFiniteSet(S)
    BY <2>2, <2>3, FS_Surjection
  <2> QED
    BY <2>4, <2>5, <2>6, FS_UNION
<1> QED
  BY <1>1, <1>2, <1>3

\* A tree with a group that is not empty has an entry.
LEMMA CountFact ==
  ASSUME NEW G \in Groups, \E g \in 1..Len(G) : G[g] # <<>>
  PROVE  EntryCount(G) \in Nat \ {0}
<1>1. EntryCount(G) = Cardinality(Positions(G))
  BY DEF EntryCount, Positions
<1>2. IsFiniteSet(Positions(G)) /\ Positions(G) # {}
  <2>1. PICK g \in 1..Len(G) : G[g] # <<>>
    OBVIOUS
  <2>2. 1 \in 1..Len(G[g])
    BY <2>1, EntryFacts
  <2>3. <<g, 1>> \in Positions(G)
    BY <2>2, PositionsFact
  <2> QED
    BY <2>3, PositionsFact
<1> QED
  BY <1>1, <1>2, FS_CardinalityType, FS_EmptySet

\* Entries are given at least one new group.
LEMMA GroupsFact ==
  ASSUME NEW c \in Nat \ {0}
  PROVE  (c + MinEntries - 1) \div MinEntries \in Nat \ {0}
<1> DEFINE m == MinEntries
<1>3. c # 0 /\ m \in Nat \ {0}
  BY ConstantFacts
<1> HIDE DEF m
<1>4. c + m - 1 \in Nat /\ m <= c + m - 1
  BY <1>3
<1>5. m \div m \in Nat /\ m \div m <= (c + m - 1) \div m
  BY <1>3, <1>4, DivMonotonic
<1>6. (c + m - 1) \div m \in Nat
  BY <1>3, <1>4, DivMonotonic
<1>7. m \div m = 1
  <2>1. m \div m \in Int /\ m * (m \div m) <= m /\ m < m * (m \div m) + m
    BY <1>3
  <2>2. PICK x \in Nat : x = m \div m
    BY <1>5
  <2>3. m * x <= m /\ m < m * x + m
    BY <2>1, <2>2
  <2>4. x >= 2 => m * x >= m * 2
    BY <1>3
  <2>5. x # 0
    BY <1>3, <2>3
  <2>6. ~(x >= 2)
    BY <1>3, <2>3, <2>4
  <2> QED
    BY <2>2, <2>5, <2>6
<1> QED
  BY <1>5, <1>6, <1>7 DEF m

\* A step of ExpandTree that leaves the tree alone and goes on with the copy.
LEMMA CopyStep ==
  ASSUME Inv, Core, NEW t \in Threads, th[t].pc \in {"count", "copy"},
         th' = th \/ (Moves(t) /\ th'[t].pc \in {"copy", "free"}),
         IsAt(Trained)' <=> IsAt(Trained),
         UNCHANGED <<flag, space, gs, bkt, model, acked>>
  PROVE  Core'
<1>1. \A u \in Threads : th'[u] = th[u] \/ (u = t /\ th'[t].pc \in {"copy", "free"})
  BY DEF Moves
<1>2. \A u \in Threads : Doomed(u) => Doomed(u)'
  BY <1>1 DEF Doomed
<1>3. Calm => \A k \in acked' : Kept(k)
  BY DEF Core, KeyInv
<1>4. \A u \in Threads :
        th'[u] = th[u] \/ /\ th[u].pc # "link" /\ th'[u].pc # "link"
                          /\ ~(th'[u].pc = "unlock" /\ th'[u].ret = "ok")
                          /\ OwnOK(th'[u], space[gs], gs, IsAt(Trained))
  BY <1>1 DEF OwnOK
<1> QED
  BY <1>2, <1>3, <1>4, QuietCore

\* The new groups are made, and their room is counted.
LEMMA CountSafe == ASSUME Inv, Safe, CountOK, NEW t \in Threads, ExpandCount(t) PROVE Safe'
<1> DEFINE G == space[gs]
<1>0. PICK n : n = (xcount + MinEntries - 1) \div MinEntries
  OBVIOUS
<1>1. /\ th[t].pc = "count" /\ Go(t, "copy") /\ xpos' = 0 /\ xat' = 0
      /\ xnew' = [g \in 1..n |-> <<>>] /\ xres' = [g \in 1..n |-> Reserved(G, g, n)]
      /\ UNCHANGED <<flag, memory, locked, acked>>
  BY <1>0 DEF ExpandCount
<1>2. Base /\ TypeInv /\ VersionInv /\ Tree /\ G \in Groups /\ gs \in Nat /\ ls \in Nat
  BY CurrentFacts DEF Safe, Base, VersionInv
<1>3. n \in Nat \ {0}
  BY <1>0, <1>1, GroupsFact DEF CountOK
<1>4. th[t].pc \in Rebuilding /\ "copy" \in ExpandSteps
  BY <1>1 DEF Rebuilding, ExpandSteps
<1>5. /\ Moves(t) /\ th' \in [Threads -> Locals] /\ th'[t].pc = "copy" /\ ThreadInv' /\ PairInv'
      /\ \A P \in SUBSET Rebuilding : (IsAt(P)' <=> "copy" \in P) /\ (IsAt(P) <=> "count" \in P)
  BY <1>1, <1>2, <1>4, ExpanderStep DEF memory
<1>6. /\ IsAt(Trained) /\ IsAt(Trained)' /\ IsAt(Copies)' /\ ~IsAt({"free", "groups"})'
      /\ ~IsAt({"groups"}) /\ ~IsAt({"groups"})' /\ ~IsAt({"locks"}) /\ ~IsAt({"locks"})'
  BY <1>5, StepSets DEF Trained, Copies
<1>7. /\ xnew' \in Groups /\ Len(xnew') = n /\ \A g \in 1..n : xnew'[g] = <<>> /\ Len(xnew'[g]) = 0
  BY <1>1, <1>3 DEF Groups
<1>8. TypeInv'
  BY <1>1, <1>2, <1>5, <1>7 DEF TypeInv, memory
<1>9. VersionInv'
  BY <1>1, <1>2, <1>6 DEF VersionInv, memory
<1>10. ASSUME NEW g \in 1..n PROVE Cardinality(PassedTo(G, model, n, g, 0, 0)) = 0
  <2>1. \A q \in Positions(G) : q[1] \in Nat \ {0} /\ q[2] \in Nat \ {0}
    BY <1>2, PositionsFact, EntryFacts
  <2>2. PassedTo(G, model, n, g, 0, 0) = {}
    BY <2>1 DEF PassedTo, Passed
  <2> QED
    BY <2>2, FS_EmptySet
<1>11. RoomInv'
  <2>1. space'[gs'] = G /\ model' = model /\ Len(G) \in Nat
    BY <1>1, <1>2, EntryFacts DEF memory
  <2>2. xres' = [g \in 1..n |-> Reserved(space[gs], g, n)']
    BY <1>1, <2>1 DEF Reserved
  <2> QED
    BY <1>1, <1>3, <1>6, <1>7, <1>10, <2>1, <2>2 DEF RoomInv
<1>12. Core'
  <2>1. Core /\ UNCHANGED <<flag, space, gs, bkt, model, acked>>
    BY <1>1, <1>2 DEF Tree, memory
  <2>2. th[t].pc \in {"count", "copy"} /\ th'[t].pc \in {"copy", "free"} /\ (IsAt(Trained)' <=> IsAt(Trained))
    BY <1>1, <1>5, <1>6
  <2> QED
    BY <1>5, <2>1, <2>2, CopyStep
<1>13. CopyInv'
  <2>1. \A h \in 1..Len(G) : \A i \in 1..Len(G[h]) : ~Passed(h, i, 0, 0)
    BY <1>2, EntryFacts DEF Passed
  <2>2. CopyOK(G, model, xnew', 0, 0)
    BY <1>7, <2>1 DEF CopyOK
  <2> QED
    BY <1>1, <2>2 DEF CopyInv, memory
<1> QED
  BY <1>5, <1>8, <1>9, <1>11, <1>12, <1>13 DEF Safe, Base, Tree

\* Y is X with the entry e at the end of group c.
Grown(X, Y, c, e) ==
  /\ Y \in Groups /\ Len(Y) = Len(X) /\ \A g \in 1..Len(X) : g # c => Y[g] = X[g]
  /\ Len(Y[c]) = Len(X[c]) + 1 /\ Y[c][Len(X[c]) + 1] = e /\ \A j \in 1..Len(X[c]) : Y[c][j] = X[c][j]

\* append_entry does that.
LEMMA AppendedFact ==
  ASSUME xnew \in Groups, NEW e \in Entries, NEW c \in 1..Len(xnew),
         c = Predicted(model, e.low, Len(xnew))
  PROVE  Grown(xnew, Appended(e), c, e)
<1> DEFINE K == Append(xnew[c], e)  Y == [xnew EXCEPT ![c] = K]
<1>1. Len(xnew) \in Nat /\ xnew \in Seq(Seq(Entries)) /\ xnew[c] \in Seq(Entries)
  BY EntryFacts DEF Groups
<1>2. /\ K \in Seq(Entries) /\ Len(K) = Len(xnew[c]) + 1 /\ K[Len(xnew[c]) + 1] = e
      /\ \A j \in 1..Len(xnew[c]) : K[j] = xnew[c][j]
  BY <1>1
<1> HIDE DEF K
<1>3. Y \in Groups /\ Len(Y) = Len(xnew) /\ \A g \in 1..Len(xnew) : Y[g] = IF g = c THEN K ELSE xnew[g]
  BY <1>1, <1>2 DEF Groups
<1>4. Y = Appended(e)
  BY DEF Appended, K
<1> HIDE DEF Y
<1> QED
  BY <1>2, <1>3, <1>4 DEF Grown

\* The places of Y are the last of group c and those of X.
Longer(X, Y, c, e) ==
  /\ \A g \in 1..Len(X) : \A j \in 1..Len(Y[g]) :
       \/ g = c /\ Y[g][j] = e /\ \A i \in 1..Len(Y[g]) : ~(j < i)
       \/ j \in 1..Len(X[g]) /\ Y[g][j] = X[g][j]
  /\ \A g \in 1..Len(X) : \A j \in 1..Len(X[g]) : j \in 1..Len(Y[g]) /\ Y[g][j] = X[g][j]

\* So it is.
LEMMA GrownPlaces ==
  ASSUME NEW X \in Groups, NEW Y, NEW c \in 1..Len(X), NEW e, Grown(X, Y, c, e)
  PROVE  Longer(X, Y, c, e)
<1>1. PICK m \in Nat : m = Len(X[c])
  BY EntryFacts
<1>2. /\ Len(Y[c]) = m + 1 /\ Y[c][m + 1] = e /\ \A j \in 1..m : Y[c][j] = X[c][j]
      /\ \A g \in 1..Len(X) : g # c => Y[g] = X[g]
  BY <1>1 DEF Grown
<1>3. ASSUME NEW g \in 1..Len(X), NEW j \in 1..Len(Y[g])
      PROVE  \/ g = c /\ Y[g][j] = e /\ \A i \in 1..Len(Y[g]) : ~(j < i)
             \/ j \in 1..Len(X[g]) /\ Y[g][j] = X[g][j]
  <2>1. CASE g # c
    BY <1>2, <2>1
  <2>2. CASE g = c
    <3>1. j \in 1..(m + 1)
      BY <1>2, <2>2
    <3>2. (j = m + 1 /\ \A i \in 1..(m + 1) : ~(j < i)) \/ j \in 1..m
      BY <3>1
    <3> QED
      BY <1>1, <1>2, <2>2, <3>2
  <2> QED
    BY <2>1, <2>2
<1>4. ASSUME NEW g \in 1..Len(X), NEW j \in 1..Len(X[g])
      PROVE  j \in 1..Len(Y[g]) /\ Y[g][j] = X[g][j]
  <2>1. CASE g # c
    BY <1>2, <2>1
  <2>2. CASE g = c
    <3>1. j \in 1..m
      BY <1>1, <2>2
    <3>2. j \in 1..(m + 1)
      BY <3>1
    <3> QED
      BY <1>2, <2>2, <3>1, <3>2
  <2> QED
    BY <2>1, <2>2
<1> QED
  BY <1>3, <1>4 DEF Longer

\* The entry copied next is behind all that were copied.
LEMMA PassedMore ==
  ASSUME NEW p \in Nat, NEW a \in Nat, NEW h \in Nat, NEW i \in Nat
  PROVE  /\ Passed(h, i, p, a + 1) <=> Passed(h, i, p, a) \/ (h = p + 1 /\ i = a + 1)
         /\ Passed(h, i, p, a) => Before(h, i, p + 1, a + 1)
BY SMTT(30) DEF Passed, Before

\* The new groups stay the copied entries in their order.
LEMMA CopyGrown ==
  ASSUME NEW G \in Groups, NEW M, NEW X \in Groups, NEW Y, Ascending(G), NEW p \in Nat, NEW a \in Nat,
         p + 1 \in 1..Len(G), a + 1 \in 1..Len(G[p + 1]), CopyOK(G, M, X, p, a),
         \A k \in Nat : Predicted(M, k, Len(X)) \in 1..Len(X),
         NEW e, e = G[p + 1][a + 1], NEW c, c = Predicted(M, e.low, Len(X)), Grown(X, Y, c, e)
  PROVE  CopyOK(G, M, Y, p, a + 1)
<1>1. /\ Len(Y) = Len(X) /\ \A g \in 1..Len(X) : Len(X[g]) \in Nat
      /\ Len(Y[c]) = Len(X[c]) + 1 /\ Y[c][Len(X[c]) + 1] = e /\ \A j \in 1..Len(X[c]) : Y[c][j] = X[c][j]
      /\ \A g \in 1..Len(X) : g # c => Y[g] = X[g]
  BY EntryFacts, ZenonT(30) DEF Grown
<1>2. c \in 1..Len(X) /\ Len(X[c]) \in Nat
  <2>1. e.low \in Nat
    BY EntryFacts
  <2> QED
    BY <1>1, <2>1
<1>3. Longer(X, Y, c, e)
  BY <1>2, GrownPlaces
<1>4. \A g \in 1..Len(X) : \A j \in 1..Len(X[g]) : j \in 1..Len(Y[g]) /\ Y[g][j] = X[g][j]
  BY <1>3 DEF Longer
<1>5. \A h \in 1..Len(G) : \A i \in 1..Len(G[h]) :
         /\ h \in Nat /\ i \in Nat /\ G[h][i].low \in Nat
         /\ Passed(h, i, p, a + 1) <=> Passed(h, i, p, a) \/ (h = p + 1 /\ i = a + 1)
         /\ Passed(h, i, p, a) => Before(h, i, p + 1, a + 1)
  <2> SUFFICES ASSUME NEW h \in 1..Len(G), NEW i \in 1..Len(G[h])
               PROVE  /\ h \in Nat /\ i \in Nat /\ G[h][i].low \in Nat
                      /\ Passed(h, i, p, a + 1) <=> Passed(h, i, p, a) \/ (h = p + 1 /\ i = a + 1)
                      /\ Passed(h, i, p, a) => Before(h, i, p + 1, a + 1)
    OBVIOUS
  <2>1. Len(G) \in Nat /\ Len(G[h]) \in Nat /\ G[h][i].low \in Nat
    BY EntryFacts
  <2>2. h \in Nat /\ i \in Nat
    BY <2>1
  <2> QED
    BY <2>1, <2>2, PassedMore
<1>6. ASSUME NEW g \in 1..Len(X), NEW j \in 1..Len(X[g])
      PROVE  /\ Predicted(M, X[g][j].low, Len(X)) = g
             /\ \E h \in 1..Len(G) : \E i \in 1..Len(G[h]) : Passed(h, i, p, a) /\ G[h][i] = X[g][j]
  BY DEF CopyOK
<1>7. ASSUME NEW g \in 1..Len(X), NEW j \in 1..Len(Y[g])
      PROVE  /\ Predicted(M, Y[g][j].low, Len(Y)) = g
             /\ \E h \in 1..Len(G) : \E i \in 1..Len(G[h]) : Passed(h, i, p, a + 1) /\ G[h][i] = Y[g][j]
  <2>1. CASE g = c /\ Y[g][j] = e
    BY <1>1, <1>5, <2>1
  <2>2. CASE j \in 1..Len(X[g]) /\ Y[g][j] = X[g][j]
    <3>1. PICK h \in 1..Len(G) : \E i \in 1..Len(G[h]) : Passed(h, i, p, a) /\ G[h][i] = X[g][j]
      BY <1>6, <2>2
    <3>2. PICK i \in 1..Len(G[h]) : Passed(h, i, p, a) /\ G[h][i] = X[g][j]
      BY <3>1
    <3>3. Passed(h, i, p, a + 1)
      BY <1>5, <3>2
    <3>4. G[h][i] = Y[g][j]
      BY <2>2, <3>2
    <3>5. Predicted(M, Y[g][j].low, Len(Y)) = g
      BY <1>1, <1>6, <2>2
    <3> QED
      BY <3>3, <3>4, <3>5
  <2> QED
    BY <1>3, <2>1, <2>2 DEF Longer
<1>8. ASSUME NEW h \in 1..Len(G), NEW i \in 1..Len(G[h]), Passed(h, i, p, a + 1)
      PROVE  \E j \in 1..Len(Y[Predicted(M, G[h][i].low, Len(Y))]) :
               Y[Predicted(M, G[h][i].low, Len(Y))][j] = G[h][i]
  <2>1. CASE Passed(h, i, p, a)
    <3>1. PICK g \in 1..Len(X) : g = Predicted(M, G[h][i].low, Len(X))
      BY <1>5
    <3>2. PICK j \in 1..Len(X[g]) : X[g][j] = G[h][i]
      BY <2>1, <3>1 DEF CopyOK
    <3>3. j \in 1..Len(Y[g]) /\ Y[g][j] = G[h][i]
      BY <1>4, <3>2
    <3>4. Predicted(M, G[h][i].low, Len(Y)) = g
      BY <1>1, <3>1, ZenonT(30)
    <3> QED
      BY <3>3, <3>4
  <2>2. CASE h = p + 1 /\ i = a + 1
    <3>1. Len(X[c]) + 1 \in 1..Len(Y[c])
      BY <1>1, <1>2
    <3> QED
      BY <1>1, <2>2, <3>1, ZenonT(30)
  <2> QED
    BY <1>5, <1>8, <2>1, <2>2
<1>9. ASSUME NEW g \in 1..Len(X), NEW i \in 1..Len(Y[g]), NEW j \in 1..Len(Y[g]), i < j
      PROVE  Y[g][i].low < Y[g][j].low
  <2>1. CASE i \in 1..Len(X[g]) /\ Y[g][i] = X[g][i] /\ j \in 1..Len(X[g]) /\ Y[g][j] = X[g][j]
    BY <1>9, <2>1 DEF CopyOK
  <2>2. CASE i \in 1..Len(X[g]) /\ Y[g][i] = X[g][i] /\ Y[g][j] = e
    <3>1. PICK h \in 1..Len(G) : \E m \in 1..Len(G[h]) : Passed(h, m, p, a) /\ G[h][m] = X[g][i]
      BY <1>6, <2>2
    <3>2. PICK m \in 1..Len(G[h]) : Passed(h, m, p, a) /\ G[h][m] = X[g][i]
      BY <3>1
    <3>3. Before(h, m, p + 1, a + 1)
      BY <1>5, <3>2
    <3>4. G[h][m].low < G[p + 1][a + 1].low
      BY <3>3 DEF Before, Ascending
    <3> QED
      BY <2>2, <3>2, <3>4
  <2>3. i \in 1..Len(X[g]) /\ Y[g][i] = X[g][i]
    BY <1>3, <1>9 DEF Longer
  <2> QED
    BY <1>3, <2>1, <2>2, <2>3 DEF Longer
<1> QED
  BY <1>1, <1>7, <1>8, <1>9, ZenonT(30) DEF CopyOK

\* One more entry has been copied to group c.
LEMMA PassedGrown ==
  ASSUME NEW G \in Groups, NEW M, NEW n, NEW p \in Nat, NEW a \in Nat,
         p + 1 \in 1..Len(G), a + 1 \in 1..Len(G[p + 1]), NEW g
  PROVE  Cardinality(PassedTo(G, M, n, g, p, a + 1)) =
           Cardinality(PassedTo(G, M, n, g, p, a)) + IF Predicted(M, G[p + 1][a + 1].low, n) = g THEN 1 ELSE 0
<1> DEFINE S == PassedTo(G, M, n, g, p, a)  T == PassedTo(G, M, n, g, p, a + 1)  q == <<p + 1, a + 1>>
<1>1. /\ IsFiniteSet(Positions(G)) /\ q \in Positions(G)
      /\ \A r \in Positions(G) : r[1] \in 1..Len(G) /\ r[2] \in 1..Len(G[r[1]]) /\ r = <<r[1], r[2]>>
  BY PositionsFact
<1>2. ASSUME NEW r \in Positions(G)
      PROVE  Passed(r[1], r[2], p, a + 1) <=> Passed(r[1], r[2], p, a) \/ r = q
  <2>1. r[1] \in Nat /\ r[2] \in Nat /\ r = <<r[1], r[2]>>
    BY <1>1, EntryFacts
  <2> QED
    BY <2>1, PassedMore
<1>3. q[1] = p + 1 /\ q[2] = a + 1 /\ ~Passed(q[1], q[2], p, a)
  BY DEF Passed
<1> HIDE DEF q
<1>4. q \notin S
  BY <1>3 DEF PassedTo
<1>5. IsFiniteSet(S) /\ Cardinality(S) \in Nat
  <2>1. S \in SUBSET Positions(G)
    BY DEF PassedTo
  <2>2. IsFiniteSet(S)
    BY <1>1, <2>1, FS_Subset
  <2> QED
    BY <2>2, FS_CardinalityType
<1>6. CASE Predicted(M, G[p + 1][a + 1].low, n) = g
  <2>1. T = S \cup {q}
    BY <1>1, <1>2, <1>3, <1>6 DEF PassedTo
  <2> HIDE DEF S, T
  <2>2. Cardinality(S \cup {q}) = Cardinality(S) + 1
    BY <1>4, <1>5, FS_AddElement
  <2>3. Cardinality(T) = Cardinality(S) + 1
    BY <2>1, <2>2
  <2> QED
    BY <1>6, <2>3 DEF S, T
<1>7. CASE Predicted(M, G[p + 1][a + 1].low, n) # g
  <2>1. T = S
    BY <1>1, <1>2, <1>3, <1>7 DEF PassedTo
  <2> QED
    BY <1>5, <1>7, <2>1
<1> QED
  BY <1>6, <1>7

\* Of two positions of the copy, the same entries come before.
SamePlaces(G, p, a, r, b) ==
  \A h \in 1..Len(G) : \A i \in 1..Len(G[h]) : Passed(h, i, p, a) <=> Passed(h, i, r, b)

\* At the end of a group as much has been copied as before the next.
LEMMA PassedEnd ==
  ASSUME NEW G \in Groups, NEW p \in Nat, NEW a \in Nat, p + 1 \in 1..Len(G), a >= Len(G[p + 1])
  PROVE  SamePlaces(G, p, a, p + 1, 0)
<1> SUFFICES ASSUME NEW h \in 1..Len(G), NEW i \in 1..Len(G[h])
             PROVE  Passed(h, i, p, a) <=> Passed(h, i, p + 1, 0)
  BY DEF SamePlaces
<1>1. Len(G) \in Nat /\ Len(G[h]) \in Nat /\ Len(G[p + 1]) \in Nat
  BY EntryFacts
<1>2. CASE h = p + 1
  BY <1>1, <1>2 DEF Passed
<1>3. CASE h # p + 1
  BY <1>1, <1>3 DEF Passed
<1> QED
  BY <1>2, <1>3

\* What has been copied is all that matters of where the copy is.
LEMMA SamePassed ==
  ASSUME NEW G \in Groups, NEW M, NEW X, NEW p, NEW a, NEW r, NEW b, SamePlaces(G, p, a, r, b)
  PROVE  /\ CopyOK(G, M, X, p, a) => CopyOK(G, M, X, r, b)
         /\ \A n, g : PassedTo(G, M, n, g, p, a) = PassedTo(G, M, n, g, r, b)
<1>1. CopyOK(G, M, X, p, a) => CopyOK(G, M, X, r, b)
  BY DEF CopyOK, SamePlaces
<1>2. ASSUME NEW n, NEW g PROVE PassedTo(G, M, n, g, p, a) = PassedTo(G, M, n, g, r, b)
  BY PositionsFact DEF PassedTo, SamePlaces
<1> QED
  BY <1>1, <1>2

\* Entries are copied: the tree and the threads stay, and so does all but the copy.
LEMMA CopyingSafe ==
  ASSUME Inv, Safe, NEW t \in Threads, th[t].pc = "copy", th' = th, xnew' \in Groups, Len(xnew') = Len(xnew),
         xpos' \in Nat, xat' \in Nat, xpos' <= Len(space[gs]), UNCHANGED <<flag, memory, locked, xres, acked>>,
         CopyOK(space[gs], model, xnew', xpos', xat'),
         \A g \in 1..Len(xnew) :
           Len(xnew'[g]) = Cardinality(PassedTo(space[gs], model, Len(xnew), g, xpos', xat'))
  PROVE  Safe'
<1>1. \A P : IsAt(P)' <=> IsAt(P)
  BY DEF IsAt
<1>2. IsAt(Copies) /\ ~IsAt({"free", "groups"})
  <2>1. th[t].pc \in Rebuilding
    BY DEF Rebuilding, ExpandSteps
  <2> QED
    BY <2>1, StepSets, AtIs DEF Copies
<1>3. TypeInv'
  BY DEF Safe, Base, TypeInv, memory
<1>4. VersionInv'
  BY <1>1 DEF Safe, Base, VersionInv, memory
<1>5. ThreadInv' /\ PairInv'
  BY <1>1 DEF Safe, Base, ThreadInv, PairInv, memory
<1>6. RoomInv'
  <2>1. /\ Len(xnew) # 0 /\ xres = [g \in 1..Len(xnew) |-> Reserved(space[gs], g, Len(xnew))]
    BY <1>2 DEF Safe, RoomInv
  <2> QED
    BY <1>1, <1>2, <2>1 DEF RoomInv, Reserved, memory
<1>7. Core'
  <2>1. Core /\ UNCHANGED <<flag, space, gs, bkt, model, acked>>
    BY DEF Safe, Tree, memory
  <2>2. th[t].pc \in {"count", "copy"} /\ (IsAt(Trained)' <=> IsAt(Trained))
    BY <1>1
  <2> QED
    BY <2>1, <2>2, CopyStep
<1>8. CopyInv'
  BY DEF CopyInv, memory
<1> QED
  BY <1>3, <1>4, <1>5, <1>6, <1>7, <1>8 DEF Safe, Base, Tree

\* The copy of one entry, the step to the next group, and the end.
LEMMA CopySafe == ASSUME Inv, Safe, NEW t \in Threads, ExpandCopy(t) PROVE Safe'
<1> DEFINE G == space[gs]  n == Len(xnew)
<1>1. th[t].pc = "copy" /\ UNCHANGED <<flag, memory, locked, xres, acked>>
  BY DEF ExpandCopy
<1>2. /\ Base /\ RoomInv /\ TypeInv /\ VersionInv /\ Tree /\ G \in Groups /\ model \in SUBSET Nat /\ IsFiniteSet(model)
      /\ gs \in Nat /\ ls \in Nat /\ xnew \in Groups /\ xpos \in Nat /\ xat \in Nat
  BY CurrentFacts DEF Safe, Base, VersionInv, TypeInv
<1>3. th[t].pc \in Rebuilding /\ "free" \in ExpandSteps
  BY <1>1 DEF Rebuilding, ExpandSteps
<1>4. IsAt(Copies)
  BY <1>1, <1>3, StepSets, AtIs DEF Copies
<1>5. /\ n \in Nat \ {0} /\ xpos <= Len(G) /\ Len(G) \in Nat /\ CopyOK(G, model, xnew, xpos, xat)
      /\ \A g \in 1..n : Len(xnew[g]) = Cardinality(PassedTo(G, model, n, g, xpos, xat))
      /\ \A g \in 1..Len(G) : Len(G[g]) \in Nat
  BY <1>2, <1>4, EntryFacts DEF RoomInv, Tree, CopyInv
<1>6. CASE xpos < Len(G) /\ ~EndOfGroup(G[xpos + 1]) /\ th' = th
           /\ xnew' = Appended(G[xpos + 1][xat + 1]) /\ xat' = xat + 1 /\ xpos' = xpos
  <2> DEFINE p == xpos  a == xat  e == G[p + 1][a + 1]  c == Predicted(model, e.low, n)
  <2>1. p + 1 \in 1..Len(G) /\ a + 1 \in 1..Len(G[p + 1])
    BY <1>2, <1>5, <1>6, SMTT(30) DEF EndOfGroup
  <2>2. e \in Entries /\ e.low \in Nat
    BY <1>2, <2>1, EntryFacts
  <2>3. \A k \in Nat : Predicted(model, k, n) \in 1..n
    BY <1>2, <1>5, PredictedIn
  <2>4. c \in 1..n
    BY <2>2, <2>3
  <2> HIDE DEF e, c
  <2>5. Grown(xnew, xnew', c, e)
    <3>1. Grown(xnew, Appended(e), c, e)
      BY <1>2, <2>2, <2>4, AppendedFact DEF c
    <3> QED
      BY <1>6, <3>1 DEF e
  <2>6. xnew' \in Groups /\ Len(xnew') = n
    BY <2>5 DEF Grown
  <2>7. Ascending(G)
    BY <1>2 DEF Tree, Core, TreeInv, Sound
  <2>8. CopyOK(G, model, xnew', p, a + 1)
    BY <1>2, <1>5, <2>1, <2>3, <2>5, <2>7, CopyGrown DEF e, c
  <2>9. ASSUME NEW g \in 1..n PROVE Len(xnew'[g]) = Cardinality(PassedTo(G, model, n, g, p, a + 1))
    <3>1. Cardinality(PassedTo(G, model, n, g, p, a + 1)) =
            Cardinality(PassedTo(G, model, n, g, p, a)) + IF c = g THEN 1 ELSE 0
      BY <1>2, <2>1, PassedGrown, SMTT(30) DEF e, c
    <3>2. Len(xnew[g]) \in Nat /\ Len(xnew[g]) = Cardinality(PassedTo(G, model, n, g, p, a))
      BY <1>2, <1>5, EntryFacts
    <3>3. Len(xnew'[g]) = Len(xnew[g]) + IF c = g THEN 1 ELSE 0
      BY <2>5, <3>2 DEF Grown
    <3> QED
      BY <3>1, <3>2, <3>3
  <2>10. xpos' \in Nat /\ xat' \in Nat /\ xpos' <= Len(G) /\ xpos' = p /\ xat' = a + 1 /\ th' = th
    BY <1>2, <1>5, <1>6
  <2> QED
    BY <1>1, <2>6, <2>8, <2>9, <2>10, CopyingSafe
<1>7. CASE xpos < Len(G) /\ EndOfGroup(G[xpos + 1]) /\ th' = th
           /\ xpos' = xpos + 1 /\ xat' = 0 /\ xnew' = xnew
  <2>1. xpos + 1 \in 1..Len(G) /\ xat >= Len(G[xpos + 1])
    BY <1>2, <1>5, <1>7 DEF EndOfGroup
  <2>2. SamePlaces(G, xpos, xat, xpos + 1, 0)
    BY <1>2, <2>1, PassedEnd
  <2>3. /\ CopyOK(G, model, xnew, xpos, xat) => CopyOK(G, model, xnew, xpos + 1, 0)
        /\ \A m, g : PassedTo(G, model, m, g, xpos, xat) = PassedTo(G, model, m, g, xpos + 1, 0)
    <3>1. PICK H, r : H = G /\ r = xpos + 1
      OBVIOUS
    <3>2. H \in Groups /\ SamePlaces(H, xpos, xat, r, 0)
      BY <1>2, <2>2, <3>1
    <3>3. /\ CopyOK(H, model, xnew, xpos, xat) => CopyOK(H, model, xnew, r, 0)
          /\ \A m, g : PassedTo(H, model, m, g, xpos, xat) = PassedTo(H, model, m, g, r, 0)
      BY <3>2, SamePassed
    <3> QED
      BY <3>1, <3>3
  <2>4. CopyOK(G, model, xnew', xpos', xat')
    BY <1>5, <1>7, <2>3
  <2>5. \A g \in 1..n : Len(xnew'[g]) = Cardinality(PassedTo(G, model, n, g, xpos', xat'))
    BY <1>5, <1>7, <2>3
  <2>6. xpos' \in Nat /\ xat' \in Nat /\ xpos' <= Len(G) /\ xnew' \in Groups /\ Len(xnew') = n /\ th' = th
    BY <1>2, <1>5, <1>7
  <2> QED
    BY <1>1, <2>4, <2>5, <2>6, CopyingSafe
<1>8. CASE xpos = Len(G) /\ Go(t, "free") /\ UNCHANGED <<xnew, xpos, xat>>
  <2>1. UNCHANGED <<gs, ls, space, bkt, model, freed, locked>>
    BY <1>1 DEF memory
  <2>2. /\ Moves(t) /\ th' \in [Threads -> Locals] /\ th'[t].pc = "free" /\ ThreadInv' /\ PairInv'
        /\ \A P \in SUBSET Rebuilding : (IsAt(P)' <=> "free" \in P) /\ (IsAt(P) <=> "copy" \in P)
    BY <1>1, <1>2, <1>3, <1>8, <2>1, ExpanderStep
  <2>3. /\ IsAt(Trained) /\ IsAt(Trained)' /\ IsAt(Copies)'
        /\ ~IsAt({"groups"}) /\ ~IsAt({"groups"})' /\ ~IsAt({"locks"}) /\ ~IsAt({"locks"})'
    BY <2>2, StepSets DEF Trained, Copies
  <2>4. TypeInv'
    BY <1>1, <1>2, <1>8, <2>1, <2>2 DEF TypeInv
  <2>5. VersionInv'
    BY <1>2, <2>1, <2>3 DEF VersionInv
  <2>6. RoomInv'
    BY <1>1, <1>2, <1>4, <1>8, <2>1, <2>3 DEF RoomInv, Reserved
  <2>7. Core'
    <3>1. Core /\ th[t].pc \in {"count", "copy"} /\ th'[t].pc \in {"copy", "free"}
          /\ (IsAt(Trained)' <=> IsAt(Trained)) /\ UNCHANGED <<flag, space, gs, bkt, model, acked>>
      BY <1>1, <1>2, <2>1, <2>2, <2>3 DEF Tree
    <3> QED
      BY <2>2, <3>1, CopyStep
  <2>8. CopyInv'
    BY <1>5, <1>8, <2>1 DEF CopyInv
  <2> QED
    BY <2>2, <2>4, <2>5, <2>6, <2>7, <2>8 DEF Safe, Base, Tree
<1> QED
  BY <1>6, <1>7, <1>8 DEF ExpandCopy

\* When all entries are copied, the new groups are a tree with the same keys, and the
\* model is the one for it.
LEMMA CopyComplete ==
  ASSUME NEW G \in Groups, NEW M \in SUBSET Nat, IsFiniteSet(M), NEW X \in Groups, Len(X) # 0, NEW a, NEW B,
         CopyOK(G, M, X, Len(G), a), Sound(G, B)
  PROVE  /\ Sound(X, B) /\ Routed(X, M) /\ \A k : Within(k, G, B) => Within(k, X, B)
<1>1. Len(G) \in Nat /\ Len(X) \in Nat \ {0}
  BY EntryFacts
<1>2. ASSUME NEW g \in 1..Len(X), NEW j \in 1..Len(X[g])
      PROVE  /\ Predicted(M, X[g][j].low, Len(X)) = g /\ X[g][j].low \in Nat /\ g \in Nat /\ j \in Nat
             /\ \E h \in 1..Len(G) : \E i \in 1..Len(G[h]) : G[h][i] = X[g][j]
  <2>1. X[g][j].low \in Nat /\ Len(X[g]) \in Nat
    BY EntryFacts
  <2>2. g \in Nat /\ j \in Nat
    BY <1>1, <2>1
  <2>3. /\ Predicted(M, X[g][j].low, Len(X)) = g
        /\ \E h \in 1..Len(G) : \E i \in 1..Len(G[h]) : G[h][i] = X[g][j]
    BY DEF CopyOK
  <2> QED
    BY <2>1, <2>2, <2>3
<1>3. ASSUME NEW h \in 1..Len(G), NEW i \in 1..Len(G[h])
      PROVE  \E g \in 1..Len(X) : \E j \in 1..Len(X[g]) : X[g][j] = G[h][i]
  <2>1. Passed(h, i, Len(G), a) /\ G[h][i].low \in Nat
    BY <1>1, EntryFacts DEF Passed
  <2>2. PICK g \in 1..Len(X) : g = Predicted(M, G[h][i].low, Len(X))
    BY <1>1, <2>1, PredictedIn
  <2>3. \E j \in 1..Len(X[g]) : X[g][j] = G[h][i]
    BY <2>1, <2>2 DEF CopyOK
  <2> QED
    BY <2>3
<1>4. ASSUME NEW g \in 1..Len(X), NEW h \in 1..Len(X), NEW i \in 1..Len(X[g]), NEW j \in 1..Len(X[h]),
             g < h \/ (g = h /\ i < j)
      PROVE  X[g][i].low < X[h][j].low
  <2>1. CASE g = h /\ i < j
    BY <2>1 DEF CopyOK
  <2>2. CASE g < h
    <3> SUFFICES ASSUME ~(X[g][i].low < X[h][j].low) PROVE FALSE
      OBVIOUS
    <3>1. PICK k \in Nat, l \in Nat : k = X[h][j].low /\ l = X[g][i].low
      BY <1>2
    <3>2. k <= l /\ Predicted(M, k, Len(X)) = h /\ Predicted(M, l, Len(X)) = g
      BY <1>2, <3>1, SMTT(30)
    <3>3. Predicted(M, k, Len(X)) <= Predicted(M, l, Len(X))
      BY <1>1, <3>2, PredictedFact
    <3> QED
      BY <1>2, <2>2, <3>2, <3>3
  <2> QED
    BY <1>4, <2>1, <2>2
<1>5. Ascending(X)
  BY <1>4 DEF Ascending
<1>6. ASSUME NEW g \in 1..Len(X), NEW h \in 1..Len(X), NEW i \in 1..Len(X[g]), NEW j \in 1..Len(X[h]),
             X[g][i].b = X[h][j].b
      PROVE  g = h /\ i = j
  <2>1. PICK c \in 1..Len(G) : \E d \in 1..Len(G[c]) : G[c][d] = X[g][i]
    BY <1>2
  <2>2. PICK d \in 1..Len(G[c]) : G[c][d] = X[g][i]
    BY <2>1
  <2>3. PICK e \in 1..Len(G) : \E f \in 1..Len(G[e]) : G[e][f] = X[h][j]
    BY <1>2
  <2>4. PICK f \in 1..Len(G[e]) : G[e][f] = X[h][j]
    BY <2>3
  <2>5. c = e /\ d = f
    <3>1. G[c][d].b = G[e][f].b
      BY <1>6, <2>2, <2>4
    <3>2. OneEntryEach(G)
      BY DEF Sound
    <3> QED
      BY <3>1, <3>2 DEF OneEntryEach
  <2>6. X[g][i] = X[h][j]
    BY <2>2, <2>4, <2>5
  <2>7. g = h
    <3>1. Predicted(M, X[g][i].low, Len(X)) = g
      BY <1>2
    <3>2. Predicted(M, X[h][j].low, Len(X)) = h
      BY <1>2
    <3> QED
      BY <2>6, <3>1, <3>2
  <2>8. ~(X[g][i].low < X[g][j].low) /\ ~(X[g][j].low < X[g][i].low)
    BY <1>2, <2>6, <2>7
  <2>9. ~(i < j) /\ ~(j < i)
    BY <1>4, <2>7, <2>8
  <2> QED
    BY <1>2, <2>7, <2>9
<1>7. \A x \in EntryKeys(X) : x \in EntryKeys(G)
  <2> SUFFICES ASSUME NEW x \in EntryKeys(X) PROVE x \in EntryKeys(G)
    OBVIOUS
  <2>1. PICK g \in 1..Len(X) : \E j \in 1..Len(X[g]) : x = X[g][j].low
    BY EntryKeysFact
  <2>2. PICK j \in 1..Len(X[g]) : x = X[g][j].low
    BY <2>1
  <2>3. \E h \in 1..Len(G) : \E i \in 1..Len(G[h]) : G[h][i] = X[g][j]
    BY <1>2
  <2> QED
    BY <2>2, <2>3, EntryKeysFact
<1>8. InRange(X, B)
  <2> SUFFICES ASSUME NEW g \in 1..Len(X), NEW j \in 1..Len(X[g])
               PROVE  /\ X[g][j].b \in 1..Len(B)
                      /\ \A k \in B[X[g][j].b] : /\ X[g][j].low <= k
                                                 /\ \A x \in EntryKeys(X) : X[g][j].low < x => k < x
    BY DEF InRange
  <2>1. PICK h \in 1..Len(G) : \E i \in 1..Len(G[h]) : G[h][i] = X[g][j]
    BY <1>2
  <2>2. PICK i \in 1..Len(G[h]) : G[h][i] = X[g][j]
    BY <2>1
  <2> QED
    BY <1>7, <2>2 DEF Sound, InRange
<1>9. \E g \in 1..Len(X) : X[g] # <<>>
  <2>1. PICK h \in 1..Len(G) : G[h] # <<>>
    BY DEF Sound
  <2>2. 1 \in 1..Len(G[h])
    BY <2>1, EntryFacts
  <2>3. \E g \in 1..Len(X) : \E j \in 1..Len(X[g]) : X[g][j] = G[h][1]
    BY <1>3, <2>2
  <2> QED
    BY <2>3, EntryFacts
<1>10. Routed(X, M)
  <2> SUFFICES ASSUME NEW g \in 1..Len(X), X[g] # <<>> PROVE g <= Predicted(M, X[g][1].low, Len(X))
    BY DEF Routed
  <2>1. 1 \in 1..Len(X[g])
    BY EntryFacts
  <2>2. Predicted(M, X[g][1].low, Len(X)) = g /\ g \in Nat
    BY <1>2, <2>1
  <2> QED
    BY <2>2
<1>11. ASSUME NEW k, Within(k, G, B) PROVE Within(k, X, B)
  <2>1. PICK h \in 1..Len(G) : \E i \in 1..Len(G[h]) : k \in B[G[h][i].b]
    BY <1>11 DEF Within
  <2>2. PICK i \in 1..Len(G[h]) : k \in B[G[h][i].b]
    BY <2>1
  <2>3. \E g \in 1..Len(X) : \E j \in 1..Len(X[g]) : X[g][j] = G[h][i]
    BY <1>3
  <2> QED
    BY <2>2, <2>3 DEF Within
<1> QED
  BY <1>5, <1>6, <1>8, <1>9, <1>10, <1>11 DEF Sound, OneEntryEach

\* The new groups are published.
LEMMA PublishGroupsSafe == ASSUME Inv, Safe, NEW t \in Threads, ExpandPublishGroups(t) PROVE Safe'
<1> DEFINE G == space[gs]
<1>1. /\ th[t].pc = "groups" /\ Go(t, "locks") /\ space' = Append(space, xnew) /\ locked' = Append(locked, {})
      /\ gs' = Len(space) + 1 /\ xpos' = 0 /\ xat' = 0 /\ xnew' = <<>>
      /\ UNCHANGED <<flag, model, bkt, freed, ls, acked>>
  BY DEF ExpandPublishGroups
<1>2. /\ Base /\ RoomInv /\ TypeInv /\ VersionInv /\ Tree /\ G \in Groups /\ model \in SUBSET Nat /\ IsFiniteSet(model)
      /\ gs \in Nat \ {0} /\ ls \in Nat /\ gs = Len(space) /\ xnew \in Groups
      /\ space \in Seq(Groups) /\ locked \in Seq(SUBSET Nat) /\ Len(locked) = gs
  BY CurrentFacts DEF Safe, Base, VersionInv, TypeInv
<1>3. th[t].pc \in Rebuilding /\ "locks" \in ExpandSteps
  BY <1>1 DEF Rebuilding, ExpandSteps
<1>4. gs' = gs + 1 /\ gs' \in Nat /\ gs <= gs' /\ gs' > gs
  BY <1>1, <1>2
<1>5. /\ space' \in Seq(Groups) /\ Len(space') = gs' /\ space'[gs'] = xnew
      /\ \A v \in 1..gs : space'[v] = space[v]
  BY <1>1, <1>2, <1>4
<1>6. /\ locked' \in Seq(SUBSET Nat) /\ Len(locked') = gs' /\ \A v \in 1..gs : locked'[v] = locked[v]
  BY <1>1, <1>2, <1>4
<1>7. /\ Moves(t) /\ th' \in [Threads -> Locals] /\ th'[t].pc = "locks" /\ ThreadInv' /\ PairInv'
      /\ \A P \in SUBSET Rebuilding : (IsAt(P)' <=> "locks" \in P) /\ (IsAt(P) <=> "groups" \in P)
  <2>1. \A v \in 1..gs : Len(space'[v]) = Len(space[v])
    BY <1>5
  <2>2. ls' = ls /\ ls <= ls' /\ ls' \in Nat
    BY <1>1, <1>2
  <2> QED
    BY <1>1, <1>2, <1>3, <1>4, <1>6, <2>1, <2>2, ExpanderStep
<1>8. /\ IsAt(Copies) /\ IsAt({"free", "groups"}) /\ IsAt({"groups"}) /\ ~IsAt({"locks"})
      /\ ~IsAt(Trained)' /\ ~IsAt(Copies)' /\ ~IsAt({"free", "groups"})' /\ ~IsAt({"groups"})' /\ IsAt({"locks"})'
  BY <1>7, StepSets DEF Trained, Copies
<1>9. flag
  BY <1>1, <1>3 DEF Inv, OneExpander, Rebuilding
<1>10. Len(xnew) # 0 /\ CopyOK(G, model, xnew, Len(G), xat) /\ Sound(G, bkt)
  BY <1>2, <1>8 DEF RoomInv, Tree, Core, CopyInv, TreeInv
<1>11. /\ Sound(xnew, bkt) /\ Routed(xnew, model) /\ \A k : Within(k, G, bkt) => Within(k, xnew, bkt)
  BY <1>2, <1>10, CopyComplete
<1>12. TypeInv'
  <2>1. <<>> \in Groups
    BY DEF Groups
  <2> QED
    BY <1>1, <1>2, <1>5, <1>6, <1>7, <2>1 DEF TypeInv
<1>13. VersionInv'
  <2>1. freed \subseteq 1..gs /\ ls = gs /\ \A v \in 1..gs : v \in freed
    BY <1>2, <1>8 DEF VersionInv
  <2>2. freed' \subseteq 1..gs' /\ \A v \in 1..gs' : v \in freed' <=> v < gs'
    BY <1>1, <1>2, <1>4, <2>1
  <2>3. \E g \in 1..Len(xnew) : xnew[g] # <<>>
    BY <1>11 DEF Sound
  <2>4. gs' - 1 = gs /\ gs' # 0
    BY <1>2, <1>4
  <2> QED
    BY <1>1, <1>2, <1>4, <1>5, <1>8, <2>1, <2>2, <2>3, <2>4 DEF VersionInv
<1>14. RoomInv'
  BY <1>1, <1>8 DEF RoomInv
<1>15. \A u \in Threads : u # t => th'[u] = th[u]
  BY <1>7 DEF Moves
<1>16. OwnInv'
  <2> SUFFICES ASSUME NEW u \in Threads PROVE OwnOK(th'[u], xnew, gs', IsAt(Trained)')
    BY <1>5 DEF OwnInv
  <2>1. CASE u = t
    BY <1>7, <2>1 DEF OwnOK
  <2>2. CASE u # t
    <3>1. GroupOK(th[u], space, gs)
      BY <1>2, ThreadFacts
    <3>2. th[u].pc \in HasGroup => th[u].gv # gs'
      BY <1>2, <1>4, <3>1 DEF GroupOK
    <3> QED
      BY <1>15, <2>2, <3>2 DEF OwnOK, HasGroup
  <2> QED
    BY <2>1, <2>2
<1>17. \A u \in Threads : /\ ~Doomed(u)' => th'[u].pc # "link" /\ th[u].pc # "link"
  BY <1>1, <1>7, <1>9, <1>15 DEF Doomed
<1>18. SplitInv'
  <2>1. ASSUME NEW u \in Threads, ~Doomed(u)' PROVE SplitOK(th'[u], space'[gs'], bkt', gs')
    BY <1>17, <2>1 DEF SplitOK
  <2> QED
    BY <1>17, <2>1 DEF SplitInv
<1>19. ASSUME Calm' PROVE KeyInv'
  <2>0. \A u \in Threads : th'[u].pc # "link" /\ th[u].pc # "link"
    BY <1>17, <1>19 DEF Calm
  <2>1. Calm
    BY <2>0 DEF Calm, Doomed
  <2>2. ASSUME NEW q, Kept(q) PROVE Kept(q)'
    <3>1. Within(q, xnew, bkt)
      BY <1>11, <2>0, <2>2 DEF Kept
    <3> QED
      BY <1>1, <1>5, <3>1 DEF Kept
  <2>3. \A q \in acked' : Kept(q)'
    BY <1>1, <1>2, <2>1, <2>2 DEF Tree, Core, KeyInv
  <2>4. ASSUME NEW u \in Threads, th'[u].pc = "unlock", th'[u].ret = "ok"
        PROVE  Kept(th[u].key)' /\ th'[u] = th[u]
    <3>1. PICK q : q = th[u].key
      OBVIOUS
    <3>2. th'[u] = th[u] /\ Kept(q)
      BY <1>2, <1>7, <1>15, <2>1, <2>4, <3>1 DEF Tree, Core, KeyInv
    <3>3. Kept(q)'
      BY <2>2, <3>2
    <3> QED
      BY <3>1, <3>2, <3>3
  <2> QED
    BY <2>3, <2>4 DEF KeyInv
<1>20. TreeInv' /\ CopyInv'
  BY <1>1, <1>5, <1>8, <1>11 DEF TreeInv, CopyInv
<1> QED
  BY <1>7, <1>12, <1>13, <1>14, <1>16, <1>18, <1>19, <1>20 DEF Safe, Base, Tree, Core

----------------------------------------------------------------------------
(* The invariant of all behaviours in which nothing has strayed.           *)

\* What strayed stays so.
LEMMA StrayedStays == ASSUME [Next]_vars, ~strayed' PROVE ~strayed
<1>1. \A t \in Threads : Wild(t) => strayed'
  BY DEF Wild
<1>2. CASE UNCHANGED vars
  BY <1>2 DEF vars
<1>3. ASSUME NEW t \in Threads, NEW c \in Calls, Start(t, c[1], c[2]) PROVE ~strayed
  BY <1>3 DEF Start
<1>4. ASSUME NEW t \in Threads, Operation(t) PROVE ~strayed
  <2>1. ASSUME Put(t) PROVE ~strayed
    BY <1>1, <2>1 DEF Put, PutRoom, PutFull, PutSplit
  <2> QED
    BY <1>1, <1>4, <2>1 DEF Operation, Retry, Block, Find, Get, GetSlow, LockPointer, Lock, Check, Link,
       UpdateDelete, Unlock
<1>5. ASSUME NEW t \in Threads, ExpandTree(t) PROVE ~strayed
  BY <1>5 DEF ExpandTree, ExpandEnter, ExpandTrain, ExpandCount, ExpandCopy, ExpandFree,
     ExpandPublishGroups, ExpandPublishLocks, ExpandClear, ExpandNotify
<1>6. ASSUME NEW t \in Threads, SpuriousWake(t) PROVE ~strayed
  BY <1>6 DEF SpuriousWake
<1> QED
  BY <1>2, <1>3, <1>4, <1>5, <1>6 DEF Next

\* A step that changes nothing.
LEMMA StutterSafe == ASSUME Safe, UNCHANGED vars PROVE Safe'
<1>1. UNCHANGED <<flag, waiting, model, space, bkt, freed, gs, ls, locked, th, xpos, xat, xnew, xres, acked>>
  BY DEF vars, memory, expandVars
<1>2. \A P : IsAt(P)' <=> IsAt(P)
  BY <1>1 DEF IsAt
<1>3. TypeInv'
  BY <1>1 DEF Safe, Base, TypeInv
<1>4. VersionInv'
  BY <1>1, <1>2 DEF Safe, Base, VersionInv
<1>5. ThreadInv' /\ PairInv'
  BY <1>1, <1>2 DEF Safe, Base, ThreadInv, PairInv
<1>6. RoomInv'
  BY <1>1, <1>2 DEF Safe, RoomInv, Reserved
<1>7. Calm' <=> Calm
  BY <1>1 DEF Calm, Doomed
<1>8. OwnInv' /\ TreeInv' /\ CopyInv'
  BY <1>1, <1>2 DEF Safe, Tree, Core, OwnInv, TreeInv, CopyInv
<1>9. SplitInv'
  BY <1>1 DEF Safe, Tree, Core, SplitInv, Doomed
<1>10. KeyInv' <=> KeyInv
  BY <1>1 DEF KeyInv, Kept
<1> QED
  BY <1>3, <1>4, <1>5, <1>6, <1>7, <1>8, <1>9, <1>10 DEF Safe, Base, Tree, Core

\* An operation neither counts nor begins to.
LEMMA OperationCounts ==
  ASSUME Inv, NEW t \in Threads, Operation(t)
  PROVE  UNCHANGED xcount /\ \A u \in Threads : th'[u].pc = "count" => th[u].pc = "count"
<1> USE DEF expandVars
<1>1. CASE Wild(t)
  BY <1>1, GoMoves DEF Wild, Inv, Moves
<1>2. CASE Retry(t) \/ Block(t)
  <2>1. UNCHANGED xcount /\ (Go(t, "block") \/ Go(t, "find") \/ Go(t, "wait"))
    BY <1>2 DEF Retry, Block, Entry
  <2> QED
    BY <2>1, GoMoves DEF Inv, Moves
<1>3. CASE Find(t) \/ LockPointer(t) \/ Check(t)
  BY <1>1, <1>3 DEF Find, LockPointer, Check, Inv, Shape, Fields
<1>4. CASE Get(t) \/ GetSlow(t)
  BY <1>1, <1>4, IdleShape DEF Get, GetSlow, Inv, Shape, Fields
<1>5. CASE Lock(t) \/ Link(t)
  <2>1. CASE ~Wild(t)
    <3>1. UNCHANGED xcount /\ (Go(t, "check") \/ Go(t, "work"))
      BY <1>5, <2>1 DEF Lock, Link
    <3> QED
      BY <3>1, GoMoves DEF Inv, Moves
  <2> QED
    BY <1>1, <2>1
<1>6. CASE Put(t) \/ UpdateDelete(t)
  BY <1>1, <1>6 DEF Put, PutRoom, PutFull, PutSplit, UpdateDelete, Inv, Shape, Fields
<1>7. CASE Unlock(t)
  BY <1>1, <1>7, IdleShape DEF Unlock, Inv, Shape, Fields
<1> QED
  BY <1>2, <1>3, <1>4, <1>5, <1>6, <1>7 DEF Operation

\* The training counts an entry at least, and nobody else is at the count.
LEMMA CountStep == ASSUME Inv, Safe, CountOK, [Next]_vars PROVE CountOK'
<1>1. ASSUME UNCHANGED xcount, \A u \in Threads : th'[u].pc = "count" => th[u].pc = "count"
      PROVE  CountOK'
  BY <1>1 DEF CountOK
<1>2. CASE UNCHANGED vars
  BY <1>1, <1>2 DEF vars, expandVars
<1>3. ASSUME NEW t \in Threads, NEW c \in Calls, Start(t, c[1], c[2]) PROVE CountOK'
  <2>1. /\ UNCHANGED xcount
        /\ th' = [th EXCEPT ![t] = [Idle EXCEPT !.pc = Entry, !.op = c[1], !.key = c[2]]]
    BY <1>3 DEF Start, expandVars
  <2>2. \A u \in Threads \ {t} : th'[u] = th[u]
    BY <2>1 DEF Inv, Shape
  <2>3. th'[t].pc = Entry
    BY <2>1, IdleShape DEF Inv, Shape, Fields
  <2> QED
    BY <1>1, <2>1, <2>2, <2>3 DEF Entry
<1>4. ASSUME NEW t \in Threads, Operation(t) PROVE CountOK'
  BY <1>1, <1>4, OperationCounts
<1>5. ASSUME NEW t \in Threads, ExpandTree(t) PROVE CountOK'
  <2>1. CASE ExpandTrain(t)
    <3>1. xcount' = EntryCount(space[gs])
      BY <2>1 DEF ExpandTrain
    <3>2. space[gs] \in Groups /\ \E g \in 1..Len(space[gs]) : space[gs][g] # <<>>
      BY CurrentFacts DEF Safe, Base, VersionInv
    <3> QED
      BY <3>1, <3>2, CountFact DEF CountOK
  <2>2. CASE ExpandCount(t)
    <3>1. th[t].pc = "count" /\ Go(t, "copy")
      BY <2>2 DEF ExpandCount
    <3>2. \A u \in Threads \ {t} : th[u].pc # "count"
      BY <3>1 DEF Inv, OneExpander, ExpandSteps
    <3> QED
      BY <3>1, <3>2, GoMoves DEF Inv, Moves, CountOK
  <2>3. CASE ExpandNotify(t)
    BY <1>1, <2>3 DEF ExpandNotify, Inv, Shape, Fields, expandVars
  <2>4. CASE ExpandEnter(t) \/ ExpandCopy(t) \/ ExpandFree(t) \/ ExpandPublishGroups(t)
             \/ ExpandPublishLocks(t) \/ ExpandClear(t)
    <3>1. /\ UNCHANGED xcount
          /\ UNCHANGED th \/ \E p \in {"begin", "train", "free", "groups", "locks", "clear", "notify"} : Go(t, p)
      BY <2>4 DEF ExpandEnter, ExpandCopy, ExpandFree, ExpandPublishGroups, ExpandPublishLocks,
         ExpandClear, expandVars
    <3> QED
      BY <1>1, <3>1, GoMoves DEF Inv, Moves
  <2> QED
    BY <1>5, <2>1, <2>2, <2>3, <2>4 DEF ExpandTree
<1>6. ASSUME NEW t \in Threads, SpuriousWake(t) PROVE CountOK'
  <2>1. UNCHANGED xcount /\ Go(t, "find")
    BY <1>6 DEF SpuriousWake, expandVars
  <2> QED
    BY <1>1, <2>1, GoMoves DEF Inv, Moves
<1> QED
  BY <1>2, <1>3, <1>4, <1>5, <1>6 DEF Next

\* Every step that does not stray keeps the invariant.
LEMMA SafeStep == ASSUME Inv, Waiters, Safe, CountOK, [Next]_vars, ~strayed' PROVE Safe'
<1>1. CASE UNCHANGED vars
  BY <1>1, StutterSafe
<1>2. ASSUME NEW t \in Threads, NEW c \in Calls, Start(t, c[1], c[2]) PROVE Safe'
  BY <1>2, StartSafe
<1>3. ASSUME NEW t \in Threads, Operation(t) PROVE Safe'
  <2>1. CASE Retry(t) \/ Block(t)
    BY <2>1, BeginSafe
  <2>2. CASE Find(t) \/ Get(t) \/ GetSlow(t)
    BY <2>2, FindSafe, GetSafe
  <2>3. CASE LockPointer(t) \/ Lock(t) \/ Check(t)
    BY <2>3, LockPointerSafe, LockSafe, CheckSafe
  <2>4. CASE Put(t) \/ Link(t) \/ UpdateDelete(t) \/ Unlock(t)
    BY <2>4, PutSafe, LinkSafe, UpdateDeleteSafe, UnlockSafe
  <2> QED
    BY <1>3, <2>1, <2>2, <2>3, <2>4 DEF Operation
<1>4. ASSUME NEW t \in Threads, ExpandTree(t) PROVE Safe'
  BY <1>4, BeginSafe, TrainSafe, CountSafe, CopySafe, FreeSafe, PublishGroupsSafe, PublishLocksSafe,
     ClearSafe, NotifySafe DEF ExpandTree
<1>5. ASSUME NEW t \in Threads, SpuriousWake(t) PROVE Safe'
  BY <1>5, BeginSafe
<1> QED
  BY <1>1, <1>2, <1>3, <1>4, <1>5 DEF Next

\* It holds of the loaded tree.
LEMMA SafeInit == Init => Safe /\ CountOK /\ Waiters
<1> SUFFICES ASSUME Init PROVE Safe /\ CountOK /\ Waiters
  OBVIOUS
<1> DEFINE G == Loaded.groups
<1>1. /\ flag = FALSE /\ waiting = {} /\ freed = {} /\ gs = 1 /\ ls = 1 /\ space = <<G>>
      /\ bkt = Loaded.buckets /\ model = Loaded.trained /\ locked = <<{}>>
      /\ xpos = 0 /\ xat = 0 /\ xnew = <<>>
      /\ acked = UNION {bkt[b] : b \in 1..Len(bkt)}
  BY DEF Init
<1>2. \A t \in Threads : th[t] = Idle /\ th[t].pc = "idle" /\ th[t].wv = 0 /\ th[t] \in Locals
  BY IdleLocal DEF Init
<1>3. /\ G \in Groups /\ bkt \in Seq(SUBSET Keys) /\ model \subseteq Keys /\ IsFiniteSet(model)
      /\ \A b \in 1..Len(bkt) : IsFiniteSet(bkt[b])
      /\ \A b \in 1..Len(bkt) : \E g \in 1..Len(G) : \E i \in 1..Len(G[g]) : G[g][i].b = b
      /\ Sound(G, bkt) /\ Routed(G, model)
  BY <1>1, LoadedAssumption DEF Groups, Entries
<1> HIDE DEF G
<1>4. space[gs] = G /\ Len(space) = 1 /\ space \in Seq(Groups) /\ Len(locked) = 1 /\ locked \in Seq(SUBSET Nat)
  BY <1>1, <1>3
<1>5. \A P \in SUBSET Rebuilding : ~IsAt(P)
  BY <1>2 DEF IsAt, Rebuilding, ExpandSteps
<1>6. /\ ~IsAt(Trained) /\ ~IsAt(Copies) /\ ~IsAt({"free", "groups"}) /\ ~IsAt({"groups"})
      /\ ~IsAt({"locks"}) /\ ~IsAt({"locks", "clear"})
  BY <1>5, StepSets
<1>7. \A k \in acked : k \in Keys /\ Within(k, G, bkt)
  <2> SUFFICES ASSUME NEW k \in acked PROVE k \in Keys /\ Within(k, G, bkt)
    OBVIOUS
  <2>1. PICK b \in 1..Len(bkt) : k \in bkt[b]
    BY <1>1
  <2>2. \E g \in 1..Len(G) : \E i \in 1..Len(G[g]) : G[g][i].b = b
    BY <1>3
  <2>3. bkt[b] \in SUBSET Keys
    BY <1>3
  <2> QED
    BY <2>1, <2>2, <2>3 DEF Within
<1>8. TypeInv
  <2>1. th \in [Threads -> Locals]
    BY IdleLocal DEF Init
  <2>2. xnew \in Groups
    BY <1>1 DEF Groups
  <2> QED
    BY <1>1, <1>3, <1>4, <1>7, <2>1, <2>2 DEF TypeInv
<1>9. VersionInv
  <2>1. \E g \in 1..Len(G) : G[g] # <<>>
    BY <1>3 DEF Sound
  <2>2. gs = 1 /\ gs = Len(space) /\ freed = {} /\ ls = gs
    BY <1>1, <1>4
  <2> QED
    BY <1>4, <1>6, <2>1, <2>2 DEF VersionInv
<1>10. ThreadInv /\ PairInv
  BY <1>2 DEF ThreadInv, ThreadOK, LocalOK, GroupOK, LockOK, NewOK, HasGroup, HasLock, PairInv, PairOK
<1>11. RoomInv
  BY <1>1, <1>6 DEF RoomInv
<1>12. OwnInv /\ SplitInv
  BY <1>2, IdleLocal DEF OwnInv, OwnOK, SplitInv, SplitOK
<1>13. KeyInv
  BY <1>2, <1>4, <1>7 DEF KeyInv, Kept
<1>14. TreeInv /\ CopyInv
  BY <1>3, <1>4, <1>6 DEF TreeInv, CopyInv
<1>15. Waiters
  BY <1>1, <1>2 DEF Waiters
<1>16. CountOK
  BY <1>2 DEF CountOK
<1> QED
  BY <1>8, <1>9, <1>10, <1>11, <1>12, <1>13, <1>14, <1>15, <1>16 DEF Safe, Base, Tree, Core

\* The room reserved in a new group is for all entries that are appended to it.
LEMMA SafeRoom == ASSUME Safe PROVE \A g \in 1..Len(xnew) : Len(xnew[g]) <= xres[g]
<1> SUFFICES ASSUME NEW g \in 1..Len(xnew) PROVE Len(xnew[g]) <= xres[g]
  OBVIOUS
<1> DEFINE G == space[gs]  n == Len(xnew)  P == PassedTo(G, model, n, g, xpos, xat)
           Mine(h) == {i \in 1..Len(G[h]) : Predicted(model, G[h][i].low, n) = g}
           R == UNION {{h} \X Mine(h) : h \in 1..Len(G)}
<1>1. IsAt(Copies)
  BY DEF Safe, RoomInv
<1>2. xres[g] = Cardinality(R) /\ Len(xnew[g]) = Cardinality(P)
  BY <1>1 DEF Safe, RoomInv, Reserved
<1>3. G \in Groups
  BY CurrentFacts DEF Safe
<1>4. IsFiniteSet(Positions(G))
  BY <1>3, PositionsFact
<1>5. P \subseteq R
  BY DEF PassedTo, Positions
<1>6. R \subseteq Positions(G)
  BY DEF Positions
<1> HIDE DEF R, P
<1>7. IsFiniteSet(R)
  BY <1>4, <1>6, FS_Subset
<1>8. Cardinality(P) <= Cardinality(R)
  BY <1>5, <1>7, FS_Subset
<1> QED
  BY <1>2, <1>8

\* Where no split is to be linked and nobody rebuilds, the keys are found.
LEMMA SafeFound == ASSUME Inv, Safe PROVE AckedFound
<1> SUFFICES ASSUME ~flag, \A t \in Threads : th[t].pc \notin {"link", "wild"}, NEW k \in acked
             PROVE  Found(k)
  BY DEF AckedFound
<1> DEFINE G == space[gs]  f == FindGroup(G, model, k)
<1>1. Calm /\ \A t \in Threads : th[t].pc # "link"
  BY DEF Calm, Doomed
<1>2. Within(k, G, bkt)
  BY <1>1 DEF Safe, Tree, Core, KeyInv, Kept
<1>3. PICK g \in 1..Len(G) : \E i \in 1..Len(G[g]) : k \in bkt[G[g][i].b]
  BY <1>2 DEF Within
<1>4. PICK i \in 1..Len(G[g]) : k \in bkt[G[g][i].b]
  BY <1>3
<1>5. /\ G \in Groups /\ model \in SUBSET Nat /\ IsFiniteSet(model) /\ k \in Nat
  BY CurrentFacts, NaliExpandAssumption DEF Safe, Base, TypeInv
<1>6. ~IsAt(Trained)
  BY StepSets, AtFlag
<1>7. Sound(G, bkt) /\ Routed(G, model) /\ \E h \in 1..Len(G) : G[h] # <<>>
  BY <1>6 DEF Safe, Tree, Core, TreeInv, Sound
<1> HIDE DEF G
<1>8. Owns(G, k, f)
  BY <1>5, <1>7, FindGroupOwns
<1> HIDE DEF f
<1>9. f = g /\ FindEntry(G[f], k) = i /\ G[f] # <<>>
  BY <1>4, <1>5, <1>7, <1>8, FoundInTree DEF Owns
<1>10. FoundIn(G[f], k)
  BY <1>4, <1>9 DEF FoundIn
<1> QED
  BY <1>10 DEF Found, G, f

\* What has strayed is not spoken of.
SafeInv == Inv /\ Waiters /\ (~strayed => Safe /\ CountOK)

\* The inductive invariant holds in all behaviours.
LEMMA SafeInvariance == Spec => []SafeInv
<1>1. Init => SafeInv
  BY InvInit, SafeInit DEF SafeInv
<1>2. SafeInv /\ [Next]_vars => SafeInv'
  BY InvStep, WaitersStep, StrayedStays, SafeStep, CountStep DEF SafeInv
<1> QED
  BY <1>1, <1>2, PTL DEF Spec

\* The entries that ExpandTree appends to a new group fit into the room it reserved
\* from an earlier count (nali.h:1141-1173), unless an operation strayed.
THEOREM RoomIsReserved == Spec => []ReservedRoom
<1>1. SafeInv => ReservedRoom
  BY SafeRoom DEF SafeInv, ReservedRoom
<1> QED
  BY <1>1, SafeInvariance, PTL

\* A key whose Put returned is found again outside expansions and splits, as long as
\* no operation worked on a tree it did not belong to (nali.h:832-861, 1161-1202).
THEOREM AckedAreFound == Spec => []AckedFoundUnlessStrayed
<1>1. SafeInv => AckedFoundUnlessStrayed
  BY SafeFound DEF SafeInv, AckedFoundUnlessStrayed
<1> QED
  BY <1>1, SafeInvariance, PTL

=============================================================================
