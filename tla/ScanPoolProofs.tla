--------------------------- MODULE ScanPoolProofs ---------------------------
(***************************************************************************)
(* Proofs about ScanPool, for any number of scanners, nodes and workers and *)
(* any size of scan: what range_scan_by_size returns is complete, and no   *)
(* task outlives the frame it points into.                                 *)
(*                                                                         *)
(* The scanner knows nothing but a number: it returns when complete_reads  *)
(* equals the size of its scan.  The invariant says what that number is:   *)
(* the positions that are filled and in no task that is queued or running. *)
(* It holds because every position is in one place only: still in the      *)
(* scanner's numa_pos_arr, in one task, or counted.                        *)
(***************************************************************************)
EXTENDS ScanPool, FiniteSetTheorems, WellFoundedInduction, TLAPS

Task == [scan : Scanners, pos : Seq(Positions), left : Seq(Positions)]

Locals == [pc : {"start", "pos", "pick", "enqueue", "notify", "spin", "done"},
           size : 0..MaxScan, i : 0..MaxScan, n : 0..NumNodes, tid : 0..PoolThreads,
           rest : BOOLEAN, pos : [Nodes -> Seq(Positions)], complete : Nat]

TypeInv ==
  /\ tasks \in [Workers -> Seq(Task)]
  /\ wpc \in [Workers -> {"top", "wait", "woken", "task", "done"}]
  /\ cur = [w \in Workers |-> cur[w]]
  /\ \A w \in Workers : wpc[w] = "task" => cur[w] \in Task
  /\ busy \subseteq Workers /\ stop \subseteq Workers
  /\ down \in [Nodes -> [pc : {"up", "stop", "notify", "join", "down"}, at : 0..PoolThreads]]
  /\ \A n \in Nodes : down[n].pc # "up" => down[n].at \in Threads
  /\ sc \in [Scanners -> Locals]
  /\ filled \in [Scanners -> [Positions -> 0..1]]

-----------------------------------------------------------------------------
(* Where a position is.                                                    *)

\* The tasks of a worker: 0 is the one that runs, the others are queued.
Live(w) == {k \in 0..Len(tasks[w]) : k = 0 => wpc[w] = "task"}
TaskAt(w, k) == IF k = 0 THEN cur[w] ELSE tasks[w][k]

Within(p, arr) == \E j \in 1..Len(arr) : arr[j] = p

\* Task k of w has to fill position p of s.
Has(s, p, w, k) ==
  /\ w \in Workers /\ k \in Live(w)
  /\ TaskAt(w, k).scan = s /\ Within(p, TaskAt(w, k).pos)

Claimed(s, p) == \E w \in Workers : \E k \in Nat : Has(s, p, w, k)

\* The scanner has yet to send position p to node n.
Keeps(c, n, p) ==
  /\ c.pc \in {"pos", "pick", "enqueue", "notify"}
  /\ ~(c.pc = "notify" /\ n = c.n) /\ ~(c.rest /\ n < c.n)
  /\ Within(p, c.pos[n])

\* The positions the scanner has put into numa_pos_arr are 1..Seen.
Seen(c) == CASE c.pc = "start" -> 0 [] c.pc = "pos" -> c.i - 1
             [] c.pc = "done" -> c.size [] OTHER -> c.i

Counted(s) == {p \in Positions : filled[s][p] = 1 /\ ~Claimed(s, p)}

-----------------------------------------------------------------------------
(* The invariant.                                                          *)

Distinct(arr) == \A i, j \in 1..Len(arr) : arr[i] = arr[j] => i = j

ScanOK(c) ==
  /\ c.pc = "start" => c.size = 0 /\ c.i = 0 /\ ~c.rest /\ \A n \in Nodes : c.pos[n] = <<>>
  /\ c.pc \in {"pos", "pick", "enqueue", "notify", "spin"} => c.i \in 1..c.size
  /\ c.pc \in {"pick", "enqueue", "notify"} => c.n \in Nodes /\ c.pos[c.n] # <<>>
  /\ c.pc \in {"enqueue", "notify"} => c.tid \in Threads
  /\ c.pc = "pos" => ~c.rest
  /\ c.pc = "done" => c.complete = c.size
  /\ c.pc \in {"pos", "pick", "enqueue", "notify"} => \A n \in Nodes : Distinct(c.pos[n])
  /\ \A m, n \in Nodes : \A p : Keeps(c, m, p) /\ Keeps(c, n, p) => m = n

\* Task t of a scan that has seen m positions, F of them filled: what is left is
\* the end of its positions, and what is before it is filled.
TaskOK(t, m, F) ==
  LET d == Len(t.pos) - Len(t.left) IN
  /\ t.pos # <<>> /\ Distinct(t.pos) /\ d >= 0
  /\ \A j \in 1..Len(t.left) : t.left[j] = t.pos[d + j]
  /\ \A j \in 1..Len(t.pos) : t.pos[j] <= m /\ F[t.pos[j]] = IF j <= d THEN 1 ELSE 0

ScansInv == \A s \in Scanners : ScanOK(sc[s])

TasksInv == \A w \in Workers : \A k \in Live(w) :
  TaskOK(TaskAt(w, k), Seen(sc[TaskAt(w, k).scan]), filled[TaskAt(w, k).scan])

ApartInv == \A s \in Scanners : \A p : \A v, w \in Workers : \A j, k \in Nat :
  Has(s, p, v, j) /\ Has(s, p, w, k) => v = w /\ j = k

KeptInv == \A s \in Scanners : \A n \in Nodes : \A p \in Positions :
  Keeps(sc[s], n, p) => p <= Seen(sc[s]) /\ filled[s][p] = 0 /\ ~Claimed(s, p)

FilledInv == \A s \in Scanners : \A p \in Positions : filled[s][p] # 0 => p <= Seen(sc[s])

CountInv == \A s \in Scanners : sc[s].complete = Cardinality(Counted(s))

Inv == TypeInv /\ ScansInv /\ TasksInv /\ ApartInv /\ KeptInv /\ FilledInv /\ CountInv

-----------------------------------------------------------------------------
(* What the scanner does next.                                             *)

\* The constants, as the code sets them and the bounds cap them.
LEMMA ConstantFacts ==
  /\ NumNodes \in Nat \ {0} /\ PoolThreads \in Nat \ {0} /\ Batch \in Nat \ {0} /\ MaxScan \in Nat \ {0}
  /\ Sizes \in [Scanners -> SUBSET (0..MaxScan)]
  /\ LogsOn \in [Scanners -> SUBSET Nodes \ {{}}]
BY ThreadPoolAssumption, ScanPoolAssumption

\* A set of nodes that is not empty has a first one.
LEMMA FirstNode ==
  ASSUME NEW S, S \subseteq Nodes, S # {}
  PROVE  \E m \in S : \A k \in S : m <= k
<1>1. S \subseteq Nat
  BY ConstantFacts DEF Nodes
<1>2. PICK m \in S : \A k \in S : ~(<<k, m>> \in OpToRel(<, Nat))
  BY <1>1, NatLessThanWellFounded, WFMin, Zenon
<1>3. \A k \in S : ~(k < m)
  BY <1>1, <1>2 DEF OpToRel
<1> QED
  BY <1>1, <1>3

\* The scanner c becomes d, which has seen position i and keeps only what c has at
\* node j or a later one.
Onward(c, d, j) ==
  /\ d \in Locals /\ ScanOK(d) /\ Seen(d) = c.i
  /\ d.complete = c.complete
  /\ \A n \in Nodes : \A p : Keeps(d, n, p) => n >= j /\ Within(p, c.pos[n])

\* What c still has at node j and the later ones is in one place only.
Tidy(c, j) ==
  /\ c \in Locals /\ c.i \in 1..c.size
  /\ \A n \in Nodes : Distinct(c.pos[n])
  /\ \A m, n \in Nodes : \A p :
       m >= j /\ n >= j /\ Within(p, c.pos[m]) /\ Within(p, c.pos[n]) => m = n

\* Behind the last position, the first node that has some left is next.
LEMMA SendRestOnward ==
  ASSUME NEW c, NEW j \in Nat, Tidy(c, j)
  PROVE  Onward(c, SendRest(c, j), j)
<1>1. c \in Locals /\ c.i \in 1..c.size
  BY DEF Tidy
<1>2. PICK left : left = {n \in Nodes : n >= j /\ c.pos[n] # <<>>}
  OBVIOUS
<1>3. CASE left = {}
  <2>1. PICK d : d = [c EXCEPT !.pc = "spin"]
    OBVIOUS
  <2>2. SendRest(c, j) = d
    BY <1>2, <1>3, <2>1 DEF SendRest
  <2>3. d \in Locals /\ d.pc = "spin" /\ d.i = c.i /\ d.size = c.size /\ d.complete = c.complete
    BY <1>1, <2>1 DEF Locals
  <2> QED
    BY <1>1, <2>2, <2>3 DEF Onward, ScanOK, Seen, Keeps
<1>4. CASE left # {}
  <2>1. \E m \in left : \A k \in left : m <= k
    BY <1>2, <1>4, FirstNode
  <2>2. PICK n : n = CHOOSE m \in left : \A k \in left : m <= k
    OBVIOUS
  <2>3. n \in left /\ \A k \in left : n <= k
    BY <2>1, <2>2
  <2>4. PICK d : d = [c EXCEPT !.pc = "pick", !.n = n, !.rest = TRUE]
    OBVIOUS
  <2>5. SendRest(c, j) = d
    BY <1>2, <1>4, <2>2, <2>4 DEF SendRest
  <2>6. n \in Nodes /\ n >= j /\ c.pos[n] # <<>> /\ n \in 0..NumNodes
    BY <1>2, <2>3 DEF Nodes
  <2>7. /\ d \in Locals /\ d.pc = "pick" /\ d.i = c.i /\ d.size = c.size /\ d.complete = c.complete
        /\ d.n = n /\ d.rest = TRUE /\ d.pos = c.pos
    BY <1>1, <2>4, <2>6 DEF Locals
  <2>8. \A m \in Nodes : \A p : Keeps(d, m, p) => m >= j /\ Within(p, c.pos[m])
    BY <2>6, <2>7, ConstantFacts DEF Keeps, Nodes
  <2>9. \A k, m \in Nodes : \A p : Keeps(d, k, p) /\ Keeps(d, m, p) => k = m
    BY <2>8 DEF Tidy
  <2>10. ScanOK(d)
    BY <1>1, <2>6, <2>7, <2>9 DEF ScanOK, Tidy
  <2> QED
    BY <2>5, <2>7, <2>8, <2>10 DEF Onward, Seen
<1> QED
  BY <1>3, <1>4

\* In the loop over the positions: the next one, or what is left of all.
LEMMA NextPositionOnward ==
  ASSUME NEW c, Tidy(c, 1), ~c.rest
  PROVE  Onward(c, NextPosition(c), 1)
<1>1. c \in Locals /\ c.i \in 1..c.size
  BY DEF Tidy
<1>2. CASE c.i = c.size
  BY <1>2, SendRestOnward DEF NextPosition
<1>3. CASE c.i # c.size
  <2>1. PICK d : d = [c EXCEPT !.pc = "pos", !.i = c.i + 1]
    OBVIOUS
  <2>2. NextPosition(c) = d
    BY <1>3, <2>1 DEF NextPosition
  <2>3. c.size \in 0..MaxScan /\ c.i + 1 \in 1..c.size
    BY <1>1, <1>3, ConstantFacts DEF Locals
  <2>4. c.i + 1 \in 0..MaxScan
    BY <2>3, ConstantFacts
  <2>5. /\ d \in Locals /\ d.pc = "pos" /\ d.i = c.i + 1 /\ d.size = c.size /\ d.complete = c.complete
        /\ d.rest = c.rest /\ d.pos = c.pos
    BY <1>1, <2>1, <2>4 DEF Locals
  <2>6. \A m \in Nodes : \A p : Keeps(d, m, p) => m >= 1 /\ Within(p, c.pos[m])
    BY <2>5, ConstantFacts DEF Keeps, Nodes
  <2>7. \A k, m \in Nodes : \A p : Keeps(d, k, p) /\ Keeps(d, m, p) => k = m
    BY <2>6 DEF Tidy
  <2>8. ScanOK(d)
    BY <1>1, <2>3, <2>5, <2>7 DEF ScanOK, Tidy
  <2>9. Seen(d) = c.i
    BY <1>1, <2>5, ConstantFacts DEF Seen
  <2> QED
    BY <2>2, <2>5, <2>6, <2>8, <2>9 DEF Onward
<1> QED
  BY <1>2, <1>3

-----------------------------------------------------------------------------
(* Steps that leave the tasks where they are.                              *)

\* Every worker has the tasks it had.
Unmoved == \A w \in Workers : /\ Live(w)' = Live(w)
                              /\ \A k \in Live(w) : TaskAt(w, k)' = TaskAt(w, k)

\* Then every position is with the task it was with.
LEMMA HasUnmoved ==
  ASSUME Unmoved
  PROVE  /\ \A s, p, w, k : Has(s, p, w, k)' <=> Has(s, p, w, k)
         /\ \A s, p : Claimed(s, p)' <=> Claimed(s, p)
<1>1. \A s, p, w, k : Has(s, p, w, k)' <=> Has(s, p, w, k)
  BY DEF Unmoved, Has
<1> QED
  BY <1>1 DEF Claimed

\* The queues and the running tasks are as they were, and so are the tasks.
LEMMA UnmovedFact ==
  ASSUME UNCHANGED tasks,
         \A w \in Workers : (wpc'[w] = "task") <=> (wpc[w] = "task"),
         \A w \in Workers : wpc[w] = "task" => cur'[w] = cur[w]
  PROVE  Unmoved
<1> SUFFICES ASSUME NEW w \in Workers
             PROVE  /\ Live(w)' = Live(w)
                    /\ \A k \in Live(w) : TaskAt(w, k)' = TaskAt(w, k)
  BY DEF Unmoved
<1>1. Live(w)' = Live(w)
  BY DEF Live
<1>2. ASSUME NEW k \in Live(w)
      PROVE  TaskAt(w, k)' = TaskAt(w, k)
  BY <1>2 DEF TaskAt, Live
<1> QED
  BY <1>1, <1>2

\* A step of a worker or of a destructor that moves no task.
LEMMA PoolStep ==
  ASSUME Inv, TypeInv', Unmoved, UNCHANGED <<sc, filled>>
  PROVE  Inv'
<1>1. ScansInv'
  BY DEF Inv, ScansInv
<1>2. TasksInv'
  BY DEF Inv, TasksInv, Unmoved
<1>3. ApartInv'
  BY HasUnmoved DEF Inv, ApartInv
<1>4. KeptInv' /\ FilledInv'
  BY HasUnmoved DEF Inv, KeptInv, FilledInv
<1>5. \A s : Counted(s)' = Counted(s)
  BY HasUnmoved DEF Counted
<1>6. CountInv'
  BY <1>5 DEF Inv, CountInv
<1> QED
  BY <1>1, <1>2, <1>3, <1>4, <1>6 DEF Inv

\* What the scanner at c may become: it counts nothing, and keeps no position that
\* it did not keep, but the one it has just seen.
Advances(c, d) ==
  /\ d \in Locals /\ ScanOK(d) /\ d.complete = c.complete
  /\ Seen(c) \in Nat /\ Seen(d) \in Nat /\ Seen(c) <= Seen(d)
  /\ \A n \in Nodes : \A p \in Positions :
       Keeps(d, n, p) => Keeps(c, n, p) \/ (p = Seen(d) /\ Seen(c) < Seen(d))

\* No task has a position that the scanner has not seen.
LEMMA ClaimedSeen ==
  ASSUME Inv, NEW s \in Scanners, NEW p \in Positions, Claimed(s, p)
  PROVE  p <= Seen(sc[s])
<1>1. PICK w \in Workers : \E k \in Nat : Has(s, p, w, k)
  BY DEF Claimed
<1>2. PICK k \in Live(w) : TaskAt(w, k).scan = s /\ Within(p, TaskAt(w, k).pos)
  BY <1>1 DEF Has
<1>3. PICK j \in 1..Len(TaskAt(w, k).pos) : TaskAt(w, k).pos[j] = p
  BY <1>2 DEF Within
<1>4. TaskOK(TaskAt(w, k), Seen(sc[s]), filled[s])
  BY <1>2 DEF Inv, TasksInv
<1> QED
  BY <1>3, <1>4 DEF TaskOK

\* A task stays right when its scan has seen more.
LEMMA TaskOKGrows ==
  ASSUME NEW t \in Task, NEW F, NEW m \in Nat, NEW n \in Nat, m <= n, TaskOK(t, m, F)
  PROVE  TaskOK(t, n, F)
<1>1. \A j \in 1..Len(t.pos) : t.pos[j] \in Nat
  <2>1. t.pos \in Seq(Positions)
    BY DEF Task
  <2>2. \A j \in 1..Len(t.pos) : t.pos[j] \in Positions
    BY <2>1
  <2> QED
    BY <2>2 DEF Positions
<1>2. \A j \in 1..Len(t.pos) : t.pos[j] <= n
  BY <1>1 DEF TaskOK
<1> QED
  BY <1>2 DEF TaskOK

\* The tasks are tasks.
LEMMA LiveTask ==
  ASSUME TypeInv, NEW w \in Workers, NEW k \in Live(w)
  PROVE  k \in Nat /\ TaskAt(w, k) \in Task
<1>1. CASE k = 0
  BY <1>1 DEF Live, TaskAt, TypeInv
<1>2. CASE k # 0
  <2>1. tasks[w] \in Seq(Task) /\ k \in 1..Len(tasks[w])
    BY <1>2 DEF TypeInv, Live
  <2> QED
    BY <1>2, <2>1 DEF TaskAt
<1> QED
  BY <1>1, <1>2

\* A step of a scanner that moves no task.
LEMMA OwnStep ==
  ASSUME Inv, TypeInv', Unmoved, UNCHANGED filled, NEW s \in Scanners, NEW d,
         sc' = [sc EXCEPT ![s] = d], Advances(sc[s], d)
  PROVE  Inv'
<1>1. sc'[s] = d /\ \A z \in Scanners : z # s => sc'[z] = sc[z]
  BY DEF Inv, TypeInv
<1>2. ScansInv'
  BY <1>1 DEF Inv, ScansInv, Advances
<1>3. \A z \in Scanners : Seen(sc'[z]) = Seen(sc[z]) \/ (Seen(sc[z]) \in Nat /\ Seen(sc'[z]) \in Nat /\ Seen(sc[z]) <= Seen(sc'[z]))
  BY <1>1 DEF Advances
<1>4. TasksInv'
  <2> SUFFICES ASSUME NEW w \in Workers, NEW k \in Live(w)
               PROVE  TaskOK(TaskAt(w, k), Seen(sc'[TaskAt(w, k).scan]), filled[TaskAt(w, k).scan])
    BY DEF TasksInv, Unmoved
  <2>1. PICK t : t = TaskAt(w, k)
    OBVIOUS
  <2>2. t \in Task /\ t.scan \in Scanners
    BY <2>1, LiveTask DEF Task, Inv
  <2>3. TaskOK(t, Seen(sc[t.scan]), filled[t.scan])
    BY <2>1 DEF Inv, TasksInv
  <2> QED
    BY <1>3, <2>1, <2>2, <2>3, TaskOKGrows
<1>5. ApartInv'
  BY HasUnmoved DEF Inv, ApartInv
<1>6. FilledInv'
  <2> SUFFICES ASSUME NEW z \in Scanners, NEW p \in Positions, filled[z][p] # 0
               PROVE  p <= Seen(sc'[z])
    BY DEF FilledInv
  <2>1. p <= Seen(sc[z]) /\ p \in Nat
    BY DEF Inv, FilledInv, Positions
  <2> QED
    BY <1>3, <2>1
<1>7. KeptInv'
  <2> SUFFICES ASSUME NEW z \in Scanners, NEW n \in Nodes, NEW p \in Positions, Keeps(sc'[z], n, p)
               PROVE  p <= Seen(sc'[z]) /\ filled[z][p] = 0 /\ ~Claimed(z, p)
    BY HasUnmoved DEF KeptInv
  <2>1. CASE Keeps(sc[z], n, p)
    <3>1. p <= Seen(sc[z]) /\ filled[z][p] = 0 /\ ~Claimed(z, p) /\ p \in Nat
      BY <2>1 DEF Inv, KeptInv, Positions
    <3> QED
      BY <1>3, <3>1
  <2>2. CASE ~Keeps(sc[z], n, p)
    <3>1. z = s /\ p = Seen(d) /\ Seen(sc[s]) < Seen(d) /\ Seen(sc[s]) \in Nat /\ p \in Nat
      BY <1>1, <2>2 DEF Advances
    <3>2. ~(p <= Seen(sc[s]))
      BY <3>1
    <3>3. ~Claimed(s, p)
      BY <3>2, ClaimedSeen
    <3>4. filled[s][p] = 0
      BY <3>2 DEF Inv, FilledInv
    <3> QED
      BY <1>1, <3>1, <3>3, <3>4
  <2> QED
    BY <2>1, <2>2
<1>8. CountInv'
  <2>1. \A z : Counted(z)' = Counted(z)
    BY HasUnmoved DEF Counted
  <2>2. \A z \in Scanners : sc'[z].complete = sc[z].complete
    BY <1>1 DEF Advances
  <2> QED
    BY <2>1, <2>2 DEF Inv, CountInv
<1> QED
  BY <1>2, <1>4, <1>5, <1>6, <1>7, <1>8 DEF Inv

-----------------------------------------------------------------------------
(* The steps of a scanner, but for execute.                                *)

\* What the invariant says of one scanner.
LEMMA ScanFacts ==
  ASSUME Inv, NEW s \in Scanners
  PROVE  sc[s] \in Locals /\ ScanOK(sc[s]) /\ DOMAIN sc = Scanners
BY DEF Inv, TypeInv, ScansInv

\* A scanner's step leaves the types as they are.
LEMMA OwnTypes ==
  ASSUME Inv, NEW s \in Scanners, NEW d \in Locals, sc' = [sc EXCEPT ![s] = d],
         UNCHANGED <<tasks, cur, busy, stop, down, filled>>,
         wpc' \in [Workers -> {"top", "wait", "woken", "task", "done"}],
         \A w \in Workers : (wpc'[w] = "task") <=> (wpc[w] = "task")
  PROVE  TypeInv'
<1>1. sc' \in [Scanners -> Locals]
  BY DEF Inv, TypeInv
<1> QED
  BY <1>1 DEF Inv, TypeInv

\* The index has found the keys of the scan.
LEMMA StartInv ==
  ASSUME Inv, NEW s \in Scanners, Start(s)
  PROVE  Inv'
<1>1. PICK size \in Sizes[s] : sc' = [sc EXCEPT ![s].size = size, ![s].i = 1,
                                          ![s].pc = IF size = 0 THEN "done" ELSE "pos"]
  BY DEF Start
<1>2. PICK c : c = sc[s]
  OBVIOUS
<1>3. c \in Locals /\ ScanOK(c) /\ c.pc = "start"
  BY <1>2, ScanFacts DEF Start
<1>4. PICK d : d = [c EXCEPT !.size = size, !.i = 1, !.pc = IF size = 0 THEN "done" ELSE "pos"]
  OBVIOUS
<1>5. sc' = [sc EXCEPT ![s] = d]
  BY <1>1, <1>2, <1>4, ScanFacts
<1>6. size \in 0..MaxScan /\ 1 \in 0..MaxScan
  BY ConstantFacts
<1>7. /\ d \in Locals /\ d.size = size /\ d.i = 1 /\ d.complete = c.complete /\ d.rest = c.rest /\ d.pos = c.pos
      /\ d.pc = IF size = 0 THEN "done" ELSE "pos"
  BY <1>3, <1>4, <1>6 DEF Locals
<1>8. \A n \in Nodes : Len(d.pos[n]) = 0 /\ c.size = 0 /\ ~c.rest
  BY <1>3, <1>7 DEF ScanOK
<1>9. c.complete = 0
  <2>1. c.complete = Cardinality(Counted(s))
    BY <1>2 DEF Inv, CountInv
  <2>2. Counted(s) = {}
    <3> SUFFICES ASSUME NEW p \in Positions, filled[s][p] = 1
                 PROVE  FALSE
      BY DEF Counted
    <3>1. p <= 0
      BY <1>2, <1>3 DEF Inv, FilledInv, Seen
    <3> QED
      BY <3>1 DEF Positions
  <2> QED
    BY <2>1, <2>2, FS_EmptySet
<1>10. \A n \in Nodes : \A p : ~Keeps(d, n, p)
  BY <1>8 DEF Keeps, Within
<1>11. ScanOK(d)
  <2>1. CASE size = 0
    BY <1>7, <1>9, <1>10, <2>1 DEF ScanOK
  <2>2. CASE size # 0
    <3>1. d.pc = "pos" /\ d.i \in 1..d.size /\ d.rest = FALSE
      BY <1>3, <1>6, <1>7, <2>2 DEF ScanOK, Locals
    <3>2. \A n \in Nodes : Distinct(d.pos[n])
      BY <1>8 DEF Distinct
    <3> QED
      BY <1>10, <3>1, <3>2 DEF ScanOK
  <2> QED
    BY <2>1, <2>2
<1>12. Advances(c, d)
  BY <1>3, <1>6, <1>7, <1>10, <1>11 DEF Advances, Seen
<1>13. UNCHANGED <<tasks, wpc, cur, busy, stop, down, filled>>
  BY DEF Start, poolVars
<1>14. Unmoved
  BY <1>13, UnmovedFact
<1>15. TypeInv'
  BY <1>5, <1>7, <1>13, OwnTypes DEF Inv, TypeInv
<1> QED
  BY <1>2, <1>5, <1>12, <1>13, <1>14, <1>15, OwnStep

\* The scanner after push_back, in its loop over the positions.
Pushed(c, n) == [c EXCEPT !.pos[n] = Append(c.pos[n], c.i)]

\* A position that is appended: one more at node n, and the others where they were.
LEMMA AppendFacts ==
  ASSUME NEW c \in Locals, ScanOK(c), c.pc = "pos", NEW n \in Nodes, NEW d,
         d = Pushed(c, n),
         \A m \in Nodes : \A p : Keeps(c, m, p) => p <= c.i - 1 /\ p \in Nat
  PROVE  /\ Tidy(d, 1) /\ d.i = c.i /\ d.rest = c.rest /\ d.complete = c.complete /\ ~c.rest
         /\ d.pos[n] # <<>> /\ d.size = c.size /\ d.n = c.n /\ d.tid = c.tid
         /\ \A m \in Nodes : \A p : Within(p, d.pos[m]) => Keeps(c, m, p) \/ p = c.i
<1>1. c.i \in Positions /\ ~c.rest /\ c.i \in 1..c.size
  BY ConstantFacts DEF ScanOK, Locals, Positions
<1>2. c.pos \in [Nodes -> Seq(Positions)]
  BY DEF Locals
<1>3. PICK B : B = Append(c.pos[n], c.i)
  OBVIOUS
<1>4. /\ B \in Seq(Positions) /\ B # <<>> /\ Len(B) = Len(c.pos[n]) + 1
      /\ Len(c.pos[n]) \in Nat
      /\ \A j \in 1..Len(B) : B[j] = IF j <= Len(c.pos[n]) THEN c.pos[n][j] ELSE c.i
  <2>1. PICK A \in Seq(Positions) : A = c.pos[n]
    BY <1>2
  <2>2. PICK x \in Positions : x = c.i
    BY <1>1
  <2>3. B = Append(A, x)
    BY <1>3, <2>1, <2>2
  <2>4. /\ B \in Seq(Positions) /\ Len(B) = Len(A) + 1 /\ Len(A) \in Nat
        /\ \A j \in 1..Len(A) : B[j] = A[j]
        /\ B[Len(A) + 1] = x
    BY <2>3
  <2>5. \A j \in 1..Len(B) : B[j] = IF j <= Len(A) THEN A[j] ELSE x
    BY <2>4
  <2>6. B # <<>>
    BY <2>4
  <2> QED
    BY <2>1, <2>2, <2>4, <2>5, <2>6, Zenon
<1>5. /\ d \in Locals /\ d.i = c.i /\ d.rest = c.rest /\ d.complete = c.complete /\ d.size = c.size
      /\ d.n = c.n /\ d.tid = c.tid /\ d.pos = [c.pos EXCEPT ![n] = B]
  BY <1>2, <1>3, <1>4 DEF Locals, Pushed
<1>6. d.pos[n] = B /\ \A m \in Nodes : m # n => d.pos[m] = c.pos[m]
  BY <1>2, <1>5
<1>7. \A m \in Nodes : \A p : Keeps(c, m, p) <=> Within(p, c.pos[m])
  BY <1>1 DEF Keeps
<1>8. \A p : Within(p, B) => Within(p, c.pos[n]) \/ p = c.i
  BY <1>4 DEF Within
<1>9. \A m \in Nodes : \A p : Within(p, d.pos[m]) => Within(p, c.pos[m]) \/ (p = c.i /\ m = n)
  BY <1>6, <1>8
<1>10. \A m \in Nodes : ~Within(c.i, c.pos[m])
  <2> SUFFICES ASSUME NEW m \in Nodes, Within(c.i, c.pos[m])
               PROVE  FALSE
    OBVIOUS
  <2>1. c.i <= c.i - 1 /\ c.i \in Nat
    BY <1>7
  <2> QED
    BY <2>1
<1>11. \A k, m \in Nodes : \A p : Within(p, d.pos[k]) /\ Within(p, d.pos[m]) => k = m
  <2>1. \A k, m \in Nodes : \A p : Within(p, c.pos[k]) /\ Within(p, c.pos[m]) => k = m
    BY <1>7 DEF ScanOK
  <2> SUFFICES ASSUME NEW k \in Nodes, NEW m \in Nodes, NEW p, Within(p, d.pos[k]), Within(p, d.pos[m])
               PROVE  k = m
    OBVIOUS
  <2>2. /\ Within(p, c.pos[k]) \/ (p = c.i /\ k = n)
        /\ Within(p, c.pos[m]) \/ (p = c.i /\ m = n)
    BY <1>9
  <2>3. ~Within(c.i, c.pos[k]) /\ ~Within(c.i, c.pos[m])
    BY <1>10
  <2> QED
    BY <2>1, <2>2, <2>3, Zenon
<1>12. \A m \in Nodes : Distinct(c.pos[m])
  BY DEF ScanOK
<1>13. Distinct(B)
  <2>1. \A j \in 1..Len(c.pos[n]) : c.pos[n][j] # c.i
    BY <1>10 DEF Within
  <2> QED
    BY <1>4, <1>12, <2>1 DEF Distinct
<1>14. \A m \in Nodes : Distinct(d.pos[m])
  BY <1>6, <1>12, <1>13
<1>15. Tidy(d, 1)
  BY <1>1, <1>5, <1>11, <1>14 DEF Tidy
<1> QED
  BY <1>1, <1>4, <1>5, <1>6, <1>7, <1>9, <1>15

\* numa_pos_arr[numa_id].push_back(i).
LEMMA PositionInv ==
  ASSUME Inv, NEW s \in Scanners, Position(s)
  PROVE  Inv'
<1>1. PICK c : c = sc[s]
  OBVIOUS
<1>2. c \in Locals /\ ScanOK(c) /\ c.pc = "pos"
  BY <1>1, ScanFacts DEF Position
<1>3. PICK n \in LogsOn[s] : LET e == [sc[s] EXCEPT !.pos[n] = Append(@, sc[s].i)]
        IN sc' = [sc EXCEPT ![s] = IF FullBatch(e.pos[n]) THEN [e EXCEPT !.pc = "pick", !.n = n]
                                   ELSE NextPosition(e)]
  BY DEF Position
<1>4. n \in Nodes
  BY ConstantFacts
<1>5. PICK e : e = Pushed(c, n)
  OBVIOUS
<1>6. PICK d : d = IF FullBatch(e.pos[n]) THEN [e EXCEPT !.pc = "pick", !.n = n] ELSE NextPosition(e)
  OBVIOUS
<1>7. sc' = [sc EXCEPT ![s] = d]
  BY <1>1, <1>3, <1>5, <1>6 DEF Pushed
<1>8. Seen(c) = c.i - 1 /\ c.i \in 1..c.size /\ c.size \in 0..MaxScan
  BY <1>2 DEF Seen, ScanOK, Locals
<1>9. \A m \in Nodes : \A p : Keeps(c, m, p) => p <= c.i - 1 /\ p \in Nat
  <2> SUFFICES ASSUME NEW m \in Nodes, NEW p, Keeps(c, m, p)
               PROVE  p <= c.i - 1 /\ p \in Nat
    OBVIOUS
  <2>1. c.pos[m] \in Seq(Positions)
    BY <1>2 DEF Locals
  <2>2. p \in Positions
    BY <2>1 DEF Keeps, Within
  <2> QED
    BY <1>1, <1>8, <2>2 DEF Inv, KeptInv, Positions
<1>10. /\ Tidy(e, 1) /\ e.i = c.i /\ e.rest = c.rest /\ e.complete = c.complete /\ ~c.rest
       /\ e.pos[n] # <<>> /\ e.size = c.size
       /\ \A m \in Nodes : \A p : Within(p, e.pos[m]) => Keeps(c, m, p) \/ p = c.i
  BY <1>2, <1>4, <1>5, <1>9, AppendFacts
<1>11. Onward(e, d, 1)
  <2>1. CASE FullBatch(e.pos[n])
    <3>1. d = [e EXCEPT !.pc = "pick", !.n = n] /\ e \in Locals /\ n \in 0..NumNodes
      BY <1>4, <1>6, <1>10, <2>1, ConstantFacts DEF Tidy, Nodes
    <3>2. /\ d \in Locals /\ d.pc = "pick" /\ d.n = n /\ d.i = e.i /\ d.rest = e.rest /\ d.pos = e.pos
          /\ d.size = e.size /\ d.complete = e.complete
      BY <3>1 DEF Locals
    <3>3. \A m \in Nodes : \A p : Keeps(d, m, p) => m >= 1 /\ Within(p, e.pos[m])
      BY <3>2, ConstantFacts DEF Keeps, Nodes
    <3>4. \A k, m \in Nodes : \A p : Keeps(d, k, p) /\ Keeps(d, m, p) => k = m
      BY <1>10, <3>3 DEF Tidy
    <3>5. ScanOK(d)
      BY <1>4, <1>10, <3>2, <3>4 DEF ScanOK, Tidy
    <3> QED
      BY <3>2, <3>3, <3>5 DEF Onward, Seen
  <2>2. CASE ~FullBatch(e.pos[n])
    BY <1>6, <1>10, <2>2, NextPositionOnward
  <2> QED
    BY <2>1, <2>2
<1>12. Advances(c, d)
  BY <1>8, <1>10, <1>11, ConstantFacts DEF Advances, Onward
<1>13. UNCHANGED <<tasks, wpc, cur, busy, stop, down, filled>>
  BY DEF Position, poolVars
<1>14. Unmoved
  BY <1>13, UnmovedFact
<1>15. TypeInv'
  BY <1>7, <1>11, <1>13, OwnTypes DEF Inv, TypeInv, Onward
<1> QED
  BY <1>1, <1>7, <1>12, <1>13, <1>14, <1>15, OwnStep

\* execute picks a worker.
LEMMA PickInv ==
  ASSUME Inv, NEW s \in Scanners, Pick(s)
  PROVE  Inv'
<1>1. PICK c : c = sc[s]
  OBVIOUS
<1>2. c \in Locals /\ ScanOK(c) /\ c.pc = "pick"
  BY <1>1, ScanFacts DEF Pick
<1>3. PICK i \in Choices(c.n) : sc' = [sc EXCEPT ![s].tid = i, ![s].pc = "enqueue"]
  BY <1>1 DEF Pick
<1>4. i \in Threads /\ i \in 0..PoolThreads
  BY ConstantFacts DEF Choices, Threads
<1>5. PICK d : d = [c EXCEPT !.tid = i, !.pc = "enqueue"]
  OBVIOUS
<1>6. sc' = [sc EXCEPT ![s] = d]
  BY <1>1, <1>3, <1>5, ScanFacts
<1>7. /\ d \in Locals /\ d.pc = "enqueue" /\ d.tid = i /\ d.n = c.n /\ d.i = c.i /\ d.rest = c.rest
      /\ d.pos = c.pos /\ d.size = c.size /\ d.complete = c.complete
  BY <1>2, <1>4, <1>5 DEF Locals
<1>8. \A m, p : Keeps(d, m, p) <=> Keeps(c, m, p)
  BY <1>2, <1>7 DEF Keeps
<1>9. ScanOK(d)
  BY <1>2, <1>4, <1>7, <1>8 DEF ScanOK
<1>10. Seen(d) = c.i /\ Seen(c) = c.i /\ c.i \in Nat
  BY <1>2, <1>7 DEF Seen, Locals
<1>11. Advances(c, d)
  BY <1>7, <1>8, <1>9, <1>10 DEF Advances
<1>12. UNCHANGED <<tasks, wpc, cur, busy, stop, down, filled>>
  BY DEF Pick, poolVars
<1>13. Unmoved
  BY <1>12, UnmovedFact
<1>14. TypeInv'
  BY <1>6, <1>7, <1>12, OwnTypes DEF Inv, TypeInv
<1> QED
  BY <1>1, <1>6, <1>11, <1>12, <1>13, <1>14, OwnStep

\* The spin ends.
LEMMA ReturnInv ==
  ASSUME Inv, NEW s \in Scanners, Return(s)
  PROVE  Inv'
<1>1. PICK c : c = sc[s]
  OBVIOUS
<1>2. c \in Locals /\ ScanOK(c) /\ c.pc = "spin" /\ c.complete = c.size
  BY <1>1, ScanFacts DEF Return
<1>3. PICK d : d = [c EXCEPT !.pc = "done"]
  OBVIOUS
<1>4. sc' = [sc EXCEPT ![s] = d]
  BY <1>1, <1>3, ScanFacts DEF Return
<1>5. d \in Locals /\ d.pc = "done" /\ d.size = c.size /\ d.complete = c.complete
  BY <1>2, <1>3 DEF Locals
<1>6. \A m, p : ~Keeps(d, m, p)
  BY <1>5 DEF Keeps
<1>7. ScanOK(d)
  BY <1>2, <1>5, <1>6 DEF ScanOK
<1>8. Seen(d) = c.size /\ Seen(c) = c.i /\ c.i \in 1..c.size /\ c.size \in Nat
  BY <1>2, <1>5 DEF Seen, ScanOK, Locals
<1>9. Advances(c, d)
  BY <1>5, <1>6, <1>7, <1>8 DEF Advances
<1>10. UNCHANGED <<tasks, wpc, cur, busy, stop, down, filled>>
  BY DEF Return, poolVars
<1>11. Unmoved
  BY <1>10, UnmovedFact
<1>12. TypeInv'
  BY <1>4, <1>5, <1>10, OwnTypes DEF Inv, TypeInv
<1> QED
  BY <1>1, <1>4, <1>9, <1>10, <1>11, <1>12, OwnStep

\* notify_one wakes a worker that waits, which has no task.
LEMMA NotifyUnmoved ==
  ASSUME TypeInv, NEW w \in Workers, Notify(w), UNCHANGED <<tasks, cur>>
  PROVE  /\ Unmoved /\ wpc' \in [Workers -> {"top", "wait", "woken", "task", "done"}]
         /\ \A v \in Workers : (wpc'[v] = "task") <=> (wpc[v] = "task")
<1>1. /\ wpc' \in [Workers -> {"top", "wait", "woken", "task", "done"}]
      /\ \A v \in Workers : (wpc'[v] = "task") <=> (wpc[v] = "task")
  BY DEF TypeInv, Notify
<1> QED
  BY <1>1, UnmovedFact

\* What follows execute: the positions that were sent are no longer the scanner's.
LEMMA ExecuteNotifyInv ==
  ASSUME Inv, NEW s \in Scanners, ExecuteNotify(s)
  PROVE  Inv'
<1>1. PICK c : c = sc[s]
  OBVIOUS
<1>2. c \in Locals /\ ScanOK(c) /\ c.pc = "notify"
  BY <1>1, ScanFacts DEF ExecuteNotify
<1>3. /\ c.n \in Nodes /\ c.n \in Nat /\ c.tid \in Threads /\ <<c.n, c.tid>> \in Workers
      /\ c.i \in 1..c.size /\ \A n \in Nodes : Distinct(c.pos[n])
  BY <1>2 DEF ScanOK, Workers, Nodes
<1>4. PICK d : d = Sent(c)
  OBVIOUS
<1>5. sc' = [sc EXCEPT ![s] = d]
  BY <1>1, <1>4 DEF ExecuteNotify
<1>6. /\ d \in Locals /\ ScanOK(d) /\ Seen(d) = c.i /\ d.complete = c.complete
      /\ \A n \in Nodes : \A p : Keeps(d, n, p) => Keeps(c, n, p)
  <2>1. CASE c.rest
    <3>1. \A n \in Nodes : \A p : n >= c.n + 1 /\ Within(p, c.pos[n]) => Keeps(c, n, p)
      BY <1>2, <1>3 DEF Keeps, Nodes
    <3>2. Tidy(c, c.n + 1)
      BY <1>2, <1>3, <3>1 DEF Tidy, ScanOK
    <3>3. d = SendRest(c, c.n + 1) /\ c.n + 1 \in Nat
      BY <1>3, <1>4, <2>1 DEF Sent
    <3>4. Onward(c, d, c.n + 1)
      BY <3>2, <3>3, SendRestOnward
    <3> QED
      BY <3>1, <3>4 DEF Onward
  <2>2. CASE ~c.rest
    <3>1. PICK e : e = [c EXCEPT !.pos[c.n] = <<>>]
      OBVIOUS
    <3>2. d = NextPosition(e)
      BY <1>4, <2>2, <3>1 DEF Sent
    <3>3. c.pos \in [Nodes -> Seq(Positions)] /\ <<>> \in Seq(Positions)
      BY <1>2 DEF Locals
    <3>4. /\ e \in Locals /\ e.i = c.i /\ e.size = c.size /\ e.rest = c.rest /\ e.complete = c.complete
          /\ e.pos = [c.pos EXCEPT ![c.n] = <<>>]
      BY <1>2, <3>1, <3>3 DEF Locals
    <3>5. e.pos[c.n] = <<>> /\ \A n \in Nodes : n # c.n => e.pos[n] = c.pos[n]
      BY <1>3, <3>3, <3>4
    <3>6. \A n \in Nodes : \A p : Within(p, e.pos[n]) => Keeps(c, n, p)
      <4>1. \A p : ~Within(p, e.pos[c.n])
        BY <3>5 DEF Within
      <4> QED
        BY <1>2, <2>2, <3>5, <4>1 DEF Keeps
    <3>7. \A n \in Nodes : Distinct(e.pos[n])
      <4>1. Distinct(e.pos[c.n])
        BY <3>5 DEF Distinct
      <4> QED
        BY <1>3, <3>5, <4>1
    <3>8. Tidy(e, 1)
      BY <1>2, <1>3, <3>4, <3>6, <3>7 DEF Tidy, ScanOK
    <3>9. Onward(e, d, 1)
      BY <2>2, <3>2, <3>4, <3>8, NextPositionOnward
    <3> QED
      BY <3>4, <3>6, <3>9 DEF Onward
  <2> QED
    BY <2>1, <2>2
<1>7. Seen(c) = c.i /\ c.i \in Nat
  BY <1>2 DEF Seen, Locals
<1>8. Advances(c, d)
  BY <1>6, <1>7 DEF Advances
<1>9. UNCHANGED <<tasks, cur, busy, stop, down, filled>> /\ Notify(<<c.n, c.tid>>)
  BY <1>1 DEF ExecuteNotify, NotifyWorker
<1>10. /\ Unmoved /\ wpc' \in [Workers -> {"top", "wait", "woken", "task", "done"}]
       /\ \A v \in Workers : (wpc'[v] = "task") <=> (wpc[v] = "task")
  BY <1>3, <1>9, NotifyUnmoved DEF Inv
<1>11. TypeInv'
  BY <1>5, <1>6, <1>9, <1>10, OwnTypes
<1> QED
  BY <1>1, <1>5, <1>8, <1>9, <1>10, <1>11, OwnStep

-----------------------------------------------------------------------------
(* A worker takes the first task of its queue: the task changes its number. *)

\* Every position stays with the task it was with.
LEMMA TakeInv ==
  ASSUME Inv, NEW v \in Workers, wpc[v] # "task", tasks[v] # <<>>, Take(v),
         busy' \subseteq Workers, UNCHANGED <<stop, down, sc, filled>>
  PROVE  Inv'
<1> DEFINE N(w, k) == IF w = v THEN k + 1 ELSE k
<1>1. tasks \in [Workers -> Seq(Task)] /\ tasks[v] \in Seq(Task)
  BY DEF Inv, TypeInv
<1>2. PICK q : q = tasks[v]
  OBVIOUS
<1>3. /\ q \in Seq(Task) /\ Len(q) \in Nat \ {0} /\ Head(q) \in Task /\ Head(q) = q[1]
      /\ Tail(q) \in Seq(Task) /\ Len(Tail(q)) = Len(q) - 1
      /\ \A k \in 1..Len(Tail(q)) : Tail(q)[k] = q[k + 1]
  BY <1>1, <1>2
<1>4. /\ tasks' = [tasks EXCEPT ![v] = Tail(q)] /\ cur' = [cur EXCEPT ![v] = Head(q)]
      /\ wpc' = [wpc EXCEPT ![v] = "task"]
  BY <1>2 DEF Take
<1>5. /\ tasks'[v] = Tail(q) /\ cur'[v] = Head(q) /\ wpc'[v] = "task"
      /\ \A w \in Workers : w # v => tasks'[w] = tasks[w] /\ cur'[w] = cur[w] /\ wpc'[w] = wpc[w]
  BY <1>1, <1>4 DEF Inv, TypeInv
<1>6. TypeInv'
  <2>1. tasks' \in [Workers -> Seq(Task)]
    BY <1>1, <1>3, <1>4
  <2>2. wpc' \in [Workers -> {"top", "wait", "woken", "task", "done"}]
    BY <1>4 DEF Inv, TypeInv
  <2>3. cur' = [w \in Workers |-> cur'[w]]
    BY <1>4 DEF Inv, TypeInv
  <2>4. \A w \in Workers : wpc'[w] = "task" => cur'[w] \in Task
    BY <1>3, <1>5 DEF Inv, TypeInv
  <2> QED
    BY <2>1, <2>2, <2>3, <2>4 DEF Inv, TypeInv
<1>7. \A w \in Workers : \A k \in Nat :
        /\ k \in Live(w)' <=> N(w, k) \in Live(w)
        /\ k \in Live(w)' => TaskAt(w, k)' = TaskAt(w, N(w, k))
  <2> SUFFICES ASSUME NEW w \in Workers, NEW k \in Nat
               PROVE  /\ k \in Live(w)' <=> N(w, k) \in Live(w)
                      /\ k \in Live(w)' => TaskAt(w, k)' = TaskAt(w, N(w, k))
    OBVIOUS
  <2>1. CASE w # v
    BY <1>5, <2>1 DEF Live, TaskAt
  <2>2. CASE w = v
    <3>1. k \in Live(w)' <=> k \in 0..(Len(q) - 1)
      BY <1>3, <1>5, <2>2 DEF Live
    <3>2. k + 1 \in Live(w) <=> k + 1 \in 1..Len(q)
      BY <1>2, <1>3, <2>2 DEF Live
    <3>3. k + 1 # 0 /\ (k \in 0..(Len(q) - 1) <=> k + 1 \in 1..Len(q))
      BY <1>3
    <3>4. TaskAt(w, k + 1) = q[k + 1]
      BY <1>2, <2>2, <3>3 DEF TaskAt
    <3>5. k \in 0..(Len(q) - 1) => TaskAt(w, k)' = q[k + 1]
      BY <1>3, <1>5, <2>2 DEF TaskAt
    <3> QED
      BY <2>2, <3>1, <3>2, <3>3, <3>4, <3>5
  <2> QED
    BY <2>1, <2>2
<1>8. \A w \in Workers : \A k : (k \in Live(w)' => k \in Nat) /\ (k \in Live(w) => k \in Nat)
  BY <1>1, <1>3, <1>5 DEF Live
<1>9. \A s, p : \A w \in Workers : \A k \in Nat : Has(s, p, w, k)' <=> Has(s, p, w, N(w, k))
  BY <1>7 DEF Has
<1>10. \A s, p : Claimed(s, p)' <=> Claimed(s, p)
  <2>1. ASSUME NEW s, NEW p, Claimed(s, p)'
        PROVE  Claimed(s, p)
    <3>1. PICK w \in Workers : \E k \in Nat : Has(s, p, w, k)'
      BY <2>1 DEF Claimed
    <3>2. PICK k \in Nat : Has(s, p, w, k)'
      BY <3>1
    <3>3. Has(s, p, w, N(w, k)) /\ N(w, k) \in Nat
      BY <1>9, <3>2
    <3> QED
      BY <3>3 DEF Claimed
  <2>2. ASSUME NEW s, NEW p, Claimed(s, p)
        PROVE  Claimed(s, p)'
    <3>1. PICK w \in Workers : \E k \in Nat : Has(s, p, w, k)
      BY <2>2 DEF Claimed
    <3>2. PICK k \in Nat : Has(s, p, w, k)
      BY <3>1
    <3>3. w = v => k # 0
      BY <3>2 DEF Has, Live
    <3>4. PICK j \in Nat : N(w, j) = k
      <4>1. CASE w = v
        <5>1. k - 1 \in Nat /\ k - 1 + 1 = k
          BY <3>3, <4>1
        <5> QED
          BY <4>1, <5>1
      <4>2. CASE w # v
        BY <4>2
      <4> QED
        BY <4>1, <4>2
    <3>5. Has(s, p, w, j)'
      BY <1>9, <3>2, <3>4
    <3> QED
      BY <3>5 DEF Claimed
  <2> QED
    BY <2>1, <2>2
<1>11. ScansInv'
  BY DEF Inv, ScansInv
<1>12. TasksInv'
  <2> SUFFICES ASSUME NEW w \in Workers, NEW k, k \in Live(w)', NEW t, t = TaskAt(w, k)'
               PROVE  TaskOK(t, Seen(sc[t.scan]), filled[t.scan])
    BY DEF TasksInv
  <2>1. k \in Nat
    BY <1>8
  <2>2. N(w, k) \in Live(w) /\ t = TaskAt(w, N(w, k))
    BY <1>7, <2>1
  <2> QED
    BY <2>2 DEF Inv, TasksInv
<1>13. ApartInv'
  <2> SUFFICES ASSUME NEW s \in Scanners, NEW p, NEW u \in Workers, NEW w \in Workers, NEW j \in Nat, NEW k \in Nat,
                      Has(s, p, u, j)', Has(s, p, w, k)'
               PROVE  u = w /\ j = k
    BY DEF ApartInv
  <2>1. Has(s, p, u, N(u, j)) /\ Has(s, p, w, N(w, k)) /\ N(u, j) \in Nat /\ N(w, k) \in Nat
    BY <1>9
  <2>2. u = w /\ N(u, j) = N(w, k)
    BY <2>1 DEF Inv, ApartInv
  <2> QED
    BY <2>2
<1>14. KeptInv' /\ FilledInv'
  BY <1>10 DEF Inv, KeptInv, FilledInv
<1>15. CountInv'
  <2>1. \A s : Counted(s)' = Counted(s)
    BY <1>10 DEF Counted
  <2> QED
    BY <2>1 DEF Inv, CountInv
<1> QED
  BY <1>6, <1>11, <1>12, <1>13, <1>14, <1>15 DEF Inv

-----------------------------------------------------------------------------
(* execute: the positions of a node become a task at the end of a queue.   *)

\* The positions go from the scanner to the new task.
LEMMA ExecuteInv ==
  ASSUME Inv, NEW s \in Scanners, Execute(s)
  PROVE  Inv'
<1>1. PICK c : c = sc[s]
  OBVIOUS
<1>2. c \in Locals /\ ScanOK(c) /\ c.pc = "enqueue"
  BY <1>1, ScanFacts DEF Execute
<1>3. PICK v : v = <<c.n, c.tid>>
  OBVIOUS
<1>4. /\ c.n \in Nodes /\ v \in Workers /\ c.pos[c.n] # <<>> /\ Distinct(c.pos[c.n])
      /\ c.pos[c.n] \in Seq(Positions) /\ c.i \in 1..c.size
  BY <1>2, <1>3 DEF ScanOK, Workers, Locals
<1>5. PICK t : t = [scan |-> s, pos |-> c.pos[c.n], left |-> c.pos[c.n]]
  OBVIOUS
<1>6. t \in Task /\ t.scan = s /\ t.pos = c.pos[c.n] /\ t.left = c.pos[c.n]
  BY <1>4, <1>5 DEF Task
<1>7. PICK d : d = [c EXCEPT !.pc = "notify"]
  OBVIOUS
<1>8. PICK q : q = tasks[v]
  OBVIOUS
<1>9. /\ tasks' = [tasks EXCEPT ![v] = Append(q, t)] /\ sc' = [sc EXCEPT ![s] = d]
      /\ UNCHANGED <<wpc, cur, busy, stop, down, filled>>
  BY <1>1, <1>3, <1>5, <1>7, <1>8, ScanFacts DEF Execute, Enqueue
<1>10. /\ q \in Seq(Task) /\ Append(q, t) \in Seq(Task) /\ Len(q) \in Nat /\ Len(Append(q, t)) = Len(q) + 1
       /\ \A k \in 1..Len(q) : Append(q, t)[k] = q[k]
       /\ Append(q, t)[Len(q) + 1] = t
  <2>1. q \in Seq(Task)
    BY <1>4, <1>8 DEF Inv, TypeInv
  <2> QED
    BY <1>6, <2>1
<1>11. tasks'[v] = Append(q, t) /\ \A w \in Workers : w # v => tasks'[w] = tasks[w]
  BY <1>4, <1>9 DEF Inv, TypeInv
<1>12. /\ d \in Locals /\ d.pc = "notify" /\ d.n = c.n /\ d.tid = c.tid /\ d.i = c.i /\ d.rest = c.rest
       /\ d.pos = c.pos /\ d.size = c.size /\ d.complete = c.complete
  BY <1>2, <1>7 DEF Locals
<1>13. sc'[s] = d /\ \A z \in Scanners : z # s => sc'[z] = sc[z]
  BY <1>9 DEF Inv, TypeInv
<1>14. \A n, p : Keeps(d, n, p) <=> Keeps(c, n, p) /\ n # c.n
  BY <1>2, <1>12 DEF Keeps
<1>15. \A p : Within(p, t.pos) => Keeps(c, c.n, p) /\ p \in Positions
  <2>1. \A p : Within(p, t.pos) => p \in Positions
    BY <1>4, <1>6 DEF Within
  <2> QED
    BY <1>2, <1>4, <1>6, <2>1, ConstantFacts DEF Keeps, Nodes
<1>16. \A p : Within(p, t.pos) => p <= Seen(c) /\ filled[s][p] = 0 /\ ~Claimed(s, p)
  BY <1>1, <1>4, <1>15 DEF Inv, KeptInv
<1>17. TypeInv'
  <2>1. tasks' \in [Workers -> Seq(Task)]
    BY <1>9, <1>10 DEF Inv, TypeInv
  <2>2. sc' \in [Scanners -> Locals]
    BY <1>9, <1>12 DEF Inv, TypeInv
  <2> QED
    BY <1>9, <2>1, <2>2 DEF Inv, TypeInv
<1>18. ScanOK(d)
  BY <1>2, <1>12, <1>14 DEF ScanOK
<1>19. Seen(d) = Seen(c) /\ \A z \in Scanners : Seen(sc'[z]) = Seen(sc[z])
  BY <1>1, <1>2, <1>12, <1>13 DEF Seen
<1>20. \A w \in Workers : \A k :
         /\ k \in Live(w)' <=> k \in Live(w) \/ (w = v /\ k = Len(q) + 1)
         /\ k \in Live(w) => TaskAt(w, k)' = TaskAt(w, k)
  <2> SUFFICES ASSUME NEW w \in Workers, NEW k
               PROVE  /\ k \in Live(w)' <=> k \in Live(w) \/ (w = v /\ k = Len(q) + 1)
                      /\ k \in Live(w) => TaskAt(w, k)' = TaskAt(w, k)
    OBVIOUS
  <2>1. CASE w # v
    BY <1>9, <1>11, <2>1 DEF Live, TaskAt
  <2>2. CASE w = v
    <3>1. k \in Live(w)' <=> k \in 0..(Len(q) + 1) /\ (k = 0 => wpc[w] = "task")
      BY <1>9, <1>10, <1>11, <2>2 DEF Live
    <3>2. k \in Live(w) <=> k \in 0..Len(q) /\ (k = 0 => wpc[w] = "task")
      BY <1>8, <2>2 DEF Live
    <3>3. k \in 0..(Len(q) + 1) <=> k \in 0..Len(q) \/ k = Len(q) + 1
      BY <1>10
    <3>4. k \in 0..Len(q) => k = 0 \/ k \in 1..Len(q)
      BY <1>10
    <3>5. k \in Live(w) => TaskAt(w, k)' = TaskAt(w, k)
      BY <1>8, <1>9, <1>10, <1>11, <2>2, <3>2, <3>4 DEF TaskAt
    <3>6. Len(q) + 1 # 0
      BY <1>10
    <3> QED
      BY <2>2, <3>1, <3>2, <3>3, <3>5, <3>6
  <2> QED
    BY <2>1, <2>2
<1>21. TaskAt(v, Len(q) + 1)' = t /\ Len(q) + 1 \in Nat
  BY <1>10, <1>11 DEF TaskAt
<1>22. \A z, p : \A w \in Workers : \A k :
         Has(z, p, w, k)' <=> Has(z, p, w, k) \/ (z = s /\ Within(p, t.pos) /\ w = v /\ k = Len(q) + 1)
  <2>1. Len(q) + 1 \notin Live(v)
    BY <1>8, <1>10 DEF Live
  <2> QED
    BY <1>6, <1>20, <1>21, <2>1 DEF Has
<1>23. \A z, p : Claimed(z, p)' <=> Claimed(z, p) \/ (z = s /\ Within(p, t.pos))
  BY <1>4, <1>21, <1>22 DEF Claimed
<1>24. ScansInv'
  BY <1>13, <1>18 DEF Inv, ScansInv
<1>25. TasksInv'
  <2> SUFFICES ASSUME NEW w \in Workers, NEW k, k \in Live(w)', NEW u, u = TaskAt(w, k)'
               PROVE  TaskOK(u, Seen(sc'[u.scan]), filled[u.scan])
    BY <1>9 DEF TasksInv
  <2>1. CASE k \in Live(w)
    <3>1. u = TaskAt(w, k)
      BY <1>20, <2>1
    <3>2. u.scan \in Scanners
      BY <2>1, <3>1, LiveTask DEF Inv, Task
    <3>3. TaskOK(u, Seen(sc[u.scan]), filled[u.scan])
      BY <2>1, <3>1 DEF Inv, TasksInv
    <3> QED
      BY <1>19, <3>2, <3>3
  <2>2. CASE k \notin Live(w)
    <3>1. u = t
      BY <1>20, <1>21, <2>2
    <3>2. \A j \in 1..Len(t.pos) : t.pos[j] <= Seen(c) /\ filled[s][t.pos[j]] = 0
      BY <1>16 DEF Within
    <3>3. t.left = t.pos /\ t.pos # <<>> /\ Distinct(t.pos) /\ Len(t.pos) \in Nat
      BY <1>4, <1>6
    <3>4. TaskOK(t, Seen(c), filled[s])
      BY <3>2, <3>3 DEF TaskOK
    <3> QED
      BY <1>6, <1>13, <1>19, <3>1, <3>4
  <2> QED
    BY <2>1, <2>2
<1>26. ApartInv'
  <2> SUFFICES ASSUME NEW z \in Scanners, NEW p, NEW u \in Workers, NEW w \in Workers, NEW j \in Nat, NEW k \in Nat,
                      Has(z, p, u, j)', Has(z, p, w, k)'
               PROVE  u = w /\ j = k
    BY DEF ApartInv
  <2>1. CASE Has(z, p, u, j) /\ Has(z, p, w, k)
    BY <2>1 DEF Inv, ApartInv
  <2>2. CASE ~(Has(z, p, u, j) /\ Has(z, p, w, k))
    <3>1. z = s /\ ~Claimed(s, p)
      BY <1>16, <1>22, <2>2
    <3>2. ~Has(z, p, u, j) /\ ~Has(z, p, w, k)
      BY <3>1 DEF Claimed
    <3> QED
      BY <1>22, <3>2
  <2> QED
    BY <2>1, <2>2
<1>27. KeptInv'
  <2> SUFFICES ASSUME NEW z \in Scanners, NEW n \in Nodes, NEW p \in Positions, Keeps(sc'[z], n, p)
               PROVE  p <= Seen(sc'[z]) /\ filled[z][p] = 0 /\ ~Claimed(z, p)'
    BY <1>9 DEF KeptInv
  <2>1. Keeps(sc[z], n, p) /\ (z = s => n # c.n)
    BY <1>1, <1>13, <1>14
  <2>2. p <= Seen(sc[z]) /\ filled[z][p] = 0 /\ ~Claimed(z, p)
    BY <2>1 DEF Inv, KeptInv
  <2>3. ~(z = s /\ Within(p, t.pos))
    BY <1>1, <1>2, <1>4, <1>15, <2>1 DEF ScanOK
  <2> QED
    BY <1>19, <1>23, <2>2, <2>3
<1>28. FilledInv'
  BY <1>9, <1>19 DEF Inv, FilledInv
<1>29. CountInv'
  <2>1. \A z : Counted(z)' = Counted(z)
    BY <1>9, <1>16, <1>23 DEF Counted
  <2>2. \A z \in Scanners : sc'[z].complete = sc[z].complete
    BY <1>1, <1>12, <1>13
  <2> QED
    BY <2>1, <2>2 DEF Inv, CountInv
<1> QED
  BY <1>17, <1>24, <1>25, <1>26, <1>27, <1>28, <1>29 DEF Inv

-----------------------------------------------------------------------------
(* scan_help fills a position of its task.                                 *)

\* The task u after scan_help has filled the first position left of t: every other
\* position is as it was.
LEMMA TaskFilled ==
  ASSUME NEW t \in Task, NEW u \in Task, NEW m, NEW F, NEW G, TaskOK(t, m, F), t.left # <<>>,
         u.pos = t.pos, u.left = Tail(t.left),
         G[Head(t.left)] = 1, \A p \in Positions : p # Head(t.left) => G[p] = F[p]
  PROVE  TaskOK(u, m, G) /\ F[Head(t.left)] = 0 /\ Within(Head(t.left), t.pos)
<1>1. PICK A \in Seq(Positions) : A = t.pos
  BY DEF Task
<1>2. PICK L \in Seq(Positions) : L = t.left /\ L # <<>>
  BY DEF Task
<1>3. /\ Len(A) \in Nat /\ Len(L) \in Nat \ {0} /\ Head(L) = L[1] /\ Len(Tail(L)) = Len(L) - 1
      /\ \A j \in 1..Len(Tail(L)) : Tail(L)[j] = L[j + 1]
      /\ \A j \in 1..Len(A) : A[j] \in Positions
  BY <1>1, <1>2
<1>4. PICK d \in Nat : d = Len(A) - Len(L)
  <2>1. Len(t.pos) - Len(t.left) >= 0
    BY DEF TaskOK
  <2>2. Len(A) - Len(L) >= 0
    BY <1>1, <1>2, <2>1
  <2> QED
    BY <1>3, <2>2
<1>5. /\ A # <<>> /\ Distinct(A)
      /\ \A j \in 1..Len(L) : L[j] = A[d + j]
      /\ \A j \in 1..Len(A) : A[j] <= m /\ F[A[j]] = IF j <= d THEN 1 ELSE 0
  BY <1>1, <1>2, <1>4 DEF TaskOK
<1>6. d + 1 \in 1..Len(A) /\ 1 \in 1..Len(L) /\ ~(d + 1 <= d)
  BY <1>3, <1>4
<1>7. A[d + 1] = Head(L)
  BY <1>3, <1>5, <1>6
<1>8. F[Head(L)] = 0 /\ Within(Head(L), A)
  BY <1>5, <1>6, <1>7 DEF Within
<1>9. d + 1 = Len(A) - Len(Tail(L)) /\ d + 1 >= 0
  BY <1>3, <1>4
<1>10. \A j \in 1..Len(Tail(L)) : Tail(L)[j] = A[d + 1 + j]
  <2> SUFFICES ASSUME NEW j \in 1..Len(Tail(L))
               PROVE  Tail(L)[j] = A[d + 1 + j]
    OBVIOUS
  <2>1. j + 1 \in 1..Len(L) /\ d + (j + 1) = d + 1 + j
    BY <1>3
  <2> QED
    BY <1>3, <1>5, <2>1
<1>11. \A j \in 1..Len(A) : A[j] <= m /\ G[A[j]] = IF j <= d + 1 THEN 1 ELSE 0
  <2> SUFFICES ASSUME NEW j \in 1..Len(A)
               PROVE  A[j] <= m /\ G[A[j]] = IF j <= d + 1 THEN 1 ELSE 0
    OBVIOUS
  <2>1. CASE j = d + 1
    BY <1>2, <1>5, <1>7, <2>1
  <2>2. CASE j # d + 1
    <3>1. A[j] # Head(L)
      BY <1>5, <1>6, <1>7, <2>2 DEF Distinct
    <3>2. G[A[j]] = F[A[j]]
      BY <1>2, <1>3, <3>1
    <3>3. j <= d <=> j <= d + 1
      BY <2>2
    <3> QED
      BY <1>5, <3>2, <3>3
  <2> QED
    BY <2>1, <2>2
<1>12. PICK M : M = Tail(L)
  OBVIOUS
<1>13. u.left = M /\ u.pos = A
  BY <1>1, <1>2, <1>12
<1>14. TaskOK(u, m, G)
  <2>1. PICK e : e = Len(A) - Len(M)
    OBVIOUS
  <2>2. /\ e >= 0 /\ \A j \in 1..Len(M) : M[j] = A[e + j]
        /\ \A j \in 1..Len(A) : A[j] <= m /\ G[A[j]] = IF j <= e THEN 1 ELSE 0
    BY <1>9, <1>10, <1>11, <1>12, <2>1
  <2> QED
    BY <1>5, <1>13, <2>1, <2>2 DEF TaskOK
<1> QED
  BY <1>1, <1>2, <1>8, <1>14

\* A task none of whose positions changed stays right.
LEMMA TaskKept ==
  ASSUME NEW t \in Task, NEW m, NEW F, NEW G, TaskOK(t, m, F),
         \A p : Within(p, t.pos) => G[p] = F[p]
  PROVE  TaskOK(t, m, G)
<1>1. \A j \in 1..Len(t.pos) : G[t.pos[j]] = F[t.pos[j]]
  BY DEF Within
<1> QED
  BY <1>1 DEF TaskOK

\* scan_help writes a position that no other task has.
LEMMA FillInv ==
  ASSUME Inv, NEW v \in Workers, Fill(v)
  PROVE  Inv'
<1>1. PICK t : t = cur[v]
  OBVIOUS
<1>2. wpc[v] = "task" /\ t.left # <<>> /\ t \in Task /\ t.scan \in Scanners
  BY <1>1 DEF Fill, Inv, TypeInv, Task
<1>3. 0 \in Live(v) /\ TaskAt(v, 0) = t
  <2>1. Len(tasks[v]) \in Nat
    BY DEF Inv, TypeInv
  <2> QED
    BY <1>1, <1>2, <2>1 DEF Live, TaskAt
<1>4. PICK s \in Scanners : s = t.scan
  BY <1>2
<1>5. TaskOK(t, Seen(sc[s]), filled[s])
  BY <1>3, <1>4 DEF Inv, TasksInv
<1>6. PICK x \in Positions : x = Head(t.left)
  <2>1. t.left \in Seq(Positions)
    BY <1>2 DEF Task
  <2> QED
    BY <1>2, <2>1
<1>7. PICK u : u = [t EXCEPT !.left = Tail(t.left)]
  OBVIOUS
<1>8. u \in Task /\ u.scan = s /\ u.pos = t.pos /\ u.left = Tail(t.left)
  <2>1. t.left \in Seq(Positions)
    BY <1>2 DEF Task
  <2>2. Tail(t.left) \in Seq(Positions)
    BY <1>2, <2>1
  <2> QED
    BY <1>2, <1>4, <1>7, <2>2 DEF Task
<1>9. /\ cur' = [cur EXCEPT ![v] = u] /\ UNCHANGED <<tasks, wpc, busy, stop, down, sc>>
      /\ filled' = [filled EXCEPT ![s][x] = filled[s][x] + 1]
  BY <1>1, <1>4, <1>6, <1>7 DEF Fill, Inv, TypeInv
<1>10. PICK F : F = filled[s]
  OBVIOUS
<1>11. PICK G : G = filled'[s]
  OBVIOUS
<1>12. F \in [Positions -> 0..1] /\ G = [F EXCEPT ![x] = F[x] + 1] /\ \A z \in Scanners : z # s => filled'[z] = filled[z]
  BY <1>9, <1>10, <1>11 DEF Inv, TypeInv
<1>13. F[x] = 0 /\ Within(x, t.pos)
  <2>1. PICK H : H = [p \in Positions |-> IF p = x THEN 1 ELSE F[p]]
    OBVIOUS
  <2>2. H[Head(t.left)] = 1 /\ \A p \in Positions : p # Head(t.left) => H[p] = F[p]
    BY <1>6, <2>1
  <2>3. PICK m : TaskOK(t, m, F)
    BY <1>5, <1>10
  <2> QED
    BY <1>2, <1>6, <1>8, <2>2, <2>3, TaskFilled
<1>14. G \in [Positions -> 0..1] /\ G[x] = 1 /\ \A p \in Positions : p # x => G[p] = F[p]
  BY <1>12, <1>13
<1>15. cur'[v] = u /\ \A w \in Workers : w # v => cur'[w] = cur[w]
  BY <1>9 DEF Inv, TypeInv
<1>16. TypeInv'
  <2>1. cur' = [w \in Workers |-> cur'[w]]
    BY <1>9 DEF Inv, TypeInv
  <2>2. \A w \in Workers : wpc'[w] = "task" => cur'[w] \in Task
    BY <1>8, <1>9, <1>15 DEF Inv, TypeInv
  <2>3. filled' \in [Scanners -> [Positions -> 0..1]]
    BY <1>9, <1>11, <1>12, <1>14 DEF Inv, TypeInv
  <2> QED
    BY <1>9, <2>1, <2>2, <2>3 DEF Inv, TypeInv
<1>17. \A w \in Workers : Live(w)' = Live(w)
  BY <1>9 DEF Live
<1>18. TaskAt(v, 0)' = u
  BY <1>15 DEF TaskAt
<1>19. \A w \in Workers : \A k \in Live(w) : ~(w = v /\ k = 0) => TaskAt(w, k)' = TaskAt(w, k)
  BY <1>9, <1>15 DEF TaskAt
<1>20. \A z, p : \A w \in Workers : \A k : Has(z, p, w, k)' <=> Has(z, p, w, k)
  <2> SUFFICES ASSUME NEW z, NEW p, NEW w \in Workers, NEW k
               PROVE  Has(z, p, w, k)' <=> Has(z, p, w, k)
    OBVIOUS
  <2>1. CASE w = v /\ k = 0
    BY <1>3, <1>4, <1>8, <1>17, <1>18, <2>1 DEF Has
  <2>2. CASE ~(w = v /\ k = 0)
    BY <1>17, <1>19, <2>2 DEF Has
  <2> QED
    BY <2>1, <2>2
<1>21. \A z, p : Claimed(z, p)' <=> Claimed(z, p)
  BY <1>20 DEF Claimed
<1>22. Has(s, x, v, 0) /\ Claimed(s, x)
  BY <1>3, <1>4, <1>13 DEF Has, Claimed
<1>23. ScansInv'
  BY <1>9 DEF Inv, ScansInv
<1>24. TasksInv'
  <2> SUFFICES ASSUME NEW w \in Workers, NEW k \in Live(w), NEW r, r = TaskAt(w, k)'
               PROVE  TaskOK(r, Seen(sc[r.scan]), filled'[r.scan])
    BY <1>9, <1>17 DEF TasksInv
  <2>1. CASE w = v /\ k = 0
    <3>1. r = u /\ TaskOK(u, Seen(sc[s]), G)
      BY <1>2, <1>5, <1>6, <1>8, <1>10, <1>14, <1>18, <2>1, TaskFilled
    <3> QED
      BY <1>8, <1>11, <3>1
  <2>2. CASE ~(w = v /\ k = 0)
    <3>1. r = TaskAt(w, k) /\ r \in Task /\ r.scan \in Scanners /\ k \in Nat
      BY <1>19, <2>2, LiveTask DEF Inv, Task
    <3>2. TaskOK(r, Seen(sc[r.scan]), filled[r.scan])
      BY <3>1 DEF Inv, TasksInv
    <3>3. CASE r.scan # s
      BY <1>12, <3>1, <3>2, <3>3
    <3>4. CASE r.scan = s
      <4>1. ~Within(x, r.pos)
        <5> SUFFICES ASSUME Within(x, r.pos)
                     PROVE  FALSE
          OBVIOUS
        <5>1. Has(s, x, w, k)
          BY <3>1, <3>4 DEF Has
        <5> QED
          BY <1>22, <2>2, <3>1, <5>1 DEF Inv, ApartInv
      <4>2. \A p : Within(p, r.pos) => p \in Positions
        <5>1. r.pos \in Seq(Positions)
          BY <3>1 DEF Task
        <5> QED
          BY <5>1 DEF Within
      <4>3. \A p : Within(p, r.pos) => G[p] = F[p]
        BY <1>14, <4>1, <4>2
      <4> QED
        BY <1>10, <1>11, <3>1, <3>2, <3>4, <4>3, TaskKept
    <3> QED
      BY <3>3, <3>4
  <2> QED
    BY <2>1, <2>2
<1>25. ApartInv'
  BY <1>20 DEF Inv, ApartInv
<1>26. KeptInv'
  <2> SUFFICES ASSUME NEW z \in Scanners, NEW n \in Nodes, NEW p \in Positions, Keeps(sc[z], n, p)
               PROVE  p <= Seen(sc[z]) /\ filled'[z][p] = 0 /\ ~Claimed(z, p)
    BY <1>9, <1>21 DEF KeptInv
  <2>1. p <= Seen(sc[z]) /\ filled[z][p] = 0 /\ ~Claimed(z, p)
    BY DEF Inv, KeptInv
  <2>2. ~(z = s /\ p = x)
    BY <1>22, <2>1
  <2> QED
    BY <1>10, <1>11, <1>12, <1>14, <2>1, <2>2
<1>27. FilledInv'
  <2> SUFFICES ASSUME NEW z \in Scanners, NEW p \in Positions, filled'[z][p] # 0
               PROVE  p <= Seen(sc[z])
    BY <1>9 DEF FilledInv
  <2>1. CASE z = s /\ p = x
    BY <1>22, <2>1, ClaimedSeen
  <2>2. CASE ~(z = s /\ p = x)
    <3>1. filled'[z][p] = filled[z][p]
      BY <1>10, <1>11, <1>12, <1>14, <2>2
    <3> QED
      BY <3>1 DEF Inv, FilledInv
  <2> QED
    BY <2>1, <2>2
<1>28. CountInv'
  <2>1. ASSUME NEW z \in Scanners
        PROVE  Counted(z)' = Counted(z)
    <3>1. \A p \in Positions : ~Claimed(z, p) => filled'[z][p] = filled[z][p]
      BY <1>10, <1>11, <1>12, <1>14, <1>22, <2>1
    <3> QED
      BY <1>21, <3>1 DEF Counted
  <2> QED
    BY <1>9, <2>1 DEF Inv, CountInv
<1> QED
  BY <1>16, <1>23, <1>24, <1>25, <1>26, <1>27, <1>28 DEF Inv

-----------------------------------------------------------------------------
(* What the number complete_reads says.                                    *)

\* A scanner has seen no more positions than its scan has.
LEMMA SeenBound ==
  ASSUME Inv, NEW s \in Scanners
  PROVE  /\ Seen(sc[s]) \in 0..sc[s].size /\ sc[s].size \in 0..MaxScan
         /\ sc[s].complete \in Nat
<1>1. sc[s] \in Locals /\ ScanOK(sc[s])
  BY ScanFacts
<1> QED
  BY <1>1, ConstantFacts DEF Locals, ScanOK, Seen

\* It counts positions of the scan, so that it never passes the size, and when it is
\* the size all positions are counted.
LEMMA CountedFacts ==
  ASSUME Inv, NEW s \in Scanners
  PROVE  /\ IsFiniteSet(Counted(s)) /\ Counted(s) \subseteq 1..sc[s].size
         /\ sc[s].complete \in 0..sc[s].size
         /\ sc[s].complete = sc[s].size => Counted(s) = 1..sc[s].size
<1>1. Counted(s) \subseteq 1..sc[s].size
  <2> SUFFICES ASSUME NEW p \in Positions, filled[s][p] = 1
               PROVE  p \in 1..sc[s].size
    BY DEF Counted
  <2>1. p <= Seen(sc[s]) /\ p \in Nat /\ p >= 1
    BY DEF Inv, FilledInv, Positions
  <2> QED
    BY <2>1, SeenBound
<1>2. /\ IsFiniteSet(1..sc[s].size) /\ Cardinality(1..sc[s].size) = sc[s].size
  BY SeenBound, FS_Interval
<1>3. /\ IsFiniteSet(Counted(s)) /\ Cardinality(Counted(s)) <= Cardinality(1..sc[s].size)
      /\ Cardinality(1..sc[s].size) = Cardinality(Counted(s)) => 1..sc[s].size = Counted(s)
  BY <1>1, <1>2, FS_Subset
<1>4. sc[s].complete = Cardinality(Counted(s))
  BY DEF Inv, CountInv
<1> QED
  BY <1>1, <1>2, <1>3, <1>4, SeenBound

\* Once the scan has returned, no task has a position of it.
LEMMA DoneClean ==
  ASSUME Inv, NEW s \in Scanners, sc[s].pc = "done"
  PROVE  /\ \A p \in Positions : ~Claimed(s, p)
         /\ \A p \in Positions : filled[s][p] = IF p <= sc[s].size THEN 1 ELSE 0
<1>1. Counted(s) = 1..sc[s].size
  BY CountedFacts, ScanFacts DEF ScanOK
<1>2. Seen(sc[s]) = sc[s].size /\ sc[s].size \in Nat
  BY SeenBound DEF Seen
<1>3. ASSUME NEW p \in Positions, Claimed(s, p)
      PROVE  FALSE
  <2>1. p <= sc[s].size /\ p \in 1..MaxScan
    BY <1>2, <1>3, ClaimedSeen DEF Positions
  <2>2. p \in Counted(s)
    BY <1>1, <1>2, <2>1, ConstantFacts
  <2> QED
    BY <1>3, <2>2 DEF Counted
<1>4. ASSUME NEW p \in Positions
      PROVE  filled[s][p] = IF p <= sc[s].size THEN 1 ELSE 0
  <2>1. CASE p <= sc[s].size
    <3>1. p \in Counted(s)
      BY <1>1, <1>2, <2>1, ConstantFacts DEF Positions
    <3> QED
      BY <2>1, <3>1 DEF Counted
  <2>2. CASE ~(p <= sc[s].size)
    BY <1>2, <2>2 DEF Inv, FilledInv
  <2> QED
    BY <2>1, <2>2
<1> QED
  BY <1>3, <1>4

\* The positions of a task are as many as it is long.
LEMMA DistinctCount ==
  ASSUME NEW A \in Seq(Positions), Distinct(A), NEW S, S = {p \in Positions : Within(p, A)}
  PROVE  IsFiniteSet(S) /\ Cardinality(S) = Len(A)
<1>1. Len(A) \in Nat /\ A \in [1..Len(A) -> Positions]
  OBVIOUS
<1>2. A \in [1..Len(A) -> S]
  BY <1>1 DEF Within
<1>3. A \in Injection(1..Len(A), S)
  BY <1>2 DEF Injection, IsInjective, Distinct
<1>4. \A p \in S : \E j \in 1..Len(A) : A[j] = p
  BY DEF Within
<1>5. A \in Bijection(1..Len(A), S)
  BY <1>2, <1>3, <1>4 DEF Bijection, Surjection
<1>6. ExistsBijection(1..Len(A), S)
  BY <1>5 DEF ExistsBijection
<1>7. IsFiniteSet(1..Len(A)) /\ Cardinality(1..Len(A)) = Len(A)
  BY <1>1, FS_Interval
<1> QED
  BY <1>6, <1>7, FS_Bijection

\* ADD(complete_elems, pos_arr.size()): the positions of the task are counted.
LEMMA CountInvariant ==
  ASSUME Inv, NEW v \in Workers, Count(v)
  PROVE  Inv'
<1>1. PICK t : t = cur[v]
  OBVIOUS
<1>2. wpc[v] = "task" /\ t.left = <<>> /\ t \in Task /\ t.scan \in Scanners
  BY <1>1 DEF Count, Inv, TypeInv, Task
<1>3. 0 \in Live(v) /\ TaskAt(v, 0) = t
  <2>1. Len(tasks[v]) \in Nat
    BY DEF Inv, TypeInv
  <2> QED
    BY <1>1, <1>2, <2>1 DEF Live, TaskAt
<1>4. PICK s \in Scanners : s = t.scan
  BY <1>2
<1>5. TaskOK(t, Seen(sc[s]), filled[s])
  BY <1>3, <1>4 DEF Inv, TasksInv
<1>6. PICK A \in Seq(Positions) : A = t.pos
  BY <1>2 DEF Task
<1>7. A # <<>> /\ Distinct(A) /\ Len(A) \in Nat /\ \A p : Within(p, A) => p \in Positions /\ filled[s][p] = 1
  <2>1. A # <<>> /\ Distinct(A) /\ Len(A) \in Nat /\ \A p : Within(p, A) => p \in Positions
    BY <1>5, <1>6 DEF TaskOK, Within
  <2>2. Len(t.left) = 0 /\ \A j \in 1..Len(A) : j <= Len(A)
    BY <1>2, <2>1
  <2>3. \A j \in 1..Len(A) : filled[s][A[j]] = 1
    BY <1>5, <1>6, <2>1, <2>2 DEF TaskOK
  <2> QED
    BY <2>1, <2>3 DEF Within
<1>8. PICK c : c = sc[s]
  OBVIOUS
<1>9. c \in Locals /\ ScanOK(c) /\ c.complete \in Nat
  BY <1>8, ScanFacts, SeenBound
<1>10. PICK d : d = [c EXCEPT !.complete = c.complete + Len(A)]
  OBVIOUS
<1>11. /\ sc' = [sc EXCEPT ![s] = d] /\ wpc' = [wpc EXCEPT ![v] = "top"] /\ cur' = [cur EXCEPT ![v] = <<>>]
       /\ UNCHANGED <<tasks, busy, stop, down, filled>>
  BY <1>1, <1>4, <1>6, <1>8, <1>10, ScanFacts DEF Count, Finish
<1>12. /\ d \in Locals /\ d.pc = c.pc /\ d.size = c.size /\ d.i = c.i /\ d.n = c.n /\ d.tid = c.tid
       /\ d.rest = c.rest /\ d.pos = c.pos /\ d.complete = c.complete + Len(A)
  <2>1. c.complete + Len(A) \in Nat
    BY <1>7, <1>9
  <2> QED
    BY <1>9, <1>10, <2>1 DEF Locals
<1>13. sc'[s] = d /\ \A z \in Scanners : z # s => sc'[z] = sc[z]
  BY <1>11 DEF Inv, TypeInv
<1>14. /\ wpc'[v] = "top" /\ cur'[v] = <<>>
       /\ \A w \in Workers : w # v => wpc'[w] = wpc[w] /\ cur'[w] = cur[w]
  BY <1>11 DEF Inv, TypeInv
<1>15. TypeInv'
  <2>1. sc' \in [Scanners -> Locals]
    BY <1>11, <1>12 DEF Inv, TypeInv
  <2>2. cur' = [w \in Workers |-> cur'[w]]
    BY <1>11 DEF Inv, TypeInv
  <2>3. wpc' \in [Workers -> {"top", "wait", "woken", "task", "done"}]
    BY <1>11 DEF Inv, TypeInv
  <2>4. \A w \in Workers : wpc'[w] = "task" => cur'[w] \in Task
    BY <1>14 DEF Inv, TypeInv
  <2> QED
    BY <1>11, <2>1, <2>2, <2>3, <2>4 DEF Inv, TypeInv
<1>16. \A w \in Workers : \A k :
         /\ k \in Live(w)' <=> k \in Live(w) /\ ~(w = v /\ k = 0)
         /\ k \in Live(w)' => TaskAt(w, k)' = TaskAt(w, k)
  BY <1>11, <1>14 DEF Live, TaskAt
<1>17. \A z, p : \A w \in Workers : \A k : Has(z, p, w, k)' <=> Has(z, p, w, k) /\ ~(w = v /\ k = 0)
  BY <1>16 DEF Has
<1>18. \A z, p : Has(z, p, v, 0) <=> z = s /\ Within(p, A)
  BY <1>3, <1>4, <1>6 DEF Has
<1>19. \A z \in Scanners : \A p : Claimed(z, p)' <=> Claimed(z, p) /\ ~(z = s /\ Within(p, A))
  <2> SUFFICES ASSUME NEW z \in Scanners, NEW p
               PROVE  Claimed(z, p)' <=> Claimed(z, p) /\ ~(z = s /\ Within(p, A))
    OBVIOUS
  <2>1. ASSUME Claimed(z, p)'
        PROVE  Claimed(z, p) /\ ~(z = s /\ Within(p, A))
    <3>1. PICK w \in Workers : \E k \in Nat : Has(z, p, w, k)'
      BY <2>1 DEF Claimed
    <3>2. PICK k \in Nat : Has(z, p, w, k)'
      BY <3>1
    <3>3. Has(z, p, w, k) /\ ~(w = v /\ k = 0)
      BY <1>17, <3>2
    <3>4. ~Has(z, p, v, 0)
      BY <3>3 DEF Inv, ApartInv
    <3> QED
      BY <1>18, <3>3, <3>4 DEF Claimed
  <2>2. ASSUME Claimed(z, p), ~(z = s /\ Within(p, A))
        PROVE  Claimed(z, p)'
    <3>1. PICK w \in Workers : \E k \in Nat : Has(z, p, w, k)
      BY <2>2 DEF Claimed
    <3>2. PICK k \in Nat : Has(z, p, w, k)
      BY <3>1
    <3>3. Has(z, p, w, k)'
      BY <1>17, <1>18, <2>2, <3>2
    <3> QED
      BY <3>3 DEF Claimed
  <2> QED
    BY <2>1, <2>2
<1>20. c.pc # "done"
  <2>1. Has(s, A[1], v, 0) /\ A[1] \in Positions
    <3>1. 1 \in 1..Len(A)
      BY <1>7
    <3> QED
      BY <1>7, <1>18, <3>1 DEF Within
  <2>2. Claimed(s, A[1])
    BY <2>1 DEF Claimed
  <2> QED
    BY <1>8, <2>1, <2>2, DoneClean
<1>21. \A n, p : Keeps(d, n, p) <=> Keeps(c, n, p)
  BY <1>12 DEF Keeps
<1>22. ScanOK(d)
  BY <1>9, <1>12, <1>20, <1>21 DEF ScanOK
<1>23. \A z \in Scanners : Seen(sc'[z]) = Seen(sc[z])
  BY <1>8, <1>12, <1>13 DEF Seen
<1>24. ScansInv'
  BY <1>13, <1>22 DEF Inv, ScansInv
<1>25. TasksInv'
  <2> SUFFICES ASSUME NEW w \in Workers, NEW k, k \in Live(w)', NEW u, u = TaskAt(w, k)'
               PROVE  TaskOK(u, Seen(sc'[u.scan]), filled[u.scan])
    BY <1>11 DEF TasksInv
  <2>1. k \in Live(w) /\ u = TaskAt(w, k)
    BY <1>16
  <2>2. u.scan \in Scanners
    BY <2>1, LiveTask DEF Inv, Task
  <2>3. TaskOK(u, Seen(sc[u.scan]), filled[u.scan])
    BY <2>1 DEF Inv, TasksInv
  <2> QED
    BY <1>23, <2>2, <2>3
<1>26. ApartInv'
  BY <1>17 DEF Inv, ApartInv
<1>27. KeptInv'
  BY <1>8, <1>11, <1>13, <1>19, <1>21, <1>23 DEF Inv, KeptInv
<1>28. FilledInv'
  BY <1>11, <1>23 DEF Inv, FilledInv
<1>29. CountInv'
  <2> SUFFICES ASSUME NEW z \in Scanners
               PROVE  sc'[z].complete = Cardinality(Counted(z)')
    BY DEF CountInv
  <2>1. CASE z # s
    <3>1. Counted(z)' = Counted(z)
      BY <1>11, <1>19, <2>1 DEF Counted
    <3> QED
      BY <1>13, <2>1, <3>1 DEF Inv, CountInv
  <2>2. CASE z = s
    <3>1. PICK S : S = {p \in Positions : Within(p, A)}
      OBVIOUS
    <3>2. PICK T : T = Counted(s)
      OBVIOUS
    <3>3. IsFiniteSet(S) /\ Cardinality(S) = Len(A)
      BY <1>7, <3>1, DistinctCount
    <3>4. IsFiniteSet(T) /\ c.complete = Cardinality(T)
      BY <1>8, <3>2, CountedFacts DEF Inv, CountInv
    <3>5. \A p : Within(p, A) => Claimed(s, p)
      BY <1>18 DEF Claimed
    <3>6. S \cap T = {}
      BY <3>1, <3>2, <3>5 DEF Counted
    <3>7. Counted(s)' = T \cup S
      BY <1>7, <1>11, <1>19, <3>1, <3>2 DEF Counted
    <3>8. Cardinality(T \cup S) = Cardinality(T) + Cardinality(S) - Cardinality(T \cap S)
      BY <3>3, <3>4, FS_Union
    <3>9. Cardinality(T \cap S) = 0
      BY <3>6, FS_EmptySet
    <3>10. Cardinality(T \cup S) = c.complete + Len(A)
      BY <1>7, <1>9, <3>3, <3>4, <3>8, <3>9
    <3> QED
      BY <1>12, <1>13, <2>2, <3>7, <3>10
  <2> QED
    BY <2>1, <2>2
<1> QED
  BY <1>15, <1>24, <1>25, <1>26, <1>27, <1>28, <1>29 DEF Inv

-----------------------------------------------------------------------------
(* The rest of the pool: workers that wake and sleep, and the destructor.  *)

\* A step that changes only the places of the workers and of the destructors.
LEMMA QuietStep ==
  ASSUME Inv, UNCHANGED <<tasks, cur, sc, filled>>,
         wpc' \in [Workers -> {"top", "wait", "woken", "task", "done"}],
         \A w \in Workers : (wpc'[w] = "task") <=> (wpc[w] = "task"),
         busy' \subseteq Workers, stop' \subseteq Workers,
         down' \in [Nodes -> [pc : {"up", "stop", "notify", "join", "down"}, at : 0..PoolThreads]],
         \A n \in Nodes : down'[n].pc # "up" => down'[n].at \in Threads
  PROVE  Inv'
<1>1. Unmoved
  BY UnmovedFact
<1>2. TypeInv'
  BY DEF Inv, TypeInv
<1> QED
  BY <1>1, <1>2, PoolStep

\* Worker::routine between two tasks.
LEMMA WorkerInv ==
  ASSUME Inv, NEW w \in Workers, Worker(w), UNCHANGED <<sc, filled>>
  PROVE  Inv'
<1>1. CASE WorkerNext(w)
  BY <1>1, TakeInv DEF WorkerNext, Inv, TypeInv
<1>2. CASE WorkerIdle(w)
  <2>1. /\ wpc' \in [Workers -> {"top", "wait", "woken", "task", "done"}]
        /\ \A v \in Workers : (wpc'[v] = "task") <=> (wpc[v] = "task")
    BY <1>2 DEF WorkerIdle, Inv, TypeInv
  <2> QED
    BY <1>2, <2>1, QuietStep DEF WorkerIdle, Inv, TypeInv
<1>3. CASE WorkerWake(w)
  <2>1. CASE tasks[w] # <<>>
    <3>1. wpc[w] # "task" /\ Take(w) /\ busy' \subseteq Workers /\ UNCHANGED <<stop, down>>
      BY <1>3, <2>1 DEF WorkerWake, Inv, TypeInv
    <3> QED
      BY <2>1, <3>1, TakeInv
  <2>2. CASE tasks[w] = <<>>
    <3>1. /\ wpc[w] = "woken" /\ wpc' = [wpc EXCEPT ![w] = IF w \in stop THEN "done" ELSE "wait"]
          /\ UNCHANGED <<tasks, cur, busy, stop, down>>
      BY <1>3, <2>2 DEF WorkerWake
    <3>2. /\ wpc' \in [Workers -> {"top", "wait", "woken", "task", "done"}]
          /\ \A v \in Workers : (wpc'[v] = "task") <=> (wpc[v] = "task")
      BY <3>1 DEF Inv, TypeInv
    <3> QED
      BY <3>1, <3>2, QuietStep DEF Inv, TypeInv
  <2> QED
    BY <2>1, <2>2
<1> QED
  BY <1>1, <1>2, <1>3 DEF Worker

\* cv.wait returns without a notification.
LEMMA SpuriousWakeInv ==
  ASSUME Inv, NEW w \in Workers, SpuriousWake(w), UNCHANGED <<sc, filled>>
  PROVE  Inv'
<1>1. /\ wpc' \in [Workers -> {"top", "wait", "woken", "task", "done"}]
      /\ \A v \in Workers : (wpc'[v] = "task") <=> (wpc[v] = "task")
  BY DEF SpuriousWake, Inv, TypeInv
<1> QED
  BY <1>1, QuietStep DEF SpuriousWake, Inv, TypeInv

Downs == [pc : {"up", "stop", "notify", "join", "down"}, at : 0..PoolThreads]

\* ~ThreadPool at node n, in any of its steps.
LEMMA DestroyInv ==
  ASSUME Inv, NEW n \in Nodes, Destroy(n) \/ Destructor(n), UNCHANGED <<sc, filled>>
  PROVE  Inv'
<1>1. PICK e : e = down[n]
  OBVIOUS
<1>2. e \in Downs /\ (e.pc # "up" => e.at \in Threads) /\ down \in [Nodes -> Downs]
  BY <1>1 DEF Inv, TypeInv, Downs
<1>3. ASSUME NEW g \in Downs, g.pc # "up" => g.at \in Threads, down' = [down EXCEPT ![n] = g]
      PROVE  /\ down' \in [Nodes -> Downs]
             /\ \A m \in Nodes : down'[m].pc # "up" => down'[m].at \in Threads
  BY <1>2, <1>3 DEF Inv, TypeInv
<1>4. e.pc # "up" => At(n) \in Workers
  BY <1>1, <1>2 DEF At, Workers
<1>5. CASE Destroy(n)
  <2>1. PICK g : g = [pc |-> "stop", at |-> 1]
    OBVIOUS
  <2>2. g \in Downs /\ g.at \in Threads
    BY <2>1, ConstantFacts DEF Downs, Threads
  <2>3. down' = [down EXCEPT ![n] = g] /\ UNCHANGED <<tasks, wpc, cur, busy, stop>>
    BY <1>5, <2>1 DEF Destroy
  <2> QED
    BY <1>3, <2>2, <2>3, QuietStep DEF Inv, TypeInv, Downs
<1>6. CASE DestroyStop(n)
  <2>1. PICK g : g = [e EXCEPT !.pc = "notify"]
    OBVIOUS
  <2>2. g \in Downs /\ g.at = e.at /\ e.pc = "stop"
    BY <1>1, <1>2, <1>6, <2>1 DEF Downs, DestroyStop
  <2>3. down' = [down EXCEPT ![n] = g] /\ stop' \subseteq Workers /\ UNCHANGED <<tasks, wpc, cur, busy>>
    BY <1>1, <1>2, <1>4, <1>6, <2>1, <2>2 DEF DestroyStop, Inv, TypeInv
  <2> QED
    BY <1>2, <1>3, <2>2, <2>3, QuietStep DEF Inv, TypeInv, Downs
<1>7. CASE DestroyNotify(n)
  <2>1. PICK g : g = [e EXCEPT !.pc = "join"]
    OBVIOUS
  <2>2. g \in Downs /\ g.at = e.at /\ e.pc = "notify"
    BY <1>1, <1>2, <1>7, <2>1 DEF Downs, DestroyNotify
  <2>3. down' = [down EXCEPT ![n] = g] /\ UNCHANGED <<tasks, cur, busy, stop>>
    BY <1>1, <1>2, <1>7, <2>1 DEF DestroyNotify
  <2>4. PICK w \in Workers : w = At(n)
    BY <1>4, <2>2
  <2>5. Notify(w)
    BY <1>7, <2>4 DEF DestroyNotify
  <2>6. /\ wpc' \in [Workers -> {"top", "wait", "woken", "task", "done"}]
        /\ \A v \in Workers : (wpc'[v] = "task") <=> (wpc[v] = "task")
    BY <2>3, <2>5, NotifyUnmoved DEF Inv
  <2> QED
    BY <1>2, <1>3, <2>2, <2>3, <2>6, QuietStep DEF Inv, TypeInv, Downs
<1>8. CASE DestroyJoin(n)
  <2>1. PICK g : g = IF e.at + 1 \in Threads THEN [pc |-> "stop", at |-> e.at + 1] ELSE [pc |-> "down", at |-> e.at]
    OBVIOUS
  <2>2. e.pc = "join" /\ e.at \in Threads /\ \A j \in Threads : j \in 0..PoolThreads
    BY <1>1, <1>2, <1>8, ConstantFacts DEF DestroyJoin, Threads
  <2>3. g \in Downs /\ g.at \in Threads
    BY <2>1, <2>2 DEF Downs
  <2>4. down' = [down EXCEPT ![n] = g] /\ UNCHANGED <<tasks, wpc, cur, busy, stop>>
    BY <1>1, <1>2, <1>8, <2>1 DEF DestroyJoin
  <2> QED
    BY <1>3, <2>3, <2>4, QuietStep DEF Inv, TypeInv, Downs
<1> QED
  BY <1>5, <1>6, <1>7, <1>8 DEF Destructor

-----------------------------------------------------------------------------
(* The invariant holds in every state.                                     *)

\* Before the first call nothing is queued, filled or counted.
LEMMA InitInv ==
  ASSUME Init
  PROVE  Inv
<1>1. PICK c : c = [pc |-> "start", size |-> 0, i |-> 0, n |-> 0, tid |-> 0, rest |-> FALSE,
                    pos |-> [n \in Nodes |-> <<>>], complete |-> 0]
  OBVIOUS
<1>2. sc = [s \in Scanners |-> c]
  BY <1>1 DEF Init
<1>3. c \in Locals
  <2>1. [n \in Nodes |-> <<>>] \in [Nodes -> Seq(Positions)]
    OBVIOUS
  <2> QED
    BY <1>1, <2>1, ConstantFacts DEF Locals
<1>4. ScanOK(c)
  BY <1>1, Zenon DEF ScanOK, Keeps
<1>5. TypeInv
  <2>1. tasks \in [Workers -> Seq(Task)]
    BY DEF Init, PoolInit
  <2>2. sc \in [Scanners -> Locals]
    BY <1>2, <1>3
  <2>3. filled \in [Scanners -> [Positions -> 0..1]]
    BY DEF Init
  <2>4. down \in [Nodes -> Downs] /\ \A n \in Nodes : down[n].pc = "up"
    BY ConstantFacts DEF Init, PoolInit, Downs
  <2> QED
    BY <2>1, <2>2, <2>3, <2>4 DEF Init, PoolInit, TypeInv, Downs
<1>6. \A w \in Workers : Live(w) = {}
  <2> SUFFICES ASSUME NEW w \in Workers
               PROVE  Live(w) = {}
    OBVIOUS
  <2>1. tasks[w] = <<>> /\ wpc[w] = "top"
    BY DEF Init, PoolInit
  <2>2. Len(tasks[w]) = 0
    BY <2>1
  <2> QED
    BY <2>1, <2>2 DEF Live
<1>7. \A s, p, w, k : ~Has(s, p, w, k)
  BY <1>6 DEF Has
<1>8. \A s \in Scanners : Counted(s) = {}
  BY DEF Counted, Init
<1>9. \A n, p : ~Keeps(c, n, p)
  BY <1>1 DEF Keeps
<1>10. ScansInv /\ TasksInv /\ ApartInv
  BY <1>2, <1>4, <1>6, <1>7 DEF ScansInv, TasksInv, ApartInv
<1>11. KeptInv /\ FilledInv
  BY <1>2, <1>9 DEF KeptInv, FilledInv, Init
<1>12. CountInv
  BY <1>1, <1>2, <1>8, FS_EmptySet DEF CountInv
<1> QED
  BY <1>5, <1>10, <1>11, <1>12 DEF Inv

\* Every step keeps the invariant.
LEMMA StepInv ==
  ASSUME Inv, [Next]_vars
  PROVE  Inv'
<1>1. ASSUME NEW s \in Scanners, Start(s) \/ Scan(s)
      PROVE  Inv'
  BY <1>1, StartInv, PositionInv, PickInv, ExecuteInv, ExecuteNotifyInv, ReturnInv DEF Scan
<1>2. ASSUME NEW w \in Workers, Work(w) \/ (SpuriousWake(w) /\ UNCHANGED <<sc, filled>>)
      PROVE  Inv'
  BY <1>2, WorkerInv, FillInv, CountInvariant, SpuriousWakeInv DEF Work
<1>3. ASSUME NEW n \in Nodes, (Quiet /\ Destroy(n) /\ UNCHANGED <<sc, filled>>) \/ PoolDown(n)
      PROVE  Inv'
  BY <1>3, DestroyInv DEF PoolDown
<1>4. CASE UNCHANGED vars
  <2>1. UNCHANGED <<tasks, wpc, cur, busy, stop, down, sc, filled>>
    BY <1>4 DEF vars, poolVars
  <2> QED
    BY <2>1, QuietStep DEF Inv, TypeInv
<1> QED
  BY <1>1, <1>2, <1>3, <1>4 DEF Next

\* A position of a scan is in one place only: kept by the scanner, in one task, or
\* filled and counted; the counter is the number of the positions that are counted.
THEOREM PoolInvariance == Spec => []Inv
<1>1. Init => Inv
  BY InitInv
<1>2. Inv /\ [Next]_vars => Inv'
  BY StepInv
<1> QED
  BY <1>1, <1>2, PTL DEF Spec

\* A scan never counts more positions than it has, so that complete_reads cannot pass
\* the size at which the spin of range_scan_by_size ends.
THEOREM TypesHold == Spec => []TypeOK
<1>1. Inv => TypeOK
  <2> SUFFICES ASSUME Inv
               PROVE  TypeOK
    OBVIOUS
  <2>1. \A s \in Scanners : /\ sc[s].size \in 0..MaxScan /\ sc[s].i \in 0..MaxScan
                            /\ sc[s].complete \in 0..sc[s].size
    BY ScanFacts, CountedFacts DEF Locals
  <2> QED
    BY <2>1 DEF Inv, TypeInv, TypeOK
<1> QED
  BY <1>1, PoolInvariance, PTL

\* When range_scan_by_size returns, every position of the result has been filled by
\* a worker, once.
THEOREM ResultsAreReady == Spec => []ResultsReady
<1>1. Inv => ResultsReady
  BY DoneClean DEF ResultsReady
<1> QED
  BY <1>1, PoolInvariance, PTL

\* No task that points into the frame of a scan is queued or running when the scan
\* has returned.
THEOREM FramesOutliveTasks == Spec => []FrameOutlivesTasks
<1>1. Inv => FrameOutlivesTasks
  <2> SUFFICES ASSUME Inv, NEW s \in Scanners, sc[s].pc = "done", NEW w \in Workers, NEW k \in Live(w),
                      TaskAt(w, k).scan = s
               PROVE  FALSE
    <3>1. Inv => \A w \in Workers : wpc[w] = "task" => 0 \in Live(w) /\ TaskAt(w, 0) = cur[w]
      <4>1. Inv => \A w \in Workers : Len(tasks[w]) \in Nat
        BY DEF Inv, TypeInv
      <4> QED
        BY <4>1 DEF Live, TaskAt
    <3>2. \A w \in Workers : \A k \in 1..Len(tasks[w]) : k \in Live(w) /\ TaskAt(w, k) = tasks[w][k]
      BY DEF Live, TaskAt
    <3> QED
      BY <3>1, <3>2 DEF FrameOutlivesTasks
  <2>1. PICK t \in Task : t = TaskAt(w, k)
    BY LiveTask DEF Inv
  <2>2. k \in Nat /\ TaskOK(t, Seen(sc[s]), filled[s])
    BY <2>1, LiveTask DEF Inv, TasksInv
  <2>3. t.pos \in Seq(Positions) /\ t.pos # <<>>
    BY <2>2 DEF Task, TaskOK
  <2>4. 1 \in 1..Len(t.pos) /\ t.pos[1] \in Positions
    BY <2>3
  <2>5. Claimed(s, t.pos[1])
    BY <2>1, <2>2, <2>4 DEF Claimed, Has, Within
  <2> QED
    BY <2>4, <2>5, DoneClean
<1> QED
  BY <1>1, PoolInvariance, PTL
=============================================================================
