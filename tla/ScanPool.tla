------------------------------ MODULE ScanPool ------------------------------
(***************************************************************************)
(* logdb::range_scan_by_size (include/logdb.h) with SCAN_USE_THREAD_POOL:  *)
(* the positions of the result are handed in batches to the pool of the    *)
(* NUMA node that holds the log, and the scanner spins on a counter in its *)
(* own frame until the workers have filled all of them.                    *)
(***************************************************************************)
EXTENDS ThreadPool

CONSTANTS Scanners,
          Batch,      \* positions of one node that are sent at once (15)
          LogsOn,     \* bound: the nodes that hold the logs a scanner meets
          Sizes,      \* bound: the sizes of a scanner's scan
          MaxScan     \* bound: positions of a scan

ASSUME ScanPoolAssumption ==
  /\ Batch \in Nat \ {0} /\ MaxScan \in Nat \ {0}
  /\ Sizes \in [Scanners -> SUBSET (0..MaxScan)]
  /\ LogsOn \in [Scanners -> SUBSET Nodes \ {{}}]

VARIABLES
  sc,       \* the scanners: place in the call and its locals
  filled    \* history: how often a worker wrote each position of result

vars == <<poolVars, sc, filled>>

Positions == 1..MaxScan

Init ==
  /\ PoolInit
  /\ sc = [s \in Scanners |-> [pc |-> "start", size |-> 0, i |-> 0, n |-> 0, tid |-> 0, rest |-> FALSE,
                               pos |-> [n \in Nodes |-> <<>>], complete |-> 0]]
  /\ filled = [s \in Scanners |-> [p \in Positions |-> 0]]

\* The index has found `size` keys.
Start(s) ==
  /\ sc[s].pc = "start"
  /\ \E size \in Sizes[s] :
       sc' = [sc EXCEPT ![s].size = size, ![s].i = 1,
                        ![s].pc = IF size = 0 THEN "done" ELSE "pos"]
  /\ UNCHANGED <<poolVars, filled>>

\* Behind the last position: what is left for node j and the nodes after it is
\* sent too.
SendRest(c, j) ==
  LET left == {n \in Nodes : n >= j /\ c.pos[n] # <<>>}
      n == CHOOSE m \in left : \A k \in left : m <= k
  IN IF left = {} THEN [c EXCEPT !.pc = "spin"]
     ELSE [c EXCEPT !.pc = "pick", !.n = n, !.rest = TRUE]

NextPosition(c) ==
  IF c.i = c.size THEN SendRest(c, 1) ELSE [c EXCEPT !.pc = "pos", !.i = @ + 1]

FullBatch(arr) == Len(arr) % Batch = 0

\* numa_pos_arr[numa_id].push_back(i), for a log on one of the nodes.
Position(s) ==
  /\ sc[s].pc = "pos"
  /\ \E n \in LogsOn[s] :
       LET c == [sc[s] EXCEPT !.pos[n] = Append(@, sc[s].i)]
       IN sc' = [sc EXCEPT ![s] = IF FullBatch(c.pos[n]) THEN [c EXCEPT !.pc = "pick", !.n = n]
                                  ELSE NextPosition(c)]
  /\ UNCHANGED <<poolVars, filled>>

\* execute reads the busy bits and picks a worker, then locks its queue.
Pick(s) ==
  /\ sc[s].pc = "pick"
  /\ \E i \in Choices(sc[s].n) : sc' = [sc EXCEPT ![s].tid = i, ![s].pc = "enqueue"]
  /\ UNCHANGED <<poolVars, filled>>

Execute(s) ==
  /\ sc[s].pc = "enqueue"
  /\ Enqueue(<<sc[s].n, sc[s].tid>>, [scan |-> s, pos |-> sc[s].pos[sc[s].n],
                                          left |-> sc[s].pos[sc[s].n]])
  /\ sc' = [sc EXCEPT ![s].pc = "notify"]
  /\ UNCHANGED filled

\* What follows execute, in the loop over the positions or behind it.
\* Mutant: the positions that were sent are not cleared.
SentKept(c) == IF c.rest THEN SendRest(c, c.n + 1) ELSE NextPosition(c)

Sent(c) == IF c.rest THEN SendRest(c, c.n + 1)
           ELSE NextPosition([c EXCEPT !.pos[c.n] = <<>>])

ExecuteNotify(s) ==
  /\ sc[s].pc = "notify"
  /\ NotifyWorker(<<sc[s].n, sc[s].tid>>)
  /\ sc' = [sc EXCEPT ![s] = Sent(@)]
  /\ UNCHANGED filled

\* The spin ends when the count is exactly the size of the scan.
Return(s) ==
  /\ sc[s].pc = "spin" /\ sc[s].complete = sc[s].size
  /\ sc' = [sc EXCEPT ![s].pc = "done"]
  /\ UNCHANGED <<poolVars, filled>>

----------------------------------------------------------------------------
(* scan_help: one position after the other, then the count.                *)

Fill(w) ==
  /\ wpc[w] = "task" /\ cur[w].left # <<>>
  /\ filled' = [filled EXCEPT ![cur[w].scan][Head(cur[w].left)] = @ + 1]
  /\ cur' = [cur EXCEPT ![w].left = Tail(@)]
  /\ UNCHANGED <<tasks, wpc, busy, stop, down, sc>>

\* Mutant: the last position of a batch is counted and not filled.
CountButLast(w) ==
  /\ wpc[w] = "task" /\ Len(cur[w].left) <= 1
  /\ sc' = [sc EXCEPT ![cur[w].scan].complete = @ + Len(cur[w].pos)]
  /\ Finish(w)
  /\ UNCHANGED filled

Count(w) ==
  /\ wpc[w] = "task" /\ cur[w].left = <<>>
  /\ sc' = [sc EXCEPT ![cur[w].scan].complete = @ + Len(cur[w].pos)]
  /\ Finish(w)
  /\ UNCHANGED filled

----------------------------------------------------------------------------
Scan(s) ==
  Position(s) \/ Pick(s) \/ Execute(s) \/ ExecuteNotify(s) \/ Return(s)

Work(w) == (Worker(w) /\ UNCHANGED <<sc, filled>>) \/ Fill(w) \/ Count(w)

Quiet == \A s \in Scanners : sc[s].pc = "done"

PoolDown(n) ==
  /\ Destructor(n)
  /\ UNCHANGED <<sc, filled>>

Next ==
  \/ \E s \in Scanners : Start(s) \/ Scan(s)
  \/ \E w \in Workers : Work(w) \/ (SpuriousWake(w) /\ UNCHANGED <<sc, filled>>)
  \/ \E n \in Nodes : \/ Quiet /\ Destroy(n) /\ UNCHANGED <<sc, filled>>
                      \/ PoolDown(n)

\* Scanners in a call, workers and destructors run; calls need not be made, and
\* nothing is assumed of wake-ups without a notification.
Fairness ==
  /\ \A s \in Scanners : WF_vars(Scan(s))
  /\ \A w \in Workers : WF_vars(Work(w))
  /\ \A n \in Nodes : WF_vars(PoolDown(n))

Spec == Init /\ [][Next]_vars /\ Fairness

----------------------------------------------------------------------------
\* Every variable keeps its type, and a scan never counts more positions than
\* it has: past its size the spin (logdb.h:388) would never end.
TypeOK ==
  /\ wpc \in [Workers -> {"top", "wait", "woken", "task", "done"}]
  /\ busy \subseteq Workers /\ stop \subseteq Workers
  /\ \A s \in Scanners : /\ sc[s].size \in 0..MaxScan /\ sc[s].i \in 0..MaxScan
                         /\ sc[s].complete \in 0..sc[s].size
  /\ filled \in [Scanners -> [Positions -> 0..1]]

\* When range_scan_by_size returns, workers of whatever pools have filled every
\* position of the result, each once (logdb.h:166-180, 388).
ResultsReady ==
  \A s \in Scanners : sc[s].pc = "done" =>
     \A p \in Positions : filled[s][p] = IF p <= sc[s].size THEN 1 ELSE 0

\* No task that holds pointers into the frame of a scan, to its counter and to
\* its result, is queued or running once the scan has returned (logdb.h:372-388).
FrameOutlivesTasks ==
  \A s \in Scanners : sc[s].pc = "done" =>
     \A w \in Workers : /\ wpc[w] = "task" => cur[w].scan # s
                        /\ \A k \in 1..Len(tasks[w]) : tasks[w][k].scan # s

\* A scan ends: no batch is left behind in a queue whose worker sleeps, also
\* when two scanners pick the same worker (thread_pool.h:68, 129).
ScanEnds == \A s \in Scanners : (sc[s].pc = "pos") ~> (sc[s].pc = "done")

\* The destructor of a pool joins all its workers (thread_pool.h:50-58).
PoolStops == \A n \in Nodes : (down[n].pc = "stop") ~> (down[n].pc = "down")
=============================================================================
