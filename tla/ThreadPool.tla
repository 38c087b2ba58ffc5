----------------------------- MODULE ThreadPool -----------------------------
(***************************************************************************)
(* The thread pools of include/thread_pool.h: one pool per NUMA node, each *)
(* worker with a queue, a mutex and a condition variable of its own, and   *)
(* one word of busy bits per pool that is read and written without a lock. *)
(*                                                                         *)
(* A section under a worker's mutex is one step.  What a task does is left *)
(* to the module that submits tasks.  The pool is destroyed only when no   *)
(* call of execute is under way, as the lifetime of an object demands, so  *)
(* the exception for a stopped worker is never thrown.                     *)
(***************************************************************************)
EXTENDS Integers, Sequences, FiniteSets

CONSTANTS NumNodes,      \* numa_node_num: one pool for each node
          PoolThreads    \* PER_THREAD_POOL_THREADS: the workers of a pool

ASSUME ThreadPoolAssumption == NumNodes \in Nat \ {0} /\ PoolThreads \in Nat \ {0}

Nodes == 1..NumNodes
Threads == 1..PoolThreads
Workers == Nodes \X Threads

VARIABLES
  tasks,    \* the queue of every worker
  wpc,      \* top: about to lock; wait: in cv.wait; woken; task; done
  cur,      \* the task a worker runs
  busy,     \* the workers whose busy bit is set
  stop,     \* the workers that are told to stop
  down      \* per pool, the destructor: its place and the worker it is at

poolVars == <<tasks, wpc, cur, busy, stop, down>>

PoolInit ==
  /\ tasks = [w \in Workers |-> <<>>]
  /\ wpc = [w \in Workers |-> "top"]
  /\ cur = [w \in Workers |-> <<>>]
  /\ busy = {} /\ stop = {}
  /\ down = [n \in Nodes |-> [pc |-> "up", at |-> 0]]

----------------------------------------------------------------------------
(* Worker::routine.                                                        *)

Take(w) ==
  /\ cur' = [cur EXCEPT ![w] = Head(tasks[w])]
  /\ tasks' = [tasks EXCEPT ![w] = Tail(@)]
  /\ wpc' = [wpc EXCEPT ![w] = "task"]

\* A worker that finds a task leaves its busy bit as it is.
WorkerNext(w) ==
  /\ wpc[w] = "top" /\ tasks[w] # <<>>
  /\ Take(w)
  /\ UNCHANGED <<busy, stop, down>>

\* The predicate is looked at before the wait.
WorkerIdle(w) ==
  /\ wpc[w] = "top" /\ tasks[w] = <<>>
  /\ busy' = busy \ {w}
  /\ wpc' = [wpc EXCEPT ![w] = IF w \in stop THEN "done" ELSE "wait"]
  /\ UNCHANGED <<tasks, cur, stop, down>>

\* cv.wait may return without a notification.  One that finds the predicate
\* false waits again, and nobody sees a difference.
SpuriousWake(w) ==
  /\ wpc[w] = "wait" /\ (tasks[w] # <<>> \/ w \in stop)
  /\ wpc' = [wpc EXCEPT ![w] = "woken"]
  /\ UNCHANGED <<tasks, cur, busy, stop, down>>

WorkerWake(w) ==
  /\ wpc[w] = "woken"
  /\ \/ tasks[w] # <<>> /\ Take(w) /\ busy' = busy \cup {w}
     \/ /\ tasks[w] = <<>>
        /\ wpc' = [wpc EXCEPT ![w] = IF w \in stop THEN "done" ELSE "wait"]
        /\ UNCHANGED <<tasks, cur, busy>>
  /\ UNCHANGED <<stop, down>>

\* The end of a task: the worker goes round its loop.
Finish(w) ==
  /\ wpc' = [wpc EXCEPT ![w] = "top"]
  /\ cur' = [cur EXCEPT ![w] = <<>>]
  /\ UNCHANGED <<tasks, busy, stop, down>>

----------------------------------------------------------------------------
(* execute and execute_forward, in the steps that others can see.          *)

\* The lowest worker whose busy bit is clear, or, when all are set, any.
Choices(n) ==
  LET idle == {i \in Threads : <<n, i>> \notin busy}
  IN IF idle = {} THEN Threads ELSE {i \in idle : \A j \in idle : i <= j}

Enqueue(w, task) ==
  /\ tasks' = [tasks EXCEPT ![w] = Append(@, task)]
  /\ UNCHANGED <<wpc, cur, busy, stop, down>>

\* Mutant: nobody is notified.
NotifyNobody(w) == UNCHANGED wpc

\* cv.notify_one: without effect unless the worker is waiting.
Notify(w) == wpc' = [wpc EXCEPT ![w] = IF @ = "wait" THEN "woken" ELSE @]

NotifyWorker(w) == Notify(w) /\ UNCHANGED <<tasks, cur, busy, stop, down>>

----------------------------------------------------------------------------
(* ~ThreadPool destroys the workers in turn: stop, notify, join.           *)

At(n) == <<n, down[n].at>>

Destroy(n) ==
  /\ down[n].pc = "up"
  /\ down' = [down EXCEPT ![n] = [pc |-> "stop", at |-> 1]]
  /\ UNCHANGED <<tasks, wpc, cur, busy, stop>>

DestroyStop(n) ==
  /\ down[n].pc = "stop"
  /\ stop' = stop \cup {At(n)}
  /\ down' = [down EXCEPT ![n].pc = "notify"]
  /\ UNCHANGED <<tasks, wpc, cur, busy>>

DestroyNotify(n) ==
  /\ down[n].pc = "notify"
  /\ Notify(At(n))
  /\ down' = [down EXCEPT ![n].pc = "join"]
  /\ UNCHANGED <<tasks, cur, busy, stop>>

DestroyJoin(n) ==
  /\ down[n].pc = "join" /\ wpc[At(n)] = "done"
  /\ down' = [down EXCEPT ![n] =
                IF @.at + 1 \in Threads THEN [pc |-> "stop", at |-> @.at + 1]
                ELSE [pc |-> "down", at |-> @.at]]
  /\ UNCHANGED <<tasks, wpc, cur, busy, stop>>

Worker(w) == WorkerNext(w) \/ WorkerIdle(w) \/ WorkerWake(w)
Destructor(n) == DestroyStop(n) \/ DestroyNotify(n) \/ DestroyJoin(n)
=============================================================================
