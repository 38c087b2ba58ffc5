------------------------------- MODULE LogGC -------------------------------
(***************************************************************************)
(* The collector of src/src/nali_kvlog.h (do_gc) at work beside the        *)
(* foreground threads of LogDB.  Pass 1 goes over the logs of every page   *)
(* but the newest, from the highest page id down, walks back from each     *)
(* UPDATE and DELETE log along the addresses of the key's older logs and   *)
(* marks those TRASH; pass 2 applies the logs that are left in a page with *)
(* enough trash once more, as updates through logdb.                       *)
(*                                                                         *)
(* One shard of one node is modelled: a chain of old logs stays in the     *)
(* key's shard, and a collector thread has its shards for itself.  Logs    *)
(* have one length, so slot a lies in page a \div PageSlots.               *)
(***************************************************************************)
EXTENDS LogDB, Sequences, FiniteSets

CONSTANTS
  Collector,    \* the collector's thread, one of Threads
  PageSlots,    \* PPAGE_SIZE / 32
  FreedEnough,  \* GC_THRESHOLD * PPAGE_SIZE / 32
  EraseAbsent   \* do callers erase keys that the index does not hold

ASSUME LogGCConstants ==
  /\ Collector \in Threads
  /\ PageSlots \in Nat \ {0}
  /\ FreedEnough \in Nat \ {0}
  /\ EraseAbsent \in BOOLEAN

PageOf(a) == a \div PageSlots
LastFile == PageOf(MaxLogs - 1)
Pages == 0 .. LastFile

VARIABLES
  gpc,      \* where do_gc is
  pass,     \* 1: mark, 2: apply again
  file_id, offset,   \* the page and the slot do_gc is at
  next_old_log,      \* the address the walk follows next
  old_log,           \* the addresses the walk has collected
  sz_freed           \* global_ppage_meta::sz_freed, in logs

gcvars == <<gpc, pass, file_id, offset, next_old_log, old_log, sz_freed>>
allvars == <<vars, gcvars>>

GCInit ==
  /\ Init
  /\ gpc = "off"
  /\ pass = 1
  /\ file_id = LastFile
  /\ offset = 0
  /\ next_old_log = None
  /\ old_log = <<>>
  /\ sz_freed = [p \in Pages |-> 0]

\* header_.ppage_id, which do_gc reads without the latch.
NewestPage == IF nlog = 0 THEN 0 ELSE PageOf(nlog - 1)

This == log[file_id * PageSlots + offset]

-----------------------------------------------------------------------------
\* begin_gc is set, somewhere in the benchmark.
BeginGC ==
  /\ gpc = "off"
  /\ gpc' = "page"
  /\ UNCHANGED <<pass, file_id, offset, next_old_log, old_log, sz_freed>>

\* The next smaller file id, the next pass, or the end.
LeavePage ==
  IF file_id > 0 THEN gpc' = "page" /\ file_id' = file_id - 1 /\ UNCHANGED pass
  ELSE IF pass = 1 THEN gpc' = "page" /\ file_id' = LastFile /\ pass' = 2
  ELSE gpc' = "done" /\ UNCHANGED <<file_id, pass>>

Collectable == NewestPage > file_id /\ (pass = 2 => sz_freed[file_id] >= FreedEnough)

SkipPage ==
  /\ gpc = "page"
  /\ ~Collectable
  /\ LeavePage
  /\ UNCHANGED <<offset, next_old_log, old_log, sz_freed>>

EnterPage ==
  /\ gpc = "page"
  /\ Collectable
  /\ gpc' = "log"
  /\ offset' = 0
  /\ UNCHANGED <<pass, file_id, next_old_log, old_log, sz_freed>>

\* A page is done; pass 2 forgets how much of it was freed.
EndPage ==
  /\ gpc = "log"
  /\ offset = PageSlots
  /\ sz_freed' = IF pass = 2 THEN [sz_freed EXCEPT ![file_id] = 0] ELSE sz_freed
  /\ LeavePage
  /\ UNCHANGED <<offset, next_old_log, old_log>>

\* INSERT and TRASH logs are passed over in pass 1, DELETE and TRASH in pass 2.
SkipLog ==
  /\ gpc = "log"
  /\ offset < PageSlots
  /\ This.op \in IF pass = 1 THEN {"INSERT", "TRASH"} ELSE {"DELETE", "TRASH"}
  /\ offset' = offset + 1
  /\ UNCHANGED <<gpc, pass, file_id, next_old_log, old_log, sz_freed>>

\* Mutant: an UPDATE is taken for trash itself.
StartWalkHere ==
  /\ gpc = "log" /\ pass = 1
  /\ offset < PageSlots
  /\ This.op \in {"UPDATE", "DELETE"}
  /\ old_log' = <<file_id * PageSlots + offset>>
  /\ next_old_log' = This.old
  /\ gpc' = "walk"
  /\ UNCHANGED <<pass, file_id, offset, sz_freed>>

\* An UPDATE makes its older logs trash, a DELETE itself as well.
StartWalk ==
  /\ gpc = "log" /\ pass = 1
  /\ offset < PageSlots
  /\ This.op \in {"UPDATE", "DELETE"}
  /\ old_log' = IF This.op = "DELETE" THEN <<file_id * PageSlots + offset>> ELSE <<>>
  /\ next_old_log' = This.old
  /\ gpc' = "walk"
  /\ UNCHANGED <<pass, file_id, offset, sz_freed>>

\* A key's oldest log has no older one (its u_offset is all 1s).
HasOlder == next_old_log # None /\ log[next_old_log].op # "TRASH"

Walk ==
  /\ gpc = "walk"
  /\ HasOlder
  /\ old_log' = Append(old_log, next_old_log)
  /\ next_old_log' = log[next_old_log].old
  /\ UNCHANGED <<gpc, pass, file_id, offset, sz_freed>>

EndWalk ==
  /\ gpc = "walk"
  /\ ~HasOlder
  /\ gpc' = "trash"
  /\ next_old_log' = None
  /\ UNCHANGED <<pass, file_id, offset, old_log, sz_freed>>

\* Mutant: the log is counted for the page that is being scanned.
TrashCountedHere ==
  /\ gpc = "trash"
  /\ old_log # <<>>
  /\ log' = [log EXCEPT ![old_log[Len(old_log)]].op = "TRASH"]
  /\ sz_freed' = [sz_freed EXCEPT ![file_id] = @ + 1]
  /\ old_log' = SubSeq(old_log, 1, Len(old_log) - 1)
  /\ UNCHANGED <<gpc, pass, file_id, offset, next_old_log>>

\* From the oldest log to the newest: op = TRASH and the page's count.
Trash ==
  /\ gpc = "trash"
  /\ old_log # <<>>
  /\ LET a == old_log[Len(old_log)]
     IN /\ log' = [log EXCEPT ![a].op = "TRASH"]
        /\ sz_freed' = [sz_freed EXCEPT ![PageOf(a)] = @ + 1]
  /\ old_log' = SubSeq(old_log, 1, Len(old_log) - 1)
  /\ UNCHANGED <<gpc, pass, file_id, offset, next_old_log>>

\* Mutant: the scan does not go on to the next log.
EndTrashInPlace ==
  /\ gpc = "trash"
  /\ old_log = <<>>
  /\ gpc' = "log"
  /\ UNCHANGED <<pass, file_id, offset, next_old_log, old_log, sz_freed>>

EndTrash ==
  /\ gpc = "trash"
  /\ old_log = <<>>
  /\ gpc' = "log"
  /\ offset' = offset + 1
  /\ UNCHANGED <<pass, file_id, next_old_log, old_log, sz_freed>>

\* Pass 2: db_->update(log_->_key, log_->_value), an update like any other.
Apply ==
  /\ gpc = "log" /\ pass = 2
  /\ offset < PageSlots
  /\ This.op \in {"INSERT", "UPDATE"}
  /\ UpdateAlloc(Collector, This.key, This.value)
  /\ gpc' = "apply"
  /\ UNCHANGED <<pass, file_id, offset, next_old_log, old_log, sz_freed>>

EndApply ==
  /\ gpc = "apply"
  /\ pc[Collector] = "idle"
  /\ gpc' = "log"
  /\ offset' = offset + 1
  /\ UNCHANGED <<pass, file_id, next_old_log, old_log, sz_freed>>

-----------------------------------------------------------------------------
\* The steps of do_gc that touch nothing of LogDB's.
Scan == BeginGC \/ SkipPage \/ EnterPage \/ EndPage \/ SkipLog \/ StartWalk
        \/ Walk \/ EndWalk \/ EndTrash \/ EndApply

CollectorStep ==
  \/ Scan /\ UNCHANGED vars
  \/ Trash /\ UNCHANGED <<index, nlog, cache, get_cnt, pc, key, val, addr, old, abs, seen>>
  \/ Apply
  \/ Continue(Collector) /\ UNCHANGED gcvars

\* A caller that erases only keys it knows are there.
Permitted(t) == EraseAbsent \/ (pc'[t] = "ers_index" => index[key'[t]] # None)

\* Searches are left out: without the cache they change nothing shared, and the
\* collector changes no address and no value that a search reads.
Foreground(t) ==
  /\ \/ WriteCall(t) /\ Permitted(t)
     \/ Continue(t)
  /\ UNCHANGED gcvars

\* do_gc is over, or the log is full, and the foreground may go on or not.
Quiet == (gpc \in {"off", "done"} \/ nlog = MaxLogs) /\ UNCHANGED allvars

GCNext == Quiet \/ CollectorStep \/ \E t \in Threads \ {Collector} : Foreground(t)

GCSpec == GCInit /\ [][GCNext]_allvars

\* The collector's thread runs; it waits for nobody.
FairGC == GCSpec /\ WF_allvars(CollectorStep)

-----------------------------------------------------------------------------
\* sz_freed is what pass 2 decides by: it counts every trashed log once, in the
\* page the log lies in, whatever page the walk started from.
Trashed(p) == {a \in Addrs : PageOf(a) = p /\ log[a].op = "TRASH" /\ log[a] # Unwritten}
FreedExact == pass = 1 => \A p \in Pages : sz_freed[p] = Cardinality(Trashed(p))

\* "The oldest log's next log address is all 1s" (do_gc): a walk comes to an
\* end, since it never comes back to a log it has collected.
WalkEnds == \A i, j \in 1 .. Len(old_log) : old_log[i] = old_log[j] => i = j

\* A collection that was begun is completed (gc_complete++), however the
\* foreground threads extend the chains it walks, or the log is full and the
\* process exits.
CollectionCompletes == gpc # "off" ~> (gpc = "done" \/ nlog = MaxLogs)

\* do_gc's comment: an INSERT or UPDATE log is looked up in the index to see
\* whether it is valid, and only a valid one is applied again.  So the collector
\* never changes the value of a key.
CollectorKeepsValues == [][CollectorStep => abs' = abs]_allvars
=============================================================================
