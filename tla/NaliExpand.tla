----------------------------- MODULE NaliExpand -----------------------------
(***************************************************************************)
(* The concurrency of the Nali index (src/src/nali.h): Put, Update, Delete *)
(* and Get of several threads against ExpandTree, which builds a new array *)
(* of groups, frees the old one and publishes the new one.                 *)
(*                                                                         *)
(* A group is the sequence of its entries, each an entry key and a bucket; *)
(* buckets live in a heap of their own, because ExpandTree copies the      *)
(* pointers to them and not their contents.  A version is one pair of      *)
(* group_space and lock_space.  The layers between a group and its buckets *)
(* (PointerBEntry, group::expand) and the learned model's error are the    *)
(* subject of NaliGroup; here a group is one PointerBEntry and the model   *)
(* predicts the rank of a key among the entry keys it was trained on.      *)
(*                                                                         *)
(* Memory that was freed may hold anything: a thread that uses it goes to  *)
(* "wild" and stops there.                                                 *)
(***************************************************************************)
EXTENDS Integers, Sequences, FiniteSets

CONSTANTS Threads,
          Keys,          \* a set of positive integers
          Calls,         \* bound: the calls made, pairs of operation and key
          Loaded,        \* the loaded tree: its groups, buckets and model
          BucketCap,     \* max_entries of a bucket (15)
          MaxEntries,    \* max_entry_count (1024)
          MinEntries,    \* min_entry_count (64)
          MaxVersions,   \* bound: versions of the tree, the first included
          MaxOps         \* bound: operations started

ASSUME NaliExpandAssumption ==
  /\ Keys \subseteq Nat \ {0}
  /\ Calls \subseteq {"put", "update", "delete", "get"} \X Keys
  /\ BucketCap \in Nat \ {0, 1} /\ MaxEntries \in Nat /\ MinEntries \in Nat \ {0}
  /\ MaxVersions \in Nat \ {0} /\ MaxOps \in Nat

VARIABLES
  flag,       \* is_tree_expand
  waiting,    \* the threads in expand_wait_cv.wait
  model,      \* Nali::model: the entry keys it was trained on
  space,      \* the group arrays of all versions
  bkt,        \* the buckets: a sequence of sets of keys
  locked,     \* per version, the groups whose Spinlock is set
  freed,      \* the versions whose arrays were deleted
  gs, ls,     \* the versions that group_space and lock_space point to
  th,         \* the threads: program counter, operation and locals
  xpos, xat,  \* ExpandTree: old groups copied, entries copied of the next one
  xnew, xres, \* ExpandTree: the new groups, the room reserved in each
  xcount,     \* ExpandTree: entry_count, from the training until it is used
  acked,      \* history: the keys whose Put returned, less the deleted
  strayed,    \* history: an operation worked on a tree it did not belong to
  ops         \* bound: operations started

expandVars == <<xpos, xat, xnew, xres, xcount>>
memory == <<model, space, bkt, freed, gs, ls>>
vars == <<flag, waiting, memory, locked, th, expandVars, acked, strayed, ops>>

ExpandSteps == {"train", "count", "copy", "free", "groups", "locks", "clear", "notify"}

----------------------------------------------------------------------------
(* Routing: the model, find_group and the entry of a key.                  *)

Rank(trained, k) == LET r == Cardinality({x \in trained : x <= k})
                    IN IF r = 0 THEN 0 ELSE r - 1

\* model.predict(key) / min_entry_count, clamped to the groups there are.
Predicted(trained, k, n) ==
  LET g == 1 + (Rank(trained, k) \div MinEntries) IN IF g > n THEN n ELSE g

FindGroup(groups, trained, k) ==
  LET start == Predicted(trained, k, Len(groups))
      Fits(g) == groups[g] # <<>> /\ groups[g][1].low <= k
      left == {g \in 1..start : g = 1 \/ Fits(g)}
      stop == CHOOSE g \in left : \A h \in left : h <= g
  IN CHOOSE g \in stop..Len(groups) :
        groups[g] # <<>> /\ \A h \in stop..(g - 1) : groups[h] = <<>>

\* The last entry whose key is not above k, or the first.
FindEntry(group, k) ==
  LET below == {i \in 1..Len(group) : group[i].low <= k}
  IN IF below = {} THEN 1 ELSE CHOOSE i \in below : \A j \in below : j <= i

FoundIn(group, k) == group # <<>> /\ k \in bkt[group[FindEntry(group, k)].b]

\* Nali::Get with nobody else running.
Found(k) == FoundIn(space[gs][FindGroup(space[gs], model, k)], k)

EntryKeys(groups) ==
  UNION {{groups[g][i].low : i \in 1..Len(groups[g])} : g \in 1..Len(groups)}

EntryCount(groups) ==
  Cardinality(UNION {{g} \X (1..Len(groups[g])) : g \in 1..Len(groups)})

\* The larger half of a full bucket, what Expand_ moves to the next one.
UpperHalf(s) ==
  CHOOSE u \in SUBSET s : /\ Cardinality(u) = Cardinality(s) - (Cardinality(s) \div 2)
                          /\ \A x \in u, y \in s \ u : y < x

Least(s) == CHOOSE x \in s : \A y \in s : x <= y

InsertAfter(s, i, e) == SubSeq(s, 1, i) \o <<e>> \o SubSeq(s, i + 1, Len(s))

----------------------------------------------------------------------------
(* What a tree is: entry keys ascend through the groups, the keys of a     *)
(* bucket lie between its entry's and the next, no bucket has two entries, *)
(* and find_group, which only goes left, starts far enough to the right.   *)

Ascending(groups) ==
  \A g, h \in 1..Len(groups) : \A i \in 1..Len(groups[g]), j \in 1..Len(groups[h]) :
    g < h \/ (g = h /\ i < j) => groups[g][i].low < groups[h][j].low

OneEntryEach(groups) ==
  \A g, h \in 1..Len(groups) : \A i \in 1..Len(groups[g]), j \in 1..Len(groups[h]) :
    groups[g][i].b = groups[h][j].b => g = h /\ i = j

InRange(groups, buckets) ==
  \A g \in 1..Len(groups) : \A i \in 1..Len(groups[g]) :
    /\ groups[g][i].b \in 1..Len(buckets)
    /\ \A k \in buckets[groups[g][i].b] :
         groups[g][i].low <= k /\ \A x \in EntryKeys(groups) : groups[g][i].low < x => k < x

FirstUsed(groups, g) == \A h \in 1..(g - 1) : groups[h] = <<>>

Routed(groups, trained) ==
  \A g \in 1..Len(groups) : groups[g] # <<>> =>
    FirstUsed(groups, g) \/ g <= Predicted(trained, groups[g][1].low, Len(groups))

Sound(groups, buckets) ==
  /\ Ascending(groups) /\ OneEntryEach(groups) /\ InRange(groups, buckets)
  /\ \E g \in 1..Len(groups) : groups[g] # <<>>

\* The load has made such a tree.
ASSUME LoadedAssumption ==
  /\ Loaded.groups \in Seq(Seq([low : Keys, b : Nat]))
  /\ Loaded.buckets \in Seq(SUBSET Keys)
  /\ \A b \in 1..Len(Loaded.buckets) : /\ IsFiniteSet(Loaded.buckets[b])
       /\ \E g \in 1..Len(Loaded.groups) : \E i \in 1..Len(Loaded.groups[g]) : Loaded.groups[g][i].b = b
  /\ Loaded.trained \subseteq Keys /\ IsFiniteSet(Loaded.trained)
  /\ Sound(Loaded.groups, Loaded.buckets) /\ Routed(Loaded.groups, Loaded.trained)

----------------------------------------------------------------------------
Idle == [pc |-> "idle", op |-> "get", key |-> 0, gid |-> 0, gv |-> 0, lv |-> 0,
         wv |-> 0, pos |-> 0, nb |-> 0, ret |-> "none"]

Go(t, pc) == th' = [th EXCEPT ![t].pc = pc]

\* Use of memory that was deleted, or past the end of an array.
Wild(t) == /\ Go(t, "wild") /\ strayed' = TRUE
           /\ UNCHANGED <<flag, waiting, memory, locked, expandVars, acked, ops>>

Live(v) == v \notin freed
\* The array the call on group_space[group_id] works on: the one of the moment
\* the call is made, until it returns.
WorkVersion(t) == IF th[t].wv = 0 THEN gs ELSE th[t].wv
InGroups(t) == LET v == WorkVersion(t) IN
  Live(v) /\ th[t].gid <= Len(space[v]) /\ space[v][th[t].gid] # <<>>
InLocks(t, v) == Live(v) /\ th[t].gid <= Len(space[v])

\* Nali::Init and the puts of a load.
Init ==
  /\ flag = FALSE /\ waiting = {} /\ freed = {} /\ gs = 1 /\ ls = 1
  /\ space = <<Loaded.groups>> /\ bkt = Loaded.buckets /\ model = Loaded.trained
  /\ locked = <<{}>>
  /\ th = [t \in Threads |-> Idle]
  /\ xpos = 0 /\ xat = 0 /\ xnew = <<>> /\ xres = <<>> /\ xcount = 0
  /\ acked = UNION {bkt[b] : b \in 1..Len(bkt)}
  /\ strayed = FALSE /\ ops = 0

\* trans_begin reads the flag first; the wait is a second step.
Entry == IF flag THEN "block" ELSE "find"

\* A call of the adapter, which begins with trans_begin.  Keys are put once, and
\* calls on one key that change it do not overlap: those are LogDB's subject.
Start(t, o, k) ==
  /\ th[t].pc = "idle" /\ ops < MaxOps
  /\ o = "put" => k \notin acked
  /\ o # "get" => \A u \in Threads : th[u].pc = "idle" \/ th[u].op = "get" \/ th[u].key # k
  /\ th' = [th EXCEPT ![t] = [Idle EXCEPT !.pc = Entry, !.op = o, !.key = k]]
  /\ ops' = ops + 1
  /\ UNCHANGED <<flag, waiting, memory, locked, expandVars, acked, strayed>>

\* retry0 of Put.
Retry(t) ==
  /\ th[t].pc = "begin"
  /\ Go(t, Entry)
  /\ UNCHANGED <<flag, waiting, memory, locked, expandVars, acked, strayed, ops>>

Block(t) ==
  /\ th[t].pc = "block"
  /\ waiting' = waiting \cup {t}
  /\ Go(t, "wait")
  /\ UNCHANGED <<flag, memory, locked, expandVars, acked, strayed, ops>>

\* The wait may end without a notification, and the flag is not read again.
SpuriousWake(t) ==
  /\ th[t].pc = "wait"
  /\ waiting' = waiting \ {t}
  /\ Go(t, "find")
  /\ UNCHANGED <<flag, memory, locked, expandVars, acked, strayed, ops>>

\* find_group of Put, Update and Delete.
Find(t) ==
  /\ th[t].pc = "find" /\ th[t].op # "get"
  /\ \/ /\ Live(gs)
        /\ th' = [th EXCEPT ![t].gid = FindGroup(space[gs], model, th[t].key),
                            ![t].gv = gs, ![t].pc = "lock"]
        /\ UNCHANGED <<flag, waiting, memory, locked, expandVars, acked, strayed, ops>>
     \/ ~Live(gs) /\ Wild(t)

\* Get: find_fast looks only in the predicted group, find_slow in find_group's.
Get(t) ==
  /\ th[t].pc = "find" /\ th[t].op = "get"
  /\ \/ /\ Live(gs)
        /\ th' = [th EXCEPT ![t] =
             IF FoundIn(space[gs][Predicted(model, @.key, Len(space[gs]))], @.key)
             THEN Idle ELSE [@ EXCEPT !.pc = "slow"]]
        /\ UNCHANGED <<flag, waiting, memory, locked, expandVars, acked, strayed, ops>>
     \/ ~Live(gs) /\ Wild(t)

GetSlow(t) ==
  /\ th[t].pc = "slow"
  /\ \/ /\ Live(gs)
        /\ th' = [th EXCEPT ![t] = Idle]
        /\ UNCHANGED <<flag, waiting, memory, locked, expandVars, acked, strayed, ops>>
     \/ ~Live(gs) /\ Wild(t)

\* lock_space[group_id].lock(): the pointer is read, then the thread spins.
LockPointer(t) ==
  /\ th[t].pc = "lock"
  /\ th' = [th EXCEPT ![t].lv = ls, ![t].pc = "spin"]
  /\ UNCHANGED <<flag, waiting, memory, locked, expandVars, acked, strayed, ops>>

Lock(t) ==
  /\ th[t].pc = "spin"
  /\ LET v == th[t].lv IN
     \/ /\ InLocks(t, v) /\ th[t].gid \notin locked[v]
        /\ locked' = [locked EXCEPT ![v] = @ \cup {th[t].gid}]
        /\ Go(t, IF th[t].op = "put" THEN "check" ELSE "work")
        /\ UNCHANGED <<flag, waiting, memory, expandVars, acked, strayed, ops>>
     \/ ~InLocks(t, v) /\ Wild(t)

\* Put looks at the flag once more when it has the lock.
Check(t) ==
  /\ th[t].pc = "check"
  /\ th' = [th EXCEPT ![t].pc = IF flag THEN "unlock" ELSE "work",
                      ![t].ret = IF flag THEN "retry" ELSE "none"]
  /\ UNCHANGED <<flag, waiting, memory, locked, expandVars, acked, strayed, ops>>

\* The group is worked on in another array than the one it was looked up in.
StaleGroup(t) == WorkVersion(t) # th[t].gv

TargetGroup(t) == space[WorkVersion(t)][th[t].gid]
TargetEntry(t) == FindEntry(TargetGroup(t), th[t].key)
TargetBucket(t) == TargetGroup(t)[TargetEntry(t)].b

\* group::Put on a bucket with room, without room in the group, and the two
\* steps of a split: the upper half goes to a new bucket, then its entry is added.
HasRoom(b) == Cardinality(bkt[b]) < BucketCap

PutRoom(t) ==
  LET k == th[t].key  low == TargetGroup(t)[TargetEntry(t)].low IN
  /\ HasRoom(TargetBucket(t))
  /\ bkt' = [bkt EXCEPT ![TargetBucket(t)] = @ \cup {k}]
  /\ space' = [space EXCEPT ![WorkVersion(t)][th[t].gid][TargetEntry(t)].low =
                  IF k < low THEN k ELSE low]
  /\ strayed' = (strayed \/ StaleGroup(t) \/ (flag /\ k < low))
  /\ th' = [th EXCEPT ![t].pc = "unlock", ![t].ret = "ok"]
  /\ UNCHANGED <<flag, waiting, model, locked, freed, gs, ls, expandVars, acked, ops>>

PutFull(t) ==
  /\ ~HasRoom(TargetBucket(t)) /\ Len(TargetGroup(t)) > MaxEntries
  /\ th' = [th EXCEPT ![t].pc = "unlock", ![t].ret = "full", ![t].wv = 0]
  /\ UNCHANGED <<flag, waiting, memory, locked, expandVars, acked, strayed, ops>>

PutSplit(t) ==
  LET b == TargetBucket(t) IN
  /\ ~HasRoom(b) /\ Len(TargetGroup(t)) <= MaxEntries
  /\ bkt' = Append([bkt EXCEPT ![b] = @ \ UpperHalf(@)], UpperHalf(bkt[b]))
  /\ th' = [th EXCEPT ![t].pc = "link", ![t].pos = TargetEntry(t),
                      ![t].wv = WorkVersion(t), ![t].nb = Len(bkt) + 1]
  /\ strayed' = (strayed \/ StaleGroup(t))
  /\ UNCHANGED <<flag, waiting, model, space, locked, freed, gs, ls, expandVars, acked, ops>>

Put(t) ==
  /\ th[t].pc = "work" /\ th[t].op = "put"
  /\ \/ InGroups(t) /\ (PutRoom(t) \/ PutFull(t) \/ PutSplit(t))
     \/ ~InGroups(t) /\ Wild(t)

\* The new entry becomes part of the group the split began in, and Put retries.
Link(t) ==
  /\ th[t].pc = "link"
  /\ LET v == th[t].wv  new == [low |-> Least(bkt[th[t].nb]), b |-> th[t].nb] IN
     \/ /\ Live(v)
        /\ space' = [space EXCEPT ![v][th[t].gid] = InsertAfter(@, th[t].pos, new)]
        /\ strayed' = (strayed \/ flag \/ StaleGroup(t))
        /\ Go(t, "work")
        /\ UNCHANGED <<flag, waiting, model, bkt, locked, freed, gs, ls, expandVars, acked, ops>>
     \/ ~Live(v) /\ Wild(t)

\* Update and Delete lock the group and do not look at the flag again.
UpdateDelete(t) ==
  /\ th[t].pc = "work" /\ th[t].op \in {"update", "delete"}
  /\ \/ /\ InGroups(t)
        /\ LET b == TargetBucket(t)
               gone == {th[t].key} \cap (IF th[t].op = "delete" THEN bkt[b] ELSE {})
           IN /\ bkt' = [bkt EXCEPT ![b] = @ \ gone]
              /\ acked' = acked \ gone
        /\ th' = [th EXCEPT ![t].pc = "unlock", ![t].ret = "done"]
        /\ UNCHANGED <<flag, waiting, model, space, locked, freed, gs, ls, expandVars, strayed, ops>>
     \/ ~InGroups(t) /\ Wild(t)

\* lock_space[group_id].unlock() reads the pointer again: after a publication it
\* clears the flag of another lock than the one taken.
Unlock(t) ==
  /\ th[t].pc = "unlock"
  /\ \/ /\ InLocks(t, ls)
        /\ locked' = [locked EXCEPT ![ls] = @ \ {th[t].gid}]
        /\ strayed' = (strayed \/ ls # th[t].lv)
        /\ acked' = IF th[t].ret = "ok" THEN acked \cup {th[t].key} ELSE acked
        /\ th' = [th EXCEPT ![t] = CASE @.ret = "full" -> [@ EXCEPT !.pc = "expand"]
                                     [] @.ret = "retry" -> [@ EXCEPT !.pc = "begin"]
                                     [] OTHER -> Idle]
        /\ UNCHANGED <<flag, waiting, memory, expandVars, ops>>
     \/ ~InLocks(t, ls) /\ Wild(t)

----------------------------------------------------------------------------
(* ExpandTree.                                                             *)

\* Mutant: the flag is set without a comparison.
ExpandEnterAlways(t) ==
  /\ th[t].pc = "expand" /\ Len(space) < MaxVersions
  /\ flag' = TRUE
  /\ Go(t, "train")
  /\ UNCHANGED <<waiting, memory, locked, expandVars, acked, strayed, ops>>

\* Only the thread whose compare_exchange succeeds goes on.
ExpandEnter(t) ==
  /\ th[t].pc = "expand" /\ Len(space) < MaxVersions
  /\ flag' = TRUE
  /\ Go(t, IF flag THEN "begin" ELSE "train")
  /\ UNCHANGED <<waiting, memory, locked, expandVars, acked, strayed, ops>>

\* group::AdjustEntryKey: min_key of the first bucket, which of an emptied
\* bucket is the last key it held.
AdjustedKeys(groups, g) ==
  LET first == groups[g][1] IN
  IF bkt[first.b] # {} THEN {Least(bkt[first.b])}
  ELSE {k \in Keys : /\ first.low <= k
                     /\ \A x \in EntryKeys(groups) : first.low < x => k < x}

\* The entries are summed, and the model is retrained in place, in use by everybody
\* else.  This pass over the groups and the next are a step each; a link in the
\* middle of one would be a stray like one between them, since the flag is set.
ExpandTrain(t) ==
  /\ th[t].pc = "train"
  /\ LET n == Len(space[gs])
         Used(g) == space[gs][g] # <<>>
     IN \E low \in [1..n -> {0} \cup Keys] :
          /\ \A g \in 1..n : IF Used(g) THEN low[g] \in AdjustedKeys(space[gs], g) ELSE low[g] = 0
          /\ space' = [space EXCEPT ![gs] = [g \in 1..n |->
                IF Used(g) THEN [@[g] EXCEPT ![1].low = low[g]] ELSE @[g]]]
  /\ model' = EntryKeys(space'[gs])
  /\ xcount' = EntryCount(space[gs])
  /\ Go(t, "count")
  /\ UNCHANGED <<flag, waiting, bkt, locked, freed, gs, ls, xpos, xat, xnew, xres, acked, strayed, ops>>

\* inc_reserve: the entries of the old groups that a new group of n will hold.
\* Mutant: the last old group is not counted.
ReservedButLast(old, g, n) ==
  LET Mine(h) == {i \in 1..Len(old[h]) : Predicted(model, old[h][i].low, n) = g}
  IN Cardinality(UNION {{h} \X Mine(h) : h \in 1..(Len(old) - 1)})

Reserved(old, g, n) ==
  LET Mine(h) == {i \in 1..Len(old[h]) : Predicted(model, old[h][i].low, n) = g}
  IN Cardinality(UNION {{h} \X Mine(h) : h \in 1..Len(old)})

\* As many new groups as the training's count asks for, and room in each for the
\* entries counted now.
ExpandCount(t) ==
  /\ th[t].pc = "count"
  /\ LET n == (xcount + MinEntries - 1) \div MinEntries
     IN /\ xnew' = [g \in 1..n |-> <<>>]
        /\ xres' = [g \in 1..n |-> Reserved(space[gs], g, n)]
  /\ xpos' = 0 /\ xat' = 0 /\ xcount' = 0
  /\ Go(t, "copy")
  /\ UNCHANGED <<flag, waiting, memory, locked, acked, strayed, ops>>

\* EntryIter::end.  Mutant: the last entry of a group is left behind.
EndOfGroupEarly(group) == xat + 1 >= Len(group)

EndOfGroup(group) == xat >= Len(group)

\* append_entry: the entry goes to the end of the group the model predicts for it.
Appended(e) == [xnew EXCEPT ![Predicted(model, e.low, Len(xnew))] = Append(@, e)]

\* The entries of the old groups are copied one by one.
ExpandCopy(t) ==
  /\ th[t].pc = "copy"
  /\ \/ /\ xpos < Len(space[gs])
        /\ LET group == space[gs][xpos + 1] IN
           \/ /\ ~EndOfGroup(group)
              /\ xnew' = Appended(group[xat + 1]) /\ xat' = xat + 1 /\ xpos' = xpos
           \/ /\ EndOfGroup(group)
              /\ xpos' = xpos + 1 /\ xat' = 0 /\ xnew' = xnew
        /\ UNCHANGED th
     \/ xpos = Len(space[gs]) /\ Go(t, "free") /\ UNCHANGED <<xnew, xpos, xat>>
  /\ UNCHANGED <<flag, waiting, memory, locked, xres, xcount, acked, strayed, ops>>

\* delete [] group_space and lock_space: nobody is waited for.
ExpandFree(t) ==
  /\ th[t].pc = "free"
  /\ freed' = freed \cup {gs}
  /\ Go(t, "groups")
  /\ UNCHANGED <<flag, waiting, model, space, bkt, gs, ls, locked, expandVars, acked, strayed, ops>>

ExpandPublishGroups(t) ==
  /\ th[t].pc = "groups"
  /\ space' = Append(space, xnew) /\ locked' = Append(locked, {})
  /\ gs' = Len(space) + 1
  /\ xpos' = 0 /\ xat' = 0 /\ xnew' = <<>> /\ xres' = <<>>
  /\ Go(t, "locks")
  /\ UNCHANGED <<flag, waiting, model, bkt, freed, ls, xcount, acked, strayed, ops>>

ExpandPublishLocks(t) ==
  /\ th[t].pc = "locks"
  /\ ls' = gs
  /\ Go(t, "clear")
  /\ UNCHANGED <<flag, waiting, model, space, bkt, freed, gs, locked, expandVars, acked, strayed, ops>>

ExpandClear(t) ==
  /\ th[t].pc = "clear"
  /\ flag' = FALSE
  /\ Go(t, "notify")
  /\ UNCHANGED <<waiting, memory, locked, expandVars, acked, strayed, ops>>

\* Mutant: the expansion ends without notify_all.
ExpandNotifyNobody(t) ==
  /\ th[t].pc = "notify"
  /\ Go(t, "begin")
  /\ UNCHANGED <<flag, waiting, memory, locked, expandVars, acked, strayed, ops>>

\* notify_all: the woken threads do not look at the flag again.
ExpandNotify(t) ==
  /\ th[t].pc = "notify"
  /\ waiting' = {}
  /\ th' = [u \in Threads |->
       IF u \in waiting THEN [th[u] EXCEPT !.pc = "find"]
       ELSE IF u = t THEN [th[u] EXCEPT !.pc = "begin"] ELSE th[u]]
  /\ UNCHANGED <<flag, memory, locked, expandVars, acked, strayed, ops>>

----------------------------------------------------------------------------
Operation(t) ==
  \/ Retry(t) \/ Block(t) \/ Find(t) \/ Get(t) \/ GetSlow(t)
  \/ LockPointer(t) \/ Lock(t) \/ Check(t) \/ Put(t) \/ Link(t)
  \/ UpdateDelete(t) \/ Unlock(t)

ExpandTree(t) ==
  \/ ExpandEnter(t) \/ ExpandTrain(t) \/ ExpandCount(t) \/ ExpandCopy(t)
  \/ ExpandFree(t) \/ ExpandPublishGroups(t) \/ ExpandPublishLocks(t)
  \/ ExpandClear(t) \/ ExpandNotify(t)

Next == \E t \in Threads :
          \/ \E c \in Calls : Start(t, c[1], c[2])
          \/ Operation(t) \/ ExpandTree(t) \/ SpuriousWake(t)

\* Every thread that can take a step keeps running; calls need not be made, and
\* a wait need not end by itself.
Fairness == \A t \in Threads : WF_vars(Operation(t) \/ ExpandTree(t))

Spec == Init /\ [][Next]_vars /\ Fairness

----------------------------------------------------------------------------
\* The compare_exchange on is_tree_expand lets one thread at a time rebuild the
\* tree (nali.h:1066-1068), however many groups become full at once: two rebuilders
\* would free the same arrays twice.
OneExpander ==
  \A t, u \in Threads : th[t].pc \in ExpandSteps \ {"notify"}
     /\ th[u].pc \in ExpandSteps \ {"notify"} => t = u /\ flag

\* A key whose Put returned is found again outside expansions and splits
\* (nali.h:832-861, 1161-1202).
AckedFound ==
  (~flag /\ \A t \in Threads : th[t].pc \notin {"link", "wild"}) => \A k \in acked : Found(k)

\* The keys are found as long as no operation strayed.  A Put that is inside a
\* group while ExpandTree copies it does no harm if it neither splits a bucket
\* nor lowers the first key: old and new tree share the buckets.
AckedFoundUnlessStrayed == ~strayed => AckedFound

\* The entries that ExpandTree appends to a new group fit into the room it
\* reserved from an earlier count (nali.h:1141-1173), unless an operation strayed.
ReservedRoom ==
  ~strayed => \A g \in 1..Len(xnew) : Len(xnew[g]) <= xres[g]

\* A thread that waits for an expansion in progress is woken (nali.h:1201-1202).
\* One that saw the flag and begins to wait after notify_all is not covered: the
\* wait has no predicate (nali.h:678).
WaiterWoken == \A t \in Threads : (t \in waiting /\ flag) ~> (t \notin waiting)
=============================================================================
