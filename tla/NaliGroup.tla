----------------------------- MODULE NaliGroup ------------------------------
(***************************************************************************)
(* The data structure of the Nali index, one call at a time: buckets       *)
(* (UnSortBuncket), PointerBEntry and the scans of src/src/nali_entry.h,   *)
(* groups and the tree of src/src/nali.h.                                  *)
(*                                                                         *)
(* The tree is a sequence of groups, a group a sequence of PointerBEntry   *)
(* (pbs) with the count of its entries and its min_key, a PointerBEntry a  *)
(* sequence of entries, each an entry key and a bucket, a bucket the       *)
(* sequence of its records with the key that its first slot keeps when the *)
(* last record is deleted.  The records lie in slot order, unsorted.       *)
(*                                                                         *)
(* A model inside a group predicts any position: the search that follows   *)
(* has to correct it.  The model of the tree is a line that rises, so its  *)
(* prediction of a group is any monotone function of the key.              *)
(***************************************************************************)
EXTENDS Integers, SequencesExt, FiniteSetsExt

CONSTANTS Keys,          \* a set of positive integers
          Values, None, Unknown,
          Calls,         \* bound: the calls made: operation, key, value or length
          Load,          \* bound: the calls made first, in this order
          BucketCap,     \* max_entries of a bucket (15)
          PbCount,       \* pb_entry_count (4)
          MaxEntries,    \* max_entry_count (1024)
          MinEntries,    \* min_entry_count (64)
          MaxOps         \* bound: calls after the load

ASSUME NaliGroupAssumption ==
  /\ Keys \subseteq Nat \ {0} /\ Keys # {} /\ IsFiniteSet(Keys) /\ BucketCap \in Nat \ {0, 1} /\ PbCount \in Nat \ {0, 1}
  /\ MaxEntries \in Nat \ {0} /\ MinEntries \in Nat \ {0} /\ MaxOps \in Nat
  /\ None \notin Values /\ Unknown \notin Values \cup {None}

VARIABLES
  tree,     \* group_space
  model,    \* Nali::model: the group it predicts for a key
  call,     \* the Put under way: its key, value and group, and its retries
  answer,   \* what the last call returned
  kept,     \* history: the keys put and not deleted since
  ref,      \* history: what a map would hold, Unknown for a key put twice
  ops       \* bound: calls made

vars == <<tree, model, call, answer, kept, ref, ops>>

----------------------------------------------------------------------------
(* Triples of numbers, and sets of them, in lexicographic order.           *)

Before(q, r) ==
  \/ q[1] < r[1]
  \/ q[1] = r[1] /\ (q[2] < r[2] \/ (q[2] = r[2] /\ q[3] < r[3]))

InOrder(s) ==
  [n \in 1..Cardinality(s) |-> CHOOSE q \in s : Cardinality({r \in s : Before(r, q)}) = n - 1]

----------------------------------------------------------------------------
(* Buckets: a sequence of records <<key, value>> in slot order.            *)

Slots(b, k) == {i \in 1..Len(b.kv) : b.kv[i][1] = k}

\* UnSortBuncket::Find and Get.
BucketGet(b, k) == IF Slots(b, k) = {} THEN None ELSE b.kv[Min(Slots(b, k))][2]

BucketUpdate(b, k, v) ==
  IF Slots(b, k) = {} THEN b ELSE [b EXCEPT !.kv[Min(Slots(b, k))][2] = v]

\* Mutant: the last record is cut off and not moved.
RemoveKeyLast(b, k) ==
  IF Slots(b, k) = {} THEN b ELSE [kv |-> Front(b.kv), slot |-> b.kv[1][1]]

\* remove_key: the last record moves into the slot.
RemoveKey(b, k) ==
  IF Slots(b, k) = {} THEN b
  ELSE [kv   |-> Front([b.kv EXCEPT ![Min(Slots(b, k))] = Last(b.kv)]),
        slot |-> b.kv[1][1]]

\* getSortedIndex: the slots by key; fewer than 16 elements, which std::sort
\* keeps stable.
SortedIndex(b) ==
  LET order == InOrder({<<b.kv[i][1], i, 0>> : i \in 1..Len(b.kv)})
  IN [n \in 1..Len(b.kv) |-> order[n][2]]

SortedRecords(b) == [i \in 1..Len(b.kv) |-> b.kv[SortedIndex(b)[i]]]

\* min_key: of an emptied bucket, what its first slot holds.
MinKey(b) == IF b.kv = <<>> THEN b.slot ELSE Min({b.kv[i][1] : i \in 1..Len(b.kv)})

\* Expand_: the records from the middle on go to a new bucket, and are removed
\* from the old one by key, one after the other.
Upper(b) == SubSeq(SortedRecords(b), 1 + (Len(b.kv) \div 2), Len(b.kv))
Lower(b) ==
  LET u == Upper(b)
      rest[i \in 0..Len(u)] == IF i = 0 THEN b ELSE RemoveKey(rest[i - 1], u[i][1])
  IN rest[Len(u)]

----------------------------------------------------------------------------
(* PointerBEntry and group.                                                *)

\* Find_pos: the entry before the first one whose key is above k.
FindPos(pb, k) ==
  LET above == {i \in 1..Len(pb) : pb[i].key > k}
      pos == IF above = {} THEN Len(pb) ELSE Min(above) - 1
  IN IF pos = 0 THEN 1 ELSE pos

\* find_entry: the last PointerBEntry whose key is not above k, or the first, which
\* is what the search finds from any prediction (EntrySearch) in ascending keys.
FindEntry(g, k) == Max({1} \cup {i \in 1..Len(g.pbs) : g.pbs[i][1].key <= k})

\* The PointerBEntry and the entry in it that a call uses.
Place(g, k) == LET p == FindEntry(g, k) IN <<p, FindPos(g.pbs[p], k)>>
BucketOf(g, k) == g.pbs[Place(g, k)[1]][Place(g, k)[2]].b

\* group::AdjustEntryKey.
Adjusted(g) == [g EXCEPT !.pbs[1][1].key = MinKey(g.pbs[1][1].b)]

\* The places of entries in the order of EntryIter: group, PointerBEntry, entry.
Places(groups) ==
  UNION {UNION {{<<g, p, i>> : i \in 1..Len(groups[g].pbs[p])}
                : p \in 1..Len(groups[g].pbs)} : g \in 1..Len(groups)}
PlacesIn(groups, g) == {q \in Places(groups) : q[1] = g}

At(groups, q) == groups[q[1]].pbs[q[2]][q[3]]

\* The entries at some places, each a PointerBEntry of its own.
Spread(groups, places) == [i \in 1..Cardinality(places) |-> <<At(groups, InOrder(places)[i])>>]

----------------------------------------------------------------------------
(* The tree.                                                               *)

\* find_group: from the predicted group to the left, then over empty groups.
FindGroup(k) ==
  LET fits == {g \in 1..model[k] : tree[g].pbs # <<>> /\ tree[g].pbs[1][1].key <= k}
      stop == IF fits = {} THEN 1 ELSE Max(fits)
  IN Min({g \in stop..Len(tree) : tree[g].pbs # <<>>})

GroupGet(g, k) == BucketGet(BucketOf(tree[g], k), k)

\* Mutant: the entries stay where they are.
ExpandedInPlace(g) == [Adjusted(tree[g]) EXCEPT !.next = Cardinality(PlacesIn(tree, g))]

\* group::expand: every entry becomes a PointerBEntry of its own.
Expanded(g) ==
  LET adj == [tree EXCEPT ![g] = Adjusted(@)]
  IN [pbs |-> Spread(adj, PlacesIn(adj, g)), next |-> Cardinality(PlacesIn(adj, g)), min |-> tree[g].min]

\* fast_fail: the predicted group is asked unless k is below its min_key.
FastAsks(k) == tree[model[k]].pbs # <<>> /\ k >= tree[model[k]].min

\* Nali::Get.
Lookup(k) ==
  IF FastAsks(k) /\ GroupGet(model[k], k) # None THEN GroupGet(model[k], k)
  ELSE GroupGet(FindGroup(k), k)

\* Where the model may send the keys.  A line of positive slope is monotone, and so is
\* what predict makes of it, for keys whose position fits into an int: the conversion of
\* larger ones is undefined and they are left out.
Monotone(n) == {f \in [Keys -> 1..n] : \A j, k \in Keys : j <= k => f[j] <= f[k]}

NoCall == [k |-> 0, v |-> None, g |-> 0, n |-> 0]

\* Nali::Init and group::Init.  min_key is left as it was allocated,
\* above some keys or below all.
Init ==
  /\ \E m \in {0, Max(Keys)} :
       tree = << [pbs |-> << <<[key |-> 0, b |-> [kv |-> <<>>, slot |-> 0]]>> >>, next |-> 1, min |-> m] >>
  /\ model = [k \in Keys |-> 1]
  /\ call = NoCall /\ answer = <<"none">> /\ kept = {} /\ ref = [k \in Keys |-> None] /\ ops = 0

\* The calls: those of the load first.
Asked(o, k, x) ==
  /\ call = NoCall /\ ops < Len(Load) + MaxOps
  /\ IF ops < Len(Load) THEN <<o, k, x>> = Load[ops + 1] ELSE <<o, k, x>> \in Calls
  /\ ops' = ops + 1

Get(k) ==
  /\ Asked("get", k, 0)
  /\ answer' = <<"get", k, Lookup(k)>>
  /\ UNCHANGED <<tree, model, call, kept, ref>>

\* The bucket that group::Put, Update and Delete use becomes b.
WithBucket(g, k, b) ==
  LET p == Place(tree[g], k) IN [tree EXCEPT ![g].pbs[p[1]][p[2]].b = b]

\* Mutant: the old address is read after the new one is set.
UpdateReportsNew(k, v) ==
  /\ Asked("update", k, v)
  /\ LET g == FindGroup(k)  b == BucketUpdate(BucketOf(tree[g], k), k, v) IN
     /\ tree' = WithBucket(g, k, b)
     /\ answer' = <<"update", k, BucketGet(b, k)>>
  /\ ref' = [ref EXCEPT ![k] = IF @ \in Values THEN v ELSE @]
  /\ UNCHANGED <<model, call, kept>>

Update(k, v) ==
  /\ Asked("update", k, v)
  /\ LET g == FindGroup(k)  b == BucketOf(tree[g], k) IN
     /\ tree' = WithBucket(g, k, BucketUpdate(b, k, v))
     /\ answer' = <<"update", k, BucketGet(b, k)>>
  /\ ref' = [ref EXCEPT ![k] = IF @ \in Values THEN v ELSE @]
  /\ UNCHANGED <<model, call, kept>>

Delete(k) ==
  /\ Asked("delete", k, 0)
  /\ LET g == FindGroup(k)  b == BucketOf(tree[g], k) IN
     /\ tree' = WithBucket(g, k, RemoveKey(b, k))
     /\ answer' = <<"delete", k, BucketGet(b, k)>>
  /\ kept' = kept \ {k}
  /\ ref' = [ref EXCEPT ![k] = IF @ \in Values THEN None ELSE @]
  /\ UNCHANGED <<model, call>>

----------------------------------------------------------------------------
(* Put: find_group, then group::Put and PointerBEntry::Put with their      *)
(* retries, a step each.                                                   *)

Put(k, v) ==
  /\ Asked("put", k, v)
  /\ call' = [k |-> k, v |-> v, g |-> FindGroup(k), n |-> 0]
  /\ UNCHANGED <<tree, model, answer, kept, ref>>

Target == BucketOf(tree[call.g], call.k)

BucketFull(b) == Len(b.kv) >= BucketCap

TargetPb == tree[call.g].pbs[Place(tree[call.g], call.k)[1]]

PutRoom ==
  /\ call.g # 0 /\ ~BucketFull(Target)
  /\ LET p == Place(tree[call.g], call.k)
         with == WithBucket(call.g, call.k, [Target EXCEPT !.kv = Append(@, <<call.k, call.v>>)])
     IN tree' = [with EXCEPT ![call.g].pbs[p[1]][1].key = Min({@, call.k})]
  /\ ref' = [ref EXCEPT ![call.k] = IF @ = None THEN call.v ELSE Unknown]
  /\ kept' = kept \cup {call.k}
  /\ answer' = <<"put", call.k>>
  /\ call' = NoCall
  /\ UNCHANGED <<model, ops>>

\* The PointerBEntry has room for one more entry.
PutSplit ==
  /\ call.g # 0 /\ BucketFull(Target) /\ Len(TargetPb) < PbCount
  /\ LET p == Place(tree[call.g], call.k)
         with == WithBucket(call.g, call.k, Lower(Target))
         new == [key |-> Upper(Target)[1][1], b |-> [kv |-> Upper(Target), slot |-> 0]]
     IN tree' = [with EXCEPT ![call.g].pbs[p[1]] = InsertAt(@, p[2] + 1, new),
                             ![call.g].next = @ + 1]
  /\ call' = [call EXCEPT !.n = @ + 1]
  /\ UNCHANGED <<model, answer, kept, ref, ops>>

GroupExpand ==
  /\ call.g # 0 /\ BucketFull(Target) /\ Len(TargetPb) = PbCount
  /\ tree[call.g].next <= MaxEntries
  /\ tree' = [tree EXCEPT ![call.g] = Expanded(call.g)]
  /\ call' = [call EXCEPT !.n = @ + 1]
  /\ UNCHANGED <<model, answer, kept, ref, ops>>

\* Mutant: the entries appended are not counted.
NewGroupUncounted(groups, places) ==
  LET pbs == Spread(groups, places)
  IN [pbs |-> pbs, next |-> 1, min |-> IF places = {} THEN 0 ELSE pbs[1][1].key]

\* A group of ExpandTree from the entries assigned to it.
NewGroup(groups, places) ==
  LET pbs == Spread(groups, places)
  IN [pbs |-> pbs, next |-> Cardinality(places), min |-> IF places = {} THEN 0 ELSE pbs[1][1].key]

\* The sum of next_entry_count.
EntryCount == Cardinality(UNION {{g} \X (1..tree[g].next) : g \in 1..Len(tree)})

ExpandTree ==
  /\ call.g # 0 /\ BucketFull(Target) /\ Len(TargetPb) = PbCount
  /\ tree[call.g].next > MaxEntries
  /\ LET adj == [g \in 1..Len(tree) |->
                   IF tree[g].pbs = <<>> THEN tree[g] ELSE Adjusted(tree[g])]
         n == (EntryCount + MinEntries - 1) \div MinEntries
     IN \E f \in Monotone(n) :
          \* Entry keys are keys once they have been adjusted.
          /\ model' = f
          /\ tree' = [g \in 1..n |-> NewGroup(adj, {q \in Places(adj) : f[At(adj, q).key] = g})]
          /\ call' = [call EXCEPT !.g = 0, !.n = @ + 1]
  /\ UNCHANGED <<answer, kept, ref, ops>>

\* retry0 of Nali::Put.
PutRetry ==
  /\ call # NoCall /\ call.g = 0
  /\ call' = [call EXCEPT !.g = FindGroup(call.k)]
  /\ UNCHANGED <<tree, model, answer, kept, ref, ops>>
----------------------------------------------------------------------------
(* Scan.  An accumulator holds the records found, the length left and      *)
(* whether the scan is stuck: in a loop, or behind the last group.         *)

Take(acc, records) == [acc EXCEPT !.out = @ \o records, !.left = @ - Len(records)]

\* Mutant: the rest of the length is not compared with the records there are.
ScanBucketAll(acc, b, first) == Take(acc, b.kv)

\* UnSortBuncket::Scan.  In the first bucket the sorted records are taken from
\* the number of the smallest one's slot on; in a later one the first slot is
\* taken over and over when it holds more than is needed.  Of an empty first bucket the
\* number is read from an array of length 0: any but a negative one takes nothing, and
\* with a negative one the scan reads in front of the array and is left out, like the
\* scans that are stuck.
ScanBucket(acc, b, first) ==
  LET n == Len(b.kv) IN
  IF first
  THEN IF n = 0 THEN acc
       ELSE Take(acc, SubSeq(SortedRecords(b), SortedIndex(b)[1],
                             Min({n, SortedIndex(b)[1] - 1 + acc.left})))
  ELSE Take(acc, IF acc.left >= n THEN b.kv ELSE [i \in 1..acc.left |-> b.kv[1]])

\* PointerBEntry::Scan: the loop does not leave the second bucket.
ScanPb(acc, pb, start, first) ==
  LET one == ScanBucket(acc, pb[IF first THEN 1 ELSE FindPos(pb, start)].b, first)
      second == pb[2].b
      again[i \in 0..one.left] == IF i = 0 THEN one ELSE ScanBucket(again[i - 1], second, FALSE)
  IN IF one.left = 0 \/ Len(pb) < 2 THEN one
     ELSE IF second.kv = <<>> THEN [one EXCEPT !.stuck = TRUE]
     ELSE again[one.left]

\* A loop over PointerBEntrys or groups goes on.
GoesOn(acc) == acc.left # 0 /\ ~acc.stuck

ScanGroup(acc, g, start, first) ==
  LET from == IF first THEN 1 ELSE FindEntry(g, start)
      upto[i \in (from - 1)..Len(g.pbs)] ==
        IF i = from - 1 THEN acc
        ELSE IF GoesOn(upto[i - 1]) THEN ScanPb(upto[i - 1], g.pbs[i], start, first /\ i = 1)
        ELSE upto[i - 1]
  IN upto[Len(g.pbs)]

\* scan_fast and scan_slow: the predicted group, if it can hold the start and is
\* not the first, or find_group's.
ScanTree(start, len) ==
  LET from == IF model[start] # 1 /\ FastAsks(start) THEN model[start] ELSE FindGroup(start)
      upto[g \in from..Len(tree)] ==
        IF g = from THEN ScanGroup([out |-> <<>>, left |-> len, stuck |-> FALSE], tree[g], start, TRUE)
        ELSE IF GoesOn(upto[g - 1]) /\ tree[g].pbs # <<>> THEN ScanGroup(upto[g - 1], tree[g], start, FALSE)
        ELSE upto[g - 1]
      acc == upto[Len(tree)]
  IN [acc EXCEPT !.stuck = @ \/ (acc.left > 0 /\ Last(tree).pbs = <<>>)]

\* A scan that is stuck does not return and is not among the calls.
Scan(k, len) ==
  /\ Asked("scan", k, len)
  /\ ~ScanTree(k, len).stuck
  /\ answer' = <<"scan", k, len, ScanTree(k, len).out>>
  /\ UNCHANGED <<tree, model, call, kept, ref>>

----------------------------------------------------------------------------
PutSteps == PutRoom \/ PutSplit \/ GroupExpand \/ ExpandTree \/ PutRetry

Next ==
  \/ \E k \in Keys : \/ Get(k) \/ Delete(k)
                     \/ \E v \in Values : Put(k, v) \/ Update(k, v)
                     \/ \E n \in 1..Cardinality(Keys) : Scan(k, n)
  \/ PutSteps

Spec == Init /\ [][Next]_vars

----------------------------------------------------------------------------
Stored == UNION {{At(tree, q).b.kv[j] : j \in 1..Len(At(tree, q).b.kv)} : q \in Places(tree)}

\* The entry keys ascend, without which find_entry's search would miss
\* entries (nali.h:228-281), and next_entry_count is the number of a group's entries,
\* what group::expand allocates for and ExpandTree counts with (nali.h:393-413).
GroupsInOrder ==
  /\ \A g \in 1..Len(tree) : tree[g].next = Cardinality(PlacesIn(tree, g))
  /\ \A q, r \in Places(tree) : Before(q, r) => At(tree, q).key <= At(tree, r).key

\* A scan returns records that are in the tree, and no more than asked for
\* (nali.h:891-901, nali_entry.h:1065-1111).
ScanReturnsStored ==
  answer[1] = "scan" /\ call = NoCall =>
                        /\ Len(answer[4]) <= answer[3]
                        /\ \A i \in 1..Len(answer[4]) : answer[4][i] \in Stored

\* One expansion and one split make room for any key: neither the models nor
\* duplicates keep the retries of Put going (nali.h:300-324, 832-861).
RetriesEnd == call.n <= 2

\* The tree holds what a map would, after every split, expansion, rebuilding and
\* retraining, and a key that was put more than once is found until it is deleted
\* (nali.h:832-1208, nali_entry.h:1013-1027).
TreeIsMap ==
  \A k \in Keys : IF ref[k] = Unknown THEN k \in kept => Lookup(k) # None
                 ELSE Lookup(k) = ref[k]

\* The calls answer as those of a map: Get, and the old addresses that Update and
\* Delete report to logdb (nali.h:863-917).
Index == INSTANCE IndexMap WITH
  map <- ref, answer <- IF answer[1] = "scan" THEN <<"scan", answer[4]>> ELSE answer
ImplementsIndexMap == Index!Spec
=============================================================================
