---------------------------- MODULE EntrySearch -----------------------------
(***************************************************************************)
(* group::find_entry (src/src/nali.h) loop by loop: the learned model      *)
(* predicts a position, exponential_search_upper_bound doubles a step away *)
(* from it until the key is passed, and a linear or a binary search ends   *)
(* in the range that leaves.  Indices start at 0, as in the code.          *)
(*                                                                         *)
(* NaliGroup computes the same search in one step; here every read of the  *)
(* array of entries is a step, for any prediction whatever.                *)
(***************************************************************************)
EXTENDS Integers

CONSTANTS Keys,          \* entry keys and searched keys
          MaxEntries,    \* max_entry_count (1024)
          LinearLimit    \* a range below this is searched in a line (6)

ASSUME EntrySearchAssumption ==
  /\ Keys \subseteq Nat
  /\ MaxEntries \in Nat \ {0}
  /\ LinearLimit \in Nat

VARIABLES
  n,        \* nr_entries_
  entry,    \* the entry keys of entry_space
  key,      \* the key searched
  m,        \* the position predicted, moved into the array
  pc,
  bound,    \* the distance from m of the next probe
  l, r,     \* the range that is left
  ret       \* the position returned

vars == <<n, entry, key, m, pc, bound, l, r, ret>>
input == <<n, entry, key, m>>

\* Entry keys never fall along the array; two may be equal.
Ascending(e, len) == \A i, j \in 0..(len - 1) : i <= j => e[i] <= e[j]

\* find_entry: the prediction is any position.
Init ==
  /\ n \in 1..MaxEntries
  /\ entry \in [0..(n - 1) -> Keys] /\ Ascending(entry, n)
  /\ key \in Keys
  /\ m \in 0..(n - 1)
  /\ pc = "start" /\ bound = 1 /\ l = 0 /\ r = 0 /\ ret = 0

Least(a, b) == IF a <= b THEN a ELSE b

Begin ==
  /\ pc = "start"
  /\ pc' = IF entry[m] > key THEN "left" ELSE "right"
  /\ UNCHANGED <<input, bound, l, r, ret>>

\* The loop condition reads the array only if the first part holds.
LeftGoesOn == bound < m /\ entry[m - bound] > key

RightGoesOn == bound < n - m /\ entry[m + bound] <= key

Double ==
  /\ (pc = "left" /\ LeftGoesOn) \/ (pc = "right" /\ RightGoesOn)
  /\ bound' = 2 * bound
  /\ UNCHANGED <<input, pc, l, r, ret>>

Search(from, to) ==
  /\ l' = from /\ r' = to
  /\ pc' = IF to - from < LinearLimit THEN "linear" ELSE "binary"
  /\ UNCHANGED <<input, bound, ret>>

\* Mutant: the range ends before the last probe that was too large.
LeftRangeShort ==
  /\ pc = "left" /\ ~LeftGoesOn
  /\ Search(m - Least(bound, m), m - bound)

LeftRange ==
  /\ pc = "left" /\ ~LeftGoesOn
  /\ Search(m - Least(bound, m), m - (bound \div 2))

\* Mutant: the range may reach past the end of the array.
RightRangeOpen ==
  /\ pc = "right" /\ ~RightGoesOn
  /\ Search(m + (bound \div 2), m + bound)

RightRange ==
  /\ pc = "right" /\ ~RightGoesOn
  /\ Search(m + (bound \div 2), m + Least(bound, n - m))

\* linear_search_upper_bound
LinearGoesOn == l < r /\ entry[l] <= key

LinearStep ==
  /\ pc = "linear" /\ LinearGoesOn
  /\ l' = l + 1
  /\ UNCHANGED <<input, pc, bound, r, ret>>

\* binary_search_upper_bound
Mid == l + ((r - l) \div 2)

\* Mutant: the lower end is set to the middle.
BinaryStepStuck ==
  /\ pc = "binary" /\ l < r
  /\ IF entry[Mid] <= key THEN l' = Mid /\ UNCHANGED r ELSE r' = Mid /\ UNCHANGED l
  /\ UNCHANGED <<input, pc, bound, ret>>

BinaryStep ==
  /\ pc = "binary" /\ l < r
  /\ IF entry[Mid] <= key THEN l' = Mid + 1 /\ UNCHANGED r ELSE r' = Mid /\ UNCHANGED l
  /\ UNCHANGED <<input, pc, bound, ret>>

\* The entry in front of the upper bound, or the first.
Return ==
  /\ \/ pc = "linear" /\ ~LinearGoesOn
     \/ pc = "binary" /\ ~(l < r)
  /\ ret' = IF l = 0 THEN 0 ELSE l - 1
  /\ pc' = "done"
  /\ UNCHANGED <<input, bound, l, r>>

Next == \/ Begin \/ Double \/ LeftRange \/ RightRange
        \/ LinearStep \/ BinaryStep \/ Return

\* One thread runs the search to its end.
Spec == Init /\ [][Next]_vars /\ WF_vars(Next)

----------------------------------------------------------------------------
\* Every variable keeps its type: the range that is searched lies in the array
\* and is never turned round, the position returned is one of the array.
TypeOK ==
  /\ n \in 1..MaxEntries /\ entry \in [0..(n - 1) -> Keys] /\ key \in Keys
  /\ m \in 0..(n - 1)
  /\ pc \in {"start", "left", "right", "linear", "binary", "done"}
  /\ bound \in Nat \ {0}
  /\ l \in 0..n /\ r \in 0..n /\ l <= r
  /\ ret \in 0..(n - 1)

\* Whatever position the model predicts, find_entry returns the last entry whose
\* key is not above the searched one, or the first entry (nali.h:220-281): a key
\* looked for in any other entry would not be found.
FindsEntry ==
  pc = "done" => /\ ret = 0 \/ entry[ret] <= key
                 /\ \A i \in 0..(n - 1) : i > ret => entry[i] > key

\* The search ends: the step doubles until it leaves the array, and the range
\* becomes smaller with every probe.
SearchEnds == <>(pc = "done")
=============================================================================
