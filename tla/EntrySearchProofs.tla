-------------------------- MODULE EntrySearchProofs -------------------------
(***************************************************************************)
(* find_entry is right for every array of entries, every prediction of the *)
(* model and every limit of the linear search.                             *)
(***************************************************************************)
EXTENDS EntrySearch, TLAPS

(* The inductive invariant.  While the step doubles, the last probe (half  *)
(* the step away) is known to lie on the side of m that the search left    *)
(* behind; afterwards everything in front of l is not above the key and    *)
(* everything from r on is.                                                *)

StartInv == pc = "start" => bound = 1

\* The last probe of the loop to the left was above the key.
LeftInv ==
  pc = "left" => /\ bound = 1 \/ bound \div 2 < m
                 /\ entry[m - (bound \div 2)] > key

\* The last probe of the loop to the right was not above the key.
RightInv ==
  pc = "right" => /\ bound = 1 \/ bound \div 2 < n - m
                  /\ entry[m + (bound \div 2)] <= key

RangeInv ==
  pc \in {"linear", "binary"} =>
     /\ \A i \in 0..(n - 1) : i < l => entry[i] <= key
     /\ \A i \in 0..(n - 1) : i >= r => entry[i] > key

Inv == TypeOK /\ Ascending(entry, n) /\ StartInv /\ LeftInv /\ RightInv
       /\ RangeInv /\ FindsEntry

----------------------------------------------------------------------------
\* What the type invariant says of the numbers.
LEMMA Numbers ==
  TypeOK => /\ n \in Nat /\ m \in Nat /\ m < n /\ key \in Nat /\ bound \in Nat /\ bound > 0
            /\ l \in Nat /\ r \in Nat /\ l <= r /\ r <= n
            /\ \A i \in 0..(n - 1) : entry[i] \in Nat
<1> SUFFICES ASSUME TypeOK PROVE /\ n \in Nat /\ m \in Nat /\ m < n /\ key \in Nat
                                 /\ bound \in Nat /\ bound > 0
                                 /\ l \in Nat /\ r \in Nat /\ l <= r /\ r <= n
                                 /\ \A i \in 0..(n - 1) : entry[i] \in Nat
    OBVIOUS
<1>1. Keys \subseteq Nat /\ MaxEntries \in Nat
  BY EntrySearchAssumption
<1>2. \A i \in 0..(n - 1) : entry[i] \in Keys
  BY DEF TypeOK
<1>3. n \in Nat
  BY <1>1 DEF TypeOK
<1>4. key \in Nat /\ \A i \in 0..(n - 1) : entry[i] \in Nat
  BY <1>1, <1>2 DEF TypeOK
<1> QED BY <1>3, <1>4 DEF TypeOK

\* The first probe is the predicted position itself.
LEMMA BeginInv == Inv /\ Begin => Inv'
<1> SUFFICES ASSUME Inv, Begin PROVE Inv'
    OBVIOUS
<1> USE EntrySearchAssumption
<1>1. TypeOK' /\ Ascending(entry, n)'
  BY DEF Inv, TypeOK, Begin, input, Ascending
<1>2. StartInv' /\ LeftInv' /\ RightInv'
  <2>1. bound = 1 /\ bound' = 1 /\ bound' \div 2 = 0
    BY DEF Inv, StartInv, Begin
  <2> QED BY <2>1, Numbers DEF Inv, Begin, input, StartInv, LeftInv, RightInv
<1>3. RangeInv' /\ FindsEntry'
  BY DEF Begin, input, RangeInv, FindsEntry
<1> QED BY <1>1, <1>2, <1>3 DEF Inv

\* A step is doubled only when the probe at its end did not pass the key.
LEMMA DoubleInv == Inv /\ Double => Inv'
<1> SUFFICES ASSUME Inv, Double PROVE Inv'
    OBVIOUS
<1> USE EntrySearchAssumption
<1>1. bound \in Nat \ {0} /\ bound' = 2 * bound /\ bound' \div 2 = bound
  BY DEF Inv, TypeOK, Double
<1>2. TypeOK' /\ Ascending(entry, n)'
  BY <1>1 DEF Inv, TypeOK, Double, input, Ascending
<1>3. StartInv' /\ LeftInv' /\ RightInv'
  BY <1>1 DEF Inv, TypeOK, Double, input, StartInv, LeftInv, RightInv, LeftGoesOn, RightGoesOn
<1>4. RangeInv' /\ FindsEntry'
  BY DEF Double, input, RangeInv, FindsEntry
<1> QED BY <1>2, <1>3, <1>4 DEF Inv

\* The range to the left of m ends at the last probe that was above the key.
LEMMA LeftRangeInv == Inv /\ LeftRange => Inv'
<1> SUFFICES ASSUME Inv, LeftRange PROVE Inv'
    OBVIOUS
<1> USE EntrySearchAssumption
<1> DEFINE half == bound \div 2
<1>1. /\ half \in Nat /\ half <= bound /\ half <= m /\ n \in Nat /\ m \in Nat /\ m < n
      /\ bound \in Nat \ {0} /\ key \in Nat /\ \A i \in 0..(n - 1) : entry[i] \in Nat
      /\ bound < m => entry[m - bound] <= key
      /\ entry[m - half] > key
  BY Numbers DEF Inv, LeftRange, LeftInv, LeftGoesOn
<1>2. l' = m - Least(bound, m) /\ r' = m - half
  BY DEF LeftRange, Search
<1>3. TypeOK' /\ Ascending(entry, n)'
  BY <1>1, <1>2 DEF Inv, TypeOK, LeftRange, Search, input, Ascending, Least
<1>4. \A i \in 0..(n - 1) : i >= r' => entry[i] > key
  BY <1>1, <1>2 DEF Inv, Ascending
<1>5. \A i \in 0..(n - 1) : i < l' => entry[i] <= key
  <2> SUFFICES ASSUME NEW i \in 0..(n - 1), i < l' PROVE entry[i] <= key
      OBVIOUS
  <2>1. bound < m /\ i <= m - bound /\ m - bound \in 0..(n - 1)
    BY <1>1, <1>2 DEF Least
  <2>2. entry[i] <= entry[m - bound]
    BY <2>1 DEF Inv, Ascending
  <2> QED BY <1>1, <2>1, <2>2
<1>6. StartInv' /\ LeftInv' /\ RightInv' /\ RangeInv' /\ FindsEntry'
  BY <1>4, <1>5 DEF LeftRange, Search, input, StartInv, LeftInv, RightInv, RangeInv, FindsEntry
<1> QED BY <1>3, <1>6 DEF Inv

\* The range to the right of m begins at the last probe that was not above it.
LEMMA RightRangeInv == Inv /\ RightRange => Inv'
<1> SUFFICES ASSUME Inv, RightRange PROVE Inv'
    OBVIOUS
<1> USE EntrySearchAssumption
<1> DEFINE half == bound \div 2
<1>1. /\ half \in Nat /\ half <= bound /\ half < n - m /\ n \in Nat /\ m \in Nat /\ m < n
      /\ bound \in Nat \ {0} /\ key \in Nat /\ \A i \in 0..(n - 1) : entry[i] \in Nat
      /\ bound < n - m => entry[m + bound] > key
      /\ entry[m + half] <= key
  BY Numbers DEF Inv, RightRange, RightInv, RightGoesOn
<1>2. l' = m + half /\ r' = m + Least(bound, n - m)
  BY DEF RightRange, Search
<1>3. TypeOK' /\ Ascending(entry, n)'
  BY <1>1, <1>2 DEF Inv, TypeOK, RightRange, Search, input, Ascending, Least
<1>4. \A i \in 0..(n - 1) : i < l' => entry[i] <= key
  <2> SUFFICES ASSUME NEW i \in 0..(n - 1), i < l' PROVE entry[i] <= key
      OBVIOUS
  <2>1. entry[i] <= entry[m + half]
    BY <1>1, <1>2 DEF Inv, Ascending
  <2> QED BY <1>1, <2>1
<1>5. \A i \in 0..(n - 1) : i >= r' => entry[i] > key
  <2> SUFFICES ASSUME NEW i \in 0..(n - 1), i >= r' PROVE entry[i] > key
      OBVIOUS
  <2>1. bound < n - m /\ m + bound <= i /\ m + bound \in 0..(n - 1)
    BY <1>1, <1>2 DEF Least
  <2>2. entry[m + bound] <= entry[i]
    BY <2>1 DEF Inv, Ascending
  <2> QED BY <1>1, <2>1, <2>2
<1>6. StartInv' /\ LeftInv' /\ RightInv' /\ RangeInv' /\ FindsEntry'
  BY <1>4, <1>5 DEF RightRange, Search, input, StartInv, LeftInv, RightInv, RangeInv, FindsEntry
<1> QED BY <1>3, <1>6 DEF Inv

\* A linear step passes one entry that is not above the key.
LEMMA LinearStepInv == Inv /\ LinearStep => Inv'
<1> SUFFICES ASSUME Inv, LinearStep PROVE Inv'
    OBVIOUS
<1> USE EntrySearchAssumption
<1>1. TypeOK' /\ Ascending(entry, n)'
  BY DEF Inv, TypeOK, LinearStep, LinearGoesOn, input, Ascending
<1>2. RangeInv'
  BY DEF Inv, TypeOK, LinearStep, LinearGoesOn, input, RangeInv
<1>3. StartInv' /\ LeftInv' /\ RightInv' /\ FindsEntry'
  BY DEF LinearStep, input, StartInv, LeftInv, RightInv, FindsEntry
<1> QED BY <1>1, <1>2, <1>3 DEF Inv

\* A probe in the middle decides for everything on one side of it.
LEMMA BinaryStepInv == Inv /\ BinaryStep => Inv'
<1> SUFFICES ASSUME Inv, BinaryStep PROVE Inv'
    OBVIOUS
<1> USE EntrySearchAssumption
<1>1. l <= Mid /\ Mid < r /\ Mid \in 0..(n - 1) /\ n \in Nat /\ l \in Nat /\ r \in Nat /\ key \in Nat
      /\ r <= n /\ \A i \in 0..(n - 1) : entry[i] \in Nat
  BY Numbers DEF Inv, BinaryStep, Mid
<1>2. (\A i \in 0..(n - 1) : i <= Mid => entry[i] <= entry[Mid])
      /\ (\A i \in 0..(n - 1) : Mid <= i => entry[Mid] <= entry[i])
  BY <1>1 DEF Inv, Ascending
<1>3. TypeOK' /\ Ascending(entry, n)'
  BY <1>1 DEF Inv, TypeOK, BinaryStep, input, Ascending
<1>4. RangeInv'
  <2> HIDE DEF Mid
  <2>1. CASE entry[Mid] <= key
    BY <1>1, <1>2, <2>1 DEF Inv, BinaryStep, input, RangeInv
  <2>2. CASE ~(entry[Mid] <= key)
    BY <1>1, <1>2, <2>2 DEF Inv, BinaryStep, input, RangeInv
  <2> QED BY <2>1, <2>2
<1>5. StartInv' /\ LeftInv' /\ RightInv' /\ FindsEntry'
  BY DEF BinaryStep, input, StartInv, LeftInv, RightInv, FindsEntry
<1> QED BY <1>3, <1>4, <1>5 DEF Inv

\* When a search stops, l is the upper bound, and the entry is in front of it.
LEMMA ReturnInv == Inv /\ Return => Inv'
<1> SUFFICES ASSUME Inv, Return PROVE Inv'
    OBVIOUS
<1> USE EntrySearchAssumption
<1>1. n \in Nat /\ l \in 0..n /\ r \in 0..n /\ l <= r /\ key \in Nat
      /\ \A i \in 0..(n - 1) : entry[i] \in Nat
  BY Numbers DEF Inv
<1>2. \A i \in 0..(n - 1) : i < l => entry[i] <= key
  BY DEF Inv, RangeInv, Return
<1>3. \A i \in 0..(n - 1) : i >= l => entry[i] > key
  <2> SUFFICES ASSUME NEW i \in 0..(n - 1), i >= l PROVE entry[i] > key
      OBVIOUS
  <2>1. CASE i >= r
    BY <2>1 DEF Inv, RangeInv, Return
  <2>2. CASE i < r
    <3>1. l < r /\ l \in 0..(n - 1) /\ entry[l] > key
      BY <1>1, <2>2 DEF Return, LinearGoesOn
    <3>2. entry[l] <= entry[i]
      BY <1>1, <3>1 DEF Inv, Ascending
    <3> QED BY <1>1, <3>1, <3>2
  <2> QED BY <1>1, <2>1, <2>2
<1>4. TypeOK' /\ Ascending(entry, n)'
  BY <1>1 DEF Inv, TypeOK, Return, input, Ascending
<1>5. FindsEntry'
  BY <1>1, <1>2, <1>3 DEF Return, input, FindsEntry
<1>6. StartInv' /\ LeftInv' /\ RightInv' /\ RangeInv'
  BY DEF Return, StartInv, LeftInv, RightInv, RangeInv
<1> QED BY <1>4, <1>5, <1>6 DEF Inv

\* The invariant holds at the start and is kept by every step.
LEMMA InvHolds == Spec => []Inv
<1>1. Init => Inv
  BY EntrySearchAssumption
  DEF Init, Inv, TypeOK, StartInv, LeftInv, RightInv, RangeInv, FindsEntry, Ascending
<1>2. Inv /\ [Next]_vars => Inv'
  <2> SUFFICES ASSUME Inv, [Next]_vars PROVE Inv'
      OBVIOUS
  <2>1. CASE UNCHANGED vars
    BY <2>1 DEF vars, Inv, TypeOK, StartInv, LeftInv, RightInv, RangeInv, FindsEntry, Ascending
  <2> QED
    BY <2>1, BeginInv, DoubleInv, LeftRangeInv, RightRangeInv, LinearStepInv,
       BinaryStepInv, ReturnInv DEF Next
<1> QED BY <1>1, <1>2, PTL DEF Spec

\* The range searched stays inside the array and is never turned round, for
\* any number of entries.
THEOREM RangeInArray == Spec => []TypeOK
<1>1. Inv => TypeOK
  BY DEF Inv
<1> QED BY <1>1, InvHolds, PTL

\* find_entry returns the last entry whose key is not above the searched key,
\* or the first, for every ascending array and every prediction of the model.
THEOREM EntryFound == Spec => []FindsEntry
<1>1. Inv => FindsEntry
  BY DEF Inv
<1> QED BY <1>1, InvHolds, PTL
=============================================================================
