------------------------------ MODULE IndexMap ------------------------------
(***************************************************************************)
(* What logdb expects of an index (the Tree interface of                   *)
(* src/include/tree.h): a map from keys to values, in which update and     *)
(* erase report the value they replace.  A key that is inserted while it   *)
(* is in the map is Unknown from then on: nothing is promised of it.       *)
(***************************************************************************)
CONSTANTS Keys, Values, None, Unknown

VARIABLES map,     \* the values of the keys
          answer   \* what the last call returned

vars == <<map, answer>>

\* A lookup of k may answer r.
May(k, r) == IF map[k] = Unknown THEN r \in Values \cup {None} ELSE r = map[k]

Init == map = [k \in Keys |-> None] /\ answer = <<"none">>

insert(k, v) ==
  /\ map' = [map EXCEPT ![k] = IF @ = None THEN v ELSE Unknown]
  /\ answer' = <<"put", k>>

update(k, v) == \E old \in Values \cup {None} :
  /\ May(k, old)
  /\ map' = [map EXCEPT ![k] = IF @ \in Values THEN v ELSE @]
  /\ answer' = <<"update", k, old>>

erase(k) == \E old \in Values \cup {None} :
  /\ May(k, old)
  /\ map' = [map EXCEPT ![k] = IF @ \in Values THEN None ELSE @]
  /\ answer' = <<"delete", k, old>>

search(k) == \E got \in Values \cup {None} :
  /\ May(k, got)
  /\ answer' = <<"get", k, got>>
  /\ UNCHANGED map

\* range_scan_by_size: nothing is promised but that it changes nothing.
range_scan(out) == answer' = <<"scan", out>> /\ UNCHANGED map

Next == \/ \E k \in Keys : (\E v \in Values : insert(k, v) \/ update(k, v)) \/ erase(k) \/ search(k)
        \/ answer'[1] = "scan" /\ range_scan(answer'[2])

Spec == Init /\ [][Next]_vars
=============================================================================
