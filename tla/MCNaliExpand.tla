---- MODULE MCNaliExpand ----
(* Instances of NaliExpand.                                                *)
EXTENDS NaliExpand

CONSTANTS t1, t2

MCKeys == 1..9
\* The load of 2, 3, 6, 7, 4 and an expansion on the way: the first group is full
\* for the key 5, the second must split for 8 and is full then for 9, and 1 is below
\* every entry key.
MCLoaded ==
  [groups  |-> << <<[low |-> 2, b |-> 1], [low |-> 3, b |-> 2]>>, <<[low |-> 6, b |-> 3]>> >>,
   buckets |-> << {2}, {3, 4}, {6, 7} >>,
   trained |-> {2, 6}]

MCCalls == {<<"put", 1>>, <<"put", 5>>, <<"put", 8>>, <<"put", 9>>,
            <<"update", 5>>, <<"delete", 8>>, <<"get", 5>>, <<"delete", 2>>}
====
