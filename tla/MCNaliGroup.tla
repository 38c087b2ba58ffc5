---- MODULE MCNaliGroup ----
(* Instances of NaliGroup.                                                 *)
EXTENDS NaliGroup

MCKeys == 1..8
\* The load ends with an expansion of the tree: the model of its two groups is any
\* monotone one.  Then 4 is put a second time, 1 below every key, and 3 and 5 between.
MCLoad == [i \in 1..5 |-> <<"put", <<2, 4, 6, 7, 8>>[i], "a">>]
MCCalls == ({"put"} \X {1, 3, 4, 5} \X {"a"}) \cup ({"update"} \X {4} \X {"b"})
           \cup ({"delete"} \X {2, 4, 6} \X {0}) \cup ({"get"} \X {5} \X {0})
           \cup ({"scan"} \X {4} \X {1, 3})
====
