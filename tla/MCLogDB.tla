------------------------------ MODULE MCLogDB ------------------------------
(* Instances of LogDB. *)
EXTENDS LogDB, TLC, FiniteSets

Symmetry == Permutations(Threads) \union Permutations(Keys) \union Permutations(Values)
=============================================================================
