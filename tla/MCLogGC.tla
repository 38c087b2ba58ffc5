------------------------------ MODULE MCLogGC ------------------------------
(* Instances of LogGC: the collector and one or two foreground threads. *)
EXTENDS LogGC

CONSTANTS gc, t1, t2
=============================================================================
