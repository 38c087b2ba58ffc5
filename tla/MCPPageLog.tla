----------------------------- MODULE MCPPageLog -----------------------------
(* Instances of PPageLog: two threads of one node and a third of another.    *)
EXTENDS PPageLog, TLC

CONSTANTS t1, t2, t3

TwoNodes == (t1 :> 0) @@ (t2 :> 0) @@ (t3 :> 1)
=============================================================================
