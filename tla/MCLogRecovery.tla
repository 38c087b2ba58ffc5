--------------------------- MODULE MCLogRecovery ---------------------------
(* Instances of LogRecovery: three keys in one shard, the fourth in another. *)
EXTENDS LogRecovery, TLC

CONSTANTS k1, k2, k3, k4

Spread == (k1 :> 0) @@ (k2 :> 0) @@ (k3 :> 0) @@ (k4 :> 2)
Close == (k1 :> 0) @@ (k2 :> 0) @@ (k3 :> 0)
=============================================================================
