----------------------------- MODULE MCScanPool -----------------------------
(* Two scanners share the workers of a node; scans end in the middle of a  *)
(* batch, at the end of one, and before the first position.                *)
EXTENDS ScanPool

MCScanners == {"s1", "s2"}

MCLogsOn == [s1 |-> {1, 2}, s2 |-> {1}]

MCSizes == [s1 |-> {0, 3}, s2 |-> {1}]
=============================================================================
