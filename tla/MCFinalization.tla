--------------------------- MODULE MCFinalization ---------------------------
(* Two commits of a child branch, two refused runs to the limit.           *)
EXTENDS Finalization
=============================================================================
