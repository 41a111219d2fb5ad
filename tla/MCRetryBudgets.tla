--------------------------- MODULE MCRetryBudgets ---------------------------
(* Instances of RetryBudgets for TLC.  A relabelling by an operator starts  *)
(* the chain of launches again; everything else is bounded by the budgets.  *)
EXTENDS RetryBudgets
=============================================================================
