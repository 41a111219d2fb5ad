--------------------------- MODULE MCWorktreeClaim ---------------------------
(* Small instances of WorktreeClaim: dispatched and interactive generations. *)
EXTENDS WorktreeClaim

CONSTANTS d1, i1, i2
=============================================================================
