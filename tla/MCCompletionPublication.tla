---------------------- MODULE MCCompletionPublication ----------------------
(* Small instances of CompletionPublication for TLC. *)
EXTENDS CompletionPublication, TLC

CONSTANTS p1, p2, g1, g2, c1, c2, h1, h2

Symmetric == Permutations(Procs) \cup Permutations(Completions)
============================================================================
