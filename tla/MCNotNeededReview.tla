------------------------- MODULE MCNotNeededReview -------------------------
(* Two completions of one Issue, one of everything that can go wrong.      *)
EXTENDS NotNeededReview
=============================================================================
