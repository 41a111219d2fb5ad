----------------------------- MODULE FencedRefs -----------------------------
(***************************************************************************)
(* What the semantic review claim promises of the refs it protects,        *)
(* without Git: the claim passes to another owner only after it lapsed,    *)
(* every owner rules under a generation of its own, and a protected ref    *)
(* moves only forward and only by the owner and generation of that moment. *)
(* Who moved a ref last is recorded in `author`.                           *)
(*                                                                         *)
(* SemanticClaim is shown to implement this specification.                 *)
(***************************************************************************)
EXTENDS Naturals

CONSTANTS Owners, NoOwner,
          Base,      \* where the parent branch starts
          Foreign    \* a commit an outsider pushed to the temp branch

VARIABLES gen, owner, lapsed,  \* the claim
          temp, parent,        \* the protected branches
          author               \* <<owner, generation>> of the last move

vars == <<gen, owner, lapsed, temp, parent, author>>

Init ==
  /\ gen = 0 /\ owner = NoOwner /\ lapsed = TRUE
  /\ temp = 0 /\ parent = Base
  /\ author = <<NoOwner, 0>>

\* Only a lapsed claim is taken over, under the next generation.
Take(o) ==
  /\ lapsed
  /\ owner' = o /\ gen' = gen + 1 /\ lapsed' \in BOOLEAN
  /\ UNCHANGED <<temp, parent, author>>

\* The owner renews or releases.
Keep ==
  /\ owner # NoOwner
  /\ lapsed' \in BOOLEAN
  /\ UNCHANGED <<gen, owner, temp, parent, author>>

\* The owner moves the temp branch to its next commit, or the parent branch to
\* what was reviewed, once.
Move ==
  /\ owner # NoOwner
  /\ \/ temp # Foreign /\ temp' = temp + 1 /\ UNCHANGED parent
     \/ parent = Base /\ parent' # Base /\ UNCHANGED temp
  /\ author' = <<owner, gen>>
  /\ lapsed' \in BOOLEAN
  /\ UNCHANGED <<gen, owner>>

Lapse == lapsed' = TRUE /\ UNCHANGED <<gen, owner, temp, parent, author>>

Intrude == temp' = Foreign /\ UNCHANGED <<gen, owner, lapsed, parent, author>>

Next == (\E o \in Owners : Take(o)) \/ Keep \/ Move \/ Lapse \/ Intrude

Spec == Init /\ [][Next]_vars
=============================================================================
