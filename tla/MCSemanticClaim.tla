-------------------------- MODULE MCSemanticClaim --------------------------
(* Small instances of SemanticClaim. *)
EXTENDS SemanticClaim

CONSTANTS r1, p1, o1, o2

\* The runner and the publisher act for different GitHub users.
MCIdentity == [p \in Procs |-> IF p = r1 THEN o1 ELSE o2]
MCOids == 1..10

\* States that differ only in the names of claim commits are the same: of a commit
\* counts whether it is the one the ref has, and whether two pushes create it.
SameNew(p, q) == p # q /\ push[p] # NoPush /\ push[q] # NoPush
                       /\ push[p].claim.oid = push[q].claim.oid
Blank(c) == [c EXCEPT !.oid = (c.oid = ref.oid)]
BlankPush(q) == IF q = NoPush THEN NoPush
                ELSE [q EXCEPT !.claim = Blank(@), !.old = (q.old = ref.oid)]
Unnamed ==
  <<[ref EXCEPT !.oid = NoOid], branch, author, comments, pc, decision, outcome,
    BlankPush(late), [p \in Procs |-> BlankPush(push[p])],
    [p \in Procs |-> IF held[p] = NoClaim THEN NoClaim ELSE Blank(held[p])],
    {p \in Procs : \E q \in Procs : SameNew(p, q)}>>
=============================================================================
