-------------------------- MODULE AtMostOnceProofs --------------------------
(***************************************************************************)
(* What dispatch must not do twice at once, whatever stops it: the review  *)
(* of a parent Issue, held by a claim commit (SemanticClaim), and the      *)
(* executions of its child Issues (LaunchAttempts).                        *)
(***************************************************************************)
EXTENDS SemanticClaim, LaunchAttempts, TLAPS, FiniteSetTheorems

-----------------------------------------------------------------------------
(* Claims: for any number of runners, publishers, claims and heads,        *)
(* whether or not pushes arrive late or a save is slow.  The inductive     *)
(* invariant IInv follows the claim commits: which of them differ, which   *)
(* the remote cannot have yet, which it will never have again, and what a  *)
(* push that still expects the remote's commit may do.                     *)


Holding(p) == held[p] # NoClaim
Live(p) == push[p] # NoPush

\* What a worker has at each step.
Has(p) ==
  /\ pc[p] \in {"idle", "observed"} => ~Holding(p) /\ ~Live(p)
  /\ pc[p] \in {"claimed", "working", "advancing", "save", "stopped"} =>
       Holding(p) /\ ~Live(p)
  /\ pc[p] \in {"push", "read back", "rejected", "denied", "failed", "unknown"} => Live(p)
  /\ Live(p) => (push[p].kind = "acquire" <=> ~Holding(p))
  /\ pc[p] = "save" \/ (Live(p) /\ push[p].kind = "renew") => view[p].rev < MaxRevision

StepHas == \A p \in Procs : Has(p)

\* What a push of each kind moves.
Formed(q) ==
  /\ q.claim.owner \in Owners
  /\ q.kind \in {"acquire", "renew", "release"} => q.branch = "none"
  /\ q.kind = "promote" => q.branch = "temp" /\ q.from \in Nat /\ q.to = q.from + 1
  /\ q.kind = "publish" => q.branch = "parent" /\ q.from = Base

WellFormed ==
  /\ \A p \in Procs : Live(p) => Formed(push[p])
  /\ late # NoPush => Formed(late)
  /\ \A p \in Procs : Holding(p) => held[p].owner \in Owners

\* The commits that workers hold, those their pushes create and the one of a late
\* push differ; a late push may be the one its worker still has.
CommitsDiffer ==
  /\ \A p, q \in Procs : Holding(p) /\ Holding(q) /\ p # q => held[p].oid # held[q].oid
  /\ \A p, q \in Procs : Live(p) /\ Holding(q) => push[p].claim.oid # held[q].oid
  /\ \A p, q \in Procs :
       Live(p) /\ Live(q) /\ p # q => push[p].claim.oid # push[q].claim.oid
  /\ late # NoPush =>
       /\ \A q \in Procs : Holding(q) => late.claim.oid # held[q].oid
       /\ \A q \in Procs : Live(q) /\ push[q].claim.oid = late.claim.oid =>
                             push[q] = late /\ pc[q] # "push"

\* The remote does not have the commit of a push that is not applied ...
NotYet ==
  /\ \A p \in Procs : pc[p] = "push" => push[p].claim.oid # ref.oid
  /\ late # NoPush => late.claim.oid # ref.oid

\* ... and nobody expects it.
NotExpected ==
  /\ \A p, q \in Procs : Live(p) /\ pc[q] = "push" => push[p].old # push[q].claim.oid
  /\ late # NoPush =>
       /\ late.old # late.claim.oid
       /\ \A p \in Procs : Live(p) => push[p].old # late.claim.oid
       /\ \A q \in Procs : pc[q] = "push" => late.old # push[q].claim.oid

\* Whoever has the commit that the remote has knows the remote's claim.
Believed ==
  \A p \in Procs :
    /\ Holding(p) /\ held[p].oid = ref.oid => held[p] = ref
    /\ Live(p) /\ push[p].claim.oid = ref.oid => push[p].claim = ref

\* A push that expects the remote's commit keeps its owner and generation, or takes
\* over a claim that lapsed.
Fenced(q) ==
  q.old = ref.oid =>
    \/ q.claim.owner = ref.owner /\ q.claim.gen = ref.gen
    \/ q.kind = "acquire" /\ ref.left = 0 /\ q.claim.gen = ref.gen + 1

AllFenced ==
  /\ \A p \in Procs : pc[p] = "push" => Fenced(push[p])
  /\ late # NoPush => Fenced(late)

\* A push that was applied is being read back, and its old commit is gone.
LandedFollowed ==
  \A p \in Procs : landed[p] =>
    /\ Live(p) /\ pc[p] # "push" /\ failure[p] = "lost"
    /\ push[p].old # ref.oid

CommitInv == CommitsDiffer /\ NotYet /\ NotExpected /\ Believed /\ AllFenced

IInv == TypeOK /\ StepHas /\ WellFormed /\ CommitInv /\ LandedFollowed /\ ReportsHonest
-----------------------------------------------------------------------------
(* Claims and pushes *)

LEMMA NullPush == NoPush \notin Pushes
  BY NullAssumption

LEMMA OlderClaim ==
  ASSUME NEW c \in Claims
  PROVE  /\ Older(c) \in Claims
         /\ Older(c).oid = c.oid /\ Older(c).owner = c.owner /\ Older(c).gen = c.gen
         /\ c.left = 0 => Older(c).left = 0
  BY BoundAssumption DEF Older, Claims

\* A new commit is nobody's.
LEMMA FreshCommit ==
  ASSUME NEW o, o \notin Known
  PROVE  /\ o # ref.oid
         /\ late # NoPush => o # late.old /\ o # late.claim.oid
         /\ \A p \in Procs : Holding(p) => o # held[p].oid
         /\ \A p \in Procs : Live(p) => o # push[p].old /\ o # push[p].claim.oid
  BY DEF Known, Holders, Pushers, Holding, Live

LEMMA CommitIsNew ==
  ASSUME NEW old, NEW c, Oids \ Known # {}
  PROVE  Commit(old, c) \in Oids /\ Commit(old, c) \notin Known
  BY DEF Commit

-----------------------------------------------------------------------------
(* What the steps do to the commits *)

\* Nothing new: the remote's claim stays, pushes and workers may be forgotten.
Drops ==
  /\ ref' = ref /\ late' \in {late, NoPush}
  /\ \A q \in Procs : held'[q] \in {held[q], NoClaim} /\ push'[q] \in {push[q], NoPush}
  /\ \A q \in Procs : pc'[q] = "push" => pc[q] = "push" /\ push'[q] = push[q]

LEMMA DropsKeep ==
  ASSUME CommitInv, StepHas, Drops
  PROVE  CommitInv'
<1>1. \A q \in Procs : /\ Holding(q)' => Holding(q) /\ held'[q] = held[q]
                       /\ Live(q)' => Live(q) /\ push'[q] = push[q]
  BY DEF Drops, Holding, Live
<1>2. CommitsDiffer'
  BY <1>1 DEF CommitInv, CommitsDiffer, Drops
<1>3. NotYet'
  BY DEF CommitInv, NotYet, Drops
<1>4. NotExpected'
  BY <1>1 DEF CommitInv, NotExpected, Drops
<1>5. Believed'
  BY <1>1 DEF CommitInv, Believed, Drops
<1>6. AllFenced'
  BY DEF CommitInv, AllFenced, Fenced, Drops
<1> QED
  BY <1>2, <1>3, <1>4, <1>5, <1>6 DEF CommitInv

\* The others keep what they have.
Apart(p) ==
  \A q \in Procs \ {p} :
    /\ held'[q] = held[q] /\ push'[q] = push[q] /\ pc'[q] = pc[q]
    /\ view'[q] = view[q] /\ failure'[q] = failure[q] /\ landed'[q] = landed[q]

\* A push of a new commit begins.
Starts(p) ==
  /\ Apart(p) /\ ref' = ref /\ late' = late /\ held' = held
  /\ ~Live(p) /\ pc'[p] = "push"
  /\ push'[p].claim.oid \notin Known
  /\ push'[p].old = ref.oid \/ (Holding(p) /\ push'[p].old = held[p].oid)
  /\ Fenced(push'[p])

LEMMA StartsKeep ==
  ASSUME NEW p \in Procs, CommitInv, StepHas, Starts(p)
  PROVE  CommitInv'
<1> DEFINE o == push'[p].claim.oid
<1>1. /\ o # ref.oid
      /\ late # NoPush => o # late.old /\ o # late.claim.oid
      /\ \A q \in Procs : Holding(q) => o # held[q].oid
      /\ \A q \in Procs : Live(q) => o # push[q].old /\ o # push[q].claim.oid
  <2>1. o \notin Known
    BY DEF Starts
  <2> QED
    BY <2>1, FreshCommit
<1>2. \A q \in Procs \ {p} : /\ Live(q)' <=> Live(q)
                             /\ push'[q] = push[q] /\ pc'[q] = pc[q]
  BY DEF Starts, Apart, Live
<1>3. \A q \in Procs : Holding(q)' <=> Holding(q)
  BY DEF Starts, Holding
<1>4. held' = held /\ ref' = ref /\ late' = late /\ pc'[p] = "push"
  BY DEF Starts
<1>5. CommitsDiffer'
  BY <1>1, <1>2, <1>3, <1>4 DEF CommitInv, CommitsDiffer
<1>6. NotYet'
  BY <1>1, <1>2, <1>4 DEF CommitInv, NotYet
<1>7. NotExpected'
  <2>1. \A q \in Procs : pc[q] = "push" => Live(q)
    BY DEF StepHas, Has
  <2>2. push'[p].old # o
    BY <1>1 DEF Starts
  <2>3. \A q \in Procs : pc[q] = "push" => push'[p].old # push[q].claim.oid
    BY <2>1 DEF Starts, CommitInv, NotYet, CommitsDiffer
  <2>4. late # NoPush => push'[p].old # late.claim.oid
    BY DEF Starts, CommitInv, NotYet, CommitsDiffer
  <2> QED
    BY <1>1, <1>2, <1>4, <2>2, <2>3, <2>4 DEF CommitInv, NotExpected
<1>8. Believed'
  BY <1>1, <1>2, <1>3, <1>4 DEF CommitInv, Believed
<1>9. AllFenced'
  BY <1>2, <1>4 DEF CommitInv, AllFenced, Fenced, Starts
<1> QED
  BY <1>5, <1>6, <1>7, <1>8, <1>9 DEF CommitInv

\* A push is applied; its worker learns it now or reads it back later.
Applies(p) ==
  /\ Apart(p) /\ late' = late /\ pc[p] = "push" /\ pc'[p] # "push"
  /\ ref' = push[p].claim
  /\ \/ held'[p] = held[p] /\ push'[p] = push[p]
     \/ held'[p] \in {NoClaim, push[p].claim} /\ push'[p] = NoPush

LEMMA AppliesKeeps ==
  ASSUME NEW p \in Procs, CommitInv, StepHas, Applies(p)
  PROVE  CommitInv'
<1> DEFINE c == push[p].claim
<1>1. Live(p)
  BY DEF Applies, StepHas, Has
<1>2. /\ \A q \in Procs : Holding(q) => c.oid # held[q].oid
      /\ \A q \in Procs : Live(q) /\ q # p => push[q].claim.oid # c.oid
      /\ late # NoPush => late.claim.oid # c.oid /\ late.old # c.oid
      /\ \A q \in Procs : Live(q) => push[q].old # c.oid
  BY <1>1 DEF CommitInv, CommitsDiffer, NotExpected, Applies
<1>3. \A q \in Procs \ {p} : /\ Live(q)' <=> Live(q)
                             /\ Holding(q)' <=> Holding(q)
                             /\ push'[q] = push[q] /\ pc'[q] = pc[q] /\ held'[q] = held[q]
  BY DEF Applies, Apart, Live, Holding
<1>4. /\ late' = late /\ ref' = c /\ pc'[p] # "push"
      /\ \/ held'[p] = held[p] /\ push'[p] = push[p]
         \/ held'[p] \in {NoClaim, c} /\ ~Live(p)'
  BY DEF Applies, Live
<1>4a. \A q \in Procs : pc[q] = "push" => Live(q)
  BY DEF StepHas, Has
<1>5. CommitsDiffer'
  BY <1>1, <1>2, <1>3, <1>4 DEF CommitInv, CommitsDiffer, Holding, Live
<1>6. NotYet'
  BY <1>2, <1>3, <1>4, <1>4a DEF CommitInv, NotYet
<1>7. NotExpected'
  BY <1>1, <1>3, <1>4 DEF CommitInv, NotExpected, Live
<1>8. Believed'
  BY <1>1, <1>2, <1>3, <1>4 DEF CommitInv, Believed, Holding, Live
<1>9. AllFenced'
  BY <1>2, <1>3, <1>4, <1>4a DEF CommitInv, AllFenced, Fenced
<1> QED
  BY <1>5, <1>6, <1>7, <1>8, <1>9 DEF CommitInv

\* A worker finds that its push was applied.
Learns(p) ==
  /\ Apart(p) /\ late' = late /\ ref' = ref /\ Live(p) /\ pc'[p] # "push"
  /\ push[p].claim.oid = ref.oid
  /\ held'[p] \in {NoClaim, push[p].claim} /\ push'[p] = NoPush

LEMMA LearnsKeeps ==
  ASSUME NEW p \in Procs, CommitInv, StepHas, Learns(p)
  PROVE  CommitInv'
<1>1. push[p].claim = ref
  BY DEF Learns, CommitInv, Believed
<1>2. \A q \in Procs \ {p} : /\ Live(q)' <=> Live(q)
                             /\ Holding(q)' <=> Holding(q)
                             /\ push'[q] = push[q] /\ pc'[q] = pc[q] /\ held'[q] = held[q]
  BY DEF Learns, Apart, Live, Holding
<1>3. /\ late' = late /\ ref' = ref /\ pc'[p] # "push" /\ Live(p) /\ ~Live(p)'
      /\ held'[p] \in {NoClaim, push[p].claim}
  BY DEF Learns, Live
<1>4. CommitsDiffer'
  BY <1>1, <1>2, <1>3 DEF CommitInv, CommitsDiffer, NotYet, Holding
<1>5. NotYet'
  BY <1>2, <1>3 DEF CommitInv, NotYet
<1>6. NotExpected'
  BY <1>2, <1>3 DEF CommitInv, NotExpected
<1>7. Believed'
  BY <1>1, <1>2, <1>3 DEF CommitInv, Believed, Holding
<1>8. AllFenced'
  BY <1>2, <1>3 DEF CommitInv, AllFenced, Fenced
<1> QED
  BY <1>4, <1>5, <1>6, <1>7, <1>8 DEF CommitInv

\* A push is given up on and may be applied later.
GivesUp(p) ==
  /\ ref' = ref /\ held' = held /\ push' = push /\ pc[p] = "push"
  /\ \A q \in Procs : pc'[q] = "push" <=> pc[q] = "push" /\ q # p
  /\ late' \in {late, push[p]}

LEMMA GivesUpKeeps ==
  ASSUME NEW p \in Procs, CommitInv, StepHas, GivesUp(p)
  PROVE  CommitInv'
<1>1. CASE late' = late
  <2>1. Drops
    BY <1>1 DEF GivesUp, Drops
  <2> QED
    BY <2>1, DropsKeep
<1>2. CASE late' = push[p]
  <2>1. /\ ref' = ref /\ held' = held /\ push' = push /\ pc[p] = "push" /\ late' = push[p]
        /\ \A q \in Procs : pc'[q] = "push" <=> pc[q] = "push" /\ q # p
        /\ \A q \in Procs : Live(q)' = Live(q) /\ Holding(q)' = Holding(q)
    BY <1>2 DEF GivesUp, Live, Holding
  <2>2. Live(p) /\ \A q \in Procs : pc[q] = "push" => Live(q)
    BY <2>1 DEF StepHas, Has
  <2>3. CommitsDiffer'
    BY <2>1, <2>2 DEF CommitInv, CommitsDiffer
  <2>4. NotYet'
    BY <2>1 DEF CommitInv, NotYet
  <2>5. NotExpected'
    BY <2>1, <2>2 DEF CommitInv, NotExpected
  <2>6. Believed'
    BY <2>1 DEF CommitInv, Believed
  <2>7. AllFenced'
    BY <2>1 DEF CommitInv, AllFenced, Fenced
  <2> QED
    BY <2>3, <2>4, <2>5, <2>6, <2>7 DEF CommitInv
<1> QED
  BY <1>1, <1>2 DEF GivesUp

\* The late push is applied.
Comes == /\ late # NoPush /\ late' = NoPush /\ ref' = late.claim
         /\ UNCHANGED <<held, push, pc>>

LEMMA ComesKeeps ==
  ASSUME CommitInv, StepHas, Comes
  PROVE  CommitInv'
<1>1. /\ late # NoPush /\ late' = NoPush /\ ref' = late.claim
      /\ held' = held /\ push' = push /\ pc' = pc
      /\ \A q \in Procs : Live(q)' = Live(q) /\ Holding(q)' = Holding(q)
  BY DEF Comes, Live, Holding
<1>2. \A q \in Procs : pc[q] = "push" => Live(q)
  BY DEF StepHas, Has
<1>3. CommitsDiffer'
  BY <1>1 DEF CommitInv, CommitsDiffer
<1>4. NotYet'
  BY <1>1, <1>2 DEF CommitInv, CommitsDiffer, NotYet
<1>5. NotExpected'
  BY <1>1 DEF CommitInv, NotExpected
<1>6. Believed'
  BY <1>1 DEF CommitInv, CommitsDiffer, Believed
<1>7. AllFenced'
  BY <1>1, <1>2 DEF CommitInv, AllFenced, NotExpected, Fenced
<1> QED
  BY <1>3, <1>4, <1>5, <1>6, <1>7 DEF CommitInv

\* Time passes: claims grow older, and that is all.
AgedPush(q, r) ==
  /\ r.kind = q.kind /\ r.old = q.old /\ r.branch = q.branch /\ r.from = q.from /\ r.to = q.to
  /\ r.claim = Older(q.claim)

Ages ==
  /\ ref' = Older(ref) /\ pc' = pc
  /\ \A p \in Procs : /\ Holding(p)' <=> Holding(p)
                      /\ Live(p)' <=> Live(p)
                      /\ Holding(p) => held'[p] = Older(held[p])
                      /\ Live(p) => AgedPush(push[p], push'[p])
                      /\ late # NoPush /\ Live(p) /\ push[p] = late => push'[p] = late'
  /\ late # NoPush <=> late' # NoPush
  /\ late # NoPush => AgedPush(late, late')

LEMMA TickAges ==
  ASSUME TypeOK, Tick
  PROVE  Ages
<1>1. ASSUME NEW q \in Pushes
      PROVE  /\ [q EXCEPT !.claim = Older(@)] # NoPush
             /\ AgedPush(q, [q EXCEPT !.claim = Older(@)])
  <2>1. Older(q.claim) \in Claims
    BY OlderClaim DEF Pushes
  <2>2. [q EXCEPT !.claim = Older(@)] \in Pushes
    BY <2>1 DEF Pushes
  <2> QED
    BY <2>2, NullPush DEF AgedPush, Pushes
<1>2. \A c \in Claims : Older(c) # NoClaim
  BY OlderClaim, NullAssumption
<1>3. \A p \in Procs : /\ held[p] # NoClaim => held[p] \in Claims
                       /\ push[p] # NoPush => push[p] \in Pushes
  BY DEF TypeOK
<1>4. late # NoPush => late \in Pushes
  BY DEF TypeOK
<1>5. \A p \in Procs : /\ Holding(p)' <=> Holding(p)
                       /\ Holding(p) => held'[p] = Older(held[p])
  BY <1>2, <1>3 DEF Tick, Holding
<1>6. \A p \in Procs : /\ Live(p)' <=> Live(p)
                       /\ Live(p) => AgedPush(push[p], push'[p])
  BY <1>1, <1>3 DEF Tick, Live
<1>7. \A p \in Procs : late # NoPush /\ Live(p) /\ push[p] = late => push'[p] = late'
  BY DEF Tick, Live
<1>8. (late # NoPush <=> late' # NoPush) /\ (late # NoPush => AgedPush(late, late'))
  BY <1>1, <1>4 DEF Tick
<1> QED
  BY <1>5, <1>6, <1>7, <1>8 DEF Tick, Ages

LEMMA AgesKeep ==
  ASSUME TypeOK, CommitInv, StepHas, Ages
  PROVE  CommitInv'
<1> DEFINE Same(c, d) == /\ d.oid = c.oid /\ d.owner = c.owner /\ d.gen = c.gen
                         /\ c.left = 0 => d.left = 0
<1>1. /\ \A p \in Procs : /\ Holding(p)' <=> Holding(p)
                          /\ Live(p)' <=> Live(p)
                          /\ Holding(p) => Same(held[p], held'[p])
                          /\ Live(p) => /\ Same(push[p].claim, push'[p].claim)
                                        /\ push'[p].old = push[p].old
                                        /\ push'[p].kind = push[p].kind
      /\ Same(ref, ref') /\ pc' = pc
      /\ late # NoPush <=> late' # NoPush
      /\ late # NoPush => /\ Same(late.claim, late'.claim)
                          /\ late'.old = late.old /\ late'.kind = late.kind
  <2>1. \A p \in Procs : /\ Holding(p) => held[p] \in Claims
                         /\ Live(p) => push[p].claim \in Claims
    BY DEF TypeOK, Holding, Live, Pushes
  <2>2. ref \in Claims /\ (late # NoPush => late.claim \in Claims)
    BY DEF TypeOK, Pushes
  <2> QED
    BY <2>1, <2>2, OlderClaim DEF Ages, AgedPush
<1>2. \A q \in Procs : pc[q] = "push" => Live(q)
  BY DEF StepHas, Has
<1>3. CommitsDiffer'
  <2>1. late # NoPush => \A q \in Procs : Live(q) /\ push[q] = late => push'[q] = late'
    BY DEF Ages
  <2> QED
    BY <1>1, <2>1 DEF CommitInv, CommitsDiffer
<1>4. NotYet'
  BY <1>1, <1>2 DEF CommitInv, NotYet
<1>5. NotExpected'
  BY <1>1, <1>2 DEF CommitInv, NotExpected
<1>6. Believed'
  <2>1. ASSUME NEW p \in Procs, Holding(p)', held'[p].oid = ref'.oid PROVE held'[p] = ref'
    <3>1. held[p] = ref
      BY <1>1, <2>1 DEF CommitInv, Believed
    <3> QED
      BY <3>1, <1>1, <2>1 DEF Ages
  <2>2. ASSUME NEW p \in Procs, Live(p)', push'[p].claim.oid = ref'.oid
        PROVE  push'[p].claim = ref'
    <3>1. push[p].claim = ref
      BY <1>1, <2>2 DEF CommitInv, Believed
    <3> QED
      BY <3>1, <1>1, <2>2 DEF Ages, AgedPush
  <2> QED
    BY <2>1, <2>2 DEF Believed
<1>7. AllFenced'
  BY <1>1, <1>2 DEF CommitInv, AllFenced, Fenced
<1> QED
  BY <1>3, <1>4, <1>5, <1>6, <1>7 DEF CommitInv

-----------------------------------------------------------------------------
(* Every step is one of these *)

\* The history of a worker that has no new push stays honest.
KeepsHistory(p) ==
  /\ landed'[p] => landed[p] /\ Live(p)' /\ pc'[p] # "push" /\ failure'[p] = failure[p]
  /\ pc'[p] \in {"failed", "denied"} => ~landed'[p]

Calm(p) == Drops /\ Apart(p) /\ Has(p)' /\ KeepsHistory(p)

Begun(p) ==
  /\ Starts(p) /\ Has(p)' /\ Formed(push'[p])
  /\ landed' = landed

Done(p) ==
  /\ Applies(p) \/ Learns(p)
  /\ Has(p)'
  /\ pc'[p] \notin {"failed", "denied"}
  /\ landed'[p] => Live(p)' /\ failure'[p] = "lost"

Abandoned(p) ==
  /\ GivesUp(p) /\ Apart(p) /\ Has(p)' /\ landed' = landed /\ pc'[p] = "read back"

Still == \A p \in Procs : pc'[p] = pc[p] /\ view'[p] = view[p]
                          /\ failure'[p] = failure[p] /\ landed'[p] = landed[p]

Kinds ==
  \/ \E p \in Procs : Calm(p) \/ Begun(p) \/ Done(p) \/ Abandoned(p)
  \/ Still /\ (Comes \/ Ages \/ (Drops /\ UNCHANGED <<held, push>>))

LEMMA QuietCalm ==
  ASSUME NEW p \in Procs, NEW step \in Steps \ {"push"}, TypeOK, StepHas,
         pc' = [pc EXCEPT ![p] = step],
         ref' = ref, late' = late, held' = held, push' = push,
         \A q \in Procs \ {p} : view'[q] = view[q] /\ failure'[q] = failure[q],
         landed' = landed, Has(p)', landed[p] => failure'[p] = failure[p],
         step \in {"failed", "denied"} => ~landed[p], LandedFollowed
  PROVE  Calm(p)
<1>1. /\ pc'[p] = step /\ \A q \in Procs \ {p} : pc'[q] = pc[q]
  BY DEF TypeOK
<1>2. Drops
  BY <1>1 DEF Drops
<1>3. Apart(p)
  BY <1>1 DEF Apart
<1>4. KeepsHistory(p)
  BY <1>1 DEF KeepsHistory, LandedFollowed, Live
<1> QED
  BY <1>2, <1>3, <1>4 DEF Calm

LEMMA LeaveCalm ==
  ASSUME NEW p \in Procs, TypeOK, Leave(p), ref' = ref, late' = late
  PROVE  Calm(p)
<1>1. /\ pc'[p] = "idle" /\ held'[p] = NoClaim /\ push'[p] = NoPush
      /\ landed'[p] = FALSE
      /\ Apart(p)
  BY DEF Leave, Goto, Forget, TypeOK, Apart
<1>2. Drops
  BY <1>1 DEF Drops, Apart
<1>3. Has(p)'
  BY <1>1 DEF Has, Holding, Live
<1>4. KeepsHistory(p)
  BY <1>1 DEF KeepsHistory
<1> QED
  BY <1>1, <1>2, <1>3, <1>4 DEF Calm

\* A call that goes on after its push.
LEMMA SucceedDone ==
  ASSUME NEW p \in Procs, TypeOK, StepHas, WellFormed, Live(p), Succeed(p)
  PROVE  /\ Apart(p) /\ Has(p)'
         /\ pc'[p] \in {"idle", "claimed", "save", "advancing"}
         /\ held'[p] \in {NoClaim, push[p].claim} /\ push'[p] = NoPush
         /\ landed'[p] = FALSE
<1> DEFINE q == push[p]
<1>1. q \in Pushes /\ q.claim \in Claims /\ q.claim # NoClaim
  BY NullAssumption DEF TypeOK, Live, Pushes
<1>2. CASE q.kind \in {"publish", "release"}
  <2>1. Leave(p)
    BY <1>2 DEF Succeed
  <2>2. /\ pc'[p] = "idle" /\ held'[p] = NoClaim /\ push'[p] = NoPush
        /\ landed'[p] = FALSE
        /\ Apart(p)
    BY <2>1 DEF Leave, Goto, Forget, TypeOK, Apart
  <2> QED
    BY <2>2 DEF Has, Holding, Live
<1>3. CASE q.kind \notin {"publish", "release"}
  <2>1. /\ Forget(p)
        /\ held' = [held EXCEPT ![p] = q.claim] /\ push' = [push EXCEPT ![p] = NoPush]
        /\ Goto(p, CASE q.kind = "acquire" -> "claimed"
                     [] q.kind = "renew" -> "save"
                     [] q.kind = "promote" -> "advancing")
        /\ view' = IF q.kind = "promote" THEN [view EXCEPT ![p].head = q.to] ELSE view
    BY <1>3 DEF Succeed
  <2>2. /\ held'[p] = q.claim /\ push'[p] = NoPush /\ landed'[p] = FALSE
        /\ \A r \in Procs \ {p} : /\ held'[r] = held[r] /\ push'[r] = push[r]
                                  /\ failure'[r] = failure[r] /\ landed'[r] = landed[r]
    BY <2>1 DEF Forget, TypeOK
  <2>3. \A r \in Procs \ {p} : view'[r] = view[r] /\ pc'[r] = pc[r]
    BY <2>1 DEF Goto, TypeOK
  <2>4. q.kind \in {"acquire", "renew", "promote"}
    BY <1>1, <1>3 DEF Pushes
  <2>5. pc'[p] = (CASE q.kind = "acquire" -> "claimed"
                    [] q.kind = "renew" -> "save"
                    [] q.kind = "promote" -> "advancing")
    BY <2>1 DEF Goto, TypeOK
  <2>6. pc'[p] \in {"claimed", "save", "advancing"} /\ (pc'[p] = "save" => q.kind = "renew")
    BY <2>4, <2>5
  <2>7. q.kind = "renew" => view'[p] = view[p]
    BY <2>1
  <2>8. Has(p)'
    BY <1>1, <2>2, <2>6, <2>7 DEF Has, StepHas, Holding, Live
  <2> QED
    BY <2>2, <2>3, <2>6, <2>8 DEF Apart
<1> QED
  BY <1>2, <1>3

\* Starting a push.
LEMMA StartBegun ==
  ASSUME NEW p \in Procs, NEW q \in Pushes, TypeOK, StepHas, ~Live(p), Start(p, q),
         q.claim.oid \notin Known,
         q.old = ref.oid \/ (Holding(p) /\ q.old = held[p].oid),
         Fenced(q), Formed(q), q.kind = "acquire" <=> ~Holding(p),
         \A r \in Procs \ {p} : view'[r] = view[r],
         q.kind = "renew" => view'[p].rev < MaxRevision
  PROVE  Begun(p)
<1>1. /\ push'[p] = q /\ pc'[p] = "push" /\ held' = held /\ ref' = ref /\ late' = late
      /\ landed' = landed /\ failure' = failure
      /\ \A r \in Procs \ {p} : push'[r] = push[r] /\ pc'[r] = pc[r]
  BY DEF Start, TypeOK, remote, comments, outcome
<1>2. q # NoPush
  BY NullPush
<1>3. Fenced(push'[p])
  BY <1>1 DEF Fenced
<1>4. Starts(p)
  BY <1>1, <1>3 DEF Starts, Apart
<1>5. Has(p)'
  BY <1>1, <1>2 DEF Has, Live, Holding
<1> QED
  BY <1>1, <1>4, <1>5 DEF Begun

\* Starting a push under the claim it holds.
LEMMA HeldBegun ==
  ASSUME NEW p \in Procs, NEW kind \in {"renew", "promote", "publish", "release"},
         NEW c \in Claims, NEW name \in {"none", "temp", "parent"},
         NEW from \in Heads \cup {Base}, NEW to \in Heads,
         TypeOK, StepHas, WellFormed, CommitInv, Holding(p), ~Live(p),
         c.owner = held[p].owner, c.gen = held[p].gen,
         kind \in {"renew", "release"} => name = "none",
         kind = "promote" => name = "temp" /\ from \in Nat /\ to = from + 1,
         kind = "publish" => name = "parent" /\ from = Base,
         Start(p, PushOf(kind, held[p].oid, c, name, from, to)),
         \A r \in Procs \ {p} : view'[r] = view[r],
         kind = "renew" => view'[p].rev < MaxRevision
  PROVE  Begun(p)
<1> DEFINE q == PushOf(kind, held[p].oid, c, name, from, to)
<1>1. held[p] \in Claims /\ held[p].oid \in Oids \cup {NoOid}
  BY DEF TypeOK, Holding, Claims
<1>2. /\ q \in Pushes
      /\ q.kind = kind /\ q.old = held[p].oid /\ q.branch = name /\ q.from = from /\ q.to = to
      /\ q.claim.owner = c.owner /\ q.claim.gen = c.gen
      /\ q.claim.oid \notin Known
  <2>1. Oids \ Known # {}
    BY DEF Start
  <2>2. Commit(held[p].oid, c) \in Oids /\ Commit(held[p].oid, c) \notin Known
    BY <2>1, CommitIsNew
  <2> QED
    BY <1>1, <2>2 DEF PushOf, Pushes, Claims
<1> HIDE DEF q
<1>3. Formed(q)
  BY <1>2 DEF Formed, WellFormed
<1>4. Fenced(q)
  BY <1>2 DEF Fenced, CommitInv, Believed
<1>5. Start(p, q)
  BY DEF q
<1> QED
  BY <1>2, <1>3, <1>4, <1>5, StartBegun

LEMMA AcquireBegun ==
  ASSUME NEW p \in Procs, IInv, Acquire(p)
  PROVE  Begun(p)
<1> DEFINE c == [oid |-> NoOid, owner |-> Identity[p], gen |-> NextGeneration(p), left |-> TTL]
           q == PushOf("acquire", ref.oid, c, "none", 0, 0)
<1>1. TypeOK /\ StepHas
  BY DEF IInv
<1>2. ~Live(p) /\ ~Holding(p)
  BY <1>1 DEF Acquire, StepHas, Has
<1>3. c \in Claims /\ 0 \in Heads /\ Identity[p] \in Owners
  BY <1>1, BoundAssumption, IdentityAssumption
     DEF Acquire, NextGeneration, TypeOK, Claims, Heads
<1>4. /\ q \in Pushes
      /\ q.kind = "acquire" /\ q.old = ref.oid /\ q.branch = "none"
      /\ q.claim.owner = Identity[p] /\ q.claim.gen = NextGeneration(p)
      /\ q.claim.oid \notin Known
  <2>1. ref.oid \in Oids \cup {NoOid} /\ Oids \ Known # {}
    BY <1>1 DEF TypeOK, Claims, Acquire, Start
  <2> HIDE DEF c
  <2>2. /\ q \in Pushes
        /\ q.kind = "acquire" /\ q.old = ref.oid /\ q.branch = "none"
        /\ q.claim.owner = c.owner /\ q.claim.gen = c.gen
        /\ q.claim.oid \notin Known
    <3>1. Commit(ref.oid, c) \in Oids /\ Commit(ref.oid, c) \notin Known
      BY <2>1, CommitIsNew
    <3> QED
      BY <1>3, <2>1, <3>1 DEF PushOf, Pushes, Claims
  <2> QED
    BY <2>2 DEF c
<1>5. Start(p, q) /\ view' = view
  BY DEF Acquire
<1> HIDE DEF q
<1>6. Formed(q)
  BY <1>3, <1>4 DEF Formed
<1>7. Fenced(q)
  BY <1>4 DEF Fenced, NextGeneration, Takeable, Acquire
<1> QED
  BY <1>1, <1>2, <1>4, <1>5, <1>6, <1>7, StartBegun

LEMMA PromoteBegun ==
  ASSUME NEW p \in Procs, IInv, Promote(p)
  PROVE  Begun(p)
<1> DEFINE c == [held[p] EXCEPT !.oid = NoOid]
<1>1. TypeOK /\ StepHas /\ WellFormed /\ CommitInv
  BY DEF IInv
<1>2. Holding(p) /\ ~Live(p)
  BY <1>1 DEF Promote, StepHas, Has
<1>3. c \in Claims /\ c.owner = held[p].owner /\ c.gen = held[p].gen
  BY <1>1, <1>2 DEF TypeOK, Holding, Claims
<1>4. FixInput(p) \in Heads \cup {Base} /\ FixInput(p) \in Nat /\ FixInput(p) + 1 \in Heads
  BY BoundAssumption DEF Promote, Heads
<1>5. Start(p, PushOf("promote", held[p].oid, c, "temp", FixInput(p), FixInput(p) + 1))
      /\ view' = view
  BY DEF Promote
<1> HIDE DEF c
<1> QED
  BY <1>1, <1>2, <1>3, <1>4, <1>5, HeldBegun

LEMMA RenewBegun ==
  ASSUME NEW p \in Procs, IInv, Renew(p)
  PROVE  Begun(p)
<1> DEFINE c == [held[p] EXCEPT !.oid = NoOid, !.left = TTL]
<1>1. TypeOK /\ StepHas /\ WellFormed /\ CommitInv
  BY DEF IInv
<1>2. Holding(p) /\ ~Live(p)
  BY <1>1 DEF Renew, StepHas, Has
<1>3. c \in Claims /\ c.owner = held[p].owner /\ c.gen = held[p].gen /\ 0 \in Heads
  <2>1. held[p] \in Claims
    BY <1>1, <1>2 DEF TypeOK, Holding
  <2>2. TTL \in 0..TTL /\ 0 \in 0..TTL /\ 0 \in Heads
    BY BoundAssumption DEF Heads
  <2> QED
    BY <2>1, <2>2 DEF Claims
<1>4. /\ Start(p, PushOf("renew", held[p].oid, c, "none", 0, 0))
      /\ \A r \in Procs \ {p} : view'[r] = view[r]
      /\ view'[p].rev < MaxRevision
  BY <1>1 DEF Renew, TypeOK, States
<1> HIDE DEF c
<1> QED
  BY <1>1, <1>2, <1>3, <1>4, HeldBegun

LEMMA PublishBegun ==
  ASSUME NEW p \in Procs, IInv, Publish(p)
  PROVE  Begun(p)
<1> DEFINE c == [held[p] EXCEPT !.oid = NoOid]
<1>1. TypeOK /\ StepHas /\ WellFormed /\ CommitInv
  BY DEF IInv
<1>2. Holding(p) /\ ~Live(p)
  BY <1>1 DEF Publish, StepHas, Has
<1>3. c \in Claims /\ c.owner = held[p].owner /\ c.gen = held[p].gen
  BY <1>1, <1>2 DEF TypeOK, Holding, Claims
<1>4. view[p].head \in Heads
  BY <1>1 DEF TypeOK, States
<1>5. Start(p, PushOf("publish", held[p].oid, c, "parent", Base, view[p].head))
      /\ view' = view
  BY DEF Publish
<1> HIDE DEF c
<1> QED
  BY <1>1, <1>2, <1>3, <1>4, <1>5, HeldBegun

LEMMA ReleaseBegun ==
  ASSUME NEW p \in Procs, IInv, Release(p)
  PROVE  Begun(p)
<1> DEFINE c == [held[p] EXCEPT !.oid = NoOid, !.left = 0]
<1>1. TypeOK /\ StepHas /\ WellFormed /\ CommitInv
  BY DEF IInv
<1>2. Holding(p) /\ ~Live(p)
  BY <1>1 DEF Release, StepHas, Has
<1>3. c \in Claims /\ c.owner = held[p].owner /\ c.gen = held[p].gen /\ 0 \in Heads
  <2>1. held[p] \in Claims
    BY <1>1, <1>2 DEF TypeOK, Holding
  <2>2. TTL \in 0..TTL /\ 0 \in 0..TTL /\ 0 \in Heads
    BY BoundAssumption DEF Heads
  <2> QED
    BY <2>1, <2>2 DEF Claims
<1>4. Start(p, PushOf("release", held[p].oid, c, "none", 0, 0)) /\ view' = view
  BY DEF Release
<1> HIDE DEF c
<1> QED
  BY <1>1, <1>2, <1>3, <1>4, HeldBegun

\* What the remote accepts expected its commit.
LEMMA LeaseIsOld ==
  ASSUME NEW q, q.claim.oid # ref.oid, LeasesHold(q)
  PROVE  q.old = ref.oid
  BY DEF LeasesHold

LEMMA StepOfKind ==
  ASSUME IInv, NEW p \in Procs, Observe(p) \/ Step(p) \/ Fail(p)
  PROVE  Calm(p) \/ Begun(p) \/ Done(p) \/ Abandoned(p)
<1>1. TypeOK /\ StepHas /\ WellFormed /\ CommitInv /\ LandedFollowed /\ ReportsHonest
  BY DEF IInv
<1>2. Has(p) /\ pc[p] \in Steps
  BY <1>1 DEF StepHas, TypeOK
<1>3. CASE Observe(p)
  <2>1. pc' = [pc EXCEPT ![p] = "observed"] /\ pc[p] = "idle" /\ pc'[p] = "observed"
        /\ \A q \in Procs \ {p} : view'[q] = view[q]
    BY <1>1, <1>3 DEF Observe, TypeOK
  <2>2. ref' = ref /\ late' = late /\ held' = held /\ push' = push /\ landed' = landed
        /\ failure' = failure
    BY <1>3 DEF Observe, remote, outcome
  <2>3. Has(p)'
    BY <1>2, <2>1, <2>2 DEF Has, Holding, Live
  <2>4. "observed" \in Steps \ {"push"}
    BY DEF Steps
  <2> QED
    BY <1>1, <2>1, <2>2, <2>3, <2>4, QuietCalm
<1>4. CASE Acquire(p)
  BY <1>4, AcquireBegun
<1>5. CASE HeldByOther(p)
  <2>1. pc' = [pc EXCEPT ![p] = "held by other"] /\ pc[p] = "observed"
        /\ pc'[p] = "held by other"
    BY <1>1, <1>5 DEF HeldByOther, TypeOK
  <2>2. ref' = ref /\ late' = late /\ held' = held /\ push' = push /\ landed' = landed
        /\ failure' = failure /\ view' = view
    BY <1>5 DEF HeldByOther, remote, outcome, decision
  <2>3. Has(p)'
    BY <1>2, <2>1, <2>2 DEF Has, Holding, Live
  <2>4. "held by other" \in Steps \ {"push"}
    BY DEF Steps, Refusals
  <2> QED
    BY <1>1, <2>1, <2>2, <2>3, <2>4, QuietCalm
<1>6. CASE Require(p)
  <2>1. PICK step \in {"working", "stopped"} :
          pc' = [pc EXCEPT ![p] = step] /\ pc[p] = "claimed" /\ pc'[p] = step
    BY <1>1, <1>6 DEF Require, TypeOK
  <2>2. ref' = ref /\ late' = late /\ held' = held /\ push' = push /\ landed' = landed
        /\ failure' = failure /\ view' = view
    BY <1>6 DEF Require, remote, outcome, decision
  <2>3. Has(p)'
    BY <1>2, <2>1, <2>2 DEF Has, Holding, Live
  <2>4. step \in Steps \ {"push"}
    BY DEF Steps
  <2> QED
    BY <1>1, <2>1, <2>2, <2>3, <2>4, QuietCalm
<1>7. CASE Promote(p)
  BY <1>7, PromoteBegun
<1>8. CASE Adopt(p)
  <2>1. pc' = [pc EXCEPT ![p] = "advancing"] /\ pc[p] = "working" /\ pc'[p] = "advancing"
        /\ \A q \in Procs \ {p} : view'[q] = view[q]
    BY <1>1, <1>8 DEF Adopt, TypeOK
  <2>2. ref' = ref /\ late' = late /\ held' = held /\ push' = push /\ landed' = landed
        /\ failure' = failure
    BY <1>8 DEF Adopt, remote, outcome
  <2>3. Has(p)'
    BY <1>2, <2>1, <2>2 DEF Has, Holding, Live
  <2>4. "advancing" \in Steps \ {"push"}
    BY DEF Steps
  <2> QED
    BY <1>1, <2>1, <2>2, <2>3, <2>4, QuietCalm
<1>9. CASE Renew(p)
  BY <1>9, RenewBegun
<1>10. CASE Save(p)
  <2>1. PICK step \in {"advancing", "stopped"} :
          pc' = [pc EXCEPT ![p] = step] /\ pc[p] = "save" /\ pc'[p] = step
          /\ \A q \in Procs \ {p} : view'[q] = view[q]
    BY <1>1, <1>10 DEF Save, TypeOK
  <2>2. ref' = ref /\ late' = late /\ held' = held /\ push' = push /\ landed' = landed
        /\ failure' = failure
    BY <1>10 DEF Save, remote, outcome
  <2>3. Has(p)'
    BY <1>2, <2>1, <2>2 DEF Has, Holding, Live
  <2>4. step \in Steps \ {"push"}
    BY DEF Steps
  <2> QED
    BY <1>1, <2>1, <2>2, <2>3, <2>4, QuietCalm
<1>11. CASE Publish(p)
  BY <1>11, PublishBegun
<1>12. CASE Release(p)
  BY <1>12, ReleaseBegun
<1>13. CASE PushAnswered(p)
  <2>1. Live(p) /\ pc[p] = "push" /\ ref' = push[p].claim /\ late' = late /\ Succeed(p)
    BY <1>2, <1>13 DEF PushAnswered, Applied, Has
  <2>2. /\ Apart(p) /\ Has(p)'
        /\ pc'[p] \in {"idle", "claimed", "save", "advancing"}
        /\ held'[p] \in {NoClaim, push[p].claim} /\ push'[p] = NoPush
        /\ landed'[p] = FALSE
    BY <1>1, <2>1, SucceedDone
  <2> QED
    BY <2>1, <2>2 DEF Done, Applies
<1>14. CASE PushUnanswered(p)
  <2>1. /\ Live(p) /\ pc[p] = "push" /\ ref' = push[p].claim /\ late' = late
        /\ held' = held /\ push' = push /\ view' = view /\ pc'[p] = "read back"
        /\ failure'[p] = "lost" /\ Apart(p)
    BY <1>1, <1>2, <1>14 DEF PushUnanswered, Applied, Has, Goto, TypeOK, Apart, decision
  <2>2. Has(p)'
    BY <1>2, <2>1 DEF Has, Holding, Live
  <2> QED
    BY <2>1, <2>2 DEF Done, Applies, Live
<1>15. CASE PushRefused(p)
  <2>1. pc' = [pc EXCEPT ![p] = "read back"] /\ pc[p] = "push" /\ pc'[p] = "read back"
        /\ \A q \in Procs \ {p} : failure'[q] = failure[q]
    BY <1>1, <1>15 DEF PushRefused, Goto, TypeOK
  <2>2. ref' = ref /\ late' = late /\ held' = held /\ push' = push /\ landed' = landed
        /\ view' = view
    BY <1>15 DEF PushRefused, remote, decision
  <2>3. Has(p)'
    BY <1>2, <2>1, <2>2 DEF Has, Holding, Live
  <2>4. "read back" \in Steps \ {"push"} /\ ~landed[p]
    BY <1>1, <2>1 DEF Steps, LandedFollowed
  <2> QED
    BY <1>1, <2>1, <2>2, <2>3, <2>4, QuietCalm
<1>16. CASE PushLost(p)
  <2>1. /\ pc[p] = "push" /\ pc'[p] = "read back" /\ \A q \in Procs \ {p} : pc'[q] = pc[q]
        /\ \A q \in Procs \ {p} : failure'[q] = failure[q]
        /\ late' \in {late, push[p]}
    BY <1>1, <1>16 DEF PushLost, Goto, TypeOK
  <2>2. ref' = ref /\ held' = held /\ push' = push /\ landed' = landed /\ view' = view
    BY <1>16 DEF PushLost, remote, decision
  <2>3. Has(p)'
    BY <1>2, <2>1, <2>2 DEF Has, Holding, Live
  <2> QED
    BY <2>1, <2>2, <2>3 DEF Abandoned, GivesUp, Apart
<1>17. CASE ReadBack(p) /\ ref.oid = push[p].claim.oid
  <2>1. Live(p) /\ ref' = ref /\ late' = late /\ Succeed(p)
    BY <1>2, <1>17 DEF ReadBack, remote, Has
  <2>2. /\ Apart(p) /\ Has(p)'
        /\ pc'[p] \in {"idle", "claimed", "save", "advancing"}
        /\ held'[p] \in {NoClaim, push[p].claim} /\ push'[p] = NoPush
        /\ landed'[p] = FALSE
    BY <1>1, <2>1, SucceedDone
  <2> QED
    BY <1>17, <2>1, <2>2 DEF Done, Learns
<1>18. CASE ReadBack(p) /\ ref.oid # push[p].claim.oid
  <2>1. /\ pc[p] = "read back" /\ pc' = [pc EXCEPT ![p] = Classify(p)] /\ pc'[p] = Classify(p)
    BY <1>1, <1>18 DEF ReadBack, Goto, TypeOK
  <2>2. ref' = ref /\ late' = late /\ held' = held /\ push' = push /\ landed' = landed
        /\ failure' = failure /\ view' = view
    BY <1>18 DEF ReadBack, remote, outcome, decision
  <2>3. /\ Classify(p) \in Refusals
        /\ Classify(p) \in {"failed", "denied"} => ref.oid = push[p].old
    BY DEF Classify, Refusals
  <2>4. Live(p)
    BY <1>2, <2>1 DEF Has
  <2>5. Has(p)'
    BY <1>2, <2>1, <2>2, <2>3, <2>4 DEF Has, Holding, Live, Refusals
  <2>6. Classify(p) \in Steps \ {"push"}
    BY <2>3 DEF Steps, Refusals
  <2>7. Classify(p) \in {"failed", "denied"} => ~landed[p]
    BY <1>1, <2>3 DEF LandedFollowed
  <2> QED
    BY <1>1, <2>1, <2>2, <2>5, <2>6, <2>7, QuietCalm
<1>19. CASE ReadBackFails(p)
  <2>1. PICK step \in {"rejected", "unknown"} :
          pc[p] = "read back" /\ pc' = [pc EXCEPT ![p] = step] /\ pc'[p] = step
    BY <1>1, <1>19 DEF ReadBackFails, Goto, TypeOK
  <2>2. ref' = ref /\ late' = late /\ held' = held /\ push' = push /\ landed' = landed
        /\ failure' = failure /\ view' = view
    BY <1>19 DEF ReadBackFails, remote, outcome, decision
  <2>3. Has(p)'
    BY <1>2, <2>1, <2>2 DEF Has, Holding, Live
  <2>4. step \in Steps \ {"push"}
    BY DEF Steps, Refusals
  <2> QED
    BY <1>1, <2>1, <2>2, <2>3, <2>4, QuietCalm
<1>20. CASE React(p) /\ push[p] # NoPush /\ push[p].kind = "promote"
  <2>1. /\ pc'[p] = "stopped" /\ push'[p] = NoPush /\ landed'[p] = FALSE
        /\ ref' = ref /\ late' = late /\ held' = held /\ view' = view
        /\ Apart(p)
    BY <1>1, <1>20 DEF React, Goto, Forget, TypeOK, Apart, remote, decision
  <2>2. Holding(p)
    BY <1>2, <1>20 DEF Has, Live
  <2>3. Has(p)'
    BY <2>1, <2>2 DEF Has, Holding, Live
  <2>4. Drops
    BY <2>1 DEF Drops, Apart
  <2> QED
    BY <2>1, <2>3, <2>4 DEF Calm, KeepsHistory
<1>21. CASE React(p) /\ ~(push[p] # NoPush /\ push[p].kind = "promote")
  BY <1>1, <1>21, LeaveCalm DEF React, remote
<1>22. CASE Fail(p)
  BY <1>1, <1>22, LeaveCalm DEF Fail, remote
<1> QED
  BY <1>3, <1>4, <1>5, <1>6, <1>7, <1>8, <1>9, <1>10, <1>11, <1>12, <1>13, <1>14, <1>15,
     <1>16, <1>17, <1>18, <1>19, <1>20, <1>21, <1>22 DEF Step

LEMMA StepKinds ==
  ASSUME IInv, [Next]_vars
  PROVE  Kinds
<1>1. ASSUME NEW p \in Procs, Observe(p) \/ Step(p) \/ Fail(p) PROVE Kinds
  BY <1>1, StepOfKind DEF Kinds
<1>2. CASE Arrive
  <2>1. late' = NoPush /\ pc' = pc /\ held' = held /\ push' = push /\ Still
    BY <1>2 DEF Arrive, decision, outcome, Still
  <2>2. CASE LeasesHold(late)
    <3>1. ref' = late.claim /\ late # NoPush
      BY <1>2, <2>2 DEF Arrive, Applied
    <3> QED
      BY <2>1, <3>1 DEF Kinds, Comes
  <2>3. CASE ~LeasesHold(late)
    <3>1. ref' = ref /\ late # NoPush
      BY <1>2, <2>3 DEF Arrive, remote
    <3> QED
      BY <2>1, <3>1 DEF Kinds, Drops
  <2> QED
    BY <2>2, <2>3
<1>3. CASE Intrude
  BY <1>3 DEF Intrude, Kinds, Still, Drops, decision, outcome
<1>4. CASE Tick
  <2>1. Ages
    BY <1>4, TickAges DEF IInv
  <2>2. Still
    BY <1>4 DEF Tick, Still, decision, outcome
  <2> QED
    BY <2>1, <2>2 DEF Kinds
<1>5. CASE UNCHANGED vars
  BY <1>5 DEF vars, remote, comments, decision, outcome, Kinds, Still, Drops
<1> QED
  BY <1>1, <1>2, <1>3, <1>4, <1>5 DEF Next

-----------------------------------------------------------------------------
(* The invariant is preserved *)

LEMMA CommitStep ==
  ASSUME IInv, Kinds
  PROVE  CommitInv'
<1>1. TypeOK /\ StepHas /\ CommitInv
  BY DEF IInv
<1>2. ASSUME NEW p \in Procs, Calm(p) PROVE CommitInv'
  BY <1>1, <1>2, DropsKeep DEF Calm
<1>3. ASSUME NEW p \in Procs, Begun(p) PROVE CommitInv'
  BY <1>1, <1>3, StartsKeep DEF Begun
<1>4. ASSUME NEW p \in Procs, Done(p) PROVE CommitInv'
  BY <1>1, <1>4, AppliesKeeps, LearnsKeeps DEF Done
<1>5. ASSUME NEW p \in Procs, Abandoned(p) PROVE CommitInv'
  BY <1>1, <1>5, GivesUpKeeps DEF Abandoned
<1>6. Drops \/ Comes \/ Ages => CommitInv'
  BY <1>1, DropsKeep, ComesKeeps, AgesKeep
<1> QED
  BY <1>2, <1>3, <1>4, <1>5, <1>6 DEF Kinds

\* A step of one worker leaves what the others have.
LEMMA ApartHas ==
  ASSUME NEW p \in Procs, StepHas, Apart(p), Has(p)'
  PROVE  StepHas'
<1>1. ASSUME NEW q \in Procs \ {p} PROVE Has(q)'
  BY DEF StepHas, Apart, Has, Holding, Live
<1> QED
  BY <1>1 DEF StepHas

LEMMA HasStep ==
  ASSUME IInv, Kinds
  PROVE  StepHas'
<1>1. TypeOK /\ StepHas
  BY DEF IInv
<1>2. ASSUME NEW p \in Procs, Calm(p) \/ Begun(p) \/ Done(p) \/ Abandoned(p)
      PROVE  StepHas'
  <2>1. Apart(p) /\ Has(p)'
    BY <1>2 DEF Calm, Begun, Done, Abandoned, Starts, Applies, Learns
  <2> QED
    BY <1>1, <2>1, ApartHas
<1>3. ASSUME Still, Comes PROVE StepHas'
  BY <1>1, <1>3 DEF Still, Comes, StepHas, Has, Holding, Live
<1>4. ASSUME Still, Ages PROVE StepHas'
  BY <1>1, <1>4 DEF Still, Ages, AgedPush, StepHas, Has
<1>5. ASSUME Still, Drops, UNCHANGED <<held, push>> PROVE StepHas'
  BY <1>1, <1>5 DEF Still, StepHas, Has, Holding, Live
<1> QED
  BY <1>2, <1>3, <1>4, <1>5 DEF Kinds

LEMMA FormStep ==
  ASSUME IInv, Kinds
  PROVE  WellFormed'
<1>1. TypeOK /\ StepHas /\ WellFormed /\ CommitInv
  BY DEF IInv
<1>2. ASSUME Drops PROVE WellFormed'
  <2>1. \A q \in Procs : /\ Holding(q)' => Holding(q) /\ held'[q] = held[q]
                         /\ Live(q)' => Live(q) /\ push'[q] = push[q]
    BY <1>2 DEF Drops, Holding, Live
  <2> QED
    BY <1>1, <1>2, <2>1 DEF Drops, WellFormed, Formed
<1>3. ASSUME NEW p \in Procs, Begun(p) PROVE WellFormed'
  BY <1>1, <1>3 DEF Begun, Starts, Apart, WellFormed, Formed, Holding, Live
<1>4. ASSUME NEW p \in Procs, Done(p) PROVE WellFormed'
  <2>1. Live(p)
    BY <1>1, <1>4 DEF Done, Applies, Learns, StepHas, Has
  <2>2. /\ Apart(p) /\ late' = late
        /\ \/ held'[p] = held[p] /\ push'[p] = push[p]
           \/ held'[p] \in {NoClaim, push[p].claim} /\ push'[p] = NoPush
    BY <1>4 DEF Done, Applies, Learns
  <2> QED
    BY <1>1, <2>1, <2>2 DEF Apart, WellFormed, Formed, Holding, Live
<1>5. ASSUME NEW p \in Procs, Abandoned(p) PROVE WellFormed'
  <2>1. Live(p)
    BY <1>1, <1>5 DEF Abandoned, GivesUp, StepHas, Has
  <2> QED
    BY <1>1, <1>5, <2>1 DEF Abandoned, GivesUp, WellFormed, Formed, Holding, Live
<1>6. ASSUME Comes PROVE WellFormed'
  BY <1>1, <1>6 DEF Comes, WellFormed, Formed, Holding, Live
<1>7. ASSUME Ages PROVE WellFormed'
  <2>1. \A q \in Procs : /\ Holding(q) => held[q] \in Claims
                         /\ Live(q) => push[q].claim \in Claims
    BY <1>1 DEF TypeOK, Holding, Live, Pushes
  <2>2. late # NoPush => late.claim \in Claims
    BY <1>1 DEF TypeOK, Pushes
  <2> QED
    BY <1>1, <1>7, <2>1, <2>2, OlderClaim DEF Ages, AgedPush, WellFormed, Formed
<1> QED
  BY <1>2, <1>3, <1>4, <1>5, <1>6, <1>7 DEF Kinds, Calm

LEMMA HistoryStep ==
  ASSUME IInv, Kinds
  PROVE  LandedFollowed' /\ ReportsHonest'
<1>1. /\ StepHas /\ LandedFollowed /\ ReportsHonest
      /\ CommitsDiffer /\ NotExpected
  BY DEF IInv, CommitInv
<1>2. ASSUME NEW p \in Procs, Calm(p) PROVE LandedFollowed' /\ ReportsHonest'
  <2>1. \A q \in Procs : landed'[q] => /\ landed[q] /\ Live(q)' /\ push'[q] = push[q]
                                      /\ pc'[q] # "push" /\ failure'[q] = failure[q]
    BY <1>1, <1>2 DEF Calm, Drops, Apart, KeepsHistory, LandedFollowed, Live
  <2>2. \A q \in Procs : pc'[q] \in {"failed", "denied"} => ~landed'[q]
    BY <1>1, <1>2 DEF Calm, Apart, KeepsHistory, ReportsHonest
  <2> QED
    BY <1>1, <1>2, <2>1, <2>2 DEF Calm, Drops, LandedFollowed, ReportsHonest
<1>3. ASSUME NEW p \in Procs, Begun(p) PROVE LandedFollowed' /\ ReportsHonest'
  <2>1. ~landed'[p] /\ Apart(p) /\ ref' = ref
    BY <1>1, <1>3 DEF Begun, Starts, LandedFollowed
  <2> QED
    BY <1>1, <2>1 DEF Apart, LandedFollowed, ReportsHonest, Live
<1>4. ASSUME NEW p \in Procs, Done(p) PROVE LandedFollowed' /\ ReportsHonest'
  <2>1. /\ Apart(p) /\ pc'[p] # "push" /\ pc'[p] \notin {"failed", "denied"}
        /\ landed'[p] => Live(p)' /\ failure'[p] = "lost"
    BY <1>4 DEF Done, Applies, Learns
  <2>2. CASE Learns(p)
    BY <1>1, <2>1, <2>2 DEF Learns, Apart, LandedFollowed, ReportsHonest, Live
  <2>3. CASE Applies(p)
    <3>1. \A q \in Procs : Live(q) => push[q].old # ref'.oid
      BY <1>1, <2>3 DEF Applies, NotExpected
    <3>2. landed'[p] => push'[p] = push[p] /\ Live(p)
      BY <1>1, <2>1, <2>3 DEF Applies, StepHas, Has, Live
    <3> QED
      BY <1>1, <2>1, <3>1, <3>2 DEF Apart, LandedFollowed, ReportsHonest, Live
  <2> QED
    BY <1>4, <2>2, <2>3 DEF Done
<1>5. ASSUME NEW p \in Procs, Abandoned(p) PROVE LandedFollowed' /\ ReportsHonest'
  <2>1. ~landed'[p]
    BY <1>1, <1>5 DEF Abandoned, GivesUp, LandedFollowed
  <2> QED
    BY <1>1, <1>5, <2>1 DEF Abandoned, GivesUp, Apart, LandedFollowed, ReportsHonest, Live
<1>6. ASSUME Still, Comes PROVE LandedFollowed' /\ ReportsHonest'
  BY <1>1, <1>6 DEF Still, Comes, NotExpected, LandedFollowed, ReportsHonest, Live
<1>7. ASSUME Still, Ages PROVE LandedFollowed' /\ ReportsHonest'
  <2>1. ref'.oid = ref.oid
    BY <1>7, OlderClaim DEF Ages, IInv, TypeOK
  <2> QED
    BY <1>1, <1>7, <2>1 DEF Still, Ages, AgedPush, LandedFollowed, ReportsHonest
<1>8. ASSUME Still, Drops, UNCHANGED <<held, push>> PROVE LandedFollowed' /\ ReportsHonest'
  BY <1>1, <1>8 DEF Still, Drops, LandedFollowed, ReportsHonest, Live
<1> QED
  BY <1>2, <1>3, <1>4, <1>5, <1>6, <1>7, <1>8 DEF Kinds

-----------------------------------------------------------------------------
(* The type invariant *)

LEMMA SavedTypes == FirstState \in States /\ 0 \in Heads
  BY BoundAssumption DEF FirstState, States, Heads

LEMMA InitType == Init => TypeOK
<1> SUFFICES ASSUME Init PROVE TypeOK
  OBVIOUS
<1>1. ref \in Claims
  BY BoundAssumption DEF Init, Claims
<1>2. /\ branch \in [{"temp", "parent"} -> Heads \cup {Base, Foreign}]
      /\ branch["temp"] # Base /\ branch["parent"] # Foreign
  BY SavedTypes, BoundAssumption, HeadAssumption DEF Init, Heads
<1>3. author \in (Owners \cup {NoOwner}) \X (0..MaxGen)
  BY BoundAssumption DEF Init
<1> QED
  BY <1>1, <1>2, <1>3, SavedTypes DEF Init, TypeOK, Steps

\* What the remote and the comments have.
RemoteTypes ==
  /\ ref \in Claims
  /\ branch \in [{"temp", "parent"} -> Heads \cup {Base, Foreign}]
  /\ branch["temp"] # Base /\ branch["parent"] # Foreign
  /\ author \in (Owners \cup {NoOwner}) \X (0..MaxGen)

LEMMA AppliedTypes ==
  ASSUME NEW q \in Pushes, Formed(q), RemoteTypes, Applied(q)
  PROVE  RemoteTypes'
<1>1. /\ q.claim \in Claims /\ q.claim.owner \in Owners /\ q.claim.gen \in 0..MaxGen
      /\ q.branch \in {"none", "temp", "parent"} /\ q.to \in Heads
      /\ q.to # Base /\ q.to # Foreign
  BY BoundAssumption, HeadAssumption DEF Pushes, Claims, Formed, Heads
<1>2. /\ branch' \in [{"temp", "parent"} -> Heads \cup {Base, Foreign}]
      /\ branch'["temp"] # Base /\ branch'["parent"] # Foreign
  BY <1>1 DEF RemoteTypes, Applied
<1>3. author' \in (Owners \cup {NoOwner}) \X (0..MaxGen)
  BY <1>1 DEF RemoteTypes, Applied
<1> QED
  BY <1>1, <1>2, <1>3 DEF RemoteTypes, Applied

\* What the workers have.
WorkerTypes ==
  /\ pc \in [Procs -> Steps]
  /\ view \in [Procs -> States] /\ seen \in [Procs -> Heads \cup {Foreign}]
  /\ held \in [Procs -> Claims \cup {NoClaim}]
  /\ push \in [Procs -> Pushes \cup {NoPush}]
  /\ failure \in [Procs -> {"none", "lost", "lease", "denied"}]
  /\ landed \in [Procs -> BOOLEAN]

LEMMA LeaveTypes ==
  ASSUME NEW p \in Procs, WorkerTypes, Leave(p)
  PROVE  WorkerTypes'
  BY SavedTypes DEF WorkerTypes, Leave, Goto, Forget, Steps

LEMMA SucceedTypes ==
  ASSUME NEW p \in Procs, WorkerTypes, Live(p), Succeed(p)
  PROVE  WorkerTypes'
<1> DEFINE q == push[p]
<1>1. q \in Pushes /\ q.claim \in Claims /\ q.to \in Heads
  BY DEF WorkerTypes, Live, Pushes
<1>2. CASE q.kind \in {"publish", "release"}
  BY <1>2, LeaveTypes DEF Succeed
<1>3. CASE q.kind \notin {"publish", "release"}
  <2>1. /\ Forget(p)
        /\ held' = [held EXCEPT ![p] = q.claim] /\ push' = [push EXCEPT ![p] = NoPush]
        /\ Goto(p, CASE q.kind = "acquire" -> "claimed"
                     [] q.kind = "renew" -> "save"
                     [] q.kind = "promote" -> "advancing")
        /\ view' = IF q.kind = "promote" THEN [view EXCEPT ![p].head = q.to] ELSE view
        /\ seen' = seen
    BY <1>3 DEF Succeed
  <2>2. view' \in [Procs -> States]
    <3>1. [view[p] EXCEPT !.head = q.to] \in States
      BY <1>1 DEF WorkerTypes, States
    <3> QED
      BY <2>1, <3>1 DEF WorkerTypes
  <2>3. pc' \in [Procs -> Steps]
    <3>1. q.kind \in {"acquire", "renew", "promote"}
      BY <1>1, <1>3 DEF Pushes
    <3> QED
      BY <2>1, <3>1 DEF WorkerTypes, Goto, Steps
  <2> QED
    BY <1>1, <2>1, <2>2, <2>3 DEF WorkerTypes, Forget
<1> QED
  BY <1>2, <1>3

\* A new push has its type because its claim has.
LEMMA StartTypes ==
  ASSUME NEW p \in Procs, NEW kind \in {"acquire", "renew", "promote", "publish", "release"},
         NEW old \in Oids \cup {NoOid}, NEW c \in Claims,
         NEW name \in {"none", "temp", "parent"}, NEW from \in Heads \cup {Base},
         NEW to \in Heads, TypeOK, Start(p, PushOf(kind, old, c, name, from, to)),
         view' \in [Procs -> States]
  PROVE  TypeOK'
<1>1. Commit(old, c) \in Oids
  BY CommitIsNew DEF Start
<1>2. PushOf(kind, old, c, name, from, to) \in Pushes
  BY <1>1 DEF PushOf, Pushes, Claims
<1>3. /\ pc' \in [Procs -> Steps] /\ push' \in [Procs -> Pushes \cup {NoPush}]
  BY <1>2 DEF TypeOK, Start, Steps
<1> QED
  BY <1>3 DEF TypeOK, Start, remote, comments, outcome

LEMMA TypeParts == TypeOK <=> /\ RemoteTypes /\ WorkerTypes
                              /\ saved \in States /\ forked \in BOOLEAN
                              /\ late \in Pushes \cup {NoPush}
  BY DEF TypeOK, RemoteTypes, WorkerTypes

LEMMA TypeStep ==
  ASSUME IInv, [Next]_vars
  PROVE  TypeOK'
<1>1. /\ TypeOK /\ StepHas /\ WellFormed
      /\ RemoteTypes /\ WorkerTypes
      /\ saved \in States /\ forked \in BOOLEAN /\ late \in Pushes \cup {NoPush}
  BY TypeParts DEF IInv
<1>2. ASSUME NEW p \in Procs, Observe(p) \/ Step(p) \/ Fail(p) PROVE TypeOK'
  <2>1. CASE Observe(p)
    BY <1>1, <2>1 DEF Observe, TypeOK, Steps, remote, comments, outcome
  <2>2. CASE Acquire(p)
    <3>1. [oid |-> NoOid, owner |-> Identity[p], gen |-> NextGeneration(p), left |-> TTL]
            \in Claims
      BY <1>1, <2>2, BoundAssumption, IdentityAssumption
         DEF Acquire, NextGeneration, TypeOK, Claims
    <3>2. ref.oid \in Oids \cup {NoOid} /\ view' \in [Procs -> States]
      BY <1>1, <2>2 DEF Acquire, TypeOK, Claims
    <3> QED
      BY <1>1, <2>2, <3>1, <3>2, SavedTypes, StartTypes DEF Acquire
  <2>3. ASSUME Holding(p)
        PROVE  /\ held[p].oid \in Oids \cup {NoOid}
               /\ [held[p] EXCEPT !.oid = NoOid] \in Claims
               /\ [held[p] EXCEPT !.oid = NoOid, !.left = TTL] \in Claims
               /\ [held[p] EXCEPT !.oid = NoOid, !.left = 0] \in Claims
    <3>1. held[p] \in Claims
      BY <1>1, <2>3 DEF TypeOK, Holding
    <3>2. TTL \in 0..TTL /\ 0 \in 0..TTL
      BY BoundAssumption
    <3> QED
      BY <3>1, <3>2 DEF Claims
  <2>4. pc[p] \in {"claimed", "working", "advancing", "stopped"} => Holding(p)
    BY <1>1 DEF StepHas, Has
  <2>5. CASE Promote(p)
    <3>1. FixInput(p) \in Heads \cup {Base} /\ FixInput(p) + 1 \in Heads
      BY <2>5, BoundAssumption DEF Promote, Heads
    <3>2. view' \in [Procs -> States] /\ Holding(p)
      BY <1>1, <2>4, <2>5 DEF Promote, TypeOK
    <3> QED
      BY <1>1, <2>3, <2>5, <3>1, <3>2, StartTypes DEF Promote
  <2>6. CASE Renew(p)
    <3>1. view' \in [Procs -> States] /\ Holding(p)
      <4>1. PICK ok \in BOOLEAN : view' = [view EXCEPT ![p].passed = ok]
        BY <2>6 DEF Renew
      <4>2. [view[p] EXCEPT !.passed = ok] \in States
        BY <1>1 DEF TypeOK, States
      <4> QED
        BY <1>1, <2>4, <2>6, <4>1, <4>2 DEF Renew, TypeOK
    <3> QED
      BY <1>1, <2>3, <2>6, <3>1, SavedTypes, StartTypes DEF Renew
  <2>7. CASE Publish(p)
    <3>1. view' \in [Procs -> States] /\ Holding(p) /\ view[p].head \in Heads
      BY <1>1, <2>4, <2>7 DEF Publish, TypeOK, States
    <3> QED
      BY <1>1, <2>3, <2>7, <3>1, StartTypes DEF Publish
  <2>8. CASE Release(p)
    <3>1. view' \in [Procs -> States] /\ Holding(p)
      BY <1>1, <2>4, <2>8 DEF Release, TypeOK
    <3> QED
      BY <1>1, <2>3, <2>8, <3>1, SavedTypes, StartTypes DEF Release
  <2>9. CASE HeldByOther(p) \/ Require(p) \/ ReadBackFails(p)
    BY <1>1, <2>9 DEF HeldByOther, Require, ReadBackFails, Goto, TypeOK, Steps, Refusals,
                      remote, comments, decision, outcome
  <2>10. CASE Adopt(p)
    <3>1. [view[p] EXCEPT !.head = seen[p]] \in States
      <4>1. view[p] \in States /\ view[p].head \in Nat /\ seen[p] \in Heads \cup {Foreign}
        BY <1>1, BoundAssumption DEF TypeOK, States, Heads
      <4>2. seen[p] \in Heads
        BY <2>10, <4>1, HeadAssumption DEF Adopt
      <4> QED
        BY <4>1, <4>2 DEF States
    <3> QED
      BY <1>1, <2>10, <3>1 DEF Adopt, TypeOK, Steps, remote, comments, outcome
  <2>11. CASE Save(p)
    <3>1. [view[p] EXCEPT !.rev = @ + 1] \in States
      <4>1. view[p] \in States /\ view[p].rev < MaxRevision
        BY <1>1, <2>11 DEF Save, TypeOK, StepHas, Has
      <4> QED
        BY <4>1, BoundAssumption DEF States
    <3>2. forked' \in BOOLEAN
      BY <2>11 DEF Save
    <3>3. saved' \in States /\ view' \in [Procs -> States] /\ pc' \in [Procs -> Steps]
      BY <1>1, <2>11, <3>1 DEF Save, TypeOK, Steps
    <3> QED
      BY <1>1, <2>11, <3>2, <3>3 DEF Save, TypeOK, remote, outcome
  <2>12. CASE PushAnswered(p)
    <3>1. Live(p) /\ push[p] \in Pushes /\ Formed(push[p])
      BY <1>1, <2>12 DEF PushAnswered, StepHas, Has, TypeOK, Live, WellFormed
    <3>2. RemoteTypes' /\ WorkerTypes'
      BY <1>1, <2>12, <3>1, AppliedTypes, SucceedTypes DEF PushAnswered
    <3> QED
      BY <1>1, <2>12, <3>2 DEF PushAnswered, comments, TypeOK, RemoteTypes, WorkerTypes
  <2>13. CASE PushUnanswered(p)
    <3>1. Live(p) /\ push[p] \in Pushes /\ Formed(push[p])
      BY <1>1, <2>13 DEF PushUnanswered, StepHas, Has, TypeOK, Live, WellFormed
    <3>2. RemoteTypes'
      BY <1>1, <2>13, <3>1, AppliedTypes DEF PushUnanswered
    <3> QED
      BY <1>1, <2>13, <3>2 DEF PushUnanswered, Goto, comments, decision, TypeOK,
                               RemoteTypes, Steps
  <2>14. CASE PushRefused(p) \/ PushLost(p)
    <3>1. push[p] \in Pushes \cup {NoPush}
      BY <1>1 DEF TypeOK
    <3> QED
      BY <1>1, <2>14, <3>1 DEF PushRefused, PushLost, Goto, TypeOK, Steps, remote, comments,
                               decision
  <2>15. CASE ReadBack(p)
    <3>1. Live(p)
      BY <1>1, <2>15 DEF ReadBack, StepHas, Has
    <3>2. CASE Succeed(p)
      BY <1>1, <2>15, <3>1, <3>2, SucceedTypes
         DEF ReadBack, remote, comments, TypeOK, RemoteTypes, WorkerTypes
    <3>3. CASE Goto(p, Classify(p)) /\ UNCHANGED <<decision, held, push, outcome>>
      <4>1. Classify(p) \in Steps
        BY DEF Classify, Steps, Refusals
      <4> QED
        BY <1>1, <2>15, <3>3, <4>1 DEF ReadBack, Goto, TypeOK, remote, comments, decision,
                                       outcome
    <3> QED
      BY <2>15, <3>2, <3>3 DEF ReadBack
  <2>16. CASE React(p)
    <3>1. CASE Leave(p)
      BY <1>1, <2>16, <3>1, LeaveTypes
         DEF React, remote, comments, TypeOK, RemoteTypes, WorkerTypes
    <3>2. CASE ~Leave(p)
      BY <1>1, <2>16, <3>2 DEF React, Goto, Forget, TypeOK, Steps, remote, comments, decision
    <3> QED
      BY <3>1, <3>2
  <2>17. CASE Fail(p)
    BY <1>1, <2>17, LeaveTypes DEF Fail, remote, comments, TypeOK, RemoteTypes, WorkerTypes
  <2> QED
    BY <1>2, <2>1, <2>2, <2>5, <2>6, <2>7, <2>8, <2>9, <2>10, <2>11, <2>12, <2>13, <2>14,
       <2>15, <2>16, <2>17 DEF Step
<1>3. CASE Arrive
  <2>1. late \in Pushes /\ Formed(late)
    BY <1>1, <1>3 DEF Arrive, WellFormed
  <2>2. RemoteTypes'
    BY <1>1, <1>3, <2>1, AppliedTypes DEF Arrive, remote, RemoteTypes
  <2> QED
    BY <1>1, <1>3, <2>2 DEF Arrive, comments, decision, outcome, TypeOK, RemoteTypes
<1>4. CASE Intrude
  BY <1>1, <1>4, HeadAssumption DEF Intrude, TypeOK, comments, decision, outcome
<1>5. CASE Tick
  <2>1. ASSUME NEW q \in Pushes PROVE [q EXCEPT !.claim = Older(@)] \in Pushes
    BY OlderClaim DEF Pushes
  <2>2. ref' \in Claims /\ late' \in Pushes \cup {NoPush}
    BY <1>1, <1>5, <2>1, OlderClaim DEF Tick, TypeOK
  <2>3. held' \in [Procs -> Claims \cup {NoClaim}]
    BY <1>1, <1>5, OlderClaim DEF Tick, TypeOK
  <2>4. push' \in [Procs -> Pushes \cup {NoPush}]
    BY <1>1, <1>5, <2>1 DEF Tick, TypeOK
  <2> QED
    BY <1>1, <1>5, <2>2, <2>3, <2>4 DEF Tick, TypeOK, comments, decision, outcome
<1>6. CASE UNCHANGED vars
  BY <1>1, <1>6 DEF vars, remote, comments, decision, outcome, TypeOK
<1> QED
  BY <1>2, <1>3, <1>4, <1>5, <1>6 DEF Next

-----------------------------------------------------------------------------
(* Theorems *)

LEMMA InitInv == Init => IInv
<1> SUFFICES ASSUME Init PROVE IInv
  OBVIOUS
<1>1. TypeOK
  BY InitType
<1>2. /\ late = NoPush
      /\ \A p \in Procs : pc[p] = "idle" /\ ~Holding(p) /\ ~Live(p) /\ landed[p] = FALSE
  BY DEF Init, Holding, Live
<1>3. StepHas /\ WellFormed
  BY <1>2 DEF StepHas, Has, WellFormed
<1>4. CommitInv
  BY <1>2 DEF CommitInv, CommitsDiffer, NotYet, NotExpected, Believed, AllFenced
<1>5. LandedFollowed /\ ReportsHonest
  BY <1>2 DEF LandedFollowed, ReportsHonest
<1> QED
  BY <1>1, <1>3, <1>4, <1>5 DEF IInv

LEMMA NextInv == IInv /\ [Next]_vars => IInv'
<1> SUFFICES ASSUME IInv, [Next]_vars PROVE IInv'
  OBVIOUS
<1>1. Kinds
  BY StepKinds
<1> QED
  BY <1>1, TypeStep, HasStep, FormStep, CommitStep, HistoryStep DEF IInv

\* The invariant everything below rests on: what each step of a worker may rely on about
\* the claim ref, the commits and the branches.
THEOREM Inductive == Spec => []IInv
  BY InitInv, NextInv, PTL DEF Spec

\* The type invariant, for any number of workers, claims and heads.
THEOREM SemanticTypes == Spec => []TypeOK
<1>1. IInv => TypeOK
  BY DEF IInv
<1> QED
  BY <1>1, Inductive, PTL

\* Two calls never both hold the claim commit that the remote has, and what its holder
\* believes of it is true: also when both share an identity, when pushes arrive late and
\* when answers are lost.
THEOREM HolderIsUnique == Spec => []HolderUnique
<1>1. IInv => HolderUnique
  BY DEF IInv, CommitInv, CommitsDiffer, Believed, HolderUnique, Holding
<1> QED
  BY <1>1, Inductive, PTL

\* A push that its caller is told failed changed nothing.
THEOREM HonestReports == Spec => []ReportsHonest
<1>1. IInv => ReportsHonest
  BY DEF IInv
<1> QED
  BY <1>1, Inductive, PTL

-----------------------------------------------------------------------------
(* The claim and its branches implement FencedRefs *)

LEMMA AppliedFenced ==
  ASSUME NEW q \in Pushes, Formed(q), Fenced(q), q.claim.oid # ref.oid,
         LeasesHold(q), Applied(q), TypeOK
  PROVE  Refs!Next
<1>1. q.old = ref.oid
  BY LeaseIsOld
<1>2. /\ ref' = q.claim /\ q.claim.owner \in Owners
      /\ q.branch \in {"none", "temp", "parent"} /\ q.to \in Nat
  BY BoundAssumption DEF Applied, Formed, Pushes, Heads
<1>3. branch["temp"] \in Nat \cup {Foreign} /\ branch["parent"] \in Nat \cup {Base}
  BY BoundAssumption, HeadAssumption DEF TypeOK, Heads
<1>4. CASE q.branch = "none" \/ branch' = branch
  <2>1. branch' = branch /\ author' = author
    BY <1>4 DEF Applied
  <2>2. CASE q.claim.owner = ref.owner /\ q.claim.gen = ref.gen
    BY <1>2, <2>1, <2>2, IdentityAssumption DEF Refs!Next, Refs!Keep
  <2>3. CASE ref.left = 0 /\ q.claim.gen = ref.gen + 1
    <3>1. Refs!Take(q.claim.owner)
      BY <1>2, <2>1, <2>3 DEF Refs!Take
    <3> QED
      BY <1>2, <3>1 DEF Refs!Next
  <2> QED
    BY <1>1, <2>2, <2>3 DEF Fenced
<1>5. CASE q.branch # "none" /\ branch' # branch
  <2>1. /\ branch' = [branch EXCEPT ![q.branch] = q.to]
        /\ author' = <<q.claim.owner, q.claim.gen>>
        /\ branch[q.branch] \in {q.from, q.to}
    BY <1>5 DEF Applied, LeasesHold
  <2>2. q.kind \in {"promote", "publish"}
    BY <1>5 DEF Formed, Pushes
  <2>3. q.claim.owner = ref.owner /\ q.claim.gen = ref.gen
    BY <1>1, <2>2 DEF Fenced
  <2>4. branch[q.branch] # q.to
    BY <1>2, <1>5, <2>1 DEF TypeOK
  <2>5. CASE q.kind = "promote"
    <3>1. /\ branch["temp"] = q.from /\ q.from \in Nat /\ q.to = q.from + 1
          /\ branch'["temp"] = q.to /\ branch'["parent"] = branch["parent"]
      BY <2>1, <2>4, <2>5 DEF Formed, TypeOK
    <3> QED
      BY <1>2, <2>1, <2>3, <3>1, HeadAssumption, IdentityAssumption DEF Refs!Next, Refs!Move
  <2>6. CASE q.kind = "publish"
    <3>1. /\ branch["parent"] = Base
          /\ branch'["parent"] = q.to /\ branch'["temp"] = branch["temp"]
      BY <2>1, <2>4, <2>6 DEF Formed, TypeOK
    <3> QED
      BY <1>2, <2>1, <2>3, <3>1, HeadAssumption, IdentityAssumption DEF Refs!Next, Refs!Move
  <2> QED
    BY <2>2, <2>5, <2>6
<1> QED
  BY <1>4, <1>5

LEMMA RemoteStutters ==
  ASSUME UNCHANGED remote
  PROVE  UNCHANGED Refs!vars
  BY DEF remote, Refs!vars

\* The claim passes on only after it lapsed and under a new generation, and the
\* protected branches move forward only by the claim of the moment: every step of the
\* workers and of late pushes is a step of FencedRefs or none.
THEOREM ImplementsFencedRefs == Spec => FencedSpec
<1>1. Init => Refs!Init
  BY DEF Init, Refs!Init
<1>2. IInv /\ [Next]_vars => [Refs!Next]_(Refs!vars)
  <2> SUFFICES ASSUME IInv, [Next]_vars PROVE [Refs!Next]_(Refs!vars)
    OBVIOUS
  <2>1. /\ TypeOK /\ StepHas /\ WellFormed /\ NotYet /\ AllFenced
    BY DEF IInv, CommitInv
  <2>2. ASSUME NEW p \in Procs, PushAnswered(p) \/ PushUnanswered(p) PROVE Refs!Next
    <3>1. /\ pc[p] = "push" /\ LeasesHold(push[p]) /\ Applied(push[p])
      BY <2>2 DEF PushAnswered, PushUnanswered
    <3>2. Live(p)
      BY <2>1, <3>1 DEF StepHas, Has
    <3>3. /\ push[p] \in Pushes /\ Formed(push[p]) /\ Fenced(push[p])
          /\ push[p].claim.oid # ref.oid
      BY <2>1, <3>1, <3>2 DEF TypeOK, WellFormed, AllFenced, NotYet, Live
    <3> QED
      BY <2>1, <3>1, <3>3, AppliedFenced
  <2>3. CASE Arrive
    <3>1. CASE LeasesHold(late)
      <4>1. Applied(late) /\ late \in Pushes /\ Formed(late) /\ Fenced(late)
            /\ late.claim.oid # ref.oid
        BY <2>1, <2>3, <3>1 DEF Arrive, TypeOK, WellFormed, AllFenced, NotYet
      <4> QED
        BY <2>1, <3>1, <4>1, AppliedFenced
    <3>2. CASE ~LeasesHold(late)
      BY <2>3, <3>2, RemoteStutters DEF Arrive
    <3> QED
      BY <3>1, <3>2
  <2>4. CASE Intrude
    <3>1. /\ branch'["temp"] = Foreign /\ branch'["parent"] = branch["parent"]
          /\ ref' = ref /\ author' = author
      BY <2>1, <2>4 DEF Intrude, TypeOK
    <3> QED
      BY <3>1 DEF Refs!Next, Refs!Intrude
  <2>5. CASE Tick
    <3>1. /\ branch' = branch /\ author' = author /\ ref' = Older(ref) /\ ref \in Claims
      BY <2>1, <2>5 DEF Tick, TypeOK
    <3>2. ref'.gen = ref.gen /\ ref'.owner = ref.owner /\ (ref.left = 0 => ref'.left = 0)
      BY <3>1, OlderClaim
    <3> QED
      BY <3>1, <3>2 DEF Refs!Next, Refs!Lapse, Refs!vars
  <2>6. ASSUME NEW p \in Procs,
               Observe(p) \/ Acquire(p) \/ HeldByOther(p) \/ Require(p) \/ Promote(p)
                 \/ Adopt(p) \/ Renew(p) \/ Save(p) \/ Publish(p) \/ Release(p)
                 \/ PushRefused(p) \/ PushLost(p) \/ ReadBack(p) \/ ReadBackFails(p)
                 \/ React(p) \/ Fail(p)
        PROVE  UNCHANGED remote
    BY <2>6 DEF Observe, Acquire, HeldByOther, Require, Promote, Adopt, Renew, Save, Publish,
                Release, Start, PushRefused, PushLost, ReadBack, ReadBackFails, React, Fail,
                remote
  <2>7. CASE UNCHANGED vars
    BY <2>7, RemoteStutters DEF vars
  <2> QED
    BY <2>2, <2>3, <2>4, <2>5, <2>6, <2>7, RemoteStutters DEF Next, Step
<1> QED
  BY <1>1, <1>2, Inductive, PTL DEF Spec, FencedSpec, Refs!Spec

-----------------------------------------------------------------------------
(***************************************************************************)
(* The review that the claim protects: when a renewal and its comment are  *)
(* done before the claim expires (PromptSave), saved states never fork,    *)
(* the temp branch stays within one fix of them, and what is published is  *)
(* what passed.  The inductive invariant RInv says what a worker may still *)
(* do: one whose claim was taken over is dead to the remote, and everybody *)
(* else's decision is about the state that is saved.                       *)
(***************************************************************************)

Pushing(p, kinds) == Live(p) /\ push[p].kind \in kinds

\* What a push of a holder expects, whose claim it is, and who does what.
RoleOf(p) ==
  /\ Live(p) => push[p].claim.owner = Identity[p]
  /\ Holding(p) => held[p].owner = Identity[p]
  /\ Live(p) /\ push[p].kind # "acquire" => push[p].old = held[p].oid
  /\ pc[p] \in {"working", "advancing", "save", "stopped"}
       \/ Pushing(p, {"renew", "promote", "release"}) => p \in Runners
  /\ Pushing(p, {"publish"}) => p \in Publishers /\ push[p].to = view[p].head
  /\ Pushing(p, {"promote"}) => push[p].from = view[p].head

\* A runner decides about a review that has not passed.
Undecided(p) ==
  p \in Runners /\ (pc[p] \in {"observed", "claimed", "working"}
                      \/ Pushing(p, {"acquire", "promote"})) => ~view[p].passed

\* A publisher decides about one that has, and that is the saved one.
Reviewed(p) == p \in Publishers /\ pc[p] # "idle" => saved.passed /\ view[p] = saved

\* The temp branch only moves on.
SeenBehind(p) ==
  pc[p] # "idle" => \/ branch["temp"] = Foreign
                    \/ seen[p] \in Nat /\ branch["temp"] \in Nat /\ seen[p] <= branch["temp"]

\* A renewal is fresh until the comment is saved ...
Fresh(p) ==
  /\ Pushing(p, {"renew"}) => push[p].claim.left > 0
  /\ pc[p] = "save" => held[p].left > 0 /\ held[p].oid = ref.oid

\* ... and meanwhile nobody can take the claim.
Secured(p) == pc[p] = "save" \/ (Pushing(p, {"renew"}) /\ push[p].claim.oid = ref.oid)
Unrivalled(p) ==
  Secured(p) => /\ \A q \in Procs : pc[q] = "push" => push[q].old # ref.oid
                /\ late # NoPush => late.old # ref.oid

\* A worker whose claim was taken over: nothing it pushed or pushes is applied.
Dead(p) ==
  /\ Holding(p) => held[p].oid # ref.oid
  /\ Live(p) => push[p].claim.oid # ref.oid

\* What the other runners decide from is what is saved, but for the head that was
\* promoted and not yet saved.
Trusting(p) ==
  pc[p] \in {"working", "advancing", "save"} \/ Pushing(p, {"renew", "promote"})
Fixed(h) == h = saved.head \/ (h = saved.head + 1 /\ branch["temp"] \in {h, Foreign})
Current(p) ==
  Trusting(p) => \/ Dead(p)
                 \/ pc[p] = "advancing" /\ view[p] = saved
                 \/ /\ view[p].rev = saved.rev /\ ~saved.passed
                    /\ IF pc[p] = "working" \/ Pushing(p, {"promote"})
                         THEN view[p].head = saved.head ELSE Fixed(view[p].head)
                    /\ Pushing(p, {"promote"}) /\ push[p].claim.oid = ref.oid =>
                         branch["temp"] \in {push[p].to, Foreign}

\* What a late push would do.
LateExpects ==
  late # NoPush =>
    /\ late.kind = "promote" /\ late.old = ref.oid => late.from = saved.head
    /\ late.kind = "publish" => saved.passed /\ late.to = saved.head

WorkerInv(p) ==
  /\ RoleOf(p) /\ Undecided(p) /\ Reviewed(p) /\ SeenBehind(p)
  /\ Fresh(p) /\ Unrivalled(p) /\ Current(p)

Overall == LateExpects /\ NeverForked /\ RecordFollowsHead /\ PublishedIsReviewed

RInv == (\A p \in Procs : WorkerInv(p)) /\ Overall

-----------------------------------------------------------------------------
(* Steps that leave the remote and the comments alone *)

Kept(q) == /\ pc'[q] = pc[q] /\ view'[q] = view[q] /\ seen'[q] = seen[q]
           /\ held'[q] = held[q] /\ push'[q] = push[q]

\* Nobody else's step, and no new push.
Quiet(p) ==
  /\ \A q \in Procs \ {p} : Kept(q)
  /\ UNCHANGED <<ref, branch, saved, forked>> /\ late' \in {late, NoPush}
  /\ \A q \in Procs : pc'[q] = "push" => pc[q] = "push" /\ push'[q] = push[q]

LEMMA KeptFacts ==
  ASSUME NEW q \in Procs, Kept(q), RoleOf(q), Undecided(q)
  PROVE  /\ RoleOf(q)' /\ Undecided(q)'
         /\ Holding(q)' <=> Holding(q)
         /\ Live(q)' <=> Live(q)
         /\ Trusting(q)' <=> Trusting(q)
         /\ \A kinds : Pushing(q, kinds)' <=> Pushing(q, kinds)
  BY DEF Kept, RoleOf, Undecided, Holding, Live, Pushing, Trusting

LEMMA QuietOthers ==
  ASSUME NEW p \in Procs, RInv, Quiet(p)
  PROVE  (\A q \in Procs \ {p} : WorkerInv(q)') /\ Overall'
<1>1. ASSUME NEW q \in Procs \ {p} PROVE WorkerInv(q)'
  <2>1. WorkerInv(q) /\ Kept(q)
    BY DEF RInv, Quiet
  <2>2. /\ RoleOf(q)' /\ Undecided(q)'
        /\ Holding(q)' <=> Holding(q)
        /\ Live(q)' <=> Live(q)
        /\ Trusting(q)' <=> Trusting(q)
        /\ \A kinds : Pushing(q, kinds)' <=> Pushing(q, kinds)
    BY <2>1, KeptFacts DEF WorkerInv
  <2>3. Reviewed(q)' /\ SeenBehind(q)'
    BY <2>1 DEF WorkerInv, Kept, Quiet, Reviewed, SeenBehind
  <2>4. Fresh(q)'
    BY <2>1, <2>2 DEF WorkerInv, Kept, Quiet, Fresh
  <2>5. Unrivalled(q)'
    BY <2>1, <2>2 DEF WorkerInv, Kept, Quiet, Unrivalled, Secured
  <2>6. Current(q)'
    BY <2>1, <2>2 DEF WorkerInv, Kept, Quiet, Current, Dead, Fixed
  <2> QED
    BY <2>2, <2>3, <2>4, <2>5, <2>6 DEF WorkerInv
<1>2. Overall'
  BY DEF RInv, Overall, Quiet, LateExpects, NeverForked, RecordFollowsHead,
         PublishedIsReviewed
<1> QED
  BY <1>1, <1>2

LEMMA QuietKeeps ==
  ASSUME NEW p \in Procs, RInv, Quiet(p), WorkerInv(p)'
  PROVE  RInv'
  BY QuietOthers DEF RInv

LEMMA LeaveKeeps ==
  ASSUME NEW p \in Procs, IInv, RInv, Leave(p), UNCHANGED <<remote, comments, late>>
  PROVE  RInv'
<1>1. /\ pc'[p] = "idle" /\ ~Holding(p)' /\ ~Live(p)'
      /\ \A q \in Procs \ {p} : Kept(q)
  BY DEF IInv, TypeOK, Leave, Goto, Kept, Holding, Live
<1>2. Quiet(p)
  BY <1>1 DEF Quiet, Kept, remote, comments
<1>3. WorkerInv(p)'
  BY <1>1 DEF WorkerInv, RoleOf, Undecided, Reviewed, SeenBehind, Fresh, Unrivalled, Secured,
             Current, Trusting, Pushing
<1> QED
  BY <1>2, <1>3, QuietKeeps

\* A worker whose push is refused, or that finds out.
LEMMA PlaceKeeps ==
  ASSUME NEW p \in Procs, NEW step \in {"held by other", "read back"} \cup Refusals,
         IInv, RInv, pc[p] \in {"observed", "push", "read back"},
         pc' = [pc EXCEPT ![p] = step],
         UNCHANGED <<remote, comments, late, view, seen, held, push>>
  PROVE  RInv'
<1>1. /\ pc'[p] = step /\ step \notin {"push", "save", "idle", "working", "advancing",
                                       "stopped", "observed", "claimed"}
      /\ \A q \in Procs \ {p} : pc'[q] = pc[q]
  BY DEF IInv, TypeOK, Refusals
<1>2. /\ ref' = ref /\ branch' = branch /\ saved' = saved /\ forked' = forked /\ late' = late
      /\ view' = view /\ seen' = seen /\ held' = held /\ push' = push
  BY DEF remote, comments
<1>3. Quiet(p)
  BY <1>1, <1>2 DEF Quiet, Kept
<1>4. /\ Holding(p)' <=> Holding(p)
      /\ Live(p)' <=> Live(p)
      /\ \A kinds : Pushing(p, kinds)' <=> Pushing(p, kinds)
      /\ Trusting(p)' => Trusting(p)
  BY <1>1, <1>2 DEF Holding, Live, Pushing, Trusting
<1>5. WorkerInv(p)
  BY DEF RInv
<1>6. RoleOf(p)' /\ Undecided(p)' /\ Reviewed(p)' /\ SeenBehind(p)'
  BY <1>1, <1>2, <1>4, <1>5 DEF WorkerInv, RoleOf, Undecided, Reviewed, SeenBehind
<1>7. Fresh(p)' /\ Unrivalled(p)'
  BY <1>1, <1>2, <1>3, <1>4, <1>5 DEF WorkerInv, Fresh, Unrivalled, Secured, Quiet
<1>8. Current(p)'
  BY <1>1, <1>2, <1>4, <1>5 DEF WorkerInv, Current, Dead, Fixed
<1> QED
  BY <1>3, <1>6, <1>7, <1>8, QuietKeeps DEF WorkerInv

LEMMA ObserveKeeps ==
  ASSUME NEW p \in Procs, IInv, RInv, Observe(p)
  PROVE  RInv'
<1>1. /\ pc[p] = "idle" /\ pc'[p] = "observed" /\ Ready(p)
      /\ view'[p] = saved /\ seen'[p] = branch["temp"]
      /\ ref' = ref /\ branch' = branch /\ saved' = saved /\ forked' = forked /\ late' = late
      /\ held' = held /\ push' = push
      /\ \A q \in Procs \ {p} : Kept(q)
  BY DEF IInv, TypeOK, Observe, Kept, remote, comments
<1>2. Quiet(p)
  BY <1>1 DEF Quiet, Kept
<1>3. ~Holding(p)' /\ ~Live(p)'
  BY <1>1 DEF IInv, StepHas, Has, Holding, Live
<1>4. branch["temp"] \in Nat \cup {Foreign}
  BY BoundAssumption DEF IInv, TypeOK, Heads
<1>5. WorkerInv(p)'
  BY <1>1, <1>3, <1>4, RunnerAssumption
     DEF WorkerInv, RoleOf, Undecided, Reviewed, SeenBehind, Fresh, Unrivalled, Secured, Current,
         Trusting, Pushing, Ready
<1> QED
  BY <1>2, <1>5, QuietKeeps

LEMMA RequireKeeps ==
  ASSUME NEW p \in Procs, IInv, RInv, Require(p)
  PROVE  RInv'
<1>1. /\ pc[p] = "claimed" /\ p \in Runners
      /\ pc'[p] \in {"working", "stopped"} /\ (pc'[p] = "working" => saved = view[p])
      /\ ref' = ref /\ branch' = branch /\ saved' = saved /\ forked' = forked /\ late' = late
      /\ held' = held /\ push' = push /\ view' = view /\ seen' = seen
      /\ \A q \in Procs \ {p} : Kept(q)
  BY DEF IInv, TypeOK, Require, Unchanged, Kept, remote, comments, decision
<1>2. Quiet(p)
  BY <1>1 DEF Quiet, Kept
<1>3. Holding(p)' /\ ~Live(p)' /\ Holding(p)
  BY <1>1 DEF IInv, StepHas, Has, Holding, Live
<1>4. WorkerInv(p)
  BY DEF RInv
<1>5. RoleOf(p)' /\ Undecided(p)' /\ Reviewed(p)' /\ SeenBehind(p)'
  BY <1>1, <1>3, <1>4, RunnerAssumption
     DEF WorkerInv, RoleOf, Undecided, Reviewed, SeenBehind, Pushing
<1>6. Fresh(p)' /\ Unrivalled(p)'
  BY <1>1, <1>3 DEF Fresh, Unrivalled, Secured, Pushing
<1>7. Current(p)'
  BY <1>1, <1>3, <1>4 DEF WorkerInv, Undecided, Current, Trusting, Pushing
<1> QED
  BY <1>2, <1>5, <1>6, <1>7, QuietKeeps DEF WorkerInv

LEMMA AdoptKeeps ==
  ASSUME NEW p \in Procs, IInv, RInv, Adopt(p)
  PROVE  RInv'
<1>1. /\ pc[p] = "working" /\ pc'[p] = "advancing" /\ seen[p] = view[p].head + 1
      /\ view'[p] = [view[p] EXCEPT !.head = seen[p]]
      /\ ref' = ref /\ branch' = branch /\ saved' = saved /\ forked' = forked /\ late' = late
      /\ held' = held /\ push' = push /\ seen' = seen
      /\ \A q \in Procs \ {p} : Kept(q)
  BY DEF IInv, TypeOK, Adopt, Kept, remote, comments
<1>2. /\ view[p] \in States /\ view[p].head \in Nat /\ saved.head \in Nat
      /\ view'[p].head = view[p].head + 1 /\ view'[p].rev = view[p].rev
  BY <1>1, BoundAssumption DEF IInv, TypeOK, States, Heads
<1>3. Quiet(p)
  BY <1>1 DEF Quiet, Kept
<1>4. Holding(p)' /\ ~Live(p)' /\ ~Live(p) /\ Holding(p)
  BY <1>1 DEF IInv, StepHas, Has, Holding, Live
<1>5. WorkerInv(p) /\ p \in Runners /\ p \notin Publishers
  BY <1>1, RunnerAssumption DEF RInv, WorkerInv, RoleOf
<1>6. RoleOf(p)' /\ Undecided(p)' /\ Reviewed(p)' /\ SeenBehind(p)'
  BY <1>1, <1>4, <1>5 DEF WorkerInv, RoleOf, Undecided, Reviewed, SeenBehind, Pushing
<1>7. Fresh(p)' /\ Unrivalled(p)'
  BY <1>1, <1>4 DEF Fresh, Unrivalled, Secured, Pushing
<1>8. Current(p)'
  <2>1. CASE Dead(p)
    BY <1>1, <1>4, <2>1 DEF Current, Dead, Holding
  <2>2. CASE ~Dead(p)
    <3>1. view[p].rev = saved.rev /\ ~saved.passed /\ view[p].head = saved.head
      BY <1>1, <1>4, <1>5, <2>2 DEF WorkerInv, Current, Trusting
    <3>2. branch["temp"] \in {saved.head + 1, Foreign}
      <4>1. branch["temp"] = Foreign \/ (seen[p] \in Nat /\ branch["temp"] \in Nat
                                           /\ seen[p] <= branch["temp"])
        BY <1>1, <1>5 DEF WorkerInv, SeenBehind
      <4>2. branch["temp"] \in {saved.head, saved.head + 1, Foreign}
        BY DEF RInv, Overall, RecordFollowsHead
      <4> QED
        BY <1>1, <1>2, <3>1, <4>1, <4>2
    <3> QED
      BY <1>1, <1>2, <1>4, <3>1, <3>2 DEF Current, Fixed, Pushing
  <2> QED
    BY <2>1, <2>2
<1> QED
  BY <1>3, <1>6, <1>7, <1>8, QuietKeeps DEF WorkerInv

\* A promotion that failed: the claim is released next.
LEMMA ReactKeeps ==
  ASSUME NEW p \in Procs, IInv, RInv, React(p)
  PROVE  RInv'
<1>1. CASE Leave(p)
  BY <1>1, LeaveKeeps DEF React
<1>2. CASE ~Leave(p)
  <2>1. /\ push[p] # NoPush /\ push[p].kind = "promote"
        /\ pc'[p] = "stopped" /\ push'[p] = NoPush
        /\ ref' = ref /\ branch' = branch /\ saved' = saved /\ forked' = forked
        /\ late' = late /\ held' = held /\ view' = view /\ seen' = seen
        /\ \A q \in Procs \ {p} : Kept(q)
    BY <1>2 DEF IInv, TypeOK, React, Goto, Kept, remote, comments, decision
  <2>2. Quiet(p)
    BY <2>1 DEF Quiet, Kept
  <2>3. ~Live(p)' /\ (Holding(p)' <=> Holding(p)) /\ pc[p] # "idle"
    BY <1>2, <2>1 DEF Live, Holding, React, Refusals
  <2>4. WorkerInv(p) /\ p \in Runners /\ p \notin Publishers
    BY <2>1, RunnerAssumption DEF RInv, WorkerInv, RoleOf, Pushing, Live
  <2>5. RoleOf(p)' /\ Undecided(p)' /\ Reviewed(p)' /\ SeenBehind(p)'
    BY <2>1, <2>3, <2>4 DEF WorkerInv, RoleOf, Undecided, Reviewed, SeenBehind, Pushing
  <2>6. Fresh(p)' /\ Unrivalled(p)' /\ Current(p)'
    BY <2>1, <2>3 DEF Fresh, Unrivalled, Secured, Current, Trusting, Pushing
  <2> QED
    BY <2>2, <2>5, <2>6, QuietKeeps DEF WorkerInv
<1> QED
  BY <1>1, <1>2

-----------------------------------------------------------------------------
(* A push begins *)

\* Nobody acquires a claim under which a state is being saved.
LEMMA SecuredHeld ==
  ASSUME NEW p \in Procs, NEW q \in Procs, p # q, IInv, RInv, Secured(q)
  PROVE  ~Takeable(p)
<1>1. RoleOf(q) /\ Fresh(q) /\ q \in Runners
  BY DEF RInv, WorkerInv, Secured, RoleOf, Pushing
<1>2. StepHas /\ Believed /\ ref.left \in Nat
  BY DEF IInv, CommitInv, TypeOK, Claims
<1>3. CASE pc[q] = "save"
  <2>1. held[q] = ref /\ ref.owner = Identity[q] /\ ref.left > 0
    BY <1>1, <1>2, <1>3 DEF Fresh, Believed, StepHas, Has, RoleOf
  <2> QED
    BY <1>1, <1>2, <2>1, RunnerAssumption DEF Takeable
<1>4. CASE Pushing(q, {"renew"}) /\ push[q].claim.oid = ref.oid
  <2>1. push[q].claim = ref /\ ref.owner = Identity[q] /\ ref.left > 0
    BY <1>1, <1>2, <1>4 DEF Fresh, Believed, Pushing, RoleOf
  <2> QED
    BY <1>1, <1>2, <2>1, RunnerAssumption DEF Takeable
<1> QED
  BY <1>3, <1>4 DEF Secured

LEMMA SecuredAlone ==
  ASSUME NEW p \in Procs, NEW q \in Procs, p # q, IInv, RInv, Secured(q), Holding(p)
  PROVE  held[p].oid # ref.oid
<1>1. Fresh(q) /\ CommitsDiffer /\ Has(q)
  BY DEF RInv, WorkerInv, IInv, CommitInv, StepHas
<1> QED
  BY <1>1 DEF Secured, Fresh, CommitsDiffer, Has, Pushing

LEMMA BeginKeeps ==
  ASSUME NEW p \in Procs, IInv, RInv, Begun(p), pc[p] # "idle",
         UNCHANGED <<branch, saved, forked, seen>>,
         push'[p].claim.owner = Identity[p],
         push'[p].kind = "acquire" => Takeable(p),
         push'[p].kind # "acquire" => push'[p].old = held[p].oid,
         push'[p].kind \in {"renew", "promote", "release"} => p \in Runners,
         push'[p].kind = "publish" => p \in Publishers /\ push'[p].to = view'[p].head,
         push'[p].kind = "promote" => push'[p].from = view'[p].head,
         push'[p].kind \in {"acquire", "promote"} /\ p \in Runners => ~view'[p].passed,
         p \in Publishers => view'[p] = view[p],
         push'[p].kind = "renew" => push'[p].claim.left > 0,
         Current(p)'
  PROVE  RInv'
<1>1. /\ pc'[p] = "push" /\ held' = held /\ ref' = ref /\ late' = late /\ ~Live(p)
      /\ push'[p].claim.oid # ref.oid /\ Has(p)'
      /\ push'[p].kind # "acquire" => Holding(p)
      /\ \A q \in Procs \ {p} : Kept(q)
  BY FreshCommit DEF Begun, Starts, Apart, Kept, Has, Live, Holding
<1>2. ASSUME NEW q \in Procs \ {p}, Secured(q) PROVE push'[p].old # ref.oid
  BY <1>1, <1>2, SecuredHeld, SecuredAlone
<1>3. ASSUME NEW q \in Procs \ {p} PROVE WorkerInv(q)'
  <2>1. WorkerInv(q) /\ Kept(q)
    BY <1>1 DEF RInv
  <2>2. /\ RoleOf(q)' /\ Undecided(q)'
        /\ Trusting(q)' <=> Trusting(q)
        /\ Holding(q)' <=> Holding(q)
        /\ Live(q)' <=> Live(q)
        /\ \A kinds : Pushing(q, kinds)' <=> Pushing(q, kinds)
    BY <2>1, KeptFacts DEF WorkerInv
  <2>3. Reviewed(q)' /\ SeenBehind(q)' /\ Fresh(q)'
    BY <1>1, <2>1, <2>2 DEF WorkerInv, Kept, Reviewed, SeenBehind, Fresh
  <2>4. Unrivalled(q)'
    <3>1. Secured(q)' => Secured(q)
      BY <1>1, <2>1, <2>2 DEF Kept, Secured
    <3>2. \A r \in Procs : r # p => pc'[r] = pc[r] /\ push'[r] = push[r]
      BY <1>1 DEF Kept
    <3> QED
      BY <1>1, <1>2, <2>1, <3>1, <3>2 DEF WorkerInv, Unrivalled
  <2>5. Current(q)'
    BY <1>1, <2>1, <2>2 DEF WorkerInv, Kept, Current, Dead, Fixed
  <2> QED
    BY <2>2, <2>3, <2>4, <2>5 DEF WorkerInv
<1>4. WorkerInv(p)'
  <2>1. WorkerInv(p)
    BY DEF RInv
  <2>2. /\ Holding(p)' <=> Holding(p)
        /\ Live(p)' => Live(p)'
        /\ held'[p] = held[p]
    BY <1>1 DEF Holding
  <2>3. RoleOf(p)'
    BY <1>1, <2>1, <2>2 DEF WorkerInv, RoleOf, Pushing
  <2>4. Undecided(p)'
    BY <1>1 DEF Undecided, Pushing
  <2>5. Reviewed(p)' /\ SeenBehind(p)'
    BY <1>1, <2>1 DEF WorkerInv, Reviewed, SeenBehind
  <2>6. Fresh(p)' /\ Unrivalled(p)'
    BY <1>1 DEF Fresh, Unrivalled, Secured, Pushing
  <2> QED
    BY <2>3, <2>4, <2>5, <2>6 DEF WorkerInv
<1>5. Overall'
  BY <1>1 DEF RInv, Overall, LateExpects, NeverForked, RecordFollowsHead, PublishedIsReviewed
<1> QED
  BY <1>3, <1>4, <1>5 DEF RInv

LEMMA AcquireKeeps ==
  ASSUME NEW p \in Procs, IInv, RInv, Acquire(p)
  PROVE  RInv'
<1>1. Begun(p)
  BY AcquireBegun
<1>2. /\ pc[p] = "observed" /\ Takeable(p) /\ view' = view
      /\ branch' = branch /\ saved' = saved /\ forked' = forked /\ seen' = seen
  BY DEF Acquire, Start, remote, comments
<1>3. push'[p].kind = "acquire" /\ push'[p].claim.owner = Identity[p] /\ pc'[p] = "push"
  BY DEF IInv, TypeOK, Acquire, Start, PushOf
<1>4. p \in Runners => ~view[p].passed
  BY <1>2 DEF RInv, WorkerInv, Undecided
<1>5. Current(p)'
  BY <1>3 DEF Current, Trusting, Pushing
<1> QED
  BY <1>1, <1>2, <1>3, <1>4, <1>5, BeginKeeps

LEMMA PromoteKeeps ==
  ASSUME NEW p \in Procs, IInv, RInv, Promote(p)
  PROVE  RInv'
<1>1. Begun(p)
  BY PromoteBegun
<1>2. /\ pc[p] = "working" /\ view' = view
      /\ branch' = branch /\ saved' = saved /\ forked' = forked /\ seen' = seen
  BY DEF Promote, Start, remote, comments
<1>3. WorkerInv(p) /\ Holding(p) /\ p \in Runners /\ p \notin Publishers
  BY <1>2, RunnerAssumption DEF RInv, WorkerInv, RoleOf, IInv, StepHas, Has
<1>4. /\ push'[p].kind = "promote" /\ push'[p].claim.owner = Identity[p] /\ pc'[p] = "push"
      /\ push'[p].old = held[p].oid /\ push'[p].from = view[p].head
  BY <1>3 DEF IInv, TypeOK, Promote, FixInput, Start, PushOf, WorkerInv, RoleOf, Holding, Claims
<1>5. ~view[p].passed
  BY <1>2, <1>3 DEF WorkerInv, Undecided
<1>6. Current(p)'
  <2>1. /\ held' = held /\ ref' = ref /\ push'[p].claim.oid # ref.oid
    BY <1>1, FreshCommit DEF Begun, Starts
  <2> QED
    BY <1>2, <1>3, <1>4, <2>1 DEF WorkerInv, Current, Trusting, Dead, Holding, Live, Pushing
<1> QED
  BY <1>1, <1>2, <1>3, <1>4, <1>5, <1>6, BeginKeeps

LEMMA RenewKeeps ==
  ASSUME NEW p \in Procs, IInv, RInv, Renew(p)
  PROVE  RInv'
<1>1. Begun(p)
  BY RenewBegun
<1>2. /\ pc[p] \in {"working", "advancing"} /\ ~view[p].passed
      /\ view'[p].rev = view[p].rev /\ view'[p].head = view[p].head
      /\ branch' = branch /\ saved' = saved /\ forked' = forked /\ seen' = seen
  BY DEF IInv, TypeOK, States, Renew, Start, remote, comments
<1>3. WorkerInv(p) /\ Holding(p) /\ p \in Runners /\ p \notin Publishers
  BY <1>2, RunnerAssumption DEF RInv, WorkerInv, RoleOf, IInv, StepHas, Has
<1>4. /\ push'[p].kind = "renew" /\ push'[p].claim.owner = Identity[p] /\ pc'[p] = "push"
      /\ push'[p].old = held[p].oid /\ push'[p].claim.left > 0
  <2>1. TTL > 0
    BY BoundAssumption
  <2> QED
    BY <1>3, <2>1 DEF IInv, TypeOK, Renew, Start, PushOf, WorkerInv, RoleOf, Holding, Claims
<1>5. Current(p)'
  <2>1. /\ held' = held /\ ref' = ref /\ push'[p].claim.oid # ref.oid
    BY <1>1, FreshCommit DEF Begun, Starts
  <2>2. Dead(p) => Dead(p)'
    BY <2>1 DEF Dead, Holding
  <2>3. ~Dead(p) => view[p].rev = saved.rev /\ ~saved.passed /\ Fixed(view[p].head)
    BY <1>2, <1>3 DEF WorkerInv, Current, Trusting, Fixed
  <2> QED
    BY <1>2, <1>4, <2>1, <2>2, <2>3 DEF Current, Fixed, Pushing
<1> QED
  BY <1>1, <1>2, <1>3, <1>4, <1>5, BeginKeeps

LEMMA PublishKeeps ==
  ASSUME NEW p \in Procs, IInv, RInv, Publish(p)
  PROVE  RInv'
<1>1. Begun(p)
  BY PublishBegun
<1>2. /\ pc[p] = "claimed" /\ p \in Publishers /\ view' = view
      /\ branch' = branch /\ saved' = saved /\ forked' = forked /\ seen' = seen
  BY DEF Publish, Start, remote, comments
<1>3. WorkerInv(p) /\ Holding(p)
  BY <1>2 DEF RInv, IInv, StepHas, Has
<1>4. /\ push'[p].kind = "publish" /\ push'[p].claim.owner = Identity[p] /\ pc'[p] = "push"
      /\ push'[p].old = held[p].oid /\ push'[p].to = view[p].head
  BY <1>3 DEF IInv, TypeOK, Publish, Start, PushOf, WorkerInv, RoleOf, Holding, Claims
<1>5. Current(p)'
  BY <1>4 DEF Current, Trusting, Pushing
<1> QED
  BY <1>1, <1>2, <1>3, <1>4, <1>5, BeginKeeps

LEMMA ReleaseKeeps ==
  ASSUME NEW p \in Procs, IInv, RInv, Release(p)
  PROVE  RInv'
<1>1. Begun(p)
  BY ReleaseBegun
<1>2. /\ pc[p] \in {"working", "advancing", "stopped"} /\ view' = view
      /\ branch' = branch /\ saved' = saved /\ forked' = forked /\ seen' = seen
  BY DEF Release, Start, remote, comments
<1>3. WorkerInv(p) /\ Holding(p) /\ p \in Runners
  BY <1>2 DEF RInv, WorkerInv, RoleOf, IInv, StepHas, Has
<1>4. /\ push'[p].kind = "release" /\ push'[p].claim.owner = Identity[p] /\ pc'[p] = "push"
      /\ push'[p].old = held[p].oid
  BY <1>3 DEF IInv, TypeOK, Release, Start, PushOf, WorkerInv, RoleOf, Holding, Claims
<1>5. Current(p)'
  BY <1>4 DEF Current, Trusting, Pushing
<1> QED
  BY <1>1, <1>2, <1>3, <1>4, <1>5, BeginKeeps

-----------------------------------------------------------------------------
(* A state is saved *)

\* Whoever still counts decides from the saved state.
LEMMA AliveCurrent ==
  ASSUME NEW p \in Procs, RInv, Trusting(p), ~Dead(p), pc[p] # "advancing"
  PROVE  /\ view[p].rev = saved.rev /\ ~saved.passed /\ Fixed(view[p].head)
         /\ pc[p] = "working" \/ Pushing(p, {"promote"}) => view[p].head = saved.head
         /\ Pushing(p, {"promote"}) /\ push[p].claim.oid = ref.oid =>
              branch["temp"] \in {push[p].to, Foreign}
  BY DEF RInv, WorkerInv, Current, Fixed

LEMMA SaveKeeps ==
  ASSUME NEW p \in Procs, IInv, RInv, Save(p)
  PROVE  RInv'
<1>1. /\ pc[p] = "save" /\ pc'[p] \in {"advancing", "stopped"}
      /\ view'[p] = saved' /\ saved' = [view[p] EXCEPT !.rev = @ + 1]
      /\ forked' = (forked \/ view[p].rev + 1 <= saved.rev)
      /\ ref' = ref /\ branch' = branch /\ late' = late
      /\ held' = held /\ push' = push /\ seen' = seen
      /\ \A q \in Procs \ {p} : Kept(q)
  BY DEF IInv, TypeOK, States, Save, Kept, remote, outcome
<1>2. /\ WorkerInv(p) /\ p \in Runners /\ p \notin Publishers
      /\ Holding(p) /\ ~Live(p) /\ held[p].oid = ref.oid
  BY <1>1, RunnerAssumption DEF RInv, WorkerInv, RoleOf, Fresh, IInv, StepHas, Has
<1>3. view[p].rev = saved.rev /\ ~saved.passed /\ Fixed(view[p].head)
  <2>1. Trusting(p) /\ ~Dead(p)
    BY <1>1, <1>2 DEF Trusting, Dead
  <2> QED
    BY <1>1, <2>1, AliveCurrent
<1>4. saved.rev \in Nat /\ view[p] \in States /\ saved'.head = view[p].head
  BY <1>1, BoundAssumption DEF IInv, TypeOK, States
<1>5. ASSUME NEW q \in Procs \ {p} PROVE WorkerInv(q)'
  <2>1. WorkerInv(q) /\ Kept(q)
    BY <1>1 DEF RInv
  <2>2. /\ RoleOf(q)' /\ Undecided(q)'
        /\ Holding(q)' <=> Holding(q)
        /\ Live(q)' <=> Live(q)
        /\ \A kinds : Pushing(q, kinds)' <=> Pushing(q, kinds)
    BY <2>1, KeptFacts DEF WorkerInv
  <2>3. Reviewed(q)' /\ SeenBehind(q)'
    BY <1>1, <1>3, <2>1 DEF WorkerInv, Kept, Reviewed, SeenBehind
  <2>4. Fresh(q)' /\ Unrivalled(q)'
    BY <1>1, <2>1, <2>2 DEF WorkerInv, Kept, Fresh, Unrivalled, Secured
  <2>5. Dead(q)'
    BY <1>1, <1>2, <2>2 DEF IInv, CommitInv, CommitsDiffer, Dead
  <2>6. Current(q)'
    BY <2>5 DEF Current
  <2> QED
    BY <2>2, <2>3, <2>4, <2>6 DEF WorkerInv
<1>6. WorkerInv(p)'
  <2>1. ~Live(p)' /\ Holding(p)'
    BY <1>1, <1>2 DEF Live, Holding
  <2> QED
    BY <1>1, <1>2, <2>1 DEF WorkerInv, RoleOf, Undecided, Reviewed, SeenBehind, Fresh,
       Unrivalled, Secured, Current, Trusting, Pushing
<1>7. Overall'
  <2>1. Overall /\ Unrivalled(p)
    BY <1>2 DEF RInv, WorkerInv
  <2>2. LateExpects'
    BY <1>1, <1>3, <2>1 DEF Overall, LateExpects, Unrivalled, Secured
  <2>3. NeverForked'
    <3>1. ~(view[p].rev + 1 <= saved.rev)
      BY <1>3, <1>4
    <3> QED
      BY <1>1, <2>1, <3>1, Zenon DEF Overall, NeverForked
  <2>4. RecordFollowsHead'
    BY <1>1, <1>3, <1>4, <2>1 DEF Overall, RecordFollowsHead, Fixed
  <2>5. PublishedIsReviewed'
    BY <1>1, <1>3, <2>1 DEF Overall, PublishedIsReviewed
  <2> QED
    BY <2>2, <2>3, <2>4, <2>5 DEF Overall
<1> QED
  BY <1>5, <1>6, <1>7 DEF RInv

-----------------------------------------------------------------------------
(* A push is applied, read back or lost *)

\* What an applied push does to the branches.
LEMMA AppliedBranches ==
  ASSUME NEW q \in Pushes, Formed(q), LeasesHold(q), Applied(q), TypeOK
  PROVE  /\ q.kind # "promote" => branch'["temp"] = branch["temp"]
         /\ q.kind = "promote" => /\ branch["temp"] \in {q.from, q.to}
                                  /\ branch'["temp"] = q.to
                                  /\ q.from \in Nat /\ q.to = q.from + 1
         /\ q.kind # "publish" => branch'["parent"] = branch["parent"]
         /\ q.kind = "publish" => branch'["parent"] = q.to
<1>1. q.kind \in {"acquire", "renew", "release", "promote", "publish"}
  BY DEF Pushes
<1> QED
  BY <1>1 DEF Formed, LeasesHold, Applied, TypeOK

\* What is behind the temp branch stays behind it.
LEMMA AppliedForward ==
  ASSUME NEW q \in Pushes, Formed(q), LeasesHold(q), Applied(q), TypeOK,
         NEW p \in Procs, SeenBehind(p), pc'[p] # "idle" => pc[p] # "idle",
         seen'[p] = seen[p]
  PROVE  SeenBehind(p)'
<1>1. CASE q.kind # "promote"
  BY <1>1, AppliedBranches DEF SeenBehind
<1>2. CASE q.kind = "promote"
  <2>1. /\ branch["temp"] \in {q.from, q.to} /\ branch'["temp"] = q.to
        /\ q.from \in Nat /\ q.to = q.from + 1
    BY <1>2, AppliedBranches
  <2>2. q.from # Foreign /\ q.to # Foreign
    BY <2>1, HeadAssumption
  <2> QED
    BY <2>1, <2>2 DEF SeenBehind
<1> QED
  BY <1>1, <1>2

\* The review goes on as the applied push was meant.
LEMMA AppliedOverall ==
  ASSUME NEW q \in Pushes, Formed(q), LeasesHold(q), Applied(q), TypeOK, Overall,
         saved' = saved, forked' = forked, late' \in {late, NoPush},
         late' # NoPush => late.old # q.claim.oid,
         q.kind = "promote" => q.from = saved.head,
         q.kind = "publish" => saved.passed /\ q.to = saved.head
  PROVE  Overall'
<1>1. ref' = q.claim
  BY DEF Applied
<1>2. LateExpects'
  BY <1>1 DEF Overall, LateExpects
<1>3. RecordFollowsHead'
  BY AppliedBranches DEF Overall, RecordFollowsHead
<1>4. PublishedIsReviewed'
  BY AppliedBranches DEF Overall, PublishedIsReviewed
<1> QED
  BY <1>2, <1>3, <1>4 DEF Overall, NeverForked

\* The others whose claim it was not are dead from then on.
LEMMA AppliedOthers ==
  ASSUME NEW p \in Procs, NEW r \in Procs \ {p}, IInv, RInv, pc[p] = "push",
         LeasesHold(push[p]), Applied(push[p]), Kept(r), saved' = saved
  PROVE  WorkerInv(r)'
<1> DEFINE c == push[p].claim
<1>1. /\ Live(p) /\ push[p] \in Pushes /\ Formed(push[p]) /\ TypeOK
      /\ ref' = c /\ push[p].old = ref.oid
  BY LeaseIsOld DEF IInv, CommitInv, NotYet, StepHas, Has, TypeOK, WellFormed, Live, Applied
<1>2. WorkerInv(r)
  BY DEF RInv
<1>3. /\ RoleOf(r)' /\ Undecided(r)'
      /\ Holding(r)' <=> Holding(r)
      /\ Live(r)' <=> Live(r)
      /\ \A kinds : Pushing(r, kinds)' <=> Pushing(r, kinds)
  BY <1>2, KeptFacts DEF WorkerInv
<1>4. Dead(r)'
  BY <1>1, <1>3 DEF Kept, IInv, CommitInv, CommitsDiffer, Dead
<1>5. Reviewed(r)' /\ SeenBehind(r)'
  BY <1>1, <1>2, AppliedForward DEF WorkerInv, Kept, Reviewed
<1>6. pc[r] # "save"
  BY <1>1, <1>2 DEF WorkerInv, Unrivalled, Secured
<1>7. Fresh(r)'
  BY <1>2, <1>3, <1>6 DEF WorkerInv, Kept, Fresh
<1>8. Unrivalled(r)'
  BY <1>3, <1>4, <1>6 DEF Kept, Unrivalled, Secured, Dead, Pushing
<1>9. Current(r)'
  BY <1>4 DEF Current
<1> QED
  BY <1>3, <1>5, <1>7, <1>8, <1>9 DEF WorkerInv

\* Nobody dead has a push applied.
LEMMA AppliedAlive ==
  ASSUME NEW p \in Procs, IInv, RInv, Live(p), push[p].kind # "acquire",
         push[p].claim.oid = ref.oid \/ push[p].old = ref.oid
  PROVE  ~Dead(p) /\ Holding(p)
  BY DEF RInv, WorkerInv, RoleOf, IInv, StepHas, Has, Dead

\* What a push was meant to do is still right when it is applied.
LEMMA AppliedMeant ==
  ASSUME NEW p \in Procs, IInv, RInv, pc[p] = "push", push[p].old = ref.oid
  PROVE  /\ push[p].kind = "promote" => push[p].from = saved.head
         /\ push[p].kind = "publish" => saved.passed /\ push[p].to = saved.head
<1>1. Live(p) /\ WorkerInv(p)
  BY DEF IInv, StepHas, Has, RInv
<1>2. CASE push[p].kind = "promote"
  <2>1. ~Dead(p) /\ Trusting(p) /\ Pushing(p, {"promote"}) /\ pc[p] # "advancing"
    BY <1>1, <1>2, AppliedAlive DEF Trusting, Pushing
  <2>2. view[p].head = saved.head
    BY <2>1, AliveCurrent
  <2> QED
    BY <1>1, <1>2, <2>1, <2>2 DEF WorkerInv, RoleOf
<1>3. CASE push[p].kind = "publish"
  BY <1>1, <1>3 DEF WorkerInv, RoleOf, Reviewed, Pushing
<1> QED
  BY <1>2, <1>3

\* A worker that goes on after its push.
LEMMA SucceedWorker ==
  ASSUME NEW p \in Procs, IInv, RInv, IInv', Live(p), Succeed(p), pc[p] # "idle",
         ref'.oid = push[p].claim.oid, saved' = saved, SeenBehind(p),
         branch["temp"] = Foreign => branch'["temp"] = Foreign,
         branch["temp"] \in Nat =>
           branch'["temp"] = Foreign \/ (branch'["temp"] \in Nat /\ branch["temp"] <= branch'["temp"]),
         push[p].kind = "promote" => branch'["temp"] \in {push[p].to, Foreign},
         push[p].kind # "promote" => branch'["temp"] = branch["temp"],
         push[p].kind # "acquire" => ~Dead(p),
         push[p].kind = "renew" =>
           /\ \A q \in Procs \ {p} : pc'[q] = "push" => push'[q].old # ref'.oid
           /\ late' # NoPush => late'.old # ref'.oid
  PROVE  WorkerInv(p)'
<1> DEFINE k == push[p].kind
<1>1. /\ push[p] \in Pushes /\ push[p].claim # NoClaim
      /\ k \in {"acquire", "renew", "promote", "publish", "release"}
      /\ TypeOK /\ Formed(push[p]) /\ WorkerInv(p)
  BY NullAssumption DEF IInv, TypeOK, Live, Pushes, WellFormed, RInv
<1>2. CASE k \in {"publish", "release"}
  <2>1. pc'[p] = "idle" /\ ~Holding(p)' /\ ~Live(p)'
    BY <1>1, <1>2 DEF Succeed, Leave, Goto, TypeOK, Holding, Live
  <2> QED
    BY <2>1 DEF WorkerInv, RoleOf, Undecided, Reviewed, SeenBehind, Fresh, Unrivalled,
       Secured, Current, Trusting, Pushing
<1>3. CASE k \notin {"publish", "release"}
  <2>1. /\ held'[p] = push[p].claim /\ Holding(p)' /\ ~Live(p)' /\ seen'[p] = seen[p]
        /\ k = "acquire" => pc'[p] = "claimed" /\ view'[p] = view[p]
        /\ k = "renew" => pc'[p] = "save" /\ view'[p] = view[p]
        /\ k = "promote" => /\ pc'[p] = "advancing"
                            /\ view'[p] = [view[p] EXCEPT !.head = push[p].to]
    BY <1>1, <1>3 DEF Succeed, Goto, TypeOK, Holding, Live
  <2>2. k \in {"acquire", "renew", "promote"}
    BY <1>1, <1>3
  <2>3. k \in {"renew", "promote"} => p \in Runners /\ p \notin Publishers
    BY <1>1, RunnerAssumption DEF WorkerInv, RoleOf, Pushing
  <2>4. pc'[p] \notin {"idle", "push"} /\ held'[p].owner = Identity[p]
    BY <1>1, <2>1, <2>2 DEF WorkerInv, RoleOf
  <2>5. RoleOf(p)'
    BY <2>1, <2>2, <2>3, <2>4 DEF RoleOf, Pushing
  <2>6. Undecided(p)' /\ Reviewed(p)'
    BY <1>1, <2>1, <2>2, <2>3 DEF WorkerInv, Undecided, Reviewed, Pushing
  <2>7. SeenBehind(p)'
    <3>1. branch["temp"] = Foreign \/ (seen[p] \in Nat /\ branch["temp"] \in Nat
                                         /\ seen[p] <= branch["temp"])
      BY DEF SeenBehind
    <3> QED
      BY <2>1, <3>1 DEF SeenBehind
  <2>8. Fresh(p)'
    BY <1>1, <2>1, <2>2 DEF WorkerInv, Fresh, Pushing
  <2>9. Unrivalled(p)'
    BY <2>1, <2>2, <2>4 DEF Unrivalled, Secured, Pushing
  <2>10. Current(p)'
    <3>1. CASE k = "acquire"
      BY <2>1, <3>1 DEF Current, Trusting, Pushing
    <3>2. CASE k = "renew"
      <4>1. Trusting(p) /\ ~Dead(p) /\ pc[p] # "advancing"
        BY <3>2, <1>1 DEF Trusting, Pushing, IInv, StepHas, Has
      <4>2. view[p].rev = saved.rev /\ ~saved.passed /\ Fixed(view[p].head)
        BY <4>1, AliveCurrent
      <4> QED
        BY <2>1, <3>2, <4>2 DEF Current, Fixed, Pushing
    <3>3. CASE k = "promote"
      <4>1. Trusting(p) /\ ~Dead(p) /\ pc[p] # "advancing" /\ Pushing(p, {"promote"})
        BY <3>3, <1>1 DEF Trusting, Pushing, IInv, StepHas, Has
      <4>2. view[p].rev = saved.rev /\ ~saved.passed /\ view[p].head = saved.head
        BY <4>1, AliveCurrent
      <4>3. push[p].to = saved.head + 1
        BY <1>1, <4>1, <4>2, <3>3 DEF WorkerInv, RoleOf, Formed
      <4>4. view'[p].head = push[p].to /\ view'[p].rev = view[p].rev
        BY <1>1, <2>1, <3>3 DEF TypeOK, States
      <4> QED
        BY <2>1, <3>3, <4>2, <4>3, <4>4 DEF Current, Fixed, Pushing
    <3> QED
      BY <2>2, <3>1, <3>2, <3>3
  <2> QED
    BY <2>5, <2>6, <2>7, <2>8, <2>9, <2>10 DEF WorkerInv
<1> QED
  BY <1>2, <1>3

LEMMA SucceedOthers ==
  ASSUME NEW p \in Procs, TypeOK, Live(p), Succeed(p)
  PROVE  /\ \A q \in Procs \ {p} : Kept(q)
         /\ pc'[p] # "push"
<1>1. push[p].kind \in {"acquire", "renew", "promote", "publish", "release"}
  BY DEF TypeOK, Live, Pushes
<1>2. CASE push[p].kind \in {"publish", "release"}
  BY <1>2 DEF Succeed, Leave, Goto, TypeOK, Kept
<1>3. CASE push[p].kind \in {"acquire", "renew"}
  BY <1>3 DEF Succeed, Goto, TypeOK, Kept
<1>4. CASE push[p].kind = "promote"
  BY <1>4 DEF Succeed, Goto, TypeOK, Kept
<1> QED
  BY <1>1, <1>2, <1>3, <1>4

LEMMA AnsweredKeeps ==
  ASSUME NEW p \in Procs, IInv, RInv, IInv', PushAnswered(p)
  PROVE  RInv'
<1>1. /\ pc[p] = "push" /\ LeasesHold(push[p]) /\ Applied(push[p]) /\ Succeed(p)
      /\ saved' = saved /\ forked' = forked /\ late' = late /\ ref' = push[p].claim
  BY DEF PushAnswered, Applied, comments
<1>2. /\ Live(p) /\ push[p] \in Pushes /\ Formed(push[p]) /\ TypeOK /\ push[p].old = ref.oid
      /\ WorkerInv(p) /\ Overall
  BY <1>1, LeaseIsOld DEF IInv, CommitInv, NotYet, StepHas, Has, TypeOK, WellFormed, Live, RInv
<1>3. /\ push[p].kind = "promote" => push[p].from = saved.head
      /\ push[p].kind = "publish" => saved.passed /\ push[p].to = saved.head
  BY <1>1, <1>2, AppliedMeant
<1>4. /\ late # NoPush => late.old # push[p].claim.oid
      /\ \A q \in Procs : pc[q] = "push" => push[q].old # push[p].claim.oid
  BY <1>1 DEF IInv, CommitInv, NotExpected, StepHas, Has
<1>5. Overall'
  BY <1>1, <1>2, <1>3, <1>4, AppliedOverall
<1>6. \A q \in Procs \ {p} : Kept(q)
  BY <1>1, <1>2, SucceedOthers
<1>7. \A q \in Procs \ {p} : WorkerInv(q)'
  BY <1>1, <1>6, AppliedOthers
<1>8. WorkerInv(p)'
  <2>1. /\ push[p].kind = "promote" => branch'["temp"] = push[p].to
        /\ push[p].kind # "promote" => branch'["temp"] = branch["temp"]
    BY <1>1, <1>2, AppliedBranches
  <2>2. /\ branch["temp"] = Foreign => branch'["temp"] = Foreign
        /\ branch["temp"] \in Nat =>
             branch'["temp"] = Foreign
               \/ (branch'["temp"] \in Nat /\ branch["temp"] <= branch'["temp"])
    <3>1. CASE push[p].kind = "promote"
      BY <1>1, <1>2, <3>1, AppliedBranches, HeadAssumption
    <3>2. CASE push[p].kind # "promote"
      BY <2>1, <3>2
    <3> QED
      BY <3>1, <3>2
  <2>3. push[p].kind # "acquire" => ~Dead(p)
    BY <1>2, AppliedAlive
  <2>4. SeenBehind(p)
    BY <1>2 DEF WorkerInv
  <2>5. /\ \A q \in Procs \ {p} : pc'[q] = "push" => push'[q].old # ref'.oid
        /\ late' # NoPush => late'.old # ref'.oid
    BY <1>1, <1>4, <1>6 DEF Kept
  <2> QED
    BY <1>1, <1>2, <2>1, <2>2, <2>3, <2>4, <2>5, SucceedWorker
<1> QED
  BY <1>5, <1>7, <1>8 DEF RInv

LEMMA UnansweredKeeps ==
  ASSUME NEW p \in Procs, IInv, RInv, PushUnanswered(p)
  PROVE  RInv'
<1>1. /\ pc[p] = "push" /\ LeasesHold(push[p]) /\ Applied(push[p]) /\ pc'[p] = "read back"
      /\ saved' = saved /\ forked' = forked /\ late' = late /\ ref' = push[p].claim
      /\ view' = view /\ seen' = seen /\ held' = held /\ push' = push
      /\ \A q \in Procs \ {p} : Kept(q)
  BY DEF IInv, TypeOK, PushUnanswered, Applied, Goto, Kept, comments, decision
<1>2. /\ Live(p) /\ push[p] \in Pushes /\ Formed(push[p]) /\ TypeOK /\ push[p].old = ref.oid
      /\ WorkerInv(p) /\ Overall
  BY <1>1, LeaseIsOld DEF IInv, CommitInv, NotYet, StepHas, Has, TypeOK, WellFormed, Live, RInv
<1>3. /\ push[p].kind = "promote" => push[p].from = saved.head
      /\ push[p].kind = "publish" => saved.passed /\ push[p].to = saved.head
  BY <1>1, <1>2, AppliedMeant
<1>4. /\ late # NoPush => late.old # push[p].claim.oid
      /\ \A q \in Procs : pc[q] = "push" => push[q].old # push[p].claim.oid
  BY <1>1 DEF IInv, CommitInv, NotExpected, StepHas, Has
<1>5. Overall'
  BY <1>1, <1>2, <1>3, <1>4, AppliedOverall
<1>6. \A q \in Procs \ {p} : WorkerInv(q)'
  BY <1>1, AppliedOthers
<1>7. WorkerInv(p)'
  <2>1. /\ Holding(p)' <=> Holding(p)
        /\ Live(p)' <=> Live(p)
        /\ \A kinds : Pushing(p, kinds)' <=> Pushing(p, kinds)
    BY <1>1 DEF Holding, Live, Pushing
  <2>2. RoleOf(p)' /\ Undecided(p)' /\ Reviewed(p)'
    BY <1>1, <1>2, <2>1 DEF WorkerInv, RoleOf, Undecided, Reviewed
  <2>3. SeenBehind(p)'
    BY <1>1, <1>2, AppliedForward DEF WorkerInv
  <2>4. Fresh(p)' /\ Unrivalled(p)'
    BY <1>1, <1>2, <1>4, <2>1 DEF WorkerInv, Fresh, Unrivalled, Kept
  <2>5. Current(p)'
    <3>1. CASE ~Pushing(p, {"renew", "promote"})
      BY <1>1, <2>1, <3>1 DEF Current, Trusting
    <3>2. CASE Pushing(p, {"renew", "promote"})
      <4>1. Trusting(p) /\ ~Dead(p) /\ pc[p] # "advancing"
        BY <1>1, <1>2, <3>2, AppliedAlive DEF Trusting, Pushing
      <4>2. /\ view[p].rev = saved.rev /\ ~saved.passed /\ Fixed(view[p].head)
            /\ Pushing(p, {"promote"}) => view[p].head = saved.head
        BY <4>1, AliveCurrent
      <4>3. /\ push[p].kind = "promote" => branch'["temp"] = push[p].to
            /\ push[p].kind # "promote" => branch'["temp"] = branch["temp"]
        BY <1>1, <1>2, AppliedBranches
      <4> QED
        BY <1>1, <2>1, <3>2, <4>2, <4>3 DEF Current, Fixed, Pushing
    <3> QED
      BY <3>1, <3>2
  <2> QED
    BY <2>2, <2>3, <2>4, <2>5 DEF WorkerInv
<1> QED
  BY <1>5, <1>6, <1>7 DEF RInv

LEMMA LearnKeeps ==
  ASSUME NEW p \in Procs, IInv, RInv, IInv', ReadBack(p), ref.oid = push[p].claim.oid
  PROVE  RInv'
<1>1. /\ pc[p] = "read back" /\ Succeed(p)
      /\ ref' = ref /\ branch' = branch /\ saved' = saved /\ forked' = forked /\ late' = late
  BY DEF ReadBack, remote, comments
<1>2. Live(p) /\ WorkerInv(p) /\ TypeOK
  BY <1>1 DEF IInv, StepHas, Has, RInv
<1>3. (\A q \in Procs \ {p} : Kept(q)) /\ pc'[p] # "push"
  BY <1>1, <1>2, SucceedOthers
<1>4. Quiet(p)
  BY <1>1, <1>3 DEF Quiet, Kept
<1>5. push[p].kind # "acquire" => ~Dead(p)
  BY <1>2, AppliedAlive
<1>6. push[p].kind = "promote" => branch["temp"] \in {push[p].to, Foreign}
  <2> SUFFICES ASSUME push[p].kind = "promote"
               PROVE  branch["temp"] \in {push[p].to, Foreign}
    OBVIOUS
  <2>1. Trusting(p) /\ ~Dead(p) /\ pc[p] # "advancing" /\ Pushing(p, {"promote"})
    BY <1>1, <1>2, <1>5 DEF Trusting, Pushing
  <2> QED
    BY <2>1, AliveCurrent
<1>7. push[p].kind = "renew" =>
        /\ \A q \in Procs \ {p} : pc'[q] = "push" => push'[q].old # ref'.oid
        /\ late' # NoPush => late'.old # ref'.oid
  BY <1>1, <1>2, <1>3 DEF WorkerInv, Unrivalled, Secured, Pushing, Kept
<1>8. WorkerInv(p)'
  <2>1. branch["temp"] \in Nat => branch["temp"] <= branch["temp"]
    OBVIOUS
  <2>2. SeenBehind(p)
    BY <1>2 DEF WorkerInv
  <2>3. push[p].kind = "promote" \/ push[p].kind # "promote"
    OBVIOUS
  <2>4. CASE push[p].kind = "promote"
    BY <1>1, <1>2, <1>5, <1>6, <1>7, <2>1, <2>2, <2>4, SucceedWorker
  <2>5. CASE push[p].kind # "promote"
    BY <1>1, <1>2, <1>5, <1>7, <2>1, <2>2, <2>5, SucceedWorker
  <2> QED
    BY <2>4, <2>5
<1> QED
  BY <1>4, <1>8, QuietKeeps

LEMMA LostKeeps ==
  ASSUME NEW p \in Procs, IInv, RInv, PushLost(p)
  PROVE  RInv'
<1>1. /\ pc[p] = "push" /\ pc'[p] = "read back" /\ late' \in {late, push[p]}
      /\ ref' = ref /\ branch' = branch /\ saved' = saved /\ forked' = forked
      /\ view' = view /\ seen' = seen /\ held' = held /\ push' = push
      /\ \A q \in Procs \ {p} : pc'[q] = pc[q]
  BY DEF IInv, TypeOK, PushLost, Goto, remote, comments, decision
<1>2. ASSUME NEW q \in Procs PROVE WorkerInv(q)'
  <2>1. /\ Holding(q)' <=> Holding(q)
        /\ Live(q)' <=> Live(q)
        /\ \A kinds : Pushing(q, kinds)' <=> Pushing(q, kinds)
        /\ WorkerInv(q)
    BY <1>1 DEF Holding, Live, Pushing, RInv
  <2>2. pc'[q] = pc[q] \/ (pc[q] = "push" /\ pc'[q] = "read back")
    BY <1>1
  <2>3. RoleOf(q)' /\ Undecided(q)' /\ Reviewed(q)' /\ SeenBehind(q)'
    BY <1>1, <2>1, <2>2 DEF WorkerInv, RoleOf, Undecided, Reviewed, SeenBehind
  <2>4. Fresh(q)' /\ Unrivalled(q)'
    BY <1>1, <2>1, <2>2 DEF WorkerInv, Fresh, Unrivalled, Secured
  <2>5. Current(q)'
    BY <1>1, <2>1, <2>2 DEF WorkerInv, Current, Trusting, Dead, Fixed
  <2> QED
    BY <2>3, <2>4, <2>5 DEF WorkerInv
<1>3. LateExpects'
  <2>1. CASE late' = late
    BY <1>1, <2>1 DEF RInv, Overall, LateExpects
  <2>2. CASE late' = push[p]
    BY <1>1, <2>2, AppliedMeant DEF LateExpects, RInv, WorkerInv, RoleOf, Reviewed, Pushing,
                                    IInv, StepHas, Has
  <2> QED
    BY <1>1, <2>1, <2>2
<1>4. Overall'
  BY <1>1, <1>3 DEF RInv, Overall, NeverForked, RecordFollowsHead, PublishedIsReviewed
<1> QED
  BY <1>2, <1>4 DEF RInv

-----------------------------------------------------------------------------
(* The environment *)

LEMMA ComeKeeps ==
  ASSUME IInv, RInv, Arrive, LeasesHold(late)
  PROVE  RInv'
<1>1. /\ late # NoPush /\ late' = NoPush /\ Applied(late) /\ ref' = late.claim
      /\ saved' = saved /\ forked' = forked
      /\ pc' = pc /\ view' = view /\ seen' = seen /\ held' = held /\ push' = push
  BY DEF Arrive, Applied, comments, decision
<1>2. /\ late \in Pushes /\ Formed(late) /\ TypeOK /\ Overall /\ late.old = ref.oid
  BY <1>1, LeaseIsOld DEF IInv, CommitInv, NotYet, TypeOK, WellFormed, RInv
<1>3. Overall'
  BY <1>1, <1>2, AppliedOverall DEF Overall, LateExpects
<1>4. ASSUME NEW q \in Procs PROVE WorkerInv(q)'
  <2>1. /\ Holding(q)' <=> Holding(q)
        /\ Live(q)' <=> Live(q)
        /\ \A kinds : Pushing(q, kinds)' <=> Pushing(q, kinds)
        /\ Trusting(q)' <=> Trusting(q)
        /\ WorkerInv(q)
    BY <1>1 DEF Holding, Live, Pushing, Trusting, RInv
  <2>2. RoleOf(q)' /\ Undecided(q)' /\ Reviewed(q)'
    BY <1>1, <2>1 DEF WorkerInv, RoleOf, Undecided, Reviewed
  <2>3. SeenBehind(q)'
    BY <1>1, <1>2, <2>1, AppliedForward DEF WorkerInv
  <2>4. pc[q] # "save"
    BY <1>1, <1>2, <2>1 DEF WorkerInv, Unrivalled, Secured
  <2>5. Fresh(q)'
    BY <1>1, <2>1, <2>4 DEF WorkerInv, Fresh
  <2>6. Unrivalled(q)'
    <3>1. \A r \in Procs : pc[r] = "push" => push[r].old # late.claim.oid
      BY <1>1 DEF IInv, CommitInv, NotExpected, StepHas, Has
    <3> QED
      BY <1>1, <3>1 DEF Unrivalled
  <2>7. Current(q)'
    <3>1. Holding(q) => held[q].oid # late.claim.oid
      BY <1>1 DEF IInv, CommitInv, CommitsDiffer
    <3>2. CASE ~Live(q) \/ push[q].claim.oid # late.claim.oid
      BY <1>1, <2>1, <3>1, <3>2 DEF Current, Dead
    <3>3. CASE Live(q) /\ push[q].claim.oid = late.claim.oid
      <4>1. push[q] = late
        BY <1>1, <3>3 DEF IInv, CommitInv, CommitsDiffer
      <4>2. CASE ~Trusting(q)
        BY <2>1, <4>2 DEF Current
      <4>3. CASE Trusting(q)
        <5>1. Pushing(q, {"renew", "promote"}) /\ pc[q] \notin {"working", "advancing", "save"}
          BY <3>3, <4>3 DEF Trusting, IInv, StepHas, Has
        <5>2. ~Dead(q)
          BY <1>2, <3>3, <4>1, <5>1, AppliedAlive DEF Pushing
        <5>3. /\ view[q].rev = saved.rev /\ ~saved.passed /\ Fixed(view[q].head)
              /\ Pushing(q, {"promote"}) => view[q].head = saved.head
          BY <4>3, <5>1, <5>2, AliveCurrent
        <5>4. /\ late.kind = "promote" => branch'["temp"] = late.to
              /\ late.kind # "promote" => branch'["temp"] = branch["temp"]
          BY <1>1, <1>2, AppliedBranches
        <5> QED
          BY <1>1, <2>1, <4>1, <5>1, <5>3, <5>4 DEF Current, Fixed, Pushing
      <4> QED
        BY <4>2, <4>3
    <3> QED
      BY <3>2, <3>3
  <2> QED
    BY <2>2, <2>3, <2>5, <2>6, <2>7 DEF WorkerInv
<1> QED
  BY <1>3, <1>4 DEF RInv

\* The workers and the claims stay; an outsider may move the temp branch.
LEMMA OutsideKeeps ==
  ASSUME IInv, RInv, late' \in {late, NoPush},
         UNCHANGED <<ref, comments, pc, decision, held, push>>,
         branch' = branch \/ Intrude
  PROVE  RInv'
<1>1. /\ ref' = ref /\ saved' = saved /\ forked' = forked
      /\ pc' = pc /\ view' = view /\ seen' = seen /\ held' = held /\ push' = push
  BY DEF comments, decision
<1>2. /\ branch'["temp"] \in {branch["temp"], Foreign}
      /\ branch'["parent"] = branch["parent"]
  BY DEF Intrude, IInv, TypeOK
<1>3. ASSUME NEW q \in Procs PROVE WorkerInv(q)'
  <2>1. /\ Holding(q)' <=> Holding(q)
        /\ Live(q)' <=> Live(q)
        /\ \A kinds : Pushing(q, kinds)' <=> Pushing(q, kinds)
        /\ WorkerInv(q)
    BY <1>1 DEF Holding, Live, Pushing, RInv
  <2>2. RoleOf(q)' /\ Undecided(q)' /\ Reviewed(q)' /\ SeenBehind(q)'
    BY <1>1, <1>2, <2>1 DEF WorkerInv, RoleOf, Undecided, Reviewed, SeenBehind
  <2>3. Fresh(q)' /\ Unrivalled(q)'
    BY <1>1, <2>1 DEF WorkerInv, Fresh, Unrivalled, Secured
  <2>4. Current(q)'
    <3>1. \A h : Fixed(h) => Fixed(h)'
      BY <1>1, <1>2 DEF Fixed
    <3> QED
      BY <1>1, <1>2, <2>1, <3>1 DEF WorkerInv, Current, Trusting, Dead
  <2> QED
    BY <2>2, <2>3, <2>4 DEF WorkerInv
<1>4. Overall'
  BY <1>1, <1>2 DEF RInv, Overall, LateExpects, NeverForked, RecordFollowsHead,
                    PublishedIsReviewed
<1> QED
  BY <1>3, <1>4 DEF RInv

LEMMA TickKeeps ==
  ASSUME PromptSave, IInv, RInv, Tick
  PROVE  RInv'
<1>1. /\ Ages /\ saved' = saved /\ forked' = forked /\ branch' = branch
      /\ pc' = pc /\ view' = view /\ seen' = seen /\ ref \in Claims /\ TypeOK
  BY TickAges DEF IInv, TypeOK, Tick, comments, decision
<1>2. ref'.oid = ref.oid
  BY <1>1, OlderClaim DEF Ages
<1>3. /\ late # NoPush <=> late' # NoPush
      /\ late # NoPush => /\ late'.old = late.old /\ late'.kind = late.kind
                          /\ late'.from = late.from /\ late'.to = late.to
  BY <1>1 DEF Ages, AgedPush
<1>4. ASSUME NEW q \in Procs
      PROVE  /\ Holding(q)' <=> Holding(q)
             /\ Live(q)' <=> Live(q)
             /\ Holding(q) => /\ held[q] \in Claims /\ held'[q] = Older(held[q])
                              /\ held'[q].oid = held[q].oid /\ held'[q].owner = held[q].owner
             /\ Live(q) => /\ push[q].claim \in Claims
                           /\ push'[q].claim = Older(push[q].claim)
                           /\ push'[q].claim.oid = push[q].claim.oid
                           /\ push'[q].claim.owner = push[q].claim.owner
                           /\ push'[q].kind = push[q].kind /\ push'[q].old = push[q].old
                           /\ push'[q].from = push[q].from /\ push'[q].to = push[q].to
  <2>1. /\ Holding(q) => held[q] \in Claims
        /\ Live(q) => push[q].claim \in Claims
    BY <1>1 DEF TypeOK, Holding, Live, Pushes
  <2> QED
    BY <1>1, <2>1, OlderClaim DEF Ages, AgedPush
<1>5. ASSUME NEW q \in Procs PROVE WorkerInv(q)'
  <2>1. WorkerInv(q) /\ Has(q)
    BY DEF RInv, IInv, StepHas
  <2>2. \A kinds : Pushing(q, kinds)' <=> Pushing(q, kinds)
    BY <1>4 DEF Pushing
  <2>3. RoleOf(q)'
    BY <1>1, <1>4, <2>1, <2>2 DEF WorkerInv, RoleOf, Pushing, Has
  <2>4. Undecided(q)' /\ Reviewed(q)' /\ SeenBehind(q)'
    BY <1>1, <2>1, <2>2 DEF WorkerInv, Undecided, Reviewed, SeenBehind
  <2>5. Fresh(q)'
    <3>1. ASSUME NEW c \in Claims, c.left > 1 PROVE Older(c).left > 0
      BY <3>1, BoundAssumption DEF Older, Claims
    <3>2. CASE pc[q] = "save"
      <4>1. held[q].left > 1 /\ Holding(q) /\ ~Live(q)
        BY <2>1, <3>2 DEF Tick, Saving, SaveClaim, Has
      <4> QED
        BY <1>1, <1>2, <1>4, <2>1, <3>1, <3>2, <4>1 DEF WorkerInv, Fresh, Pushing
    <3>3. CASE pc[q] # "save"
      <4>1. Pushing(q, {"renew"}) => push[q].claim.left > 1
        BY <3>3 DEF Tick, Saving, SaveClaim, Pushing, Live
      <4> QED
        BY <1>1, <1>4, <2>2, <3>1, <3>3, <4>1 DEF Fresh, Pushing
    <3> QED
      BY <3>2, <3>3
  <2>6. Unrivalled(q)'
    <3>1. Secured(q)' => Secured(q)
      BY <1>1, <1>2, <1>4, <2>2 DEF Secured, Pushing
    <3>2. \A r \in Procs : pc[r] = "push" => push'[r].old = push[r].old
      BY <1>4 DEF IInv, StepHas, Has
    <3> QED
      BY <1>1, <1>2, <1>3, <2>1, <3>1, <3>2 DEF WorkerInv, Unrivalled
  <2>7. Current(q)'
    BY <1>1, <1>2, <1>4, <2>1, <2>2
       DEF WorkerInv, Current, Trusting, Dead, Fixed, Pushing
  <2> QED
    BY <2>3, <2>4, <2>5, <2>6, <2>7 DEF WorkerInv
<1>6. Overall'
  BY <1>1, <1>2, <1>3 DEF RInv, Overall, LateExpects, NeverForked, RecordFollowsHead,
                          PublishedIsReviewed
<1> QED
  BY <1>5, <1>6 DEF RInv

-----------------------------------------------------------------------------
(* Theorems *)

LEMMA InitReview == Init => RInv
<1> SUFFICES ASSUME Init PROVE RInv
  OBVIOUS
<1>1. /\ \A p \in Procs : pc[p] = "idle" /\ ~Holding(p) /\ ~Live(p)
      /\ late = NoPush /\ saved.head = 0
      /\ forked = FALSE /\ branch["temp"] = 0 /\ branch["parent"] = Base
  BY DEF Init, Holding, Live, FirstState
<1>2. ASSUME NEW p \in Procs PROVE WorkerInv(p)
  BY <1>1 DEF WorkerInv, RoleOf, Undecided, Reviewed, SeenBehind, Fresh, Unrivalled, Secured,
     Current, Trusting, Pushing
<1>3. Overall
  BY <1>1 DEF Overall, LateExpects, NeverForked, RecordFollowsHead, PublishedIsReviewed
<1> QED
  BY <1>2, <1>3 DEF RInv

LEMMA NextReview ==
  ASSUME PromptSave, IInv, IInv', RInv, [Next]_vars
  PROVE  RInv'
<1>1. ASSUME NEW p \in Procs, Observe(p) \/ Step(p) \/ Fail(p) PROVE RInv'
  <2>1. CASE Observe(p)
    BY <2>1, ObserveKeeps
  <2>2. CASE Acquire(p)
    BY <2>2, AcquireKeeps
  <2>3. CASE Require(p)
    BY <2>3, RequireKeeps
  <2>4. CASE Promote(p)
    BY <2>4, PromoteKeeps
  <2>5. CASE Adopt(p)
    BY <2>5, AdoptKeeps
  <2>6. CASE Renew(p)
    BY <2>6, RenewKeeps
  <2>7. CASE Save(p)
    BY <2>7, SaveKeeps
  <2>8. CASE Publish(p)
    BY <2>8, PublishKeeps
  <2>9. CASE Release(p)
    BY <2>9, ReleaseKeeps
  <2>10. CASE PushAnswered(p)
    BY <2>10, AnsweredKeeps
  <2>11. CASE PushUnanswered(p)
    BY <2>11, UnansweredKeeps
  <2>12. CASE PushLost(p)
    BY <2>12, LostKeeps
  <2>13. CASE ReadBack(p) /\ ref.oid = push[p].claim.oid
    BY <2>13, LearnKeeps
  <2>14. CASE HeldByOther(p) \/ PushRefused(p) \/ ReadBackFails(p)
                \/ (ReadBack(p) /\ ref.oid # push[p].claim.oid)
    <3>1. Classify(p) \in Refusals
      BY DEF Classify, Refusals
    <3>2. \E step \in {"held by other", "read back"} \cup Refusals :
            pc' = [pc EXCEPT ![p] = step]
      BY <2>14, <3>1 DEF HeldByOther, PushRefused, ReadBackFails, ReadBack, Goto, Refusals
    <3>3. pc[p] \in {"observed", "push", "read back"}
          /\ UNCHANGED <<remote, comments, late, view, seen, held, push>>
      BY <2>14 DEF HeldByOther, PushRefused, ReadBackFails, ReadBack, decision
    <3> QED
      BY <3>2, <3>3, PlaceKeeps
  <2>15. CASE React(p)
    BY <2>15, ReactKeeps
  <2>16. CASE Fail(p)
    BY <2>16, LeaveKeeps DEF Fail
  <2> QED
    BY <1>1, <2>1, <2>2, <2>3, <2>4, <2>5, <2>6, <2>7, <2>8, <2>9, <2>10, <2>11, <2>12,
       <2>13, <2>14, <2>15, <2>16 DEF Step
<1>2. CASE Arrive
  <2>1. CASE LeasesHold(late)
    BY <1>2, <2>1, ComeKeeps
  <2>2. CASE ~LeasesHold(late)
    BY <1>2, <2>2, OutsideKeeps DEF Arrive, remote
  <2> QED
    BY <2>1, <2>2
<1>3. CASE Intrude
  BY <1>3, OutsideKeeps DEF Intrude
<1>4. CASE Tick
  BY <1>4, TickKeeps
<1>5. CASE UNCHANGED vars
  BY <1>5, OutsideKeeps DEF vars, remote
<1> QED
  BY <1>1, <1>2, <1>3, <1>4, <1>5 DEF Next

\* The invariant of the review, when no claim expires between a renewal and its comment.
THEOREM ReviewInductive == PromptSave => (Spec => []RInv)
<1> SUFFICES ASSUME PromptSave PROVE Spec => []RInv
  OBVIOUS
<1>1. IInv /\ IInv' /\ RInv /\ [Next]_vars => RInv'
  BY NextReview
<1> QED
  BY <1>1, InitReview, Inductive, PTL DEF Spec

\* Two workers never save states of one revision (require_unchanged, save), however the
\* claim is lost, taken over or pushed for late.
THEOREM StatesNeverFork == PromptSave => (Spec => []NeverForked)
<1>1. RInv => NeverForked
  BY DEF RInv, Overall
<1> QED
  BY <1>1, ReviewInductive, PTL

\* The temp branch is at most one fix ahead of the saved state (promote_fix_output).
THEOREM FixesRecorded == PromptSave => (Spec => []RecordFollowsHead)
<1>1. RInv => RecordFollowsHead
  BY DEF RInv, Overall
<1> QED
  BY <1>1, ReviewInductive, PTL

\* What the parent branch got is the head whose review passed
\* (publish_parent_under_claim).
THEOREM OnlyReviewedPublished == PromptSave => (Spec => []PublishedIsReviewed)
<1>1. RInv => PublishedIsReviewed
  BY DEF RInv, Overall
<1> QED
  BY <1>1, ReviewInductive, PTL

-----------------------------------------------------------------------------
(* Launches: for any number of Issues, attempts, faults and operator acts. *)
(* An attempt that its journal calls "prepared" was never started, a saved *)
(* handle of a running execution is the one the cycle holds, and every     *)
(* slot that may have been used is in the parent Issue.                    *)


(* The steps of one launch, and of the launches of a cycle.                *)
Launching == {"reserve", "prepare", "claim", "launching", "start", "mark", "call",
              "answer", "record", "release"}
InHand    == Launching \cup {"settle"}

(* The cycle has one Issue in hand, which it will not visit again.         *)
OneInHand == at \in InHand => \E i \in Issues : me = {i} /\ i \notin todo

(* An attempt was issued before a journal or an execution can name it, and *)
(* what is still "prepared" was never started.                             *)
JournalSound ==
  \A i \in Issues :
    /\ journal[i].phase # "none" => journal[i].gen \in 1 .. gens[i]
    /\ journal[i].phase = "prepared" => calls[i][journal[i].gen] = 0
StartsSound ==
  \A i \in Issues, g \in Gens :
    /\ calls[i][g] > 0 => g <= gens[i]
    /\ alive[i][g] <= calls[i][g]
StartsOnce == \A i \in Issues, g \in Gens : calls[i][g] <= 1

(* A recorded handle names an attempt.                                     *)
Handles(s) == \A i \in Issues : s.active[i].phase = "launched" => s.active[i].gen \in Gens
HandlesSound == Handles(disk) /\ Handles(mem)

(* The saved handle of a running execution is the one the cycle holds.     *)
Runs(i) == disk.active[i].phase = "launched" /\ alive[i][disk.active[i].gen] > 0
RunsHeld == at # "idle" => \A i \in Issues : Runs(i) => mem.active[i] = disk.active[i]

(* What a step may rely on about the Issue in hand and those to come.      *)
EntryInHand ==
  \A i \in me :
    /\ at = "settle" => ~Runs(i)
    /\ at \in {"reserve", "prepare", "claim"} => mem.active[i].phase = "none"
    /\ at = "launching" => disk.active[i].phase = "claimed"
    /\ at \in {"start", "mark", "call", "answer", "record"}
         => disk.active[i].phase = "launching"
JournalInHand ==
  \A i \in me :
    /\ at \in {"claim", "launching", "start", "mark"} => journal[i].phase = "prepared"
    /\ at = "call" => journal[i].phase = "unknown" /\ calls[i][journal[i].gen] = 0
    /\ at = "answer" => journal[i].phase = "unknown"
    /\ at = "record" => journal[i].phase = "launched"
Planned ==
  at \in Launching \cup {"next"} => \A i \in todo : mem.active[i].phase = "none"
SlotSpent ==
  /\ at \in {"mark", "call", "answer", "record"} => committed
  /\ at \in {"reserve", "prepare", "claim", "launching", "start", "release"} => ~committed

(* A confirmed slot that no execution has used, and the slots still wanted.*)
Spare == IF \/ at \in {"prepare", "claim", "launching", "start", "mark", "call", "release"}
            \/ at = "abort" /\ ~committed
         THEN 1 ELSE 0
Wanted == IF at = "reserve" THEN Cardinality(todo) + 1
          ELSE IF at \in Launching \cup {"next"} THEN Cardinality(todo) ELSE 0
SlotsCover == Cardinality(Executions) + Spare <= Total(slots)
SlotsFit   == Total(slots) + Wanted <= MaxLaunches
SlotsSeen  == at \in {"recover", "gc", "settle", "schedule"}
                => \A t \in Times : slots[t] <= mem.history[t]

(* The inductive invariant.                                                *)
Attempts     == JournalSound /\ StartsSound /\ StartsOnce /\ RunningIsJournaled
EntriesSound == HandlesSound /\ RunsHeld /\ EntryInHand /\ Planned
SlotsSound   == SlotsCover /\ SlotsFit /\ SlotsSeen
LaunchInv ==
  /\ LaunchTypes /\ OneInHand /\ SlotSpent
  /\ Attempts /\ JournalInHand /\ EntriesSound /\ SlotsSound

-----------------------------------------------------------------------------
(* Counting launches                                                       *)

LEMMA LaunchesFinite ==
  ASSUME NEW f \in [Times -> Nat]
  PROVE  IsFiniteSet(Launches(f)) /\ Total(f) \in Nat
<1>. DEFINE part == [t \in Times |-> {t} \X (1 .. f[t])]
            parts == {{t} \X (1 .. f[t]) : t \in Times}
<1>1. IsFiniteSet(Times)
  BY LaunchAssumption, FS_Interval DEF Times
<1>2. part \in Surjection(Times, parts)
  BY DEF Surjection
<1>3. IsFiniteSet(parts)
  BY <1>1, <1>2, FS_Surjection
<1>4. ASSUME NEW P \in parts
      PROVE  IsFiniteSet(P)
  <2>1. PICK t \in Times : P = {t} \X (1 .. f[t])
    OBVIOUS
  <2>2. IsFiniteSet({t})
    BY FS_Singleton
  <2>3. f[t] \in Int /\ 1 \in Int
    OBVIOUS
  <2>4. IsFiniteSet(1 .. f[t])
    BY <2>3, FS_Interval
  <2>. QED BY <2>1, <2>2, <2>4, FS_Product
<1>5. IsFiniteSet(UNION parts)
  BY <1>3, <1>4, FS_UNION
<1>. QED BY <1>5, FS_CardinalityType DEF Launches, Total

LEMMA InLaunches ==
  ASSUME NEW f \in [Times -> Nat], NEW x
  PROVE  x \in Launches(f) <=> \E t \in Times : \E n \in 1 .. f[t] : x = <<t, n>>
BY DEF Launches

(* One launch more.                                                        *)
LEMMA OneMore ==
  ASSUME NEW f \in [Times -> Nat], NEW t \in Times, NEW h \in [Times -> Nat],
         h = [f EXCEPT ![t] = @ + 1]
  PROVE  Total(h) = Total(f) + 1
<1>1. h[t] = f[t] + 1 /\ \A u \in Times : u # t => h[u] = f[u]
  OBVIOUS
<1>2. ASSUME NEW x
      PROVE  x \in Launches(h) <=> x \in Launches(f) \/ x = <<t, h[t]>>
  <2>1. ASSUME NEW u \in Times, NEW n \in 1 .. h[u], x = <<u, n>>
        PROVE  x \in Launches(f) \/ x = <<t, h[t]>>
    <3>1. CASE n \in 1 .. f[u]
      BY <2>1, <3>1, InLaunches
    <3>2. CASE n \notin 1 .. f[u]
      <4>1. u = t /\ n = h[t]
        BY <1>1, <3>2
      <4>. QED BY <2>1, <4>1
    <3>. QED BY <3>1, <3>2
  <2>2. ASSUME NEW u \in Times, NEW n \in 1 .. f[u], x = <<u, n>>
        PROVE  x \in Launches(h)
    <3>1. n \in 1 .. h[u]
      BY <1>1
    <3>. QED BY <2>2, <3>1, InLaunches
  <2>3. h[t] \in 1 .. h[t]
    BY <1>1
  <2>4. <<t, h[t]>> \in Launches(h)
    BY <2>3, InLaunches
  <2>5. x \in Launches(h) <=> \E u \in Times : \E n \in 1 .. h[u] : x = <<u, n>>
    BY InLaunches
  <2>6. x \in Launches(f) <=> \E u \in Times : \E n \in 1 .. f[u] : x = <<u, n>>
    BY InLaunches
  <2>. QED BY <2>1, <2>2, <2>4, <2>5, <2>6
<1>3. Launches(h) = Launches(f) \cup {<<t, h[t]>>}
  BY <1>2
<1>4. <<t, h[t]>> \notin Launches(f)
  <2>1. h[t] \notin 1 .. f[t]
    BY <1>1
  <2>. QED BY <2>1, InLaunches
<1>5. IsFiniteSet(Launches(f))
  BY LaunchesFinite
<1>. QED BY <1>3, <1>4, <1>5, FS_AddElement DEF Total

(* One launch less.                                                        *)
LEMMA OneLess ==
  ASSUME NEW f \in [Times -> Nat], NEW t \in Times, f[t] > 0, NEW h,
         h = [f EXCEPT ![t] = @ - 1]
  PROVE  h \in [Times -> Nat] /\ Total(h) = Total(f) - 1
<1>1. h \in [Times -> Nat]
  OBVIOUS
<1>2. f = [h EXCEPT ![t] = @ + 1]
  <2>. DEFINE k == [h EXCEPT ![t] = @ + 1]
  <2>1. k \in [Times -> Nat]
    BY <1>1
  <2>2. ASSUME NEW u \in Times PROVE k[u] = f[u]
    OBVIOUS
  <2>. QED BY <2>1, <2>2
<1>3. Total(f) = Total(h) + 1
  BY <1>1, <1>2, OneMore
<1>4. Total(h) \in Nat
  BY <1>1, LaunchesFinite
<1>. QED BY <1>1, <1>3, <1>4

LEMMA NoMore ==
  ASSUME NEW f \in [Times -> Nat], NEW h \in [Times -> Nat],
         \A t \in Times : f[t] <= h[t]
  PROVE  Total(f) <= Total(h)
<1>1. ASSUME NEW x \in Launches(f)
      PROVE  x \in Launches(h)
  <2>1. PICK t \in Times : \E n \in 1 .. f[t] : x = <<t, n>>
    BY InLaunches
  <2>2. PICK n \in 1 .. f[t] : x = <<t, n>>
    BY <2>1
  <2>3. n \in 1 .. h[t]
    OBVIOUS
  <2>. QED BY <2>2, <2>3, InLaunches
<1>2. Launches(f) \subseteq Launches(h)
  BY <1>1
<1>3. IsFiniteSet(Launches(h))
  BY LaunchesFinite
<1>. QED BY <1>2, <1>3, FS_Subset DEF Total

LEMMA NoLaunches == Total([t \in Times |-> 0]) = 0
<1>. DEFINE z == [t \in Times |-> 0]
<1>1. z \in [Times -> Nat]
  OBVIOUS
<1>2. ASSUME NEW x PROVE x \notin Launches(z)
  <2>1. \A t \in Times : z[t] = 0
    OBVIOUS
  <2>. QED BY <1>1, <2>1, InLaunches
<1>3. Launches(z) = {}
  BY <1>2
<1>. QED BY <1>3, FS_EmptySet DEF Total

LEMMA ExecutionsFinite == IsFiniteSet(Executions) /\ Cardinality(Executions) \in Nat
<1>1. IsFiniteSet(Gens)
  BY LaunchAssumption, FS_Interval DEF Gens
<1>2. IsFiniteSet(Issues \X Gens)
  BY <1>1, LaunchAssumption, FS_Product
<1>3. Executions \subseteq Issues \X Gens
  BY DEF Executions
<1>4. IsFiniteSet(Executions)
  BY <1>2, <1>3, FS_Subset
<1>. QED BY <1>4, FS_CardinalityType

LEMMA OneStart ==
  ASSUME calls \in [Issues -> [Gens -> Nat]], NEW i \in Issues, NEW g \in Gens,
         calls' = [calls EXCEPT ![i][g] = @ + 1]
  PROVE  /\ IsFiniteSet(Executions') /\ Cardinality(Executions') \in Nat
         /\ Cardinality(Executions') <= Cardinality(Executions) + 1
<1>1. \A j \in Issues, h \in Gens :
        calls'[j][h] > 0 <=> calls[j][h] > 0 \/ (j = i /\ h = g)
  OBVIOUS
<1>2. Executions' = Executions \cup {<<i, g>>}
  BY <1>1 DEF Executions
<1>3. IsFiniteSet(Executions) /\ Cardinality(Executions) \in Nat
  BY ExecutionsFinite
<1>4. /\ IsFiniteSet(Executions')
      /\ Cardinality(Executions') = IF <<i, g>> \in Executions THEN Cardinality(Executions)
                                    ELSE Cardinality(Executions) + 1
  BY <1>2, <1>3, FS_AddElement
<1>. QED BY <1>3, <1>4

-----------------------------------------------------------------------------
(* What the helpers of the actions do                                      *)

LEMMA WithEntryIs ==
  ASSUME NEW s \in Ledger, NEW i \in Issues, NEW e \in Entry
  PROVE  LET w == WithEntry(s, i, e)
         IN  /\ w \in Ledger
             /\ w.history = s.history /\ w.released = s.released
             /\ w.active[i] = e
             /\ \A j \in Issues : j # i => w.active[j] = s.active[j]
BY DEF WithEntry, Ledger

LEMMA WithHistoryIs ==
  ASSUME NEW s \in Ledger, NEW h \in [Times -> Nat]
  PROVE  /\ [s EXCEPT !.history = h] \in Ledger
         /\ [s EXCEPT !.history = h].history = h /\ [s EXCEPT !.history = h].active = s.active
BY DEF Ledger

LEMMA BumpedIs ==
  ASSUME NEW f \in [Times -> Nat], now \in Times
  PROVE  /\ Bumped(f) \in [Times -> Nat]
         /\ Total(Bumped(f)) = Total(f) + 1
         /\ \A t \in Times : f[t] <= Bumped(f)[t]
<1>1. Bumped(f) \in [Times -> Nat] /\ \A t \in Times : f[t] <= Bumped(f)[t]
  BY DEF Bumped
<1>. QED BY <1>1, OneMore DEF Bumped

LEMMA EntriesAre ==
  /\ NoEntry \in Entry /\ NoLedger \in Ledger
  /\ \A p \in Entries, g \in Nat : [phase |-> p, gen |-> g] \in Entry
  /\ \A i \in Issues : NoLedger.active[i] = NoEntry
  /\ NoEntry.phase = "none" /\ \A t \in Times : NoLedger.history[t] = 0
BY DEF NoEntry, NoLedger, Entry, Entries, Ledger

LEMMA EntryIs ==
  ASSUME NEW s \in Ledger, NEW i \in Issues
  PROVE  /\ s.active[i] \in Entry
         /\ s.active[i].phase \in Entries /\ s.active[i].gen \in Nat
         /\ s.active[i] = [phase |-> s.active[i].phase, gen |-> s.active[i].gen]
BY DEF Ledger, Entry

LEMMA JournalMarked ==
  ASSUME journal \in [Issues -> Journal], NEW i \in Issues, NEW p \in Phases, NEW new,
         new = [journal EXCEPT ![i].phase = p]
  PROVE  /\ new \in [Issues -> Journal]
         /\ new[i].phase = p /\ new[i].gen = journal[i].gen
         /\ \A j \in Issues : j # i => new[j] = journal[j]
BY DEF Journal

-----------------------------------------------------------------------------
(* Types                                                                   *)

(* What reconciling an Issue may change: its label, its journal from       *)
(* "unknown" to "launched", and the entry that holds the journal's handle. *)
Reconciled(i) ==
  /\ label' \in [Issues -> Labels]
  /\ \/ journal' = journal
     \/ /\ journal[i].phase = "unknown"
        /\ journal' = [journal EXCEPT ![i].phase = "launched"]
  /\ \/ mem' = mem /\ disk' = disk
     \/ /\ journal[i].phase \in {"unknown", "launched"}
        /\ mem' = WithEntry(mem, i, [phase |-> "launched", gen |-> journal[i].gen])
        /\ disk' = mem'
        /\ mem.active[i].phase = "launched" => mem.active[i].gen = journal[i].gen

LEMMA HoldTypes ==
  ASSUME label \in [Issues -> Labels], NEW i \in Issues, Hold(i)
  PROVE  label' \in [Issues -> Labels] /\ mem' = mem /\ disk' = disk
BY DEF Hold, Labels

LEMMA AdoptOrHoldIs ==
  ASSUME label \in [Issues -> Labels], NEW i \in Issues, NEW g, AdoptOrHold(i, g)
  PROVE  /\ label' \in [Issues -> Labels]
         /\ \/ mem' = mem /\ disk' = disk
            \/ /\ mem' = WithEntry(mem, i, [phase |-> "launched", gen |-> g])
               /\ disk' = mem'
               /\ mem.active[i].phase = "launched" => mem.active[i].gen = g
<1>1. CASE mem.active[i].phase = "launched" /\ mem.active[i].gen # g
  BY <1>1, HoldTypes DEF AdoptOrHold
<1>2. CASE ~(mem.active[i].phase = "launched" /\ mem.active[i].gen # g)
  <2>1. AdoptHandle(i, g)
    BY <1>2 DEF AdoptOrHold
  <2>2. label' \in [Issues -> Labels]
    BY <2>1 DEF AdoptHandle, Labels
  <2>. QED BY <1>2, <2>1, <2>2 DEF AdoptHandle
<1>. QED BY <1>1, <1>2

LEMMA ReconcileIs ==
  ASSUME label \in [Issues -> Labels], NEW i \in Issues, Reconcile(i)
  PROVE  Reconciled(i)
<1>. DEFINE g == journal[i].gen
<1>1. CASE UNCHANGED <<label, journal, host>>
  BY <1>1 DEF Reconciled, host
<1>2. CASE journal[i].phase = "launched" /\ AdoptOrHold(i, g) /\ UNCHANGED journal
  BY <1>2, AdoptOrHoldIs DEF Reconciled
<1>3. CASE /\ journal[i].phase = "unknown"
           /\ journal' = [journal EXCEPT ![i].phase = "launched"]
           /\ AdoptOrHold(i, g)
  BY <1>3, AdoptOrHoldIs DEF Reconciled
<1>4. CASE Hold(i) /\ UNCHANGED journal
  BY <1>4, HoldTypes DEF Reconciled
<1>. QED BY <1>1, <1>2, <1>3, <1>4 DEF Reconcile

LEMMA FreeIs ==
  ASSUME slots \in [Times -> Nat], now \in Times, faults \in Nat, Free
  PROVE  /\ slots' \in [Times -> Nat] /\ faults' \in Nat
         /\ slots' = slots \/ (~committed /\ slots[now] > 0 /\ slots' = [slots EXCEPT ![now] = @ - 1])
BY LaunchAssumption DEF Free, Freed, Fault

LEMMA RelabelIs ==
  ASSUME label \in [Issues -> Labels], NEW i \in Issues, NEW l \in Labels
  PROVE  Relabel(i, l) \in [Issues -> Labels]
BY DEF Relabel

LEMMA UnknownIs ==
  ASSUME mem \in Ledger, now \in Times, Unknown
  PROVE  /\ mem' \in Ledger /\ mem'.active = mem.active /\ disk' = disk
         /\ mem'.history = Bumped(mem.history)
         /\ at' = "next" /\ me' = {} /\ todo' = todo /\ now' = now
<1>1. Bumped(mem.history) \in [Times -> Nat]
  BY BumpedIs DEF Ledger
<1>2. mem' = [mem EXCEPT !.history = Bumped(mem.history)]
  BY DEF Unknown, Ledger
<1>. QED BY <1>1, <1>2, WithHistoryIs DEF Unknown, Skip

LEMMA OneMoreCall ==
  ASSUME NEW f \in [Issues -> [Gens -> Nat]], NEW i \in Issues, NEW g
  PROVE  [f EXCEPT ![i][g] = @ + 1] \in [Issues -> [Gens -> Nat]]
<1>. DEFINE row == [f[i] EXCEPT ![g] = @ + 1]
<1>1. row \in [Gens -> Nat]
  <2>1. CASE g \in Gens
    BY <2>1
  <2>2. CASE g \notin Gens
    <3>1. row = f[i]
      BY <2>2
    <3>. QED BY <3>1
  <2>. QED BY <2>1, <2>2
<1>2. [f EXCEPT ![i][g] = @ + 1] = [f EXCEPT ![i] = row]
  OBVIOUS
<1>. HIDE DEF row
<1>3. [f EXCEPT ![i] = row] \in [Issues -> [Gens -> Nat]]
  BY <1>1
<1>. QED BY <1>2, <1>3

(* The run state with a launch and its handle.                             *)
Recorded(i, e) == [WithEntry(mem, i, e) EXCEPT !.history = Bumped(@)]

LEMMA RecordedIs ==
  ASSUME mem \in Ledger, now \in Times, NEW i \in Issues, NEW e \in Entry
  PROVE  /\ Recorded(i, e) \in Ledger /\ Recorded(i, e).history = Bumped(mem.history)
         /\ Recorded(i, e).active[i] = e
         /\ \A j \in Issues : j # i => Recorded(i, e).active[j] = mem.active[j]
<1>. DEFINE new == Recorded(i, e)
<1>. DEFINE w == WithEntry(mem, i, e)
<1>1. /\ w \in Ledger /\ w.history = mem.history
      /\ w.active[i] = e /\ \A j \in Issues : j # i => w.active[j] = mem.active[j]
  BY WithEntryIs
<1>2. Bumped(w.history) \in [Times -> Nat]
  BY <1>1, BumpedIs DEF Ledger
<1>3. new = [w EXCEPT !.history = Bumped(w.history)]
  BY <1>1 DEF Ledger, Recorded
<1>. HIDE DEF w, new
<1>4. new \in Ledger /\ new.history = Bumped(w.history) /\ new.active = w.active
  <2>. DEFINE h == Bumped(w.history)
  <2>1. w \in Ledger /\ h \in [Times -> Nat] /\ new = [w EXCEPT !.history = h]
    BY <1>1, <1>2, <1>3
  <2>. HIDE DEF h
  <2>2. new \in Ledger /\ new.history = h /\ new.active = w.active
    BY <2>1 DEF Ledger
  <2>. QED BY <2>2 DEF h
<1>. QED BY <1>1, <1>4 DEF new

LEMMA LaunchTypesHold ==
  ASSUME LaunchTypes, HandlesSound, LaunchNext
  PROVE  LaunchTypes'
<1>. USE LaunchAssumption DEF LaunchTypes
<1>0. /\ me \subseteq Issues /\ todo \subseteq Issues /\ now \in Times
      /\ disk \in Ledger /\ mem \in Ledger /\ disk.history \in [Times -> Nat]
      /\ mem.history \in [Times -> Nat] /\ 1 \in Times
  BY DEF Ledger, Times
<1>1. CASE StartCycle
  <2>1. now < MaxTime => now + 1 \in Times
    BY <1>0 DEF Times
  <2>. QED BY <1>0, <1>1, <2>1 DEF StartCycle, forge, provider, bounds, CycleSteps
<1>1a. CASE Recovered \/ GcDone \/ CommitLaunch
  BY <1>0, <1>1a DEF Recovered, GcDone, CommitLaunch, StepTo, forge, provider, host, bounds,
                     CycleSteps
<1>1b. CASE EndCycle \/ Crash
  <2>1. mem' \in Ledger /\ disk' \in Ledger
    BY <1>0, <1>1b, EntriesAre DEF EndCycle, Crash
  <2>. QED BY <1>0, <1>1b, <2>1 DEF EndCycle, Crash, Fault, forge, provider, CycleSteps
<1>2. CASE RecoverHistory
  <2>1. Merged(mem.history, slots) \in [Times -> Nat]
    BY <1>0 DEF Merged
  <2>2. [mem EXCEPT !.history = Merged(mem.history, slots)] \in Ledger
    BY <2>1, <1>0, WithHistoryIs
  <2>. QED BY <1>0, <1>2, <2>2 DEF RecoverHistory, forge, provider, bounds, CycleSteps
<1>3. ASSUME NEW i \in Issues, RecoverIssue(i) PROVE LaunchTypes'
  <2>1. /\ UNCHANGED <<slots, provider, at, me, now, committed, bounds>>
        /\ todo' = todo \ {i}
    BY <1>3 DEF RecoverIssue
  <2>2. label' \in [Issues -> Labels] /\ Reconciled(i)
    <3>1. CASE Reconcile(i)
      BY <3>1, ReconcileIs DEF Reconciled
    <3>2. CASE ~Reconcile(i)
      BY <1>3, <3>2 DEF RecoverIssue, Reconciled, host, Labels
    <3>. QED BY <3>1, <3>2
  <2>3. journal' \in [Issues -> Journal]
    BY <2>2, JournalMarked DEF Reconciled, Phases
  <2>4. journal[i].gen \in Nat
    BY DEF Journal
  <2>5. [phase |-> "launched", gen |-> journal[i].gen] \in Entry
    BY <2>4, EntriesAre DEF Entries
  <2>6. mem' \in Ledger /\ disk' \in Ledger
    BY <1>0, <2>2, <2>5, WithEntryIs DEF Reconciled
  <2>. QED BY <2>1, <2>2, <2>3, <2>6 DEF provider, bounds
<1>4. ASSUME NEW i \in Issues, GcHold(i) \/ GcReclaim(i) \/ GcKeep(i) \/ PlanNext(i)
      PROVE  LaunchTypes'
  BY <1>0, <1>4 DEF GcHold, GcReclaim, GcKeep, PlanNext, forge, provider, host, bounds,
                    CycleSteps, Labels
<1>5. ASSUME NEW i \in Issues, GcStale(i) PROVE LaunchTypes'
  <2>1. mem' \in Ledger
    BY <1>0, <1>5, EntriesAre, WithEntryIs DEF GcStale
  <2>. QED BY <1>0, <1>5, <2>1 DEF GcStale, forge, provider, bounds
<1>6. CASE GcSettle
  <2>1. PICK i \in me : mem' = WithEntry(mem, i, NoEntry)
    BY <1>6 DEF GcSettle
  <2>2. mem' \in Ledger
    BY <1>0, <2>1, EntriesAre, WithEntryIs
  <2>. QED BY <1>0, <1>6, <2>2 DEF GcSettle, Fault, forge, provider, CycleSteps
<1>7. CASE Schedule
  BY <1>0, <1>7 DEF Schedule, Candidates, forge, provider, host, bounds, CycleSteps
<1>8. CASE Reserve
  <2>1. Bumped(slots) \in [Times -> Nat]
    BY <1>0, BumpedIs
  <2>. QED BY <1>0, <1>8, <2>1 DEF Reserve, StepTo, Skip, Fault, provider, host, CycleSteps
<1>9. CASE PrepareRefused
  <2>1. PICK i \in me : /\ \/ UNCHANGED <<label, journal, host>>
                           \/ Reconcile(i)
                        /\ StepTo("release")
                        /\ UNCHANGED <<slots, provider, committed, bounds>>
    BY <1>9 DEF PrepareRefused
  <2>2. label' \in [Issues -> Labels] /\ Reconciled(i)
    BY <1>0, <2>1, ReconcileIs DEF Reconciled, host
  <2>3. journal' \in [Issues -> Journal]
    BY <1>0, <2>2, JournalMarked DEF Reconciled, Phases
  <2>4. journal[i].gen \in Nat
    BY <1>0 DEF Journal
  <2>5. [phase |-> "launched", gen |-> journal[i].gen] \in Entry
    BY <2>4, EntriesAre DEF Entries
  <2>6. mem' \in Ledger /\ disk' \in Ledger
    BY <1>0, <2>2, <2>5, WithEntryIs DEF Reconciled
  <2>. QED BY <2>1, <2>2, <2>3, <2>6 DEF StepTo, provider, bounds, CycleSteps
<1>10. CASE PrepareResumed \/ PrepareSpent
  BY <1>0, <1>10 DEF PrepareResumed, PrepareSpent, StepTo, forge, provider, host, bounds,
                     CycleSteps
<1>11. CASE PrepareNew
  <2>1. PICK i \in me :
          /\ gens[i] < MaxAttempts /\ gens' = [gens EXCEPT ![i] = @ + 1]
          /\ journal' \in {journal,
                [journal EXCEPT ![i] = [phase |-> "prepared", gen |-> gens[i] + 1]]}
    BY <1>11 DEF PrepareNew
  <2>2. gens' \in [Issues -> 0 .. MaxAttempts]
    BY <1>0, <2>1
  <2>3. [phase |-> "prepared", gen |-> gens[i] + 1] \in Journal
    BY <1>0, <2>1 DEF Journal, Phases
  <2>4. journal' \in [Issues -> Journal]
    BY <2>1, <2>3
  <2>. QED BY <1>0, <1>11, <2>2, <2>4 DEF PrepareNew, StepTo, Fault, provider, host, CycleSteps
<1>12. CASE Claim
  <2>1. PICK i \in me :
          /\ \/ UNCHANGED host
             \/ /\ disk' = WithEntry(disk, i, [phase |-> "claimed", gen |-> 0])
                /\ mem' = WithEntry(mem, i, [phase |-> "claimed", gen |-> 0])
          /\ label' \in {label, [label EXCEPT ![i] = "in-progress"], Relabel(i, "blocked")}
    BY <1>12 DEF Claim
  <2>2. [phase |-> "claimed", gen |-> 0] \in Entry
    BY EntriesAre DEF Entries
  <2>3. mem' \in Ledger /\ disk' \in Ledger
    BY <1>0, <2>1, <2>2, WithEntryIs DEF host
  <2>4. label' \in [Issues -> Labels]
    BY <1>0, <2>1, RelabelIs DEF Labels
  <2>5. /\ UNCHANGED <<journal, slots, provider, committed, gens, acts, todo, me, now>>
        /\ at' \in {"launching", "release"} /\ faults' \in Nat
    BY <1>12 DEF Claim, StepTo, Fault
  <2>. QED BY <2>3, <2>4, <2>5 DEF provider, CycleSteps
<1>13. CASE SaveLaunching
  <2>1. PICK i \in me :
          \/ UNCHANGED host
          \/ /\ mem' = WithEntry(mem, i, [phase |-> "launching", gen |-> 0])
             /\ disk' = mem'
    BY <1>13 DEF SaveLaunching
  <2>2. [phase |-> "launching", gen |-> 0] \in Entry
    BY EntriesAre DEF Entries
  <2>3. mem' \in Ledger /\ disk' \in Ledger
    BY <1>0, <2>1, <2>2, WithEntryIs DEF host
  <2>. QED BY <1>0, <1>13, <2>3 DEF SaveLaunching, StepTo, Fault, forge, provider, CycleSteps
<1>14. CASE FailLaunch
  <2>1. PICK i \in me :
          /\ mem' = WithEntry(mem, i, [phase |-> "failed", gen |-> 0])
          /\ disk' \in {mem', disk}
          /\ label' = Relabel(i, "blocked")
    BY <1>14 DEF FailLaunch
  <2>2. [phase |-> "failed", gen |-> 0] \in Entry
    BY EntriesAre DEF Entries
  <2>3. mem' \in Ledger /\ disk' \in Ledger
    BY <1>0, <2>1, <2>2, WithEntryIs
  <2>4. label' \in [Issues -> Labels]
    BY <1>0, <2>1, RelabelIs DEF Labels
  <2>. QED BY <1>0, <1>14, <2>3, <2>4 DEF FailLaunch, StepTo, Fault, provider, CycleSteps
<1>15. CASE MarkUnknown \/ MarkLaunched
  <2>1. PICK i \in me, p \in {"unknown", "launched"} :
          journal' \in {journal, [journal EXCEPT ![i].phase = p]}
    BY <1>15 DEF MarkUnknown, MarkLaunched
  <2>2. journal' \in [Issues -> Journal]
    <3>1. p \in Phases /\ i \in Issues
      BY <1>0 DEF Phases
    <3>2. [journal EXCEPT ![i].phase = p] \in [Issues -> Journal]
      BY <3>1, JournalMarked
    <3>. QED BY <2>1, <3>2
  <2>3. \/ at' \in {"call", "record"} /\ UNCHANGED <<host, faults, todo, me, now>>
        \/ Unknown /\ faults' \in Nat
    BY <1>15 DEF MarkUnknown, MarkLaunched, StepTo, Fault
  <2>4. UNCHANGED <<label, slots, provider, committed, gens, acts>>
    BY <1>15 DEF MarkUnknown, MarkLaunched
  <2>. QED BY <1>0, <2>2, <2>3, <2>4, UnknownIs DEF provider, host, CycleSteps
<1>16. CASE Call
  <2>1. PICK i \in me :
          \/ /\ calls' = [calls EXCEPT ![i][journal[i].gen] = @ + 1]
             /\ alive' = [alive EXCEPT ![i][journal[i].gen] = @ + 1]
          \/ UNCHANGED provider
    BY <1>16 DEF Call
  <2>2. calls' \in [Issues -> [Gens -> Nat]] /\ alive' \in [Issues -> [Gens -> Nat]]
    <3>1. i \in Issues
      BY <1>0
    <3>2. /\ [calls EXCEPT ![i][journal[i].gen] = @ + 1] \in [Issues -> [Gens -> Nat]]
          /\ [alive EXCEPT ![i][journal[i].gen] = @ + 1] \in [Issues -> [Gens -> Nat]]
      BY <3>1, OneMoreCall
    <3>. QED BY <2>1, <3>2 DEF provider
  <2>3. \/ at' = "answer" /\ UNCHANGED <<host, faults, todo, me, now>>
        \/ Unknown /\ faults' \in Nat
    BY <1>16 DEF Call, StepTo, Fault
  <2>4. UNCHANGED <<forge, committed, gens, acts>>
    BY <1>16 DEF Call
  <2>. QED BY <1>0, <2>2, <2>3, <2>4, UnknownIs DEF forge, host, CycleSteps
<1>17. CASE Record
  <2>1. PICK i \in me :
          \/ /\ mem' = Recorded(i, [phase |-> "launched", gen |-> journal[i].gen])
             /\ disk' = mem' /\ label' = Relabel(i, "in-progress") /\ Skip /\ UNCHANGED faults
          \/ Fault /\ StepTo("abort") /\ UNCHANGED <<label, host>>
    BY <1>17 DEF Record, Recorded
  <2>2. journal[i].gen \in Nat
    BY <1>0 DEF Journal
  <2>3. [phase |-> "launched", gen |-> journal[i].gen] \in Entry
    BY <2>2, EntriesAre DEF Entries
  <2>8. mem' \in Ledger /\ disk' \in Ledger
    BY <1>0, <2>1, <2>3, RecordedIs DEF host
  <2>9. label' \in [Issues -> Labels]
    BY <1>0, <2>1, RelabelIs DEF Labels
  <2>10. UNCHANGED <<journal, slots, provider, committed, gens, acts>>
    BY <1>17 DEF Record
  <2>. QED BY <1>0, <2>1, <2>8, <2>9, <2>10 DEF StepTo, Skip, Fault, provider, CycleSteps
<1>18. CASE ReleaseSlot \/ Abort
  <2>1. slots' \in [Times -> Nat] /\ faults' \in Nat
    BY <1>18, FreeIs DEF ReleaseSlot, Abort
  <2>. QED BY <1>0, <1>18, <2>1, EntriesAre DEF ReleaseSlot, Abort, Skip, provider, host, CycleSteps
<1>19. CASE LoseState
  BY <1>0, <1>19, EntriesAre DEF LoseState, Act, forge, provider, cycle
<1>20. ASSUME NEW i \in Issues, Stop(i) \/ Requeue(i) PROVE LaunchTypes'
  BY <1>0, <1>20 DEF Stop, Requeue, Act, provider, host, cycle, Labels
<1>21. ASSUME NEW i \in Issues, RemoveJournal(i) PROVE LaunchTypes'
  <2>1. NoJournal \in Journal
    BY DEF NoJournal, Journal, Phases
  <2>. QED BY <1>0, <1>21, <2>1 DEF RemoveJournal, Act, provider, host, cycle
<1>22. ASSUME NEW i \in Issues, OperatorRelease(i) PROVE LaunchTypes'
  <2>. DEFINE w == WithEntry(disk, i, NoEntry)
  <2>1. w \in Ledger
    BY <1>0, EntriesAre, WithEntryIs
  <2>2. disk.active[i].gen \in Gens
    BY <1>22 DEF OperatorRelease, HandlesSound, Handles
  <2>. DEFINE free == w.released \cup {<<i, disk.active[i].gen>>}
  <2>3. [w EXCEPT !.released = @ \cup {<<i, disk.active[i].gen>>}] \in Ledger
    <3>1. free \in SUBSET (Issues \X Gens)
      BY <2>1, <2>2 DEF Ledger
    <3>2. [w EXCEPT !.released = @ \cup {<<i, disk.active[i].gen>>}] = [w EXCEPT !.released = free]
      BY <2>1 DEF Ledger
    <3>. HIDE DEF free, w
    <3>3. [w EXCEPT !.released = free] \in Ledger
      BY <2>1, <3>1 DEF Ledger
    <3>. QED BY <3>2, <3>3
  <2>4. disk' \in Ledger
    BY <1>22, <2>3 DEF OperatorRelease
  <2>. QED BY <1>0, <1>22, <2>4 DEF OperatorRelease, Act, forge, provider, cycle
<1>23. ASSUME NEW i \in Issues, NEW g \in Gens, Finish(i, g) PROVE LaunchTypes'
  <2>1. alive' \in [Issues -> [Gens -> Nat]]
    BY <1>23 DEF Finish
  <2>. QED BY <1>0, <1>23, <2>1 DEF Finish, forge, host, cycle, bounds
<1>. QED BY <1>1, <1>1a, <1>1b, <1>2, <1>3, <1>4, <1>5, <1>6, <1>7, <1>8, <1>9, <1>10, <1>11,
            <1>12, <1>13, <1>14, <1>15, <1>16, <1>17, <1>18, <1>19, <1>20, <1>21, <1>22, <1>23
         DEF LaunchNext, CycleStep, Environment

-----------------------------------------------------------------------------
(* The Issue in hand and its slot                                          *)

LEMMA ControlHolds ==
  ASSUME LaunchTypes, OneInHand, SlotSpent, LaunchNext
  PROVE  OneInHand' /\ SlotSpent'
<1>. USE DEF OneInHand, SlotSpent, InHand, Launching
<1>1. CASE \/ StartCycle \/ RecoverHistory \/ Recovered \/ GcSettle \/ GcDone \/ Schedule
           \/ EndCycle \/ ReleaseSlot \/ Abort \/ Crash
  <2>1. at' \in {"history", "recover", "gc", "schedule", "next", "idle"}
    BY <1>1 DEF StartCycle, RecoverHistory, Recovered, GcSettle, GcDone, Schedule, EndCycle,
                ReleaseSlot, Abort, Crash, Skip
  <2>. QED BY <2>1
<1>2. ASSUME NEW i \in Issues, RecoverIssue(i) \/ GcHold(i) \/ GcStale(i) \/ GcKeep(i)
      PROVE  OneInHand' /\ SlotSpent'
  <2>1. at' \in {"recover", "gc"}
    BY <1>2 DEF RecoverIssue, GcHold, GcStale, GcKeep
  <2>. QED BY <2>1
<1>3. ASSUME NEW i \in Issues, GcReclaim(i) \/ PlanNext(i)
      PROVE  OneInHand' /\ SlotSpent'
  BY <1>3 DEF GcReclaim, PlanNext
<1>4. CASE Reserve \/ MarkUnknown \/ Call \/ MarkLaunched \/ Record
  <2>1. \/ at' \in {"next", "abort"}
        \/ /\ at \in InHand /\ me' = me /\ todo' = todo /\ committed' = committed
           /\ \/ at = "reserve" /\ at' = "prepare"
              \/ at \in {"mark", "call", "answer"} /\ at' \in {"call", "answer", "record"}
    BY <1>4 DEF Reserve, MarkUnknown, Call, MarkLaunched, Record, StepTo, Skip, Unknown
  <2>. QED BY <2>1
<1>5. CASE \/ PrepareRefused \/ PrepareResumed \/ PrepareNew \/ PrepareSpent \/ Claim
           \/ SaveLaunching \/ FailLaunch
  <2>1. /\ at \in {"prepare", "claim", "launching", "start"} /\ UNCHANGED <<me, todo, committed>>
        /\ at' \in {"claim", "launching", "start", "release", "abort"}
    BY <1>5 DEF PrepareRefused, PrepareResumed, PrepareNew, PrepareSpent, Claim, SaveLaunching,
                FailLaunch, StepTo
  <2>. QED BY <2>1
<1>6. CASE CommitLaunch
  BY <1>6 DEF CommitLaunch, StepTo
<1>7. CASE UNCHANGED cycle
  BY <1>7 DEF cycle
<1>8. ASSUME NEW i \in Issues,
             \/ Stop(i) \/ Requeue(i) \/ OperatorRelease(i) \/ RemoveJournal(i)
             \/ \E g \in Gens : Finish(i, g)
      PROVE  UNCHANGED cycle
  BY <1>8 DEF Stop, Requeue, OperatorRelease, RemoveJournal, Finish
<1>9. LoseState => UNCHANGED cycle
  BY DEF LoseState
<1>. QED BY <1>1, <1>2, <1>3, <1>4, <1>5, <1>6, <1>7, <1>8, <1>9
         DEF LaunchNext, CycleStep, Environment

-----------------------------------------------------------------------------
(* Journals and executions                                                 *)

(* The steps that leave journals and executions alone.                     *)
LEMMA AttemptsKept ==
  ASSUME Attempts, UNCHANGED <<journal, calls, alive, gens>>
  PROVE  Attempts'
BY DEF Attempts, JournalSound, StartsSound, StartsOnce, RunningIsJournaled

LEMMA GensAre ==
  ASSUME gens \in [Issues -> 0 .. MaxAttempts], NEW i \in Issues
  PROVE  gens[i] \in Nat /\ 1 .. gens[i] \subseteq Gens
BY LaunchAssumption DEF Gens

(* A journal that moves on names the same attempt.                         *)
LEMMA MarkKeepsAttempts ==
  ASSUME LaunchTypes, Attempts, NEW i \in Issues, journal[i].phase # "none",
         NEW p \in {"unknown", "launched"}, journal' = [journal EXCEPT ![i].phase = p],
         UNCHANGED <<calls, alive, gens>>
  PROVE  Attempts' /\ journal'[i].phase = p /\ journal'[i].gen = journal[i].gen
<1>1. /\ journal'[i].phase = p /\ journal'[i].gen = journal[i].gen
      /\ \A j \in Issues : j # i => journal'[j] = journal[j]
  BY JournalMarked DEF LaunchTypes, Phases
<1>2. JournalSound'
  BY <1>1 DEF Attempts, JournalSound
<1>3. StartsSound' /\ StartsOnce'
  BY DEF Attempts, StartsSound, StartsOnce
<1>4. RunningIsJournaled'
  BY <1>1 DEF Attempts, RunningIsJournaled
<1>. QED BY <1>1, <1>2, <1>3, <1>4 DEF Attempts

LEMMA ReconcileKeepsAttempts ==
  ASSUME LaunchTypes, Attempts, NEW i \in Issues, Reconciled(i), UNCHANGED <<provider, gens>>
  PROVE  Attempts'
<1>1. UNCHANGED <<calls, alive, gens>>
  BY DEF provider
<1>2. CASE journal' = journal
  BY <1>1, <1>2, AttemptsKept
<1>3. CASE journal[i].phase = "unknown" /\ journal' = [journal EXCEPT ![i].phase = "launched"]
  BY <1>1, <1>3, MarkKeepsAttempts
<1>. QED BY <1>2, <1>3 DEF Reconciled

(* A new attempt: nothing runs for the Issue, and nothing was started for  *)
(* an attempt of that number.                                              *)
LEMMA NewKeepsAttempts ==
  ASSUME LaunchTypes, Attempts, NEW i \in Issues, journal[i].phase = "none",
         gens[i] < MaxAttempts, gens' = [gens EXCEPT ![i] = @ + 1],
         \/ journal' = journal
         \/ journal' = [journal EXCEPT ![i] = [phase |-> "prepared", gen |-> gens[i] + 1]],
         UNCHANGED <<calls, alive>>
  PROVE  Attempts'
<1>1. /\ gens'[i] = gens[i] + 1 /\ gens[i] \in Nat /\ gens[i] + 1 \in Gens
      /\ \A j \in Issues : gens[j] \in Nat /\ gens'[j] >= gens[j] /\ gens'[j] \in Nat
  BY LaunchAssumption DEF LaunchTypes, Gens
<1>2. /\ \A j \in Issues : j # i => journal'[j] = journal[j]
      /\ \/ journal'[i] = journal[i]
         \/ journal'[i].phase = "prepared" /\ journal'[i].gen = gens[i] + 1
  BY DEF LaunchTypes
<1>3. calls[i][gens[i] + 1] = 0
  BY <1>1 DEF Attempts, StartsSound, LaunchTypes
<1>4. JournalSound'
  <2>1. ASSUME NEW j \in Issues, journal'[j].phase # "none"
        PROVE  journal'[j].gen \in 1 .. gens'[j]
    BY <1>1, <1>2, <2>1 DEF Attempts, JournalSound
  <2>2. ASSUME NEW j \in Issues, journal'[j].phase = "prepared"
        PROVE  calls'[j][journal'[j].gen] = 0
    BY <1>1, <1>2, <1>3, <2>2 DEF Attempts, JournalSound
  <2>. QED BY <2>1, <2>2 DEF JournalSound
<1>5. StartsSound'
  BY <1>1 DEF Attempts, StartsSound, Gens
<1>6. StartsOnce'
  BY DEF Attempts, StartsOnce
<1>7. RunningIsJournaled'
  BY <1>2 DEF Attempts, RunningIsJournaled
<1>. QED BY <1>4, <1>5, <1>6, <1>7 DEF Attempts

(* An execution that ends, or a journal removed once none runs.            *)
LEMMA FinishKeepsAttempts ==
  ASSUME LaunchTypes, Attempts, NEW i \in Issues, NEW g \in Gens, Finish(i, g)
  PROVE  Attempts'
<1>1. UNCHANGED <<journal, calls, gens>>
  BY DEF Finish, forge, bounds
<1>2. \A j \in Issues, h \in Gens : alive'[j][h] <= alive[j][h] /\ alive'[j][h] \in Nat
  BY DEF Finish, LaunchTypes
<1>3. \A j \in Issues, h \in Gens : alive[j][h] \in Nat /\ calls[j][h] \in Nat
  BY DEF LaunchTypes
<1>. QED BY <1>1, <1>2, <1>3
         DEF Attempts, JournalSound, StartsSound, StartsOnce, RunningIsJournaled

LEMMA RemoveKeepsAttempts ==
  ASSUME LaunchTypes, Attempts, NEW i \in Issues, RemoveJournal(i)
  PROVE  Attempts'
<1>1. /\ UNCHANGED <<calls, alive, gens>> /\ alive[i][journal[i].gen] = 0
      /\ journal'[i] = NoJournal /\ \A j \in Issues : j # i => journal'[j] = journal[j]
  BY DEF RemoveJournal, provider, LaunchTypes
<1>2. NoJournal.phase = "none"
  BY DEF NoJournal
<1>3. JournalSound'
  BY <1>1, <1>2 DEF Attempts, JournalSound
<1>4. StartsSound' /\ StartsOnce'
  BY <1>1 DEF Attempts, StartsSound, StartsOnce
<1>5. \A g \in Gens : alive[i][g] = 0
  BY <1>1 DEF Attempts, RunningIsJournaled, LaunchTypes
<1>6. RunningIsJournaled'
  BY <1>1, <1>5 DEF Attempts, RunningIsJournaled
<1>. QED BY <1>3, <1>4, <1>6 DEF Attempts

(* The call of an attempt that was not started.                            *)
LEMMA CallKeepsAttempts ==
  ASSUME LaunchTypes, Attempts, NEW i \in Issues, NEW g \in Gens, g = journal[i].gen,
         journal[i].phase = "unknown", calls[i][g] = 0,
         calls' = [calls EXCEPT ![i][g] = @ + 1], alive' = [alive EXCEPT ![i][g] = @ + 1],
         UNCHANGED <<journal, gens>>
  PROVE  Attempts'
<1>1. /\ calls'[i][g] = 1 /\ alive'[i][g] = alive[i][g] + 1
      /\ \A j \in Issues, h \in Gens : (j # i \/ h # g) => calls'[j][h] = calls[j][h]
                                                       /\ alive'[j][h] = alive[j][h]
  BY DEF LaunchTypes
<1>2. alive[i][g] = 0
  BY DEF Attempts, StartsSound, LaunchTypes
<1>3. JournalSound'
  <2>1. ASSUME NEW j \in Issues, journal[j].phase = "prepared"
        PROVE  calls'[j][journal[j].gen] = 0
    <3>1. j # i /\ journal[j].gen \in Gens /\ calls[j][journal[j].gen] = 0
      BY <2>1, GensAre DEF Attempts, JournalSound, LaunchTypes
    <3>. QED BY <1>1, <3>1
  <2>. QED BY <2>1 DEF Attempts, JournalSound
<1>4. StartsSound'
  <2>1. g <= gens[i]
    BY GensAre DEF Attempts, JournalSound, LaunchTypes
  <2>. QED BY <1>1, <1>2, <2>1 DEF Attempts, StartsSound
<1>5. StartsOnce'
  BY <1>1 DEF Attempts, StartsOnce
<1>6. RunningIsJournaled'
  BY <1>1, <1>2 DEF Attempts, RunningIsJournaled
<1>. QED BY <1>3, <1>4, <1>5, <1>6 DEF Attempts

(* The Issue in hand is the only one.                                      *)
LEMMA TheOne ==
  ASSUME OneInHand, at \in InHand, NEW i \in me
  PROVE  me = {i} /\ i \in Issues /\ i \notin todo
BY DEF OneInHand

JournalSteps == {"claim", "launching", "start", "mark", "call", "answer", "record"}

LEMMA AttemptsHold ==
  ASSUME LaunchTypes, LaunchTypes', OneInHand, OneInHand', Attempts, JournalInHand, LaunchNext
  PROVE  Attempts' /\ JournalInHand'
<1>. DEFINE same == UNCHANGED <<journal, calls, alive, gens>>
<1>0. /\ at' \notin JournalSteps => JournalInHand'
      /\ JournalSteps \subseteq InHand /\ "prepare" \in InHand
  BY DEF JournalInHand, JournalSteps, InHand, Launching
<1>1. CASE \/ StartCycle \/ RecoverHistory \/ Recovered \/ GcSettle \/ GcDone \/ Schedule
           \/ EndCycle \/ Reserve \/ PrepareSpent \/ ReleaseSlot \/ Abort \/ Crash \/ FailLaunch
           \/ LoseState
  <2>1. same
    BY <1>1 DEF StartCycle, RecoverHistory, Recovered, GcSettle, GcDone, Schedule, EndCycle,
                Reserve, PrepareSpent, ReleaseSlot, Abort, Crash, FailLaunch, LoseState,
                forge, provider, bounds
  <2>2. at' \notin JournalSteps
    BY <1>1 DEF StartCycle, RecoverHistory, Recovered, GcSettle, GcDone, Schedule, EndCycle,
                Reserve, PrepareSpent, ReleaseSlot, Abort, Crash, FailLaunch, LoseState,
                StepTo, Skip, cycle, JournalSteps
  <2>. QED BY <1>0, <2>1, <2>2, AttemptsKept
<1>2. ASSUME NEW i \in Issues, GcHold(i) \/ GcReclaim(i) \/ GcStale(i) \/ GcKeep(i) \/ PlanNext(i)
      PROVE  Attempts' /\ JournalInHand'
  <2>1. same
    BY <1>2 DEF GcHold, GcReclaim, GcStale, GcKeep, PlanNext, forge, provider, bounds
  <2>2. at' \notin JournalSteps
    BY <1>2 DEF GcHold, GcReclaim, GcStale, GcKeep, PlanNext, JournalSteps
  <2>. QED BY <1>0, <2>1, <2>2, AttemptsKept
<1>3. ASSUME NEW i \in Issues, RecoverIssue(i)
      PROVE  Attempts' /\ JournalInHand'
  <2>1. UNCHANGED <<provider, gens>> /\ at' \notin JournalSteps
    BY <1>3 DEF RecoverIssue, bounds, JournalSteps
  <2>2. Reconciled(i)
    <3>1. CASE Reconcile(i)
      BY <3>1, ReconcileIs DEF LaunchTypes
    <3>2. CASE ~Reconcile(i)
      BY <1>3, <3>2 DEF RecoverIssue, Reconciled, host, Labels, LaunchTypes
    <3>. QED BY <3>1, <3>2
  <2>. QED BY <1>0, <2>1, <2>2, ReconcileKeepsAttempts
<1>4. CASE PrepareRefused
  <2>1. PICK i \in me : /\ \/ UNCHANGED <<label, journal, host>>
                           \/ Reconcile(i)
                        /\ StepTo("release")
                        /\ UNCHANGED <<slots, provider, committed, bounds>>
    BY <1>4 DEF PrepareRefused
  <2>2. i \in Issues /\ UNCHANGED <<provider, gens>> /\ at' \notin JournalSteps
    BY <2>1 DEF StepTo, JournalSteps, LaunchTypes, bounds
  <2>3. Reconciled(i)
    BY <2>1, <2>2, ReconcileIs DEF Reconciled, host, LaunchTypes
  <2>. QED BY <1>0, <2>2, <2>3, ReconcileKeepsAttempts
<1>5. CASE PrepareResumed
  <2>1. PICK i \in me : at = "prepare" /\ journal[i].phase = "prepared"
    BY <1>5 DEF PrepareResumed, Resumable
  <2>2. same /\ at' = "claim" /\ me' = me
    BY <1>5 DEF PrepareResumed, StepTo, forge, provider, bounds
  <2>3. me = {i}
    BY <1>0, <2>1, TheOne
  <2>4. JournalInHand'
    BY <2>1, <2>2, <2>3 DEF JournalInHand
  <2>. QED BY <2>2, <2>4, AttemptsKept
<1>6. CASE PrepareNew
  <2>. DEFINE written(i) == [journal EXCEPT ![i] = [phase |-> "prepared", gen |-> gens[i] + 1]]
  <2>1. PICK i \in me :
          /\ at = "prepare" /\ journal[i].phase = "none" /\ gens[i] < MaxAttempts
          /\ gens' = [gens EXCEPT ![i] = @ + 1]
          /\ \/ journal' = written(i) /\ StepTo("claim")
             \/ journal' \in {journal, written(i)} /\ StepTo("abort")
    BY <1>6 DEF PrepareNew
  <2>2. i \in Issues /\ me = {i} /\ UNCHANGED <<calls, alive>>
    BY <1>0, <1>6, <2>1, TheOne DEF PrepareNew, provider
  <2>3. Attempts'
    BY <2>1, <2>2, NewKeepsAttempts
  <2>4. CASE at' = "abort"
    BY <1>0, <2>3, <2>4 DEF JournalSteps
  <2>5. CASE journal' = written(i) /\ StepTo("claim")
    <3>1. journal'[i].phase = "prepared" /\ at' = "claim" /\ me' = {i}
      BY <2>2, <2>5 DEF StepTo, LaunchTypes
    <3>. QED BY <2>3, <3>1 DEF JournalInHand
  <2>. QED BY <2>1, <2>4, <2>5 DEF StepTo
<1>7. CASE Claim \/ SaveLaunching
  <2>1. same /\ me' = me
    BY <1>7 DEF Claim, SaveLaunching, StepTo, forge, provider
  <2>2. /\ at \in {"claim", "launching"} /\ at' \in {"launching", "start", "release"}
    BY <1>7 DEF Claim, SaveLaunching, StepTo
  <2>3. JournalInHand'
    BY <2>1, <2>2 DEF JournalInHand
  <2>. QED BY <2>1, <2>3, AttemptsKept
<1>8. CASE CommitLaunch
  <2>1. same /\ me' = me /\ at = "start" /\ at' = "mark"
    BY <1>8 DEF CommitLaunch, StepTo, forge, provider, bounds
  <2>2. JournalInHand'
    BY <2>1 DEF JournalInHand
  <2>. QED BY <2>1, <2>2, AttemptsKept
<1>9. CASE MarkUnknown
  <2>1. PICK i \in me :
          /\ at = "mark"
          /\ journal' \in {journal, [journal EXCEPT ![i].phase = "unknown"]}
          /\ \/ journal' = [journal EXCEPT ![i].phase = "unknown"] /\ StepTo("call")
             \/ at' = "next"
    BY <1>9 DEF MarkUnknown, Unknown, Skip
  <2>2. /\ i \in Issues /\ me = {i} /\ UNCHANGED <<calls, alive, gens>>
        /\ journal[i].phase = "prepared"
    BY <1>0, <1>9, <2>1, TheOne DEF MarkUnknown, provider, JournalInHand, JournalSteps
  <2>3. CASE journal' = journal
    <3>1. at' = "next"
      <4>1. journal[i].phase # "unknown" /\ journal \in [Issues -> Journal]
        BY <2>2 DEF LaunchTypes
      <4>2. [journal EXCEPT ![i].phase = "unknown"] # journal
        BY <2>2, <4>1, JournalMarked DEF Phases
      <4>. QED BY <2>1, <2>3, <4>2
    <3>. QED BY <1>0, <2>2, <2>3, <3>1, AttemptsKept DEF JournalSteps
  <2>4. CASE journal' = [journal EXCEPT ![i].phase = "unknown"]
    <3>1. Attempts' /\ journal'[i].phase = "unknown" /\ journal'[i].gen = journal[i].gen
      BY <2>2, <2>4, MarkKeepsAttempts
    <3>2. calls'[i][journal'[i].gen] = 0
      BY <2>2, <3>1 DEF Attempts, JournalSound
    <3>3. at' = "next" \/ (at' = "call" /\ me' = {i})
      BY <2>1, <2>2 DEF StepTo
    <3>4. JournalInHand'
      BY <1>0, <3>1, <3>2, <3>3 DEF JournalInHand
    <3>. QED BY <3>1, <3>4
  <2>. QED BY <2>1, <2>3, <2>4
<1>10. CASE Call
  <2>1. PICK i \in me :
          /\ at = "call"
          /\ \/ /\ calls' = [calls EXCEPT ![i][journal[i].gen] = @ + 1]
                /\ alive' = [alive EXCEPT ![i][journal[i].gen] = @ + 1]
             \/ UNCHANGED provider
          /\ StepTo("answer") \/ Unknown
    BY <1>10 DEF Call
  <2>2. /\ i \in Issues /\ me = {i} /\ UNCHANGED <<journal, gens>>
        /\ journal[i].phase = "unknown" /\ calls[i][journal[i].gen] = 0
    BY <1>0, <1>10, <2>1, TheOne DEF Call, forge, JournalInHand, JournalSteps
  <2>3. journal[i].gen \in Gens
    BY <2>2, GensAre DEF Attempts, JournalSound, LaunchTypes
  <2>4. Attempts'
    BY <2>1, <2>2, <2>3, CallKeepsAttempts, AttemptsKept DEF provider
  <2>5. at' = "next" \/ (at' = "answer" /\ me' = {i})
    BY <2>1, <2>2 DEF StepTo, Unknown, Skip
  <2>6. JournalInHand'
    BY <1>0, <2>2, <2>5 DEF JournalInHand
  <2>. QED BY <2>4, <2>6
<1>11. CASE MarkLaunched
  <2>1. PICK i \in me :
          /\ at = "answer"
          /\ \/ journal' = journal /\ at' = "next"
             \/ /\ journal' = [journal EXCEPT ![i].phase = "launched"]
                /\ StepTo("record") \/ at' = "next"
    BY <1>11 DEF MarkLaunched, Unknown, Skip
  <2>2. /\ i \in Issues /\ me = {i} /\ UNCHANGED <<calls, alive, gens>>
        /\ journal[i].phase = "unknown"
    BY <1>0, <1>11, <2>1, TheOne DEF MarkLaunched, provider, JournalInHand, JournalSteps
  <2>3. CASE journal' = journal /\ at' = "next"
    BY <1>0, <2>2, <2>3, AttemptsKept DEF JournalSteps
  <2>4. CASE journal' = [journal EXCEPT ![i].phase = "launched"] /\ (StepTo("record") \/ at' = "next")
    <3>1. Attempts' /\ journal'[i].phase = "launched"
      BY <2>2, <2>4, MarkKeepsAttempts
    <3>2. at' = "next" \/ (at' = "record" /\ me' = {i})
      BY <2>2, <2>4 DEF StepTo
    <3>3. JournalInHand'
      BY <1>0, <3>1, <3>2 DEF JournalInHand
    <3>. QED BY <3>1, <3>3
  <2>. QED BY <2>1, <2>3, <2>4
<1>12. CASE Record
  <2>1. same /\ at' \notin JournalSteps
    BY <1>12 DEF Record, provider, StepTo, Skip, JournalSteps
  <2>. QED BY <1>0, <2>1, AttemptsKept
<1>13. ASSUME NEW i \in Issues, Stop(i)
       PROVE  Attempts' /\ JournalInHand'
  <2>1. same /\ UNCHANGED <<at, me>>
    BY <1>13 DEF Stop, provider, cycle
  <2>2. JournalInHand'
    BY <2>1 DEF JournalInHand
  <2>. QED BY <2>1, <2>2, AttemptsKept
<1>14. ASSUME NEW i \in Issues, Requeue(i) \/ OperatorRelease(i)
       PROVE  Attempts' /\ JournalInHand'
  <2>1. same /\ at' = "idle"
    BY <1>14 DEF Requeue, OperatorRelease, forge, provider, cycle
  <2>. QED BY <1>0, <2>1, AttemptsKept DEF JournalSteps
<1>15. ASSUME NEW i \in Issues, RemoveJournal(i)
       PROVE  Attempts' /\ JournalInHand'
  <2>1. at' = "idle"
    BY <1>15 DEF RemoveJournal, cycle
  <2>. QED BY <1>0, <1>15, <2>1, RemoveKeepsAttempts DEF JournalSteps
<1>16. ASSUME NEW i \in Issues, NEW g \in Gens, Finish(i, g)
       PROVE  Attempts' /\ JournalInHand'
  <2>1. UNCHANGED <<journal, calls, at, me>>
    BY <1>16 DEF Finish, forge, cycle
  <2>2. JournalInHand'
    BY <2>1 DEF JournalInHand
  <2>. QED BY <1>16, <2>2, FinishKeepsAttempts
<1>. QED BY <1>1, <1>2, <1>3, <1>4, <1>5, <1>6, <1>7, <1>8, <1>9, <1>10, <1>11, <1>12, <1>13,
            <1>14, <1>15, <1>16 DEF LaunchNext, CycleStep, Environment

-----------------------------------------------------------------------------
(* Saved handles                                                           *)

(* What the cycle holds agrees with the saved handle of what still runs,   *)
(* and such a handle stays.                                                *)
Agree == \A i \in Issues : Runs(i) => mem.active[i] = disk.active[i]
Keep  == \A i \in Issues : Runs(i) => disk'.active[i] = disk.active[i] \/ disk' = NoLedger

LEMMA NotHeldNotRunning ==
  ASSUME RunsHeld, at # "idle", NEW i \in Issues, mem.active[i].phase # "launched"
  PROVE  ~Runs(i)
BY DEF RunsHeld, Runs

(* Nothing starts: what runs did run.                                      *)
LEMMA RunsBefore ==
  ASSUME LaunchTypes, HandlesSound, NEW i \in Issues, disk'.active[i] = disk.active[i],
         \A g \in Gens : alive'[i][g] <= alive[i][g] /\ alive'[i][g] \in Nat
  PROVE  Runs(i)' => Runs(i)
BY DEF Runs, HandlesSound, Handles, LaunchTypes

(* The cycle's entry of one Issue becomes e, and the file gets nothing of  *)
(* it, this entry, or all that the cycle holds.                            *)
LEMMA EntryWritten ==
  ASSUME LaunchTypes, HandlesSound, RunsHeld, at # "idle", NEW i \in Issues, NEW e,
         Runs(i) => disk.active[i] = e,
         e.phase = "launched" => e.gen \in Gens,
         mem'.active[i] = e, \A j \in Issues : j # i => mem'.active[j] = mem.active[j],
         \/ disk'.active = disk.active
         \/ disk'.active = mem'.active
         \/ /\ disk'.active[i] = e
            /\ \A j \in Issues : j # i => disk'.active[j] = disk.active[j],
         alive' = alive
  PROVE  HandlesSound' /\ Agree' /\ Keep
<1>1. HandlesSound'
  BY DEF HandlesSound, Handles
<1>2. ASSUME NEW j \in Issues, Runs(j)'
      PROVE  mem'.active[j] = disk'.active[j]
  <2>1. CASE disk'.active[j] = disk.active[j]
    <3>1. Runs(j)
      BY <1>2, <2>1 DEF Runs
    <3>2. mem.active[j] = disk.active[j]
      BY <3>1 DEF RunsHeld
    <3>. QED BY <2>1, <3>1, <3>2
  <2>2. CASE disk'.active[j] = mem'.active[j]
    BY <2>2
  <2>. QED BY <2>1, <2>2
<1>3. ASSUME NEW j \in Issues, Runs(j)
      PROVE  disk'.active[j] = disk.active[j]
  <2>1. mem.active[j] = disk.active[j]
    BY <1>3 DEF RunsHeld
  <2>. QED BY <1>3, <2>1
<1>. QED BY <1>1, <1>2, <1>3 DEF Agree, Keep

LEMMA ReconcileKeepsHandles ==
  ASSUME LaunchTypes, Attempts, HandlesSound, RunsHeld, at # "idle", NEW i \in Issues,
         Reconciled(i), alive' = alive
  PROVE  /\ HandlesSound' /\ Agree' /\ Keep
         /\ \A j \in Issues : j # i => mem'.active[j] = mem.active[j]
<1>1. CASE mem' = mem /\ disk' = disk
  BY <1>1 DEF HandlesSound, Handles, RunsHeld, Agree, Keep, Runs
<1>2. CASE /\ journal[i].phase \in {"unknown", "launched"}
           /\ mem' = WithEntry(mem, i, [phase |-> "launched", gen |-> journal[i].gen])
           /\ disk' = mem'
           /\ mem.active[i].phase = "launched" => mem.active[i].gen = journal[i].gen
  <2>. DEFINE e == [phase |-> "launched", gen |-> journal[i].gen]
  <2>1. journal[i].gen \in Gens /\ journal[i].gen \in Nat
    BY <1>2, GensAre DEF Attempts, JournalSound, LaunchTypes
  <2>2. e \in Entry
    BY <2>1, EntriesAre DEF Entries
  <2>3. mem'.active[i] = e /\ \A j \in Issues : j # i => mem'.active[j] = mem.active[j]
    BY <1>2, <2>2, WithEntryIs DEF LaunchTypes
  <2>4. mem.active[i] = [phase |-> mem.active[i].phase, gen |-> mem.active[i].gen]
    BY EntryIs DEF LaunchTypes
  <2>5. Runs(i) => disk.active[i] = e
    BY <1>2, <2>4 DEF RunsHeld, Runs
  <2>6. e.phase = "launched" /\ e.gen = journal[i].gen
    OBVIOUS
  <2>. HIDE DEF e
  <2>. QED BY <1>2, <2>1, <2>3, <2>5, <2>6, EntryWritten
<1>. QED BY <1>1, <1>2 DEF Reconciled

(* Entries and executions stay as they are.                                *)
LEMMA EntriesKept ==
  ASSUME HandlesSound, RunsHeld, at # "idle",
         disk'.active = disk.active, mem'.active = mem.active, alive' = alive
  PROVE  HandlesSound' /\ Agree' /\ Keep
BY DEF HandlesSound, Handles, RunsHeld, Agree, Keep, Runs

(* Between cycles.                                                         *)
LEMMA NothingHeld ==
  ASSUME Handles(disk)', at' = "idle", mem' = NoLedger
  PROVE  HandlesSound' /\ RunsHeld' /\ EntryInHand' /\ Planned'
BY EntriesAre DEF HandlesSound, Handles, RunsHeld, EntryInHand, Planned, Launching

LEMMA AllSaved ==
  ASSUME HandlesSound, RunsHeld, at # "idle", disk'.active = mem.active
  PROVE  Handles(disk)' /\ Keep
BY DEF HandlesSound, Handles, RunsHeld, Keep

LEMMA EntriesHold ==
  ASSUME LaunchTypes, LaunchTypes', OneInHand, OneInHand', Attempts, JournalInHand,
         EntriesSound, LaunchNext
  PROVE  EntriesSound' /\ Keep
<1>. USE DEF EntriesSound
<1>. DEFINE quiet == {"idle", "history", "recover", "gc", "schedule", "abort"}
<1>0. /\ Agree' => RunsHeld'
      /\ at' \in quiet => EntryInHand' /\ Planned'
      /\ at' \in {"next", "release"} => EntryInHand'
      /\ disk \in Ledger /\ mem \in Ledger /\ me \subseteq Issues
  BY DEF Agree, RunsHeld, EntryInHand, Planned, Launching, LaunchTypes
<1>1. CASE StartCycle
  <2>1. mem' = disk /\ disk' = disk /\ at' = "history"
    BY <1>1 DEF StartCycle
  <2>. QED BY <1>0, <2>1 DEF HandlesSound, Handles, Agree, Keep
<1>2. CASE RecoverHistory
  <2>. DEFINE merged == [mem EXCEPT !.history = Merged(mem.history, slots)]
  <2>1. /\ at # "idle" /\ at' = "recover" /\ mem' = merged /\ alive' = alive
        /\ disk' = disk \/ disk' = merged
    BY <1>2 DEF RecoverHistory, provider
  <2>2. Merged(mem.history, slots) \in [Times -> Nat]
    BY DEF Merged, LaunchTypes, Ledger
  <2>3. merged.active = mem.active
    BY <1>0, <2>2, WithHistoryIs
  <2>. HIDE DEF merged
  <2>4. CASE disk' = disk
    BY <1>0, <2>1, <2>3, <2>4, EntriesKept
  <2>5. CASE disk' = merged
    <3>1. Handles(disk)' /\ Keep
      BY <2>1, <2>3, <2>5, AllSaved
    <3>. QED BY <1>0, <2>1, <2>5, <3>1 DEF HandlesSound, Handles, Agree
  <2>. QED BY <2>1, <2>4, <2>5
<1>3. ASSUME NEW i \in Issues, RecoverIssue(i)
      PROVE  EntriesSound' /\ Keep
  <2>1. at = "recover" /\ at' = at /\ alive' = alive
    BY <1>3 DEF RecoverIssue, provider
  <2>2. Reconciled(i)
    <3>1. CASE Reconcile(i)
      BY <3>1, ReconcileIs DEF LaunchTypes
    <3>2. CASE ~Reconcile(i)
      BY <1>3, <3>2 DEF RecoverIssue, Reconciled, host, Labels, LaunchTypes
    <3>. QED BY <3>1, <3>2
  <2>. QED BY <1>0, <2>1, <2>2, ReconcileKeepsHandles
<1>4. CASE PrepareRefused
  <2>1. PICK i \in me : /\ \/ UNCHANGED <<label, journal, host>>
                           \/ Reconcile(i)
                        /\ at = "prepare" /\ StepTo("release")
                        /\ UNCHANGED <<slots, provider, committed, bounds>>
    BY <1>4 DEF PrepareRefused
  <2>2. i \in Issues /\ i \notin todo
    BY <2>1, TheOne DEF InHand, Launching
  <2>3. Reconciled(i)
    BY <2>1, <2>2, ReconcileIs DEF Reconciled, host, LaunchTypes
  <2>4. at' = "release" /\ todo' = todo /\ alive' = alive
    BY <2>1 DEF StepTo, provider
  <2>5. /\ HandlesSound' /\ Agree' /\ Keep
        /\ \A j \in Issues : j # i => mem'.active[j] = mem.active[j]
    BY <2>1, <2>2, <2>3, <2>4, ReconcileKeepsHandles
  <2>6. Planned'
    BY <2>1, <2>2, <2>4, <2>5 DEF Planned, Launching, LaunchTypes
  <2>. QED BY <1>0, <2>4, <2>5, <2>6
<1>5. CASE Recovered \/ GcDone
  <2>1. at # "idle" /\ at' \in quiet /\ UNCHANGED <<disk, mem, alive>>
    BY <1>5 DEF Recovered, GcDone, provider, host
  <2>. QED BY <1>0, <2>1, EntriesKept
<1>6. ASSUME NEW i \in Issues, GcHold(i) \/ GcKeep(i)
      PROVE  EntriesSound' /\ Keep
  <2>1. at # "idle" /\ at' \in quiet /\ UNCHANGED <<disk, mem, alive>>
    BY <1>6 DEF GcHold, GcKeep, provider, host
  <2>. QED BY <1>0, <2>1, EntriesKept
<1>7. ASSUME NEW i \in Issues, GcReclaim(i)
      PROVE  EntriesSound' /\ Keep
  <2>1. /\ at = "gc" /\ at' = "settle" /\ me' = {i} /\ UNCHANGED <<disk, mem, alive>>
        /\ Orphan(i) \/ Stopped(i)
    BY <1>7 DEF GcReclaim, provider, host
  <2>2. ~Runs(i)
    BY <2>1 DEF Orphan, Stopped, RunsHeld, Runs
  <2>3. EntryInHand' /\ Planned'
    BY <2>1, <2>2 DEF EntryInHand, Planned, Launching, Runs
  <2>. QED BY <1>0, <2>1, <2>3, EntriesKept
<1>8. CASE GcSettle
  <2>1. PICK i \in me : /\ at = "settle" /\ at' = "gc" /\ alive' = alive
                        /\ mem' = WithEntry(mem, i, NoEntry)
                        /\ disk' = mem' \/ disk' = disk
    BY <1>8 DEF GcSettle, provider
  <2>2. i \in Issues /\ ~Runs(i)
    BY <1>0, <2>1 DEF EntryInHand
  <2>3. mem'.active[i] = NoEntry /\ \A j \in Issues : j # i => mem'.active[j] = mem.active[j]
    BY <1>0, <2>1, <2>2, EntriesAre, WithEntryIs
  <2>. QED BY <1>0, <2>1, <2>2, <2>3, EntriesAre, EntryWritten
<1>9. ASSUME NEW i \in Issues, GcStale(i)
      PROVE  EntriesSound' /\ Keep
  <2>1. /\ at = "gc" /\ at' = "gc" /\ alive' = alive /\ disk' = disk
        /\ mem' = WithEntry(mem, i, NoEntry) /\ Stopped(i)
    BY <1>9 DEF GcStale, provider
  <2>2. ~Runs(i)
    BY <2>1 DEF Stopped, RunsHeld, Runs
  <2>3. mem'.active[i] = NoEntry /\ \A j \in Issues : j # i => mem'.active[j] = mem.active[j]
    BY <1>0, <2>1, EntriesAre, WithEntryIs
  <2>. QED BY <1>0, <2>1, <2>2, <2>3, EntriesAre, EntryWritten
<1>10. CASE Schedule
  <2>1. /\ at = "schedule" /\ at' = "next" /\ UNCHANGED <<disk, mem, alive>>
        /\ \A i \in todo' : i \in Issues /\ mem.active[i].phase = "none"
    BY <1>10 DEF Schedule, Candidates, Active, provider, host
  <2>2. Planned'
    BY <2>1 DEF Planned
  <2>. QED BY <1>0, <2>1, <2>2, EntriesKept
<1>11. ASSUME NEW i \in Issues, PlanNext(i)
       PROVE  EntriesSound' /\ Keep
  <2>1. /\ at = "next" /\ at' = "reserve" /\ UNCHANGED <<disk, mem, alive>>
        /\ i \in todo /\ todo' = todo \ {i} /\ me' = {i}
    BY <1>11 DEF PlanNext, provider, host
  <2>2. EntryInHand' /\ Planned'
    BY <2>1 DEF EntryInHand, Planned
  <2>. QED BY <1>0, <2>1, <2>2, EntriesKept
<1>12. CASE EndCycle
  <2>1. /\ at = "next" /\ at' = "idle" /\ mem' = NoLedger
        /\ disk' = mem \/ disk' = disk
    BY <1>12 DEF EndCycle
  <2>2. Handles(disk)' /\ Keep
    BY <2>1, AllSaved DEF HandlesSound, Handles, Keep
  <2>. QED BY <2>1, <2>2, NothingHeld
<1>13. CASE Reserve \/ PrepareResumed \/ PrepareNew \/ PrepareSpent \/ ReleaseSlot
  <2>1. /\ at \in {"reserve", "prepare", "release"} /\ todo' = todo /\ UNCHANGED <<disk, mem, alive>>
        /\ \/ at' \in {"next", "release", "abort"}
           \/ at \in {"reserve", "prepare"} /\ at' \in {"prepare", "claim"} /\ me' = me
    BY <1>13 DEF Reserve, PrepareResumed, PrepareNew, PrepareSpent, ReleaseSlot, StepTo, Skip,
                 provider, host
  <2>2. EntryInHand' /\ Planned'
    BY <2>1 DEF EntryInHand, Planned, Launching
  <2>. QED BY <1>0, <2>1, <2>2, EntriesKept
<1>14. CASE Claim
  <2>. DEFINE e == [phase |-> "claimed", gen |-> 0]
  <2>1. PICK i \in me :
          /\ at = "claim" /\ todo' = todo /\ me' = me /\ alive' = alive
          /\ \/ at' = "release" /\ mem' = mem /\ disk' = disk
             \/ /\ disk' = WithEntry(disk, i, e) /\ mem' = WithEntry(mem, i, e)
                /\ at' \in {"launching", "release"}
    BY <1>14 DEF Claim, StepTo, host, provider
  <2>2. i \in Issues /\ me = {i} /\ i \notin todo /\ ~Runs(i)
    BY <2>1, TheOne, NotHeldNotRunning DEF InHand, Launching, EntryInHand
  <2>3. CASE at' = "release" /\ mem' = mem /\ disk' = disk
    <3>1. Planned'
      BY <2>1, <2>3 DEF Planned, Launching
    <3>. QED BY <1>0, <2>1, <2>3, <3>1, EntriesKept
  <2>4. CASE /\ disk' = WithEntry(disk, i, e) /\ mem' = WithEntry(mem, i, e)
             /\ at' \in {"launching", "release"}
    <3>1. e \in Entry /\ e.phase = "claimed"
      BY EntriesAre DEF Entries
    <3>. HIDE DEF e
    <3>2. /\ mem'.active[i] = e /\ \A j \in Issues : j # i => mem'.active[j] = mem.active[j]
          /\ disk'.active[i] = e /\ \A j \in Issues : j # i => disk'.active[j] = disk.active[j]
      BY <1>0, <2>2, <2>4, <3>1, WithEntryIs
    <3>3. HandlesSound' /\ Agree' /\ Keep
      BY <2>1, <2>2, <3>1, <3>2, EntryWritten
    <3>4. EntryInHand' /\ Planned'
      BY <2>1, <2>2, <2>4, <3>1, <3>2 DEF EntryInHand, Planned, Launching, LaunchTypes
    <3>. QED BY <1>0, <3>3, <3>4
  <2>. QED BY <2>1, <2>3, <2>4
<1>15. CASE SaveLaunching
  <2>. DEFINE e == [phase |-> "launching", gen |-> 0]
  <2>1. PICK i \in me :
          /\ at = "launching" /\ todo' = todo /\ me' = me /\ alive' = alive
          /\ \/ at' = "release" /\ mem' = mem /\ disk' = disk
             \/ mem' = WithEntry(mem, i, e) /\ disk' = mem' /\ at' = "start"
    BY <1>15 DEF SaveLaunching, StepTo, host, provider
  <2>2. i \in Issues /\ me = {i} /\ i \notin todo /\ ~Runs(i)
    BY <2>1, TheOne DEF InHand, Launching, EntryInHand, Runs
  <2>3. CASE at' = "release" /\ mem' = mem /\ disk' = disk
    <3>1. Planned'
      BY <2>1, <2>3 DEF Planned, Launching
    <3>. QED BY <1>0, <2>1, <2>3, <3>1, EntriesKept
  <2>4. CASE mem' = WithEntry(mem, i, e) /\ disk' = mem' /\ at' = "start"
    <3>1. e \in Entry /\ e.phase = "launching"
      BY EntriesAre DEF Entries
    <3>. HIDE DEF e
    <3>2. mem'.active[i] = e /\ \A j \in Issues : j # i => mem'.active[j] = mem.active[j]
      BY <1>0, <2>2, <2>4, <3>1, WithEntryIs
    <3>3. HandlesSound' /\ Agree' /\ Keep
      BY <2>1, <2>2, <2>4, <3>1, <3>2, EntryWritten
    <3>4. EntryInHand' /\ Planned'
      BY <2>1, <2>2, <2>4, <3>1, <3>2 DEF EntryInHand, Planned, Launching, LaunchTypes
    <3>. QED BY <1>0, <3>3, <3>4
  <2>. QED BY <2>1, <2>3, <2>4
<1>16. CASE FailLaunch
  <2>. DEFINE e == [phase |-> "failed", gen |-> 0]
  <2>1. PICK i \in me :
          /\ at = "start" /\ at' = "release" /\ todo' = todo /\ alive' = alive
          /\ mem' = WithEntry(mem, i, e)
          /\ disk' = mem' \/ disk' = disk
    BY <1>16 DEF FailLaunch, StepTo, provider
  <2>2. i \in Issues /\ i \notin todo /\ ~Runs(i)
    BY <2>1, TheOne DEF InHand, Launching, EntryInHand, Runs
  <2>3. e \in Entry /\ e.phase = "failed"
    BY EntriesAre DEF Entries
  <2>. HIDE DEF e
  <2>4. mem'.active[i] = e /\ \A j \in Issues : j # i => mem'.active[j] = mem.active[j]
    BY <1>0, <2>1, <2>2, <2>3, WithEntryIs
  <2>5. HandlesSound' /\ Agree' /\ Keep
    BY <2>1, <2>2, <2>3, <2>4, EntryWritten
  <2>6. Planned'
    BY <2>1, <2>2, <2>4 DEF Planned, Launching, LaunchTypes
  <2>. QED BY <1>0, <2>1, <2>5, <2>6
<1>17. CASE CommitLaunch \/ MarkUnknown \/ MarkLaunched
  <2>1. /\ at \in {"start", "mark", "answer"} /\ todo' = todo
        /\ disk' = disk /\ mem'.active = mem.active /\ alive' = alive
        /\ \/ at' = "next"
           \/ at' \in {"mark", "call", "record"} /\ me' = me
    BY <1>17, UnknownIs DEF CommitLaunch, MarkUnknown, MarkLaunched, StepTo, provider, host,
                            LaunchTypes
  <2>2. EntryInHand' /\ Planned'
    BY <2>1 DEF EntryInHand, Planned, Launching
  <2>. QED BY <1>0, <2>1, <2>2, EntriesKept
<1>18. CASE Call
  <2>1. PICK i \in me :
          /\ at = "call" /\ todo' = todo /\ disk' = disk /\ mem'.active = mem.active
          /\ \/ alive' = [alive EXCEPT ![i][journal[i].gen] = @ + 1]
             \/ alive' = alive
          /\ \/ at' = "next"
             \/ at' = "answer" /\ me' = me
    BY <1>18, UnknownIs DEF Call, StepTo, provider, host, LaunchTypes
  <2>2. i \in Issues /\ disk.active[i].phase = "launching"
    BY <1>0, <2>1 DEF EntryInHand
  <2>3. \A j \in Issues : j # i => alive'[j] = alive[j]
    BY <2>1, <2>2 DEF LaunchTypes
  <2>4. \A j \in Issues : (Runs(j)' => Runs(j)) /\ (Runs(j) => j # i)
    BY <2>1, <2>2, <2>3 DEF Runs
  <2>5. HandlesSound' /\ Agree' /\ Keep
    BY <2>1, <2>4 DEF HandlesSound, Handles, RunsHeld, Agree, Keep
  <2>6. EntryInHand' /\ Planned'
    BY <2>1 DEF EntryInHand, Planned, Launching
  <2>. QED BY <1>0, <2>5, <2>6
<1>19. CASE Record
  <2>1. PICK i \in me :
          /\ at = "record" /\ todo' = todo /\ alive' = alive
          /\ \/ /\ mem' = [WithEntry(mem, i, [phase |-> "launched", gen |-> journal[i].gen])
                             EXCEPT !.history = Bumped(@)]
                /\ disk' = mem' /\ at' = "next"
             \/ at' = "abort" /\ mem' = mem /\ disk' = disk
    BY <1>19 DEF Record, StepTo, Skip, provider, host
  <2>2. CASE at' = "abort" /\ mem' = mem /\ disk' = disk
    BY <1>0, <2>1, <2>2, EntriesKept
  <2>3. CASE /\ mem' = [WithEntry(mem, i, [phase |-> "launched", gen |-> journal[i].gen])
                          EXCEPT !.history = Bumped(@)]
             /\ disk' = mem' /\ at' = "next"
    <3>. DEFINE e == [phase |-> "launched", gen |-> journal[i].gen]
    <3>1. i \in Issues /\ i \notin todo /\ ~Runs(i) /\ journal[i].phase = "launched"
      BY <2>1, TheOne DEF InHand, Launching, EntryInHand, JournalInHand, Runs
    <3>2. journal[i].gen \in Gens /\ journal[i].gen \in Nat
      BY <3>1, GensAre DEF Attempts, JournalSound, LaunchTypes
    <3>3. e \in Entry /\ e.gen \in Gens
      BY <3>2, EntriesAre DEF Entries
    <3>4. mem' = Recorded(i, e)
      BY <2>3 DEF Recorded
    <3>. HIDE DEF e
    <3>5. mem'.active[i] = e /\ \A j \in Issues : j # i => mem'.active[j] = mem.active[j]
        BY <3>1, <3>3, <3>4, RecordedIs DEF LaunchTypes
    <3>6. HandlesSound' /\ Agree' /\ Keep
      BY <2>1, <2>3, <3>1, <3>3, <3>5, EntryWritten
    <3>7. Planned'
      BY <2>1, <2>3, <3>1, <3>5 DEF Planned, Launching, LaunchTypes
    <3>. QED BY <1>0, <2>3, <3>6, <3>7
  <2>. QED BY <2>1, <2>2, <2>3
<1>20. CASE Abort \/ Crash
  <2>1. disk' = disk /\ at' = "idle" /\ mem' = NoLedger
    BY <1>20 DEF Abort, Crash
  <2>2. Handles(disk)' /\ Keep
    BY <2>1 DEF HandlesSound, Handles, Keep
  <2>. QED BY <2>1, <2>2, NothingHeld
<1>21. ASSUME NEW i \in Issues, Stop(i) \/ Requeue(i) \/ RemoveJournal(i)
       PROVE  EntriesSound' /\ Keep
  <2>1. UNCHANGED <<disk, mem, alive, at, todo, me>>
    BY <1>21 DEF Stop, Requeue, RemoveJournal, provider, host, cycle
  <2>. QED BY <2>1 DEF HandlesSound, Handles, RunsHeld, Runs, EntryInHand, Planned, Keep
<1>22. CASE LoseState
  <2>1. at' = "idle" /\ mem' = mem /\ disk' = NoLedger
    BY <1>22 DEF LoseState, cycle
  <2>2. HandlesSound'
    BY <2>1, EntriesAre DEF HandlesSound, Handles
  <2>. QED BY <1>0, <2>1, <2>2 DEF RunsHeld, Keep
<1>23. ASSUME NEW i \in Issues, OperatorRelease(i)
       PROVE  EntriesSound' /\ Keep
  <2>. DEFINE w == WithEntry(disk, i, NoEntry)
  <2>1. /\ at' = "idle" /\ mem' = mem /\ alive[i][disk.active[i].gen] = 0
        /\ disk' = [w EXCEPT !.released = @ \cup {<<i, disk.active[i].gen>>}]
    BY <1>23 DEF OperatorRelease, cycle
  <2>2. /\ w \in Ledger
        /\ w.active[i] = NoEntry /\ \A j \in Issues : j # i => w.active[j] = disk.active[j]
    BY <1>0, EntriesAre, WithEntryIs
  <2>. HIDE DEF w
  <2>3. disk'.active = w.active
    BY <2>1, <2>2 DEF Ledger
  <2>4. HandlesSound'
    BY <2>1, <2>2, <2>3, EntriesAre DEF HandlesSound, Handles
  <2>5. Keep
    BY <2>1, <2>2, <2>3 DEF Keep, Runs
  <2>. QED BY <1>0, <2>1, <2>4, <2>5 DEF RunsHeld
<1>24. ASSUME NEW i \in Issues, NEW g \in Gens, Finish(i, g)
       PROVE  EntriesSound' /\ Keep
  <2>1. UNCHANGED <<disk, mem, at, todo, me>>
    BY <1>24 DEF Finish, host, cycle
  <2>2. \A j \in Issues, h \in Gens : alive'[j][h] <= alive[j][h] /\ alive'[j][h] \in Nat
    BY <1>24 DEF Finish, LaunchTypes
  <2>3. \A j \in Issues : Runs(j)' => Runs(j)
    BY <2>1, <2>2, RunsBefore
  <2>. QED BY <1>0, <2>1, <2>3 DEF HandlesSound, Handles, RunsHeld, EntryInHand, Planned, Keep
<1>. QED BY <1>1, <1>2, <1>3, <1>4, <1>5, <1>6, <1>7, <1>8, <1>9, <1>10, <1>11, <1>12, <1>13,
            <1>14, <1>15, <1>16, <1>17, <1>18, <1>19, <1>20, <1>21, <1>22, <1>23, <1>24
         DEF LaunchNext, CycleStep, Environment

-----------------------------------------------------------------------------
(* Slots                                                                   *)

Looking == {"recover", "gc", "settle", "schedule"}

LEMMA SizesAre ==
  ASSUME LaunchTypes
  PROVE  /\ Cardinality(Executions) \in Nat /\ Total(slots) \in Nat
         /\ IsFiniteSet(todo) /\ Cardinality(todo) \in Nat
         /\ Spare \in {0, 1} /\ Wanted \in Nat /\ MaxLaunches \in Nat
<1>1. Cardinality(Executions) \in Nat /\ Total(slots) \in Nat
  BY ExecutionsFinite, LaunchesFinite DEF LaunchTypes
<1>2. IsFiniteSet(todo)
  BY LaunchAssumption, FS_Subset DEF LaunchTypes
<1>3. Cardinality(todo) \in Nat
  BY <1>2, FS_CardinalityType
<1>. QED BY <1>1, <1>2, <1>3, LaunchAssumption DEF Spare, Wanted

(* No slot and no execution more, and no more slots spare or wanted.       *)
LEMMA SlotsKept ==
  ASSUME LaunchTypes, LaunchTypes', SlotsSound, UNCHANGED <<slots, calls>>,
         Spare' <= Spare, Wanted' <= Wanted,
         at' \in Looking => \A t \in Times : slots[t] <= mem'.history[t]
  PROVE  SlotsSound'
<1>1. Executions' = Executions /\ Total(slots') = Total(slots)
  BY DEF Executions
<1>2. Spare' \in {0, 1} /\ Wanted' \in Nat
  <2>1. Cardinality(todo') \in Nat
    <3>1. IsFiniteSet(todo')
      BY LaunchAssumption, FS_Subset DEF LaunchTypes
    <3>. QED BY <3>1, FS_CardinalityType
  <2>. QED BY <2>1 DEF Spare, Wanted
<1>3. SlotsCover'
  BY <1>1, <1>2, SizesAre DEF SlotsSound, SlotsCover
<1>4. SlotsFit'
  BY <1>1, <1>2, SizesAre DEF SlotsSound, SlotsFit
<1>5. SlotsSeen'
  BY DEF SlotsSeen, Looking
<1>. QED BY <1>3, <1>4, <1>5 DEF SlotsSound

LEMMA ReconcileKeepsHistory ==
  ASSUME LaunchTypes, NEW i \in Issues, Reconciled(i)
  PROVE  mem'.history = mem.history
<1>1. CASE mem' = mem
  BY <1>1
<1>2. CASE mem' = WithEntry(mem, i, [phase |-> "launched", gen |-> journal[i].gen])
  <2>1. journal[i].gen \in Nat
    BY DEF LaunchTypes, Journal
  <2>2. [phase |-> "launched", gen |-> journal[i].gen] \in Entry
    BY <2>1, EntriesAre DEF Entries
  <2>. QED BY <1>2, <2>2, WithEntryIs DEF LaunchTypes
<1>. QED BY <1>1, <1>2 DEF Reconciled

LEMMA SlotsHold ==
  ASSUME LaunchTypes, LaunchTypes', OneInHand, SlotSpent, Attempts, JournalInHand,
         SlotsSound, LaunchNext
  PROVE  SlotsSound'
<1>. DEFINE T == Total(slots)
            E == Cardinality(Executions)
            C == Cardinality(todo)
<1>0. /\ E \in Nat /\ T \in Nat /\ IsFiniteSet(todo) /\ C \in Nat
      /\ Spare \in {0, 1} /\ Wanted \in Nat /\ MaxLaunches \in Nat
      /\ E + Spare <= T /\ T + Wanted <= MaxLaunches
      /\ at \in Looking => \A t \in Times : slots[t] <= mem.history[t]
  BY SizesAre DEF SlotsSound, SlotsCover, SlotsFit, SlotsSeen, Looking
<1>1. CASE StartCycle \/ EndCycle \/ Crash
  <2>1. UNCHANGED <<slots, calls>> /\ at' \in {"history", "idle"}
    BY <1>1 DEF StartCycle, EndCycle, Crash, forge, provider
  <2>2. Spare' = 0 /\ Wanted' = 0 /\ at' \notin Looking
    BY <2>1 DEF Spare, Wanted, Launching, Looking
  <2>. QED BY <1>0, <2>1, <2>2, SlotsKept
<1>2. CASE RecoverHistory
  <2>1. /\ UNCHANGED <<slots, calls>> /\ at' = "recover"
        /\ mem' = [mem EXCEPT !.history = Merged(mem.history, slots)]
    BY <1>2 DEF RecoverHistory, forge, provider
  <2>2. /\ Merged(mem.history, slots) \in [Times -> Nat]
        /\ \A t \in Times : slots[t] <= Merged(mem.history, slots)[t]
    BY DEF Merged, LaunchTypes, Ledger
  <2>3. mem'.history = Merged(mem.history, slots)
    BY <2>1, <2>2, WithHistoryIs DEF LaunchTypes
  <2>4. Spare' = 0 /\ Wanted' = 0
    BY <2>1 DEF Spare, Wanted, Launching
  <2>. QED BY <1>0, <2>1, <2>2, <2>3, <2>4, SlotsKept
<1>3. ASSUME NEW i \in Issues,
             RecoverIssue(i) \/ GcHold(i) \/ GcKeep(i) \/ GcReclaim(i) \/ GcStale(i)
      PROVE  SlotsSound'
  <2>1. /\ UNCHANGED <<slots, calls>> /\ at \in Looking /\ at' \in Looking
    BY <1>3 DEF RecoverIssue, GcHold, GcKeep, GcReclaim, GcStale, forge, provider, Looking
  <2>2. mem'.history = mem.history
    <3>1. CASE RecoverIssue(i) /\ Reconcile(i)
      BY <3>1, ReconcileIs, ReconcileKeepsHistory DEF LaunchTypes
    <3>2. CASE GcStale(i)
      BY <3>2, EntriesAre, WithEntryIs DEF GcStale, LaunchTypes
    <3>3. CASE ~GcStale(i) /\ ~(RecoverIssue(i) /\ Reconcile(i))
      BY <1>3, <3>3 DEF RecoverIssue, GcHold, GcKeep, GcReclaim, host
    <3>. QED BY <3>1, <3>2, <3>3
  <2>3. Spare' = 0 /\ Wanted' = 0
    BY <2>1 DEF Spare, Wanted, Launching, Looking
  <2>. QED BY <1>0, <2>1, <2>2, <2>3, SlotsKept
<1>4. CASE Recovered \/ GcDone
  <2>1. UNCHANGED <<slots, calls, mem>> /\ at \in Looking /\ at' \in Looking
    BY <1>4 DEF Recovered, GcDone, forge, provider, host, Looking
  <2>2. Spare' = 0 /\ Wanted' = 0
    BY <2>1 DEF Spare, Wanted, Launching, Looking
  <2>. QED BY <1>0, <2>1, <2>2, SlotsKept
<1>5. CASE GcSettle
  <2>1. PICK i \in me : /\ UNCHANGED <<slots, calls>> /\ at = "settle" /\ at' = "gc"
                        /\ mem' = WithEntry(mem, i, NoEntry)
    BY <1>5 DEF GcSettle, forge, provider
  <2>2. mem'.history = mem.history
    BY <2>1, EntriesAre, WithEntryIs DEF LaunchTypes
  <2>3. Spare' = 0 /\ Wanted' = 0
    BY <2>1 DEF Spare, Wanted, Launching
  <2>. QED BY <1>0, <2>1, <2>2, <2>3, SlotsKept DEF Looking
<1>6. CASE Schedule
  <2>1. /\ UNCHANGED <<slots, calls>> /\ at = "schedule" /\ at' = "next"
        /\ todo' \subseteq Issues
        /\ Cardinality(todo') = Smaller(Quota, Cardinality(Candidates))
    BY <1>6 DEF Schedule, Candidates, forge, provider
  <2>2. T <= Total(mem.history) /\ Total(mem.history) \in Nat
    <3>1. slots \in [Times -> Nat] /\ mem.history \in [Times -> Nat]
      BY DEF LaunchTypes, Ledger
    <3>. QED BY <1>0, <2>1, <3>1, NoMore, LaunchesFinite DEF Looking
  <2>3. /\ Cardinality(Active) \in Nat /\ Cardinality(Candidates) \in Nat
    <3>1. IsFiniteSet(Active) /\ IsFiniteSet(Candidates)
      BY LaunchAssumption, FS_Subset DEF Active, Candidates
    <3>. QED BY <3>1, FS_CardinalityType
  <2>4. T + Cardinality(todo') <= MaxLaunches
    BY <1>0, <2>1, <2>2, <2>3, LaunchAssumption DEF Smaller, Quota, Room
  <2>5. SlotsCover'
    <3>1. Executions' = Executions /\ Total(slots') = T /\ Spare' = 0
      BY <2>1 DEF Executions, Spare
    <3>. QED BY <1>0, <3>1 DEF SlotsCover
  <2>6. SlotsFit'
    <3>1. Total(slots') = T /\ Wanted' = Cardinality(todo')
      BY <2>1 DEF Wanted
    <3>. QED BY <2>4, <3>1 DEF SlotsFit
  <2>7. SlotsSeen'
    BY <2>1 DEF SlotsSeen
  <2>. QED BY <2>5, <2>6, <2>7 DEF SlotsSound
<1>7. ASSUME NEW i \in Issues, PlanNext(i)
      PROVE  SlotsSound'
  <2>1. /\ UNCHANGED <<slots, calls>> /\ at = "next" /\ at' = "reserve"
        /\ i \in todo /\ todo' = todo \ {i}
    BY <1>7 DEF PlanNext, forge, provider
  <2>2. Cardinality(todo') = C - 1
    BY <1>0, <2>1, FS_RemoveElement
  <2>3. Spare' = 0 /\ Wanted' = Wanted
    BY <1>0, <2>1, <2>2 DEF Spare, Wanted, Launching
  <2>. QED BY <1>0, <2>1, <2>3, SlotsKept DEF Looking
<1>8. CASE Reserve
  <2>1. /\ at = "reserve" /\ todo' = todo /\ calls' = calls
        /\ at' \in {"prepare", "next"}
        /\ \/ slots' = Bumped(slots)
           \/ slots' = slots /\ at' = "next"
    BY <1>8 DEF Reserve, StepTo, Skip, provider
  <2>2. Total(Bumped(slots)) = T + 1
    BY BumpedIs DEF LaunchTypes
  <2>3. \/ Total(slots') = T + 1
        \/ Total(slots') = T /\ at' = "next"
    BY <2>1, <2>2
  <2>4. /\ Wanted = C + 1 /\ Wanted' = C /\ Spare = 0 /\ Spare' \in {0, 1}
        /\ at' = "next" => Spare' = 0
    BY <2>1 DEF Wanted, Spare, Launching
  <2>5. Executions' = Executions
    BY <2>1 DEF Executions
  <2>6. SlotsCover'
    BY <1>0, <2>3, <2>4, <2>5 DEF SlotsCover
  <2>7. SlotsFit'
    BY <1>0, <2>3, <2>4 DEF SlotsFit
  <2>8. SlotsSeen'
    BY <2>1 DEF SlotsSeen
  <2>. QED BY <2>6, <2>7, <2>8 DEF SlotsSound
<1>9. CASE \/ PrepareRefused \/ PrepareResumed \/ PrepareNew \/ PrepareSpent \/ Claim
           \/ SaveLaunching \/ FailLaunch \/ CommitLaunch
  <2>1. /\ UNCHANGED <<slots, calls>> /\ todo' = todo
        /\ at \in {"prepare", "claim", "launching", "start"}
        /\ at' \in {"claim", "launching", "start", "mark", "release", "abort"}
    BY <1>9 DEF PrepareRefused, PrepareResumed, PrepareNew, PrepareSpent, Claim, SaveLaunching,
                FailLaunch, CommitLaunch, StepTo, forge, provider
  <2>2. Spare = 1 /\ Spare' \in {0, 1} /\ Wanted = C /\ Wanted' \in {0, C}
    BY <2>1 DEF Spare, Wanted, Launching
  <2>. QED BY <1>0, <2>1, <2>2, SlotsKept DEF Looking
<1>10. CASE MarkUnknown \/ MarkLaunched \/ Record
  <2>1. /\ UNCHANGED <<slots, calls>> /\ todo' = todo /\ committed' = committed
        /\ \/ at = "mark" /\ at' \in {"call", "next"}
           \/ at \in {"answer", "record"} /\ at' \in {"record", "next", "abort"} /\ committed
    BY <1>10 DEF MarkUnknown, MarkLaunched, Record, StepTo, Skip, Unknown, provider, SlotSpent
  <2>2. /\ Wanted = C /\ Wanted' \in {0, C} /\ Spare' <= Spare
    BY <2>1 DEF Spare, Wanted, Launching
  <2>. QED BY <1>0, <2>1, <2>2, SlotsKept DEF Looking
<1>11. CASE Call
  <2>1. PICK i \in me :
          /\ at = "call" /\ todo' = todo /\ slots' = slots /\ at' \in {"answer", "next"}
          /\ \/ calls' = [calls EXCEPT ![i][journal[i].gen] = @ + 1]
             \/ calls' = calls
    BY <1>11 DEF Call, StepTo, Skip, Unknown, forge, provider
  <2>2. i \in Issues /\ journal[i].phase = "unknown"
    BY <2>1 DEF JournalInHand, LaunchTypes
  <2>3. journal[i].gen \in Gens
    BY <2>2, GensAre DEF Attempts, JournalSound, LaunchTypes
  <2>4. Cardinality(Executions') \in Nat /\ Cardinality(Executions') <= E + 1
    <3>1. CASE calls' = calls
      <4>1. Executions' = Executions
        BY <3>1 DEF Executions
      <4>. QED BY <1>0, <4>1
    <3>2. CASE calls' = [calls EXCEPT ![i][journal[i].gen] = @ + 1]
      BY <2>2, <2>3, <3>2, OneStart DEF LaunchTypes
    <3>. QED BY <2>1, <3>1, <3>2
  <2>5. Spare = 1 /\ Spare' = 0 /\ Wanted = C /\ Wanted' = C /\ Total(slots') = T
    BY <2>1 DEF Spare, Wanted, Launching
  <2>6. SlotsCover' /\ SlotsFit'
    BY <1>0, <2>4, <2>5 DEF SlotsCover, SlotsFit
  <2>7. SlotsSeen'
    BY <2>1 DEF SlotsSeen
  <2>. QED BY <2>6, <2>7 DEF SlotsSound
<1>12. CASE ReleaseSlot \/ Abort
  <2>1. /\ calls' = calls
        /\ \/ at = "release" /\ at' = "next" /\ todo' = todo
           \/ at = "abort" /\ at' = "idle"
    BY <1>12 DEF ReleaseSlot, Abort, Skip, provider
  <2>2. \/ slots' = slots
        \/ ~committed /\ slots[now] > 0 /\ slots' = [slots EXCEPT ![now] = @ - 1]
    BY <1>12, FreeIs DEF ReleaseSlot, Abort, LaunchTypes
  <2>3. \/ Total(slots') = T
        \/ ~committed /\ Total(slots') = T - 1
    BY <2>2, OneLess DEF LaunchTypes
  <2>4. /\ Spare' = 0
        /\ ~committed => Spare = 1
        /\ Wanted' = 0 \/ Wanted' = Wanted
    BY <2>1 DEF Spare, Wanted, Launching
  <2>5. Executions' = Executions
    BY <2>1 DEF Executions
  <2>6. SlotsCover' /\ SlotsFit'
    BY <1>0, <2>3, <2>4, <2>5 DEF SlotsCover, SlotsFit
  <2>7. SlotsSeen'
    BY <2>1 DEF SlotsSeen
  <2>. QED BY <2>6, <2>7 DEF SlotsSound
<1>13. ASSUME NEW i \in Issues,
              \/ Stop(i) \/ Requeue(i) \/ OperatorRelease(i) \/ RemoveJournal(i)
              \/ \E g \in Gens : Finish(i, g)
       PROVE  UNCHANGED <<slots, calls, mem, cycle>>
  BY <1>13 DEF Stop, Requeue, OperatorRelease, RemoveJournal, Finish, forge, provider, host
<1>14. LoseState => UNCHANGED <<slots, calls, mem, cycle>>
  BY DEF LoseState, forge, provider
<1>15. CASE UNCHANGED <<slots, calls, mem, cycle>>
  <2>1. Spare' = Spare /\ Wanted' = Wanted /\ at' = at
    BY <1>15 DEF Spare, Wanted, cycle
  <2>. QED BY <1>0, <1>15, <2>1, SlotsKept
<1>. QED BY <1>1, <1>2, <1>3, <1>4, <1>5, <1>6, <1>7, <1>8, <1>9, <1>10, <1>11, <1>12, <1>13,
            <1>14, <1>15 DEF LaunchNext, CycleStep, Environment

-----------------------------------------------------------------------------
(* The theorems                                                            *)

LEMMA LaunchInitHolds ==
  ASSUME LaunchInit
  PROVE  LaunchInv
<1>0. 1 \in Times
  BY LaunchAssumption DEF Times
<1>1. LaunchTypes
  <2>1. NoJournal \in Journal
    BY DEF NoJournal, Journal, Phases
  <2>2. disk \in Ledger /\ mem \in Ledger
    BY EntriesAre DEF LaunchInit
  <2>3. gens \in [Issues -> 0 .. MaxAttempts]
    BY LaunchAssumption DEF LaunchInit
  <2>4. calls \in [Issues -> [Gens -> Nat]] /\ alive \in [Issues -> [Gens -> Nat]]
    BY DEF LaunchInit
  <2>5. /\ label \in [Issues -> Labels] /\ journal \in [Issues -> Journal]
        /\ slots \in [Times -> Nat]
    BY <2>1 DEF LaunchInit, Labels
  <2>. QED BY <1>0, <2>2, <2>3, <2>4, <2>5 DEF LaunchInit, LaunchTypes, CycleSteps
<1>2. OneInHand /\ SlotSpent /\ EntryInHand /\ JournalInHand /\ Planned /\ SlotsSeen
  BY DEF LaunchInit, OneInHand, SlotSpent, EntryInHand, JournalInHand, Planned, SlotsSeen,
         InHand, Launching
<1>3. \A i \in Issues, g \in Gens : calls[i][g] = 0 /\ alive[i][g] = 0
  BY DEF LaunchInit
<1>4. \A i \in Issues : journal[i].phase = "none" /\ gens[i] = 0
  BY DEF LaunchInit, NoJournal
<1>5. JournalSound /\ StartsSound /\ StartsOnce /\ RunningIsJournaled
  BY <1>3, <1>4 DEF JournalSound, StartsSound, StartsOnce, RunningIsJournaled
<1>6. HandlesSound /\ RunsHeld
  BY EntriesAre DEF LaunchInit, HandlesSound, Handles, RunsHeld
<1>7. SlotsCover /\ SlotsFit
  <2>1. Executions = {}
    BY <1>3 DEF Executions
  <2>2. Cardinality(Executions) = 0
    BY <2>1, FS_EmptySet
  <2>3. Total(slots) = 0
    BY NoLaunches DEF LaunchInit
  <2>4. Spare = 0 /\ Wanted = 0
    BY DEF LaunchInit, Spare, Wanted, Launching
  <2>. QED BY <2>2, <2>3, <2>4, LaunchAssumption DEF SlotsCover, SlotsFit
<1>. QED BY <1>1, <1>2, <1>5, <1>6, <1>7 DEF LaunchInv, Attempts, EntriesSound, SlotsSound

LEMMA LaunchSteps ==
  ASSUME LaunchInv, [LaunchNext]_launchVars
  PROVE  LaunchInv' /\ (Keep \/ UNCHANGED launchVars)
<1>1. CASE UNCHANGED launchVars
  <2>1. UNCHANGED <<label, journal, slots, calls, alive, disk, mem, at, todo, me, now, committed,
                    gens, faults, acts>>
    BY <1>1 DEF launchVars, forge, provider, host, cycle, bounds
  <2>2. LaunchTypes' /\ OneInHand' /\ JournalSound' /\ StartsSound' /\ StartsOnce'
    BY <2>1 DEF LaunchInv, Attempts, LaunchTypes, OneInHand, JournalSound, StartsSound, StartsOnce
  <2>3. RunningIsJournaled' /\ HandlesSound' /\ RunsHeld' /\ EntryInHand' /\ JournalInHand'
    BY <2>1 DEF LaunchInv, Attempts, EntriesSound, RunningIsJournaled, HandlesSound, Handles,
                RunsHeld, Runs, EntryInHand, JournalInHand
  <2>4. Planned' /\ SlotSpent' /\ SlotsCover' /\ SlotsFit' /\ SlotsSeen'
    BY <2>1 DEF LaunchInv, EntriesSound, SlotsSound, Planned, SlotSpent, SlotsCover, SlotsFit,
                SlotsSeen, Executions, Spare, Wanted
  <2>. QED BY <1>1, <2>2, <2>3, <2>4 DEF LaunchInv, Attempts, EntriesSound, SlotsSound
<1>2. CASE LaunchNext
  <2>0. LaunchTypes /\ OneInHand /\ SlotSpent /\ Attempts /\ JournalInHand /\ EntriesSound /\ SlotsSound
    BY DEF LaunchInv
  <2>1. LaunchTypes'
    BY <1>2, <2>0, LaunchTypesHold DEF EntriesSound
  <2>2. OneInHand' /\ SlotSpent'
    BY <1>2, <2>0, ControlHolds
  <2>3. Attempts' /\ JournalInHand'
    BY <1>2, <2>0, <2>1, <2>2, AttemptsHold
  <2>4. EntriesSound' /\ Keep
    BY <1>2, <2>0, <2>1, <2>2, EntriesHold
  <2>5. SlotsSound'
    BY <1>2, <2>0, <2>1, SlotsHold
  <2>. QED BY <2>1, <2>2, <2>3, <2>4, <2>5 DEF LaunchInv
<1>. QED BY <1>1, <1>2

(* The inductive invariant of the launches, for any number of Issues,      *)
(* attempts, faults and operator acts.                                     *)
THEOREM LaunchInvariant == LaunchSpec => []LaunchInv
BY LaunchInitHolds, LaunchSteps, PTL DEF LaunchSpec

(* Every execution is known, once, and within the limit of the window      *)
(* (JournaledDispatchTarget, reconcile_attempt, _launch_reservation).      *)
THEOREM ExecutionsAreAccounted == LaunchSpec => []ExecutionsAccounted
<1>1. ASSUME LaunchInv PROVE ExecutionsAccounted
  <2>1. RunsOnce
    <3>1. \A i \in Issues, g \in Gens : calls[i][g] <= 1
      BY <1>1 DEF LaunchInv, Attempts, StartsOnce
    <3>2. \A i \in Issues, g, h \in Gens : alive[i][g] > 0 /\ alive[i][h] > 0 => g = h
      BY <1>1 DEF LaunchInv, Attempts, RunningIsJournaled
    <3>. QED BY <3>1, <3>2 DEF RunsOnce
  <2>2. QuotaKept
    <3>1. LaunchTypes /\ SlotsCover /\ SlotsFit
      BY <1>1 DEF LaunchInv, SlotsSound
    <3>. QED BY <3>1, SizesAre DEF SlotsCover, SlotsFit, QuotaKept
  <2>. QED BY <1>1, <2>1, <2>2 DEF LaunchInv, Attempts, ExecutionsAccounted
<1>. QED BY <1>1, LaunchInvariant, PTL

(* A saved handle goes only with its execution or with the whole file      *)
(* (fresh_external_hold, hold_if_not_stopped, save_run_state).             *)
THEOREM HandlesAreKept == LaunchSpec => HandleKept
<1>1. ASSUME LaunchInv, [LaunchNext]_launchVars
      PROVE  [\A i \in Issues :
                LET e == disk.active[i] IN
                e.phase = "launched" /\ alive[i][e.gen] > 0
                  => disk'.active[i] = e \/ disk' = NoLedger]_launchVars
  <2>1. Keep \/ UNCHANGED launchVars
    BY <1>1, LaunchSteps
  <2>. QED BY <2>1 DEF Keep, Runs
<1>. QED BY <1>1, LaunchInvariant, PTL DEF LaunchSpec, HandleKept
=============================================================================
