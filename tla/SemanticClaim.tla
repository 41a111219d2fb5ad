---------------------------- MODULE SemanticClaim ----------------------------
(***************************************************************************)
(* The remote claim of one parent Issue's semantic review                  *)
(* (src/orchestune/integrator/semantic_claim.py) and the workers that hold *)
(* it.  The claim is a Git ref whose commits name owner, generation and    *)
(* expiry; every write is a push that expects the old commit, and the      *)
(* protected branches move only in the same atomic push.  A push whose     *)
(* answer is lost is settled by reading the claim back.                    *)
(*                                                                         *)
(* A runner (dispatch/semantic_review) reads the saved review state,       *)
(* acquires the claim, promotes a fix to the temp branch, saves the next   *)
(* state as a comment after it renewed the claim, and releases.  The       *)
(* integrator's publisher (integrator/attempt.py) acquires the claim and   *)
(* pushes the reviewed head to the parent branch.                          *)
(*                                                                         *)
(* Simplifications: a claim counts down its remaining time instead of      *)
(* naming a date, and all clocks agree; the owner is the pair of attempt   *)
(* and holder; a saved state is its revision and head; the fix of head h   *)
(* is commit h + 1, and a transition of the review is a head that changed  *)
(* or not and whether the review passed.  A read that fails ends a call    *)
(* (Fail), except where the code settles an unknown push.                  *)
(***************************************************************************)
EXTENDS Naturals

CONSTANTS
  Runners,       \* workers that advance the review
  Publishers,    \* calls that publish the parent branch
  Owners,        \* claim identities (attempt and holder)
  Identity,      \* the identity each of them claims with
  Patient,       \* publishers that always try again
  Oids,          \* claim commits that may exist at one time
  TTL,           \* ticks of a fresh claim
  MaxGen,        \* bound on generations
  MaxHead,       \* bound on fixes of the temp branch
  MaxRevision,   \* bound on saved states
  LatePush,      \* whether a push may be applied after its caller gave up
  PromptSave,    \* whether a renewal and its comment are done before it expires
  NoOid, NoOwner, NoClaim, NoPush, Base, Foreign

Procs == Runners \cup Publishers

ASSUME IdentityAssumption == Identity \in [Procs -> Owners] /\ NoOwner \notin Owners
ASSUME OidAssumption == NoOid \notin Oids
ASSUME BoundAssumption == TTL \in Nat \ {0} /\ MaxGen \in Nat /\ MaxHead \in Nat
                            /\ MaxRevision \in Nat
ASSUME PatientAssumption == Patient \subseteq Publishers
ASSUME FlagAssumption == LatePush \in BOOLEAN /\ PromptSave \in BOOLEAN

\* default_worker_id: host and process id.  A publisher is its GitHub user.
ASSUME RunnerAssumption ==
  /\ Runners \cap Publishers = {}
  /\ \A p \in Runners, q \in Procs : Identity[p] = Identity[q] => p = q

Heads   == 0..MaxHead
ASSUME HeadAssumption == Base \notin Nat /\ Foreign \notin Nat /\ Base # Foreign

FirstState == [rev |-> 0, head |-> 0, passed |-> FALSE]
Claims == [oid : Oids \cup {NoOid}, owner : Owners \cup {NoOwner}, gen : 0..MaxGen,
           left : 0..TTL]
States == [rev : 0..MaxRevision, head : Heads, passed : BOOLEAN]
Refusals == {"rejected", "denied", "failed", "unknown", "held by other"}
Steps == {"idle", "observed", "push", "read back", "claimed", "working", "advancing",
          "save", "stopped"} \cup Refusals
Pushes == [kind : {"acquire", "renew", "promote", "publish", "release"},
           old : Oids \cup {NoOid}, claim : Claims,
           branch : {"none", "temp", "parent"}, from : Heads \cup {Base}, to : Heads]
ASSUME NullAssumption == NoClaim \notin Claims /\ NoPush \notin Pushes

VARIABLES
  \* --- the remote
  ref,       \* the claim ref
  branch,    \* tips of the temp and the parent branch
  saved,     \* the last review state among the comments
  forked,    \* two of those states have the same revision
  late,      \* a push the client gave up on that may still be applied, or NoPush
  \* --- the workers
  pc,
  view,      \* the review state a worker decides from, then the one it saves
  seen,      \* the head of the pull request it decides from
  held,      \* the claim it believes to hold, or NoClaim
  push,      \* its push under way, or NoPush
  failure,   \* how that push failed
  \* --- history
  landed,    \* whether that push was applied
  author     \* owner and generation of the last move of a branch

remote  == <<ref, branch, author>>
comments == <<saved, forked>>
decision == <<view, seen>>
outcome == <<failure, landed>>
vars == <<remote, comments, late, pc, decision, held, push, outcome>>

-----------------------------------------------------------------------------
(* Claim commits and pushes *)

Holders == {p \in Procs : held[p] # NoClaim}
Pushers == {p \in Procs : push[p] # NoPush}

Known == {ref.oid} \cup {held[p].oid : p \in Holders}
         \cup {push[p].old : p \in Pushers} \cup {push[p].claim.oid : p \in Pushers}
         \cup (IF late = NoPush THEN {} ELSE {late.old, late.claim.oid})

\* Faulty variant: no nonce, so that two claims over one commit are the same commit.
SameCommit(old, c) == CHOOSE o \in Oids : o # old

\* _create_claim_commit: the nonce makes every commit new.
Commit(old, c) == CHOOSE o \in Oids : o \notin Known

\* The push of a claim, and the branch that moves with it.
PushOf(kind, old, c, name, from, to) ==
  [kind |-> kind, old |-> old, claim |-> [c EXCEPT !.oid = Commit(old, c)],
   branch |-> name, from |-> from, to |-> to]

Start(p, q) ==
  /\ Oids \ Known # {}
  /\ push' = [push EXCEPT ![p] = q]
  /\ pc' = [pc EXCEPT ![p] = "push"]
  /\ UNCHANGED <<remote, comments, late, seen, held, outcome>>

\* Faulty variant: the lease of the claim ref is left out.
BranchLeaseHolds(q) == q.branch # "none" => branch[q.branch] \in {q.from, q.to}

\* --force-with-lease on every ref, --atomic; Git skips the lease of a ref that
\* is up to date.
LeasesHold(q) ==
  /\ ref.oid \in {q.old, q.claim.oid}
  /\ q.branch # "none" => branch[q.branch] \in {q.from, q.to}

Applied(q) ==
  /\ ref' = q.claim
  /\ branch' = IF q.branch = "none" THEN branch ELSE [branch EXCEPT ![q.branch] = q.to]
  /\ author' = IF branch' = branch THEN author ELSE <<q.claim.owner, q.claim.gen>>

-----------------------------------------------------------------------------
(* A worker's call, up to its next push *)

\* Faulty variant: the publisher does not wait for the review to pass.
ReadyAny(p) == p \in Runners => ~saved.passed

\* The runner is done with a review that passed; validate_finalization_context waits
\* for that, and for the reviewed head.
Ready(p) == IF p \in Runners THEN ~saved.passed
                             ELSE saved.passed /\ branch["temp"] = saved.head

\* evidence.restore: a conflict of revisions is unreadable.
Observe(p) ==
  /\ pc[p] = "idle" /\ ~forked /\ Ready(p)
  /\ view' = [view EXCEPT ![p] = saved]
  /\ seen' = [seen EXCEPT ![p] = branch["temp"]]
  /\ pc' = [pc EXCEPT ![p] = "observed"]
  /\ UNCHANGED <<remote, comments, late, held, push, outcome>>

\* Renewing an own claim keeps the generation.
NextGeneration(p) == IF ref.owner = Identity[p] THEN ref.gen ELSE ref.gen + 1

\* Faulty variant: only a claim of one's own is taken.
OwnOnly(p) == ref.oid = NoOid \/ ref.owner = Identity[p]

\* The claim is absent, expired, or already ours.
Takeable(p) == ref.left = 0 \/ ref.owner = Identity[p]

\* acquire_semantic_claim reads the claim and pushes its own.
Acquire(p) ==
  /\ pc[p] = "observed" /\ Takeable(p)
  /\ NextGeneration(p) <= MaxGen
  /\ Start(p, PushOf("acquire", ref.oid,
       [oid |-> NoOid, owner |-> Identity[p], gen |-> NextGeneration(p), left |-> TTL],
       "none", 0, 0))
  /\ UNCHANGED view

HeldByOther(p) ==
  /\ pc[p] = "observed" /\ ~Takeable(p)
  /\ pc' = [pc EXCEPT ![p] = "held by other"]
  /\ UNCHANGED <<remote, comments, late, decision, held, push, outcome>>

\* require_unchanged
Unchanged(p) == ~forked /\ saved = view[p]

Require(p) ==
  /\ pc[p] = "claimed" /\ p \in Runners
  /\ pc' = [pc EXCEPT ![p] = IF Unchanged(p) THEN "working" ELSE "stopped"]
  /\ UNCHANGED <<remote, comments, late, decision, held, push, outcome>>

\* fix_input_sha of the state.
FixInput(p) == view[p].head

\* promote_fix_output under a claim that did not expire: the head is the one saved.
Promote(p) ==
  /\ pc[p] = "working" /\ held[p].left > 0
  /\ seen[p] = view[p].head /\ FixInput(p) \in 0..(MaxHead - 1)
  /\ Start(p, PushOf("promote", held[p].oid, [held[p] EXCEPT !.oid = NoOid],
                     "temp", FixInput(p), FixInput(p) + 1))
  /\ UNCHANGED view

\* The fix was promoted before, by a run that stopped before it saved.
Adopt(p) ==
  /\ pc[p] = "working" /\ seen[p] = view[p].head + 1
  /\ view' = [view EXCEPT ![p].head = seen[p]]
  /\ pc' = [pc EXCEPT ![p] = "advancing"]
  /\ UNCHANGED <<remote, comments, late, seen, held, push, outcome>>

\* revalidate, right before a state is saved; only the head observed may pass.
Renew(p) ==
  \E ok \in BOOLEAN :
    /\ pc[p] \in {"working", "advancing"} /\ ~view[p].passed
    /\ view[p].rev < MaxRevision
    /\ ok => pc[p] = "working" /\ seen[p] = view[p].head
    /\ Start(p, PushOf("renew", held[p].oid, [held[p] EXCEPT !.oid = NoOid, !.left = TTL],
                       "none", 0, 0))
    /\ view' = [view EXCEPT ![p].passed = ok]

\* save: the comment is added; a lost answer stops the worker.
Save(p) ==
  LET new == [view[p] EXCEPT !.rev = @ + 1] IN
  /\ pc[p] = "save"
  /\ saved' = new
  /\ forked' = (forked \/ new.rev <= saved.rev)
  /\ view' = [view EXCEPT ![p] = new]
  /\ \E next \in {"advancing", "stopped"} : pc' = [pc EXCEPT ![p] = next]
  /\ UNCHANGED <<remote, late, seen, held, push, outcome>>

\* publish_parent_under_claim; its `now` is that of the acquisition.
Publish(p) ==
  /\ pc[p] = "claimed" /\ p \in Publishers
  /\ Start(p, PushOf("publish", held[p].oid, [held[p] EXCEPT !.oid = NoOid],
                     "parent", Base, view[p].head))
  /\ UNCHANGED view

\* release_semantic_claim expires the claim in place.
Release(p) ==
  /\ pc[p] \in {"working", "advancing", "stopped"}
  /\ Start(p, PushOf("release", held[p].oid, [held[p] EXCEPT !.oid = NoOid, !.left = 0],
                     "none", 0, 0))
  /\ UNCHANGED view

-----------------------------------------------------------------------------
(* The push and its outcome *)

Goto(p, step) == pc' = [pc EXCEPT ![p] = step]
Forget(p) == landed' = [landed EXCEPT ![p] = FALSE] /\ failure' = [failure EXCEPT ![p] = "none"]

\* The call ends and keeps nothing.
Leave(p) ==
  /\ Goto(p, "idle") /\ Forget(p)
  /\ held' = [held EXCEPT ![p] = NoClaim] /\ push' = [push EXCEPT ![p] = NoPush]
  /\ view' = [view EXCEPT ![p] = FirstState] /\ seen' = [seen EXCEPT ![p] = 0]

\* The caller goes on with the advanced claim.
Succeed(p) ==
  LET q == push[p] IN
  IF q.kind \in {"publish", "release"} THEN Leave(p)
  ELSE /\ Forget(p)
       /\ held' = [held EXCEPT ![p] = q.claim] /\ push' = [push EXCEPT ![p] = NoPush]
       /\ Goto(p, CASE q.kind = "acquire" -> "claimed"
                    [] q.kind = "renew" -> "save"
                    [] q.kind = "promote" -> "advancing")
       /\ view' = IF q.kind = "promote" THEN [view EXCEPT ![p].head = q.to] ELSE view
       /\ UNCHANGED seen

PushAnswered(p) ==
  /\ pc[p] = "push" /\ LeasesHold(push[p])
  /\ Applied(push[p])
  /\ Succeed(p)
  /\ UNCHANGED <<comments, late>>

\* Applied, but the answer is lost.
PushUnanswered(p) ==
  /\ pc[p] = "push" /\ LeasesHold(push[p])
  /\ Applied(push[p])
  /\ landed' = [landed EXCEPT ![p] = TRUE]
  /\ failure' = [failure EXCEPT ![p] = "lost"]
  /\ Goto(p, "read back")
  /\ UNCHANGED <<comments, late, decision, held, push>>

\* A lease does not hold, or the remote refuses by policy.
PushRefused(p) ==
  /\ pc[p] = "push"
  /\ \/ ~LeasesHold(push[p]) /\ failure' = [failure EXCEPT ![p] = "lease"]
     \/ failure' = [failure EXCEPT ![p] = "denied"]
  /\ Goto(p, "read back")
  /\ UNCHANGED <<remote, comments, late, decision, held, push, landed>>

\* The push does not arrive, or not yet.
PushLost(p) ==
  /\ pc[p] = "push"
  /\ late' \in {late} \cup (IF LatePush /\ late = NoPush THEN {push[p]} ELSE {})
  /\ failure' = [failure EXCEPT ![p] = "lost"]
  /\ Goto(p, "read back")
  /\ UNCHANGED <<remote, comments, decision, held, push, landed>>

\* _classify_failed_push and _reconcile_acquire, when it is not applied.
Classify(p) ==
  LET q == push[p] IN
  IF q.kind = "acquire"
    THEN IF ref.oid # q.old /\ ref.owner # q.claim.owner THEN "held by other"
                                                          ELSE "unknown"
    ELSE IF ref.oid # q.old \/ failure[p] = "lease" THEN "rejected"
         ELSE IF failure[p] = "denied" THEN "denied" ELSE "failed"

ReadBack(p) ==
  /\ pc[p] = "read back"
  /\ IF ref.oid = push[p].claim.oid
       THEN Succeed(p)
       ELSE Goto(p, Classify(p)) /\ UNCHANGED <<decision, held, push, outcome>>
  /\ UNCHANGED <<remote, comments, late>>

ReadBackFails(p) ==
  /\ pc[p] = "read back"
  /\ Goto(p, IF push[p].kind # "acquire" /\ failure[p] = "lease" THEN "rejected"
                                                                 ELSE "unknown")
  /\ UNCHANGED <<remote, comments, late, decision, held, push, outcome>>

\* A runner whose promotion failed releases the claim it had; any other failed push
\* ends the call.
React(p) ==
  /\ pc[p] \in Refusals
  /\ IF push[p] # NoPush /\ push[p].kind = "promote"
       THEN /\ Goto(p, "stopped") /\ Forget(p)
            /\ push' = [push EXCEPT ![p] = NoPush]
            /\ UNCHANGED <<decision, held>>
       ELSE Leave(p)
  /\ UNCHANGED <<remote, comments, late>>

-----------------------------------------------------------------------------
(* Everybody else *)

\* A crash, or an exception of a read.
Fail(p) ==
  /\ pc[p] # "idle"
  /\ Leave(p)
  /\ UNCHANGED <<remote, comments, late>>

\* The remote applies or refuses a push nobody waits for any more.
Arrive ==
  /\ late # NoPush
  /\ late' = NoPush
  /\ IF LeasesHold(late) THEN Applied(late) ELSE UNCHANGED remote
  /\ UNCHANGED <<comments, pc, decision, held, push, outcome>>

\* An outsider pushes to the temp branch.
Intrude ==
  /\ branch["temp"] # Foreign
  /\ branch' = [branch EXCEPT !["temp"] = Foreign]
  /\ UNCHANGED <<ref, author, comments, late, pc, decision, held, push, outcome>>

Older(c) == [c EXCEPT !.left = IF @ > 0 THEN @ - 1 ELSE 0]

\* The claim that a state is being saved under.
SaveClaim(p) == IF pc[p] = "save" THEN held[p] ELSE push[p].claim
Saving(p) == pc[p] = "save" \/ (push[p] # NoPush /\ push[p].kind = "renew")

\* Time passes.
Tick ==
  /\ PromptSave => \A p \in Procs : Saving(p) => SaveClaim(p).left > 1
  /\ ref' = Older(ref)
  /\ held' = [p \in Procs |-> IF held[p] = NoClaim THEN NoClaim ELSE Older(held[p])]
  /\ push' = [p \in Procs |-> IF push[p] = NoPush THEN NoPush
                              ELSE [push[p] EXCEPT !.claim = Older(@)]]
  /\ late' = IF late = NoPush THEN NoPush ELSE [late EXCEPT !.claim = Older(@)]
  /\ UNCHANGED <<branch, author, comments, pc, decision, outcome>>

-----------------------------------------------------------------------------
Init ==
  /\ ref = [oid |-> NoOid, owner |-> NoOwner, gen |-> 0, left |-> 0]
  /\ branch = [b \in {"temp", "parent"} |-> IF b = "temp" THEN 0 ELSE Base]
  /\ saved = FirstState /\ forked = FALSE /\ late = NoPush
  /\ pc = [p \in Procs |-> "idle"]
  /\ view = [p \in Procs |-> FirstState] /\ seen = [p \in Procs |-> 0]
  /\ held = [p \in Procs |-> NoClaim] /\ push = [p \in Procs |-> NoPush]
  /\ failure = [p \in Procs |-> "none"] /\ landed = [p \in Procs |-> FALSE]
  /\ author = <<NoOwner, 0>>

Step(p) ==
  \/ Acquire(p) \/ HeldByOther(p) \/ Require(p) \/ Promote(p) \/ Adopt(p)
  \/ Renew(p) \/ Save(p) \/ Publish(p) \/ Release(p)
  \/ PushAnswered(p) \/ PushUnanswered(p) \/ PushRefused(p) \/ PushLost(p)
  \/ ReadBack(p) \/ ReadBackFails(p) \/ React(p)

Next == \/ \E p \in Procs : Observe(p) \/ Step(p) \/ Fail(p)
        \/ Arrive \/ Intrude \/ Tick

Spec == Init /\ [][Next]_vars

\* The network answers again after every outage, time passes, and a patient publisher
\* is started again by every later dispatch cycle.
FairSpec ==
  /\ Spec
  /\ WF_vars(Tick)
  /\ \A p \in Procs : WF_vars(Step(p))
  /\ \A p \in Patient :
       /\ WF_vars(Observe(p)) /\ SF_vars(Acquire(p)) /\ SF_vars(Publish(p))
       /\ SF_vars(PushAnswered(p) /\ push[p].kind = "acquire")
       /\ SF_vars(PushAnswered(p) /\ push[p].kind = "publish")

-----------------------------------------------------------------------------
(* Properties *)

\* Every variable has its type.
TypeOK ==
  /\ ref \in Claims
  /\ branch \in [{"temp", "parent"} -> Heads \cup {Base, Foreign}]
  /\ branch["temp"] # Base /\ branch["parent"] # Foreign
  /\ saved \in States /\ forked \in BOOLEAN
  /\ late \in Pushes \cup {NoPush}
  /\ pc \in [Procs -> Steps]
  /\ view \in [Procs -> States] /\ seen \in [Procs -> Heads \cup {Foreign}]
  /\ held \in [Procs -> Claims \cup {NoClaim}]
  /\ push \in [Procs -> Pushes \cup {NoPush}]
  /\ failure \in [Procs -> {"none", "lost", "lease", "denied"}]
  /\ landed \in [Procs -> BOOLEAN]
  /\ author \in (Owners \cup {NoOwner}) \X (0..MaxGen)

\* The claim as the branches see it: it passes on only when it lapsed, under a new
\* generation, and a branch moves forward only by the owner of that moment, whatever
\* pushes are lost, late or answered twice (push_refs_under_claim).
Refs == INSTANCE FencedRefs WITH
          gen <- ref.gen, owner <- ref.owner, lapsed <- ref.left = 0,
          temp <- branch["temp"], parent <- branch["parent"]

\* Every step of the claimed runs is a step of the fenced refs, or none.
FencedSpec == Refs!Spec

\* Two calls never both hold the claim commit the remote has, not even calls that
\* share an identity; and what a holder believes of it is what the remote says
\* (acquire_semantic_claim, _create_claim_commit).
HolderUnique ==
  \A p \in Procs : held[p] # NoClaim /\ held[p].oid = ref.oid =>
    /\ held[p] = ref
    /\ \A q \in Procs \ {p} : held[q] # NoClaim => held[q].oid # ref.oid

\* A push reported as failed or denied changed nothing, and the claim is still the
\* caller's to use until somebody else takes it (_classify_failed_push).
ReportsHonest == \A p \in Procs : pc[p] \in {"failed", "denied"} => ~landed[p]

\* Two workers never save states of the same revision, so that the review state stays
\* readable (SemanticReviewLease.require_unchanged, SemanticReviewEffects.save).
NeverForked == ~forked

\* The temp branch is at most one fix ahead of the saved state, whichever run is
\* interrupted, so that a later run can adopt it (promote_fix_output).
RecordFollowsHead == branch["temp"] \in {saved.head, saved.head + 1, Foreign}

\* The parent branch got the head whose review passed, and that stays the last word
\* of the review (publish_parent_under_claim).
PublishedIsReviewed ==
  branch["parent"] # Base => saved.passed /\ branch["parent"] = saved.head

\* When every other worker is gone, the head whose review passed is published: the
\* claim they left behind expires and is taken, and a publication whose answer was
\* lost is recognised (acquire_semantic_claim, publish_parent_under_claim).
PassedIsPublished ==
  \A p \in Patient :
    <>[](/\ saved.passed /\ branch["temp"] = saved.head /\ ~forked
         /\ \A q \in Procs \ {p} : pc[q] = "idle")
      => <>(\/ branch["parent"] = saved.head
            \/ ref.gen = MaxGen /\ ref.owner # Identity[p])
=============================================================================
