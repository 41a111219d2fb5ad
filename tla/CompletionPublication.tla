----------------------- MODULE CompletionPublication -----------------------
(***************************************************************************)
(* The completion of one Issue (src/orchestune/complete): `orchestune      *)
(* complete` reads the run state, collects CI evidence without the lock,   *)
(* takes the run-state lock, reserves (or resumes) one completion in the   *)
(* journal, posts the Outcome Record on the Issue, confirms the status     *)
(* label and hands the claim off to garbage collection.  The run state     *)
(* (claim, journal, reservation, receipts) survives a crash; a process's   *)
(* program counter does not.  The Issue's labels may be edited by anybody  *)
(* at any moment.                                                          *)
(*                                                                         *)
(* Simplifications: one Issue of one repository; a request fingerprint is  *)
(* its result; a failed read, a lost write and an exception are the same   *)
(* step, Fail, because every one of them releases the lock and writes      *)
(* nothing; `MaxEdits` bounds the label edits of other actors.             *)
(***************************************************************************)
EXTENDS Naturals, FiniteSets

CONSTANTS
  Procs,        \* concurrent `orchestune complete` calls
  Claims,       \* claim ids (generations) the Issue may get
  CloudClaims,  \* the claims executed by an external (cloud) target
  Completions,  \* completion ids
  Heads,        \* commits the worktree HEAD may be at
  Asked,        \* bound: the results callers ask for
  Decisions,    \* token-usage decisions the publication policy may return
  MaxLate,      \* bound on the POSTs of a completion that the Forge still holds
                \* when their caller gave up on them, and accepts later
  MaxEdits,     \* bound on label edits made by other actors
  NoClaim, NoId, NoHead, NoRecord, NoCall, Free

Results == {"done", "blocked", "not-needed"}
Stages  == {"reserved", "outcome_posted", "label_confirmed", "handed_off"}

ASSUME CloudAssumption == CloudClaims \subseteq Claims /\ Asked \subseteq Results
ASSUME DecisionAssumption == Decisions \subseteq {"allowed", "unknown", "exceeded"}
ASSUME BoundAssumption == MaxEdits \in Nat /\ MaxLate \in Nat
ASSUME DistinctAssumption ==
  /\ Claims \cap Completions = {}
  /\ NoClaim \notin Claims \cup Completions
  /\ NoId \notin Completions
  /\ NoHead \notin Heads
  /\ Free \notin Procs

\* PRIMARY_STATUS_LABELS, the other status labels, and the review hold.
Primary   == {"in-progress", "queued", "blocked"}
Protected == {"done", "not-needed", "human-review"}
Labels    == Primary \cup Protected \cup {"hold"}

\* A claimed completion belongs to its claim's generation, an unclaimed one to
\* the generation "unclaimed-<completion id>", named here by the id itself.
Generations == Claims \cup Completions

\* What the caller asks for, and with it what a call found out before the lock.
Requests == [claim : Claims \cup {NoClaim}, result : Asked,
             id : Completions \cup {NoId}]
Calls == [request : Requests, ci : Heads \cup {NoHead},
          decision : Decisions \cup {"allowed"}]

Records == [gen : Generations, result : Results, head : Heads \cup {NoHead},
            decision : Decisions \cup {"allowed"}, stage : Stages]
ASSUME RecordAssumption == NoRecord \notin Records /\ NoCall \notin Calls

VARIABLES
  \* --- run_state.json, written only under the run-state lock
  active,       \* the claim in active_worktrees, or NoClaim
  ready,        \* that entry's completion fields say HANDED_OFF
  spent,        \* claim ids already issued
  journal,      \* completion_journal, by completion id
  reservation,  \* completion_reservations[Issue], or NoId
  receipts,     \* completion_replay_receipts
  \* --- GitHub
  labels,       \* labels of the Issue
  comments,     \* number of Outcome comments carrying a completion id
  inflight,     \* POSTs the client gave up on that may still be accepted
  \* --- the worktree
  head,         \* HEAD of the claimed worktree
  passed,       \* heads on which local CI passed (history)
  \* --- processes
  lock,         \* holder of the run-state lock
  pc,           \* where each call is
  call,         \* its request and evidence until it holds the lock, or NoCall
  todo,         \* stale labels the cleanup loop of the lock holder still visits
  \* --- bound
  edits

ledger == <<active, ready, spent, journal, reservation, receipts>>
forge  == <<labels, comments, inflight>>
tree   == <<head, passed>>
vars   == <<ledger, forge, tree, lock, pc, call, todo, edits>>

-----------------------------------------------------------------------------
(* Reading the run state *)

Journaled == {c \in Completions : journal[c] # NoRecord}
Pending   == {"reserved", "outcome_posted", "label_confirmed"}

\* The Outcome Record's target label.
Target(c) == journal[c].result

\* Faulty variant: the reservation stops counting once the Outcome is posted.
OnlyReservedBlocks == reservation # NoId /\ journal[reservation].stage = "reserved"

\* completion_mutation_blocked: no other writer may touch the Issue.
MutationBlocked ==
  reservation # NoId /\ journal[reservation].stage \in Pending

\* find_replay: the receipts a request refers to, by id or by its own claim.
Replays(r) ==
  IF r.id # NoId THEN receipts \cap {r.id}
  ELSE {c \in receipts : r.claim \in {NoClaim, journal[c].gen}}

\* Faulty variant: a handed-off record no longer counts for its generation.
OpenOfActive == {c \in Journaled \ receipts : journal[c].gen = active}

\* The journal records of the active claim's generation.
OfActive == {c \in Journaled : journal[c].gen = active}

\* generation_matches, re-read at every observation of the labels.
GenerationMatches ==
  /\ reservation # NoId
  /\ IF journal[reservation].gen \in Claims
       THEN active = journal[reservation].gen
       ELSE active = NoClaim

\* not_needed_policies: a local claim is the only exemption from review.
NeedsReview(record) ==
  record.result = "not-needed" /\ record.gen \notin Claims \ CloudClaims

\* The order of PRIMARY_STATUS_LABELS, and the stale primary labels the cleanup
\* loop has still to visit after position i.
Rank == [l \in Primary |-> IF l = "in-progress" THEN 1
                            ELSE IF l = "queued" THEN 2 ELSE 3]
First(s) == CHOOSE l \in s : \A m \in s : Rank[l] <= Rank[m]
Stale(c, i) == {l \in (labels \cap Primary) \ {Target(c)} : Rank[l] > i}

\* Any status label a completion may not see while it publishes.
Conflict(c) == labels \cap (Protected \ {Target(c)}) # {}

-----------------------------------------------------------------------------
(* Process bookkeeping *)

At(p, step) == pc[p] = step /\ lock = p
Goto(p, step) == pc' = [pc EXCEPT ![p] = step]
Release(p) == Goto(p, "idle") /\ lock' = Free /\ todo' = {}

\* Where publish_reserved_completion_locked resumes a record.
ResumeAt(stage) == IF stage = "reserved" THEN "check" ELSE "observe"

Init ==
  /\ active = NoClaim /\ ready = FALSE /\ spent = {}
  /\ journal = [c \in Completions |-> NoRecord]
  /\ reservation = NoId /\ receipts = {}
  /\ labels = {"queued"}
  /\ comments = [c \in Completions |-> 0]
  /\ inflight = [c \in Completions |-> 0]
  /\ head \in Heads /\ passed = {}
  /\ lock = Free
  /\ pc = [p \in Procs |-> "idle"]
  /\ call = [p \in Procs |-> NoCall]
  /\ todo = {}
  /\ edits = 0

-----------------------------------------------------------------------------
(* complete_task, before the lock *)

\* The unlocked part of _complete: no receipt answers the request; a claimed
\* request passes preflight against the claim it read, agrees with a record its
\* generation already has (_pending), and collects the CI evidence and the token
\* decision for the HEAD of that moment.
Begin(p, r) ==
  /\ pc[p] = "idle"
  /\ Replays(r) = {}
  /\ \/ /\ active # NoClaim
        /\ r.claim = active
        /\ \A c \in OfActive : r.id \in {NoId, c} /\ r.result = journal[c].result
        /\ \E d \in IF r.result = "done" THEN Decisions ELSE {"allowed"} :
             call' = [call EXCEPT ![p] =
               [request |-> r, ci |-> IF r.result = "done" THEN head ELSE NoHead,
                decision |-> d]]
        /\ passed' = IF r.result = "done" THEN passed \cup {head} ELSE passed
        /\ Goto(p, "claimed")
     \/ /\ active = NoClaim
        /\ r.claim = NoClaim
        /\ r.result = "not-needed"
        /\ call' = [call EXCEPT ![p] =
             [request |-> r, ci |-> NoHead, decision |-> "allowed"]]
        /\ Goto(p, "unclaimed")
        /\ UNCHANGED passed
  /\ UNCHANGED <<ledger, forge, head, lock, todo, edits>>

\* Under the lock, after the select: publish, or stop at the token policy.
AfterSelect(p, c) ==
  LET record == journal'[c] IN
  /\ \/ record.decision = "unknown" /\ Goto(p, "idle") /\ lock' = Free
     \/ record.decision = "exceeded" /\ Goto(p, "escalate") /\ lock' = p
     \/ /\ record.decision = "allowed"
        /\ lock' = p
        /\ Goto(p, IF NeedsReview(record) THEN "hold" ELSE ResumeAt(record.stage))
  /\ call' = [call EXCEPT ![p] = NoCall]

\* Every call starts over under the lock: still no receipt, still its claim.
Revalidated(p) ==
  LET r == call[p].request IN
  /\ lock = Free
  /\ Replays(r) = {}
  /\ \/ pc[p] = "claimed" /\ active # NoClaim /\ r.claim = active
     \/ pc[p] = "unclaimed" /\ active = NoClaim

\* Faulty variant: the evidence is not compared with the HEAD under the lock.
HeadTrusted(p) == TRUE

\* The evidence collected outside the lock must be about the HEAD found under it.
HeadValidated(p) == call[p].request.result = "done" => call[p].ci = head

\* Faulty variant: a new generation may replace any reservation.
AnyReplaceable == TRUE

\* A new reservation needs the durable handoff receipt of every earlier one.
PreviousHandedOff == Journaled \subseteq receipts

\* reserve_completion_locked: one write of reservation and journal.
ReserveRecord(p, c, record) ==
  /\ PreviousHandedOff
  /\ c \notin Journaled
  /\ call[p].request.id \in {NoId, c}
  /\ journal' = [journal EXCEPT ![c] = record]
  /\ reservation' = c
  /\ AfterSelect(p, c)
  /\ UNCHANGED <<active, ready, spent, receipts, forge, tree, todo, edits>>

\* _select_record for a generation without a record.
Reserve(p, c) ==
  /\ pc[p] = "claimed" /\ Revalidated(p) /\ HeadValidated(p)
  /\ OfActive = {}
  /\ ReserveRecord(p, c,
       [gen |-> active, result |-> call[p].request.result, head |-> head,
        decision |-> call[p].decision, stage |-> "reserved"])

\* _store_retried_policy: only an unknown decision is replaced.
RetriedDecision(p, c) ==
  IF journal[c].decision = "unknown" THEN call[p].decision ELSE journal[c].decision

\* _select_record for a generation that already has its record: same id, same
\* fingerprint, unmoved HEAD.
Resume(p, c) ==
  LET r == call[p].request IN
  /\ pc[p] = "claimed" /\ Revalidated(p) /\ HeadValidated(p)
  /\ OfActive = {c}
  /\ r.id \in {NoId, c}
  /\ r.result = journal[c].result
  /\ head = journal[c].head
  /\ journal' = [journal EXCEPT ![c].decision = RetriedDecision(p, c)]
  /\ AfterSelect(p, c)
  /\ UNCHANGED <<active, ready, spent, reservation, receipts, forge, tree, todo,
                 edits>>

\* The generation "unclaimed-<completion id>".
UnclaimedGeneration(c) == c

\* complete_unclaimed: a fresh generation of its own, only while the Issue is
\* unclaimed, not terminal and not reserved.
ReserveUnclaimed(p, c) ==
  /\ pc[p] = "unclaimed" /\ Revalidated(p)
  /\ labels \cap Protected = {}
  /\ ReserveRecord(p, c,
       [gen |-> UnclaimedGeneration(c), result |-> "not-needed", head |-> NoHead,
        decision |-> "allowed", stage |-> "reserved"])

\* Faulty variant: the completion's own label makes its Issue look terminal.
OwnLabelTerminal == labels \cap Protected = {}

\* _issue_evidence(pending=True): the record's own target label may be there.
ResumableLabels == labels \cap (Protected \ {"not-needed"}) = {}

\* ... and resuming it takes its explicit completion id.
ResumeUnclaimed(p) ==
  /\ pc[p] = "unclaimed" /\ Revalidated(p)
  /\ MutationBlocked
  /\ journal[reservation].gen \notin Claims
  /\ call[p].request.id = reservation
  /\ ResumableLabels
  /\ UNCHANGED journal
  /\ AfterSelect(p, reservation)
  /\ UNCHANGED <<active, ready, spent, reservation, receipts, forge, tree, todo,
                 edits>>

-----------------------------------------------------------------------------
(* publish_reserved_completion_locked *)

\* _reject_policy with "exceeded": escalate to a human, publish nothing.  The
\* second disjunct is a crash after the label was added.
EscalateLimit(p) ==
  /\ At(p, "escalate")
  /\ \/ labels' = (labels \ (Primary \cup {"not-needed"})) \cup {"human-review"}
     \/ labels' = labels \cup {"human-review"}
  /\ Release(p)
  /\ UNCHANGED <<ledger, comments, inflight, tree, call, edits>>

\* _ensure_review_hold
EnsureHold(p) ==
  /\ At(p, "hold")
  /\ GenerationMatches
  /\ labels' = labels \cup {"hold"}
  /\ Goto(p, ResumeAt(journal[reservation].stage))
  /\ UNCHANGED <<ledger, comments, inflight, tree, lock, call, todo, edits>>

\* Before the first publication no foreign status label may be present.
CheckLabels(p) ==
  /\ At(p, "check")
  /\ GenerationMatches
  /\ ~Conflict(reservation)
  /\ Goto(p, "lookup")
  /\ UNCHANGED <<ledger, forge, tree, lock, call, todo, edits>>

\* Faulty variant: every attempt posts.
PostBlindly(p) ==
  /\ At(p, "lookup")
  /\ Goto(p, "post")
  /\ UNCHANGED <<ledger, forge, tree, lock, call, todo, edits>>

\* post_issue_outcome: look for the completion id in every comment first.
Lookup(p) ==
  /\ At(p, "lookup")
  /\ Goto(p, IF comments[reservation] > 0 THEN "posted" ELSE "post")
  /\ UNCHANGED <<ledger, forge, tree, lock, call, todo, edits>>

\* Faulty variant: a lost response counts as success, a rejected POST too.
AssumePosted(p) ==
  /\ At(p, "post")
  /\ Goto(p, "posted")
  /\ UNCHANGED <<ledger, forge, tree, lock, call, todo, edits>>

\* The POST: answered; accepted with its response lost; or still travelling.
Post(p) ==
  /\ At(p, "post")
  /\ \/ /\ comments' = [comments EXCEPT ![reservation] = @ + 1]
        /\ \E next \in {"posted", "recheck"} : Goto(p, next)
        /\ UNCHANGED inflight
     \/ /\ inflight[reservation] < MaxLate
        /\ inflight' = [inflight EXCEPT ![reservation] = @ + 1]
        /\ Goto(p, "recheck")
        /\ UNCHANGED comments
  /\ UNCHANGED <<ledger, labels, tree, lock, call, todo, edits>>

\* A failed POST is ambiguous: only the comments tell (otherwise Fail).
Recheck(p) ==
  /\ At(p, "recheck")
  /\ comments[reservation] > 0
  /\ Goto(p, "posted")
  /\ UNCHANGED <<ledger, forge, tree, lock, call, todo, edits>>

SavePosted(p) ==
  /\ At(p, "posted")
  /\ journal' = [journal EXCEPT ![reservation].stage = "outcome_posted"]
  /\ Goto(p, "observe")
  /\ UNCHANGED <<active, ready, spent, reservation, receipts, forge, tree, lock,
                 call, todo, edits>>

\* transition_completion_status_label: first observation.
Observe(p) ==
  /\ At(p, "observe")
  /\ GenerationMatches /\ ~Conflict(reservation)
  /\ IF Target(reservation) \in labels
       THEN Goto(p, "clean") /\ todo' = Stale(reservation, 0)
       ELSE Goto(p, "add") /\ UNCHANGED todo
  /\ UNCHANGED <<ledger, forge, tree, lock, call, edits>>

\* Faulty variant: the old labels go first.
ReplaceLabels(p) ==
  /\ At(p, "add")
  /\ IF labels \cap Primary # {}
       THEN labels' = labels \ Primary /\ UNCHANGED pc
       ELSE labels' = labels \cup {Target(reservation)} /\ Goto(p, "added")
  /\ UNCHANGED <<ledger, comments, inflight, tree, lock, call, todo, edits>>

\* The new label is added while the old ones are still there.
AddTarget(p) ==
  /\ At(p, "add")
  /\ labels' = labels \cup {Target(reservation)}
  /\ Goto(p, "added")
  /\ UNCHANGED <<ledger, comments, inflight, tree, lock, call, todo, edits>>

\* Read-back of the add; an absent target is ADD_FAILED.
ReadAdded(p) ==
  /\ At(p, "added")
  /\ GenerationMatches /\ ~Conflict(reservation)
  /\ Target(reservation) \in labels
  /\ Goto(p, "clean") /\ todo' = Stale(reservation, 0)
  /\ UNCHANGED <<ledger, forge, tree, lock, call, edits>>

\* _completion_cleanup observes again before each removal ...
BeforeRemove(p) ==
  LET old == First(todo) IN
  /\ At(p, "clean")
  /\ todo # {}
  /\ GenerationMatches /\ ~Conflict(reservation)
  /\ Target(reservation) \in labels
  /\ IF old \in labels
       THEN Goto(p, "remove") /\ todo' = {old} \cup Stale(reservation, Rank[old])
       ELSE Goto(p, "clean") /\ todo' = Stale(reservation, Rank[old])
  /\ UNCHANGED <<ledger, forge, tree, lock, call, edits>>

Remove(p) ==
  /\ At(p, "remove")
  /\ labels' = labels \ {First(todo)}
  /\ Goto(p, "removed")
  /\ UNCHANGED <<ledger, comments, inflight, tree, lock, call, todo, edits>>

\* ... and after it; a label that is still there is CLEANUP_INCOMPLETE.
ReadRemoved(p) ==
  LET old == First(todo) IN
  /\ At(p, "removed")
  /\ GenerationMatches /\ ~Conflict(reservation)
  /\ old \notin labels
  /\ Goto(p, "clean") /\ todo' = Stale(reservation, Rank[old])
  /\ UNCHANGED <<ledger, forge, tree, lock, call, edits>>

\* _completion_verify, then LABEL_CONFIRMED is saved with the observed labels.
Verify(p) ==
  /\ At(p, "clean")
  /\ todo = {}
  /\ GenerationMatches /\ ~Conflict(reservation)
  /\ Target(reservation) \in labels
  /\ Stale(reservation, 0) = {}
  /\ journal' = [journal EXCEPT ![reservation].stage = "label_confirmed"]
  /\ Goto(p, "handoff")
  /\ UNCHANGED <<active, ready, spent, reservation, receipts, forge, tree, lock,
                 call, todo, edits>>

\* One write: journal HANDED_OFF, receipt, and the claim's completion fields.
HandOff(p) ==
  /\ At(p, "handoff")
  /\ journal' = [journal EXCEPT ![reservation].stage = "handed_off"]
  /\ receipts' = receipts \cup {reservation}
  /\ ready' = (active # NoClaim)
  /\ Release(p)
  /\ UNCHANGED <<active, spent, reservation, forge, tree, call, edits>>

\* A refused check, a failed call, a lock timeout or a crash ends the call
\* wherever it is; the file lock dies with its holder.
Fail(p) ==
  /\ pc[p] # "idle"
  /\ Goto(p, "idle")
  /\ call' = [call EXCEPT ![p] = NoCall]
  /\ IF lock = p THEN lock' = Free /\ todo' = {} ELSE UNCHANGED <<lock, todo>>
  /\ UNCHANGED <<ledger, forge, tree, edits>>

-----------------------------------------------------------------------------
(* The other writers of this Issue *)

\* claim: reserve the Issue for a fresh generation, then label it in-progress,
\* new label first; any prefix of the label steps survives a crash.
Claim(g) ==
  /\ lock = Free
  /\ active = NoClaim
  /\ ~MutationBlocked
  /\ g \notin spent
  /\ labels \cap Protected = {}
  /\ active' = g /\ ready' = FALSE /\ spent' = spent \cup {g}
  /\ labels' \in {labels, labels \cup {"in-progress"},
                  (labels \ Primary) \cup {"in-progress"}}
  /\ UNCHANGED <<journal, reservation, receipts, comments, inflight, tree, lock,
                 pc, call, todo, edits>>

\* Zombie reclaim and release give up a claim that has no pending completion.
ReleaseClaim ==
  /\ lock = Free
  /\ active # NoClaim /\ ~ready
  /\ ~MutationBlocked
  /\ active' = NoClaim
  /\ labels' \in {labels, labels \cup {"queued"}, (labels \ Primary) \cup {"queued"}}
  /\ UNCHANGED <<ready, spent, journal, reservation, receipts, comments, inflight,
                 tree, lock, pc, call, todo, edits>>

\* completion_handoff_matches_active
HandoffMatches ==
  /\ active # NoClaim /\ ready
  /\ reservation \in receipts
  /\ journal[reservation].gen = active
  /\ journal[reservation].stage = "handed_off"

\* Completion GC drops the claim of a verified handoff whose Outcome comment
\* it found on the Issue.
Collect ==
  /\ lock = Free
  /\ HandoffMatches
  /\ comments[reservation] > 0
  /\ active' = NoClaim /\ ready' = FALSE
  /\ UNCHANGED <<spent, journal, reservation, receipts, forge, tree, lock, pc,
                 call, todo, edits>>

\* recover --restart-blocked: the same worktree goes on under a new generation
\* once a human has set status:in-progress again.
RestartBlocked(g) ==
  /\ lock = Free
  /\ HandoffMatches
  /\ journal[reservation].result = "blocked"
  /\ labels \cap Primary = {"in-progress"}
  /\ "human-review" \notin labels
  /\ g \notin spent
  /\ active' = g /\ ready' = FALSE /\ spent' = spent \cup {g}
  /\ UNCHANGED <<journal, reservation, receipts, forge, tree, lock, pc, call,
                 todo, edits>>

-----------------------------------------------------------------------------
(* The environment *)

\* The agent commits in the worktree.
Commit ==
  /\ head' \in Heads \ {head}
  /\ UNCHANGED <<ledger, forge, passed, lock, pc, call, todo, edits>>

\* GitHub accepts a POST nobody waits for any more.
Arrive(c) ==
  /\ inflight[c] > 0
  /\ inflight' = [inflight EXCEPT ![c] = @ - 1]
  /\ comments' = [comments EXCEPT ![c] = @ + 1]
  /\ UNCHANGED <<ledger, labels, tree, lock, pc, call, todo, edits>>

\* A human or another component adds or removes a label, or puts one status label
\* in the place of the others, with or without the run-state lock.
EditLabel(l) ==
  /\ edits < MaxEdits
  /\ edits' = edits + 1
  /\ \/ labels' = IF l \in labels THEN labels \ {l} ELSE labels \cup {l}
     \/ l \in Primary /\ labels' = (labels \ Primary) \cup {l}
  /\ UNCHANGED <<ledger, comments, inflight, tree, lock, pc, call, todo>>

Step(p) ==
  \/ \E c \in Completions :
       Reserve(p, c) \/ Resume(p, c) \/ ReserveUnclaimed(p, c)
  \/ ResumeUnclaimed(p)
  \/ EscalateLimit(p) \/ EnsureHold(p) \/ CheckLabels(p)
  \/ Lookup(p) \/ Post(p) \/ Recheck(p) \/ SavePosted(p)
  \/ Observe(p) \/ AddTarget(p) \/ ReadAdded(p)
  \/ BeforeRemove(p) \/ Remove(p) \/ ReadRemoved(p)
  \/ Verify(p) \/ HandOff(p)

Next ==
  \/ \E p \in Procs, r \in Requests : Begin(p, r)
  \/ \E p \in Procs : Step(p) \/ Fail(p)
  \/ \E g \in Claims : Claim(g) \/ RestartBlocked(g)
  \/ ReleaseClaim \/ Collect \/ Commit
  \/ \E c \in Completions : Arrive(c)
  \/ \E l \in Labels : EditLabel(l)

Spec == Init /\ [][Next]_vars

\* An agent whose completion was not handed off repeats the same request.
Retry(p) ==
  \E c \in Completions :
    /\ MutationBlocked /\ c = reservation
    /\ Begin(p, [claim |-> active, result |-> journal[c].result, id |-> c])

\* Scheduling: a running call takes its next step, a call that cannot go on ends,
\* the agent repeats its own request among whatever others ask, and from some
\* point on calls end early only because a check refuses them (crashes and Forge
\* outages stop recurring).
Fairness ==
  /\ \A p \in Procs : WF_vars(Step(p)) /\ WF_vars(Fail(p)) /\ SF_vars(Retry(p))
  /\ <>[][\A p \in Procs : Fail(p) => ~ENABLED Step(p)]_vars

FairSpec == Spec /\ Fairness

-----------------------------------------------------------------------------
(* Properties *)

TypeOK ==
  /\ active \in Claims \cup {NoClaim} /\ ready \in BOOLEAN
  /\ spent \subseteq Claims
  /\ journal \in [Completions -> Records \cup {NoRecord}]
  /\ reservation \in Completions \cup {NoId}
  /\ receipts \subseteq Completions
  /\ labels \subseteq Labels
  /\ comments \in [Completions -> Nat] /\ inflight \in [Completions -> Nat]
  /\ head \in Heads /\ passed \subseteq Heads
  /\ lock \in Procs \cup {Free}
  /\ pc \in [Procs -> {"idle", "claimed", "unclaimed", "escalate", "hold", "check",
                       "lookup", "post", "recheck", "posted", "observe", "add",
                       "added", "clean", "remove", "removed", "handoff"}]
  /\ call \in [Procs -> Calls \cup {NoCall}]
  /\ todo \subseteq Primary
  /\ edits \in Nat

\* A completion that is still pending owns the Issue's only reservation, and the
\* claim it was reserved under is still the Issue's claim (none, for an unclaimed
\* one): neither a re-claim, a reclaim, GC nor a restart slips in between
\* (completion_mutation_blocked in every other writer).
PendingOwnsIssue ==
  \A c \in Journaled : journal[c].stage \in Pending =>
    /\ c = reservation
    /\ active = IF journal[c].gen \in Claims THEN journal[c].gen ELSE NoClaim

\* "Find or post exactly one Outcome Record" (posting.py): lost responses,
\* crashes before the journal write, retries and concurrent calls never post a
\* completion twice.
OutcomeOnce == \A c \in Completions : comments[c] <= 1

\* The journal never claims more than GitHub shows: from OUTCOME_POSTED on the
\* comment is on the Issue, and a receipt exists exactly for handed-off records.
JournalBacked ==
  \A c \in Journaled :
    /\ journal[c].stage # "reserved" => comments[c] > 0
    /\ journal[c].stage = "handed_off" <=> c \in receipts

\* A claim generation publishes at most one Outcome, whatever ids its callers
\* bring and however their calls interleave.
OneOutcomePerGeneration ==
  \A c, d \in Journaled : journal[c].gen = journal[d].gen => c = d

\* A published `done` carries a HEAD that passed local CI, and the token policy
\* allowed it, although both were decided before the lock was taken.
DonePublishedValidated ==
  \A c \in Journaled : journal[c].result = "done" /\ comments[c] > 0 =>
    journal[c].head \in passed /\ journal[c].decision = "allowed"

\* As long as nobody else edited a label, the Issue always has a status label,
\* at every step and after every crash of a completion, claim or reclaim.
StatusKept == edits = 0 => labels \cap (Primary \cup Protected) # {}

\* A not-needed Outcome that no local claim stands for is never visible without
\* the review hold that keeps dependents back (only the review, which is not part
\* of this module, takes the hold away).
ReviewHeld ==
  edits = 0 =>
    \A c \in Journaled :
      /\ journal[c].result = "not-needed" /\ comments[c] > 0
      /\ journal[c].gen \notin Claims \/ journal[c].gen \in CloudClaims
      => "hold" \in labels

\* At every step and every crash point the labels tell the Issue's status, and
\* hold back the dependents of what still has to be reviewed.
LabelsKept == StatusKept /\ ReviewHeld

\* Recorded history is immutable: no step rewrites what a journal record is
\* about, moves its stage back, drops a receipt or revises an allowed or
\* exceeded token decision.
StageRank == [s \in Stages |-> IF s = "reserved" THEN 1
                              ELSE IF s = "outcome_posted" THEN 2
                              ELSE IF s = "label_confirmed" THEN 3 ELSE 4]
HistoryStep ==
  /\ receipts \subseteq receipts'
  /\ \A c \in Journaled :
       LET old == journal[c]
           new == journal'[c]
       IN /\ <<new.gen, new.result, new.head>> = <<old.gen, old.result, old.head>>
          /\ old.decision # "unknown" => new.decision = old.decision
          /\ StageRank[old.stage] <= StageRank[new.stage]
HistoryKept == [][HistoryStep]_vars

\* Abstractly: one reservation after another, each published at most once,
\* while it is current, and before its handoff.
Outcomes == INSTANCE OutcomeLedger WITH
  current   <- reservation,
  used      <- Journaled,
  published <- {c \in Completions : comments[c] > 0},
  handedOff <- receipts

\* Reservation, journal, comments and receipts behave as a ledger of outcomes: what
\* was published or handed off stays so, across retries and stops (OutcomeLedger).
OutcomesSpec == Outcomes!Spec

\* No completion stays pending for ever while nothing stands in its way: the
\* HEAD is the reserved one, the token policy allowed it and no foreign status
\* label is on the Issue.
Unobstructed(c) ==
  /\ reservation = c /\ journal[c].stage \in Pending
  /\ journal[c].gen \in Claims => head = journal[c].head
  /\ journal[c].decision = "allowed"
  /\ ~Conflict(c)

\* Every completion that is left unobstructed leaves the pending stages in the end.
PendingProgresses == \A c \in Completions : ~<>[]Unobstructed(c)
============================================================================
