# Orchestune in TLA+

Orchestune (`src/orchestune`, Python) turns a plan into GitHub Issues, lets coding agents claim the
Issues, gives each claim a git worktree, takes the agents' completions, collects what is finished,
recovers what died, and integrates the results into a parent branch. Several processes act on the
same Issue: the agents' `orchestune claim` and `orchestune complete`, the dispatcher with its garbage
collectors, the integrator, and operators with `orchestune recover`. They share

* `run_state.json`, written atomically under a file lock (`infra/json_state.py`, `ledger/`),
* the worktree and, beside it, a claim marker file,
* GitHub: the Issue's labels, body and comments, and the remote's refs.

None of these can be written in one transaction with another, any process may die between two writes,
and humans edit labels and files at any time. That is what makes the code hard, and what the modules
are about.

This directory holds the TLA+ modules, the TLC configurations, the TLAPS proofs, and `PROJECT.json`,
which maps every definition that models code to its lines, names every run, and lists the hazards of
the code with the properties that cover them.

    tlc -workers 2 -config CompletionPublication.cfg MCCompletionPublication.tla
    tlapm CompletionPublicationProofs.tla

## 1. Inventory

State, operations and interactions of each part, what is hard about it, and what makes it correct.
"(M1)", "(M2)" ... mark what the modules below model, by their number in the table of section 2; "plan:" names
what is planned.

### The life of an Issue

* **Claim saga and ownership** (`claim/`, `worktree_ops/preparation.py`, `worktree_ops/claim_marker.py`) (M2).
  State: the active claim with its stage (reserved, active_saved, completed), the marker, the tree, the
  receipts of released generations. Operations: reserve, prepare (create, reuse, take over), mark, save,
  publish the claim id, label, finalize, roll back, resume, heartbeat, release. Hard: five stores written one after
  the other, each stop must be resumable; a retained worktree passes to another generation.
  Correct: one owner of the worktree; what run state, marker, receipts and Issue say agrees at each crash
  point; an interrupted claim can be resumed.
* **Claim admission and workspace** (`claim/admission.py`, `preflight.py`, `local_identity.py`, ...). Reads
  only; its verdicts are guards of M2. Claims of *different* Issues that conflict (`claim/ownership.py`) are
  plan: `ClaimConflicts`.
* **Completion of an Issue** (`complete/`, `ledger/completion_reservations.py`) (M1). State: the journal of
  completions with their stage (reserved, outcome_posted, label_confirmed, handed_off), the Issue's reservation, replay receipts.
  Operations: collect evidence without the lock, reserve or resume under it, hold for review, post the
  Outcome Record, transition the status label, hand off. Hard: posting is not idempotent and its reply may be
  lost; evidence is read before the lock and used under it; other writers must not pull the claim away.
  Correct: one Outcome per generation, posted once, backed by validated evidence; labels never vanish; a pending completion progresses.
* **Completion evidence and contracts** (`complete/ci_evidence.py`, `review_evidence.py`, ...). Reads and
  validation; M1 takes their verdict (a validated HEAD, a token decision) as input.
* **Completion garbage collection and zombie reclaim** (`dispatch/gc/collection.py`, `handoff.py`,
  `confirmed.py`, `zombies.py`) (M1, M2). State: the same entry, marker and tree; reclaim counters.
  Operations: verify the handoff, remove or retain the worktree, release the entry; back up and remove a
  dead agent's worktree, requeue, escalate. Hard: inspection and removal are apart; removal has three steps.
  Correct: uncommitted work is never destroyed, a retained worktree stays claimable, every launch is counted and every dead run settled (M6).
* **Completion policies** (`dispatch/gc/policies.py`, `policy_*.py`, `complete/not_needed_review_guard.py`) (M8). State: the
  policy fields of a completion record, the hold label, the verdict comments. Operations: hold, publish, start a reviewer
  once, read its verdict, time out, close or requeue, release the hold. Hard: the intent is saved before a request that cannot be
  repeated; dependents look at labels that three writers change. Correct: dependents are held until the verdict and the close, one
  reviewer per completion, every review ends.
* **Retries of a run that ended** (`dispatch/gc/completion.py`, `rule_chain.py`, `usage_limit.py`, `dispatch/retry_policy.py`) (M6).
  State: four counts with their "reserved" marks in the run state. Operations: reclaim, early-death retry, review-timeout retry, usage-limit
  requeue, escalation. Hard: a count, a label and a launch are three writes. Correct: launches never exceed the budgets, no count is lost or doubled, what waits for a human is not undone.
* **Blocked restart and external recovery** (`recovery/`) (M1, M2 in part). Operations: release, restore the
  marker, restart a blocked claim in place, release to review, recover external executions. Hard:
  restart moves a marker and an entry and must be repeatable from every crash point.
* **Status labels** (`ledger/status_labels.py`, `status_machine.py`, `status_events.py`, `escalation.py`,
  `labels.py`). A label transition adds the new label first, calls back, removes the old ones, reads back.
  Correct: the Issue never loses its status; the callback sees the new label. M1 has the completion's own transition, M10 that of the repair next to the others.
* **Run state codec and storage** (`ledger/run_state.py`, `*_codec.py`, `*_records.py`,
  `infra/json_state.py`). Write to a temporary file, fsync, rename: one atomic write in every module.
  Unknown records are preserved. Serialisation itself is not modelled.
* **Active worktree lifecycle** (`ledger/active_lifecycle.py`). A derived view of the fields of M1 and M2.

### The dispatcher

* **Dispatch cycle and scheduling** (`dispatch/cycle`, `filters.py`, `scoring.py`, `conflicts.py`,
  `critical_path.py`, `phase`). One cycle reads Issues and run state, admits a wave under conflicts and
  limits, and launches it. Correct: no two conflicting tasks run together, limits hold. Plan: `DispatchAdmission`.
* **Launch of agents** (M5) (`dispatch/launch`, `attempt_record.py`, `retry_policy.py`, `usage_limit.py`). A
  journal (prepared, unknown, launched) around a provider call that cannot be repeated safely. Correct: an
  unanswered launch is never blindly repeated; the quota of the window holds.
* **Status repair** (`dispatch/status_repair*.py`, `consistency`) (M10). State: a journal of label intents, reports of promotions, an
  event log. Operations: compare the labels with what run state and dependencies say, save an intent, check it afresh, add and remove
  labels, settle what an earlier cycle left, report. Hard: labels change between the reading and the writing; each of the five stores may be ahead of the others after a stop.
  Correct: one intent at a time, the Issue is never bare, a promotion is told once, an undisturbed cycle repairs. Reconciliation of executions and ownership is not modelled.
* **Other garbage collectors** (`dispatch/gc`: orphan worktrees, branches, logs, sessions). Removal
  guarded by ownership; after the ownership models.
* **Dispatch recovery, doctor, reporting, configuration**. Diagnostics and parsing; not modelled.
* **Semantic review runner** (`dispatch/semantic_review/lease.py`, `effects.py`, `evidence.py`, `postcycle.py`) (M3).
  State: the review states saved as comments of the PR; the claim a runner holds. Operations: restore the last
  state, acquire the claim, compare, promote a fix or adopt one, renew and save, release. Hard: it decides from
  what it read before it had the claim; the comment is not fenced; it may stop between fix and comment. Correct:
  saved states do not fork, the saved state follows the branch, a lost claim stops its holder.
* **Semantic review adapters and reviewers** (the rest of `dispatch/semantic_review`, `reviewer*.py`,
  `local_semantic_fix.py`). Triggers, prompts, the commands that run a reviewer: verdicts are inputs of M3.

### Integration, planning, tools

* **Semantic claim and publication of the parent branch** (`integrator/semantic_claim.py`, `attempt.py`) (M3).
  State: the claim ref (owner, generation, expiry), the temp and the parent branch. Operations: acquire, take
  over, renew, promote, publish, release, each an atomic push with leases, and the read-back that settles a
  push without an answer. Hard: answers are lost, pushes arrive late, an expired claim is taken while its owner still
  pushes. Correct: one writer of the protected refs at a time, each move forward, only the reviewed head is published, reports are true.
* **Integration timeout budget** (M4) (`integrator/timeout_retry.py`, `execution.py`). State: reservation, result, terminal
  and reset events, as comments. Correct: a reserved execution is not run twice, the budget counts confirmed timeouts only, and what stops can be released.
* **Finalization and closure of children** (`integrator/finalization*.py`, `child_issue_close.py`, `steps.py`) (M7).
  State: receipts and denial comments of the child, its labels, the child branch. Operations: merge, receipt, delete under a lease,
  label, close; count a refusal, escalate, watch, take back. Hard: every step is repeated by later runs from comments alone; agents push in between.
  Correct: nothing unmerged is deleted, no escalation early or twice, every integrated child ends closed or held with its escalation complete.
* **Cleanup of invalidated attempts** (`attempt_cleanup*.py`). Closed, deleted under the same lease, announced; not modelled.
* **Integration pipeline** (the rest of `integrator/`). Merge workspace, PR bodies, gates: an ordered pipeline of git and Forge calls.
* **Review rounds and semantic gate** (`review`). Rounds on a PR head; plan: after the integrator.
* **Dependency graph and resolution** (`dag/`, `dependencies/`). Pure algorithms: cycles, topological
  order, critical path, which predecessors release a task. Plan: `DependencyRelease`.
* **Provisioning and replanning** (`provisioning`, `replan`, `remediation`). Plan to Issues, resumable.
* **Installer** (M9) (`installer/`). A file transaction (stage, publish, commit, rollback, recover) with a
  journal. Correct: after any crash the recovery restores either the old or the new tree.
* **Forge clients** (`forge`), **infrastructure** (`infra`): calls to GitHub, git and the file system,
  modelled where they are used as external reads and writes that may fail.
* **Targets and workflow, configuration wizard, issue and metadata parsing, notices and monitor, entry
  points, scripts, site, tests**: parsing, rendering, read-only helpers and wiring; not modelled.

## 2. Modules and plan

| # | module | about | abstract specification |
|---|--------|-------|------------------------|
| 1 | `CompletionPublication` | completion of one Issue | `OutcomeLedger` |
| 2 | `WorktreeClaim` | claims of one Issue and their worktree | - |
| 3 | `SemanticClaim` | remote claim ref as a lease, fenced atomic pushes | `FencedRefs` |
| 4 | `IntegrationRetry` | reserved attempts, result events, execution budget | - |
| 5 | `LaunchAttempts` | journaled launches of cloud executions | - |
| 6 | `RetryBudgets` | runs that end, their retries and escalation | - |
| 7 | `Finalization` | receipt, branch deletion, closing and escalation of a child | - |
| 8 | `NotNeededReview` | review of not-needed completions | - |
| 9 | `InstallerTransaction` | staged file transaction and its recovery | `AtomicBundle` |
| 10 | `StatusRepair` | intents, repair passes and reports of label repairs | - |

Each has an `MC` module with the definitions of its instance and, where proved, a `Proofs` module. The state machines meet in the state they share, and each reduces
the others to what they do to it: M1 has claims and collections as single steps, M2 has completions so, M6 launches, M8 claims and
completions, M10 launches, completions and rollbacks.

What is left, in order: `IssueLife`, the composition of M1 and M2 on one entry; `ClaimConflicts`, claims of different Issues under
one lock; the cleanup of invalidated attempts; `DispatchAdmission`, waves under conflicts and limits; the pure algorithms of `dag/`
and `dependencies/` against reference definitions; release-to-review and external recovery.

To keep proofs possible, constants carry named assumptions, operations are actions of their own, and no module uses a RECURSIVE operator.

## 3. What the modules model

### `CompletionPublication`

One Issue; calls of `orchestune complete` in `Procs`; the other writers of the Issue.

| variables | code |
|-----------|------|
| `active`, `ready` | the Issue's entry of `active_worktrees` and whether its completion fields say HANDED_OFF |
| `journal`, `reservation`, `receipts` | `completion_journal`, `completion_reservations`, `completion_replay_receipts` of the run state |
| `spent` | claim ids already issued (uuid's never repeat) |
| `labels`, `comments`, `inflight` | the Issue on GitHub; a POST its client gave up on |
| `head`, `passed` | HEAD of the worktree, and (history) the heads on which CI passed |
| `lock`, `pc`, `call`, `todo` | the run-state lock, where each call is, what it carries, the labels its cleanup loop still visits |

`Begin` is the part of a call before the lock: it reads run state, CI evidence and the token
decision. `Reserve`, `Resume`, `ReserveUnclaimed` and `ResumeUnclaimed` start over under the lock
(`Revalidated`, `HeadValidated`) and save the record. Then one action per Forge call or save of
`publish_reserved_completion_locked`: `EnsureHold`, `CheckLabels`, `Lookup`, `Post`, `Recheck`,
`SavePosted`, `Observe`, `AddTarget`, `ReadAdded`, `BeforeRemove`, `Remove`, `ReadRemoved`, `Verify`,
`HandOff`. `EscalateLimit` is the refusal of an exceeded token limit. `Fail` ends a call anywhere: a refused check, a failed request, a lock
timeout and a crash release the lock and write nothing, so they are one step. `Claim`,
`ReleaseClaim`, `Collect`, `RestartBlocked` are the other writers, reduced to what they do to this state
and guarded the way the code guards them (`completion_mutation_blocked`, `completion_handoff_matches_active`).
`Commit`, `Arrive`, `EditLabel` are the environment.

Abstracted: one Issue of one repository; the fingerprint of a request is its result; bodies of Outcome
Records; adopted PRs, dry runs and legacy record formats.

`OutcomeLedger` is what the rest of the system relies on: completions are reserved one after another,
each is published at most once, while it is current, and the next is reserved only after the handoff.
`OutcomesSpec` is the refinement: reserved = in the journal, published = a comment exists, handed off = a
receipt exists. Its run (`CompletionLedger`) has one caller: that two calls race is what `OneOutcomePerGeneration` is checked for, and the theorem
`ImplementsOutcomeLedger` holds for any number of calls.

### `WorktreeClaim`

One Issue, its generations of claims, its worktree.

| variables | code |
|-----------|------|
| `holder`, `stage`, `result` | the entry of `active_worktrees`, its `claim_stage`, its handed-off completion |
| `journal` | the claim of the Issue's last handed-off completion |
| `released`, `heir`, `phase` | gc-release receipts, with `reclaim.new_claim_id` and `reclaim.phase` |
| `restarts` | `new_claim_id` of the restart-blocked receipts |
| `marker`, `tree` | the marker file and the worktree (absent, clean, dirty) |
| `published`, `label` | the claim id in the Issue body, the status label |
| `at`, `kind`, `previous` | the operation that holds the lock: its next step, whether it created the claim, the generations it may take the marker from |
| `issued`, `saved`, `outside` | history, and the count of what outsiders removed |

Every operation holds the run-state lock, so one operation is under way at most, but `Fail` may end it
between any two writes; agents and people (`Edit`, `Relabel`, `LoseTree`, `LoseMarker`) act at any moment, also in the
middle of an operation. The claim saga is `Reserve`/`Resume`, `NoReclaim`/`BeginReclaim`,
`TakeOver`/`Reuse`/`AddTree`+`Mark`, `SaveActive`, `Publish`, `SetLabel`, `Finalize`, with `Rollback` for
a new claim whose preparation created nothing. A new claim of the dispatcher goes on to the launch of its agent: `Launched`, or `LaunchFails`, which
removes the worktree by force, whoever created it and whatever is in it, and leaves the marker, and `BlockLaunch`; an interactive claim ends. Collection is `Collect` and the `Gc` steps; the reclaim of a dead agent is
`Reclaim`, `Backup`, `ReclaimTree`, `ReclaimMarker`, `Requeue`, `Settle`; recovery is `Release`, `RestoreMarker`, `Restart`
with its steps, and its repetitions `ResumeRestart` and `ReplayRestart`. A completion is one step
(`Complete`): its own steps are the business of `CompletionPublication`.

Abstracted: branch, path and base commit never differ; the reclaim counter and escalation; the hold on
external executions; conflicts with other Issues.

### `SemanticClaim`

The remote claim of one parent Issue, its workers: review runners (`Runners`) and the integrator's publishing calls (`Publishers`).

| variables | code |
|-----------|------|
| `ref` | the claim ref: its commit, and the owner, generation and remaining time that commit names |
| `branch` | tips of the temp and the parent branch |
| `saved`, `forked` | the last review state among the comments; whether two comments have the same revision |
| `late` | a push its client gave up on and that the remote may still apply |
| `pc`, `view`, `seen`, `held`, `push`, `failure` | a worker: its step, the state and the head it decides from, its `SemanticClaim`, the push under way and how it failed |
| `landed`, `author` | history: whether that push was applied; under which owner and generation a branch moved last |

A runner does `Observe` (`evidence.restore`), `Acquire` or `HeldByOther`, `Require` (`require_unchanged`), then any
of `Promote`, `Adopt`, `Renew` and `Save` (renewal and comment are two steps, as in `effects.py`), and `Release`. A
publisher does `Observe` (`validate_finalization_context`), `Acquire`, `Publish`. Every one of these writes is a push: it is started with the
leases it expects, and `PushAnswered`, `PushUnanswered`, `PushRefused`, `PushLost` say what becomes of it.
`ReadBack` and `ReadBackFails` are `_classify_failed_push` and `_reconcile_acquire`; `React` is what the caller
does with a refusal. The remote side is `LeasesHold` and `Applied`: all leases of an atomic push or nothing, where a ref that already
has its new value needs no lease. `Arrive`, `Intrude` and `Tick` are a late push, an outsider's push and time; `Fail` is a crash or an exception.

`PromptSave` says that a renewal and its comment are done before the renewed claim expires. Two requests seldom
take the 300 seconds of a claim, but no deadline ties them together, see section 6. `LatePush` says whether a push without
an answer may still be applied later.

Abstracted: a claim counts down instead of naming a date, and clocks agree; the owner is the pair of attempt and
holder; a review state is its revision, its head and whether it passed, so the phases and judgments of the review
are an arbitrary choice of what the next state is; a fix of head h is h + 1; the probe of the remote backend and the
deletion of fix branches. Runners have identities of their own (host and process id); publishers may share one (a GitHub user).

`FencedRefs` is what the integrator relies on: the claim passes on only when it lapsed, to a new generation, and the protected
branches move forward only by owner and generation of that moment. `FencedSpec` is the refinement; the claim is lapsed when no time is left.

`MCSemanticClaim` identifies states that differ in the names of claim commits only (`Unnamed`, a VIEW). Commits are compared,
never ordered, and a commit matters only by being the one the ref has, or the one another push creates. No property
names a commit except by such a comparison, so the view preserves them.

### `IntegrationRetry`

The integration cycles of one parent Issue.

| variables | code |
|-----------|------|
| `budget`, `seen`, `flight` | the fold of the event comments of the parent (`_Fold`), their events, POSTs that may land later |
| `label` | `status:blocked-human-review` of the parent |
| `holds` | the local hold records, by the generation stamped on them |
| `at`, `view`, `me`, `result`, `event`, `tries`, `absent` | the cycle that holds the parent execution lock: its step, the budget it loaded, its attempt, the event it writes |
| `unproven`, `spent`, `heldGens` | history: attempts nobody proved ended, attempts of this generation that were spent, generations held |

A cycle loads the budget (`Load`), stops, waits or goes on by its verdict, reserves an attempt and reads the reservation back, runs
dependency preparation, CI and the writing steps, and saves a result and, where one is due, a terminal event; every write is posted, perhaps lost or
late, and read back up to `Tries` times. What it cannot confirm it holds. An operator's reset opens a generation.
The bounds show in three places only: once the ids are used up a reservation counts as not confirmed; an operator resets only while no
live cycle holds a reservation; cycles stop at most `MaxCrash` times.

### `InstallerTransaction`

The skills of one bundle in one root, and the processes that install, migrate, update and uninstall it.

| variables | code |
|-----------|------|
| `root`, `manifest` | the skill directories (a version, edited by the user, a link, nothing) and the saved manifest |
| `lock` | the transaction lock |
| `tx`, `backup` | the transaction directory with its journal, and its backup directory |
| `run` | the step and the plan of each process |

Each file operation is a step: back up a skill, journal it, publish a skill, save the manifest, commit, clean up; and
so are the steps of a rollback and of the recovery that the next process runs. Looking at a backup of an uninstallation (`Clean`) and deleting it (`Erase`) are two steps. A process may die in each of them, an operation may fail, and a user may edit a skill between any two.
`StopsInRestore` and `LinkResolves` are the two hypotheses under which the old state is restored; section 6 shows what happens without them.

`AtomicBundle` is the promise: skills of a bundle change all at once. Under the refinement `Shown` the skills are
the old ones, wherever they lie, until the manifest is saved, and the ones in the root from then on.

### `LaunchAttempts`

The launches of the cloud executions of one parent's Issues by cycles that hold the run-state lock.

| variables | code |
|-----------|------|
| `label`, `journal`, `slots` | status and launch-attempt block of each Issue, launch history in the parent's body |
| `calls`, `alive` | the provider: executions started for an attempt, and those that still run |
| `disk`, `mem` | `run_state.json` and what the cycle has in memory: entries, launch history, released attempts |
| `at`, `todo`, `me`, `now`, `committed` | the cycle: its step, Issues to visit, Issue in hand, time, whether the reservation in hand may still be freed |

A cycle merges the histories (`RecoverHistory`), reconciles the journals (`RecoverIssue`, `Reconcile`), collects (`GcHold`, `GcReclaim`, `GcSettle`, `GcStale`,
`GcKeep`), schedules, and launches Issue by Issue: `Reserve`, one of the `Prepare` actions, `Claim`, `SaveLaunching`, `CommitLaunch`, `MarkUnknown`, `Call`, `MarkLaunched`,
`Record`, else `ReleaseSlot` or `Abort`. The environment is the end of an execution, a human who stops or requeues, a lost file, an operator who releases an
execution or, as `docs/en/usage.md` demands, removes a journal only when nothing runs. Nothing in the code removes a journal, so a reclaimed
execution of phase `launched` is adopted again and not relaunched.

### `RetryBudgets`

One Issue on a local target, its runs one after another, and the dispatch cycles that follow them.

| variables | code |
|-----------|------|
| `labels` | status labels of the Issue |
| `agent`, `tree`, `commits` | the last run and what is known of its end; its worktree; whether its branch has commits, and where |
| `disk`, `mem` | the run state saved and as the cycle holds it: the entry, the counts of reclaims, early deaths, review timeouts and usage-limit requeues, each with its "reserved" mark |
| `at`, `op`, `seen`, `held` | the step of the cycle, the way out of the run it carries out, the labels it read, whether an earlier phase held the worktree |
| `runs`, `manual`, `faults`, `crashes` | history and bounds |

A cycle goes through the rule chain (`rules`), the reclaim (`gc`), saves the count, kills, cleans up, relabels, settles and saves again,
repairs what an earlier one left, and may launch once more. Each step may fail or be the last. Left out: recovered pull requests, external
executions, interactive claims, the ways out over not-needed, a red base branch, an orphaned pull request and the token limit, and the
backoff between launches; an operator acts between cycles; a launch is one step.

### `StatusRepair`

One open Issue with declared dependencies, the cycle that repairs its labels, and what else changes them.

| variables | code |
|-----------|------|
| `labels`, `dep`, `hold`, `outcome`, `reserved` | the Issue: its status labels, whether its dependencies are done, whether a label forbids promotion, a blocked Outcome, the target of a pending completion |
| `writer` | another process between its two label writes (launch, completion, rollback) |
| `intents`, `reports`, `log` | the journals: intents, promotions to report, the event log |
| `at`, `stage`, `seen`, `late`, `todo`, `cmd`, `cur`, `tried`, `sending`, `calm` | the cycle: step and pass, what it read, the labels a late read may return, its commands, its intent, the line it writes |

A cycle settles pending intents, plans commands in three passes (dependencies, missing, conflicting labels), and for each one saves an
intent, checks it afresh, adds, removes and verifies; then it reports. A read may return the labels from before the cycle's last
write; a write may be refused or its answer lost. Left out: auxiliary labels, dry runs, unresolvable subtasks, promotions for merged work,
commands over several Issues; a launch begins between cycles only.

### `NotNeededReview`

One Issue, its completions one after another, the policy runner.

| variables | code |
|-----------|------|
| `labels`, `open`, `latest`, `verdicts` | the Issue: status and hold labels, open, the newest Outcome, verdict comments |
| `rec`, `active`, `backup` | run state: the record of the completion with its policy fields, the claim that prepares one, a lost state that may be restored |
| `at`, `heard`, `seen` | the lock holder: its step, the verdict and labels it read |
| `agents`, `shut`, `kinds`, `stops`, `edits`, `losses` | reviewers started, closes by the runner, history, bounds |

`Reserve`, `Hold`, `Post`, `AddTarget`, `DropActive`, `HandOff` are a completion; `Begin`, `Confirm`, `ReadVerdict`, `Intend`,
`Fire`, `Launched`, `Lookup`, `CheckTimeout`, `CloseIssue`, `Retarget`, `Prune`, `Release`, `Unhold`, `Settle` the runner. A stop may follow any step. Assumed: a review target is configured; a lost run
state is restored only while nothing newer was reserved; people requeue and do nothing else; posting and saving an Outcome are one step (M1 takes them apart).

### `Finalization`

One child Issue, its branch, the Integrator's runs one after another.

| variables | code |
|-----------|------|
| `parent`, `tip`, `denies` | commits in the parent branch, tip of the child branch, whether the remote refuses its deletion |
| `labels`, `open` | the child Issue |
| `receipts`, `latest` | integration receipts among its comments |
| `denied`, `terminals`, `over`, `newest` | `_History` of each commit as folded from the denial comments, and the commit of the newest one |
| `told` | comments on the parent Issue |
| `phase`, `run`, `had`, `sha`, `retry` | the run: its step, id, labels it read, the commit it finalizes, whether an earlier run merged it |
| `refused`, `dropped` | history: refusals by the remote, commits whose branch was deleted |

`Lookup` decides by labels, receipt and newest denial comment between merging, finalizing again, watching and closing; then
`Merge`, `UpdateParent`, `Receipt`, `Deleted`/`Moved`/`Denied`/`Absent`, `Include`, `Close`; `Count`, `Label`, `Tell`, `Terminal` for a refusal;
`Watch`, `Settle`, `Unblock`, `Requeue` for a blocked child. `Stop` after any step stands for a failed request, an answer lost and a
stop; a POST that lands long after is left out. Left out: completion of the parent, receipts without a pull request, notices, several children, and
branches whose receipt lacks the capability DELETE (`child_issue_close.py:161`, `steps.py:765`), which stay and are finished without a deletion. One Integrator
at a time, as the parent's lock demands; hosts that share no lock are unsupported (docs).

### Faulty variants

Next to some definitions stands a variant whose comment starts with "Faulty variant". Nothing uses it in
the specification. It is the same code with a plausible bug (a dropped guard, a forgotten stage, a swapped order);
put in the place of the definition it must break the property `PROJECT.json` pairs it with under that run's own
bounds. So every property of a passing run is known to be able to fail.

## 4. Runs

Every passing run is the module's whole next-state relation, under its fair specification where it has a liveness property.

| run | question | states |
|-----|----------|--------|
| `CompletionPublication` | Two concurrent calls for done or not-needed, two generations (one external), two ids, moving HEAD, crashes, lost replies, a foreign label edit: who owns the Issue, is an Outcome posted once, one per generation, and is a published `done` validated? | 1.8 M |
| `CompletionLedger` | One caller and one HEAD, but every result and token decision, a late POST, restarts, unclaimed completions and a label edit: is the journal backed by the Issue, are status and review hold there at each crash point, is every behaviour one of `OutcomeLedger`, does a pending completion that nothing obstructs get on? | 498 K |
| `WorktreeClaim` | One dispatched and two interactive generations, every operation stopped anywhere, a launch that fails, a removal by an outsider: who owns the worktree, do run state, marker, receipts and Issue agree, is what was retained kept and claimable, is work destroyed by anything but the launch, is an interrupted claim or restart finished? | 206 K |
| `SemanticLate` | One runner and one publisher, lost answers, refusals, crashes, expiry at any moment, an outsider, and pushes applied after their caller gave up: does one call hold the claim, is the fence tight, is only what passed published? | 305 K |
| `SemanticProgress` | Under fairness, is the head that passed published when all other workers are gone? | 98 K |
| `IntegrationRetry` | Cycles with lost, late and unconfirmed comments, crashes, failed stops and resets: does an attempt run beside an unproven one, is the limit of a generation kept and no attempt lost from the count, does a hold block, does a parent only a human can release reach one? | 586 K |
| `InstallerTransaction` | Two consumers, two versions, failing file operations, a death, a user who edits: do skills change all at once, is the manifest true and what is left recoverable, are edits kept, does every operation end and give the lock back? | 803 K |
| `LaunchAttempts` | Two Issues, two faults, three acts of operators, two times: does nothing run twice, is the quota kept, is everything that runs in a journal, is no handle dropped, does an unknown call get an answer or a human? | 878 K |
| `RetryBudgets` | One reclaim, one review timeout and one usage limit that requeue, an operator, a fault and a stop: are launches bounded and counted, is an escalation undone, is a reserved reclaim counted twice, is every dead run settled? | 1.63 M |
| `StatusRepair` | One external event, one relabelling, one fault and one stop next to the cycles: one intent at a time, is the Issue ever bare, is a promotion told once, does a calm cycle repair, do labels settle? | 198 K |
| `NotNeededReview` | Two completions of every kind, one stop, one requeue, one loss of the run state: are dependents held, is one reviewer started, does every review end? | 525 K |
| `Finalization` | Two commits, five run ids, limit two, two pushes, two acts of a person, one fault or stop: is unmerged work deleted, is an escalation early or told twice, does an integrated child end? | 556 K |

**Bounds, and why they are enough.** Two calls are the smallest race for the lock; a third would repeat
the role of one of them, since a call keeps nothing after it returns. Two claims and two ids let one
generation follow another and a foreign id collide with an own one; one claim is local, one external, because
the review of a not-needed result depends on it. Two heads let CI evidence be about another commit.
`MaxLate` is 0 where exactly-once is checked (that is the assumption under which it holds) and 1 where it
is not. A label edit hits every pair of label observations of one transition. For
worktrees, three generations make a chain: one released, one that only prepared, one that supersedes or restarts it; `MaxOutside` of 1 removes
the tree or the marker. The proofs remove these bounds for safety: they hold for any number of callers, generations, completions, heads, edits and removals (and
any `MaxLate`, except `PostedAtMostOnce`).

For the semantic claim two workers are the smallest race for a claim, and a worker that crashes may come back as a third. Two generations
let a claim be taken over and its loser act; two revisions let two workers save the same one; two heads
let a fix be promoted, not saved, and adopted. A `TTL` of 1 makes a claim expire between any two
steps, 2 lets it be half used. Ten commit names are more than can exist at one time in these instances, so the
lack of a name never stops a push. Two runners are left to the proofs.

For the timeout budget one retry and three ids give a first attempt, its retry and one after a reset; the proofs hold for all numbers. For the
installer two versions that share a skill and differ in one, three transactions, a death and a failure give a failed transaction,
a recovery and one more; processes come one at a time, because the lock serialises them. For the launches the faults are a lost answer, a refused call and a crash; times are capped, and all
cycles after the last share it, which the merging of histories by counts allows; the window is longer than a behaviour, so no slot expires.

For the retries one of a reclaim, a review timeout (the budget of two counts the attempt that escalates) and a usage limit exercises each count next to the others, and an early death escalates at once; the instance that
allows one early death as well passes too, but its 3.8 M states take more than four minutes, so it is no run. `MaxManual` of 1 starts a second life. For the repair
one of each disturbance hits every step of a cycle; what a cycle leaves half done is met by the next. For the review two completions let one be
superseded at every step of the other's review. For the finalization two commits let the tip move, two runs reach the limit, and five ids and four terminal comments are
more than the acts allow to use up: that the count ends for want of a number never happens (three acts would need more). A limit of two shows what the code's three does; the proofs hold for every limit.

Deadlock is checked in the runs whose cfg does not say otherwise (`CompletionPublication`, `WorktreeClaim`, `IntegrationRetry`, `InstallerTransaction`,
`LaunchAttempts`, `StatusRepair`). The others end: in `CompletionLedger` the claims and ids are used up; in the semantic runs nobody
can take a claim after the last generation and a published review leaves nothing to do; in `RetryBudgets`, `NotNeededReview` and `Finalization` the Issue is settled or closed and the acts of others are used up.

**Fairness.** `CompletionLedger`: a call that runs takes its next step or ends (the process is scheduled, every
Forge call has a timeout); the agent repeats its own request among whatever others ask (strong fairness of
`Retry`, because others may hold the lock in between); and from some point on a call ends early only because a check
refuses it, i.e. crashes and outages do not go on for ever. Without the last one the code promises no progress, as it has no retry of its own:
it is the documented duty of the agent to repeat `complete`. `WorktreeClaim`: the same for the lock holder, with
strong fairness of `Resume` and `ResumeRestart` (the owner runs `claim --resume`, the operator repeats
`recover --restart-blocked`). Nobody else is assumed to do anything. Both properties have the form
`~<>[]P`: the system does not stay for ever in a state where the completion or the claim is pending and nothing
obstructs it. `SemanticProgress`: time passes and a worker that runs takes its next step (weak fairness of `Tick` and
`Step`); the dispatcher starts the integrator again in every later cycle (`Observe` of a patient publisher), and
outages and refusals do not go on for ever, i.e. of infinitely many tries to acquire and to publish one is answered
(strong fairness, for these two kinds of push only). `IntegrationRetry`: cycles keep coming and take their steps, and GitHub does not refuse the
escalation for ever (strong fairness of that one write). `InstallerTransaction`: a process that runs takes its next step. `LaunchAttempts`: cycles keep
coming (the dispatcher is a periodic job) and none hangs, because every call has a timeout. `RetryBudgets`: cycles keep coming and time passes.
`StatusRepair`: cycles keep coming, and a process that added its label removes the old one. `NotNeededReview`: the runner begins again, the holder of the
lock goes on, time passes; a reviewer need not answer. `Finalization`: runs with new ids come again and again (strong fairness, a run may be under way) and a run goes on. Faults and acts are bounded in
all of these, which stands for "not for ever". Other workers get no fairness to begin anything: a liveness property is about what they leave behind.

## 5. Proofs

`CompletionPublicationProofs`, `WorktreeClaimProofs`, `AtMostOnceProofs` (of `SemanticClaim` and `LaunchAttempts`), `IntegratorProofs` (of `IntegrationRetry` and `Finalization`), `NotNeededReviewProofs`,
`InstallerTransactionProofs`, `RetryBudgetsProofs` and `StatusRepairProofs` prove, for all values of the constants, every safety invariant and every action property that the
runs of their modules check, and the refinements of `OutcomeLedger`, `FencedRefs` and `AtomicBundle`. They also prove what no run checks:
`HistoryImmutable` (no record is rewritten or moves back), `HonestReports` (a push reported as failed changed nothing), `StatesNeverFork` and `FixesRecorded` (see below), and
the parts of the conjunctions (`PhasesAgree`, `RetainedStaysClaimable`, `SpentIsBounded`, ...).

**Assumptions.** On the constants only, named, and checked by TLC in the runs: `CloudAssumption`, `DecisionAssumption`,
`BoundAssumption`, `DistinctAssumption` and `RecordAssumption` (external claims are claims; results and decisions are among those
the code knows; bounds are numbers; claims, ids and the null values differ), `ClaimAssumption` and
`OutsideAssumption`; for the semantic claim `IdentityAssumption`, `OidAssumption`, `BoundAssumption`, `PatientAssumption`,
`FlagAssumption`, `HeadAssumption`, `NullAssumption` and `RunnerAssumption` (no two runners share an identity). `RetryAssumption`, `LaunchAssumption`, `ReviewAssumption`, `FinalizationAssumption`, `BudgetAssumption` and `InstallerAssumption` say that bounds are numbers, Issues are finitely many, and null values, versions and edits differ.
`PostedAtMostOnce` assumes `MaxLate = 0` besides, and the theorems of the installer what excludes the divergences 7, 8 and 9; section 6 says why.

**Completion.** None of the invariants is inductive alone. `PendingOwnsIssue` needs that the lock holder
works on the reservation and its stage (`LockedOwner`, `StepMatchesStage`), since the publication steps write through
`reservation` without looking at the journal again. `OutcomeOnce` needs that a process at `post` has seen no comment and that
nobody else can post in between, again by the lock, and that nothing is in flight (`NothingLate`). `DonePublishedValidated` needs that evidence in a waiting call was really
collected (`EvidencePassed`) and that only allowed records go past the select (`OnlyAllowedPosted`). `OneOutcomePerGeneration`
rests on the select under the lock (no record of the active generation exists when one is reserved) and on
`OwnGeneration`, which keeps the generations of unclaimed completions apart from claims and from each other. `IInv` is the conjunction; it is preserved action by action, and the theorems
`TypesHold`, `PendingNeverStranded`, `PostedAtMostOnce`, `GenerationsPublishOnce`, `DoneIsValidated`,
`JournalNeverAhead` follow. `HistoryImmutable` and `ImplementsOutcomeLedger` are step theorems from the same
invariant: `Post` and `Arrive` map to `Publish` or a stutter, `HandOff` to `HandOff` (a published, current
completion: `JournalBacked` and `PendingOwnsIssue`), the reservations to `Reserve` (`PreviousHandedOff`).
`LabelsAreKept` looks at the one place where a transition takes labels away: while it removes the old ones the new one
is there (`Emptying`), because the new one was added before and only the lock holder writes; and a visible Outcome of a not-needed
completion (`Visible`) was posted after its hold was added (`HoldFirst`).

**Worktrees.** The strengthening says what each step of an operation may rely on: `StepRecords` (run state and receipts at that step)
and `StepDisk` (marker and tree), besides `IssuedFirst` (only issued ids occur), `StageTold` and
`HeirsTold` (what a stage or a receipt's phase says about whether that generation was ever saved), and `Lineages` (taking over and restarting give
different generations, and a generation that may get the marker next has no receipt). `RetainedInv` is what makes `RetainedClaimable` stay true: the receipt
the marker names is that of the Issue's last completion, and nobody who took it over was saved. From `IInv`:
`ClaimTypes`, `SavedClaimOwns`, `PhasesAgree`, `RetainedStaysClaimable`, `RetainedIsKept`,
`FinalizedPublished`, together `StoriesAlwaysAgree`, and the step theorems `MarkerHandover`, `InheritanceFinal`, `WorkKept`.
`WorkKept` needs the invariant for its exception: what a failed launch removes is the worktree of the launched claim, which is finalized, has no completion, and is
named by the marker unless an outsider removed it (`StepRecords`, `StepDisk`); no other step removes a dirty worktree, and collection looks, then lets git refuse.

**Semantic claim.** The first part of `AtMostOnceProofs` needs no assumption about timing: it holds with late pushes and slow saves. Its invariant follows the claim
commits. The nonce makes every new commit unknown to everybody (`Known`), so that two pushes never create the same one, a commit
under way is not the remote's yet, and one that was replaced is never the remote's again; hence whoever still expects the
remote's commit believes the truth about it, and of the pushes that expect it the first one that is applied fences off all others.
`SemanticTypes`, `HolderIsUnique`, `HonestReports` and `ImplementsFencedRefs` follow; in the refinement every push that is applied, late or not, is `Take`, `Keep` or
`Move`, by whether it is a takeover and whether its branch moves. Its second part builds on that invariant and assumes `PromptSave`. Its
invariant `RInv` says that a worker whose claim was taken over is dead to the remote (none of its pushes can be applied any more, and it is not about to save), that
the one who holds the remote's claim after `Require` decides about the state that is saved, and that nobody else is about to save.
From it: `StatesNeverFork`, `FixesRecorded`, `OnlyReviewedPublished`.

**Launches.** The second part of `AtMostOnceProofs` has three strands. Attempts: numbers are issued before a journal or an execution can name them, and an attempt whose journal says
"prepared" was never started (`JournalSound`, `JournalInHand`); so the one step that calls the provider calls it for an attempt that was not, and a new attempt is only prepared
when no journal is left, hence, by `RunningIsJournaled`, when nothing runs. Handles: what the cycle holds and the file may differ, but not on a saved handle whose execution runs
(`RunsHeld`), and an Issue in hand has none (`EntryInHand`), which every later save relies on. Slots: executions and the reservation in hand are at most the slots in the parent
(`SlotsCover`), these and the launches still wanted at most the limit (`SlotsFit`), which holds when a cycle schedules because its merged history is never below the parent's
(`SlotsSeen`). Launches are counted as the cardinality of a finite set (`OneMore`, `OneLess`, `NoMore`). `ExecutionsAreAccounted` and `HandlesAreKept` follow.

**Timeout budget.** `IntegratorProofs` follows an attempt from its reservation to its result: as long as nobody proved it ended, its
reservation is open in the fold, or the attempt blocks, or the history is broken (`OpenOrBlocked`); a cycle only starts an attempt when
none of the three is true (`StartsClear`). The count of an intact history that lets the parent go on is the number of attempts that timed out (`CountIsSpent`,
`PendingCount` for the one being written). From it `AttemptsRunAlone`, `SpentIsBounded`, `CountIsKept`, `ResetAccepted` (together `BudgetIsKept`), and, if the comments can be read when
a hold is written, the step theorem `HeldGenerationRests`.

**Not-needed review.** `HeldUntilPassed` speaks of labels, which the completion, the runner and people write. Its strengthening says which completion
each record, claim and comment belongs to, that the hold precedes the Outcome and the Outcome the label, what the
runner has heard and read at each step, and that a label `not-needed` without a hold is one that was exempt or passed and closed. `ReviewedOnce` needs that no reviewer
exists without a saved intent, and that a restored run state is never older than the intent.

**Finalization.** `NothingLost` needs what was merged and has a receipt at each step (`Merged`), which the lease then turns into "what is deleted was
merged". `EscalatesRightly` needs that a count names refused runs only (`CountsReal`), that an escalation goes on at the limit, and that the parent is told
before the terminal comment is written (`ToldFirst`); cardinalities of finite sets are the library's.

**Retry budgets.** `LaunchesAccounted` counts launches against what the ledger has paid for. Its strengthening `Covered` says what each version of the ledger
(on disk, and in the running cycle, since either may be loaded next) has in hand: while an execution is recorded, the counts also cover every retry that is reserved and not carried
out (`Owed`), and once neither an execution nor a human keeps the Issue from a launch they cover one launch more than there were. Each change of a ledger has
a lemma that it keeps these books (`ReservedFits`, `SettledFits`, `LaunchedFits`, ...); `Carries` and `Decided` say which reservation a step of a way out may rely on. `NothingUndone`
needs that the cycle's ledger is the saved one when a retry is reserved (`Loaded`), and that a count is ahead of the disk only for a dirty worktree that is held (`CountLags`).

**Status repair.** `RepairSound` is not inductive for three reasons, and the strengthening has a part for each. What a cycle holds (`Control`): its
pass, the commands still to be taken and the one in hand are those one policy can give together, all of them wanting the same label. What the journals say (`Journals`): the
pending intent is the one in hand or one of an earlier cycle, marked only after its label was written, and a report waits, is being sent or
is logged, never two of them (`SendingFresh`). What the label writers rely on (`LabelsSafe`, as long as people leave the labels alone): a
writer between its two requests has the new label on the Issue, a stale read of the cycle is the labels of a moment ago (`LateLabels`), and the command in hand never takes the last
label (`OrdersKeep`). `OneCycleRepairs` follows a cycle that nothing disturbs: the state it read decides which of its three passes does the work (`TurnOf`), before that pass the
labels are as read, after it they are the goal (`CalmState`). It needs `Final = Codes`, a configuration that lets the last pass repair everything; with less the cycle reports and leaves the
Issue, as documented. `MaxFaults`, `MaxEdits`, `MaxEvents` and `MaxCrashes` are any numbers.

**Installer.** The theorems assume `Excluded`: there is one process or one consumer (then nobody adds a consumer beside a transaction; the model says what happens else),
a rollback of an installation is not stopped halfway, and a link made by hand can be moved back or there is none. With one consumer any number of processes take the lock from each other.
`IInv` has the invariants of the disk and of the processes. On the disk, journal, backup directory and manifest agree whoever left them there (`Pending`, `Removal`): what is backed up belongs to the
version the journal names, an installation is committed exactly when the manifest carries its id, and a removal that is not committed has each skill in exactly one of its two places. Of the
processes, whoever is at a step of a transaction has the lock (`LockHeld`), and may rely on what lies where (`Building` up to the commit, `Undoing` in a rollback or a recovery). The heart is
`Shown`: every step but the saving of the manifest and the user's edit leaves what is shown as it was (`IdleShown`, `BuildShown`, `UndoShown`), so the save alone is `Put` or `Remove` (`SaveShown`,
`EditShown`); the skills shown are those of the manifest (`ShownTrue`), and with nothing pending what is shown is what lies in the root. `DiskIsTrue`, `InstallsAtomically` and `UninstallKeeps` follow;
the last rests on `EraseLooked`: a backup is deleted next only if the step before recognised it, so an edit made until then, in the root or in the backup, is never set to be deleted.

**Only model-checked.** The liveness properties (`PendingProgresses`, `InterruptedResumes`, `PassedIsPublished`, `StoppedEscalates`,
`EveryOperationEnds`, `UnknownEnds`, `DeadIsSettled`, `RepairEnds`, `ReviewEnds`, `ChildSettles`), which are out of the prover's reach.

## 6. Known divergences

What the code does and the repository says otherwise. Each was met while a module was written and seen in a counterexample of it; no run shows them now.
Where a property would fail because of one, the module has a constant that excludes it, or the property a named exception, given in brackets.

1. `complete/posting.py:122` says "Find or post exactly one Outcome Record". If GitHub accepts the POST after the code looked again, the retry posts a
   second one, with the same completion id. [`OutcomeOnce` is checked with `MaxLate = 0`.]
2. `claim/worktree_reclaim.py:14` promises that an interrupted claim resumes "with the same old/new pair". `superseded_claim_ids` (line 238) is written and never read, so a takeover
   that moved the marker, was released, and whose successor stops before it moves it leaves a marker no receipt names. [`InterruptedResumes` asks for a marker that is named.]
3. `dispatch/worktree.py:176` says the removal of a worktree must clear its marker. A reclaim (`gc/zombies.py:592`) that stops between the two, or whose removal git refuses unheard (605), requeues without.
4. `docs/en/architecture/integration.md:59` says the runner advances "under remote claim exclusivity". `save` (`semantic_review/effects.py:180`) renews the claim and then posts a comment that no
   lease guards; if the two take longer than the claim lasts, two workers save states of one revision. [`PromptSave`.]
5. `docs/en/usage.md:893`: "A hold blocks new CI for its parent until a reset opens a newer generation". A hold written while the comments cannot be read is stamped generation 1 (`integrator/execution.py:455`). [`HoldReadFails`.]
6. `docs/en/architecture/state-recovery.md:37`: "An unreadable, conflicting or unresolved history starts nothing". The read-back of a reservation (`timeout_retry.py:596`) never looks at the verdict of the history it reads.
7. `installer/transaction.py:942`: the rollback removes what its journal lists as published and restores the old skills without telling the journal; repeated after a stop it deletes what it restored
   (compare `tests/test_installer_transaction.py:154`). [`StopsInRestore`.]
8. `installer/engine.py:106` reads and saves the manifest without the lock of the transactions (line 162); a transaction in between loses its entry, and a consumer added while a dead process's uninstallation is pending
   makes every recovery refuse. [The run has one process at a time.]
9. `installer/transaction.py:735` skips in the restore what does not `exists()` in the backup directory, such as a relative link (`docs/en/setup.md:159`). [`LinkResolves`.]
10. `docs/en/usage.md:197` says of `prepared`: "resume the same attempt ID". A cycle that stops after it saved "launching" (`launch/service.py:696`) and before the journal says "unknown" leaves an entry nothing resumes. [Not claimed.]
11. `docs/en/status-labels.md:312`: a dead run goes back to the queue. One whose reclaim stopped after its worktree was removed and of which the remote shows no commit is left by each phase to the other (`gc/completion.py:140`). [`Stranded`.]
12. `worktree_ops/preparation.py:330` says of a worktree that was taken over: "created=False keeps launch-failure rollback away from the retained work". The launch treats every worktree as one it created
   (`dispatch/worktree.py:308`): when it fails, `git worktree remove --force` and `rmtree` remove it without a look or a backup. The marker stays; compare 3. [`LaunchUndone`.]
13. `docs/en/status-labels.md:400`: an intent is settled by a later cycle. One whose label no later command wants stays pending (`status_repair.py:660`). [`Conflicting`.]
14. `docs/en/verification-contracts.md:85`: a promotion is reported. One whose answers are lost twice is verified as somebody else's and never told (`status_repair.py:433`). [`marked`.]
15. A refusal between the close of a not-needed Issue and the release of its hold (`gc/policy_review.py:53`) leaves it closed with a queued label.
16. A hold is stranded when a claim takes the Issue after the withdrawal and before the release. [`Superseded`.]
17. `docs/en/architecture/integration.md:144`: who removes the blocked label starts the count from zero. Removed before the terminal comment is saved, it does not (`finalization_retry.py:211`).
18. The same line says the child ends "closed and unlabeled". When the removal of the label fails the child is closed with it (`finalization_retry.py:386`).
19. The docstring of `latest_blocked_proof` (`finalization_retry.py:164`) says of the receipts that "the lookup returns the oldest"; `_select_receipt` (`finalization.py:348`) returns the newest. [The model follows the code.]
20. `tests/test_installer_uninstall_transaction.py:552` wants a changed backup preserved. What a user writes into a backup between the look at it (`installer/transaction.py:838`) and
   its deletion (844) is deleted. [`Erasing`.]

## 7. Not modelled

Besides the components of the plan: what GitHub, git and CI compute; the text of Outcome Records, notices and prompts; serialisation and
legacy formats of the run state; command-line parsing, configuration, reporting and diagnostics; the file lock itself, which is taken as
mutual exclusion that dies with its holder (`infra/`); time, except where a module needs a lease or a timeout.
Of the modelled components, what is left out is named with their modules in section 3 and in `PROJECT.json`.
