---------------------------- MODULE RetryBudgets ----------------------------
(***************************************************************************)
(* The retry budgets of one Issue that dispatch runs on a local target:    *)
(* the cycles of the dispatcher that find its run dead, overdue, stopped   *)
(* on a usage limit or blocked on a review, and that put the Issue back in *)
(* the queue or hand it to a human (dispatch/gc/rule_chain.py,             *)
(* completion.py, usage_limit.py, zombies.py, retry_policy.py).            *)
(*                                                                         *)
(* Each way back has its own budget in the local ledger: a count and the   *)
(* flag "pending" of a retry that was counted and may not have been        *)
(* carried out.  The ledger, the worktree and the labels on GitHub change  *)
(* one after the other, every save and every request may fail, an answer   *)
(* may get lost, and the dispatcher may stop between any two steps.        *)
(***************************************************************************)
EXTENDS Naturals

CONSTANTS
  MaxReclaims,    \* max_task_reclaims: reclaims of one Issue that requeue it
  MaxDeaths,      \* max_early_death_retries: requeues after an early death
  MaxTimeouts,    \* max_review_timeout_retries: the last attempt escalates
  MaxLimits,      \* max_usage_limit_retries: requeues after a usage limit
  MaxManual,      \* bound: relabellings by an operator
  MaxFaults,      \* bound: saves, requests and git commands that fail
  MaxCrashes      \* bound: stops of the dispatcher inside a cycle

ASSUME BudgetAssumption ==
  /\ {MaxReclaims, MaxDeaths, MaxLimits, MaxManual, MaxFaults, MaxCrashes} \subseteq Nat
  /\ MaxTimeouts \in Nat \ {0}

VARIABLES
  labels,    \* the status labels of the Issue on GitHub
  agent,     \* the last run: alive or not, and what is known of its end
  tree,      \* the worktree of the Issue
  commits,   \* where the branch is ahead of its base
  disk,      \* the ledger as saved
  mem,       \* the ledger as the running cycle holds it
  at,        \* the next step of the cycle, "off" between cycles
  op,        \* the way out of the run that the cycle carries out
  seen,      \* the labels read when the cycle began
  held,      \* an earlier phase of the cycle held the worktree
  runs,      \* launches so far
  manual, faults, crashes   \* relabellings, failures and stops so far

world  == <<agent, tree, commits>>
cycle  == <<op, seen, held>>
counters == <<runs, manual, faults, crashes>>
vars == <<labels, world, disk, mem, at, cycle, counters>>

(* Ways out.  "reclaim" (an overdue or vanished run), "death", "timeout"   *)
(* (of a review) and "limit" put the Issue back; a name with Stop is the   *)
(* same way with its budget spent.  "kept" is a reclaim of an Issue that   *)
(* already waits for a human, "unsaved" one whose work could not be backed *)
(* up, "dirtyStop" a dirty worktree held too often, "stop" a run that ended*)
(* with nothing to retry.                                                  *)
Requeues == {"reclaim", "death", "timeout", "limit"}
Stops    == {"reclaimStop", "limitStop", "unsaved", "dirtyStop", "stop"}
Ways     == Requeues \cup Stops \cup {"kept"}
Reclaims == {"reclaim", "reclaimStop", "kept", "unsaved"}

Target(way) == IF way \in Requeues THEN "queued" ELSE "review"

Empty == [entry |-> FALSE, started |-> FALSE,
          count |-> 0, pend |-> FALSE, death |-> 0, deathPend |-> FALSE,
          review |-> 0, reviewPend |-> FALSE,
          limit |-> 0, limitPend |-> FALSE, limitRun |-> 0]

NoRun == [alive |-> FALSE, limit |-> FALSE, blocked |-> FALSE,
          early |-> FALSE, late |-> FALSE]

-----------------------------------------------------------------------------
(* The budgets.                                                            *)

(* Whether a retry may be taken: one already reserved is resumed.          *)
Allowed(max, count, pending) == pending \/ count < max
Spend(count, pending) == IF pending THEN count ELSE count + 1

MayDie(m)  == Allowed(MaxDeaths, m.death, m.deathPend)
MayWait(m) == Allowed(MaxTimeouts - 1, m.review, m.reviewPend)

(* A usage-limit reservation counts for the run that made it only.         *)
RunId(m)    == IF m.started THEN runs ELSE 0
OwnLimit(m) == m.limitPend /\ m.limitRun = RunId(m)
MayLimit(m) == Allowed(MaxLimits, m.limit, OwnLimit(m))

(* A bug: a reclaim more than the budget.                                  *)
ExceedsLate(count) == count > MaxReclaims + 1
ReclaimCount(m) == Spend(m.count, m.pend)
Exceeds(count)  == count > MaxReclaims

(* The ledger with the retry of a way reserved.                            *)
Reserved(m, way) ==
  CASE way \in {"reclaim", "reclaimStop"} ->
         [m EXCEPT !.count = ReclaimCount(m), !.pend = TRUE]
    [] way = "death"   -> [m EXCEPT !.death = Spend(@, m.deathPend), !.deathPend = TRUE]
    [] way = "timeout" -> [m EXCEPT !.review = Spend(@, m.reviewPend), !.reviewPend = TRUE]
    [] way = "limit"   -> [m EXCEPT !.limit = Spend(@, OwnLimit(m)), !.limitPend = TRUE,
                                    !.limitRun = RunId(m)]
    [] OTHER -> m

(* The ledger with the execution released and the reservation confirmed.   *)
Settled(m, way) ==
  [m EXCEPT !.entry = FALSE,
            !.pend = @ /\ way \notin Reclaims,
            !.deathPend = @ /\ way # "death",
            !.reviewPend = @ /\ way # "timeout",
            !.limitPend = @ /\ way \notin {"limit", "limitStop"}]

(* A backup that failed keeps the execution; only the reservation ends.    *)
Unreserved(m) == [m EXCEPT !.pend = FALSE]

(* A reclaim that failed on GitHub is marked so that the next cycle        *)
(* reclaims it again instead of judging its worktree.                      *)
Marked(m) == [m EXCEPT !.started = @ /\ agent.alive]

Fault == faults < MaxFaults /\ faults' = faults + 1
Works == UNCHANGED faults

(* A save either reaches the disk or fails; most are repeated at the end   *)
(* of the cycle.                                                           *)
Save(m) == mem' = m /\ disk' = m /\ Works
Try(m)  == Save(m) \/ (mem' = m /\ UNCHANGED disk /\ Fault)

-----------------------------------------------------------------------------
Init ==
  /\ labels = {"queued"} /\ agent = NoRun /\ tree = "none" /\ commits = "none"
  /\ disk = Empty /\ mem = Empty
  /\ at = "off" /\ op = "none" /\ seen = {} /\ held = FALSE
  /\ runs = 0 /\ manual = 0 /\ faults = 0 /\ crashes = 0

Goto(step) == at' = step
Begin(way, step) == op' = way /\ Goto(step) /\ UNCHANGED <<seen, held>>
(* Whatever a phase did or held, the same cycle does not try it again.     *)
Leave == op' = "none" /\ Goto("repair") /\ UNCHANGED <<seen, held>>
Hold  == held' = TRUE /\ Goto("gc") /\ UNCHANGED <<op, seen>>
Skip(step) == Goto(step) /\ UNCHANGED cycle

(* An error nobody catches ends the cycle without its last save.           *)
Gone  == mem' = disk /\ op' = "none" /\ seen' = {} /\ held' = FALSE /\ Goto("off")

(* A cycle loads the ledger and reads the labels, after the recovery has   *)
(* requeued an Issue in progress that no entry and no worktree backs.      *)
Start ==
  /\ at = "off"
  /\ mem' = disk
  /\ LET lost == "progress" \in labels /\ "review" \notin labels
                   /\ ~disk.entry /\ tree = "none"
     IN  /\ labels' = IF lost THEN {"queued"} ELSE labels
         /\ seen' = labels'
  /\ Goto("rules") /\ UNCHANGED <<world, disk, op, held, counters>>

-----------------------------------------------------------------------------
(* The rules for the recorded execution, in their order.                   *)

Judged == mem.entry /\ "progress" \in seen /\ mem.started /\ ~agent.alive

(* Nothing to judge: no entry, a stale one, a run that lives, or one that  *)
(* is left to the reclaim.                                                 *)
NotJudged ==
  /\ at = "rules" /\ ~Judged
  /\ Skip("gc") /\ UNCHANGED <<labels, world, disk, mem, counters>>

LimitExit == agent.limit /\ ~agent.blocked

JudgeLimit ==
  /\ at = "rules" /\ Judged /\ LimitExit
  /\ Begin(IF MayLimit(mem) THEN "limit" ELSE "limitStop", "save")
  /\ UNCHANGED <<labels, world, disk, mem, counters>>

(* A dirty worktree is held, and each hold counts as a reclaim.            *)
JudgeDirty ==
  /\ at = "rules" /\ Judged /\ ~LimitExit /\ tree = "dirty"
  /\ LET m == [mem EXCEPT !.count = @ + 1]
     IN  /\ Try(m)
         /\ IF Exceeds(m.count) THEN Begin("dirtyStop", "label") ELSE Hold
  /\ UNCHANGED <<labels, world, runs, manual, crashes>>

Clean == at = "rules" /\ Judged /\ ~LimitExit /\ tree # "dirty"

(* Without a worktree the branch can only be compared on the remote; what  *)
(* is not ahead there proves nothing, and the execution is held.           *)
Unknown == tree = "none" /\ commits # "pushed"

JudgeUnknown ==
  /\ Clean /\ Unknown
  /\ Hold /\ UNCHANGED <<labels, world, disk, mem, counters>>

JudgeBlocked ==
  /\ Clean /\ ~Unknown /\ agent.blocked
  /\ IF MayWait(mem) THEN Begin("timeout", "save") ELSE Begin("stop", "clean")
  /\ UNCHANGED <<labels, world, disk, mem, counters>>

JudgeEnded ==
  /\ Clean /\ ~Unknown /\ ~agent.blocked
  /\ IF commits = "none" /\ agent.early /\ MayDie(mem)
     THEN Begin("death", "save") ELSE Begin("stop", "clean")
  /\ UNCHANGED <<labels, world, disk, mem, counters>>

-----------------------------------------------------------------------------
(* Garbage collection: the reclaim of the execution.                       *)

Stale   == mem.entry /\ "progress" \notin seen /\ "progress" \notin labels
Overdue == agent.late /\ mem.started
(* A bug: a dead run without a start time is not reclaimed.                *)
ReclaimableStarted ==
  mem.entry /\ "progress" \in seen /\ ~held /\ mem.started /\ (Overdue \/ ~agent.alive)

Reclaimable == mem.entry /\ "progress" \in seen /\ ~held /\ (Overdue \/ ~agent.alive)

NothingToReclaim ==
  /\ at = "gc" /\ ~Stale /\ ~Reclaimable
  /\ Skip("repair") /\ UNCHANGED <<labels, world, disk, mem, counters>>

(* The entry of an Issue that is no longer in progress: back up, kill and  *)
(* remove, then forget it; the ledger is saved at the end of the cycle.    *)
Discarded(m) == [m EXCEPT !.entry = FALSE, !.pend = FALSE]

Discard ==
  /\ at = "gc" /\ Stale
  /\ \/ /\ agent' = [agent EXCEPT !.alive = FALSE]
        /\ commits' = IF tree = "dirty" /\ commits = "none" THEN "local" ELSE commits
        /\ tree' = "none" /\ mem' = Discarded(mem) /\ Works
     \/ tree = "dirty" /\ Fault /\ UNCHANGED <<world, mem>>
  /\ Skip("repair") /\ UNCHANGED <<labels, disk, runs, manual, crashes>>

ReclaimLimit ==
  /\ at = "gc" /\ ~Stale /\ Reclaimable /\ ~agent.alive /\ LimitExit
  /\ Begin(IF MayLimit(mem) THEN "limit" ELSE "limitStop", "save")
  /\ UNCHANGED <<labels, world, disk, mem, counters>>

AlreadyEscalated == "review" \in seen

Reclaim ==
  /\ at = "gc" /\ ~Stale /\ Reclaimable /\ (agent.alive \/ ~LimitExit)
  /\ IF AlreadyEscalated THEN Begin("kept", "kill")
     ELSE Begin(IF Exceeds(ReclaimCount(mem)) THEN "reclaimStop" ELSE "reclaim", "save")
  /\ UNCHANGED <<labels, world, disk, mem, counters>>

-----------------------------------------------------------------------------
(* The steps of a way out.                                                 *)

(* First the reservation reaches the disk.  Without it a reclaim and a     *)
(* usage limit are put off, an early death or a review timeout ends the    *)
(* cycle with an error.                                                    *)
NotReserved ==
  /\ Fault /\ UNCHANGED disk
  /\ IF op \in {"death", "timeout"} THEN Gone ELSE Leave /\ UNCHANGED mem

Reserve ==
  /\ at = "save"
  /\ \/ Save(Reserved(mem, op)) /\ Goto(IF op \in Reclaims THEN "kill" ELSE "clean")
          /\ UNCHANGED cycle
     \/ NotReserved
  /\ UNCHANGED <<labels, world, runs, manual, crashes>>

(* A live run is killed with whatever it had written.                      *)
Kill ==
  /\ at = "kill"
  /\ agent' = [agent EXCEPT !.alive = FALSE]
  /\ IF agent.alive
     THEN tree' \in {"clean", "dirty"} /\ commits' \in {commits, "local"}
     ELSE UNCHANGED <<tree, commits>>
  /\ Skip("clean") /\ UNCHANGED <<labels, disk, mem, counters>>

BacksUp == op \in {"reclaim", "reclaimStop", "kept", "limit", "limitStop"}
Kept    == op = "limitStop"      \* the worktree of a spent usage limit stays

(* Uncommitted work becomes a commit on the branch.                        *)
BackedUp == commits' = IF tree = "dirty" /\ commits = "none" THEN "local" ELSE commits

Clear ==
  /\ at = "clean" /\ (BacksUp \/ tree # "dirty")
  /\ BackedUp /\ Works
  /\ tree' = IF Kept THEN IF tree = "dirty" THEN "clean" ELSE tree ELSE "none"
  /\ Skip("label") /\ UNCHANGED <<labels, agent, disk, mem, runs, manual, crashes>>

(* git refuses to remove the worktree: a usage limit is put off, the other *)
(* ways do not look at the answer.                                         *)
NotRemoved ==
  /\ at = "clean" /\ tree # "none" /\ ~Kept
  /\ BackedUp /\ Fault
  /\ tree' = "clean"
  /\ IF op = "limit" THEN Leave ELSE Skip("label")
  /\ UNCHANGED <<labels, agent, disk, mem, runs, manual, crashes>>

(* The backup fails and the worktree stays.                                *)
NotBackedUp ==
  /\ at = "clean" /\ BacksUp /\ tree = "dirty" /\ Fault
  /\ CASE op = "limitStop" -> Skip("label") /\ UNCHANGED mem
       [] op = "limit" -> Leave /\ UNCHANGED mem
       [] op = "reclaimStop" -> Begin("unsaved", "label") /\ UNCHANGED mem
       [] OTHER -> Leave /\ mem' = Unreserved(mem)
  /\ disk' \in {disk, mem'}
  /\ UNCHANGED <<labels, world, runs, manual, crashes>>

(* The new label, or for an Issue that already waits for a human only a    *)
(* comment.                                                                *)
Label ==
  /\ at = "label"
  /\ labels' = IF op = "kept" THEN labels ELSE labels \cup {Target(op)}
  /\ Skip(IF op \in {"reclaim", "stop"} THEN "unlabel" ELSE "settle")
  /\ UNCHANGED <<world, disk, mem, counters>>

(* What a refused or unanswered request, before anything is settled,       *)
(* leaves to the next cycle.                                               *)
Refused ==
  CASE op \in {"reclaim", "reclaimStop", "kept"} ->
         Leave /\ mem' = Marked(mem) /\ disk' \in {disk, mem'}
    [] op = "unsaved" -> Leave /\ mem' = Unreserved(mem) /\ disk' \in {disk, mem'}
    [] op \in {"limit", "limitStop", "dirtyStop"} -> Leave /\ UNCHANGED <<disk, mem>>
    [] OTHER -> Gone /\ UNCHANGED disk

LabelFails ==
  /\ at = "label" /\ Fault
  /\ labels' \in {labels, labels \cup (IF op = "kept" THEN {} ELSE {Target(op)})}
  /\ Refused
  /\ UNCHANGED <<world, runs, manual, crashes>>

(* The settlement is saved at once.  A usage limit undoes it when it       *)
(* cannot be saved, an early death or a review timeout ends the cycle, the *)
(* others leave it to the last save of the cycle.                          *)
AfterSettle == IF op \in {"reclaim", "kept"} THEN Leave ELSE Skip("unlabel")

Settle ==
  /\ at = "settle"
  /\ \/ Save(Settled(mem, op)) /\ AfterSettle
     \/ /\ Fault /\ UNCHANGED disk
        /\ CASE op \in {"death", "timeout"} -> Gone
             [] op \in {"limit", "limitStop"} -> Skip("unlabel") /\ UNCHANGED mem
             [] OTHER -> AfterSettle /\ mem' = Settled(mem, op)
  /\ UNCHANGED <<labels, world, runs, manual, crashes>>

(* The labels read at the start of the cycle come off.  A reclaim settles  *)
(* after this, and a run that ended with nothing to retry is forgotten.    *)
Unlabel ==
  /\ at = "unlabel"
  /\ labels' = (labels \ (seen \cap {"queued", "progress"})) \cup {Target(op)}
  /\ IF op = "reclaim" THEN Skip("settle") /\ UNCHANGED mem
     ELSE Leave /\ mem' = IF op = "stop" THEN Settled(mem, op) ELSE mem
  /\ UNCHANGED <<world, disk, counters>>

UnlabelFails ==
  /\ at = "unlabel" /\ Fault
  /\ IF op \in {"reclaim", "death", "timeout", "stop"} THEN Refused
     ELSE Leave /\ UNCHANGED <<disk, mem>>
  /\ UNCHANGED <<labels, world, runs, manual, crashes>>

-----------------------------------------------------------------------------
(* The end of the cycle.                                                   *)

(* A bug: repair prefers the work in progress to the human gate.           *)
RepairProgress ==
  /\ at = "repair"
  /\ labels' = IF "progress" \in labels THEN {"progress"} ELSE labels
  /\ Skip("launch") /\ UNCHANGED <<world, disk, mem, counters>>

(* Status repair leaves one primary label: a human gate, else in-progress. *)
Repair ==
  /\ at = "repair"
  /\ \/ /\ labels' = IF "review" \in labels THEN {"review"}
                     ELSE IF "progress" \in labels THEN {"progress"} ELSE labels
        /\ Works
     \/ Fault /\ UNCHANGED labels
  /\ Skip("launch") /\ UNCHANGED <<world, disk, mem, runs, manual, crashes>>

Launchable == labels = {"queued"} /\ ~mem.entry

(* A launch takes the Issue, confirms the retries it carries out and saves *)
(* both; the branch keeps what earlier runs committed.                     *)
Launched(m) == [m EXCEPT !.entry = TRUE, !.started = TRUE,
                         !.pend = FALSE, !.deathPend = FALSE, !.limitPend = FALSE]

Launch ==
  /\ at = "launch" /\ Launchable
  /\ labels' = {"progress"}
  /\ agent' = [NoRun EXCEPT !.alive = TRUE]
  /\ tree' = "clean"
  /\ disk' = Launched(mem) /\ mem' = Launched(mem)
  /\ runs' = runs + 1
  /\ Goto("off") /\ op' = "none" /\ seen' = {} /\ held' = FALSE
  /\ UNCHANGED <<commits, manual, faults, crashes>>

Finish ==
  /\ at = "launch" /\ ~Launchable
  /\ \/ disk' = mem /\ mem' = mem /\ Works
     \/ UNCHANGED disk /\ mem' = disk /\ Fault
  /\ Goto("off") /\ op' = "none" /\ seen' = {} /\ held' = FALSE
  /\ UNCHANGED <<labels, world, runs, manual, crashes>>

-----------------------------------------------------------------------------
(* The surroundings.                                                       *)

(* A run ends: with its work committed, pushed or not, or lying about; at  *)
(* once or later; on a usage limit; with a blocked outcome that waits for  *)
(* a review.                                                               *)
Exit ==
  /\ agent.alive
  /\ \E limit, blocked, early \in BOOLEAN :
       agent' = [alive |-> FALSE, limit |-> limit, blocked |-> blocked,
                 early |-> early /\ ~agent.late, late |-> agent.late]
  /\ tree' \in IF tree = "none" THEN {"none"} ELSE {"clean", "dirty"}
  /\ commits' \in {commits, "local", "pushed"}
  /\ UNCHANGED <<labels, disk, mem, at, cycle, counters>>

(* The time limits pass.                                                   *)
Elapse ==
  /\ runs > 0 /\ ~agent.late
  /\ agent' = [agent EXCEPT !.late = TRUE, !.early = FALSE]
  /\ UNCHANGED <<labels, tree, commits, disk, mem, at, cycle, counters>>

Crash ==
  /\ at # "off" /\ crashes < MaxCrashes
  /\ crashes' = crashes + 1
  /\ Gone /\ UNCHANGED <<labels, world, disk, runs, manual, faults>>

(* Between cycles an operator puts the Issue back or stops it.             *)
Relabel ==
  /\ at = "off" /\ manual < MaxManual
  /\ \/ labels' = {"queued"} \/ labels' = labels \cup {"review"}
  /\ labels' # labels /\ manual' = manual + 1
  /\ UNCHANGED <<world, disk, mem, at, cycle, runs, faults, crashes>>

Rules == NotJudged \/ JudgeLimit \/ JudgeDirty \/ JudgeUnknown \/ JudgeBlocked \/ JudgeEnded
Gc    == NothingToReclaim \/ Discard \/ ReclaimLimit \/ Reclaim
Steps == \/ Reserve \/ Kill \/ Clear \/ NotRemoved \/ NotBackedUp
         \/ Label \/ LabelFails \/ Settle \/ Unlabel \/ UnlabelFails
Cycle == Start \/ Rules \/ Gc \/ Steps \/ Repair \/ Launch \/ Finish

Next == Cycle \/ Exit \/ Elapse \/ Crash \/ Relabel

Spec == Init /\ [][Next]_vars
(* Dispatch cycles come again and again, and time passes.                  *)
FairSpec == Spec /\ WF_vars(Cycle) /\ WF_vars(Elapse)

-----------------------------------------------------------------------------
(* Properties.                                                             *)

Records ==
  [entry: BOOLEAN, started: BOOLEAN, count: Nat, pend: BOOLEAN,
   death: 0..MaxDeaths, deathPend: BOOLEAN,
   review: 0..(MaxTimeouts - 1), reviewPend: BOOLEAN,
   limit: 0..MaxLimits, limitPend: BOOLEAN, limitRun: 0..runs]

\* The type invariant.  It bounds every retry count by its budget, a retry
\* reserved before a stop and taken up after it included.
TypeOK ==
  /\ labels \subseteq {"queued", "progress", "review"} /\ seen \subseteq {"queued", "progress", "review"}
  /\ agent \in [alive: BOOLEAN, limit: BOOLEAN, blocked: BOOLEAN, early: BOOLEAN, late: BOOLEAN]
  /\ tree \in {"none", "clean", "dirty"} /\ commits \in {"none", "local", "pushed"}
  /\ disk \in Records /\ mem \in Records
  /\ at \in {"off", "rules", "gc", "save", "kill", "clean", "label", "settle",
             "unlabel", "repair", "launch"}
  /\ op \in Ways \cup {"none"} /\ held \in BOOLEAN
  /\ runs \in Nat /\ manual \in 0..MaxManual /\ faults \in 0..MaxFaults
  /\ crashes \in 0..MaxCrashes

\* Whatever fails and wherever a cycle stops, an Issue is launched at most
\* once, once more for each retry of each budget, and once for each time an
\* operator touched it: no chain of ways back runs it for ever.
LaunchesBounded ==
  runs <= 1 + manual + MaxReclaims + MaxDeaths + (MaxTimeouts - 1) + MaxLimits

\* No launch goes uncounted: the counts on disk never fall behind the
\* launches, although a count, a label and a launch are saved one by one.
LaunchesCounted ==
  runs <= 1 + manual + disk.count + disk.death + disk.review + disk.limit

\* Launches are bounded by the budgets and each relaunch is paid for by a count.
LaunchesAccounted == TypeOK /\ LaunchesBounded /\ LaunchesCounted

\* What waits for a human keeps waiting and is not launched until an operator
\* releases it, whatever cycles resume below the label.
EscalationHolds ==
  [][("review" \in labels /\ manual' = manual) => ("review" \in labels' /\ runs' = runs)]_vars

\* A reclaim that was reserved and not carried out is not counted again by
\* the cycles that resume it; only a hold of a dirty worktree counts too.
ReservedOnce ==
  [][disk.pend /\ disk'.pend /\ disk'.count > disk.count => tree = "dirty"]_vars

\* No step takes back an escalation or counts a reserved reclaim twice.
NothingUndone == EscalationHolds /\ ReservedOnce

(* An execution that ended without its worktree, of which the remote shows *)
(* no commit: neither the rules nor the reclaim let go of it.              *)
Stranded ==
  disk.entry /\ disk.started /\ ~agent.alive /\ Unknown /\ ~LimitExit

\* An execution that ended is settled: with cycles that keep coming and
\* failures that do not last, its Issue gets back in the queue or before a
\* human, whatever failed and wherever a cycle stopped in between, unless it
\* is stranded.
DeadIsSettled ==
  disk.entry /\ ~agent.alive ~> ("queued" \in labels \/ "review" \in labels \/ Stranded)

=============================================================================
