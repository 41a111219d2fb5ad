--------------------------- MODULE LaunchAttempts ---------------------------
(***************************************************************************)
(* How the dispatcher launches cloud executions of the Issues of one       *)
(* parent, at most once each, whatever stops it.  A cycle holds the run    *)
(* state lock: it merges the launch history the parent Issue keeps into    *)
(* its own, reconciles the launch journals of the child Issues, reclaims   *)
(* entries, and launches queued Issues: it reserves a slot in the parent,  *)
(* writes the journal "prepared", claims the Issue, saves "launching",     *)
(* writes "unknown", calls the provider, writes "launched" and records the *)
(* handle.  The journal, not the run state, decides what may be launched.  *)
(*                                                                         *)
(* A call to GitHub may be refused, or land with its answer lost; a cycle  *)
(* may stop between any two steps; both are bounded by MaxFaults.  The run *)
(* state may be lost and an operator may requeue an Issue, release a       *)
(* stopped execution, or remove a journal once nothing runs: MaxActs.      *)
(*                                                                         *)
(* Simplifications: the primary status label only; a label change, a       *)
(* reclaim's worktree work and claim_task are single steps; the window is  *)
(* longer than a behaviour, and cycles after the last time share it; all   *)
(* Issues are open, have one provider, and never conflict; completion and  *)
(* the reclaim counter are left to other modules.                          *)
(***************************************************************************)
EXTENDS Integers, FiniteSets

CONSTANTS
  Issues,       \* the child Issues
  MaxLaunches,  \* max_launches_per_window
  MaxActive,    \* max_concurrent
  CanLookup,    \* lookup_by_attempt of the provider
  MaxAttempts,       \* bound on launch attempts of one Issue
  MaxTime,      \* bound on distinct cycle times
  MaxFaults,    \* bound on refused or unanswered calls and stopped cycles
  MaxActs       \* bound on operator acts and lost run states

ASSUME LaunchAssumption ==
  /\ MaxLaunches \in Nat /\ MaxActive \in Nat /\ MaxAttempts \in Nat
  /\ MaxTime \in Nat \ {0} /\ MaxFaults \in Nat /\ MaxActs \in Nat
  /\ CanLookup \in BOOLEAN /\ IsFiniteSet(Issues)

Gens    == 1 .. MaxAttempts
Times   == 1 .. MaxTime
Labels  == {"queued", "in-progress", "blocked", "review"}
Phases  == {"none", "prepared", "unknown", "launched"}          \* of a journal
Entries == {"none", "claimed", "launching", "failed", "launched"}
CycleSteps   == {"idle", "history", "recover", "gc", "settle", "schedule", "next",
            "reserve", "prepare", "claim", "launching", "start", "mark", "call",
            "answer", "record", "release", "abort"}

Journal == [phase: Phases, gen: Nat]
Entry   == [phase: Entries, gen: Nat]
Ledger  == [active: [Issues -> Entry], history: [Times -> Nat],
            released: SUBSET (Issues \X Gens)]
NoEntry   == [phase |-> "none", gen |-> 0]
NoJournal == [phase |-> "none", gen |-> 0]
NoLedger  == [active |-> [i \in Issues |-> NoEntry],
              history |-> [t \in Times |-> 0], released |-> {}]

VARIABLES
  \* --- GitHub
  label,    \* the primary status of each Issue
  journal,  \* the launch-attempt block of each Issue body
  slots,    \* launch_history of the parent Issue body: a count for each time
  \* --- the provider
  calls,    \* executions it has started for an attempt
  alive,    \* of these, still running
  \* --- the dispatcher's host
  disk,     \* run_state.json
  mem,      \* the run state the cycle holds
  \* --- the cycle
  at,       \* its next step, "idle" between cycles
  todo,     \* Issues still to visit
  me,       \* the Issues in hand: one, or none
  now,      \* its time
  committed,\* the reservation in hand may not be released
  \* --- history and bounds
  gens,     \* attempt ids issued for each Issue
  faults, acts

forge    == <<label, journal, slots>>
provider == <<calls, alive>>
host     == <<disk, mem>>
cycle    == <<at, todo, me, now, committed>>
bounds   == <<gens, faults, acts>>
launchVars     == <<forge, provider, host, cycle, bounds>>

Fault == faults < MaxFaults /\ faults' = faults + 1
Act   == acts < MaxActs /\ acts' = acts + 1
Launches(f) == UNION {{t} \X (1 .. f[t]) : t \in Times}   \* f[t] of each time
Total(f) == Cardinality(Launches(f))
Bumped(f) == [f EXCEPT ![now] = @ + 1]
WithEntry(s, i, e) == [s EXCEPT !.active[i] = e]

-----------------------------------------------------------------------------
(* The journal of one Issue *)

\* TERMINAL_ESCALATION_LABELS end automatic recovery.
RecoveryAllowed(i) == label[i] # "review"

\* What reconcile_attempt answers before it looks anything up.
Released(i) == <<i, journal[i].gen>> \in mem.released

\* Faulty variant: a call whose result is unknown may be repeated.
ResumableUnknown(i) ==
  journal[i].phase \in {"prepared", "unknown"} /\ ~Released(i) /\ RecoveryAllowed(i)

\* The only journal that lets the same attempt be launched.
Resumable(i) == journal[i].phase = "prepared" /\ ~Released(i) /\ RecoveryAllowed(i)

\* The handle of attempt g becomes the entry of i, in the run state and on disk.
AdoptHandle(i, g) ==
  LET s == WithEntry(mem, i, [phase |-> "launched", gen |-> g])
  IN  mem' = s /\ disk' = s /\ label' = [label EXCEPT ![i] = "in-progress"]

Hold(i) == label' = [label EXCEPT ![i] = "review"] /\ UNCHANGED <<mem, disk>>

\* _load_or_recover_active: the entry must not be another attempt's.
AdoptOrHold(i, g) ==
  IF mem.active[i].phase = "launched" /\ mem.active[i].gen # g
  THEN Hold(i) ELSE AdoptHandle(i, g)

\* reconcile_attempt on a journal it does not let through.  A lookup may find the
\* execution; without one, or when it fails or finds nothing, the Issue is held.
Reconcile(i) ==
  LET g == journal[i].gen IN
  /\ ~Resumable(i)
  /\ \/ /\ Released(i) \/ ~RecoveryAllowed(i)
        /\ UNCHANGED <<label, journal, host>>
     \/ /\ ~Released(i) /\ RecoveryAllowed(i)
        /\ \/ /\ journal[i].phase = "launched"
              /\ AdoptOrHold(i, g)
              /\ UNCHANGED journal
           \/ /\ journal[i].phase = "unknown"
              /\ CanLookup /\ calls[i][g] > 0
              /\ journal' = [journal EXCEPT ![i].phase = "launched"]
              /\ AdoptOrHold(i, g)
           \/ /\ journal[i].phase = "unknown"
              /\ Hold(i)
              /\ UNCHANGED journal

-----------------------------------------------------------------------------
(* A cycle *)

LaunchInit ==
  /\ label = [i \in Issues |-> "queued"]
  /\ journal = [i \in Issues |-> NoJournal]
  /\ slots = [t \in Times |-> 0]
  /\ calls = [i \in Issues |-> [g \in Gens |-> 0]]
  /\ alive = [i \in Issues |-> [g \in Gens |-> 0]]
  /\ disk = NoLedger /\ mem = NoLedger
  /\ at = "idle" /\ todo = {} /\ me = {} /\ now = 1 /\ committed = FALSE
  /\ gens = [i \in Issues |-> 0] /\ faults = 0 /\ acts = 0

\* The cycle takes the lock and loads the run state.
StartCycle ==
  /\ at = "idle"
  /\ at' = "history" /\ mem' = disk
  /\ now' = IF now < MaxTime THEN now + 1 ELSE now
  /\ UNCHANGED <<forge, provider, disk, todo, me, committed, bounds>>

\* _merged_launch_history: for each time the larger count.
Merged(local, persisted) ==
  [t \in Times |-> IF local[t] >= persisted[t] THEN local[t] ELSE persisted[t]]

RecoverHistory ==
  LET merged == [mem EXCEPT !.history = Merged(mem.history, slots)] IN
  /\ at = "history"
  /\ at' = "recover" /\ todo' = Issues
  /\ mem' = merged
  /\ disk' = IF merged = mem THEN disk ELSE merged
  /\ UNCHANGED <<forge, provider, me, now, committed, bounds>>

\* Faulty variant: only Issues in progress are looked at.
PendingRunning(i) ==
  /\ label[i] = "in-progress"
  /\ journal[i].phase \in {"unknown", "launched"}
  /\ mem.active[i].phase # "launched"

\* LAUNCH_ATTEMPT_PENDING: a journal past "prepared" without its entry.
Pending(i) ==
  /\ label[i] \in {"queued", "in-progress"}
  /\ journal[i].phase \in {"unknown", "launched"}
  /\ ~(label[i] = "in-progress" /\ mem.active[i].phase = "launched")

\* RUN_STATE_MISSING with nothing to resume: the Issue is queued again.
Missing(i) ==
  /\ label[i] = "in-progress"
  /\ mem.active[i].phase = "none"
  /\ journal[i].phase \in {"none", "prepared"}
  /\ ~Released(i)

RecoverIssue(i) ==
  /\ at = "recover" /\ i \in todo
  /\ todo' = todo \ {i}
  /\ \/ Pending(i) /\ Reconcile(i)
     \/ /\ Missing(i)
        /\ label' = [label EXCEPT ![i] = "queued"]
        /\ UNCHANGED <<journal, host>>
     \/ /\ ~Pending(i) \/ Resumable(i)
        /\ ~Missing(i)
        /\ UNCHANGED <<label, journal, host>>
  /\ UNCHANGED <<slots, provider, at, me, now, committed, bounds>>

Recovered ==
  /\ at = "recover" /\ todo = {}
  /\ at' = "gc" /\ todo' = Issues
  /\ UNCHANGED <<forge, provider, host, me, now, committed, bounds>>

\* Faulty variant: whatever the provider does not answer is stopped.
StoppedGuess(i) == alive[i][mem.active[i].gen] <= 1

\* hold_if_not_stopped: the provider reports the recorded execution stopped.
Stopped(i) == alive[i][mem.active[i].gen] = 0

\* A dispatch claim that never reached the provider, or a timed-out execution.
Orphan(i)   == mem.active[i].phase \in {"claimed", "failed"}
Tracked(i)  == mem.active[i].phase = "launched"
TimedOut(i) == Tracked(i) /\ label[i] = "in-progress"

\* The external execution is not confirmed stopped: the entry stays.
GcHold(i) ==
  /\ at = "gc" /\ i \in todo
  /\ TimedOut(i) \/ (Tracked(i) /\ label[i] # "in-progress")
  /\ label' = [label EXCEPT ![i] = "review"]
  /\ todo' = todo \ {i}
  /\ UNCHANGED <<journal, slots, provider, host, at, me, now, committed, bounds>>

\* Reclaim: the label first (queued, or review past the limit), then the entry.
GcReclaim(i) ==
  /\ at = "gc" /\ i \in todo
  /\ Orphan(i) \/ (TimedOut(i) /\ Stopped(i))
  /\ \/ label[i] = "review" /\ UNCHANGED label
     \/ /\ label[i] # "review"
        /\ \E l \in {"queued", "review"} : label' = [label EXCEPT ![i] = l]
  /\ at' = "settle" /\ me' = {i} /\ todo' = todo \ {i}
  /\ UNCHANGED <<journal, slots, provider, host, now, committed, bounds>>

GcSettle ==
  \E i \in me :
    /\ at = "settle"
    /\ mem' = WithEntry(mem, i, NoEntry)
    /\ \/ disk' = mem' /\ UNCHANGED faults
       \/ Fault /\ UNCHANGED disk
    /\ at' = "gc" /\ me' = {}
    /\ UNCHANGED <<forge, provider, todo, now, committed, gens, acts>>

\* RUN_STATE_STALE: the Issue left in-progress; the last save writes it.
GcStale(i) ==
  /\ at = "gc" /\ i \in todo
  /\ Tracked(i) /\ label[i] # "in-progress" /\ Stopped(i)
  /\ mem' = WithEntry(mem, i, NoEntry)
  /\ todo' = todo \ {i}
  /\ UNCHANGED <<forge, provider, disk, at, me, now, committed, bounds>>

\* Nothing to collect, no time-out, or a provider that does not answer.
GcKeep(i) ==
  /\ at = "gc" /\ i \in todo
  /\ ~Orphan(i)
  /\ todo' = todo \ {i}
  /\ UNCHANGED <<forge, provider, host, at, me, now, committed, bounds>>

GcDone ==
  /\ at = "gc" /\ todo = {}
  /\ at' = "schedule"
  /\ UNCHANGED <<forge, provider, host, todo, me, now, committed, bounds>>

Active == {i \in Issues : mem.active[i].phase # "none"}
Candidates == {i \in Issues : label[i] = "queued"} \ Active
Smaller(a, b) == IF a < b THEN a ELSE b
Room(a) == IF a > 0 THEN a ELSE 0

\* quota_available
Quota == Smaller(Room(MaxActive - Cardinality(Active)),
                 Room(MaxLaunches - Total(mem.history)))

Schedule ==
  /\ at = "schedule"
  /\ \E S \in SUBSET Candidates :
       /\ Cardinality(S) = Smaller(Quota, Cardinality(Candidates))
       /\ todo' = S
  /\ at' = "next"
  /\ UNCHANGED <<forge, provider, host, me, now, committed, bounds>>

PlanNext(i) ==
  /\ at = "next" /\ i \in todo
  /\ todo' = todo \ {i} /\ me' = {i} /\ committed' = FALSE
  /\ at' = "reserve"
  /\ UNCHANGED <<forge, provider, host, now, bounds>>

\* The last save of the launches; when it fails the cycle ends without it.
EndCycle ==
  /\ at = "next" /\ todo = {}
  /\ \/ disk' = mem /\ UNCHANGED faults
     \/ Fault /\ UNCHANGED disk
  /\ at' = "idle" /\ mem' = NoLedger
  /\ UNCHANGED <<forge, provider, todo, me, now, committed, gens, acts>>

-----------------------------------------------------------------------------
(* One launch *)

\* A transition that was decided before: a review label stays and prevails.
Relabel(i, l) == IF label[i] = "review" THEN label ELSE [label EXCEPT ![i] = l]

StepTo(step) == at' = step /\ UNCHANGED <<todo, me, now>>
Skip == at' = "next" /\ me' = {} /\ UNCHANGED <<todo, now>>

\* A slot in the parent Issue; without a confirmed one there is no launch.
Reserve ==
  /\ at = "reserve"
  /\ \/ slots' = Bumped(slots) /\ StepTo("prepare") /\ UNCHANGED faults
     \/ slots' = Bumped(slots) /\ Fault /\ Skip
     \/ Fault /\ Skip /\ UNCHANGED slots
  /\ UNCHANGED <<label, journal, provider, host, committed, gens, acts>>

\* prepare_journaled_target: no launch, resume, or a new attempt.
PrepareRefused ==
  \E i \in me :
    /\ at = "prepare"
    /\ \/ ~RecoveryAllowed(i) /\ UNCHANGED <<label, journal, host>>
       \/ RecoveryAllowed(i) /\ journal[i].phase # "none" /\ Reconcile(i)
    /\ StepTo("release")
    /\ UNCHANGED <<slots, provider, committed, bounds>>

PrepareResumed ==
  \E i \in me :
    /\ at = "prepare" /\ Resumable(i)
    /\ StepTo("claim")
    /\ UNCHANGED <<forge, provider, host, committed, bounds>>

\* A refused or unverified write is an error that ends the cycle.
PrepareNew ==
  \E i \in me :
    /\ at = "prepare" /\ RecoveryAllowed(i)
    /\ journal[i].phase = "none" /\ gens[i] < MaxAttempts
    /\ gens' = [gens EXCEPT ![i] = @ + 1]
    /\ LET written == [journal EXCEPT ![i] = [phase |-> "prepared", gen |-> gens[i] + 1]]
       IN \/ journal' = written /\ StepTo("claim") /\ UNCHANGED faults
          \/ Fault /\ StepTo("abort") /\ journal' \in {journal, written}
    /\ UNCHANGED <<label, slots, provider, host, committed, acts>>

\* The bound on attempts is reached.
PrepareSpent ==
  \E i \in me :
    /\ at = "prepare" /\ journal[i].phase = "none" /\ gens[i] = MaxAttempts
    /\ StepTo("release")
    /\ UNCHANGED <<forge, provider, host, committed, bounds>>

\* claim_task saves its own reservation, which the cycle takes over.
Claim ==
  \E i \in me :
    LET claimed == [phase |-> "claimed", gen |-> 0] IN
    /\ at = "claim"
    /\ \/ /\ label[i] = "queued"
          /\ disk' = WithEntry(disk, i, claimed) /\ mem' = WithEntry(mem, i, claimed)
          /\ label' = [label EXCEPT ![i] = "in-progress"]
          /\ StepTo("launching") /\ UNCHANGED faults
       \/ /\ Fault /\ label[i] = "queued"               \* held after ACTIVE_SAVED
          /\ disk' = WithEntry(disk, i, claimed) /\ mem' = WithEntry(mem, i, claimed)
          /\ label' \in {label, [label EXCEPT ![i] = "in-progress"]}
          /\ StepTo("release")
       \/ /\ IF label[i] = "queued" THEN Fault ELSE UNCHANGED faults
          /\ label' \in {label, Relabel(i, "blocked")}
          /\ StepTo("release") /\ UNCHANGED host
    /\ UNCHANGED <<journal, slots, provider, committed, gens, acts>>

\* _write_launching_phase: no provider call without this save.
SaveLaunching ==
  \E i \in me :
    LET s == WithEntry(mem, i, [phase |-> "launching", gen |-> 0]) IN
    /\ at = "launching"
    /\ \/ mem' = s /\ disk' = s /\ StepTo("start") /\ UNCHANGED faults
       \/ Fault /\ StepTo("release") /\ UNCHANGED host
    /\ UNCHANGED <<forge, provider, committed, gens, acts>>

\* The worktree could not be provisioned: a clear failure before the provider.
FailLaunch ==
  \E i \in me :
    LET s == WithEntry(mem, i, [phase |-> "failed", gen |-> 0]) IN
    /\ at = "start" /\ Fault
    /\ mem' = s /\ disk' \in {s, disk}
    /\ label' = Relabel(i, "blocked")
    /\ StepTo("release")
    /\ UNCHANGED <<journal, slots, provider, committed, gens, acts>>

\* JournaledDispatchTarget.launch begins: from here on the slot is spent.
CommitLaunch ==
  /\ at = "start"
  /\ committed' = TRUE
  /\ StepTo("mark")
  /\ UNCHANGED <<forge, provider, host, bounds>>

\* LaunchOutcomeUnknown: the slot counts, the entry stays "launching".
Unknown == mem' = [mem EXCEPT !.history = Bumped(@)] /\ Skip /\ UNCHANGED disk

MarkUnknown ==
  \E i \in me :
    /\ at = "mark"
    /\ LET marked == [journal EXCEPT ![i].phase = "unknown"]
       IN \/ journal' = marked /\ StepTo("call") /\ UNCHANGED <<host, faults>>
          \/ Fault /\ Unknown /\ journal' \in {journal, marked}
    /\ UNCHANGED <<label, slots, provider, committed, gens, acts>>

\* The provider starts the execution or not, and answers or not.
Call ==
  \E i \in me :
    LET g == journal[i].gen IN
    /\ at = "call"
    /\ \/ /\ calls' = [calls EXCEPT ![i][g] = @ + 1]
          /\ alive' = [alive EXCEPT ![i][g] = @ + 1]
          /\ \/ StepTo("answer") /\ UNCHANGED <<host, faults>>
             \/ Fault /\ Unknown
       \/ Fault /\ Unknown /\ UNCHANGED provider
    /\ UNCHANGED <<forge, committed, gens, acts>>

MarkLaunched ==
  \E i \in me :
    /\ at = "answer"
    /\ LET marked == [journal EXCEPT ![i].phase = "launched"]
       IN \/ journal' = marked /\ StepTo("record") /\ UNCHANGED <<host, faults>>
          \/ Fault /\ Unknown /\ journal' \in {journal, marked}
    /\ UNCHANGED <<label, slots, provider, committed, gens, acts>>

\* _record_successful_launch; a refused save ends the cycle.
Record ==
  \E i \in me :
    LET s == [WithEntry(mem, i, [phase |-> "launched", gen |-> journal[i].gen])
                EXCEPT !.history = Bumped(@)]
    IN
    /\ at = "record"
    /\ \/ /\ mem' = s /\ disk' = s
          /\ label' = Relabel(i, "in-progress")
          /\ Skip /\ UNCHANGED faults
       \/ Fault /\ StepTo("abort") /\ UNCHANGED <<label, host>>
    /\ UNCHANGED <<journal, slots, provider, committed, gens, acts>>

\* _release_launch_reservation, unless the launch is committed.
Freed == slots[now] > 0 /\ ~committed

Free ==
  \/ Freed /\ slots' = [slots EXCEPT ![now] = @ - 1] /\ UNCHANGED faults
  \/ Freed /\ Fault /\ UNCHANGED slots
  \/ ~Freed /\ UNCHANGED <<slots, faults>>

ReleaseSlot ==
  /\ at = "release"
  /\ Free /\ Skip
  /\ UNCHANGED <<label, journal, provider, host, committed, gens, acts>>

\* An error leaves the context manager, which frees the slot, and the cycle.
Abort ==
  /\ at = "abort"
  /\ Free
  /\ at' = "idle" /\ todo' = {} /\ me' = {} /\ mem' = NoLedger
  /\ UNCHANGED <<label, journal, provider, disk, now, committed, gens, acts>>

\* The process stops: only what is on disk and at GitHub remains.
Crash ==
  /\ at # "idle" /\ Fault
  /\ at' = "idle" /\ todo' = {} /\ me' = {} /\ mem' = NoLedger
  /\ UNCHANGED <<forge, provider, disk, now, committed, gens, acts>>

-----------------------------------------------------------------------------
(* The provider and the operator *)

Finish(i, g) ==
  /\ alive[i][g] > 0
  /\ alive' = [alive EXCEPT ![i][g] = @ - 1]
  /\ UNCHANGED <<forge, calls, host, cycle, bounds>>

\* A human or another tool stops the Issue, at any time.
Stop(i) ==
  /\ Act
  /\ label[i] # "review" /\ label' = [label EXCEPT ![i] = "review"]
  /\ UNCHANGED <<journal, slots, provider, host, cycle, gens, faults>>

Requeue(i) ==
  /\ at = "idle" /\ Act
  /\ label[i] \in {"blocked", "review"}
  /\ label' = [label EXCEPT ![i] = "queued"]
  /\ UNCHANGED <<journal, slots, provider, host, cycle, gens, faults>>

LoseState ==
  /\ at = "idle" /\ Act
  /\ disk # NoLedger /\ disk' = NoLedger
  /\ UNCHANGED <<forge, provider, mem, cycle, gens, faults>>

\* The release of a stopped execution leaves a receipt for its attempt.
OperatorRelease(i) ==
  LET e == disk.active[i] IN
  /\ at = "idle" /\ Act
  /\ e.phase = "launched" /\ alive[i][e.gen] = 0
  /\ disk' = [WithEntry(disk, i, NoEntry) EXCEPT !.released = @ \cup {<<i, e.gen>>}]
  /\ UNCHANGED <<forge, provider, mem, cycle, gens, faults>>

\* "only after confirming no execution is running, archive/remove that journal"
RemoveJournal(i) ==
  /\ at = "idle" /\ Act
  /\ journal[i].phase # "none" /\ alive[i][journal[i].gen] = 0
  /\ journal' = [journal EXCEPT ![i] = NoJournal]
  /\ UNCHANGED <<label, slots, provider, host, cycle, gens, faults>>

CycleStep ==
  \/ StartCycle \/ RecoverHistory \/ Recovered \/ GcSettle \/ GcDone
  \/ Schedule \/ EndCycle \/ Reserve \/ PrepareRefused \/ PrepareResumed
  \/ PrepareNew \/ PrepareSpent \/ Claim \/ SaveLaunching \/ CommitLaunch
  \/ MarkUnknown \/ Call \/ MarkLaunched \/ Record \/ ReleaseSlot \/ Abort
  \/ \E i \in Issues : \/ RecoverIssue(i) \/ GcHold(i) \/ GcReclaim(i)
                       \/ GcStale(i) \/ GcKeep(i) \/ PlanNext(i)

Environment ==
  \/ FailLaunch \/ Crash \/ LoseState
  \/ \E i \in Issues : \/ Stop(i) \/ Requeue(i) \/ OperatorRelease(i) \/ RemoveJournal(i)
                       \/ \E g \in Gens : Finish(i, g)

LaunchNext == CycleStep \/ Environment

LaunchSpec == LaunchInit /\ [][LaunchNext]_launchVars

\* Cycles keep coming and do not hang.
LaunchFairSpec == LaunchSpec /\ WF_launchVars(CycleStep)

-----------------------------------------------------------------------------
(* Properties *)

LaunchTypes ==
  /\ label \in [Issues -> Labels]
  /\ journal \in [Issues -> Journal]
  /\ slots \in [Times -> Nat]
  /\ calls \in [Issues -> [Gens -> Nat]]
  /\ alive \in [Issues -> [Gens -> Nat]]
  /\ disk \in Ledger /\ mem \in Ledger
  /\ at \in CycleSteps /\ todo \in SUBSET Issues /\ me \in SUBSET Issues
  /\ now \in Times /\ committed \in BOOLEAN
  /\ gens \in [Issues -> 0 .. MaxAttempts] /\ faults \in Nat /\ acts \in Nat

\* No attempt starts a second execution, and an Issue never has two that run:
\* neither a crash, a lost answer, a lost run state nor a requeue repeats a
\* call whose result is not known (JournaledDispatchTarget, reconcile_attempt).
RunsOnce ==
  \A i \in Issues :
    /\ \A g \in Gens : calls[i][g] <= 1
    /\ \A g, h \in Gens : alive[i][g] > 0 /\ alive[i][h] > 0 => g = h

\* The executions started in the window never exceed the launch limit, however
\* cycles stopped and wherever the run state went: a slot that may have been
\* used is in the parent Issue (_launch_reservation, _merged_launch_history).
Executions == {x \in Issues \X Gens : calls[x[1]][x[2]] > 0}
QuotaKept == Cardinality(Executions) <= MaxLaunches

\* A running execution can be found from its Issue alone: the journal names its
\* attempt and says that it may have started.
RunningIsJournaled ==
  \A i \in Issues, g \in Gens :
    alive[i][g] > 0 => journal[i].gen = g /\ journal[i].phase \in {"unknown", "launched"}

\* Every execution is known, once, and within the limit.
ExecutionsAccounted == LaunchTypes /\ RunsOnce /\ QuotaKept /\ RunningIsJournaled

\* A saved handle leaves run_state.json only when its execution has stopped or
\* the whole file is lost: until then it keeps the slot and the worktree, however
\* many stale run states were written over it (fresh_external_hold, save_run_state).
HandleKept ==
  [][\A i \in Issues :
       LET e == disk.active[i] IN
       e.phase = "launched" /\ alive[i][e.gen] > 0
         => disk'.active[i] = e \/ disk' = NoLedger]_launchVars

\* A call whose result nobody knows does not rest: the Issue gets the handle or
\* a human (_hold), or the operator takes the journal away.
UnknownEnds ==
  \A i \in Issues :
    (journal[i].phase = "unknown") ~> (label[i] = "review" \/ journal[i].phase # "unknown")

=============================================================================
