-------------------------- MODULE IntegrationRetry --------------------------
(***************************************************************************)
(* The integration cycles of one parent Issue and their timeout budget.    *)
(* A cycle rebuilds the budget from the event comments of the parent,      *)
(* reserves an attempt and reads the reservation back, runs dependency     *)
(* preparation, CI and the steps that write to GitHub, and records how the *)
(* attempt ended.  A confirmed timeout is counted and retried after a      *)
(* back-off, the last one is terminal; what cannot be confirmed is held    *)
(* for a human, who posts a reset that opens a new generation.             *)
(*                                                                         *)
(* The comments only grow, so the history is its left fold `budget` and    *)
(* the set `seen` of its events; a comment lands by applying its event.  A *)
(* POST may land at once, be lost, or land later (`flight`, at most        *)
(* MaxLate in a run).  The parent execution lock admits one cycle at a     *)
(* time; a cycle may stop between any two steps, at most MaxCrash times.   *)
(*                                                                         *)
(* Simplifications: one host, as the code requires; the executor's own     *)
(* comments and valid resets only (any other author's is ignored); a reset *)
(* names a known attempt or a local hold; wall-clock time is the flag      *)
(* `waiting`; an id is the number of ids issued before it.                 *)
(***************************************************************************)
EXTENDS Naturals, FiniteSets

CONSTANTS
  MaxRetries,     \* max_integration_timeout_retries
  MaxIds,         \* bound on attempt and reset ids
  MaxLate,        \* bound on POSTs that land late
  MaxCrash,       \* bound on cycles that stop halfway
  HoldReadFails   \* whether the budget may be unreadable while a hold is written

ASSUME RetryAssumption ==
  /\ MaxRetries \in Nat /\ MaxIds \in Nat /\ MaxLate \in Nat /\ MaxCrash \in Nat
  /\ HoldReadFails \in BOOLEAN

Ids      == 1 .. MaxIds
None     == 0                          \* no attempt
Outcomes == {"none", "success", "failed", "timeout", "cleanup", "unknown",
             "attempt", "local"}       \* the last two: what a reset refers to
Kinds    == {"reserved", "finished", "terminal", "reset"}
Verdicts == {"proceed", "backoff", "exhausted", "hold", "indeterminate"}
Steps    == {"idle", "loaded", "write", "ci", "report", "publish",
             "record", "held", "settle"}
Tries    == 3                          \* _WRITE_VERIFY_ATTEMPTS
Event    == [id: Nat, kind: Kinds, gen: Nat, outcome: Outcomes]
NoEvent  == [id |-> None, kind |-> "reset", gen |-> 0, outcome |-> "none"]

VARIABLES
  \* --- the parent Issue on GitHub
  budget,   \* the fold of the event comments
  seen,     \* their events
  flight,   \* events posted that may still land
  label,    \* status:blocked-human-review is set
  \* --- the repository on the host
  holds,    \* generations stamped on the hold records
  \* --- the cycle that holds the parent execution lock
  at,       \* its next step, "idle" when the lock is free
  view,     \* the budget it loaded
  me,       \* its reserved attempt, or None
  result,   \* how the attempt ended
  event,    \* the event it writes
  tries,    \* remaining tries to write it
  absent,   \* the event was proven absent
  \* --- history and bounds
  issued,   \* number of ids issued
  unproven, \* attempts started whose stop or writes nobody confirmed
  spent,    \* attempts of this generation that ended neither well nor in a failure
  heldGens, \* generations in which a hold was recorded since
  late, crashes

forge  == <<budget, seen, flight, label>>
cycle  == <<at, view, me, result>>
write  == <<event, tries, absent>>
ghosts == <<unproven, spent, heldGens>>
bounds == <<issued, late, crashes>>
vars   == <<forge, holds, cycle, write, ghosts, bounds>>

-----------------------------------------------------------------------------
(* The fold *)

MaxAttempts == MaxRetries + 1

Exhausted(b) == b.timeouts >= MaxAttempts
Resolved(b) == b.open = None /\ b.blocked = None

\* What _reserved, _finished, _terminal and _reset require of the history.
Accepts(b, e) ==
  \/ e.kind = "reserved" /\ e.gen = b.gen /\ Resolved(b)
  \/ e.kind = "finished" /\ e.gen = b.gen /\ b.open = e.id /\ e.outcome # "none"
  \/ e.kind = "terminal" /\ e.gen = b.gen /\ b.open = None
  \/ /\ e.kind = "reset"
     /\ e.gen = b.gen + 1
     /\ \/ e.outcome = "local"
        \/ ~Resolved(b)
        \/ b.terminal
        \/ b.timeouts > MaxRetries

\* Faulty variant: an ordinary failure clears the count.
FinishedCleared(b, e) ==
  IF e.outcome = "success" \/ e.outcome = "failed"
    THEN [b EXCEPT !.open = None, !.gen = IF e.outcome = "success" THEN @ + 1 ELSE @,
                   !.timeouts = 0, !.waiting = FALSE]
  ELSE IF e.outcome = "timeout"
    THEN [b EXCEPT !.open = None, !.timeouts = @ + 1, !.waiting = (b.timeouts < MaxRetries)]
  ELSE [b EXCEPT !.open = None, !.blocked = e.id]

\* Only a confirmed timeout counts; what is in doubt blocks.
Finished(b, e) ==
  CASE e.outcome = "success" ->
         [b EXCEPT !.open = None, !.gen = @ + 1, !.timeouts = 0, !.waiting = FALSE]
    [] e.outcome = "failed" -> [b EXCEPT !.open = None, !.waiting = FALSE]
    [] e.outcome = "timeout" ->
         [b EXCEPT !.open = None, !.timeouts = @ + 1,
                   !.waiting = (b.timeouts < MaxRetries)]
    [] OTHER -> [b EXCEPT !.open = None, !.blocked = e.id]

Fresh(gen) == [gen |-> gen, timeouts |-> 0, open |-> None, blocked |-> None,
               terminal |-> FALSE, waiting |-> FALSE, broken |-> FALSE]

Applied(b, e) ==
  CASE e.kind = "reserved" -> [b EXCEPT !.open = e.id]
    [] e.kind = "finished" -> Finished(b, e)
    [] e.kind = "terminal" ->
         [b EXCEPT !.terminal = TRUE, !.blocked = IF @ = None THEN e.id ELSE @]
    [] OTHER -> Fresh(e.gen)

\* The budget once the comment of e is there: an identical duplicate changes
\* nothing, anything the history does not allow leaves it broken for ever.
Folded(e) ==
  IF budget.broken \/ e \in seen THEN budget
  ELSE IF (\E s \in seen : s.id = e.id /\ s.kind = e.kind) \/ ~Accepts(budget, e)
    THEN [budget EXCEPT !.broken = TRUE]
  ELSE Applied(budget, e)

\* evaluate_history and _verdict_of.
Verdict(b) ==
  IF b.broken THEN "indeterminate"
  ELSE IF b.open # None THEN "hold"
  ELSE IF Exhausted(b) \/ b.terminal THEN "exhausted"
  ELSE IF b.blocked # None THEN "hold"
  ELSE IF b.waiting THEN "backoff" ELSE "proceed"

Lands(e) ==
  /\ budget' = Folded(e)
  /\ seen' = seen \cup {e}
  /\ spent' = IF budget'.gen # budget.gen THEN 0 ELSE spent

NothingLands == UNCHANGED <<budget, seen, flight, late, spent>>

-----------------------------------------------------------------------------
(* Writing an event: post it, then believe only what can be read back *)

StartWrite(e) == at' = "write" /\ event' = e /\ tries' = Tries /\ absent' = TRUE
StopWrite == event' = NoEvent /\ tries' = 0 /\ absent' = FALSE
Present == \E s \in seen : s.id = event.id /\ s.kind = event.kind

Post ==
  \/ Lands(event) /\ UNCHANGED <<flight, late>>
  \/ NothingLands
  \/ /\ late < MaxLate /\ late' = late + 1
     /\ flight' = flight \cup {event}
     /\ UNCHANGED <<budget, seen, spent>>

\* One try whose event is not found afterwards, or cannot be looked for: it is
\* posted again only if it was proven absent.
Try ==
  /\ at = "write" /\ tries > 0 /\ ~Present
  /\ IF absent THEN Post ELSE NothingLands
  /\ UNCHANGED <<label, holds, cycle, event, unproven, heldGens, issued, crashes>>
  /\ tries' = tries - 1
  /\ absent' \in (IF Present' THEN {FALSE} ELSE BOOLEAN)

\* Faulty variant: the POST counts as written.
PostedReserve ==
  /\ at = "write" /\ tries < Tries /\ event.kind = "reserved"
  /\ me' = event.id /\ at' = "ci" /\ unproven' = unproven \cup {event.id}
  /\ StopWrite
  /\ UNCHANGED <<forge, holds, view, result, spent, heldGens, bounds>>

\* The reservation was read back: the attempt starts.
Start ==
  /\ at = "write" /\ Present /\ event.kind = "reserved"
  /\ me' = event.id /\ at' = "ci" /\ unproven' = unproven \cup {event.id}
  /\ StopWrite
  /\ UNCHANGED <<forge, holds, view, result, spent, heldGens, bounds>>

\* An unconfirmed reservation starts nothing; once the ids of the bound are used
\* up, none is confirmed.
NotReserved ==
  /\ \/ at = "write" /\ event.kind = "reserved"
     \/ at = "loaded" /\ view.verdict = "proceed" /\ issued = MaxIds
  /\ at' = "idle" /\ StopWrite
  /\ UNCHANGED <<forge, holds, view, me, result, ghosts, bounds>>

-----------------------------------------------------------------------------
(* A cycle *)

NewId == issued < MaxIds /\ issued' = issued + 1

\* The lock is free and the comments were read, or could not be.
Load ==
  /\ at = "idle"
  /\ \E v \in {Verdict(budget), "indeterminate"} :
       view' = [gen |-> budget.gen, timeouts |-> budget.timeouts, verdict |-> v,
                terminal |-> budget.terminal]
  /\ at' = "loaded" /\ me' = None /\ result' = "none"
  /\ UNCHANGED <<forge, holds, write, ghosts, bounds>>

Running == {"ci", "report", "publish"}

\* Faulty variant: a hold of the generation itself does not block it.
LaterHold == \E g \in holds : g > view.gen

\* _local_hold_block: a hold of this or a later generation.
LocalHold == \E g \in holds : g >= view.gen

\* begin_attempt reserves; the history allows it.
Reserve ==
  /\ at = "loaded" /\ view.verdict = "proceed" /\ ~LocalHold
  /\ NewId
  /\ StartWrite([id |-> issued', kind |-> "reserved", gen |-> view.gen, outcome |-> "none"])
  /\ UNCHANGED <<forge, holds, view, me, result, ghosts, late, crashes>>

\* Faulty variant: only the cycle that stopped the parent reports it.
NotStartedQuiet ==
  /\ at = "loaded"
  /\ view.verdict # "proceed" \/ LocalHold
  /\ at' = "idle"
  /\ UNCHANGED <<forge, holds, view, me, result, write, ghosts, bounds>>

\* The history or a hold forbids it; only a missing terminal event and the
\* escalation are tried again.
NotStarted ==
  /\ at = "loaded"
  /\ view.verdict # "proceed" \/ LocalHold
  /\ IF view.verdict = "exhausted" /\ ~view.terminal /\ issued < MaxIds
       THEN /\ NewId
            /\ StartWrite([id |-> issued', kind |-> "terminal", gen |-> view.gen,
                           outcome |-> "none"])
       ELSE /\ at' = IF view.verdict \in {"exhausted", "hold"} THEN "settle" ELSE "idle"
            /\ UNCHANGED <<issued, write>>
  /\ UNCHANGED <<forge, holds, view, me, result, ghosts, late, crashes>>

\* A step before the first attempt timed out inside a write (a comment on an
\* unparsable Issue, the close of a child): held without an attempt.  The hold
\* belongs to the generation on GitHub, or to the first when that is unreadable.
HoldUnreserved ==
  /\ at = "idle"
  /\ \E g \in {budget.gen} \cup (IF HoldReadFails THEN {1} ELSE {}) :
       holds' = holds \cup {IF budget.broken THEN 1 ELSE g}
  /\ heldGens' = heldGens \cup {budget.gen}
  /\ UNCHANGED <<forge, cycle, write, unproven, spent, bounds>>

\* The end of the attempt: what is confirmed leaves nothing behind.
Ended(r) ==
  /\ result' = r
  /\ unproven' = IF r \in {"success", "failed", "timeout"} THEN unproven \ {me} ELSE unproven
  /\ spent' = IF r \in {"success", "failed"} THEN spent ELSE spent + 1

\* How a managed process ends, and what that makes of the attempt: a timeout is
\* one only after a confirmed stop and rollback.
ProcessEnds == {"ok", "nonzero", "timed_out", "unstopped"}

StageResult(p, rolled) ==
  CASE p = "ok" -> "success" [] p = "nonzero" -> "failed"
    [] p = "timed_out" /\ rolled -> "timeout" [] OTHER -> "cleanup"

\* Dependency preparation and CI of a task, each at most once.
RunCi ==
  /\ at = "ci"
  /\ \E p \in ProcessEnds, rolled \in BOOLEAN :
       LET r == StageResult(p, rolled) IN
       \/ r = "success" /\ at' = "publish" /\ result' = r /\ UNCHANGED <<unproven, spent>>
       \/ r = "failed"  /\ at' = "report"  /\ result' = r /\ UNCHANGED <<unproven, spent>>
       \/ r = "timeout" /\ at' = "record" /\ Ended(r)
       \/ r = "cleanup" /\ at' = "held" /\ Ended(r)
  /\ UNCHANGED <<forge, holds, view, me, write, heldGens, bounds>>

\* A git command of the merge timed out, or the deadline passed before it.
MergeTimeout ==
  /\ at = "ci"
  /\ \/ at' = "record" /\ Ended("timeout")
     \/ at' = "held" /\ Ended("cleanup")
  /\ UNCHANGED <<forge, holds, view, me, write, heldGens, bounds>>

\* The failed task goes back to its worker; then the other tasks are integrated.
\* A write that times out there leaves the attempt in doubt.
ReportFailure ==
  /\ at = "report"
  /\ \/ at' = "publish" /\ UNCHANGED <<result, unproven, spent>>
     \/ at' = "held" /\ Ended("unknown")
  /\ UNCHANGED <<forge, holds, view, me, write, heldGens, bounds>>

\* The steps that write: push, pull request, review, merge, labels.  One that
\* times out before its write is an ordinary timeout of the cycle.
Publish ==
  /\ at = "publish"
  /\ \/ \E r \in {result, "failed"} : at' = "record" /\ Ended(r)
     \/ at' = "record" /\ Ended("timeout")
     \/ at' = "held" /\ Ended("unknown")
  /\ UNCHANGED <<forge, holds, view, me, write, heldGens, bounds>>

\* A hold record is written, or the disk refuses it.
Holding ==
  \/ holds' = holds \cup {view.gen} /\ heldGens' = heldGens \cup {view.gen}
  \/ UNCHANGED <<holds, heldGens>>

\* _record_abort holds the worktree before the result is recorded.
HoldAttempt ==
  /\ at = "held" /\ Holding /\ at' = "record"
  /\ UNCHANGED <<forge, view, me, result, write, unproven, spent, bounds>>

Record ==
  /\ at = "record"
  /\ StartWrite([id |-> me, kind |-> "finished", gen |-> view.gen, outcome |-> result])
  /\ UNCHANGED <<forge, holds, view, me, result, ghosts, bounds>>

\* planned_retry: the timeout that just happened leaves a retry.
RetryAllowed == view.timeouts + 1 <= MaxRetries

\* The result was read back.
Recorded ==
  /\ at = "write" /\ Present /\ event.kind = "finished"
  /\ \/ /\ \/ result \in {"success", "failed"}
           \/ result = "timeout" /\ RetryAllowed
        /\ at' = "idle" /\ StopWrite /\ UNCHANGED <<holds, heldGens>>
     \/ /\ result = "timeout" /\ ~RetryAllowed
        /\ StartWrite([id |-> me, kind |-> "terminal", gen |-> view.gen, outcome |-> "none"])
        /\ UNCHANGED <<holds, heldGens>>
     \/ /\ result \in {"cleanup", "unknown"}
        /\ Holding /\ at' = "settle" /\ StopWrite
  /\ UNCHANGED <<forge, view, me, result, unproven, spent, bounds>>

\* The result or its terminal event was not confirmed: hold the worktree.  A
\* terminal event of an earlier attempt is only tried again.
NotRecorded ==
  /\ at = "write" /\ event.kind \in {"finished", "terminal"}
  /\ at' = "settle" /\ StopWrite
  /\ IF me = None THEN UNCHANGED <<holds, heldGens>> ELSE Holding
  /\ UNCHANGED <<forge, view, me, result, unproven, spent, bounds>>

TerminalRecorded ==
  /\ at = "write" /\ Present /\ event.kind = "terminal"
  /\ at' = "settle" /\ StopWrite
  /\ UNCHANGED <<forge, holds, view, me, result, ghosts, bounds>>

\* escalate: the parent goes to human review; a failure is only reported.
Escalate ==
  /\ at = "settle" /\ at' = "idle" /\ label' = TRUE
  /\ UNCHANGED <<budget, seen, flight, holds, view, me, result, write, ghosts, bounds>>

EscalateFails ==
  /\ at = "settle" /\ at' = "idle"
  /\ UNCHANGED <<forge, holds, view, me, result, write, ghosts, bounds>>

-----------------------------------------------------------------------------
(* The environment *)

\* The process dies, or an exception nobody expected ends the cycle.
Crash ==
  /\ at # "idle" /\ crashes < MaxCrash
  /\ at' = "idle" /\ StopWrite /\ crashes' = crashes + 1
  /\ spent' = IF at \in Running THEN spent + 1 ELSE spent
  /\ UNCHANGED <<forge, holds, view, me, result, unproven, heldGens, issued, late>>

LateLanding ==
  /\ \E e \in flight : Lands(e) /\ flight' = flight \ {e}
  /\ UNCHANGED <<label, holds, cycle, write, unproven, heldGens, bounds>>

BackoffPasses ==
  /\ budget.waiting
  /\ budget' = [budget EXCEPT !.waiting = FALSE]
  /\ UNCHANGED <<seen, flight, label, holds, cycle, write, ghosts, bounds>>

\* A cycle that reserved an attempt is still under way.
Live ==
  /\ at # "idle"
  /\ me # None \/ event.kind = "reserved"

\* The operator found no process of the run, reconciled its writes, posts a
\* reset for what is held, removes the hold records and clears the label.
Reset(ref) ==
  /\ ~Live /\ NewId
  /\ IF ref = "local" THEN \E g \in holds : g >= budget.gen
     ELSE Verdict(budget) \in {"hold", "exhausted"}
  /\ Lands([id |-> issued', kind |-> "reset", gen |-> budget.gen + 1, outcome |-> ref])
  /\ unproven' = {} /\ label' = FALSE
  /\ holds' \in {holds, {}} /\ heldGens' = {}
  /\ UNCHANGED <<flight, cycle, write, late, crashes>>

-----------------------------------------------------------------------------
Init ==
  /\ budget = Fresh(1) /\ seen = {} /\ flight = {} /\ label = FALSE
  /\ holds = {}
  /\ at = "idle" /\ me = None /\ result = "none"
  /\ view = [gen |-> 1, timeouts |-> 0, verdict |-> "indeterminate", terminal |-> FALSE]
  /\ event = NoEvent /\ tries = 0 /\ absent = FALSE
  /\ issued = 0 /\ late = 0 /\ crashes = 0
  /\ unproven = {} /\ spent = 0 /\ heldGens = {}

Next ==
  \/ Load \/ Reserve \/ NotStarted \/ HoldUnreserved
  \/ Try \/ Start \/ NotReserved
  \/ RunCi \/ MergeTimeout \/ ReportFailure \/ Publish \/ HoldAttempt \/ Record
  \/ Recorded \/ NotRecorded \/ TerminalRecorded
  \/ Escalate \/ EscalateFails
  \/ Crash \/ LateLanding \/ BackoffPasses
  \/ \E ref \in {"attempt", "local"} : Reset(ref)

Spec == Init /\ [][Next]_vars

\* The dispatcher keeps running cycles, and GitHub does not refuse for ever.
Fairness ==
  /\ WF_vars(Load \/ Reserve \/ NotStarted \/ RunCi \/ ReportFailure \/ Publish \/ HoldAttempt \/ Record)
  /\ WF_vars(Try \/ Start \/ NotReserved)
  /\ WF_vars(Recorded \/ NotRecorded \/ TerminalRecorded)
  /\ WF_vars(Escalate \/ EscalateFails)
  /\ SF_vars(Load /\ view'.verdict = Verdict(budget))
  /\ SF_vars(Escalate)

FairSpec == Spec /\ Fairness

-----------------------------------------------------------------------------
(* Properties *)

TypeOK ==
  /\ budget \in [gen: Nat, timeouts: Nat, open: Nat, blocked: Nat, terminal: BOOLEAN,
                 waiting: BOOLEAN, broken: BOOLEAN]
  /\ seen \subseteq Event /\ flight \subseteq Event /\ label \in BOOLEAN
  /\ holds \subseteq Nat /\ heldGens \subseteq Nat
  /\ at \in Steps /\ me \in Nat /\ result \in Outcomes
  /\ view \in [gen: Nat, timeouts: Nat, verdict: Verdicts, terminal: BOOLEAN]
  /\ event \in Event /\ tries \in 0 .. Tries /\ absent \in BOOLEAN
  /\ issued \in 0 .. MaxIds /\ late \in 0 .. MaxLate /\ crashes \in 0 .. MaxCrash
  /\ unproven \subseteq Nat /\ spent \in Nat

\* CI never runs beside the processes or writes of an earlier attempt that
\* nobody proved ended: a run that died, or whose stop, rollback or write was
\* not confirmed, holds the parent until an operator verified it.
RunsAlone == at \in Running => unproven = {me}

\* One generation spends at most the first attempt and its retries on attempts
\* that timed out, died or were left in doubt, whatever write is lost or late.
SpentBounded == spent <= MaxAttempts

\* Between cycles a history that lets the parent go on counts every such attempt.
CountSurvives ==
  ~budget.broken /\ Resolved(budget) /\ ~Live => budget.timeouts = spent

\* The rules that stop a parent and the rules that accept a reset agree: whatever
\* an intact history stops, the reset of the operator procedure releases.
ResetReleases ==
  ~budget.broken /\ Verdict(budget) \in {"hold", "exhausted"} =>
    Accepts(budget, [id |-> issued + 1, kind |-> "reset", gen |-> budget.gen + 1,
                     outcome |-> "attempt"])

\* The budget of a generation: never overspent, never forgotten, and whatever it
\* stops an operator can release.
BudgetKept == SpentBounded /\ CountSurvives /\ ResetReleases

Starts == at # "ci" /\ at' = "ci"

\* No attempt starts in the generation of a worktree held for a human.
HeldRests == [][Starts => budget.gen \notin heldGens]_vars

Stopped == Verdict(budget) \in {"hold", "exhausted"}

\* A parent that only a human can release reaches human review, although each
\* cycle may fail to save the terminal event or the label.
StoppedEscalates == Stopped /\ ~label ~> label \/ ~Stopped

=============================================================================
