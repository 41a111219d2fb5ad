---------------------------- MODULE StatusRepair ----------------------------
(***************************************************************************)
(* The repair of the status labels of one open Issue by the cycles of the  *)
(* dispatcher (dispatch/status_repair.py, consistency/, reporting/         *)
(* promotion.py), next to the other writers of those labels: a launch and  *)
(* a completion, which hold the lock of the run state, the integrator's    *)
(* rollback, which does not, and people.                                   *)
(*                                                                         *)
(* A cycle plans commands from what it read, and executes each one against *)
(* a fresh read: it saves an intent, writes one label after the other,     *)
(* reads the labels back and only then calls the intent verified.  A       *)
(* promotion is reported once, in the log of events, through a journal of  *)
(* its own.  Requests and saves fail, answers get lost or come late, and   *)
(* the dispatcher stops anywhere; a later cycle takes the intent up again. *)
(***************************************************************************)
EXTENDS Naturals, FiniteSets, Sequences

CONSTANTS
  Final,       \* codes the configuration allows the last pass of a cycle to repair
  MaxEvents,   \* bound: launches, completions, rollbacks, changes of dependencies and holds
  MaxEdits,    \* bound: relabellings by people
  MaxFaults,   \* bound: requests and saves that fail, late reads
  MaxCrashes   \* bound: stops of the dispatcher inside a cycle

Active    == {"progress", "queued", "blocked"}
Lifecycle == Active \cup {"done", "review"}
Codes     == {"promote", "demote", "conflict", "missing"}
None      == "none"

ASSUME StatusAssumption ==
  /\ Final \subseteq Codes
  /\ {MaxEvents, MaxEdits, MaxFaults, MaxCrashes} \subseteq Nat

VARIABLES
  labels,     \* the lifecycle labels of the Issue on GitHub
  dep,        \* its dependencies, at least one, are completed
  hold,       \* a label forbids promotion: red base branch or recompute
  outcome,    \* a comment of the current claim says blocked
  reserved,   \* target of a completion that is not finished, or None
  writer,     \* another process between its two label writes, or "idle"
  intents,    \* the journal of intents, oldest first; its index is the id
  reports,    \* ids of promotions verified and not yet reported
  log,        \* for each id the lines of the event log that hold it
  at,         \* the next step of the cycle, "off" between cycles
  stage,      \* the pass whose commands are being executed
  seen,       \* what the cycle read when it began
  late,       \* the labels before the last write of this cycle
  todo,       \* commands of this pass still to execute
  cmd,        \* the command being executed
  cur,        \* the intent being carried out, 0 for none
  tried,      \* codes of the commands executed in this cycle
  sending,    \* ids in the event line of this cycle
  calm,       \* nothing but the cycle happened since it began
  events, edits, faults, crashes   \* what happened so far

forge    == <<labels, dep, hold, outcome>>
others   == <<reserved, writer>>
disk     == <<intents, reports, log>>
plan     == <<stage, seen, todo, cmd, tried>>
counters == <<events, edits, faults, crashes>>
vars == <<forge, others, disk, plan, at, late, cur, sending, calm, counters>>

NoCommand == [kind |-> None, code |-> None, want |-> None, drop |-> None]
Unseen    == [labels |-> {}, dep |-> FALSE, hold |-> FALSE]

-----------------------------------------------------------------------------
(* The policy: what the labels should be and the commands to get there.    *)

(* A bug: a finished Issue beside queued is not taken for a rollback.      *)
DesiredDone(l, d) ==
  CASE "done" \in l                -> "done"
    [] "review" \in l              -> "review"
    [] "progress" \in l            -> "progress"
    [] OTHER -> IF d THEN "queued" ELSE "blocked"
(* The label an Issue should hold, by what it holds.                       *)
Desired(l, d) ==
  CASE "done" \in l /\ "queued" \notin l                     -> "done"
    [] "review" \in l /\ "done" \notin l                     -> "review"
    [] "progress" \in l /\ ({"done", "queued"} \subseteq l \/ l \subseteq Active) -> "progress"
    [] OTHER -> IF d THEN "queued" ELSE "blocked"

(* A repair may not take away a final label or a human gate, but for the   *)
(* rollback that stopped between its two writes.                           *)
Protects(l, want) ==
  \/ want = "queued" /\ l = {"done", "queued"}
  \/ l \cap {"done", "review"} \in {{}, {want}}

Want(v) == Desired(v.labels, v.dep)
(* A label of promotion is not given to a held Issue.                      *)
Free(v) == ~(Want(v) = "queued" /\ v.hold)

(* The findings a cycle may repair by itself: no label at all, more than   *)
(* one where the wanted one is there and no protected one would go, and a  *)
(* single label that the dependencies contradict.                          *)
Missing(v)  == v.labels = {} /\ Free(v)
Conflict(v) ==
  /\ Cardinality(v.labels) > 1 /\ Want(v) \in v.labels /\ Free(v)
  /\ "review" \notin v.labels \ {Want(v)} /\ Protects(v.labels, Want(v))
Promotable(v) == v.labels = {"blocked"} /\ v.dep /\ ~v.hold
Demotable(v)  == v.labels = {"queued"} /\ ~v.dep

Transition(code, old, new) ==
  [kind |-> "transition", code |-> code, want |-> new, drop |-> old]

(* The commands that repair a finding.                                     *)
Commands(v) ==
  CASE Missing(v)    -> {[kind |-> "add", code |-> "missing", want |-> Want(v), drop |-> None]}
    [] Conflict(v)   -> {[kind |-> "remove", code |-> "conflict", want |-> Want(v), drop |-> x]
                           : x \in v.labels \ {Want(v)}}
    [] Promotable(v) -> {Transition("promote", "blocked", "queued")}
    [] Demotable(v)  -> {Transition("demote", "queued", "blocked")}
    [] OTHER         -> {}

(* The checks of a command against a fresh read, just before it writes:    *)
(* what no command may do, and what this one assumes.                      *)
GuardHolds(c, v) ==
  /\ c.want = "queued" => ~v.hold
  /\ Protects(v.labels, c.want)
  /\ "done" \in v.labels /\ c.want = "queued" => c.kind = "remove" /\ c.drop = "done"
PreconditionsHold(c, v, blockedOutcome) ==
  CASE c.kind = "add"    -> v.labels = {}
    [] c.kind = "remove" -> {c.want, c.drop} \subseteq v.labels
    [] OTHER -> /\ c.drop \in v.labels
                /\ IF c.code = "promote" THEN v.dep /\ ~blockedOutcome ELSE ~v.dep
Allows(c, v, blockedOutcome) == GuardHolds(c, v) /\ PreconditionsHold(c, v, blockedOutcome)

-----------------------------------------------------------------------------
(* The journal of intents.                                                 *)

Ids     == DOMAIN intents
Pending == {i \in Ids : intents[i].st /= "verified"}

(* A bug: only the same command takes an intent up.                        *)
ResumesSame(c, i) ==
  /\ i \in Pending
  /\ intents[i].want = c.want
  /\ <<intents[i].kind, intents[i].code>> = <<c.kind, c.code>>
(* An intent that a command may take up: the same command, or a transition *)
(* whose old label a conflict now removes.                                 *)
Resumes(c, i) ==
  /\ i \in Pending
  /\ intents[i].want = c.want
  /\ \/ <<intents[i].kind, intents[i].code>> = <<c.kind, c.code>>
     \/ intents[i].kind = "transition" /\ c.kind = "remove"
Match(c) ==
  LET found == {i \in Ids : Resumes(c, i)} IN
  IF Cardinality(found) = 1 THEN CHOOSE i \in found : TRUE ELSE 0
(* A bug: an intent of another command does not keep a new one away.       *)
CoveredNever(c) == FALSE /\ c = NoCommand
Covered(c) == Match(c) = 0 /\ Pending /= {}

Promotion(i) == intents[i].kind = "transition" /\ intents[i].code = "promote"
NewIntent(c) ==
  [st |-> "planned", kind |-> c.kind, code |-> c.code, want |-> c.want,
   marked |-> FALSE]

Init ==
  /\ dep \in BOOLEAN
  /\ labels = {IF dep THEN "queued" ELSE "blocked"}
  /\ hold = FALSE /\ outcome = FALSE
  /\ reserved = None /\ writer = "idle"
  /\ intents = <<>> /\ reports = {} /\ log = <<>>
  /\ at = "off" /\ stage = None /\ seen = Unseen /\ late = {} /\ todo = {}
  /\ cmd = NoCommand /\ cur = 0 /\ tried = {} /\ sending = {} /\ calm = FALSE
  /\ events = 0 /\ edits = 0 /\ faults = 0 /\ crashes = 0

-----------------------------------------------------------------------------
(* The cycle.                                                              *)

Goto(step) == at' = step
Now(l) == [labels |-> l, dep |-> dep, hold |-> hold]

Fault == faults < MaxFaults /\ faults' = faults + 1 /\ calm' = FALSE
Fine  == UNCHANGED <<faults, calm>>
(* A read of the labels: right after a write it may still be the old one.  *)
Read(l) ==
  \/ l = labels /\ Fine
  \/ l = late /\ late /= labels /\ Fault

(* What the documents promise of an undisturbed cycle: the one label the   *)
(* Issue should end with, and the states left to people or to a wait.      *)
Target ==
  CASE labels = {"done", "queued"} -> "queued"
    [] labels \cap {"done", "review"} = {} ->
         IF "progress" \in labels THEN "progress" ELSE IF dep THEN "queued" ELSE "blocked"
    [] OTHER -> IF "done" \in labels THEN "done" ELSE "review"
Manual ==
  /\ "done" \in labels /\ labels \cap {"review", "queued"} /= {}
  /\ ~(labels = {"done", "queued"} /\ dep)
(* A pending intent towards another label, or one that began as something  *)
(* else than what is needed now.                                           *)
Need == CASE labels = {} -> {"add"}
          [] Cardinality(labels) = 1 -> {"transition"}
          [] OTHER -> {"transition", "remove"}
Conflicting ==
  \E i \in Pending : intents[i].want /= Target \/ intents[i].kind \notin Need
Excused == reserved /= None \/ hold \/ outcome \/ Manual \/ Conflicting
Settled == labels = {Target}

(* The end of a cycle, or its stop: what it had in memory is gone.         *)
Off ==
  /\ at' = "off" /\ stage' = None /\ seen' = Unseen /\ late' = {} /\ todo' = {}
  /\ cmd' = NoCommand /\ cur' = 0 /\ tried' = {} /\ sending' = {} /\ calm' = FALSE

(* The cycle takes the lock and reads the Issue.                           *)
Begin ==
  /\ at = "off" /\ writer \in {"idle", "rollback"}
  /\ Goto("reconcile")
  /\ seen' = Now(labels) /\ late' = labels
  /\ calm' = ~Excused
  /\ UNCHANGED <<forge, others, disk, stage, todo, cmd, tried, cur, sending, counters>>

(* A pending intent whose label is there is settled, whoever wrote it.     *)
Reconcile ==
  /\ at = "reconcile"
  /\ \/ \E i \in Pending, l \in SUBSET Lifecycle :
          /\ Read(l)
          /\ reserved = None /\ l = {intents[i].want}
          /\ cur' = i
          /\ Goto(IF intents[i].st = "planned" THEN "adopt"
                  ELSE IF Promotion(i) THEN "report" ELSE "close")
     \/ /\ \A i \in Pending : reserved /= None \/ labels /= {intents[i].want}
        /\ Goto("promote") /\ Fine /\ UNCHANGED cur
  /\ UNCHANGED <<forge, others, disk, plan, late, sending, events, edits, crashes>>

(* An intent that is still only planned is taken for somebody else's.      *)
Adopt ==
  /\ at = "adopt"
  /\ intents' = [intents EXCEPT ![cur].st = "applied"]
  /\ Goto("close")
  /\ UNCHANGED <<forge, others, reports, log, plan, late, cur, sending, calm, counters>>

(* A promotion is noted as unreported before its intent is verified.       *)
Report ==
  /\ at = "report"
  /\ reports' = reports \cup {cur}
  /\ Goto("close")
  /\ UNCHANGED <<forge, others, intents, log, plan, late, cur, sending, calm, counters>>

Onward == IF stage = None THEN "promote" ELSE "next"
Close ==
  /\ at = "close"
  /\ intents' = [intents EXCEPT ![cur].st = "verified"]
  /\ cur' = 0 /\ Goto(Onward)
  /\ UNCHANGED <<forge, others, reports, log, plan, late, sending, calm, counters>>

(* A pass: the commands whose codes it may repair, from the state v.       *)
Pass(s, v, codes) ==
  /\ at = s /\ stage' = s /\ Goto("next")
  /\ todo' = {c \in Commands(v) : c.code \in codes}
  /\ UNCHANGED <<forge, others, disk, seen, cmd, tried, late, cur, sending>>
  /\ UNCHANGED <<events, edits, crashes>>

(* The two passes before scheduling work from the state read at the        *)
(* beginning, the last one from new labels and from the dependencies as    *)
(* the cycle knows them; it leaves out the codes the others tried.         *)
PassPromote  == Pass("promote", seen, {"promote"}) /\ Fine
PassConflict == Pass("conflict", seen, {"conflict"}) /\ Fine
PassFinal ==
  \E l \in SUBSET Lifecycle :
    Read(l) /\ Pass("final", [labels |-> l, dep |-> seen.dep, hold |-> hold], Final \ tried)

AfterStage == CASE stage = "promote"  -> "deliver"
                [] stage = "conflict" -> "final"
                [] OTHER              -> "log"
Take ==
  /\ at = "next"
  /\ IF todo = {}
     THEN Goto(AfterStage) /\ UNCHANGED <<todo, cmd, tried>>
     ELSE \E c \in todo : /\ cmd' = c /\ todo' = todo \ {c}
                          /\ tried' = tried \cup {c.code}
                          /\ Goto("check")
  /\ UNCHANGED <<forge, others, disk, stage, seen, late, cur, sending, calm, counters>>

(* Reservation, journal and a fresh read of the Issue; a new intent is     *)
(* saved before the first write.                                           *)
Check ==
  /\ at = "check"
  /\ IF reserved /= None \/ Covered(cmd)
     THEN Goto("next") /\ Fine /\ UNCHANGED <<intents, cur>>
     ELSE \E l \in SUBSET Lifecycle :
            /\ Read(l)
            /\ IF Allows(cmd, Now(l), outcome)
               THEN /\ IF Match(cmd) = 0
                       THEN intents' = Append(intents, NewIntent(cmd)) /\ cur' = Len(intents) + 1
                       ELSE cur' = Match(cmd) /\ UNCHANGED intents
                    /\ Goto(IF cmd.kind = "remove" THEN "drop" ELSE "add")
               ELSE Goto("next") /\ UNCHANGED <<intents, cur>>
  /\ UNCHANGED <<forge, others, reports, log, plan, late, sending, events, edits, crashes>>

(* The answer to a write: it comes, or it is lost and the command failed.  *)
Answered(step) ==
  \/ Goto(step) /\ Fine /\ UNCHANGED cur
  \/ Goto("next") /\ cur' = 0 /\ Fault

Add ==
  /\ at = "add"
  /\ labels' = labels \cup {cmd.want} /\ late' = labels
  /\ Answered("mark")
  /\ UNCHANGED <<dep, hold, outcome, others, disk, plan, sending, events, edits, crashes>>

Drop ==
  /\ at = "drop"
  /\ labels' = labels \ {cmd.drop} /\ late' = labels
  /\ Answered(IF cmd.kind = "transition" THEN "verify" ELSE "mark")
  /\ UNCHANGED <<dep, hold, outcome, others, disk, plan, sending, events, edits, crashes>>

(* A transition is applied when its new label is there, even if the old    *)
(* one stays.                                                              *)
Mark ==
  /\ at = "mark"
  /\ intents' = [intents EXCEPT ![cur].st = "applied", ![cur].marked = TRUE]
  /\ Goto(IF cmd.kind = "transition" THEN "drop" ELSE "verify")
  /\ UNCHANGED <<forge, others, reports, log, plan, late, cur, sending, calm, counters>>

Verify ==
  /\ at = "verify"
  /\ \E l \in SUBSET Lifecycle :
       /\ Read(l)
       /\ IF l = {intents[cur].want}
          THEN Goto(IF Promotion(cur) THEN "report" ELSE "close") /\ UNCHANGED cur
          ELSE Goto("next") /\ cur' = 0
  /\ UNCHANGED <<forge, others, disk, plan, late, sending, events, edits, crashes>>

(* The reports of this cycle, without those that are in the log.           *)
Logged == UNION {log[n] : n \in DOMAIN log}
Unreported == reports \ Logged
Deliver ==
  /\ at = "deliver"
  /\ sending' = Unreported /\ reports' = Unreported
  /\ Goto("conflict")
  /\ UNCHANGED <<forge, others, intents, log, plan, late, cur, calm, counters>>

Log ==
  /\ at = "log"
  /\ log' = IF sending = {} THEN log ELSE Append(log, sending)
  /\ Goto("confirm")
  /\ UNCHANGED <<forge, others, intents, reports, plan, late, cur, sending, calm, counters>>

Confirm ==
  /\ at = "confirm"
  /\ reports' = reports \ sending
  /\ Off
  /\ UNCHANGED <<forge, others, intents, log, counters>>

(* A request or a save fails without effect.  The command fails and the    *)
(* cycle goes on; without the event line it ends.                          *)
Fail ==
  /\ at \notin {"off", "promote", "conflict", "next"}
  /\ faults < MaxFaults /\ faults' = faults + 1
  /\ IF at \in {"log", "confirm"} THEN Off
     ELSE /\ Goto(CASE at = "reconcile"                  -> "promote"
                    [] at \in {"adopt", "report", "close"} -> Onward
                    [] at = "deliver"                    -> "conflict"
                    [] at = "final"                      -> "log"
                    [] OTHER                             -> "next")
          /\ cur' = 0 /\ calm' = FALSE
          /\ UNCHANGED <<plan, late, sending>>
  /\ UNCHANGED <<forge, others, disk, events, edits, crashes>>

Crash ==
  /\ at /= "off" /\ crashes < MaxCrashes /\ crashes' = crashes + 1
  /\ Off
  /\ UNCHANGED <<forge, others, disk, events, edits, faults>>

-----------------------------------------------------------------------------
(* The other writers.                                                      *)

cycle == <<at, plan, late, cur, sending>>
Event == events < MaxEvents /\ events' = events + 1 /\ calm' = FALSE
Locked == at = "off" /\ writer = "idle"

(* A launch, or an interactive claim, under the lock.                      *)
Launch ==
  /\ Locked /\ reserved = None /\ labels = {"queued"} /\ Event
  /\ labels' = {"queued", "progress"} /\ outcome' = FALSE /\ writer' = "launch"
  /\ UNCHANGED <<dep, hold, reserved, disk, cycle, edits, faults, crashes>>

(* A completion, under the lock: first its reservation.                    *)
Complete ==
  /\ Locked /\ reserved = None /\ "progress" \in labels /\ labels \subseteq Active /\ Event
  /\ reserved' \in {"done", "blocked"} /\ writer' = "complete"
  /\ outcome' = (reserved' = "blocked")
  /\ UNCHANGED <<labels, dep, hold, disk, cycle, edits, faults, crashes>>
Resume ==
  /\ Locked /\ reserved /= None /\ calm' = FALSE
  /\ writer' = "complete"
  /\ UNCHANGED <<forge, reserved, disk, cycle, counters>>
CompleteAdd ==
  /\ writer = "complete" /\ reserved \notin labels
  /\ labels' = labels \cup {reserved} /\ calm' = FALSE
  /\ UNCHANGED <<dep, hold, outcome, others, disk, cycle, counters>>

(* The integrator takes a merge back.  It does not hold the lock.          *)
Rollback ==
  /\ writer = "idle" /\ reserved = None /\ labels = {"done"} /\ Event
  /\ labels' = {"done", "queued"} /\ writer' = "rollback"
  /\ UNCHANGED <<dep, hold, outcome, reserved, disk, cycle, edits, faults, crashes>>

(* The old label goes last.                                                *)
Finish ==
  /\ writer /= "idle" /\ (writer = "complete" => reserved \in labels)
  /\ labels' = CASE writer = "launch"   -> labels \ {"queued"}
                 [] writer = "complete" -> labels \ (Active \ {reserved})
                 [] OTHER               -> labels \ {"done"}
  /\ reserved' = IF writer = "complete" THEN None ELSE reserved
  /\ writer' = "idle" /\ calm' = FALSE
  /\ UNCHANGED <<dep, hold, outcome, disk, cycle, counters>>
Die ==
  /\ writer /= "idle" /\ crashes < MaxCrashes /\ crashes' = crashes + 1
  /\ writer' = "idle"
  /\ UNCHANGED <<forge, reserved, disk, cycle, calm, events, edits, faults>>

Change ==
  /\ Event
  /\ \/ dep' = ~dep /\ UNCHANGED hold
     \/ hold' = ~hold /\ UNCHANGED dep
  /\ UNCHANGED <<labels, outcome, others, disk, cycle, edits, faults, crashes>>

Edit ==
  /\ edits < MaxEdits /\ edits' = edits + 1 /\ calm' = FALSE
  /\ labels' \in SUBSET Lifecycle
  /\ UNCHANGED <<dep, hold, outcome, others, disk, cycle, events, faults, crashes>>

-----------------------------------------------------------------------------
Passes == PassPromote \/ PassConflict \/ PassFinal
Execute == Take \/ Check \/ Add \/ Mark \/ Drop \/ Verify
Settle == Reconcile \/ Adopt \/ Report \/ Close
Cycle == Begin \/ Settle \/ Passes \/ Execute \/ Deliver \/ Log \/ Confirm
Writers == Launch \/ Complete \/ Resume \/ Rollback
Finishing == CompleteAdd \/ Finish
Next == Cycle \/ Fail \/ Crash \/ Writers \/ Finishing \/ Die \/ Change \/ Edit

Spec == Init /\ [][Next]_vars
FairSpec == Spec /\ WF_vars(Cycle) /\ WF_vars(Finishing)

Command ==
  [kind : {"transition", "add", "remove", None}, code : Codes \cup {None},
   want : Lifecycle \cup {None}, drop : Lifecycle \cup {None}]
Intent ==
  [st : {"planned", "applied", "verified"}, kind : {"transition", "add", "remove"},
   code : Codes, want : Lifecycle, marked : BOOLEAN]

(* Every variable has its type, the intents of the journals and of the     *)
(* event log exist, and a cycle that carries an intent out has a pending   *)
(* one.                                                                    *)
TypeOK ==
  /\ labels \subseteq Lifecycle /\ late \subseteq Lifecycle
  /\ {dep, hold, outcome, calm} \subseteq BOOLEAN
  /\ reserved \in {None, "done", "blocked"}
  /\ writer \in {"idle", "launch", "complete", "rollback"}
  /\ intents \in Seq(Intent)
  /\ reports \cup sending \subseteq Ids /\ log \in Seq(SUBSET Ids)
  /\ at \in {"off", "reconcile", "adopt", "report", "close", "promote", "conflict", "final",
             "next", "check", "add", "mark", "drop", "verify", "deliver", "log", "confirm"}
  /\ stage \in {None, "promote", "conflict", "final"} /\ tried \subseteq Codes
  /\ seen \in [labels : SUBSET Lifecycle, dep : BOOLEAN, hold : BOOLEAN]
  /\ todo \subseteq Command /\ cmd \in Command
  /\ cur \in {0} \cup Pending
  /\ at \in {"adopt", "report", "close", "add", "mark", "drop", "verify"} => cur /= 0
  /\ \A n \in {events, edits, faults, crashes} : n \in Nat

(* At most one intent of the Issue waits: a command never starts a second  *)
(* transition next to one that an earlier cycle left unfinished.           *)
OneIntent == Cardinality(Pending) <= 1

(* With no relabelling by people the Issue never loses its last lifecycle  *)
(* label, whatever fails between two writes and whoever else writes.       *)
NeverBare == edits = 0 => labels /= {}

(* No promotion is in two lines of the event log, although a cycle may     *)
(* stop between the line and the removal of its report.                    *)
LoggedOnce == \A m, n \in DOMAIN log : m /= n => log[m] \cap log[n] = {}

Told(i) == i \in reports \cup Logged

(* A promotion that the repair marked applied and that was verified later, *)
(* by whatever cycle, waits to be reported or has been.                    *)
PromotionTold ==
  \A i \in Ids :
    Promotion(i) /\ intents[i].marked /\ intents[i].st = "verified" => Told(i)

(* The journals, the event log and the Issue tell the same story.          *)
RepairSound == TypeOK /\ OneIntent /\ NeverBare /\ LoggedOnce /\ PromotionTold

(* A cycle in which nothing else happens brings an Issue that it may       *)
(* repair to its one label, whatever earlier cycles left half done         *)
(* (P2-RECOVERY-ONE-CYCLE).                                                *)
OneCycle == at = "log" /\ calm => Settled

(* Once the world is quiet the labels end settled, or excused.             *)
Converges == <>[](Settled \/ Excused)

(* A promotion marked applied and verified gets into the event log.        *)
PromotionLogged ==
  \A i \in 1 .. 3 :
    (i \in Ids /\ Promotion(i) /\ intents[i].marked /\ intents[i].st = "verified")
      ~> i \in Logged

\* The repair ends: the labels converge and every verified promotion is logged.
RepairEnds == Converges /\ PromotionLogged
=============================================================================
