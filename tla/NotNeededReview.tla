--------------------------- MODULE NotNeededReview ---------------------------
(***************************************************************************)
(* The independent review of a completion that says an Issue is not        *)
(* needed (dispatch/gc/policies.py, policy_review.py, complete/            *)
(* not_needed_review_guard.py), from the publication of the completion to  *)
(* the verdict and its effects.                                            *)
(*                                                                         *)
(* A completion that needs a review puts a hold label on the Issue before  *)
(* its Outcome and its terminal label.  The policy runner of the dispatch  *)
(* cycle and of `orchestune gc` starts one reviewer, reads its verdict in  *)
(* a comment, closes or requeues the Issue and takes the hold off.  The    *)
(* runner, completions and claims hold the lock of the run state; the      *)
(* reviewer and people do not.  Every request of the lock's holder may     *)
(* fail before or after its effect, and the process may stop: either ends  *)
(* its work, and a later one starts from the saved run state.              *)
(***************************************************************************)
EXTENDS Naturals, FiniteSets

CONSTANTS
  NoRecord,  \* no record of a completion
  MaxGen,    \* bound: completions of the Issue
  MaxStops,  \* bound: requests that fail and stops of the lock's holder
  MaxEdits,  \* bound: times a person requeues the Issue
  MaxLoss    \* bound: losses of the run state

Gens    == 1..MaxGen
Active  == {"in-progress", "queued", "blocked"}
Status  == Active \cup {"done", "not-needed", "human"}
Kinds   == {"review", "exempt", "done"}
None    == "none"
Pending == {"reserved", "posted"}
Record  == [gen : Gens, kind : Kinds, stage : Pending \cup {"handed"},
            launch : {None, "launching", "launched"},
            late : BOOLEAN,
            end : {None, "applied", "rejected", "timed-out"}]

Backup  == [rec : Record, active : Gens \cup {0}]

ASSUME ReviewAssumption ==
  /\ {MaxGen, MaxStops, MaxEdits, MaxLoss} \subseteq Nat
  /\ NoRecord \notin Record \cup Backup

VARIABLES
  labels,    \* status labels of the Issue, and "hold"
  open,      \* the Issue is open
  latest,    \* the completion whose Outcome is the newest comment, or 0
  verdicts,  \* verdicts in comments: pairs of a completion and a verdict
  agents,    \* reviewers started for each completion
  shut,      \* completions for which the runner closed the Issue
  kinds,     \* what each completion of the history was
  rec,       \* the saved record of the current completion, or NoRecord
  active,    \* the completion an active worktree is preparing, or 0
  backup,    \* a lost run state somebody may restore, or NoRecord
  at,        \* the next step of the lock's holder, "off" when it is free
  heard,     \* the verdict the runner acts on
  seen,      \* labels it read before it changes them
  stops, edits, losses  \* what happened so far

issue    == <<labels, open, latest, kinds>>
review   == <<verdicts, agents, shut>>
saved    == <<rec, active, backup>>
counters == <<stops, edits, losses>>
vars     == <<issue, review, saved, at, heard, seen, counters>>

Init ==
  /\ labels = {"queued"} /\ open = TRUE /\ latest = 0
  /\ verdicts = {} /\ agents = [g \in Gens |-> 0] /\ shut = {}
  /\ kinds = [g \in Gens |-> None]
  /\ rec = NoRecord /\ active = 0 /\ backup = NoRecord
  /\ at = "off" /\ heard = None /\ seen = {}
  /\ stops = 0 /\ edits = 0 /\ losses = 0

IsPending == rec # NoRecord /\ rec.stage \in Pending
Unused    == {g \in Gens : kinds[g] = None /\ active # g
                           /\ (backup # NoRecord => backup.active # g)}

-----------------------------------------------------------------------------
(* Claims and completions, under the lock.                                 *)

Claim ==
  /\ at = "off" /\ active = 0 /\ ~IsPending
  /\ open /\ "queued" \in labels
  /\ labels \cap {"in-progress", "done", "not-needed", "human"} = {}
  /\ \E g \in Unused : active' = g
  /\ labels' = (labels \ Active) \cup {"in-progress"}
  /\ UNCHANGED <<open, latest, kinds, review, rec, backup, at, heard, seen,
                 counters>>

Reserve(g, kind) ==
  /\ rec' = [gen |-> g, kind |-> kind, stage |-> "reserved",
             launch |-> None, late |-> FALSE, end |-> None]
  /\ kinds' = [kinds EXCEPT ![g] = kind]
  /\ at' = "hold"
  /\ UNCHANGED <<labels, open, latest, review, active, backup, heard, seen,
                 counters>>

(* The holder of a claim: an external execution has its not-needed         *)
(* reviewed, a local one is exempt.                                        *)
CompleteClaimed(kind) ==
  /\ at = "off" /\ active # 0 /\ (rec # NoRecord => rec.gen # active)
  /\ Reserve(active, kind)

(* A person without a claim: always reviewed.                              *)
CompleteUnclaimed ==
  /\ at = "off" /\ active = 0 /\ ~IsPending
  /\ open /\ labels \cap {"done", "not-needed", "human"} = {}
  /\ \E g \in Unused : Reserve(g, "review")

(* The same command again after an interrupted one.                        *)
Resume ==
  /\ at = "off" /\ IsPending /\ active \in {0, rec.gen}
  /\ active = 0 => open /\ labels \cap {"done", "human"} = {}
  /\ at' = "hold"
  /\ UNCHANGED <<issue, review, saved, heard, seen, counters>>

Hold ==
  /\ at = "hold"
  /\ labels' = IF rec.kind = "review" THEN labels \cup {"hold"} ELSE labels
  /\ at' = IF rec.stage = "reserved" THEN "post" ELSE "label"
  /\ UNCHANGED <<open, latest, kinds, review, saved, heard, seen, counters>>

Target == IF rec.kind = "done" THEN "done" ELSE "not-needed"

(* A label the completion neither sets nor may remove.                     *)
Protected == labels \cap (Status \ (Active \cup {Target})) # {}

Post ==
  /\ at = "post"
  /\ IF Protected
     THEN at' = "off" /\ UNCHANGED <<latest, rec>>
     ELSE /\ latest' = rec.gen
          /\ rec' = [rec EXCEPT !.stage = "posted"]
          /\ at' = "label"
  /\ UNCHANGED <<labels, open, kinds, review, active, backup, heard, seen,
                 counters>>

AddTarget ==
  /\ at = "label"
  /\ IF Protected THEN at' = "off" /\ UNCHANGED labels
     ELSE at' = "clean" /\ labels' = labels \cup {Target}
  /\ UNCHANGED <<open, latest, kinds, review, saved, heard, seen, counters>>

DropActive ==
  /\ at = "clean"
  /\ IF Protected \/ Target \notin labels
     THEN at' = "off" /\ UNCHANGED labels
     ELSE at' = "handoff" /\ labels' = labels \ Active
  /\ UNCHANGED <<open, latest, kinds, review, saved, heard, seen, counters>>

HandOff ==
  /\ at = "handoff"
  /\ rec' = [rec EXCEPT !.stage = "handed"]
  /\ at' = "off"
  /\ UNCHANGED <<issue, review, active, backup, heard, seen, counters>>

(* The worktree of a handed off completion is collected.                   *)
Collect ==
  /\ at = "off" /\ active # 0
  /\ rec # NoRecord /\ rec.gen = active /\ rec.stage = "handed"
  /\ active' = 0
  /\ UNCHANGED <<issue, review, rec, backup, at, heard, seen, counters>>

-----------------------------------------------------------------------------
(* The policy runner, under the lock.                                      *)

Candidate ==
  /\ rec # NoRecord /\ rec.stage = "handed" /\ rec.kind # "done"
  /\ active \in {0, rec.gen} /\ rec.end = None

Begin ==
  /\ at = "off" /\ Candidate
  /\ at' = IF rec.kind = "review" THEN "confirm" ELSE "close"
  /\ heard' = None /\ seen' = {}
  /\ UNCHANGED <<issue, review, saved, counters>>

(* The newest Outcome is the one of this record.                           *)
SameGeneration == latest = rec.gen

Confirm ==
  /\ at = "confirm"
  /\ at' = IF SameGeneration THEN "keep" ELSE "off"
  /\ UNCHANGED <<issue, review, saved, heard, seen, counters>>

KeepHold ==
  /\ at = "keep"
  /\ labels' = labels \cup {"hold"}
  /\ at' = "read"
  /\ UNCHANGED <<open, latest, kinds, review, saved, heard, seen, counters>>

(* A bug: a marker that does not name the completion.                      *)
SaidByAny(v) == \E g \in Gens : <<g, v>> \in verdicts
Said(v) == <<rec.gen, v>> \in verdicts

(* A refusal wins over an approval.                                        *)
Verdict ==
  IF rec.launch = None THEN None
  ELSE IF Said("failed") THEN "failed"
  ELSE IF Said("passed") THEN "passed" ELSE None

ReadVerdict ==
  /\ at = "read"
  /\ heard' = Verdict
  /\ at' = CASE Verdict = "passed" -> "close"
             [] Verdict = "failed" -> "snapshot"
             [] rec.launch = "launched" -> "timeout"
             [] rec.launch = "launching" -> "lookup"
             [] OTHER -> "intend"
  /\ UNCHANGED <<issue, review, saved, seen, counters>>

(* A bug: only the answer is saved.                                        *)
IntendUnsaved ==
  /\ at = "intend"
  /\ at' = "fire"
  /\ UNCHANGED <<issue, review, saved, heard, seen, counters>>
(* The intent is saved before the request that starts the reviewer.        *)
Intend ==
  /\ at = "intend"
  /\ rec' = [rec EXCEPT !.launch = "launching"]
  /\ at' = "fire"
  /\ UNCHANGED <<issue, review, active, backup, heard, seen, counters>>

Fire ==
  /\ at = "fire"
  /\ agents' = [agents EXCEPT ![rec.gen] = @ + 1]
  /\ at' = "fired"
  /\ UNCHANGED <<issue, verdicts, shut, saved, heard, seen, counters>>

(* The reviewer started, or the lookup found it.                           *)
Launched ==
  /\ at = "fired"
  /\ rec' = [rec EXCEPT !.launch = "launched"]
  /\ at' = "off"
  /\ UNCHANGED <<issue, review, active, backup, heard, seen, counters>>

(* A bug: an intent nobody knows of waits.                                 *)
LookupOnly ==
  /\ at = "lookup"
  /\ \/ agents[rec.gen] > 0 /\ at' = "fired"
     \/ at' = "off"
  /\ UNCHANGED <<issue, review, saved, heard, seen, counters>>
(* An intent without an answer: the provider is asked, and never asked to  *)
(* start the reviewer again.  It may not know a reviewer that runs.        *)
Lookup ==
  /\ at = "lookup"
  /\ \/ agents[rec.gen] > 0 /\ at' = "fired"
     \/ at' = "timeout"
  /\ UNCHANGED <<issue, review, saved, heard, seen, counters>>

CheckTimeout ==
  /\ at = "timeout"
  /\ IF rec.late THEN at' = "snapshot" /\ heard' = "timeout"
     ELSE at' = "off" /\ UNCHANGED heard
  /\ UNCHANGED <<issue, review, saved, seen, counters>>

CloseIssue ==
  /\ at = "close"
  /\ open' = FALSE /\ shut' = shut \cup {rec.gen}
  /\ at' = IF rec.kind = "review" THEN "release" ELSE "settle"
  /\ UNCHANGED <<labels, latest, kinds, verdicts, agents, saved, heard, seen,
                 counters>>

(* Withdrawal: the new status label first, then the others one by one, as  *)
(* they were read before.                                                  *)
Withdrawn == IF heard = "failed" THEN "queued" ELSE "human"
Stale     == (Active \cup {"not-needed"}) \ {Withdrawn}

Snapshot ==
  /\ at = "snapshot"
  /\ seen' = labels \cap Stale
  /\ at' = "retarget"
  /\ UNCHANGED <<issue, review, saved, heard, counters>>

Retarget ==
  /\ at = "retarget"
  /\ labels' = labels \cup {Withdrawn}
  /\ at' = "prune"
  /\ UNCHANGED <<open, latest, kinds, review, saved, heard, seen, counters>>

Prune ==
  /\ at = "prune" /\ seen # {}
  /\ \E l \in seen :
       /\ l = "not-needed" => seen = {l}
       /\ labels' = labels \ {l} /\ seen' = seen \ {l}
  /\ UNCHANGED <<open, latest, kinds, review, saved, at, heard, counters>>

Pruned ==
  /\ at = "prune" /\ seen = {}
  /\ at' = IF Withdrawn \in labels /\ labels \cap Stale = {} THEN "release"
           ELSE "off"
  /\ UNCHANGED <<issue, review, saved, heard, seen, counters>>

(* What the release reads again before it takes the hold off.              *)
Releasable ==
  /\ SameGeneration
  /\ IF heard = "passed" THEN ~open /\ Said("passed") /\ ~Said("failed")
     ELSE Withdrawn \in labels /\ "not-needed" \notin labels

Release ==
  /\ at = "release"
  /\ at' = IF Releasable THEN "unhold" ELSE "off"
  /\ UNCHANGED <<issue, review, saved, heard, seen, counters>>

Unhold ==
  /\ at = "unhold"
  /\ labels' = labels \ {"hold"}
  /\ at' = "settle"
  /\ UNCHANGED <<open, latest, kinds, review, saved, heard, seen, counters>>

Settle ==
  /\ at = "settle"
  /\ rec' = [rec EXCEPT !.end = CASE heard = "failed" -> "rejected"
                                  [] heard = "timeout" -> "timed-out"
                                  [] OTHER -> "applied"]
  /\ at' = "off"
  /\ UNCHANGED <<issue, review, active, backup, heard, seen, counters>>

-----------------------------------------------------------------------------
(* What else happens.                                                      *)

(* A request fails, before or after its effect, or the process stops.      *)
Stop ==
  /\ at # "off" /\ stops < MaxStops
  /\ at' = "off" /\ stops' = stops + 1
  /\ UNCHANGED <<issue, review, saved, heard, seen, edits, losses>>

(* A reviewer comments.                                                    *)
Answer(g, v) ==
  /\ agents[g] > 0
  /\ verdicts' = verdicts \cup {<<g, v>>}
  /\ UNCHANGED <<issue, agents, shut, saved, at, heard, seen, counters>>

(* The time limit of the review passes.                                    *)
Elapse ==
  /\ rec # NoRecord /\ rec.launch # None /\ ~rec.late
  /\ rec' = [rec EXCEPT !.late = TRUE]
  /\ UNCHANGED <<issue, review, active, backup, at, heard, seen, counters>>

(* A person puts the Issue back in the queue.                              *)
Requeue ==
  /\ edits < MaxEdits /\ edits' = edits + 1
  /\ labels' = (labels \ Status) \cup {"queued"} /\ open' = TRUE
  /\ UNCHANGED <<latest, kinds, review, saved, at, heard, seen, stops, losses>>

(* The run state is lost; later its backup may be put back.  The backup of *)
(* an unfinished completion is put back only while nothing newer was       *)
(* reserved, as the recovery guide asks; one that was handed off may be    *)
(* older than the newest Outcome, but replaces no unfinished completion.   *)
Lose ==
  /\ at = "off" /\ rec # NoRecord /\ losses < MaxLoss
  /\ losses' = losses + 1
  /\ backup' = [rec |-> rec, active |-> active]
  /\ rec' = NoRecord /\ active' = 0
  /\ UNCHANGED <<issue, review, at, heard, seen, stops, edits>>

Restore ==
  /\ at = "off" /\ backup # NoRecord
  /\ rec = NoRecord \/ (backup.rec.stage = "handed" /\ ~IsPending)
  /\ rec' = backup.rec /\ active' = backup.active /\ backup' = NoRecord
  /\ UNCHANGED <<issue, review, at, heard, seen, counters>>

Complete == \/ \E kind \in Kinds : CompleteClaimed(kind)
            \/ CompleteUnclaimed \/ Resume
Publish  == Hold \/ Post \/ AddTarget \/ DropActive \/ HandOff
Runner   == Confirm \/ KeepHold \/ ReadVerdict \/ Intend \/ Fire \/ Launched
            \/ Lookup \/ CheckTimeout \/ CloseIssue \/ Snapshot \/ Retarget
            \/ Prune \/ Pruned \/ Release \/ Unhold \/ Settle
Others   == \/ \E g \in Gens, v \in {"passed", "failed"} : Answer(g, v)
            \/ Requeue \/ Lose \/ Restore \/ Stop

Next == Claim \/ Complete \/ Publish \/ Collect \/ Begin \/ Runner \/ Elapse
        \/ Others

Spec == Init /\ [][Next]_vars
(* Cycles come again, the lock's holder goes on, and time passes.          *)
FairSpec == /\ Spec
            /\ WF_vars(Begin) /\ WF_vars(Publish \/ Runner) /\ WF_vars(Elapse)

-----------------------------------------------------------------------------
(* Properties.                                                             *)

(* What the Integrator and the dispatcher read in the labels alone, also   *)
(* after a loss of the run state: the Issue is finished as not needed and  *)
(* the Issues that depend on it may start.                                 *)
LetsDependentsGo == "not-needed" \in labels /\ "hold" \notin labels

(* Nobody who depends on an Issue goes on because it is not needed before  *)
(* the completion that says so was exempt from a review, or its own        *)
(* review passed and the Issue was closed for it.                          *)
HeldUntilPassed ==
  LetsDependentsGo =>
    /\ latest # 0
    /\ \/ kinds[latest] = "exempt"
       \/ <<latest, "passed">> \in verdicts /\ latest \in shut

(* One reviewer is started for a completion, however often the runner      *)
(* stops around the request that starts it.                                *)
ReviewedOnce == \A g \in Gens : agents[g] <= 1

Waiting(g) == /\ rec # NoRecord /\ rec.gen = g /\ rec.stage = "handed"
              /\ rec.kind = "review"
(* Another completion, another claim or a loss of the run state took the   *)
(* review's place.                                                         *)
Superseded(g) == \/ rec = NoRecord \/ rec.gen # g \/ latest # g
                 \/ active \notin {0, g}

(* Every review ends: it is applied, rejected or timed out, and the hold   *)
(* is gone with it.                                                        *)
ReviewEnds ==
  \A g \in Gens :
    Waiting(g) ~> (Superseded(g) \/ (rec.end # None /\ "hold" \notin labels))
=============================================================================
