----------------------------- MODULE Finalization -----------------------------
(***************************************************************************)
(* The finalization of a child Issue whose work is done: the Integrator    *)
(* merges the child branch into the parent branch, writes a receipt,       *)
(* deletes the child branch under a lease on the merged commit, labels the *)
(* Issue and closes it (integrator/steps.py, finalization.py,              *)
(* child_issue_close.py, finalization_retry.py).  A deletion that the      *)
(* remote refuses is counted in comments of the child Issue; at a limit    *)
(* the child is labelled, the parent Issue is told, and a terminal comment *)
(* ends the count.                                                         *)
(*                                                                         *)
(* One integrator runs at a time (the lock of the parent).  Every request  *)
(* may fail, before or after its effect, and the run may stop.  Agents     *)
(* push to the child branch and people edit at any time.                   *)
(*                                                                         *)
(* A receipt here always allows the deletion of its branch: a branch that  *)
(* lacks the capability stays, and its child is finished without it.       *)
(***************************************************************************)
EXTENDS Naturals, FiniteSets

CONSTANTS
  MaxTip,     \* bound: commits of the child branch
  MaxRun,     \* bound: ids of runs
  Limit,      \* refused runs before the escalation
  MaxGen,     \* bound: terminal comments for one commit
  MaxPushes,  \* bound: pushes to the child branch
  MaxEdits,   \* bound: acts of a person
  MaxFaults   \* bound: requests that fail and stops of a run

ASSUME FinalizationAssumption ==
  {MaxTip, MaxRun, Limit, MaxGen, MaxPushes, MaxEdits, MaxFaults}
    \subseteq Nat \ {0}

Tips == 1..MaxTip
Gone == 0                  \* no branch, no commit
Runs == 1..MaxRun
Gens == 0..MaxGen
Labels == {"included", "blocked"}
Phases  == {"off", "lookup", "delete", "watch", "settle", "unblock", "requeue",
           "merge", "publish", "receipt", "include", "close",
           "count", "label", "tell", "terminal"}

VARIABLES
  parent,     \* commits the parent branch contains
  tip,        \* tip of the child branch
  denies,     \* the remote refuses to delete the child branch
  labels, open,   \* the child Issue
  receipts, latest,  \* commits with a receipt, and the one of the newest
  denied,     \* runs counted since the last terminal comment, for each commit
  terminals,  \* terminal comments for each commit
  over,       \* the newest comment for a commit is a terminal one
  newest,     \* the commit of the newest count or terminal comment
  told,       \* comments on the parent Issue, for each commit and generation
  refused,    \* runs the remote refused, for each commit and generation
  dropped,    \* commits whose branch the Integrator deleted
  phase, run,    \* the next step of the run, "off" between runs, and its id
  had,       \* labels the run read when it began
  sha,        \* the commit the run finalizes
  retry,      \* it only finalizes what an earlier run merged
  pushes, edits, faults  \* what happened so far

remote   == <<parent, tip, denies>>
issue    == <<labels, open>>
proofs   == <<receipts, latest>>
history  == <<denied, terminals, over, newest, told>>
facts   == <<refused, dropped>>
counters == <<pushes, edits, faults>>
finalVars == <<remote, issue, proofs, history, facts, phase, run, had, sha, retry,
          counters>>

FinalInit ==
  /\ parent = {} /\ tip = 1 /\ denies \in BOOLEAN
  /\ labels = {} /\ open = TRUE
  /\ receipts = {} /\ latest = Gone
  /\ denied = [s \in Tips |-> {}] /\ terminals = [s \in Tips |-> 0]
  /\ over = [s \in Tips |-> FALSE] /\ newest = Gone
  /\ told = [s \in Tips |-> [g \in Gens |-> 0]]
  /\ refused = [s \in Tips |-> [g \in Gens |-> {}]] /\ dropped = {}
  /\ phase = "off" /\ run = 1 /\ had = {} /\ sha = Gone /\ retry = FALSE
  /\ pushes = 0 /\ edits = 0 /\ faults = 0

-----------------------------------------------------------------------------
(* The run begins, and finds out where the child stands.                   *)

Begin(r) ==
  /\ phase = "off" /\ open
  /\ phase' = "lookup" /\ run' = r /\ had' = labels
  /\ sha' = Gone /\ retry' = TRUE
  /\ UNCHANGED <<remote, issue, proofs, history, facts, counters>>

Counted == UNION {denied[s] : s \in Tips}
(* Ids in order; one whose count was cleared may stand for a new one.      *)
NewRun == \E r \in Runs \ Counted :
            (\A q \in Runs \ Counted : r <= q) /\ Begin(r)
Rerun  == \E r \in Counted : Begin(r)

(* What the receipt or, for a blocked child, the newest comment proves is  *)
(* used only if the parent branch contains it.                             *)
Proven(s) == s # Gone /\ s \in parent

Lookup ==
  /\ phase = "lookup"
  /\ \/ UNCHANGED faults
        /\ sha' = IF "blocked" \in had THEN newest ELSE latest
     \/ faults < MaxFaults /\ faults' = faults + 1
        /\ "included" \notin had /\ sha' = Gone
  /\ phase' = CASE "included" \in had -> "close"
             [] "blocked" \in had -> IF Proven(sha') THEN "watch" ELSE "off"
             [] OTHER -> IF Proven(sha') THEN "delete" ELSE "merge"
  /\ UNCHANGED <<remote, issue, proofs, history, facts, run, had, retry,
                 pushes, edits>>

(* Merge and integration tests of the tip as it was fetched.               *)
Merge ==
  /\ phase = "merge"
  /\ sha' = tip /\ retry' = FALSE
  /\ phase' = IF tip = Gone THEN "off" ELSE "publish"
  /\ UNCHANGED <<remote, issue, proofs, history, facts, run, had, counters>>

UpdateParent ==
  /\ phase = "publish"
  /\ parent' = parent \cup {sha} /\ phase' = "receipt"
  /\ UNCHANGED <<tip, denies, issue, proofs, history, facts, run, had, sha,
                 retry, counters>>

(* A receipt with the same pull request is not written again.              *)
Receipt ==
  /\ phase = "receipt"
  /\ \/ sha \in receipts /\ UNCHANGED proofs
     \/ receipts' = receipts \cup {sha} /\ latest' = sha
  /\ phase' = "delete"
  /\ UNCHANGED <<remote, issue, history, facts, run, had, sha, retry,
                 counters>>

-----------------------------------------------------------------------------
(* The deletion of the child branch, if its tip still is the commit.       *)

(* A bug: the branch is deleted whatever its tip.                          *)
AnyTip == tip # Gone
Leased == tip = sha

Absent ==
  /\ phase = "delete" /\ tip = Gone
  /\ phase' = "include"
  /\ UNCHANGED <<remote, issue, proofs, history, facts, run, had, sha, retry,
                 counters>>

Moved ==
  /\ phase = "delete" /\ tip # Gone /\ ~Leased
  /\ phase' = IF retry THEN "merge" ELSE "off"
  /\ UNCHANGED <<remote, issue, proofs, history, facts, run, had, sha, retry,
                 counters>>

Denied ==
  /\ phase = "delete" /\ Leased /\ denies
  /\ refused' = [refused EXCEPT ![sha][terminals[sha]] = @ \cup {run}]
  /\ phase' = "count"
  /\ UNCHANGED <<remote, issue, proofs, history, dropped, run, had, sha, retry,
                 counters>>

Deleted ==
  /\ phase = "delete" /\ Leased /\ ~denies
  /\ tip' = Gone /\ dropped' = dropped \cup {tip}
  /\ phase' = "include"
  /\ UNCHANGED <<parent, denies, issue, proofs, history, refused, run, had,
                 sha, retry, counters>>

(* The run that merged the child closes it even without the label.         *)
Include ==
  /\ phase = "include"
  /\ \/ labels' = labels \cup {"included"} /\ UNCHANGED faults
     \/ ~retry /\ faults < MaxFaults /\ faults' = faults + 1
        /\ UNCHANGED labels
  /\ phase' = "close"
  /\ UNCHANGED <<remote, open, proofs, history, facts, run, had, sha, retry,
                 pushes, edits>>

Close ==
  /\ phase = "close"
  /\ open' = FALSE /\ phase' = "off"
  /\ UNCHANGED <<remote, labels, proofs, history, facts, run, had, sha, retry,
                 counters>>

-----------------------------------------------------------------------------
(* A refused deletion is counted, and the limit escalates.                 *)

LimitReached(s) == Cardinality(denied[s]) >= Limit

(* A run counts once.                                                      *)
Count ==
  /\ phase = "count"
  /\ IF LimitReached(sha) \/ run \in denied[sha]
     THEN UNCHANGED history
     ELSE /\ denied' = [denied EXCEPT ![sha] = @ \cup {run}]
          /\ over' = [over EXCEPT ![sha] = FALSE]
          /\ newest' = sha
          /\ UNCHANGED <<terminals, told>>
  /\ phase' = IF Cardinality(denied'[sha]) >= Limit THEN "label" ELSE "off"
  /\ UNCHANGED <<remote, issue, proofs, facts, run, had, sha, retry, counters>>

Label ==
  /\ phase = "label"
  /\ IF over[sha] THEN phase' = "off" /\ UNCHANGED labels
     ELSE phase' = "tell" /\ labels' = labels \cup {"blocked"}
  /\ UNCHANGED <<remote, open, proofs, history, facts, run, had, sha, retry,
                 counters>>

(* A bug: the marker of the parent's comment is not looked for.            *)
Unmarked(s, g) == TRUE
Untold(s, g) == told[s][g] = 0

Tell ==
  /\ phase = "tell"
  /\ told' = IF Untold(sha, terminals[sha])
             THEN [told EXCEPT ![sha][terminals[sha]] = @ + 1] ELSE told
  /\ phase' = "terminal"
  /\ UNCHANGED <<remote, issue, proofs, denied, terminals, over, newest, facts,
                 run, had, sha, retry, counters>>

Terminal ==
  /\ phase = "terminal" /\ terminals[sha] < MaxGen
  /\ denied' = [denied EXCEPT ![sha] = {}]
  /\ terminals' = [terminals EXCEPT ![sha] = @ + 1]
  /\ over' = [over EXCEPT ![sha] = TRUE]
  /\ newest' = sha /\ phase' = "off"
  /\ UNCHANGED <<remote, issue, proofs, told, facts, run, had, sha, retry,
                 counters>>

-----------------------------------------------------------------------------
(* A blocked child is only watched.                                        *)

(* A bug: an interrupted escalation is taken for a complete one.           *)
Abandoned(s) == FALSE
Unfinished(s) == LimitReached(s) /\ ~over[s]

Watch ==
  /\ phase = "watch"
  /\ phase' = CASE tip = Gone -> "unblock"
             [] tip # Gone /\ tip # sha -> "requeue"
             [] tip = sha -> "settle"
  /\ UNCHANGED <<remote, issue, proofs, history, facts, run, had, sha, retry,
                 counters>>

Settle ==
  /\ phase = "settle"
  /\ phase' = IF Unfinished(sha) THEN "label" ELSE "off"
  /\ UNCHANGED <<remote, issue, proofs, history, facts, run, had, sha, retry,
                 counters>>

(* The branch is gone: the child is finalized, the label removed or not.   *)
Unblock ==
  /\ phase = "unblock"
  /\ \/ labels' = labels \ {"blocked"} /\ UNCHANGED faults
     \/ faults < MaxFaults /\ faults' = faults + 1 /\ UNCHANGED labels
  /\ phase' = "include"
  /\ UNCHANGED <<remote, open, proofs, history, facts, run, had, sha, retry,
                 pushes, edits>>

(* The tip moved: the child goes back to integration.                      *)
Requeue ==
  /\ phase = "requeue"
  /\ labels' = labels \ {"blocked"} /\ phase' = "merge"
  /\ UNCHANGED <<remote, open, proofs, history, facts, run, had, sha, retry,
                 counters>>

-----------------------------------------------------------------------------
(* What else happens.                                                      *)

(* A request fails, its effect done or not, or the run stops.              *)
Stop ==
  /\ phase # "off" /\ faults < MaxFaults
  /\ phase' = "off" /\ faults' = faults + 1
  /\ UNCHANGED <<remote, issue, proofs, history, facts, run, had, sha, retry,
                 pushes, edits>>

(* An agent pushes a new commit, or an earlier one by force.               *)
Push ==
  /\ open /\ pushes < MaxPushes /\ pushes' = pushes + 1
  /\ \E s \in Tips \ {tip} : tip' = s
  /\ UNCHANGED <<parent, denies, issue, proofs, history, facts, phase, run, had,
                 sha, retry, edits, faults>>

(* A person changes the rule of the remote, deletes the child branch, or   *)
(* removes the label.                                                      *)
Edit ==
  /\ edits < MaxEdits /\ edits' = edits + 1
  /\ \/ denies' = ~denies /\ UNCHANGED <<tip, labels>>
     \/ tip # Gone /\ tip' = Gone /\ UNCHANGED <<denies, labels>>
     \/ "blocked" \in labels /\ labels' = labels \ {"blocked"}
        /\ UNCHANGED <<tip, denies>>
  /\ UNCHANGED <<parent, open, proofs, history, facts, phase, run, had, sha,
                 retry, pushes, faults>>

Go == Lookup \/ Merge \/ UpdateParent \/ Receipt \/ Absent \/ Moved \/ Denied
      \/ Deleted \/ Include \/ Close \/ Count \/ Label \/ Tell \/ Terminal
      \/ Watch \/ Settle \/ Unblock \/ Requeue

FinalNext == NewRun \/ Rerun \/ Go \/ Stop \/ Push \/ Edit

FinalSpec == FinalInit /\ [][FinalNext]_finalVars
(* Runs with new ids come again and again, and a run goes on.              *)
FinalFairSpec == FinalSpec /\ SF_finalVars(NewRun) /\ WF_finalVars(Go)

-----------------------------------------------------------------------------
(* Properties.                                                             *)

(* What the Integrator deletes, the parent branch contains, and a child it *)
(* closes has a receipt for what was integrated: an agent may push between *)
(* the merge, the check of the tip and the deletion                        *)
(* (delete_remote_branch_if_matches).                                      *)
NothingLost == dropped \subseteq parent /\ (~open => receipts \cap parent # {})

(* The parent Issue is told at most once about a commit and generation, and *)
(* only when the remote refused that commit in as many runs as the limit    *)
(* since the last terminal comment; a terminal comment proves it was told.  *)
(* Late, never early (finalization_retry.py).                               *)
EscalatesRightly ==
  \A s \in Tips, g \in Gens :
    /\ told[s][g] <= 1
    /\ told[s][g] > 0 => Cardinality(refused[s][g]) >= Limit
    /\ g < terminals[s] => told[s][g] = 1

(* Closed, or held for a person who was told about this commit.            *)
Settled == \/ ~open
           \/ "blocked" \in labels /\ newest # Gone /\ over[newest]
              /\ tip = newest
(* Once a child was integrated, refusals and stops do not go on for ever:  *)
(* it ends closed, or blocked with its escalation complete.                *)
ChildSettles == <>[](latest # Gone => Settled)
=============================================================================
