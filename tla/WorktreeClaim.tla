--------------------------- MODULE WorktreeClaim ---------------------------
(***************************************************************************)
(* The claims of one Issue and the worktree they own.  `orchestune claim`  *)
(* reserves the Issue in the run state, prepares the worktree, writes the  *)
(* claim marker beside it, saves the claim, publishes its id in the Issue  *)
(* and finalizes; `--resume` continues an interrupted claim.  After a      *)
(* claim of its own the dispatcher launches the agent, and takes the       *)
(* worktree away when the launch fails.  Garbage collection removes the    *)
(* worktree of a completed claim, or retains a dirty one with a gc-release *)
(* receipt that lets a later claim take it over.  The dispatcher reclaims  *)
(* the worktree of a dead agent, a blocked claim restarts in place under a *)
(* new generation, and an operator may release a claim or restore its      *)
(* marker.                                                                 *)
(*                                                                         *)
(* Every operation holds the run-state lock, so at most one is under way   *)
(* (`at`), but each may stop between two of its writes: a crash, an        *)
(* exception and a rejected check all end it (Fail) and keep what is on    *)
(* disk.  Agents and humans edit the tree and the label at any moment, and *)
(* may remove the tree or lose the marker, at most MaxOutside times.       *)
(*                                                                         *)
(* Simplifications: the branch, the path and the base commit of the task   *)
(* never differ; a completion is one step (CompletionPublication has its   *)
(* own steps) and ends "done" or "blocked"; the Issue has one status label;*)
(* the reclaim escalation and its counters are left out; a launch succeeds *)
(* or fails in one step (LaunchAttempts has its journal), and one whose    *)
(* outcome is unknown leaves everything as it is (Fail).                   *)
(***************************************************************************)
EXTENDS Naturals, FiniteSets

CONSTANTS
  Claims,          \* claim ids (generations) the Issue may get
  DispatchClaims,  \* the ids the dispatcher issues; the others are interactive
  NoClaim,
  MaxOutside       \* bound on removals of the tree or the marker by others

ASSUME ClaimAssumption == DispatchClaims \subseteq Claims /\ NoClaim \notin Claims
ASSUME OutsideAssumption == MaxOutside \in Nat

Phases == {"none", "prepared", "active_saved", "completed"}
Stages == {"none", "reserved", "active_saved", "completed"}
Steps  == {"idle", "assess", "prepare", "mark", "save", "publish", "label",
           "finalize", "gc_tree", "gc_marker", "gc_release", "gc_retain",
           "rc_backup", "rc_tree", "rc_marker", "rc_label", "rc_drop",
           "rs_marker", "rs_active", "rs_publish", "launch", "launch_failed"}

VARIABLES
  \* --- run_state.json
  holder,     \* the claim in active_worktrees, or NoClaim
  stage,      \* its claim_stage
  result,     \* its handed-off completion result, or "none"
  journal,    \* the claim of the Issue's last handed-off completion
  released,   \* claims that have a gc-release receipt
  heir,       \* reclaim.new_claim_id of those receipts
  phase,      \* reclaim.phase of those receipts
  restarts,   \* new_claim_id of the restart-blocked receipts
  \* --- the file system
  marker,     \* claim named by the marker beside the worktree
  tree,       \* the worktree: absent, clean or dirty
  \* --- GitHub
  published,  \* claim id in the Issue body
  label,      \* status label of the Issue
  \* --- the operation under way
  at,         \* its next step, "idle" when the lock is free
  kind,       \* "new" if it is a new claim, else "other"
  previous,   \* the generations it may take the marker from
  \* --- history and bound
  issued,     \* claim ids ever issued
  saved,      \* claims that ever reached active_saved
  outside

active  == <<holder, stage, result>>
ledger  == <<journal, released, heir, phase, restarts>>
disk    == <<marker, tree>>
forge   == <<published, label>>
op      == <<at, kind, previous>>
history == <<issued, saved, outside>>
vars == <<active, ledger, disk, forge, op, history>>

IsSaved == stage \in {"active_saved", "completed"}

-----------------------------------------------------------------------------
(* Evidence for a takeover *)

\* _matching_receipts: the receipt of the marker's own generation, else of a
\* takeover that generation only prepared.
Matching == IF marker \in released THEN {marker}
            ELSE {k \in released : heir[k] = marker /\ phase[k] = "prepared"}

\* Faulty variant: a takeover already prepared does not match a second time.
EvidenceUnprepared(c) ==
  {k \in Matching : /\ Matching = {k}
                    /\ journal = k
                    /\ heir[k] = NoClaim}

\* _released_generation and _previous_claim_ids: the evidence still matches the
\* Issue's completion, and no other claim went beyond preparing.
Evidence(c) ==
  {k \in Matching : /\ Matching = {k}
                    /\ journal = k
                    /\ heir[k] \in {NoClaim, c} \/ phase[k] = "prepared"}

Previous(k, c) == {k} \cup ({heir[k]} \ {NoClaim, c})

\* The operation under way goes on at a step, or ends.
Goto(step) == at' = step /\ UNCHANGED <<kind, previous>>
End == at' = "idle" /\ kind' = "other" /\ previous' = {}

\* record_takeover_stage: the receipt that names the claim follows its stage.
Follow(p) == phase' = [k \in Claims |-> IF heir[k] = holder THEN p ELSE phase[k]]

NoActive == holder' = NoClaim /\ stage' = "none" /\ result' = "none"
Activate(c, s) == holder' = c /\ stage' = s /\ result' = "none"

-----------------------------------------------------------------------------
(* The claim saga *)

\* Preflight and conflicts passed; the reservation is saved.
Reserve(c) ==
  /\ at = "idle" /\ holder = NoClaim /\ c \notin issued
  /\ label \in {"queued", "blocked"}
  /\ Activate(c, "reserved")
  /\ issued' = issued \cup {c}
  /\ at' = "assess" /\ kind' = "new" /\ previous' = {}
  /\ UNCHANGED <<ledger, disk, forge, saved, outside>>

\* --resume: a reserved claim prepares again, a saved one must own its worktree.
Resume ==
  /\ at = "idle" /\ label # "done"
  /\ \/ stage = "reserved" /\ at' = "assess"
     \/ stage = "active_saved" /\ marker = holder /\ tree # "absent" /\ at' = "publish"
  /\ UNCHANGED <<kind, previous, active, ledger, disk, forge, history>>

\* begin_worktree_reclaim without evidence, or with nothing to take over.
NoReclaim ==
  /\ at = "assess"
  /\ marker \in {NoClaim, holder} \/ Evidence(holder) = {}
  /\ Goto("prepare")
  /\ UNCHANGED <<active, ledger, disk, forge, history>>

\* begin_worktree_reclaim: the takeover is saved as prepared before the marker
\* moves; an heir that only prepared is superseded.
BeginReclaim(k) ==
  /\ at = "assess" /\ marker \notin {NoClaim, holder}
  /\ k \in Evidence(holder)
  /\ heir' = [heir EXCEPT ![k] = holder]
  /\ phase' = [phase EXCEPT ![k] = "prepared"]
  /\ previous' = Previous(k, holder)
  /\ at' = "prepare" /\ UNCHANGED kind
  /\ UNCHANGED <<active, journal, released, restarts, disk, forge, history>>

\* prepare_task_worktree with a takeover: the retained tree is verified.
TakeOver ==
  /\ at = "prepare" /\ marker \in previous /\ tree # "absent"
  /\ marker' = holder
  /\ Goto("save")
  /\ UNCHANGED <<active, ledger, tree, forge, history>>

\* Faulty variant: an existing worktree is used whoever marked it.
ReuseAny ==
  /\ at = "prepare" /\ marker # NoClaim /\ tree # "absent"
  /\ Goto("save")
  /\ UNCHANGED <<active, ledger, disk, forge, history>>

\* ... of a worktree the claim already marked.
Reuse ==
  /\ at = "prepare" /\ marker = holder /\ tree # "absent"
  /\ Goto("save")
  /\ UNCHANGED <<active, ledger, disk, forge, history>>

\* Faulty variant: a missing worktree is created whoever marked it.
AddUnchecked ==
  /\ at = "prepare" /\ tree = "absent"
  /\ tree' = "clean"
  /\ Goto("mark")
  /\ UNCHANGED <<active, ledger, marker, forge, history>>

\* ... of a missing worktree, which nobody else marked: git worktree add.
AddTree ==
  /\ at = "prepare" /\ marker \in {NoClaim, holder} /\ tree = "absent"
  /\ tree' = "clean"
  /\ Goto("mark")
  /\ UNCHANGED <<active, ledger, marker, forge, history>>

Mark ==
  /\ at = "mark"
  /\ marker' = holder
  /\ Goto("save")
  /\ UNCHANGED <<active, ledger, tree, forge, history>>

\* An exception in the preparation of a new claim that created nothing.
Rollback ==
  /\ at = "prepare" /\ kind = "new" /\ previous = {} /\ tree = "absent"
  /\ NoActive
  /\ End
  /\ UNCHANGED <<ledger, disk, forge, history>>

\* Faulty variant: the receipt is not told that the takeover went through.
SaveUnrecorded ==
  /\ at = "save"
  /\ stage' = "active_saved"
  /\ saved' = saved \cup {holder}
  /\ Goto("publish")
  /\ UNCHANGED <<holder, result, ledger, disk, forge, issued, outside>>

SaveActive ==
  /\ at = "save"
  /\ stage' = "active_saved"
  /\ Follow("active_saved")
  /\ saved' = saved \cup {holder}
  /\ Goto("publish")
  /\ UNCHANGED <<holder, result, journal, released, heir, restarts, disk, forge,
                 issued, outside>>

\* publish_claim_ownership_to_issue, after the Issue is read again.
Publish ==
  /\ at = "publish" /\ label # "done"
  /\ published' = holder
  /\ Goto("label")
  /\ UNCHANGED <<active, ledger, disk, label, history>>

SetLabel ==
  /\ at = "label"
  /\ label' = "in-progress"
  /\ Goto("finalize")
  /\ UNCHANGED <<active, ledger, disk, published, history>>

\* A new claim of the dispatcher goes on to the launch of its agent.
Finalize ==
  /\ at = "finalize"
  /\ stage' = "completed"
  /\ Follow("completed")
  /\ IF kind = "new" /\ holder \in DispatchClaims THEN Goto("launch") ELSE End
  /\ UNCHANGED <<holder, result, journal, released, heir, restarts, disk, forge,
                 history>>

\* A crash, an exception or a rejection: the lock is free, the disk stays.
Fail ==
  /\ at # "idle"
  /\ End
  /\ UNCHANGED <<active, ledger, disk, forge, history>>

-----------------------------------------------------------------------------
(* The launch of the agent on the claimed worktree *)

\* _record_successful_launch
Launched ==
  /\ at = "launch"
  /\ label' = "in-progress"
  /\ End
  /\ UNCHANGED <<active, ledger, disk, published, history>>

\* _cleanup_failed_worktree removes the tree by force, whoever created it and
\* whatever is in it, and leaves the marker; what it fails to do is not heard.
LaunchFails ==
  /\ at = "launch"
  /\ tree' \in {tree, "absent"}
  /\ Goto("launch_failed")
  /\ UNCHANGED <<active, ledger, marker, forge, history>>

\* _handle_launch_failure: the claim stays.
BlockLaunch ==
  /\ at = "launch_failed"
  /\ label' = "blocked"
  /\ End
  /\ UNCHANGED <<active, ledger, disk, published, history>>

-----------------------------------------------------------------------------
(* Completion and garbage collection *)

Owned == marker = holder /\ tree # "absent"

\* The claimed agent completes from its own worktree, up to the handoff.
Complete(r) ==
  /\ at = "idle" /\ IsSaved /\ result = "none" /\ Owned
  /\ label # "done" \/ r = "done"
  /\ result' = r
  /\ journal' = holder
  /\ label' = r
  /\ UNCHANGED <<holder, stage, released, heir, phase, restarts, disk, published,
                 op, history>>

\* inspect_handoff: what GC may do with the worktree of a handed-off claim.
Collect ==
  /\ at = "idle" /\ result # "none" /\ journal = holder
  /\ \/ tree = "absent" /\ marker \in {NoClaim, holder} /\ Goto("gc_marker")
     \/ tree = "clean" /\ marker = holder /\ Goto("gc_tree")
     \/ tree = "dirty" /\ marker = holder /\ result = "blocked" /\ Goto("gc_retain")
  /\ UNCHANGED <<active, ledger, disk, forge, history>>

\* Faulty variant: git worktree remove --force.
GcForceTree ==
  /\ at = "gc_tree" /\ marker = holder /\ tree # "absent"
  /\ tree' = "absent"
  /\ Goto("gc_marker")
  /\ UNCHANGED <<active, ledger, marker, forge, history>>

\* _remove_verified_worktree: git refuses a worktree that became dirty.
GcRemoveTree ==
  /\ at = "gc_tree" /\ marker = holder /\ tree = "clean"
  /\ tree' = "absent"
  /\ Goto("gc_marker")
  /\ UNCHANGED <<active, ledger, marker, forge, history>>

GcRemoveMarker ==
  /\ at = "gc_marker" /\ marker \in {NoClaim, holder}
  /\ marker' = NoClaim
  /\ Goto("gc_release")
  /\ UNCHANGED <<active, ledger, tree, forge, history>>

\* The entry leaves active_worktrees; a retained worktree gets its receipt in
\* the same write.
GcRelease ==
  /\ at = "gc_release"
  /\ NoActive
  /\ End
  /\ UNCHANGED <<ledger, disk, forge, history>>

GcRetain ==
  /\ at = "gc_retain"
  /\ NoActive
  /\ released' = released \cup {holder}
  /\ End
  /\ UNCHANGED <<journal, heir, phase, restarts, disk, forge, history>>

\* The dispatcher reclaims a claim of its own whose agent is gone; a worktree
\* that is not there is skipped, marker and all.
Reclaim ==
  /\ at = "idle" /\ holder \in DispatchClaims /\ IsSaved /\ result = "none"
  /\ Goto(IF tree = "absent" THEN "rc_label" ELSE "rc_backup")
  /\ UNCHANGED <<active, ledger, disk, forge, history>>

\* backup_wip_commit
Backup ==
  /\ at = "rc_backup" /\ tree # "absent"
  /\ tree' = "clean"
  /\ Goto("rc_tree")
  /\ UNCHANGED <<active, ledger, marker, forge, history>>

\* remove_worktree without an expected claim; its refusal is ignored.
ReclaimTree ==
  /\ at = "rc_tree"
  /\ \/ tree = "clean" /\ tree' = "absent" /\ Goto("rc_marker")
     \/ UNCHANGED tree /\ Goto("rc_label")
  /\ UNCHANGED <<active, ledger, marker, forge, history>>

ReclaimMarker ==
  /\ at = "rc_marker"
  /\ marker' = NoClaim
  /\ Goto("rc_label")
  /\ UNCHANGED <<active, ledger, tree, forge, history>>

Requeue ==
  /\ at = "rc_label"
  /\ label' = "queued"
  /\ Goto("rc_drop")
  /\ UNCHANGED <<active, ledger, disk, published, history>>

Settle ==
  /\ at = "rc_drop"
  /\ NoActive
  /\ End
  /\ UNCHANGED <<ledger, disk, forge, history>>

-----------------------------------------------------------------------------
(* Recovery by an operator *)

\* inspect_claim: the marker may be missing, but not belong to another claim.
\* A reserved claim records no worktree yet, so nothing is looked at.
Release ==
  /\ at = "idle" /\ holder # NoClaim
  /\ stage = "reserved" \/ marker \in {NoClaim, holder}
  /\ NoActive
  /\ UNCHANGED <<ledger, disk, forge, op, history>>

RestoreMarker ==
  /\ at = "idle" /\ IsSaved /\ tree # "absent" /\ marker \in {NoClaim, holder}
  /\ marker' = holder
  /\ UNCHANGED <<active, ledger, tree, forge, op, history>>

Restartable == /\ at = "idle" /\ holder \in Claims \ DispatchClaims
               /\ result = "blocked" /\ journal = holder
               /\ label = "in-progress" /\ tree # "absent"

\* restart_blocked: the new generation is planned in the receipt, then the
\* marker moves, then the entry.
Restart(d) ==
  /\ Restartable /\ marker = holder
  /\ restarts[holder] = NoClaim /\ d \in Claims \ (DispatchClaims \cup issued)
  /\ restarts' = [restarts EXCEPT ![holder] = d]
  /\ issued' = issued \cup {d}
  /\ Goto("rs_marker")
  /\ UNCHANGED <<active, journal, released, heir, phase, disk, forge, saved, outside>>

\* _resume_prepared: the marker goes back before the same plan is carried out.
ResumeRestart ==
  /\ Restartable /\ restarts[holder] # NoClaim
  /\ marker \in {holder, restarts[holder]}
  /\ marker' = holder
  /\ Goto("rs_marker")
  /\ UNCHANGED <<active, ledger, tree, forge, history>>

MoveMarker ==
  /\ at = "rs_marker"
  /\ marker' = restarts[holder]
  /\ Goto("rs_active")
  /\ UNCHANGED <<active, ledger, tree, forge, history>>

\* The restarted entry keeps its claim stage and starts without a completion.
ActivateRestart ==
  /\ at = "rs_active"
  /\ Activate(restarts[holder], stage)
  /\ saved' = saved \cup {restarts[holder]}
  /\ Goto("rs_publish")
  /\ UNCHANGED <<ledger, disk, forge, issued, outside>>

\* The entry could not be saved: the marker is given back.
UndoRestart ==
  /\ at = "rs_active"
  /\ marker' = holder
  /\ End
  /\ UNCHANGED <<active, ledger, tree, forge, history>>

PublishRestart ==
  /\ at = "rs_publish" /\ label = "in-progress"
  /\ published' = holder
  /\ End
  /\ UNCHANGED <<active, ledger, disk, label, history>>

\* _replayed: a restart that went through publishes its claim again.
ReplayRestart ==
  /\ at = "idle" /\ \E c \in Claims : restarts[c] = holder
  /\ Owned /\ label = "in-progress"
  /\ published' = holder
  /\ UNCHANGED <<active, ledger, disk, label, op, history>>

-----------------------------------------------------------------------------
(* Everybody else *)

\* An agent or a human works in the tree, or commits.
Edit ==
  /\ tree # "absent"
  /\ tree' \in {"clean", "dirty"}
  /\ UNCHANGED <<active, ledger, marker, forge, op, history>>

\* A human requeues the Issue or approves a restart, whatever its status.
Relabel(l) ==
  /\ label' = l
  /\ UNCHANGED <<active, ledger, disk, published, op, history>>

LoseTree ==
  /\ outside < MaxOutside /\ tree # "absent"
  /\ tree' = "absent"
  /\ outside' = outside + 1
  /\ UNCHANGED <<active, ledger, marker, forge, op, issued, saved>>

LoseMarker ==
  /\ outside < MaxOutside /\ marker # NoClaim
  /\ marker' = NoClaim
  /\ outside' = outside + 1
  /\ UNCHANGED <<active, ledger, tree, forge, op, issued, saved>>

-----------------------------------------------------------------------------
Init ==
  /\ holder = NoClaim /\ stage = "none" /\ result = "none" /\ journal = NoClaim
  /\ released = {}
  /\ heir = [c \in Claims |-> NoClaim]
  /\ phase = [c \in Claims |-> "none"]
  /\ restarts = [c \in Claims |-> NoClaim]
  /\ marker = NoClaim /\ tree = "absent"
  /\ published = NoClaim /\ label = "queued"
  /\ at = "idle" /\ kind = "other" /\ previous = {}
  /\ issued = {} /\ saved = {} /\ outside = 0

Saga == \/ \E k \in Claims : BeginReclaim(k)
        \/ NoReclaim \/ TakeOver \/ Reuse \/ AddTree \/ Mark \/ Rollback
        \/ SaveActive \/ Publish \/ SetLabel \/ Finalize
Launch == Launched \/ LaunchFails \/ BlockLaunch
Collection == \/ GcRemoveTree \/ GcRemoveMarker \/ GcRelease \/ GcRetain
              \/ Backup \/ ReclaimTree \/ ReclaimMarker \/ Requeue \/ Settle
Recovery == MoveMarker \/ ActivateRestart \/ UndoRestart \/ PublishRestart
Step == Saga \/ Launch \/ Collection \/ Recovery

Operator == \/ Resume \/ Collect \/ Reclaim \/ Release \/ RestoreMarker
            \/ ResumeRestart \/ ReplayRestart
            \/ \E c \in Claims : Reserve(c) \/ Restart(c)
            \/ \E r \in {"done", "blocked"} : Complete(r)
Others == \/ Edit \/ LoseTree \/ LoseMarker
          \/ \E l \in {"queued", "in-progress"} : Relabel(l)

Next == Step \/ Fail \/ Operator \/ Others
Spec == Init /\ [][Next]_vars

\* The lock holder is scheduled, the owner of an interrupted claim or restart
\* resumes it again and again, and from some point on operations end early only
\* because a check refuses them (crashes, outages and failed saves stop recurring).
Fairness ==
  /\ WF_vars(Step) /\ WF_vars(Fail) /\ SF_vars(Resume) /\ SF_vars(ResumeRestart)
  /\ <>[][~UndoRestart /\ (Fail => ~ENABLED Step)]_vars
FairSpec == Spec /\ Fairness

-----------------------------------------------------------------------------
(* Properties *)

TypeOK ==
  /\ holder \in Claims \cup {NoClaim} /\ stage \in Stages
  /\ result \in {"none", "done", "blocked"}
  /\ journal \in Claims \cup {NoClaim} /\ released \subseteq Claims
  /\ heir \in [Claims -> Claims \cup {NoClaim}] /\ phase \in [Claims -> Phases]
  /\ restarts \in [Claims -> Claims \cup {NoClaim}]
  /\ marker \in Claims \cup {NoClaim} /\ tree \in {"absent", "clean", "dirty"}
  /\ published \in Claims \cup {NoClaim}
  /\ label \in {"queued", "in-progress", "blocked", "done"}
  /\ at \in Steps /\ kind \in {"new", "other"} /\ previous \subseteq Claims
  /\ issued \subseteq Claims /\ saved \subseteq issued /\ outside \in 0..MaxOutside
  /\ (holder = NoClaim) <=> (stage = "none")
  /\ at = "idle" => kind = "other" /\ previous = {}

\* A saved claim owns its worktree: whenever there is a marker it names the
\* claim, or the generation a restart of that very claim has planned.  The
\* reclaim removes trees without comparing owners and relies on it.
SavedOwnsWorktree ==
  IsSaved /\ marker # NoClaim =>
    \/ marker = holder
    \/ marker = restarts[holder] /\ result = "blocked"

\* A marker moves from one generation to another only if the first never got
\* beyond its reservation, was released with a receipt, or is restarted.
MarkerHandedOver ==
  LET g == marker  h == marker' IN
    g # NoClaim /\ h # NoClaim /\ g # h =>
      \/ g \notin saved
      \/ g \in released
      \/ restarts[g] = h \/ restarts[h] = g

\* The marker of a worktree passes from one claim to another only when the former
\* was never saved, was released, or is the other side of a restart.
NeverTakenFromHolder == [][MarkerHandedOver]_vars

\* A retained worktree is inherited once: the receipt of a takeover that was
\* saved names the same heir for ever, and its phase never goes back.
HeirFinal ==
  [][\A k \in Claims : phase[k] \in {"active_saved", "completed"} =>
       heir'[k] = heir[k] /\ phase'[k] \in {phase[k], "completed"}]_vars

\* The receipt of a takeover and the claim it made are at the same stage after
\* every write, so that a resume of either finds the other.
PhaseFollowsClaim ==
  \A k \in Claims : heir[k] # NoClaim /\ heir[k] = holder =>
    phase[k] = IF stage = "reserved" THEN "prepared" ELSE stage

\* A retained worktree stays claimable: as long as its marker names the
\* released generation, every next claim finds exactly its receipt.
RetainedClaimable ==
  \A c \in Claims : marker \in released /\ holder \in {NoClaim, c} /\ c \notin saved
                     => Evidence(c) = {marker}

\* Nobody but an outsider removes a worktree retained for its next claim.
RetainedKept ==
  \A k \in released : heir[k] = NoClaim /\ outside = 0 => marker = k /\ tree # "absent"

\* The undoing of a failed launch, in a worktree that is the launched claim's own:
\* finalized a moment ago, without a completion, and marked by no other claim.
LaunchUndone ==
  /\ at = "launch" /\ stage = "completed" /\ result = "none"
  /\ holder \in DispatchClaims /\ marker \in {NoClaim, holder}

\* No operation of the program removes uncommitted work, with one exception: a
\* failed launch removes the worktree of its own claim, whatever is in it.
WorkRemoved == tree = "dirty" /\ tree' = "absent" => outside' > outside \/ LaunchUndone
WorkNeverDestroyed == [][WorkRemoved]_vars

\* The Issue names the claim that finished its saga.  Only the generations of a
\* restart may find an earlier one of theirs there, until the replay corrects it.
FinalizedIsPublished ==
  stage = "completed" =>
    \/ published = holder
    \/ /\ \E c \in Claims : restarts[c] = holder
       /\ published \in Claims /\ restarts[published] # NoClaim

\* Wherever an operation stopped, the run state, the receipts, the worktree and the
\* Issue tell the same story of the claim, and what was retained can be claimed.
StoriesAgree ==
  TypeOK /\ PhaseFollowsClaim /\ FinalizedIsPublished /\ RetainedKept /\ RetainedClaimable

\* An interrupted claim that nothing obstructs (the worktree is there and marked
\* by the claim or by the generation its prepared takeover names, and the Issue
\* did not become done) does not stay interrupted for ever.
Resumable(c) ==
  /\ holder = c /\ label # "done" /\ tree # "absent"
  /\ \/ /\ stage = "reserved"
        /\ marker = c \/ (marker \in Claims /\ heir[marker] = c)
     \/ stage = "active_saved" /\ result = "none" /\ marker = c
InterruptedClaimResumes == \A c \in Claims : ~<>[]Resumable(c)

\* Neither does a planned restart whose marker may have moved already, as long as
\* the approval, the worktree and the blocked completion are there.
RestartPlanned(c) ==
  /\ holder = c /\ result = "blocked" /\ journal = c /\ restarts[c] # NoClaim
  /\ label = "in-progress" /\ tree # "absent" /\ marker \in {c, restarts[c]}
InterruptedRestartResumes == \A c \in Claims : ~<>[]RestartPlanned(c)

\* A claim or a restart that was interrupted is taken up again or given up: no
\* plan stays half carried out for ever.
InterruptedResumes == InterruptedClaimResumes /\ InterruptedRestartResumes

=============================================================================
