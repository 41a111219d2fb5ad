------------------------ MODULE WorktreeClaimProofs ------------------------
(***************************************************************************)
(* Proofs about WorktreeClaim, for any number of claims.  The inductive    *)
(* invariant IInv says how the generations of an Issue are told apart (who *)
(* was issued, saved, released, named as an heir or planned by a restart)  *)
(* and what each step of the operation under way may rely on.              *)
(***************************************************************************)
EXTENDS WorktreeClaim, TLAPS

\* Every generation the records name was issued, and only saved claims are
\* released or restarted.
IssuedFirst ==
  /\ holder # NoClaim => holder \in issued
  /\ released \subseteq saved
  /\ \A c \in Claims : heir[c] # NoClaim => heir[c] \in issued
  /\ \A c \in Claims : restarts[c] # NoClaim => restarts[c] \in issued /\ c \in saved

\* The stage of the active claim tells whether it was ever saved.
StageTold ==
  /\ stage = "reserved" => holder \notin saved
  /\ IsSaved => holder \in saved
  /\ result # "none" => IsSaved

\* A receipt has a phase from its first heir on; a prepared heir was never saved.
HeirsTold ==
  \A k \in Claims :
    /\ heir[k] # NoClaim <=> phase[k] # "none"
    /\ heir[k] # NoClaim => k \in released
    /\ phase[k] = "prepared" => heir[k] \notin saved

\* Taking over and restarting give different generations, and the generations that
\* may get the marker next have no receipt.
Lineages ==
  /\ \A k, c \in Claims : heir[k] # NoClaim => heir[k] # restarts[c]
  /\ stage = "reserved" => \A c \in Claims : restarts[c] # holder
  /\ holder \notin released
  /\ holder # NoClaim => restarts[holder] \notin saved

\* What the next step of the operation relies on in the records ...
StepRecords ==
  /\ at \in {"assess", "prepare", "mark", "save"} => stage = "reserved"
  /\ at \in {"publish", "label", "finalize"} => stage = "active_saved"
  /\ at \in {"label", "finalize"} => published = holder
  /\ at \in {"gc_tree", "gc_marker", "gc_release", "gc_retain"} =>
       result # "none" /\ journal = holder
  /\ at \in {"rc_backup", "rc_tree", "rc_marker", "rc_label", "rc_drop"} => IsSaved
  /\ at \in {"rs_marker", "rs_active"} => result = "blocked" /\ restarts[holder] # NoClaim
  /\ kind = "new" => result = "none"
  /\ at \in {"launch", "launch_failed"} =>
       stage = "completed" /\ result = "none" /\ holder \in DispatchClaims

\* ... and on the disk.
StepDisk ==
  /\ at \in {"mark", "save", "gc_retain", "rs_marker"} => marker \in {NoClaim, holder}
  /\ at = "rs_active" => marker \in {NoClaim, restarts[holder]}
  /\ at = "gc_retain" /\ outside = 0 => marker = holder /\ tree # "absent"
  /\ at = "assess" => previous = {}
  /\ at = "prepare" => \A g \in previous : \/ g \in released /\ heir[g] = holder
                                           \/ g \notin saved

\* A retained worktree's receipt is the one of the Issue's completion, and nobody
\* who took it over was saved.
RetainedInv ==
  marker \in released => journal = marker /\ phase[marker] \in {"none", "prepared"}

IInv ==
  /\ TypeOK /\ IssuedFirst /\ StageTold /\ HeirsTold /\ Lineages
  /\ StepRecords /\ StepDisk /\ PhaseFollowsClaim /\ SavedOwnsWorktree
  /\ RetainedInv /\ RetainedKept /\ FinalizedIsPublished
-----------------------------------------------------------------------------
(* The steps, in the groups the proofs treat alike *)

USE ClaimAssumption, OutsideAssumption

\* Steps that work on the file system and leave the records alone ...
DiskStep ==
  \/ TakeOver \/ Reuse \/ AddTree \/ Mark \/ GcRemoveTree \/ GcRemoveMarker
  \/ Backup \/ ReclaimTree \/ ReclaimMarker \/ MoveMarker \/ UndoRestart
  \/ RestoreMarker \/ ResumeRestart \/ LaunchFails \/ Edit \/ LoseTree \/ LoseMarker

\* ... on the Issue, or on nothing but the operation's place ...
PlaceStep ==
  \/ Resume \/ NoReclaim \/ Publish \/ SetLabel \/ Fail \/ Collect \/ Reclaim
  \/ Requeue \/ PublishRestart \/ ReplayRestart \/ Launched \/ BlockLaunch
  \/ \E l \in {"queued", "in-progress"} : Relabel(l)

\* ... and those that drop the active claim.
DropStep == Rollback \/ GcRelease \/ Settle \/ Release

RecordStep ==
  \/ \E c \in Claims : Reserve(c) \/ BeginReclaim(c) \/ Restart(c)
  \/ \E r \in {"done", "blocked"} : Complete(r)
  \/ SaveActive \/ Finalize \/ GcRetain \/ ActivateRestart

LEMMA StepKinds ==
  ASSUME [Next]_vars
  PROVE  RecordStep \/ DropStep \/ DiskStep \/ PlaceStep \/ UNCHANGED vars
  BY DEF Next, Step, Saga, Launch, Collection, Recovery, Operator, Others,
         RecordStep, DropStep, DiskStep, PlaceStep

LEMMA DiskEffect ==
  ASSUME DiskStep
  PROVE  UNCHANGED <<active, ledger, forge, issued, saved>>
  BY DEF DiskStep, TakeOver, Reuse, AddTree, Mark, GcRemoveTree, GcRemoveMarker,
         Backup, ReclaimTree, ReclaimMarker, MoveMarker, UndoRestart,
         RestoreMarker, ResumeRestart, LaunchFails, Edit, LoseTree, LoseMarker, history

LEMMA PlaceEffect ==
  ASSUME PlaceStep
  PROVE  UNCHANGED <<active, ledger, disk, history>>
  BY DEF PlaceStep, Resume, NoReclaim, Publish, SetLabel, Fail, Collect, Reclaim,
         Requeue, PublishRestart, ReplayRestart, Launched, BlockLaunch, Relabel, forge

LEMMA DropEffect ==
  ASSUME DropStep
  PROVE  NoActive /\ UNCHANGED <<ledger, disk, forge, history>>
  BY DEF DropStep, Rollback, GcRelease, Settle, Release

-----------------------------------------------------------------------------
(* The type invariant *)

LEMMA TypeInit == Init => TypeOK
  BY DEF Init, TypeOK, Steps, Stages, Phases

LEMMA TypeStep == IInv /\ [Next]_vars => TypeOK'
<1> SUFFICES ASSUME IInv, [Next]_vars PROVE TypeOK'
  OBVIOUS
<1>0. TypeOK /\ StepRecords /\ StageTold /\ IssuedFirst
  BY DEF IInv
<1>1. CASE RecordStep
  <2>1. ASSUME NEW c \in Claims, Reserve(c) PROVE TypeOK'
    BY <1>0, <2>1 DEF Reserve, TypeOK, Activate, ledger, disk, forge, Steps, Stages
  <2>2. ASSUME NEW k \in Claims, BeginReclaim(k) PROVE TypeOK'
    BY <1>0, <2>2 DEF BeginReclaim, TypeOK, Previous, active, disk, forge, history,
                      Steps, Phases, Stages
  <2>3. ASSUME NEW c \in Claims, Restart(c) PROVE TypeOK'
    BY <1>0, <2>3 DEF Restart, Restartable, TypeOK, Goto, active, disk, forge, Steps
  <2>4. ASSUME NEW r \in {"done", "blocked"}, Complete(r) PROVE TypeOK'
    BY <1>0, <2>4 DEF Complete, TypeOK, disk, op, history
  <2>5. CASE SaveActive
    BY <1>0, <2>5 DEF SaveActive, Follow, TypeOK, StepRecords, IssuedFirst, Goto,
                      disk, forge, Steps, Stages, Phases
  <2>6. CASE Finalize
    BY <1>0, <2>6 DEF Finalize, Follow, TypeOK, StepRecords, Goto, End, disk, forge,
                      history, Steps, Stages, Phases
  <2>7. CASE GcRetain
    BY <1>0, <2>7 DEF GcRetain, NoActive, TypeOK, StepRecords, StageTold, IsSaved,
                      End, disk, forge, history, Steps, Stages
  <2>8. CASE ActivateRestart
    BY <1>0, <2>8 DEF ActivateRestart, Activate, TypeOK, StepRecords, StageTold,
                      IssuedFirst, IsSaved, Goto, ledger, disk, forge, Steps, Stages
  <2> QED
    BY <1>1, <2>1, <2>2, <2>3, <2>4, <2>5, <2>6, <2>7, <2>8 DEF RecordStep
<1>2. CASE DropStep
  <2>1. at' \in Steps /\ kind' \in {"new", "other"} /\ previous' \subseteq Claims
        /\ (at' = "idle" => kind' = "other" /\ previous' = {})
    BY <1>0, <1>2 DEF DropStep, Rollback, GcRelease, Settle, Release, End, op,
                      TypeOK, Steps
  <2> QED
    BY <1>0, <1>2, <2>1, DropEffect DEF NoActive, TypeOK, ledger, disk, forge,
                                        history, Stages
<1>3. CASE DiskStep
  <2>1. /\ at' \in Steps /\ kind' \in {"new", "other"} /\ previous' \subseteq Claims
        /\ at' = "idle" => kind' = "other" /\ previous' = {}
    BY <1>0, <1>3 DEF DiskStep, TakeOver, Reuse, AddTree, Mark, GcRemoveTree,
         GcRemoveMarker, Backup, ReclaimTree, ReclaimMarker, MoveMarker, UndoRestart,
         RestoreMarker, ResumeRestart, LaunchFails, Edit, LoseTree, LoseMarker, Goto, End, op,
         TypeOK, Steps
  <2>2. /\ marker' \in Claims \cup {NoClaim} /\ tree' \in {"absent", "clean", "dirty"}
        /\ outside' \in 0..MaxOutside
    BY <1>0, <1>3 DEF DiskStep, TakeOver, Reuse, AddTree, Mark, GcRemoveTree,
         GcRemoveMarker, Backup, ReclaimTree, ReclaimMarker, MoveMarker, UndoRestart,
         RestoreMarker, ResumeRestart, Restartable, LaunchFails, Edit, LoseTree, LoseMarker, disk,
         history, TypeOK, StepRecords, StageTold, IsSaved
  <2> QED
    BY <1>0, <1>3, <2>1, <2>2, DiskEffect DEF active, ledger, forge, TypeOK
<1>4. CASE PlaceStep
  <2>1. /\ at' \in Steps /\ kind' \in {"new", "other"} /\ previous' \subseteq Claims
        /\ at' = "idle" => kind' = "other" /\ previous' = {}
    BY <1>0, <1>4 DEF PlaceStep, Resume, NoReclaim, Publish, SetLabel, Fail, Collect,
         Reclaim, Requeue, PublishRestart, ReplayRestart, Launched, BlockLaunch, Relabel, Goto, End, op,
         TypeOK, Steps
  <2>2. /\ published' \in Claims \cup {NoClaim}
        /\ label' \in {"queued", "in-progress", "blocked", "done"}
    BY <1>0, <1>4 DEF PlaceStep, Resume, NoReclaim, Publish, SetLabel, Fail, Collect,
         Reclaim, Requeue, PublishRestart, ReplayRestart, Launched, BlockLaunch, Relabel, forge, TypeOK
  <2> QED
    BY <1>0, <1>4, <2>1, <2>2, PlaceEffect DEF active, ledger, disk, history, TypeOK
<1>5. CASE UNCHANGED vars
  BY <1>0, <1>5 DEF vars, active, ledger, disk, forge, op, history, TypeOK
<1> QED
  BY StepKinds, <1>1, <1>2, <1>3, <1>4, <1>5
-----------------------------------------------------------------------------
(* The records: who was issued, saved, released, named and planned *)

Records == IssuedFirst /\ StageTold /\ HeirsTold /\ Lineages /\ PhaseFollowsClaim

\* Dropping the active claim, and leaving the records alone, keeps them.
LEMMA RecordsDropped ==
  ASSUME TypeOK, Records, NoActive, UNCHANGED <<ledger, issued, saved>>
  PROVE  Records'
  BY DEF TypeOK, Records, IssuedFirst, StageTold, HeirsTold, Lineages,
         PhaseFollowsClaim, NoActive, IsSaved, ledger

LEMMA RecordsSame ==
  ASSUME Records, UNCHANGED <<active, ledger, issued, saved>>
  PROVE  Records'
  BY DEF Records, IssuedFirst, StageTold, HeirsTold, Lineages,
         PhaseFollowsClaim, IsSaved, active, ledger

LEMMA RecordsStep == IInv /\ [Next]_vars => Records'
<1> SUFFICES ASSUME IInv, [Next]_vars PROVE Records'
  OBVIOUS
<1>0. TypeOK /\ Records /\ StepRecords /\ StepDisk
  BY DEF IInv, Records
<1> USE DEF TypeOK, Records, IssuedFirst, StageTold, HeirsTold, Lineages,
            PhaseFollowsClaim, IsSaved
<1>1. ASSUME NEW c \in Claims, Reserve(c) PROVE Records'
  BY <1>0, <1>1 DEF Reserve, Activate, ledger
<1>2. ASSUME NEW k \in Claims, BeginReclaim(k) PROVE Records'
  <2>1. k \in released /\ stage = "reserved" /\ holder \in Claims
    BY <1>0, <1>2 DEF BeginReclaim, Evidence, Matching, StepRecords
  <2> QED
    BY <1>0, <1>2, <2>1 DEF BeginReclaim, active, history, Phases
<1>3. ASSUME NEW d \in Claims, Restart(d) PROVE Records'
  BY <1>0, <1>3 DEF Restart, Restartable, active
<1>4. ASSUME NEW r \in {"done", "blocked"}, Complete(r) PROVE Records'
  BY <1>0, <1>4 DEF Complete, history
<1>5. CASE SaveActive
  BY <1>0, <1>5 DEF SaveActive, Follow, StepRecords, Phases
<1>6. CASE Finalize
  BY <1>0, <1>6 DEF Finalize, Follow, StepRecords, history, Phases
<1>7. CASE GcRetain
  BY <1>0, <1>7 DEF GcRetain, NoActive, StepRecords, history
<1>8. CASE ActivateRestart
  <2>1. /\ restarts[holder] \in Claims /\ restarts[holder] \notin saved
        /\ holder \in Claims /\ result = "blocked"
    BY <1>0, <1>8 DEF ActivateRestart, StepRecords
  <2>2. restarts[restarts[holder]] = NoClaim
    BY <1>0, <2>1
  <2> QED
    BY <1>0, <1>8, <2>1, <2>2 DEF ActivateRestart, Activate, ledger
<1>9. CASE DropStep
  BY <1>0, <1>9, DropEffect, RecordsDropped DEF history
<1>10. CASE DiskStep \/ PlaceStep \/ UNCHANGED vars
  BY <1>0, <1>10, DiskEffect, PlaceEffect, RecordsSame DEF vars, history
<1> QED
  BY StepKinds, <1>1, <1>2, <1>3, <1>4, <1>5, <1>6, <1>7, <1>8, <1>9, <1>10
     DEF RecordStep
-----------------------------------------------------------------------------
(* What the operation under way relies on *)

LEMMA StepRecordsStep == IInv /\ [Next]_vars => StepRecords'
<1> SUFFICES ASSUME IInv, [Next]_vars PROVE StepRecords'
  OBVIOUS
<1>0. TypeOK /\ StepRecords /\ StageTold
  BY DEF IInv
<1> USE DEF TypeOK, StepRecords, StageTold, IsSaved
<1>1. CASE RecordStep
  BY <1>0, <1>1 DEF RecordStep, Reserve, BeginReclaim, Restart, Restartable, Complete,
       SaveActive, Finalize, GcRetain, ActivateRestart, Activate, NoActive, Goto, End,
       active, forge, op
<1>2. CASE DropStep
  BY <1>0, <1>2 DEF DropStep, Rollback, GcRelease, Settle, Release, End, NoActive, op
<1>3. CASE DiskStep
  <2>1. UNCHANGED <<active, ledger, forge>>
    BY <1>3, DiskEffect
  <2> QED
    BY <1>0, <1>3, <2>1 DEF DiskStep, TakeOver, Reuse, AddTree, Mark, GcRemoveTree,
       GcRemoveMarker, Backup, ReclaimTree, ReclaimMarker, MoveMarker, UndoRestart,
       RestoreMarker, ResumeRestart, Restartable, LaunchFails, Edit, LoseTree, LoseMarker, Goto,
       End, op, active, ledger, forge
<1>4. CASE PlaceStep
  <2>1. UNCHANGED <<active, ledger>>
    BY <1>4, PlaceEffect
  <2> QED
    BY <1>0, <1>4, <2>1 DEF PlaceStep, Resume, NoReclaim, Publish, SetLabel, Fail,
       Collect, Reclaim, Requeue, PublishRestart, ReplayRestart, Launched, BlockLaunch, Relabel, Goto, End,
       op, active, ledger, forge
<1>5. CASE UNCHANGED vars
  BY <1>0, <1>5 DEF vars, active, ledger, forge, op
<1> QED
  BY StepKinds, <1>1, <1>2, <1>3, <1>4, <1>5

LEMMA StepDiskStep == IInv /\ [Next]_vars => StepDisk'
<1> SUFFICES ASSUME IInv, [Next]_vars PROVE StepDisk'
  OBVIOUS
<1>0. TypeOK /\ StepRecords /\ StepDisk /\ Records
  BY DEF IInv, Records
<1> USE DEF TypeOK, StepDisk
<1>1. ASSUME NEW k \in Claims, BeginReclaim(k) PROVE StepDisk'
  <2>1. k \in released /\ stage = "reserved"
    BY <1>0, <1>1 DEF BeginReclaim, Evidence, Matching, StepRecords
  <2>2. heir[k] \in {NoClaim, holder} \/ heir[k] \notin saved
    BY <1>0, <1>1 DEF BeginReclaim, Evidence, Records, HeirsTold
  <2> QED
    BY <1>0, <1>1, <2>1, <2>2 DEF BeginReclaim, Previous, active, disk, history
<1>2. ASSUME RecordStep, \A k \in Claims : ~BeginReclaim(k) PROVE StepDisk'
  <2>1. ASSUME NEW c \in Claims, Reserve(c) \/ Restart(c) PROVE StepDisk'
    BY <1>0, <2>1 DEF Reserve, Restart, Restartable, Goto, active, disk
  <2>2. ASSUME NEW r \in {"done", "blocked"}, Complete(r) PROVE StepDisk'
    BY <1>0, <2>2 DEF Complete, op
  <2>3. CASE SaveActive \/ Finalize \/ GcRetain \/ ActivateRestart
    BY <2>3 DEF SaveActive, Finalize, GcRetain, ActivateRestart, Goto, End
  <2> QED
    BY <1>2, <2>1, <2>2, <2>3 DEF RecordStep
<1>3. CASE DropStep
  BY <1>0, <1>3 DEF DropStep, Rollback, GcRelease, Settle, Release, End, NoActive, op
<1>4. CASE DiskStep
  <2>1. UNCHANGED <<active, ledger, saved>>
    BY <1>4, DiskEffect
  <2>2. CASE TakeOver \/ Reuse \/ AddTree \/ Mark
    BY <1>0, <2>1, <2>2 DEF TakeOver, Reuse, AddTree, Mark, Goto, active, ledger, disk
  <2>3. CASE MoveMarker \/ ResumeRestart
    BY <1>0, <2>1, <2>3 DEF MoveMarker, ResumeRestart, Goto, active, ledger
  <2>4. CASE Edit \/ LoseTree \/ LoseMarker
    BY <1>0, <2>1, <2>4 DEF Edit, LoseTree, LoseMarker, op, active, ledger, history
  <2>5. CASE \/ GcRemoveTree \/ GcRemoveMarker \/ Backup \/ ReclaimTree
             \/ ReclaimMarker \/ UndoRestart \/ RestoreMarker \/ LaunchFails
    BY <1>0, <2>5 DEF GcRemoveTree, GcRemoveMarker, Backup, ReclaimTree,
       ReclaimMarker, UndoRestart, RestoreMarker, LaunchFails, Goto, End, op
  <2> QED
    BY <1>4, <2>2, <2>3, <2>4, <2>5 DEF DiskStep
<1>5. CASE PlaceStep
  <2>1. UNCHANGED <<active, ledger, disk, history>>
    BY <1>5, PlaceEffect
  <2> QED
    BY <1>0, <1>5, <2>1 DEF PlaceStep, Resume, NoReclaim, Publish, SetLabel, Fail,
       Collect, Reclaim, Requeue, PublishRestart, ReplayRestart, Launched, BlockLaunch, Relabel, Goto, End,
       op, active, ledger, disk, history
<1>6. CASE UNCHANGED vars
  BY <1>0, <1>6 DEF vars, active, ledger, disk, op, history
<1> QED
  BY StepKinds, <1>1, <1>2, <1>3, <1>4, <1>5, <1>6
-----------------------------------------------------------------------------
(* Who gets the marker *)

\* The marker stays, is removed by its owner or lost, or goes to a generation that
\* has no receipt: the active claim or the one its restart has planned.
LEMMA MarkerMoves ==
  ASSUME IInv, [Next]_vars
  PROVE  \/ marker' = marker
         \/ marker' = NoClaim
         \/ marker' = holder /\ holder \notin released
         \/ marker' = restarts[holder] /\ holder \in Claims /\ restarts[holder] \notin saved
<1>0. TypeOK /\ StepRecords /\ StageTold /\ Lineages
  BY DEF IInv
<1>1. CASE DiskStep
  <2>1. CASE MoveMarker
    BY <1>0, <2>1 DEF MoveMarker, TypeOK, StepRecords, StageTold, IsSaved, Lineages
  <2>2. CASE \/ TakeOver \/ Mark \/ UndoRestart \/ RestoreMarker \/ ResumeRestart
    BY <1>0, <2>2 DEF TakeOver, Mark, UndoRestart, RestoreMarker, ResumeRestart, Lineages
  <2> QED
    BY <1>1, <2>1, <2>2 DEF DiskStep, Reuse, AddTree, GcRemoveTree, GcRemoveMarker,
         Backup, ReclaimTree, ReclaimMarker, LaunchFails, Edit, LoseTree, LoseMarker, disk
<1>2. CASE RecordStep
  BY <1>2 DEF RecordStep, Reserve, BeginReclaim, Restart, Complete, SaveActive,
              Finalize, GcRetain, ActivateRestart, disk
<1> QED
  BY StepKinds, <1>1, <1>2, DropEffect, PlaceEffect DEF vars, disk

LEMMA OwnerStep == IInv /\ [Next]_vars => SavedOwnsWorktree'
<1> SUFFICES ASSUME IInv, [Next]_vars PROVE SavedOwnsWorktree'
  OBVIOUS
<1>0. TypeOK /\ StepRecords /\ StepDisk /\ StageTold /\ SavedOwnsWorktree
  BY DEF IInv
<1> USE DEF SavedOwnsWorktree, IsSaved
<1>1. CASE RecordStep
  <2>1. ASSUME NEW c \in Claims, Reserve(c) \/ BeginReclaim(c) PROVE SavedOwnsWorktree'
    BY <1>0, <2>1 DEF Reserve, BeginReclaim, Activate, StepRecords, active
  <2>2. ASSUME NEW d \in Claims, Restart(d) PROVE SavedOwnsWorktree'
    BY <1>0, <2>2 DEF Restart, Restartable, TypeOK, active, disk
  <2>3. ASSUME NEW r \in {"done", "blocked"}, Complete(r) PROVE SavedOwnsWorktree'
    BY <1>0, <2>3 DEF Complete, Owned, disk
  <2>4. CASE SaveActive \/ Finalize
    BY <1>0, <2>4 DEF SaveActive, Finalize, StepRecords, StepDisk, disk
  <2>5. CASE GcRetain
    BY <2>5 DEF GcRetain, NoActive
  <2>6. CASE ActivateRestart
    BY <1>0, <2>6 DEF ActivateRestart, Activate, StepDisk, disk
  <2> QED
    BY <1>1, <2>1, <2>2, <2>3, <2>4, <2>5, <2>6 DEF RecordStep
<1>2. CASE DropStep
  BY <1>2, DropEffect DEF NoActive
<1>3. CASE DiskStep
  <2>1. UNCHANGED <<active, ledger>>
    BY <1>3, DiskEffect
  <2>2. CASE MoveMarker
    BY <1>0, <2>1, <2>2 DEF MoveMarker, StepRecords, active, ledger
  <2>3. CASE TakeOver \/ Mark \/ UndoRestart \/ RestoreMarker \/ ResumeRestart
    BY <2>1, <2>3 DEF TakeOver, Mark, UndoRestart, RestoreMarker, ResumeRestart, active
  <2>4. marker' \in {marker, NoClaim} => SavedOwnsWorktree'
    BY <1>0, <2>1 DEF active, ledger
  <2> QED
    BY <1>3, <2>2, <2>3, <2>4 DEF DiskStep, Reuse, AddTree, GcRemoveTree,
         GcRemoveMarker, Backup, ReclaimTree, ReclaimMarker, LaunchFails, Edit, LoseTree,
         LoseMarker, disk
<1>4. CASE PlaceStep \/ UNCHANGED vars
  BY <1>0, <1>4, PlaceEffect DEF vars, active, ledger, disk
<1> QED
  BY StepKinds, <1>1, <1>2, <1>3, <1>4

-----------------------------------------------------------------------------
(* Retained worktrees *)

LEMMA RetainedStep == IInv /\ [Next]_vars => RetainedInv'
<1> SUFFICES ASSUME IInv, [Next]_vars PROVE RetainedInv'
  OBVIOUS
<1>0. TypeOK /\ Records /\ StepRecords /\ StepDisk /\ RetainedInv
  BY DEF IInv, Records
<1> USE DEF RetainedInv
<1>1. CASE RecordStep
  <2>1. ASSUME NEW c \in Claims, Reserve(c) \/ BeginReclaim(c) \/ Restart(c)
        PROVE  RetainedInv'
    BY <1>0, <2>1 DEF Reserve, BeginReclaim, Restart, ledger, disk, TypeOK
  <2>2. ASSUME NEW r \in {"done", "blocked"}, Complete(r) PROVE RetainedInv'
    BY <1>0, <2>2 DEF Complete, Owned, disk, Records, Lineages
  <2>3. CASE SaveActive
    BY <1>0, <2>3 DEF SaveActive, Follow, disk, StepDisk, Records, Lineages, TypeOK
  <2>4. CASE Finalize
    <3>1. marker \in released => heir[marker] = NoClaim \/ heir[marker] # holder
      BY <1>0, <2>4 DEF Finalize, StepRecords, Records, PhaseFollowsClaim, TypeOK
    <3> QED
      BY <1>0, <2>4, <3>1 DEF Finalize, Follow, disk, TypeOK, StepRecords
  <2>5. CASE GcRetain
    <3>1. holder \in Claims /\ phase[holder] = "none"
      BY <1>0, <2>5 DEF GcRetain, StepRecords, Records, StageTold, IsSaved, HeirsTold,
                        Lineages, TypeOK
    <3> QED
      BY <1>0, <2>5, <3>1 DEF GcRetain, disk, StepRecords, StepDisk
  <2>6. CASE ActivateRestart
    BY <1>0, <2>6 DEF ActivateRestart, ledger, disk
  <2> QED
    BY <1>1, <2>1, <2>2, <2>3, <2>4, <2>5, <2>6 DEF RecordStep
<1>2. CASE ~RecordStep
  <2>1. UNCHANGED ledger
    BY <1>2, StepKinds, DropEffect, DiskEffect, PlaceEffect DEF vars
  <2>2. marker' \in released => marker' = marker
    BY <1>0, MarkerMoves DEF Records, IssuedFirst, TypeOK
  <2> QED
    BY <1>0, <2>1, <2>2 DEF ledger
<1> QED
  BY <1>1, <1>2
\* The generations that may be active or planned have no receipt.
LEMMA KeptStep == IInv /\ [Next]_vars => RetainedKept'
<1> SUFFICES ASSUME IInv, [Next]_vars PROVE RetainedKept'
  OBVIOUS
<1>0. TypeOK /\ Records /\ StepRecords /\ StepDisk /\ RetainedKept /\ SavedOwnsWorktree
  BY DEF IInv, Records
<1>1. CASE RecordStep
  <2>1. ASSUME NEW k \in Claims, BeginReclaim(k) PROVE RetainedKept'
    BY <1>0, <2>1 DEF BeginReclaim, RetainedKept, StepRecords, TypeOK, disk, history
  <2>2. CASE GcRetain
    BY <1>0, <2>2 DEF GcRetain, RetainedKept, StepDisk, disk, history
  <2>3. CASE SaveActive \/ Finalize \/ ActivateRestart
    BY <1>0, <2>3 DEF SaveActive, Finalize, ActivateRestart, RetainedKept, disk,
                      ledger, history
  <2>4. ASSUME NEW c \in Claims, Reserve(c) \/ Restart(c) PROVE RetainedKept'
    BY <1>0, <2>4 DEF Reserve, Restart, RetainedKept, disk, ledger
  <2>5. ASSUME NEW r \in {"done", "blocked"}, Complete(r) PROVE RetainedKept'
    BY <1>0, <2>5 DEF Complete, RetainedKept, disk, history
  <2> QED
    BY <1>1, <2>1, <2>2, <2>3, <2>4, <2>5 DEF RecordStep
<1>2. CASE DiskStep
  <2> SUFFICES ASSUME NEW k \in Claims, k \in released, heir[k] = NoClaim, outside' = 0
               PROVE  marker' = k /\ tree' # "absent"
    BY <1>0, <1>2, DiskEffect DEF RetainedKept, TypeOK, ledger
  <2>1. outside = 0 \/ outside' # 0
    BY <1>0, <1>2 DEF DiskStep, TakeOver, Reuse, AddTree, Mark, GcRemoveTree,
         GcRemoveMarker, Backup, ReclaimTree, ReclaimMarker, MoveMarker, UndoRestart,
         RestoreMarker, ResumeRestart, LaunchFails, Edit, LoseTree, LoseMarker, history, TypeOK
  <2>2. marker = k /\ tree # "absent"
    BY <1>0, <2>1 DEF RetainedKept
  <2>3. /\ marker # holder /\ marker # NoClaim /\ marker \in saved
        /\ holder \in Claims => marker # restarts[holder]
    BY <1>0, <2>2 DEF Records, Lineages, IssuedFirst, TypeOK
  <2>4. CASE TakeOver
    BY <1>0, <2>2, <2>3, <2>4 DEF TakeOver, StepRecords, StepDisk, TypeOK
  <2>5. CASE Mark \/ MoveMarker \/ UndoRestart \/ RestoreMarker \/ ResumeRestart
    <3>1. at = "rs_active" => holder \in Claims
      BY <1>0 DEF StepRecords, Records, StageTold, IsSaved, TypeOK
    <3>2. Restartable => holder \in Claims
      BY DEF Restartable
    <3> QED
      BY <1>0, <2>3, <2>5, <3>1, <3>2 DEF Mark, MoveMarker, UndoRestart, RestoreMarker,
           ResumeRestart, StepDisk
  <2>6. CASE GcRemoveTree \/ GcRemoveMarker
    BY <2>3, <2>6 DEF GcRemoveTree, GcRemoveMarker
  <2>7. CASE ReclaimTree \/ ReclaimMarker \/ LaunchFails
    BY <1>0, <2>3, <2>7 DEF ReclaimTree, ReclaimMarker, LaunchFails, StepRecords,
                            SavedOwnsWorktree, IsSaved, TypeOK
  <2>8. CASE Reuse \/ AddTree \/ Backup \/ Edit \/ LoseTree \/ LoseMarker
    BY <1>0, <2>1, <2>2, <2>8 DEF Reuse, AddTree, Backup, Edit, LoseTree, LoseMarker,
                                  disk, TypeOK
  <2> QED
    BY <1>2, <2>4, <2>5, <2>6, <2>7, <2>8 DEF DiskStep
<1>3. CASE DropStep \/ PlaceStep \/ UNCHANGED vars
  BY <1>0, <1>3, DropEffect, PlaceEffect DEF RetainedKept, ledger, disk, history, vars
<1> QED
  BY StepKinds, <1>1, <1>2, <1>3

\* With the receipt and the completion in place, every claim finds its evidence.
LEMMA ClaimableFollows == IInv => RetainedClaimable
  BY DEF IInv, TypeOK, RetainedInv, RetainedClaimable, Evidence, Matching, HeirsTold

LEMMA FinalizedStep == IInv /\ [Next]_vars => FinalizedIsPublished'
<1> SUFFICES ASSUME IInv, [Next]_vars PROVE FinalizedIsPublished'
  OBVIOUS
<1>0. TypeOK /\ StepRecords /\ FinalizedIsPublished /\ StageTold
  BY DEF IInv
<1> USE DEF FinalizedIsPublished
<1>1. CASE RecordStep
  <2>1. ASSUME NEW c \in Claims, Reserve(c) \/ BeginReclaim(c) PROVE FinalizedIsPublished'
    BY <1>0, <2>1 DEF Reserve, BeginReclaim, Activate, StepRecords, active
  <2>2. ASSUME NEW d \in Claims, Restart(d) PROVE FinalizedIsPublished'
    BY <1>0, <2>2 DEF Restart, Restartable, active, forge, TypeOK
  <2>3. ASSUME NEW r \in {"done", "blocked"}, Complete(r) PROVE FinalizedIsPublished'
    BY <1>0, <2>3 DEF Complete
  <2>4. CASE SaveActive \/ Finalize
    BY <1>0, <2>4 DEF SaveActive, Finalize, StepRecords, forge
  <2>5. CASE GcRetain
    BY <2>5 DEF GcRetain, NoActive
  <2>6. CASE ActivateRestart
    BY <1>0, <2>6 DEF ActivateRestart, Activate, StepRecords, StageTold, IsSaved,
                      TypeOK, ledger, forge
  <2> QED
    BY <1>1, <2>1, <2>2, <2>3, <2>4, <2>5, <2>6 DEF RecordStep
<1>2. CASE DropStep
  BY <1>2, DropEffect DEF NoActive
<1>3. CASE DiskStep \/ UNCHANGED vars
  BY <1>0, <1>3, DiskEffect DEF active, ledger, forge, vars
<1>4. CASE PlaceStep
  <2>1. published' = published \/ published' = holder
    BY <1>4 DEF PlaceStep, Resume, NoReclaim, Publish, SetLabel, Fail, Collect,
         Reclaim, Requeue, PublishRestart, ReplayRestart, Launched, BlockLaunch, Relabel, forge
  <2> QED
    BY <1>0, <1>4, <2>1, PlaceEffect DEF active, ledger
<1> QED
  BY StepKinds, <1>1, <1>2, <1>3, <1>4
-----------------------------------------------------------------------------
(* The theorems *)

LEMMA InitInv == Init => IInv
  BY TypeInit DEF Init, IInv, IssuedFirst, StageTold, HeirsTold, Lineages, StepRecords,
       StepDisk, PhaseFollowsClaim, SavedOwnsWorktree, RetainedInv, RetainedKept,
       FinalizedIsPublished, IsSaved

LEMMA Invariant == Spec => []IInv
<1>1. IInv /\ [Next]_vars => IInv'
  <2> SUFFICES ASSUME IInv, [Next]_vars PROVE IInv'
    OBVIOUS
  <2> QED
    BY TypeStep, RecordsStep, StepRecordsStep, StepDiskStep, OwnerStep, RetainedStep,
       KeptStep, FinalizedStep DEF IInv, Records
<1> QED
  BY InitInv, <1>1, PTL DEF Spec

\* The variables keep their types, for any number of claims and outside removals.
THEOREM ClaimTypes == Spec => []TypeOK
  BY Invariant, PTL DEF IInv

\* A saved claim and the marker of its worktree agree.
THEOREM SavedClaimOwns == Spec => []SavedOwnsWorktree
  BY Invariant, PTL DEF IInv

\* The stage of a claim and the phase of the takeover it made are saved together.
THEOREM PhasesAgree == Spec => []PhaseFollowsClaim
  BY Invariant, PTL DEF IInv

\* A retained worktree stays claimable for every next claim.
THEOREM RetainedStaysClaimable == Spec => []RetainedClaimable
  BY Invariant, ClaimableFollows, PTL

\* A retained worktree is there until it is inherited.
THEOREM RetainedIsKept == Spec => []RetainedKept
  BY Invariant, PTL DEF IInv

\* A finalized claim is the one the Issue names, up to a restart under way.
THEOREM FinalizedPublished == Spec => []FinalizedIsPublished
  BY Invariant, PTL DEF IInv

\* Wherever an operation stopped, run state, receipts, worktree and Issue agree.
THEOREM StoriesAlwaysAgree == Spec => []StoriesAgree
<1>1. TypeOK /\ PhaseFollowsClaim /\ FinalizedIsPublished /\ RetainedKept
      /\ RetainedClaimable => StoriesAgree
  BY DEF StoriesAgree
<1> QED
  BY <1>1, ClaimTypes, PhasesAgree, FinalizedPublished, RetainedIsKept,
     RetainedStaysClaimable, PTL

\* The marker never leaves a generation that was saved, unless that generation has
\* a receipt or is restarted.
THEOREM MarkerHandover == Spec => NeverTakenFromHolder
<1>1. IInv /\ [Next]_vars => [MarkerHandedOver]_vars
  <2> SUFFICES ASSUME IInv, [Next]_vars PROVE MarkerHandedOver
    OBVIOUS
  <2>0. TypeOK /\ StepRecords /\ StepDisk /\ Records
    BY DEF IInv, Records
  <2>1. CASE DiskStep
    <3>1. CASE TakeOver
      BY <2>0, <3>1 DEF TakeOver, StepDisk, MarkerHandedOver
    <3>2. CASE Mark \/ MoveMarker \/ UndoRestart \/ RestoreMarker \/ ResumeRestart
      BY <2>0, <3>2 DEF Mark, MoveMarker, UndoRestart, RestoreMarker, ResumeRestart,
                        StepDisk, MarkerHandedOver
    <3> QED
      BY <2>1, <3>1, <3>2 DEF DiskStep, Reuse, AddTree, GcRemoveTree, GcRemoveMarker,
           Backup, ReclaimTree, ReclaimMarker, LaunchFails, Edit, LoseTree, LoseMarker, disk,
           MarkerHandedOver
  <2>2. CASE RecordStep
    BY <2>2 DEF RecordStep, Reserve, BeginReclaim, Restart, Complete, SaveActive,
                Finalize, GcRetain, ActivateRestart, disk, MarkerHandedOver
  <2> QED
    BY StepKinds, <2>1, <2>2, DropEffect, PlaceEffect DEF vars, disk, MarkerHandedOver
<1> QED
  BY Invariant, <1>1, PTL DEF Spec, NeverTakenFromHolder

\* Who inherited a retained worktree is final once that claim was saved.
THEOREM InheritanceFinal == Spec => HeirFinal
<1> DEFINE Final(k) == phase[k] \in {"active_saved", "completed"} =>
                         heir'[k] = heir[k] /\ phase'[k] \in {phase[k], "completed"}
<1>1. IInv /\ [Next]_vars => [\A k \in Claims : Final(k)]_vars
  <2> SUFFICES ASSUME IInv, [Next]_vars, NEW k \in Claims,
                      phase[k] \in {"active_saved", "completed"}
               PROVE  heir'[k] = heir[k] /\ phase'[k] \in {phase[k], "completed"}
    OBVIOUS
  <2>0. TypeOK /\ StepRecords /\ Records
    BY DEF IInv, Records
  <2>1. CASE RecordStep
    <3>1. ASSUME NEW j \in Claims, BeginReclaim(j) PROVE j # k
      BY <2>0, <3>1 DEF BeginReclaim, Evidence, StepRecords, Records, HeirsTold,
                        PhaseFollowsClaim, TypeOK
    <3>2. ASSUME NEW j \in Claims, BeginReclaim(j)
          PROVE  heir'[k] = heir[k] /\ phase'[k] = phase[k]
      BY <2>0, <3>1, <3>2 DEF BeginReclaim, TypeOK
    <3>3. CASE SaveActive
      BY <2>0, <3>3 DEF SaveActive, Follow, StepRecords, Records, PhaseFollowsClaim,
                        HeirsTold, TypeOK
    <3>4. CASE Finalize
      BY <2>0, <3>4 DEF Finalize, Follow, TypeOK
    <3>5. CASE ~(SaveActive \/ Finalize \/ \E j \in Claims : BeginReclaim(j))
      BY <2>1, <3>5 DEF RecordStep, Reserve, Restart, Complete, GcRetain,
                        ActivateRestart, ledger
    <3> QED
      BY <3>2, <3>3, <3>4, <3>5
  <2> QED
    BY StepKinds, <2>1, DropEffect, DiskEffect, PlaceEffect DEF vars, ledger
<1> QED
  BY Invariant, <1>1, PTL DEF Spec, HeirFinal

\* No step of the program removes uncommitted work, except a failed launch in the
\* worktree of its own claim.
THEOREM WorkKept == Spec => WorkNeverDestroyed
<1>1. IInv /\ [Next]_vars => [WorkRemoved]_vars
  <2> SUFFICES ASSUME IInv, [Next]_vars, tree = "dirty", tree' = "absent"
               PROVE  outside' > outside \/ LaunchUndone
    BY DEF WorkRemoved
  <2>0. TypeOK /\ StepRecords /\ SavedOwnsWorktree
    BY DEF IInv
  <2>1. CASE DiskStep
    <3>1. CASE LaunchFails
      BY <2>0, <3>1 DEF LaunchFails, StepRecords, SavedOwnsWorktree, IsSaved,
                        LaunchUndone
    <3>2. CASE LoseTree
      BY <2>0, <3>2 DEF LoseTree, TypeOK
    <3> QED
      BY <2>0, <2>1, <3>1, <3>2 DEF DiskStep, TakeOver, Reuse, AddTree, Mark,
           GcRemoveTree, GcRemoveMarker, Backup, ReclaimTree, ReclaimMarker, MoveMarker,
           UndoRestart, RestoreMarker, ResumeRestart, Edit, LoseMarker, disk, TypeOK
  <2>2. CASE RecordStep
    BY <2>2 DEF RecordStep, Reserve, BeginReclaim, Restart, Complete, SaveActive,
                Finalize, GcRetain, ActivateRestart, disk
  <2> QED
    BY StepKinds, <2>1, <2>2, DropEffect, PlaceEffect DEF vars, disk
<1> QED
  BY Invariant, <1>1, PTL DEF Spec, WorkNeverDestroyed
=============================================================================
