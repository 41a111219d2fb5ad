------------------------ MODULE InstallerTransaction ------------------------
(***************************************************************************)
(* Installation, update and removal of the skills of one bundle in one     *)
(* root, by processes that share its directory.                            *)
(*                                                                         *)
(* A transaction stages the new skills, moves the old ones to its backup   *)
(* directory, publishes and saves the manifest, which commits it; a        *)
(* journal says how far it got.  The transaction lock admits one at a      *)
(* time.  A transaction that failed is rolled back at once, one whose      *)
(* process died by the next that takes the lock.                           *)
(*                                                                         *)
(* Simplifications: one bundle; a manifest that can be read; the copying   *)
(* of a skill, an inspection, os.replace, rmtree of one skill and a save   *)
(* of a journal or manifest are atomic; the backed up skills listed in a   *)
(* journal are not kept, as the recovery reads the backup directory.       *)
(***************************************************************************)
EXTENDS Naturals, FiniteSets

CONSTANTS
  Procs, Skills, Consumers,
  None,            \* no skill, no version, no holder
  Edited,          \* a skill the user changed
  Link,            \* a skill that is a link made by hand
  SkillsOf,        \* the skills of each version of the bundle
  Legacy,          \* skills that are links made by hand at the start
  LinkResolves,    \* a link still leads somewhere from the backup directory
  StopsInRestore,  \* whether a rollback of an installation may stop halfway
  MaxTx,           \* bound on transactions
  MaxCrash, MaxFail, MaxEdits

Versions == DOMAIN SkillsOf

ASSUME InstallerAssumption ==
  /\ \A v \in Versions : SkillsOf[v] \subseteq Skills
  /\ None \notin Versions \cup Procs \cup {Edited, Link}
  /\ Edited \notin Versions \cup {Link} /\ Link \notin Versions
  /\ Legacy \subseteq Skills
  /\ {LinkResolves, StopsInRestore} \subseteq BOOLEAN
  /\ {MaxTx, MaxCrash, MaxFail, MaxEdits} \subseteq Nat

Content == Versions \cup {None, Edited, Link}
Ops     == {"install", "migrate", "update", "uninstall"}
\* A bundle is in the manifest as long as it has a consumer.
Manifests == {m \in [version: Versions \cup {None}, consumers: SUBSET Consumers,
                     gen: Nat \ {0}, tx: Nat] : (m.version = None) = (m.consumers = {})}
Journals  == {"none", "PREPARED", "PUBLISHING", "UNINSTALL", "COMMITTED"}
Steps   == {"idle", "route", "enter", "load", "store", "begin", "stage", "move", "journal_publish",
            "publish", "verify", "save", "journal",
            "unpublish", "restore", "unremove", "clean", "erase", "discard"}

VARIABLES
  root,      \* the skills directories
  manifest,  \* the saved manifest
  lock,      \* the holder of the transaction lock, or None
  tx,        \* the transaction directory and its journal
  backup,    \* its backup directory
  run,       \* what each process does
  txs, crashes, fails, edits

disk  == <<root, manifest, tx, backup>>
count == <<txs, crashes, fails, edits>>
vars  == <<disk, lock, run, count>>

NoTx == [id |-> 0, journal |-> "none", version |-> None, published |-> {}, gen |-> 0,
         consumers |-> {}, remaining |-> {}]
NoManifest == [version |-> None, consumers |-> {}, gen |-> 1, tx |-> 0]
Idle == [at |-> "idle", op |-> "install", version |-> None, consumers |-> {}, todo |-> {},
         copy |-> NoManifest, next |-> "idle"]
NoSkills == [s \in Skills |-> None]

At(p, step) == run[p].at = step
Goes(p, step) == run' = [run EXCEPT ![p].at = step]
Does(p, step, set) == run' = [run EXCEPT ![p].at = step, ![p].todo = set]
Did(p, s) == run' = [run EXCEPT ![p].todo = @ \ {s}]

-----------------------------------------------------------------------------
(* Inspection *)

Installed(dir) == {s \in Skills : dir[s] # None}

\* inspect_bundle_state, for the payload v.
Inspected(v) ==
  IF tx.journal # "none" THEN "recovery"
  ELSE IF manifest.version = None
    THEN IF SkillsOf[v] \cap Installed(root) = {} THEN "absent"
         ELSE IF \E s \in SkillsOf[v] : root[s] = Link THEN "legacy" ELSE "unmanaged"
  ELSE IF \E s \in SkillsOf[manifest.version] : root[s] # manifest.version THEN "modified"
  ELSE IF manifest.version = v THEN "current" ELSE "outdated"

-----------------------------------------------------------------------------
(* An operation decides what to do *)

Start(p) ==
  /\ At(p, "idle")
  /\ \E op \in Ops \ {"migrate"}, v \in Versions, c \in (SUBSET Consumers) \ {{}} :
       run' = [run EXCEPT ![p] = [Idle EXCEPT !.at = "route", !.op = op, !.version = v,
                                              !.consumers = c]]
  /\ UNCHANGED <<disk, lock, count>>

\* install_skills, update_skills and uninstall_skills up to the transaction;
\* every other state refuses or has nothing to do.
Route(p) ==
  LET r == run[p]
      state == Inspected(r.version)
  IN
  /\ At(p, "route")
  /\ run' = [run EXCEPT ![p] =
       IF r.op = "uninstall" \/ <<r.op, state>> \in {<<"install", "absent">>,
                                                     <<"update", "outdated">>}
         THEN [r EXCEPT !.at = "enter", !.next = "begin"]
       ELSE IF state = "recovery" THEN [r EXCEPT !.at = "enter", !.next = "route"]
       ELSE IF <<r.op, state>> = <<"install", "legacy">>
         THEN [r EXCEPT !.at = "enter", !.next = "begin", !.op = "migrate"]
       ELSE IF <<r.op, state>> = <<"install", "current">> THEN [r EXCEPT !.at = "load"]
       ELSE Idle]
  /\ UNCHANGED <<disk, lock, count>>

\* _install_managed_current: the consumers are added without the lock; a bundle
\* removed in between is an error.
LoadConsumers(p) ==
  /\ At(p, "load")
  /\ run' = [run EXCEPT ![p] = IF manifest.version = None \/ run[p].consumers \subseteq manifest.consumers
                                 THEN Idle ELSE [@ EXCEPT !.at = "store", !.copy = manifest]]
  /\ UNCHANGED <<disk, lock, count>>

StoreConsumers(p) ==
  /\ At(p, "store")
  /\ manifest' = [run[p].copy EXCEPT !.consumers = @ \cup run[p].consumers, !.gen = @ + 1]
  /\ run' = [run EXCEPT ![p] = Idle]
  /\ UNCHANGED <<root, tx, backup, lock, count>>

-----------------------------------------------------------------------------
(* Recovery and rollback *)

TxSkills ==
  IF tx.journal \in {"PREPARED", "PUBLISHING"} THEN SkillsOf[tx.version]
  ELSE IF tx.version # None /\ tx.remaining = {} THEN SkillsOf[tx.version] ELSE {}

IsUninstall == tx.gen # 0

\* Faulty variant: the generation of the plan is expected after the commit.
MatchesPlanned ==
  /\ manifest.gen = tx.gen
  /\ manifest.consumers = tx.remaining
  /\ manifest.version = IF tx.remaining = {} THEN None ELSE tx.version

\* _manifest_matches_uninstall_before and _commit.
MatchesBefore ==
  /\ manifest.gen = tx.gen
  /\ manifest.version = tx.version /\ manifest.consumers = tx.consumers
MatchesCommit ==
  /\ manifest.gen = tx.gen + 1
  /\ manifest.consumers = tx.remaining
  /\ manifest.version = IF tx.remaining = {} THEN None ELSE tx.version

\* Faulty variant: only the journal says whether an installation is committed.
JournaledUndo ==
  IF tx.journal = "none" THEN "discard"
  ELSE IF ~IsUninstall
    THEN IF tx.journal = "COMMITTED" THEN "discard" ELSE "unpublish"
  ELSE IF manifest.tx = tx.id THEN IF MatchesCommit THEN "clean" ELSE "idle"
  ELSE IF tx.journal = "COMMITTED" \/ ~MatchesBefore THEN "idle"
  ELSE "unremove"

\* What _rollback_sub_transaction and _recover_uninstall_transaction do first;
\* "idle" is a refusal.
Undo ==
  IF tx.journal = "none" THEN "discard"
  ELSE IF ~IsUninstall
    THEN IF tx.journal = "COMMITTED" \/ manifest.tx = tx.id THEN "discard" ELSE "unpublish"
  ELSE IF manifest.tx = tx.id THEN IF MatchesCommit THEN "clean" ELSE "idle"
  ELSE IF tx.journal = "COMMITTED" \/ ~MatchesBefore THEN "idle"
  ELSE "unremove"

UndoTodo ==
  CASE Undo = "unpublish" -> tx.published
    [] Undo = "clean" -> Installed(backup)
    [] Undo = "unremove" -> TxSkills
    [] OTHER -> {}

\* Rolls back, or raises and leaves everything as it is.
Undoes(p, next) ==
  /\ run' = [run EXCEPT ![p] = IF Undo = "idle" THEN Idle
                               ELSE [@ EXCEPT !.at = Undo, !.todo = UndoTodo, !.next = next]]
  /\ lock' = IF Undo = "idle" THEN None ELSE lock

\* __enter__, or _recover_if_needed: FileLock gives up after ten seconds, and what a
\* dead process left is recovered first, or the operation refused.
Enter(p) ==
  /\ At(p, "enter")
  /\ IF lock # None \/ (tx.id # 0 /\ Undo = "idle")
       THEN run' = [run EXCEPT ![p] = Idle] /\ UNCHANGED lock
     ELSE IF tx.id # 0
       THEN lock' = p /\ run' = [run EXCEPT ![p].at = Undo, ![p].todo = UndoTodo]
     ELSE IF run[p].next = "begin" THEN lock' = p /\ Goes(p, "begin")
     ELSE Goes(p, "route") /\ UNCHANGED lock
  /\ UNCHANGED <<disk, count>>

\* _remove_published_skills, one skill at a time.
Unpublish(p) ==
  /\ At(p, "unpublish")
  /\ \/ \E s \in run[p].todo : root' = [root EXCEPT ![s] = None] /\ Did(p, s)
     \/ /\ run[p].todo = {} /\ UNCHANGED root
        /\ Does(p, "restore", {s \in Installed(backup) : LinkResolves \/ backup[s] # Link})
  /\ UNCHANGED <<manifest, tx, backup, lock, count>>

\* _restore_backups moves back what exists in the backup directory.
Restore(p) ==
  /\ At(p, "restore")
  /\ \/ \E s \in run[p].todo :
          /\ root' = [root EXCEPT ![s] = backup[s]] /\ backup' = [backup EXCEPT ![s] = None]
          /\ Did(p, s)
     \/ run[p].todo = {} /\ Goes(p, "discard") /\ UNCHANGED <<root, backup>>
  /\ UNCHANGED <<manifest, tx, lock, count>>

\* _restore_uninstall_backups: each skill is in exactly one of the two places.
Unremove(p) ==
  /\ At(p, "unremove")
  /\ \/ \E s \in run[p].todo :
          IF (root[s] = None) = (backup[s] = None)
            THEN /\ lock' = None /\ run' = [run EXCEPT ![p] = Idle]
                 /\ UNCHANGED <<root, backup>>
            ELSE /\ IF backup[s] # None
                      THEN /\ root' = [root EXCEPT ![s] = backup[s]]
                           /\ backup' = [backup EXCEPT ![s] = None]
                      ELSE UNCHANGED <<root, backup>>
                 /\ Did(p, s) /\ UNCHANGED lock
     \/ run[p].todo = {} /\ Goes(p, "discard") /\ UNCHANGED <<root, backup, lock>>
  /\ UNCHANGED <<manifest, tx, count>>

\* Faulty variant: a backup is deleted without another look at it.
CleanAll(p) ==
  /\ At(p, "clean")
  /\ \/ \E s \in run[p].todo : Does(p, "erase", {s})
     \/ run[p].todo = {} /\ Goes(p, "discard")
  /\ UNCHANGED <<disk, lock, count>>

\* _cleanup_committed_uninstall looks at each backup and deletes only what it
\* recognises ...
Clean(p) ==
  /\ At(p, "clean")
  /\ \/ \E s \in run[p].todo :
          IF backup[s] = tx.version
            THEN Does(p, "erase", {s}) /\ UNCHANGED lock
            ELSE lock' = None /\ run' = [run EXCEPT ![p] = Idle]
     \/ run[p].todo = {} /\ Goes(p, "discard") /\ UNCHANGED lock
  /\ UNCHANGED <<disk, count>>

\* ... and _remove_uninstall_backup does so, without another look.
Erase(p) ==
  /\ At(p, "erase")
  /\ \E s \in run[p].todo :
       /\ backup' = [backup EXCEPT ![s] = None]
       /\ Does(p, "clean", Installed(backup) \ {s})
  /\ UNCHANGED <<root, manifest, tx, lock, count>>

\* Faulty variant: a recovery that was all there was to do keeps the lock.
DiscardLocked(p) ==
  /\ At(p, "discard")
  /\ tx' = NoTx /\ backup' = NoSkills
  /\ run' = [run EXCEPT ![p] = IF run[p].next = "idle" THEN Idle
                               ELSE [@ EXCEPT !.at = run[p].next]]
  /\ lock' = IF run[p].next = "idle" THEN None ELSE lock
  /\ UNCHANGED <<root, manifest, count>>

\* The transaction directory is removed, and the operation goes on.
Discard(p) ==
  /\ At(p, "discard")
  /\ tx' = NoTx /\ backup' = NoSkills
  /\ run' = [run EXCEPT ![p] = IF run[p].next = "idle" THEN Idle
                               ELSE [@ EXCEPT !.at = run[p].next]]
  /\ lock' = IF run[p].next = "begin" THEN lock ELSE None
  /\ UNCHANGED <<root, manifest, count>>

-----------------------------------------------------------------------------
(* A transaction *)

\* The inspection once the lock is held; a migration makes none.
MayBegin(r) ==
  LET state == Inspected(r.version)
  IN  CASE r.op = "install" -> state = "absent"
        [] r.op = "update"  -> state = "outdated"
        [] r.op = "migrate" -> TRUE
        [] OTHER -> /\ state # "modified" /\ manifest.version # None
                    /\ r.consumers \cap manifest.consumers # {}

Ends(p) ==
  /\ run' = [run EXCEPT ![p] = Idle] /\ lock' = None

Begin(p) ==
  /\ At(p, "begin")
  /\ IF MayBegin(run[p]) /\ txs < MaxTx
       THEN /\ run' = [run EXCEPT ![p].at = "stage", ![p].copy = manifest, ![p].next = "idle"]
            /\ txs' = txs + 1 /\ tx' = [NoTx EXCEPT !.id = txs + 1]
            /\ UNCHANGED lock
       ELSE Ends(p) /\ UNCHANGED <<tx, txs>>
  /\ UNCHANGED <<root, manifest, backup, crashes, fails, edits>>

\* prepare_stage; the manifest is read after it, by an update before it.
StageInstall(p) ==
  /\ At(p, "stage") /\ run[p].op # "uninstall"
  /\ tx' = [tx EXCEPT !.journal = "PREPARED", !.version = run[p].version]
  /\ run' = [run EXCEPT ![p].at = "move",
                        ![p].todo = SkillsOf[run[p].version] \cap Installed(root),
                        ![p].copy = IF run[p].op = "update" THEN @ ELSE manifest]
  /\ UNCHANGED <<root, manifest, backup, lock, count>>

\* _build_uninstall_plan looks at the skills again and journals the plan.
StageUninstall(p) ==
  LET copy == run[p].copy
      remaining == copy.consumers \ run[p].consumers
  IN
  /\ At(p, "stage") /\ run[p].op = "uninstall"
  /\ IF \E s \in SkillsOf[copy.version] : root[s] # copy.version
       THEN Ends(p) /\ tx' = NoTx
       ELSE /\ tx' = [tx EXCEPT !.journal = "UNINSTALL", !.version = copy.version,
                                !.gen = copy.gen, !.consumers = copy.consumers,
                                !.remaining = remaining]
            /\ Does(p, "move", IF remaining = {} THEN SkillsOf[copy.version] ELSE {})
            /\ UNCHANGED lock
  /\ UNCHANGED <<root, manifest, backup, count>>

\* stage_publish and _move_uninstall_skills, one skill at a time.
Move(p) ==
  /\ At(p, "move")
  /\ \/ \E s \in run[p].todo :
          /\ backup' = [backup EXCEPT ![s] = root[s]] /\ root' = [root EXCEPT ![s] = None]
          /\ Did(p, s)
     \/ /\ run[p].todo = {} /\ UNCHANGED <<root, backup>>
        /\ Goes(p, IF IsUninstall THEN "verify" ELSE "journal_publish")
  /\ UNCHANGED <<manifest, tx, lock, count>>

\* Every new skill counts as published before the first one is.
JournalPublish(p) ==
  /\ At(p, "journal_publish")
  /\ tx' = [tx EXCEPT !.journal = "PUBLISHING", !.published = SkillsOf[tx.version]]
  /\ Does(p, "publish", SkillsOf[tx.version])
  /\ UNCHANGED <<root, manifest, backup, lock, count>>

Publish(p) ==
  /\ At(p, "publish")
  /\ \/ \E s \in run[p].todo : root' = [root EXCEPT ![s] = tx.version] /\ Did(p, s)
     \/ run[p].todo = {} /\ Goes(p, "save") /\ UNCHANGED root
  /\ UNCHANGED <<manifest, tx, backup, lock, count>>

\* _verify_uninstall_backups: a change made before the move is noticed.
Verify(p) ==
  /\ At(p, "verify")
  /\ IF \E s \in TxSkills : backup[s] # tx.version
       THEN Undoes(p, "idle")
       ELSE Goes(p, "save") /\ UNCHANGED lock
  /\ UNCHANGED <<disk, count>>

\* The manifest a transaction commits.
Committed(p) ==
  [run[p].copy EXCEPT !.gen = @ + 1, !.tx = tx.id,
     !.version = IF IsUninstall /\ tx.remaining = {} THEN None ELSE tx.version,
     !.consumers = IF IsUninstall THEN tx.remaining
                   ELSE IF run[p].op = "update" THEN @ ELSE @ \cup run[p].consumers]

Save(p) ==
  /\ At(p, "save")
  /\ manifest' = Committed(p)
  /\ Goes(p, "journal")
  /\ UNCHANGED <<root, tx, backup, lock, count>>

JournalCommit(p) ==
  /\ At(p, "journal")
  /\ tx' = [tx EXCEPT !.journal = "COMMITTED"]
  /\ IF IsUninstall THEN Does(p, "clean", Installed(backup)) ELSE Goes(p, "discard")
  /\ UNCHANGED <<root, manifest, backup, lock, count>>

-----------------------------------------------------------------------------
(* Failures and the user *)

\* A file operation fails.  __exit__ rolls back, except once the manifest of an
\* installation is saved: then everything stays for the next operation.
Fail(p) ==
  /\ run[p].at \in {"stage", "move", "journal_publish", "publish", "verify", "save", "journal"}
  /\ fails < MaxFail /\ fails' = fails + 1
  /\ IF At(p, "journal") /\ ~IsUninstall THEN Ends(p) ELSE Undoes(p, "idle")
  /\ UNCHANGED <<disk, txs, crashes, edits>>

\* An uncommitted installation has started to put back what it had moved.
Restoring(p) ==
  /\ run[p].at \in {"restore", "discard"}
  /\ tx.published # {} /\ manifest.tx # tx.id

\* A process dies, or a rollback fails; the lock is free again.
Crash(p) ==
  /\ ~At(p, "idle") /\ (StopsInRestore \/ ~Restoring(p))
  /\ crashes < MaxCrash /\ crashes' = crashes + 1
  /\ run' = [run EXCEPT ![p] = Idle]
  /\ lock' = IF lock = p THEN None ELSE lock
  /\ UNCHANGED <<disk, txs, fails, edits>>

\* The user changes a skill, through its directory or a file still open.
UserEdits(s) ==
  /\ edits < MaxEdits /\ edits' = edits + 1
  /\ \/ root[s] \in Versions /\ root' = [root EXCEPT ![s] = Edited] /\ UNCHANGED backup
     \/ backup[s] \in Versions /\ backup' = [backup EXCEPT ![s] = Edited] /\ UNCHANGED root
  /\ UNCHANGED <<manifest, tx, lock, run, txs, crashes, fails>>

-----------------------------------------------------------------------------
Init ==
  /\ root = [s \in Skills |-> IF s \in Legacy THEN Link ELSE None]
  /\ manifest = NoManifest /\ lock = None /\ tx = NoTx /\ backup = NoSkills
  /\ run = [p \in Procs |-> Idle]
  /\ txs = 0 /\ crashes = 0 /\ fails = 0 /\ edits = 0

Locked(p) ==
  \/ Begin(p) \/ StageInstall(p) \/ StageUninstall(p) \/ Move(p) \/ JournalPublish(p)
  \/ Publish(p) \/ Verify(p) \/ Save(p) \/ JournalCommit(p)
  \/ Unpublish(p) \/ Restore(p) \/ Unremove(p) \/ Clean(p) \/ Erase(p) \/ Discard(p)

Works(p) ==
  \/ Route(p) \/ LoadConsumers(p) \/ StoreConsumers(p)
  \/ Enter(p) \/ Locked(p)

Next ==
  \/ \E p \in Procs : Start(p) \/ Works(p) \/ Fail(p) \/ Crash(p)
  \/ \E s \in Skills : UserEdits(s)

Spec == Init /\ [][Next]_vars

\* A process that runs goes on.
LiveSpec == Spec /\ \A p \in Procs : WF_vars(Works(p))

-----------------------------------------------------------------------------
TypeOK ==
  /\ root \in [Skills -> Content] /\ backup \in [Skills -> Content]
  /\ manifest \in Manifests
  /\ lock \in Procs \cup {None}
  /\ tx \in [id: 0..MaxTx, journal: Journals, version: Versions \cup {None},
             published: SUBSET Skills, gen: Nat, consumers: SUBSET Consumers,
             remaining: SUBSET Consumers]
  /\ run \in [Procs -> [at: Steps, op: Ops, version: Versions \cup {None},
                        consumers: SUBSET Consumers, todo: SUBSET Skills,
                        copy: Manifests, next: Steps]]
  /\ txs \in 0..MaxTx /\ crashes \in 0..MaxCrash /\ fails \in 0..MaxFail /\ edits \in 0..MaxEdits

Uncommitted == tx.id # 0 /\ manifest.tx # tx.id

\* What the skills are, a transaction under way included: until its manifest is
\* saved they are the old ones, wherever they lie.
Shown ==
  [s \in Skills |->
     IF ~Uncommitted THEN root[s]
     ELSE IF backup[s] # None THEN backup[s]
     ELSE IF s \in tx.published /\ ~\E p \in Procs : lock = p /\ Restoring(p) THEN None
     ELSE root[s]]

Bundle == INSTANCE AtomicBundle WITH skills <- Shown

\* The skills of a bundle change all at once, when the manifest is saved,
\* whatever failed or died before and after (SkillTransaction).
AtomicSpec == Bundle!Spec

Settled == lock = None /\ tx.id = 0

\* With no transaction pending, every skill the manifest records is in the
\* root, as it was published or as the user left it.
ManifestTrue ==
  Settled /\ manifest.version # None =>
    \A s \in SkillsOf[manifest.version] : root[s] \in {manifest.version, Edited}

\* As long as no transaction was ever committed, the links made by hand are
\* where the user put them.
LinksKept == Settled /\ manifest.tx = 0 => \A s \in Legacy : root[s] = Link

\* The user's edit of skill s is in the root, or in a backup that is not the one
\* a process has looked at and deletes next.
Erasing(s) == \E p \in Procs : At(p, "erase") /\ s \in run[p].todo
EditSafe(s) == root[s] = Edited \/ (backup[s] = Edited /\ ~Erasing(s))

\* An uninstallation keeps what the user changed, in the root and in its backup
\* directory, and never sets out to delete it (_verify_uninstall_backups,
\* _cleanup_committed_uninstall).  Lost is only what the user writes into a backup
\* between the look at it and its deletion.
UninstallKeepsEdits ==
  [][IsUninstall => \A s \in Skills : EditSafe(s) => EditSafe(s)']_vars

\* What a dead process left can be recovered by the next one: the recovery never
\* refuses for what the transaction itself did.
Recoverable ==
  tx.id # 0 /\ lock = None =>
    /\ Undo # "idle"
    /\ Undo = "unremove" => \A s \in TxSkills : (root[s] = None) # (backup[s] = None)

\* What lies on the disk between operations is what the manifest says, or can be made
\* so by the next operation.
DiskTrue == TypeOK /\ ManifestTrue /\ LinksKept /\ Recoverable

\* Every operation ends, and gives the lock back.
EveryOperationEnds ==
  \A p \in Procs : run[p].at # "idle" ~> run[p].at = "idle" /\ lock # p
=============================================================================
