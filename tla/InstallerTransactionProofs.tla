---------------------- MODULE InstallerTransactionProofs ----------------------
(***************************************************************************)
(* The safety of the installer's transaction for any number of skills,     *)
(* versions, transactions, failures, stops and edits.                      *)
(*                                                                         *)
(* The theorems assume what excludes the known divergences: consumers are  *)
(* not added by two processes side by side, a rollback of an installation  *)
(* is not stopped, and links made by hand can be moved back.               *)
(***************************************************************************)
EXTENDS InstallerTransaction, TLAPS

OneProcess  == \A p, q \in Procs : p = q
OneConsumer == \A c, d \in Consumers : c = d
Excluded == /\ OneProcess \/ OneConsumer
            /\ ~StopsInRestore
            /\ LinkResolves \/ Legacy = {}

Holding == {"begin", "stage", "move", "journal_publish", "publish", "verify", "save", "journal",
            "unpublish", "restore", "unremove", "clean", "erase", "discard"}
Working == {"stage", "move", "journal_publish", "publish", "verify", "save"}
Installing == {"PREPARED", "PUBLISHING"}

(* Who works on the transaction has the lock; what an operation was        *)
(* started for is known until it ends.                                     *)
LockHeld == \A p \in Procs : run[p].at \in Holding <=> lock = p
Asked ==
  \A p \in Procs :
    /\ run[p].at # "idle" => run[p].version \in Versions /\ run[p].consumers # {}
    /\ run[p].next \in {"idle", "begin", "route"}
    /\ run[p].at \in Working \cup {"journal"} => run[p].next = "idle"

(* The manifest a consumer is added to is the saved one.                   *)
Adding ==
  \A p \in Procs :
    /\ OneProcess /\ run[p].at \in {"load", "store"} => tx.journal = "none"
    /\ run[p].at = "store" => /\ OneProcess /\ run[p].copy = manifest
                              /\ manifest.version # None

Exclusive(s) == (root[s] = None) # (backup[s] = None)

(* What the directory of a transaction holds, whoever left it there.       *)
Pending ==
  /\ tx.id # 0 => tx.id = txs
  /\ manifest.tx <= txs
  /\ tx.id = 0 => tx.journal = "none"
  /\ tx.journal = "none" => /\ tx = [NoTx EXCEPT !.id = tx.id]
                            /\ tx.id # 0 => manifest.tx # tx.id
                            /\ Installed(backup) = {}
  /\ tx.journal # "none" => tx.version \in Versions /\ Installed(backup) \subseteq SkillsOf[tx.version]
  /\ tx.journal = "PREPARED" => tx.published = {} /\ manifest.tx # tx.id
  /\ tx.journal = "PUBLISHING" => tx.published = SkillsOf[tx.version]
  /\ tx.journal \in Installing => ~IsUninstall
  /\ tx.journal = "UNINSTALL" => IsUninstall
  /\ tx.journal = "COMMITTED" => manifest.tx = tx.id
Removal ==
  IsUninstall =>
    /\ tx.published = {}
    /\ tx.remaining # {} => Installed(backup) = {}
    /\ manifest.tx = tx.id => MatchesCommit
    /\ manifest.tx # tx.id => MatchesBefore /\ \A s \in TxSkills : Exclusive(s)

(* What the holder of the lock may rely on at each of its steps.           *)
Building(p) ==
  /\ run[p].at \in Working => /\ tx.id # 0 /\ manifest.tx # tx.id /\ run[p].copy = manifest
                              /\ run[p].op = "update" => manifest.version # None
  /\ run[p].at = "begin" => tx.id = 0
  /\ run[p].at = "stage" => tx.journal = "none" /\ (run[p].op = "uninstall" => manifest.version # None)
  /\ run[p].at = "move" => /\ tx.journal \in {"PREPARED", "UNINSTALL"}
                           /\ run[p].todo \subseteq TxSkills
                           /\ \A s \in run[p].todo : backup[s] = None
                           /\ \A s \in TxSkills \ run[p].todo : root[s] = None
  /\ run[p].at = "journal_publish" => /\ tx.journal = "PREPARED"
                                      /\ \A s \in TxSkills : root[s] = None
  /\ run[p].at = "publish" => /\ tx.journal = "PUBLISHING" /\ run[p].todo \subseteq TxSkills
                              /\ \A s \in TxSkills \ run[p].todo : root[s] \in {tx.version, Edited}
  /\ run[p].at = "verify" => tx.journal = "UNINSTALL" /\ \A s \in TxSkills : root[s] = None
  /\ run[p].at = "save" =>
       \/ tx.journal = "PUBLISHING" /\ \A s \in TxSkills : root[s] \in {tx.version, Edited}
       \/ tx.journal = "UNINSTALL" /\ \A s \in TxSkills : root[s] = None
  /\ run[p].at = "journal" => tx.journal \in {"PUBLISHING", "UNINSTALL"} /\ manifest.tx = tx.id
Undoing(p) ==
  /\ run[p].at \in {"unpublish", "restore"} => tx.journal \in Installing /\ manifest.tx # tx.id
  /\ run[p].at = "unpublish" => /\ run[p].todo \subseteq tx.published
                                /\ \A s \in tx.published \ run[p].todo : root[s] = None
  /\ run[p].at = "restore" => run[p].todo = Installed(backup)
  /\ run[p].at = "unremove" => /\ tx.journal = "UNINSTALL" /\ manifest.tx # tx.id
                               /\ run[p].todo \subseteq TxSkills
                               /\ \A s \in TxSkills \ run[p].todo : backup[s] = None
  /\ run[p].at = "clean" => /\ tx.journal \in {"UNINSTALL", "COMMITTED"} /\ IsUninstall
                            /\ manifest.tx = tx.id /\ Installed(backup) \subseteq run[p].todo
  /\ run[p].at = "erase" => /\ tx.journal \in {"UNINSTALL", "COMMITTED"} /\ IsUninstall
                            /\ manifest.tx = tx.id
  /\ run[p].at = "discard" => /\ tx.id # 0
                              /\ IsUninstall \/ manifest.tx # tx.id => Installed(backup) = {}
Held == \A p \in Procs : Building(p) /\ Undoing(p)

(* The skills that are shown are those of the manifest; before the first   *)
(* commit the links are shown too.                                         *)
ShownTrue ==
  /\ manifest.version # None =>
       \A s \in SkillsOf[manifest.version] : Shown[s] \in {manifest.version, Edited}
  /\ manifest.tx = 0 => \A s \in Legacy : Shown[s] = Link
LinksFromUser == \A s \in Skills : Link \in {root[s], backup[s]} => Legacy # {}

Control == LockHeld /\ Asked /\ Adding
Disk    == Pending /\ Removal
IInv == TypeOK /\ Control /\ Disk /\ Held /\ ShownTrue /\ LinksFromUser

-----------------------------------------------------------------------------
(* Types.                                                                  *)

Run == [at: Steps, op: Ops, version: Versions \cup {None}, consumers: SUBSET Consumers,
        todo: SUBSET Skills, copy: Manifests, next: Steps]
Transaction == [id: 0..MaxTx, journal: Journals, version: Versions \cup {None},
                published: SUBSET Skills, gen: Nat, consumers: SUBSET Consumers,
                remaining: SUBSET Consumers]

(* A manifest has a version exactly if it has a consumer.                  *)
LEMMA ManifestIs ==
  ASSUME NEW m
  PROVE  m \in Manifests <=>
           /\ m \in [version: Versions \cup {None}, consumers: SUBSET Consumers,
                     gen: Nat \ {0}, tx: Nat]
           /\ m.version = None <=> m.consumers = {}
BY DEF Manifests

LEMMA NullIs == /\ None \notin Versions /\ None \notin Procs /\ None # Edited /\ None # Link
                /\ Edited \notin Versions /\ Link \notin Versions /\ Edited # Link
BY InstallerAssumption

LEMMA Nothing == /\ NoManifest \in Manifests /\ NoTx \in Transaction /\ NoSkills \in [Skills -> Content]
                 /\ Idle \in Run
<1>1. NoManifest \in Manifests
  BY ManifestIs DEF NoManifest
<1>2. NoTx \in Transaction
  BY InstallerAssumption DEF NoTx, Transaction, Journals
<1>3. NoSkills \in [Skills -> Content]
  BY DEF NoSkills, Content
<1>4. Idle \in Run
  BY <1>1 DEF Idle, Run, Steps, Ops
<1>. QED BY <1>1, <1>2, <1>3, <1>4

LEMMA Typed ==
  TypeOK <=>
    /\ root \in [Skills -> Content] /\ backup \in [Skills -> Content]
    /\ manifest \in Manifests /\ lock \in Procs \cup {None} /\ tx \in Transaction
    /\ run \in [Procs -> Run]
    /\ txs \in 0..MaxTx /\ crashes \in 0..MaxCrash /\ fails \in 0..MaxFail /\ edits \in 0..MaxEdits
BY DEF TypeOK, Transaction, Run

(* What an operation is told to do next keeps the type of its state.       *)
LEMMA RunTyped ==
  ASSUME NEW p \in Procs, run \in [Procs -> Run]
  PROVE  /\ \A r \in Run : [run EXCEPT ![p] = r] \in [Procs -> Run]
         /\ \A s \in Steps : [run EXCEPT ![p].at = s] \in [Procs -> Run]
         /\ \A s \in Steps, t \in SUBSET Skills :
              [run EXCEPT ![p].at = s, ![p].todo = t] \in [Procs -> Run]
         /\ \A s : [run EXCEPT ![p].todo = @ \ {s}] \in [Procs -> Run]
BY DEF Run

LEMMA GoesTyped ==
  ASSUME NEW p \in Procs, run \in [Procs -> Run], NEW s \in Steps, Goes(p, s)
  PROVE  run' \in [Procs -> Run]
BY RunTyped DEF Goes
LEMMA DoesTyped ==
  ASSUME NEW p \in Procs, run \in [Procs -> Run], NEW s \in Steps, NEW t \in SUBSET Skills,
         Does(p, s, t)
  PROVE  run' \in [Procs -> Run]
BY RunTyped DEF Does
LEMMA DidTyped ==
  ASSUME NEW p \in Procs, run \in [Procs -> Run], NEW s, Did(p, s)
  PROVE  run' \in [Procs -> Run]
BY RunTyped DEF Did

LEMMA RunUpdated ==
  \A r \in Run, u \in Steps, t \in SUBSET Skills, m \in Steps :
    [r EXCEPT !.at = u, !.todo = t, !.next = m] \in Run
BY DEF Run

(* What the recovery does first, and to which skills.                      *)
LEMMA UndoTyped ==
  ASSUME TypeOK, Disk
  PROVE  /\ TxSkills \in SUBSET Skills
         /\ Undo \in {"discard", "unpublish", "clean", "idle", "unremove"}
         /\ UndoTodo \in SUBSET Skills
<1>1. Undo \in {"discard", "unpublish", "clean", "idle", "unremove"}
  BY DEF Undo
<1>2. TxSkills \in SUBSET Skills
  <2>1. tx.version # None => SkillsOf[tx.version] \in SUBSET Skills
    BY Typed, InstallerAssumption DEF Transaction
  <2>2. tx.journal \in {"PREPARED", "PUBLISHING"} => tx.version # None
    BY NullIs DEF Disk, Pending
  <2>. QED BY <2>1, <2>2 DEF TxSkills
<1>3. tx.published \in SUBSET Skills /\ Installed(backup) \in SUBSET Skills
  BY Typed DEF Transaction, Installed
<1>. QED BY <1>1, <1>2, <1>3 DEF UndoTodo

LEMMA UndoesTyped ==
  ASSUME TypeOK, Disk, NEW p \in Procs, NEW n \in Steps, Undoes(p, n)
  PROVE  run' \in [Procs -> Run] /\ lock' \in Procs \cup {None}
<1>1. run[p] \in Run /\ Idle \in Run /\ run \in [Procs -> Run]
  BY Typed, Nothing
<1>2. Undo # "idle" => [run[p] EXCEPT !.at = Undo, !.todo = UndoTodo, !.next = n] \in Run
  <2>1. Undo \in Steps /\ UndoTodo \in SUBSET Skills
    BY UndoTyped DEF Steps
  <2>. QED BY <1>1, <2>1, RunUpdated
<1>3. \A r \in Run : [run EXCEPT ![p] = r] \in [Procs -> Run]
  BY <1>1, RunTyped
<1>4. PICK r \in Run : run' = [run EXCEPT ![p] = r]
  <2>1. run' = [run EXCEPT ![p] = IF Undo = "idle" THEN Idle
                                  ELSE [run[p] EXCEPT !.at = Undo, !.todo = UndoTodo, !.next = n]]
    BY <1>1 DEF Undoes
  <2>. QED BY <1>1, <1>2, <2>1
<1>5. lock' \in Procs \cup {None}
  BY Typed DEF Undoes
<1>. QED BY <1>1, <1>3, <1>4, <1>5

(* What stays of an operation when its process goes on.                    *)
Same(p) ==
  /\ run'[p].op = run[p].op /\ run'[p].version = run[p].version
  /\ run'[p].consumers = run[p].consumers /\ run'[p].copy = run[p].copy

LEMMA GoesIs ==
  ASSUME NEW p \in Procs, run \in [Procs -> Run], NEW s, Goes(p, s)
  PROVE  /\ Same(p) /\ run'[p].next = run[p].next
         /\ run'[p].at = s /\ run'[p].todo = run[p].todo
BY DEF Goes, Same, Run
LEMMA DoesIs ==
  ASSUME NEW p \in Procs, run \in [Procs -> Run], NEW s, NEW t, Does(p, s, t)
  PROVE  /\ Same(p) /\ run'[p].next = run[p].next
         /\ run'[p].at = s /\ run'[p].todo = t
BY DEF Does, Same, Run
LEMMA DidIs ==
  ASSUME NEW p \in Procs, run \in [Procs -> Run], NEW s, Did(p, s)
  PROVE  /\ Same(p) /\ run'[p].next = run[p].next
         /\ run'[p].at = run[p].at /\ run'[p].todo = run[p].todo \ {s}
BY DEF Did, Same, Run
LEMMA IdleIs ==
  ASSUME NEW p \in Procs, run \in [Procs -> Run], run' = [run EXCEPT ![p] = Idle]
  PROVE  run'[p].at = "idle" /\ run'[p].next = "idle"
BY DEF Idle
LEMMA UndoesIs ==
  ASSUME NEW p \in Procs, run \in [Procs -> Run], NEW n, Undoes(p, n)
  PROVE  \/ /\ run'[p].at = "idle" /\ run'[p].next = "idle" /\ lock' = None /\ Undo = "idle"
         \/ /\ Same(p) /\ run'[p].next = n /\ run'[p].at = Undo /\ run'[p].todo = UndoTodo
            /\ lock' = lock /\ Undo # "idle"
<1>1. CASE Undo = "idle"
  BY <1>1, IdleIs DEF Undoes
<1>2. CASE Undo # "idle"
  <2>1. run' = [run EXCEPT ![p] = [run[p] EXCEPT !.at = Undo, !.todo = UndoTodo, !.next = n]]
    BY <1>2 DEF Undoes
  <2>2. run[p] \in Run
    OBVIOUS
  <2>3. \A r \in Run : \A a, t : LET q == [r EXCEPT !.at = a, !.todo = t, !.next = n]
                                 IN  /\ q.at = a /\ q.todo = t /\ q.next = n /\ q.op = r.op
                                     /\ q.version = r.version /\ q.consumers = r.consumers
                                     /\ q.copy = r.copy
    BY DEF Run
  <2>. QED BY <1>2, <2>1, <2>2, <2>3 DEF Undoes, Same
<1>. QED BY <1>1, <1>2

(* What each step that is not one of these does to its process.            *)
LEMMA StartIs ==
  ASSUME NEW p \in Procs, run \in [Procs -> Run], Start(p)
  PROVE  /\ run'[p].at = "route" /\ run'[p].next = "idle"
         /\ run'[p].version \in Versions /\ run'[p].consumers # {}
<1>1. PICK op \in Ops \ {"migrate"}, v \in Versions, c \in (SUBSET Consumers) \ {{}} :
        run' = [run EXCEPT ![p] = [Idle EXCEPT !.at = "route", !.op = op, !.version = v,
                                               !.consumers = c]]
  BY DEF Start
<1>2. run'[p] = [Idle EXCEPT !.at = "route", !.op = op, !.version = v, !.consumers = c]
  BY <1>1
<1>3. Idle \in Run /\ Idle.next = "idle"
  BY Nothing DEF Idle
<1>4. ASSUME NEW r \in Run, NEW q,
             q = [r EXCEPT !.at = "route", !.op = op, !.version = v, !.consumers = c]
      PROVE  q.at = "route" /\ q.next = r.next /\ q.version = v /\ q.consumers = c
  BY <1>4 DEF Run
<1>5. /\ run'[p].at = "route" /\ run'[p].next = Idle.next
      /\ run'[p].version = v /\ run'[p].consumers = c
  BY <1>2, <1>3, <1>4
<1>6. v \in Versions /\ c # {}
  OBVIOUS
<1>7. run'[p].version \in Versions /\ run'[p].consumers # {}
  BY <1>5, <1>6
<1>8. run'[p].at = "route" /\ run'[p].next = "idle"
  BY <1>3, <1>5
<1>. QED BY <1>7, <1>8
LEMMA RouteIs ==
  ASSUME NEW p \in Procs, run \in [Procs -> Run], Route(p)
  PROVE  \/ run'[p].at = "idle" /\ run'[p].next = "idle"
         \/ /\ run'[p].version = run[p].version /\ run'[p].consumers = run[p].consumers
            /\ \/ run'[p].at = "enter" /\ run'[p].next \in {"begin", "route"}
               \/ /\ run'[p].at = "load" /\ run'[p].next = run[p].next
                  /\ tx.journal = "none"
<1>1. run[p] \in Run
  OBVIOUS
<1>2. run' = [run EXCEPT ![p] =
         LET r == run[p]
             state == Inspected(r.version)
         IN
         IF r.op = "uninstall" \/ <<r.op, state>> \in {<<"install", "absent">>,
                                                       <<"update", "outdated">>}
           THEN [r EXCEPT !.at = "enter", !.next = "begin"]
         ELSE IF state = "recovery" THEN [r EXCEPT !.at = "enter", !.next = "route"]
         ELSE IF <<r.op, state>> = <<"install", "legacy">>
           THEN [r EXCEPT !.at = "enter", !.next = "begin", !.op = "migrate"]
         ELSE IF <<r.op, state>> = <<"install", "current">> THEN [r EXCEPT !.at = "load"]
         ELSE Idle]
  BY DEF Route
<1>3. \/ run'[p] = [run[p] EXCEPT !.at = "enter", !.next = "begin"]
      \/ run'[p] = [run[p] EXCEPT !.at = "enter", !.next = "route"]
      \/ run'[p] = [run[p] EXCEPT !.at = "enter", !.next = "begin", !.op = "migrate"]
      \/ run'[p] = [run[p] EXCEPT !.at = "load"] /\ Inspected(run[p].version) = "current"
      \/ run'[p] = Idle
  BY <1>2
<1>4. Inspected(run[p].version) = "current" => tx.journal = "none"
  BY DEF Inspected
<1>5. Idle.at = "idle" /\ Idle.next = "idle"
  BY DEF Idle
<1>6. ASSUME NEW n, \/ run'[p] = [run[p] EXCEPT !.at = "enter", !.next = n]
                   \/ run'[p] = [run[p] EXCEPT !.at = "enter", !.next = n, !.op = "migrate"]
      PROVE  /\ run'[p].at = "enter" /\ run'[p].next = n
             /\ run'[p].version = run[p].version /\ run'[p].consumers = run[p].consumers
  BY <1>1, <1>6 DEF Run
<1>7. ASSUME run'[p] = [run[p] EXCEPT !.at = "load"]
      PROVE  /\ run'[p].at = "load" /\ run'[p].next = run[p].next
             /\ run'[p].version = run[p].version /\ run'[p].consumers = run[p].consumers
  BY <1>1, <1>7 DEF Run
<1>. QED BY <1>3, <1>4, <1>5, <1>6, <1>7
LEMMA LoadIs ==
  ASSUME NEW p \in Procs, run \in [Procs -> Run], LoadConsumers(p)
  PROVE  \/ run'[p].at = "idle" /\ run'[p].next = "idle"
         \/ /\ run'[p].at = "store" /\ run'[p].next = run[p].next /\ run'[p].copy = manifest
            /\ run'[p].version = run[p].version /\ run'[p].consumers = run[p].consumers
            /\ manifest.version # None /\ ~(run[p].consumers \subseteq manifest.consumers)
BY IdleIs DEF LoadConsumers, Run
LEMMA EnterIs ==
  ASSUME NEW p \in Procs, run \in [Procs -> Run], Enter(p)
  PROVE  \/ run'[p].at = "idle" /\ run'[p].next = "idle" /\ lock' = lock
         \/ /\ Same(p) /\ run'[p].next = run[p].next /\ lock = None
            /\ \/ /\ run'[p].at = Undo /\ run'[p].todo = UndoTodo /\ tx.id # 0 /\ Undo # "idle"
                  /\ lock' = p
               \/ run'[p].at = "begin" /\ tx.id = 0 /\ lock' = p
               \/ run'[p].at = "route" /\ lock' = None
<1>1. CASE lock # None \/ (tx.id # 0 /\ Undo = "idle")
  BY <1>1, IdleIs DEF Enter
<1>2. CASE lock = None /\ tx.id # 0 /\ Undo # "idle"
  <2>1. lock' = p /\ run' = [run EXCEPT ![p].at = Undo, ![p].todo = UndoTodo]
    BY <1>2 DEF Enter
  <2>. QED BY <1>2, <2>1, DoesIs DEF Does
<1>3. CASE lock = None /\ tx.id = 0
  BY <1>3, GoesIs DEF Enter
<1>. QED BY <1>1, <1>2, <1>3
LEMMA BeginIs ==
  ASSUME NEW p \in Procs, run \in [Procs -> Run], Begin(p)
  PROVE  \/ run'[p].at = "idle" /\ run'[p].next = "idle" /\ lock' = None /\ UNCHANGED <<tx, txs>>
         \/ /\ run'[p].at = "stage" /\ run'[p].next = "idle" /\ run'[p].copy = manifest /\ lock' = lock
            /\ run'[p].version = run[p].version /\ run'[p].consumers = run[p].consumers
            /\ run'[p].op = run[p].op /\ MayBegin(run[p])
            /\ txs < MaxTx /\ txs' = txs + 1 /\ tx' = [NoTx EXCEPT !.id = txs + 1]
<1>1. CASE MayBegin(run[p]) /\ txs < MaxTx
  <2>1. run' = [run EXCEPT ![p].at = "stage", ![p].copy = manifest, ![p].next = "idle"]
    BY <1>1 DEF Begin
  <2>. QED BY <1>1, <2>1 DEF Begin, Run
<1>2. CASE ~(MayBegin(run[p]) /\ txs < MaxTx)
  BY <1>2, IdleIs DEF Begin, Ends
<1>. QED BY <1>1, <1>2
LEMMA StageInstallIs ==
  ASSUME NEW p \in Procs, run \in [Procs -> Run], StageInstall(p)
  PROVE  /\ run'[p].at = "move" /\ run'[p].next = run[p].next /\ run'[p].op = run[p].op
         /\ run'[p].todo = SkillsOf[run[p].version] \cap Installed(root)
         /\ run'[p].copy = IF run[p].op = "update" THEN run[p].copy ELSE manifest
         /\ run'[p].version = run[p].version /\ run'[p].consumers = run[p].consumers
BY DEF StageInstall, Run
LEMMA DiscardIs ==
  ASSUME NEW p \in Procs, run \in [Procs -> Run], Discard(p)
  PROVE  \/ run'[p].at = "idle" /\ run'[p].next = "idle"
         \/ run[p].next # "idle" /\ Same(p) /\ run'[p].at = run[p].next /\ run'[p].next = run[p].next
<1>1. run' = [run EXCEPT ![p] = IF run[p].next = "idle" THEN Idle ELSE [run[p] EXCEPT !.at = run[p].next]]
  BY DEF Discard
<1>. QED BY <1>1 DEF Idle, Same, Run

(* Who holds the lock is the only one at a locked step.                    *)
LEMMA Alone ==
  ASSUME IInv, NEW p \in Procs, run[p].at \in Holding
  PROVE  lock = p /\ \A q \in Procs \ {p} : run[q].at \notin Holding
BY DEF IInv, Control, LockHeld

(* A process changes its own state only.                                   *)
LEMMA OwnState ==
  ASSUME TypeOK, NEW p \in Procs, Start(p) \/ Works(p) \/ Fail(p) \/ Crash(p)
  PROVE  \A q \in Procs \ {p} : run'[q] = run[q]
<1>. USE Typed
<1>1. CASE Start(p)
  BY <1>1 DEF Start
<1>2. CASE Route(p) \/ LoadConsumers(p) \/ StoreConsumers(p)
  BY <1>2 DEF Route, LoadConsumers, StoreConsumers
<1>3. CASE Enter(p)
  BY <1>3 DEF Enter, Goes
<1>4. CASE Begin(p) \/ StageInstall(p) \/ StageUninstall(p)
  BY <1>4 DEF Begin, StageInstall, StageUninstall, Ends, Does
<1>5. CASE Move(p) \/ JournalPublish(p) \/ Publish(p) \/ Verify(p)
  BY <1>5 DEF Move, JournalPublish, Publish, Verify, Did, Does, Goes, Undoes
<1>6. CASE Save(p) \/ JournalCommit(p) \/ Unpublish(p) \/ Restore(p)
  BY <1>6 DEF Save, JournalCommit, Unpublish, Restore, Did, Does, Goes
<1>7. CASE Unremove(p) \/ Clean(p) \/ Erase(p) \/ Discard(p)
  BY <1>7 DEF Unremove, Clean, Erase, Discard, Did, Does, Goes
<1>8. CASE Fail(p) \/ Crash(p)
  BY <1>8 DEF Fail, Crash, Ends, Undoes
<1>. QED BY <1>1, <1>2, <1>3, <1>4, <1>5, <1>6, <1>7, <1>8 DEF Works, Locked

(* The manifest a transaction saves.                                       *)
LEMMA CommittedTyped ==
  ASSUME IInv, NEW p \in Procs, run[p].at = "save"
  PROVE  /\ Committed(p) \in Manifests
         /\ Committed(p).tx = tx.id /\ Committed(p).gen = manifest.gen + 1
         /\ ~IsUninstall => Committed(p).version = tx.version
         /\ IsUninstall => /\ Committed(p).consumers = tx.remaining
                           /\ Committed(p).version = IF tx.remaining = {} THEN None ELSE tx.version
<1>1. manifest \in Manifests /\ run[p] \in Run /\ tx \in Transaction
  BY Typed DEF IInv
<1>2. /\ run[p].copy = manifest
      /\ run[p].op = "update" => manifest.version # None
      /\ run[p].consumers # {}
      /\ tx.version \in Versions
  BY DEF IInv, Held, Building, Working, Control, Asked, Disk, Pending
<1>. DEFINE m == Committed(p)
<1>3. /\ m = [manifest EXCEPT !.gen = manifest.gen + 1, !.tx = tx.id,
                !.version = IF IsUninstall /\ tx.remaining = {} THEN None ELSE tx.version,
                !.consumers = IF IsUninstall THEN tx.remaining
                              ELSE IF run[p].op = "update" THEN manifest.consumers
                              ELSE manifest.consumers \cup run[p].consumers]
  BY <1>2 DEF Committed
<1>4. m \in [version: Versions \cup {None}, consumers: SUBSET Consumers, gen: Nat \ {0}, tx: Nat]
  <2>1. \A x \in [version: Versions \cup {None}, consumers: SUBSET Consumers, gen: Nat \ {0}, tx: Nat],
          g \in Nat \ {0}, t \in Nat, v \in Versions \cup {None}, c \in SUBSET Consumers :
          [x EXCEPT !.gen = g, !.tx = t, !.version = v, !.consumers = c]
            \in [version: Versions \cup {None}, consumers: SUBSET Consumers, gen: Nat \ {0}, tx: Nat]
    OBVIOUS
  <2>2. manifest \in [version: Versions \cup {None}, consumers: SUBSET Consumers,
                      gen: Nat \ {0}, tx: Nat]
    BY <1>1, ManifestIs
  <2>3. tx.id \in Nat /\ tx.remaining \in SUBSET Consumers /\ run[p].consumers \in SUBSET Consumers
    BY <1>1, InstallerAssumption DEF Transaction, Run
  <2>4. manifest.gen + 1 \in Nat \ {0} /\ manifest.consumers \in SUBSET Consumers
    BY <2>2
  <2>5. /\ (IF IsUninstall /\ tx.remaining = {} THEN None ELSE tx.version) \in Versions \cup {None}
        /\ (IF IsUninstall THEN tx.remaining
            ELSE IF run[p].op = "update" THEN manifest.consumers
            ELSE manifest.consumers \cup run[p].consumers) \in SUBSET Consumers
    BY <1>2, <2>3, <2>4
  <2>. HIDE DEF m
  <2>. QED BY <1>3, <2>1, <2>2, <2>3, <2>4, <2>5
<1>5. /\ m.tx = tx.id /\ m.gen = manifest.gen + 1
      /\ m.version = IF IsUninstall /\ tx.remaining = {} THEN None ELSE tx.version
      /\ m.consumers = IF IsUninstall THEN tx.remaining
                       ELSE IF run[p].op = "update" THEN manifest.consumers
                       ELSE manifest.consumers \cup run[p].consumers
  BY <1>1, <1>3, ManifestIs
<1>6. m.version = None <=> m.consumers = {}
  <2>1. (manifest.version = None <=> manifest.consumers = {}) /\ tx.version # None
    BY <1>1, <1>2, NullIs, ManifestIs
  <2>2. CASE IsUninstall
    BY <1>5, <2>1, <2>2
  <2>3. CASE ~IsUninstall
    BY <1>2, <1>5, <2>1, <2>3
  <2>. QED BY <2>2, <2>3
<1>. QED BY <1>4, <1>5, <1>6, ManifestIs

(* Every step keeps the types.                                             *)
LEMMA TypeStep ==
  ASSUME IInv, Next
  PROVE  TypeOK'
<1>1. /\ root \in [Skills -> Content] /\ backup \in [Skills -> Content]
      /\ manifest \in Manifests /\ lock \in Procs \cup {None} /\ tx \in Transaction
      /\ run \in [Procs -> Run]
      /\ txs \in 0..MaxTx /\ crashes \in 0..MaxCrash /\ fails \in 0..MaxFail /\ edits \in 0..MaxEdits
  BY Typed DEF IInv
<1>. SUFFICES /\ (root \in [Skills -> Content])' /\ (backup \in [Skills -> Content])'
              /\ (manifest \in Manifests)' /\ (lock \in Procs \cup {None})' /\ (tx \in Transaction)'
              /\ (run \in [Procs -> Run])'
              /\ (txs \in 0..MaxTx)' /\ (crashes \in 0..MaxCrash)' /\ (fails \in 0..MaxFail)'
              /\ (edits \in 0..MaxEdits)'
  BY DEF TypeOK, Transaction, Run
<1>2. TypeOK /\ Disk
  BY DEF IInv
<1>3. ASSUME NEW s \in Skills, UserEdits(s)
      PROVE  /\ (root \in [Skills -> Content])' /\ (backup \in [Skills -> Content])'
             /\ (edits \in 0..MaxEdits)' /\ UNCHANGED <<manifest, tx, lock, run, txs, crashes, fails>>
  BY <1>1, <1>3, InstallerAssumption DEF UserEdits, Content
<1>4. ASSUME NEW p \in Procs, Start(p) \/ Works(p) \/ Fail(p) \/ Crash(p)
      PROVE  (run \in [Procs -> Run])' /\ (lock \in Procs \cup {None})'
  <2>. USE <1>1
  <2>0. run[p] \in Run /\ Idle \in Run
    BY Nothing
  <2>1. CASE Start(p)
    <3>1. PICK op \in Ops, v \in Versions, c \in SUBSET Consumers :
            run' = [run EXCEPT ![p] = [Idle EXCEPT !.at = "route", !.op = op, !.version = v,
                                                   !.consumers = c]]
      BY <2>1 DEF Start
    <3>2. [Idle EXCEPT !.at = "route", !.op = op, !.version = v, !.consumers = c] \in Run
      BY <2>0 DEF Run, Steps
    <3>. QED BY <2>1, <3>1, <3>2, RunTyped DEF Start
  <2>2. CASE Route(p)
    <3>1. \A r \in Run, s \in Steps, n \in Steps, o \in Ops :
            /\ [r EXCEPT !.at = s, !.next = n] \in Run
            /\ [r EXCEPT !.at = s, !.next = n, !.op = o] \in Run
            /\ [r EXCEPT !.at = s] \in Run
      BY DEF Run
    <3>2. \E r \in Run : run' = [run EXCEPT ![p] = r]
      BY <2>0, <2>2, <3>1 DEF Route, Steps, Ops
    <3>. QED BY <2>2, <3>2, RunTyped DEF Route
  <2>3. CASE LoadConsumers(p) \/ StoreConsumers(p)
    <3>1. [run[p] EXCEPT !.at = "store", !.copy = manifest] \in Run
      BY <2>0 DEF Run, Steps
    <3>. QED BY <2>0, <2>3, <3>1, RunTyped DEF LoadConsumers, StoreConsumers
  <2>4. CASE Enter(p)
    <3>1. Undo \in Steps /\ UndoTodo \in SUBSET Skills
      BY <1>2, UndoTyped DEF Steps
    <3>2. [run EXCEPT ![p].at = Undo, ![p].todo = UndoTodo] \in [Procs -> Run]
      BY <3>1, RunTyped
    <3>3. run' \in [Procs -> Run]
      <4>1. \/ run' = [run EXCEPT ![p] = Idle]
            \/ run' = [run EXCEPT ![p].at = Undo, ![p].todo = UndoTodo]
            \/ Goes(p, "begin") \/ Goes(p, "route")
        BY <2>4 DEF Enter
      <4>2. "begin" \in Steps /\ "route" \in Steps
        BY DEF Steps
      <4>. QED BY <2>0, <3>2, <4>1, <4>2, RunTyped, GoesTyped
    <3>. QED BY <2>4, <3>3 DEF Enter
  <2>5. CASE Begin(p)
    <3>1. [run[p] EXCEPT !.at = "stage", !.copy = manifest, !.next = "idle"] \in Run
      BY <2>0 DEF Run, Steps
    <3>2. [run EXCEPT ![p].at = "stage", ![p].copy = manifest, ![p].next = "idle"]
            = [run EXCEPT ![p] = [run[p] EXCEPT !.at = "stage", !.copy = manifest, !.next = "idle"]]
      OBVIOUS
    <3>3. run' \in [Procs -> Run]
      BY <2>0, <2>5, <3>1, <3>2, RunTyped DEF Begin, Ends
    <3>. QED BY <2>5, <3>3 DEF Begin, Ends
  <2>6. CASE StageInstall(p)
    <3>1. run[p].version \in Versions
      BY <2>6 DEF StageInstall, IInv, Control, Asked, At
    <3>2. SkillsOf[run[p].version] \in SUBSET Skills
      BY <3>1, InstallerAssumption
    <3>3. \A r \in Run, t \in SUBSET Skills, m \in Manifests :
            [r EXCEPT !.at = "move", !.todo = t, !.copy = m] \in Run
      BY DEF Run, Steps
    <3>4. run[p].copy \in Manifests
      BY <2>0 DEF Run
    <3>5. PICK m \in Manifests : run' = [run EXCEPT ![p] =
            [run[p] EXCEPT !.at = "move", !.todo = SkillsOf[run[p].version] \cap Installed(root), !.copy = m]]
      BY <2>0, <2>6, <3>4 DEF StageInstall
    <3>6. SkillsOf[run[p].version] \cap Installed(root) \in SUBSET Skills
      BY <3>2
    <3>7. [run[p] EXCEPT !.at = "move", !.todo = SkillsOf[run[p].version] \cap Installed(root), !.copy = m] \in Run
      BY <2>0, <3>3, <3>6
    <3>8. run' \in [Procs -> Run]
      BY <3>5, <3>7, RunTyped
    <3>. QED BY <2>6, <3>8 DEF StageInstall
  <2>7. CASE StageUninstall(p)
    <3>1. run[p].copy = manifest /\ manifest.version \in Versions
      BY <2>7, ManifestIs DEF StageUninstall, IInv, Held, Building, Working, At
    <3>2. SkillsOf[manifest.version] \in SUBSET Skills
      BY <3>1, InstallerAssumption
    <3>3. run' \in [Procs -> Run]
      <4>1. \/ run' = [run EXCEPT ![p] = Idle]
            \/ Does(p, "move", SkillsOf[manifest.version]) \/ Does(p, "move", {})
        BY <2>7, <3>1 DEF StageUninstall, Ends
      <4>2. "move" \in Steps /\ {} \in SUBSET Skills
        BY DEF Steps
      <4>. QED BY <2>0, <3>2, <4>1, <4>2, RunTyped, DoesTyped
    <3>. QED BY <2>7, <3>3 DEF StageUninstall, Ends
  <2>8. CASE Move(p) \/ Publish(p) \/ Save(p)
    <3>1. run' \in [Procs -> Run]
      BY <2>8, GoesTyped, DoesTyped, DidTyped DEF Move, Publish, Save, Steps
    <3>. QED BY <2>8, <3>1 DEF Move, Publish, Save
  <2>9. CASE Unpublish(p) \/ Restore(p)
    <3>1. {s \in Installed(backup) : LinkResolves \/ backup[s] # Link} \in SUBSET Skills
      BY DEF Installed
    <3>2. run' \in [Procs -> Run]
      BY <2>9, <3>1, GoesTyped, DoesTyped, DidTyped DEF Unpublish, Restore, Steps
    <3>. QED BY <2>9, <3>2 DEF Unpublish, Restore
  <2>10. CASE JournalPublish(p) \/ JournalCommit(p)
    <3>1. JournalPublish(p) => SkillsOf[tx.version] \in SUBSET Skills
      <4>1. JournalPublish(p) => tx.version \in Versions
        BY DEF JournalPublish, At, Disk, Pending, IInv, Held, Building
      <4>. QED BY <4>1, InstallerAssumption
    <3>2. Installed(backup) \in SUBSET Skills
      BY DEF Installed
    <3>3. run' \in [Procs -> Run]
      BY <2>10, <3>1, <3>2, GoesTyped, DoesTyped, DidTyped DEF JournalPublish, JournalCommit, Steps
    <3>. QED BY <2>10, <3>3 DEF JournalPublish, JournalCommit
  <2>11. CASE Verify(p)
    BY <1>2, <2>11, UndoesTyped, GoesTyped, DoesTyped, DidTyped DEF Verify, Steps
  <2>12. CASE Fail(p)
    <3>1. Ends(p) \/ Undoes(p, "idle")
      BY <2>12 DEF Fail
    <3>2. "idle" \in Steps
      BY DEF Steps
    <3>3. CASE Ends(p)
      BY <2>0, <3>3, RunTyped DEF Ends
    <3>. QED BY <1>2, <3>1, <3>2, <3>3, UndoesTyped
  <2>13. CASE Unremove(p) \/ Clean(p) \/ Erase(p)
    <3>1. run' \in [Procs -> Run]
      <4>1. \/ run' = [run EXCEPT ![p] = Idle]
            \/ \E s : Did(p, s)
            \/ \E s \in run[p].todo : Does(p, "erase", {s}) \/ Does(p, "clean", Installed(backup) \ {s})
            \/ Goes(p, "discard")
        BY <2>13 DEF Unremove, Clean, Erase
      <4>2. {"discard", "erase", "clean"} \subseteq Steps
        BY DEF Steps
      <4>3. \A s \in run[p].todo : {s} \in SUBSET Skills /\ Installed(backup) \ {s} \in SUBSET Skills
        BY <2>0 DEF Run, Installed
      <4>. QED BY <2>0, <4>1, <4>2, <4>3, RunTyped, GoesTyped, DoesTyped, DidTyped
    <3>. QED BY <2>13, <3>1 DEF Unremove, Clean, Erase, disk
  <2>14. CASE Discard(p)
    <3>1. run[p].next \in Steps
      BY <2>0 DEF Run
    <3>2. run' \in [Procs -> Run]
      BY <2>0, <2>14, <3>1, RunTyped DEF Discard
    <3>. QED BY <2>14, <3>2 DEF Discard
  <2>15. CASE Crash(p)
    BY <2>0, <2>15, RunTyped DEF Crash
  <2>. QED BY <1>4, <2>1, <2>2, <2>3, <2>4, <2>5, <2>6, <2>7, <2>8, <2>9, <2>10, <2>11, <2>12,
              <2>13, <2>14, <2>15 DEF Works, Locked
<1>5. ASSUME NEW p \in Procs, Start(p) \/ Works(p) \/ Fail(p) \/ Crash(p)
      PROVE  /\ (txs \in 0..MaxTx)' /\ (crashes \in 0..MaxCrash)' /\ (fails \in 0..MaxFail)'
             /\ (edits \in 0..MaxEdits)'
  <2>. USE <1>1, InstallerAssumption
  <2>1. CASE Start(p) \/ Route(p) \/ LoadConsumers(p) \/ StoreConsumers(p) \/ Enter(p)
    BY <2>1 DEF Start, Route, LoadConsumers, StoreConsumers, Enter, count
  <2>2. CASE Begin(p)
    BY <2>2 DEF Begin
  <2>3. CASE StageInstall(p) \/ StageUninstall(p) \/ Move(p) \/ JournalPublish(p) \/ Publish(p) \/ Verify(p)
    BY <2>3 DEF StageInstall, StageUninstall, Move, JournalPublish, Publish, Verify, count
  <2>4. CASE Save(p) \/ JournalCommit(p) \/ Unpublish(p) \/ Restore(p) \/ Unremove(p) \/ Clean(p) \/ Erase(p)
             \/ Discard(p)
    BY <2>4 DEF Save, JournalCommit, Unpublish, Restore, Unremove, Clean, Erase, Discard, count
  <2>5. CASE Fail(p) \/ Crash(p)
    BY <2>5 DEF Fail, Crash
  <2>. QED BY <1>5, <2>1, <2>2, <2>3, <2>4, <2>5 DEF Works, Locked
<1>6. ASSUME NEW p \in Procs, Start(p) \/ Works(p) \/ Fail(p) \/ Crash(p)
      PROVE  (root \in [Skills -> Content])' /\ (backup \in [Skills -> Content])'
  <2>. USE <1>1
  <2>1. CASE Start(p) \/ Route(p) \/ LoadConsumers(p) \/ StoreConsumers(p) \/ Enter(p) \/ Fail(p) \/ Crash(p)
    BY <2>1 DEF Start, Route, LoadConsumers, StoreConsumers, Enter, Fail, Crash, disk
  <2>2. CASE Begin(p) \/ StageInstall(p) \/ StageUninstall(p) \/ JournalPublish(p) \/ Verify(p) \/ Save(p)
             \/ JournalCommit(p)
    BY <2>2 DEF Begin, StageInstall, StageUninstall, JournalPublish, Verify, Save, JournalCommit, disk
  <2>3. CASE Move(p) \/ Unpublish(p) \/ Restore(p) \/ Unremove(p) \/ Clean(p) \/ Erase(p)
    BY <2>3 DEF Move, Unpublish, Restore, Unremove, Clean, Erase, Content, disk
  <2>4. CASE Publish(p)
    <3>1. tx.version \in Content
      BY DEF Transaction, Content
    <3>. QED BY <2>4, <3>1 DEF Publish
  <2>5. CASE Discard(p)
    BY <2>5, Nothing DEF Discard
  <2>. QED BY <1>6, <2>1, <2>2, <2>3, <2>4, <2>5 DEF Works, Locked
<1>7. ASSUME NEW p \in Procs, Start(p) \/ Works(p) \/ Fail(p) \/ Crash(p)
      PROVE  (manifest \in Manifests)'
  <2>. USE <1>1
  <2>1. CASE Save(p)
    BY <2>1, CommittedTyped DEF Save, At
  <2>2. CASE StoreConsumers(p)
    <3>1. run[p].copy \in Manifests /\ run[p].consumers \in SUBSET Consumers
      BY DEF Run
    <3>2. manifest' = [run[p].copy EXCEPT !.consumers = @ \cup run[p].consumers, !.gen = @ + 1]
      BY <2>2 DEF StoreConsumers
    <3>3. run[p].copy = manifest /\ manifest.version # None
      BY <2>2 DEF StoreConsumers, IInv, Control, Adding, At
    <3>4. /\ manifest' \in [version: Versions \cup {None}, consumers: SUBSET Consumers,
                            gen: Nat \ {0}, tx: Nat]
          /\ manifest'.version = manifest.version
          /\ manifest'.consumers = manifest.consumers \cup run[p].consumers
      <4>1. \A x \in [version: Versions \cup {None}, consumers: SUBSET Consumers,
                      gen: Nat \ {0}, tx: Nat], c \in SUBSET Consumers, g \in Nat \ {0} :
              /\ [x EXCEPT !.consumers = c, !.gen = g]
                   \in [version: Versions \cup {None}, consumers: SUBSET Consumers,
                       gen: Nat \ {0}, tx: Nat]
              /\ [x EXCEPT !.consumers = c, !.gen = g].version = x.version
              /\ [x EXCEPT !.consumers = c, !.gen = g].consumers = c
        OBVIOUS
      <4>2. manifest \in [version: Versions \cup {None}, consumers: SUBSET Consumers,
                          gen: Nat \ {0}, tx: Nat]
        BY ManifestIs
      <4>3. /\ manifest.consumers \cup run[p].consumers \in SUBSET Consumers
            /\ manifest.gen + 1 \in Nat \ {0}
        BY <3>1, <4>2
      <4>4. manifest' = [manifest EXCEPT !.consumers = manifest.consumers \cup run[p].consumers,
                                         !.gen = manifest.gen + 1]
        BY <3>2, <3>3
      <4>. QED BY <4>1, <4>2, <4>3, <4>4
    <3>5. manifest.consumers # {}
      BY <3>3, ManifestIs
    <3>. QED BY <3>3, <3>4, <3>5, ManifestIs
  <2>3. CASE Start(p) \/ Route(p) \/ LoadConsumers(p) \/ Enter(p) \/ Fail(p) \/ Crash(p)
    BY <2>3 DEF Start, Route, LoadConsumers, Enter, Fail, Crash, disk
  <2>4. CASE Begin(p) \/ StageInstall(p) \/ StageUninstall(p) \/ Move(p) \/ JournalPublish(p) \/ Publish(p)
             \/ Verify(p) \/ JournalCommit(p)
    BY <2>4 DEF Begin, StageInstall, StageUninstall, Move, JournalPublish, Publish, Verify, JournalCommit, disk
  <2>5. CASE Unpublish(p) \/ Restore(p) \/ Unremove(p) \/ Clean(p) \/ Erase(p) \/ Discard(p)
    BY <2>5 DEF Unpublish, Restore, Unremove, Clean, Erase, Discard, disk
  <2>. QED BY <1>7, <2>1, <2>2, <2>3, <2>4, <2>5 DEF Works, Locked
<1>8. ASSUME NEW p \in Procs, Start(p) \/ Works(p) \/ Fail(p) \/ Crash(p)
      PROVE  (tx \in Transaction)'
  <2>. USE <1>1
  <2>1. CASE Begin(p)
    <3>1. txs < MaxTx => txs + 1 \in 0..MaxTx
      BY InstallerAssumption
    <3>2. \A n \in 0..MaxTx : [NoTx EXCEPT !.id = n] \in Transaction
      BY Nothing DEF Transaction
    <3>. QED BY <2>1, <3>1, <3>2 DEF Begin
  <2>2. CASE StageInstall(p)
    <3>1. run[p].version \in Versions \cup {None}
      BY DEF Run
    <3>. QED BY <2>2, <3>1 DEF StageInstall, Transaction, Journals
  <2>3. CASE StageUninstall(p)
    <3>1. run[p].copy \in Manifests /\ run[p].consumers \in SUBSET Consumers
      BY DEF Run
    <3>2. PICK c \in Manifests : c = run[p].copy
      BY <3>1
    <3>3. c \in [version: Versions \cup {None}, consumers: SUBSET Consumers, gen: Nat \ {0}, tx: Nat]
      BY ManifestIs
    <3>4. tx' = NoTx \/ tx' = [tx EXCEPT !.journal = "UNINSTALL", !.version = c.version, !.gen = c.gen,
                               !.consumers = c.consumers, !.remaining = c.consumers \ run[p].consumers]
      BY <2>3, <3>2 DEF StageUninstall
    <3>5. [tx EXCEPT !.journal = "UNINSTALL", !.version = c.version, !.gen = c.gen,
                     !.consumers = c.consumers, !.remaining = c.consumers \ run[p].consumers] \in Transaction
      BY <3>3 DEF Transaction, Journals
    <3>. QED BY <3>4, <3>5, Nothing
  <2>4. CASE JournalPublish(p)
    <3>1. SkillsOf[tx.version] \in SUBSET Skills
      <4>1. tx.version \in Versions
        BY <2>4 DEF JournalPublish, At, Disk, Pending, IInv, Held, Building
      <4>. QED BY <4>1, InstallerAssumption
    <3>. QED BY <2>4, <3>1 DEF JournalPublish, Transaction, Journals
  <2>5. CASE JournalCommit(p)
    BY <2>5 DEF JournalCommit, Transaction, Journals
  <2>6. CASE Discard(p)
    BY <2>6, Nothing DEF Discard
  <2>7. CASE Start(p) \/ Route(p) \/ LoadConsumers(p) \/ StoreConsumers(p) \/ Enter(p) \/ Fail(p) \/ Crash(p)
    BY <2>7 DEF Start, Route, LoadConsumers, StoreConsumers, Enter, Fail, Crash, disk
  <2>8. CASE Move(p) \/ Publish(p) \/ Verify(p) \/ Save(p) \/ Unpublish(p) \/ Restore(p) \/ Unremove(p) \/ Clean(p)
             \/ Erase(p)
    BY <2>8 DEF Move, Publish, Verify, Save, Unpublish, Restore, Unremove, Clean, Erase, disk
  <2>. QED BY <1>8, <2>1, <2>2, <2>3, <2>4, <2>5, <2>6, <2>7, <2>8 DEF Works, Locked
<1>9. CASE \E s \in Skills : UserEdits(s)
  BY <1>1, <1>3, <1>9
<1>10. CASE \E p \in Procs : Start(p) \/ Works(p) \/ Fail(p) \/ Crash(p)
  BY <1>4, <1>5, <1>6, <1>7, <1>8, <1>10
<1>. QED BY <1>9, <1>10 DEF Next

-----------------------------------------------------------------------------
(* Who has the lock, and what the operations were started for.             *)

(* The lock is taken, given back or kept, with the work it is needed for.  *)
LEMMA LockMoves ==
  ASSUME LockHeld, NEW p \in Procs, \A q \in Procs \ {p} : run'[q] = run[q],
         \/ (run'[p].at \in Holding <=> run[p].at \in Holding) /\ lock' = lock
         \/ lock = None /\ lock' = p /\ run'[p].at \in Holding
         \/ run[p].at \in Holding /\ lock' = None /\ run'[p].at \notin Holding
  PROVE  LockHeld'
<1>. SUFFICES ASSUME NEW q \in Procs PROVE run'[q].at \in Holding <=> lock' = q
  BY DEF LockHeld
<1>1. /\ run[q].at \in Holding <=> lock = q
      /\ run[p].at \in Holding <=> lock = p
  BY DEF LockHeld
<1>. QED BY <1>1, NullIs

(* The steps a process can be told to take after a recovery need the lock. *)
LEMMA UndoHolds ==
  ASSUME Undo # "idle"
  PROVE  Undo \in {"discard", "unpublish", "clean", "unremove"} /\ Undo \in Holding
BY DEF Undo, Holding

(* What a step means for the process that takes it.                        *)
LEMMA LockStep ==
  ASSUME IInv, NEW p \in Procs, Start(p) \/ Works(p) \/ Fail(p) \/ Crash(p)
  PROVE  LockHeld'
<1>1. TypeOK /\ LockHeld /\ run \in [Procs -> Run] /\ run[p] \in Run
  BY Typed DEF IInv, Control
<1>. DEFINE Kept  == (run'[p].at \in Holding <=> run[p].at \in Holding) /\ lock' = lock
            Taken == lock = None /\ lock' = p /\ run'[p].at \in Holding
            Given == run[p].at \in Holding /\ lock' = None /\ run'[p].at \notin Holding
<1>. SUFFICES Kept \/ Taken \/ Given
  BY <1>1, OwnState, LockMoves
<1>. USE <1>1
<1>2. CASE Start(p)
  BY <1>2, StartIs DEF Start, Holding, At
<1>3. CASE Route(p)
  BY <1>3, RouteIs DEF Route, Holding, At
<1>4. CASE LoadConsumers(p)
  BY <1>4, LoadIs DEF LoadConsumers, Holding, At
<1>5. CASE StoreConsumers(p)
  BY <1>5, IdleIs DEF StoreConsumers, Holding, At
<1>6. CASE Enter(p)
  BY <1>6, EnterIs, UndoHolds DEF Enter, Holding, At
<1>7. CASE Begin(p)
  BY <1>7, BeginIs DEF Begin, Holding, At
<1>8. CASE StageInstall(p)
  BY <1>8, StageInstallIs DEF StageInstall, Holding, At
<1>9. CASE StageUninstall(p)
  <2>1. Ends(p) \/ (lock' = lock /\ \E t : Does(p, "move", t))
    BY <1>9 DEF StageUninstall
  <2>. QED BY <1>9, <2>1, DoesIs, IdleIs DEF StageUninstall, Ends, Holding, At
<1>10. CASE Move(p)
  <2>1. (\E s : Did(p, s)) \/ Goes(p, "verify") \/ Goes(p, "journal_publish")
    BY <1>10 DEF Move
  <2>. QED BY <1>10, <2>1, DidIs, GoesIs DEF Move, Holding, At
<1>11. CASE JournalPublish(p)
  BY <1>11, DoesIs DEF JournalPublish, Holding, At
<1>12. CASE Publish(p)
  <2>1. (\E s : Did(p, s)) \/ Goes(p, "save")
    BY <1>12 DEF Publish
  <2>. QED BY <1>12, <2>1, DidIs, GoesIs DEF Publish, Holding, At
<1>13. CASE Verify(p)
  <2>1. Undoes(p, "idle") \/ (Goes(p, "save") /\ lock' = lock)
    BY <1>13 DEF Verify
  <2>. QED BY <1>13, <2>1, UndoesIs, GoesIs, UndoHolds DEF Verify, Holding, At
<1>14. CASE Save(p)
  BY <1>14, GoesIs DEF Save, Holding, At
<1>15. CASE JournalCommit(p)
  <2>1. (\E t : Does(p, "clean", t)) \/ Goes(p, "discard")
    BY <1>15 DEF JournalCommit
  <2>. QED BY <1>15, <2>1, DoesIs, GoesIs DEF JournalCommit, Holding, At
<1>16. CASE Unpublish(p)
  <2>1. (\E s : Did(p, s)) \/ (\E t : Does(p, "restore", t))
    BY <1>16 DEF Unpublish
  <2>. QED BY <1>16, <2>1, DidIs, DoesIs DEF Unpublish, Holding, At
<1>17. CASE Restore(p)
  <2>1. (\E s : Did(p, s)) \/ Goes(p, "discard")
    BY <1>17 DEF Restore
  <2>. QED BY <1>17, <2>1, DidIs, GoesIs DEF Restore, Holding, At
<1>18. CASE Unremove(p) \/ Clean(p) \/ Erase(p)
  <2>1. \/ lock' = None /\ run' = [run EXCEPT ![p] = Idle]
        \/ /\ lock' = lock
           /\ \/ \E s : Did(p, s)
              \/ \E n \in {"clean", "erase"} : \E t : Does(p, n, t)
              \/ Goes(p, "discard")
    BY <1>18 DEF Unremove, Clean, Erase
  <2>. QED BY <1>18, <2>1, DidIs, DoesIs, GoesIs, IdleIs DEF Unremove, Clean, Erase, Holding, At
<1>19. CASE Discard(p)
  <2>1. run[p].next \in {"idle", "begin", "route"}
    BY DEF IInv, Control, Asked
  <2>2. lock = p
    BY <1>19 DEF Discard, At, LockHeld, Holding
  <2>3. CASE run[p].next = "idle"
    <3>1. run' = [run EXCEPT ![p] = Idle]
      BY <1>19, <2>3 DEF Discard
    <3>. QED BY <1>19, <2>2, <2>3, <3>1, IdleIs DEF Discard, Holding, At
  <2>4. CASE run[p].next # "idle"
    <3>1. run' = [run EXCEPT ![p] = [run[p] EXCEPT !.at = run[p].next]]
      BY <1>19, <2>4 DEF Discard
    <3>2. run'[p].at = run[p].next
      BY <3>1 DEF Run
    <3>. QED BY <1>19, <2>1, <2>2, <2>4, <3>2 DEF Discard, Holding, At
  <2>. QED BY <2>3, <2>4
<1>20. CASE Fail(p)
  <2>1. Undoes(p, "idle") \/ Ends(p)
    BY <1>20 DEF Fail
  <2>2. run[p].at \in Holding
    BY <1>20 DEF Fail, Holding
  <2>. QED BY <2>1, <2>2, UndoesIs, UndoHolds, IdleIs DEF Ends, Holding
<1>21. CASE Crash(p)
  <2>1. run'[p].at \notin Holding
    BY <1>21, IdleIs DEF Crash, Holding
  <2>2. lock' = (IF lock = p THEN None ELSE lock) /\ (run[p].at \in Holding <=> lock = p)
    BY <1>21 DEF Crash, LockHeld
  <2>. QED BY <2>1, <2>2
<1>. QED BY <1>2, <1>3, <1>4, <1>5, <1>6, <1>7, <1>8, <1>9, <1>10, <1>11, <1>12, <1>13, <1>14,
            <1>15, <1>16, <1>17, <1>18, <1>19, <1>20, <1>21
         DEF Works, Locked

LEMMA UserEditsKeeps ==
  ASSUME NEW s \in Skills, UserEdits(s)
  PROVE  UNCHANGED <<manifest, tx, lock, run, txs, crashes, fails>>
BY DEF UserEdits

(* What an operation was started for is not forgotten.                     *)
LEMMA AskedStep ==
  ASSUME IInv, NEW p \in Procs, Start(p) \/ Works(p) \/ Fail(p) \/ Crash(p)
  PROVE  Asked'
<1>1. TypeOK /\ run \in [Procs -> Run] /\ run[p] \in Run
  BY Typed DEF IInv, Control
<1>. DEFINE OK == /\ run'[p].at # "idle" => run'[p].version \in Versions /\ run'[p].consumers # {}
                  /\ run'[p].next \in {"idle", "begin", "route"}
                  /\ run'[p].at \in Working \cup {"journal"} => run'[p].next = "idle"
<1>2. /\ run[p].at # "idle" => run[p].version \in Versions /\ run[p].consumers # {}
      /\ run[p].next \in {"idle", "begin", "route"}
      /\ run[p].at \in Working \cup {"journal"} => run[p].next = "idle"
  BY DEF IInv, Control, Asked
<1>. SUFFICES OK
  BY <1>1, OwnState DEF IInv, Control, Asked
<1>. USE <1>1, <1>2
<1>3. CASE Start(p)
  BY <1>3, StartIs DEF Working
<1>4. CASE Route(p)
  BY <1>4, RouteIs DEF Route, Working, At
<1>5. CASE LoadConsumers(p)
  BY <1>5, LoadIs DEF LoadConsumers, Working, At
<1>6. CASE Enter(p)
  <2>1. Undo # "idle" => Undo \notin Working \cup {"journal"}
    BY UndoHolds DEF Working
  <2>. QED BY <1>6, <2>1, EnterIs DEF Enter, Same, Working, At
<1>7. CASE Begin(p)
  BY <1>7, BeginIs DEF Begin, Working, At
<1>8. CASE StageInstall(p)
  BY <1>8, StageInstallIs DEF StageInstall, Working, At
<1>9. CASE StageUninstall(p)
  <2>1. run' = [run EXCEPT ![p] = Idle] \/ (\E t : Does(p, "move", t))
    BY <1>9 DEF StageUninstall, Ends
  <2>. QED BY <1>9, <2>1, DoesIs, IdleIs DEF StageUninstall, Same, Working, At
<1>10. CASE StoreConsumers(p) \/ Crash(p)
  BY <1>10, IdleIs DEF StoreConsumers, Crash, Working
<1>11. CASE Move(p) \/ Publish(p) \/ Save(p) \/ JournalPublish(p)
  <2>1. \/ \E s : Did(p, s)
        \/ \E t : Does(p, "publish", t)
        \/ \E n \in Working \cup {"journal"} : Goes(p, n)
    BY <1>11 DEF Move, Publish, Save, JournalPublish, Working
  <2>2. run[p].at \in Working
    BY <1>11 DEF Move, Publish, Save, JournalPublish, Working, At
  <2>. QED BY <2>1, <2>2, DidIs, DoesIs, GoesIs DEF Same, Working
<1>12. CASE Verify(p) \/ Fail(p)
  <2>1. Undoes(p, "idle") \/ run' = [run EXCEPT ![p] = Idle] \/ Goes(p, "save")
    BY <1>12 DEF Verify, Fail, Ends
  <2>2. run[p].at \in Working \cup {"journal"}
    BY <1>12 DEF Verify, Fail, At, Working
  <2>3. CASE Undoes(p, "idle")
    BY <2>2, <2>3, UndoesIs DEF Same, Working
  <2>4. CASE run' = [run EXCEPT ![p] = Idle]
    BY <2>4, IdleIs DEF Working
  <2>5. CASE Goes(p, "save")
    BY <2>2, <2>5, GoesIs DEF Same, Working
  <2>. QED BY <2>1, <2>3, <2>4, <2>5
<1>13. CASE JournalCommit(p) \/ Unpublish(p) \/ Restore(p) \/ Unremove(p) \/ Clean(p) \/ Erase(p)
  <2>1. \/ run' = [run EXCEPT ![p] = Idle]
        \/ \E s : Did(p, s)
        \/ \E n \in {"clean", "erase", "restore"} : \E t : Does(p, n, t)
        \/ Goes(p, "discard")
    BY <1>13 DEF JournalCommit, Unpublish, Restore, Unremove, Clean, Erase
  <2>2. run[p].at \in {"journal", "unpublish", "restore", "unremove", "clean", "erase"}
    BY <1>13 DEF JournalCommit, Unpublish, Restore, Unremove, Clean, Erase, At
  <2>3. CASE \E s : Did(p, s)
    BY <2>2, <2>3, DidIs DEF Same, Working
  <2>4. CASE \E n \in {"clean", "erase", "restore"} : \E t : Does(p, n, t)
    BY <2>2, <2>4, DoesIs DEF Same, Working
  <2>5. CASE Goes(p, "discard")
    BY <2>2, <2>5, GoesIs DEF Same, Working
  <2>6. CASE run' = [run EXCEPT ![p] = Idle]
    BY <2>6, IdleIs DEF Working
  <2>. QED BY <2>1, <2>3, <2>4, <2>5, <2>6
<1>14. CASE Discard(p)
  BY <1>14, DiscardIs DEF Discard, Same, Working, At
<1>. QED BY <1>3, <1>4, <1>5, <1>6, <1>7, <1>8, <1>9, <1>10, <1>11, <1>12, <1>13, <1>14
         DEF Works, Locked

(* Consumers are added to the saved manifest, in the case that is not      *)
(* excluded.                                                               *)
LEMMA AddingStep ==
  ASSUME Excluded, IInv, NEW p \in Procs, Start(p) \/ Works(p) \/ Fail(p) \/ Crash(p)
  PROVE  Adding'
<1>1. TypeOK /\ run \in [Procs -> Run] /\ run[p] \in Run /\ manifest \in Manifests
  BY Typed DEF IInv, Control
<1>. SUFFICES ASSUME NEW q \in Procs, run'[q].at \in {"load", "store"}
              PROVE  /\ OneProcess => tx'.journal = "none"
                     /\ run'[q].at = "store" => /\ OneProcess /\ run'[q].copy = manifest'
                                                /\ manifest'.version # None
  BY DEF Adding
<1>2. /\ OneProcess /\ run[q].at \in {"load", "store"} => tx.journal = "none"
      /\ run[q].at = "store" => OneProcess /\ run[q].copy = manifest /\ manifest.version # None
  BY DEF IInv, Control, Adding
<1>. USE <1>1, <1>2
<1>3. CASE q # p
  <2>1. run'[q] = run[q] /\ ~OneProcess
    BY <1>3, OwnState DEF OneProcess
  <2>. QED BY <2>1
<1>4. CASE q = p /\ Route(p)
  <2>1. run'[p].at = "load" /\ tx.journal = "none"
    BY <1>4, RouteIs
  <2>. QED BY <1>4, <2>1 DEF Route, disk
<1>5. CASE q = p /\ LoadConsumers(p)
  <2>1. /\ run'[p].at = "store" /\ run'[p].copy = manifest /\ manifest.version # None
        /\ ~(run[p].consumers \subseteq manifest.consumers)
    BY <1>5, LoadIs
  <2>2. UNCHANGED disk /\ run[p].at = "load"
    BY <1>5 DEF LoadConsumers, At
  <2>3. OneConsumer => FALSE
    <3>1. /\ manifest.consumers # {} /\ manifest.consumers \subseteq Consumers
          /\ run[p].consumers \subseteq Consumers
      BY <2>1, ManifestIs DEF Run
    <3>. QED BY <2>1, <3>1 DEF OneConsumer
  <2>. QED BY <1>5, <2>1, <2>2, <2>3 DEF Excluded, disk
<1>6. CASE q = p /\ ~Route(p) /\ ~LoadConsumers(p)
  <2>1. run'[p].at \notin {"load", "store"}
    <3>1. CASE Start(p) \/ StoreConsumers(p) \/ Crash(p)
      BY <3>1, StartIs, IdleIs DEF StoreConsumers, Crash
    <3>2. CASE Enter(p)
      BY <3>2, EnterIs, UndoHolds
    <3>3. CASE Begin(p) \/ StageInstall(p)
      BY <3>3, BeginIs, StageInstallIs
    <3>4. CASE StageUninstall(p) \/ Move(p) \/ Publish(p) \/ Save(p) \/ JournalPublish(p)
      <4>1. run[p].at \in Working
        BY <3>4 DEF StageUninstall, Move, Publish, Save, JournalPublish, At, Working
      <4>2. \/ run' = [run EXCEPT ![p] = Idle]
            \/ \E s : Did(p, s)
            \/ \E n \in {"move", "publish"} : \E t : Does(p, n, t)
            \/ \E n \in Working \cup {"journal"} : Goes(p, n)
        BY <3>4 DEF StageUninstall, Ends, Move, Publish, Save, JournalPublish, Working
      <4>. QED BY <4>1, <4>2, IdleIs, DidIs, DoesIs, GoesIs DEF Working
    <3>5. CASE Verify(p) \/ Fail(p)
      <4>1. Undoes(p, "idle") \/ run' = [run EXCEPT ![p] = Idle] \/ Goes(p, "save")
        BY <3>5 DEF Verify, Fail, Ends
      <4>. QED BY <4>1, UndoesIs, UndoHolds, IdleIs, GoesIs
    <3>6. CASE JournalCommit(p) \/ Unpublish(p) \/ Restore(p) \/ Unremove(p) \/ Clean(p) \/ Erase(p)
      <4>1. run[p].at \in {"journal", "unpublish", "restore", "unremove", "clean", "erase"}
        BY <3>6 DEF JournalCommit, Unpublish, Restore, Unremove, Clean, Erase, At
      <4>2. \/ run' = [run EXCEPT ![p] = Idle]
            \/ \E s : Did(p, s)
            \/ \E n \in {"clean", "erase", "restore"} : \E t : Does(p, n, t)
            \/ Goes(p, "discard")
        BY <3>6 DEF JournalCommit, Unpublish, Restore, Unremove, Clean, Erase
      <4>. QED BY <4>1, <4>2, IdleIs, DidIs, DoesIs, GoesIs
    <3>7. CASE Discard(p)
      BY <3>7, DiscardIs DEF IInv, Control, Asked
    <3>. QED BY <1>6, <3>1, <3>2, <3>3, <3>4, <3>5, <3>6, <3>7 DEF Works, Locked
  <2>. QED BY <1>6, <2>1
<1>. QED BY <1>3, <1>4, <1>5, <1>6

LEMMA ControlStep ==
  ASSUME Excluded, IInv, Next
  PROVE  Control'
<1>1. CASE \E s \in Skills : UserEdits(s)
  BY <1>1, UserEditsKeeps DEF IInv, Control, LockHeld, Asked, Adding
<1>2. CASE \E p \in Procs : Start(p) \/ Works(p) \/ Fail(p) \/ Crash(p)
  BY <1>2, LockStep, AskedStep, AddingStep DEF Control
<1>. QED BY <1>1, <1>2 DEF Next

-----------------------------------------------------------------------------
(* The directory of the transaction.                                       *)

LEMMA DiskTyped ==
  ASSUME TypeOK
  PROVE  /\ root \in [Skills -> Content] /\ backup \in [Skills -> Content]
         /\ tx \in Transaction /\ tx.id \in Nat /\ txs \in Nat /\ manifest \in Manifests
         /\ manifest.tx \in Nat /\ manifest.gen \in Nat \ {0}
         /\ run \in [Procs -> Run]
<1>1. manifest \in Manifests
  BY Typed
<1>. QED BY <1>1, Typed, ManifestIs, InstallerAssumption DEF Transaction

(* An edit changes what a skill is, not whether and where it is.           *)
LEMMA EditsInPlace ==
  ASSUME TypeOK, NEW s \in Skills, UserEdits(s)
  PROVE  /\ \A t \in Skills : /\ root'[t] = None <=> root[t] = None
                              /\ backup'[t] = None <=> backup[t] = None
                              /\ root'[t] \in {root[t], Edited} /\ backup'[t] \in {backup[t], Edited}
         /\ Installed(backup') = Installed(backup)
<1>1. \A t \in Skills : /\ root'[t] = None <=> root[t] = None
                        /\ backup'[t] = None <=> backup[t] = None
                        /\ root'[t] \in {root[t], Edited} /\ backup'[t] \in {backup[t], Edited}
  BY DiskTyped, NullIs DEF UserEdits
<1>. QED BY <1>1 DEF Installed

LEMMA PendingStep ==
  ASSUME IInv, Next
  PROVE  Pending'
<1>1. TypeOK /\ Pending
  BY DEF IInv, Disk
<1>. USE <1>1, DiskTyped
<1>2. ASSUME NEW s \in Skills, UserEdits(s) PROVE Pending'
  BY <1>2, EditsInPlace, UserEditsKeeps DEF Pending, IsUninstall
<1>. SUFFICES ASSUME NEW p \in Procs, Start(p) \/ Works(p) \/ Fail(p) \/ Crash(p)
              PROVE  Pending'
  BY <1>2 DEF Next
<1>3. CASE UNCHANGED <<disk, txs>>
  BY <1>3 DEF Pending, IsUninstall, disk
<1>4. CASE Start(p) \/ Route(p) \/ LoadConsumers(p) \/ Enter(p) \/ Verify(p) \/ Fail(p) \/ Crash(p)
  BY <1>3, <1>4 DEF Start, Route, LoadConsumers, Enter, Verify, Fail, Crash, count
<1>5. CASE StoreConsumers(p)
  <2>1. run[p].copy = manifest /\ tx.journal = "none"
    BY <1>5 DEF StoreConsumers, IInv, Control, Adding, At
  <2>2. manifest' = [manifest EXCEPT !.consumers = manifest.consumers \cup run[p].consumers,
                                     !.gen = manifest.gen + 1]
    BY <1>5, <2>1 DEF StoreConsumers
  <2>3. manifest'.tx = manifest.tx
    BY <2>2, ManifestIs
  <2>. QED BY <1>5, <2>1, <2>3 DEF StoreConsumers, Pending, IsUninstall, count
<1>6. CASE Begin(p)
  <2>1. \/ UNCHANGED <<tx, txs>>
        \/ txs' = txs + 1 /\ tx' = [NoTx EXCEPT !.id = txs + 1]
    BY <1>6, BeginIs
  <2>2. UNCHANGED <<root, manifest, backup>>
    BY <1>6 DEF Begin
  <2>3. CASE txs' = txs + 1 /\ tx' = [NoTx EXCEPT !.id = txs + 1]
    <3>1. tx'.id = txs' /\ tx'.journal = "none" /\ tx'.gen = 0 /\ tx' = [NoTx EXCEPT !.id = tx'.id]
      BY <2>3 DEF NoTx
    <3>2. Installed(backup) = {}
      BY <1>6 DEF Begin, At, IInv, Held, Building, Pending
    <3>. QED BY <2>2, <2>3, <3>1, <3>2 DEF Pending, IsUninstall
  <2>. QED BY <1>3, <2>1, <2>2, <2>3 DEF disk
<1>7. CASE StageInstall(p)
  <2>1. /\ tx = [NoTx EXCEPT !.id = tx.id] /\ tx.id # 0 /\ manifest.tx # tx.id
        /\ Installed(backup) = {} /\ run[p].version \in Versions
    BY <1>7 DEF StageInstall, At, IInv, Held, Building, Pending, Working, Control, Asked
  <2>2. tx.published = {} /\ tx.gen = 0
    BY <2>1 DEF NoTx
  <2>3. /\ tx'.journal = "PREPARED" /\ tx'.version = run[p].version /\ tx'.published = tx.published
        /\ tx'.gen = tx.gen /\ tx'.id = tx.id
    BY <1>7 DEF StageInstall, Transaction
  <2>4. UNCHANGED <<manifest, backup, txs>>
    BY <1>7 DEF StageInstall, count
  <2>. QED BY <2>1, <2>2, <2>3, <2>4 DEF Pending, IsUninstall, Installing
<1>8. CASE StageUninstall(p)
  <2>1. /\ tx = [NoTx EXCEPT !.id = tx.id] /\ tx.id # 0 /\ manifest.tx # tx.id
        /\ Installed(backup) = {} /\ run[p].copy = manifest /\ manifest.version # None
    BY <1>8 DEF StageUninstall, At, IInv, Held, Building, Pending, Working
  <2>2. tx.published = {} /\ tx.gen = 0
    BY <2>1 DEF NoTx
  <2>3. UNCHANGED <<manifest, backup, txs>>
    BY <1>8 DEF StageUninstall, count
  <2>4. CASE tx' = NoTx
    <3>1. tx'.id = 0 /\ tx'.journal = "none" /\ tx'.gen = 0 /\ tx' = [NoTx EXCEPT !.id = tx'.id]
      BY <2>4 DEF NoTx
    <3>. QED BY <2>1, <2>3, <3>1 DEF Pending, IsUninstall
  <2>5. CASE tx' # NoTx
    <3>1. tx' = [tx EXCEPT !.journal = "UNINSTALL", !.version = manifest.version,
                           !.gen = manifest.gen, !.consumers = manifest.consumers,
                           !.remaining = manifest.consumers \ run[p].consumers]
      BY <1>8, <2>1, <2>5 DEF StageUninstall
    <3>2. /\ tx'.journal = "UNINSTALL" /\ tx'.version = manifest.version /\ tx'.id = tx.id
          /\ tx'.gen = manifest.gen
      BY <3>1 DEF Transaction
    <3>3. manifest.version \in Versions /\ manifest.gen # 0
      BY <2>1, ManifestIs
    <3>. QED BY <2>1, <2>3, <3>2, <3>3 DEF Pending, IsUninstall, Installing
  <2>. QED BY <2>4, <2>5
<1>9. CASE Move(p)
  <2>1. /\ run[p].todo \subseteq SkillsOf[tx.version]
        /\ tx.journal # "none"
    BY <1>9 DEF Move, At, IInv, Held, Building, TxSkills, Pending
  <2>2. UNCHANGED <<manifest, tx, txs>>
    BY <1>9 DEF Move, count
  <2>3. Installed(backup') \subseteq Installed(backup) \cup run[p].todo
    BY <1>9 DEF Move, Installed
  <2>. QED BY <2>1, <2>2, <2>3 DEF Pending, IsUninstall
<1>10. CASE JournalPublish(p)
  <2>1. tx.journal = "PREPARED" /\ manifest.tx # tx.id
    BY <1>10 DEF JournalPublish, At, IInv, Held, Building, Working
  <2>2. UNCHANGED <<manifest, backup, txs>>
    BY <1>10 DEF JournalPublish, count
  <2>3. /\ tx'.journal = "PUBLISHING" /\ tx'.published = SkillsOf[tx.version] /\ tx'.id = tx.id
        /\ tx'.version = tx.version /\ tx'.gen = tx.gen
    BY <1>10 DEF JournalPublish, Transaction
  <2>. QED BY <2>1, <2>2, <2>3 DEF Pending, IsUninstall, Installing
<1>11. CASE Publish(p) \/ Unpublish(p)
  BY <1>11 DEF Publish, Unpublish, Pending, IsUninstall, count
<1>12. CASE Save(p)
  <2>1. manifest'.tx = tx.id /\ UNCHANGED <<tx, backup, txs>>
    BY <1>12, CommittedTyped DEF Save, At, count
  <2>2. tx.id # 0 /\ tx.journal \in {"PUBLISHING", "UNINSTALL"}
    BY <1>12 DEF Save, At, IInv, Held, Building, Working
  <2>. QED BY <2>1, <2>2 DEF Pending, IsUninstall, Installing
<1>13. CASE JournalCommit(p)
  <2>1. tx.journal \in {"PUBLISHING", "UNINSTALL"} /\ manifest.tx = tx.id /\ tx.id # 0
    BY <1>13 DEF JournalCommit, At, IInv, Held, Building, Pending
  <2>2. UNCHANGED <<manifest, backup, txs>>
    BY <1>13 DEF JournalCommit, count
  <2>3. /\ tx'.journal = "COMMITTED" /\ tx'.id = tx.id /\ tx'.version = tx.version
    BY <1>13 DEF JournalCommit, Transaction
  <2>. QED BY <2>1, <2>2, <2>3 DEF Pending, Installing
<1>14. CASE Restore(p) \/ Unremove(p) \/ Clean(p) \/ Erase(p)
  <2>1. UNCHANGED <<manifest, tx, txs>>
    BY <1>14 DEF Restore, Unremove, Clean, Erase, disk, count
  <2>2. Installed(backup') \subseteq Installed(backup)
    BY <1>14 DEF Restore, Unremove, Clean, Erase, disk, Installed
  <2>. QED BY <2>1, <2>2 DEF Pending, IsUninstall
<1>15. CASE Discard(p)
  <2>1. tx' = NoTx /\ backup' = NoSkills /\ UNCHANGED <<manifest, txs>>
    BY <1>15 DEF Discard, count
  <2>2. tx'.id = 0 /\ tx'.journal = "none" /\ tx'.gen = 0 /\ tx' = [NoTx EXCEPT !.id = tx'.id]
    BY <2>1 DEF NoTx
  <2>3. Installed(backup') = {}
    BY <2>1 DEF Installed, NoSkills
  <2>. QED BY <2>1, <2>2, <2>3 DEF Pending, IsUninstall
<1>. QED BY <1>4, <1>5, <1>6, <1>7, <1>8, <1>9, <1>10, <1>11, <1>12, <1>13, <1>14, <1>15
         DEF Works, Locked

LEMMA RemovalStep ==
  ASSUME IInv, Next
  PROVE  Removal'
<1>1. TypeOK /\ Pending /\ Removal
  BY DEF IInv, Disk
<1>. USE <1>1, DiskTyped
<1>2. ASSUME UNCHANGED <<tx, manifest>>,
             IsUninstall => Installed(backup') \subseteq Installed(backup),
             IsUninstall /\ manifest.tx # tx.id =>
               \A s \in TxSkills : Exclusive(s) => Exclusive(s)'
      PROVE  Removal'
  BY <1>2 DEF Removal, IsUninstall, MatchesCommit, MatchesBefore, TxSkills
<1>3. ASSUME NEW s \in Skills, UserEdits(s) PROVE Removal'
  <2>1. TxSkills \subseteq Skills
    BY UndoTyped DEF Disk
  <2>. QED BY <1>2, <1>3, <2>1, EditsInPlace, UserEditsKeeps DEF Exclusive
<1>. SUFFICES ASSUME NEW p \in Procs, Start(p) \/ Works(p) \/ Fail(p) \/ Crash(p)
              PROVE  Removal'
  BY <1>3 DEF Next
<1>4. CASE UNCHANGED disk
  BY <1>2, <1>4 DEF disk, Exclusive
<1>5. CASE tx'.gen = 0
  BY <1>5 DEF Removal, IsUninstall
<1>6. CASE Start(p) \/ Route(p) \/ LoadConsumers(p) \/ Enter(p) \/ Verify(p) \/ Fail(p) \/ Crash(p)
  BY <1>4, <1>6 DEF Start, Route, LoadConsumers, Enter, Verify, Fail, Crash
<1>7. CASE StoreConsumers(p)
  <2>1. tx.journal = "none" /\ UNCHANGED tx
    BY <1>7 DEF StoreConsumers, IInv, Control, Adding, At
  <2>2. tx.gen = 0
    BY <2>1 DEF Pending, NoTx
  <2>. QED BY <1>5, <2>1, <2>2
<1>8. CASE Begin(p)
  <2>1. UNCHANGED disk \/ tx' = [NoTx EXCEPT !.id = txs + 1]
    BY <1>8, BeginIs DEF Begin, disk
  <2>. QED BY <1>4, <1>5, <2>1 DEF NoTx
<1>9. CASE StageInstall(p)
  <2>1. tx = [NoTx EXCEPT !.id = tx.id] /\ tx'.gen = tx.gen
    BY <1>9 DEF StageInstall, At, IInv, Held, Building, Pending, Transaction
  <2>2. tx.gen = 0
    BY <2>1 DEF NoTx
  <2>. QED BY <1>5, <2>1, <2>2
<1>10. CASE StageUninstall(p)
  <2>1. /\ tx = [NoTx EXCEPT !.id = tx.id] /\ manifest.tx # tx.id
        /\ Installed(backup) = {} /\ run[p].copy = manifest /\ manifest.version # None
    BY <1>10 DEF StageUninstall, At, IInv, Held, Building, Pending, Working
  <2>2. tx.published = {}
    BY <2>1 DEF NoTx
  <2>3. UNCHANGED <<root, manifest, backup>>
    BY <1>10 DEF StageUninstall
  <2>4. CASE tx' = NoTx
    BY <1>5, <2>4 DEF NoTx
  <2>5. CASE tx' # NoTx
    <3>1. /\ tx' = [tx EXCEPT !.journal = "UNINSTALL", !.version = manifest.version,
                              !.gen = manifest.gen, !.consumers = manifest.consumers,
                              !.remaining = manifest.consumers \ run[p].consumers]
          /\ \A s \in SkillsOf[manifest.version] : root[s] = manifest.version
      BY <1>10, <2>1, <2>5 DEF StageUninstall
    <3>2. /\ tx'.journal = "UNINSTALL" /\ tx'.version = manifest.version /\ tx'.id = tx.id
          /\ tx'.gen = manifest.gen /\ tx'.published = {} /\ tx'.consumers = manifest.consumers
      BY <2>2, <3>1 DEF Transaction
    <3>3. manifest.version \in Versions /\ SkillsOf[manifest.version] \subseteq Skills
      BY <2>1, ManifestIs, InstallerAssumption
    <3>4. TxSkills' \subseteq SkillsOf[manifest.version]
      BY <3>2 DEF TxSkills
    <3>5. \A s \in TxSkills' : root'[s] # None /\ backup'[s] = None
      BY <2>1, <2>3, <3>1, <3>3, <3>4, NullIs DEF Installed
    <3>. QED BY <2>1, <2>3, <3>2, <3>5 DEF Removal, MatchesBefore, Exclusive
  <2>. QED BY <2>4, <2>5
<1>11. CASE Move(p)
  <2>1. /\ run[p].todo \subseteq TxSkills /\ \A s \in run[p].todo : backup[s] = None
        /\ tx.journal \in {"PREPARED", "UNINSTALL"} /\ manifest.tx # tx.id
    BY <1>11 DEF Move, At, IInv, Held, Building, Working
  <2>2. UNCHANGED <<tx, manifest>>
    BY <1>11 DEF Move
  <2>3. TxSkills \subseteq Skills
    BY UndoTyped DEF Disk
  <2>4. CASE tx.journal = "UNINSTALL"
    <3>1. Removal /\ IsUninstall
      BY <2>4 DEF Pending
    <3>2. \A s \in TxSkills : Exclusive(s)'
      BY <1>11, <2>1, <2>3, <3>1 DEF Removal, Move, Exclusive
    <3>3. tx.remaining # {} => run[p].todo = {}
      BY <2>1, <2>4 DEF TxSkills
    <3>4. tx.remaining # {} => UNCHANGED backup
      BY <1>11, <3>3 DEF Move
    <3>. QED BY <2>1, <2>2, <3>1, <3>2, <3>4 DEF Removal, MatchesBefore, MatchesCommit, IsUninstall, TxSkills
  <2>5. CASE tx.journal = "PREPARED"
    BY <1>5, <2>2, <2>5 DEF Pending, Installing, IsUninstall
  <2>. QED BY <2>1, <2>4, <2>5
<1>12. CASE JournalPublish(p)
  <2>1. tx.gen = 0
    BY <1>12 DEF JournalPublish, At, IInv, Held, Building, Pending, Installing, IsUninstall
  <2>. QED BY <1>5, <1>12, <2>1 DEF JournalPublish, Transaction
<1>13. CASE Publish(p) \/ Unpublish(p) \/ Restore(p)
  <2>1. tx.gen = 0 /\ UNCHANGED tx
    BY <1>13 DEF Publish, Unpublish, Restore, At, IInv, Held, Building, Undoing, Pending, Installing, IsUninstall
  <2>. QED BY <1>5, <2>1
<1>14. CASE Save(p)
  <2>1. /\ UNCHANGED <<root, tx, backup>> /\ manifest'.tx = tx.id /\ manifest'.gen = manifest.gen + 1
        /\ IsUninstall => /\ manifest'.consumers = tx.remaining
                          /\ manifest'.version = IF tx.remaining = {} THEN None ELSE tx.version
    BY <1>14, CommittedTyped DEF Save, At
  <2>2. manifest.tx # tx.id
    BY <1>14 DEF Save, At, IInv, Held, Building, Working
  <2>3. IsUninstall => manifest.gen = tx.gen
    BY <2>2 DEF Removal, MatchesBefore
  <2>. QED BY <2>1, <2>2, <2>3 DEF Removal, MatchesCommit, IsUninstall
<1>15. CASE JournalCommit(p)
  <2>1. UNCHANGED <<root, manifest, backup>> /\ manifest.tx = tx.id
    BY <1>15 DEF JournalCommit, At, IInv, Held, Building
  <2>2. /\ tx'.id = tx.id /\ tx'.version = tx.version /\ tx'.gen = tx.gen
        /\ tx'.published = tx.published /\ tx'.remaining = tx.remaining
    BY <1>15 DEF JournalCommit, Transaction
  <2>. QED BY <2>1, <2>2 DEF Removal, MatchesCommit, IsUninstall
<1>16. CASE Unremove(p)
  <2>1. /\ tx.journal = "UNINSTALL" /\ manifest.tx # tx.id /\ run[p].todo \subseteq TxSkills
    BY <1>16 DEF Unremove, At, IInv, Held, Undoing
  <2>2. UNCHANGED <<tx, manifest>>
    BY <1>16 DEF Unremove
  <2>3. Installed(backup') \subseteq Installed(backup)
    BY <1>16 DEF Unremove, Installed
  <2>4. TxSkills \subseteq Skills
    BY UndoTyped DEF Disk
  <2>5. \A s \in TxSkills : Exclusive(s) => Exclusive(s)'
    BY <1>16, <2>1, <2>4 DEF Unremove, Exclusive
  <2>. QED BY <1>2, <2>2, <2>3, <2>5
<1>17. CASE Clean(p) \/ Erase(p)
  <2>1. manifest.tx = tx.id /\ UNCHANGED <<tx, manifest>>
    BY <1>17 DEF Clean, Erase, disk, At, IInv, Held, Undoing
  <2>2. Installed(backup') \subseteq Installed(backup)
    BY <1>17 DEF Clean, Erase, disk, Installed
  <2>. QED BY <1>2, <2>1, <2>2
<1>18. CASE Discard(p)
  BY <1>5, <1>18 DEF Discard, NoTx
<1>. QED BY <1>6, <1>7, <1>8, <1>9, <1>10, <1>11, <1>12, <1>13, <1>14, <1>15, <1>16, <1>17, <1>18
         DEF Works, Locked

-----------------------------------------------------------------------------
(* What the holder of the lock may rely on.                                *)

LEMMA Resting ==
  ASSUME NEW p \in Procs, run'[p].at \notin Holding
  PROVE  Building(p)' /\ Undoing(p)'
BY DEF Building, Undoing, Holding, Working

(* The recovery knows what to do with everything a transaction can leave.  *)
LEMMA UndoIs ==
  ASSUME TypeOK, Disk, tx.id # 0
  PROVE  /\ Undo \in {"discard", "unpublish", "clean", "unremove"}
         /\ Undo = "discard" => /\ tx.journal = "none" \/ (~IsUninstall /\ manifest.tx = tx.id)
                                /\ UndoTodo = {}
         /\ Undo = "unpublish" => /\ tx.journal \in Installing /\ manifest.tx # tx.id
                                  /\ UndoTodo = tx.published
         /\ Undo = "clean" => /\ tx.journal \in {"UNINSTALL", "COMMITTED"} /\ IsUninstall
                              /\ manifest.tx = tx.id /\ UndoTodo = Installed(backup)
         /\ Undo = "unremove" => /\ tx.journal = "UNINSTALL" /\ manifest.tx # tx.id
                                 /\ UndoTodo = TxSkills
<1>1. Pending /\ Removal /\ tx.journal \in Journals
  BY DiskTyped DEF Disk, Transaction
<1>2. CASE tx.journal = "none"
  BY <1>2 DEF Undo, UndoTodo
<1>3. CASE tx.journal # "none" /\ ~IsUninstall
  BY <1>1, <1>3 DEF Undo, UndoTodo, Pending, Journals, Installing
<1>4. CASE tx.journal # "none" /\ IsUninstall
  BY <1>1, <1>4 DEF Undo, UndoTodo, Pending, Removal, Journals, Installing
<1>. QED BY <1>2, <1>3, <1>4

LEMMA UndoReady ==
  ASSUME TypeOK, Disk, tx.id # 0, NEW p \in Procs, UNCHANGED disk,
         run'[p].at = Undo, run'[p].todo = UndoTodo
  PROVE  Building(p)' /\ Undoing(p)'
<1>1. /\ Undo \in {"discard", "unpublish", "clean", "unremove"}
      /\ root' = root /\ manifest' = manifest /\ tx' = tx /\ backup' = backup
  BY UndoIs DEF disk
<1>2. Building(p)'
  BY <1>1 DEF Building, Working
<1>3. CASE Undo = "discard"
  <2>1. run'[p].at = "discard"
    BY <1>3
  <2>2. IsUninstall \/ manifest.tx # tx.id => Installed(backup) = {}
    BY <1>3, UndoIs DEF Disk, Pending
  <2>. QED BY <1>1, <1>2, <2>1, <2>2 DEF Undoing, IsUninstall
<1>4. CASE Undo = "unpublish"
  <2>1. /\ run'[p].at = "unpublish" /\ run'[p].todo = tx.published
        /\ tx.journal \in Installing /\ manifest.tx # tx.id
    BY <1>4, UndoIs
  <2>. QED BY <1>1, <1>2, <2>1 DEF Undoing
<1>5. CASE Undo = "clean"
  <2>1. /\ run'[p].at = "clean" /\ run'[p].todo = Installed(backup)
        /\ tx.journal \in {"UNINSTALL", "COMMITTED"} /\ IsUninstall /\ manifest.tx = tx.id
    BY <1>5, UndoIs
  <2>. QED BY <1>1, <1>2, <2>1 DEF Undoing, IsUninstall
<1>6. CASE Undo = "unremove"
  <2>1. /\ run'[p].at = "unremove" /\ run'[p].todo = TxSkills
        /\ tx.journal = "UNINSTALL" /\ manifest.tx # tx.id
    BY <1>6, UndoIs
  <2>. QED BY <1>1, <1>2, <2>1 DEF Undoing, TxSkills
<1>. QED BY <1>1, <1>2, <1>3, <1>4, <1>5, <1>6

(* The step of one process leaves the holder of the lock what it relies on.*)
LEMMA OthersHeld ==
  ASSUME IInv, NEW p \in Procs, Start(p) \/ Works(p) \/ Fail(p) \/ Crash(p),
         NEW q \in Procs \ {p}
  PROVE  Building(q)' /\ Undoing(q)'
<1>1. run'[q] = run[q]
  BY OwnState DEF IInv
<1>2. CASE run[q].at \notin Holding
  BY <1>1, <1>2, Resting
<1>3. CASE run[q].at \in Holding
  <2>1. run[p].at \notin Holding
    BY <1>3, Alone
  <2>2. ~Locked(p) /\ ~Fail(p)
    BY <2>1 DEF Locked, Begin, StageInstall, StageUninstall, Move, JournalPublish, Publish, Verify, Save,
                JournalCommit, Unpublish, Restore, Unremove, Clean, Erase, Discard, Fail, At, Holding
  <2>3. ~StoreConsumers(p)
    BY DEF StoreConsumers, IInv, Control, Adding, At, OneProcess
  <2>4. UNCHANGED <<root, manifest, tx, backup>>
    BY <2>2, <2>3 DEF Works, Start, Route, LoadConsumers, Enter, Crash, disk
  <2>. QED BY <1>1, <2>4 DEF IInv, Held, Building, Undoing, TxSkills, IsUninstall, Installed
<1>. QED BY <1>2, <1>3

(* An edit leaves it too.                                                  *)
LEMMA EditsHeld ==
  ASSUME IInv, NEW s \in Skills, UserEdits(s)
  PROVE  Held'
<1>1. TypeOK /\ Held /\ TxSkills \subseteq Skills
  BY UndoTyped DEF IInv
<1>2. UNCHANGED <<manifest, tx, lock, run>>
  BY UserEditsKeeps
<1>3. /\ \A t \in TxSkills : /\ root'[t] = None <=> root[t] = None
                             /\ backup'[t] = None <=> backup[t] = None
                             /\ root'[t] \in {root[t], Edited}
      /\ Installed(backup') = Installed(backup)
  BY <1>1, EditsInPlace
<1>4. ASSUME NEW p \in Procs PROVE Building(p)'
  BY <1>1, <1>2, <1>3 DEF Held, Building, TxSkills
<1>5. ASSUME NEW p \in Procs PROVE Undoing(p)'
  <2>1. \A t \in Skills : root'[t] = None <=> root[t] = None
    BY <1>1, EditsInPlace
  <2>2. tx.published \subseteq Skills
    BY <1>1, DiskTyped DEF Transaction
  <2>. QED BY <1>1, <1>2, <1>3, <2>1, <2>2 DEF Held, Undoing, TxSkills, IsUninstall
<1>. QED BY <1>4, <1>5 DEF Held

(* What each step leaves to the next one of the same process.              *)
LEMMA StageHeld ==
  ASSUME IInv, NEW p \in Procs, Begin(p) \/ StageInstall(p) \/ StageUninstall(p)
  PROVE  Building(p)' /\ Undoing(p)'
<1>1. TypeOK /\ Disk /\ Pending /\ Building(p) /\ run[p] \in Run
  BY Typed DEF IInv, Disk, Held
<1>2. \A s \in Skills : Installed(backup) = {} => backup[s] = None
  BY DEF Installed
<1>. USE <1>1, DiskTyped
<1>3. CASE Begin(p)
  <2>1. CASE run'[p].at = "idle"
    BY <2>1, Resting DEF Holding
  <2>2. CASE run'[p].at # "idle"
    <3>1. /\ run'[p].at = "stage" /\ run'[p].copy = manifest /\ run'[p].op = run[p].op
          /\ MayBegin(run[p]) /\ tx' = [NoTx EXCEPT !.id = txs + 1]
      BY <1>3, <2>2, BeginIs
    <3>2. manifest' = manifest /\ tx'.id = txs + 1 /\ tx'.journal = "none"
      BY <1>3, <3>1 DEF Begin, NoTx
    <3>3. run[p].op \in {"update", "uninstall"} => manifest.version # None
      BY <3>1 DEF MayBegin, Inspected
    <3>4. tx'.id # 0 /\ manifest.tx # tx'.id
      BY <3>2 DEF Pending
    <3>. QED BY <3>1, <3>2, <3>3, <3>4 DEF Building, Undoing, Working
  <2>. QED BY <2>1, <2>2
<1>4. CASE StageInstall(p)
  <2>1. /\ tx.id # 0 /\ manifest.tx # tx.id /\ run[p].copy = manifest
        /\ run[p].op = "update" => manifest.version # None
        /\ Installed(backup) = {}
        /\ run[p].version \in Versions
    BY <1>4 DEF StageInstall, At, Building, Working, Pending, IInv, Control, Asked
  <2>2. /\ tx'.journal = "PREPARED" /\ tx'.version = run[p].version /\ tx'.id = tx.id
        /\ manifest' = manifest /\ root' = root /\ backup' = backup
    BY <1>4 DEF StageInstall, Transaction
  <2>3. /\ run'[p].at = "move" /\ run'[p].copy = manifest /\ run'[p].op = run[p].op
        /\ run'[p].todo = SkillsOf[run[p].version] \cap Installed(root)
    BY <1>4, <2>1, StageInstallIs
  <2>4. TxSkills' = SkillsOf[run[p].version] /\ SkillsOf[run[p].version] \subseteq Skills
    BY <2>1, <2>2, InstallerAssumption DEF TxSkills
  <2>5. /\ \A s \in run'[p].todo : backup'[s] = None
        /\ \A s \in TxSkills' \ run'[p].todo : root'[s] = None
    BY <1>2, <2>1, <2>2, <2>3, <2>4 DEF Installed
  <2>. QED BY <2>1, <2>2, <2>3, <2>4, <2>5 DEF Building, Undoing, Working
<1>5. CASE StageUninstall(p)
  <2>1. /\ tx.id # 0 /\ manifest.tx # tx.id /\ run[p].copy = manifest
        /\ run[p].op = "uninstall" /\ manifest.version # None /\ Installed(backup) = {}
    BY <1>5 DEF StageUninstall, At, Building, Working, Pending
  <2>2. CASE Ends(p)
    BY <2>2, IdleIs, Resting DEF Ends, Holding
  <2>3. CASE ~Ends(p)
    <3>. DEFINE left == manifest.consumers \ run[p].consumers
    <3>1. /\ tx' = [tx EXCEPT !.journal = "UNINSTALL", !.version = manifest.version,
                              !.gen = manifest.gen, !.consumers = manifest.consumers,
                              !.remaining = left]
          /\ Does(p, "move", IF left = {} THEN SkillsOf[manifest.version] ELSE {})
          /\ manifest' = manifest /\ root' = root /\ backup' = backup
      BY <1>5, <2>1, <2>3 DEF StageUninstall
    <3>2. /\ tx'.journal = "UNINSTALL" /\ tx'.version = manifest.version /\ tx'.id = tx.id
          /\ tx'.remaining = left
      BY <3>1 DEF Transaction
    <3>3. /\ run'[p].at = "move" /\ run'[p].copy = manifest /\ run'[p].op = "uninstall"
          /\ run'[p].todo = IF left = {} THEN SkillsOf[manifest.version] ELSE {}
      BY <2>1, <3>1, DoesIs DEF Same
    <3>4. manifest.version \in Versions /\ SkillsOf[manifest.version] \subseteq Skills
      BY <2>1, ManifestIs, InstallerAssumption
    <3>5. TxSkills' = run'[p].todo /\ run'[p].todo \subseteq Skills
      BY <2>1, <3>2, <3>3, <3>4 DEF TxSkills
    <3>6. \A s \in run'[p].todo : backup'[s] = None
      BY <1>2, <2>1, <3>1, <3>5
    <3>. QED BY <2>1, <3>1, <3>2, <3>3, <3>5, <3>6 DEF Building, Undoing, Working
  <2>. QED BY <2>2, <2>3
<1>. QED BY <1>3, <1>4, <1>5

LEMMA MoveHeld ==
  ASSUME IInv, NEW p \in Procs, Move(p)
  PROVE  Building(p)' /\ Undoing(p)'
<1>1. TypeOK /\ Disk /\ Pending /\ Building(p) /\ run \in [Procs -> Run]
  BY Typed DEF IInv, Disk, Held
<1>2. /\ tx.id # 0 /\ manifest.tx # tx.id /\ run[p].copy = manifest /\ run[p].at = "move"
      /\ run[p].op = "update" => manifest.version # None
      /\ tx.journal \in {"PREPARED", "UNINSTALL"} /\ run[p].todo \subseteq TxSkills
      /\ \A s \in run[p].todo : backup[s] = None
      /\ \A s \in TxSkills \ run[p].todo : root[s] = None
  BY <1>1 DEF Move, At, Building, Working
<1>3. tx' = tx /\ manifest' = manifest
  BY DEF Move
<1>4. TxSkills' = TxSkills /\ TxSkills \subseteq Skills
  BY <1>1, <1>3, UndoTyped DEF TxSkills
<1>5. CASE \E s \in run[p].todo : Did(p, s)
  <2>1. PICK s \in run[p].todo : /\ backup' = [backup EXCEPT ![s] = root[s]]
                                 /\ root' = [root EXCEPT ![s] = None] /\ Did(p, s)
    BY <1>5 DEF Move
  <2>2. /\ run'[p].at = "move" /\ run'[p].copy = manifest /\ run'[p].op = run[p].op
        /\ run'[p].todo = run[p].todo \ {s}
    BY <1>1, <1>2, <2>1, DidIs DEF Same
  <2>3. /\ \A t \in run'[p].todo : backup'[t] = None
        /\ \A t \in TxSkills \ run'[p].todo : root'[t] = None
    BY <1>1, <1>2, <1>4, <2>1, <2>2, DiskTyped
  <2>. QED BY <1>2, <1>3, <1>4, <2>2, <2>3 DEF Building, Undoing, Working
<1>6. CASE run[p].todo = {}
  <2>1. /\ run'[p].at = IF IsUninstall THEN "verify" ELSE "journal_publish"
        /\ run'[p].copy = manifest /\ run'[p].op = run[p].op /\ root' = root
    BY <1>1, <1>2, <1>6, GoesIs DEF Same, Move
  <2>2. IsUninstall <=> tx.journal = "UNINSTALL"
    BY <1>1, <1>2 DEF Pending, Installing
  <2>3. \A s \in TxSkills : root[s] = None
    BY <1>2, <1>6
  <2>4. /\ run'[p].at \in {"verify", "journal_publish"}
        /\ run'[p].at = "verify" => tx.journal = "UNINSTALL"
        /\ run'[p].at = "journal_publish" => tx.journal = "PREPARED"
    BY <1>2, <2>1, <2>2
  <2>5. Building(p)'
    BY <1>2, <1>3, <1>4, <2>1, <2>3, <2>4 DEF Building, Working
  <2>6. Undoing(p)'
    BY <2>4 DEF Undoing
  <2>. QED BY <2>5, <2>6
<1>. QED BY <1>5, <1>6 DEF Move

LEMMA PublishHeld ==
  ASSUME IInv, NEW p \in Procs, JournalPublish(p) \/ Publish(p)
  PROVE  Building(p)' /\ Undoing(p)'
<1>1. TypeOK /\ Disk /\ Pending /\ Building(p) /\ run \in [Procs -> Run]
  BY Typed DEF IInv, Disk, Held
<1>2. /\ tx.id # 0 /\ manifest.tx # tx.id /\ run[p].copy = manifest
      /\ run[p].op = "update" => manifest.version # None
  BY <1>1 DEF JournalPublish, Publish, At, Building, Working
<1>3. tx.journal = "PUBLISHING" => tx.published = TxSkills
  BY <1>1 DEF Pending, TxSkills
<1>4. CASE JournalPublish(p)
  <2>1. \A s \in TxSkills : root[s] = None
    BY <1>1, <1>4 DEF JournalPublish, At, Building
  <2>2. /\ tx'.journal = "PUBLISHING" /\ tx'.version = tx.version /\ tx'.id = tx.id
        /\ manifest' = manifest /\ root' = root
    BY <1>1, <1>4, DiskTyped DEF JournalPublish, Transaction
  <2>3. /\ run'[p].at = "publish" /\ run'[p].todo = SkillsOf[tx.version]
        /\ run'[p].copy = manifest /\ run'[p].op = run[p].op
    BY <1>1, <1>2, <1>4, DoesIs DEF JournalPublish, Same
  <2>4. TxSkills' = run'[p].todo
    BY <2>2, <2>3 DEF TxSkills
  <2>. QED BY <1>2, <2>2, <2>3, <2>4 DEF Building, Undoing, Working
<1>5. CASE Publish(p)
  <2>1. /\ run[p].at = "publish" /\ tx.journal = "PUBLISHING" /\ run[p].todo \subseteq TxSkills
        /\ \A s \in TxSkills \ run[p].todo : root[s] \in {tx.version, Edited}
        /\ manifest' = manifest /\ tx' = tx
    BY <1>1, <1>5 DEF Publish, At, Building
  <2>2. TxSkills' = TxSkills /\ TxSkills \subseteq Skills
    BY <1>1, <2>1, UndoTyped DEF TxSkills
  <2>3. CASE \E s \in run[p].todo : Did(p, s)
    <3>1. PICK s \in run[p].todo : root' = [root EXCEPT ![s] = tx.version] /\ Did(p, s)
      BY <1>5, <2>3 DEF Publish
    <3>2. /\ run'[p].at = "publish" /\ run'[p].copy = manifest /\ run'[p].op = run[p].op
          /\ run'[p].todo = run[p].todo \ {s}
      BY <1>1, <1>2, <2>1, <3>1, DidIs DEF Same
    <3>3. \A t \in TxSkills \ run'[p].todo : root'[t] \in {tx.version, Edited}
      BY <1>1, <2>1, <2>2, <3>1, <3>2, DiskTyped
    <3>. QED BY <1>2, <2>1, <2>2, <3>2, <3>3 DEF Building, Undoing, Working
  <2>4. CASE run[p].todo = {}
    <3>1. /\ run'[p].at = "save" /\ run'[p].copy = manifest /\ run'[p].op = run[p].op
          /\ root' = root
      BY <1>1, <1>2, <1>5, <2>4, GoesIs DEF Publish, Same
    <3>2. \A s \in TxSkills : root[s] \in {tx.version, Edited}
      BY <2>1, <2>4
    <3>. QED BY <1>2, <2>1, <2>2, <3>1, <3>2 DEF Building, Undoing, Working
  <2>. QED BY <1>5, <2>3, <2>4 DEF Publish
<1>. QED BY <1>4, <1>5

LEMMA CommitHeld ==
  ASSUME IInv, NEW p \in Procs, Verify(p) \/ Save(p) \/ JournalCommit(p)
  PROVE  Building(p)' /\ Undoing(p)'
<1>1. TypeOK /\ Disk /\ Pending /\ Removal /\ Building(p) /\ run \in [Procs -> Run]
  BY Typed DEF IInv, Disk, Held
<1>2. CASE Verify(p)
  <2>1. /\ tx.id # 0 /\ manifest.tx # tx.id /\ run[p].copy = manifest /\ tx.journal = "UNINSTALL"
        /\ run[p].op = "update" => manifest.version # None
        /\ \A s \in TxSkills : root[s] = None
        /\ UNCHANGED disk
    BY <1>1, <1>2 DEF Verify, At, Building, Working
  <2>2. CASE Undoes(p, "idle")
    <3>1. \/ run'[p].at = "idle"
          \/ run'[p].at = Undo /\ run'[p].todo = UndoTodo
      BY <1>1, <2>2, UndoesIs
    <3>2. run'[p].at = "idle" => Building(p)' /\ Undoing(p)'
      BY Resting DEF Holding
    <3>. QED BY <1>1, <2>1, <3>1, <3>2, UndoReady
  <2>3. CASE Goes(p, "save")
    <3>1. run'[p].at = "save" /\ run'[p].copy = manifest /\ run'[p].op = run[p].op
      BY <1>1, <2>1, <2>3, GoesIs DEF Same
    <3>2. tx' = tx /\ manifest' = manifest /\ root' = root
      BY <2>1 DEF disk
    <3>3. TxSkills' = TxSkills
      BY <3>2 DEF TxSkills
    <3>. QED BY <2>1, <3>1, <3>2, <3>3 DEF Building, Undoing, Working
  <2>. QED BY <1>2, <2>2, <2>3 DEF Verify
<1>3. CASE Save(p)
  <2>1. manifest'.tx = tx.id /\ tx' = tx /\ run'[p].at = "journal"
    BY <1>1, <1>3, CommittedTyped, GoesIs DEF Save, At
  <2>2. tx.journal \in {"PUBLISHING", "UNINSTALL"}
    BY <1>1, <1>3 DEF Save, At, Building
  <2>. QED BY <2>1, <2>2 DEF Building, Undoing, Working
<1>4. CASE JournalCommit(p)
  <2>1. /\ tx.journal \in {"PUBLISHING", "UNINSTALL"} /\ manifest.tx = tx.id
        /\ manifest' = manifest /\ backup' = backup
    BY <1>1, <1>4 DEF JournalCommit, At, Building
  <2>2. tx'.journal = "COMMITTED" /\ tx'.id = tx.id /\ tx'.gen = tx.gen
    BY <1>1, <1>4, DiskTyped DEF JournalCommit, Transaction
  <2>3. tx.id # 0
    BY <1>1, <2>1 DEF Pending
  <2>4. CASE IsUninstall
    <3>1. run'[p].at = "clean" /\ run'[p].todo = Installed(backup)
      BY <1>1, <1>4, <2>4, DoesIs DEF JournalCommit
    <3>. QED BY <2>1, <2>2, <2>4, <3>1 DEF Building, Undoing, Working, IsUninstall
  <2>5. CASE ~IsUninstall
    <3>1. run'[p].at = "discard"
      BY <1>1, <1>4, <2>5, GoesIs DEF JournalCommit
    <3>. QED BY <2>1, <2>2, <2>3, <2>5, <3>1 DEF Building, Undoing, Working, IsUninstall
  <2>. QED BY <2>4, <2>5
<1>. QED BY <1>2, <1>3, <1>4

LEMMA RestoreHeld ==
  ASSUME Excluded, IInv, NEW p \in Procs, Unpublish(p) \/ Restore(p)
  PROVE  Building(p)' /\ Undoing(p)'
<1>1. TypeOK /\ Disk /\ Pending /\ Undoing(p) /\ run \in [Procs -> Run]
  BY Typed DEF IInv, Disk, Held
<1>2. tx.journal \in Installing /\ manifest.tx # tx.id /\ tx' = tx /\ manifest' = manifest
  BY <1>1 DEF Unpublish, Restore, At, Undoing
<1>3. /\ tx.id # 0 /\ ~IsUninstall
      /\ root \in [Skills -> Content] /\ backup \in [Skills -> Content]
  BY <1>1, <1>2, DiskTyped DEF Pending, Installing
<1>4. run'[p].at \notin Working \cup {"begin", "stage", "save", "journal"} => Building(p)'
  BY DEF Building, Working
<1>5. CASE Unpublish(p)
  <2>1. /\ run[p].at = "unpublish" /\ run[p].todo \subseteq tx.published /\ backup' = backup
        /\ \A s \in tx.published \ run[p].todo : root[s] = None
    BY <1>1, <1>5 DEF Unpublish, At, Undoing
  <2>2. CASE \E s \in run[p].todo : Did(p, s)
    <3>1. PICK s \in run[p].todo : root' = [root EXCEPT ![s] = None] /\ Did(p, s)
      BY <1>5, <2>2 DEF Unpublish
    <3>2. run'[p].at = "unpublish" /\ run'[p].todo = run[p].todo \ {s}
      BY <1>1, <2>1, <3>1, DidIs
    <3>3. tx.published \subseteq Skills
      BY <1>1, DiskTyped DEF Transaction
    <3>4. \A t \in tx.published \ run'[p].todo : root'[t] = None
      BY <1>3, <2>1, <3>1, <3>2, <3>3
    <3>5. Building(p)'
      BY <1>4, <3>2 DEF Working
    <3>. QED BY <1>2, <2>1, <3>2, <3>4, <3>5 DEF Undoing
  <2>3. CASE run[p].todo = {}
    <3>1. Does(p, "restore", {s \in Installed(backup) : LinkResolves \/ backup[s] # Link})
      BY <1>5, <2>3 DEF Unpublish
    <3>2. {s \in Installed(backup) : LinkResolves \/ backup[s] # Link} = Installed(backup)
      BY DEF Excluded, IInv, LinksFromUser, Installed
    <3>3. run'[p].at = "restore" /\ run'[p].todo = Installed(backup)
      BY <1>1, <3>1, <3>2, DoesIs
    <3>4. Building(p)'
      BY <1>4, <3>3 DEF Working
    <3>. QED BY <1>2, <2>1, <3>3, <3>4 DEF Undoing
  <2>. QED BY <1>5, <2>2, <2>3 DEF Unpublish
<1>6. CASE Restore(p)
  <2>1. run[p].at = "restore" /\ run[p].todo = Installed(backup)
    BY <1>1, <1>6 DEF Restore, At, Undoing
  <2>2. CASE \E s \in run[p].todo : Did(p, s)
    <3>1. PICK s \in run[p].todo : backup' = [backup EXCEPT ![s] = None] /\ Did(p, s)
      BY <1>6, <2>2 DEF Restore
    <3>2. run'[p].at = "restore" /\ run'[p].todo = run[p].todo \ {s}
      BY <1>1, <2>1, <3>1, DidIs
    <3>3. Installed(backup') = Installed(backup) \ {s}
      BY <1>3, <2>1, <3>1 DEF Installed
    <3>4. Building(p)'
      BY <1>4, <3>2 DEF Working
    <3>5. run'[p].todo = Installed(backup')
      BY <2>1, <3>2, <3>3
    <3>. QED BY <1>2, <3>2, <3>4, <3>5 DEF Undoing
  <2>3. CASE run[p].todo = {}
    <3>1. run'[p].at = "discard" /\ backup' = backup
      BY <1>1, <1>6, <2>3, GoesIs DEF Restore
    <3>2. Building(p)'
      BY <1>4, <3>1 DEF Working
    <3>3. Installed(backup') = {}
      BY <2>1, <2>3, <3>1
    <3>. QED BY <1>2, <1>3, <3>1, <3>2, <3>3 DEF Undoing
  <2>. QED BY <1>6, <2>2, <2>3 DEF Restore
<1>. QED BY <1>5, <1>6

LEMMA CleanHeld ==
  ASSUME IInv, NEW p \in Procs, Unremove(p) \/ Clean(p) \/ Erase(p)
  PROVE  Building(p)' /\ Undoing(p)'
<1>1. TypeOK /\ Disk /\ Pending /\ Removal /\ Undoing(p) /\ run \in [Procs -> Run]
  BY Typed DEF IInv, Disk, Held
<1>2. tx' = tx /\ manifest' = manifest /\ backup \in [Skills -> Content]
  BY <1>1, DiskTyped DEF Unremove, Clean, Erase, disk
<1>3. TxSkills' = TxSkills /\ TxSkills \subseteq Skills
  BY <1>1, <1>2, UndoTyped DEF TxSkills
<1>4. run'[p].at \notin Working \cup {"begin", "stage", "save", "journal"} => Building(p)'
  BY DEF Building, Working
<1>5. CASE run' = [run EXCEPT ![p] = Idle]
  BY <1>1, <1>5, IdleIs, Resting DEF Holding
<1>6. CASE Unremove(p) /\ run' # [run EXCEPT ![p] = Idle]
  <2>1. /\ run[p].at = "unremove" /\ tx.journal = "UNINSTALL" /\ manifest.tx # tx.id
        /\ run[p].todo \subseteq TxSkills /\ \A s \in TxSkills \ run[p].todo : backup[s] = None
    BY <1>1, <1>6 DEF Unremove, At, Undoing
  <2>2. CASE \E s \in run[p].todo : Did(p, s)
    <3>1. PICK s \in run[p].todo : /\ Did(p, s)
                                   /\ IF backup[s] # None THEN backup' = [backup EXCEPT ![s] = None]
                                                          ELSE backup' = backup
      BY <1>6, <2>2 DEF Unremove
    <3>2. run'[p].at = "unremove" /\ run'[p].todo = run[p].todo \ {s}
      BY <1>1, <2>1, <3>1, DidIs
    <3>3. \A t \in TxSkills \ run'[p].todo : backup'[t] = None
      BY <1>2, <1>3, <2>1, <3>1, <3>2
    <3>4. Building(p)'
      BY <1>4, <3>2 DEF Working
    <3>. QED BY <1>2, <1>3, <2>1, <3>2, <3>3, <3>4 DEF Undoing
  <2>3. CASE run[p].todo = {}
    <3>1. run'[p].at = "discard" /\ backup' = backup
      BY <1>1, <1>6, <2>3, GoesIs DEF Unremove
    <3>2. tx.id # 0 /\ Installed(backup) \subseteq SkillsOf[tx.version] /\ tx.version \in Versions
      BY <1>1, <2>1 DEF Pending
    <3>3. Installed(backup) \cap TxSkills = {}
      BY <2>1, <2>3 DEF Installed
    <3>4. tx.remaining = {} => TxSkills = SkillsOf[tx.version]
      BY <2>1, <3>2, NullIs DEF TxSkills
    <3>5. tx.remaining # {} => Installed(backup) = {}
      BY <1>1, <2>1 DEF Pending, Removal
    <3>6. Installed(backup) = {}
      BY <3>2, <3>3, <3>4, <3>5
    <3>7. Installed(backup') = {}
      BY <3>1, <3>6
    <3>8. Building(p)'
      BY <1>4, <3>1 DEF Working
    <3>. QED BY <1>2, <3>1, <3>2, <3>7, <3>8 DEF Undoing
  <2>. QED BY <1>6, <2>2, <2>3 DEF Unremove
<1>7. CASE Clean(p) /\ run' # [run EXCEPT ![p] = Idle]
  <2>1. /\ run[p].at = "clean" /\ tx.journal \in {"UNINSTALL", "COMMITTED"} /\ IsUninstall
        /\ manifest.tx = tx.id /\ Installed(backup) \subseteq run[p].todo
    BY <1>1, <1>7 DEF Clean, At, Undoing
  <2>2. CASE \E s \in run[p].todo : Does(p, "erase", {s})
    <3>1. run'[p].at = "erase"
      BY <1>1, <2>2, DoesIs
    <3>2. Building(p)'
      BY <1>4, <3>1 DEF Working
    <3>. QED BY <1>2, <2>1, <3>1, <3>2 DEF Undoing, IsUninstall
  <2>3. CASE run[p].todo = {}
    <3>1. run'[p].at = "discard" /\ backup' = backup
      BY <1>1, <1>7, <2>3, GoesIs DEF Clean, disk
    <3>2. Installed(backup') = {} /\ tx.id # 0
      BY <1>1, <2>1, <2>3, <3>1 DEF Pending
    <3>3. Building(p)'
      BY <1>4, <3>1 DEF Working
    <3>. QED BY <1>2, <3>1, <3>2, <3>3 DEF Undoing
  <2>. QED BY <1>7, <2>2, <2>3 DEF Clean
<1>8. CASE Erase(p)
  <2>1. /\ tx.journal \in {"UNINSTALL", "COMMITTED"} /\ IsUninstall /\ manifest.tx = tx.id
    BY <1>1, <1>8 DEF Erase, At, Undoing
  <2>2. PICK s \in run[p].todo : /\ backup' = [backup EXCEPT ![s] = None]
                                 /\ Does(p, "clean", Installed(backup) \ {s})
    BY <1>8 DEF Erase
  <2>3. run'[p].at = "clean" /\ run'[p].todo = Installed(backup) \ {s}
    BY <1>1, <2>2, DoesIs
  <2>4. Installed(backup') \subseteq run'[p].todo
    BY <1>2, <2>2, <2>3 DEF Installed
  <2>5. Building(p)'
    BY <1>4, <2>3 DEF Working
  <2>. QED BY <1>2, <2>1, <2>3, <2>4, <2>5 DEF Undoing, IsUninstall
<1>. QED BY <1>5, <1>6, <1>7, <1>8

LEMMA GaveUpHeld ==
  ASSUME IInv, NEW p \in Procs, Discard(p) \/ Fail(p)
  PROVE  Building(p)' /\ Undoing(p)'
<1>1. TypeOK /\ Disk /\ Pending /\ Building(p) /\ run \in [Procs -> Run]
  BY Typed DEF IInv, Disk, Held
<1>2. CASE run'[p].at = "idle"
  BY <1>2, Resting DEF Holding
<1>3. CASE Discard(p) /\ run'[p].at # "idle"
  <2>1. run'[p].at \in {"begin", "route"}
    BY <1>1, <1>3, DiscardIs DEF IInv, Control, Asked
  <2>2. tx'.id = 0
    BY <1>3 DEF Discard, NoTx
  <2>. QED BY <2>1, <2>2 DEF Building, Undoing, Working
<1>4. CASE Fail(p) /\ run'[p].at # "idle"
  <2>1. Undoes(p, "idle")
    <3>1. ~Ends(p)
      BY <1>1, <1>4, IdleIs DEF Ends
    <3>. QED BY <1>4, <3>1 DEF Fail
  <2>2. run'[p].at = Undo /\ run'[p].todo = UndoTodo
    BY <1>1, <1>4, <2>1, UndoesIs
  <2>3. tx.id # 0
    BY <1>1, <1>4 DEF Fail, Building, Working, Pending
  <2>4. UNCHANGED disk
    BY <1>4 DEF Fail
  <2>. QED BY <1>1, <2>2, <2>3, <2>4, UndoReady
<1>. QED BY <1>2, <1>3, <1>4

LEMMA HeldStep ==
  ASSUME Excluded, IInv, Next
  PROVE  Held'
<1>1. CASE \E s \in Skills : UserEdits(s)
  BY <1>1, EditsHeld
<1>2. ASSUME NEW p \in Procs, Start(p) \/ Works(p) \/ Fail(p) \/ Crash(p)
      PROVE  Building(p)' /\ Undoing(p)'
  <2>1. TypeOK /\ Disk /\ run \in [Procs -> Run]
    BY Typed DEF IInv
  <2>2. CASE run'[p].at \notin Holding
    BY <2>2, Resting
  <2>3. CASE Start(p) \/ Route(p) \/ LoadConsumers(p) \/ StoreConsumers(p) \/ Crash(p)
    <3>1. run'[p].at \notin Holding
      BY <2>1, <2>3, StartIs, RouteIs, LoadIs, IdleIs DEF StoreConsumers, Crash, Holding
    <3>. QED BY <2>2, <3>1
  <2>4. CASE Enter(p) /\ run'[p].at \in Holding
    <3>1. \/ run'[p].at = Undo /\ run'[p].todo = UndoTodo /\ tx.id # 0
          \/ run'[p].at = "begin" /\ tx.id = 0
      BY <2>1, <2>4, EnterIs DEF Holding
    <3>2. UNCHANGED disk
      BY <2>4 DEF Enter
    <3>3. CASE run'[p].at = "begin" /\ tx.id = 0
      <4>1. tx'.id = 0
        BY <3>2, <3>3 DEF disk
      <4>. QED BY <3>3, <4>1 DEF Building, Undoing, Working
    <3>. QED BY <2>1, <3>1, <3>2, <3>3, UndoReady
  <2>5. CASE Locked(p)
    BY <2>5, StageHeld, MoveHeld, PublishHeld, CommitHeld, RestoreHeld, CleanHeld, GaveUpHeld
       DEF Locked
  <2>6. CASE Fail(p)
    BY <2>6, GaveUpHeld
  <2>. QED BY <1>2, <2>2, <2>3, <2>4, <2>5, <2>6 DEF Works
<1>3. CASE \E p \in Procs : Start(p) \/ Works(p) \/ Fail(p) \/ Crash(p)
  <2>1. PICK p \in Procs : Start(p) \/ Works(p) \/ Fail(p) \/ Crash(p)
    BY <1>3
  <2>2. ASSUME NEW q \in Procs PROVE Building(q)' /\ Undoing(q)'
    <3>1. CASE q = p
      BY <1>2, <2>1, <3>1
    <3>2. CASE q # p
      BY <2>1, <3>2, OthersHeld
    <3>. QED BY <3>1, <3>2
  <2>. QED BY <2>2 DEF Held
<1>. QED BY <1>1, <1>3 DEF Next

-----------------------------------------------------------------------------
(* What the skills are, a transaction under way included.                  *)

Reverting == \E p \in Procs : lock = p /\ Restoring(p)
Shows(s) ==
  IF ~Uncommitted THEN root[s]
  ELSE IF backup[s] # None THEN backup[s]
  ELSE IF s \in tx.published /\ ~Reverting THEN None ELSE root[s]

LEMMA ShownIs == Shown = [s \in Skills |-> Shows(s)]
BY DEF Shown, Shows, Reverting

LEMMA ShownSame ==
  ASSUME \A s \in Skills : Shows(s)' = Shows(s)
  PROVE  Shown' = Shown
BY DEF Shown, Shows, Reverting

(* Only an installation that is publishing has published anything, and it  *)
(* is first unpublished by a recovery.                                     *)
LEMMA PublishedIs ==
  ASSUME TypeOK, Disk, Uncommitted
  PROVE  /\ tx.published # {} => /\ tx.journal = "PUBLISHING" /\ ~IsUninstall
                                 /\ tx.published = SkillsOf[tx.version] /\ Undo = "unpublish"
         /\ tx.published \subseteq Skills
<1>1. Pending /\ Removal /\ tx.journal \in Journals /\ tx.published \subseteq Skills
  BY DiskTyped DEF Disk, Transaction
<1>2. tx.id # 0 /\ manifest.tx # tx.id
  BY DEF Uncommitted
<1>3. CASE tx.journal = "none"
  <2>1. tx.published = {}
    BY <1>1, <1>3 DEF Pending, NoTx
  <2>. QED BY <1>1, <2>1
<1>4. CASE tx.journal = "PREPARED" \/ tx.journal = "UNINSTALL"
  <2>1. tx.published = {}
    BY <1>1, <1>4 DEF Pending, Removal
  <2>. QED BY <1>1, <2>1
<1>5. CASE tx.journal = "PUBLISHING"
  <2>1. ~IsUninstall /\ tx.published = SkillsOf[tx.version]
    BY <1>1, <1>5 DEF Pending, Installing
  <2>. QED BY <1>1, <1>2, <1>5, <2>1 DEF Undo
<1>6. tx.journal # "COMMITTED"
  BY <1>1, <1>2 DEF Pending
<1>. QED BY <1>1, <1>3, <1>4, <1>5, <1>6 DEF Journals

(* Nothing is shown to change while the disk stays as it is.               *)
LEMMA ShownIdle ==
  ASSUME UNCHANGED disk,
         Uncommitted /\ tx.published # {} => (Reverting' <=> Reverting)
  PROVE  Shown' = Shown
<1>1. root' = root /\ manifest' = manifest /\ tx' = tx /\ backup' = backup
  BY DEF disk
<1>2. Uncommitted' <=> Uncommitted
  BY <1>1 DEF Uncommitted
<1>. SUFFICES ASSUME NEW s \in Skills PROVE Shows(s)' = Shows(s)
  BY ShownSame
<1>3. CASE ~Uncommitted \/ s \notin tx.published
  BY <1>1, <1>2, <1>3 DEF Shows
<1>4. CASE Uncommitted /\ s \in tx.published
  <2>1. Reverting' <=> Reverting
    BY <1>4
  <2>. QED BY <1>1, <1>2, <1>4, <2>1 DEF Shows
<1>. QED BY <1>3, <1>4

(* Whether an installation is being put back depends on who has the lock.  *)
LEMMA RevertingIs ==
  /\ \A p \in Procs : lock = p => (Reverting <=> Restoring(p))
  /\ \A p \in Procs : lock' = p => (Reverting' <=> Restoring(p)')
  /\ lock = None => ~Reverting
  /\ lock' = None => ~Reverting'
BY NullIs DEF Reverting

LEMMA IdleShown ==
  ASSUME Excluded, IInv, NEW p \in Procs,
         \/ Start(p) \/ Route(p) \/ LoadConsumers(p) \/ Enter(p) \/ Verify(p)
         \/ Fail(p) \/ Crash(p)
  PROVE  Shown' = Shown
<1>1. UNCHANGED disk
  BY DEF Start, Route, LoadConsumers, Enter, Verify, Fail, Crash
<1>. SUFFICES ASSUME Uncommitted, tx.published # {} PROVE Reverting' <=> Reverting
  BY <1>1, ShownIdle
<1>2. /\ TypeOK /\ Disk /\ LockHeld /\ run \in [Procs -> Run] /\ Undo = "unpublish"
      /\ tx.id # 0 /\ manifest.tx # tx.id /\ tx.journal = "PUBLISHING" /\ lock \in Procs \cup {None}
  BY PublishedIs, Typed DEF IInv, Control, Uncommitted
<1>3. \A q \in Procs \ {p} : Restoring(q)' <=> Restoring(q)
  BY <1>1, OwnState DEF Restoring, disk, IInv, Works, Locked
<1>4. CASE run[p].at \notin Holding /\ lock' = lock
  <2>1. lock # p
    BY <1>2, <1>4 DEF LockHeld
  <2>. QED BY <1>3, <1>4, <2>1 DEF Reverting
<1>5. CASE Start(p) \/ Route(p) \/ LoadConsumers(p)
  BY <1>4, <1>5 DEF Start, Route, LoadConsumers, At, Holding
<1>6. CASE Enter(p)
  <2>1. run[p].at \notin Holding
    BY <1>6 DEF Enter, At, Holding
  <2>2. CASE lock' # lock
    <3>1. lock = None /\ lock' = p /\ run'[p].at = "unpublish"
      BY <1>2, <1>6, <2>2, EnterIs
    <3>2. ~Restoring(p)'
      BY <3>1 DEF Restoring
    <3>. QED BY <3>1, <3>2, RevertingIs
  <2>. QED BY <1>4, <2>1, <2>2
<1>7. CASE Verify(p)
  <2>1. tx.journal = "UNINSTALL"
    BY <1>7 DEF Verify, At, IInv, Held, Building
  <2>. QED BY <1>2, <2>1
<1>8. CASE Fail(p)
  <2>1. run[p].at \in Working \cup {"journal"}
    BY <1>8 DEF Fail, Working
  <2>2. run[p].at # "journal"
    BY <1>2 DEF IInv, Held, Building
  <2>3. Undoes(p, "idle")
    BY <1>8, <2>2 DEF Fail, At
  <2>4. run'[p].at = "unpublish" /\ lock' = lock
    BY <1>2, <2>3, UndoesIs
  <2>5. lock = p
    BY <2>1, Alone DEF Holding, Working
  <2>6. ~Restoring(p) /\ ~Restoring(p)'
    BY <2>1, <2>4 DEF Restoring, Working
  <2>. QED BY <2>4, <2>5, <2>6, RevertingIs
<1>9. CASE Crash(p)
  <2>1. ~Restoring(p)
    BY <1>9 DEF Crash, Excluded
  <2>2. CASE lock = p
    BY <1>9, <2>1, <2>2, RevertingIs DEF Crash
  <2>3. CASE lock # p
    <3>1. lock' = lock
      BY <1>9, <2>3 DEF Crash
    <3>. QED BY <1>3, <2>3, <3>1 DEF Reverting
  <2>. QED BY <2>2, <2>3
<1>. QED BY <1>5, <1>6, <1>7, <1>8, <1>9

(* The steps of a transaction before its commit: what is moved away is     *)
(* shown where it lies, and what is published is not shown yet.            *)
LEMMA BuildShown ==
  ASSUME IInv, NEW p \in Procs,
         \/ Begin(p) \/ StageInstall(p) \/ StageUninstall(p) \/ Move(p)
         \/ JournalPublish(p) \/ Publish(p)
  PROVE  Shown' = Shown
<1>1. /\ TypeOK /\ Disk /\ Pending /\ Removal /\ LockHeld /\ Building(p)
      /\ run \in [Procs -> Run] /\ lock' \in Procs \cup {None}
  <2>1. TypeOK /\ Disk /\ Pending /\ Removal /\ LockHeld /\ Building(p) /\ run \in [Procs -> Run]
    BY Typed DEF IInv, Disk, Held, Control
  <2>2. lock' = lock \/ lock' = None
    BY DEF Begin, StageInstall, StageUninstall, Move, JournalPublish, Publish, Ends
  <2>. QED BY <2>1, <2>2, Typed
<1>2. manifest' = manifest
  BY DEF Begin, StageInstall, StageUninstall, Move, JournalPublish, Publish
<1>3. root \in [Skills -> Content] /\ backup \in [Skills -> Content]
  BY <1>1, DiskTyped
<1>4. \A s \in Skills : Installed(backup) = {} => backup[s] = None
  BY DEF Installed
<1>. SUFFICES ASSUME NEW s \in Skills PROVE Shows(s)' = Shows(s)
  BY ShownSame
<1>5. CASE Begin(p)
  <2>1. tx.id = 0 /\ tx.journal = "none" /\ Installed(backup) = {}
    BY <1>1, <1>5 DEF Begin, At, Building, Pending
  <2>2. UNCHANGED tx \/ tx'.published = {}
    BY <1>1, <1>5, BeginIs DEF NoTx
  <2>3. root' = root /\ backup' = backup
    BY <1>5 DEF Begin
  <2>4. Shows(s) = root[s]
    BY <2>1 DEF Shows, Uncommitted
  <2>5. CASE tx' = tx
    BY <2>1, <2>3, <2>4, <2>5 DEF Shows, Uncommitted
  <2>6. CASE tx'.published = {}
    BY <1>4, <2>1, <2>3, <2>4, <2>6 DEF Shows
  <2>. QED BY <2>2, <2>5, <2>6
<1>6. CASE StageInstall(p) \/ StageUninstall(p)
  <2>1. /\ tx = [NoTx EXCEPT !.id = tx.id] /\ Installed(backup) = {}
        /\ root' = root /\ backup' = backup
    BY <1>1, <1>6 DEF StageInstall, StageUninstall, At, Building, Pending
  <2>2. tx.published = {}
    BY <2>1 DEF NoTx
  <2>3. tx'.published = {}
    <3>1. tx'.published = tx.published \/ tx' = NoTx
      BY <1>1, <1>6, DiskTyped DEF StageInstall, StageUninstall, Transaction
    <3>. QED BY <2>2, <3>1 DEF NoTx
  <2>4. Shows(s) = root[s]
    BY <1>4, <2>1, <2>2 DEF Shows
  <2>5. Shows(s)' = root[s]
    BY <1>4, <2>1, <2>3 DEF Shows
  <2>. QED BY <2>4, <2>5
<1>7. CASE Move(p)
  <2>1. /\ tx.id # 0 /\ manifest.tx # tx.id /\ tx' = tx /\ tx.published = {}
        /\ \A t \in run[p].todo : backup[t] = None
        /\ run[p].todo \subseteq Skills
    <3>1. /\ tx.id # 0 /\ manifest.tx # tx.id /\ tx' = tx
          /\ tx.journal \in {"PREPARED", "UNINSTALL"} /\ run[p].todo \subseteq TxSkills
          /\ \A t \in run[p].todo : backup[t] = None
      BY <1>1, <1>7 DEF Move, At, Building, Working
    <3>2. tx.published = {} /\ TxSkills \subseteq Skills
      BY <1>1, <3>1, UndoTyped DEF Pending, Removal
    <3>. QED BY <3>1, <3>2
  <2>2. Uncommitted /\ Uncommitted'
    BY <1>2, <2>1 DEF Uncommitted
  <2>3. /\ Shows(s) = IF backup[s] # None THEN backup[s] ELSE root[s]
        /\ Shows(s)' = IF backup'[s] # None THEN backup'[s] ELSE root'[s]
    BY <2>1, <2>2 DEF Shows
  <2>4. \/ root' = root /\ backup' = backup
        \/ \E t \in run[p].todo : backup' = [backup EXCEPT ![t] = root[t]] /\ root' = [root EXCEPT ![t] = None]
    BY <1>7 DEF Move
  <2>. QED BY <1>3, <2>1, <2>3, <2>4
<1>8. CASE JournalPublish(p)
  <2>1. /\ tx.id # 0 /\ manifest.tx # tx.id /\ tx.journal = "PREPARED"
        /\ \A t \in TxSkills : root[t] = None
    BY <1>1, <1>8 DEF JournalPublish, At, Building, Working
  <2>2. tx.published = {} /\ TxSkills = SkillsOf[tx.version]
    BY <1>1, <2>1 DEF Pending, TxSkills
  <2>3. /\ tx'.published = SkillsOf[tx.version] /\ tx'.id = tx.id
        /\ root' = root /\ backup' = backup
    BY <1>1, <1>8, DiskTyped DEF JournalPublish, Transaction
  <2>4. Uncommitted /\ Uncommitted'
    BY <1>2, <2>1, <2>3 DEF Uncommitted
  <2>5. Shows(s) = IF backup[s] # None THEN backup[s] ELSE root[s]
    BY <2>2, <2>4 DEF Shows
  <2>6. Shows(s)' = IF backup[s] # None THEN backup[s] ELSE root[s]
    BY <2>1, <2>2, <2>3, <2>4 DEF Shows
  <2>. QED BY <2>5, <2>6
<1>9. CASE Publish(p)
  <2>1. /\ tx.id # 0 /\ manifest.tx # tx.id /\ tx.journal = "PUBLISHING" /\ tx' = tx
        /\ run[p].todo \subseteq TxSkills /\ backup' = backup /\ lock' = lock /\ run[p].at = "publish"
    BY <1>1, <1>9 DEF Publish, At, Building, Working
  <2>2. tx.published = TxSkills
    BY <1>1, <2>1 DEF Pending, TxSkills
  <2>3. Uncommitted /\ Uncommitted'
    BY <1>2, <2>1 DEF Uncommitted
  <2>4. run'[p].at \in {"publish", "save"}
    <3>1. (\E t \in run[p].todo : Did(p, t)) \/ Goes(p, "save")
      BY <1>9 DEF Publish
    <3>. QED BY <1>1, <2>1, <3>1, DidIs, GoesIs
  <2>5. ~Restoring(p) /\ ~Restoring(p)' /\ lock = p
    BY <1>1, <2>1, <2>4 DEF Restoring, LockHeld, Holding
  <2>6. ~Reverting /\ ~Reverting'
    BY <2>1, <2>5, RevertingIs
  <2>7. s \notin TxSkills => root'[s] = root[s]
    BY <1>3, <1>9, <2>1 DEF Publish
  <2>. QED BY <2>1, <2>2, <2>3, <2>6, <2>7 DEF Shows
<1>. QED BY <1>5, <1>6, <1>7, <1>8, <1>9

(* The steps after the commit, and those that put back what was moved.     *)
LEMMA UndoShown ==
  ASSUME IInv, NEW p \in Procs,
         \/ JournalCommit(p) \/ Unpublish(p) \/ Restore(p) \/ Unremove(p) \/ Clean(p)
         \/ Erase(p) \/ Discard(p)
  PROVE  Shown' = Shown
<1>1. /\ TypeOK /\ Disk /\ Pending /\ Removal /\ LockHeld /\ Building(p) /\ Undoing(p)
      /\ run \in [Procs -> Run]
  BY Typed DEF IInv, Disk, Held, Control
<1>2. manifest' = manifest
  BY DEF JournalCommit, Unpublish, Restore, Unremove, Clean, Erase, Discard, disk
<1>3. root \in [Skills -> Content] /\ backup \in [Skills -> Content]
  BY <1>1, DiskTyped
<1>4. lock = p
  BY <1>1 DEF JournalCommit, Unpublish, Restore, Unremove, Clean, Erase, Discard, At, LockHeld, Holding
<1>. SUFFICES ASSUME NEW s \in Skills PROVE Shows(s)' = Shows(s)
  BY ShownSame
<1>5. CASE JournalCommit(p)
  <2>1. manifest.tx = tx.id /\ tx'.id = tx.id /\ root' = root
    BY <1>1, <1>5, DiskTyped DEF JournalCommit, At, Building, Transaction
  <2>. QED BY <1>2, <2>1 DEF Shows, Uncommitted
<1>6. CASE Unpublish(p)
  <2>1. /\ tx.journal \in Installing /\ manifest.tx # tx.id /\ tx' = tx /\ backup' = backup /\ lock' = lock
        /\ run[p].at = "unpublish" /\ run[p].todo \subseteq tx.published
        /\ \A t \in tx.published \ run[p].todo : root[t] = None
    BY <1>1, <1>6 DEF Unpublish, At, Undoing
  <2>2. Uncommitted /\ Uncommitted'
    BY <1>1, <1>2, <2>1 DEF Uncommitted, Pending, Installing
  <2>3. ~Reverting
    BY <1>4, <2>1, RevertingIs DEF Restoring
  <2>4. CASE \E t \in run[p].todo : Did(p, t)
    <3>1. PICK t \in run[p].todo : root' = [root EXCEPT ![t] = None] /\ Did(p, t)
      BY <1>6, <2>4 DEF Unpublish
    <3>2. run'[p].at = "unpublish"
      BY <1>1, <2>1, <3>1, DidIs
    <3>3. ~Reverting'
      BY <1>4, <2>1, <3>2, RevertingIs DEF Restoring
    <3>4. s \notin tx.published => root'[s] = root[s]
      BY <1>3, <2>1, <3>1
    <3>. QED BY <2>1, <2>2, <2>3, <3>3, <3>4 DEF Shows
  <2>5. CASE run[p].todo = {}
    <3>1. root' = root /\ \A t \in tx.published : root[t] = None
      BY <1>6, <2>1, <2>5 DEF Unpublish
    <3>. QED BY <2>1, <2>2, <3>1 DEF Shows
  <2>. QED BY <1>6, <2>4, <2>5 DEF Unpublish
<1>7. CASE Restore(p)
  <2>1. /\ tx.journal \in Installing /\ manifest.tx # tx.id /\ tx' = tx /\ lock' = lock
        /\ run[p].at = "restore"
    BY <1>1, <1>7 DEF Restore, At, Undoing
  <2>2. Uncommitted /\ Uncommitted'
    BY <1>1, <1>2, <2>1 DEF Uncommitted, Pending, Installing
  <2>3. run'[p].at \in {"restore", "discard"}
    <3>1. (\E t \in run[p].todo : Did(p, t)) \/ Goes(p, "discard")
      BY <1>7 DEF Restore
    <3>. QED BY <1>1, <2>1, <3>1, DidIs, GoesIs
  <2>4. tx.published # {} => Reverting /\ Reverting'
    <3>1. tx.published # {} => Restoring(p) /\ Restoring(p)'
      BY <1>2, <2>1, <2>3 DEF Restoring
    <3>. QED BY <1>4, <2>1, <3>1, RevertingIs
  <2>5. /\ Shows(s) = IF backup[s] # None THEN backup[s] ELSE root[s]
        /\ Shows(s)' = IF backup'[s] # None THEN backup'[s] ELSE root'[s]
    <3>1. CASE s \in tx.published
      <4>1. Reverting /\ Reverting'
        BY <2>4, <3>1
      <4>. QED BY <2>2, <4>1 DEF Shows
    <3>2. CASE s \notin tx.published
      BY <2>1, <2>2, <3>2 DEF Shows
    <3>. QED BY <3>1, <3>2
  <2>6. \/ root' = root /\ backup' = backup
        \/ \E t \in run[p].todo : root' = [root EXCEPT ![t] = backup[t]] /\ backup' = [backup EXCEPT ![t] = None]
    BY <1>7 DEF Restore
  <2>7. run[p].todo = Installed(backup)
    BY <1>1, <1>7 DEF Restore, At, Undoing
  <2>8. \A t \in run[p].todo : backup[t] # None /\ t \in Skills
    BY <2>7 DEF Installed
  <2>. QED BY <1>3, <2>5, <2>6, <2>8
<1>8. CASE Unremove(p)
  <2>1. /\ tx.journal = "UNINSTALL" /\ manifest.tx # tx.id /\ tx' = tx
        /\ run[p].todo \subseteq TxSkills
    BY <1>1, <1>8 DEF Unremove, At, Undoing
  <2>2. tx.published = {} /\ TxSkills \subseteq Skills
    BY <1>1, <2>1, UndoTyped DEF Pending, Removal
  <2>3. Uncommitted /\ Uncommitted'
    BY <1>1, <1>2, <2>1 DEF Uncommitted, Pending
  <2>4. /\ Shows(s) = IF backup[s] # None THEN backup[s] ELSE root[s]
        /\ Shows(s)' = IF backup'[s] # None THEN backup'[s] ELSE root'[s]
    BY <2>1, <2>2, <2>3 DEF Shows
  <2>5. \/ root' = root /\ backup' = backup
        \/ \E t \in run[p].todo : /\ backup[t] # None
                                  /\ root' = [root EXCEPT ![t] = backup[t]] /\ backup' = [backup EXCEPT ![t] = None]
    BY <1>8 DEF Unremove
  <2>. QED BY <1>3, <2>1, <2>2, <2>4, <2>5
<1>9. CASE Clean(p) \/ Erase(p)
  <2>1. manifest.tx = tx.id /\ tx' = tx /\ root' = root
    BY <1>1, <1>9 DEF Clean, Erase, disk, At, Undoing
  <2>. QED BY <1>2, <2>1 DEF Shows, Uncommitted
<1>10. CASE Discard(p)
  <2>1. tx'.id = 0 /\ root' = root
    BY <1>10 DEF Discard, NoTx
  <2>2. Shows(s)' = root[s]
    BY <2>1 DEF Shows, Uncommitted
  <2>3. CASE Uncommitted
    <3>1. Installed(backup) = {}
      BY <1>1, <1>10, <2>3 DEF Discard, At, Undoing, Uncommitted
    <3>2. backup[s] = None
      BY <3>1 DEF Installed
    <3>3. s \in tx.published => Reverting
      <4>1. s \in tx.published => Restoring(p)
        BY <1>10, <2>3 DEF Discard, At, Restoring, Uncommitted
      <4>. QED BY <1>4, <4>1, RevertingIs
    <3>. QED BY <2>2, <3>2, <3>3 DEF Shows
  <2>4. CASE ~Uncommitted
    BY <2>2, <2>4 DEF Shows
  <2>. QED BY <2>3, <2>4
<1>. QED BY <1>5, <1>6, <1>7, <1>8, <1>9, <1>10

(* A commit, and nothing else, changes all the skills of a bundle.         *)
LEMMA SaveShown ==
  ASSUME IInv, NEW p \in Procs, Save(p)
  PROVE  /\ Bundle!Put(tx.version) \/ Bundle!Remove(tx.version) \/ Shown' = Shown
         /\ tx.version \in Versions /\ ShownTrue'
<1>1. /\ TypeOK /\ Disk /\ Pending /\ Removal /\ LockHeld /\ Building(p)
      /\ run \in [Procs -> Run] /\ run[p].at = "save"
  BY Typed DEF IInv, Disk, Held, Control, Save, At
<1>2. /\ tx.id # 0 /\ manifest.tx # tx.id
      /\ \/ tx.journal = "PUBLISHING" /\ \A s \in TxSkills : root[s] \in {tx.version, Edited}
         \/ tx.journal = "UNINSTALL" /\ \A s \in TxSkills : root[s] = None
  BY <1>1 DEF Building, Working
<1>3. /\ manifest'.tx = tx.id /\ tx' = tx /\ root' = root /\ backup' = backup
      /\ ~IsUninstall => manifest'.version = tx.version
      /\ IsUninstall => manifest'.version = IF tx.remaining = {} THEN None ELSE tx.version
  BY <1>1, CommittedTyped DEF Save
<1>4. Uncommitted /\ ~Uncommitted'
  BY <1>2, <1>3 DEF Uncommitted
<1>5. ~Reverting
  BY <1>1, Alone, RevertingIs DEF Restoring, Holding
<1>6. /\ tx.version \in Versions /\ SkillsOf[tx.version] \subseteq Skills
      /\ Installed(backup) \subseteq SkillsOf[tx.version]
  BY <1>1, <1>2, InstallerAssumption DEF Pending
<1>7. /\ \A s \in Skills : Shown'[s] = root[s] /\ Shown[s] = Shows(s)
      /\ Shown' = root
  <2>1. Shown' = [s \in Skills |-> root[s]]
    BY <1>3, <1>4 DEF Shown
  <2>2. root \in [Skills -> Content]
    BY <1>1, DiskTyped
  <2>. QED BY <2>1, <2>2, ShownIs
<1>8. \A s \in Skills \ SkillsOf[tx.version] : backup[s] = None
  BY <1>6 DEF Installed
<1>9. manifest'.tx # 0
  BY <1>2, <1>3
<1>10. CASE tx.journal = "PUBLISHING"
  <2>1. ~IsUninstall /\ tx.published = SkillsOf[tx.version] /\ TxSkills = SkillsOf[tx.version]
    BY <1>1, <1>10 DEF Pending, Installing, TxSkills
  <2>2. \A s \in SkillsOf[tx.version] : root[s] \in {tx.version, Edited}
    BY <1>2, <1>10, <2>1
  <2>3. \A s \in Skills \ SkillsOf[tx.version] : Shown[s] = root[s]
    BY <1>7, <1>8, <2>1 DEF Shows
  <2>4. Bundle!Put(tx.version)
    BY <1>6, <1>7, <2>2, <2>3 DEF Bundle!Put
  <2>5. ShownTrue'
    <3>1. manifest'.version = tx.version
      BY <1>3, <2>1
    <3>. QED BY <1>6, <1>7, <1>9, <2>2, <3>1 DEF ShownTrue
  <2>. QED BY <1>6, <2>4, <2>5
<1>11. CASE tx.journal = "UNINSTALL" /\ tx.remaining = {}
  <2>1. IsUninstall /\ tx.published = {} /\ TxSkills = SkillsOf[tx.version]
    BY <1>1, <1>6, <1>11, NullIs DEF Pending, Removal, TxSkills
  <2>2. \A s \in SkillsOf[tx.version] : root[s] = None
    BY <1>2, <1>11, <2>1
  <2>3. \A s \in Skills \ SkillsOf[tx.version] : Shown[s] = root[s]
    BY <1>7, <1>8, <2>1 DEF Shows
  <2>4. Shown' = [s \in Skills |-> IF s \in SkillsOf[tx.version] THEN None ELSE Shown[s]]
    <3>1. root \in [Skills -> Content]
      BY <1>1, DiskTyped
    <3>. QED BY <1>7, <2>2, <2>3, <3>1
  <2>5. Bundle!Remove(tx.version)
    BY <2>4 DEF Bundle!Remove
  <2>6. ShownTrue'
    <3>1. manifest'.version = None
      BY <1>3, <1>11, <2>1
    <3>. QED BY <1>9, <3>1 DEF ShownTrue
  <2>. QED BY <1>6, <2>5, <2>6
<1>12. CASE tx.journal = "UNINSTALL" /\ tx.remaining # {}
  <2>1. /\ IsUninstall /\ tx.published = {} /\ Installed(backup) = {}
        /\ manifest.version = tx.version
    BY <1>1, <1>2, <1>12 DEF Pending, Removal, MatchesBefore
  <2>2. \A s \in Skills : Shown[s] = root[s]
    <3>1. \A s \in Skills : backup[s] = None
      BY <2>1 DEF Installed
    <3>. QED BY <1>7, <2>1, <3>1 DEF Shows
  <2>3. Shown' = Shown
    <3>1. root \in [Skills -> Content] /\ Shown = [s \in Skills |-> Shows(s)]
      BY <1>1, DiskTyped, ShownIs
    <3>2. Shown = root
      BY <1>7, <2>2, <3>1
    <3>. QED BY <1>7, <3>2
  <2>4. ShownTrue'
    <3>1. manifest'.version = manifest.version
      BY <1>3, <1>12, <2>1
    <3>. QED BY <1>9, <2>3, <3>1 DEF IInv, ShownTrue
  <2>. QED BY <1>6, <2>3, <2>4
<1>. QED BY <1>2, <1>10, <1>11, <1>12

(* The user's edit changes what is shown only if it is of what is shown.   *)
LEMMA EditShown ==
  ASSUME IInv, NEW s \in Skills, UserEdits(s)
  PROVE  Bundle!Edit(s) \/ Shown' = Shown
<1>1. /\ TypeOK /\ root \in [Skills -> Content] /\ backup \in [Skills -> Content]
      /\ manifest' = manifest /\ tx' = tx /\ lock' = lock /\ run' = run
  BY DiskTyped, UserEditsKeeps DEF IInv
<1>2. (Uncommitted' <=> Uncommitted) /\ (Reverting' <=> Reverting)
  BY <1>1 DEF Uncommitted, Reverting, Restoring
<1>3. \A t \in Skills \ {s} : Shows(t)' = Shows(t)
  <2>1. \A t \in Skills \ {s} : root'[t] = root[t] /\ backup'[t] = backup[t]
    BY <1>1 DEF UserEdits
  <2>. QED BY <1>1, <1>2, <2>1 DEF Shows
<1>4. Shows(s)' = Shows(s) \/ (Shows(s)' = Edited /\ Shows(s) \in Versions)
  <2>1. CASE root[s] \in Versions /\ root' = [root EXCEPT ![s] = Edited] /\ backup' = backup
    <3>1. root'[s] = Edited
      BY <1>1, <2>1
    <3>. QED BY <1>1, <1>2, <2>1, <3>1 DEF Shows
  <2>2. CASE backup[s] \in Versions /\ backup' = [backup EXCEPT ![s] = Edited] /\ root' = root
    <3>1. backup'[s] = Edited /\ backup[s] # None /\ Edited # None
      BY <1>1, <2>2, NullIs
    <3>. QED BY <1>1, <1>2, <2>2, <3>1 DEF Shows
  <2>. QED BY <2>1, <2>2 DEF UserEdits
<1>5. Shown = [t \in Skills |-> Shows(t)]
  BY ShownIs
<1>6. Shown' = [t \in Skills |-> Shows(t)']
  BY DEF Shown, Shows, Reverting
<1>7. CASE Shows(s)' = Shows(s)
  BY <1>3, <1>7, ShownSame
<1>8. CASE Shows(s)' = Edited /\ Shows(s) \in Versions
  <2>1. Shown' = [Shown EXCEPT ![s] = Edited] /\ Shown[s] \in Versions
    BY <1>3, <1>5, <1>6, <1>8
  <2>. QED BY <2>1 DEF Bundle!Edit
<1>. QED BY <1>4, <1>7, <1>8

(* The store of a consumer without the lock changes no skill.              *)
LEMMA StoreShown ==
  ASSUME IInv, NEW p \in Procs, StoreConsumers(p)
  PROVE  /\ Shown' = Shown /\ manifest'.tx = manifest.tx
         /\ manifest'.version = manifest.version
<1>1. TypeOK /\ Pending /\ manifest \in Manifests
  BY DiskTyped DEF IInv, Disk
<1>2. run[p].copy = manifest /\ tx.journal = "none"
  BY DEF StoreConsumers, IInv, Control, Adding, At
<1>3. manifest'.tx = manifest.tx /\ manifest'.version = manifest.version
  <2>1. manifest' = [manifest EXCEPT !.consumers = manifest.consumers \cup run[p].consumers,
                                     !.gen = manifest.gen + 1]
    BY <1>2 DEF StoreConsumers
  <2>. QED BY <1>1, <2>1, ManifestIs
<1>4. root' = root /\ tx' = tx /\ backup' = backup
  BY DEF StoreConsumers
<1>5. tx.published = {}
  BY <1>1, <1>2 DEF Pending, NoTx
<1>6. \A s \in Skills : Shows(s)' = Shows(s)
  BY <1>3, <1>4, <1>5 DEF Shows, Uncommitted
<1>. QED BY <1>3, <1>6, ShownSame

(* What each step does to what is shown.                                   *)
LEMMA ShownStep ==
  ASSUME Excluded, IInv, Next
  PROVE  /\ \/ \E v \in Versions : Bundle!Put(v) \/ Bundle!Remove(v)
            \/ \E s \in Skills : Bundle!Edit(s)
            \/ Shown' = Shown
         /\ ShownTrue'
<1>1. ASSUME Shown' = Shown, manifest'.tx = manifest.tx, manifest'.version = manifest.version
      PROVE  ShownTrue'
  BY <1>1 DEF IInv, ShownTrue
<1>2. ASSUME NEW s \in Skills, UserEdits(s)
      PROVE  (Bundle!Edit(s) \/ Shown' = Shown) /\ ShownTrue'
  <2>1. Bundle!Edit(s) \/ Shown' = Shown
    BY <1>2, EditShown
  <2>2. manifest' = manifest
    BY <1>2, UserEditsKeeps
  <2>3. CASE Bundle!Edit(s)
    <3>1. Shown[s] \in Versions /\ Shown' = [Shown EXCEPT ![s] = Edited]
      BY <2>3 DEF Bundle!Edit
    <3>2. Shown = [t \in Skills |-> Shows(t)]
      BY ShownIs
    <3>3. \A t \in Skills : Shown'[t] = IF t = s THEN Edited ELSE Shown[t]
      BY <3>1, <3>2
    <3>4. Shown[s] # Link
      BY <3>1, NullIs
    <3>5. manifest.version # None => SkillsOf[manifest.version] \subseteq Skills
      BY DiskTyped, ManifestIs, InstallerAssumption DEF IInv
    <3>6. Legacy \subseteq Skills
      BY InstallerAssumption
    <3>. QED BY <2>1, <2>2, <3>3, <3>4, <3>5, <3>6 DEF IInv, ShownTrue
  <2>. QED BY <1>1, <2>1, <2>2, <2>3
<1>3. ASSUME NEW p \in Procs, Save(p)
      PROVE  /\ \E v \in Versions : (Bundle!Put(v) \/ Bundle!Remove(v)) \/ Shown' = Shown
             /\ ShownTrue'
  BY <1>3, SaveShown
<1>4. ASSUME NEW p \in Procs, StoreConsumers(p)
      PROVE  Shown' = Shown /\ ShownTrue'
  BY <1>1, <1>4, StoreShown
<1>5. ASSUME NEW p \in Procs, Start(p) \/ Works(p) \/ Fail(p) \/ Crash(p), ~Save(p), ~StoreConsumers(p)
      PROVE  Shown' = Shown /\ ShownTrue'
  <2>1. Shown' = Shown
    BY <1>5, IdleShown, BuildShown, UndoShown DEF Works, Locked
  <2>2. manifest' = manifest
    BY <1>5 DEF Works, Locked, Start, Route, LoadConsumers, Enter, Begin, StageInstall, StageUninstall, Move,
                JournalPublish, Publish, Verify, JournalCommit, Unpublish, Restore, Unremove, Clean, Erase, Discard,
                Fail, Crash, disk
  <2>. QED BY <1>1, <2>1, <2>2
<1>. QED BY <1>2, <1>3, <1>4, <1>5 DEF Next

LEMMA LinksStep ==
  ASSUME IInv, Next
  PROVE  LinksFromUser'
<1>1. /\ TypeOK /\ Disk /\ Pending /\ run \in [Procs -> Run]
      /\ root \in [Skills -> Content] /\ backup \in [Skills -> Content]
  BY DiskTyped DEF IInv, Disk
<1>2. \A s \in Skills : root[s] = Link \/ backup[s] = Link => Legacy # {}
  BY DEF IInv, LinksFromUser
<1>. SUFFICES ASSUME NEW s \in Skills, Legacy = {}
              PROVE  root'[s] # Link /\ backup'[s] # Link
  BY DEF LinksFromUser
<1>3. \A t \in Skills : root[t] # Link /\ backup[t] # Link
  BY <1>2
<1>4. CASE \E t \in Skills : UserEdits(t)
  BY <1>1, <1>3, <1>4, NullIs DEF UserEdits
<1>. SUFFICES ASSUME NEW p \in Procs, Start(p) \/ Works(p) \/ Fail(p) \/ Crash(p)
              PROVE  root'[s] # Link /\ backup'[s] # Link
  BY <1>4 DEF Next
<1>5. CASE root' = root /\ backup' = backup
  BY <1>3, <1>5
<1>6. CASE Move(p)
  <2>1. run[p].todo \subseteq Skills
    BY <1>1, Typed DEF Run
  <2>2. CASE \E t \in run[p].todo : backup' = [backup EXCEPT ![t] = root[t]] /\ root' = [root EXCEPT ![t] = None]
    BY <1>1, <1>3, <2>1, <2>2, NullIs
  <2>. QED BY <1>5, <1>6, <2>2 DEF Move
<1>7. CASE Publish(p)
  <2>1. tx.version # Link
    <3>1. tx.journal = "PUBLISHING"
      BY <1>7 DEF Publish, At, IInv, Held, Building
    <3>. QED BY <1>1, <3>1, NullIs DEF Pending
  <2>2. CASE \E t \in run[p].todo : root' = [root EXCEPT ![t] = tx.version]
    <3>1. backup' = backup
      BY <1>7 DEF Publish
    <3>. QED BY <1>1, <1>3, <2>1, <2>2, <3>1
  <2>3. CASE root' = root
    BY <1>5, <1>7, <2>3 DEF Publish
  <2>. QED BY <1>7, <2>2, <2>3 DEF Publish
<1>8. CASE Unpublish(p)
  BY <1>1, <1>3, <1>8, NullIs DEF Unpublish
<1>9. CASE Restore(p) \/ Unremove(p)
  <2>1. run[p].todo \subseteq Skills
    BY <1>1, Typed DEF Run
  <2>2. \/ root' = root /\ backup' = backup
        \/ \E t \in run[p].todo : root' = [root EXCEPT ![t] = backup[t]] /\ backup' = [backup EXCEPT ![t] = None]
    BY <1>9 DEF Restore, Unremove
  <2>. QED BY <1>1, <1>3, <2>1, <2>2, NullIs
<1>10. CASE Erase(p) \/ Discard(p)
  <2>1. root' = root
    BY <1>10 DEF Erase, Discard
  <2>2. backup' = backup \/ backup' = NoSkills \/ \E t \in Skills : backup' = [backup EXCEPT ![t] = None]
    <3>1. run[p].todo \subseteq Skills
      BY <1>1, Typed DEF Run
    <3>. QED BY <1>10, <3>1 DEF Erase, Discard
  <2>. QED BY <1>1, <1>3, <2>1, <2>2, NullIs DEF NoSkills
<1>11. CASE ~(Move(p) \/ Publish(p) \/ Unpublish(p) \/ Restore(p) \/ Unremove(p) \/ Erase(p) \/ Discard(p))
  <2>1. root' = root /\ backup' = backup
    BY <1>11 DEF Works, Locked, Start, Route, LoadConsumers, StoreConsumers, Enter, Begin, StageInstall,
                 StageUninstall, JournalPublish, Verify, Save, JournalCommit, Clean, Fail, Crash, disk
  <2>. QED BY <1>5, <2>1
<1>. QED BY <1>6, <1>7, <1>8, <1>9, <1>10, <1>11

-----------------------------------------------------------------------------
(* With the hypotheses above, the inductive invariant holds of every       *)
(* reachable state: the lock, the journal, the backup directory and the    *)
(* manifest agree at each step of the transaction, of its rollback and of  *)
(* the recovery of what a dead process left.                               *)
THEOREM InstallerInvariant ==
  ASSUME Excluded
  PROVE  Spec => []IInv
<1>1. ASSUME Init PROVE IInv
  <2>1. TypeOK
    <3>1. root \in [Skills -> Content] /\ run \in [Procs -> Run] /\ tx = NoTx /\ manifest = NoManifest
      BY <1>1, Nothing DEF Init, Content
    <3>2. txs \in 0..MaxTx /\ crashes \in 0..MaxCrash /\ fails \in 0..MaxFail /\ edits \in 0..MaxEdits
      BY <1>1, InstallerAssumption DEF Init
    <3>. QED BY <1>1, <3>1, <3>2, Nothing, Typed DEF Init
  <2>2. /\ tx.id = 0 /\ tx.journal = "none" /\ tx.gen = 0 /\ tx = [NoTx EXCEPT !.id = tx.id]
        /\ manifest.version = None /\ manifest.tx = 0
    BY <1>1 DEF Init, NoTx, NoManifest
  <2>3. \A p \in Procs : run[p].at = "idle" /\ run[p].next = "idle"
    BY <1>1 DEF Init, Idle
  <2>4. Control
    BY <1>1, <2>3, NullIs DEF Control, LockHeld, Asked, Adding, Init, Holding, Working
  <2>5. Disk
    <3>1. Installed(backup) = {} /\ txs = 0
      BY <1>1 DEF Init, Installed, NoSkills
    <3>. QED BY <2>2, <3>1 DEF Disk, Pending, Removal, IsUninstall
  <2>6. Held
    BY <2>3 DEF Held, Building, Undoing, Working
  <2>7. \A s \in Skills : root[s] \in {None, Link} /\ backup[s] = None
    BY <1>1 DEF Init, NoSkills
  <2>8. ShownTrue
    <3>1. \A s \in Legacy : s \in Skills /\ root[s] = Link
      BY <1>1, InstallerAssumption DEF Init
    <3>2. ~Uncommitted
      BY <2>2 DEF Uncommitted
    <3>. QED BY <2>2, <3>1, <3>2 DEF ShownTrue, Shown
  <2>9. LinksFromUser
    <3>1. \A s \in Skills : root[s] = Link => s \in Legacy
      BY <1>1, NullIs DEF Init
    <3>. QED BY <2>7, <3>1, NullIs DEF LinksFromUser
  <2>. QED BY <2>1, <2>4, <2>5, <2>6, <2>8, <2>9 DEF IInv
<1>2. ASSUME IInv, [Next]_vars PROVE IInv'
  <2>1. CASE Next
    BY <1>2, <2>1, TypeStep, ControlStep, PendingStep, RemovalStep, HeldStep, ShownStep, LinksStep
       DEF IInv, Disk
  <2>2. CASE UNCHANGED vars
    <3>1. /\ root' = root /\ manifest' = manifest /\ tx' = tx /\ backup' = backup /\ lock' = lock
          /\ run' = run /\ txs' = txs /\ crashes' = crashes /\ fails' = fails /\ edits' = edits
      BY <2>2 DEF vars, disk, count
    <3>2. TypeOK'
      BY <1>2, <3>1 DEF IInv, TypeOK
    <3>3. Control'
      BY <1>2, <3>1 DEF IInv, Control, LockHeld, Asked, Adding
    <3>4. Disk'
      BY <1>2, <3>1 DEF IInv, Disk, Pending, Removal, IsUninstall, Installed, MatchesCommit, MatchesBefore,
                        TxSkills, Exclusive
    <3>5. Held'
      BY <1>2, <3>1 DEF IInv, Held, Building, Undoing, TxSkills, IsUninstall, Installed
    <3>6. ShownTrue'
      BY <1>2, <3>1 DEF IInv, ShownTrue, Shown, Uncommitted, Restoring
    <3>7. LinksFromUser'
      BY <1>2, <3>1 DEF IInv, LinksFromUser
    <3>. QED BY <3>2, <3>3, <3>4, <3>5, <3>6, <3>7 DEF IInv
  <2>. QED BY <1>2, <2>1, <2>2
<1>. QED BY <1>1, <1>2, PTL DEF Spec

(* Between operations the skills of the manifest are in the root, as they  *)
(* were published or as the user left them, links made by hand are kept    *)
(* until a first commit, and the recovery of what a dead process left is   *)
(* never refused.                                                          *)
THEOREM DiskIsTrue ==
  ASSUME Excluded
  PROVE  Spec => []DiskTrue
<1>1. ASSUME IInv PROVE DiskTrue
  <2>1. TypeOK /\ Disk /\ Pending /\ Removal /\ ShownTrue
    BY <1>1 DEF IInv, Disk
  <2>2. ASSUME Settled PROVE \A s \in Skills : Shown[s] = root[s]
    BY <2>2 DEF Settled, Shown, Uncommitted
  <2>3. ManifestTrue
    <3>1. manifest.version # None => SkillsOf[manifest.version] \subseteq Skills
      BY <2>1, DiskTyped, ManifestIs, InstallerAssumption
    <3>. QED BY <2>1, <2>2, <3>1 DEF ManifestTrue, ShownTrue
  <2>4. LinksKept
    BY <2>1, <2>2, InstallerAssumption DEF LinksKept, ShownTrue
  <2>5. Recoverable
    <3>1. ASSUME tx.id # 0 PROVE Undo # "idle"
      BY <2>1, <3>1, UndoIs
    <3>2. ASSUME tx.id # 0, Undo = "unremove"
          PROVE \A s \in TxSkills : Exclusive(s)
      <4>1. tx.journal = "UNINSTALL" /\ manifest.tx # tx.id
        BY <2>1, <3>2, UndoIs
      <4>. QED BY <2>1, <4>1 DEF Pending, Removal
    <3>3. \A s \in TxSkills : Exclusive(s) => (root[s] = None) # (backup[s] = None)
      BY DEF Exclusive
    <3>. QED BY <3>1, <3>2, <3>3 DEF Recoverable
  <2>. QED BY <2>1, <2>3, <2>4, <2>5 DEF DiskTrue
<1>. QED BY <1>1, InstallerInvariant, PTL

(* The skills of a bundle change all at once, when the manifest is saved,  *)
(* whatever failed or died.                                                *)
THEOREM InstallsAtomically ==
  ASSUME Excluded
  PROVE  Spec => AtomicSpec
<1>1. ASSUME IInv, [Next]_vars PROVE [Bundle!Next]_Shown
  <2>1. CASE Next
    BY <1>1, <2>1, ShownStep DEF Bundle!Next
  <2>2. CASE UNCHANGED vars
    BY <2>2 DEF vars, disk, Shown, Uncommitted, Restoring
  <2>. QED BY <1>1, <2>1, <2>2
<1>. QED BY <1>1, InstallerInvariant, PTL DEF Spec, AtomicSpec, Bundle!Spec

(* A backup is deleted next only if it was looked at and recognised.       *)
LEMMA EraseLooked ==
  ASSUME IInv, NEW p \in Procs, Start(p) \/ Works(p) \/ Fail(p) \/ Crash(p), run'[p].at = "erase"
  PROVE  \E t \in run[p].todo : backup[t] = tx.version /\ run'[p].todo = {t} /\ backup' = backup
<1>1. run \in [Procs -> Run] /\ run[p] \in Run
  BY Typed DEF IInv
<1>. USE <1>1
<1>2. CASE Clean(p)
  <2>1. \/ run' = [run EXCEPT ![p] = Idle]
        \/ Goes(p, "discard")
        \/ \E t \in run[p].todo : Does(p, "erase", {t}) /\ backup[t] = tx.version
    BY <1>2 DEF Clean
  <2>2. backup' = backup
    BY <1>2 DEF Clean, disk
  <2>3. PICK t \in run[p].todo : Does(p, "erase", {t}) /\ backup[t] = tx.version
    BY <2>1, IdleIs, GoesIs
  <2>4. run'[p].todo = {t}
    BY <2>3 DEF Does, Run
  <2>. QED BY <2>2, <2>3, <2>4
<1>3. CASE Start(p) \/ StoreConsumers(p) \/ Crash(p) \/ Route(p) \/ LoadConsumers(p)
  BY <1>3, StartIs, IdleIs, RouteIs, LoadIs DEF StoreConsumers, Crash
<1>4. CASE Enter(p)
  BY <1>4, EnterIs, UndoHolds
<1>5. CASE Begin(p) \/ StageInstall(p)
  BY <1>5, BeginIs, StageInstallIs
<1>6. CASE StageUninstall(p) \/ Move(p) \/ Publish(p) \/ Save(p) \/ JournalPublish(p)
  <2>1. run[p].at \in Working
    BY <1>6 DEF StageUninstall, Move, Publish, Save, JournalPublish, At, Working
  <2>2. \/ run' = [run EXCEPT ![p] = Idle]
        \/ \E s : Did(p, s)
        \/ \E n \in {"move", "publish"} : \E t : Does(p, n, t)
        \/ \E n \in Working \cup {"journal"} : Goes(p, n)
    BY <1>6 DEF StageUninstall, Ends, Move, Publish, Save, JournalPublish, Working
  <2>. QED BY <2>1, <2>2, IdleIs, DidIs, DoesIs, GoesIs DEF Working
<1>7. CASE Verify(p) \/ Fail(p)
  <2>1. Undoes(p, "idle") \/ run' = [run EXCEPT ![p] = Idle] \/ Goes(p, "save")
    BY <1>7 DEF Verify, Fail, Ends
  <2>. QED BY <2>1, UndoesIs, UndoHolds, IdleIs, GoesIs
<1>8. CASE JournalCommit(p) \/ Unpublish(p) \/ Restore(p) \/ Unremove(p) \/ Erase(p)
  <2>1. run[p].at \in {"journal", "unpublish", "restore", "unremove", "erase"}
    BY <1>8 DEF JournalCommit, Unpublish, Restore, Unremove, Erase, At
  <2>2. \/ run' = [run EXCEPT ![p] = Idle]
        \/ run[p].at # "erase" /\ \E s : Did(p, s)
        \/ \E n \in {"clean", "restore"} : \E t : Does(p, n, t)
        \/ Goes(p, "discard")
    BY <1>8 DEF JournalCommit, Unpublish, Restore, Unremove, Erase, At
  <2>. QED BY <2>1, <2>2, IdleIs, DidIs, DoesIs, GoesIs
<1>9. CASE Discard(p)
  BY <1>9, DiscardIs DEF IInv, Control, Asked
<1>. QED BY <1>2, <1>3, <1>4, <1>5, <1>6, <1>7, <1>8, <1>9 DEF Works, Locked

(* An uninstallation keeps what the user changed, in the root and in its   *)
(* backup directory, unless it was written into a backup after the look at *)
(* it.                                                                     *)
THEOREM UninstallKeeps ==
  ASSUME Excluded
  PROVE  Spec => UninstallKeepsEdits
<1>1. ASSUME IInv, [Next]_vars, IsUninstall, NEW s \in Skills, EditSafe(s)
      PROVE  EditSafe(s)'
  <2>1. /\ TypeOK /\ Disk /\ Pending /\ Removal
        /\ root \in [Skills -> Content] /\ backup \in [Skills -> Content]
    BY <1>1, DiskTyped DEF IInv, Disk
  <2>2. root[s] = Edited \/ (backup[s] = Edited /\ ~Erasing(s))
    BY <1>1 DEF EditSafe
  <2>3. tx.version # Edited
    <3>1. tx.journal # "none"
      BY <1>1, <2>1 DEF Pending, IsUninstall, NoTx
    <3>. QED BY <2>1, <3>1, NullIs DEF Pending
  <2>4. ASSUME NEW p \in Procs, Start(p) \/ Works(p) \/ Fail(p) \/ Crash(p)
        PROVE  (root[s] = Edited \/ (backup[s] = Edited /\ ~Erasing(s)))'
    <3>1. Building(p) /\ Undoing(p) /\ run[p].todo \subseteq Skills
      BY <1>1, <2>1, Typed DEF IInv, Held, Run
    <3>2. backup[s] = Edited /\ Erasing(s)' => Erasing(s)
      <4>1. SUFFICES ASSUME NEW q \in Procs, run'[q].at = "erase", s \in run'[q].todo,
                            backup[s] = Edited
                     PROVE  run[q].at = "erase" /\ s \in run[q].todo
        BY DEF Erasing, At
      <4>2. q # p
        BY <1>1, <2>3, <2>4, <4>1, EraseLooked
      <4>3. run'[q] = run[q]
        BY <1>1, <2>4, <4>2, OwnState DEF IInv
      <4>. QED BY <4>1, <4>3
    <3>3. CASE root' = root /\ backup' = backup
      BY <2>2, <3>2, <3>3
    <3>4. CASE Move(p)
      <4>1. /\ \A t \in run[p].todo : backup[t] = None
            /\ run[p].at = "move"
        BY <3>1, <3>4 DEF Move, At, Building
      <4>2. ~Erasing(s)'
        <5>1. SUFFICES ASSUME NEW q \in Procs, run'[q].at = "erase" PROVE FALSE
          BY DEF Erasing, At
        <5>2. run \in [Procs -> Run] /\ run[p] \in Run
          BY <1>1, Typed DEF IInv
        <5>3. (\E t : Did(p, t)) \/ (\E n \in {"verify", "journal_publish"} : Goes(p, n))
          BY <3>4 DEF Move
        <5>4. q # p
          BY <4>1, <5>1, <5>2, <5>3, DidIs, DoesIs, GoesIs
        <5>5. run'[q] = run[q]
          BY <1>1, <2>4, <5>4, OwnState DEF IInv
        <5>. QED BY <1>1, <4>1, <5>1, <5>4, <5>5, Alone DEF Holding
      <4>3. CASE \E t \in run[p].todo : backup' = [backup EXCEPT ![t] = root[t]] /\ root' = [root EXCEPT ![t] = None]
        BY <2>1, <2>2, <3>1, <4>1, <4>2, <4>3, NullIs
      <4>. QED BY <3>3, <3>4, <4>3 DEF Move
    <3>5. CASE Unremove(p)
      <4>1. CASE \E t \in run[p].todo : /\ (root[t] = None) # (backup[t] = None) /\ backup[t] # None
                                        /\ root' = [root EXCEPT ![t] = backup[t]]
                                        /\ backup' = [backup EXCEPT ![t] = None]
        BY <2>1, <2>2, <3>1, <3>2, <4>1, NullIs
      <4>. QED BY <3>3, <3>5, <4>1 DEF Unremove
    <3>6. CASE Erase(p)
      <4>1. PICK t \in run[p].todo : backup' = [backup EXCEPT ![t] = None]
        BY <3>6 DEF Erase
      <4>2. root' = root /\ Erasing(t)
        BY <3>6, <4>1 DEF Erase, Erasing
      <4>. QED BY <2>1, <2>2, <3>1, <3>2, <4>1, <4>2
    <3>7. CASE Discard(p)
      <4>1. root' = root /\ Installed(backup) = {}
        BY <1>1, <3>1, <3>7 DEF Discard, At, Undoing
      <4>2. backup[s] = None
        BY <4>1 DEF Installed
      <4>. QED BY <2>2, <4>1, <4>2, NullIs
    <3>8. ~Publish(p) /\ ~Unpublish(p) /\ ~Restore(p)
      BY <1>1, <2>1, <3>1 DEF Publish, Unpublish, Restore, At, Building, Undoing, Pending, Installing
    <3>9. CASE ~(Move(p) \/ Unremove(p) \/ Erase(p) \/ Discard(p))
      <4>1. root' = root /\ backup' = backup
        BY <2>4, <3>8, <3>9 DEF Works, Locked, Start, Route, LoadConsumers, StoreConsumers, Enter, Begin,
                     StageInstall, StageUninstall, JournalPublish, Verify, Save, JournalCommit, Clean, Fail,
                     Crash, disk
      <4>. QED BY <3>3, <4>1
    <3>. QED BY <3>4, <3>5, <3>6, <3>7, <3>9
  <2>5. ASSUME NEW t \in Skills, UserEdits(t)
        PROVE  (root[s] = Edited \/ (backup[s] = Edited /\ ~Erasing(s)))'
    <3>1. run' = run
      BY <2>5 DEF UserEdits
    <3>2. Erasing(s)' = Erasing(s)
      BY <3>1 DEF Erasing, At
    <3>. QED BY <2>1, <2>2, <2>5, <3>2 DEF UserEdits
  <2>6. CASE UNCHANGED vars
    BY <2>2, <2>6 DEF vars, disk, EditSafe, Erasing, At
  <2>. QED BY <1>1, <2>4, <2>5, <2>6 DEF Next, EditSafe
<1>2. ASSUME IInv, [Next]_vars
      PROVE  [IsUninstall => \A s \in Skills : EditSafe(s) => EditSafe(s)']_vars
  BY <1>1, <1>2
<1>. QED BY <1>2, InstallerInvariant, PTL DEF Spec, UninstallKeepsEdits
=============================================================================
