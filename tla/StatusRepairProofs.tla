------------------------- MODULE StatusRepairProofs -------------------------
(***************************************************************************)
(* The safety of the repair of the status labels for any number of faults, *)
(* stops, relabellings and events, and the cycle that repairs at once.     *)
(***************************************************************************)
EXTENDS StatusRepair, FiniteSetTheorems, SequenceTheorems, TLAPS

Executing == {"check", "add", "mark", "drop", "verify"}
Executors == Check \/ Add \/ Mark \/ Drop \/ Verify
Outside   == Writers \/ Finishing \/ Die \/ Change \/ Edit

(* A cycle holds the lock, and starts with nothing in memory.              *)
CycleState ==
  /\ at = "off" => /\ seen = Unseen /\ late = {} /\ todo = {} /\ tried = {}
                   /\ stage = None /\ cur = 0 /\ sending = {} /\ ~calm
  /\ at # "off" => writer \in {"idle", "rollback"}
  /\ reserved # None => at \notin {"add", "mark", "drop", "verify"}
  /\ writer = "complete" => reserved # None

(* The passes come one after the other.                                    *)
StageState ==
  /\ at \in {"reconcile", "adopt", "promote"} => stage = None
  /\ at \in {"deliver", "conflict"} => stage = "promote"
  /\ at = "final" => stage = "conflict"
  /\ at \in {"log", "confirm"} => stage \in {"conflict", "final"}
  /\ at \in {"next"} \cup Executing => stage # None
  /\ at \notin {"next", "report", "close"} \cup Executing => todo = {}
  /\ stage = None => tried = {} /\ todo = {}

(* What commands and the intents made from them look like.                 *)
Shaped(c) ==
  \/ c.kind = "add" /\ c.code = "missing" /\ c.want \in {"queued", "blocked"}
  \/ c.kind = "remove" /\ c.code = "conflict" /\ c.want \in Lifecycle
  \/ c.kind = "transition" /\ c.code = "promote" /\ c.want = "queued"
  \/ c.kind = "transition" /\ c.code = "demote" /\ c.want = "blocked"
Order(c) ==
  /\ c \in Command /\ Shaped(c) /\ c.want # c.drop
  /\ c.code = "promote" => c.drop = "blocked"

(* The commands of a pass want the same label, and the passes before the   *)
(* last one have commands of one code.                                     *)
Todo ==
  /\ \A c \in todo : Order(c)
  /\ \A c, d \in todo : c.want = d.want
  /\ stage \in {"promote", "conflict"} => \A c \in todo : c.code = stage
  /\ stage = "promote" /\ todo # {} => Promotable(seen)
Doing ==
  at \in Executing =>
    /\ Order(cmd) /\ cmd.code \in tried
    /\ \A c \in todo : c.want = cmd.want
    /\ stage \in {"promote", "conflict"} => cmd.code = stage
    /\ at = "add" => cmd.kind # "remove"
    /\ at = "drop" => cmd.kind # "add"
Trying ==
  /\ stage = "promote" => tried \subseteq {"promote"}
  /\ stage = "conflict" => tried \subseteq {"promote", "conflict"}
  /\ "promote" \in tried /\ stage # "final" => Promotable(seen)
Control == CycleState /\ StageState /\ Todo /\ Doing /\ Trying

-----------------------------------------------------------------------------
(* The policy.                                                             *)

View == [labels : SUBSET Lifecycle, dep : BOOLEAN, hold : BOOLEAN]

(* A set with more than one member is not a set of one.                    *)
LEMMA Several ==
  ASSUME NEW S, IsFiniteSet(S), NEW x \in S
  PROVE  Cardinality(S) > 1 <=> S # {x}
<1>1. Cardinality(S) \in Nat /\ (Cardinality(S) = 1 <=> \E y : S = {y})
  BY FS_CardinalityType, FS_Singleton
<1>2. Cardinality(S) # 0
  BY FS_EmptySet
<1>3. (\E y : S = {y}) <=> S = {x}
  OBVIOUS
<1>. QED BY <1>1, <1>2, <1>3

(* Every set of lifecycle labels is finite.                                *)
LEMMA LabelsFinite ==
  ASSUME NEW l \in SUBSET Lifecycle
  PROVE  IsFiniteSet(l)
<1>1. \A x \in Lifecycle : IsFiniteSet({x})
  BY FS_EmptySet, FS_AddElement
<1>2. Lifecycle = ((({"progress"} \cup {"queued"}) \cup {"blocked"}) \cup {"done"}) \cup {"review"}
  BY DEF Lifecycle, Active
<1>3. IsFiniteSet({"progress"} \cup {"queued"})
  BY <1>1, FS_AddElement DEF Lifecycle, Active
<1>4. IsFiniteSet(({"progress"} \cup {"queued"}) \cup {"blocked"})
  BY <1>3, FS_AddElement
<1>5. IsFiniteSet((({"progress"} \cup {"queued"}) \cup {"blocked"}) \cup {"done"})
  BY <1>4, FS_AddElement
<1>6. IsFiniteSet(Lifecycle)
  BY <1>2, <1>5, FS_AddElement
<1>. QED BY <1>6, FS_Subset

(* The policy wants a lifecycle label.                                     *)
LEMMA WantTyped ==
  ASSUME NEW v \in View
  PROVE  Want(v) \in Lifecycle
BY DEF Want, Desired, Lifecycle, Active

(* The four findings as plain conditions on what was read.                 *)
LEMMA ConflictMeans ==
  ASSUME NEW v \in View
  PROVE  Conflict(v) => Want(v) \in v.labels /\ v.labels # {Want(v)}
<1>1. IsFiniteSet(v.labels)
  BY LabelsFinite DEF View
<1>. QED BY <1>1, Several DEF Conflict

(* A label that is already the only one needs no command.                  *)
LEMMA FindingsApart ==
  ASSUME NEW v \in View
  PROVE  /\ Conflict(v) => ~Missing(v)
         /\ Promotable(v) => ~Missing(v) /\ ~Conflict(v)
         /\ Demotable(v) => ~Missing(v) /\ ~Conflict(v) /\ ~Promotable(v)
<1>1. Missing(v) => v.labels = {}
  BY DEF Missing
<1>2. Promotable(v) => v.labels = {"blocked"}
  BY DEF Promotable
<1>3. Demotable(v) => v.labels = {"queued"}
  BY DEF Demotable
<1>. QED BY <1>1, <1>2, <1>3, ConflictMeans

(* What the commands of a finding have in common.                          *)
LEMMA PlanOrders ==
  ASSUME NEW v \in View
  PROVE  \A c \in Commands(v) :
           /\ Order(c) /\ c.want = Want(v)
           /\ c.code = "promote" => Promotable(v)
           /\ c.kind = "remove" => Conflict(v) /\ c.drop \in v.labels
<1>. SUFFICES ASSUME NEW c \in Commands(v)
              PROVE  /\ Order(c) /\ c.want = Want(v)
                     /\ c.code = "promote" => Promotable(v)
                     /\ c.kind = "remove" => Conflict(v) /\ c.drop \in v.labels
  OBVIOUS
<1>0. Want(v) \in Lifecycle /\ v.labels \subseteq Lifecycle
  BY WantTyped DEF View
<1>1. CASE Missing(v)
  <2>1. c = [kind |-> "add", code |-> "missing", want |-> Want(v), drop |-> None]
    BY <1>1, FindingsApart DEF Commands
  <2>2. Want(v) \in {"queued", "blocked"}
    BY <1>1 DEF Missing, Want, Desired
  <2>. QED BY <2>1, <2>2 DEF Order, Shaped, Command, Codes, None, Lifecycle, Active
<1>2. CASE ~Missing(v) /\ Conflict(v)
  <2>1. PICK x \in v.labels \ {Want(v)} :
          c = [kind |-> "remove", code |-> "conflict", want |-> Want(v), drop |-> x]
    BY <1>2, FindingsApart DEF Commands
  <2>. QED BY <1>0, <1>2, <2>1 DEF Order, Shaped, Command, Codes
<1>3. CASE ~Missing(v) /\ ~Conflict(v) /\ Promotable(v)
  <2>1. c = Transition("promote", "blocked", "queued")
    BY <1>3, FindingsApart DEF Commands
  <2>2. Want(v) = "queued"
    BY <1>3 DEF Promotable, Want, Desired
  <2>. QED BY <1>3, <2>1, <2>2 DEF Transition, Order, Shaped, Command, Codes, Lifecycle, Active
<1>4. CASE ~Missing(v) /\ ~Conflict(v) /\ ~Promotable(v) /\ Demotable(v)
  <2>1. c = Transition("demote", "queued", "blocked")
    BY <1>4, FindingsApart DEF Commands
  <2>2. Want(v) = "blocked"
    BY <1>4 DEF Demotable, Want, Desired
  <2>. QED BY <2>1, <2>2 DEF Transition, Order, Shaped, Command, Codes, Lifecycle, Active
<1>5. CASE ~Missing(v) /\ ~Conflict(v) /\ ~Promotable(v) /\ ~Demotable(v)
  BY <1>5 DEF Commands
<1>. QED BY <1>1, <1>2, <1>3, <1>4, <1>5

-----------------------------------------------------------------------------
(* The journal.                                                            *)

(* The index of an intent and the matches of a command are finite sets.    *)
LEMMA MatchesFinite ==
  ASSUME TypeOK, NEW c
  PROVE  IsFiniteSet({i \in Ids : Resumes(c, i)})
<1>1. Len(intents) \in Nat /\ Ids = 1 .. Len(intents)
  BY DEF TypeOK, Ids
<1>2. IsFiniteSet(Ids)
  BY <1>1, FS_Interval
<1>. QED BY <1>2, FS_Subset

(* A match is a pending intent that the command may take up.               *)
LEMMA MatchResumes ==
  ASSUME TypeOK, NEW c, Match(c) # 0
  PROVE  Match(c) \in Pending /\ Resumes(c, Match(c))
<1>. DEFINE found == {i \in Ids : Resumes(c, i)}
<1>1. Cardinality(found) = 1 /\ Match(c) = CHOOSE i \in found : TRUE
  BY DEF Match
<1>2. \E i : found = {i}
  BY <1>1, MatchesFinite, FS_Singleton
<1>. QED BY <1>1, <1>2 DEF Resumes

-----------------------------------------------------------------------------
(* Types.                                                                  *)

(* The type invariant in parts: the Issue, the journals, what the cycle    *)
(* plans, the intent it carries out.                                       *)
IssueTypes ==
  /\ labels \subseteq Lifecycle /\ late \subseteq Lifecycle
  /\ reserved \in {None, "done", "blocked"}
  /\ writer \in {"idle", "launch", "complete", "rollback"}
  /\ events \in Nat /\ edits \in Nat /\ faults \in Nat /\ crashes \in Nat
FlagTypes == dep \in BOOLEAN /\ hold \in BOOLEAN /\ outcome \in BOOLEAN /\ calm \in BOOLEAN
JournalTypes ==
  /\ intents \in Seq(Intent)
  /\ reports \cup sending \subseteq Ids /\ log \in Seq(SUBSET Ids)
CycleTypes ==
  /\ at \in {"off", "reconcile", "adopt", "report", "close", "promote", "conflict", "final",
             "next", "check", "add", "mark", "drop", "verify", "deliver", "log", "confirm"}
  /\ stage \in {None, "promote", "conflict", "final"} /\ tried \subseteq Codes
  /\ seen \in View /\ todo \subseteq Command /\ cmd \in Command
CurTypes ==
  /\ cur \in {0} \cup Pending
  /\ at \in {"adopt", "report", "close", "add", "mark", "drop", "verify"} => cur # 0

(* The parts are the type invariant.                                       *)
LEMMA TypeParts == TypeOK <=> IssueTypes /\ FlagTypes /\ JournalTypes /\ CycleTypes /\ CurTypes
BY DEF TypeOK, IssueTypes, FlagTypes, JournalTypes, CycleTypes, CurTypes, View

(* Nothing outside the cycle touches what the cycle has in memory and in   *)
(* its journals.                                                           *)
LEMMA OutsideLeaves ==
  ASSUME Outside
  PROVE  UNCHANGED <<disk, cycle>>
BY DEF Outside, Writers, Finishing, Launch, Complete, Resume, Rollback, CompleteAdd,
   Finish, Die, Change, Edit

(* The flags are truth values.                                             *)
LEMMA FlagTypesStep ==
  ASSUME TypeOK, [Next]_vars
  PROVE  FlagTypes'
<1>. dep \in BOOLEAN /\ hold \in BOOLEAN /\ outcome \in BOOLEAN /\ calm \in BOOLEAN
  BY TypeParts DEF FlagTypes
<1>1. calm' \in BOOLEAN
  <2>1. \A l : Read(l) => calm' \in BOOLEAN
    BY DEF Read, Fault, Fine
  <2>2. CASE Begin
    BY <2>2 DEF Begin
  <2>3. CASE Settle \/ Passes
    BY <2>1, <2>3 DEF Settle, Reconcile, Adopt, Report, Close, Passes, PassPromote,
       PassConflict, PassFinal, Fine
  <2>4. CASE Execute
    BY <2>1, <2>4 DEF Execute, Take, Check, Add, Mark, Drop, Verify, Answered, Fine, Fault
  <2>5. CASE Deliver \/ Log \/ Confirm \/ Fail \/ Crash
    BY <2>5 DEF Deliver, Log, Confirm, Fail, Crash, Off
  <2>6. CASE Outside
    BY <2>6 DEF Outside, Writers, Finishing, Launch, Complete, Resume, Rollback, CompleteAdd,
       Finish, Die, Change, Edit, Event
  <2>7. CASE UNCHANGED vars
    BY <2>7 DEF vars
  <2>. QED BY <2>2, <2>3, <2>4, <2>5, <2>6, <2>7 DEF Next, Cycle, Outside
<1>2. dep' \in BOOLEAN /\ hold' \in BOOLEAN /\ outcome' \in BOOLEAN
  <2>1. CASE UNCHANGED forge
    BY <2>1 DEF forge
  <2>2. CASE Add \/ Drop \/ CompleteAdd \/ Rollback \/ Finish \/ Edit
    BY <2>2 DEF Add, Drop, CompleteAdd, Rollback, Finish, Edit
  <2>3. CASE Launch \/ Complete \/ Change
    BY <2>3 DEF Launch, Complete, Change
  <2>4. CASE Begin \/ Settle \/ Passes \/ Take \/ Check \/ Mark \/ Verify \/ Deliver \/ Log
    BY <2>1, <2>4 DEF Begin, Settle, Reconcile, Adopt, Report, Close, Passes, PassPromote,
       PassConflict, PassFinal, Pass, Take, Check, Mark, Verify, Deliver, Log
  <2>5. CASE Confirm \/ Fail \/ Crash \/ Resume \/ Die \/ UNCHANGED vars
    BY <2>1, <2>5 DEF Confirm, Fail, Crash, Resume, Die, vars
  <2>. QED
    BY <2>2, <2>3, <2>4, <2>5 DEF Next, Cycle, Execute, Writers, Finishing
<1>. QED BY <1>1, <1>2 DEF FlagTypes

(* The labels and the counters keep their types.                           *)
LEMMA IssueTypesStep ==
  ASSUME TypeOK, Control, [Next]_vars
  PROVE  IssueTypes'
<1>. USE TypeParts DEF IssueTypes
<1>1. (\E l : Read(l)) \/ Fine \/ Fault => faults' \in Nat
  BY DEF Read, Fault, Fine
<1>2. Event => events' \in Nat
  BY DEF Event
<1>3. CASE Begin
  BY <1>3 DEF Begin, others, forge, counters
<1>4. CASE Settle \/ Take \/ Deliver \/ Log
  <2>1. UNCHANGED <<forge, others, late, events, edits, crashes>>
    BY <1>4 DEF Settle, Reconcile, Adopt, Report, Close, Take, Deliver, Log, counters
  <2>2. faults' \in Nat
    BY <1>1, <1>4 DEF Settle, Reconcile, Adopt, Report, Close, Take, Deliver, Log, counters
  <2>. QED BY <2>1, <2>2 DEF forge, others
<1>5. CASE Passes
  <2>1. UNCHANGED <<forge, others, late, events, edits, crashes>>
    BY <1>5 DEF Passes, PassPromote, PassConflict, PassFinal, Pass
  <2>2. faults' \in Nat
    BY <1>1, <1>5 DEF Passes, PassPromote, PassConflict, PassFinal
  <2>. QED BY <2>1, <2>2 DEF forge, others
<1>6. CASE Check \/ Verify
  <2>1. UNCHANGED <<forge, others, late, events, edits, crashes>>
    BY <1>6 DEF Check, Verify
  <2>2. faults' \in Nat
    BY <1>1, <1>6 DEF Check, Verify
  <2>. QED BY <2>1, <2>2 DEF forge, others
<1>7. CASE Add
  <2>1. cmd.want \in Lifecycle
    BY <1>7 DEF Add, Control, Doing, Executing, Order, Shaped, Lifecycle, Active
  <2>. QED BY <1>1, <1>7, <2>1 DEF Add, Answered, others
<1>8. CASE Mark
  BY <1>8 DEF Mark, others, forge, counters
<1>9. CASE Drop
  BY <1>1, <1>9 DEF Drop, Answered, others
<1>10. CASE Confirm \/ Fail \/ Crash
  BY <1>10 DEF Confirm, Fail, Crash, Off, forge, others, counters, plan
<1>11. CASE Outside
  <2>1. late' = late
    BY <1>11, OutsideLeaves DEF cycle
  <2>2. CASE Launch \/ Rollback
    BY <1>2, <2>1, <2>2 DEF Launch, Rollback, Lifecycle, Active
  <2>3. CASE Complete
    BY <1>2, <2>1, <2>3 DEF Complete
  <2>4. CASE Resume
    BY <2>1, <2>4 DEF Resume, forge, counters
  <2>5. CASE CompleteAdd
    BY <2>1, <2>5 DEF CompleteAdd, others, counters, Lifecycle, Active, None, Control, CycleState
  <2>6. CASE Finish
    BY <2>1, <2>6 DEF Finish, counters
  <2>7. CASE Die \/ Edit
    BY <2>1, <2>7 DEF Die, Edit, others, forge
  <2>8. CASE Change
    BY <1>2, <2>1, <2>8 DEF Change, others
  <2>. QED BY <1>11, <2>2, <2>3, <2>4, <2>5, <2>6, <2>7, <2>8 DEF Outside, Writers, Finishing
<1>12. CASE UNCHANGED vars
  BY <1>12 DEF vars, forge, others, counters
<1>. QED
  BY <1>3, <1>4, <1>5, <1>6, <1>7, <1>8, <1>9, <1>10, <1>11, <1>12
     DEF Next, Cycle, Execute, Outside

(* The journals keep their types.                                          *)
LEMMA JournalTypesStep ==
  ASSUME TypeOK, Control, [Next]_vars
  PROVE  JournalTypes'
<1>. USE TypeParts DEF JournalTypes
<1>1. CASE Begin \/ Reconcile \/ Passes \/ Take \/ Add \/ Drop \/ Verify
  BY <1>1 DEF Begin, Reconcile, Passes, PassPromote, PassConflict, PassFinal, Pass, Take, Add,
     Drop, Verify, disk, plan, Ids
<1>2. CASE Adopt \/ Close \/ Mark
  <2>1. cur \in Pending
    BY <1>2 DEF CurTypes, Adopt, Close, Mark
  <2>2. cur \in 1 .. Len(intents) /\ intents[cur] \in Intent
    BY <2>1 DEF Pending, Ids
  <2>3. \A s \in {"applied", "verified"} :
          /\ [intents[cur] EXCEPT !.st = s] \in Intent
          /\ [intents[cur] EXCEPT !.st = s, !.marked = TRUE] \in Intent
    BY <2>2 DEF Intent
  <2>4. intents' \in Seq(Intent) /\ Len(intents') = Len(intents)
    <3>1. PICK e \in Intent : intents' = [intents EXCEPT ![cur] = e]
      BY <1>2, <2>2, <2>3 DEF Adopt, Close, Mark
    <3>. QED BY <2>2, <3>1, ExceptSeq
  <2>5. Ids' = Ids
    BY <2>4 DEF Ids
  <2>. QED BY <1>2, <2>4, <2>5 DEF Adopt, Close, Mark
<1>3. CASE Report
  BY <1>3 DEF Report, CurTypes, Ids, Pending
<1>4. CASE Check
  <2>1. CASE UNCHANGED intents
    BY <1>4, <2>1 DEF Check, Ids
  <2>2. CASE intents' = Append(intents, NewIntent(cmd))
    <3>1. NewIntent(cmd) \in Intent
      BY <1>4 DEF Check, Control, Doing, Order, Shaped, NewIntent, Intent, Executing, Lifecycle,
         Active, Codes
    <3>2. intents' \in Seq(Intent) /\ Len(intents') = Len(intents) + 1
      BY <2>2, <3>1
    <3>3. Ids \subseteq Ids'
      BY <3>2 DEF Ids
    <3>. QED BY <1>4, <3>2, <3>3 DEF Check
  <2>. QED BY <1>4, <2>1, <2>2 DEF Check
<1>5. CASE Deliver
  BY <1>5 DEF Deliver, Unreported, Ids
<1>6. CASE Log
  <2>1. Ids' = Ids
    BY <1>6 DEF Log, Ids
  <2>2. log' \in Seq(SUBSET Ids)
    BY <1>6 DEF Log
  <2>. QED BY <1>6, <2>1, <2>2 DEF Log
<1>7. CASE Confirm
  BY <1>7 DEF Confirm, Off, Ids
<1>8. CASE Fail \/ Crash
  BY <1>8 DEF Fail, Crash, Off, disk, Ids
<1>9. CASE Outside
  BY <1>9, OutsideLeaves DEF disk, cycle, Ids
<1>10. CASE UNCHANGED vars
  BY <1>10 DEF vars, disk, Ids
<1>. QED
  BY <1>1, <1>2, <1>3, <1>4, <1>5, <1>6, <1>7, <1>8, <1>9, <1>10
     DEF Next, Cycle, Settle, Execute, Outside

-----------------------------------------------------------------------------
(* How the journal of intents changes.                                     *)

(* The first save of an answer, the adoption and the end of an intent      *)
(* change its state, and that of no other intent.                          *)
LEMMA IntentMoves ==
  ASSUME TypeOK, Adopt \/ Close \/ Mark
  PROVE  /\ cur \in Pending /\ Ids' = Ids /\ intents[cur] \in Intent
         /\ \A i \in Ids : i # cur => intents'[i] = intents[i]
         /\ intents'[cur].kind = intents[cur].kind /\ intents'[cur].code = intents[cur].code
         /\ intents'[cur].want = intents[cur].want
         /\ Adopt => intents'[cur].st = "applied" /\ intents'[cur].marked = intents[cur].marked
         /\ Mark => intents'[cur].st = "applied" /\ intents'[cur].marked
         /\ Close => intents'[cur].st = "verified" /\ intents'[cur].marked = intents[cur].marked
<1>1. cur \in Pending /\ intents \in Seq(Intent)
  BY TypeParts DEF CurTypes, JournalTypes, Adopt, Close, Mark
<1>2. cur \in 1 .. Len(intents) /\ intents[cur] \in Intent
  BY <1>1 DEF Pending, Ids
<1>3. CASE Adopt
  <2>1. intents' = [intents EXCEPT ![cur] = [intents[cur] EXCEPT !.st = "applied"]]
    BY <1>3 DEF Adopt
  <2>2. [intents[cur] EXCEPT !.st = "applied"] \in Intent
    BY <1>2 DEF Intent
  <2>. QED BY <1>1, <1>2, <1>3, <2>1, <2>2, ExceptSeq DEF Ids, Intent, Adopt, Close, Mark
<1>4. CASE Close
  <2>1. intents' = [intents EXCEPT ![cur] = [intents[cur] EXCEPT !.st = "verified"]]
    BY <1>4 DEF Close
  <2>2. [intents[cur] EXCEPT !.st = "verified"] \in Intent
    BY <1>2 DEF Intent
  <2>. QED BY <1>1, <1>2, <1>4, <2>1, <2>2, ExceptSeq DEF Ids, Intent, Adopt, Close, Mark
<1>5. CASE Mark
  <2>1. intents' = [intents EXCEPT ![cur] = [intents[cur] EXCEPT !.st = "applied", !.marked = TRUE]]
    BY <1>5 DEF Mark
  <2>2. [intents[cur] EXCEPT !.st = "applied", !.marked = TRUE] \in Intent
    BY <1>2 DEF Intent
  <2>. QED BY <1>1, <1>2, <1>5, <2>1, <2>2, ExceptSeq DEF Ids, Intent, Adopt, Close, Mark
<1>. QED BY <1>3, <1>4, <1>5

(* A new intent is the last one, and it comes when no other one waits.     *)
LEMMA IntentComes ==
  ASSUME TypeOK, Control, Check, ~UNCHANGED intents
  PROVE  /\ at = "check" /\ at' \in {"drop", "add"} /\ reserved = None
         /\ cur' = Len(intents) + 1 /\ cur' \notin Ids /\ Ids' = Ids \cup {cur'}
         /\ \A i \in Ids : intents'[i] = intents[i]
         /\ intents'[cur'] = NewIntent(cmd) /\ Pending = {}
<1>1. /\ intents \in Seq(Intent)
      /\ intents' = Append(intents, NewIntent(cmd)) /\ cur' = Len(intents) + 1
      /\ Match(cmd) = 0 /\ ~Covered(cmd) /\ at = "check" /\ at' \in {"drop", "add"}
      /\ reserved = None
  BY TypeParts DEF JournalTypes, Check, Goto
<1>2. NewIntent(cmd) \in Intent
  BY <1>1 DEF Control, Doing, Order, Shaped, NewIntent, Intent, Executing, Lifecycle, Active, Codes
<1>3. Pending = {}
  BY <1>1 DEF Covered
<1>. QED BY <1>1, <1>2, <1>3, AppendProperties DEF Ids

(* The other steps leave the intents alone.                                *)
LEMMA IntentsStay ==
  ASSUME [Next]_vars, ~Adopt, ~Close, ~Mark, ~Check
  PROVE  UNCHANGED intents
<1>1. CASE Outside
  BY <1>1, OutsideLeaves DEF disk
<1>2. CASE UNCHANGED vars
  BY <1>2 DEF vars, disk
<1>3. CASE Begin \/ Reconcile \/ Report \/ Passes \/ Take \/ Add \/ Drop \/ Verify
  BY <1>3 DEF Begin, Reconcile, Report, Passes, PassPromote, PassConflict, PassFinal, Pass, Take,
     Add, Drop, Verify, disk
<1>4. CASE Deliver \/ Log \/ Confirm \/ Fail \/ Crash
  BY <1>4 DEF Deliver, Log, Confirm, Fail, Crash, disk
<1>. QED BY <1>1, <1>2, <1>3, <1>4 DEF Next, Cycle, Settle, Execute, Outside

(* The intent a cycle carries out stays a pending one.                     *)
LEMMA CurTypesStep ==
  ASSUME TypeOK, Control, [Next]_vars
  PROVE  CurTypes'
<1>. USE TypeParts DEF CurTypes
<1>1. CASE Adopt \/ Mark
  BY <1>1, IntentMoves DEF Adopt, Mark, Pending, Goto
<1>2. CASE Close
  BY <1>2 DEF Close, Onward, Goto
<1>3. CASE Check
  <2>1. CASE ~UNCHANGED intents
    BY <1>3, <2>1, IntentComes DEF Pending, NewIntent
  <2>2. CASE UNCHANGED intents /\ UNCHANGED cur
    BY <1>3, <2>2 DEF Check, Pending, Ids, Goto
  <2>3. CASE UNCHANGED intents /\ ~UNCHANGED cur
    <3>1. cur' = Match(cmd) /\ Match(cmd) # 0
      BY <1>3, <2>3 DEF Check
    <3>2. cur' \in Pending
      BY <3>1, MatchResumes
    <3>. QED BY <2>3, <3>1, <3>2 DEF Pending, Ids
  <2>. QED BY <2>1, <2>2, <2>3
<1>4. CASE Reconcile \/ Report \/ Verify
  <2>1. UNCHANGED intents
    BY <1>4 DEF Reconcile, Report, Verify, disk
  <2>2. \/ cur' \in Pending
        \/ cur' = 0 /\ at' \in {"promote", "next"}
        \/ cur' = cur /\ at' = "promote"
        \/ cur' = cur /\ cur # 0
    BY <1>4 DEF Reconcile, Report, Verify, Goto
  <2>3. Pending' = Pending /\ 0 \notin Pending
    BY <2>1 DEF Pending, Ids, JournalTypes
  <2>. QED BY <2>2, <2>3
<1>5. CASE Begin \/ Passes \/ Take \/ Deliver \/ Log
  <2>1. UNCHANGED <<intents, cur>> /\ at' \notin {"adopt", "report", "close", "add", "mark", "drop", "verify"}
    BY <1>5 DEF Begin, Passes, PassPromote, PassConflict, PassFinal, Pass, Take, Deliver, Log, Goto,
       AfterStage, disk
  <2>. QED BY <2>1 DEF Pending, Ids
<1>6. CASE Add \/ Drop
  <2>1. UNCHANGED intents /\ cur # 0
    BY <1>6 DEF Add, Drop, disk
  <2>2. \A step : Answered(step) => cur' = cur \/ (cur' = 0 /\ at' = "next")
    BY DEF Answered, Goto
  <2>3. Pending' = Pending
    BY <2>1 DEF Pending, Ids
  <2>. QED BY <1>6, <2>1, <2>2, <2>3 DEF Add, Drop
<1>7. CASE Confirm \/ Crash \/ Fail
  <2>1. CASE Off
    BY <2>1 DEF Off
  <2>2. CASE Fail /\ ~Off
    BY <2>2 DEF Fail, Goto, Onward
  <2>. QED BY <1>7, <2>1, <2>2 DEF Confirm, Crash
<1>8. CASE Outside
  BY <1>8, OutsideLeaves DEF disk, cycle, Pending, Ids
<1>9. CASE UNCHANGED vars
  BY <1>9 DEF vars, disk, Pending, Ids
<1>. QED
  BY <1>1, <1>2, <1>3, <1>4, <1>5, <1>6, <1>7, <1>8, <1>9
     DEF Next, Cycle, Settle, Execute, Outside

(* What the cycle plans keeps its types.                                   *)
LEMMA CycleTypesStep ==
  ASSUME TypeOK, Control, [Next]_vars
  PROVE  CycleTypes'
<1>. USE TypeParts DEF CycleTypes
<1>1. CASE Begin
  BY <1>1 DEF Begin, Goto, Now, View, IssueTypes, FlagTypes
<1>2. CASE Settle
  BY <1>2 DEF Settle, Reconcile, Adopt, Report, Close, Goto, Onward, plan
<1>3. CASE Passes
  <2>1. \A v \in View : \A c \in Commands(v) : c \in Command
    BY PlanOrders DEF Order
  <2>2. \A l \in SUBSET Lifecycle : [labels |-> l, dep |-> seen.dep, hold |-> hold] \in View
    BY DEF View, FlagTypes
  <2>. QED BY <1>3, <2>1, <2>2 DEF Passes, PassPromote, PassConflict, PassFinal, Pass, Goto
<1>4. CASE Take
  BY <1>4 DEF Take, Goto, AfterStage, Control, Todo, Order, Shaped, Codes
<1>5. CASE Check \/ Mark \/ Verify
  BY <1>5 DEF Check, Mark, Verify, Goto, plan
<1>6. CASE Add \/ Drop
  BY <1>6 DEF Add, Drop, Answered, Goto, plan
<1>7. CASE Deliver \/ Log
  BY <1>7 DEF Deliver, Log, Goto, plan
<1>8. CASE Confirm \/ Crash \/ Fail
  <2>1. CASE Off
    BY <2>1 DEF Off, View, Unseen, NoCommand, Command, None
  <2>2. CASE Fail /\ ~Off
    BY <2>2 DEF Fail, Goto, Onward, plan
  <2>. QED BY <1>8, <2>1, <2>2 DEF Confirm, Crash
<1>9. CASE Outside
  BY <1>9, OutsideLeaves DEF cycle, plan
<1>10. CASE UNCHANGED vars
  BY <1>10 DEF vars, plan
<1>. QED
  BY <1>1, <1>2, <1>3, <1>4, <1>5, <1>6, <1>7, <1>8, <1>9, <1>10
     DEF Next, Cycle, Execute, Outside

(* A step keeps every type.                                                *)
LEMMA TypesStep ==
  ASSUME TypeOK, Control, [Next]_vars
  PROVE  TypeOK'
<1>. IssueTypes' /\ FlagTypes' /\ JournalTypes' /\ CycleTypes' /\ CurTypes'
  BY IssueTypesStep, FlagTypesStep, JournalTypesStep, CycleTypesStep, CurTypesStep
<1>. QED BY DEF TypeOK, IssueTypes, FlagTypes, JournalTypes, CycleTypes, CurTypes, View

-----------------------------------------------------------------------------
(* The passes of a cycle.                                                  *)

(* The commands of a pass come from the policy.                            *)
LEMMA PassPlans ==
  ASSUME TypeOK, Control, Passes
  PROVE  /\ at \in {"promote", "conflict", "final"} /\ stage' = at /\ at' = "next"
         /\ UNCHANGED <<forge, others, disk, seen, cmd, tried, late, cur, sending>>
         /\ at = "promote" => todo' = {c \in Commands(seen) : c.code = "promote"} /\ Fine
         /\ at = "conflict" => todo' = {c \in Commands(seen) : c.code = "conflict"} /\ Fine
         /\ at = "final" => \E l \in SUBSET Lifecycle :
              /\ Read(l)
              /\ todo' = {c \in Commands([labels |-> l, dep |-> seen.dep, hold |-> hold]) :
                            c.code \in Final \ tried}
<1>1. CASE PassPromote
  BY <1>1 DEF PassPromote, Pass, Goto
<1>2. CASE PassConflict
  BY <1>2 DEF PassConflict, Pass, Goto
<1>3. CASE PassFinal
  BY <1>3 DEF PassFinal, Pass, Goto
<1>. QED BY <1>1, <1>2, <1>3 DEF Passes

(* What a pass leaves to be done.                                          *)
LEMMA PassTodo ==
  ASSUME TypeOK, Control, Passes
  PROVE  Todo'
<1>. seen \in View /\ hold \in BOOLEAN
  BY TypeParts DEF CycleTypes, FlagTypes
<1>1. CASE at \in {"promote", "conflict"}
  <2>1. todo' = {c \in Commands(seen) : c.code = at} /\ stage' = at /\ seen' = seen
    BY <1>1, PassPlans
  <2>2. \A c \in todo' : Order(c) /\ c.want = Want(seen) /\ (c.code = "promote" => Promotable(seen))
    BY <2>1, PlanOrders
  <2>3. Promotable(seen)' <=> Promotable(seen)
    BY <2>1 DEF Promotable
  <2>. QED BY <1>1, <2>1, <2>2, <2>3 DEF Todo
<1>2. CASE at = "final"
  <2>1. stage' = "final"
    BY <1>2, PassPlans
  <2>2. PICK v \in View : todo' \subseteq Commands(v)
    <3>1. PICK l \in SUBSET Lifecycle :
            todo' = {c \in Commands([labels |-> l, dep |-> seen.dep, hold |-> hold]) :
                       c.code \in Final \ tried}
      BY <1>2, PassPlans
    <3>2. [labels |-> l, dep |-> seen.dep, hold |-> hold] \in View
      BY DEF View
    <3>. QED BY <3>1, <3>2
  <2>3. \A c \in todo' : Order(c) /\ c.want = Want(v)
    BY <2>2, PlanOrders
  <2>. QED BY <2>1, <2>3 DEF Todo
<1>. QED BY <1>1, <1>2, PassPlans

(* A step of the cycle that neither starts a pass nor takes a command.     *)
LEMMA PlanStays ==
  ASSUME Settle \/ Executors \/ Deliver \/ Log \/ (Fail /\ ~Off) \/ Outside \/ UNCHANGED vars
  PROVE  UNCHANGED plan
<1>1. CASE Settle \/ Deliver \/ Log \/ (Fail /\ ~Off)
  BY <1>1 DEF Settle, Reconcile, Adopt, Report, Close, Deliver, Log, Fail
<1>2. CASE Executors
  BY <1>2 DEF Executors, Check, Add, Mark, Drop, Verify
<1>3. CASE Outside \/ UNCHANGED vars
  BY <1>3, OutsideLeaves DEF cycle, vars
<1>. QED BY <1>1, <1>2, <1>3

(* Where the cycle goes from each of its steps.                            *)
LEMMA Steps ==
  ASSUME TypeOK, Control, [Next]_vars
  PROVE  /\ Begin => at = "off" /\ at' = "reconcile"
         /\ Reconcile => at = "reconcile" /\ at' \in {"adopt", "report", "close", "promote"}
         /\ Adopt => at = "adopt" /\ at' = "close"
         /\ Report => at = "report" /\ at' = "close"
         /\ Close => at = "close" /\ at' = Onward
         /\ Take /\ todo = {} => at = "next" /\ at' = AfterStage /\ UNCHANGED <<todo, cmd, tried>>
         /\ Take /\ todo # {} =>
              /\ at = "next" /\ at' = "check" /\ cmd' \in todo
              /\ todo' = todo \ {cmd'} /\ tried' = tried \cup {cmd'.code}
         /\ Take => UNCHANGED <<forge, others, disk, stage, seen, late, cur, sending, calm>>
         /\ Check => at = "check"
              /\ at' \in {"next", IF cmd.kind = "remove" THEN "drop" ELSE "add"}
         /\ Add => at = "add" /\ at' \in {"mark", "next"}
         /\ Mark => at = "mark" /\ at' = IF cmd.kind = "transition" THEN "drop" ELSE "verify"
         /\ Drop => at = "drop"
              /\ at' \in {"next", IF cmd.kind = "transition" THEN "verify" ELSE "mark"}
         /\ Verify => at = "verify" /\ at' \in {"next", "report", "close"}
         /\ Deliver => at = "deliver" /\ at' = "conflict"
         /\ Log => at = "log" /\ at' = "confirm"
         /\ Fail /\ ~Off =>
              \/ at = "reconcile" /\ at' = "promote"
              \/ at \in {"adopt", "report", "close"} /\ at' = Onward
              \/ at = "deliver" /\ at' = "conflict"
              \/ at = "final" /\ at' = "log"
              \/ at \in Executing /\ at' = "next"
<1>1. at \in {"off", "reconcile", "adopt", "report", "close", "promote", "conflict", "final",
              "next", "check", "add", "mark", "drop", "verify", "deliver", "log", "confirm"}
  BY TypeParts DEF CycleTypes
<1>2. Begin => at = "off" /\ at' = "reconcile"
  BY DEF Begin, Goto
<1>3. /\ Reconcile => at = "reconcile" /\ at' \in {"adopt", "report", "close", "promote"}
      /\ Adopt => at = "adopt" /\ at' = "close"
      /\ Report => at = "report" /\ at' = "close"
      /\ Close => at = "close" /\ at' = Onward
  BY DEF Reconcile, Adopt, Report, Close, Goto
<1>4. /\ Take /\ todo = {} => at = "next" /\ at' = AfterStage /\ UNCHANGED <<todo, cmd, tried>>
      /\ Take /\ todo # {} =>
           /\ at = "next" /\ at' = "check" /\ cmd' \in todo
           /\ todo' = todo \ {cmd'} /\ tried' = tried \cup {cmd'.code}
      /\ Take => UNCHANGED <<forge, others, disk, stage, seen, late, cur, sending, calm>>
  BY DEF Take, Goto
<1>5. /\ Check => at = "check"
           /\ at' \in {"next", IF cmd.kind = "remove" THEN "drop" ELSE "add"}
      /\ Verify => at = "verify" /\ at' \in {"next", "report", "close"}
  BY DEF Check, Verify, Goto
<1>6. /\ Add => at = "add" /\ at' \in {"mark", "next"}
      /\ Mark => at = "mark" /\ at' = IF cmd.kind = "transition" THEN "drop" ELSE "verify"
      /\ Drop => at = "drop"
           /\ at' \in {"next", IF cmd.kind = "transition" THEN "verify" ELSE "mark"}
  <2>1. \A step : Answered(step) => at' \in {step, "next"}
    BY DEF Answered, Goto
  <2>. QED BY <2>1 DEF Add, Mark, Drop, Goto
<1>7. /\ Deliver => at = "deliver" /\ at' = "conflict"
      /\ Log => at = "log" /\ at' = "confirm"
  BY DEF Deliver, Log, Goto
<1>8. Fail /\ ~Off =>
              \/ at = "reconcile" /\ at' = "promote"
              \/ at \in {"adopt", "report", "close"} /\ at' = Onward
              \/ at = "deliver" /\ at' = "conflict"
              \/ at = "final" /\ at' = "log"
              \/ at \in Executing /\ at' = "next"
  BY <1>1 DEF Fail, Goto, Executing
<1>. QED BY <1>2, <1>3, <1>4, <1>5, <1>6, <1>7, <1>8

(* Between cycles nothing is in memory, and in one the lock is held.       *)
LEMMA CycleStateStep ==
  ASSUME TypeOK, Control, [Next]_vars
  PROVE  CycleState'
<1>. USE DEF CycleState
<1>0. CycleState
  BY DEF Control
<1>1. CASE Begin
  BY <1>0, <1>1 DEF Begin, Goto, others
<1>2. CASE Settle \/ Deliver \/ Log \/ Mark \/ Verify
  <2>1. UNCHANGED others
    BY <1>2 DEF Settle, Reconcile, Adopt, Report, Close, Deliver, Log, Mark, Verify
  <2>2. at # "off" /\ at' # "off"
    BY <1>2, Steps DEF Settle, Onward
  <2>3. at' \in {"add", "mark", "drop", "verify"} => at = "mark"
    BY <1>2, Steps DEF Settle, Onward
  <2>. QED BY <1>0, <2>1, <2>2, <2>3 DEF others
<1>3. CASE Passes
  BY <1>0, <1>3, PassPlans DEF others
<1>4. CASE Take
  BY <1>0, <1>4, Steps DEF others, AfterStage
<1>5. CASE Check
  <2>1. UNCHANGED others /\ at' # "off" /\ at # "off"
    BY <1>5, Steps DEF Check
  <2>2. reserved # None => at' = "next"
    BY <1>5 DEF Check, Goto
  <2>. QED BY <1>0, <2>1, <2>2 DEF others
<1>6. CASE Add \/ Drop
  <2>1. UNCHANGED others /\ at' # "off"
    BY <1>6, Steps DEF Add, Drop
  <2>. QED BY <1>0, <1>6, <2>1, Steps DEF others
<1>7. CASE Confirm \/ Crash \/ Fail
  <2>1. UNCHANGED others
    BY <1>7 DEF Confirm, Crash, Fail
  <2>2. CASE Off
    BY <1>0, <2>1, <2>2 DEF Off, others
  <2>3. CASE Fail /\ ~Off
    <3>1. at # "off" /\ at' \notin {"off", "add", "mark", "drop", "verify"}
      BY <2>3, Steps DEF Onward, Executing
    <3>. QED BY <1>0, <2>1, <3>1 DEF others
  <2>. QED BY <1>7, <2>2, <2>3 DEF Confirm, Crash
<1>8. CASE Outside
  <2>1. UNCHANGED cycle
    BY <1>8, OutsideLeaves
  <2>2. CASE Launch \/ Complete \/ Resume
    <3>1. at = "off" /\ ~calm'
      BY <2>2 DEF Launch, Complete, Resume, Locked, Event
    <3>2. writer' = "complete" => reserved' # None
      BY <2>2 DEF Launch, Complete, Resume, None
    <3>. QED BY <1>0, <2>1, <3>1, <3>2 DEF cycle, plan
  <2>3. CASE Rollback
    BY <1>0, <2>1, <2>3 DEF Rollback, cycle, plan, Event
  <2>4. CASE CompleteAdd \/ Finish
    BY <1>0, <2>1, <2>4 DEF CompleteAdd, Finish, cycle, plan, others
  <2>5. CASE Die
    BY <1>0, <2>1, <2>5 DEF Die, cycle, plan
  <2>6. CASE Change \/ Edit
    BY <1>0, <2>1, <2>6 DEF Change, Edit, Event, cycle, plan, others
  <2>. QED BY <1>8, <2>2, <2>3, <2>4, <2>5, <2>6 DEF Outside, Writers, Finishing
<1>9. CASE UNCHANGED vars
  BY <1>0, <1>9 DEF vars, cycle, plan, others
<1>. QED
  BY <1>1, <1>2, <1>3, <1>4, <1>5, <1>6, <1>7, <1>8, <1>9
     DEF Next, Cycle, Execute, Outside

(* The passes come in their order.                                         *)
LEMMA StageStateStep ==
  ASSUME TypeOK, Control, [Next]_vars
  PROVE  StageState'
<1>. USE DEF StageState
<1>0. StageState /\ stage \in {None, "promote", "conflict", "final"}
  BY TypeParts DEF Control, CycleTypes
<1>1. CASE Begin
  BY <1>0, <1>1 DEF Begin, Goto, Control, CycleState, Executing
<1>2. CASE Settle
  BY <1>0, <1>2, Steps, PlanStays DEF Settle, plan, Onward, Executing
<1>3. CASE Passes
  BY <1>0, <1>3, PassPlans DEF Executing, None
<1>4. CASE Take
  <2>1. CASE todo = {}
    BY <1>0, <1>4, <2>1, Steps DEF AfterStage, Executing
  <2>2. CASE todo # {}
    BY <1>0, <1>4, <2>2, Steps DEF Executing
  <2>. QED BY <2>1, <2>2
<1>5. CASE Executors
  BY <1>0, <1>5, Steps, PlanStays DEF Executors, plan, Executing
<1>6. CASE Deliver \/ Log
  BY <1>0, <1>6, Steps, PlanStays DEF plan, Executing
<1>7. CASE Confirm \/ Crash \/ Fail
  <2>1. CASE Off
    BY <2>1 DEF Off, Executing, None
  <2>2. CASE Fail /\ ~Off
    BY <1>0, <2>2, Steps, PlanStays DEF plan, Executing, Onward
  <2>. QED BY <1>7, <2>1, <2>2 DEF Confirm, Crash
<1>8. CASE Outside
  BY <1>0, <1>8, OutsideLeaves DEF cycle, plan
<1>9. CASE UNCHANGED vars
  BY <1>0, <1>9 DEF vars, plan
<1>. QED
  BY <1>1, <1>2, <1>3, <1>4, <1>5, <1>6, <1>7, <1>8, <1>9
     DEF Next, Cycle, Execute, Executors, Outside

(* The commands that are left, the one at hand and the ones that were      *)
(* tried belong to the pass.                                               *)
LEMMA OrdersStep ==
  ASSUME TypeOK, Control, [Next]_vars
  PROVE  Todo' /\ Doing' /\ Trying'
<1>. USE DEF Todo, Doing, Trying
<1>0. /\ Todo /\ Doing /\ Trying /\ StageState /\ CycleState
      /\ stage \in {None, "promote", "conflict", "final"}
  BY TypeParts DEF Control, CycleTypes
<1>1. CASE Begin
  BY <1>0, <1>1 DEF Begin, Goto, CycleState, Executing
<1>2. CASE Settle \/ Deliver \/ Log
  BY <1>0, <1>2, Steps, PlanStays DEF Settle, plan, Onward, Executing, Promotable
<1>3. CASE Passes
  <2>1. Todo'
    BY <1>3, PassTodo
  <2>2. Doing'
    BY <1>3, PassPlans DEF Executing
  <2>3. Trying'
    BY <1>0, <1>3, PassPlans DEF StageState, Promotable, None
  <2>. QED BY <2>1, <2>2, <2>3
<1>4. CASE Take
  <2>1. CASE todo = {}
    <3>1. at' \notin Executing /\ UNCHANGED <<todo, tried, stage, seen>>
      BY <1>4, <2>1, Steps DEF Executing, AfterStage
    <3>. QED BY <1>0, <3>1 DEF Promotable
  <2>2. CASE todo # {}
    <3>1. /\ at' = "check" /\ cmd' \in todo /\ todo' \subseteq todo
          /\ tried' = tried \cup {cmd'.code} /\ UNCHANGED <<stage, seen>>
      BY <1>4, <2>2, Steps
    <3>2. Todo'
      BY <1>0, <2>2, <3>1 DEF Promotable
    <3>3. Doing'
      BY <1>0, <3>1
    <3>4. stage # "final" /\ cmd'.code = "promote" => Promotable(seen)
      BY <1>0, <1>4, <2>2, <3>1, Steps DEF StageState, Executing
    <3>5. Trying'
      BY <1>0, <1>4, <3>1, <3>4, Steps DEF StageState, Promotable
    <3>. QED BY <3>2, <3>3, <3>5
  <2>. QED BY <2>1, <2>2
<1>5. CASE Executors
  <2>1. UNCHANGED <<stage, seen, todo, cmd, tried>> /\ at \in Executing
    BY <1>5, Steps, PlanStays DEF plan, Executors, Executing
  <2>2. (at' = "add" => cmd.kind # "remove") /\ (at' = "drop" => cmd.kind # "add")
    BY <1>0, <1>5, <2>1, Steps DEF Executors, Order, Shaped
  <2>. QED BY <1>0, <2>1, <2>2 DEF Promotable
<1>6. CASE Confirm \/ Crash \/ Fail
  <2>1. CASE Off
    BY <2>1 DEF Off, Executing, None
  <2>2. CASE Fail /\ ~Off
    <3>1. at' \notin Executing /\ UNCHANGED <<stage, seen, todo, cmd, tried>>
      BY <2>2, Steps, PlanStays DEF plan, Executing, Onward
    <3>. QED BY <1>0, <3>1 DEF Promotable
  <2>. QED BY <1>6, <2>1, <2>2 DEF Confirm, Crash
<1>7. CASE Outside
  BY <1>0, <1>7, OutsideLeaves DEF cycle, plan, Promotable
<1>8. CASE UNCHANGED vars
  BY <1>0, <1>8 DEF vars, plan, Promotable
<1>. QED
  BY <1>1, <1>2, <1>3, <1>4, <1>5, <1>6, <1>7, <1>8
     DEF Next, Cycle, Execute, Executors, Outside

(* The control of the cycle is kept.                                       *)
LEMMA ControlStep ==
  ASSUME TypeOK, Control, [Next]_vars
  PROVE  Control'
BY CycleStateStep, StageStateStep, OrdersStep DEF Control

-----------------------------------------------------------------------------
(* The journals and the event log.                                         *)

IntentsShaped == \A i \in Ids : Shaped(intents[i])
AtMostOne == \A i, j \in Pending : i = j

(* Only the first save of an answer marks an intent, and what is adopted   *)
(* was not marked.                                                         *)
Unmarked ==
  /\ \A i \in Ids : intents[i].st = "planned" => ~intents[i].marked
  /\ at = "adopt" => intents[cur].st = "planned"

(* A line in the making holds nothing the log has, until it is written.    *)
SendingFresh ==
  IF at = "confirm" THEN sending \subseteq Logged ELSE sending \cap Logged = {}

(* A promotion is noted before its intent is verified.                     *)
ClosingTold ==
  at = "close" /\ Promotion(cur) /\ intents[cur].marked => Told(cur)

Journals ==
  /\ IntentsShaped /\ AtMostOne /\ Unmarked
  /\ SendingFresh /\ LoggedOnce /\ ClosingTold /\ PromotionTold

(* An intent has the shape of the command it was made from.                *)
LEMMA ShapedStep ==
  ASSUME TypeOK, Control, Journals, [Next]_vars
  PROVE  IntentsShaped'
<1>. USE DEF IntentsShaped
<1>0. IntentsShaped
  BY DEF Journals
<1>1. CASE Adopt \/ Close \/ Mark
  <2>1. \A i \in Ids : /\ intents'[i].kind = intents[i].kind /\ intents'[i].code = intents[i].code
                       /\ intents'[i].want = intents[i].want
    BY <1>1, IntentMoves
  <2>. QED BY <1>0, <1>1, <2>1, IntentMoves DEF Shaped
<1>2. CASE Check /\ ~UNCHANGED intents
  <2>1. Shaped(intents'[cur'])
    BY <1>2, IntentComes DEF Control, Doing, Executing, Order, Shaped, NewIntent
  <2>. QED BY <1>0, <1>2, <2>1, IntentComes DEF Shaped
<1>3. CASE UNCHANGED intents
  BY <1>0, <1>3 DEF Ids, Shaped
<1>. QED BY <1>1, <1>2, <1>3, IntentsStay

(* One intent waits at a time.                                             *)
LEMMA AtMostOneStep ==
  ASSUME TypeOK, Control, Journals, [Next]_vars
  PROVE  AtMostOne'
<1>. USE DEF AtMostOne
<1>0. AtMostOne
  BY DEF Journals
<1>1. CASE Adopt \/ Close \/ Mark
  <2>1. Pending' \subseteq Pending
    BY <1>1, IntentMoves DEF Pending
  <2>. QED BY <1>0, <2>1
<1>2. CASE Check /\ ~UNCHANGED intents
  <2>1. Pending' \subseteq {cur'}
    BY <1>2, IntentComes DEF Pending
  <2>. QED BY <2>1
<1>3. CASE UNCHANGED intents
  BY <1>0, <1>3 DEF Pending, Ids
<1>. QED BY <1>1, <1>2, <1>3, IntentsStay

(* Only the steps of the settlement come to the adoption or the end of an  *)
(* intent.                                                                 *)
LEMMA SettlesAlone ==
  ASSUME TypeOK, Control, [Next]_vars, at' \in {"adopt", "close"}, ~Settle, ~Verify
  PROVE  at = at' /\ UNCHANGED cur
<1>1. CASE Outside
  BY <1>1, OutsideLeaves DEF cycle
<1>2. CASE UNCHANGED vars
  BY <1>2 DEF vars
<1>3. CASE Begin \/ Take \/ Check \/ Add \/ Mark \/ Drop \/ Deliver \/ Log
  BY <1>3, Steps DEF AfterStage
<1>4. CASE Passes
  BY <1>4, PassPlans
<1>5. CASE Confirm \/ Crash \/ Fail
  <2>1. CASE Off
    BY <2>1 DEF Off
  <2>2. CASE Fail /\ ~Off
    BY <2>2, Steps DEF Onward
  <2>. QED BY <1>5, <2>1, <2>2 DEF Confirm, Crash
<1>. QED BY <1>1, <1>2, <1>3, <1>4, <1>5 DEF Next, Cycle, Execute, Outside

(* What is only planned was never marked.                                  *)
LEMMA UnmarkedStep ==
  ASSUME TypeOK, Control, Journals, [Next]_vars
  PROVE  Unmarked'
<1>. USE DEF Unmarked
<1>0. Unmarked
  BY DEF Journals
<1>1. CASE Adopt \/ Close \/ Mark
  <2>1. at' # "adopt"
    BY <1>1, Steps DEF Onward
  <2>2. \A i \in Ids : intents'[i].st = "planned" => intents'[i] = intents[i]
    BY <1>1, IntentMoves
  <2>. QED BY <1>0, <1>1, <2>1, <2>2, IntentMoves
<1>2. CASE Check /\ ~UNCHANGED intents
  <2>1. intents'[cur'].marked = FALSE
    BY <1>2, IntentComes DEF NewIntent
  <2>. QED BY <1>0, <1>2, <2>1, IntentComes
<1>3. CASE UNCHANGED intents
  <2>1. \A i \in Ids' : intents'[i].st = "planned" => ~intents'[i].marked
    BY <1>0, <1>3 DEF Ids
  <2>2. CASE Reconcile
    BY <1>0, <1>3, <2>1, <2>2 DEF Reconcile, Goto
  <2>3. CASE ~Reconcile /\ at' = "adopt"
    <3>1. at = "adopt" /\ cur' = cur
      BY <2>3, SettlesAlone, Steps DEF Settle, Onward
    <3>. QED BY <1>0, <1>3, <2>1, <3>1
  <2>. QED BY <2>1, <2>2, <2>3
<1>. QED BY <1>1, <1>2, <1>3, IntentsStay

(* The other steps leave the reports, the event log and its next line.     *)
LEMMA LinesStay ==
  ASSUME TypeOK, Control, [Next]_vars, ~Deliver, ~Log, ~Confirm
  PROVE  /\ UNCHANGED log
         /\ \/ UNCHANGED reports \/ Report
         /\ \/ at # "confirm" /\ at' # "confirm" /\ UNCHANGED sending
            \/ at = "confirm" /\ at' = "confirm" /\ UNCHANGED sending
            \/ at' = "off" /\ sending' = {}
<1>1. CASE Outside
  BY <1>1, OutsideLeaves DEF disk, cycle
<1>2. CASE UNCHANGED vars
  BY <1>2 DEF vars, disk
<1>3. CASE Crash \/ Fail
  <2>1. UNCHANGED disk
    BY <1>3 DEF Crash, Fail
  <2>2. CASE Off
    BY <2>1, <2>2 DEF disk, Off
  <2>3. CASE Fail /\ ~Off
    <3>1. UNCHANGED sending
      BY <2>3 DEF Fail
    <3>2. at # "confirm" /\ at' # "confirm"
      BY <2>3, Steps DEF Onward, Executing
    <3>. QED BY <2>1, <3>1, <3>2 DEF disk
  <2>. QED BY <1>3, <2>2, <2>3 DEF Crash
<1>4. CASE Passes
  BY <1>4, PassPlans DEF disk
<1>5. CASE Begin \/ Settle \/ Take
  <2>1. UNCHANGED <<log, sending>> /\ (UNCHANGED reports \/ Report)
    BY <1>5 DEF Begin, Settle, Reconcile, Adopt, Report, Close, Take, disk
  <2>2. at # "confirm" /\ at' # "confirm"
    BY <1>5, Steps DEF Settle, Onward, AfterStage
  <2>. QED BY <2>1, <2>2
<1>6. CASE Executors
  <2>1. UNCHANGED <<log, sending, reports>>
    BY <1>6 DEF Executors, Check, Add, Mark, Drop, Verify, disk
  <2>2. at # "confirm" /\ at' # "confirm"
    BY <1>6, Steps DEF Executors
  <2>. QED BY <2>1, <2>2
<1>. QED
  BY <1>1, <1>2, <1>3, <1>4, <1>5, <1>6 DEF Next, Cycle, Execute, Executors, Outside

(* What one more line does to the log.                                     *)
LEMMA LogGrows ==
  ASSUME TypeOK, Log
  PROVE  /\ Logged' = Logged \cup sending /\ UNCHANGED <<sending, reports>>
         /\ LoggedOnce /\ sending \cap Logged = {} => LoggedOnce'
<1>. UNCHANGED <<sending, reports>>
  BY DEF Log
<1>1. CASE sending = {}
  BY <1>1 DEF Log, Logged, LoggedOnce
<1>2. CASE sending # {}
  <2>1. log \in Seq(SUBSET Ids) /\ sending \in SUBSET Ids /\ log' = Append(log, sending)
    BY <1>2, TypeParts DEF JournalTypes, Log
  <2>2. /\ DOMAIN log' = DOMAIN log \cup {Len(log) + 1} /\ Len(log) + 1 \notin DOMAIN log
        /\ \A n \in DOMAIN log : log'[n] = log[n]
        /\ log'[Len(log) + 1] = sending
    BY <2>1, AppendProperties
  <2>3. Logged' = Logged \cup sending
    BY <2>2 DEF Logged
  <2>4. ASSUME LoggedOnce, sending \cap Logged = {}
        PROVE  LoggedOnce'
    <3>1. \A n \in DOMAIN log : log[n] \cap sending = {}
      BY <2>4 DEF Logged
    <3>. QED BY <2>2, <2>4, <3>1 DEF LoggedOnce
  <2>. QED BY <2>3, <2>4
<1>. QED BY <1>1, <1>2

(* A promotion is in one line at most.                                     *)
LEMMA LinesStep ==
  ASSUME TypeOK, Control, Journals, [Next]_vars
  PROVE  SendingFresh' /\ LoggedOnce'
<1>. USE DEF SendingFresh
<1>0. SendingFresh /\ LoggedOnce
  BY DEF Journals
<1>1. CASE Deliver
  <2>1. at' # "confirm" /\ sending' = reports \ Logged /\ UNCHANGED log
    BY <1>1, Steps DEF Deliver, Unreported
  <2>. QED BY <1>0, <2>1 DEF Logged, LoggedOnce
<1>2. CASE Log
  <2>1. at = "log" /\ at' = "confirm"
    BY <1>2, Steps
  <2>. QED BY <1>0, <1>2, <2>1, LogGrows
<1>3. CASE Confirm
  BY <1>0, <1>3 DEF Confirm, Off, Logged, LoggedOnce
<1>4. CASE ~Deliver /\ ~Log /\ ~Confirm
  BY <1>0, <1>4, LinesStay DEF Logged, LoggedOnce
<1>. QED BY <1>1, <1>2, <1>3, <1>4

(* What was told stays told.                                               *)
LEMMA ToldStays ==
  ASSUME TypeOK, Control, Journals, [Next]_vars, NEW i, Told(i)
  PROVE  Told(i)'
<1>1. CASE Deliver
  BY <1>1 DEF Deliver, Unreported, Told, Logged
<1>2. CASE Log
  BY <1>2, LogGrows DEF Told
<1>3. CASE Confirm
  BY <1>3 DEF Confirm, Told, Logged, Journals, SendingFresh
<1>4. CASE ~Deliver /\ ~Log /\ ~Confirm
  BY <1>4, LinesStay DEF Told, Logged, Report
<1>. QED BY <1>1, <1>2, <1>3, <1>4

(* A marked and verified promotion is told.                                *)
LEMMA ToldStep ==
  ASSUME TypeOK, Control, Journals, [Next]_vars
  PROVE  ClosingTold' /\ PromotionTold'
<1>0. ClosingTold /\ PromotionTold /\ Unmarked
  BY DEF Journals
<1>. USE DEF Promotion
<1>1. CASE Adopt
  <2>1. ~intents'[cur].marked /\ UNCHANGED cur
    BY <1>0, <1>1, IntentMoves, Steps DEF Unmarked, Pending, Adopt
  <2>. QED BY <1>0, <1>1, <2>1, IntentMoves, ToldStays DEF ClosingTold, PromotionTold
<1>2. CASE Close
  <2>1. at = "close" /\ at' # "close"
    BY <1>2, Steps DEF Onward
  <2>2. ASSUME NEW i \in Ids, Promotion(i)', intents'[i].marked, intents'[i].st = "verified"
        PROVE  Told(i)
    <3>1. CASE i = cur
      BY <1>0, <1>2, <2>1, <2>2, <3>1, IntentMoves DEF ClosingTold
    <3>2. CASE i # cur
      BY <1>0, <1>2, <2>2, <3>2, IntentMoves DEF PromotionTold
    <3>. QED BY <3>1, <3>2
  <2>. QED BY <1>2, <2>1, <2>2, IntentMoves, ToldStays DEF ClosingTold, PromotionTold
<1>3. CASE Mark
  <2>1. at' # "close"
    BY <1>3, Steps
  <2>. QED BY <1>0, <1>3, <2>1, IntentMoves, ToldStays DEF ClosingTold, PromotionTold
<1>4. CASE Check /\ ~UNCHANGED intents
  <2>1. at' # "close" /\ intents'[cur'].st # "verified"
    BY <1>4, IntentComes DEF NewIntent
  <2>. QED BY <1>0, <1>4, <2>1, IntentComes, ToldStays DEF ClosingTold, PromotionTold
<1>5. CASE UNCHANGED intents /\ ~Adopt /\ ~Close
  <2>1. PromotionTold'
    BY <1>0, <1>5, ToldStays DEF PromotionTold, Ids
  <2>2. CASE Report
    BY <1>0, <2>1, <2>2 DEF Report, ClosingTold, Told
  <2>3. CASE Reconcile \/ Verify
    <3>1. at' = "close" => ~Promotion(cur')
      BY <2>3 DEF Reconcile, Verify, Goto
    <3>. QED BY <1>5, <2>1, <3>1 DEF ClosingTold
  <2>4. CASE ~Report /\ ~Reconcile /\ ~Verify
    <3>1. at' = "close" => at = "close" /\ cur' = cur
      BY <1>5, <2>4, SettlesAlone DEF Settle
    <3>. QED BY <1>0, <1>5, <2>1, <3>1, ToldStays DEF ClosingTold
  <2>. QED BY <2>2, <2>3, <2>4
<1>. QED BY <1>1, <1>2, <1>3, <1>4, <1>5, IntentsStay

(* The journals are kept.                                                  *)
LEMMA JournalsStep ==
  ASSUME TypeOK, Control, Journals, [Next]_vars
  PROVE  Journals'
BY ShapedStep, AtMostOneStep, UnmarkedStep, LinesStep, ToldStep DEF Journals

-----------------------------------------------------------------------------
(* The labels, as long as nobody edits them.                               *)

(* A finished Issue holds nothing else, but for the label of a rollback.   *)
Finished(s) == "done" \in s => s \subseteq {"done", "queued"}

(* Where the labels stand between the two writes of another process.       *)
WritersLabels ==
  /\ labels # {}
  /\ writer = "launch" => "progress" \in labels
  /\ writer = "rollback" => labels \ {"done"} # {}
  /\ reserved # None => labels \subseteq Active \cup {reserved}
  /\ reserved = None => Finished(labels) /\ Finished(late) /\ Finished(seen.labels)

(* What the cycle may still read is older by its own last write only: the  *)
(* integrator's rollback keeps the label that counts.                      *)
LateLabels ==
  at # "off" /\ reserved = None =>
    /\ late # {}
    /\ "done" \in labels => "done" \in late
    /\ tried = {} => late \ {"done"} \subseteq labels
    /\ "conflict" \notin tried /\ stage # "final" => late \ {"done", "blocked"} \subseteq labels

(* A removal leaves the label it wants, which is there whichever labels    *)
(* the check before it reads.                                              *)
Keeps(c) == c.kind = "remove" => c.want # "done" /\ (c.want \in late => c.want \in labels)
OrdersKeep ==
  reserved = None =>
    /\ \A c \in todo : Keeps(c)
    /\ at = "check" => Keeps(cmd)
    /\ at = "add" => "done" \notin labels
    /\ at = "drop" \/ (at = "mark" /\ cmd.kind = "transition") =>
         cmd.want \in labels /\ cmd.want # "done"
KeptLabels == WritersLabels /\ LateLabels /\ OrdersKeep
LabelsSafe == edits = 0 => KeptLabels

IInv == TypeOK /\ Control /\ Journals /\ LabelsSafe

(* A conflict never ends in done when only a rollback leaves labels beside *)
(* it, and completed dependencies never want blocked.                      *)
LEMMA ConflictWant ==
  ASSUME NEW v \in View, Conflict(v)
  PROVE  /\ Want(v) \in v.labels
         /\ Finished(v.labels) => Want(v) # "done"
         /\ v.dep => Want(v) # "blocked"
         /\ ~Promotable(v)
<1>1. Want(v) \in v.labels /\ v.labels # {Want(v)} /\ v.labels \subseteq Lifecycle
  BY ConflictMeans DEF View
<1>2. Want(v) = "done" => "done" \in v.labels /\ "queued" \notin v.labels
  BY <1>1 DEF Want, Desired
<1>3. v.dep => Want(v) # "blocked"
  BY DEF Want, Desired
<1>4. ~Promotable(v)
  BY <1>1 DEF Promotable
<1>. QED BY <1>1, <1>2, <1>3, <1>4 DEF Finished

(* Between cycles the labels are the business of the others alone.         *)
LEMMA IdleKeeps ==
  ASSUME CycleState, at = "off"
  PROVE  LateLabels /\ OrdersKeep /\ late = {} /\ seen.labels = {}
BY DEF CycleState, LateLabels, OrdersKeep, Unseen

(* The other writers leave a label.                                        *)
LEMMA OutsideKeeps ==
  ASSUME TypeOK, Control, KeptLabels, Outside, ~Edit
  PROVE  KeptLabels'
<1>. USE DEF KeptLabels, WritersLabels
<1>0. /\ UNCHANGED <<at, stage, seen, todo, cmd, tried, late>>
      /\ labels \subseteq Lifecycle /\ reserved \in {None, "done", "blocked"}
      /\ writer = "complete" => at = "off" /\ reserved # None
  BY OutsideLeaves, TypeParts DEF cycle, plan, IssueTypes, Control, CycleState
<1>1. at = "off" => /\ LateLabels /\ OrdersKeep /\ late = {} /\ seen.labels = {}
                    /\ LateLabels' /\ OrdersKeep'
  BY <1>0, IdleKeeps DEF Control, CycleState, LateLabels, OrdersKeep
<1>2. CASE Launch
  BY <1>0, <1>1, <1>2 DEF Launch, Locked, Finished, None
<1>3. CASE Complete
  BY <1>0, <1>1, <1>3 DEF Complete, Locked, Finished, None
<1>4. CASE Resume
  BY <1>0, <1>1, <1>4 DEF Resume, Locked, forge
<1>5. CASE Rollback
  <2>1. labels = {"done"} /\ labels' = {"done", "queued"} /\ reserved = None /\ reserved' = None
    BY <1>5 DEF Rollback
  <2>2. WritersLabels'
    BY <1>0, <1>5, <2>1 DEF Finished, Rollback
  <2>3. LateLabels' /\ OrdersKeep'
    BY <1>0, <2>1 DEF LateLabels, OrdersKeep, Keeps
  <2>. QED BY <2>2, <2>3
<1>6. CASE CompleteAdd
  BY <1>0, <1>1, <1>6 DEF CompleteAdd, others
<1>7. CASE Finish /\ writer = "launch"
  <2>1. at = "off" /\ labels' = labels \ {"queued"} /\ UNCHANGED reserved /\ writer' = "idle"
    BY <1>7 DEF Finish, Control, CycleState
  <2>. QED BY <1>0, <1>1, <1>7, <2>1 DEF Finished, Active
<1>8. CASE Finish /\ writer = "complete"
  <2>1. /\ at = "off" /\ labels' = labels \ (Active \ {reserved}) /\ reserved \in labels
        /\ reserved' = None /\ writer' = "idle"
    BY <1>0, <1>8 DEF Finish
  <2>2. labels \subseteq Active \cup {reserved}
    BY <1>0, <1>8
  <2>3. labels' \subseteq {reserved} /\ labels' # {}
    BY <2>1, <2>2
  <2>. QED BY <1>0, <1>1, <2>1, <2>3 DEF Finished
<1>9. CASE Finish /\ writer \notin {"launch", "complete"}
  <2>1. writer = "rollback" /\ labels' = labels \ {"done"} /\ UNCHANGED reserved /\ writer' = "idle"
    BY <1>9, TypeParts DEF Finish, IssueTypes
  <2>2. WritersLabels'
    BY <1>0, <2>1 DEF Finished
  <2>3. LateLabels' /\ OrdersKeep'
    BY <1>0, <2>1 DEF LateLabels, OrdersKeep, Keeps
  <2>. QED BY <2>2, <2>3
<1>10. CASE Die \/ Change
  <2>1. UNCHANGED <<labels, reserved>> /\ (UNCHANGED writer \/ writer' = "idle")
    BY <1>10 DEF Die, Change, forge, others
  <2>. QED BY <1>0, <2>1 DEF LateLabels, OrdersKeep, Keeps
<1>. QED BY <1>2, <1>3, <1>4, <1>5, <1>6, <1>7, <1>8, <1>9, <1>10 DEF Outside, Writers, Finishing

(* A pass plans no removal of the last label.                              *)
LEMMA PassKeeps ==
  ASSUME TypeOK, Control, KeptLabels, Passes
  PROVE  KeptLabels'
<1>. USE DEF KeptLabels
<1>0. /\ UNCHANGED <<labels, reserved, writer, seen, late, tried>> /\ stage' = at /\ at' = "next"
      /\ at \in {"promote", "conflict", "final"}
      /\ seen \in View /\ labels \subseteq Lifecycle /\ late \subseteq Lifecycle
      /\ hold \in BOOLEAN
  BY PassPlans, TypeParts DEF forge, others, CycleTypes, IssueTypes, FlagTypes
<1>1. WritersLabels'
  BY <1>0 DEF WritersLabels
<1>2. LateLabels'
  BY <1>0 DEF LateLabels, Control, StageState, None
<1>3. ASSUME reserved = None, NEW c \in todo', c.kind = "remove"
      PROVE  c.want # "done" /\ (c.want \in late => c.want \in labels)
  <2>. USE <1>3
  <2>0. "promote" \in tried => Promotable(seen)
    BY <1>0 DEF Control, StageState, Trying
  <2>1. at # "promote"
    <3>1. at = "promote" => c \in Commands(seen) /\ c.code = "promote"
      BY PassPlans
    <3>. QED BY <1>0, <3>1, PlanOrders DEF Order, Shaped
  <2>2. CASE at = "conflict"
    <3>1. Conflict(seen) /\ c.want = Want(seen)
      BY <1>0, <2>2, PassPlans, PlanOrders
    <3>2. c.want # "done" /\ ~Promotable(seen)
      BY <1>0, <3>1, ConflictWant DEF WritersLabels
    <3>3. tried = {}
      BY <2>0, <2>2, <3>2 DEF Control, StageState, Trying
    <3>. QED BY <2>2, <3>2, <3>3 DEF LateLabels
  <2>3. CASE at = "final"
    <3>1. PICK l \in {labels, late} :
            /\ c \in Commands([labels |-> l, dep |-> seen.dep, hold |-> hold])
            /\ c.code \notin tried
      BY <1>0, <2>3, PassPlans DEF Read
    <3>. DEFINE v == [labels |-> l, dep |-> seen.dep, hold |-> hold]
    <3>2. v \in View /\ v.labels = l /\ v.dep = seen.dep
      BY <1>0 DEF View
    <3>3. Conflict(v) /\ c.want = Want(v) /\ c.code = "conflict"
      BY <3>1, <3>2, PlanOrders DEF Order, Shaped
    <3>4. c.want \in l /\ c.want # "done" /\ (seen.dep => c.want # "blocked")
      BY <3>2, <3>3, ConflictWant DEF WritersLabels
    <3>5. stage = "conflict" /\ tried \subseteq {"promote", "conflict"}
      BY <2>3 DEF Control, StageState, Trying
    <3>6. late \ {"done", "blocked"} \subseteq labels /\ (tried = {} => late \ {"done"} \subseteq labels)
      BY <2>3, <3>1, <3>3, <3>5 DEF LateLabels
    <3>7. tried # {} => c.want # "blocked"
      BY <2>0, <3>1, <3>3, <3>4, <3>5 DEF Promotable
    <3>. QED BY <3>4, <3>6, <3>7
  <2>. QED BY <1>0, <2>1, <2>2, <2>3
<1>4. OrdersKeep'
  BY <1>0, <1>3 DEF OrdersKeep, Keeps
<1>. QED BY <1>1, <1>2, <1>4

(* A command that passes its check adds no label to a finished Issue and   *)
(* removes none but beside the one it wants.                               *)
LEMMA CheckKeeps ==
  ASSUME TypeOK, Control, KeptLabels, Check
  PROVE  KeptLabels'
<1>. USE DEF KeptLabels
<1>0. /\ UNCHANGED <<labels, reserved, writer, seen, late, tried, stage, todo, cmd>>
      /\ at = "check" /\ at' \in {"next", "add", "drop"}
      /\ at' = "add" => cmd.kind # "remove"
      /\ at' = "drop" => cmd.kind = "remove"
  BY DEF Check, Goto, forge, others, plan
<1>1. ASSUME at' # "next"
      PROVE  \E l \in {labels, late} : Allows(cmd, Now(l), outcome)
  BY <1>0, <1>1 DEF Check, Goto, Read
<1>2. WritersLabels' /\ LateLabels'
  BY <1>0 DEF WritersLabels, LateLabels
<1>3. Order(cmd)
  BY <1>0 DEF Control, Doing, Executing
<1>4. ASSUME reserved = None, at' = "add"
      PROVE  "done" \notin labels
  <2>1. PICK l \in {labels, late} : Allows(cmd, Now(l), outcome)
    BY <1>1, <1>4
  <2>2. l # {} /\ ("done" \in labels => "done" \in l)
    BY <1>0, <1>4, <2>1 DEF WritersLabels, LateLabels
  <2>3. Now(l).labels = l
    BY DEF Now
  <2>4. cmd.kind = "transition"
    BY <1>0, <1>3, <1>4, <2>1, <2>2, <2>3 DEF Allows, PreconditionsHold, Order, Shaped
  <2>5. cmd.want \in {"queued", "blocked"} /\ GuardHolds(cmd, Now(l))
    BY <1>3, <2>1, <2>4 DEF Order, Shaped, Allows
  <2>6. "done" \notin l
    BY <2>3, <2>4, <2>5 DEF GuardHolds, Protects
  <2>. QED BY <2>2, <2>6
<1>5. ASSUME reserved = None, at' = "drop"
      PROVE  cmd.want \in labels /\ cmd.want # "done"
  <2>1. PICK l \in {labels, late} : Allows(cmd, Now(l), outcome)
    BY <1>1, <1>5
  <2>2. cmd.kind = "remove" /\ Now(l).labels = l
    BY <1>0, <1>5 DEF Now
  <2>3. cmd.want \in l
    BY <2>1, <2>2 DEF Allows, PreconditionsHold
  <2>. QED BY <1>0, <1>5, <2>2, <2>3 DEF OrdersKeep, Keeps
<1>6. OrdersKeep'
  BY <1>0, <1>4, <1>5 DEF OrdersKeep, Keeps
<1>. QED BY <1>2, <1>6

(* The two writes of a command leave a label.                              *)
LEMMA WritesKeep ==
  ASSUME TypeOK, Control, KeptLabels, Add \/ Drop, [Next]_vars
  PROVE  KeptLabels'
<1>. USE DEF KeptLabels
<1>0. /\ UNCHANGED <<reserved, writer, seen, tried, stage, todo, cmd>>
      /\ late' = labels /\ reserved = None /\ writer \in {"idle", "rollback"}
      /\ Order(cmd) /\ cmd.code \in tried /\ \A c \in todo : c.want = cmd.want
      /\ stage \in {"promote", "conflict"} => cmd.code = stage
      /\ stage \in {"promote", "conflict", "final"}
  BY TypeParts DEF Add, Drop, others, plan, Control, CycleState, StageState, Doing, Executing,
     CycleTypes
<1>1. CASE Add
  <2>0. at = "add" /\ at' \in {"mark", "next"}
    BY <1>1, Steps
  <2>1. labels' = labels \cup {cmd.want}
    BY <1>1 DEF Add
  <2>2. "done" \notin labels /\ cmd.want # "done"
    BY <1>0, <2>0, <2>1 DEF OrdersKeep, Order, Shaped, Control, Doing, Executing
  <2>3. WritersLabels'
    BY <1>0, <2>0, <2>1, <2>2 DEF WritersLabels, Finished
  <2>4. LateLabels'
    BY <1>0, <2>0, <2>1, <2>2 DEF LateLabels, WritersLabels
  <2>5. OrdersKeep'
    BY <1>0, <2>0, <2>1, <2>2 DEF OrdersKeep, Keeps
  <2>. QED BY <2>3, <2>4, <2>5
<1>2. CASE Drop
  <2>0. /\ at = "drop" /\ at' \in {"mark", "verify", "next"}
        /\ at' = "mark" => cmd.kind # "transition"
    BY <1>2, Steps
  <2>1. labels' = labels \ {cmd.drop}
    BY <1>2 DEF Drop
  <2>2. cmd.want \in labels' /\ cmd.want # "done"
    BY <1>0, <2>0, <2>1 DEF OrdersKeep, Order
  <2>3. WritersLabels'
    BY <1>0, <2>0, <2>1, <2>2 DEF WritersLabels, Finished
  <2>4. cmd.code # "conflict" /\ stage # "final" => cmd.drop = "blocked"
    BY <1>0 DEF Order
  <2>5. LateLabels'
    BY <1>0, <2>0, <2>1, <2>4 DEF LateLabels, WritersLabels
  <2>6. OrdersKeep'
    BY <1>0, <2>0, <2>1, <2>2 DEF OrdersKeep, Keeps
  <2>. QED BY <2>3, <2>5, <2>6
<1>. QED BY <1>1, <1>2

(* A step keeps a label on the Issue.                                      *)
LEMMA LabelsSafeStep ==
  ASSUME TypeOK, Control, LabelsSafe, [Next]_vars
  PROVE  LabelsSafe'
<1>. SUFFICES ASSUME edits' = 0
              PROVE  KeptLabels'
  BY DEF LabelsSafe
<1>1. edits = 0 /\ ~Edit
  <2>1. edits \in Nat
    BY TypeParts DEF IssueTypes
  <2>2. Edit => edits' = edits + 1
    BY DEF Edit
  <2>3. ~Edit => UNCHANGED edits
    <3>1. CASE Begin \/ Settle \/ Passes \/ Take \/ Executors \/ Deliver \/ Log \/ Confirm
      BY <3>1 DEF Begin, Settle, Reconcile, Adopt, Report, Close, Passes, PassPromote,
         PassConflict, PassFinal, Pass, Take, Executors, Check, Add, Mark, Drop, Verify, Deliver,
         Log, Confirm, counters
    <3>2. CASE Fail \/ Crash \/ Writers \/ Finishing \/ Die \/ Change \/ UNCHANGED vars
      BY <3>2 DEF Fail, Crash, Writers, Launch, Complete, Resume, Rollback, Finishing,
         CompleteAdd, Finish, Die, Change, vars, counters
    <3>. QED BY <3>1, <3>2 DEF Next, Cycle, Execute, Executors
  <2>. QED BY <2>1, <2>2, <2>3
<1>2. KeptLabels
  BY <1>1 DEF LabelsSafe
<1>. USE DEF KeptLabels
<1>3. CASE Begin
  <2>1. /\ at' = "reconcile" /\ late' = labels /\ seen'.labels = labels
        /\ UNCHANGED <<labels, reserved, writer, todo>>
    BY <1>3 DEF Begin, Goto, Now, forge, others
  <2>2. WritersLabels' /\ LateLabels'
    BY <1>2, <2>1 DEF WritersLabels, LateLabels
  <2>3. OrdersKeep'
    BY <1>3, <2>1 DEF OrdersKeep, Begin, Control, CycleState
  <2>. QED BY <2>2, <2>3
<1>4. CASE Settle \/ Mark \/ Verify \/ Deliver \/ Log \/ (Fail /\ ~Off)
  <2>1. UNCHANGED <<labels, reserved, writer, late, seen, tried, stage, todo, cmd>>
    BY <1>4 DEF Settle, Reconcile, Adopt, Report, Close, Mark, Verify, Deliver, Log, Fail, forge,
       others, plan
  <2>2. at # "off" /\ at' \notin {"check", "add", "mark"}
    BY <1>4, Steps DEF Settle, Onward, Executing
  <2>3. at' = "drop" => at = "mark" /\ cmd.kind = "transition"
    BY <1>4, Steps DEF Settle, Onward, Executing
  <2>. QED BY <1>2, <2>1, <2>2, <2>3 DEF WritersLabels, LateLabels, OrdersKeep, Keeps
<1>5. CASE Passes
  BY <1>2, <1>5, PassKeeps
<1>6. CASE Take
  <2>1. UNCHANGED <<labels, reserved, writer, late, seen, stage>> /\ at = "next"
    BY <1>6, Steps DEF forge, others
  <2>2. tried \subseteq tried' /\ todo' \subseteq todo /\ at' \notin {"add", "drop", "mark"}
    BY <1>6, Steps DEF AfterStage
  <2>3. at' = "check" => cmd' \in todo
    BY <1>6, Steps DEF AfterStage
  <2>. QED BY <1>2, <2>1, <2>2, <2>3 DEF WritersLabels, LateLabels, OrdersKeep, Keeps
<1>7. CASE Check
  BY <1>2, <1>7, CheckKeeps
<1>8. CASE Add \/ Drop
  BY <1>2, <1>8, WritesKeep
<1>9. CASE Confirm \/ Crash \/ (Fail /\ Off)
  <2>1. UNCHANGED <<labels, reserved, writer>> /\ Off
    BY <1>9 DEF Confirm, Crash, Fail, forge, others
  <2>. QED BY <1>2, <2>1 DEF Off, WritersLabels, LateLabels, OrdersKeep, Finished, Unseen
<1>10. CASE Outside
  BY <1>1, <1>2, <1>10, OutsideKeeps
<1>11. CASE UNCHANGED vars
  BY <1>2, <1>11 DEF vars, forge, others, plan, WritersLabels, LateLabels, OrdersKeep, Keeps
<1>. QED
  BY <1>3, <1>4, <1>5, <1>6, <1>7, <1>8, <1>9, <1>10, <1>11
     DEF Next, Cycle, Settle, Execute, Outside

-----------------------------------------------------------------------------
(* The invariant and what it means.                                        *)

(* Nothing has happened at the start.                                      *)
LEMMA IInvInit ==
  ASSUME Init
  PROVE  IInv
<1>. USE DEF Init
<1>1. TypeOK
  <2>1. Ids = {} /\ Pending = {}
    BY DEF Ids, Pending
  <2>2. <<>> \in Seq(Intent) /\ <<>> \in Seq(SUBSET Ids)
    OBVIOUS
  <2>3. JournalTypes /\ CurTypes
    BY <2>1, <2>2 DEF JournalTypes, CurTypes
  <2>4. CycleTypes
    BY DEF CycleTypes, View, Unseen, NoCommand, Command, None
  <2>5. IssueTypes /\ FlagTypes
    BY DEF IssueTypes, FlagTypes, Lifecycle, Active
  <2>. QED BY <2>3, <2>4, <2>5, TypeParts
<1>2. Control
  BY DEF Control, CycleState, StageState, Todo, Doing, Trying, Executing, None
<1>3. Journals
  BY DEF Journals, IntentsShaped, AtMostOne, Unmarked, SendingFresh, LoggedOnce, ClosingTold,
     PromotionTold, Ids, Pending, Logged
<1>4. LabelsSafe
  BY DEF LabelsSafe, KeptLabels, WritersLabels, LateLabels, OrdersKeep, Finished, Unseen, None
<1>. QED BY <1>1, <1>2, <1>3, <1>4 DEF IInv

(* Every step keeps the invariant.                                         *)
LEMMA IInvStep == IInv /\ [Next]_vars => IInv'
BY TypesStep, ControlStep, JournalsStep, LabelsSafeStep DEF IInv

(* Two pending intents would be the same one.                              *)
LEMMA OnePending == TypeOK /\ AtMostOne => OneIntent
<1>. SUFFICES ASSUME TypeOK, AtMostOne
              PROVE  OneIntent
  OBVIOUS
<1>1. CASE Pending = {}
  BY <1>1, FS_EmptySet DEF OneIntent
<1>2. CASE Pending # {}
  <2>1. PICK i \in Pending : Pending = {i}
    BY <1>2 DEF AtMostOne
  <2>. QED BY <2>1, FS_Singleton DEF OneIntent
<1>. QED BY <1>1, <1>2

(* The invariant holds in every reachable state.                           *)
THEOREM RepairInvariant == Spec => []IInv
<1>. QED BY IInvInit, IInvStep, PTL DEF Spec

(* The journals, the event log and the Issue tell the same story, whatever *)
(* fails or stops between two writes of a repair and whoever else writes:  *)
(* one intent waits at a time (dispatch/status_repair.py, Covered), the    *)
(* Issue keeps a lifecycle label as long as no person relabels it, and a   *)
(* promotion is reported and logged once (reporting/promotion.py).         *)
THEOREM RepairIsSound == Spec => []RepairSound
<1>1. IInv => RepairSound
  <2>1. LabelsSafe => NeverBare
    BY DEF LabelsSafe, KeptLabels, WritersLabels, NeverBare
  <2>. QED BY <2>1, OnePending DEF IInv, Journals, RepairSound
<1>. QED BY <1>1, RepairInvariant, PTL

-----------------------------------------------------------------------------
(* One cycle, when every code may be repaired and nothing disturbs it.     *)

(* Target, Manual and Need for the labels and dependencies a cycle saw.    *)
TargetOf(l, d) ==
  CASE l = {"done", "queued"} -> "queued"
    [] l \cap {"done", "review"} = {} ->
         IF "progress" \in l THEN "progress" ELSE IF d THEN "queued" ELSE "blocked"
    [] OTHER -> IF "done" \in l THEN "done" ELSE "review"
ManualOf(l, d) ==
  /\ "done" \in l /\ l \cap {"review", "queued"} # {}
  /\ ~(l = {"done", "queued"} /\ d)
NeedOf(l) ==
  CASE l = {} -> {"add"}
    [] Cardinality(l) = 1 -> {"transition"}
    [] OTHER -> {"transition", "remove"}

GoalOf(v) == TargetOf(v.labels, v.dep)
Sound(v)  == v \in View /\ ~v.hold /\ ~ManualOf(v.labels, v.dep)
(* The pass that repairs v, or None.                                       *)
TurnOf(v) ==
  IF v.labels = {GoalOf(v)} THEN None
  ELSE IF v.labels = {"blocked"} THEN "promote"
  ELSE IF v.labels \in {{}, {"queued"}} THEN "final" ELSE "conflict"
Rank(s) == CASE s = "promote" -> 1 [] s = "conflict" -> 2 [] s = "final" -> 3 [] OTHER -> 0
Goal == GoalOf(seen)
Turn == TurnOf(seen)
Drops(cs) == {c.drop : c \in cs}

(* Nothing but the cycle has happened, and the intent that waits, if any,  *)
(* wants what the cycle wants.                                             *)
Undisturbed ==
  /\ at # "off" /\ reserved = None /\ ~hold /\ ~outcome
  /\ dep = seen.dep /\ Sound(seen)
  /\ \A i \in Pending : intents[i].want = Goal /\ intents[i].kind \in NeedOf(seen.labels)
  /\ at \in {"log", "confirm"} => stage = "final"

(* Before its pass the labels are as the cycle saw them, after it there is *)
(* the one that is wanted, and in between they follow the commands left.   *)
CalmBefore == labels = seen.labels /\ todo = {} /\ at \notin Executing
CalmAfter  == labels = {Goal} /\ todo = {} /\ at \notin Executing
CalmRemoval ==
  labels = {Goal} \cup Drops(todo) \cup (IF at \in {"check", "drop"} THEN {cmd.drop} ELSE {})
CalmWrite ==
  /\ todo # {} => at = "next" /\ labels = seen.labels
  /\ todo = {} => labels = CASE at \in {"check", "add"} -> seen.labels
                             [] at \in {"mark", "drop"} -> seen.labels \cup {Goal}
                             [] OTHER                   -> {Goal}
CalmTurn ==
  /\ todo \subseteq Commands(seen)
  /\ at \in Executing => cmd \in Commands(seen) \ todo
  /\ todo # {} => at \in {"next", "report", "close"} \cup Executing
  /\ IF Turn = "conflict" THEN CalmRemoval ELSE CalmWrite
CalmState ==
  \/ (Turn = None \/ Rank(stage) > Rank(Turn)) /\ CalmAfter
  \/ Rank(stage) < Rank(Turn) /\ CalmBefore
  \/ Turn # None /\ stage = Turn /\ CalmTurn
CalmInv == calm => Undisturbed /\ CalmState

(* A single label, none, or several.                                       *)
LEMMA NeedMeans ==
  ASSUME NEW l \in SUBSET Lifecycle
  PROVE  NeedOf(l) = IF l = {} THEN {"add"}
                     ELSE IF \E x : l = {x} THEN {"transition"} ELSE {"transition", "remove"}
<1>1. Cardinality(l) = 1 <=> \E x : l = {x}
  BY LabelsFinite, FS_Singleton
<1>. QED BY <1>1 DEF NeedOf

(* What the policy wants is the documented label.                          *)
LEMMA GoalWanted ==
  ASSUME NEW v, Sound(v)
  PROVE  /\ Want(v) = GoalOf(v) /\ GoalOf(v) \in Lifecycle
         /\ GoalOf(v) = "queued" => v.dep /\ "progress" \notin v.labels
         /\ GoalOf(v) = "blocked" => ~v.dep
         /\ v.labels \cap {"done", "review"} = {} \/ v.labels = {"done", "queued"}
              \/ v.labels \cap {"done", "review"} = {GoalOf(v)}
<1>. v.labels \subseteq {"progress", "queued", "blocked", "done", "review"} /\ v.dep \in BOOLEAN
  BY DEF Sound, View, Lifecycle, Active
<1>1. CASE v.labels = {"done", "queued"}
  BY <1>1 DEF Sound, ManualOf, Want, Desired, GoalOf, TargetOf, Lifecycle, Active
<1>2. CASE v.labels # {"done", "queued"} /\ "done" \in v.labels
  <2>1. "review" \notin v.labels /\ "queued" \notin v.labels
    BY <1>2 DEF Sound, ManualOf
  <2>. QED BY <1>2, <2>1 DEF Want, Desired, GoalOf, TargetOf, Lifecycle, Active
<1>3. CASE "done" \notin v.labels /\ "review" \in v.labels
  BY <1>3 DEF Want, Desired, GoalOf, TargetOf, Lifecycle, Active
<1>4. CASE "done" \notin v.labels /\ "review" \notin v.labels
  <2>1. v.labels \subseteq Active
    BY <1>4 DEF Active
  <2>. QED BY <1>4, <2>1 DEF Want, Desired, GoalOf, TargetOf, Lifecycle, Active
<1>. QED BY <1>1, <1>2, <1>3, <1>4

Removal(g, x) == [kind |-> "remove", code |-> "conflict", want |-> g, drop |-> x]
Addition(g)   == [kind |-> "add", code |-> "missing", want |-> g, drop |-> None]

(* The plan for what a cycle saw.                                          *)
LEMMA PlanSettled ==
  ASSUME NEW v, Sound(v), TurnOf(v) = None
  PROVE  v.labels = {GoalOf(v)} /\ Commands(v) = {}
<1>1. v.labels = {GoalOf(v)}
  BY DEF TurnOf, None
<1>2. v \in View
  BY DEF Sound
<1>3. ~Missing(v) /\ ~Conflict(v)
  BY <1>1, <1>2, ConflictMeans DEF Missing
<1>4. ~Promotable(v) /\ ~Demotable(v)
  BY <1>1, GoalWanted DEF Promotable, Demotable
<1>. QED BY <1>1, <1>3, <1>4 DEF Commands

LEMMA PlanPromotes ==
  ASSUME NEW v, Sound(v), TurnOf(v) = "promote"
  PROVE  /\ v.labels = {"blocked"} /\ GoalOf(v) = "queued" /\ v.dep
         /\ Commands(v) = {Transition("promote", "blocked", "queued")}
<1>1. v.labels = {"blocked"} /\ v.labels # {GoalOf(v)}
  BY DEF TurnOf, None
<1>2. GoalOf(v) = "queued" /\ v.dep
  BY <1>1, GoalWanted DEF GoalOf, TargetOf
<1>3. Promotable(v)
  BY <1>1, <1>2 DEF Promotable, Sound
<1>4. v \in View
  BY DEF Sound
<1>. QED BY <1>1, <1>2, <1>3, <1>4, FindingsApart DEF Commands

LEMMA PlanFinal ==
  ASSUME NEW v, Sound(v), TurnOf(v) = "final"
  PROVE  \/ v.labels = {} /\ Commands(v) = {Addition(GoalOf(v))}
         \/ /\ v.labels = {"queued"} /\ GoalOf(v) = "blocked" /\ ~v.dep
            /\ Commands(v) = {Transition("demote", "queued", "blocked")}
<1>0. v.labels \in {{}, {"queued"}} /\ v.labels # {GoalOf(v)} /\ v \in View
  BY DEF TurnOf, None, Sound
<1>1. CASE v.labels = {}
  <2>1. Missing(v) /\ Want(v) = GoalOf(v)
    BY <1>1, GoalWanted DEF Missing, Free, Sound
  <2>. QED BY <1>0, <1>1, <2>1, FindingsApart DEF Commands, Addition
<1>2. CASE v.labels = {"queued"}
  <2>1. GoalOf(v) = "blocked" /\ ~v.dep
    BY <1>0, <1>2, GoalWanted DEF GoalOf, TargetOf
  <2>2. Demotable(v)
    BY <1>2, <2>1 DEF Demotable
  <2>. QED BY <1>0, <1>2, <2>1, <2>2, FindingsApart DEF Commands
<1>. QED BY <1>0, <1>1, <1>2

LEMMA PlanRemoves ==
  ASSUME NEW v, Sound(v), TurnOf(v) = "conflict"
  PROVE  /\ GoalOf(v) \in v.labels /\ v.labels # {GoalOf(v)}
         /\ Commands(v) = {Removal(GoalOf(v), x) : x \in v.labels \ {GoalOf(v)}}
<1>0. /\ v.labels # {GoalOf(v)} /\ v.labels # {} /\ v.labels # {"queued"} /\ v.labels # {"blocked"}
      /\ v \in View /\ v.labels \subseteq {"progress", "queued", "blocked", "done", "review"}
      /\ ~ManualOf(v.labels, v.dep) /\ v.hold = FALSE
  BY DEF TurnOf, None, Sound, View, Lifecycle, Active
<1>1. GoalOf(v) \in v.labels
  BY <1>0 DEF GoalOf, TargetOf, ManualOf
<1>2. Cardinality(v.labels) > 1
  BY <1>0, <1>1, LabelsFinite, Several DEF View
<1>3. Want(v) = GoalOf(v) /\ Free(v)
  BY <1>0, GoalWanted DEF Free
<1>4. "review" \notin v.labels \ {GoalOf(v)} /\ Protects(v.labels, GoalOf(v))
  <2>1. CASE v.labels = {"done", "queued"}
    BY <2>1 DEF Protects, GoalOf, TargetOf
  <2>2. CASE v.labels # {"done", "queued"}
    <3>1. v.labels \cap {"done", "review"} \in {{}, {GoalOf(v)}}
      BY <2>2, GoalWanted
    <3>2. "review" \notin v.labels \ {GoalOf(v)}
      BY <3>1
    <3>. QED BY <3>1, <3>2 DEF Protects
  <2>. QED BY <2>1, <2>2
<1>5. Conflict(v)
  BY <1>1, <1>2, <1>3, <1>4 DEF Conflict
<1>. QED BY <1>0, <1>1, <1>3, <1>5, FindingsApart DEF Commands, Removal

LEMMA TurnTyped ==
  ASSUME NEW v
  PROVE  TurnOf(v) \in {None, "promote", "conflict", "final"}
BY DEF TurnOf

(* The label that is wanted stays wanted when it is the only one.          *)
LEMMA GoalStays ==
  ASSUME NEW v, Sound(v), NEW w, w = [labels |-> {GoalOf(v)}, dep |-> v.dep, hold |-> FALSE]
  PROVE  Sound(w) /\ GoalOf(w) = GoalOf(v) /\ Commands(w) = {}
<1>1. /\ GoalOf(v) \in {"progress", "queued", "blocked", "done", "review"} /\ v.dep \in BOOLEAN
      /\ GoalOf(v) = "queued" => v.dep
      /\ GoalOf(v) = "blocked" => ~v.dep
  BY GoalWanted DEF Lifecycle, Active, Sound, View
<1>2. w.labels = {GoalOf(v)} /\ w.dep = v.dep /\ w.hold = FALSE /\ w \in View
  BY <1>1 DEF View, Lifecycle, Active
<1>3. GoalOf(w) = GoalOf(v)
  BY <1>1, <1>2 DEF GoalOf, TargetOf
<1>4. Sound(w)
  BY <1>1, <1>2 DEF Sound, ManualOf
<1>5. TurnOf(w) = None
  BY <1>2, <1>3 DEF TurnOf
<1>. QED BY <1>3, <1>4, <1>5, PlanSettled

(* What a step is that leaves a cycle undisturbed: it reads fresh labels   *)
(* and gets its answers.                                                   *)
Quietly ==
  /\ calm /\ UNCHANGED <<dep, hold, outcome, reserved, seen>> /\ at' # "off"
LEMMA CalmStays ==
  ASSUME TypeOK, Control, [Next]_vars, calm', ~Begin
  PROVE  /\ Quietly
         /\ \A l : Read(l) => l = labels
         /\ \A s : Answered(s) => at' = s /\ cur' = cur
         /\ Settle \/ Passes \/ Take \/ Executors \/ Deliver \/ Log
              \/ UNCHANGED <<labels, intents, at, plan>>
<1>. USE DEF Quietly
<1>0. calm = TRUE \/ calm = FALSE
  BY TypeParts DEF FlagTypes
<1>1. /\ ~Fault /\ ~Event
      /\ \A l : Read(l) => l = labels /\ UNCHANGED calm
      /\ \A s : Answered(s) => at' = s /\ cur' = cur /\ UNCHANGED calm
  BY DEF Fault, Event, Read, Answered, Fine, Goto
<1>2. calm => at # "off"
  BY DEF Control, CycleState
<1>3. CASE Settle
  <2>1. UNCHANGED <<dep, hold, outcome, reserved, seen>> /\ at' # "off"
    BY <1>3, Steps DEF Settle, Reconcile, Adopt, Report, Close, forge, others, plan, Onward
  <2>2. UNCHANGED calm
    BY <1>1, <1>3 DEF Settle, Reconcile, Adopt, Report, Close, Fine
  <2>. QED BY <1>1, <1>3, <2>1, <2>2
<1>4. CASE Passes
  <2>1. UNCHANGED <<dep, hold, outcome, reserved, seen>> /\ at' # "off"
    BY <1>4, PassPlans DEF forge, others
  <2>2. UNCHANGED calm
    BY <1>1, <1>4 DEF Passes, PassPromote, PassConflict, PassFinal, Fine
  <2>. QED BY <1>1, <1>4, <2>1, <2>2
<1>5. CASE Take
  <2>1. UNCHANGED <<dep, hold, outcome, reserved, seen, calm>> /\ at' # "off"
    BY <1>5, Steps DEF forge, others, AfterStage
  <2>. QED BY <1>1, <1>5, <2>1
<1>6. CASE Executors
  <2>1. UNCHANGED <<dep, hold, outcome, reserved, seen>>
    BY <1>6 DEF Executors, Check, Add, Mark, Drop, Verify, forge, others, plan
  <2>2. UNCHANGED calm
    BY <1>1, <1>6 DEF Executors, Check, Add, Mark, Drop, Verify, Fine
  <2>3. at' # "off"
    BY <1>6, Steps DEF Executors
  <2>. QED BY <1>1, <1>6, <2>1, <2>2, <2>3
<1>7. CASE Deliver \/ Log
  <2>1. UNCHANGED <<dep, hold, outcome, reserved, seen, calm>> /\ at' # "off"
    BY <1>7, Steps DEF Deliver, Log, forge, others, plan
  <2>. QED BY <1>1, <1>7, <2>1
<1>8. ~Confirm /\ ~Crash /\ ~Fail
  BY DEF Confirm, Crash, Fail, Off
<1>9. CASE Outside
  <2>1. Die
    BY <1>1, <1>9 DEF Outside, Writers, Finishing, Launch, Complete, Resume, Rollback, CompleteAdd,
       Finish, Change, Edit
  <2>. QED BY <1>1, <1>2, <2>1 DEF Die, forge, disk, cycle, plan
<1>10. CASE UNCHANGED vars
  BY <1>1, <1>2, <1>10 DEF vars, forge, others, disk, plan
<1>. QED
  BY <1>3, <1>4, <1>5, <1>6, <1>7, <1>8, <1>9, <1>10 DEF Next, Cycle, Execute, Executors, Outside

(* A cycle begins undisturbed when it finds nothing that excuses it.       *)
LEMMA CalmBegins ==
  ASSUME TypeOK, Control, [Next]_vars, Begin
  PROVE  CalmInv'
<1>. SUFFICES ASSUME calm'
              PROVE  Undisturbed' /\ CalmState'
  BY DEF CalmInv
<1>1. /\ at' = "reconcile" /\ seen' = Now(labels) /\ ~Excused
      /\ UNCHANGED <<labels, dep, hold, outcome, reserved, intents, stage, todo>>
  BY DEF Begin, Goto, forge, others, disk
<1>2. stage = None /\ todo = {}
  BY DEF Begin, Control, CycleState
<1>3. /\ seen'.labels = labels /\ seen'.dep = dep /\ seen'.hold = hold
      /\ labels \subseteq Lifecycle /\ dep \in BOOLEAN /\ hold = FALSE
  BY <1>1, TypeParts DEF Now, IssueTypes, FlagTypes, Excused
<1>4. Target = GoalOf(seen') /\ Need = NeedOf(seen'.labels) /\ ~ManualOf(labels, dep)
  BY <1>1, <1>3 DEF Target, GoalOf, TargetOf, Need, NeedOf, Excused, Manual, ManualOf
<1>5. Sound(seen')
  BY <1>1, <1>3, <1>4 DEF Sound, View, Now
<1>6. \A i \in Pending' : intents'[i].want = GoalOf(seen') /\ intents'[i].kind \in NeedOf(seen'.labels)
  BY <1>1, <1>4 DEF Excused, Conflicting, Pending, Ids
<1>7. Undisturbed'
  BY <1>1, <1>3, <1>5, <1>6 DEF Undisturbed, Goal, Excused
<1>8. CASE TurnOf(seen') = None
  <2>1. labels' = {GoalOf(seen')}
    BY <1>1, <1>3, <1>5, <1>8, PlanSettled
  <2>. QED BY <1>1, <1>2, <1>7, <1>8, <2>1 DEF CalmState, CalmAfter, Turn, Goal, Executing
<1>9. CASE TurnOf(seen') # None
  <2>1. Rank(stage') < Rank(TurnOf(seen'))
    BY <1>1, <1>2, <1>9, TurnTyped DEF Rank, None
  <2>. QED BY <1>1, <1>2, <1>3, <1>7, <2>1 DEF CalmState, CalmBefore, Turn, Executing
<1>. QED BY <1>8, <1>9

(* What the command at hand and the Issue look like in the turn.           *)
LEMMA TurnCommands ==
  ASSUME TypeOK, Control, Undisturbed, NEW c \in Commands(seen)
  PROVE  /\ Order(c) /\ c.want = Goal
         /\ Turn = "conflict" => c = Removal(Goal, c.drop) /\ c.drop \in seen.labels \ {Goal}
         /\ Turn = "promote" => c = Transition("promote", "blocked", "queued")
         /\ Turn = "final" => c = Addition(Goal) \/ c = Transition("demote", "queued", "blocked")
         /\ Turn \in {"promote", "final"} => Commands(seen) = {c}
         /\ Turn # None
<1>1. Sound(seen) /\ seen \in View
  BY DEF Undisturbed, Sound
<1>2. Order(c) /\ c.want = Goal
  BY <1>1, PlanOrders, GoalWanted DEF Goal
<1>3. Turn # None
  BY <1>1, PlanSettled DEF Turn
<1>4. CASE Turn = "conflict"
  BY <1>1, <1>2, <1>3, <1>4, PlanRemoves DEF Turn, Goal, Removal
<1>5. CASE Turn = "promote"
  BY <1>1, <1>2, <1>3, <1>5, PlanPromotes DEF Turn, Goal
<1>6. CASE Turn = "final"
  BY <1>1, <1>2, <1>3, <1>6, PlanFinal DEF Turn, Goal
<1>. QED BY <1>1, <1>2, <1>3, <1>4, <1>5, <1>6, TurnTyped DEF Turn

(* A command of the plan is of the kind that is needed.                    *)
LEMMA CalmKind ==
  ASSUME TypeOK, Control, Undisturbed, NEW c \in Commands(seen)
  PROVE  /\ c.kind \in NeedOf(seen.labels)
         /\ NeedOf(seen.labels) = {c.kind}
              \/ (c.kind = "remove" /\ NeedOf(seen.labels) = {"transition", "remove"})
<1>1. Sound(seen) /\ seen.labels \in SUBSET Lifecycle
  BY DEF Undisturbed, Sound, View
<1>2. CASE Turn = "conflict"
  <2>1. Goal \in seen.labels /\ seen.labels # {Goal}
    BY <1>1, <1>2, PlanRemoves DEF Turn, Goal
  <2>2. NeedOf(seen.labels) = {"transition", "remove"}
    BY <1>1, <2>1, NeedMeans
  <2>3. c.kind = "remove"
    BY <1>2, TurnCommands DEF Removal
  <2>. QED BY <2>2, <2>3
<1>3. CASE Turn = "promote"
  <2>1. seen.labels = {"blocked"} /\ c.kind = "transition"
    BY <1>1, <1>3, PlanPromotes DEF Turn, Transition
  <2>. QED BY <1>1, <2>1, NeedMeans
<1>4. CASE Turn = "final"
  <2>1. \/ seen.labels = {} /\ c.kind = "add"
        \/ seen.labels = {"queued"} /\ c.kind = "transition"
    BY <1>1, <1>4, PlanFinal DEF Turn, Transition, Addition
  <2>. QED BY <1>1, <2>1, NeedMeans
<1>. QED BY <1>2, <1>3, <1>4, TurnCommands, TurnTyped DEF Turn

(* A command of the plan takes up the intent that waits.                   *)
LEMMA CalmResumes ==
  ASSUME TypeOK, Control, Journals, Undisturbed, NEW c \in Commands(seen)
  PROVE  ~Covered(c)
<1>1. ASSUME NEW i \in Pending
      PROVE  Resumes(c, i)
  <2>1. intents[i].want = c.want
    BY TurnCommands DEF Undisturbed
  <2>2. intents[i].kind = c.kind \/ (c.kind = "remove" /\ intents[i].kind = "transition")
    BY CalmKind DEF Undisturbed
  <2>3. Shaped(intents[i]) /\ Shaped(c)
    BY TurnCommands DEF Journals, IntentsShaped, Pending, Order
  <2>. QED BY <2>1, <2>2, <2>3 DEF Resumes, Shaped
<1>2. ASSUME NEW i \in Pending
      PROVE  Match(c) # 0
  <2>. DEFINE found == {j \in Ids : Resumes(c, j)}
  <2>1. i \in found /\ \A j \in found : j = i
    BY <1>1 DEF Pending, Resumes, Journals, AtMostOne
  <2>2. found = {i}
    BY <2>1
  <2>3. Cardinality(found) = 1
    BY <2>2, FS_Singleton
  <2>4. Match(c) = i
    BY <2>2, <2>3 DEF Match
  <2>5. 0 \notin Ids
    BY TypeParts DEF JournalTypes, Ids
  <2>. QED BY <2>4, <2>5 DEF Pending
<1>. QED BY <1>2 DEF Covered

(* The commands of an undisturbed cycle pass their checks.                 *)
LEMMA CalmAllows ==
  ASSUME TypeOK, Control, Undisturbed, CalmTurn, at = "check", stage = Turn
  PROVE  Allows(cmd, Now(labels), outcome)
<1>0. /\ cmd \in Commands(seen) /\ Sound(seen) /\ hold = FALSE /\ outcome = FALSE /\ dep = seen.dep
      /\ Now(labels).labels = labels /\ Now(labels).dep = dep /\ Now(labels).hold = hold
  BY DEF CalmTurn, Executing, Undisturbed, Now
<1>1. CASE Turn = "conflict"
  <2>1. /\ cmd = Removal(Goal, cmd.drop) /\ cmd.drop \in seen.labels \ {Goal}
        /\ \A c \in todo : c.drop \in seen.labels
    BY <1>0, <1>1, TurnCommands DEF CalmTurn
  <2>2. labels \subseteq seen.labels /\ {Goal, cmd.drop} \subseteq labels
    <3>1. Goal \in seen.labels
      BY <1>0, <1>1, PlanRemoves DEF Turn, Goal
    <3>2. labels = {Goal} \cup Drops(todo) \cup {cmd.drop}
      BY <1>1 DEF CalmTurn, CalmRemoval
    <3>. QED BY <2>1, <3>1, <3>2 DEF Drops
  <2>3. cmd.kind = "remove" /\ cmd.want = Goal
    BY <2>1 DEF Removal
  <2>4. CASE seen.labels = {"done", "queued"}
    <3>1. Goal = "queued" /\ labels = {"done", "queued"} /\ cmd.drop = "done"
      BY <2>1, <2>2, <2>4 DEF Goal, GoalOf, TargetOf
    <3>. QED BY <1>0, <2>3, <3>1 DEF Allows, GuardHolds, PreconditionsHold, Protects
  <2>5. CASE seen.labels # {"done", "queued"}
    <3>1. seen.labels \cap {"done", "review"} \in {{}, {Goal}}
      BY <1>0, <2>5, GoalWanted DEF Goal
    <3>2. labels \cap {"done", "review"} \in {{}, {Goal}}
      BY <2>2, <3>1
    <3>3. "done" \in labels => Goal # "queued"
      BY <3>2
    <3>. QED BY <1>0, <2>2, <2>3, <3>2, <3>3 DEF Allows, GuardHolds, PreconditionsHold, Protects
  <2>. QED BY <2>4, <2>5
<1>2. CASE Turn # "conflict"
  <2>1. labels = seen.labels
    BY <1>2 DEF CalmTurn, CalmWrite
  <2>2. CASE Turn = "promote"
    <3>1. cmd = Transition("promote", "blocked", "queued") /\ labels = {"blocked"} /\ dep = TRUE
      BY <1>0, <2>1, <2>2, TurnCommands, PlanPromotes DEF Turn, Sound, View
    <3>. QED BY <1>0, <3>1 DEF Transition, Allows, GuardHolds, PreconditionsHold, Protects
  <2>3. CASE Turn = "final" /\ seen.labels = {}
    <3>1. cmd = Addition(Goal) /\ labels = {}
      BY <1>0, <2>1, <2>3, PlanFinal DEF Turn, Goal
    <3>. QED BY <1>0, <3>1 DEF Addition, Allows, GuardHolds, PreconditionsHold, Protects
  <2>4. CASE Turn = "final" /\ seen.labels # {}
    <3>1. cmd = Transition("demote", "queued", "blocked") /\ labels = {"queued"} /\ dep = FALSE
      BY <1>0, <2>1, <2>4, PlanFinal DEF Turn, Goal, Sound, View
    <3>. QED BY <1>0, <3>1 DEF Transition, Allows, GuardHolds, PreconditionsHold, Protects
  <2>. QED BY <1>0, <1>2, <2>2, <2>3, <2>4, TurnCommands, TurnTyped DEF Turn
<1>. QED BY <1>1, <1>2

(* The cycle stays undisturbed.                                            *)
LEMMA UndisturbedStep ==
  ASSUME TypeOK, Control, Journals, Undisturbed, CalmState, [Next]_vars, calm', ~Begin
  PROVE  Undisturbed'
<1>1. /\ UNCHANGED <<dep, hold, outcome, reserved, seen>> /\ at' # "off"
      /\ Settle \/ Passes \/ Take \/ Executors \/ Deliver \/ Log
           \/ UNCHANGED <<labels, intents, at, plan>>
  BY CalmStays DEF Quietly
<1>2. \A i \in Pending' : intents'[i].want = Goal /\ intents'[i].kind \in NeedOf(seen.labels)
  <2>1. CASE Adopt \/ Close \/ Mark
    <3>1. \A i \in Pending' : i \in Pending /\ intents'[i].want = intents[i].want
                                /\ intents'[i].kind = intents[i].kind
      BY <2>1, IntentMoves DEF Pending
    <3>. QED BY <3>1 DEF Undisturbed
  <2>2. CASE Check /\ ~UNCHANGED intents
    <3>1. cmd \in Commands(seen)
      BY <2>2, IntentComes DEF CalmState, CalmBefore, CalmAfter, CalmTurn, Executing
    <3>2. intents'[cur'].want = Goal /\ intents'[cur'].kind \in NeedOf(seen.labels)
      BY <2>2, <3>1, IntentComes, TurnCommands, CalmKind DEF NewIntent
    <3>3. Pending' \subseteq {cur'}
      BY <2>2, IntentComes DEF Pending
    <3>. QED BY <3>2, <3>3
  <2>3. CASE UNCHANGED intents
    BY <2>3 DEF Undisturbed, Pending, Ids
  <2>. QED BY <2>1, <2>2, <2>3, IntentsStay
<1>3. at' \in {"log", "confirm"} => stage' = "final"
  <2>1. CASE Settle \/ Executors \/ Deliver \/ Log
    BY <2>1, Steps, PlanStays DEF Settle, Executors, Onward, plan, Undisturbed
  <2>2. CASE Passes
    BY <2>2, PassPlans
  <2>3. CASE Take
    <3>1. stage' = stage /\ stage \in {"promote", "conflict", "final"}
      BY <2>3, Steps, TypeParts DEF Control, StageState, CycleTypes
    <3>. QED BY <2>3, <3>1, Steps DEF AfterStage
  <2>4. CASE UNCHANGED <<labels, intents, at, plan>>
    BY <2>4 DEF plan, Undisturbed
  <2>. QED BY <1>1, <2>1, <2>2, <2>3, <2>4
<1>. QED BY <1>1, <1>2, <1>3 DEF Undisturbed, Goal

(* A pass of an undisturbed cycle, when every code may be repaired.        *)
LEMMA CalmPass ==
  ASSUME TypeOK, Control, Undisturbed, CalmState, [Next]_vars, calm', ~Begin, Passes,
         Final = Codes
  PROVE  CalmState'
<1>0. /\ at \in {"promote", "conflict", "final"} /\ stage' = at /\ at' = "next"
      /\ UNCHANGED <<labels, seen>>
      /\ at = "promote" => stage = None /\ todo' = {c \in Commands(seen) : c.code = "promote"}
      /\ at = "conflict" => stage = "promote" /\ todo' = {c \in Commands(seen) : c.code = "conflict"}
      /\ at = "final" => stage = "conflict"
  BY PassPlans DEF forge, Control, StageState
<1>1. Sound(seen) /\ Turn \in {None, "promote", "conflict", "final"} /\ dep = seen.dep /\ hold = FALSE
  BY TurnTyped DEF Undisturbed, Turn
<1>2. Turn' = Turn /\ Goal' = Goal /\ Commands(seen') = Commands(seen)
  BY <1>0 DEF Turn, Goal
<1>3. /\ Rank(None) = 0 /\ Rank("promote") = 1 /\ Rank("conflict") = 2 /\ Rank("final") = 3
  BY DEF Rank, None
<1>4. todo = {} /\ at \notin Executing /\ at' \notin Executing
  BY <1>0 DEF Control, StageState, Executing
<1>5. /\ Turn = None => labels = {Goal}
      /\ Turn # None /\ Rank(stage) >= Rank(Turn) => labels = {Goal}
      /\ Turn # None /\ Rank(stage) < Rank(Turn) => labels = seen.labels
  <2>1. CalmTurn => labels = {Goal}
    BY <1>0, <1>4 DEF CalmTurn, CalmRemoval, CalmWrite, Drops
  <2>2. Rank(Turn) \in 0 .. 3 /\ (Turn = None <=> Rank(Turn) = 0) /\ Rank(stage) \in 0 .. 2
    BY <1>0, <1>1, <1>3 DEF None
  <2>3. Turn # None /\ Rank(stage) = Rank(Turn) => stage = Turn
    BY <1>0, <1>1, <1>3 DEF None
  <2>. QED BY <2>1, <2>2, <2>3 DEF CalmState, CalmBefore, CalmAfter
<1>6. \A c \in Commands(seen) :
        /\ Turn = "conflict" => c = Removal(Goal, c.drop)
        /\ Turn = "promote" => c = Transition("promote", "blocked", "queued")
        /\ Turn = "final" => c = Addition(Goal) \/ c = Transition("demote", "queued", "blocked")
        /\ Turn # None
  BY TurnCommands
<1>7. \A c \in Commands(seen) :
        /\ Turn = "conflict" <=> c.code = "conflict"
        /\ Turn = "promote" <=> c.code = "promote"
        /\ Turn = "final" => c.code \in {"missing", "demote"}
  BY <1>1, <1>6 DEF Removal, Transition, Addition, None
<1>8. CASE Turn = None \/ Rank(at) > Rank(Turn)
  <2>1. labels = {Goal}
    BY <1>0, <1>1, <1>3, <1>5, <1>8 DEF None
  <2>2. at \in {"promote", "conflict"} => todo' = {}
    BY <1>0, <1>1, <1>3, <1>7, <1>8 DEF None
  <2>3. at = "final" => todo' = {}
    <3>. SUFFICES ASSUME at = "final"
                  PROVE  todo' = {}
      OBVIOUS
    <3>1. PICK l \in SUBSET Lifecycle :
            /\ Read(l)
            /\ todo' = {c \in Commands([labels |-> l, dep |-> seen.dep, hold |-> hold]) :
                          c.code \in Final \ tried}
      BY PassPlans
    <3>2. l = {Goal}
      BY <2>1, <3>1, CalmStays
    <3>3. Commands([labels |-> l, dep |-> seen.dep, hold |-> hold]) = {}
      BY <1>1, <3>2, GoalStays DEF Goal
    <3>. QED BY <3>1, <3>3
  <2>. QED BY <1>0, <1>2, <1>4, <1>8, <2>1, <2>2, <2>3 DEF CalmState, CalmAfter
<1>9. CASE Turn # None /\ at = Turn
  <2>1. labels = seen.labels
    BY <1>0, <1>1, <1>3, <1>5, <1>9 DEF None
  <2>2. todo' = Commands(seen)
    <3>1. at \in {"promote", "conflict"} => todo' = Commands(seen)
      BY <1>0, <1>7, <1>9
    <3>2. ASSUME at = "final"
          PROVE  todo' = Commands(seen)
      <4>1. PICK l \in SUBSET Lifecycle :
              /\ Read(l)
              /\ todo' = {c \in Commands([labels |-> l, dep |-> seen.dep, hold |-> hold]) :
                            c.code \in Final \ tried}
        BY <3>2, PassPlans
      <4>2. l = seen.labels
        BY <2>1, <4>1, CalmStays
      <4>3. [labels |-> l, dep |-> seen.dep, hold |-> hold] = seen
        BY <1>1, <4>2 DEF Sound, View
      <4>4. tried \subseteq {"promote", "conflict"}
        BY <1>0, <3>2 DEF Control, Trying
      <4>5. \A c \in Commands(seen) : c.code \in Final \ tried
        BY <1>7, <1>9, <3>2, <4>4 DEF Codes
      <4>. QED BY <4>1, <4>3, <4>5
    <3>. QED BY <1>0, <3>1, <3>2
  <2>3. Turn = "conflict" => labels = {Goal} \cup Drops(Commands(seen))
    <3>. SUFFICES ASSUME Turn = "conflict"
                  PROVE  labels = {Goal} \cup Drops(Commands(seen))
      OBVIOUS
    <3>1. /\ Goal \in seen.labels
          /\ Commands(seen) = {Removal(Goal, x) : x \in seen.labels \ {Goal}}
      BY <1>1, PlanRemoves DEF Turn, Goal
    <3>2. \A x : Removal(Goal, x).drop = x
      BY DEF Removal
    <3>3. Drops(Commands(seen)) = seen.labels \ {Goal}
      BY <3>1, <3>2 DEF Drops
    <3>. QED BY <2>1, <3>1, <3>3
  <2>4. Turn # "conflict" => Commands(seen) # {}
    BY <1>1, <1>9, PlanPromotes, PlanFinal DEF Turn
  <2>5. CalmTurn'
    <3>1. Turn = "conflict" => CalmRemoval'
      BY <1>0, <1>2, <2>2, <2>3 DEF CalmRemoval, Drops
    <3>2. Turn # "conflict" => CalmWrite'
      BY <1>0, <2>1, <2>2, <2>4 DEF CalmWrite
    <3>. QED BY <1>0, <1>2, <1>4, <2>2, <3>1, <3>2 DEF CalmTurn
  <2>. QED BY <1>0, <1>2, <1>9, <2>5 DEF CalmState
<1>10. CASE Rank(at) < Rank(Turn)
  <2>1. labels = seen.labels /\ Turn # None
    BY <1>0, <1>1, <1>3, <1>5, <1>10 DEF None
  <2>2. todo' = {}
    BY <1>0, <1>1, <1>3, <1>7, <1>10, <2>1 DEF None
  <2>. QED BY <1>0, <1>2, <1>4, <1>10, <2>1, <2>2 DEF CalmState, CalmBefore
<1>. QED
  <2>1. Turn = None \/ Rank(at) > Rank(Turn) \/ at = Turn \/ Rank(at) < Rank(Turn)
    BY <1>0, <1>1, <1>3 DEF None
  <2>. QED BY <1>8, <1>9, <1>10, <2>1

(* The steps around the passes write no label.                             *)
LEMMA CalmAround ==
  ASSUME TypeOK, Control, Undisturbed, CalmState, [Next]_vars, calm', ~Begin,
         Settle \/ Deliver \/ Log \/ UNCHANGED <<labels, intents, at, plan>>
  PROVE  CalmState'
<1>1. UNCHANGED <<labels, stage, todo, cmd, seen>>
  BY PlanStays DEF plan, Settle, Reconcile, Adopt, Report, Close, Deliver, Log, forge
<1>2. Turn' = Turn /\ Goal' = Goal /\ Commands(seen') = Commands(seen)
  BY <1>1 DEF Turn, Goal
<1>3. CASE UNCHANGED at
  BY <1>1, <1>2, <1>3 DEF CalmState, CalmBefore, CalmAfter, CalmTurn, CalmRemoval, CalmWrite, Drops
<1>4. CASE Settle \/ Deliver \/ Log
  <2>1. /\ at \in {"reconcile", "adopt", "report", "close", "deliver", "log"}
        /\ at' \notin Executing
        /\ at' = "next" => at = "close"
    BY <1>4, Steps DEF Settle, Onward, Executing
  <2>2. ASSUME Turn # None, stage = Turn, CalmTurn
        PROVE  CalmTurn'
    <3>1. todo # {} => at \in {"report", "close"} /\ at' \in {"close", "next"}
      BY <1>4, <2>1, <2>2, Steps DEF CalmTurn, Settle, Onward, Executing
    <3>2. CASE Turn = "conflict"
      BY <1>1, <1>2, <2>1, <2>2, <3>1, <3>2 DEF CalmTurn, CalmRemoval, Drops, Executing
    <3>3. CASE Turn # "conflict"
      <4>1. todo = {} /\ labels = {Goal}
        BY <2>1, <2>2, <3>3 DEF CalmTurn, CalmWrite
      <4>. QED BY <1>1, <1>2, <2>1, <2>2, <3>3, <4>1 DEF CalmTurn, CalmWrite, Executing
    <3>. QED BY <3>2, <3>3
  <2>. QED BY <1>1, <1>2, <2>1, <2>2 DEF CalmState, CalmBefore, CalmAfter
<1>. QED BY <1>3, <1>4

(* The commands of the plan are taken one after the other.                 *)
LEMMA CalmTake ==
  ASSUME TypeOK, Control, Undisturbed, CalmState, [Next]_vars, calm', ~Begin, Take
  PROVE  CalmState'
<1>1. UNCHANGED <<labels, stage, seen>> /\ at = "next"
  BY Steps DEF forge
<1>2. Turn' = Turn /\ Goal' = Goal /\ Commands(seen') = Commands(seen)
  BY <1>1 DEF Turn, Goal
<1>3. CASE todo = {}
  <2>1. todo' = {} /\ at' \notin Executing /\ at' # "next"
    BY <1>3, Steps DEF AfterStage, Executing
  <2>2. CalmTurn => CalmTurn'
    BY <1>1, <1>2, <1>3, <2>1 DEF CalmTurn, CalmRemoval, CalmWrite, Drops, Executing
  <2>. QED BY <1>1, <1>2, <2>1, <2>2 DEF CalmState, CalmBefore, CalmAfter
<1>4. CASE todo # {}
  <2>1. Turn # None /\ stage = Turn /\ CalmTurn
    BY <1>4 DEF CalmState, CalmBefore, CalmAfter
  <2>2. at' = "check" /\ cmd' \in todo /\ todo' = todo \ {cmd'}
    BY <1>4, Steps
  <2>3. Turn \in {"promote", "final"} => Commands(seen) = {cmd'}
    BY <2>1, <2>2, TurnCommands DEF CalmTurn
  <2>4. CASE Turn = "conflict"
    <3>1. labels = {Goal} \cup Drops(todo)
      BY <1>1, <2>1, <2>4 DEF CalmTurn, CalmRemoval
    <3>2. Drops(todo) = Drops(todo') \cup {cmd'.drop}
      BY <2>2 DEF Drops
    <3>3. CalmRemoval'
      BY <1>1, <1>2, <2>2, <3>1, <3>2 DEF CalmRemoval, Drops
    <3>. QED BY <1>1, <1>2, <2>1, <2>2, <2>4, <3>3 DEF CalmState, CalmTurn, Executing
  <2>5. CASE Turn # "conflict"
    <3>1. todo' = {} /\ labels = seen.labels
      BY <1>4, <2>1, <2>2, <2>3, <2>5, TurnTyped DEF Turn, CalmTurn, CalmWrite
    <3>. QED BY <1>1, <1>2, <2>1, <2>2, <2>5, <3>1 DEF CalmState, CalmTurn, CalmWrite, Executing
  <2>. QED BY <2>4, <2>5
<1>. QED BY <1>3, <1>4

(* Every command of the plan is carried out.                               *)
LEMMA CalmExecutes ==
  ASSUME TypeOK, Control, Journals, Undisturbed, CalmState, [Next]_vars, calm', ~Begin, Executors
  PROVE  CalmState'
<1>1. UNCHANGED <<stage, seen, todo, cmd>> /\ at \in Executing
  BY PlanStays, Steps DEF plan, Executors, Executing
<1>2. Turn' = Turn /\ Goal' = Goal /\ Commands(seen') = Commands(seen)
  BY <1>1 DEF Turn, Goal
<1>3. Turn # None /\ stage = Turn /\ CalmTurn
  BY <1>1 DEF CalmState, CalmBefore, CalmAfter
<1>4. /\ cmd \in Commands(seen) /\ cmd \notin todo /\ todo \subseteq Commands(seen)
      /\ Sound(seen) /\ Order(cmd) /\ cmd.want = Goal
      /\ Turn = "conflict" => cmd = Removal(Goal, cmd.drop) /\ cmd.drop \in seen.labels \ {Goal}
      /\ Turn = "promote" => cmd = Transition("promote", "blocked", "queued")
      /\ Turn = "final" => cmd = Addition(Goal) \/ cmd = Transition("demote", "queued", "blocked")
  BY <1>1, <1>3, TurnCommands DEF CalmTurn, Undisturbed
<1>5. /\ Turn = "conflict" <=> cmd.kind = "remove"
      /\ cmd.kind \in {"remove", "transition", "add"}
  BY <1>3, <1>4, TurnTyped DEF Turn, Removal, Transition, Addition
<1>6. Turn # "conflict" => todo = {} /\ seen.labels = (IF cmd.kind = "add" THEN {} ELSE {cmd.drop})
  <2>1. CASE Turn = "promote"
    BY <1>1, <1>3, <1>4, <2>1, PlanPromotes DEF Turn, CalmTurn, Transition
  <2>2. CASE Turn = "final"
    <3>1. /\ Commands(seen) = {cmd}
          /\ \/ seen.labels = {} /\ cmd = Addition(Goal)
             \/ seen.labels = {"queued"} /\ cmd = Transition("demote", "queued", "blocked")
      BY <1>4, <2>2, PlanFinal DEF Turn, Goal
    <3>2. todo = {}
      BY <1>4, <3>1
    <3>. QED BY <3>1, <3>2 DEF Transition, Addition
  <2>. QED BY <1>3, <2>1, <2>2, TurnTyped DEF Turn
<1>7. Turn = "conflict" => cmd.drop \notin Drops(todo)
  <2>1. Turn = "conflict" => \A c \in todo : c = Removal(Goal, c.drop)
    BY <1>4, TurnCommands
  <2>. QED BY <1>4, <2>1 DEF Drops
<1>8. CASE Check
  <2>1. at = "check" /\ ~Covered(cmd) /\ Allows(cmd, Now(labels), outcome) /\ reserved = None
    BY <1>3, <1>4, <1>8, CalmResumes, CalmAllows, Steps DEF Undisturbed
  <2>2. at' = IF cmd.kind = "remove" THEN "drop" ELSE "add"
    BY <1>8, <2>1, CalmStays DEF Check, Goto
  <2>3. UNCHANGED labels
    BY <1>8 DEF Check, forge
  <2>4. CASE Turn = "conflict"
    BY <1>1, <1>2, <1>3, <1>5, <2>1, <2>2, <2>3, <2>4
       DEF CalmState, CalmTurn, CalmRemoval, Drops, Executing
  <2>5. CASE Turn # "conflict"
    <3>1. labels = seen.labels
      BY <1>3, <1>6, <2>1, <2>5 DEF CalmTurn, CalmWrite
    <3>. QED BY <1>1, <1>2, <1>3, <1>5, <1>6, <2>2, <2>3, <2>5, <3>1
            DEF CalmState, CalmTurn, CalmWrite, Executing
  <2>. QED BY <2>4, <2>5
<1>9. CASE Add
  <2>1. at = "add" /\ at' = "mark" /\ labels' = labels \cup {cmd.want}
    BY <1>9, CalmStays DEF Add
  <2>2. Turn # "conflict"
    BY <1>5, <2>1 DEF Control, Doing, Executing
  <2>3. labels = seen.labels
    BY <1>3, <1>6, <2>1, <2>2 DEF CalmTurn, CalmWrite
  <2>. QED BY <1>1, <1>2, <1>3, <1>4, <1>6, <2>1, <2>2, <2>3 DEF CalmState, CalmTurn, CalmWrite, Executing
<1>10. CASE Mark
  <2>1. at = "mark" /\ at' = (IF cmd.kind = "transition" THEN "drop" ELSE "verify") /\ UNCHANGED labels
    BY <1>10, Steps DEF Mark, forge
  <2>2. CASE Turn = "conflict"
    BY <1>1, <1>2, <1>3, <1>5, <2>1, <2>2 DEF CalmState, CalmTurn, CalmRemoval, Drops, Executing
  <2>3. CASE Turn # "conflict"
    <3>1. labels = seen.labels \cup {Goal}
      BY <1>3, <1>6, <2>1, <2>3 DEF CalmTurn, CalmWrite
    <3>2. cmd.kind = "add" => labels = {Goal}
      BY <1>6, <2>3, <3>1
    <3>. QED BY <1>1, <1>2, <1>3, <1>5, <1>6, <2>1, <2>3, <3>1, <3>2
            DEF CalmState, CalmTurn, CalmWrite, Executing
  <2>. QED BY <2>2, <2>3
<1>11. CASE Drop
  <2>1. /\ at = "drop" /\ at' = (IF cmd.kind = "transition" THEN "verify" ELSE "mark")
        /\ labels' = labels \ {cmd.drop}
    BY <1>11, CalmStays DEF Drop
  <2>2. CASE Turn = "conflict"
    <3>1. labels = {Goal} \cup Drops(todo) \cup {cmd.drop}
      BY <1>3, <2>1, <2>2 DEF CalmTurn, CalmRemoval
    <3>2. labels' = {Goal} \cup Drops(todo)
      BY <1>4, <1>7, <2>1, <2>2, <3>1
    <3>3. at' = "mark"
      BY <1>5, <2>1, <2>2
    <3>. QED BY <1>1, <1>2, <1>3, <2>2, <3>2, <3>3 DEF CalmState, CalmTurn, CalmRemoval, Drops, Executing
  <2>3. CASE Turn # "conflict"
    <3>1. labels = seen.labels \cup {Goal} /\ cmd.kind = "transition"
      BY <1>3, <1>5, <1>6, <2>1, <2>3 DEF CalmTurn, CalmWrite, Control, Doing, Executing
    <3>2. labels' = {Goal}
      BY <1>4, <1>6, <2>1, <2>3, <3>1 DEF Order
    <3>. QED BY <1>1, <1>2, <1>3, <1>6, <2>1, <2>3, <3>1, <3>2 DEF CalmState, CalmTurn, CalmWrite, Executing
  <2>. QED BY <2>2, <2>3
<1>12. CASE Verify
  <2>1. at = "verify" /\ at' \in {"next", "report", "close"} /\ UNCHANGED labels
    BY <1>12, Steps DEF Verify, forge
  <2>2. CASE Turn = "conflict"
    BY <1>1, <1>2, <1>3, <2>1, <2>2 DEF CalmState, CalmTurn, CalmRemoval, Drops, Executing
  <2>3. CASE Turn # "conflict"
    <3>1. labels = {Goal}
      BY <1>3, <1>6, <2>1, <2>3 DEF CalmTurn, CalmWrite
    <3>. QED BY <1>1, <1>2, <1>3, <1>6, <2>1, <2>3, <3>1 DEF CalmState, CalmTurn, CalmWrite, Executing
  <2>. QED BY <2>2, <2>3
<1>. QED BY <1>8, <1>9, <1>10, <1>11, <1>12 DEF Executors

(* Every step keeps what an undisturbed cycle has achieved.                *)
LEMMA CalmStep ==
  ASSUME Final = Codes, IInv, CalmInv, [Next]_vars
  PROVE  CalmInv'
<1>. SUFFICES ASSUME calm'
              PROVE  CalmInv'
  BY DEF CalmInv
<1>. TypeOK /\ Control /\ Journals
  BY DEF IInv
<1>1. CASE Begin
  BY <1>1, CalmBegins
<1>2. CASE ~Begin
  <2>1. Undisturbed /\ CalmState
    BY <1>2, CalmStays DEF Quietly, CalmInv
  <2>2. Undisturbed'
    BY <1>2, <2>1, UndisturbedStep
  <2>3. CalmState'
    BY <1>2, <2>1, CalmStays, CalmPass, CalmAround, CalmTake, CalmExecutes
  <2>. QED BY <2>2, <2>3 DEF CalmInv
<1>. QED BY <1>1, <1>2

(* When the configuration allows every repair, the cycle in which nothing  *)
(* else happens, no fault, no stop, nobody else, brings the Issue to its   *)
(* one label before it ends, whatever labels and whatever unfinished       *)
(* intents earlier cycles, writers and people left, but for the states     *)
(* that are documented as left to people (dispatch/cycle/run.py,           *)
(* consistency/).                                                          *)
THEOREM OneCycleRepairs ==
  ASSUME Final = Codes
  PROVE  Spec => []OneCycle
<1>1. Init => CalmInv
  BY DEF Init, CalmInv
<1>2. IInv /\ CalmInv /\ [Next]_vars => CalmInv'
  BY CalmStep
<1>3. IInv /\ CalmInv => OneCycle
  <2>. SUFFICES ASSUME IInv, CalmInv, at = "log", calm
                PROVE  Settled
    BY DEF OneCycle
  <2>1. Undisturbed /\ CalmState /\ stage = "final" /\ todo = {}
    BY DEF CalmInv, Undisturbed, IInv, Control, StageState, Executing
  <2>2. labels = {Goal}
    <3>1. ~(Rank("final") < Rank(Turn))
      BY TurnTyped DEF Rank, Turn
    <3>2. stage = Turn /\ CalmTurn => CalmWrite
      BY <2>1 DEF CalmTurn
    <3>3. CalmWrite => labels = {Goal}
      BY <2>1 DEF CalmWrite
    <3>. QED BY <2>1, <3>1, <3>2, <3>3 DEF CalmState, CalmAfter
  <2>3. Target = GoalOf([labels |-> labels, dep |-> dep, hold |-> FALSE])
    BY DEF Target, GoalOf, TargetOf
  <2>4. Target = Goal
    BY <2>1, <2>2, <2>3, GoalStays DEF Undisturbed, Goal
  <2>. QED BY <2>2, <2>4 DEF Settled
<1>. QED BY <1>1, <1>2, <1>3, RepairInvariant, PTL DEF Spec

=============================================================================
