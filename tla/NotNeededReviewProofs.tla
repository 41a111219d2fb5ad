----------------------- MODULE NotNeededReviewProofs -----------------------
(***************************************************************************)
(* The safety of the independent review for every number of completions,   *)
(* stops, edits and losses.                                                *)
(***************************************************************************)
EXTENDS NotNeededReview, TLAPS

Publishing == {"hold", "post", "label", "clean", "handoff"}
Running    == {"confirm", "keep", "read", "intend", "fire", "fired", "lookup",
               "timeout", "close", "snapshot", "retarget", "prune", "release",
               "unhold", "settle"}

IssueTypes ==
  /\ labels \subseteq Status \cup {"hold"} /\ seen \subseteq Status
  /\ open \in BOOLEAN /\ latest \in Gens \cup {0} /\ shut \subseteq Gens
ReviewTypes ==
  /\ agents \in [Gens -> Nat] /\ kinds \in [Gens -> Kinds \cup {None}]
  /\ heard \in {None, "passed", "failed", "timeout"}
RecordTypes ==
  /\ rec \in Record \cup {NoRecord} /\ backup \in Backup \cup {NoRecord}
  /\ active \in Gens \cup {0}
HolderTypes ==
  /\ at \in {"off"} \cup Publishing \cup Running
  /\ at # "off" => rec # NoRecord
Types == IssueTypes /\ ReviewTypes /\ RecordTypes /\ HolderTypes

(* Which completion a record, a claim and a lost record belong to.         *)
KindsKept ==
  /\ rec # NoRecord => kinds[rec.gen] = rec.kind
  /\ backup # NoRecord => kinds[backup.rec.gen] = backup.rec.kind
ClaimsKept ==
  /\ active # 0 /\ kinds[active] # None => rec # NoRecord /\ rec.gen = active
  /\ backup # NoRecord /\ backup.active # 0 =>
       /\ active # backup.active
       /\ kinds[backup.active] # None => backup.rec.gen = backup.active
Apart == rec # NoRecord /\ backup # NoRecord => rec.gen # backup.rec.gen
Histories == KindsKept /\ ClaimsKept /\ Apart

(* The hold is there before the Outcome, and the Outcome before the label. *)
PostedIsLatest ==
  /\ rec # NoRecord /\ rec.stage = "posted" => latest = rec.gen
  /\ rec = NoRecord /\ backup # NoRecord /\ backup.rec.stage = "posted" =>
       latest = backup.rec.gen
HeldFirst ==
  /\ at \in {"post", "label", "clean", "handoff"} /\ rec.kind = "review" =>
       "hold" \in labels
  /\ at = "hold" => rec.stage \in Pending
  /\ at \in {"label", "clean", "handoff"} => rec.stage = "posted"
(* What the runner knows at each of its steps.                             *)
HeardRight ==
  /\ at \in {"close", "release", "unhold"} =>
       (rec.kind = "review" /\ heard = "passed" => Said("passed"))
  /\ at = "close" /\ rec.kind = "review" => heard = "passed"
  /\ at \in {"snapshot", "retarget", "prune"} => heard \in {"failed", "timeout"}
  /\ at \in {"release", "unhold"} =>
       rec.kind = "review" /\ (heard = "passed" => rec.gen \in shut)
  /\ at \in {"confirm", "keep", "read", "intend", "fire", "fired", "lookup",
             "timeout", "snapshot", "retarget", "prune"} => rec.kind = "review"
  /\ at = "unhold" => IF heard = "passed" THEN latest = rec.gen
                      ELSE "not-needed" \notin labels
Held == PostedIsLatest /\ HeldFirst /\ HeardRight /\ HeldUntilPassed

(* No reviewer was started for a record that has no intent.                *)
NoneYet ==
  /\ \A g \in Gens : kinds[g] = None => agents[g] = 0
  /\ rec # NoRecord /\ rec.launch = None => agents[rec.gen] = 0
  /\ backup # NoRecord /\ backup.rec.launch = None => agents[backup.rec.gen] = 0
  /\ at = "intend" => rec.launch = None
  /\ at = "fire" => rec.launch = "launching" /\ agents[rec.gen] = 0
Once == NoneYet /\ ReviewedOnce

IInv == Types /\ Histories /\ Held /\ Once

(* A record keeps its type when one of its fields changes.                 *)
LEMMA RecordKept ==
  ASSUME NEW r \in Record
  PROVE  /\ r # NoRecord
         /\ r.gen \in Gens /\ r.kind \in Kinds
         /\ \A s \in Pending \cup {"handed"} : [r EXCEPT !.stage = s] \in Record
         /\ \A l \in {None, "launching", "launched"} :
              [r EXCEPT !.launch = l] \in Record
         /\ [r EXCEPT !.late = TRUE] \in Record
         /\ \A e \in {"applied", "rejected", "timed-out"} :
              [r EXCEPT !.end = e] \in Record
BY ReviewAssumption DEF Record

LEMMA GenPositive == 0 \notin Gens
BY ReviewAssumption DEF Gens

LEMMA NewRecord ==
  ASSUME NEW g \in Gens, NEW k \in Kinds
  PROVE  /\ [gen |-> g, kind |-> k, stage |-> "reserved", launch |-> None,
             late |-> FALSE, end |-> None] \in Record \ {NoRecord}
         /\ g # 0
<1>1. [gen |-> g, kind |-> k, stage |-> "reserved", launch |-> None,
       late |-> FALSE, end |-> None] \in Record
  BY DEF Record, Pending
<1>2. g # 0
  BY ReviewAssumption DEF Gens
<1>. QED BY <1>1, <1>2, ReviewAssumption

(* Types are kept by every step.                                           *)
LEMMA TypesKept ==
  ASSUME Types, [Next]_vars PROVE Types'
<1> USE DEF Types, issue, review, saved, counters, Kinds, Pending, Status, Active, None, IssueTypes, ReviewTypes, RecordTypes, HolderTypes, Publishing, Running
<1>1. ASSUME NEW k \in Kinds, CompleteClaimed(k) PROVE Types'
  BY <1>1, NewRecord DEF CompleteClaimed, Reserve
<1>2. CASE Claim
  BY <1>2 DEF Claim, Unused
<1>3. CASE CompleteUnclaimed
  <2>1. PICK g \in Unused : Reserve(g, "review")
    BY <1>3 DEF CompleteUnclaimed
  <2>2. g \in Gens
    BY DEF Unused
  <2>3. rec' \in Record \ {NoRecord}
    BY <2>1, <2>2, NewRecord DEF Reserve
  <2>4. kinds' \in [Gens -> Kinds \cup {None}]
    BY <2>1, <2>2 DEF Reserve
  <2>. QED BY <1>3, <2>1, <2>2, <2>3, <2>4 DEF CompleteUnclaimed, Reserve
<1>4. CASE Resume
  BY <1>4 DEF Resume, IsPending
<1>5. CASE Hold
  BY <1>5 DEF Hold
<1>6. CASE Post
  <2>1. rec \in Record
    BY <1>6 DEF Post
  <2>2. rec.gen \in Gens /\ [rec EXCEPT !.stage = "posted"] \in Record \ {NoRecord}
    BY <2>1, RecordKept
  <2>. QED BY <1>6, <2>1, <2>2 DEF Post
<1>7. CASE AddTarget
  BY <1>7 DEF AddTarget, Target
<1>8. CASE DropActive
  BY <1>8 DEF DropActive
<1>9. CASE HandOff
  BY <1>9, RecordKept DEF HandOff
<1>10. CASE Collect
  BY <1>10 DEF Collect
<1>11. CASE Begin
  BY <1>11 DEF Begin, Candidate
<1>12. CASE Confirm
  BY <1>12 DEF Confirm
<1>13. CASE KeepHold
  BY <1>13 DEF KeepHold
<1>14. CASE ReadVerdict
  BY <1>14 DEF ReadVerdict, Verdict
<1>15. CASE Intend
  BY <1>15, RecordKept DEF Intend
<1>16. CASE Fire
  <2>1. rec \in Record
    BY <1>16 DEF Fire
  <2>2. rec.gen \in Gens
    BY <2>1, RecordKept
  <2>3. agents' \in [Gens -> Nat]
    BY <1>16, <2>2 DEF Fire
  <2>. QED BY <1>16, <2>1, <2>2, <2>3 DEF Fire
<1>17. CASE Launched
  BY <1>17, RecordKept DEF Launched
<1>18. CASE Lookup
  BY <1>18 DEF Lookup
<1>19. CASE CheckTimeout
  BY <1>19 DEF CheckTimeout
<1>20. CASE CloseIssue
  BY <1>20, RecordKept DEF CloseIssue
<1>21. CASE Snapshot
  BY <1>21 DEF Snapshot, Stale
<1>22. CASE Retarget
  BY <1>22 DEF Retarget, Withdrawn
<1>23. CASE Prune
  BY <1>23 DEF Prune
<1>24. CASE Pruned
  BY <1>24 DEF Pruned
<1>25. CASE Release
  BY <1>25 DEF Release
<1>26. CASE Unhold
  BY <1>26 DEF Unhold
<1>27. CASE Settle
  BY <1>27, RecordKept DEF Settle
<1>28. CASE Elapse
  BY <1>28, RecordKept DEF Elapse
<1>29. CASE Requeue
  BY <1>29 DEF Requeue
<1>30. CASE Lose
  BY <1>30 DEF Lose, Backup
<1>31. CASE Restore
  BY <1>31 DEF Restore, Backup
<1>32. CASE Stop
  BY <1>32 DEF Stop
<1>33. ASSUME NEW g \in Gens, NEW v \in {"passed", "failed"}, Answer(g, v) PROVE Types'
  BY <1>33 DEF Answer
<1>34. CASE UNCHANGED vars
  BY <1>34 DEF vars
<1>. QED
  BY <1>1, <1>2, <1>3, <1>4, <1>5, <1>6, <1>7, <1>8, <1>9, <1>10, <1>11, <1>12, <1>13, <1>14, <1>15, <1>16, <1>17, <1>18, <1>19, <1>20, <1>21, <1>22, <1>23, <1>24, <1>25, <1>26, <1>27, <1>28, <1>29, <1>30, <1>31, <1>32, <1>33, <1>34
     DEF Next, Complete, Publish, Runner, Others

(* Only the field that a step writes changes.                              *)
LEMMA FieldsKept ==
  ASSUME NEW r \in Record, NEW x
  PROVE  /\ [r EXCEPT !.stage = x].gen = r.gen /\ [r EXCEPT !.stage = x].kind = r.kind
         /\ [r EXCEPT !.stage = x].launch = r.launch /\ [r EXCEPT !.stage = x].stage = x
         /\ [r EXCEPT !.launch = x].gen = r.gen /\ [r EXCEPT !.launch = x].kind = r.kind
         /\ [r EXCEPT !.launch = x].launch = x /\ [r EXCEPT !.launch = x].stage = r.stage
         /\ [r EXCEPT !.late = x].gen = r.gen /\ [r EXCEPT !.late = x].kind = r.kind
         /\ [r EXCEPT !.late = x].launch = r.launch /\ [r EXCEPT !.late = x].stage = r.stage
         /\ [r EXCEPT !.end = x].gen = r.gen /\ [r EXCEPT !.end = x].kind = r.kind
         /\ [r EXCEPT !.end = x].launch = r.launch /\ [r EXCEPT !.end = x].stage = r.stage
BY DEF Record

(* A new record starts a history of its own.                               *)
LEMMA ReserveKeeps ==
  ASSUME Types, Types', Histories, NEW g \in Gens, NEW k \in Kinds,
         kinds[g] = None, backup # NoRecord => backup.active # g,
         active \in {0, g}, Reserve(g, k)
  PROVE  Histories'
<1>1. rec' # NoRecord /\ rec'.gen = g /\ rec'.kind = k
  BY DEF Reserve, Types, HolderTypes
<1>2. /\ kinds'[g] = k /\ \A h \in Gens : h # g => kinds'[h] = kinds[h]
      /\ UNCHANGED <<active, backup>>
  BY DEF Reserve, Types, ReviewTypes
<1>3. backup # NoRecord =>
        backup.rec.gen \in Gens /\ backup.rec.gen # g /\ backup.active \in Gens \cup {0}
  BY RecordKept DEF Types, RecordTypes, Backup, Histories, KindsKept, Kinds, None
<1>4. KindsKept'
  BY <1>1, <1>2, <1>3 DEF Histories, KindsKept
<1>5. ClaimsKept'
  BY <1>1, <1>2, <1>3 DEF Histories, ClaimsKept
<1>6. Apart'
  BY <1>1, <1>2, <1>3 DEF Apart
<1>. QED BY <1>4, <1>5, <1>6 DEF Histories

(* The histories are kept by every step.                                   *)
LEMMA HistoriesKept ==
  ASSUME Types, Types', Histories, [Next]_vars PROVE Histories'
<1> USE DEF issue, review, saved, counters, Types, IssueTypes, RecordTypes, HolderTypes, Histories, KindsKept, ClaimsKept, Apart
<1>1. ASSUME NEW k \in Kinds, CompleteClaimed(k) PROVE Histories'
  <2>1. active \in Gens /\ kinds[active] = None
    BY <1>1 DEF CompleteClaimed
  <2>2. Histories'
    BY <1>1, <2>1, ReserveKeeps DEF CompleteClaimed
  <2>. QED BY <2>1, <2>2
<1>2. CASE Claim
  <2>1. PICK g \in Unused : active' = g
    BY <1>2 DEF Claim
  <2>2. kinds[g] = None /\ (backup # NoRecord => backup.active # g)
    BY DEF Unused
  <2>3. UNCHANGED <<rec, kinds, backup>>
    BY <1>2 DEF Claim
  <2>. QED BY <2>1, <2>2, <2>3
<1>3. CASE CompleteUnclaimed
  <2>1. PICK g \in Unused : Reserve(g, "review")
    BY <1>3 DEF CompleteUnclaimed
  <2>2. g \in Gens /\ kinds[g] = None /\ (backup # NoRecord => backup.active # g)
    BY DEF Unused
  <2>3. active = 0
    BY <1>3 DEF CompleteUnclaimed
  <2>4. Histories'
    BY <2>1, <2>2, <2>3, ReserveKeeps DEF Kinds
  <2>. QED BY <2>1, <2>2, <2>3, <2>4
<1>4. CASE Resume
  BY <1>4 DEF Resume
<1>5. CASE Hold
  BY <1>5 DEF Hold
<1>6. CASE Post
  <2>1. rec \in Record
    BY <1>6 DEF Post, RecordTypes, HolderTypes
  <2>2. rec'.gen = rec.gen /\ rec'.kind = rec.kind /\ rec'.launch = rec.launch
    <3>1. CASE Protected BY <1>6, <3>1 DEF Post
    <3>2. CASE ~Protected
      <4>1. rec' = [rec EXCEPT !.stage = "posted"] BY <1>6, <3>2 DEF Post
      <4>. QED BY <4>1, <2>1, FieldsKept
    <3>. QED BY <3>1, <3>2
  <2>3. rec # NoRecord /\ rec' # NoRecord
    BY <1>6, <2>1, RecordKept DEF Post, Pending, Types, HolderTypes
  <2>4. UNCHANGED <<kinds, active, backup>>
    BY <1>6 DEF Post
  <2>. QED BY <2>1, <2>2, <2>3, <2>4
<1>7. CASE AddTarget
  BY <1>7 DEF AddTarget
<1>8. CASE DropActive
  BY <1>8 DEF DropActive
<1>9. CASE HandOff
  <2>1. rec \in Record
    BY <1>9 DEF HandOff, RecordTypes, HolderTypes
  <2>2. rec'.gen = rec.gen /\ rec'.kind = rec.kind /\ rec'.launch = rec.launch
    BY <1>9, <2>1, FieldsKept DEF HandOff
  <2>3. rec # NoRecord /\ rec' # NoRecord
    BY <1>9, <2>1, RecordKept DEF HandOff, Pending, Types, HolderTypes
  <2>4. UNCHANGED <<kinds, active, backup>>
    BY <1>9 DEF HandOff
  <2>. QED BY <2>1, <2>2, <2>3, <2>4
<1>10. CASE Collect
  BY <1>10 DEF Collect
<1>11. CASE Begin
  BY <1>11 DEF Begin
<1>12. CASE Confirm
  BY <1>12 DEF Confirm
<1>13. CASE KeepHold
  BY <1>13 DEF KeepHold
<1>14. CASE ReadVerdict
  BY <1>14 DEF ReadVerdict
<1>15. CASE Intend
  <2>1. rec \in Record
    BY <1>15 DEF Intend, RecordTypes, HolderTypes
  <2>2. rec'.gen = rec.gen /\ rec'.kind = rec.kind /\ rec'.stage = rec.stage
    BY <1>15, <2>1, FieldsKept DEF Intend
  <2>3. rec # NoRecord /\ rec' # NoRecord
    BY <1>15, <2>1, RecordKept DEF Intend, Pending, Types, HolderTypes
  <2>4. UNCHANGED <<kinds, active, backup>>
    BY <1>15 DEF Intend
  <2>. QED BY <2>1, <2>2, <2>3, <2>4
<1>16. CASE Fire
  BY <1>16 DEF Fire
<1>17. CASE Launched
  <2>1. rec \in Record
    BY <1>17 DEF Launched, RecordTypes, HolderTypes
  <2>2. rec'.gen = rec.gen /\ rec'.kind = rec.kind /\ rec'.stage = rec.stage
    BY <1>17, <2>1, FieldsKept DEF Launched
  <2>3. rec # NoRecord /\ rec' # NoRecord
    BY <1>17, <2>1, RecordKept DEF Launched, Pending, Types, HolderTypes
  <2>4. UNCHANGED <<kinds, active, backup>>
    BY <1>17 DEF Launched
  <2>. QED BY <2>1, <2>2, <2>3, <2>4
<1>18. CASE Lookup
  BY <1>18 DEF Lookup
<1>19. CASE CheckTimeout
  BY <1>19 DEF CheckTimeout
<1>20. CASE CloseIssue
  BY <1>20 DEF CloseIssue
<1>21. CASE Snapshot
  BY <1>21 DEF Snapshot
<1>22. CASE Retarget
  BY <1>22 DEF Retarget
<1>23. CASE Prune
  BY <1>23 DEF Prune
<1>24. CASE Pruned
  BY <1>24 DEF Pruned
<1>25. CASE Release
  BY <1>25 DEF Release
<1>26. CASE Unhold
  BY <1>26 DEF Unhold
<1>27. CASE Settle
  <2>1. rec \in Record
    BY <1>27 DEF Settle, RecordTypes, HolderTypes
  <2>2. rec'.gen = rec.gen /\ rec'.kind = rec.kind /\ rec'.launch = rec.launch /\ rec'.stage = rec.stage
    BY <1>27, <2>1, FieldsKept DEF Settle
  <2>3. rec # NoRecord /\ rec' # NoRecord
    BY <1>27, <2>1, RecordKept DEF Settle, Pending, Types, HolderTypes
  <2>4. UNCHANGED <<kinds, active, backup>>
    BY <1>27 DEF Settle
  <2>. QED BY <2>1, <2>2, <2>3, <2>4
<1>28. CASE Elapse
  <2>1. rec \in Record
    BY <1>28 DEF Elapse, RecordTypes, HolderTypes
  <2>2. rec'.gen = rec.gen /\ rec'.kind = rec.kind /\ rec'.launch = rec.launch /\ rec'.stage = rec.stage
    BY <1>28, <2>1, FieldsKept DEF Elapse
  <2>3. rec # NoRecord /\ rec' # NoRecord
    BY <1>28, <2>1, RecordKept DEF Elapse, Pending, Types, HolderTypes
  <2>4. UNCHANGED <<kinds, active, backup>>
    BY <1>28 DEF Elapse
  <2>. QED BY <2>1, <2>2, <2>3, <2>4
<1>29. CASE Requeue
  BY <1>29 DEF Requeue
<1>30. CASE Lose
  BY <1>30 DEF Lose, Backup
<1>31. CASE Restore
  <2>1. backup.rec \in Record /\ backup.rec # NoRecord
    BY <1>31, RecordKept DEF Restore, Backup
  <2>. QED BY <1>31, <2>1 DEF Restore, Backup
<1>32. CASE Stop
  BY <1>32 DEF Stop
<1>33. ASSUME NEW g \in Gens, NEW v \in {"passed", "failed"}, Answer(g, v) PROVE Histories'
  BY <1>33 DEF Answer
<1>34. CASE UNCHANGED vars
  BY <1>34 DEF vars
<1>. QED
  BY <1>1, <1>2, <1>3, <1>4, <1>5, <1>6, <1>7, <1>8, <1>9, <1>10, <1>11, <1>12, <1>13, <1>14, <1>15, <1>16, <1>17, <1>18, <1>19, <1>20, <1>21, <1>22, <1>23, <1>24, <1>25, <1>26, <1>27, <1>28, <1>29, <1>30, <1>31, <1>32, <1>33, <1>34
     DEF Next, Complete, Publish, Runner, Others

(* Only the completion at hand posts, and a lost record comes back first.  *)
LEMMA PostedKept ==
  ASSUME Types, Types', PostedIsLatest, [Next]_vars PROVE PostedIsLatest'
<1> USE DEF issue, review, saved, counters, Types, RecordTypes, HolderTypes, Publishing, Running, None, PostedIsLatest
<1>1. ASSUME NEW k \in Kinds, CompleteClaimed(k) PROVE PostedIsLatest'
  BY <1>1 DEF CompleteClaimed, Reserve
<1>2. CASE Claim
  BY <1>2 DEF Claim
<1>3. CASE CompleteUnclaimed
  BY <1>3 DEF CompleteUnclaimed, Reserve
<1>4. CASE Resume
  BY <1>4 DEF Resume
<1>5. CASE Hold
  BY <1>5 DEF Hold
<1>6. CASE Post
  <2>1. rec \in Record
    BY <1>6 DEF Post, RecordTypes, HolderTypes
  <2>2. rec'.gen = rec.gen /\ rec'.kind = rec.kind /\ rec'.launch = rec.launch
    <3>1. CASE Protected BY <1>6, <3>1 DEF Post
    <3>2. CASE ~Protected
      <4>1. rec' = [rec EXCEPT !.stage = "posted"] BY <1>6, <3>2 DEF Post
      <4>. QED BY <4>1, <2>1, FieldsKept
    <3>. QED BY <3>1, <3>2
  <2>3. rec # NoRecord /\ rec' # NoRecord
    BY <1>6, <2>1, RecordKept DEF Post, Pending, Types, HolderTypes
  <2>. QED BY <1>6, <2>1, <2>2, <2>3 DEF Post
<1>7. CASE AddTarget
  BY <1>7 DEF AddTarget
<1>8. CASE DropActive
  BY <1>8 DEF DropActive
<1>9. CASE HandOff
  <2>1. rec \in Record
    BY <1>9 DEF HandOff, RecordTypes, HolderTypes
  <2>2. rec'.gen = rec.gen /\ rec'.kind = rec.kind /\ rec'.launch = rec.launch
    BY <1>9, <2>1, FieldsKept DEF HandOff
  <2>3. rec # NoRecord /\ rec' # NoRecord
    BY <1>9, <2>1, RecordKept DEF HandOff, Pending, Types, HolderTypes
  <2>. QED BY <1>9, <2>1, <2>2, <2>3 DEF HandOff, HolderTypes
<1>10. CASE Collect
  BY <1>10 DEF Collect
<1>11. CASE Begin
  BY <1>11 DEF Begin
<1>12. CASE Confirm
  BY <1>12 DEF Confirm
<1>13. CASE KeepHold
  BY <1>13 DEF KeepHold
<1>14. CASE ReadVerdict
  BY <1>14 DEF ReadVerdict
<1>15. CASE Intend
  <2>1. rec \in Record
    BY <1>15 DEF Intend, RecordTypes, HolderTypes
  <2>2. rec'.gen = rec.gen /\ rec'.kind = rec.kind /\ rec'.stage = rec.stage
    BY <1>15, <2>1, FieldsKept DEF Intend
  <2>3. rec # NoRecord /\ rec' # NoRecord
    BY <1>15, <2>1, RecordKept DEF Intend, Pending, Types, HolderTypes
  <2>. QED BY <1>15, <2>1, <2>2, <2>3 DEF Intend
<1>16. CASE Fire
  BY <1>16 DEF Fire
<1>17. CASE Launched
  <2>1. rec \in Record
    BY <1>17 DEF Launched, RecordTypes, HolderTypes
  <2>2. rec'.gen = rec.gen /\ rec'.kind = rec.kind /\ rec'.stage = rec.stage
    BY <1>17, <2>1, FieldsKept DEF Launched
  <2>3. rec # NoRecord /\ rec' # NoRecord
    BY <1>17, <2>1, RecordKept DEF Launched, Pending, Types, HolderTypes
  <2>. QED BY <1>17, <2>1, <2>2, <2>3 DEF Launched
<1>18. CASE Lookup
  BY <1>18 DEF Lookup
<1>19. CASE CheckTimeout
  BY <1>19 DEF CheckTimeout
<1>20. CASE CloseIssue
  BY <1>20 DEF CloseIssue
<1>21. CASE Snapshot
  BY <1>21 DEF Snapshot
<1>22. CASE Retarget
  BY <1>22 DEF Retarget
<1>23. CASE Prune
  BY <1>23 DEF Prune
<1>24. CASE Pruned
  BY <1>24 DEF Pruned
<1>25. CASE Release
  BY <1>25 DEF Release
<1>26. CASE Unhold
  BY <1>26 DEF Unhold
<1>27. CASE Settle
  <2>1. rec \in Record
    BY <1>27 DEF Settle, RecordTypes, HolderTypes
  <2>2. rec'.gen = rec.gen /\ rec'.kind = rec.kind /\ rec'.launch = rec.launch /\ rec'.stage = rec.stage
    BY <1>27, <2>1, FieldsKept DEF Settle
  <2>3. rec # NoRecord /\ rec' # NoRecord
    BY <1>27, <2>1, RecordKept DEF Settle, Pending, Types, HolderTypes
  <2>. QED BY <1>27, <2>1, <2>2, <2>3 DEF Settle
<1>28. CASE Elapse
  <2>1. rec \in Record
    BY <1>28 DEF Elapse, RecordTypes, HolderTypes
  <2>2. rec'.gen = rec.gen /\ rec'.kind = rec.kind /\ rec'.launch = rec.launch /\ rec'.stage = rec.stage
    BY <1>28, <2>1, FieldsKept DEF Elapse
  <2>3. rec # NoRecord /\ rec' # NoRecord
    BY <1>28, <2>1, RecordKept DEF Elapse, Pending, Types, HolderTypes
  <2>. QED BY <1>28, <2>1, <2>2, <2>3 DEF Elapse
<1>29. CASE Requeue
  BY <1>29 DEF Requeue
<1>30. CASE Lose
  BY <1>30 DEF Lose
<1>31. CASE Restore
  <2>1. backup.rec \in Record /\ backup.rec # NoRecord
    BY <1>31, RecordKept DEF Restore, Backup
  <2>. QED BY <1>31, <2>1 DEF Restore
<1>32. CASE Stop
  BY <1>32 DEF Stop
<1>33. ASSUME NEW g \in Gens, NEW v \in {"passed", "failed"}, Answer(g, v) PROVE PostedIsLatest'
  BY <1>33 DEF Answer
<1>34. CASE UNCHANGED vars
  BY <1>34 DEF vars
<1>. QED
  BY <1>1, <1>2, <1>3, <1>4, <1>5, <1>6, <1>7, <1>8, <1>9, <1>10, <1>11, <1>12, <1>13, <1>14, <1>15, <1>16, <1>17, <1>18, <1>19, <1>20, <1>21, <1>22, <1>23, <1>24, <1>25, <1>26, <1>27, <1>28, <1>29, <1>30, <1>31, <1>32, <1>33, <1>34
     DEF Next, Complete, Publish, Runner, Others

(* The hold stays on while the completion is published.                    *)
LEMMA HeldFirstKept ==
  ASSUME Types, Types', HeldFirst, [Next]_vars PROVE HeldFirst'
<1> USE DEF issue, review, saved, counters, Types, RecordTypes, HolderTypes, Publishing, Running, None, HeldFirst, IssueTypes, Status, Active, Pending
<1>1. ASSUME NEW k \in Kinds, CompleteClaimed(k) PROVE HeldFirst'
  BY <1>1 DEF CompleteClaimed, Reserve
<1>2. CASE Claim
  BY <1>2 DEF Claim
<1>3. CASE CompleteUnclaimed
  BY <1>3 DEF CompleteUnclaimed, Reserve
<1>4. CASE Resume
  BY <1>4 DEF Resume, IsPending
<1>5. CASE Hold
  BY <1>5 DEF Hold, Record
<1>6. CASE Post
  <2>1. rec \in Record
    BY <1>6 DEF Post, RecordTypes, HolderTypes
  <2>2. rec'.stage = "posted" \/ at' = "off"
    <3>1. CASE Protected BY <1>6, <3>1 DEF Post
    <3>2. CASE ~Protected
      <4>1. rec' = [rec EXCEPT !.stage = "posted"] BY <1>6, <3>2 DEF Post
      <4>. QED BY <4>1, <2>1, FieldsKept
    <3>. QED BY <3>1, <3>2
  <2>3. rec'.kind = rec.kind
    <3>1. CASE Protected BY <1>6, <3>1 DEF Post
    <3>2. CASE ~Protected
      <4>1. rec' = [rec EXCEPT !.stage = "posted"] BY <1>6, <3>2 DEF Post
      <4>. QED BY <4>1, <2>1, FieldsKept
    <3>. QED BY <3>1, <3>2
  <2>4. UNCHANGED labels /\ at = "post" /\ at' \in {"off", "label"}
    BY <1>6 DEF Post
  <2>. QED BY <1>6, <2>1, <2>2, <2>3, <2>4 DEF Post
<1>7. CASE AddTarget
  BY <1>7 DEF AddTarget
<1>8. CASE DropActive
  BY <1>8 DEF DropActive
<1>9. CASE HandOff
  <2>1. rec \in Record
    BY <1>9 DEF HandOff, RecordTypes, HolderTypes
  <2>2. rec'.gen = rec.gen /\ rec'.kind = rec.kind /\ rec'.launch = rec.launch
    BY <1>9, <2>1, FieldsKept DEF HandOff
  <2>3. rec # NoRecord /\ rec' # NoRecord
    BY <1>9, <2>1, RecordKept DEF HandOff, Pending, Types, HolderTypes
  <2>. QED BY <1>9, <2>1, <2>2, <2>3 DEF HandOff
<1>10. CASE Collect
  BY <1>10 DEF Collect
<1>11. CASE Begin
  BY <1>11 DEF Begin, Candidate
<1>12. CASE Confirm
  BY <1>12 DEF Confirm
<1>13. CASE KeepHold
  BY <1>13 DEF KeepHold
<1>14. CASE ReadVerdict
  BY <1>14 DEF ReadVerdict
<1>15. CASE Intend
  <2>1. rec \in Record
    BY <1>15 DEF Intend, RecordTypes, HolderTypes
  <2>2. rec'.gen = rec.gen /\ rec'.kind = rec.kind /\ rec'.stage = rec.stage
    BY <1>15, <2>1, FieldsKept DEF Intend
  <2>3. rec # NoRecord /\ rec' # NoRecord
    BY <1>15, <2>1, RecordKept DEF Intend, Pending, Types, HolderTypes
  <2>. QED BY <1>15, <2>1, <2>2, <2>3 DEF Intend
<1>16. CASE Fire
  BY <1>16 DEF Fire
<1>17. CASE Launched
  <2>1. rec \in Record
    BY <1>17 DEF Launched, RecordTypes, HolderTypes
  <2>2. rec'.gen = rec.gen /\ rec'.kind = rec.kind /\ rec'.stage = rec.stage
    BY <1>17, <2>1, FieldsKept DEF Launched
  <2>3. rec # NoRecord /\ rec' # NoRecord
    BY <1>17, <2>1, RecordKept DEF Launched, Pending, Types, HolderTypes
  <2>. QED BY <1>17, <2>1, <2>2, <2>3 DEF Launched
<1>18. CASE Lookup
  BY <1>18 DEF Lookup
<1>19. CASE CheckTimeout
  BY <1>19 DEF CheckTimeout
<1>20. CASE CloseIssue
  BY <1>20 DEF CloseIssue
<1>21. CASE Snapshot
  BY <1>21 DEF Snapshot
<1>22. CASE Retarget
  BY <1>22 DEF Retarget
<1>23. CASE Prune
  BY <1>23 DEF Prune
<1>24. CASE Pruned
  BY <1>24 DEF Pruned
<1>25. CASE Release
  BY <1>25 DEF Release
<1>26. CASE Unhold
  BY <1>26 DEF Unhold
<1>27. CASE Settle
  <2>1. rec \in Record
    BY <1>27 DEF Settle, RecordTypes, HolderTypes
  <2>2. rec'.gen = rec.gen /\ rec'.kind = rec.kind /\ rec'.launch = rec.launch /\ rec'.stage = rec.stage
    BY <1>27, <2>1, FieldsKept DEF Settle
  <2>3. rec # NoRecord /\ rec' # NoRecord
    BY <1>27, <2>1, RecordKept DEF Settle, Pending, Types, HolderTypes
  <2>. QED BY <1>27, <2>1, <2>2, <2>3 DEF Settle
<1>28. CASE Elapse
  <2>1. rec \in Record
    BY <1>28 DEF Elapse, RecordTypes, HolderTypes
  <2>2. rec'.gen = rec.gen /\ rec'.kind = rec.kind /\ rec'.launch = rec.launch /\ rec'.stage = rec.stage
    BY <1>28, <2>1, FieldsKept DEF Elapse
  <2>3. rec # NoRecord /\ rec' # NoRecord
    BY <1>28, <2>1, RecordKept DEF Elapse, Pending, Types, HolderTypes
  <2>. QED BY <1>28, <2>1, <2>2, <2>3 DEF Elapse
<1>29. CASE Requeue
  BY <1>29 DEF Requeue
<1>30. CASE Lose
  BY <1>30 DEF Lose
<1>31. CASE Restore
  BY <1>31 DEF Restore
<1>32. CASE Stop
  BY <1>32 DEF Stop
<1>33. ASSUME NEW g \in Gens, NEW v \in {"passed", "failed"}, Answer(g, v) PROVE HeldFirst'
  BY <1>33 DEF Answer
<1>34. CASE UNCHANGED vars
  BY <1>34 DEF vars
<1>. QED
  BY <1>1, <1>2, <1>3, <1>4, <1>5, <1>6, <1>7, <1>8, <1>9, <1>10, <1>11, <1>12, <1>13, <1>14, <1>15, <1>16, <1>17, <1>18, <1>19, <1>20, <1>21, <1>22, <1>23, <1>24, <1>25, <1>26, <1>27, <1>28, <1>29, <1>30, <1>31, <1>32, <1>33, <1>34
     DEF Next, Complete, Publish, Runner, Others

(* What the runner heard stays true until it acts on it.                   *)
LEMMA HeardKept ==
  ASSUME Types, Types', HeardRight, [Next]_vars PROVE HeardRight'
<1> USE DEF issue, review, saved, counters, Types, RecordTypes, HolderTypes, Publishing, Running, None, HeardRight, Said, Kinds
<1>1. ASSUME NEW k \in Kinds, CompleteClaimed(k) PROVE HeardRight'
  BY <1>1 DEF CompleteClaimed, Reserve
<1>2. CASE Claim
  BY <1>2 DEF Claim
<1>3. CASE CompleteUnclaimed
  BY <1>3 DEF CompleteUnclaimed, Reserve
<1>4. CASE Resume
  BY <1>4 DEF Resume
<1>5. CASE Hold
  BY <1>5 DEF Hold
<1>6. CASE Post
  <2>1. rec \in Record
    BY <1>6 DEF Post, RecordTypes, HolderTypes
  <2>2. rec'.gen = rec.gen /\ rec'.kind = rec.kind /\ rec'.launch = rec.launch
    <3>1. CASE Protected BY <1>6, <3>1 DEF Post
    <3>2. CASE ~Protected
      <4>1. rec' = [rec EXCEPT !.stage = "posted"] BY <1>6, <3>2 DEF Post
      <4>. QED BY <4>1, <2>1, FieldsKept
    <3>. QED BY <3>1, <3>2
  <2>3. rec # NoRecord /\ rec' # NoRecord
    BY <1>6, <2>1, RecordKept DEF Post, Pending, Types, HolderTypes
  <2>. QED BY <1>6, <2>1, <2>2, <2>3 DEF Post
<1>7. CASE AddTarget
  BY <1>7 DEF AddTarget
<1>8. CASE DropActive
  BY <1>8 DEF DropActive
<1>9. CASE HandOff
  <2>1. rec \in Record
    BY <1>9 DEF HandOff, RecordTypes, HolderTypes
  <2>2. rec'.gen = rec.gen /\ rec'.kind = rec.kind /\ rec'.launch = rec.launch
    BY <1>9, <2>1, FieldsKept DEF HandOff
  <2>3. rec # NoRecord /\ rec' # NoRecord
    BY <1>9, <2>1, RecordKept DEF HandOff, Pending, Types, HolderTypes
  <2>. QED BY <1>9, <2>1, <2>2, <2>3 DEF HandOff
<1>10. CASE Collect
  BY <1>10 DEF Collect
<1>11. CASE Begin
  BY <1>11 DEF Begin, Candidate
<1>12. CASE Confirm
  BY <1>12 DEF Confirm
<1>13. CASE KeepHold
  BY <1>13 DEF KeepHold
<1>14. CASE ReadVerdict
  <2>1. Verdict \in {None, "passed", "failed"} /\ (Verdict = "passed" => Said("passed"))
    BY DEF Verdict
  <2>2. /\ at' \in {"close", "snapshot", "timeout", "lookup", "intend"}
        /\ at' = "close" => Verdict = "passed"
        /\ at' = "snapshot" => Verdict = "failed"
    BY <1>14 DEF ReadVerdict
  <2>3. heard' = Verdict /\ rec.kind = "review" /\ UNCHANGED <<verdicts, rec>>
    BY <1>14 DEF ReadVerdict
  <2>. QED BY <1>14, <2>1, <2>2, <2>3 DEF ReadVerdict
<1>15. CASE Intend
  <2>1. rec \in Record
    BY <1>15 DEF Intend, RecordTypes, HolderTypes
  <2>2. rec'.gen = rec.gen /\ rec'.kind = rec.kind /\ rec'.stage = rec.stage
    BY <1>15, <2>1, FieldsKept DEF Intend
  <2>3. rec # NoRecord /\ rec' # NoRecord
    BY <1>15, <2>1, RecordKept DEF Intend, Pending, Types, HolderTypes
  <2>. QED BY <1>15, <2>1, <2>2, <2>3 DEF Intend
<1>16. CASE Fire
  BY <1>16 DEF Fire
<1>17. CASE Launched
  <2>1. rec \in Record
    BY <1>17 DEF Launched, RecordTypes, HolderTypes
  <2>2. rec'.gen = rec.gen /\ rec'.kind = rec.kind /\ rec'.stage = rec.stage
    BY <1>17, <2>1, FieldsKept DEF Launched
  <2>3. rec # NoRecord /\ rec' # NoRecord
    BY <1>17, <2>1, RecordKept DEF Launched, Pending, Types, HolderTypes
  <2>. QED BY <1>17, <2>1, <2>2, <2>3 DEF Launched
<1>18. CASE Lookup
  BY <1>18 DEF Lookup
<1>19. CASE CheckTimeout
  BY <1>19 DEF CheckTimeout
<1>20. CASE CloseIssue
  BY <1>20 DEF CloseIssue
<1>21. CASE Snapshot
  BY <1>21 DEF Snapshot
<1>22. CASE Retarget
  BY <1>22 DEF Retarget
<1>23. CASE Prune
  BY <1>23 DEF Prune
<1>24. CASE Pruned
  BY <1>24 DEF Pruned
<1>25. CASE Release
  BY <1>25 DEF Release, Releasable, SameGeneration
<1>26. CASE Unhold
  BY <1>26 DEF Unhold
<1>27. CASE Settle
  <2>1. rec \in Record
    BY <1>27 DEF Settle, RecordTypes, HolderTypes
  <2>2. rec'.gen = rec.gen /\ rec'.kind = rec.kind /\ rec'.launch = rec.launch /\ rec'.stage = rec.stage
    BY <1>27, <2>1, FieldsKept DEF Settle
  <2>3. rec # NoRecord /\ rec' # NoRecord
    BY <1>27, <2>1, RecordKept DEF Settle, Pending, Types, HolderTypes
  <2>. QED BY <1>27, <2>1, <2>2, <2>3 DEF Settle
<1>28. CASE Elapse
  <2>1. rec \in Record
    BY <1>28 DEF Elapse, RecordTypes, HolderTypes
  <2>2. rec'.gen = rec.gen /\ rec'.kind = rec.kind /\ rec'.launch = rec.launch /\ rec'.stage = rec.stage
    BY <1>28, <2>1, FieldsKept DEF Elapse
  <2>3. rec # NoRecord /\ rec' # NoRecord
    BY <1>28, <2>1, RecordKept DEF Elapse, Pending, Types, HolderTypes
  <2>. QED BY <1>28, <2>1, <2>2, <2>3 DEF Elapse
<1>29. CASE Requeue
  BY <1>29 DEF Requeue
<1>30. CASE Lose
  BY <1>30 DEF Lose
<1>31. CASE Restore
  BY <1>31 DEF Restore
<1>32. CASE Stop
  BY <1>32 DEF Stop
<1>33. ASSUME NEW g \in Gens, NEW v \in {"passed", "failed"}, Answer(g, v) PROVE HeardRight'
  BY <1>33 DEF Answer
<1>34. CASE UNCHANGED vars
  BY <1>34 DEF vars
<1>. QED
  BY <1>1, <1>2, <1>3, <1>4, <1>5, <1>6, <1>7, <1>8, <1>9, <1>10, <1>11, <1>12, <1>13, <1>14, <1>15, <1>16, <1>17, <1>18, <1>19, <1>20, <1>21, <1>22, <1>23, <1>24, <1>25, <1>26, <1>27, <1>28, <1>29, <1>30, <1>31, <1>32, <1>33, <1>34
     DEF Next, Complete, Publish, Runner, Others

(* The hold goes only after the pass and the close.                        *)
LEMMA PassedKept ==
  ASSUME Types, Types', Histories, PostedIsLatest, HeldFirst, HeardRight, HeldUntilPassed, [Next]_vars PROVE HeldUntilPassed'
<1> USE DEF issue, review, saved, counters, Types, RecordTypes, HolderTypes, Publishing, Running, None, HeldUntilPassed, LetsDependentsGo
<1>1. ASSUME NEW k \in Kinds, CompleteClaimed(k) PROVE HeldUntilPassed'
  <2>1. active \in Gens /\ kinds[active] = None
    BY <1>1 DEF CompleteClaimed, Types, RecordTypes, Histories, ClaimsKept
  <2>2. \A h \in Gens : h # active => kinds'[h] = kinds[h]
    BY <1>1, <2>1 DEF CompleteClaimed, Reserve, ReviewTypes
  <2>3. UNCHANGED <<labels, latest, verdicts, shut>>
    BY <1>1 DEF CompleteClaimed, Reserve
  <2>4. latest \in Gens \cup {0}
    BY DEF IssueTypes
  <2>. QED BY <2>1, <2>2, <2>3, <2>4
<1>2. CASE Claim
  BY <1>2 DEF Claim
<1>3. CASE CompleteUnclaimed
  <2>1. PICK g \in Unused : Reserve(g, "review")
    BY <1>3 DEF CompleteUnclaimed
  <2>2. g \in Gens /\ kinds[g] = None
    BY DEF Unused
  <2>3. \A h \in Gens : h # g => kinds'[h] = kinds[h]
    BY <2>1, <2>2 DEF Reserve, ReviewTypes
  <2>4. UNCHANGED <<labels, latest, verdicts, shut>>
    BY <2>1 DEF Reserve
  <2>5. latest \in Gens \cup {0}
    BY DEF IssueTypes
  <2>. QED BY <2>1, <2>2, <2>3, <2>4, <2>5
<1>4. CASE Resume
  BY <1>4 DEF Resume
<1>5. CASE Hold
  BY <1>5 DEF Hold
<1>6. CASE Post
  <2>1. rec \in Record
    BY <1>6 DEF Post
  <2>2. CASE Protected
    BY <1>6, <2>2 DEF Post
  <2>3. CASE ~Protected
    <3>1. rec.gen \in Gens /\ rec.gen # 0 /\ rec.kind \in Kinds
      BY <2>1, RecordKept, GenPositive
    <3>2. latest' = rec.gen /\ UNCHANGED <<labels, kinds>>
      BY <1>6, <2>3 DEF Post
    <3>3. CASE rec.kind = "review"
      BY <1>6, <3>2, <3>3 DEF Post, HeldFirst
    <3>4. CASE rec.kind = "exempt"
      BY <1>6, <2>1, <3>1, <3>2, <3>4 DEF Post, Histories, KindsKept
    <3>5. CASE rec.kind = "done"
      BY <2>3, <3>2, <3>5 DEF Protected, Target, Status, Active
    <3>. QED BY <3>1, <3>3, <3>4, <3>5 DEF Kinds
  <2>. QED BY <1>6, <2>1, <2>2, <2>3 DEF Post
<1>7. CASE AddTarget
  <2>1. CASE Protected
    BY <1>7, <2>1 DEF AddTarget
  <2>2. CASE ~Protected
    <3>1. rec \in Record /\ rec # NoRecord /\ rec.stage = "posted"
      BY <1>7, ReviewAssumption DEF AddTarget, HeldFirst
    <3>2. rec.gen # 0 /\ rec.kind \in Kinds /\ latest = rec.gen /\ kinds[latest] = rec.kind
      BY <3>1, RecordKept, GenPositive DEF PostedIsLatest, Histories, KindsKept
    <3>3. UNCHANGED <<latest, kinds, verdicts, shut>> /\ labels' = labels \cup {Target}
      BY <1>7, <2>2 DEF AddTarget
    <3>4. CASE rec.kind = "review"
      BY <1>7, <3>3, <3>4 DEF AddTarget, HeldFirst
    <3>5. CASE rec.kind = "exempt"
      BY <3>2, <3>3, <3>5
    <3>6. CASE rec.kind = "done"
      BY <3>3, <3>6 DEF Target
    <3>. QED BY <3>2, <3>4, <3>5, <3>6 DEF Kinds
  <2>. QED BY <1>7, <2>1, <2>2 DEF AddTarget
<1>8. CASE DropActive
  BY <1>8 DEF DropActive, Active
<1>9. CASE HandOff
  BY <1>9 DEF HandOff
<1>10. CASE Collect
  BY <1>10 DEF Collect
<1>11. CASE Begin
  BY <1>11 DEF Begin
<1>12. CASE Confirm
  BY <1>12 DEF Confirm
<1>13. CASE KeepHold
  BY <1>13 DEF KeepHold
<1>14. CASE ReadVerdict
  BY <1>14 DEF ReadVerdict
<1>15. CASE Intend
  BY <1>15 DEF Intend
<1>16. CASE Fire
  BY <1>16 DEF Fire
<1>17. CASE Launched
  BY <1>17 DEF Launched
<1>18. CASE Lookup
  BY <1>18 DEF Lookup
<1>19. CASE CheckTimeout
  BY <1>19 DEF CheckTimeout
<1>20. CASE CloseIssue
  BY <1>20 DEF CloseIssue
<1>21. CASE Snapshot
  BY <1>21 DEF Snapshot
<1>22. CASE Retarget
  BY <1>22 DEF Retarget, Withdrawn
<1>23. CASE Prune
  BY <1>23 DEF Prune, IssueTypes, Status, Active
<1>24. CASE Pruned
  BY <1>24 DEF Pruned
<1>25. CASE Release
  BY <1>25 DEF Release
<1>26. CASE Unhold
  <2>1. rec \in Record /\ rec.gen # 0
    BY <1>26, RecordKept, GenPositive DEF Unhold
  <2>2. UNCHANGED <<latest, verdicts, shut, kinds>> /\ labels' = labels \ {"hold"}
    BY <1>26 DEF Unhold
  <2>3. IF heard = "passed" THEN latest = rec.gen /\ rec.gen \in shut /\ Said("passed") ELSE "not-needed" \notin labels
    BY <1>26 DEF Unhold, HeardRight
  <2>4. HeldUntilPassed'
    BY <2>1, <2>2, <2>3 DEF Said
  <2>. QED BY <2>1, <2>2, <2>3, <2>4
<1>27. CASE Settle
  BY <1>27 DEF Settle
<1>28. CASE Elapse
  BY <1>28 DEF Elapse
<1>29. CASE Requeue
  BY <1>29 DEF Requeue, Status, Active
<1>30. CASE Lose
  BY <1>30 DEF Lose
<1>31. CASE Restore
  BY <1>31 DEF Restore
<1>32. CASE Stop
  BY <1>32 DEF Stop
<1>33. ASSUME NEW g \in Gens, NEW v \in {"passed", "failed"}, Answer(g, v) PROVE HeldUntilPassed'
  BY <1>33 DEF Answer
<1>34. CASE UNCHANGED vars
  BY <1>34 DEF vars
<1>. QED
  BY <1>1, <1>2, <1>3, <1>4, <1>5, <1>6, <1>7, <1>8, <1>9, <1>10, <1>11, <1>12, <1>13, <1>14, <1>15, <1>16, <1>17, <1>18, <1>19, <1>20, <1>21, <1>22, <1>23, <1>24, <1>25, <1>26, <1>27, <1>28, <1>29, <1>30, <1>31, <1>32, <1>33, <1>34
     DEF Next, Complete, Publish, Runner, Others

(* A completion nobody knew has no reviewer.                               *)
LEMMA ReserveUnseen ==
  ASSUME Types, Types', Once, NEW g \in Gens, NEW k \in Kinds,
         kinds[g] = None, Reserve(g, k)
  PROVE  Once'
<1>1. /\ rec' # NoRecord /\ rec'.gen = g /\ rec'.launch = None /\ at' = "hold"
      /\ UNCHANGED <<agents, backup>> /\ agents[g] = 0
  BY DEF Reserve, review, Once, NoneYet, Types, HolderTypes
<1>2. \A h \in Gens : kinds'[h] = None => kinds[h] = None
  BY DEF Reserve, Types, ReviewTypes
<1>. QED BY <1>1, <1>2 DEF Once, NoneYet, ReviewedOnce

(* A reviewer is started only after an intent nobody had before.           *)
LEMMA OnceKept ==
  ASSUME Types, Types', Histories, Once, [Next]_vars PROVE Once'
<1> USE DEF issue, review, saved, counters, Types, RecordTypes, HolderTypes, Publishing, Running, None, Once, NoneYet, ReviewedOnce
<1>1. ASSUME NEW k \in Kinds, CompleteClaimed(k) PROVE Once'
  <2>1. active \in Gens /\ kinds[active] = None
    BY <1>1 DEF CompleteClaimed, Histories, ClaimsKept
  <2>2. Once'
    BY <1>1, <2>1, ReserveUnseen DEF CompleteClaimed, NoneYet
  <2>. QED BY <2>1, <2>2
<1>2. CASE Claim
  BY <1>2 DEF Claim
<1>3. CASE CompleteUnclaimed
  <2>1. PICK g \in Unused : Reserve(g, "review")
    BY <1>3 DEF CompleteUnclaimed
  <2>2. g \in Gens /\ kinds[g] = None
    BY DEF Unused
  <2>3. Once'
    BY <2>1, <2>2, ReserveUnseen DEF Kinds, NoneYet
  <2>. QED BY <2>1, <2>2, <2>3
<1>4. CASE Resume
  BY <1>4 DEF Resume
<1>5. CASE Hold
  BY <1>5 DEF Hold
<1>6. CASE Post
  <2>1. rec \in Record
    BY <1>6 DEF Post, RecordTypes, HolderTypes
  <2>2. rec'.gen = rec.gen /\ rec'.kind = rec.kind /\ rec'.launch = rec.launch
    <3>1. CASE Protected BY <1>6, <3>1 DEF Post
    <3>2. CASE ~Protected
      <4>1. rec' = [rec EXCEPT !.stage = "posted"] BY <1>6, <3>2 DEF Post
      <4>. QED BY <4>1, <2>1, FieldsKept
    <3>. QED BY <3>1, <3>2
  <2>3. rec # NoRecord /\ rec' # NoRecord
    BY <1>6, <2>1, RecordKept DEF Post, Pending, Types, HolderTypes
  <2>. QED BY <1>6, <2>1, <2>2, <2>3 DEF Post
<1>7. CASE AddTarget
  BY <1>7 DEF AddTarget
<1>8. CASE DropActive
  BY <1>8 DEF DropActive
<1>9. CASE HandOff
  <2>1. rec \in Record
    BY <1>9 DEF HandOff, RecordTypes, HolderTypes
  <2>2. rec'.gen = rec.gen /\ rec'.kind = rec.kind /\ rec'.launch = rec.launch
    BY <1>9, <2>1, FieldsKept DEF HandOff
  <2>3. rec # NoRecord /\ rec' # NoRecord
    BY <1>9, <2>1, RecordKept DEF HandOff, Pending, Types, HolderTypes
  <2>. QED BY <1>9, <2>1, <2>2, <2>3 DEF HandOff
<1>10. CASE Collect
  BY <1>10 DEF Collect
<1>11. CASE Begin
  BY <1>11 DEF Begin
<1>12. CASE Confirm
  BY <1>12 DEF Confirm
<1>13. CASE KeepHold
  BY <1>13 DEF KeepHold
<1>14. CASE ReadVerdict
  BY <1>14 DEF ReadVerdict, Verdict, Record
<1>15. CASE Intend
  <2>1. rec \in Record
    BY <1>15 DEF Intend, RecordTypes, HolderTypes
  <2>2. rec'.gen = rec.gen /\ rec'.kind = rec.kind /\ rec'.stage = rec.stage
    BY <1>15, <2>1, FieldsKept DEF Intend
  <2>3. rec # NoRecord /\ rec' # NoRecord
    BY <1>15, <2>1, RecordKept DEF Intend, Pending, Types, HolderTypes
  <2>4. rec'.launch # None
    BY <1>15, <2>1, FieldsKept DEF Intend, None
  <2>. QED BY <1>15, <2>1, <2>2, <2>3, <2>4 DEF Intend, HeardRight
<1>16. CASE Fire
  <2>1. rec \in Record /\ rec # NoRecord /\ rec.gen \in Gens /\ rec.kind \in Kinds
    BY <1>16, RecordKept DEF Fire
  <2>2. /\ agents'[rec.gen] = 1 /\ \A h \in Gens : h # rec.gen => agents'[h] = agents[h]
        /\ UNCHANGED <<rec, backup, kinds>> /\ at' = "fired" /\ rec.launch = "launching"
    BY <1>16, <2>1 DEF Fire, NoneYet, ReviewTypes
  <2>3. backup # NoRecord => backup.rec.gen \in Gens /\ backup.rec.gen # rec.gen
    BY <2>1, RecordKept DEF Backup, Histories, Apart
  <2>4. kinds[rec.gen] # None
    BY <2>1 DEF Histories, KindsKept, Kinds
  <2>5. NoneYet'
    <3>1. \A g \in Gens : kinds'[g] = None => agents'[g] = 0
      BY <2>2, <2>4 DEF NoneYet
    <3>2. backup' # NoRecord /\ backup'.rec.launch = None => agents'[backup'.rec.gen] = 0
      BY <2>2, <2>3 DEF NoneYet
    <3>. QED BY <3>1, <3>2, <2>2 DEF NoneYet
  <2>6. ReviewedOnce'
    BY <2>1, <2>2 DEF ReviewedOnce
  <2>. QED BY <2>1, <2>2, <2>3, <2>4, <2>5, <2>6
<1>17. CASE Launched
  <2>1. rec \in Record
    BY <1>17 DEF Launched, RecordTypes, HolderTypes
  <2>2. rec'.gen = rec.gen /\ rec'.kind = rec.kind /\ rec'.stage = rec.stage
    BY <1>17, <2>1, FieldsKept DEF Launched
  <2>3. rec # NoRecord /\ rec' # NoRecord
    BY <1>17, <2>1, RecordKept DEF Launched, Pending, Types, HolderTypes
  <2>4. rec'.launch # None
    BY <1>17, <2>1, FieldsKept DEF Launched, None
  <2>. QED BY <1>17, <2>1, <2>2, <2>3, <2>4 DEF Launched
<1>18. CASE Lookup
  BY <1>18 DEF Lookup
<1>19. CASE CheckTimeout
  BY <1>19 DEF CheckTimeout
<1>20. CASE CloseIssue
  BY <1>20 DEF CloseIssue
<1>21. CASE Snapshot
  BY <1>21 DEF Snapshot
<1>22. CASE Retarget
  BY <1>22 DEF Retarget
<1>23. CASE Prune
  BY <1>23 DEF Prune
<1>24. CASE Pruned
  BY <1>24 DEF Pruned
<1>25. CASE Release
  BY <1>25 DEF Release
<1>26. CASE Unhold
  BY <1>26 DEF Unhold
<1>27. CASE Settle
  <2>1. rec \in Record
    BY <1>27 DEF Settle, RecordTypes, HolderTypes
  <2>2. rec'.gen = rec.gen /\ rec'.kind = rec.kind /\ rec'.launch = rec.launch /\ rec'.stage = rec.stage
    BY <1>27, <2>1, FieldsKept DEF Settle
  <2>3. rec # NoRecord /\ rec' # NoRecord
    BY <1>27, <2>1, RecordKept DEF Settle, Pending, Types, HolderTypes
  <2>. QED BY <1>27, <2>1, <2>2, <2>3 DEF Settle
<1>28. CASE Elapse
  <2>1. rec \in Record
    BY <1>28 DEF Elapse, RecordTypes, HolderTypes
  <2>2. rec'.gen = rec.gen /\ rec'.kind = rec.kind /\ rec'.launch = rec.launch /\ rec'.stage = rec.stage
    BY <1>28, <2>1, FieldsKept DEF Elapse
  <2>3. rec # NoRecord /\ rec' # NoRecord
    BY <1>28, <2>1, RecordKept DEF Elapse, Pending, Types, HolderTypes
  <2>. QED BY <1>28, <2>1, <2>2, <2>3 DEF Elapse
<1>29. CASE Requeue
  BY <1>29 DEF Requeue
<1>30. CASE Lose
  BY <1>30 DEF Lose, Backup
<1>31. CASE Restore
  <2>1. backup.rec \in Record /\ backup.rec # NoRecord
    BY <1>31, RecordKept DEF Restore, Backup
  <2>. QED BY <1>31, <2>1 DEF Restore, Backup
<1>32. CASE Stop
  BY <1>32 DEF Stop
<1>33. ASSUME NEW g \in Gens, NEW v \in {"passed", "failed"}, Answer(g, v) PROVE Once'
  BY <1>33 DEF Answer
<1>34. CASE UNCHANGED vars
  BY <1>34 DEF vars
<1>. QED
  BY <1>1, <1>2, <1>3, <1>4, <1>5, <1>6, <1>7, <1>8, <1>9, <1>10, <1>11, <1>12, <1>13, <1>14, <1>15, <1>16, <1>17, <1>18, <1>19, <1>20, <1>21, <1>22, <1>23, <1>24, <1>25, <1>26, <1>27, <1>28, <1>29, <1>30, <1>31, <1>32, <1>33, <1>34
     DEF Next, Complete, Publish, Runner, Others

THEOREM InductiveInvariant == Spec => []IInv
<1>1. Init => IInv
  BY GenPositive DEF Init, IInv, Types, IssueTypes, ReviewTypes, RecordTypes,
     HolderTypes, Histories, KindsKept, ClaimsKept, Apart, Held, PostedIsLatest,
     HeldFirst, HeardRight, HeldUntilPassed, LetsDependentsGo, Once, NoneYet,
     ReviewedOnce, Status, Active, None, Running, Publishing, Kinds
<1>2. IInv /\ [Next]_vars => IInv'
  BY TypesKept, HistoriesKept, PostedKept, HeldFirstKept, HeardKept, PassedKept,
     OnceKept DEF IInv, Held
<1>. QED BY <1>1, <1>2, PTL DEF Spec

(* No Issue that depends on another goes on before the other's completion  *)
(* passed its review and was closed for it.                                *)
THEOREM DependentsAreHeld == Spec => []HeldUntilPassed
<1>1. IInv => HeldUntilPassed
  BY DEF IInv, Held
<1>. QED BY <1>1, InductiveInvariant, PTL

(* No completion gets a second reviewer, however many stops there are.     *)
THEOREM OneReviewer == Spec => []ReviewedOnce
<1>1. IInv => ReviewedOnce
  BY DEF IInv, Once
<1>. QED BY <1>1, InductiveInvariant, PTL
=============================================================================
