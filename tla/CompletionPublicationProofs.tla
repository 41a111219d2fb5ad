-------------------- MODULE CompletionPublicationProofs --------------------
(***************************************************************************)
(* Proofs about CompletionPublication, for every value of its constants.   *)
(* The inductive invariant IInv adds to the properties what they rest on:  *)
(* whoever runs a publication step holds the lock and the reservation, and *)
(* what its step promises about the journal and the comments.              *)
(***************************************************************************)
EXTENDS CompletionPublication, TLAPS

\* Steps inside publish_reserved_completion_locked, after the comment is known to
\* be on the Issue, and all steps that run under the lock.
AfterPost   == {"posted", "observe", "add", "added", "clean", "remove", "removed",
                "handoff"}
BeforeSave  == {"check", "lookup", "post", "recheck", "posted"}
Publishing  == {"hold", "check", "lookup", "post", "recheck"} \cup AfterPost
LockedSteps == Publishing \cup {"escalate"}

\* The ledger's indices agree: the reservation and the receipts are journaled.
LedgerIndexed == reservation \in Journaled \cup {NoId} /\ receipts \subseteq Journaled

\* A process between reservation and handoff holds the lock of a pending record.
LockedOwner ==
  \A p \in Procs : pc[p] \in LockedSteps => lock = p /\ MutationBlocked

\* A process that waits for the lock still has its request and evidence, and the
\* HEAD of a `done` request is one that passed.
EvidencePassed ==
  /\ \A p \in Procs :
       /\ pc[p] \in {"claimed", "unclaimed"} => call[p] # NoCall
       /\ call[p] # NoCall /\ call[p].request.result = "done" => call[p].ci \in passed
  /\ \A c \in Journaled : journal[c].result = "done" => journal[c].head \in passed

\* Only a journaled completion the token policy allowed reaches the Issue.
OnlyAllowedPosted ==
  /\ \A p \in Procs : pc[p] \in Publishing => journal[reservation].decision = "allowed"
  /\ \A c \in Completions : comments[c] > 0 \/ inflight[c] > 0 =>
       c \in Journaled /\ journal[c].decision = "allowed"

\* Up to the save of OUTCOME_POSTED the record is just reserved; after the posting
\* step its comment is there.
StepMatchesStage ==
  \A p \in Procs :
    /\ pc[p] \in BeforeSave => journal[reservation].stage = "reserved"
    /\ pc[p] \in AfterPost => comments[reservation] > 0

\* A generation is a claim, or the completion's own.
OwnGeneration == \A c \in Journaled : journal[c].gen \in Claims \cup {c}

IInv ==
  /\ TypeOK /\ LedgerIndexed /\ PendingOwnsIssue /\ LockedOwner
  /\ EvidencePassed /\ OnlyAllowedPosted /\ StepMatchesStage /\ JournalBacked
  /\ OwnGeneration /\ OneOutcomePerGeneration

\* Without late acceptance: no POST in flight, nothing posted before the POST.
NothingLate ==
  /\ \A c \in Completions : inflight[c] = 0
  /\ \A p \in Procs : pc[p] = "post" => comments[reservation] = 0
-----------------------------------------------------------------------------
(* What the steps do to the state, seen from the invariant *)

USE CloudAssumption, DecisionAssumption, BoundAssumption, DistinctAssumption,
    RecordAssumption

\* The lock holder's steps that touch nothing but labels and its own place.
LabelMove(p) ==
  \/ EnsureHold(p) \/ CheckLabels(p) \/ Lookup(p) \/ Recheck(p) \/ Observe(p)
  \/ AddTarget(p) \/ ReadAdded(p) \/ BeforeRemove(p) \/ Remove(p) \/ ReadRemoved(p)

\* A call that ends without handing off.
CallEnds(p) == EscalateLimit(p) \/ Fail(p)

\* The other writers of the Issue: they change its claim, its labels or its HEAD.
OtherWriter ==
  \/ \E g \in Claims : Claim(g) \/ RestartBlocked(g)
  \/ ReleaseClaim \/ Collect \/ Commit
  \/ \E l \in Labels : EditLabel(l)

\* Next, in the groups the proofs treat alike.
LEMMA NextGroups ==
  Next =>
    \/ \E p \in Procs, r \in Requests : Begin(p, r)
    \/ \E p \in Procs, c \in Completions :
         Reserve(p, c) \/ Resume(p, c) \/ ReserveUnclaimed(p, c)
    \/ \E p \in Procs : \/ ResumeUnclaimed(p) \/ LabelMove(p) \/ CallEnds(p)
                        \/ Post(p) \/ SavePosted(p) \/ Verify(p) \/ HandOff(p)
    \/ OtherWriter
    \/ \E c \in Completions : Arrive(c)
  BY DEF Next, Step, LabelMove, CallEnds, OtherWriter

\* Saving a stage replaces just that field of the reserved record.
LEMMA StageSaved ==
  ASSUME TypeOK, reservation \in Journaled, NEW s \in Stages,
         journal' = [journal EXCEPT ![reservation].stage = s]
  PROVE  /\ journal' \in [Completions -> Records \cup {NoRecord}]
         /\ Journaled' = Journaled
         /\ \A c \in Completions \ {reservation} : journal'[c] = journal[c]
         /\ journal'[reservation] \in Records
         /\ journal'[reservation].gen = journal[reservation].gen
         /\ journal'[reservation].result = journal[reservation].result
         /\ journal'[reservation].head = journal[reservation].head
         /\ journal'[reservation].decision = journal[reservation].decision
         /\ journal'[reservation].stage = s
<1>1. journal[reservation] \in Records
  BY DEF TypeOK, Journaled
<1>2. [journal[reservation] EXCEPT !.stage = s] \in Records
  BY <1>1 DEF Records
<1>3. /\ journal' = [journal EXCEPT ![reservation] = [@ EXCEPT !.stage = s]]
      /\ journal'[reservation] = [journal[reservation] EXCEPT !.stage = s]
  BY <1>1 DEF TypeOK, Journaled
<1>4. \A c \in Completions \ {reservation} : journal'[c] = journal[c]
  BY <1>3 DEF TypeOK
<1>5. Journaled' = Journaled
  BY <1>1, <1>2, <1>3, <1>4 DEF Journaled
<1>6. journal' \in [Completions -> Records \cup {NoRecord}]
  BY <1>2, <1>3 DEF TypeOK
<1>7. /\ journal'[reservation].gen = journal[reservation].gen
      /\ journal'[reservation].result = journal[reservation].result
      /\ journal'[reservation].head = journal[reservation].head
      /\ journal'[reservation].decision = journal[reservation].decision
      /\ journal'[reservation].stage = s
  BY <1>1, <1>3 DEF Records
<1> QED
  BY <1>2, <1>3, <1>4, <1>5, <1>6, <1>7

\* Whoever runs a step under the lock holds a pending reservation, alone.
LEMMA Holder ==
  ASSUME IInv, NEW p \in Procs, pc[p] \in LockedSteps
  PROVE  /\ lock = p /\ reservation \in Journaled /\ reservation \in Completions
         /\ journal[reservation] \in Records
         /\ journal[reservation].stage \in Pending
         /\ reservation \notin receipts
         /\ \A q \in Procs \ {p} : pc[q] \notin LockedSteps
BY
   DEF IInv, LockedOwner, MutationBlocked, LedgerIndexed, Journaled, TypeOK,
       JournalBacked,
       Pending

\* Nobody is inside a locked step while the lock is free.
LEMMA NobodyInside ==
  ASSUME IInv, lock = Free
  PROVE  \A q \in Procs : pc[q] \notin LockedSteps
BY DEF IInv, LockedOwner

\* A resumed record is the reserved one, still pending, and keeps everything but
\* an unknown decision.
LEMMA ResumeEffect ==
  ASSUME IInv, NEW p \in Procs, NEW c \in Completions, Resume(p, c)
  PROVE  /\ c = reservation /\ c \in Journaled /\ c \notin receipts
         /\ journal[c].stage \in Pending /\ MutationBlocked
         /\ journal' \in [Completions -> Records \cup {NoRecord}]
         /\ Journaled' = Journaled
         /\ \A d \in Completions \ {c} : journal'[d] = journal[d]
         /\ journal'[c] \in Records
         /\ journal'[c].gen = journal[c].gen
         /\ journal'[c].result = journal[c].result
         /\ journal'[c].head = journal[c].head
         /\ journal'[c].stage = journal[c].stage
         /\ journal[c].decision # "unknown" => journal'[c].decision = journal[c].decision
         /\ \A d \in Journaled : /\ journal'[d].gen = journal[d].gen
                               /\ journal'[d].result = journal[d].result
                               /\ journal'[d].head = journal[d].head
                               /\ journal'[d].stage = journal[d].stage
         /\ lock = Free /\ AfterSelect(p, c)
         /\ UNCHANGED <<active, ready, spent, reservation, receipts, forge, tree, todo,
                        edits>>
<1>1. c \in Journaled /\ journal[c].gen = active /\ journal[c] \in Records
  BY DEF Resume, OfActive, IInv, TypeOK, Journaled
<1>2. c \notin receipts
  BY <1>1 DEF Resume, Revalidated, Replays
<1>3. journal[c].stage \in Pending
  BY <1>1, <1>2 DEF IInv, JournalBacked, Records, Stages, Pending
<1>4. c = reservation /\ MutationBlocked
  BY <1>1, <1>3 DEF IInv, PendingOwnsIssue, MutationBlocked
<1>5. call[p] \in Calls
  BY DEF Resume, IInv, TypeOK, EvidencePassed
<1>6. RetriedDecision(p, c) \in Decisions \cup {"allowed"}
  BY <1>1, <1>5 DEF RetriedDecision, Calls, Records
<1>7. [journal[c] EXCEPT !.decision = RetriedDecision(p, c)] \in Records
  BY <1>1, <1>6 DEF Records
<1>8. journal'[c] = [journal[c] EXCEPT !.decision = RetriedDecision(p, c)]
  BY <1>1 DEF Resume, IInv, TypeOK
<1>9. \A d \in Completions \ {c} : journal'[d] = journal[d]
  BY DEF Resume, IInv, TypeOK
<1>10. journal' \in [Completions -> Records \cup {NoRecord}]
  BY <1>7 DEF Resume, IInv, TypeOK
<1>11. Journaled' = Journaled
  BY <1>1, <1>7, <1>8, <1>9 DEF Journaled
<1>12. /\ journal'[c] \in Records
       /\ journal'[c].gen = journal[c].gen
       /\ journal'[c].result = journal[c].result
       /\ journal'[c].head = journal[c].head
       /\ journal'[c].stage = journal[c].stage
       /\ journal[c].decision # "unknown" => journal'[c].decision = journal[c].decision
  BY <1>1, <1>7, <1>8 DEF Records, RetriedDecision
<1>13. /\ lock = Free /\ AfterSelect(p, c)
       /\ UNCHANGED <<active, ready, spent, reservation, receipts, forge, tree, todo,
                      edits>>
  BY DEF Resume, Revalidated
<1> QED
  BY <1>1, <1>2, <1>3, <1>4, <1>9, <1>10, <1>11, <1>12, <1>13 DEF Journaled

\* Resuming an unclaimed completion selects the pending reservation as it is.
LEMMA ResumeUnclaimedEffect ==
  ASSUME IInv, NEW p \in Procs, ResumeUnclaimed(p)
  PROVE  /\ reservation \in Completions /\ reservation \in Journaled
         /\ journal'[reservation] \in Records
         /\ journal[reservation].stage \in Pending
         /\ lock = Free /\ AfterSelect(p, reservation)
         /\ UNCHANGED <<active, ready, spent, reservation, receipts, forge, tree, todo,
                        edits, journal>>
BY DEF ResumeUnclaimed, Revalidated, MutationBlocked, IInv, TypeOK, LedgerIndexed,
       Journaled

\* A reservation adds one pending record, for a completion id never used before,
\* only when every earlier one was handed off, and either for the active claim's
\* generation or, on an unclaimed Issue, for its own.
LEMMA ReserveEffect ==
  ASSUME IInv, NEW p \in Procs, NEW c \in Completions,
         Reserve(p, c) \/ ReserveUnclaimed(p, c)
  PROVE  /\ c \notin Journaled /\ Journaled \subseteq receipts /\ lock = Free
         /\ journal' \in [Completions -> Records \cup {NoRecord}]
         /\ Journaled' = Journaled \cup {c}
         /\ \A d \in Completions \ {c} : journal'[d] = journal[d]
         /\ reservation' = c /\ journal'[c] \in Records
         /\ journal'[c].stage = "reserved"
         /\ journal'[c].result = "done" => journal'[c].head \in passed
         /\ \/ /\ active \in Claims /\ journal'[c].gen = active
               /\ \A d \in Journaled : journal[d].gen # active
            \/ active = NoClaim /\ journal'[c].gen = c
         /\ AfterSelect(p, c)
         /\ UNCHANGED <<active, ready, spent, receipts, forge, tree, todo, edits>>
<1> DEFINE claimed == [gen |-> active, result |-> call[p].request.result,
                       head |-> head, decision |-> call[p].decision,
                       stage |-> "reserved"]
           unclaimed == [gen |-> UnclaimedGeneration(c), result |-> "not-needed",
                         head |-> NoHead, decision |-> "allowed",
                         stage |-> "reserved"]
<1>1. ASSUME Reserve(p, c)
      PROVE  /\ active \in Claims /\ claimed \in Records
             /\ claimed.result = "done" => claimed.head \in passed
             /\ \A d \in Journaled : journal[d].gen # active
  <2>1. call[p] \in Calls /\ active \in Claims
    BY <1>1 DEF Reserve, Revalidated, IInv, TypeOK, EvidencePassed
  <2>2. /\ call[p].request.result \in Results
        /\ call[p].decision \in Decisions \cup {"allowed"}
    BY <2>1 DEF Calls, Requests
  <2>3. claimed \in Records
    BY <2>1, <2>2 DEF Records, Generations, Stages, IInv, TypeOK
  <2>4. call[p].request.result = "done" => head \in passed
    BY <1>1, <2>1 DEF Reserve, HeadValidated, IInv, EvidencePassed
  <2> QED
    BY <1>1, <2>1, <2>3, <2>4 DEF Reserve, OfActive
<1>2. unclaimed \in Records
  BY DEF Records, Generations, Results, Stages, UnclaimedGeneration
<1>3. ASSUME NEW record \in Records, ReserveRecord(p, c, record)
      PROVE  /\ c \notin Journaled /\ Journaled \subseteq receipts
             /\ journal' \in [Completions -> Records \cup {NoRecord}]
             /\ Journaled' = Journaled \cup {c}
             /\ \A d \in Completions \ {c} : journal'[d] = journal[d]
             /\ journal'[c] = record /\ reservation' = c
             /\ AfterSelect(p, c)
             /\ UNCHANGED <<active, ready, spent, receipts, forge, tree, todo, edits>>
  BY <1>3 DEF ReserveRecord, PreviousHandedOff, IInv, TypeOK, Journaled
<1>4. CASE Reserve(p, c)
  <2>1. ReserveRecord(p, c, claimed) /\ lock = Free
    BY <1>4 DEF Reserve, Revalidated
  <2>2. claimed.stage = "reserved" /\ claimed.gen = active
    OBVIOUS
  <2> QED
    BY <1>1, <1>3, <1>4, <2>1, <2>2
<1>5. CASE ReserveUnclaimed(p, c)
  <2>1. ReserveRecord(p, c, unclaimed) /\ lock = Free /\ active = NoClaim
    BY <1>5 DEF ReserveUnclaimed, Revalidated
  <2>2. /\ unclaimed.stage = "reserved" /\ unclaimed.gen = c
        /\ unclaimed.result = "not-needed"
    BY DEF UnclaimedGeneration
  <2> QED
    BY <1>2, <1>3, <2>1, <2>2
<1> QED
  BY <1>4, <1>5

\* The call of a new request is well-typed.
LEMMA NewCallTyped ==
  ASSUME IInv, NEW p \in Procs, NEW r \in Requests, Begin(p, r)
  PROVE  call'[p] \in Calls /\ call'[p] # NoCall
BY DEF Begin, IInv, TypeOK, Calls, Requests

\* Where the selected record goes.
LEMMA SelectEffect ==
  ASSUME IInv, NEW p \in Procs, NEW c \in Completions, journal'[c] \in Records,
         AfterSelect(p, c)
  PROVE  \E s \in {"idle", "escalate", "hold", "check", "observe"} :
           /\ pc' = [pc EXCEPT ![p] = s]
           /\ lock' = IF s = "idle" THEN Free ELSE p
           /\ s \in Publishing => journal'[c].decision = "allowed"
           /\ s = "observe" => journal'[c].stage # "reserved"
           /\ s = "check" => journal'[c].stage = "reserved"
           /\ call' = [call EXCEPT ![p] = NoCall]
BY DEF AfterSelect, Goto, ResumeAt, Records, Publishing, AfterPost

\* A non-empty set of primary labels has a first one.
LEMMA FirstInSet ==
  ASSUME NEW s \in SUBSET Primary, s # {}
  PROVE  First(s) \in s
<1>1. Rank["in-progress"] = 1 /\ Rank["queued"] = 2 /\ Rank["blocked"] = 3
  BY DEF Rank, Primary
<1>2. \E l \in s : \A m \in s : Rank[l] <= Rank[m]
  <2>1. CASE "in-progress" \in s
    BY <1>1, <2>1 DEF Primary
  <2>2. CASE "in-progress" \notin s /\ "queued" \in s
    BY <1>1, <2>2 DEF Primary
  <2>3. CASE s = {"blocked"}
    BY <1>1, <2>3
  <2> QED
    BY <2>1, <2>2, <2>3 DEF Primary
<1> QED
  BY <1>2 DEF First

\* What a label move leaves alone, and where it leads.
LEMMA LabelMoveEffect ==
  ASSUME IInv, NEW p \in Procs, LabelMove(p)
  PROVE  /\ UNCHANGED <<ledger, comments, inflight, tree, lock, call, edits>>
         /\ lock = p /\ pc[p] \in Publishing
         /\ labels' \subseteq Labels /\ todo' \subseteq Primary
         /\ \E s \in Publishing :
              /\ pc' = [pc EXCEPT ![p] = s]
              /\ s \in AfterPost => comments[reservation] > 0
              /\ s \in BeforeSave => journal[reservation].stage = "reserved"
              /\ s = "post" => comments[reservation] = 0
<1> USE DEF ledger, tree, At, Goto, Publishing, AfterPost, BeforeSave
<1>1. labels \subseteq Labels /\ todo \subseteq Primary
  BY DEF IInv, TypeOK
<1>2. \A c \in Completions : \A i : Stale(c, i) \subseteq Primary
  BY DEF Stale
<1>3. pc[p] \in LockedSteps => reservation \in Completions /\ Target(reservation) \in Labels
  BY
     DEF IInv, LockedOwner, MutationBlocked, Pending, LedgerIndexed, Journaled,
         TypeOK,
         Records, Results, Target, Labels, Primary, Protected
<1>4. /\ pc[p] \in AfterPost => comments[reservation] > 0
      /\ pc[p] \in BeforeSave => journal[reservation].stage = "reserved"
  BY DEF IInv, StepMatchesStage
<1>5. CASE EnsureHold(p)
  <2>1. journal[reservation].stage # "reserved" => comments[reservation] > 0
    BY <1>5 DEF EnsureHold, IInv, LockedOwner, LockedSteps, MutationBlocked,
                LedgerIndexed, JournalBacked
  <2>2. labels' \subseteq Labels
    BY <1>1, <1>5 DEF EnsureHold, Labels
  <2>3. CASE journal[reservation].stage = "reserved"
    BY <1>1, <1>5, <2>2, <2>3 DEF EnsureHold, ResumeAt
  <2>4. CASE journal[reservation].stage # "reserved"
    BY <1>1, <1>5, <2>1, <2>2, <2>4 DEF EnsureHold, ResumeAt
  <2> QED
    BY <2>3, <2>4
<1>6. CASE CheckLabels(p)
  BY <1>1, <1>4, <1>6 DEF CheckLabels, forge
<1>7. CASE Lookup(p)
  <2>1. comments[reservation] \in Nat
    BY <1>3, <1>7 DEF Lookup, LockedSteps, IInv, TypeOK
  <2>2. CASE comments[reservation] > 0
    <3>1. pc' = [pc EXCEPT ![p] = "posted"] /\ pc[p] = "lookup"
      BY <1>7, <2>2 DEF Lookup
    <3>2. journal[reservation].stage = "reserved"
      BY <1>4, <3>1
    <3>3. lock = p /\ UNCHANGED <<ledger, forge, tree, lock, call, todo, edits>>
      BY <1>7 DEF Lookup
    <3> QED
      BY <1>1, <2>2, <3>1, <3>2, <3>3 DEF forge
  <2>3. CASE comments[reservation] = 0
    BY <1>1, <1>4, <1>7, <2>3 DEF Lookup, forge
  <2> QED
    BY <2>1, <2>2, <2>3
<1>8. CASE Recheck(p)
  BY <1>1, <1>4, <1>8 DEF Recheck, forge
<1>9. CASE Observe(p)
  BY <1>1, <1>2, <1>3, <1>4, <1>9 DEF Observe, forge, LockedSteps
<1>10. CASE AddTarget(p)
  BY <1>1, <1>3, <1>4, <1>10 DEF AddTarget, LockedSteps
<1>11. CASE ReadAdded(p)
  BY <1>1, <1>2, <1>3, <1>4, <1>11 DEF ReadAdded, forge, LockedSteps
<1>12. CASE BeforeRemove(p)
  <2>1. First(todo) \in Primary
    BY <1>1, <1>12, FirstInSet DEF BeforeRemove
  <2>2. Stale(reservation, Rank[First(todo)]) \subseteq Primary
    BY DEF Stale
  <2>3. todo' \subseteq Primary
    BY <1>12, <2>1, <2>2 DEF BeforeRemove
  <2> QED
    BY <1>1, <1>4, <1>12, <2>3 DEF BeforeRemove, forge
<1>13. CASE Remove(p)
  BY <1>1, <1>4, <1>13 DEF Remove
<1>14. CASE ReadRemoved(p)
  BY <1>1, <1>2, <1>3, <1>4, <1>14 DEF ReadRemoved, forge, LockedSteps
<1> QED
  BY <1>5, <1>6, <1>7, <1>8, <1>9, <1>10, <1>11, <1>12, <1>13, <1>14 DEF LabelMove

\* What the other writers leave alone, and what they may do to the claim.
LEMMA OtherWriterEffect ==
  ASSUME IInv, OtherWriter
  PROVE  /\ UNCHANGED <<journal, reservation, receipts, comments, inflight, passed, lock,
                        pc, call, todo>>
         /\ active' \in Claims \cup {NoClaim} /\ ready' \in BOOLEAN
         /\ spent' \subseteq Claims /\ labels' \subseteq Labels
         /\ head' \in Heads /\ edits' \in Nat
         /\ UNCHANGED active
            \/ \A c \in Journaled : journal[c].stage \notin Pending
<1>1. ~MutationBlocked => \A c \in Journaled : journal[c].stage \notin Pending
  BY DEF IInv, PendingOwnsIssue, MutationBlocked, Journaled
<1>2. HandoffMatches => ~MutationBlocked
  BY DEF HandoffMatches, MutationBlocked, Pending
<1>3. ASSUME NEW g \in Claims, Claim(g) \/ RestartBlocked(g)
      PROVE  labels' \subseteq Labels
  BY <1>3 DEF Claim, RestartBlocked, forge, IInv, TypeOK, Labels, Primary
<1>4. ReleaseClaim \/ Collect \/ Commit => labels' \subseteq Labels
  BY DEF ReleaseClaim, Collect, Commit, forge, IInv, TypeOK, Labels, Primary
<1>5. ASSUME NEW l \in Labels, EditLabel(l)
      PROVE  labels' \subseteq Labels
  BY <1>5 DEF EditLabel, IInv, TypeOK
<1>6. UNCHANGED active \/ \A c \in Journaled : journal[c].stage \notin Pending
  BY <1>1, <1>2
     DEF OtherWriter, Claim, RestartBlocked, ReleaseClaim, Collect, Commit, EditLabel,
         ledger
<1>7. labels' \subseteq Labels
  BY <1>3, <1>4, <1>5 DEF OtherWriter
<1>8. CASE \E g \in Claims : Claim(g) \/ RestartBlocked(g)
  BY <1>6, <1>7, <1>8 DEF Claim, RestartBlocked, forge, tree, IInv, TypeOK
<1>9. CASE ReleaseClaim \/ Collect
  BY <1>6, <1>7, <1>9 DEF ReleaseClaim, Collect, forge, tree, IInv, TypeOK
<1>10. CASE Commit \/ \E l \in Labels : EditLabel(l)
  BY <1>6, <1>7, <1>10 DEF Commit, EditLabel, ledger, forge, tree, IInv, TypeOK
<1> QED
  BY <1>8, <1>9, <1>10 DEF OtherWriter

-----------------------------------------------------------------------------
(* The inductive steps, one part of IInv at a time *)

\* The indices of the ledger stay consistent.
LEMMA LedgerIndexedStep ==
  IInv /\ [Next]_vars => LedgerIndexed'
<1> SUFFICES ASSUME IInv, [Next]_vars PROVE LedgerIndexed'
  OBVIOUS
<1> USE DEF LedgerIndexed
<1>1. ASSUME NEW p \in Procs, NEW r \in Requests, Begin(p, r)
      PROVE  LedgerIndexed'
  BY <1>1 DEF Begin, ledger, Journaled, IInv
<1>2. ASSUME NEW p \in Procs, NEW c \in Completions,
             Reserve(p, c) \/ ReserveUnclaimed(p, c)
      PROVE  LedgerIndexed'
  BY <1>2, ReserveEffect DEF IInv
<1>3. ASSUME NEW p \in Procs, NEW c \in Completions, Resume(p, c)
      PROVE  LedgerIndexed'
  BY <1>3, ResumeEffect DEF IInv
<1>4. ASSUME NEW p \in Procs, ResumeUnclaimed(p)
      PROVE  LedgerIndexed'
  BY <1>4, ResumeUnclaimedEffect DEF Journaled, IInv
<1>5. ASSUME NEW p \in Procs, LabelMove(p)
      PROVE  LedgerIndexed'
  BY <1>5, LabelMoveEffect DEF ledger, Journaled, IInv
<1>6. ASSUME NEW p \in Procs, CallEnds(p)
      PROVE  LedgerIndexed'
  BY <1>6 DEF CallEnds, EscalateLimit, Fail, ledger, Journaled, IInv
<1>7. ASSUME NEW p \in Procs, Post(p)
      PROVE  LedgerIndexed'
  BY <1>7 DEF Post, ledger, Journaled, IInv
<1>8. ASSUME NEW p \in Procs, SavePosted(p)
      PROVE  LedgerIndexed'
  BY <1>8, Holder, StageSaved
     DEF SavePosted, At, Stages, LockedSteps, Publishing, AfterPost, IInv
<1>9. ASSUME NEW p \in Procs, Verify(p)
      PROVE  LedgerIndexed'
  BY <1>9, Holder, StageSaved
     DEF Verify, At, Stages, LockedSteps, Publishing, AfterPost, IInv
<1>10. ASSUME NEW p \in Procs, HandOff(p)
      PROVE  LedgerIndexed'
  BY <1>10, Holder, StageSaved
     DEF HandOff, At, Stages, LockedSteps, Publishing, AfterPost, IInv
<1>11. CASE OtherWriter
  BY <1>11, OtherWriterEffect DEF Journaled, IInv
<1>12. ASSUME NEW c \in Completions, Arrive(c)
      PROVE  LedgerIndexed'
  BY <1>12 DEF Arrive, ledger, Journaled, IInv
<1>13. CASE UNCHANGED vars
  BY <1>13 DEF vars, ledger, Journaled, IInv
<1> QED
  BY NextGroups, <1>1, <1>2, <1>3, <1>4, <1>5, <1>6, <1>7, <1>8, <1>9, <1>10,
     <1>11, <1>12, <1>13

\* A pending completion keeps its reservation and its claim.
LEMMA PendingOwnsIssueStep ==
  IInv /\ [Next]_vars => PendingOwnsIssue'
<1> SUFFICES ASSUME IInv, [Next]_vars PROVE PendingOwnsIssue'
  OBVIOUS
<1> USE DEF PendingOwnsIssue, Pending
<1>1. ASSUME NEW p \in Procs, NEW r \in Requests, Begin(p, r)
      PROVE  PendingOwnsIssue'
  BY <1>1 DEF Begin, ledger, forge, Journaled, IInv
<1>2. ASSUME NEW p \in Procs, NEW c \in Completions,
             Reserve(p, c) \/ ReserveUnclaimed(p, c)
      PROVE  PendingOwnsIssue'
  BY <1>2, ReserveEffect DEF IInv, JournalBacked, LedgerIndexed, TypeOK
<1>3. ASSUME NEW p \in Procs, NEW c \in Completions, Resume(p, c)
      PROVE  PendingOwnsIssue'
  BY <1>3, ResumeEffect DEF IInv, Journaled
<1>4. ASSUME NEW p \in Procs, ResumeUnclaimed(p)
      PROVE  PendingOwnsIssue'
  BY <1>4, ResumeUnclaimedEffect DEF Journaled, IInv
<1>5. ASSUME NEW p \in Procs, LabelMove(p)
      PROVE  PendingOwnsIssue'
  BY <1>5, LabelMoveEffect DEF ledger, Journaled, IInv
<1>6. ASSUME NEW p \in Procs, CallEnds(p)
      PROVE  PendingOwnsIssue'
  BY <1>6 DEF CallEnds, EscalateLimit, Fail, ledger, forge, tree, Journaled, IInv
<1>7. ASSUME NEW p \in Procs, Post(p)
      PROVE  PendingOwnsIssue'
  BY <1>7 DEF Post, ledger, Journaled, IInv
<1>8. ASSUME NEW p \in Procs, SavePosted(p)
      PROVE  PendingOwnsIssue'
  BY <1>8, Holder, StageSaved
     DEF SavePosted, At, Stages, LockedSteps, Publishing, AfterPost, IInv
<1>9. ASSUME NEW p \in Procs, Verify(p)
      PROVE  PendingOwnsIssue'
  BY <1>9, Holder, StageSaved
     DEF Verify, At, Stages, LockedSteps, Publishing, AfterPost, IInv
<1>10. ASSUME NEW p \in Procs, HandOff(p)
      PROVE  PendingOwnsIssue'
  BY <1>10, Holder, StageSaved
     DEF HandOff, At, Stages, LockedSteps, Publishing, AfterPost, IInv
<1>11. CASE OtherWriter
  BY <1>11, OtherWriterEffect DEF Journaled, IInv
<1>12. ASSUME NEW c \in Completions, Arrive(c)
      PROVE  PendingOwnsIssue'
  BY <1>12 DEF Arrive, ledger, Journaled, IInv
<1>13. CASE UNCHANGED vars
  BY <1>13 DEF vars, ledger, forge, tree, Journaled, IInv
<1> QED
  BY NextGroups, <1>1, <1>2, <1>3, <1>4, <1>5, <1>6, <1>7, <1>8, <1>9, <1>10,
     <1>11, <1>12, <1>13

\* The lock holder keeps its pending reservation.
LEMMA LockedOwnerStep ==
  IInv /\ [Next]_vars => LockedOwner'
<1> SUFFICES ASSUME IInv, [Next]_vars PROVE LockedOwner'
  OBVIOUS
<1> USE DEF LockedOwner, MutationBlocked, Pending, LockedSteps, Publishing, AfterPost, TypeOK
<1>1. ASSUME NEW p \in Procs, NEW r \in Requests, Begin(p, r)
      PROVE  LockedOwner'
  BY <1>1 DEF Begin, ledger, forge, Journaled, IInv, Goto
<1>2. ASSUME NEW p \in Procs, NEW c \in Completions,
             Reserve(p, c) \/ ReserveUnclaimed(p, c)
      PROVE  LockedOwner'
  BY <1>2, ReserveEffect, SelectEffect, NobodyInside DEF IInv
<1>3. ASSUME NEW p \in Procs, NEW c \in Completions, Resume(p, c)
      PROVE  LockedOwner'
  BY <1>3, ResumeEffect, SelectEffect, NobodyInside DEF IInv
<1>4. ASSUME NEW p \in Procs, ResumeUnclaimed(p)
      PROVE  LockedOwner'
  BY <1>4, ResumeUnclaimedEffect, SelectEffect, NobodyInside DEF Journaled, IInv
<1>5. ASSUME NEW p \in Procs, LabelMove(p)
      PROVE  LockedOwner'
  BY <1>5, LabelMoveEffect DEF ledger, Journaled, IInv
<1>6. ASSUME NEW p \in Procs, CallEnds(p)
      PROVE  LockedOwner'
  BY <1>6
     DEF CallEnds, EscalateLimit, Fail, ledger, forge, tree, Journaled, IInv, At,
         Goto, Release
<1>7. ASSUME NEW p \in Procs, Post(p)
      PROVE  LockedOwner'
  BY <1>7 DEF Post, ledger, Journaled, IInv, At, Goto
<1>8. ASSUME NEW p \in Procs, SavePosted(p)
      PROVE  LockedOwner'
  BY <1>8, Holder, StageSaved
     DEF SavePosted, At, Stages, LockedSteps, Publishing, AfterPost, IInv, Goto
<1>9. ASSUME NEW p \in Procs, Verify(p)
      PROVE  LockedOwner'
  BY <1>9, Holder, StageSaved
     DEF Verify, At, Stages, LockedSteps, Publishing, AfterPost, IInv, Goto
<1>10. ASSUME NEW p \in Procs, HandOff(p)
      PROVE  LockedOwner'
  BY <1>10, Holder, StageSaved
     DEF HandOff, At, Stages, LockedSteps, Publishing, AfterPost, IInv, Goto,
         Release
<1>11. CASE OtherWriter
  BY <1>11, OtherWriterEffect DEF Journaled, IInv
<1>12. ASSUME NEW c \in Completions, Arrive(c)
      PROVE  LockedOwner'
  BY <1>12 DEF Arrive, ledger, Journaled, IInv
<1>13. CASE UNCHANGED vars
  BY <1>13 DEF vars, ledger, forge, tree, Journaled, IInv
<1> QED
  BY NextGroups, <1>1, <1>2, <1>3, <1>4, <1>5, <1>6, <1>7, <1>8, <1>9, <1>10,
     <1>11, <1>12, <1>13

\* Evidence is about a HEAD that passed.
LEMMA EvidencePassedStep ==
  IInv /\ [Next]_vars => EvidencePassed'
<1> SUFFICES ASSUME IInv, [Next]_vars PROVE EvidencePassed'
  OBVIOUS
<1> USE DEF EvidencePassed, TypeOK
<1>1. ASSUME NEW p \in Procs, NEW r \in Requests, Begin(p, r)
      PROVE  EvidencePassed'
  <2>1. /\ passed \subseteq passed' /\ UNCHANGED journal
        /\ \A q \in Procs \ {p} : call'[q] = call[q] /\ pc'[q] = pc[q]
    BY <1>1 DEF Begin, ledger, Goto, IInv
  <2>2. call'[p] # NoCall
    BY <1>1, NewCallTyped
  <2>3. call'[p].request.result = "done" => call'[p].ci \in passed'
    BY <1>1 DEF Begin, IInv
  <2> QED
    BY <2>1, <2>2, <2>3 DEF Journaled, IInv
<1>2. ASSUME NEW p \in Procs, NEW c \in Completions,
             Reserve(p, c) \/ ReserveUnclaimed(p, c)
      PROVE  EvidencePassed'
  BY <1>2, ReserveEffect, SelectEffect, NobodyInside DEF IInv, tree
<1>3. ASSUME NEW p \in Procs, NEW c \in Completions, Resume(p, c)
      PROVE  EvidencePassed'
  <2>1. passed' = passed /\ Journaled' = Journaled
    BY <1>3, ResumeEffect DEF tree
  <2>2. \A q \in Procs \ {p} : call'[q] = call[q] /\ pc'[q] = pc[q]
    BY <1>3, ResumeEffect, SelectEffect DEF IInv
  <2>3. call'[p] = NoCall /\ pc'[p] \notin {"claimed", "unclaimed"}
    BY <1>3, ResumeEffect, SelectEffect DEF IInv
  <2>4. \A d \in Journaled : /\ journal'[d].result = journal[d].result
                              /\ journal'[d].head = journal[d].head
    BY <1>3, ResumeEffect
  <2> QED
    BY <2>1, <2>2, <2>3, <2>4 DEF IInv
<1>4. ASSUME NEW p \in Procs, ResumeUnclaimed(p)
      PROVE  EvidencePassed'
  BY <1>4, ResumeUnclaimedEffect, SelectEffect, NobodyInside
     DEF Journaled, IInv, tree
<1>5. ASSUME NEW p \in Procs, LabelMove(p)
      PROVE  EvidencePassed'
  BY <1>5, LabelMoveEffect
     DEF ledger, Journaled, IInv, tree, LockedSteps, Publishing, AfterPost
<1>6. ASSUME NEW p \in Procs, CallEnds(p)
      PROVE  EvidencePassed'
  BY <1>6
     DEF CallEnds, EscalateLimit, Fail, ledger, forge, tree, Journaled, IInv, At,
         Goto, Release
<1>7. ASSUME NEW p \in Procs, Post(p)
      PROVE  EvidencePassed'
  BY <1>7 DEF Post, ledger, Journaled, IInv, At, Goto, tree
<1>8. ASSUME NEW p \in Procs, SavePosted(p)
      PROVE  EvidencePassed'
  BY <1>8, Holder, StageSaved
     DEF SavePosted, At, Stages, LockedSteps, Publishing, AfterPost, IInv, Goto,
         tree
<1>9. ASSUME NEW p \in Procs, Verify(p)
      PROVE  EvidencePassed'
  BY <1>9, Holder, StageSaved
     DEF Verify, At, Stages, LockedSteps, Publishing, AfterPost, IInv, Goto, tree
<1>10. ASSUME NEW p \in Procs, HandOff(p)
      PROVE  EvidencePassed'
  BY <1>10, Holder, StageSaved
     DEF HandOff, At, Stages, LockedSteps, Publishing, AfterPost, IInv, Goto,
         tree, Release
<1>11. CASE OtherWriter
  BY <1>11, OtherWriterEffect DEF Journaled, IInv
<1>12. ASSUME NEW c \in Completions, Arrive(c)
      PROVE  EvidencePassed'
  BY <1>12 DEF Arrive, ledger, Journaled, IInv, tree
<1>13. CASE UNCHANGED vars
  BY <1>13 DEF vars, ledger, forge, tree, Journaled, IInv
<1> QED
  BY NextGroups, <1>1, <1>2, <1>3, <1>4, <1>5, <1>6, <1>7, <1>8, <1>9, <1>10,
     <1>11, <1>12, <1>13

\* Only allowed completions are posted.
LEMMA OnlyAllowedPostedStep ==
  IInv /\ [Next]_vars => OnlyAllowedPosted'
<1> SUFFICES ASSUME IInv, [Next]_vars PROVE OnlyAllowedPosted'
  OBVIOUS
<1> USE DEF OnlyAllowedPosted, TypeOK, LockedSteps, Publishing, AfterPost
<1>1. ASSUME NEW p \in Procs, NEW r \in Requests, Begin(p, r)
      PROVE  OnlyAllowedPosted'
  BY <1>1 DEF Begin, ledger, forge, Journaled, IInv, Goto
<1>2. ASSUME NEW p \in Procs, NEW c \in Completions,
             Reserve(p, c) \/ ReserveUnclaimed(p, c)
      PROVE  OnlyAllowedPosted'
  BY <1>2, ReserveEffect, SelectEffect, NobodyInside DEF IInv, forge
<1>3. ASSUME NEW p \in Procs, NEW c \in Completions, Resume(p, c)
      PROVE  OnlyAllowedPosted'
  BY <1>3, ResumeEffect, SelectEffect, NobodyInside DEF IInv, forge
<1>4. ASSUME NEW p \in Procs, ResumeUnclaimed(p)
      PROVE  OnlyAllowedPosted'
  BY <1>4, ResumeUnclaimedEffect, SelectEffect, NobodyInside
     DEF Journaled, IInv, forge
<1>5. ASSUME NEW p \in Procs, LabelMove(p)
      PROVE  OnlyAllowedPosted'
  BY <1>5, LabelMoveEffect DEF ledger, Journaled, IInv
<1>6. ASSUME NEW p \in Procs, CallEnds(p)
      PROVE  OnlyAllowedPosted'
  BY <1>6
     DEF CallEnds, EscalateLimit, Fail, ledger, forge, tree, Journaled, IInv, At,
         Goto, Release
<1>7. ASSUME NEW p \in Procs, Post(p)
      PROVE  OnlyAllowedPosted'
  BY <1>7, Holder DEF Post, At, Goto, ledger, Journaled, IInv
<1>8. ASSUME NEW p \in Procs, SavePosted(p)
      PROVE  OnlyAllowedPosted'
  BY <1>8, Holder, StageSaved
     DEF SavePosted, At, Stages, LockedSteps, Publishing, AfterPost, IInv, Goto,
         forge
<1>9. ASSUME NEW p \in Procs, Verify(p)
      PROVE  OnlyAllowedPosted'
  BY <1>9, Holder, StageSaved
     DEF Verify, At, Stages, LockedSteps, Publishing, AfterPost, IInv, Goto, forge
<1>10. ASSUME NEW p \in Procs, HandOff(p)
      PROVE  OnlyAllowedPosted'
  BY <1>10, Holder, StageSaved
     DEF HandOff, At, Stages, LockedSteps, Publishing, AfterPost, IInv, Goto,
         forge, Release
<1>11. CASE OtherWriter
  BY <1>11, OtherWriterEffect DEF Journaled, IInv
<1>12. ASSUME NEW c \in Completions, Arrive(c)
      PROVE  OnlyAllowedPosted'
  BY <1>12 DEF Arrive, ledger, Journaled, IInv, forge
<1>13. CASE UNCHANGED vars
  BY <1>13 DEF vars, ledger, forge, tree, Journaled, IInv
<1> QED
  BY NextGroups, <1>1, <1>2, <1>3, <1>4, <1>5, <1>6, <1>7, <1>8, <1>9, <1>10,
     <1>11, <1>12, <1>13

\* Steps, journal stage and comments stay in step.
LEMMA StepMatchesStageStep ==
  IInv /\ [Next]_vars => StepMatchesStage'
<1> SUFFICES ASSUME IInv, [Next]_vars PROVE StepMatchesStage'
  OBVIOUS
<1> USE DEF StepMatchesStage, TypeOK, BeforeSave, LockedSteps, Publishing, AfterPost
<1>1. ASSUME NEW p \in Procs, NEW r \in Requests, Begin(p, r)
      PROVE  StepMatchesStage'
  BY <1>1 DEF Begin, ledger, forge, Journaled, IInv, Goto
<1>2. ASSUME NEW p \in Procs, NEW c \in Completions,
             Reserve(p, c) \/ ReserveUnclaimed(p, c)
      PROVE  StepMatchesStage'
  BY <1>2, ReserveEffect, SelectEffect, NobodyInside DEF IInv, forge
<1>3. ASSUME NEW p \in Procs, NEW c \in Completions, Resume(p, c)
      PROVE  StepMatchesStage'
  BY <1>3, ResumeEffect, SelectEffect, NobodyInside DEF IInv, forge, JournalBacked
<1>4. ASSUME NEW p \in Procs, ResumeUnclaimed(p)
      PROVE  StepMatchesStage'
  BY <1>4, ResumeUnclaimedEffect, SelectEffect, NobodyInside
     DEF Journaled, IInv, forge, JournalBacked
<1>5. ASSUME NEW p \in Procs, LabelMove(p)
      PROVE  StepMatchesStage'
  BY <1>5, LabelMoveEffect DEF ledger, Journaled, IInv
<1>6. ASSUME NEW p \in Procs, CallEnds(p)
      PROVE  StepMatchesStage'
  BY <1>6
     DEF CallEnds, EscalateLimit, Fail, ledger, forge, tree, Journaled, IInv, At,
         Goto, Release
<1>7. ASSUME NEW p \in Procs, Post(p)
      PROVE  StepMatchesStage'
  BY <1>7, Holder DEF Post, At, Goto, ledger, Journaled, IInv
<1>8. ASSUME NEW p \in Procs, SavePosted(p)
      PROVE  StepMatchesStage'
  BY <1>8, Holder, StageSaved
     DEF SavePosted, At, Stages, LockedSteps, Publishing, AfterPost, IInv, Goto,
         forge
<1>9. ASSUME NEW p \in Procs, Verify(p)
      PROVE  StepMatchesStage'
  BY <1>9, Holder, StageSaved
     DEF Verify, At, Stages, LockedSteps, Publishing, AfterPost, IInv, Goto, forge
<1>10. ASSUME NEW p \in Procs, HandOff(p)
      PROVE  StepMatchesStage'
  BY <1>10, Holder, StageSaved
     DEF HandOff, At, Stages, LockedSteps, Publishing, AfterPost, IInv, Goto,
         forge, Release
<1>11. CASE OtherWriter
  BY <1>11, OtherWriterEffect DEF Journaled, IInv
<1>12. ASSUME NEW c \in Completions, Arrive(c)
      PROVE  StepMatchesStage'
  BY <1>12 DEF Arrive, ledger, Journaled, IInv, forge
<1>13. CASE UNCHANGED vars
  BY <1>13 DEF vars, ledger, forge, tree, Journaled, IInv
<1> QED
  BY NextGroups, <1>1, <1>2, <1>3, <1>4, <1>5, <1>6, <1>7, <1>8, <1>9, <1>10,
     <1>11, <1>12, <1>13

\* The journal stays backed by the comments and the receipts.
LEMMA JournalBackedStep ==
  IInv /\ [Next]_vars => JournalBacked'
<1> SUFFICES ASSUME IInv, [Next]_vars PROVE JournalBacked'
  OBVIOUS
<1> USE DEF JournalBacked
<1>1. ASSUME NEW p \in Procs, NEW r \in Requests, Begin(p, r)
      PROVE  JournalBacked'
  BY <1>1 DEF Begin, ledger, forge, Journaled, IInv
<1>2. ASSUME NEW p \in Procs, NEW c \in Completions,
             Reserve(p, c) \/ ReserveUnclaimed(p, c)
      PROVE  JournalBacked'
  BY <1>2, ReserveEffect DEF IInv, LedgerIndexed, Journaled, forge
<1>3. ASSUME NEW p \in Procs, NEW c \in Completions, Resume(p, c)
      PROVE  JournalBacked'
  BY <1>3, ResumeEffect DEF IInv, forge
<1>4. ASSUME NEW p \in Procs, ResumeUnclaimed(p)
      PROVE  JournalBacked'
  BY <1>4, ResumeUnclaimedEffect DEF Journaled, IInv, forge
<1>5. ASSUME NEW p \in Procs, LabelMove(p)
      PROVE  JournalBacked'
  BY <1>5, LabelMoveEffect DEF ledger, Journaled, IInv
<1>6. ASSUME NEW p \in Procs, CallEnds(p)
      PROVE  JournalBacked'
  BY <1>6 DEF CallEnds, EscalateLimit, Fail, ledger, forge, tree, Journaled, IInv
<1>7. ASSUME NEW p \in Procs, Post(p)
      PROVE  JournalBacked'
  BY <1>7 DEF Post, ledger, Journaled, IInv, TypeOK
<1>8. ASSUME NEW p \in Procs, SavePosted(p)
      PROVE  JournalBacked'
  BY <1>8, Holder, StageSaved
     DEF SavePosted, At, Stages, LockedSteps, Publishing, AfterPost, IInv,
         StepMatchesStage, Pending, forge
<1>9. ASSUME NEW p \in Procs, Verify(p)
      PROVE  JournalBacked'
  BY <1>9, Holder, StageSaved
     DEF Verify, At, Stages, LockedSteps, Publishing, AfterPost, IInv,
         StepMatchesStage, Pending, forge
<1>10. ASSUME NEW p \in Procs, HandOff(p)
      PROVE  JournalBacked'
  BY <1>10, Holder, StageSaved
     DEF HandOff, At, Stages, LockedSteps, Publishing, AfterPost, IInv,
         StepMatchesStage, Pending, forge
<1>11. CASE OtherWriter
  BY <1>11, OtherWriterEffect DEF Journaled, IInv
<1>12. ASSUME NEW c \in Completions, Arrive(c)
      PROVE  JournalBacked'
  BY <1>12 DEF Arrive, ledger, Journaled, IInv, TypeOK, forge
<1>13. CASE UNCHANGED vars
  BY <1>13 DEF vars, ledger, forge, tree, Journaled, IInv
<1> QED
  BY NextGroups, <1>1, <1>2, <1>3, <1>4, <1>5, <1>6, <1>7, <1>8, <1>9, <1>10,
     <1>11, <1>12, <1>13

\* Every generation is a claim or the completion's own.
LEMMA OwnGenerationStep ==
  IInv /\ [Next]_vars => OwnGeneration'
<1> SUFFICES ASSUME IInv, [Next]_vars PROVE OwnGeneration'
  OBVIOUS
<1> USE DEF OwnGeneration
<1>1. ASSUME NEW p \in Procs, NEW r \in Requests, Begin(p, r)
      PROVE  OwnGeneration'
  BY <1>1 DEF Begin, ledger, forge, Journaled, IInv
<1>2. ASSUME NEW p \in Procs, NEW c \in Completions,
             Reserve(p, c) \/ ReserveUnclaimed(p, c)
      PROVE  OwnGeneration'
  BY <1>2, ReserveEffect DEF IInv, TypeOK
<1>3. ASSUME NEW p \in Procs, NEW c \in Completions, Resume(p, c)
      PROVE  OwnGeneration'
  BY <1>3, ResumeEffect DEF IInv, TypeOK
<1>4. ASSUME NEW p \in Procs, ResumeUnclaimed(p)
      PROVE  OwnGeneration'
  BY <1>4, ResumeUnclaimedEffect DEF Journaled, IInv
<1>5. ASSUME NEW p \in Procs, LabelMove(p)
      PROVE  OwnGeneration'
  BY <1>5, LabelMoveEffect DEF ledger, Journaled, IInv
<1>6. ASSUME NEW p \in Procs, CallEnds(p)
      PROVE  OwnGeneration'
  BY <1>6 DEF CallEnds, EscalateLimit, Fail, ledger, forge, tree, Journaled, IInv
<1>7. ASSUME NEW p \in Procs, Post(p)
      PROVE  OwnGeneration'
  BY <1>7 DEF Post, ledger, Journaled, IInv
<1>8. ASSUME NEW p \in Procs, SavePosted(p)
      PROVE  OwnGeneration'
  BY <1>8, Holder, StageSaved
     DEF SavePosted, At, Stages, LockedSteps, Publishing, AfterPost, IInv
<1>9. ASSUME NEW p \in Procs, Verify(p)
      PROVE  OwnGeneration'
  BY <1>9, Holder, StageSaved
     DEF Verify, At, Stages, LockedSteps, Publishing, AfterPost, IInv
<1>10. ASSUME NEW p \in Procs, HandOff(p)
      PROVE  OwnGeneration'
  BY <1>10, Holder, StageSaved
     DEF HandOff, At, Stages, LockedSteps, Publishing, AfterPost, IInv
<1>11. CASE OtherWriter
  BY <1>11, OtherWriterEffect DEF Journaled, IInv
<1>12. ASSUME NEW c \in Completions, Arrive(c)
      PROVE  OwnGeneration'
  BY <1>12 DEF Arrive, ledger, Journaled, IInv
<1>13. CASE UNCHANGED vars
  BY <1>13 DEF vars, ledger, forge, tree, Journaled, IInv
<1> QED
  BY NextGroups, <1>1, <1>2, <1>3, <1>4, <1>5, <1>6, <1>7, <1>8, <1>9, <1>10,
     <1>11, <1>12, <1>13

\* No generation is used twice.
LEMMA OneOutcomePerGenerationStep ==
  IInv /\ [Next]_vars => OneOutcomePerGeneration'
<1> SUFFICES ASSUME IInv, [Next]_vars PROVE OneOutcomePerGeneration'
  OBVIOUS
<1> USE DEF OneOutcomePerGeneration
<1>1. ASSUME NEW p \in Procs, NEW r \in Requests, Begin(p, r)
      PROVE  OneOutcomePerGeneration'
  BY <1>1 DEF Begin, ledger, forge, Journaled, IInv
<1>2. ASSUME NEW p \in Procs, NEW c \in Completions,
             Reserve(p, c) \/ ReserveUnclaimed(p, c)
      PROVE  OneOutcomePerGeneration'
  BY <1>2, ReserveEffect DEF IInv, OwnGeneration, Journaled
<1>3. ASSUME NEW p \in Procs, NEW c \in Completions, Resume(p, c)
      PROVE  OneOutcomePerGeneration'
  BY <1>3, ResumeEffect DEF IInv
<1>4. ASSUME NEW p \in Procs, ResumeUnclaimed(p)
      PROVE  OneOutcomePerGeneration'
  BY <1>4, ResumeUnclaimedEffect DEF Journaled, IInv
<1>5. ASSUME NEW p \in Procs, LabelMove(p)
      PROVE  OneOutcomePerGeneration'
  BY <1>5, LabelMoveEffect DEF ledger, Journaled, IInv
<1>6. ASSUME NEW p \in Procs, CallEnds(p)
      PROVE  OneOutcomePerGeneration'
  BY <1>6 DEF CallEnds, EscalateLimit, Fail, ledger, forge, tree, Journaled, IInv
<1>7. ASSUME NEW p \in Procs, Post(p)
      PROVE  OneOutcomePerGeneration'
  BY <1>7 DEF Post, ledger, Journaled, IInv
<1>8. ASSUME NEW p \in Procs, SavePosted(p)
      PROVE  OneOutcomePerGeneration'
  BY <1>8, Holder, StageSaved
     DEF SavePosted, At, Stages, LockedSteps, Publishing, AfterPost, IInv
<1>9. ASSUME NEW p \in Procs, Verify(p)
      PROVE  OneOutcomePerGeneration'
  BY <1>9, Holder, StageSaved
     DEF Verify, At, Stages, LockedSteps, Publishing, AfterPost, IInv
<1>10. ASSUME NEW p \in Procs, HandOff(p)
      PROVE  OneOutcomePerGeneration'
  BY <1>10, Holder, StageSaved
     DEF HandOff, At, Stages, LockedSteps, Publishing, AfterPost, IInv
<1>11. CASE OtherWriter
  BY <1>11, OtherWriterEffect DEF Journaled, IInv
<1>12. ASSUME NEW c \in Completions, Arrive(c)
      PROVE  OneOutcomePerGeneration'
  BY <1>12 DEF Arrive, ledger, Journaled, IInv
<1>13. CASE UNCHANGED vars
  BY <1>13 DEF vars, ledger, forge, tree, Journaled, IInv
<1> QED
  BY NextGroups, <1>1, <1>2, <1>3, <1>4, <1>5, <1>6, <1>7, <1>8, <1>9, <1>10,
     <1>11, <1>12, <1>13

\* Every step keeps the types.
LEMMA TypeOKStep ==
  IInv /\ [Next]_vars => TypeOK'
<1> SUFFICES ASSUME IInv, [Next]_vars PROVE TypeOK'
  OBVIOUS
<1> USE DEF TypeOK, LockedSteps, Publishing, AfterPost
<1>1. ASSUME NEW p \in Procs, NEW r \in Requests, Begin(p, r)
      PROVE  TypeOK'
  BY <1>1 DEF Begin, ledger, forge, Journaled, IInv, tree, Goto, Calls, Requests
<1>2. ASSUME NEW p \in Procs, NEW c \in Completions,
             Reserve(p, c) \/ ReserveUnclaimed(p, c)
      PROVE  TypeOK'
  BY <1>2, ReserveEffect, SelectEffect, NobodyInside DEF IInv, tree, forge
<1>3. ASSUME NEW p \in Procs, NEW c \in Completions, Resume(p, c)
      PROVE  TypeOK'
  BY <1>3, ResumeEffect, SelectEffect, NobodyInside DEF IInv, tree, forge
<1>4. ASSUME NEW p \in Procs, ResumeUnclaimed(p)
      PROVE  TypeOK'
  BY <1>4, ResumeUnclaimedEffect, SelectEffect, NobodyInside
     DEF Journaled, IInv, forge, tree
<1>5. ASSUME NEW p \in Procs, LabelMove(p)
      PROVE  TypeOK'
  BY <1>5, LabelMoveEffect DEF ledger, Journaled, IInv, tree
<1>6. ASSUME NEW p \in Procs, CallEnds(p)
      PROVE  TypeOK'
  BY <1>6
     DEF CallEnds, EscalateLimit, Fail, ledger, forge, tree, Journaled, IInv, At,
         Goto, Release, Labels, Primary, Protected
<1>7. ASSUME NEW p \in Procs, Post(p)
      PROVE  TypeOK'
  BY <1>7 DEF Post, ledger, Journaled, IInv, At, Goto, tree
<1>8. ASSUME NEW p \in Procs, SavePosted(p)
      PROVE  TypeOK'
  BY <1>8, Holder, StageSaved
     DEF SavePosted, At, Stages, LockedSteps, Publishing, AfterPost, IInv, Goto,
         forge, tree
<1>9. ASSUME NEW p \in Procs, Verify(p)
      PROVE  TypeOK'
  BY <1>9, Holder, StageSaved
     DEF Verify, At, Stages, LockedSteps, Publishing, AfterPost, IInv, Goto,
         forge, tree
<1>10. ASSUME NEW p \in Procs, HandOff(p)
      PROVE  TypeOK'
  BY <1>10, Holder, StageSaved
     DEF HandOff, At, Stages, LockedSteps, Publishing, AfterPost, IInv, Goto,
         forge, tree, Release
<1>11. CASE OtherWriter
  BY <1>11, OtherWriterEffect DEF Journaled, IInv
<1>12. ASSUME NEW c \in Completions, Arrive(c)
      PROVE  TypeOK'
  BY <1>12 DEF Arrive, ledger, Journaled, IInv, tree
<1>13. CASE UNCHANGED vars
  BY <1>13 DEF vars, ledger, forge, tree, Journaled, IInv
<1> QED
  BY NextGroups, <1>1, <1>2, <1>3, <1>4, <1>5, <1>6, <1>7, <1>8, <1>9, <1>10,
     <1>11, <1>12, <1>13

-----------------------------------------------------------------------------
(* The invariant, and what follows from it *)

LEMMA InitIInv == Init => IInv
<1> SUFFICES ASSUME Init PROVE IInv
  OBVIOUS
<1>1. Journaled = {}
  BY DEF Init, Journaled
<1>2. TypeOK
  BY DEF Init, TypeOK, Labels, Primary
<1> QED
  BY <1>1, <1>2
     DEF Init, IInv, LedgerIndexed, PendingOwnsIssue, LockedOwner, EvidencePassed,
         OnlyAllowedPosted, StepMatchesStage, JournalBacked, OwnGeneration,
         OneOutcomePerGeneration, LockedSteps, Publishing, AfterPost, BeforeSave

LEMMA NextIInv == IInv /\ [Next]_vars => IInv'
  BY LedgerIndexedStep, PendingOwnsIssueStep, LockedOwnerStep, EvidencePassedStep,
     OnlyAllowedPostedStep, StepMatchesStageStep, JournalBackedStep,
     OwnGenerationStep, OneOutcomePerGenerationStep, TypeOKStep DEF IInv

LEMMA Invariant == Spec => []IInv
  BY InitIInv, NextIInv, PTL DEF Spec

\* The types hold in every reachable state.
THEOREM TypesHold == Spec => []TypeOK
<1>1. IInv => TypeOK
  BY DEF IInv
<1> QED
  BY <1>1, Invariant, PTL

\* A pending completion is never left without its reservation and its claim,
\* whatever other writers of the run state do.
THEOREM PendingNeverStranded == Spec => []PendingOwnsIssue
<1>1. IInv => PendingOwnsIssue
  BY DEF IInv
<1> QED
  BY <1>1, Invariant, PTL

\* The journal and the receipts never run ahead of the Issue's comments.
THEOREM JournalNeverAhead == Spec => []JournalBacked
<1>1. IInv => JournalBacked
  BY DEF IInv
<1> QED
  BY <1>1, Invariant, PTL

\* Every claim generation has at most one Outcome.
THEOREM GenerationsPublishOnce == Spec => []OneOutcomePerGeneration
<1>1. IInv => OneOutcomePerGeneration
  BY DEF IInv
<1> QED
  BY <1>1, Invariant, PTL

\* A published `done` rests on a validated HEAD and an allowed token decision.
THEOREM DoneIsValidated == Spec => []DonePublishedValidated
<1>1. IInv => DonePublishedValidated
  BY DEF IInv, EvidencePassed, OnlyAllowedPosted, DonePublishedValidated, Journaled
<1> QED
  BY <1>1, Invariant, PTL

-----------------------------------------------------------------------------
(* Exactly one comment, as long as no POST arrives late *)

LEMMA NothingLateStep ==
  MaxLate = 0 /\ IInv /\ NothingLate /\ OutcomeOnce /\ [Next]_vars
    => NothingLate' /\ OutcomeOnce'
<1> SUFFICES ASSUME MaxLate = 0, IInv, NothingLate, OutcomeOnce, [Next]_vars
             PROVE  NothingLate' /\ OutcomeOnce'
  OBVIOUS
<1> USE DEF NothingLate, OutcomeOnce
<1>1. ASSUME NEW p \in Procs, NEW r \in Requests, Begin(p, r)
      PROVE  NothingLate' /\ OutcomeOnce'
  BY <1>1 DEF Begin, Goto, ledger, forge, IInv, TypeOK
<1>2. ASSUME NEW p \in Procs, NEW c \in Completions,
             Reserve(p, c) \/ ReserveUnclaimed(p, c)
      PROVE  NothingLate' /\ OutcomeOnce'
  BY <1>2, ReserveEffect, SelectEffect, NobodyInside
     DEF forge, IInv, TypeOK, LockedSteps, Publishing
<1>3. ASSUME NEW p \in Procs, NEW c \in Completions, Resume(p, c)
      PROVE  NothingLate' /\ OutcomeOnce'
  BY <1>3, ResumeEffect, SelectEffect, NobodyInside
     DEF forge, IInv, TypeOK, LockedSteps, Publishing
<1>4. ASSUME NEW p \in Procs, ResumeUnclaimed(p)
      PROVE  NothingLate' /\ OutcomeOnce'
  BY <1>4, ResumeUnclaimedEffect, SelectEffect, NobodyInside
     DEF forge, IInv, TypeOK, LockedSteps, Publishing
<1>5. ASSUME NEW p \in Procs, LabelMove(p)
      PROVE  NothingLate' /\ OutcomeOnce'
  BY <1>5, LabelMoveEffect DEF ledger, IInv, TypeOK
<1>6. ASSUME NEW p \in Procs, CallEnds(p)
      PROVE  NothingLate' /\ OutcomeOnce'
  BY <1>6
     DEF CallEnds, EscalateLimit, Fail, Release, Goto, ledger, forge, IInv, TypeOK
<1>7. ASSUME NEW p \in Procs, Post(p)
      PROVE  NothingLate' /\ OutcomeOnce'
  BY <1>7, Holder
     DEF Post, At, Goto, ledger, IInv, TypeOK, LockedSteps, Publishing
<1>8. ASSUME NEW p \in Procs, SavePosted(p) \/ Verify(p) \/ HandOff(p)
      PROVE  NothingLate' /\ OutcomeOnce'
  BY <1>8 DEF SavePosted, Verify, HandOff, Release, Goto, forge, IInv, TypeOK
<1>9. CASE OtherWriter
  BY <1>9, OtherWriterEffect
<1>10. ASSUME NEW c \in Completions, Arrive(c)
       PROVE  NothingLate' /\ OutcomeOnce'
  BY <1>10 DEF Arrive
<1>11. CASE UNCHANGED vars
  BY <1>11 DEF vars, ledger, forge
<1> QED
  BY NextGroups, <1>1, <1>2, <1>3, <1>4, <1>5, <1>6, <1>7, <1>8, <1>9, <1>10, <1>11

\* Unless the Forge accepts a POST after its caller gave up on it, no completion is
\* ever posted twice.
THEOREM PostedAtMostOnce == MaxLate = 0 => (Spec => []OutcomeOnce)
<1> SUFFICES ASSUME MaxLate = 0 PROVE Spec => []OutcomeOnce
  OBVIOUS
<1>1. Init => NothingLate /\ OutcomeOnce
  BY DEF Init, NothingLate, OutcomeOnce
<1>2. IInv /\ NothingLate /\ OutcomeOnce /\ [Next]_vars => NothingLate' /\ OutcomeOnce'
  BY NothingLateStep
<1> QED
  BY <1>1, <1>2, Invariant, PTL DEF Spec

-----------------------------------------------------------------------------
(* The labels, as long as nobody else edits them *)

\* A label of the cleanup loop is never the target, and one that is about to be
\* removed leaves the target behind.
Emptying ==
  \A p \in Procs :
    /\ pc[p] \in {"clean", "remove", "removed"} => Target(reservation) \notin todo
    /\ pc[p] = "remove" => todo # {} /\ (edits = 0 => Target(reservation) \in labels)

\* The Outcome is on the Issue, or may get there from here without another hold.
Visible(c) ==
  \/ comments[c] > 0 \/ inflight[c] > 0
  \/ c = reservation /\ \E p \in Procs : pc[p] \in {"check", "lookup", "post", "recheck"}

\* A review is held back before its Outcome can be seen.
HoldFirst ==
  edits = 0 => \A c \in Journaled : NeedsReview(journal[c]) /\ Visible(c) => "hold" \in labels

\* A step that does not edit labels keeps a status label and the hold.
LEMMA LabelsStep ==
  ASSUME IInv, Emptying, StatusKept, [Next]_vars, edits' = 0
  PROVE  /\ edits = 0
         /\ labels' \cap (Primary \cup Protected) # {}
         /\ "hold" \in labels => "hold" \in labels'
<1> USE DEF StatusKept, Primary, Protected
<1>1. edits = 0
  BY DEF Next, vars, Begin, Step, Reserve, Resume, ReserveUnclaimed, ReserveRecord, ResumeUnclaimed,
         EscalateLimit, EnsureHold, CheckLabels, Lookup, Post, Recheck, SavePosted, Observe,
         AddTarget, ReadAdded, BeforeRemove, Remove, ReadRemoved, Verify, HandOff, Fail, Claim,
         RestartBlocked, ReleaseClaim, Collect, Commit, Arrive, EditLabel, IInv, TypeOK
<1>2. ASSUME UNCHANGED labels
      PROVE  /\ labels' \cap (Primary \cup Protected) # {}
             /\ "hold" \in labels => "hold" \in labels'
  BY <1>1, <1>2
<1>3. ASSUME NEW p \in Procs, NEW r \in Requests, Begin(p, r)
      PROVE  UNCHANGED labels
  BY <1>3 DEF Begin, forge
<1>4. ASSUME NEW p \in Procs, NEW c \in Completions,
             Reserve(p, c) \/ Resume(p, c) \/ ReserveUnclaimed(p, c)
      PROVE  UNCHANGED labels
  BY <1>4 DEF Reserve, Resume, ReserveUnclaimed, ReserveRecord, forge
<1>5. ASSUME NEW p \in Procs,
             \/ ResumeUnclaimed(p) \/ Post(p) \/ SavePosted(p) \/ Verify(p) \/ HandOff(p) \/ Fail(p)
             \/ CheckLabels(p) \/ Lookup(p) \/ Recheck(p) \/ Observe(p) \/ ReadAdded(p)
             \/ BeforeRemove(p) \/ ReadRemoved(p)
      PROVE  UNCHANGED labels
  BY <1>5 DEF ResumeUnclaimed, Post, SavePosted, Verify, HandOff, Fail, CheckLabels, Lookup,
              Recheck, Observe, ReadAdded, BeforeRemove, ReadRemoved, forge
<1>6. ASSUME NEW p \in Procs, EscalateLimit(p) \/ EnsureHold(p) \/ AddTarget(p)
      PROVE  /\ labels' \cap (Primary \cup Protected) # {}
             /\ "hold" \in labels => "hold" \in labels'
  BY <1>1, <1>6 DEF EscalateLimit, EnsureHold, AddTarget
<1>7. ASSUME NEW p \in Procs, Remove(p)
      PROVE  /\ labels' \cap (Primary \cup Protected) # {}
             /\ "hold" \in labels => "hold" \in labels'
  <2>1. pc[p] = "remove" /\ labels' = labels \ {First(todo)}
    BY <1>7 DEF Remove, At
  <2>2. todo # {} /\ Target(reservation) \in labels \ todo
    BY <1>1, <2>1 DEF Emptying
  <2>3. First(todo) \in todo /\ First(todo) \in {"in-progress", "queued", "blocked"}
    BY <2>2, FirstInSet DEF IInv, TypeOK
  <2>4. reservation \in Journaled /\ journal[reservation] \in Records
    BY <2>1, Holder DEF LockedSteps, Publishing, AfterPost
  <2>5. Target(reservation) \in {"done", "blocked", "not-needed"}
    BY <2>4 DEF Target, Records, Results
  <2> QED
    BY <2>1, <2>2, <2>3, <2>5
<1>8. CASE OtherWriter
  <2>1. ASSUME NEW g \in Claims, Claim(g) \/ RestartBlocked(g)
        PROVE  /\ labels' \cap (Primary \cup Protected) # {}
               /\ "hold" \in labels => "hold" \in labels'
    BY <1>1, <2>1 DEF Claim, RestartBlocked, forge
  <2>2. CASE ReleaseClaim \/ Collect \/ Commit
    BY <1>1, <2>2 DEF ReleaseClaim, Collect, Commit, forge
  <2>3. ASSUME NEW l \in Labels, EditLabel(l) PROVE FALSE
    BY <1>1, <2>3 DEF EditLabel
  <2> QED
    BY <1>1, <1>8, <2>1, <2>2, <2>3 DEF OtherWriter
<1>9. ASSUME NEW c \in Completions, Arrive(c)
      PROVE  UNCHANGED labels
  BY <1>9 DEF Arrive
<1>10. CASE UNCHANGED vars
  BY <1>10, <1>2, <1>1 DEF vars, forge
<1> QED
  BY NextGroups, <1>1, <1>2, <1>3, <1>4, <1>5, <1>6, <1>7, <1>8, <1>9, <1>10
     DEF LabelMove, CallEnds

\* The cleanup loop never comes to hold the target, and removes nothing without it.
LEMMA EmptyingStep ==
  IInv /\ Emptying /\ [Next]_vars => Emptying'
<1> SUFFICES ASSUME IInv, Emptying, [Next]_vars PROVE Emptying'
  OBVIOUS
<1> USE DEF Emptying
<1>1. \A q \in Procs : pc[q] \in {"clean", "remove", "removed"} => pc[q] \in LockedSteps
  BY DEF LockedSteps, Publishing, AfterPost
<1>2. ASSUME NEW p \in Procs, NEW r \in Requests, Begin(p, r)
      PROVE  Emptying'
  BY <1>2 DEF Begin, Goto, ledger, forge, Target, IInv, TypeOK
<1>3. ASSUME NEW p \in Procs, NEW c \in Completions,
             Reserve(p, c) \/ ReserveUnclaimed(p, c) \/ Resume(p, c)
      PROVE  Emptying'
  BY <1>1, <1>3, ReserveEffect, ResumeEffect, SelectEffect, NobodyInside
     DEF IInv, TypeOK
<1>4. ASSUME NEW p \in Procs, ResumeUnclaimed(p)
      PROVE  Emptying'
  BY <1>1, <1>4, ResumeUnclaimedEffect, SelectEffect, NobodyInside DEF IInv, TypeOK
<1>5. ASSUME NEW p \in Procs, LabelMove(p)
      PROVE  Emptying'
  <2>1. /\ UNCHANGED <<journal, reservation>>
        /\ \A q \in Procs \ {p} : pc[q] \notin {"clean", "remove", "removed"} /\ pc'[q] = pc[q]
    BY <1>1, <1>5, LabelMoveEffect, Holder DEF LockedSteps, ledger, IInv, TypeOK
  <2>2. Target(reservation)' = Target(reservation)
    BY <2>1 DEF Target
  <2>3. \A i : Target(reservation) \notin Stale(reservation, i)
    BY DEF Stale
  <2>4. /\ pc'[p] \in {"clean", "remove", "removed"} => Target(reservation) \notin todo'
        /\ pc'[p] = "remove" => todo' # {} /\ Target(reservation) \in labels'
    <3>1. CASE EnsureHold(p) \/ CheckLabels(p) \/ Lookup(p) \/ Recheck(p) \/ AddTarget(p)
      BY <3>1 DEF EnsureHold, CheckLabels, Lookup, Recheck, AddTarget, Goto, ResumeAt, IInv, TypeOK
    <3>2. CASE Observe(p) \/ ReadAdded(p) \/ ReadRemoved(p)
      BY <2>3, <3>2 DEF Observe, ReadAdded, ReadRemoved, Goto, IInv, TypeOK
    <3>3. CASE BeforeRemove(p)
      <4>1. /\ pc[p] = "clean" /\ todo # {} /\ Target(reservation) \in labels
            /\ UNCHANGED labels
        BY <3>3 DEF BeforeRemove, At, forge
      <4>2. First(todo) \in todo /\ Target(reservation) \notin todo
        BY <4>1, FirstInSet DEF IInv, TypeOK
      <4>3. todo' \subseteq {First(todo)} \cup Stale(reservation, Rank[First(todo)])
        BY <3>3 DEF BeforeRemove
      <4>4. pc'[p] = "remove" => todo' # {}
        BY <3>3 DEF BeforeRemove, Goto, IInv, TypeOK
      <4> QED
        BY <2>3, <4>1, <4>2, <4>3, <4>4
    <3>4. CASE Remove(p)
      BY <3>4 DEF Remove, At, Goto, IInv, TypeOK
    <3> QED
      BY <1>5, <3>1, <3>2, <3>3, <3>4 DEF LabelMove
  <2> QED
    BY <2>1, <2>2, <2>4
<1>6. ASSUME NEW p \in Procs, EscalateLimit(p) \/ HandOff(p)
      PROVE  Emptying'
  <2>1. \A q \in Procs \ {p} : pc[q] \notin {"clean", "remove", "removed"}
    BY <1>1, <1>6, Holder DEF EscalateLimit, HandOff, At, LockedSteps, Publishing, AfterPost
  <2> QED
    BY <1>6, <2>1 DEF EscalateLimit, HandOff, Release, Goto, IInv, TypeOK
<1>7. ASSUME NEW p \in Procs, Fail(p)
      PROVE  Emptying'
  <2>1. \A q \in Procs : pc[q] \in {"clean", "remove", "removed"} => lock = q
    BY <1>1 DEF IInv, LockedOwner
  <2>2. \A q \in Procs \ {p} : pc'[q] = pc[q]
    BY <1>7 DEF Fail, Goto, IInv, TypeOK
  <2>3. pc'[p] = "idle" /\ (lock # p => todo' = todo)
    BY <1>7 DEF Fail, Goto, IInv, TypeOK
  <2> QED
    BY <1>7, <2>1, <2>2, <2>3 DEF Fail, ledger, forge, Target
<1>8. ASSUME NEW p \in Procs, Post(p)
      PROVE  Emptying'
  BY <1>8 DEF Post, Goto, ledger, Target, IInv, TypeOK
<1>9. ASSUME NEW p \in Procs, SavePosted(p) \/ Verify(p)
      PROVE  Emptying'
  <2>1. pc[p] \in LockedSteps
    BY <1>9 DEF SavePosted, Verify, At, LockedSteps, Publishing, AfterPost
  <2>2. \A q \in Procs \ {p} : pc[q] \notin {"clean", "remove", "removed"} /\ pc'[q] = pc[q]
    BY <1>1, <1>9, <2>1, Holder DEF SavePosted, Verify, Goto, IInv, TypeOK
  <2>3. pc'[p] \notin {"clean", "remove", "removed"}
    BY <1>9 DEF SavePosted, Verify, Goto, IInv, TypeOK
  <2> QED
    BY <2>2, <2>3
<1>10. CASE OtherWriter
  <2>1. UNCHANGED <<journal, reservation, todo, pc>>
    BY <1>10, OtherWriterEffect
  <2>2. CASE UNCHANGED labels
    <3>1. edits' = 0 => edits = 0
      BY <1>10 DEF OtherWriter, Claim, RestartBlocked, ReleaseClaim, Collect, Commit, EditLabel,
                   IInv, TypeOK
    <3> QED
      BY <2>1, <2>2, <3>1 DEF Target
  <2>3. ASSUME NEW l \in Labels, EditLabel(l)
        PROVE  Emptying'
    <3>1. edits' # 0
      BY <2>3 DEF EditLabel, IInv, TypeOK
    <3> QED
      BY <2>1, <3>1 DEF Target
  <2>4. (\E g \in Claims : Claim(g)) \/ ReleaseClaim => Emptying'
    BY <1>1, <2>1, NobodyInside DEF Claim, ReleaseClaim
  <2>5. (\E g \in Claims : RestartBlocked(g)) \/ Collect \/ Commit => UNCHANGED labels
    BY DEF RestartBlocked, Collect, Commit, forge
  <2> QED
    BY <1>10, <2>2, <2>3, <2>4, <2>5 DEF OtherWriter
<1>11. ASSUME NEW c \in Completions, Arrive(c)
       PROVE  Emptying'
  BY <1>11 DEF Arrive, ledger, Target
<1>12. CASE UNCHANGED vars
  BY <1>12 DEF vars, ledger, forge, Target
<1> QED
  BY NextGroups, <1>2, <1>3, <1>4, <1>5, <1>6, <1>7, <1>8, <1>9, <1>10, <1>11, <1>12
     DEF CallEnds

\* The hold is there before the Outcome can be: a review is selected through the
\* step "hold", and nobody else removes a hold.
LEMMA HoldFirstStep ==
  IInv /\ Emptying /\ StatusKept /\ HoldFirst /\ [Next]_vars => HoldFirst'
<1> SUFFICES ASSUME IInv, Emptying, StatusKept, HoldFirst, [Next]_vars, edits' = 0,
                    NEW c \in Journaled', NeedsReview(journal[c])', Visible(c)'
             PROVE  "hold" \in labels'
  BY DEF HoldFirst
<1>1. edits = 0 /\ ("hold" \in labels => "hold" \in labels')
  BY LabelsStep
<1> DEFINE exposed == {"check", "lookup", "post", "recheck"}
<1>2. \A q \in Procs : pc[q] \in exposed => pc[q] \in LockedSteps
  BY DEF LockedSteps, Publishing
\* A record stays what it is about, and a new one cannot have been seen.
<1>3. ASSUME c \in Journaled, Visible(c),
             journal'[c].gen = journal[c].gen, journal'[c].result = journal[c].result
      PROVE  "hold" \in labels'
  BY <1>1, <1>3 DEF HoldFirst, NeedsReview
<1>4. ASSUME UNCHANGED <<journal, reservation, comments, inflight>>,
             \A q \in Procs : pc'[q] \in exposed => pc[q] \in exposed
      PROVE  "hold" \in labels'
  BY <1>3, <1>4 DEF Visible, Journaled
<1>5. c \in Completions
  BY DEF Journaled
<1>6. ASSUME NEW p \in Procs, NEW r \in Requests, Begin(p, r)
      PROVE  "hold" \in labels'
  BY <1>4, <1>6 DEF Begin, Goto, ledger, forge, IInv, TypeOK
\* A selected record that needs a review goes to "hold".
<1>7. ASSUME NEW p \in Procs, NEW d \in Completions, AfterSelect(p, d), journal'[d] \in Records,
             lock = Free, reservation' = d, UNCHANGED <<comments, inflight>>,
             /\ Journaled' \subseteq Journaled \cup {d}
             /\ \A e \in Journaled : /\ journal'[e].gen = journal[e].gen
                                     /\ journal'[e].result = journal[e].result
      PROVE  "hold" \in labels'
  <2>1. \A q \in Procs : pc[q] \notin exposed
    BY <1>2, <1>7, NobodyInside
  <2>2. c = d => \A q \in Procs : pc'[q] \notin exposed
    <3>1. ASSUME c = d PROVE pc' = [pc EXCEPT ![p] = pc'[p]] /\ pc'[p] \notin exposed
      BY <1>7, <3>1 DEF AfterSelect, Goto, Records, IInv, TypeOK
    <3> QED
      BY <2>1, <3>1 DEF IInv, TypeOK
  <2>3. comments[c] > 0 \/ inflight[c] > 0
    BY <1>7, <2>2 DEF Visible
  <2>4. c \in Journaled
    BY <1>5, <2>3 DEF IInv, OnlyAllowedPosted
  <2> QED
    BY <1>3, <1>7, <2>3, <2>4 DEF Visible
<1>8. ASSUME NEW p \in Procs, NEW d \in Completions,
             Reserve(p, d) \/ ReserveUnclaimed(p, d)
      PROVE  "hold" \in labels'
  BY <1>7, <1>8, ReserveEffect DEF forge, Journaled
<1>9. ASSUME NEW p \in Procs, NEW d \in Completions, Resume(p, d)
      PROVE  "hold" \in labels'
  BY <1>7, <1>9, ResumeEffect DEF forge
<1>10. ASSUME NEW p \in Procs, ResumeUnclaimed(p)
       PROVE  "hold" \in labels'
  BY <1>7, <1>10, ResumeUnclaimedEffect DEF forge, Journaled
<1>11. ASSUME NEW p \in Procs, LabelMove(p)
       PROVE  "hold" \in labels'
  <2>1. CASE EnsureHold(p)
    BY <2>1 DEF EnsureHold
  <2>2. CASE ~EnsureHold(p)
    <3>1. UNCHANGED <<journal, reservation, comments, inflight>>
      BY <1>11, LabelMoveEffect DEF ledger
    <3>2. \A q \in Procs : pc'[q] \in exposed => pc[q] \in exposed
      BY <1>11, <2>2
         DEF LabelMove, CheckLabels, Lookup, Recheck, Observe, AddTarget, ReadAdded, BeforeRemove,
             Remove, ReadRemoved, At, Goto, IInv, TypeOK
    <3> QED
      BY <1>4, <3>1, <3>2
  <2> QED
    BY <2>1, <2>2
<1>12. ASSUME NEW p \in Procs, CallEnds(p)
       PROVE  "hold" \in labels'
  BY <1>4, <1>12 DEF CallEnds, EscalateLimit, Fail, Release, Goto, ledger, forge, IInv, TypeOK
<1>13. ASSUME NEW p \in Procs, Post(p)
       PROVE  "hold" \in labels'
  <2>1. pc[p] = "post" /\ UNCHANGED <<journal, reservation>> /\ reservation \in Completions
    BY <1>13, Holder DEF Post, At, ledger, LockedSteps, Publishing
  <2>2. c \in Journaled
    BY <2>1 DEF Journaled
  <2>3. c = reservation => Visible(c)
    BY <2>1 DEF Visible
  <2>4. c # reservation => Visible(c)
    BY <1>5, <1>13, <2>1 DEF Post, Visible, IInv, TypeOK
  <2> QED
    BY <1>3, <2>1, <2>2, <2>3, <2>4
<1>14. ASSUME NEW p \in Procs, SavePosted(p) \/ Verify(p) \/ HandOff(p)
       PROVE  "hold" \in labels'
  <2>1. pc[p] \in LockedSteps
    BY <1>14 DEF SavePosted, Verify, HandOff, At, LockedSteps, Publishing, AfterPost
  <2>2. PICK s \in Stages : journal' = [journal EXCEPT ![reservation].stage = s]
    BY <1>14 DEF SavePosted, Verify, HandOff, Stages
  <2>3. /\ Journaled' = Journaled
        /\ journal'[c].gen = journal[c].gen /\ journal'[c].result = journal[c].result
    BY <1>5, <2>1, <2>2, Holder, StageSaved DEF IInv
  <2>4. UNCHANGED <<reservation, comments, inflight>>
    BY <1>14 DEF SavePosted, Verify, HandOff, forge
  <2>5. \A q \in Procs : pc'[q] \in exposed => pc[q] \in exposed
    BY <1>14 DEF SavePosted, Verify, HandOff, Release, Goto, IInv, TypeOK
  <2> QED
    BY <1>3, <2>3, <2>4, <2>5 DEF Visible
<1>15. CASE OtherWriter
  BY <1>4, <1>15, OtherWriterEffect
<1>16. ASSUME NEW d \in Completions, Arrive(d)
       PROVE  "hold" \in labels'
  <2>1. UNCHANGED <<journal, reservation, pc>>
    BY <1>16 DEF Arrive, ledger
  <2>2. Visible(c)
    BY <1>5, <1>16, <2>1 DEF Arrive, Visible, IInv, TypeOK
  <2> QED
    BY <1>3, <2>1, <2>2 DEF Journaled
<1>17. CASE UNCHANGED vars
  BY <1>4, <1>17 DEF vars, ledger, forge
<1> QED
  BY NextGroups, <1>6, <1>8, <1>9, <1>10, <1>11, <1>12, <1>13, <1>14, <1>15, <1>16, <1>17

\* As long as nobody else edits a label, the Issue has a status at every step and
\* after every stop, and a review's Outcome is never seen without its hold.
THEOREM LabelsAreKept == Spec => []LabelsKept
<1> DEFINE LInv == StatusKept /\ Emptying /\ HoldFirst
<1>1. Init => LInv
  BY DEF Init, StatusKept, Emptying, HoldFirst, Journaled, Primary
<1>2. IInv /\ LInv /\ [Next]_vars => LInv'
  <2>1. IInv /\ LInv /\ [Next]_vars => StatusKept'
    BY LabelsStep DEF StatusKept
  <2> QED
    BY <2>1, EmptyingStep, HoldFirstStep
<1>3. IInv /\ LInv => LabelsKept
  <2> SUFFICES ASSUME IInv, LInv, edits = 0, NEW c \in Journaled,
                      journal[c].result = "not-needed", comments[c] > 0,
                      journal[c].gen \notin Claims \/ journal[c].gen \in CloudClaims
               PROVE  "hold" \in labels
    BY DEF LabelsKept, ReviewHeld
  <2> QED
    BY DEF HoldFirst, Visible, NeedsReview
<1>4. IInv /\ LInv /\ [Next]_vars => (IInv /\ LInv)'
  BY <1>2, NextIInv
<1> QED
  BY <1>1, <1>3, <1>4, InitIInv, PTL DEF Spec

-----------------------------------------------------------------------------
(* History *)

LEMMA StageOrder ==
  /\ StageRank["reserved"] = 1 /\ StageRank["outcome_posted"] = 2
  /\ StageRank["label_confirmed"] = 3 /\ StageRank["handed_off"] = 4
  BY DEF StageRank, Stages

LEMMA HistoryStepHolds == IInv /\ [Next]_vars => [HistoryStep]_vars
<1> SUFFICES ASSUME IInv, Next PROVE HistoryStep
  OBVIOUS
<1>1. ASSUME UNCHANGED <<journal, receipts>>
      PROVE  HistoryStep
  <2>1. \A c \in Journaled : StageRank[journal[c].stage] \in Nat
    BY StageOrder DEF IInv, TypeOK, Journaled, Records, Stages
  <2> QED
    BY <1>1, <2>1 DEF HistoryStep
<1>2. ASSUME NEW p \in Procs, NEW r \in Requests, Begin(p, r)
      PROVE  HistoryStep
  BY <1>1, <1>2 DEF Begin, ledger
<1>3. ASSUME NEW p \in Procs, NEW c \in Completions,
             Reserve(p, c) \/ ReserveUnclaimed(p, c)
      PROVE  HistoryStep
  <2>1. \A d \in Journaled : journal'[d] = journal[d] /\ StageRank[journal[d].stage] \in Nat
    BY <1>3, ReserveEffect, StageOrder DEF IInv, TypeOK, Journaled, Records, Stages
  <2> QED
    BY <1>3, <2>1, ReserveEffect DEF HistoryStep
<1>4. ASSUME NEW p \in Procs, NEW c \in Completions, Resume(p, c)
      PROVE  HistoryStep
  <2>1. \A d \in Journaled : StageRank[journal[d].stage] \in Nat
    BY StageOrder DEF IInv, TypeOK, Journaled, Records, Stages
  <2>2. \A d \in Journaled :
          journal[d].decision # "unknown" => journal'[d].decision = journal[d].decision
    BY <1>4, ResumeEffect DEF Journaled
  <2> QED
    BY <1>4, <2>1, <2>2, ResumeEffect DEF HistoryStep
<1>5. ASSUME NEW p \in Procs, ResumeUnclaimed(p) \/ LabelMove(p) \/ CallEnds(p) \/ Post(p)
      PROVE  HistoryStep
  BY <1>1, <1>5, ResumeUnclaimedEffect, LabelMoveEffect
     DEF CallEnds, EscalateLimit, Fail, Post, ledger
<1>6. ASSUME NEW p \in Procs, SavePosted(p) \/ Verify(p) \/ HandOff(p)
      PROVE  HistoryStep
  <2>1. pc[p] \in LockedSteps
    BY <1>6 DEF SavePosted, Verify, HandOff, At, LockedSteps, Publishing, AfterPost
  <2>2. PICK s \in Stages :
          /\ journal' = [journal EXCEPT ![reservation].stage = s]
          /\ StageRank[journal[reservation].stage] <= StageRank[s]
    <3>1. CASE SavePosted(p)
      <4>1. journal[reservation].stage = "reserved"
        BY <3>1 DEF SavePosted, At, IInv, StepMatchesStage, BeforeSave
      <4> QED
        BY <3>1, <4>1, StageOrder DEF SavePosted, Stages
    <3>2. CASE Verify(p)
      BY <2>1, <3>2, Holder, StageOrder DEF Verify, Stages, Pending
    <3>3. CASE HandOff(p)
      BY <2>1, <3>3, Holder, StageOrder DEF HandOff, Stages, Pending
    <3> QED
      BY <1>6, <3>1, <3>2, <3>3
  <2>3. receipts \subseteq receipts'
    BY <1>6 DEF SavePosted, Verify, HandOff
  <2>4. \A d \in Journaled : StageRank[journal[d].stage] \in Nat
    BY StageOrder DEF IInv, TypeOK, Journaled, Records, Stages
  <2>5. \A d \in Journaled \ {reservation} : journal'[d] = journal[d]
    BY <2>1, <2>2, Holder, StageSaved DEF IInv, Journaled
  <2> QED
    BY <2>1, <2>2, <2>3, <2>4, <2>5, Holder, StageSaved DEF HistoryStep, IInv
<1>7. CASE OtherWriter
  BY <1>1, <1>7, OtherWriterEffect
<1>8. ASSUME NEW c \in Completions, Arrive(c)
      PROVE  HistoryStep
  BY <1>1, <1>8 DEF Arrive, ledger
<1> QED
  BY NextGroups, <1>2, <1>3, <1>4, <1>5, <1>6, <1>7, <1>8

\* No step of any process rewrites a recorded completion or moves it back.
THEOREM HistoryImmutable == Spec => HistoryKept
  BY Invariant, HistoryStepHolds, PTL DEF Spec, HistoryKept

-----------------------------------------------------------------------------
(* CompletionPublication implements OutcomeLedger *)

LEMMA LedgerInit == Init => Outcomes!Init
  BY DEF Init, Outcomes!Init, Journaled

LEMMA LedgerStep == IInv /\ [Next]_vars => [Outcomes!Next]_(Outcomes!vars)
<1> SUFFICES ASSUME IInv, [Next]_vars
             PROVE  Outcomes!Next \/ UNCHANGED Outcomes!vars
  OBVIOUS
<1> DEFINE published == {c \in Completions : comments[c] > 0}
<1>1. ASSUME UNCHANGED <<reservation, receipts, comments>>, Journaled' = Journaled
      PROVE  UNCHANGED Outcomes!vars
  BY <1>1 DEF Outcomes!vars
<1>2. ASSUME NEW p \in Procs, NEW r \in Requests, Begin(p, r)
      PROVE  UNCHANGED Outcomes!vars
  BY <1>1, <1>2 DEF Begin, ledger, forge, Journaled
<1>3. ASSUME NEW p \in Procs, NEW c \in Completions,
             Reserve(p, c) \/ ReserveUnclaimed(p, c)
      PROVE  Outcomes!Reserve(c)
  <2>1. reservation = NoId \/ reservation \in receipts
    BY <1>3, ReserveEffect DEF IInv, LedgerIndexed
  <2> QED
    BY <1>3, <2>1, ReserveEffect DEF Outcomes!Reserve, forge
<1>4. ASSUME NEW p \in Procs, NEW c \in Completions, Resume(p, c)
      PROVE  UNCHANGED Outcomes!vars
  BY <1>1, <1>4, ResumeEffect DEF forge
<1>5. ASSUME NEW p \in Procs, ResumeUnclaimed(p) \/ LabelMove(p) \/ CallEnds(p)
      PROVE  UNCHANGED Outcomes!vars
  BY <1>1, <1>5, ResumeUnclaimedEffect, LabelMoveEffect
     DEF CallEnds, EscalateLimit, Fail, ledger, forge, Journaled
<1>6. ASSUME NEW p \in Procs, Post(p)
      PROVE  Outcomes!Publish \/ UNCHANGED Outcomes!vars
  <2>1. reservation \in Journaled /\ Journaled' = Journaled
    BY <1>6, Holder DEF Post, At, ledger, LockedSteps, Publishing, Journaled
  <2>2. CASE comments' = comments
    BY <1>1, <1>6, <2>1, <2>2 DEF Post, ledger
  <2>3. CASE comments' = [comments EXCEPT ![reservation] = @ + 1]
    <3>1. reservation \in published'
          /\ \A c \in Completions \ {reservation} : comments'[c] = comments[c]
      BY <2>1, <2>3 DEF IInv, TypeOK, Journaled
    <3>2. published' = published \cup {reservation}
      BY <2>1, <3>1 DEF Journaled
    <3>3. CASE reservation \in published
      BY <1>6, <2>1, <3>2, <3>3 DEF Post, ledger, Outcomes!vars
    <3>4. CASE reservation \notin published
      BY <1>6, <2>1, <3>2, <3>4 DEF Post, ledger, Outcomes!Publish
    <3> QED
      BY <3>3, <3>4
  <2> QED
    BY <1>6, <2>2, <2>3 DEF Post
<1>7. ASSUME NEW p \in Procs, SavePosted(p) \/ Verify(p)
      PROVE  UNCHANGED Outcomes!vars
  <2>1. reservation \in Journaled
    BY <1>7, Holder DEF SavePosted, Verify, At, LockedSteps, Publishing, AfterPost
  <2>2. Journaled' = Journaled
    BY <1>7, <2>1, StageSaved DEF SavePosted, Verify, Stages, IInv
  <2> QED
    BY <1>1, <1>7, <2>2 DEF SavePosted, Verify, forge
<1>8. ASSUME NEW p \in Procs, HandOff(p)
      PROVE  Outcomes!HandOff
  <2>1. reservation \in Journaled /\ reservation \in Completions /\ reservation \notin receipts
    BY <1>8, Holder DEF HandOff, At, LockedSteps, Publishing, AfterPost
  <2>2. comments[reservation] > 0
    BY <1>8 DEF HandOff, At, IInv, StepMatchesStage, AfterPost
  <2>3. Journaled' = Journaled
    BY <1>8, <2>1, StageSaved DEF HandOff, Stages, IInv
  <2> QED
    BY <1>8, <2>1, <2>2, <2>3 DEF HandOff, forge, Outcomes!HandOff
<1>9. CASE OtherWriter
  BY <1>1, <1>9, OtherWriterEffect DEF Journaled
<1>10. ASSUME NEW c \in Completions, Arrive(c)
       PROVE  Outcomes!Publish \/ UNCHANGED Outcomes!vars
  <2>1. c \in Journaled /\ Journaled' = Journaled
    BY <1>10 DEF Arrive, ledger, Journaled, IInv, OnlyAllowedPosted
  <2>2. published' = published \cup {c}
    BY <1>10 DEF Arrive, IInv, TypeOK
  <2>3. CASE comments[c] > 0
    BY <1>10, <2>1, <2>2, <2>3 DEF Arrive, ledger, Outcomes!vars
  <2>4. CASE ~(comments[c] > 0)
    <3>1. c = reservation
      BY <2>1, <2>4 DEF IInv, JournalBacked, PendingOwnsIssue, Pending
    <3> QED
      BY <1>10, <2>1, <2>2, <2>4, <3>1 DEF Arrive, ledger, Outcomes!Publish
  <2> QED
    BY <2>3, <2>4
<1>11. CASE UNCHANGED vars
  BY <1>1, <1>11 DEF vars, ledger, forge, Journaled
<1> QED
  BY NextGroups, <1>2, <1>3, <1>4, <1>5, <1>6, <1>7, <1>8, <1>9, <1>10, <1>11
     DEF Outcomes!Next

\* Every behaviour of the completion code is one the Outcome ledger allows.
THEOREM ImplementsOutcomeLedger == Spec => OutcomesSpec
  BY LedgerInit, LedgerStep, Invariant, PTL DEF Spec, OutcomesSpec, Outcomes!Spec

============================================================================
