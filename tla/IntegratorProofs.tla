--------------------------- MODULE IntegratorProofs ---------------------------
(***************************************************************************)
(* Proofs about the Integrator: the attempts at the integration of a       *)
(* child, for any limit on retries and any number of attempts, late writes *)
(* and crashes, and the finalization of a child that was integrated, for   *)
(* every number of commits, runs, refusals, pushes, edits and faults.      *)
(***************************************************************************)
EXTENDS IntegrationRetry, Finalization, TLAPS, FiniteSetTheorems

-----------------------------------------------------------------------------
(* Attempts.  The inductive invariant follows an attempt from its          *)
(* reservation to its result: until somebody confirmed how it ended, its   *)
(* reservation is open, or something blocks the history, or the history is *)
(* broken; and the count of an intact history that lets the parent go on   *)
(* is the number of attempts of the generation that ended in a timeout.    *)

Good == {"success", "failed", "timeout"}
Posted == seen \cup flight
Ahead == flight \cup (IF at = "write" THEN {event} ELSE {})

\* Between the start of an attempt and the write of its result.
Busy == Running \cup {"held", "record"}
Reserving == at = "write" /\ event.kind = "reserved"
Allowed == at = "loaded" /\ view.verdict = "proceed"

\* Ids were issued; a reset is never in flight.
IdsIssued ==
  /\ \A e \in seen \cup Ahead : e.id \in 1 .. issued
  /\ \A e \in Ahead : e.kind # "reset"
  /\ me <= issued

\* Nothing else carries the id of the reservation being written, and only its
\* reservation carries the id of an attempt that has not been finished.
OwnId ==
  /\ Reserving => \A e \in Posted : e.id = event.id => e = event
  /\ at \in Busy => \A e \in Posted : e.id = me => e.kind = "reserved"

\* A result is only written for an attempt whose reservation was read back.
ResultsReserved ==
  /\ \A e \in Ahead : e.kind = "finished" =>
       \E r \in seen : r.id = e.id /\ r.kind = "reserved"
  /\ at \in Busy =>
       /\ me # None
       /\ \E r \in seen : r.id = me /\ r.kind = "reserved"

\* The result written is that of the attempt of the cycle.
WritesOwn ==
  at = "write" /\ event.kind = "finished" => event.id = me /\ event.outcome = result

OpenOrBlocked == budget.broken \/ budget.open = None \/ budget.blocked = None

\* The open reservation is the one of the attempt under way.
OpenIsOwn ==
  /\ at \in Busy => budget.broken \/ budget.open = me
  /\ Reserving /\ Present => budget.broken \/ budget.open = event.id

\* What nobody confirmed stops the history.
Guarded ==
  \A k \in unproven : k # None /\ (budget.broken \/ budget.open = k \/ budget.blocked # None)

\* A good result is only written for an attempt that left nothing behind.
GoodIsProven ==
  /\ \A e \in Ahead : e.kind = "finished" /\ e.outcome \in Good => e.id \notin unproven
  /\ at = "record" /\ result \in Good => me \notin unproven
  /\ at = "held" => result \notin Good

\* An attempt starts with nothing left behind and a retry left.
StartsClear == Allowed \/ Reserving => unproven = {} /\ spent <= MaxRetries

RunsWithin == at \in Running => spent <= MaxRetries

CountIsSpent == ~budget.broken /\ Resolved(budget) => budget.timeouts = spent

\* The pending result makes up the difference between the count and the attempts.
Owed(o) ==
  /\ o = "timeout" => spent = budget.timeouts + 1
  /\ o = "failed" => spent = budget.timeouts

PendingCount ==
  ~budget.broken =>
    /\ \A e \in Ahead : e.kind = "finished" /\ budget.open = e.id => Owed(e.outcome)
    /\ at \in {"held", "record"} => Owed(result)
    /\ at \in Running \/ (Reserving /\ Present) => spent = budget.timeouts

IInv ==
  /\ TypeOK /\ IdsIssued /\ OwnId /\ WritesOwn /\ ResultsReserved /\ OpenOrBlocked /\ OpenIsOwn
  /\ Guarded /\ GoodIsProven /\ StartsClear /\ RunsWithin /\ CountIsSpent
  /\ PendingCount /\ RunsAlone /\ SpentBounded

\* The parts of the type invariant.
BudgetOK ==
  /\ budget \in [gen: Nat, timeouts: Nat, open: Nat, blocked: Nat, terminal: BOOLEAN,
                 waiting: BOOLEAN, broken: BOOLEAN]
  /\ seen \subseteq Event /\ flight \subseteq Event /\ label \in BOOLEAN
HoldsOK == holds \subseteq Nat /\ heldGens \subseteq Nat /\ unproven \subseteq Nat /\ spent \in Nat
CycleOK ==
  /\ at \in Steps /\ me \in Nat /\ result \in Outcomes
  /\ view \in [gen: Nat, timeouts: Nat, verdict: Verdicts, terminal: BOOLEAN]
WriteOK == event \in Event /\ tries \in 0 .. Tries /\ absent \in BOOLEAN
CountOK == issued \in 0 .. MaxIds /\ late \in 0 .. MaxLate /\ crashes \in 0 .. MaxCrash

LEMMA TypePartsNext == BudgetOK' /\ HoldsOK' /\ CycleOK' /\ WriteOK' /\ CountOK' => TypeOK'
  BY DEF TypeOK, BudgetOK, HoldsOK, CycleOK, WriteOK, CountOK

LEMMA NoEventTyped == NoEvent \in Event
  BY DEF NoEvent, Event, Kinds, Outcomes, None

LEMMA StopWriteTyped == StopWrite => WriteOK'
<1> SUFFICES ASSUME StopWrite PROVE WriteOK'
  OBVIOUS
<1>1. event' \in Event
  BY NoEventTyped DEF StopWrite
<1>2. tries' \in 0 .. Tries
  BY DEF StopWrite, Tries
<1>3. absent' \in BOOLEAN
  BY Zenon DEF StopWrite
<1> QED
  BY <1>1, <1>2, <1>3 DEF WriteOK

LEMMA StartWriteTyped ==
  ASSUME NEW e \in Event, StartWrite(e)
  PROVE  WriteOK'
  BY DEF StartWrite, WriteOK, Tries

LEMMA EndedTyped ==
  ASSUME NEW r, TypeOK, Ended(r)
  PROVE  unproven' \subseteq Nat /\ spent' \in Nat
<1>1. unproven' \subseteq Nat
  BY DEF Ended, TypeOK
<1>2. spent' \in Nat
  BY DEF Ended, TypeOK
<1> QED
  BY <1>1, <1>2

-----------------------------------------------------------------------------
(* The comment of an event lands *)

LandsReserved(e) ==
  /\ e.kind = "reserved" /\ Resolved(budget)
  /\ ~ \E s \in seen : s.id = e.id /\ s.kind = e.kind
  /\ budget'.open = e.id /\ budget'.blocked = None
  /\ budget'.timeouts = budget.timeouts /\ spent' = spent

LandsFinished(e) ==
  /\ e.kind = "finished" /\ budget.open = e.id /\ budget'.open = None
  /\ \/ /\ e.outcome = "success" /\ budget'.blocked = budget.blocked
        /\ budget'.timeouts = 0 /\ spent' = 0
     \/ /\ e.outcome = "failed" /\ budget'.blocked = budget.blocked
        /\ budget'.timeouts = budget.timeouts /\ spent' = spent
     \/ /\ e.outcome = "timeout" /\ budget'.blocked = budget.blocked
        /\ budget'.timeouts = budget.timeouts + 1 /\ spent' = spent
     \/ e.outcome \notin Good /\ budget'.blocked = e.id /\ spent' = spent

LandsTerminal(e) ==
  /\ e.kind = "terminal" /\ budget.open = None /\ budget'.open = None
  /\ budget'.blocked = IF budget.blocked = None THEN e.id ELSE budget.blocked
  /\ budget'.timeouts = budget.timeouts /\ spent' = spent

LandsReset(e) ==
  /\ e.kind = "reset" /\ budget'.open = None /\ budget'.blocked = None
  /\ budget'.timeouts = 0 /\ spent' = 0

\* A landing keeps the types, the generations only grow and the spent attempts
\* only shrink.
LEMMA LandingTyped ==
  ASSUME TypeOK, NEW e \in Event, Lands(e)
  PROVE  /\ budget' \in [gen: Nat, timeouts: Nat, open: Nat, blocked: Nat, terminal: BOOLEAN,
                         waiting: BOOLEAN, broken: BOOLEAN]
         /\ seen' = seen \cup {e}
         /\ spent' \in Nat /\ spent' <= spent
         /\ budget.gen <= budget'.gen
<1> USE DEF None
<1> DEFINE Budget == [gen: Nat, timeouts: Nat, open: Nat, blocked: Nat, terminal: BOOLEAN,
                      waiting: BOOLEAN, broken: BOOLEAN]
<1>1. /\ budget \in Budget /\ spent \in Nat
      /\ e.id \in Nat /\ e.gen \in Nat /\ e.kind \in Kinds
  BY DEF TypeOK, Event
<1>2. seen' = seen \cup {e} /\ budget' = Folded(e) /\ spent' \in {0, spent}
  BY DEF Lands
<1>3. budget' \in Budget /\ budget.gen <= budget'.gen
  <2>3. CASE budget' = budget
    BY <1>1, <2>3
  <2>4. CASE budget' = [budget EXCEPT !.broken = TRUE]
    <3>1. budget' \in Budget
      BY <1>1, <2>4
    <3>2. budget.gen <= budget'.gen
      BY <1>1, <2>4
    <3> QED
      BY <3>1, <3>2
  <2>5. CASE Accepts(budget, e) /\ budget' = Applied(budget, e)
    <3>1. CASE e.kind = "reserved"
      BY <1>1, <2>5, <3>1 DEF Applied
    <3>2. CASE e.kind = "finished"
      <4>1. budget' = Finished(budget, e)
        BY <2>5, <3>2 DEF Applied
      <4>2. CASE e.outcome = "success"
        <5>0. PICK g \in Nat : g = budget.gen + 1
          BY <1>1
        <5>1. budget' = [budget EXCEPT !.open = None, !.gen = g, !.timeouts = 0, !.waiting = FALSE]
          BY <4>1, <4>2, <5>0 DEF Finished
        <5>2. budget' \in Budget
          BY <1>1, <5>1
        <5>3. budget.gen <= budget'.gen
          BY <1>1, <5>0, <5>1
        <5> QED
          BY <5>2, <5>3
      <4>3. CASE e.outcome = "failed"
        <5>1. budget' = [budget EXCEPT !.open = None, !.waiting = FALSE]
          BY <4>1, <4>3 DEF Finished
        <5>2. budget' \in Budget
          BY <1>1, <5>1
        <5>3. budget.gen <= budget'.gen
          BY <1>1, <5>1
        <5> QED
          BY <5>2, <5>3
      <4>4. CASE e.outcome = "timeout"
        <5> DEFINE w == budget.timeouts < MaxRetries
        <5>1. PICK t \in Nat : t = budget.timeouts + 1
          BY <1>1
        <5>2. w \in BOOLEAN
          OBVIOUS
        <5>3. budget' = [budget EXCEPT !.open = None, !.timeouts = t, !.waiting = w]
          BY <4>1, <4>4, <5>1 DEF Finished
        <5> HIDE DEF w
        <5>4. w \in BOOLEAN /\ budget' = [budget EXCEPT !.open = None, !.timeouts = t, !.waiting = w]
          BY <5>2, <5>3
        <5>5. budget' \in Budget
          BY <1>1, <5>4
        <5>6. budget.gen <= budget'.gen
          BY <1>1, <5>4
        <5> QED
          BY <5>5, <5>6
      <4>5. CASE e.outcome \notin Good
        <5>1. budget' = [budget EXCEPT !.open = None, !.blocked = e.id]
          BY <4>1, <4>5 DEF Finished, Good
        <5>2. budget' \in Budget
          BY <1>1, <5>1
        <5>3. budget.gen <= budget'.gen
          BY <1>1, <5>1
        <5> QED
          BY <5>2, <5>3
      <4> QED
        BY <4>2, <4>3, <4>4, <4>5 DEF Good
    <3>3. CASE e.kind = "terminal"
      <4>1. PICK k \in Nat : budget' = [budget EXCEPT !.terminal = TRUE, !.blocked = k]
        BY <1>1, <2>5, <3>3 DEF Applied
      <4>2. budget' \in Budget
        BY <1>1, <4>1
      <4>3. budget.gen <= budget'.gen
        BY <1>1, <4>1
      <4> QED
        BY <4>2, <4>3
    <3>4. CASE e.kind = "reset"
      <4>1. budget' = Fresh(e.gen) /\ e.gen = budget.gen + 1
        BY <2>5, <3>4 DEF Applied, Accepts
      <4> QED
        BY <1>1, <4>1 DEF Fresh
    <3> QED
      BY <1>1, <3>1, <3>2, <3>3, <3>4 DEF Kinds
  <2> QED
    BY <1>2, <2>3, <2>4, <2>5 DEF Folded
<1> QED
  BY <1>1, <1>2, <1>3

\* A landing that leaves the history intact is a duplicate or one of the four.
LEMMA LandingCases ==
  ASSUME TypeOK, NEW e \in Event, Lands(e), ~budget'.broken
  PROVE  /\ ~budget.broken
         /\ \/ UNCHANGED <<budget, spent>> /\ e \in seen
            \/ LandsReserved(e) \/ LandsFinished(e) \/ LandsTerminal(e) \/ LandsReset(e)
<1> USE DEF None
<1>1. budget.gen \in Nat /\ budget.timeouts \in Nat /\ budget.open \in Nat /\ budget.blocked \in Nat
      /\ e.id \in Nat /\ e.gen \in Nat /\ e.kind \in Kinds /\ spent \in Nat
  BY DEF TypeOK, Event
<1>2. budget' = Folded(e) /\ spent' = IF budget'.gen # budget.gen THEN 0 ELSE spent
  BY DEF Lands
<1>3. ~budget.broken
  BY <1>2 DEF Folded
<1>4. CASE e \in seen
  BY <1>2, <1>3, <1>4 DEF Folded
<1>5. CASE e \notin seen
  <2>1. ~([budget EXCEPT !.broken = TRUE].broken = FALSE)
    BY DEF TypeOK
  <2>2. /\ ~ \E s \in seen : s.id = e.id /\ s.kind = e.kind
        /\ Accepts(budget, e) /\ budget' = Applied(budget, e)
    BY <1>2, <1>3, <1>5, <2>1 DEF Folded, TypeOK
  <2>3. CASE e.kind = "reserved"
    BY <1>1, <1>2, <2>2, <2>3 DEF Applied, Accepts, Resolved, LandsReserved, TypeOK
  <2>4. CASE e.kind = "finished"
    <3>1. budget' = Finished(budget, e) /\ budget.open = e.id
      BY <2>2, <2>4 DEF Applied, Accepts
    <3>2. CASE e.outcome = "success"
      <4>1. budget' = [budget EXCEPT !.open = None, !.gen = @ + 1, !.timeouts = 0, !.waiting = FALSE]
        BY <3>1, <3>2 DEF Finished
      <4>2. /\ budget'.open = None /\ budget'.blocked = budget.blocked
            /\ budget'.timeouts = 0 /\ budget'.gen # budget.gen
        BY <1>1, <4>1 DEF TypeOK
      <4> QED
        BY <1>2, <1>3, <2>4, <3>1, <3>2, <4>2 DEF LandsFinished
    <3>3. CASE e.outcome = "failed"
      BY <1>1, <1>2, <2>4, <3>1, <3>3 DEF Finished, LandsFinished, TypeOK
    <3>4. CASE e.outcome = "timeout"
      BY <1>1, <1>2, <2>4, <3>1, <3>4 DEF Finished, LandsFinished, TypeOK
    <3>5. CASE e.outcome \notin Good
      BY <1>1, <1>2, <2>4, <3>1, <3>5 DEF Finished, LandsFinished, Good, TypeOK
    <3> QED
      BY <3>2, <3>3, <3>4, <3>5 DEF Good
  <2>5. CASE e.kind = "terminal"
    <3>1. /\ budget' = [budget EXCEPT !.terminal = TRUE, !.blocked = IF @ = None THEN e.id ELSE @]
          /\ budget.open = None
      BY <2>2, <2>5 DEF Applied, Accepts
    <3> QED
      BY <1>1, <1>2, <2>5, <3>1 DEF LandsTerminal, TypeOK
  <2>6. CASE e.kind = "reset"
    <3>1. budget' = Fresh(e.gen) /\ e.gen = budget.gen + 1
      BY <2>2, <2>6 DEF Applied, Accepts
    <3>2. budget'.gen # budget.gen
      BY <1>1, <3>1 DEF Fresh
    <3> QED
      BY <1>2, <1>3, <2>6, <3>1, <3>2 DEF Fresh, LandsReset
  <2> QED
    BY <1>1, <1>3, <2>3, <2>4, <2>5, <2>6 DEF Kinds
<1> QED
  BY <1>4, <1>5

-----------------------------------------------------------------------------
(* The steps that write nothing to GitHub *)

LEMMA LoadKeeps == IInv /\ Load => IInv'
<1> SUFFICES ASSUME IInv, Load PROVE IInv'
  OBVIOUS
<1> USE RetryAssumption DEF IInv, None
<1>1. TypeOK'
  <2>1. BudgetOK'
    BY DEF TypeOK, BudgetOK, Load, Verdict, Exhausted, MaxAttempts, Resolved,
          write, bounds, forge, cycle, ghosts
  <2>2. HoldsOK'
    BY DEF TypeOK, HoldsOK, Load, Verdict, Exhausted, MaxAttempts, Resolved,
          write, bounds, forge, cycle, ghosts
  <2>3. CycleOK'
    BY DEF TypeOK, CycleOK, Steps, Verdicts, Outcomes, Load, Verdict,
          Exhausted, MaxAttempts, Resolved, write, bounds, forge, cycle, ghosts
  <2>4. WriteOK'
    BY NoEventTyped DEF TypeOK, WriteOK, Tries, Load, Verdict, Exhausted,
          MaxAttempts, Resolved, write, bounds, forge, cycle, ghosts
  <2>5. CountOK'
    BY DEF TypeOK, CountOK, Load, Verdict, Exhausted, MaxAttempts, Resolved,
          write, bounds, forge, cycle, ghosts
  <2> QED
    BY <2>1, <2>2, <2>3, <2>4, <2>5, TypePartsNext
<1>2. IdsIssued'
  BY DEF TypeOK, IdsIssued, Ahead, WritesOwn, ResultsReserved, Busy, Load,
          Verdict, Exhausted, MaxAttempts, Resolved, write, bounds, forge,
          cycle, ghosts
<1>3. OwnId'
  BY DEF TypeOK, OwnId, IdsIssued, Ahead, Reserving, Posted, Busy, Running,
          Load, Verdict, Exhausted, MaxAttempts, Resolved, write, bounds,
          forge, cycle, ghosts
<1>4. WritesOwn'
  BY DEF TypeOK, WritesOwn, Load, Verdict, Exhausted, MaxAttempts, Resolved,
          write, bounds, forge, cycle, ghosts
<1>5. ResultsReserved'
  BY DEF TypeOK, ResultsReserved, IdsIssued, Ahead, Busy, Running, Load,
          Verdict, Exhausted, MaxAttempts, Resolved, write, bounds, forge,
          cycle, ghosts
<1>6. OpenOrBlocked'
  BY DEF TypeOK, OpenOrBlocked, Load, Verdict, Exhausted, MaxAttempts,
          Resolved, write, bounds, forge, cycle, ghosts
<1>7. OpenIsOwn'
  BY DEF TypeOK, OpenIsOwn, IdsIssued, Ahead, Reserving, Present, Busy,
          Running, Load, Verdict, Exhausted, MaxAttempts, Resolved, write,
          bounds, forge, cycle, ghosts
<1>8. Guarded'
  BY DEF TypeOK, Guarded, OpenIsOwn, IdsIssued, Ahead, Reserving, Present,
          Load, Verdict, Exhausted, MaxAttempts, Resolved, write, bounds,
          forge, cycle, ghosts
<1>9. GoodIsProven'
  BY DEF TypeOK, GoodIsProven, OwnId, WritesOwn, Good, Posted, Ahead,
          Reserving, Load, Verdict, Exhausted, MaxAttempts, Resolved, write,
          bounds, forge, cycle, ghosts
<1>10. StartsClear'
  BY DEF TypeOK, StartsClear, Guarded, CountIsSpent, Allowed, Reserving, Load,
          Verdict, Exhausted, MaxAttempts, Resolved, write, bounds, forge,
          cycle, ghosts
<1>11. RunsWithin'
  BY DEF TypeOK, RunsWithin, StartsClear, Reserving, Running, Load, Verdict,
          Exhausted, MaxAttempts, Resolved, write, bounds, forge, cycle, ghosts
<1>12. CountIsSpent'
  BY DEF TypeOK, CountIsSpent, Resolved, OpenIsOwn, ResultsReserved, Busy,
          Running, Load, Verdict, Exhausted, MaxAttempts, write, bounds, forge,
          cycle, ghosts
<1>13. PendingCount'
  BY DEF TypeOK, PendingCount, Owed, IdsIssued, OwnId, OpenIsOwn,
          ResultsReserved, WritesOwn, Posted, Ahead, Reserving, Present, Busy,
          Running, Load, Verdict, Exhausted, MaxAttempts, Resolved, write,
          bounds, forge, cycle, ghosts
<1>14. RunsAlone'
  BY DEF TypeOK, RunsAlone, StartsClear, Reserving, Running, Load, Verdict,
          Exhausted, MaxAttempts, Resolved, write, bounds, forge, cycle, ghosts
<1>15. SpentBounded'
  BY DEF TypeOK, SpentBounded, RunsWithin, Running, MaxAttempts, Load, Verdict,
          Exhausted, Resolved, write, bounds, forge, cycle, ghosts
<1> QED
  BY <1>1, <1>2, <1>3, <1>4, <1>5, <1>6, <1>7, <1>8, <1>9, <1>10, <1>11, <1>12, <1>13, <1>14, <1>15

LEMMA ReserveKeeps == IInv /\ Reserve => IInv'
<1> SUFFICES ASSUME IInv, Reserve PROVE IInv'
  OBVIOUS
<1> USE RetryAssumption DEF IInv, None
<1>1. TypeOK'
  <2>1. BudgetOK'
    BY DEF TypeOK, BudgetOK, Reserve, NewId, StartWrite, forge, cycle, write,
          ghosts, bounds
  <2>2. HoldsOK'
    BY DEF TypeOK, HoldsOK, Reserve, NewId, StartWrite, forge, cycle, write,
          ghosts, bounds
  <2>3. CycleOK'
    BY DEF TypeOK, CycleOK, Steps, Verdicts, Outcomes, Reserve, NewId,
          StartWrite, forge, cycle, write, ghosts, bounds
  <2>4. WriteOK'
    BY NoEventTyped DEF TypeOK, WriteOK, Tries, Event, Kinds, Outcomes,
          Reserve, NewId, StartWrite, forge, cycle, write, ghosts, bounds
  <2>5. CountOK'
    BY DEF TypeOK, CountOK, Reserve, NewId, StartWrite, forge, cycle, write,
          ghosts, bounds
  <2> QED
    BY <2>1, <2>2, <2>3, <2>4, <2>5, TypePartsNext
<1>2. IdsIssued'
  BY DEF TypeOK, IdsIssued, Ahead, WritesOwn, ResultsReserved, Busy, Reserve,
          NewId, StartWrite, Event, Kinds, Outcomes, Tries, forge, cycle,
          write, ghosts, bounds
<1>3. OwnId'
  BY DEF TypeOK, OwnId, IdsIssued, Ahead, Reserving, Posted, Busy, Running,
          Reserve, NewId, StartWrite, Event, Kinds, Outcomes, Tries, forge,
          cycle, write, ghosts, bounds
<1>4. WritesOwn'
  BY DEF TypeOK, WritesOwn, Reserve, NewId, StartWrite, Event, Kinds, Outcomes,
          Tries, forge, cycle, write, ghosts, bounds
<1>5. ResultsReserved'
  BY DEF TypeOK, ResultsReserved, IdsIssued, Ahead, Busy, Running, Reserve,
          NewId, StartWrite, Event, Kinds, Outcomes, Tries, forge, cycle,
          write, ghosts, bounds
<1>6. OpenOrBlocked'
  BY DEF TypeOK, OpenOrBlocked, Reserve, NewId, StartWrite, Event, Kinds,
          Outcomes, Tries, forge, cycle, write, ghosts, bounds
<1>7. OpenIsOwn'
  BY DEF TypeOK, OpenIsOwn, IdsIssued, Ahead, Reserving, Present, Busy,
          Running, Reserve, NewId, StartWrite, Event, Kinds, Outcomes, Tries,
          forge, cycle, write, ghosts, bounds
<1>8. Guarded'
  BY DEF TypeOK, Guarded, OpenIsOwn, IdsIssued, Ahead, Reserving, Present,
          Reserve, NewId, StartWrite, Event, Kinds, Outcomes, Tries, forge,
          cycle, write, ghosts, bounds
<1>9. GoodIsProven'
  BY DEF TypeOK, GoodIsProven, OwnId, WritesOwn, Good, Posted, Ahead,
          Reserving, Reserve, NewId, StartWrite, Event, Kinds, Outcomes, Tries,
          forge, cycle, write, ghosts, bounds
<1>10. StartsClear'
  BY DEF TypeOK, StartsClear, Guarded, CountIsSpent, Allowed, Reserving,
          Reserve, NewId, StartWrite, Event, Kinds, Outcomes, Tries, forge,
          cycle, write, ghosts, bounds
<1>11. RunsWithin'
  BY DEF TypeOK, RunsWithin, StartsClear, Reserving, Running, Reserve, NewId,
          StartWrite, Event, Kinds, Outcomes, Tries, forge, cycle, write,
          ghosts, bounds
<1>12. CountIsSpent'
  BY DEF TypeOK, CountIsSpent, Resolved, OpenIsOwn, ResultsReserved, Busy,
          Running, Reserve, NewId, StartWrite, Event, Kinds, Outcomes, Tries,
          forge, cycle, write, ghosts, bounds
<1>13. PendingCount'
  BY DEF TypeOK, PendingCount, Owed, IdsIssued, OwnId, OpenIsOwn,
          ResultsReserved, WritesOwn, Posted, Ahead, Reserving, Present, Busy,
          Running, Reserve, NewId, StartWrite, Event, Kinds, Outcomes, Tries,
          forge, cycle, write, ghosts, bounds
<1>14. RunsAlone'
  BY DEF TypeOK, RunsAlone, StartsClear, Reserving, Running, Reserve, NewId,
          StartWrite, Event, Kinds, Outcomes, Tries, forge, cycle, write,
          ghosts, bounds
<1>15. SpentBounded'
  BY DEF TypeOK, SpentBounded, RunsWithin, Running, MaxAttempts, Reserve,
          NewId, StartWrite, Event, Kinds, Outcomes, Tries, forge, cycle,
          write, ghosts, bounds
<1> QED
  BY <1>1, <1>2, <1>3, <1>4, <1>5, <1>6, <1>7, <1>8, <1>9, <1>10, <1>11, <1>12, <1>13, <1>14, <1>15

LEMMA NotStartedKeeps == IInv /\ NotStarted => IInv'
<1> SUFFICES ASSUME IInv, NotStarted PROVE IInv'
  OBVIOUS
<1> USE RetryAssumption DEF IInv, None
<1>1. TypeOK'
  <2>1. BudgetOK'
    BY DEF TypeOK, BudgetOK, NotStarted, NewId, StartWrite, write, forge,
          cycle, ghosts, bounds
  <2>2. HoldsOK'
    BY DEF TypeOK, HoldsOK, NotStarted, NewId, StartWrite, write, forge, cycle,
          ghosts, bounds
  <2>3. CycleOK'
    BY DEF TypeOK, CycleOK, Steps, Verdicts, Outcomes, NotStarted, NewId,
          StartWrite, write, forge, cycle, ghosts, bounds
  <2>4. WriteOK'
    <3>1. WriteOK
      BY DEF TypeOK, WriteOK
    <3>2. ASSUME NewId PROVE [id |-> issued', kind |-> "terminal", gen |-> view.gen,
                              outcome |-> "none"] \in Event
      BY <3>2 DEF TypeOK, NewId, Event, Kinds, Outcomes
    <3> QED
      BY <3>1, <3>2, StartWriteTyped DEF NotStarted, WriteOK, write
  <2>5. CountOK'
    BY DEF TypeOK, CountOK, NotStarted, NewId, StartWrite, write, forge, cycle,
          ghosts, bounds
  <2> QED
    BY <2>1, <2>2, <2>3, <2>4, <2>5, TypePartsNext
<1>2. IdsIssued'
  BY DEF TypeOK, IdsIssued, Ahead, WritesOwn, ResultsReserved, Busy,
          NotStarted, NewId, StartWrite, Event, Kinds, Outcomes, Tries, write,
          forge, cycle, ghosts, bounds
<1>3. OwnId'
  BY DEF TypeOK, OwnId, IdsIssued, Ahead, Reserving, Posted, Busy, Running,
          NotStarted, NewId, StartWrite, Event, Kinds, Outcomes, Tries, write,
          forge, cycle, ghosts, bounds
<1>4. WritesOwn'
  BY DEF TypeOK, WritesOwn, NotStarted, NewId, StartWrite, Event, Kinds,
          Outcomes, Tries, write, forge, cycle, ghosts, bounds
<1>5. ResultsReserved'
  BY DEF TypeOK, ResultsReserved, IdsIssued, Ahead, Busy, Running, NotStarted,
          NewId, StartWrite, Event, Kinds, Outcomes, Tries, write, forge,
          cycle, ghosts, bounds
<1>6. OpenOrBlocked'
  BY DEF TypeOK, OpenOrBlocked, NotStarted, NewId, StartWrite, Event, Kinds,
          Outcomes, Tries, write, forge, cycle, ghosts, bounds
<1>7. OpenIsOwn'
  BY DEF TypeOK, OpenIsOwn, IdsIssued, Ahead, Reserving, Present, Busy,
          Running, NotStarted, NewId, StartWrite, Event, Kinds, Outcomes,
          Tries, write, forge, cycle, ghosts, bounds
<1>8. Guarded'
  BY DEF TypeOK, Guarded, OpenIsOwn, IdsIssued, Ahead, Reserving, Present,
          NotStarted, NewId, StartWrite, Event, Kinds, Outcomes, Tries, write,
          forge, cycle, ghosts, bounds
<1>9. GoodIsProven'
  BY DEF TypeOK, GoodIsProven, OwnId, WritesOwn, Good, Posted, Ahead,
          Reserving, NotStarted, NewId, StartWrite, Event, Kinds, Outcomes,
          Tries, write, forge, cycle, ghosts, bounds
<1>10. StartsClear'
  BY DEF TypeOK, StartsClear, Guarded, CountIsSpent, Allowed, Reserving,
          NotStarted, NewId, StartWrite, Event, Kinds, Outcomes, Tries, write,
          forge, cycle, ghosts, bounds
<1>11. RunsWithin'
  BY DEF TypeOK, RunsWithin, StartsClear, Reserving, Running, NotStarted,
          NewId, StartWrite, Event, Kinds, Outcomes, Tries, write, forge,
          cycle, ghosts, bounds
<1>12. CountIsSpent'
  BY DEF TypeOK, CountIsSpent, Resolved, OpenIsOwn, ResultsReserved, Busy,
          Running, NotStarted, NewId, StartWrite, Event, Kinds, Outcomes,
          Tries, write, forge, cycle, ghosts, bounds
<1>13. PendingCount'
  BY DEF TypeOK, PendingCount, Owed, IdsIssued, OwnId, OpenIsOwn,
          ResultsReserved, WritesOwn, Posted, Ahead, Reserving, Present, Busy,
          Running, NotStarted, NewId, StartWrite, Event, Kinds, Outcomes,
          Tries, write, forge, cycle, ghosts, bounds
<1>14. RunsAlone'
  BY DEF TypeOK, RunsAlone, StartsClear, Reserving, Running, NotStarted, NewId,
          StartWrite, Event, Kinds, Outcomes, Tries, write, forge, cycle,
          ghosts, bounds
<1>15. SpentBounded'
  BY DEF TypeOK, SpentBounded, RunsWithin, Running, MaxAttempts, NotStarted,
          NewId, StartWrite, Event, Kinds, Outcomes, Tries, write, forge,
          cycle, ghosts, bounds
<1> QED
  BY <1>1, <1>2, <1>3, <1>4, <1>5, <1>6, <1>7, <1>8, <1>9, <1>10, <1>11, <1>12, <1>13, <1>14, <1>15

LEMMA HoldUnreservedKeeps == IInv /\ HoldUnreserved => IInv'
<1> SUFFICES ASSUME IInv, HoldUnreserved PROVE IInv'
  OBVIOUS
<1> USE RetryAssumption DEF IInv, None
<1>1. TypeOK'
  <2>1. BudgetOK'
    BY DEF TypeOK, BudgetOK, HoldUnreserved, cycle, write, bounds, forge,
          ghosts
  <2>2. HoldsOK'
    <3>1. holds' \subseteq Nat
      <4>1. PICK g \in Nat : holds' = holds \cup {IF budget.broken THEN 1 ELSE g}
        BY DEF TypeOK, HoldUnreserved
      <4> QED
        BY <4>1 DEF TypeOK
    <3>2. heldGens' \subseteq Nat /\ UNCHANGED <<unproven, spent>>
      BY DEF TypeOK, HoldUnreserved
    <3> QED
      BY <3>1, <3>2 DEF TypeOK, HoldsOK
  <2>3. CycleOK'
    BY DEF TypeOK, CycleOK, Steps, Verdicts, Outcomes, HoldUnreserved, cycle,
          write, bounds, forge, ghosts
  <2>4. WriteOK'
    BY NoEventTyped DEF TypeOK, WriteOK, Tries, HoldUnreserved, cycle, write,
          bounds, forge, ghosts
  <2>5. CountOK'
    BY DEF TypeOK, CountOK, HoldUnreserved, cycle, write, bounds, forge, ghosts
  <2> QED
    BY <2>1, <2>2, <2>3, <2>4, <2>5, TypePartsNext
<1>2. IdsIssued'
  BY DEF TypeOK, IdsIssued, Ahead, WritesOwn, ResultsReserved, Busy,
          HoldUnreserved, cycle, write, bounds, forge, ghosts
<1>3. OwnId'
  BY DEF TypeOK, OwnId, IdsIssued, Ahead, Reserving, Posted, Busy, Running,
          HoldUnreserved, cycle, write, bounds, forge, ghosts
<1>4. WritesOwn'
  BY DEF TypeOK, WritesOwn, HoldUnreserved, cycle, write, bounds, forge, ghosts
<1>5. ResultsReserved'
  BY DEF TypeOK, ResultsReserved, IdsIssued, Ahead, Busy, Running,
          HoldUnreserved, cycle, write, bounds, forge, ghosts
<1>6. OpenOrBlocked'
  BY DEF TypeOK, OpenOrBlocked, HoldUnreserved, cycle, write, bounds, forge,
          ghosts
<1>7. OpenIsOwn'
  BY DEF TypeOK, OpenIsOwn, IdsIssued, Ahead, Reserving, Present, Busy,
          Running, HoldUnreserved, cycle, write, bounds, forge, ghosts
<1>8. Guarded'
  BY DEF TypeOK, Guarded, OpenIsOwn, IdsIssued, Ahead, Reserving, Present,
          HoldUnreserved, cycle, write, bounds, forge, ghosts
<1>9. GoodIsProven'
  BY DEF TypeOK, GoodIsProven, OwnId, WritesOwn, Good, Posted, Ahead,
          Reserving, HoldUnreserved, cycle, write, bounds, forge, ghosts
<1>10. StartsClear'
  BY DEF TypeOK, StartsClear, Guarded, CountIsSpent, Allowed, Reserving,
          HoldUnreserved, cycle, write, bounds, forge, ghosts
<1>11. RunsWithin'
  BY DEF TypeOK, RunsWithin, StartsClear, Reserving, Running, HoldUnreserved,
          cycle, write, bounds, forge, ghosts
<1>12. CountIsSpent'
  BY DEF TypeOK, CountIsSpent, Resolved, OpenIsOwn, ResultsReserved, Busy,
          Running, HoldUnreserved, cycle, write, bounds, forge, ghosts
<1>13. PendingCount'
  BY DEF TypeOK, PendingCount, Owed, IdsIssued, OwnId, OpenIsOwn,
          ResultsReserved, WritesOwn, Posted, Ahead, Reserving, Present, Busy,
          Running, HoldUnreserved, cycle, write, bounds, forge, ghosts
<1>14. RunsAlone'
  BY DEF TypeOK, RunsAlone, StartsClear, Reserving, Running, HoldUnreserved,
          cycle, write, bounds, forge, ghosts
<1>15. SpentBounded'
  BY DEF TypeOK, SpentBounded, RunsWithin, Running, MaxAttempts,
          HoldUnreserved, cycle, write, bounds, forge, ghosts
<1> QED
  BY <1>1, <1>2, <1>3, <1>4, <1>5, <1>6, <1>7, <1>8, <1>9, <1>10, <1>11, <1>12, <1>13, <1>14, <1>15

LEMMA StartKeeps == IInv /\ Start => IInv'
<1> SUFFICES ASSUME IInv, Start PROVE IInv'
  OBVIOUS
<1> USE RetryAssumption DEF IInv, None
<1>1. TypeOK'
  <2>1. BudgetOK'
    BY DEF TypeOK, BudgetOK, Start, StopWrite, Present, forge, cycle, write,
          ghosts, bounds
  <2>2. HoldsOK'
    BY DEF TypeOK, HoldsOK, Event, Start, StopWrite, Present, forge, cycle,
          write, ghosts, bounds
  <2>3. CycleOK'
    BY DEF TypeOK, CycleOK, Steps, Verdicts, Outcomes, Event, Start, StopWrite,
          Present, forge, cycle, write, ghosts, bounds
  <2>4. WriteOK'
    BY StopWriteTyped DEF Start
  <2>5. CountOK'
    BY DEF TypeOK, CountOK, Event, Start, StopWrite, Present, forge, cycle,
          write, ghosts, bounds
  <2> QED
    BY <2>1, <2>2, <2>3, <2>4, <2>5, TypePartsNext
<1>2. IdsIssued'
  BY DEF TypeOK, IdsIssued, Ahead, WritesOwn, ResultsReserved, Busy, Start,
          StopWrite, NoEvent, Present, Event, Kinds, Outcomes, forge, cycle,
          write, ghosts, bounds
<1>3. OwnId'
  BY DEF TypeOK, OwnId, IdsIssued, Ahead, Reserving, Posted, Busy, Running,
          Start, StopWrite, NoEvent, Present, Event, Kinds, Outcomes, forge,
          cycle, write, ghosts, bounds
<1>4. WritesOwn'
  BY DEF TypeOK, WritesOwn, Start, StopWrite, NoEvent, Present, Event, Kinds,
          Outcomes, forge, cycle, write, ghosts, bounds
<1>5. ResultsReserved'
  BY DEF TypeOK, ResultsReserved, IdsIssued, Ahead, Busy, Running, Start,
          StopWrite, NoEvent, Present, Event, Kinds, Outcomes, forge, cycle,
          write, ghosts, bounds
<1>6. OpenOrBlocked'
  BY DEF TypeOK, OpenOrBlocked, Start, StopWrite, NoEvent, Present, Event,
          Kinds, Outcomes, forge, cycle, write, ghosts, bounds
<1>7. OpenIsOwn'
  BY DEF TypeOK, OpenIsOwn, IdsIssued, Ahead, Reserving, Present, Busy,
          Running, Start, StopWrite, NoEvent, Event, Kinds, Outcomes, forge,
          cycle, write, ghosts, bounds
<1>8. Guarded'
  BY DEF TypeOK, Guarded, OpenIsOwn, IdsIssued, Ahead, Reserving, Present,
          Start, StopWrite, NoEvent, Event, Kinds, Outcomes, forge, cycle,
          write, ghosts, bounds
<1>9. GoodIsProven'
  BY DEF TypeOK, GoodIsProven, OwnId, WritesOwn, Good, Posted, Ahead,
          Reserving, Start, StopWrite, NoEvent, Present, Event, Kinds,
          Outcomes, forge, cycle, write, ghosts, bounds
<1>10. StartsClear'
  BY DEF TypeOK, StartsClear, Guarded, CountIsSpent, Allowed, Reserving, Start,
          StopWrite, NoEvent, Present, Event, Kinds, Outcomes, forge, cycle,
          write, ghosts, bounds
<1>11. RunsWithin'
  BY DEF TypeOK, RunsWithin, StartsClear, Reserving, Running, Start, StopWrite,
          NoEvent, Present, Event, Kinds, Outcomes, forge, cycle, write,
          ghosts, bounds
<1>12. CountIsSpent'
  BY DEF TypeOK, CountIsSpent, Resolved, OpenIsOwn, ResultsReserved, Busy,
          Running, Start, StopWrite, NoEvent, Present, Event, Kinds, Outcomes,
          forge, cycle, write, ghosts, bounds
<1>13. PendingCount'
  BY DEF TypeOK, PendingCount, Owed, IdsIssued, OwnId, OpenIsOwn,
          ResultsReserved, WritesOwn, Posted, Ahead, Reserving, Present, Busy,
          Running, Start, StopWrite, NoEvent, Event, Kinds, Outcomes, forge,
          cycle, write, ghosts, bounds
<1>14. RunsAlone'
  BY DEF TypeOK, RunsAlone, StartsClear, Reserving, Running, Start, StopWrite,
          NoEvent, Present, Event, Kinds, Outcomes, forge, cycle, write,
          ghosts, bounds
<1>15. SpentBounded'
  BY DEF TypeOK, SpentBounded, RunsWithin, Running, MaxAttempts, Start,
          StopWrite, NoEvent, Present, Event, Kinds, Outcomes, forge, cycle,
          write, ghosts, bounds
<1> QED
  BY <1>1, <1>2, <1>3, <1>4, <1>5, <1>6, <1>7, <1>8, <1>9, <1>10, <1>11, <1>12, <1>13, <1>14, <1>15

LEMMA NotReservedKeeps == IInv /\ NotReserved => IInv'
<1> SUFFICES ASSUME IInv, NotReserved PROVE IInv'
  OBVIOUS
<1> USE RetryAssumption DEF IInv, None
<1>1. TypeOK'
  <2>1. BudgetOK'
    BY DEF TypeOK, BudgetOK, NotReserved, StopWrite, ghosts, bounds, forge,
          cycle, write
  <2>2. HoldsOK'
    BY DEF TypeOK, HoldsOK, NotReserved, StopWrite, ghosts, bounds, forge,
          cycle, write
  <2>3. CycleOK'
    BY DEF TypeOK, CycleOK, Steps, Verdicts, Outcomes, NotReserved, StopWrite,
          ghosts, bounds, forge, cycle, write
  <2>4. WriteOK'
    BY StopWriteTyped DEF NotReserved
  <2>5. CountOK'
    BY DEF TypeOK, CountOK, NotReserved, StopWrite, ghosts, bounds, forge,
          cycle, write
  <2> QED
    BY <2>1, <2>2, <2>3, <2>4, <2>5, TypePartsNext
<1>2. IdsIssued'
  BY DEF TypeOK, IdsIssued, Ahead, WritesOwn, ResultsReserved, Busy,
          NotReserved, StopWrite, NoEvent, Event, Kinds, Outcomes, ghosts,
          bounds, forge, cycle, write
<1>3. OwnId'
  BY DEF TypeOK, OwnId, IdsIssued, Ahead, Reserving, Posted, Busy, Running,
          NotReserved, StopWrite, NoEvent, Event, Kinds, Outcomes, ghosts,
          bounds, forge, cycle, write
<1>4. WritesOwn'
  BY DEF TypeOK, WritesOwn, NotReserved, StopWrite, NoEvent, Event, Kinds,
          Outcomes, ghosts, bounds, forge, cycle, write
<1>5. ResultsReserved'
  BY DEF TypeOK, ResultsReserved, IdsIssued, Ahead, Busy, Running, NotReserved,
          StopWrite, NoEvent, Event, Kinds, Outcomes, ghosts, bounds, forge,
          cycle, write
<1>6. OpenOrBlocked'
  BY DEF TypeOK, OpenOrBlocked, NotReserved, StopWrite, NoEvent, Event, Kinds,
          Outcomes, ghosts, bounds, forge, cycle, write
<1>7. OpenIsOwn'
  BY DEF TypeOK, OpenIsOwn, IdsIssued, Ahead, Reserving, Present, Busy,
          Running, NotReserved, StopWrite, NoEvent, Event, Kinds, Outcomes,
          ghosts, bounds, forge, cycle, write
<1>8. Guarded'
  BY DEF TypeOK, Guarded, OpenIsOwn, IdsIssued, Ahead, Reserving, Present,
          NotReserved, StopWrite, NoEvent, Event, Kinds, Outcomes, ghosts,
          bounds, forge, cycle, write
<1>9. GoodIsProven'
  BY DEF TypeOK, GoodIsProven, OwnId, WritesOwn, Good, Posted, Ahead,
          Reserving, NotReserved, StopWrite, NoEvent, Event, Kinds, Outcomes,
          ghosts, bounds, forge, cycle, write
<1>10. StartsClear'
  BY DEF TypeOK, StartsClear, Guarded, CountIsSpent, Allowed, Reserving,
          NotReserved, StopWrite, NoEvent, Event, Kinds, Outcomes, ghosts,
          bounds, forge, cycle, write
<1>11. RunsWithin'
  BY DEF TypeOK, RunsWithin, StartsClear, Reserving, Running, NotReserved,
          StopWrite, NoEvent, Event, Kinds, Outcomes, ghosts, bounds, forge,
          cycle, write
<1>12. CountIsSpent'
  BY DEF TypeOK, CountIsSpent, Resolved, OpenIsOwn, ResultsReserved, Busy,
          Running, NotReserved, StopWrite, NoEvent, Event, Kinds, Outcomes,
          ghosts, bounds, forge, cycle, write
<1>13. PendingCount'
  BY DEF TypeOK, PendingCount, Owed, IdsIssued, OwnId, OpenIsOwn,
          ResultsReserved, WritesOwn, Posted, Ahead, Reserving, Present, Busy,
          Running, NotReserved, StopWrite, NoEvent, Event, Kinds, Outcomes,
          ghosts, bounds, forge, cycle, write
<1>14. RunsAlone'
  BY DEF TypeOK, RunsAlone, StartsClear, Reserving, Running, NotReserved,
          StopWrite, NoEvent, Event, Kinds, Outcomes, ghosts, bounds, forge,
          cycle, write
<1>15. SpentBounded'
  BY DEF TypeOK, SpentBounded, RunsWithin, Running, MaxAttempts, NotReserved,
          StopWrite, NoEvent, Event, Kinds, Outcomes, ghosts, bounds, forge,
          cycle, write
<1> QED
  BY <1>1, <1>2, <1>3, <1>4, <1>5, <1>6, <1>7, <1>8, <1>9, <1>10, <1>11, <1>12, <1>13, <1>14, <1>15

LEMMA RunCiKeeps == IInv /\ RunCi => IInv'
<1> SUFFICES ASSUME IInv, RunCi PROVE IInv'
  OBVIOUS
<1> USE RetryAssumption DEF IInv, None
<1>1. TypeOK'
  <2>1. BudgetOK'
    BY DEF TypeOK, BudgetOK, RunCi, StageResult, Ended, ProcessEnds, write,
          bounds, forge, cycle, ghosts
  <2>2. HoldsOK'
    BY EndedTyped DEF TypeOK, HoldsOK, RunCi, StageResult, ProcessEnds, write,
          bounds, forge, cycle, ghosts
  <2>3. CycleOK'
    BY DEF TypeOK, CycleOK, Steps, Verdicts, Outcomes, RunCi, StageResult,
          Ended, ProcessEnds, write, bounds, forge, cycle, ghosts
  <2>4. WriteOK'
    BY NoEventTyped DEF TypeOK, WriteOK, Tries, RunCi, StageResult, Ended,
          ProcessEnds, write, bounds, forge, cycle, ghosts
  <2>5. CountOK'
    BY DEF TypeOK, CountOK, RunCi, StageResult, Ended, ProcessEnds, write,
          bounds, forge, cycle, ghosts
  <2> QED
    BY <2>1, <2>2, <2>3, <2>4, <2>5, TypePartsNext
<1>2. IdsIssued'
  BY DEF TypeOK, IdsIssued, Ahead, WritesOwn, ResultsReserved, Busy, RunCi,
          StageResult, Ended, ProcessEnds, Outcomes, write, bounds, forge,
          cycle, ghosts
<1>3. OwnId'
  BY DEF TypeOK, OwnId, IdsIssued, Ahead, Reserving, Posted, Busy, Running,
          RunCi, StageResult, Ended, ProcessEnds, Outcomes, write, bounds,
          forge, cycle, ghosts
<1>4. WritesOwn'
  BY DEF TypeOK, WritesOwn, RunCi, StageResult, Ended, ProcessEnds, Outcomes,
          write, bounds, forge, cycle, ghosts
<1>5. ResultsReserved'
  BY DEF TypeOK, ResultsReserved, IdsIssued, Ahead, Busy, Running, RunCi,
          StageResult, Ended, ProcessEnds, Outcomes, write, bounds, forge,
          cycle, ghosts
<1>6. OpenOrBlocked'
  BY DEF TypeOK, OpenOrBlocked, RunCi, StageResult, Ended, ProcessEnds,
          Outcomes, write, bounds, forge, cycle, ghosts
<1>7. OpenIsOwn'
  BY DEF TypeOK, OpenIsOwn, IdsIssued, Ahead, Reserving, Present, Busy,
          Running, RunCi, StageResult, Ended, ProcessEnds, Outcomes, write,
          bounds, forge, cycle, ghosts
<1>8. Guarded'
  BY DEF TypeOK, Guarded, OpenIsOwn, IdsIssued, Ahead, Reserving, Present,
          RunCi, StageResult, Ended, ProcessEnds, Outcomes, write, bounds,
          forge, cycle, ghosts
<1>9. GoodIsProven'
  BY DEF TypeOK, GoodIsProven, OwnId, WritesOwn, Good, Posted, Ahead,
          Reserving, RunCi, StageResult, Ended, ProcessEnds, Outcomes, write,
          bounds, forge, cycle, ghosts
<1>10. StartsClear'
  BY DEF TypeOK, StartsClear, Guarded, CountIsSpent, Allowed, Reserving, RunCi,
          StageResult, Ended, ProcessEnds, Outcomes, write, bounds, forge,
          cycle, ghosts
<1>11. RunsWithin'
  BY DEF TypeOK, RunsWithin, StartsClear, Reserving, Running, RunCi,
          StageResult, Ended, ProcessEnds, Outcomes, write, bounds, forge,
          cycle, ghosts
<1>12. CountIsSpent'
  BY DEF TypeOK, CountIsSpent, Resolved, OpenIsOwn, ResultsReserved, Busy,
          Running, RunCi, StageResult, Ended, ProcessEnds, Outcomes, write,
          bounds, forge, cycle, ghosts
<1>13. PendingCount'
  BY DEF TypeOK, PendingCount, Owed, IdsIssued, OwnId, OpenIsOwn,
          ResultsReserved, WritesOwn, Posted, Ahead, Reserving, Present, Busy,
          Running, RunCi, StageResult, Ended, ProcessEnds, Outcomes, write,
          bounds, forge, cycle, ghosts
<1>14. RunsAlone'
  BY DEF TypeOK, RunsAlone, StartsClear, Reserving, Running, RunCi,
          StageResult, Ended, ProcessEnds, Outcomes, write, bounds, forge,
          cycle, ghosts
<1>15. SpentBounded'
  BY DEF TypeOK, SpentBounded, RunsWithin, Running, MaxAttempts, RunCi,
          StageResult, Ended, ProcessEnds, Outcomes, write, bounds, forge,
          cycle, ghosts
<1> QED
  BY <1>1, <1>2, <1>3, <1>4, <1>5, <1>6, <1>7, <1>8, <1>9, <1>10, <1>11, <1>12, <1>13, <1>14, <1>15

LEMMA MergeTimeoutKeeps == IInv /\ MergeTimeout => IInv'
<1> SUFFICES ASSUME IInv, MergeTimeout PROVE IInv'
  OBVIOUS
<1> USE RetryAssumption DEF IInv, None
<1>1. TypeOK'
  <2>1. BudgetOK'
    BY DEF TypeOK, BudgetOK, MergeTimeout, Ended, write, bounds, forge, cycle,
          ghosts
  <2>2. HoldsOK'
    BY EndedTyped DEF TypeOK, HoldsOK, MergeTimeout, write, bounds, forge,
          cycle, ghosts
  <2>3. CycleOK'
    BY DEF TypeOK, CycleOK, Steps, Verdicts, Outcomes, MergeTimeout, Ended,
          write, bounds, forge, cycle, ghosts
  <2>4. WriteOK'
    BY NoEventTyped DEF TypeOK, WriteOK, Tries, MergeTimeout, Ended, write,
          bounds, forge, cycle, ghosts
  <2>5. CountOK'
    BY DEF TypeOK, CountOK, MergeTimeout, Ended, write, bounds, forge, cycle,
          ghosts
  <2> QED
    BY <2>1, <2>2, <2>3, <2>4, <2>5, TypePartsNext
<1>2. IdsIssued'
  BY DEF TypeOK, IdsIssued, Ahead, WritesOwn, ResultsReserved, Busy,
          MergeTimeout, Ended, Outcomes, write, bounds, forge, cycle, ghosts
<1>3. OwnId'
  BY DEF TypeOK, OwnId, IdsIssued, Ahead, Reserving, Posted, Busy, Running,
          MergeTimeout, Ended, Outcomes, write, bounds, forge, cycle, ghosts
<1>4. WritesOwn'
  BY DEF TypeOK, WritesOwn, MergeTimeout, Ended, Outcomes, write, bounds,
          forge, cycle, ghosts
<1>5. ResultsReserved'
  BY DEF TypeOK, ResultsReserved, IdsIssued, Ahead, Busy, Running,
          MergeTimeout, Ended, Outcomes, write, bounds, forge, cycle, ghosts
<1>6. OpenOrBlocked'
  BY DEF TypeOK, OpenOrBlocked, MergeTimeout, Ended, Outcomes, write, bounds,
          forge, cycle, ghosts
<1>7. OpenIsOwn'
  BY DEF TypeOK, OpenIsOwn, IdsIssued, Ahead, Reserving, Present, Busy,
          Running, MergeTimeout, Ended, Outcomes, write, bounds, forge, cycle,
          ghosts
<1>8. Guarded'
  BY DEF TypeOK, Guarded, OpenIsOwn, IdsIssued, Ahead, Reserving, Present,
          MergeTimeout, Ended, Outcomes, write, bounds, forge, cycle, ghosts
<1>9. GoodIsProven'
  BY DEF TypeOK, GoodIsProven, OwnId, WritesOwn, Good, Posted, Ahead,
          Reserving, MergeTimeout, Ended, Outcomes, write, bounds, forge,
          cycle, ghosts
<1>10. StartsClear'
  BY DEF TypeOK, StartsClear, Guarded, CountIsSpent, Allowed, Reserving,
          MergeTimeout, Ended, Outcomes, write, bounds, forge, cycle, ghosts
<1>11. RunsWithin'
  BY DEF TypeOK, RunsWithin, StartsClear, Reserving, Running, MergeTimeout,
          Ended, Outcomes, write, bounds, forge, cycle, ghosts
<1>12. CountIsSpent'
  BY DEF TypeOK, CountIsSpent, Resolved, OpenIsOwn, ResultsReserved, Busy,
          Running, MergeTimeout, Ended, Outcomes, write, bounds, forge, cycle,
          ghosts
<1>13. PendingCount'
  BY DEF TypeOK, PendingCount, Owed, IdsIssued, OwnId, OpenIsOwn,
          ResultsReserved, WritesOwn, Posted, Ahead, Reserving, Present, Busy,
          Running, MergeTimeout, Ended, Outcomes, write, bounds, forge, cycle,
          ghosts
<1>14. RunsAlone'
  BY DEF TypeOK, RunsAlone, StartsClear, Reserving, Running, MergeTimeout,
          Ended, Outcomes, write, bounds, forge, cycle, ghosts
<1>15. SpentBounded'
  BY DEF TypeOK, SpentBounded, RunsWithin, Running, MaxAttempts, MergeTimeout,
          Ended, Outcomes, write, bounds, forge, cycle, ghosts
<1> QED
  BY <1>1, <1>2, <1>3, <1>4, <1>5, <1>6, <1>7, <1>8, <1>9, <1>10, <1>11, <1>12, <1>13, <1>14, <1>15

LEMMA ReportFailureKeeps == IInv /\ ReportFailure => IInv'
<1> SUFFICES ASSUME IInv, ReportFailure PROVE IInv'
  OBVIOUS
<1> USE RetryAssumption DEF IInv, None
<1>1. TypeOK'
  <2>1. BudgetOK'
    BY DEF TypeOK, BudgetOK, ReportFailure, Ended, write, bounds, forge, cycle,
          ghosts
  <2>2. HoldsOK'
    BY EndedTyped DEF TypeOK, HoldsOK, ReportFailure, write, bounds, forge,
          cycle, ghosts
  <2>3. CycleOK'
    BY DEF TypeOK, CycleOK, Steps, Verdicts, Outcomes, ReportFailure, Ended,
          write, bounds, forge, cycle, ghosts
  <2>4. WriteOK'
    BY NoEventTyped DEF TypeOK, WriteOK, Tries, ReportFailure, Ended, write,
          bounds, forge, cycle, ghosts
  <2>5. CountOK'
    BY DEF TypeOK, CountOK, ReportFailure, Ended, write, bounds, forge, cycle,
          ghosts
  <2> QED
    BY <2>1, <2>2, <2>3, <2>4, <2>5, TypePartsNext
<1>2. IdsIssued'
  BY DEF TypeOK, IdsIssued, Ahead, WritesOwn, ResultsReserved, Busy,
          ReportFailure, Ended, Outcomes, write, bounds, forge, cycle, ghosts
<1>3. OwnId'
  BY DEF TypeOK, OwnId, IdsIssued, Ahead, Reserving, Posted, Busy, Running,
          ReportFailure, Ended, Outcomes, write, bounds, forge, cycle, ghosts
<1>4. WritesOwn'
  BY DEF TypeOK, WritesOwn, ReportFailure, Ended, Outcomes, write, bounds,
          forge, cycle, ghosts
<1>5. ResultsReserved'
  BY DEF TypeOK, ResultsReserved, IdsIssued, Ahead, Busy, Running,
          ReportFailure, Ended, Outcomes, write, bounds, forge, cycle, ghosts
<1>6. OpenOrBlocked'
  BY DEF TypeOK, OpenOrBlocked, ReportFailure, Ended, Outcomes, write, bounds,
          forge, cycle, ghosts
<1>7. OpenIsOwn'
  BY DEF TypeOK, OpenIsOwn, IdsIssued, Ahead, Reserving, Present, Busy,
          Running, ReportFailure, Ended, Outcomes, write, bounds, forge, cycle,
          ghosts
<1>8. Guarded'
  BY DEF TypeOK, Guarded, OpenIsOwn, IdsIssued, Ahead, Reserving, Present,
          ReportFailure, Ended, Outcomes, write, bounds, forge, cycle, ghosts
<1>9. GoodIsProven'
  BY DEF TypeOK, GoodIsProven, OwnId, WritesOwn, Good, Posted, Ahead,
          Reserving, ReportFailure, Ended, Outcomes, write, bounds, forge,
          cycle, ghosts
<1>10. StartsClear'
  BY DEF TypeOK, StartsClear, Guarded, CountIsSpent, Allowed, Reserving,
          ReportFailure, Ended, Outcomes, write, bounds, forge, cycle, ghosts
<1>11. RunsWithin'
  BY DEF TypeOK, RunsWithin, StartsClear, Reserving, Running, ReportFailure,
          Ended, Outcomes, write, bounds, forge, cycle, ghosts
<1>12. CountIsSpent'
  BY DEF TypeOK, CountIsSpent, Resolved, OpenIsOwn, ResultsReserved, Busy,
          Running, ReportFailure, Ended, Outcomes, write, bounds, forge, cycle,
          ghosts
<1>13. PendingCount'
  BY DEF TypeOK, PendingCount, Owed, IdsIssued, OwnId, OpenIsOwn,
          ResultsReserved, WritesOwn, Posted, Ahead, Reserving, Present, Busy,
          Running, ReportFailure, Ended, Outcomes, write, bounds, forge, cycle,
          ghosts
<1>14. RunsAlone'
  BY DEF TypeOK, RunsAlone, StartsClear, Reserving, Running, ReportFailure,
          Ended, Outcomes, write, bounds, forge, cycle, ghosts
<1>15. SpentBounded'
  BY DEF TypeOK, SpentBounded, RunsWithin, Running, MaxAttempts, ReportFailure,
          Ended, Outcomes, write, bounds, forge, cycle, ghosts
<1> QED
  BY <1>1, <1>2, <1>3, <1>4, <1>5, <1>6, <1>7, <1>8, <1>9, <1>10, <1>11, <1>12, <1>13, <1>14, <1>15

LEMMA PublishKeeps == IInv /\ Publish => IInv'
<1> SUFFICES ASSUME IInv, Publish PROVE IInv'
  OBVIOUS
<1> USE RetryAssumption DEF IInv, None
<1>1. TypeOK'
  <2>1. BudgetOK'
    BY DEF TypeOK, BudgetOK, Publish, Ended, write, bounds, forge, cycle,
          ghosts
  <2>2. HoldsOK'
    BY EndedTyped DEF TypeOK, HoldsOK, Publish, write, bounds, forge, cycle,
          ghosts
  <2>3. CycleOK'
    BY DEF TypeOK, CycleOK, Steps, Verdicts, Outcomes, Publish, Ended, write,
          bounds, forge, cycle, ghosts
  <2>4. WriteOK'
    BY NoEventTyped DEF TypeOK, WriteOK, Tries, Publish, Ended, write, bounds,
          forge, cycle, ghosts
  <2>5. CountOK'
    BY DEF TypeOK, CountOK, Publish, Ended, write, bounds, forge, cycle, ghosts
  <2> QED
    BY <2>1, <2>2, <2>3, <2>4, <2>5, TypePartsNext
<1>2. IdsIssued'
  BY DEF TypeOK, IdsIssued, Ahead, WritesOwn, ResultsReserved, Busy, Publish,
          Ended, Outcomes, write, bounds, forge, cycle, ghosts
<1>3. OwnId'
  BY DEF TypeOK, OwnId, IdsIssued, Ahead, Reserving, Posted, Busy, Running,
          Publish, Ended, Outcomes, write, bounds, forge, cycle, ghosts
<1>4. WritesOwn'
  BY DEF TypeOK, WritesOwn, Publish, Ended, Outcomes, write, bounds, forge,
          cycle, ghosts
<1>5. ResultsReserved'
  BY DEF TypeOK, ResultsReserved, IdsIssued, Ahead, Busy, Running, Publish,
          Ended, Outcomes, write, bounds, forge, cycle, ghosts
<1>6. OpenOrBlocked'
  BY DEF TypeOK, OpenOrBlocked, Publish, Ended, Outcomes, write, bounds, forge,
          cycle, ghosts
<1>7. OpenIsOwn'
  BY DEF TypeOK, OpenIsOwn, IdsIssued, Ahead, Reserving, Present, Busy,
          Running, Publish, Ended, Outcomes, write, bounds, forge, cycle,
          ghosts
<1>8. Guarded'
  BY DEF TypeOK, Guarded, OpenIsOwn, IdsIssued, Ahead, Reserving, Present,
          Publish, Ended, Outcomes, write, bounds, forge, cycle, ghosts
<1>9. GoodIsProven'
  BY DEF TypeOK, GoodIsProven, OwnId, WritesOwn, Good, Posted, Ahead,
          Reserving, Publish, Ended, Outcomes, write, bounds, forge, cycle,
          ghosts
<1>10. StartsClear'
  BY DEF TypeOK, StartsClear, Guarded, CountIsSpent, Allowed, Reserving,
          Publish, Ended, Outcomes, write, bounds, forge, cycle, ghosts
<1>11. RunsWithin'
  BY DEF TypeOK, RunsWithin, StartsClear, Reserving, Running, Publish, Ended,
          Outcomes, write, bounds, forge, cycle, ghosts
<1>12. CountIsSpent'
  BY DEF TypeOK, CountIsSpent, Resolved, OpenIsOwn, ResultsReserved, Busy,
          Running, Publish, Ended, Outcomes, write, bounds, forge, cycle,
          ghosts
<1>13. PendingCount'
  BY DEF TypeOK, PendingCount, Owed, IdsIssued, OwnId, OpenIsOwn,
          ResultsReserved, WritesOwn, Posted, Ahead, Reserving, Present, Busy,
          Running, Publish, Ended, Outcomes, write, bounds, forge, cycle,
          ghosts
<1>14. RunsAlone'
  BY DEF TypeOK, RunsAlone, StartsClear, Reserving, Running, Publish, Ended,
          Outcomes, write, bounds, forge, cycle, ghosts
<1>15. SpentBounded'
  BY DEF TypeOK, SpentBounded, RunsWithin, Running, MaxAttempts, Publish,
          Ended, Outcomes, write, bounds, forge, cycle, ghosts
<1> QED
  BY <1>1, <1>2, <1>3, <1>4, <1>5, <1>6, <1>7, <1>8, <1>9, <1>10, <1>11, <1>12, <1>13, <1>14, <1>15

LEMMA HoldAttemptKeeps == IInv /\ HoldAttempt => IInv'
<1> SUFFICES ASSUME IInv, HoldAttempt PROVE IInv'
  OBVIOUS
<1> USE RetryAssumption DEF IInv, None
<1>1. TypeOK'
  <2>1. BudgetOK'
    BY DEF TypeOK, BudgetOK, HoldAttempt, Holding, write, bounds, forge, cycle,
          ghosts
  <2>2. HoldsOK'
    BY DEF TypeOK, HoldsOK, HoldAttempt, Holding, write, bounds, forge, cycle,
          ghosts
  <2>3. CycleOK'
    BY DEF TypeOK, CycleOK, Steps, Verdicts, Outcomes, HoldAttempt, Holding,
          write, bounds, forge, cycle, ghosts
  <2>4. WriteOK'
    BY NoEventTyped DEF TypeOK, WriteOK, Tries, HoldAttempt, Holding, write,
          bounds, forge, cycle, ghosts
  <2>5. CountOK'
    BY DEF TypeOK, CountOK, HoldAttempt, Holding, write, bounds, forge, cycle,
          ghosts
  <2> QED
    BY <2>1, <2>2, <2>3, <2>4, <2>5, TypePartsNext
<1>2. IdsIssued'
  BY DEF TypeOK, IdsIssued, Ahead, WritesOwn, ResultsReserved, Busy,
          HoldAttempt, Holding, write, bounds, forge, cycle, ghosts
<1>3. OwnId'
  BY DEF TypeOK, OwnId, IdsIssued, Ahead, Reserving, Posted, Busy, Running,
          HoldAttempt, Holding, write, bounds, forge, cycle, ghosts
<1>4. WritesOwn'
  BY DEF TypeOK, WritesOwn, HoldAttempt, Holding, write, bounds, forge, cycle,
          ghosts
<1>5. ResultsReserved'
  BY DEF TypeOK, ResultsReserved, IdsIssued, Ahead, Busy, Running, HoldAttempt,
          Holding, write, bounds, forge, cycle, ghosts
<1>6. OpenOrBlocked'
  BY DEF TypeOK, OpenOrBlocked, HoldAttempt, Holding, write, bounds, forge,
          cycle, ghosts
<1>7. OpenIsOwn'
  BY DEF TypeOK, OpenIsOwn, IdsIssued, Ahead, Reserving, Present, Busy,
          Running, HoldAttempt, Holding, write, bounds, forge, cycle, ghosts
<1>8. Guarded'
  BY DEF TypeOK, Guarded, OpenIsOwn, IdsIssued, Ahead, Reserving, Present,
          HoldAttempt, Holding, write, bounds, forge, cycle, ghosts
<1>9. GoodIsProven'
  BY DEF TypeOK, GoodIsProven, OwnId, WritesOwn, Good, Posted, Ahead,
          Reserving, HoldAttempt, Holding, write, bounds, forge, cycle, ghosts
<1>10. StartsClear'
  BY DEF TypeOK, StartsClear, Guarded, CountIsSpent, Allowed, Reserving,
          HoldAttempt, Holding, write, bounds, forge, cycle, ghosts
<1>11. RunsWithin'
  BY DEF TypeOK, RunsWithin, StartsClear, Reserving, Running, HoldAttempt,
          Holding, write, bounds, forge, cycle, ghosts
<1>12. CountIsSpent'
  BY DEF TypeOK, CountIsSpent, Resolved, OpenIsOwn, ResultsReserved, Busy,
          Running, HoldAttempt, Holding, write, bounds, forge, cycle, ghosts
<1>13. PendingCount'
  BY DEF TypeOK, PendingCount, Owed, IdsIssued, OwnId, OpenIsOwn,
          ResultsReserved, WritesOwn, Posted, Ahead, Reserving, Present, Busy,
          Running, HoldAttempt, Holding, write, bounds, forge, cycle, ghosts
<1>14. RunsAlone'
  BY DEF TypeOK, RunsAlone, StartsClear, Reserving, Running, HoldAttempt,
          Holding, write, bounds, forge, cycle, ghosts
<1>15. SpentBounded'
  BY DEF TypeOK, SpentBounded, RunsWithin, Running, MaxAttempts, HoldAttempt,
          Holding, write, bounds, forge, cycle, ghosts
<1> QED
  BY <1>1, <1>2, <1>3, <1>4, <1>5, <1>6, <1>7, <1>8, <1>9, <1>10, <1>11, <1>12, <1>13, <1>14, <1>15

LEMMA RecordKeeps == IInv /\ Record => IInv'
<1> SUFFICES ASSUME IInv, Record PROVE IInv'
  OBVIOUS
<1> USE RetryAssumption DEF IInv, None
<1>1. TypeOK'
  <2>1. BudgetOK'
    BY DEF TypeOK, BudgetOK, Record, StartWrite, ghosts, bounds, forge, cycle,
          write
  <2>2. HoldsOK'
    BY DEF TypeOK, HoldsOK, Record, StartWrite, ghosts, bounds, forge, cycle,
          write
  <2>3. CycleOK'
    BY DEF TypeOK, CycleOK, Steps, Verdicts, Outcomes, Record, StartWrite,
          ghosts, bounds, forge, cycle, write
  <2>4. WriteOK'
    BY NoEventTyped DEF TypeOK, WriteOK, Tries, Event, Kinds, Outcomes, Record,
          StartWrite, ghosts, bounds, forge, cycle, write
  <2>5. CountOK'
    BY DEF TypeOK, CountOK, Record, StartWrite, ghosts, bounds, forge, cycle,
          write
  <2> QED
    BY <2>1, <2>2, <2>3, <2>4, <2>5, TypePartsNext
<1>2. IdsIssued'
  BY DEF TypeOK, IdsIssued, Ahead, WritesOwn, ResultsReserved, Busy, Record,
          StartWrite, Event, Kinds, Outcomes, Tries, ghosts, bounds, forge,
          cycle, write
<1>3. OwnId'
  BY DEF TypeOK, OwnId, IdsIssued, Ahead, Reserving, Posted, Busy, Running,
          Record, StartWrite, Event, Kinds, Outcomes, Tries, ghosts, bounds,
          forge, cycle, write
<1>4. WritesOwn'
  BY DEF TypeOK, WritesOwn, Record, StartWrite, Event, Kinds, Outcomes, Tries,
          ghosts, bounds, forge, cycle, write
<1>5. ResultsReserved'
  BY DEF TypeOK, ResultsReserved, IdsIssued, Ahead, Busy, Running, Record,
          StartWrite, Event, Kinds, Outcomes, Tries, ghosts, bounds, forge,
          cycle, write
<1>6. OpenOrBlocked'
  BY DEF TypeOK, OpenOrBlocked, Record, StartWrite, Event, Kinds, Outcomes,
          Tries, ghosts, bounds, forge, cycle, write
<1>7. OpenIsOwn'
  BY DEF TypeOK, OpenIsOwn, IdsIssued, Ahead, Reserving, Present, Busy,
          Running, Record, StartWrite, Event, Kinds, Outcomes, Tries, ghosts,
          bounds, forge, cycle, write
<1>8. Guarded'
  BY DEF TypeOK, Guarded, OpenIsOwn, IdsIssued, Ahead, Reserving, Present,
          Record, StartWrite, Event, Kinds, Outcomes, Tries, ghosts, bounds,
          forge, cycle, write
<1>9. GoodIsProven'
  BY DEF TypeOK, GoodIsProven, OwnId, WritesOwn, Good, Posted, Ahead,
          Reserving, Record, StartWrite, Event, Kinds, Outcomes, Tries, ghosts,
          bounds, forge, cycle, write
<1>10. StartsClear'
  BY DEF TypeOK, StartsClear, Guarded, CountIsSpent, Allowed, Reserving,
          Record, StartWrite, Event, Kinds, Outcomes, Tries, ghosts, bounds,
          forge, cycle, write
<1>11. RunsWithin'
  BY DEF TypeOK, RunsWithin, StartsClear, Reserving, Running, Record,
          StartWrite, Event, Kinds, Outcomes, Tries, ghosts, bounds, forge,
          cycle, write
<1>12. CountIsSpent'
  BY DEF TypeOK, CountIsSpent, Resolved, OpenIsOwn, ResultsReserved, Busy,
          Running, Record, StartWrite, Event, Kinds, Outcomes, Tries, ghosts,
          bounds, forge, cycle, write
<1>13. PendingCount'
  BY DEF TypeOK, PendingCount, Owed, IdsIssued, OwnId, OpenIsOwn,
          ResultsReserved, WritesOwn, Posted, Ahead, Reserving, Present, Busy,
          Running, Record, StartWrite, Event, Kinds, Outcomes, Tries, ghosts,
          bounds, forge, cycle, write
<1>14. RunsAlone'
  BY DEF TypeOK, RunsAlone, StartsClear, Reserving, Running, Record,
          StartWrite, Event, Kinds, Outcomes, Tries, ghosts, bounds, forge,
          cycle, write
<1>15. SpentBounded'
  BY DEF TypeOK, SpentBounded, RunsWithin, Running, MaxAttempts, Record,
          StartWrite, Event, Kinds, Outcomes, Tries, ghosts, bounds, forge,
          cycle, write
<1> QED
  BY <1>1, <1>2, <1>3, <1>4, <1>5, <1>6, <1>7, <1>8, <1>9, <1>10, <1>11, <1>12, <1>13, <1>14, <1>15

LEMMA RecordedKeeps == IInv /\ Recorded => IInv'
<1> SUFFICES ASSUME IInv, Recorded PROVE IInv'
  OBVIOUS
<1> USE RetryAssumption DEF IInv, None
<1>1. TypeOK'
  <2>1. BudgetOK'
    BY DEF TypeOK, BudgetOK, Recorded, StartWrite, StopWrite, Holding, bounds,
          forge, cycle, write, ghosts
  <2>2. HoldsOK'
    BY DEF TypeOK, HoldsOK, Recorded, StartWrite, StopWrite, Holding, bounds,
          forge, cycle, write, ghosts
  <2>3. CycleOK'
    BY DEF TypeOK, CycleOK, Steps, Verdicts, Outcomes, Recorded, StartWrite,
          StopWrite, Holding, bounds, forge, cycle, write, ghosts
  <2>4. WriteOK'
    <3>1. [id |-> me, kind |-> "terminal", gen |-> view.gen, outcome |-> "none"] \in Event
      BY DEF TypeOK, Event, Kinds, Outcomes
    <3> QED
      BY <3>1, StartWriteTyped, StopWriteTyped DEF Recorded
  <2>5. CountOK'
    BY DEF TypeOK, CountOK, Recorded, StartWrite, StopWrite, Holding, bounds,
          forge, cycle, write, ghosts
  <2> QED
    BY <2>1, <2>2, <2>3, <2>4, <2>5, TypePartsNext
<1>2. IdsIssued'
  BY DEF TypeOK, IdsIssued, Ahead, WritesOwn, ResultsReserved, Busy, Recorded,
          StartWrite, StopWrite, Holding, NoEvent, Event, Kinds, Outcomes,
          Tries, bounds, forge, cycle, write, ghosts
<1>3. OwnId'
  BY DEF TypeOK, OwnId, IdsIssued, Ahead, Reserving, Posted, Busy, Running,
          Recorded, StartWrite, StopWrite, Holding, NoEvent, Event, Kinds,
          Outcomes, Tries, bounds, forge, cycle, write, ghosts
<1>4. WritesOwn'
  BY DEF TypeOK, WritesOwn, Recorded, StartWrite, StopWrite, Holding, NoEvent,
          Event, Kinds, Outcomes, Tries, bounds, forge, cycle, write, ghosts
<1>5. ResultsReserved'
  BY DEF TypeOK, ResultsReserved, IdsIssued, Ahead, Busy, Running, Recorded,
          StartWrite, StopWrite, Holding, NoEvent, Event, Kinds, Outcomes,
          Tries, bounds, forge, cycle, write, ghosts
<1>6. OpenOrBlocked'
  BY DEF TypeOK, OpenOrBlocked, Recorded, StartWrite, StopWrite, Holding,
          NoEvent, Event, Kinds, Outcomes, Tries, bounds, forge, cycle, write,
          ghosts
<1>7. OpenIsOwn'
  BY DEF TypeOK, OpenIsOwn, IdsIssued, Ahead, Reserving, Present, Busy,
          Running, Recorded, StartWrite, StopWrite, Holding, NoEvent, Event,
          Kinds, Outcomes, Tries, bounds, forge, cycle, write, ghosts
<1>8. Guarded'
  BY DEF TypeOK, Guarded, OpenIsOwn, IdsIssued, Ahead, Reserving, Present,
          Recorded, StartWrite, StopWrite, Holding, NoEvent, Event, Kinds,
          Outcomes, Tries, bounds, forge, cycle, write, ghosts
<1>9. GoodIsProven'
  BY DEF TypeOK, GoodIsProven, OwnId, WritesOwn, Good, Posted, Ahead,
          Reserving, Recorded, StartWrite, StopWrite, Holding, NoEvent, Event,
          Kinds, Outcomes, Tries, bounds, forge, cycle, write, ghosts
<1>10. StartsClear'
  BY DEF TypeOK, StartsClear, Guarded, CountIsSpent, Allowed, Reserving,
          Recorded, StartWrite, StopWrite, Holding, NoEvent, Event, Kinds,
          Outcomes, Tries, bounds, forge, cycle, write, ghosts
<1>11. RunsWithin'
  BY DEF TypeOK, RunsWithin, StartsClear, Reserving, Running, Recorded,
          StartWrite, StopWrite, Holding, NoEvent, Event, Kinds, Outcomes,
          Tries, bounds, forge, cycle, write, ghosts
<1>12. CountIsSpent'
  BY DEF TypeOK, CountIsSpent, Resolved, OpenIsOwn, ResultsReserved, Busy,
          Running, Recorded, StartWrite, StopWrite, Holding, NoEvent, Event,
          Kinds, Outcomes, Tries, bounds, forge, cycle, write, ghosts
<1>13. PendingCount'
  BY DEF TypeOK, PendingCount, Owed, IdsIssued, OwnId, OpenIsOwn,
          ResultsReserved, WritesOwn, Posted, Ahead, Reserving, Present, Busy,
          Running, Recorded, StartWrite, StopWrite, Holding, NoEvent, Event,
          Kinds, Outcomes, Tries, bounds, forge, cycle, write, ghosts
<1>14. RunsAlone'
  BY DEF TypeOK, RunsAlone, StartsClear, Reserving, Running, Recorded,
          StartWrite, StopWrite, Holding, NoEvent, Event, Kinds, Outcomes,
          Tries, bounds, forge, cycle, write, ghosts
<1>15. SpentBounded'
  BY DEF TypeOK, SpentBounded, RunsWithin, Running, MaxAttempts, Recorded,
          StartWrite, StopWrite, Holding, NoEvent, Event, Kinds, Outcomes,
          Tries, bounds, forge, cycle, write, ghosts
<1> QED
  BY <1>1, <1>2, <1>3, <1>4, <1>5, <1>6, <1>7, <1>8, <1>9, <1>10, <1>11, <1>12, <1>13, <1>14, <1>15

LEMMA NotRecordedKeeps == IInv /\ NotRecorded => IInv'
<1> SUFFICES ASSUME IInv, NotRecorded PROVE IInv'
  OBVIOUS
<1> USE RetryAssumption DEF IInv, None
<1>1. TypeOK'
  <2>1. BudgetOK'
    BY DEF TypeOK, BudgetOK, NotRecorded, StopWrite, Holding, bounds, forge,
          cycle, write, ghosts
  <2>2. HoldsOK'
    BY DEF TypeOK, HoldsOK, NotRecorded, StopWrite, Holding, bounds, forge,
          cycle, write, ghosts
  <2>3. CycleOK'
    BY DEF TypeOK, CycleOK, Steps, Verdicts, Outcomes, NotRecorded, StopWrite,
          Holding, bounds, forge, cycle, write, ghosts
  <2>4. WriteOK'
    BY StopWriteTyped DEF NotRecorded
  <2>5. CountOK'
    BY DEF TypeOK, CountOK, NotRecorded, StopWrite, Holding, bounds, forge,
          cycle, write, ghosts
  <2> QED
    BY <2>1, <2>2, <2>3, <2>4, <2>5, TypePartsNext
<1>2. IdsIssued'
  BY DEF TypeOK, IdsIssued, Ahead, WritesOwn, ResultsReserved, Busy,
          NotRecorded, StopWrite, Holding, NoEvent, Event, Kinds, Outcomes,
          bounds, forge, cycle, write, ghosts
<1>3. OwnId'
  BY DEF TypeOK, OwnId, IdsIssued, Ahead, Reserving, Posted, Busy, Running,
          NotRecorded, StopWrite, Holding, NoEvent, Event, Kinds, Outcomes,
          bounds, forge, cycle, write, ghosts
<1>4. WritesOwn'
  BY DEF TypeOK, WritesOwn, NotRecorded, StopWrite, Holding, NoEvent, Event,
          Kinds, Outcomes, bounds, forge, cycle, write, ghosts
<1>5. ResultsReserved'
  BY DEF TypeOK, ResultsReserved, IdsIssued, Ahead, Busy, Running, NotRecorded,
          StopWrite, Holding, NoEvent, Event, Kinds, Outcomes, bounds, forge,
          cycle, write, ghosts
<1>6. OpenOrBlocked'
  BY DEF TypeOK, OpenOrBlocked, NotRecorded, StopWrite, Holding, NoEvent,
          Event, Kinds, Outcomes, bounds, forge, cycle, write, ghosts
<1>7. OpenIsOwn'
  BY DEF TypeOK, OpenIsOwn, IdsIssued, Ahead, Reserving, Present, Busy,
          Running, NotRecorded, StopWrite, Holding, NoEvent, Event, Kinds,
          Outcomes, bounds, forge, cycle, write, ghosts
<1>8. Guarded'
  BY DEF TypeOK, Guarded, OpenIsOwn, IdsIssued, Ahead, Reserving, Present,
          NotRecorded, StopWrite, Holding, NoEvent, Event, Kinds, Outcomes,
          bounds, forge, cycle, write, ghosts
<1>9. GoodIsProven'
  BY DEF TypeOK, GoodIsProven, OwnId, WritesOwn, Good, Posted, Ahead,
          Reserving, NotRecorded, StopWrite, Holding, NoEvent, Event, Kinds,
          Outcomes, bounds, forge, cycle, write, ghosts
<1>10. StartsClear'
  BY DEF TypeOK, StartsClear, Guarded, CountIsSpent, Allowed, Reserving,
          NotRecorded, StopWrite, Holding, NoEvent, Event, Kinds, Outcomes,
          bounds, forge, cycle, write, ghosts
<1>11. RunsWithin'
  BY DEF TypeOK, RunsWithin, StartsClear, Reserving, Running, NotRecorded,
          StopWrite, Holding, NoEvent, Event, Kinds, Outcomes, bounds, forge,
          cycle, write, ghosts
<1>12. CountIsSpent'
  BY DEF TypeOK, CountIsSpent, Resolved, OpenIsOwn, ResultsReserved, Busy,
          Running, NotRecorded, StopWrite, Holding, NoEvent, Event, Kinds,
          Outcomes, bounds, forge, cycle, write, ghosts
<1>13. PendingCount'
  BY DEF TypeOK, PendingCount, Owed, IdsIssued, OwnId, OpenIsOwn,
          ResultsReserved, WritesOwn, Posted, Ahead, Reserving, Present, Busy,
          Running, NotRecorded, StopWrite, Holding, NoEvent, Event, Kinds,
          Outcomes, bounds, forge, cycle, write, ghosts
<1>14. RunsAlone'
  BY DEF TypeOK, RunsAlone, StartsClear, Reserving, Running, NotRecorded,
          StopWrite, Holding, NoEvent, Event, Kinds, Outcomes, bounds, forge,
          cycle, write, ghosts
<1>15. SpentBounded'
  BY DEF TypeOK, SpentBounded, RunsWithin, Running, MaxAttempts, NotRecorded,
          StopWrite, Holding, NoEvent, Event, Kinds, Outcomes, bounds, forge,
          cycle, write, ghosts
<1> QED
  BY <1>1, <1>2, <1>3, <1>4, <1>5, <1>6, <1>7, <1>8, <1>9, <1>10, <1>11, <1>12, <1>13, <1>14, <1>15

LEMMA TerminalRecordedKeeps == IInv /\ TerminalRecorded => IInv'
<1> SUFFICES ASSUME IInv, TerminalRecorded PROVE IInv'
  OBVIOUS
<1> USE RetryAssumption DEF IInv, None
<1>1. TypeOK'
  <2>1. BudgetOK'
    BY DEF TypeOK, BudgetOK, TerminalRecorded, StopWrite, ghosts, bounds,
          forge, cycle, write
  <2>2. HoldsOK'
    BY DEF TypeOK, HoldsOK, TerminalRecorded, StopWrite, ghosts, bounds, forge,
          cycle, write
  <2>3. CycleOK'
    BY DEF TypeOK, CycleOK, Steps, Verdicts, Outcomes, TerminalRecorded,
          StopWrite, ghosts, bounds, forge, cycle, write
  <2>4. WriteOK'
    BY StopWriteTyped DEF TerminalRecorded
  <2>5. CountOK'
    BY DEF TypeOK, CountOK, TerminalRecorded, StopWrite, ghosts, bounds, forge,
          cycle, write
  <2> QED
    BY <2>1, <2>2, <2>3, <2>4, <2>5, TypePartsNext
<1>2. IdsIssued'
  BY DEF TypeOK, IdsIssued, Ahead, WritesOwn, ResultsReserved, Busy,
          TerminalRecorded, StopWrite, NoEvent, Event, Kinds, Outcomes, ghosts,
          bounds, forge, cycle, write
<1>3. OwnId'
  BY DEF TypeOK, OwnId, IdsIssued, Ahead, Reserving, Posted, Busy, Running,
          TerminalRecorded, StopWrite, NoEvent, Event, Kinds, Outcomes, ghosts,
          bounds, forge, cycle, write
<1>4. WritesOwn'
  BY DEF TypeOK, WritesOwn, TerminalRecorded, StopWrite, NoEvent, Event, Kinds,
          Outcomes, ghosts, bounds, forge, cycle, write
<1>5. ResultsReserved'
  BY DEF TypeOK, ResultsReserved, IdsIssued, Ahead, Busy, Running,
          TerminalRecorded, StopWrite, NoEvent, Event, Kinds, Outcomes, ghosts,
          bounds, forge, cycle, write
<1>6. OpenOrBlocked'
  BY DEF TypeOK, OpenOrBlocked, TerminalRecorded, StopWrite, NoEvent, Event,
          Kinds, Outcomes, ghosts, bounds, forge, cycle, write
<1>7. OpenIsOwn'
  BY DEF TypeOK, OpenIsOwn, IdsIssued, Ahead, Reserving, Present, Busy,
          Running, TerminalRecorded, StopWrite, NoEvent, Event, Kinds,
          Outcomes, ghosts, bounds, forge, cycle, write
<1>8. Guarded'
  BY DEF TypeOK, Guarded, OpenIsOwn, IdsIssued, Ahead, Reserving, Present,
          TerminalRecorded, StopWrite, NoEvent, Event, Kinds, Outcomes, ghosts,
          bounds, forge, cycle, write
<1>9. GoodIsProven'
  BY DEF TypeOK, GoodIsProven, OwnId, WritesOwn, Good, Posted, Ahead,
          Reserving, TerminalRecorded, StopWrite, NoEvent, Event, Kinds,
          Outcomes, ghosts, bounds, forge, cycle, write
<1>10. StartsClear'
  BY DEF TypeOK, StartsClear, Guarded, CountIsSpent, Allowed, Reserving,
          TerminalRecorded, StopWrite, NoEvent, Event, Kinds, Outcomes, ghosts,
          bounds, forge, cycle, write
<1>11. RunsWithin'
  BY DEF TypeOK, RunsWithin, StartsClear, Reserving, Running, TerminalRecorded,
          StopWrite, NoEvent, Event, Kinds, Outcomes, ghosts, bounds, forge,
          cycle, write
<1>12. CountIsSpent'
  BY DEF TypeOK, CountIsSpent, Resolved, OpenIsOwn, ResultsReserved, Busy,
          Running, TerminalRecorded, StopWrite, NoEvent, Event, Kinds,
          Outcomes, ghosts, bounds, forge, cycle, write
<1>13. PendingCount'
  BY DEF TypeOK, PendingCount, Owed, IdsIssued, OwnId, OpenIsOwn,
          ResultsReserved, WritesOwn, Posted, Ahead, Reserving, Present, Busy,
          Running, TerminalRecorded, StopWrite, NoEvent, Event, Kinds,
          Outcomes, ghosts, bounds, forge, cycle, write
<1>14. RunsAlone'
  BY DEF TypeOK, RunsAlone, StartsClear, Reserving, Running, TerminalRecorded,
          StopWrite, NoEvent, Event, Kinds, Outcomes, ghosts, bounds, forge,
          cycle, write
<1>15. SpentBounded'
  BY DEF TypeOK, SpentBounded, RunsWithin, Running, MaxAttempts,
          TerminalRecorded, StopWrite, NoEvent, Event, Kinds, Outcomes, ghosts,
          bounds, forge, cycle, write
<1> QED
  BY <1>1, <1>2, <1>3, <1>4, <1>5, <1>6, <1>7, <1>8, <1>9, <1>10, <1>11, <1>12, <1>13, <1>14, <1>15

LEMMA EscalateKeeps == IInv /\ Escalate => IInv'
<1> SUFFICES ASSUME IInv, Escalate PROVE IInv'
  OBVIOUS
<1> USE RetryAssumption DEF IInv, None
<1>1. TypeOK'
  <2>1. BudgetOK'
    BY DEF TypeOK, BudgetOK, Escalate, write, ghosts, bounds, forge, cycle
  <2>2. HoldsOK'
    BY DEF TypeOK, HoldsOK, Escalate, write, ghosts, bounds, forge, cycle
  <2>3. CycleOK'
    BY DEF TypeOK, CycleOK, Steps, Verdicts, Outcomes, Escalate, write, ghosts,
          bounds, forge, cycle
  <2>4. WriteOK'
    BY NoEventTyped DEF TypeOK, WriteOK, Tries, Escalate, write, ghosts,
          bounds, forge, cycle
  <2>5. CountOK'
    BY DEF TypeOK, CountOK, Escalate, write, ghosts, bounds, forge, cycle
  <2> QED
    BY <2>1, <2>2, <2>3, <2>4, <2>5, TypePartsNext
<1>2. IdsIssued'
  BY DEF TypeOK, IdsIssued, Ahead, WritesOwn, ResultsReserved, Busy, Escalate,
          write, ghosts, bounds, forge, cycle
<1>3. OwnId'
  BY DEF TypeOK, OwnId, IdsIssued, Ahead, Reserving, Posted, Busy, Running,
          Escalate, write, ghosts, bounds, forge, cycle
<1>4. WritesOwn'
  BY DEF TypeOK, WritesOwn, Escalate, write, ghosts, bounds, forge, cycle
<1>5. ResultsReserved'
  BY DEF TypeOK, ResultsReserved, IdsIssued, Ahead, Busy, Running, Escalate,
          write, ghosts, bounds, forge, cycle
<1>6. OpenOrBlocked'
  BY DEF TypeOK, OpenOrBlocked, Escalate, write, ghosts, bounds, forge, cycle
<1>7. OpenIsOwn'
  BY DEF TypeOK, OpenIsOwn, IdsIssued, Ahead, Reserving, Present, Busy,
          Running, Escalate, write, ghosts, bounds, forge, cycle
<1>8. Guarded'
  BY DEF TypeOK, Guarded, OpenIsOwn, IdsIssued, Ahead, Reserving, Present,
          Escalate, write, ghosts, bounds, forge, cycle
<1>9. GoodIsProven'
  BY DEF TypeOK, GoodIsProven, OwnId, WritesOwn, Good, Posted, Ahead,
          Reserving, Escalate, write, ghosts, bounds, forge, cycle
<1>10. StartsClear'
  BY DEF TypeOK, StartsClear, Guarded, CountIsSpent, Allowed, Reserving,
          Escalate, write, ghosts, bounds, forge, cycle
<1>11. RunsWithin'
  BY DEF TypeOK, RunsWithin, StartsClear, Reserving, Running, Escalate, write,
          ghosts, bounds, forge, cycle
<1>12. CountIsSpent'
  BY DEF TypeOK, CountIsSpent, Resolved, OpenIsOwn, ResultsReserved, Busy,
          Running, Escalate, write, ghosts, bounds, forge, cycle
<1>13. PendingCount'
  BY DEF TypeOK, PendingCount, Owed, IdsIssued, OwnId, OpenIsOwn,
          ResultsReserved, WritesOwn, Posted, Ahead, Reserving, Present, Busy,
          Running, Escalate, write, ghosts, bounds, forge, cycle
<1>14. RunsAlone'
  BY DEF TypeOK, RunsAlone, StartsClear, Reserving, Running, Escalate, write,
          ghosts, bounds, forge, cycle
<1>15. SpentBounded'
  BY DEF TypeOK, SpentBounded, RunsWithin, Running, MaxAttempts, Escalate,
          write, ghosts, bounds, forge, cycle
<1> QED
  BY <1>1, <1>2, <1>3, <1>4, <1>5, <1>6, <1>7, <1>8, <1>9, <1>10, <1>11, <1>12, <1>13, <1>14, <1>15

LEMMA EscalateFailsKeeps == IInv /\ EscalateFails => IInv'
<1> SUFFICES ASSUME IInv, EscalateFails PROVE IInv'
  OBVIOUS
<1> USE RetryAssumption DEF IInv, None
<1>1. TypeOK'
  <2>1. BudgetOK'
    BY DEF TypeOK, BudgetOK, EscalateFails, write, ghosts, bounds, forge, cycle
  <2>2. HoldsOK'
    BY DEF TypeOK, HoldsOK, EscalateFails, write, ghosts, bounds, forge, cycle
  <2>3. CycleOK'
    BY DEF TypeOK, CycleOK, Steps, Verdicts, Outcomes, EscalateFails, write,
          ghosts, bounds, forge, cycle
  <2>4. WriteOK'
    BY NoEventTyped DEF TypeOK, WriteOK, Tries, EscalateFails, write, ghosts,
          bounds, forge, cycle
  <2>5. CountOK'
    BY DEF TypeOK, CountOK, EscalateFails, write, ghosts, bounds, forge, cycle
  <2> QED
    BY <2>1, <2>2, <2>3, <2>4, <2>5, TypePartsNext
<1>2. IdsIssued'
  BY DEF TypeOK, IdsIssued, Ahead, WritesOwn, ResultsReserved, Busy,
          EscalateFails, write, ghosts, bounds, forge, cycle
<1>3. OwnId'
  BY DEF TypeOK, OwnId, IdsIssued, Ahead, Reserving, Posted, Busy, Running,
          EscalateFails, write, ghosts, bounds, forge, cycle
<1>4. WritesOwn'
  BY DEF TypeOK, WritesOwn, EscalateFails, write, ghosts, bounds, forge, cycle
<1>5. ResultsReserved'
  BY DEF TypeOK, ResultsReserved, IdsIssued, Ahead, Busy, Running,
          EscalateFails, write, ghosts, bounds, forge, cycle
<1>6. OpenOrBlocked'
  BY DEF TypeOK, OpenOrBlocked, EscalateFails, write, ghosts, bounds, forge,
          cycle
<1>7. OpenIsOwn'
  BY DEF TypeOK, OpenIsOwn, IdsIssued, Ahead, Reserving, Present, Busy,
          Running, EscalateFails, write, ghosts, bounds, forge, cycle
<1>8. Guarded'
  BY DEF TypeOK, Guarded, OpenIsOwn, IdsIssued, Ahead, Reserving, Present,
          EscalateFails, write, ghosts, bounds, forge, cycle
<1>9. GoodIsProven'
  BY DEF TypeOK, GoodIsProven, OwnId, WritesOwn, Good, Posted, Ahead,
          Reserving, EscalateFails, write, ghosts, bounds, forge, cycle
<1>10. StartsClear'
  BY DEF TypeOK, StartsClear, Guarded, CountIsSpent, Allowed, Reserving,
          EscalateFails, write, ghosts, bounds, forge, cycle
<1>11. RunsWithin'
  BY DEF TypeOK, RunsWithin, StartsClear, Reserving, Running, EscalateFails,
          write, ghosts, bounds, forge, cycle
<1>12. CountIsSpent'
  BY DEF TypeOK, CountIsSpent, Resolved, OpenIsOwn, ResultsReserved, Busy,
          Running, EscalateFails, write, ghosts, bounds, forge, cycle
<1>13. PendingCount'
  BY DEF TypeOK, PendingCount, Owed, IdsIssued, OwnId, OpenIsOwn,
          ResultsReserved, WritesOwn, Posted, Ahead, Reserving, Present, Busy,
          Running, EscalateFails, write, ghosts, bounds, forge, cycle
<1>14. RunsAlone'
  BY DEF TypeOK, RunsAlone, StartsClear, Reserving, Running, EscalateFails,
          write, ghosts, bounds, forge, cycle
<1>15. SpentBounded'
  BY DEF TypeOK, SpentBounded, RunsWithin, Running, MaxAttempts, EscalateFails,
          write, ghosts, bounds, forge, cycle
<1> QED
  BY <1>1, <1>2, <1>3, <1>4, <1>5, <1>6, <1>7, <1>8, <1>9, <1>10, <1>11, <1>12, <1>13, <1>14, <1>15

LEMMA CrashKeeps == IInv /\ Crash => IInv'
<1> SUFFICES ASSUME IInv, Crash PROVE IInv'
  OBVIOUS
<1> USE RetryAssumption DEF IInv, None
<1>1. TypeOK'
  <2>1. BudgetOK'
    BY DEF TypeOK, BudgetOK, Crash, StopWrite, forge, cycle, write, ghosts,
          bounds
  <2>2. HoldsOK'
    BY DEF TypeOK, HoldsOK, Crash, StopWrite, forge, cycle, write, ghosts,
          bounds
  <2>3. CycleOK'
    BY DEF TypeOK, CycleOK, Steps, Verdicts, Outcomes, Crash, StopWrite, forge,
          cycle, write, ghosts, bounds
  <2>4. WriteOK'
    BY StopWriteTyped DEF Crash
  <2>5. CountOK'
    BY DEF TypeOK, CountOK, Crash, StopWrite, forge, cycle, write, ghosts,
          bounds
  <2> QED
    BY <2>1, <2>2, <2>3, <2>4, <2>5, TypePartsNext
<1>2. IdsIssued'
  BY DEF TypeOK, IdsIssued, Ahead, WritesOwn, ResultsReserved, Busy, Crash,
          StopWrite, NoEvent, Event, Kinds, Outcomes, forge, cycle, write,
          ghosts, bounds
<1>3. OwnId'
  BY DEF TypeOK, OwnId, IdsIssued, Ahead, Reserving, Posted, Busy, Running,
          Crash, StopWrite, NoEvent, Event, Kinds, Outcomes, forge, cycle,
          write, ghosts, bounds
<1>4. WritesOwn'
  BY DEF TypeOK, WritesOwn, Crash, StopWrite, NoEvent, Event, Kinds, Outcomes,
          forge, cycle, write, ghosts, bounds
<1>5. ResultsReserved'
  BY DEF TypeOK, ResultsReserved, IdsIssued, Ahead, Busy, Running, Crash,
          StopWrite, NoEvent, Event, Kinds, Outcomes, forge, cycle, write,
          ghosts, bounds
<1>6. OpenOrBlocked'
  BY DEF TypeOK, OpenOrBlocked, Crash, StopWrite, NoEvent, Event, Kinds,
          Outcomes, forge, cycle, write, ghosts, bounds
<1>7. OpenIsOwn'
  BY DEF TypeOK, OpenIsOwn, IdsIssued, Ahead, Reserving, Present, Busy,
          Running, Crash, StopWrite, NoEvent, Event, Kinds, Outcomes, forge,
          cycle, write, ghosts, bounds
<1>8. Guarded'
  BY DEF TypeOK, Guarded, OpenIsOwn, IdsIssued, Ahead, Reserving, Present,
          Crash, StopWrite, NoEvent, Event, Kinds, Outcomes, forge, cycle,
          write, ghosts, bounds
<1>9. GoodIsProven'
  BY DEF TypeOK, GoodIsProven, OwnId, WritesOwn, Good, Posted, Ahead,
          Reserving, Crash, StopWrite, NoEvent, Event, Kinds, Outcomes, forge,
          cycle, write, ghosts, bounds
<1>10. StartsClear'
  BY DEF TypeOK, StartsClear, Guarded, CountIsSpent, Allowed, Reserving, Crash,
          StopWrite, NoEvent, Event, Kinds, Outcomes, forge, cycle, write,
          ghosts, bounds
<1>11. RunsWithin'
  BY DEF TypeOK, RunsWithin, StartsClear, Reserving, Running, Crash, StopWrite,
          NoEvent, Event, Kinds, Outcomes, forge, cycle, write, ghosts, bounds
<1>12. CountIsSpent'
  BY DEF TypeOK, CountIsSpent, Resolved, OpenIsOwn, ResultsReserved, Busy,
          Running, Crash, StopWrite, NoEvent, Event, Kinds, Outcomes, forge,
          cycle, write, ghosts, bounds
<1>13. PendingCount'
  BY DEF TypeOK, PendingCount, Owed, IdsIssued, OwnId, OpenIsOwn,
          ResultsReserved, WritesOwn, Posted, Ahead, Reserving, Present, Busy,
          Running, Crash, StopWrite, NoEvent, Event, Kinds, Outcomes, forge,
          cycle, write, ghosts, bounds
<1>14. RunsAlone'
  BY DEF TypeOK, RunsAlone, StartsClear, Reserving, Running, Crash, StopWrite,
          NoEvent, Event, Kinds, Outcomes, forge, cycle, write, ghosts, bounds
<1>15. SpentBounded'
  BY DEF TypeOK, SpentBounded, RunsWithin, Running, MaxAttempts, Crash,
          StopWrite, NoEvent, Event, Kinds, Outcomes, forge, cycle, write,
          ghosts, bounds
<1> QED
  BY <1>1, <1>2, <1>3, <1>4, <1>5, <1>6, <1>7, <1>8, <1>9, <1>10, <1>11, <1>12, <1>13, <1>14, <1>15

LEMMA BackoffPassesKeeps == IInv /\ BackoffPasses => IInv'
<1> SUFFICES ASSUME IInv, BackoffPasses PROVE IInv'
  OBVIOUS
<1> USE RetryAssumption DEF IInv, None
<1>1. TypeOK'
  <2>1. BudgetOK'
    BY DEF TypeOK, BudgetOK, BackoffPasses, cycle, write, ghosts, bounds, forge
  <2>2. HoldsOK'
    BY DEF TypeOK, HoldsOK, BackoffPasses, cycle, write, ghosts, bounds, forge
  <2>3. CycleOK'
    BY DEF TypeOK, CycleOK, Steps, Verdicts, Outcomes, BackoffPasses, cycle,
          write, ghosts, bounds, forge
  <2>4. WriteOK'
    BY NoEventTyped DEF TypeOK, WriteOK, Tries, BackoffPasses, cycle, write,
          ghosts, bounds, forge
  <2>5. CountOK'
    BY DEF TypeOK, CountOK, BackoffPasses, cycle, write, ghosts, bounds, forge
  <2> QED
    BY <2>1, <2>2, <2>3, <2>4, <2>5, TypePartsNext
<1>2. IdsIssued'
  BY DEF TypeOK, IdsIssued, Ahead, WritesOwn, ResultsReserved, Busy,
          BackoffPasses, cycle, write, ghosts, bounds, forge
<1>3. OwnId'
  BY DEF TypeOK, OwnId, IdsIssued, Ahead, Reserving, Posted, Busy, Running,
          BackoffPasses, cycle, write, ghosts, bounds, forge
<1>4. WritesOwn'
  BY DEF TypeOK, WritesOwn, BackoffPasses, cycle, write, ghosts, bounds, forge
<1>5. ResultsReserved'
  BY DEF TypeOK, ResultsReserved, IdsIssued, Ahead, Busy, Running,
          BackoffPasses, cycle, write, ghosts, bounds, forge
<1>6. OpenOrBlocked'
  BY DEF TypeOK, OpenOrBlocked, BackoffPasses, cycle, write, ghosts, bounds,
          forge
<1>7. OpenIsOwn'
  BY DEF TypeOK, OpenIsOwn, IdsIssued, Ahead, Reserving, Present, Busy,
          Running, BackoffPasses, cycle, write, ghosts, bounds, forge
<1>8. Guarded'
  BY DEF TypeOK, Guarded, OpenIsOwn, IdsIssued, Ahead, Reserving, Present,
          BackoffPasses, cycle, write, ghosts, bounds, forge
<1>9. GoodIsProven'
  BY DEF TypeOK, GoodIsProven, OwnId, WritesOwn, Good, Posted, Ahead,
          Reserving, BackoffPasses, cycle, write, ghosts, bounds, forge
<1>10. StartsClear'
  BY DEF TypeOK, StartsClear, Guarded, CountIsSpent, Allowed, Reserving,
          BackoffPasses, cycle, write, ghosts, bounds, forge
<1>11. RunsWithin'
  BY DEF TypeOK, RunsWithin, StartsClear, Reserving, Running, BackoffPasses,
          cycle, write, ghosts, bounds, forge
<1>12. CountIsSpent'
  BY DEF TypeOK, CountIsSpent, Resolved, OpenIsOwn, ResultsReserved, Busy,
          Running, BackoffPasses, cycle, write, ghosts, bounds, forge
<1>13. PendingCount'
  BY DEF TypeOK, PendingCount, Owed, IdsIssued, OwnId, OpenIsOwn,
          ResultsReserved, WritesOwn, Posted, Ahead, Reserving, Present, Busy,
          Running, BackoffPasses, cycle, write, ghosts, bounds, forge
<1>14. RunsAlone'
  BY DEF TypeOK, RunsAlone, StartsClear, Reserving, Running, BackoffPasses,
          cycle, write, ghosts, bounds, forge
<1>15. SpentBounded'
  BY DEF TypeOK, SpentBounded, RunsWithin, Running, MaxAttempts, BackoffPasses,
          cycle, write, ghosts, bounds, forge
<1> QED
  BY <1>1, <1>2, <1>3, <1>4, <1>5, <1>6, <1>7, <1>8, <1>9, <1>10, <1>11, <1>12, <1>13, <1>14, <1>15

-----------------------------------------------------------------------------
(* The steps in which a comment may land *)

\* A try whose comment lands at once.
TryLands ==
  /\ at = "write" /\ tries > 0 /\ ~Present /\ Lands(event)
  /\ UNCHANGED <<flight, late, label, holds, cycle, event, unproven, heldGens, issued, crashes>>
  /\ tries' = tries - 1 /\ absent' \in BOOLEAN

\* A try whose comment is lost, or may land later.
TryWaits ==
  /\ at = "write" /\ tries > 0 /\ ~Present
  /\ UNCHANGED <<budget, seen, spent, label, holds, cycle, event, unproven, heldGens, issued,
                 crashes>>
  /\ flight' \in {flight, flight \cup {event}} /\ late' \in 0 .. MaxLate
  /\ tries' = tries - 1 /\ absent' \in BOOLEAN

LEMMA TryLandsKeeps == IInv /\ TryLands => IInv'
<1> SUFFICES ASSUME IInv, TryLands PROVE IInv'
  OBVIOUS
<1> USE RetryAssumption DEF IInv, None
<1>1. event \in Event /\ Lands(event)
  BY DEF TryLands, TypeOK
<1>2. /\ budget' \in [gen: Nat, timeouts: Nat, open: Nat, blocked: Nat, terminal: BOOLEAN,
                      waiting: BOOLEAN, broken: BOOLEAN]
      /\ seen' = seen \cup {event} /\ spent' \in Nat /\ spent' <= spent
  BY <1>1, LandingTyped
<1>3. ~budget'.broken =>
        /\ ~budget.broken
        /\ \/ UNCHANGED <<budget, spent>> /\ event \in seen
           \/ LandsReserved(event) \/ LandsFinished(event) \/ LandsTerminal(event) \/ LandsReset(event)
  BY <1>1, LandingCases
<1>10. TypeOK'
  <2>1. BudgetOK'
    BY <1>1, <1>2, <1>3 DEF TypeOK, BudgetOK, TryLands, cycle
  <2>2. HoldsOK'
    BY <1>1, <1>2, <1>3 DEF TypeOK, HoldsOK, TryLands, cycle
  <2>3. CycleOK'
    BY <1>1, <1>2, <1>3 DEF TypeOK, CycleOK, TryLands, cycle
  <2>4. WriteOK'
    BY <1>1, <1>2, <1>3 DEF TypeOK, WriteOK, Tries, TryLands, cycle
  <2>5. CountOK'
    BY <1>1, <1>2, <1>3 DEF TypeOK, CountOK, TryLands, cycle
  <2> QED
    BY <2>1, <2>2, <2>3, <2>4, <2>5, TypePartsNext
<1>11. IdsIssued'
  BY <1>1, <1>2, <1>3 DEF TypeOK, IdsIssued, Ahead, WritesOwn, ResultsReserved,
          Busy, TryLands, cycle, LandsReserved, LandsFinished, LandsTerminal,
          LandsReset, Resolved
<1>12. OwnId'
  BY <1>1, <1>2, <1>3 DEF TypeOK, OwnId, IdsIssued, Ahead, Reserving, Posted,
          Busy, Running, TryLands, cycle, LandsReserved, LandsFinished,
          LandsTerminal, LandsReset, Resolved
<1>13. WritesOwn'
  BY <1>1, <1>2, <1>3 DEF TypeOK, WritesOwn, TryLands, cycle, LandsReserved,
          LandsFinished, LandsTerminal, LandsReset, Resolved
<1>14. ResultsReserved'
  BY <1>1, <1>2, <1>3 DEF TypeOK, ResultsReserved, IdsIssued, Ahead, Busy,
          Running, TryLands, cycle, LandsReserved, LandsFinished,
          LandsTerminal, LandsReset, Resolved
<1>15. OpenOrBlocked'
  BY <1>1, <1>2, <1>3 DEF TypeOK, OpenOrBlocked, TryLands, cycle,
          LandsReserved, LandsFinished, LandsTerminal, LandsReset, Resolved
<1>16. OpenIsOwn'
  BY <1>1, <1>2, <1>3 DEF TypeOK, OpenIsOwn, IdsIssued, Ahead, Reserving,
          Present, Busy, Running, OwnId, Posted, TryLands, cycle,
          LandsReserved, LandsFinished, LandsTerminal, LandsReset, Resolved
<1>17. Guarded'
  BY <1>1, <1>2, <1>3 DEF TypeOK, Guarded, OpenIsOwn, IdsIssued, Ahead,
          Reserving, Present, OpenOrBlocked, GoodIsProven, Good, TryLands,
          cycle, LandsReserved, LandsFinished, LandsTerminal, LandsReset,
          Resolved
<1>18. GoodIsProven'
  BY <1>1, <1>2, <1>3 DEF TypeOK, GoodIsProven, OwnId, WritesOwn, Good, Posted,
          Ahead, Reserving, TryLands, cycle, LandsReserved, LandsFinished,
          LandsTerminal, LandsReset, Resolved
<1>19. StartsClear'
  BY <1>1, <1>2, <1>3 DEF TypeOK, StartsClear, Guarded, CountIsSpent, Allowed,
          Reserving, TryLands, cycle, LandsReserved, LandsFinished,
          LandsTerminal, LandsReset, Resolved
<1>20. RunsWithin'
  BY <1>1, <1>2, <1>3 DEF TypeOK, RunsWithin, StartsClear, Reserving, Running,
          TryLands, cycle, LandsReserved, LandsFinished, LandsTerminal,
          LandsReset, Resolved
<1>21. CountIsSpent'
  BY <1>1, <1>2, <1>3 DEF TypeOK, CountIsSpent, Resolved, OpenIsOwn,
          ResultsReserved, Busy, Running, PendingCount, Owed, IdsIssued, Ahead,
          Good, TryLands, cycle, LandsReserved, LandsFinished, LandsTerminal,
          LandsReset
<1>22. PendingCount'
  BY <1>1, <1>2, <1>3 DEF TypeOK, PendingCount, Owed, IdsIssued, OwnId,
          OpenIsOwn, ResultsReserved, WritesOwn, Posted, Ahead, Reserving,
          Present, Busy, Running, CountIsSpent, Resolved, Good, TryLands,
          cycle, LandsReserved, LandsFinished, LandsTerminal, LandsReset
<1>23. RunsAlone'
  BY <1>1, <1>2, <1>3 DEF TypeOK, RunsAlone, StartsClear, Reserving, Running,
          TryLands, cycle, LandsReserved, LandsFinished, LandsTerminal,
          LandsReset, Resolved
<1>24. SpentBounded'
  BY <1>1, <1>2, <1>3 DEF TypeOK, SpentBounded, RunsWithin, Running,
          MaxAttempts, TryLands, cycle, LandsReserved, LandsFinished,
          LandsTerminal, LandsReset, Resolved
<1> QED
  BY <1>10, <1>11, <1>12, <1>13, <1>14, <1>15, <1>16, <1>17, <1>18, <1>19, <1>20, <1>21, <1>22, <1>23, <1>24

LEMMA TryWaitsKeeps == IInv /\ TryWaits => IInv'
<1> SUFFICES ASSUME IInv, TryWaits PROVE IInv'
  OBVIOUS
<1> USE RetryAssumption DEF IInv, None

<1>10. TypeOK'
  <2>1. BudgetOK'
    BY DEF TypeOK, BudgetOK, TryWaits, cycle
  <2>2. HoldsOK'
    BY DEF TypeOK, HoldsOK, TryWaits, cycle
  <2>3. CycleOK'
    BY DEF TypeOK, CycleOK, TryWaits, cycle
  <2>4. WriteOK'
    BY DEF TypeOK, WriteOK, Tries, TryWaits, cycle
  <2>5. CountOK'
    BY DEF TypeOK, CountOK, TryWaits, cycle
  <2> QED
    BY <2>1, <2>2, <2>3, <2>4, <2>5, TypePartsNext
<1>11. IdsIssued'
  BY DEF TypeOK, IdsIssued, Ahead, WritesOwn, ResultsReserved, Busy, TryWaits,
          cycle
<1>12. OwnId'
  BY DEF TypeOK, OwnId, IdsIssued, Ahead, Reserving, Posted, Busy, Running,
          TryWaits, cycle
<1>13. WritesOwn'
  BY DEF TypeOK, WritesOwn, TryWaits, cycle
<1>14. ResultsReserved'
  BY DEF TypeOK, ResultsReserved, IdsIssued, Ahead, Busy, Running, TryWaits,
          cycle
<1>15. OpenOrBlocked'
  BY DEF TypeOK, OpenOrBlocked, TryWaits, cycle
<1>16. OpenIsOwn'
  BY DEF TypeOK, OpenIsOwn, IdsIssued, Ahead, Reserving, Present, Busy,
          Running, TryWaits, cycle
<1>17. Guarded'
  BY DEF TypeOK, Guarded, OpenIsOwn, IdsIssued, Ahead, Reserving, Present,
          TryWaits, cycle
<1>18. GoodIsProven'
  BY DEF TypeOK, GoodIsProven, OwnId, WritesOwn, Good, Posted, Ahead,
          Reserving, TryWaits, cycle
<1>19. StartsClear'
  BY DEF TypeOK, StartsClear, Guarded, CountIsSpent, Allowed, Reserving,
          TryWaits, cycle
<1>20. RunsWithin'
  BY DEF TypeOK, RunsWithin, StartsClear, Reserving, Running, TryWaits, cycle
<1>21. CountIsSpent'
  BY DEF TypeOK, CountIsSpent, Resolved, OpenIsOwn, ResultsReserved, Busy,
          Running, TryWaits, cycle
<1>22. PendingCount'
  BY DEF TypeOK, PendingCount, Owed, IdsIssued, OwnId, OpenIsOwn,
          ResultsReserved, WritesOwn, Posted, Ahead, Reserving, Present, Busy,
          Running, TryWaits, cycle
<1>23. RunsAlone'
  BY DEF TypeOK, RunsAlone, StartsClear, Reserving, Running, TryWaits, cycle
<1>24. SpentBounded'
  BY DEF TypeOK, SpentBounded, RunsWithin, Running, MaxAttempts, TryWaits,
          cycle
<1> QED
  BY <1>10, <1>11, <1>12, <1>13, <1>14, <1>15, <1>16, <1>17, <1>18, <1>19, <1>20, <1>21, <1>22, <1>23, <1>24

LEMMA LateLandingKeeps == IInv /\ LateLanding => IInv'
<1> SUFFICES ASSUME IInv, LateLanding PROVE IInv'
  OBVIOUS
<1> USE RetryAssumption DEF IInv, None
<1>0. PICK e \in flight : Lands(e) /\ flight' = flight \ {e}
  BY DEF LateLanding
<1>1. e \in Event /\ Lands(e)
  BY <1>0 DEF TypeOK
<1>2. /\ budget' \in [gen: Nat, timeouts: Nat, open: Nat, blocked: Nat, terminal: BOOLEAN,
                      waiting: BOOLEAN, broken: BOOLEAN]
      /\ seen' = seen \cup {e} /\ spent' \in Nat /\ spent' <= spent
  BY <1>1, LandingTyped
<1>3. ~budget'.broken =>
        /\ ~budget.broken
        /\ \/ UNCHANGED <<budget, spent>> /\ e \in seen
           \/ LandsReserved(e) \/ LandsFinished(e) \/ LandsTerminal(e) \/ LandsReset(e)
  BY <1>1, LandingCases
<1>10. TypeOK'
  <2>1. BudgetOK'
    BY <1>0, <1>1, <1>2, <1>3 DEF TypeOK, BudgetOK, LateLanding, cycle, write,
          bounds
  <2>2. HoldsOK'
    BY <1>0, <1>1, <1>2, <1>3 DEF TypeOK, HoldsOK, LateLanding, cycle, write,
          bounds
  <2>3. CycleOK'
    BY <1>0, <1>1, <1>2, <1>3 DEF TypeOK, CycleOK, LateLanding, cycle, write,
          bounds
  <2>4. WriteOK'
    BY <1>0, <1>1, <1>2, <1>3 DEF TypeOK, WriteOK, Tries, LateLanding, cycle,
          write, bounds
  <2>5. CountOK'
    BY <1>0, <1>1, <1>2, <1>3 DEF TypeOK, CountOK, LateLanding, cycle, write,
          bounds
  <2> QED
    BY <2>1, <2>2, <2>3, <2>4, <2>5, TypePartsNext
<1>11. IdsIssued'
  BY <1>0, <1>1, <1>2, <1>3 DEF TypeOK, IdsIssued, Ahead, WritesOwn,
          ResultsReserved, Busy, LateLanding, cycle, write, bounds,
          LandsReserved, LandsFinished, LandsTerminal, LandsReset, Resolved
<1>12. OwnId'
  BY <1>0, <1>1, <1>2, <1>3 DEF TypeOK, OwnId, IdsIssued, Ahead, Reserving,
          Posted, Busy, Running, LateLanding, cycle, write, bounds,
          LandsReserved, LandsFinished, LandsTerminal, LandsReset, Resolved
<1>13. WritesOwn'
  BY <1>0, <1>1, <1>2, <1>3 DEF TypeOK, WritesOwn, LateLanding, cycle, write,
          bounds, LandsReserved, LandsFinished, LandsTerminal, LandsReset,
          Resolved
<1>14. ResultsReserved'
  BY <1>0, <1>1, <1>2, <1>3 DEF TypeOK, ResultsReserved, IdsIssued, Ahead,
          Busy, Running, LateLanding, cycle, write, bounds, LandsReserved,
          LandsFinished, LandsTerminal, LandsReset, Resolved
<1>15. OpenOrBlocked'
  BY <1>0, <1>1, <1>2, <1>3 DEF TypeOK, OpenOrBlocked, LateLanding, cycle,
          write, bounds, LandsReserved, LandsFinished, LandsTerminal,
          LandsReset, Resolved
<1>16. OpenIsOwn'
  <2> USE <1>0, <1>1, <1>2, <1>3
  <2>1. UNCHANGED <<at, me, event>>
    BY DEF LateLanding, cycle, write
  <2>2. ASSUME at \in Busy, ~budget'.broken PROVE budget'.open = me
    <3>1. budget.open = me /\ me # None
      BY <2>2 DEF OpenIsOwn, ResultsReserved
    <3>2. e.id = me => e.kind = "reserved"
      BY <2>2 DEF OwnId, Posted
    <3> QED
      BY <2>2, <3>1, <3>2 DEF LandsReserved, LandsFinished, LandsTerminal, LandsReset, Resolved,
                              IdsIssued, Ahead
  <2>3. ASSUME Reserving, Present', ~budget'.broken PROVE budget'.open = event.id
    <3>1. event.id # None /\ event.kind = "reserved" /\ e.kind # "reset"
      BY <2>3 DEF IdsIssued, Ahead, Reserving
    <3>2. e.id = event.id => e = event
      BY <2>3 DEF OwnId, Posted
    <3>3. CASE Present
      <4>1. budget.open = event.id
        BY <2>3, <3>3 DEF OpenIsOwn
      <4> QED
        BY <2>3, <3>1, <3>2, <3>3, <4>1 DEF LandsReserved, LandsFinished, LandsTerminal,
                              LandsReset, Resolved
    <3>4. CASE ~Present
      <4>1. e = event /\ e \notin seen
        BY <2>1, <2>3, <3>2, <3>4 DEF Present
      <4> QED
        BY <2>3, <3>1, <4>1 DEF LandsReserved, LandsFinished, LandsTerminal, LandsReset
    <3> QED
      BY <3>3, <3>4
  <2> QED
    BY <2>1, <2>2, <2>3 DEF OpenIsOwn, Reserving, Busy, Running
<1>17. Guarded'
  BY <1>0, <1>1, <1>2, <1>3 DEF TypeOK, Guarded, OpenIsOwn, IdsIssued, Ahead,
          Reserving, Present, OpenOrBlocked, GoodIsProven, Good, LateLanding,
          cycle, write, bounds, LandsReserved, LandsFinished, LandsTerminal,
          LandsReset, Resolved
<1>18. GoodIsProven'
  BY <1>0, <1>1, <1>2, <1>3 DEF TypeOK, GoodIsProven, OwnId, WritesOwn, Good,
          Posted, Ahead, Reserving, LateLanding, cycle, write, bounds,
          LandsReserved, LandsFinished, LandsTerminal, LandsReset, Resolved
<1>19. StartsClear'
  BY <1>0, <1>1, <1>2, <1>3 DEF TypeOK, StartsClear, Guarded, CountIsSpent,
          Allowed, Reserving, LateLanding, cycle, write, bounds, LandsReserved,
          LandsFinished, LandsTerminal, LandsReset, Resolved
<1>20. RunsWithin'
  BY <1>0, <1>1, <1>2, <1>3 DEF TypeOK, RunsWithin, StartsClear, Reserving,
          Running, LateLanding, cycle, write, bounds, LandsReserved,
          LandsFinished, LandsTerminal, LandsReset, Resolved
<1>21. CountIsSpent'
  BY <1>0, <1>1, <1>2, <1>3 DEF TypeOK, CountIsSpent, Resolved, OpenIsOwn,
          ResultsReserved, Busy, Running, PendingCount, Owed, IdsIssued, Ahead,
          Good, LateLanding, cycle, write, bounds, LandsReserved,
          LandsFinished, LandsTerminal, LandsReset
<1>22. PendingCount'
  BY <1>0, <1>1, <1>2, <1>3 DEF TypeOK, PendingCount, Owed, IdsIssued, OwnId,
          OpenIsOwn, ResultsReserved, WritesOwn, Posted, Ahead, Reserving,
          Present, Busy, Running, CountIsSpent, Resolved, Good, LateLanding,
          cycle, write, bounds, LandsReserved, LandsFinished, LandsTerminal,
          LandsReset
<1>23. RunsAlone'
  BY <1>0, <1>1, <1>2, <1>3 DEF TypeOK, RunsAlone, StartsClear, Reserving,
          Running, LateLanding, cycle, write, bounds, LandsReserved,
          LandsFinished, LandsTerminal, LandsReset, Resolved
<1>24. SpentBounded'
  BY <1>0, <1>1, <1>2, <1>3 DEF TypeOK, SpentBounded, RunsWithin, Running,
          MaxAttempts, LateLanding, cycle, write, bounds, LandsReserved,
          LandsFinished, LandsTerminal, LandsReset, Resolved
<1> QED
  BY <1>10, <1>11, <1>12, <1>13, <1>14, <1>15, <1>16, <1>17, <1>18, <1>19, <1>20, <1>21, <1>22, <1>23, <1>24

LEMMA TryKeeps == IInv /\ Try => IInv'
<1> SUFFICES ASSUME IInv, Try PROVE IInv'
  OBVIOUS
<1>1. absent' \in BOOLEAN
  BY DEF Try
<1>2. TryLands \/ TryWaits
  BY <1>1, RetryAssumption DEF Try, Post, NothingLands, TryLands, TryWaits, IInv, TypeOK
<1> QED
  BY <1>2, TryLandsKeeps, TryWaitsKeeps

LEMMA ResetKeeps == IInv /\ (\E ref \in {"attempt", "local"} : Reset(ref)) => IInv'
<1> SUFFICES ASSUME IInv, (\E ref \in {"attempt", "local"} : Reset(ref)) PROVE IInv'
  OBVIOUS
<1> USE RetryAssumption DEF IInv, None
<1>0. PICK ref \in {"attempt", "local"} : Reset(ref)
  OBVIOUS
<1> DEFINE e == [id |-> issued + 1, kind |-> "reset", gen |-> budget.gen + 1, outcome |-> ref]
<1>4. Lands(e) /\ e \in Event
  BY <1>0 DEF Reset, NewId, TypeOK, Event, Kinds, Outcomes
<1>5. ~Live /\ issued' = issued + 1 /\ issued < MaxIds /\ unproven' = {} /\ heldGens' = {}
      /\ holds' \in {holds, {}} /\ label' = FALSE
      /\ UNCHANGED <<flight, at, view, me, result, event, tries, absent, late, crashes>>
  BY <1>0 DEF Reset, NewId, cycle, write
<1>6. e.id = issued + 1 /\ e.kind = "reset"
  OBVIOUS
<1> HIDE DEF e
<1>1. e \in Event /\ Lands(e)
  BY <1>4
<1>2. /\ budget' \in [gen: Nat, timeouts: Nat, open: Nat, blocked: Nat, terminal: BOOLEAN,
                      waiting: BOOLEAN, broken: BOOLEAN]
      /\ seen' = seen \cup {e} /\ spent' \in Nat /\ spent' <= spent
  BY <1>1, LandingTyped
<1>3. ~budget'.broken =>
        /\ ~budget.broken
        /\ \/ UNCHANGED <<budget, spent>> /\ e \in seen
           \/ LandsReserved(e) \/ LandsFinished(e) \/ LandsTerminal(e) \/ LandsReset(e)
  BY <1>1, LandingCases
<1>10. TypeOK'
  <2>1. BudgetOK'
    <3>1. label' \in BOOLEAN
      BY Zenon, <1>5
    <3> QED
      BY <1>1, <1>2, <1>5, <3>1 DEF TypeOK, BudgetOK
  <2>2. HoldsOK'
    BY <1>1, <1>2, <1>3, <1>5, <1>6 DEF TypeOK, HoldsOK, Live
  <2>3. CycleOK'
    BY <1>1, <1>2, <1>3, <1>5, <1>6 DEF TypeOK, CycleOK, Live
  <2>4. WriteOK'
    BY <1>1, <1>2, <1>3, <1>5, <1>6 DEF TypeOK, WriteOK, Tries, Live
  <2>5. CountOK'
    BY <1>1, <1>2, <1>3, <1>5, <1>6 DEF TypeOK, CountOK, Live
  <2> QED
    BY <2>1, <2>2, <2>3, <2>4, <2>5, TypePartsNext
<1>11. IdsIssued'
  BY <1>1, <1>2, <1>3, <1>5, <1>6 DEF TypeOK, IdsIssued, Ahead, WritesOwn,
          ResultsReserved, Busy, Live, LandsReserved, LandsFinished,
          LandsTerminal, LandsReset, Resolved
<1>12. OwnId'
  BY <1>1, <1>2, <1>3, <1>5, <1>6 DEF TypeOK, OwnId, IdsIssued, Ahead,
          Reserving, Posted, Busy, Running, Live, LandsReserved, LandsFinished,
          LandsTerminal, LandsReset, Resolved
<1>13. WritesOwn'
  BY <1>1, <1>2, <1>3, <1>5, <1>6 DEF TypeOK, WritesOwn, Live, LandsReserved,
          LandsFinished, LandsTerminal, LandsReset, Resolved
<1>14. ResultsReserved'
  BY <1>1, <1>2, <1>3, <1>5, <1>6 DEF TypeOK, ResultsReserved, IdsIssued,
          Ahead, Busy, Running, Live, LandsReserved, LandsFinished,
          LandsTerminal, LandsReset, Resolved
<1>15. OpenOrBlocked'
  BY <1>1, <1>2, <1>3, <1>5, <1>6 DEF TypeOK, OpenOrBlocked, Live,
          LandsReserved, LandsFinished, LandsTerminal, LandsReset, Resolved
<1>16. OpenIsOwn'
  BY <1>1, <1>2, <1>3, <1>5, <1>6 DEF TypeOK, OpenIsOwn, IdsIssued, Ahead,
          Reserving, Present, Busy, Running, OwnId, Posted, Live,
          LandsReserved, LandsFinished, LandsTerminal, LandsReset, Resolved
<1>17. Guarded'
  BY <1>1, <1>2, <1>3, <1>5, <1>6 DEF TypeOK, Guarded, OpenIsOwn, IdsIssued,
          Ahead, Reserving, Present, OpenOrBlocked, GoodIsProven, Good, Live,
          LandsReserved, LandsFinished, LandsTerminal, LandsReset, Resolved
<1>18. GoodIsProven'
  BY <1>1, <1>2, <1>3, <1>5, <1>6 DEF TypeOK, GoodIsProven, OwnId, WritesOwn,
          Good, Posted, Ahead, Reserving, Live, LandsReserved, LandsFinished,
          LandsTerminal, LandsReset, Resolved
<1>19. StartsClear'
  BY <1>1, <1>2, <1>3, <1>5, <1>6 DEF TypeOK, StartsClear, Guarded,
          CountIsSpent, Allowed, Reserving, Live, LandsReserved, LandsFinished,
          LandsTerminal, LandsReset, Resolved
<1>20. RunsWithin'
  BY <1>1, <1>2, <1>3, <1>5, <1>6 DEF TypeOK, RunsWithin, StartsClear,
          Reserving, Running, Live, LandsReserved, LandsFinished,
          LandsTerminal, LandsReset, Resolved
<1>21. CountIsSpent'
  BY <1>1, <1>2, <1>3, <1>5, <1>6 DEF TypeOK, CountIsSpent, Resolved,
          OpenIsOwn, ResultsReserved, Busy, Running, PendingCount, Owed,
          IdsIssued, Ahead, Good, Live, LandsReserved, LandsFinished,
          LandsTerminal, LandsReset
<1>22. PendingCount'
  BY <1>1, <1>2, <1>3, <1>5, <1>6 DEF TypeOK, PendingCount, Owed, IdsIssued,
          OwnId, OpenIsOwn, ResultsReserved, WritesOwn, Posted, Ahead,
          Reserving, Present, Busy, Running, CountIsSpent, Resolved, Good,
          Live, LandsReserved, LandsFinished, LandsTerminal, LandsReset
<1>23. RunsAlone'
  BY <1>1, <1>5, <1>6 DEF TypeOK, RunsAlone, ResultsReserved, Busy, Running, Live
<1>24. SpentBounded'
  BY <1>1, <1>2, <1>3, <1>5, <1>6 DEF TypeOK, SpentBounded, RunsWithin,
          Running, MaxAttempts, Live, LandsReserved, LandsFinished,
          LandsTerminal, LandsReset, Resolved
<1> QED
  BY <1>10, <1>11, <1>12, <1>13, <1>14, <1>15, <1>16, <1>17, <1>18, <1>19, <1>20, <1>21, <1>22, <1>23, <1>24

-----------------------------------------------------------------------------
(* The invariant *)

LEMMA InitHolds == Init => IInv
<1> SUFFICES ASSUME Init PROVE IInv
  OBVIOUS
<1> USE RetryAssumption DEF Init, None
<1>1. TypeOK
  <2>1. BudgetOK
    <3>1. Fresh(1) \in [gen: Nat, timeouts: Nat, open: Nat, blocked: Nat, terminal: BOOLEAN,
                        waiting: BOOLEAN, broken: BOOLEAN]
      BY DEF Fresh
    <3>2. label \in BOOLEAN
      BY Zenon
    <3> QED
      BY <3>1, <3>2 DEF BudgetOK
  <2>2. HoldsOK /\ CountOK
    BY DEF HoldsOK, CountOK
  <2>3. CycleOK
    BY DEF CycleOK, Steps, Verdicts, Outcomes
  <2>4. WriteOK
    <3>1. absent \in BOOLEAN
      BY Zenon
    <3> QED
      BY <3>1, NoEventTyped DEF WriteOK, Tries
  <2> QED
    BY <2>1, <2>2, <2>3, <2>4 DEF TypeOK, BudgetOK, HoldsOK, CycleOK, WriteOK, CountOK
<1>2. IdsIssued /\ OwnId /\ WritesOwn /\ ResultsReserved
  BY DEF IdsIssued, OwnId, WritesOwn, ResultsReserved, Ahead, Posted, Reserving, Busy, Running
<1>3. OpenOrBlocked /\ OpenIsOwn /\ Guarded /\ GoodIsProven
  BY DEF OpenOrBlocked, OpenIsOwn, Guarded, GoodIsProven, Fresh, Ahead, Reserving, Busy, Running
<1>4. StartsClear /\ RunsWithin /\ CountIsSpent /\ PendingCount
  BY DEF StartsClear, RunsWithin, CountIsSpent, PendingCount, Fresh, Ahead, Allowed, Reserving,
         Running
<1>5. RunsAlone /\ SpentBounded
  BY DEF RunsAlone, SpentBounded, Running, MaxAttempts
<1> QED
  BY <1>1, <1>2, <1>3, <1>4, <1>5 DEF IInv

LEMMA StutterKeeps == IInv /\ UNCHANGED vars => IInv'
<1> SUFFICES ASSUME IInv, UNCHANGED vars PROVE IInv'
  OBVIOUS
<1> USE DEF IInv, vars, forge, cycle, write, ghosts, bounds
<1>1. TypeOK'
  BY DEF TypeOK
<1>2. IdsIssued' /\ OwnId' /\ WritesOwn' /\ ResultsReserved'
  BY DEF IdsIssued, OwnId, WritesOwn, ResultsReserved, Ahead, Posted, Reserving, Busy, Running
<1>3. OpenOrBlocked' /\ OpenIsOwn' /\ Guarded' /\ GoodIsProven'
  BY DEF OpenOrBlocked, OpenIsOwn, Guarded, GoodIsProven, Ahead, Reserving, Present, Busy, Running
<1>4. StartsClear' /\ RunsWithin' /\ CountIsSpent' /\ PendingCount'
  BY DEF StartsClear, RunsWithin, CountIsSpent, PendingCount, Owed, Ahead, Allowed, Reserving,
         Present, Resolved, Running
<1>5. RunsAlone' /\ SpentBounded'
  BY DEF RunsAlone, SpentBounded, Running
<1> QED
  BY <1>1, <1>2, <1>3, <1>4, <1>5

LEMMA StepKeeps == IInv /\ [Next]_vars => IInv'
<1>1. IInv /\ Next => IInv'
  BY LoadKeeps, ReserveKeeps, NotStartedKeeps, HoldUnreservedKeeps, TryKeeps, StartKeeps,
     NotReservedKeeps, RunCiKeeps, MergeTimeoutKeeps, ReportFailureKeeps, PublishKeeps,
     HoldAttemptKeeps, RecordKeeps, RecordedKeeps, NotRecordedKeeps, TerminalRecordedKeeps,
     EscalateKeeps, EscalateFailsKeeps, CrashKeeps, LateLandingKeeps, BackoffPassesKeeps,
     ResetKeeps DEF Next
<1> QED
  BY <1>1, StutterKeeps

\* Every reachable state of the timeout budget and its cycles satisfies the
\* inductive invariant.
THEOREM BudgetInvariant == Spec => []IInv
  BY InitHolds, StepKeeps, PTL DEF Spec

\* The variables of IntegrationRetry keep their types (parse_event, BudgetState).
THEOREM BudgetTypes == Spec => []TypeOK
<1>1. IInv => TypeOK
  BY DEF IInv
<1> QED
  BY <1>1, BudgetInvariant, PTL

\* CI never runs beside an earlier attempt that nobody proved ended (begin_attempt).
THEOREM AttemptsRunAlone == Spec => []RunsAlone
<1>1. IInv => RunsAlone
  BY DEF IInv
<1> QED
  BY <1>1, BudgetInvariant, PTL

\* A generation spends at most the first attempt and its retries (planned_retry,
\* _verdict_of), for any number of lost and late comments and of crashes.
THEOREM SpentIsBounded == Spec => []SpentBounded
<1>1. IInv => SpentBounded
  BY DEF IInv
<1> QED
  BY <1>1, BudgetInvariant, PTL

\* A history that lets the parent go on counts every timed-out attempt (_Fold).
THEOREM CountIsKept == Spec => []CountSurvives
<1>1. IInv => CountSurvives
  BY DEF IInv, CountIsSpent, CountSurvives
<1> QED
  BY <1>1, BudgetInvariant, PTL

\* Whatever an intact history stops, a reset releases (_verdict_of and _reset).
THEOREM ResetAccepted == Spec => []ResetReleases
<1>1. IInv => ResetReleases
  BY RetryAssumption DEF IInv, TypeOK, ResetReleases, Verdict, Accepts, Exhausted, MaxAttempts,
                         Resolved, None
<1> QED
  BY <1>1, BudgetInvariant, PTL

\* The budget of a generation is never overspent nor forgotten, and what it stops can
\* be released, for any limit on retries.
THEOREM BudgetIsKept == Spec => []BudgetKept
<1>1. SpentBounded /\ CountSurvives /\ ResetReleases => BudgetKept
  BY DEF BudgetKept
<1> QED
  BY <1>1, SpentIsBounded, CountIsKept, ResetAccepted, PTL

-----------------------------------------------------------------------------
(* Holds *)

\* An attempt that may start has seen every hold of its generation.
HoldsSeen ==
  /\ budget.broken \/ heldGens \subseteq holds
  /\ Allowed => heldGens \subseteq holds
  /\ Reserving => \A g \in heldGens : g < view.gen
  /\ view.gen <= budget.gen

LEMMA HoldsSeenStep ==
  ASSUME HoldReadFails = FALSE, IInv, HoldsSeen, [Next]_vars
  PROVE  HoldsSeen'
<1> USE RetryAssumption DEF IInv
<1>1. CASE Load
  BY <1>1 DEF HoldsSeen, TypeOK, Load, Allowed, Reserving, Verdict, write, forge, ghosts, bounds
<1>2. CASE Reserve
  BY <1>2 DEF HoldsSeen, TypeOK, Reserve, LocalHold, StartWrite, Allowed, Reserving, forge, ghosts
<1>3. CASE NotStarted
  BY <1>3 DEF HoldsSeen, TypeOK, NotStarted, StartWrite, Allowed, Reserving, forge, ghosts, write
<1>4. CASE HoldUnreserved
  BY <1>4 DEF HoldsSeen, TypeOK, HoldUnreserved, Allowed, Reserving, forge, cycle, write
<1>5. CASE Try
  <2>1. CASE Lands(event)
    <3>1. budget.gen <= budget'.gen /\ budget'.gen \in Nat /\ budget.gen \in Nat
      BY <2>1, LandingTyped DEF TypeOK
    <3>2. budget'.broken \/ ~budget.broken
      BY <2>1, LandingCases DEF TypeOK
    <3> QED
      BY <1>5, <3>1, <3>2 DEF HoldsSeen, TypeOK, Try, Allowed, Reserving, cycle
  <2>2. CASE budget' = budget
    BY <1>5, <2>2 DEF HoldsSeen, TypeOK, Try, Allowed, Reserving, cycle
  <2> QED
    BY <1>5, <2>1, <2>2 DEF Try, Post, NothingLands
<1>6. CASE LateLanding
  <2>1. PICK e \in flight : Lands(e)
    BY <1>6 DEF LateLanding
  <2>2. budget.gen <= budget'.gen /\ budget'.gen \in Nat /\ budget.gen \in Nat
    BY <2>1, LandingTyped DEF TypeOK
  <2>3. budget'.broken \/ ~budget.broken
    BY <2>1, LandingCases DEF TypeOK
  <2> QED
    BY <1>6, <2>2, <2>3 DEF HoldsSeen, TypeOK, LateLanding, Allowed, Reserving, cycle, write
<1>7. CASE \E ref \in {"attempt", "local"} : Reset(ref)
  <2>1. PICK ref \in {"attempt", "local"} : Reset(ref)
    BY <1>7
  <2> DEFINE e == [id |-> issued + 1, kind |-> "reset", gen |-> budget.gen + 1, outcome |-> ref]
  <2>2. e \in Event /\ Lands(e)
    BY <2>1 DEF Reset, NewId, TypeOK, Event, Kinds, Outcomes
  <2> HIDE DEF e
  <2>3. budget.gen <= budget'.gen /\ budget'.gen \in Nat /\ budget.gen \in Nat
    BY <2>2, LandingTyped DEF TypeOK
  <2> QED
    BY <2>1, <2>3 DEF HoldsSeen, TypeOK, Reset, Allowed, Reserving, cycle, write
<1>8. CASE Start \/ NotReserved \/ TerminalRecorded \/ Crash
  BY <1>8 DEF HoldsSeen, TypeOK, Start, NotReserved, TerminalRecorded, Crash, StopWrite, NoEvent,
              Allowed, Reserving, forge, ghosts
<1>9. CASE Escalate \/ EscalateFails \/ Record
  <2>1. UNCHANGED <<budget, view, holds, heldGens>>
    BY <1>9 DEF Escalate, EscalateFails, Record, forge, ghosts
  <2>2. ~Allowed' /\ ~Reserving'
    BY <1>9 DEF Escalate, EscalateFails, Record, StartWrite, Allowed, Reserving
  <2> QED
    BY <2>1, <2>2 DEF HoldsSeen
<1>10. CASE RunCi \/ MergeTimeout \/ ReportFailure \/ Publish
  BY <1>10 DEF HoldsSeen, TypeOK, RunCi, MergeTimeout, ReportFailure, Publish, Allowed, Reserving,
              forge, write
<1>11. CASE HoldAttempt \/ Recorded \/ NotRecorded
  <2>1. /\ UNCHANGED <<budget, view>>
        /\ \/ holds' = holds \cup {view.gen} /\ heldGens' = heldGens \cup {view.gen}
           \/ UNCHANGED <<holds, heldGens>>
    BY <1>11 DEF HoldAttempt, Recorded, NotRecorded, Holding, forge
  <2>2. ~Allowed' /\ ~Reserving'
    BY <1>11 DEF HoldAttempt, Recorded, NotRecorded, StartWrite, StopWrite, NoEvent, Allowed,
                 Reserving
  <2> QED
    BY <2>1, <2>2 DEF HoldsSeen, TypeOK
<1>12. CASE BackoffPasses
  BY <1>12 DEF HoldsSeen, TypeOK, BackoffPasses, Allowed, Reserving, cycle, write, ghosts
<1>13. CASE UNCHANGED vars
  BY <1>13 DEF HoldsSeen, Allowed, Reserving, vars, forge, cycle, write, ghosts
<1> QED
  BY <1>1, <1>2, <1>3, <1>4, <1>5, <1>6, <1>7, <1>8, <1>9, <1>10, <1>11, <1>12,
     <1>13 DEF Next

LEMMA OnlyStartStarts == IInv /\ [Next]_vars /\ Starts => Start
<1> SUFFICES ASSUME IInv, [Next]_vars, Starts PROVE Start
  OBVIOUS
<1>1. at # "ci" /\ at' = "ci"
  BY DEF Starts
<1> QED
  BY <1>1 DEF Next, Load, Reserve, NotStarted, HoldUnreserved, Try, NotReserved, RunCi,
       MergeTimeout, ReportFailure, Publish, HoldAttempt, Record, Recorded, NotRecorded,
       TerminalRecorded, Escalate, EscalateFails, Crash, LateLanding, BackoffPasses, Reset,
       StartWrite, vars, cycle

\* No attempt starts in the generation of a held worktree (hold, _local_hold_block),
\* as long as the comments can be read when a hold is written.
THEOREM HeldGenerationRests == HoldReadFails = FALSE /\ Spec => HeldRests
<1> SUFFICES ASSUME HoldReadFails = FALSE PROVE Spec => HeldRests
  OBVIOUS
<1>1. Init => HoldsSeen
  BY DEF Init, HoldsSeen, Allowed, Reserving, Fresh
<1>2. IInv /\ HoldsSeen /\ [Next]_vars => HoldsSeen'
  BY HoldsSeenStep
<1>3. IInv /\ HoldsSeen /\ [Next]_vars => [Starts => budget.gen \notin heldGens]_vars
  <2> SUFFICES ASSUME IInv, HoldsSeen, [Next]_vars, Starts PROVE budget.gen \notin heldGens
    OBVIOUS
  <2>1. Start
    BY OnlyStartStarts
  <2>2. \A g \in heldGens : g < view.gen
    BY <2>1 DEF Start, HoldsSeen, Reserving
  <2> QED
    BY <2>2 DEF HoldsSeen, IInv, TypeOK
<1> QED
  BY <1>1, <1>2, <1>3, BudgetInvariant, PTL DEF Spec, HeldRests

-----------------------------------------------------------------------------
(* Finalization.  What the Integrator merged has a receipt at each step of *)
(* the run, and a count names only runs that were refused.                 *)

BranchTypes ==
  /\ parent \subseteq Tips /\ tip \in Tips \cup {Gone} /\ denies \in BOOLEAN
  /\ labels \subseteq Labels /\ had \subseteq Labels /\ open \in BOOLEAN
  /\ receipts \subseteq Tips /\ latest \in Tips \cup {Gone}
RunTypes ==
  /\ phase \in Phases /\ run \in Runs /\ sha \in Tips \cup {Gone}
  /\ newest \in Tips \cup {Gone}
  /\ phase \in {"publish", "receipt", "delete", "count", "label", "tell", "terminal",
             "watch", "settle"} => sha \in Tips
HistoryTypes ==
  /\ denied \in [Tips -> SUBSET Runs] /\ terminals \in [Tips -> Gens]
  /\ told \in [Tips -> [Gens -> Nat]]
  /\ refused \in [Tips -> [Gens -> SUBSET Runs]]
Types == BranchTypes /\ RunTypes /\ HistoryTypes

(* What was merged and has a receipt at each step of the run.              *)
Merged ==
  /\ receipts \subseteq parent
  /\ latest # Gone => receipts # {}
  /\ newest # Gone => receipts # {}
  /\ "included" \in labels \cup had => receipts # {}
  /\ phase \in {"receipt", "delete"} => sha \in parent
  /\ phase \in {"delete", "count", "label", "tell", "terminal", "watch", "settle",
             "unblock", "include", "close"} => receipts # {}

(* A count names runs that were refused since the last terminal comment,   *)
(* and an escalation goes on only at the limit.                            *)
CountsReal ==
  /\ \A s \in Tips : denied[s] \subseteq refused[s][terminals[s]]
  /\ phase = "count" => run \in refused[sha][terminals[sha]]
  /\ phase \in {"label", "tell", "terminal"} => LimitReached(sha)
ToldFirst == phase = "terminal" => told[sha][terminals[sha]] = 1

FinalInv == Types /\ Merged /\ NothingLost /\ CountsReal /\ ToldFirst /\ EscalatesRightly

-----------------------------------------------------------------------------
LEMMA Sizes ==
  /\ MaxGen \in Nat /\ Limit \in Nat \ {0}
  /\ \A g \in Gens : g \in Nat
  /\ \A g \in Gens : g < MaxGen => g + 1 \in Gens
<1>1. MaxGen \in Nat /\ Limit \in Nat \ {0}
  BY FinalizationAssumption
<1>. QED BY <1>1 DEF Gens

LEMMA RunsFinite ==
  ASSUME NEW S \in SUBSET Runs, NEW T \in SUBSET S
  PROVE  IsFiniteSet(S) /\ IsFiniteSet(T) /\ Cardinality(T) <= Cardinality(S)
         /\ Cardinality(S) \in Nat /\ Cardinality(T) \in Nat
<1>1. IsFiniteSet(Runs)
  BY FinalizationAssumption, FS_Interval DEF Runs
<1>. QED BY <1>1, FS_Subset, FS_CardinalityType

(* Types are kept by every step.                                           *)
LEMMA TypesKept ==
  ASSUME Types, [FinalNext]_finalVars PROVE Types'
<1> USE DEF remote, issue, proofs, history, facts, counters, Types, BranchTypes, RunTypes, HistoryTypes, Labels, Phases
<1>1. CASE NewRun
  BY <1>1 DEF NewRun, Begin, Counted, Runs
<1>2. CASE Rerun
  BY <1>2 DEF Rerun, Begin, Counted
<1>3. CASE Lookup
  BY <1>3 DEF Lookup, Proven
<1>4. CASE Merge
  BY <1>4 DEF Merge
<1>5. CASE UpdateParent
  BY <1>5 DEF UpdateParent
<1>6. CASE Receipt
  BY <1>6 DEF Receipt
<1>7. CASE Absent
  BY <1>7 DEF Absent
<1>8. CASE Moved
  BY <1>8 DEF Moved
<1>9. CASE Denied
  <2>1. sha \in Tips /\ terminals[sha] \in Gens /\ run \in Runs
    BY <1>9 DEF Denied
  <2>2. refused[sha][terminals[sha]] \cup {run} \in SUBSET Runs
    BY <2>1
  <2>3. refused' \in [Tips -> [Gens -> SUBSET Runs]]
    BY <1>9, <2>1, <2>2 DEF Denied
  <2>. QED BY <1>9, <2>1, <2>2, <2>3 DEF Denied, Leased
<1>10. CASE Deleted
  BY <1>10 DEF Deleted, Leased
<1>11. CASE Include
  BY <1>11 DEF Include
<1>12. CASE Close
  BY <1>12 DEF Close
<1>13. CASE Count
  <2>1. sha \in Tips /\ run \in Runs
    BY <1>13 DEF Count
  <2>2. denied' = denied \/ denied' = [denied EXCEPT ![sha] = @ \cup {run}]
    BY <1>13 DEF Count
  <2>3. denied' \in [Tips -> SUBSET Runs]
    BY <2>1, <2>2
  <2>4. terminals' = terminals /\ told' = told /\ (newest' = newest \/ newest' = sha)
    BY <1>13 DEF Count
  <2>5. phase' \in {"label", "off"}
    BY <1>13 DEF Count
  <2>. QED BY <1>13, <2>1, <2>2, <2>3, <2>4, <2>5 DEF Count
<1>14. CASE Label
  BY <1>14 DEF Label
<1>15. CASE Tell
  <2>1. sha \in Tips /\ terminals[sha] \in Gens
    BY <1>15 DEF Tell
  <2>2. told[sha][terminals[sha]] + 1 \in Nat
    BY <2>1
  <2>3. told' \in [Tips -> [Gens -> Nat]]
    BY <1>15, <2>1, <2>2 DEF Tell
  <2>. QED BY <1>15, <2>1, <2>2, <2>3 DEF Tell
<1>16. CASE Terminal
  <2>1. sha \in Tips /\ terminals[sha] \in Gens /\ terminals[sha] < MaxGen
    BY <1>16 DEF Terminal
  <2>2. terminals[sha] + 1 \in Gens
    BY <2>1, Sizes
  <2>3. denied' \in [Tips -> SUBSET Runs] /\ terminals' \in [Tips -> Gens]
    BY <1>16, <2>1, <2>2 DEF Terminal
  <2>. QED BY <1>16, <2>1, <2>2, <2>3 DEF Terminal
<1>17. CASE Watch
  BY <1>17 DEF Watch
<1>18. CASE Settle
  BY <1>18 DEF Settle, Unfinished
<1>19. CASE Unblock
  BY <1>19 DEF Unblock
<1>20. CASE Requeue
  BY <1>20 DEF Requeue
<1>21. CASE Stop
  BY <1>21 DEF Stop
<1>22. CASE Push
  BY <1>22 DEF Push
<1>23. CASE Edit
  BY <1>23 DEF Edit
<1>24. CASE UNCHANGED finalVars
  BY <1>24 DEF finalVars
<1>. QED
  BY <1>1, <1>2, <1>3, <1>4, <1>5, <1>6, <1>7, <1>8, <1>9, <1>10, <1>11, <1>12, <1>13, <1>14, <1>15, <1>16, <1>17, <1>18, <1>19, <1>20, <1>21, <1>22, <1>23, <1>24 DEF FinalNext, Go

(* A receipt is written before the branch is deleted, after the merge.     *)
LEMMA MergedKept ==
  ASSUME Types, Merged, [FinalNext]_finalVars PROVE Merged'
<1> USE DEF remote, issue, proofs, history, facts, counters, Merged, BranchTypes, RunTypes, Types, Labels
<1>1. CASE NewRun
  BY <1>1 DEF NewRun, Begin
<1>2. CASE Rerun
  BY <1>2 DEF Rerun, Begin
<1>3. CASE Lookup
  BY <1>3 DEF Lookup, Proven, Phases
<1>4. CASE Merge
  BY <1>4 DEF Merge
<1>5. CASE UpdateParent
  BY <1>5 DEF UpdateParent
<1>6. CASE Receipt
  BY <1>6 DEF Receipt
<1>7. CASE Absent
  BY <1>7 DEF Absent
<1>8. CASE Moved
  BY <1>8 DEF Moved
<1>9. CASE Denied
  BY <1>9 DEF Denied
<1>10. CASE Deleted
  BY <1>10 DEF Deleted, Leased
<1>11. CASE Include
  BY <1>11 DEF Include
<1>12. CASE Close
  BY <1>12 DEF Close
<1>13. CASE Count
  BY <1>13 DEF Count
<1>14. CASE Label
  BY <1>14 DEF Label
<1>15. CASE Tell
  BY <1>15 DEF Tell
<1>16. CASE Terminal
  BY <1>16 DEF Terminal
<1>17. CASE Watch
  BY <1>17 DEF Watch
<1>18. CASE Settle
  BY <1>18 DEF Settle
<1>19. CASE Unblock
  BY <1>19 DEF Unblock
<1>20. CASE Requeue
  BY <1>20 DEF Requeue
<1>21. CASE Stop
  BY <1>21 DEF Stop
<1>22. CASE Push
  BY <1>22 DEF Push
<1>23. CASE Edit
  BY <1>23 DEF Edit
<1>24. CASE UNCHANGED finalVars
  BY <1>24 DEF finalVars
<1>. QED
  BY <1>1, <1>2, <1>3, <1>4, <1>5, <1>6, <1>7, <1>8, <1>9, <1>10, <1>11, <1>12, <1>13, <1>14, <1>15, <1>16, <1>17, <1>18, <1>19, <1>20, <1>21, <1>22, <1>23, <1>24 DEF FinalNext, Go

(* The lease deletes the commit that was merged, and no other.             *)
LEMMA NothingLostKept ==
  ASSUME Types, Merged, NothingLost, [FinalNext]_finalVars PROVE NothingLost'
<1> USE DEF remote, issue, proofs, history, facts, counters, NothingLost
<1>1. CASE NewRun
  BY <1>1 DEF NewRun, Begin
<1>2. CASE Rerun
  BY <1>2 DEF Rerun, Begin
<1>3. CASE Lookup
  BY <1>3 DEF Lookup
<1>4. CASE Merge
  BY <1>4 DEF Merge
<1>5. CASE UpdateParent
  BY <1>5 DEF UpdateParent
<1>6. CASE Receipt
  BY <1>6 DEF Receipt, Merged
<1>7. CASE Absent
  BY <1>7 DEF Absent
<1>8. CASE Moved
  BY <1>8 DEF Moved
<1>9. CASE Denied
  BY <1>9 DEF Denied
<1>10. CASE Deleted
  BY <1>10 DEF Deleted, Merged, Leased
<1>11. CASE Include
  BY <1>11 DEF Include
<1>12. CASE Close
  BY <1>12 DEF Close, Merged
<1>13. CASE Count
  BY <1>13 DEF Count
<1>14. CASE Label
  BY <1>14 DEF Label
<1>15. CASE Tell
  BY <1>15 DEF Tell
<1>16. CASE Terminal
  BY <1>16 DEF Terminal
<1>17. CASE Watch
  BY <1>17 DEF Watch
<1>18. CASE Settle
  BY <1>18 DEF Settle
<1>19. CASE Unblock
  BY <1>19 DEF Unblock
<1>20. CASE Requeue
  BY <1>20 DEF Requeue
<1>21. CASE Stop
  BY <1>21 DEF Stop
<1>22. CASE Push
  BY <1>22 DEF Push
<1>23. CASE Edit
  BY <1>23 DEF Edit
<1>24. CASE UNCHANGED finalVars
  BY <1>24 DEF finalVars
<1>. QED
  BY <1>1, <1>2, <1>3, <1>4, <1>5, <1>6, <1>7, <1>8, <1>9, <1>10, <1>11, <1>12, <1>13, <1>14, <1>15, <1>16, <1>17, <1>18, <1>19, <1>20, <1>21, <1>22, <1>23, <1>24 DEF FinalNext, Go

(* Only a refused run counts.                                              *)
LEMMA CountsKept ==
  ASSUME Types, CountsReal, [FinalNext]_finalVars PROVE CountsReal'
<1> USE DEF remote, issue, proofs, history, facts, counters, CountsReal, Types, BranchTypes, RunTypes, HistoryTypes, LimitReached
<1>1. CASE NewRun
  BY <1>1 DEF NewRun, Begin
<1>2. CASE Rerun
  BY <1>2 DEF Rerun, Begin
<1>3. CASE Lookup
  BY <1>3 DEF Lookup, Proven, Phases
<1>4. CASE Merge
  BY <1>4 DEF Merge
<1>5. CASE UpdateParent
  BY <1>5 DEF UpdateParent
<1>6. CASE Receipt
  BY <1>6 DEF Receipt
<1>7. CASE Absent
  BY <1>7 DEF Absent
<1>8. CASE Moved
  BY <1>8 DEF Moved
<1>9. CASE Denied
  <2>1. sha \in Tips /\ terminals[sha] \in Gens /\ run \in Runs
    BY <1>9 DEF Denied
  <2>2. /\ run \in refused'[sha][terminals[sha]]
        /\ \A s \in Tips : \A g \in Gens : refused[s][g] \subseteq refused'[s][g]
    BY <1>9, <2>1 DEF Denied
  <2>3. UNCHANGED <<denied, terminals, run, sha>> /\ phase' = "count"
    BY <1>9 DEF Denied
  <2>. QED BY <2>1, <2>2, <2>3
<1>10. CASE Deleted
  BY <1>10 DEF Deleted
<1>11. CASE Include
  BY <1>11 DEF Include
<1>12. CASE Close
  BY <1>12 DEF Close
<1>13. CASE Count
  <2>1. sha \in Tips /\ run \in refused[sha][terminals[sha]]
    BY <1>13 DEF Count
  <2>2. /\ refused' = refused /\ terminals' = terminals /\ sha' = sha /\ run' = run
        /\ phase' = "label" \/ phase' = "off"
        /\ phase' = "label" => Cardinality(denied'[sha]) >= Limit
    BY <1>13 DEF Count
  <2>3. denied' = denied \/ denied' = [denied EXCEPT ![sha] = @ \cup {run}]
    BY <1>13 DEF Count
  <2>4. \A s \in Tips : denied'[s] \subseteq refused[s][terminals[s]]
    <3> TAKE s \in Tips
    <3>1. CASE s = sha
      BY <2>1, <2>3, <3>1
    <3>2. CASE s # sha
      BY <2>1, <2>3, <3>2
    <3>. QED BY <3>1, <3>2
  <2>. QED BY <2>1, <2>2, <2>3, <2>4
<1>14. CASE Label
  BY <1>14 DEF Label
<1>15. CASE Tell
  BY <1>15 DEF Tell
<1>16. CASE Terminal
  <2>1. sha \in Tips
    BY <1>16 DEF Terminal
  <2>2. denied'[sha] = {} /\ \A s \in Tips \ {sha} : denied'[s] = denied[s] /\ terminals'[s] = terminals[s]
    BY <1>16, <2>1 DEF Terminal
  <2>3. UNCHANGED refused /\ phase' = "off"
    BY <1>16 DEF Terminal
  <2>. QED BY <2>1, <2>2, <2>3
<1>17. CASE Watch
  BY <1>17 DEF Watch
<1>18. CASE Settle
  BY <1>18 DEF Settle, Unfinished
<1>19. CASE Unblock
  BY <1>19 DEF Unblock
<1>20. CASE Requeue
  BY <1>20 DEF Requeue
<1>21. CASE Stop
  BY <1>21 DEF Stop
<1>22. CASE Push
  BY <1>22 DEF Push
<1>23. CASE Edit
  BY <1>23 DEF Edit
<1>24. CASE UNCHANGED finalVars
  BY <1>24 DEF finalVars
<1>. QED
  BY <1>1, <1>2, <1>3, <1>4, <1>5, <1>6, <1>7, <1>8, <1>9, <1>10, <1>11, <1>12, <1>13, <1>14, <1>15, <1>16, <1>17, <1>18, <1>19, <1>20, <1>21, <1>22, <1>23, <1>24 DEF FinalNext, Go

(* The parent is told before the terminal comment.                         *)
LEMMA ToldKept ==
  ASSUME Types, EscalatesRightly, ToldFirst, [FinalNext]_finalVars PROVE ToldFirst'
<1> USE DEF remote, issue, proofs, history, facts, counters, ToldFirst, Types, BranchTypes, RunTypes, HistoryTypes
<1>1. CASE NewRun
  BY <1>1 DEF NewRun, Begin
<1>2. CASE Rerun
  BY <1>2 DEF Rerun, Begin
<1>3. CASE Lookup
  BY <1>3 DEF Lookup, Proven, Phases
<1>4. CASE Merge
  BY <1>4 DEF Merge
<1>5. CASE UpdateParent
  BY <1>5 DEF UpdateParent
<1>6. CASE Receipt
  BY <1>6 DEF Receipt
<1>7. CASE Absent
  BY <1>7 DEF Absent
<1>8. CASE Moved
  BY <1>8 DEF Moved
<1>9. CASE Denied
  BY <1>9 DEF Denied
<1>10. CASE Deleted
  BY <1>10 DEF Deleted
<1>11. CASE Include
  BY <1>11 DEF Include
<1>12. CASE Close
  BY <1>12 DEF Close
<1>13. CASE Count
  BY <1>13 DEF Count
<1>14. CASE Label
  BY <1>14 DEF Label
<1>15. CASE Tell
  <2>1. sha \in Tips /\ terminals[sha] \in Gens /\ told[sha][terminals[sha]] \in Nat
    BY <1>15 DEF Tell
  <2>2. told[sha][terminals[sha]] <= 1
    BY <2>1 DEF EscalatesRightly
  <2>3. told' = IF told[sha][terminals[sha]] = 0
               THEN [told EXCEPT ![sha][terminals[sha]] = told[sha][terminals[sha]] + 1] ELSE told
    BY <1>15 DEF Tell, Untold
  <2>4. told'[sha][terminals[sha]] = 1
    <3>1. CASE told[sha][terminals[sha]] = 0
      BY <2>1, <2>3, <3>1
    <3>2. CASE told[sha][terminals[sha]] # 0
      <4>1. told[sha][terminals[sha]] \in Nat /\ told[sha][terminals[sha]] <= 1
        BY <2>1, <2>2
      <4>2. told[sha][terminals[sha]] = 1
        BY ONLY <3>2, <4>1
      <4>. QED BY <2>3, <3>2, <4>2
    <3>. QED BY <3>1, <3>2
  <2>5. sha' = sha /\ terminals' = terminals
    BY <1>15 DEF Tell
  <2>. QED BY <2>1, <2>2, <2>3, <2>4, <2>5
<1>16. CASE Terminal
  BY <1>16 DEF Terminal
<1>17. CASE Watch
  BY <1>17 DEF Watch
<1>18. CASE Settle
  BY <1>18 DEF Settle
<1>19. CASE Unblock
  BY <1>19 DEF Unblock
<1>20. CASE Requeue
  BY <1>20 DEF Requeue
<1>21. CASE Stop
  BY <1>21 DEF Stop
<1>22. CASE Push
  BY <1>22 DEF Push
<1>23. CASE Edit
  BY <1>23 DEF Edit
<1>24. CASE UNCHANGED finalVars
  BY <1>24 DEF finalVars
<1>. QED
  BY <1>1, <1>2, <1>3, <1>4, <1>5, <1>6, <1>7, <1>8, <1>9, <1>10, <1>11, <1>12, <1>13, <1>14, <1>15, <1>16, <1>17, <1>18, <1>19, <1>20, <1>21, <1>22, <1>23, <1>24 DEF FinalNext, Go

(* Told once a generation, at the limit, and before its terminal comment.  *)
LEMMA EscalatesKept ==
  ASSUME Types, CountsReal, ToldFirst, EscalatesRightly, [FinalNext]_finalVars PROVE EscalatesRightly'
<1> USE DEF remote, issue, proofs, history, facts, counters, EscalatesRightly, Types, BranchTypes, RunTypes, HistoryTypes
<1>1. CASE NewRun
  BY <1>1 DEF NewRun, Begin
<1>2. CASE Rerun
  BY <1>2 DEF Rerun, Begin
<1>3. CASE Lookup
  BY <1>3 DEF Lookup
<1>4. CASE Merge
  BY <1>4 DEF Merge
<1>5. CASE UpdateParent
  BY <1>5 DEF UpdateParent
<1>6. CASE Receipt
  BY <1>6 DEF Receipt
<1>7. CASE Absent
  BY <1>7 DEF Absent
<1>8. CASE Moved
  BY <1>8 DEF Moved
<1>9. CASE Denied
  <2>1. sha \in Tips /\ terminals[sha] \in Gens /\ run \in Runs
    BY <1>9 DEF Denied
  <2>2. refused' \in [Tips -> [Gens -> SUBSET Runs]]
    BY <1>9, <2>1 DEF Denied
  <2>3. \A s \in Tips : \A g \in Gens : refused[s][g] \subseteq refused'[s][g]
    BY <1>9, <2>1 DEF Denied
  <2>4. \A s \in Tips, g \in Gens : Cardinality(refused[s][g]) <= Cardinality(refused'[s][g])
        /\ Cardinality(refused[s][g]) \in Nat /\ Cardinality(refused'[s][g]) \in Nat
    <3> TAKE s \in Tips, g \in Gens
    <3>1. refused[s][g] \in SUBSET (refused'[s][g]) /\ refused'[s][g] \in SUBSET Runs
      BY <2>2, <2>3
    <3>. QED BY <3>1, RunsFinite
  <2>5. UNCHANGED <<told, terminals>>
    BY <1>9 DEF Denied
  <2>6. \A s \in Tips : \A g \in Gens : told[s][g] > 0 => Cardinality(refused'[s][g]) >= Limit
    BY <2>4, FinalizationAssumption
  <2>. QED BY <2>1, <2>2, <2>3, <2>4, <2>5, <2>6
<1>10. CASE Deleted
  BY <1>10 DEF Deleted
<1>11. CASE Include
  BY <1>11 DEF Include
<1>12. CASE Close
  BY <1>12 DEF Close
<1>13. CASE Count
  BY <1>13 DEF Count
<1>14. CASE Label
  BY <1>14 DEF Label
<1>15. CASE Tell
  <2>1. sha \in Tips /\ terminals[sha] \in Gens
    BY <1>15 DEF Tell
  <2>2. /\ denied[sha] \in SUBSET refused[sha][terminals[sha]] /\ refused[sha][terminals[sha]] \in SUBSET Runs
        /\ Cardinality(denied[sha]) >= Limit
    BY <1>15, <2>1 DEF Tell, CountsReal, LimitReached
  <2>3. Cardinality(refused[sha][terminals[sha]]) >= Limit
    <3>1. /\ Cardinality(denied[sha]) \in Nat /\ Cardinality(refused[sha][terminals[sha]]) \in Nat
          /\ Cardinality(denied[sha]) <= Cardinality(refused[sha][terminals[sha]])
      BY <2>2, RunsFinite
    <3>. QED BY <2>2, <3>1, FinalizationAssumption
  <2>4. \A s \in Tips : \A g \in Gens : told'[s][g] = IF s = sha /\ g = terminals[sha] /\ told[s][g] = 0 THEN 1 ELSE told[s][g]
    BY <1>15, <2>1 DEF Tell, Untold
  <2>5. UNCHANGED <<refused, terminals>>
    BY <1>15 DEF Tell
  <2>6. \A s \in Tips : \A g \in Gens : told[s][g] \in Nat /\ terminals[s] \in Gens
    OBVIOUS
  <2>. QED BY <2>1, <2>2, <2>3, <2>4, <2>5, <2>6
<1>16. CASE Terminal
  <2>1. sha \in Tips /\ terminals[sha] \in Gens /\ told[sha][terminals[sha]] = 1
    BY <1>16 DEF Terminal, ToldFirst
  <2>2. \A s \in Tips : terminals'[s] = IF s = sha THEN terminals[s] + 1 ELSE terminals[s]
    BY <1>16, <2>1 DEF Terminal
  <2>3. UNCHANGED <<told, refused>>
    BY <1>16 DEF Terminal
  <2>4. \A s \in Tips, g \in Gens : g < terminals'[s] => g < terminals[s] \/ (s = sha /\ g = terminals[sha])
    <3> TAKE s \in Tips, g \in Gens
    <3>1. terminals[s] \in Nat /\ g \in Nat
      BY Sizes
    <3>2. CASE s = sha
      <4>1. terminals'[s] = terminals[s] + 1
        BY <2>2, <3>2
      <4>2. g < terminals[s] + 1 => g < terminals[s] \/ g = terminals[s]
        BY ONLY <3>1
      <4>. QED BY <3>2, <4>1, <4>2
    <3>3. CASE s # sha
      BY <2>2, <3>3
    <3>. QED BY <3>2, <3>3
  <2>. QED BY <2>1, <2>2, <2>3, <2>4
<1>17. CASE Watch
  BY <1>17 DEF Watch
<1>18. CASE Settle
  BY <1>18 DEF Settle
<1>19. CASE Unblock
  BY <1>19 DEF Unblock
<1>20. CASE Requeue
  BY <1>20 DEF Requeue
<1>21. CASE Stop
  BY <1>21 DEF Stop
<1>22. CASE Push
  BY <1>22 DEF Push
<1>23. CASE Edit
  BY <1>23 DEF Edit
<1>24. CASE UNCHANGED finalVars
  BY <1>24 DEF finalVars
<1>. QED
  BY <1>1, <1>2, <1>3, <1>4, <1>5, <1>6, <1>7, <1>8, <1>9, <1>10, <1>11, <1>12, <1>13, <1>14, <1>15, <1>16, <1>17, <1>18, <1>19, <1>20, <1>21, <1>22, <1>23, <1>24 DEF FinalNext, Go

LEMMA FinalInitHolds == FinalInit => FinalInv
<1> SUFFICES ASSUME FinalInit PROVE FinalInv
  OBVIOUS
<1>1. Types
  BY FinalizationAssumption
     DEF FinalInit, Types, BranchTypes, RunTypes, HistoryTypes, Phases, Tips, Runs, Gens, Labels
<1>2. Merged /\ NothingLost /\ ToldFirst
  BY DEF FinalInit, Merged, NothingLost, ToldFirst
<1>3. CountsReal /\ EscalatesRightly
  <2>1. \A s \in Tips, g \in Gens : told[s][g] = 0 /\ terminals[s] = 0
    BY DEF FinalInit
  <2>2. EscalatesRightly
    BY <2>1 DEF EscalatesRightly, Gens
  <2>. QED BY <2>2 DEF FinalInit, CountsReal
<1>. QED BY <1>1, <1>2, <1>3 DEF FinalInv

(* The inductive invariant of the finalization.                            *)
THEOREM FinalizationInvariant == FinalSpec => []FinalInv
<1>1. FinalInv /\ [FinalNext]_finalVars => FinalInv'
  BY TypesKept, MergedKept, NothingLostKept, CountsKept, ToldKept, EscalatesKept
     DEF FinalInv
<1>. QED BY FinalInitHolds, <1>1, PTL DEF FinalSpec

(* What the Integrator deletes, the parent branch contains                 *)
(* (delete_remote_branch_if_matches), and a closed child has a receipt.    *)
THEOREM NothingIsLost == FinalSpec => []NothingLost
<1>1. FinalInv => NothingLost
  BY DEF FinalInv
<1>. QED BY FinalizationInvariant, <1>1, PTL

(* An escalation is never early, the parent is told once, and a terminal   *)
(* comment proves that it was told (finalization_retry.py).                *)
THEOREM EscalationIsRight == FinalSpec => []EscalatesRightly
<1>1. FinalInv => EscalatesRightly
  BY DEF FinalInv
<1>. QED BY FinalizationInvariant, <1>1, PTL
=============================================================================
