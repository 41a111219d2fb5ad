-------------------------- MODULE RetryBudgetsProofs --------------------------
(***************************************************************************)
(* The retry budgets for every value of the budgets and every number of    *)
(* relabellings, failures and stops.                                       *)
(***************************************************************************)
EXTENDS RetryBudgets, TLAPS

(* What a ledger may look like, whatever was launched.                     *)
Book == [entry: BOOLEAN, started: BOOLEAN, count: Nat, pend: BOOLEAN,
         death: Nat, deathPend: BOOLEAN, review: Nat, reviewPend: BOOLEAN,
         limit: Nat, limitPend: BOOLEAN, limitRun: Nat]

(* The launches a ledger has paid for, and what it still owes to retries   *)
(* that it counted and did not carry out.                                  *)
One(b)    == IF b THEN 1 ELSE 0
Capped(n) == IF n <= MaxReclaims THEN n ELSE MaxReclaims
Worth(m)  == Capped(m.count) + m.death + m.review + m.limit
Credit(m) == m.pend /\ m.count <= MaxReclaims
Owed(m)   == One(Credit(m)) + One(m.deathPend) + One(m.reviewPend) + One(m.limitPend)

(* Neither its execution nor a human keeps the Issue from the next launch. *)
Open(m, L) == (m.entry => "progress" \notin L) /\ "review" \notin L

(* With r launches and k relabellings every launch is paid for, the next   *)
(* one included once nothing keeps the Issue from it.                      *)
Fits(m, L, r, k) ==
  /\ m.entry => r + Owed(m) <= 1 + k + Worth(m)
  /\ r + One(m.reviewPend) <= 1 + k + Worth(m)
  /\ Open(m, L) => r + 1 + One(m.reviewPend) <= 1 + k + Worth(m)
Covered == Fits(disk, labels, runs, manual) /\ Fits(mem, labels, runs, manual)

(* Until a phase holds the worktree the cycle works on what is saved.      *)
Loaded ==
  /\ at = "off" => op = "none"
  /\ at \in {"off", "rules", "save"} => mem = disk
  /\ at = "gc" /\ ~held => mem = disk

(* What the steps of a way out rely on.                                    *)
Carries(m) ==
  /\ op = "reclaim" => Credit(m)
  /\ op = "limit" /\ m.entry => m.limitPend
  /\ op = "death" => IF at = "unlabel" THEN ~m.entry ELSE m.deathPend
  /\ op = "timeout" => IF at = "unlabel" THEN ~m.entry ELSE m.reviewPend
Decided ==
  /\ op \in Requeues \cup {"reclaimStop", "limitStop"}
  /\ op = "death" => MayDie(mem)
  /\ op = "timeout" => MayWait(mem)
  /\ op = "limit" => MayLimit(mem)
  /\ op = "reclaim" => ~Exceeds(ReclaimCount(mem))
Held ==
  /\ at \in {"save", "kill", "clean", "label", "settle"} => mem.entry
  /\ at = "unlabel" /\ op = "reclaim" => mem.entry
  /\ at \in {"save", "kill", "clean", "label", "settle", "unlabel"} => op \in Ways
  /\ at = "save" => Decided
  /\ at \in {"kill", "clean", "label", "settle", "unlabel"} => Carries(disk) /\ Carries(mem)
Gated ==
  /\ op = "kept" /\ at # "off" => "review" \in labels
  /\ at \in {"settle", "unlabel"} /\ op \in Stops => "review" \in labels
  /\ at # "off" /\ "review" \in seen => "review" \in labels

(* Only the hold of a dirty worktree is counted before it is saved.        *)
CountLags ==
  at # "off" /\ mem.count # disk.count =>
    /\ tree = "dirty" /\ ~agent.alive
    /\ at \in {"gc", "label", "settle", "unlabel", "repair", "launch"}
    /\ at = "gc" => held /\ "progress" \in seen
    /\ at \in {"label", "settle", "unlabel"} => op = "dirtyStop"

IInv == TypeOK /\ Loaded /\ Held /\ Gated /\ Covered /\ CountLags

-----------------------------------------------------------------------------
(* How each change of a ledger keeps its books.                            *)

LEMMA Budgets ==
  MaxReclaims \in Nat /\ MaxDeaths \in Nat /\ MaxTimeouts \in Nat \ {0} /\ MaxLimits \in Nat
  BY BudgetAssumption

LEMMA RecordsAreBooks == ASSUME TypeOK, NEW m \in Records PROVE m \in Book
  BY Budgets DEF TypeOK, Records, Book

LEMMA Sizes ==
  ASSUME NEW m \in Book
  PROVE  /\ Worth(m) \in Nat /\ Owed(m) \in Nat
         /\ One(Credit(m)) \in {0, 1} /\ One(m.deathPend) \in {0, 1}
         /\ One(m.reviewPend) \in {0, 1} /\ One(m.limitPend) \in {0, 1}
  BY Budgets DEF Book, Worth, Capped, Owed, One

(* A ledger that gains no debt fits wherever the former did.               *)
LEMMA Follows ==
  ASSUME NEW m \in Book, NEW n \in Book, NEW L, NEW L2, NEW r \in Nat, NEW k \in Nat,
         Fits(m, L, r, k), n.entry => m.entry, Open(n, L2) => Open(m, L),
         Worth(n) + Owed(m) >= Worth(m) + Owed(n),
         Worth(n) + One(m.reviewPend) >= Worth(m) + One(n.reviewPend)
  PROVE  Fits(n, L2, r, k)
<1>. DEFINE a == Worth(m)  b == Worth(n)  c == Owed(m)  d == Owed(n)
            e == One(m.reviewPend)  f == One(n.reviewPend)
<1>1. a \in Nat /\ b \in Nat /\ c \in Nat /\ d \in Nat /\ e \in Nat /\ f \in Nat
  BY Sizes
<1>2. /\ m.entry => r + c <= 1 + k + a
      /\ r + e <= 1 + k + a
      /\ Open(m, L) => r + 1 + e <= 1 + k + a
  BY DEF Fits
<1>3. b + c >= a + d /\ b + e >= a + f
  OBVIOUS
<1>. HIDE DEF a, b, c, d, e, f
<1>4. n.entry => r + d <= 1 + k + b
  BY <1>1, <1>2, <1>3
<1>5. r + f <= 1 + k + b
  BY <1>1, <1>2, <1>3
<1>6. Open(n, L2) => r + 1 + f <= 1 + k + b
  BY <1>1, <1>2, <1>3
<1>. QED BY <1>4, <1>5, <1>6 DEF Fits, b, d, f

(* Other labels that do not free the Issue.                                *)
LEMMA Relabelled ==
  ASSUME NEW m \in Book, NEW L, NEW L2, NEW r \in Nat, NEW k \in Nat,
         Fits(m, L, r, k), Open(m, L2) => Open(m, L)
  PROVE  Fits(m, L2, r, k)
  BY DEF Fits

(* A retry that was counted and not carried out pays for the next launch.  *)
LEMMA Requeued ==
  ASSUME NEW m \in Book, NEW L, NEW L2, NEW r \in Nat, NEW k \in Nat,
         Fits(m, L, r, k), m.entry, Credit(m) \/ m.limitPend
  PROVE  Fits(m, L2, r, k)
<1>1. One(Credit(m)) = 1 \/ One(m.limitPend) = 1
  BY DEF One
<1>2. Owed(m) >= 1 + One(m.reviewPend)
  BY <1>1, Sizes DEF Owed
<1>. QED BY <1>2, Sizes DEF Fits

(* An operator pays for one.                                               *)
LEMMA PaidByHand ==
  ASSUME NEW m \in Book, NEW L, NEW L2, NEW r \in Nat, NEW k \in Nat, Fits(m, L, r, k)
  PROVE  Fits(m, L2, r, k + 1)
  BY Sizes DEF Fits

LEMMA ReservedBook ==
  ASSUME TypeOK, NEW m \in Book, NEW way \in Ways PROVE Reserved(m, way) \in Book
<1>1. runs \in Nat
  BY DEF TypeOK
<1>2. RunId(m) \in Nat
  BY <1>1 DEF RunId
<1>. DEFINE n == Reserved(m, way)
<1>a. \A p : /\ Spend(m.count, p) \in Nat /\ Spend(m.death, p) \in Nat
             /\ Spend(m.review, p) \in Nat /\ Spend(m.limit, p) \in Nat
  BY DEF Spend, Book
<1>3. CASE way \in {"reclaim", "reclaimStop"}
  <2>1. n = [m EXCEPT !.count = Spend(m.count, m.pend), !.pend = TRUE]
    BY <1>3 DEF Reserved, ReclaimCount
  <2>2. Spend(m.count, m.pend) \in Nat
    BY <1>a
  <2>. QED BY ONLY <2>1, <2>2, m \in Book DEF Book
<1>4. CASE way = "death"
  <2>1. n = [m EXCEPT !.death = Spend(m.death, m.deathPend), !.deathPend = TRUE]
    BY <1>4 DEF Reserved
  <2>2. Spend(m.death, m.deathPend) \in Nat
    BY <1>a
  <2>. QED BY ONLY <2>1, <2>2, m \in Book DEF Book
<1>5. CASE way = "timeout"
  <2>1. n = [m EXCEPT !.review = Spend(m.review, m.reviewPend), !.reviewPend = TRUE]
    BY <1>5 DEF Reserved
  <2>2. Spend(m.review, m.reviewPend) \in Nat
    BY <1>a
  <2>. QED BY ONLY <2>1, <2>2, m \in Book DEF Book
<1>6. CASE way = "limit"
  <2>1. n = [m EXCEPT !.limit = Spend(m.limit, OwnLimit(m)), !.limitPend = TRUE,
                      !.limitRun = RunId(m)]
    BY <1>6 DEF Reserved
  <2>2. Spend(m.limit, OwnLimit(m)) \in Nat
    BY <1>a
  <2>. QED BY ONLY <2>1, <2>2, <1>2, m \in Book DEF Book
<1>7. CASE way \notin {"reclaim", "reclaimStop", "death", "timeout", "limit"}
  BY <1>7 DEF Reserved
<1>. QED BY <1>3, <1>4, <1>5, <1>6, <1>7

(* What is reserved is counted.                                            *)
LEMMA ReservedFits ==
  ASSUME TypeOK, NEW m \in Book, NEW L, NEW r \in Nat, NEW k \in Nat, NEW way \in Ways,
         Fits(m, L, r, k)
  PROVE  Fits(Reserved(m, way), L, r, k)
<1>. DEFINE n == Reserved(m, way)
<1>0. n \in Book
  BY ReservedBook
<1>1. CASE way \in {"reclaim", "reclaimStop"}
  <2>1. n = [m EXCEPT !.count = Spend(m.count, m.pend), !.pend = TRUE]
    BY <1>1 DEF Reserved, ReclaimCount
  <2>2. /\ n.count = Spend(m.count, m.pend) /\ n.pend = TRUE
        /\ n.entry = m.entry /\ n.death = m.death /\ n.deathPend = m.deathPend
        /\ n.review = m.review /\ n.reviewPend = m.reviewPend
        /\ n.limit = m.limit /\ n.limitPend = m.limitPend
    BY <2>1 DEF Book
  <2>3. m.count \in Nat /\ m.pend \in BOOLEAN /\ m.death \in Nat /\ m.review \in Nat /\ m.limit \in Nat
    BY DEF Book
  <2>4. Worth(n) + One(Credit(m)) >= Worth(m) + One(Credit(n)) /\ Worth(n) >= Worth(m)
    <3>1. CASE m.pend
      <4>1. n.count = m.count
        BY <3>1, <2>2 DEF Spend
      <4>2. Credit(n) <=> Credit(m)
        BY <4>1, <3>1, <2>2 DEF Credit
      <4>3. One(Credit(n)) = One(Credit(m)) /\ Worth(n) = Worth(m)
        BY <4>1, <4>2, <2>2 DEF One, Worth
      <4>. QED BY <4>3, Sizes
    <3>2. CASE ~m.pend
      <4>1. n.count = m.count + 1
        BY <3>2, <2>2 DEF Spend
      <4>2. One(Credit(m)) = 0 /\ One(Credit(n)) = One(n.count <= MaxReclaims)
        BY <3>2, <2>2 DEF Credit, One
      <4>3. Capped(m.count + 1) >= Capped(m.count) + One(m.count + 1 <= MaxReclaims)
        BY <2>3, Budgets DEF Capped, One
      <4>4. Capped(n.count) >= Capped(m.count) + One(Credit(n))
        BY <4>1, <4>2, <4>3
      <4>5. Capped(n.count) \in Nat /\ Capped(m.count) \in Nat
        BY <2>3, <4>1, Budgets DEF Capped
      <4>. QED BY ONLY <4>2, <4>4, <4>5, <2>2, <2>3, Sizes, <1>0, m \in Book DEF Worth
    <3>. QED BY <3>1, <3>2, <2>3
  <2>5. Worth(n) + Owed(m) >= Worth(m) + Owed(n)
    BY <2>2, <2>4, <1>0, Sizes DEF Owed
  <2>6. Worth(n) + One(m.reviewPend) >= Worth(m) + One(n.reviewPend)
    BY <2>2, <2>4, <1>0, Sizes
  <2>7. (n.entry => m.entry) /\ (Open(n, L) => Open(m, L))
    BY <2>2 DEF Open
  <2>. QED BY <2>5, <2>6, <2>7, <1>0, Follows
<1>2. CASE way = "death"
  <2>1. n = [m EXCEPT !.death = Spend(m.death, m.deathPend), !.deathPend = TRUE]
    BY <1>2 DEF Reserved
  <2>2. /\ n.death = Spend(m.death, m.deathPend) /\ n.deathPend = TRUE
        /\ n.entry = m.entry /\ n.count = m.count /\ n.pend = m.pend
        /\ n.review = m.review /\ n.reviewPend = m.reviewPend
        /\ n.limit = m.limit /\ n.limitPend = m.limitPend
    BY <2>1 DEF Book
  <2>3. m.count \in Nat /\ m.death \in Nat /\ m.review \in Nat /\ m.limit \in Nat
    BY DEF Book
  <2>4. n.death + One(m.deathPend) >= m.death + One(n.deathPend) /\ n.death \in Nat
    <3>1. CASE m.deathPend
      <4>1. n.death = m.death
        BY <3>1, <2>2 DEF Spend
      <4>2. One(m.deathPend) = 1 /\ One(n.deathPend) = 1
        BY <3>1, <2>2 DEF One
      <4>. QED BY ONLY <4>1, <4>2, <2>3
    <3>2. CASE ~m.deathPend
      <4>1. n.death = m.death + 1
        BY <3>2, <2>2 DEF Spend
      <4>2. One(n.deathPend) = 1
        BY <2>2 DEF One
      <4>. QED BY <4>1, <4>2, <2>3, Sizes
    <3>. QED BY <3>1, <3>2
  <2>5. Capped(n.count) = Capped(m.count) /\ Capped(m.count) \in Nat /\ One(Credit(n)) = One(Credit(m))
    BY <2>2, <2>3, Budgets DEF Capped, Credit
  <2>6. Worth(n) + Owed(m) >= Worth(m) + Owed(n)
    BY ONLY <2>2, <2>3, <2>4, <2>5, <1>0, Sizes, m \in Book DEF Worth, Owed
  <2>7. Worth(n) + One(m.reviewPend) >= Worth(m) + One(n.reviewPend)
    <3>1. n.death >= m.death
      BY <2>2, <2>3 DEF Spend
    <3>. QED BY ONLY <3>1, <2>2, <2>3, <2>4, <2>5, <1>0, Sizes, m \in Book DEF Worth
  <2>8. (n.entry => m.entry) /\ (Open(n, L) => Open(m, L))
    BY <2>2 DEF Open
  <2>. QED BY <2>6, <2>7, <2>8, <1>0, Follows
<1>3. CASE way = "timeout"
  <2>1. n = [m EXCEPT !.review = Spend(m.review, m.reviewPend), !.reviewPend = TRUE]
    BY <1>3 DEF Reserved
  <2>2. /\ n.review = Spend(m.review, m.reviewPend) /\ n.reviewPend = TRUE
        /\ n.entry = m.entry /\ n.count = m.count /\ n.pend = m.pend
        /\ n.death = m.death /\ n.deathPend = m.deathPend
        /\ n.limit = m.limit /\ n.limitPend = m.limitPend
    BY <2>1 DEF Book
  <2>3. m.count \in Nat /\ m.death \in Nat /\ m.review \in Nat /\ m.limit \in Nat
    BY DEF Book
  <2>4. n.review + One(m.reviewPend) >= m.review + One(n.reviewPend) /\ n.review \in Nat
    <3>1. CASE m.reviewPend
      <4>1. n.review = m.review
        BY <3>1, <2>2 DEF Spend
      <4>2. One(m.reviewPend) = 1 /\ One(n.reviewPend) = 1
        BY <3>1, <2>2 DEF One
      <4>. QED BY ONLY <4>1, <4>2, <2>3
    <3>2. CASE ~m.reviewPend
      <4>1. n.review = m.review + 1
        BY <3>2, <2>2 DEF Spend
      <4>2. One(n.reviewPend) = 1
        BY <2>2 DEF One
      <4>. QED BY <4>1, <4>2, <2>3, Sizes
    <3>. QED BY <3>1, <3>2
  <2>5. Capped(n.count) = Capped(m.count) /\ Capped(m.count) \in Nat /\ One(Credit(n)) = One(Credit(m))
    BY <2>2, <2>3, Budgets DEF Capped, Credit
  <2>6. Worth(n) + Owed(m) >= Worth(m) + Owed(n)
    BY ONLY <2>2, <2>3, <2>4, <2>5, <1>0, Sizes, m \in Book DEF Worth, Owed
  <2>7. Worth(n) + One(m.reviewPend) >= Worth(m) + One(n.reviewPend)
    <3>1. n.review >= m.review
      BY <2>2, <2>3 DEF Spend
    <3>. QED BY ONLY <3>1, <2>2, <2>3, <2>4, <2>5, <1>0, Sizes, m \in Book DEF Worth
  <2>8. (n.entry => m.entry) /\ (Open(n, L) => Open(m, L))
    BY <2>2 DEF Open
  <2>. QED BY <2>6, <2>7, <2>8, <1>0, Follows
<1>4. CASE way = "limit"
  <2>1. n = [m EXCEPT !.limit = Spend(m.limit, OwnLimit(m)), !.limitPend = TRUE,
                      !.limitRun = RunId(m)]
    BY <1>4 DEF Reserved
  <2>2. /\ n.limit = Spend(m.limit, OwnLimit(m)) /\ n.limitPend = TRUE
        /\ n.entry = m.entry /\ n.count = m.count /\ n.pend = m.pend
        /\ n.death = m.death /\ n.deathPend = m.deathPend
        /\ n.review = m.review /\ n.reviewPend = m.reviewPend
    BY <2>1 DEF Book
  <2>3. m.count \in Nat /\ m.death \in Nat /\ m.review \in Nat /\ m.limit \in Nat
    BY DEF Book
  <2>4. n.limit + One(m.limitPend) >= m.limit + One(n.limitPend) /\ n.limit \in Nat
    <3>1. CASE OwnLimit(m)
      <4>1. n.limit = m.limit
        BY <3>1, <2>2 DEF Spend
      <4>2. One(m.limitPend) = 1 /\ One(n.limitPend) = 1
        BY <3>1, <2>2 DEF One, OwnLimit
      <4>. QED BY ONLY <4>1, <4>2, <2>3
    <3>2. CASE ~OwnLimit(m)
      <4>1. n.limit = m.limit + 1
        BY <3>2, <2>2 DEF Spend
      <4>2. One(n.limitPend) = 1
        BY <2>2 DEF One
      <4>. QED BY <4>1, <4>2, <2>3, Sizes
    <3>. QED BY <3>1, <3>2
  <2>5. Capped(n.count) = Capped(m.count) /\ Capped(m.count) \in Nat /\ One(Credit(n)) = One(Credit(m))
    BY <2>2, <2>3, Budgets DEF Capped, Credit
  <2>6. Worth(n) + Owed(m) >= Worth(m) + Owed(n)
    BY ONLY <2>2, <2>3, <2>4, <2>5, <1>0, Sizes, m \in Book DEF Worth, Owed
  <2>7. Worth(n) + One(m.reviewPend) >= Worth(m) + One(n.reviewPend)
    <3>1. n.limit >= m.limit
      BY <2>2, <2>3 DEF Spend
    <3>. QED BY ONLY <3>1, <2>2, <2>3, <2>4, <2>5, <1>0, Sizes, m \in Book DEF Worth
  <2>8. (n.entry => m.entry) /\ (Open(n, L) => Open(m, L))
    BY <2>2 DEF Open
  <2>. QED BY <2>6, <2>7, <2>8, <1>0, Follows
<1>5. CASE way \notin {"reclaim", "reclaimStop", "death", "timeout", "limit"}
  BY <1>5 DEF Reserved
<1>. QED BY <1>1, <1>2, <1>3, <1>4, <1>5

(* An execution that is let go owes nothing more.                          *)
LEMMA SettledFields ==
  ASSUME NEW m \in Book, NEW way, NEW n, n = Settled(m, way)
  PROVE  /\ n \in Book /\ ~n.entry /\ n.started = m.started
         /\ n.count = m.count /\ n.death = m.death /\ n.review = m.review
         /\ n.limit = m.limit /\ n.limitRun = m.limitRun
         /\ n.pend => m.pend /\ way \notin Reclaims
         /\ n.deathPend => m.deathPend
         /\ n.reviewPend => m.reviewPend /\ way # "timeout"
         /\ n.limitPend => m.limitPend
<1>0. Settled(m, way) \in Book
  BY ONLY m \in Book DEF Settled, Book
<1>6. ~n.entry /\ n.started = m.started
  BY DEF Settled, Book
<1>1. /\ n.count = m.count /\ n.death = m.death /\ n.review = m.review
      /\ n.limit = m.limit /\ n.limitRun = m.limitRun
  BY DEF Settled, Book
<1>2. n.pend => m.pend /\ way \notin Reclaims
  BY DEF Settled, Book
<1>3. n.deathPend => m.deathPend
  BY DEF Settled, Book
<1>4. n.reviewPend => m.reviewPend /\ way # "timeout"
  BY DEF Settled, Book
<1>5. n.limitPend => m.limitPend
  BY DEF Settled, Book
<1>. QED BY <1>0, <1>1, <1>2, <1>3, <1>4, <1>5, <1>6

LEMMA SettledFits ==
  ASSUME NEW m \in Book, NEW L, NEW L2, NEW r \in Nat, NEW k \in Nat, NEW way,
         Fits(m, L, r, k),
         \/ "review" \in L2
         \/ m.entry /\ (Credit(m) \/ m.limitPend \/ m.deathPend \/ (way = "timeout" /\ m.reviewPend))
  PROVE  Fits(Settled(m, way), L2, r, k)
<1>. DEFINE n == Settled(m, way)
<1>f. /\ n.reviewPend => m.reviewPend /\ way # "timeout"
      /\ n.limitPend => m.limitPend
  BY SettledFields
<1>0. /\ n \in Book /\ ~n.entry
      /\ n.count = m.count /\ n.death = m.death /\ n.review = m.review /\ n.limit = m.limit
  BY SettledFields
<1>1. n \in Book /\ ~n.entry /\ Worth(n) = Worth(m)
  BY <1>0 DEF Worth
<1>2. One(n.reviewPend) <= One(m.reviewPend)
  <2>1. n.reviewPend => m.reviewPend
    BY <1>f
  <2>. QED BY <2>1 DEF One
<1>3. r + One(n.reviewPend) <= 1 + k + Worth(n)
  <2>1. r + One(m.reviewPend) <= 1 + k + Worth(m)
    BY DEF Fits
  <2>2. Worth(m) \in Nat /\ One(m.reviewPend) \in Nat /\ One(n.reviewPend) \in Nat
    BY <1>1, Sizes
  <2>. QED BY ONLY <2>1, <2>2, <1>1, <1>2, r \in Nat, k \in Nat
<1>4. CASE "review" \in L2
  <2>1. ~Open(n, L2)
    BY <1>4 DEF Open
  <2>2. ~n.entry
    BY <1>1
  <2>. QED BY <2>1, <2>2, <1>3 DEF Fits
<1>5. CASE m.entry /\ (Credit(m) \/ m.limitPend \/ m.deathPend \/ (way = "timeout" /\ m.reviewPend))
  <2>1. One(n.reviewPend) + 1 <= Owed(m)
    <3>1. CASE Credit(m) \/ m.limitPend \/ m.deathPend
      <4>1. One(Credit(m)) = 1 \/ One(m.limitPend) = 1 \/ One(m.deathPend) = 1
        BY <3>1 DEF One
      <4>2. One(n.reviewPend) \in Nat
        BY <1>1, Sizes
      <4>. QED BY ONLY <4>1, <4>2, <1>2, Sizes, m \in Book DEF Owed
    <3>2. CASE way = "timeout" /\ m.reviewPend
      <4>1. ~n.reviewPend
        BY <3>2, <1>f
      <4>2. One(n.reviewPend) = 0 /\ One(m.reviewPend) = 1
        BY <4>1, <3>2 DEF One
      <4>. QED BY ONLY <4>2, Sizes, m \in Book DEF Owed
    <3>. QED BY <1>5, <3>1, <3>2
  <2>2. r + Owed(m) <= 1 + k + Worth(m)
    BY <1>5 DEF Fits
  <2>3. Owed(m) \in Nat /\ Worth(m) \in Nat /\ One(n.reviewPend) \in Nat
    BY <1>1, Sizes
  <2>4. r + 1 + One(n.reviewPend) <= 1 + k + Worth(n)
    BY ONLY <2>1, <2>2, <2>3, <1>1, r \in Nat, k \in Nat
  <2>5. ~n.entry
    BY <1>1
  <2>. QED BY <2>4, <2>5, <1>3 DEF Fits
<1>. QED BY <1>4, <1>5

(* Changes that leave the counts alone and end reservations only.          *)
LEMMA Forgets ==
  ASSUME NEW m \in Book, NEW n \in Book, NEW L, NEW r \in Nat, NEW k \in Nat,
         Fits(m, L, r, k), n.entry => m.entry, Open(n, L) => Open(m, L),
         n.count = m.count, n.death = m.death, n.review = m.review, n.limit = m.limit,
         n.pend => m.pend, n.deathPend => m.deathPend,
         n.reviewPend => m.reviewPend, n.limitPend => m.limitPend
  PROVE  Fits(n, L, r, k)
<1>1. Worth(n) = Worth(m)
  BY DEF Worth
<1>2. Credit(n) => Credit(m)
  BY DEF Credit
<1>3. /\ One(Credit(n)) <= One(Credit(m)) /\ One(n.deathPend) <= One(m.deathPend)
      /\ One(n.reviewPend) <= One(m.reviewPend) /\ One(n.limitPend) <= One(m.limitPend)
  BY <1>2 DEF One
<1>4. Worth(n) + Owed(m) >= Worth(m) + Owed(n)
  BY ONLY <1>1, <1>3, Sizes, m \in Book, n \in Book DEF Owed
<1>5. Worth(n) + One(m.reviewPend) >= Worth(m) + One(n.reviewPend)
  BY ONLY <1>1, <1>3, Sizes, m \in Book, n \in Book
<1>. QED BY <1>4, <1>5, Follows

LEMMA UnreservedFits ==
  ASSUME NEW m \in Book, NEW L, NEW r \in Nat, NEW k \in Nat, Fits(m, L, r, k)
  PROVE  Unreserved(m) \in Book /\ Fits(Unreserved(m), L, r, k)
<1>. DEFINE n == Unreserved(m)
<1>1. /\ n \in Book /\ n.entry = m.entry /\ n.pend = FALSE
      /\ n.count = m.count /\ n.death = m.death /\ n.review = m.review /\ n.limit = m.limit
      /\ n.deathPend = m.deathPend /\ n.reviewPend = m.reviewPend /\ n.limitPend = m.limitPend
  BY DEF Unreserved, Book
<1>2. Open(n, L) => Open(m, L)
  BY <1>1 DEF Open
<1>. QED BY <1>1, <1>2, Forgets

LEMMA DiscardedFits ==
  ASSUME NEW m \in Book, NEW L, NEW r \in Nat, NEW k \in Nat, Fits(m, L, r, k),
         "progress" \notin L
  PROVE  Discarded(m) \in Book /\ Fits(Discarded(m), L, r, k)
<1>. DEFINE n == Discarded(m)
<1>1. /\ n \in Book /\ n.entry = FALSE /\ n.pend = FALSE
      /\ n.count = m.count /\ n.death = m.death /\ n.review = m.review /\ n.limit = m.limit
      /\ n.deathPend = m.deathPend /\ n.reviewPend = m.reviewPend /\ n.limitPend = m.limitPend
  BY DEF Discarded, Book
<1>2. Open(n, L) => Open(m, L)
  BY DEF Open
<1>. QED BY <1>1, <1>2, Forgets

LEMMA MarkedFits ==
  ASSUME TypeOK, NEW m \in Book, NEW L, NEW r \in Nat, NEW k \in Nat, Fits(m, L, r, k)
  PROVE  Marked(m) \in Book /\ Fits(Marked(m), L, r, k)
<1>. DEFINE n == Marked(m)
<1>1. /\ n \in Book /\ n.entry = m.entry /\ n.pend = m.pend
      /\ n.count = m.count /\ n.death = m.death /\ n.review = m.review /\ n.limit = m.limit
      /\ n.deathPend = m.deathPend /\ n.reviewPend = m.reviewPend /\ n.limitPend = m.limitPend
  BY DEF Marked, Book
<1>2. Open(n, L) => Open(m, L)
  BY <1>1 DEF Open
<1>. QED BY <1>1, <1>2, Forgets

(* The hold of a dirty worktree is a count without a retry.                *)
CountedOnce(m) == [m EXCEPT !.count = @ + 1]
LEMMA CountedFits ==
  ASSUME NEW m \in Book, NEW L, NEW r \in Nat, NEW k \in Nat, Fits(m, L, r, k)
  PROVE  CountedOnce(m) \in Book /\ Fits(CountedOnce(m), L, r, k)
<1>. DEFINE n == CountedOnce(m)
<1>1. /\ n \in Book /\ n.entry = m.entry /\ n.pend = m.pend
      /\ n.count = m.count + 1 /\ n.death = m.death /\ n.review = m.review /\ n.limit = m.limit
      /\ n.deathPend = m.deathPend /\ n.reviewPend = m.reviewPend /\ n.limitPend = m.limitPend
  BY DEF CountedOnce, Book
<1>2. Open(n, L) => Open(m, L)
  BY <1>1 DEF Open
<1>3. m.count \in Nat /\ m.death \in Nat /\ m.review \in Nat /\ m.limit \in Nat
  BY DEF Book
<1>4. Credit(n) => Credit(m)
  BY <1>1, <1>3, Budgets DEF Credit
<1>5. One(Credit(n)) <= One(Credit(m))
  BY <1>4 DEF One
<1>6. Capped(n.count) >= Capped(m.count) /\ Capped(n.count) \in Nat /\ Capped(m.count) \in Nat
  BY ONLY <1>1, <1>3, Budgets DEF Capped
<1>7. Worth(n) >= Worth(m)
  BY ONLY <1>1, <1>3, <1>6 DEF Worth
<1>8. Worth(n) + Owed(m) >= Worth(m) + Owed(n)
  BY ONLY <1>1, <1>5, <1>7, Sizes, m \in Book DEF Owed
<1>9. Worth(n) + One(m.reviewPend) >= Worth(m) + One(n.reviewPend)
  BY ONLY <1>1, <1>7, Sizes, m \in Book
<1>. QED BY <1>1, <1>2, <1>8, <1>9, Follows

(* The next launch was paid for.                                           *)
LEMMA LaunchedFits ==
  ASSUME NEW m \in Book, NEW L, NEW r \in Nat, NEW k \in Nat, Fits(m, L, r, k), Open(m, L)
  PROVE  Launched(m) \in Book /\ Fits(Launched(m), {"progress"}, r + 1, k)
<1>. DEFINE n == Launched(m)
<1>1. /\ n \in Book /\ n.entry = TRUE /\ n.pend = FALSE
      /\ n.count = m.count /\ n.death = m.death /\ n.review = m.review /\ n.limit = m.limit
      /\ n.deathPend = FALSE /\ n.reviewPend = m.reviewPend /\ n.limitPend = FALSE
  BY DEF Launched, Book
<1>2. ~Open(n, {"progress"})
  BY <1>1 DEF Open
<1>3. Worth(n) = Worth(m)
  BY <1>1 DEF Worth
<1>4. Owed(n) = One(n.reviewPend)
  <2>1. One(Credit(n)) = 0 /\ One(n.deathPend) = 0 /\ One(n.limitPend) = 0
    BY <1>1 DEF One, Credit
  <2>2. One(n.reviewPend) \in Nat
    BY <1>1, Sizes
  <2>. QED BY ONLY <2>1, <2>2 DEF Owed
<1>5. r + 1 + One(n.reviewPend) <= 1 + k + Worth(n)
  BY <1>1, <1>3 DEF Fits
<1>. QED BY <1>1, <1>2, <1>4, <1>5 DEF Fits

-----------------------------------------------------------------------------
(* The types, and with them the budget of each count.                      *)

LEMMA ReservedTyped ==
  ASSUME TypeOK, mem.entry, Decided PROVE Reserved(mem, op) \in Records
<1>1. mem \in Records /\ runs \in Nat
  BY DEF TypeOK
<1>. USE DEF Decided
<1>2. CASE op \in {"reclaim", "reclaimStop"}
  <2>1. Reserved(mem, op) = [mem EXCEPT !.count = Spend(mem.count, mem.pend), !.pend = TRUE]
    BY <1>2 DEF Reserved, ReclaimCount
  <2>2. Spend(mem.count, mem.pend) \in Nat
    BY <1>1 DEF Spend, Records
  <2>. QED BY ONLY <2>1, <2>2, <1>1 DEF Records
<1>3. CASE op = "death"
  <2>1. Reserved(mem, op) = [mem EXCEPT !.death = Spend(mem.death, mem.deathPend), !.deathPend = TRUE]
    BY <1>3 DEF Reserved
  <2>2. MayDie(mem)
    BY <1>3
  <2>3. Spend(mem.death, mem.deathPend) \in 0..MaxDeaths
    BY <2>2, <1>1, Budgets DEF Spend, MayDie, Allowed, Records
  <2>. QED BY ONLY <2>1, <2>3, <1>1 DEF Records
<1>4. CASE op = "timeout"
  <2>1. Reserved(mem, op) = [mem EXCEPT !.review = Spend(mem.review, mem.reviewPend), !.reviewPend = TRUE]
    BY <1>4 DEF Reserved
  <2>2. MayWait(mem)
    BY <1>4
  <2>3. Spend(mem.review, mem.reviewPend) \in 0..(MaxTimeouts - 1)
    BY <2>2, <1>1, Budgets DEF Spend, MayWait, Allowed, Records
  <2>. QED BY ONLY <2>1, <2>3, <1>1 DEF Records
<1>5. CASE op = "limit"
  <2>1. Reserved(mem, op) = [mem EXCEPT !.limit = Spend(mem.limit, OwnLimit(mem)),
                                        !.limitPend = TRUE, !.limitRun = RunId(mem)]
    BY <1>5 DEF Reserved
  <2>2. MayLimit(mem)
    BY <1>5
  <2>3. Spend(mem.limit, OwnLimit(mem)) \in 0..MaxLimits
    BY <2>2, <1>1, Budgets DEF Spend, MayLimit, Allowed, Records
  <2>4. RunId(mem) \in 0..runs
    BY <1>1 DEF RunId
  <2>. QED BY ONLY <2>1, <2>3, <2>4, <1>1 DEF Records
<1>6. CASE op = "limitStop"
  BY <1>6, <1>1 DEF Reserved
<1>. QED BY <1>2, <1>3, <1>4, <1>5, <1>6 DEF Requeues

LEMMA OthersTyped ==
  ASSUME TypeOK, NEW m \in Records
  PROVE  /\ \A way : Settled(m, way) \in Records
         /\ Unreserved(m) \in Records /\ Marked(m) \in Records
         /\ Discarded(m) \in Records /\ CountedOnce(m) \in Records
         /\ Launched(m) \in Records
<1>1. ASSUME NEW way PROVE Settled(m, way) \in Records
  BY DEF Settled, Records
<1>2. Unreserved(m) \in Records
  BY DEF Unreserved, Records
<1>3. Marked(m) \in Records
  BY DEF Marked, Records
<1>4. Discarded(m) \in Records
  BY DEF Discarded, Records
<1>5. CountedOnce(m) \in Records
  BY DEF CountedOnce, Records
<1>6. Launched(m) \in Records
  BY DEF Launched, Records
<1>. QED BY <1>1, <1>2, <1>3, <1>4, <1>5, <1>6

(* The ledger types allow for one more run.                                *)
LEMMA RecordsGrow ==
  ASSUME TypeOK, runs' = runs + 1, NEW m \in Records PROVE m \in Records'
  BY DEF Records, TypeOK

(* The parts of the type invariant beside the ledgers.                     *)
Places ==
  /\ labels \subseteq {"queued", "progress", "review"} /\ seen \subseteq {"queued", "progress", "review"}
  /\ at \in {"off", "rules", "gc", "save", "kill", "clean", "label", "settle",
             "unlabel", "repair", "launch"}
  /\ op \in Ways \cup {"none"} /\ held \in BOOLEAN
World ==
  /\ agent \in [alive: BOOLEAN, limit: BOOLEAN, blocked: BOOLEAN, early: BOOLEAN, late: BOOLEAN]
  /\ tree \in {"none", "clean", "dirty"} /\ commits \in {"none", "local", "pushed"}
Tallies ==
  /\ runs \in Nat /\ manual \in 0..MaxManual /\ faults \in 0..MaxFaults
  /\ crashes \in 0..MaxCrashes

LEMMA TypeParts == TypeOK <=> Places /\ World /\ Tallies /\ disk \in Records /\ mem \in Records
  BY DEF TypeOK, Places, World, Tallies

LEMMA PlacesKept ==
  ASSUME Places, [Next]_vars PROVE Places'
<1>1. CASE Start
  BY <1>1 DEF Start, Places, Goto
<1>2. CASE NotJudged
  BY <1>2 DEF NotJudged, Places, Goto, Skip, cycle
<1>3. CASE JudgeLimit
  BY <1>3 DEF JudgeLimit, Places, Goto, Begin, Ways, Requeues, Stops
<1>4. CASE JudgeDirty
  BY <1>4 DEF JudgeDirty, Places, Goto, Begin, Hold, Ways, Requeues, Stops
<1>5. CASE JudgeUnknown
  BY <1>5 DEF JudgeUnknown, Places, Goto, Hold
<1>6. CASE JudgeBlocked
  BY <1>6 DEF JudgeBlocked, Places, Goto, Begin, Ways, Requeues, Stops
<1>7. CASE JudgeEnded
  BY <1>7 DEF JudgeEnded, Places, Goto, Begin, Ways, Requeues, Stops
<1>8. CASE NothingToReclaim
  BY <1>8 DEF NothingToReclaim, Places, Goto, Skip, cycle
<1>9. CASE Discard
  BY <1>9 DEF Discard, Places, Goto, Skip, cycle
<1>10. CASE ReclaimLimit
  BY <1>10 DEF ReclaimLimit, Places, Goto, Begin, Ways, Requeues, Stops
<1>11. CASE Reclaim
  BY <1>11 DEF Reclaim, Places, Goto, Begin, Ways, Requeues, Stops
<1>12. CASE Reserve
  BY <1>12 DEF Reserve, Places, Goto, Leave, Gone, cycle, NotReserved
<1>13. CASE Kill
  BY <1>13 DEF Kill, Places, Goto, Skip, cycle
<1>14. CASE Clear
  BY <1>14 DEF Clear, Places, Goto, Skip, cycle
<1>15. CASE NotRemoved
  BY <1>15 DEF NotRemoved, Places, Goto, Skip, Leave, cycle
<1>16. CASE NotBackedUp
  BY <1>16 DEF NotBackedUp, Places, Goto, Skip, Begin, Leave, cycle, Ways, Requeues,
     Stops
<1>17. CASE Label
  BY <1>17 DEF Label, Places, Goto, Skip, cycle, Target
<1>18. CASE LabelFails
  BY <1>18 DEF LabelFails, Places, Goto, Leave, Gone, Target, Refused
<1>19. CASE Settle
  BY <1>19 DEF Settle, Places, Goto, Skip, Leave, Gone, cycle, AfterSettle
<1>20. CASE Unlabel
  BY <1>20 DEF Unlabel, Places, Goto, Skip, Leave, cycle, Target
<1>21. CASE UnlabelFails
  BY <1>21 DEF UnlabelFails, Places, Goto, Leave, Gone, Refused
<1>22. CASE Repair
  BY <1>22 DEF Repair, Places, Goto, Skip, cycle
<1>23. CASE Launch
  BY <1>23 DEF Launch, Places, Goto
<1>24. CASE Finish
  BY <1>24 DEF Finish, Places, Goto
<1>25. CASE Exit
  BY <1>25 DEF Exit, Places, cycle
<1>26. CASE Elapse
  BY <1>26 DEF Elapse, Places, cycle
<1>27. CASE Crash
  BY <1>27 DEF Crash, Places, Goto, Gone
<1>28. CASE Relabel
  BY <1>28 DEF Relabel, Places, cycle
<1>29. CASE UNCHANGED vars
  BY <1>29 DEF vars, world, cycle, counters, Places
<1>. QED BY <1>1, <1>2, <1>3, <1>4, <1>5, <1>6, <1>7, <1>8, <1>9, <1>10, <1>11, <1>12,
   <1>13, <1>14, <1>15, <1>16, <1>17, <1>18, <1>19, <1>20, <1>21, <1>22, <1>23, <1>24,
   <1>25, <1>26, <1>27, <1>28, <1>29 DEF Next, Cycle, Rules, Gc, Steps

LEMMA WorldKept ==
  ASSUME World, [Next]_vars PROVE World'
<1>1. CASE Start
  BY <1>1 DEF Start, World, world
<1>2. CASE NotJudged
  BY <1>2 DEF NotJudged, World, world
<1>3. CASE JudgeLimit
  BY <1>3 DEF JudgeLimit, World, world
<1>4. CASE JudgeDirty
  BY <1>4 DEF JudgeDirty, World, world
<1>5. CASE JudgeUnknown
  BY <1>5 DEF JudgeUnknown, World, world
<1>6. CASE JudgeBlocked
  BY <1>6 DEF JudgeBlocked, World, world
<1>7. CASE JudgeEnded
  BY <1>7 DEF JudgeEnded, World, world
<1>8. CASE NothingToReclaim
  BY <1>8 DEF NothingToReclaim, World, world
<1>9. CASE Discard
  BY <1>9 DEF Discard, World, world
<1>10. CASE ReclaimLimit
  BY <1>10 DEF ReclaimLimit, World, world
<1>11. CASE Reclaim
  BY <1>11 DEF Reclaim, World, world
<1>12. CASE Reserve
  BY <1>12 DEF Reserve, World, world
<1>13. CASE Kill
  BY <1>13 DEF Kill, World
<1>14. CASE Clear
  BY <1>14 DEF Clear, World, BackedUp
<1>15. CASE NotRemoved
  BY <1>15 DEF NotRemoved, World, BackedUp
<1>16. CASE NotBackedUp
  BY <1>16 DEF NotBackedUp, World, world
<1>17. CASE Label
  BY <1>17 DEF Label, World, world
<1>18. CASE LabelFails
  BY <1>18 DEF LabelFails, World, world
<1>19. CASE Settle
  BY <1>19 DEF Settle, World, world
<1>20. CASE Unlabel
  BY <1>20 DEF Unlabel, World, world
<1>21. CASE UnlabelFails
  BY <1>21 DEF UnlabelFails, World, world
<1>22. CASE Repair
  BY <1>22 DEF Repair, World, world
<1>23. CASE Launch
  BY <1>23 DEF Launch, World, NoRun
<1>24. CASE Finish
  BY <1>24 DEF Finish, World, world
<1>25. CASE Exit
  BY <1>25 DEF Exit, World
<1>26. CASE Elapse
  BY <1>26 DEF Elapse, World
<1>27. CASE Crash
  BY <1>27 DEF Crash, World, world
<1>28. CASE Relabel
  BY <1>28 DEF Relabel, World, world
<1>29. CASE UNCHANGED vars
  BY <1>29 DEF vars, world, cycle, counters, World
<1>. QED BY <1>1, <1>2, <1>3, <1>4, <1>5, <1>6, <1>7, <1>8, <1>9, <1>10, <1>11, <1>12,
   <1>13, <1>14, <1>15, <1>16, <1>17, <1>18, <1>19, <1>20, <1>21, <1>22, <1>23, <1>24,
   <1>25, <1>26, <1>27, <1>28, <1>29 DEF Next, Cycle, Rules, Gc, Steps

LEMMA Failures == ASSUME Tallies, Fault \/ Works PROVE faults' \in 0..MaxFaults
  BY BudgetAssumption DEF Tallies, Fault, Works

LEMMA TalliesKept ==
  ASSUME Tallies, [Next]_vars PROVE Tallies'
<1>1. CASE Start
  BY <1>1, BudgetAssumption, Failures DEF Start, Tallies, counters
<1>2. CASE NotJudged
  BY <1>2, BudgetAssumption, Failures DEF NotJudged, Tallies, counters
<1>3. CASE JudgeLimit
  BY <1>3, BudgetAssumption, Failures DEF JudgeLimit, Tallies, counters
<1>4. CASE JudgeDirty
  BY <1>4, BudgetAssumption, Failures DEF JudgeDirty, Tallies, Save, Try
<1>5. CASE JudgeUnknown
  BY <1>5, BudgetAssumption, Failures DEF JudgeUnknown, Tallies, counters
<1>6. CASE JudgeBlocked
  BY <1>6, BudgetAssumption, Failures DEF JudgeBlocked, Tallies, counters
<1>7. CASE JudgeEnded
  BY <1>7, BudgetAssumption, Failures DEF JudgeEnded, Tallies, counters
<1>8. CASE NothingToReclaim
  BY <1>8, BudgetAssumption, Failures DEF NothingToReclaim, Tallies, counters
<1>9. CASE Discard
  BY <1>9, BudgetAssumption, Failures DEF Discard, Tallies
<1>10. CASE ReclaimLimit
  BY <1>10, BudgetAssumption, Failures DEF ReclaimLimit, Tallies, counters
<1>11. CASE Reclaim
  BY <1>11, BudgetAssumption, Failures DEF Reclaim, Tallies, counters
<1>12. CASE Reserve
  BY <1>12, BudgetAssumption, Failures DEF Reserve, Tallies, Save, NotReserved
<1>13. CASE Kill
  BY <1>13, BudgetAssumption, Failures DEF Kill, Tallies, counters
<1>14. CASE Clear
  BY <1>14, BudgetAssumption, Failures DEF Clear, Tallies
<1>15. CASE NotRemoved
  BY <1>15, BudgetAssumption, Failures DEF NotRemoved, Tallies
<1>16. CASE NotBackedUp
  BY <1>16, BudgetAssumption, Failures DEF NotBackedUp, Tallies
<1>17. CASE Label
  BY <1>17, BudgetAssumption, Failures DEF Label, Tallies, counters
<1>18. CASE LabelFails
  BY <1>18, BudgetAssumption, Failures DEF LabelFails, Tallies
<1>19. CASE Settle
  BY <1>19, BudgetAssumption, Failures DEF Settle, Tallies, Save
<1>20. CASE Unlabel
  BY <1>20, BudgetAssumption, Failures DEF Unlabel, Tallies, counters
<1>21. CASE UnlabelFails
  BY <1>21, BudgetAssumption, Failures DEF UnlabelFails, Tallies
<1>22. CASE Repair
  BY <1>22, BudgetAssumption, Failures DEF Repair, Tallies
<1>23. CASE Launch
  BY <1>23, BudgetAssumption, Failures DEF Launch, Tallies
<1>24. CASE Finish
  BY <1>24, BudgetAssumption, Failures DEF Finish, Tallies
<1>25. CASE Exit
  BY <1>25, BudgetAssumption, Failures DEF Exit, Tallies, counters
<1>26. CASE Elapse
  BY <1>26, BudgetAssumption, Failures DEF Elapse, Tallies, counters
<1>27. CASE Crash
  BY <1>27, BudgetAssumption, Failures DEF Crash, Tallies
<1>28. CASE Relabel
  BY <1>28, BudgetAssumption, Failures DEF Relabel, Tallies
<1>29. CASE UNCHANGED vars
  BY <1>29, BudgetAssumption, Failures DEF vars, world, cycle, counters, Tallies
<1>. QED BY <1>1, <1>2, <1>3, <1>4, <1>5, <1>6, <1>7, <1>8, <1>9, <1>10, <1>11, <1>12,
   <1>13, <1>14, <1>15, <1>16, <1>17, <1>18, <1>19, <1>20, <1>21, <1>22, <1>23, <1>24,
   <1>25, <1>26, <1>27, <1>28, <1>29 DEF Next, Cycle, Rules, Gc, Steps

LEMMA LedgersTyped ==
  ASSUME IInv, [Next]_vars PROVE disk' \in Records' /\ mem' \in Records'
<1>. TypeOK /\ Held /\ disk \in Records /\ mem \in Records
  BY DEF IInv, TypeOK
<1>a. runs' = runs => Records' = Records
  BY DEF Records
<1>1. CASE Start
  BY <1>1, <1>a DEF Start, counters
<1>2. CASE NotJudged
  BY <1>2, <1>a DEF NotJudged, counters
<1>3. CASE JudgeLimit
  BY <1>3, <1>a DEF JudgeLimit, counters
<1>4. CASE JudgeDirty
  <2>1. mem' = CountedOnce(mem) /\ disk' \in {disk, mem'} /\ runs' = runs
    BY <1>4 DEF JudgeDirty, Try, Save, CountedOnce
  <2>. QED BY <2>1, OthersTyped, <1>a
<1>5. CASE JudgeUnknown
  BY <1>5, <1>a DEF JudgeUnknown, counters
<1>6. CASE JudgeBlocked
  BY <1>6, <1>a DEF JudgeBlocked, counters
<1>7. CASE JudgeEnded
  BY <1>7, <1>a DEF JudgeEnded, counters
<1>8. CASE NothingToReclaim
  BY <1>8, <1>a DEF NothingToReclaim, counters
<1>9. CASE Discard
  <2>1. mem' \in {mem, Discarded(mem)} /\ disk' = disk /\ runs' = runs
    BY <1>9 DEF Discard
  <2>. QED BY <2>1, OthersTyped, <1>a
<1>10. CASE ReclaimLimit
  BY <1>10, <1>a DEF ReclaimLimit, counters
<1>11. CASE Reclaim
  BY <1>11, <1>a DEF Reclaim, counters
<1>12. CASE Reserve
  <2>1. mem.entry /\ Decided
    BY <1>12 DEF Reserve, Held
  <2>2. disk' \in {disk, Reserved(mem, op)} /\ mem' \in {mem, disk, Reserved(mem, op)} /\ runs' = runs
    BY <1>12 DEF Reserve, Save, NotReserved, Gone, Leave
  <2>. QED BY <2>1, <2>2, ReservedTyped, <1>a
<1>13. CASE Kill
  BY <1>13, <1>a DEF Kill, counters
<1>14. CASE Clear
  BY <1>14, <1>a DEF Clear
<1>15. CASE NotRemoved
  BY <1>15, <1>a DEF NotRemoved
<1>16. CASE NotBackedUp
  <2>1. mem' \in {mem, Unreserved(mem)} /\ disk' \in {disk, mem'} /\ runs' = runs
    BY <1>16 DEF NotBackedUp
  <2>. QED BY <2>1, OthersTyped, <1>a
<1>17. CASE Label
  BY <1>17, <1>a DEF Label, counters
<1>18. CASE LabelFails
  <2>1. mem' \in {mem, disk, Marked(mem), Unreserved(mem)} /\ disk' \in {disk, mem'} /\ runs' = runs
    BY <1>18 DEF LabelFails, Refused, Gone
  <2>. QED BY <2>1, OthersTyped, <1>a
<1>19. CASE Settle
  <2>1. mem' \in {mem, disk, Settled(mem, op)} /\ disk' \in {disk, mem'} /\ runs' = runs
    BY <1>19 DEF Settle, Save, Gone
  <2>. QED BY <2>1, OthersTyped, <1>a
<1>20. CASE Unlabel
  <2>1. mem' \in {mem, Settled(mem, op)} /\ disk' = disk /\ runs' = runs
    BY <1>20 DEF Unlabel, counters
  <2>. QED BY <2>1, OthersTyped, <1>a
<1>21. CASE UnlabelFails
  <2>1. mem' \in {mem, disk, Marked(mem), Unreserved(mem)} /\ disk' \in {disk, mem'} /\ runs' = runs
    BY <1>21 DEF UnlabelFails, Refused, Gone
  <2>. QED BY <2>1, OthersTyped, <1>a
<1>22. CASE Repair
  BY <1>22, <1>a DEF Repair
<1>23. CASE Launch
  <2>1. mem' = Launched(mem) /\ disk' = Launched(mem) /\ runs' = runs + 1
    BY <1>23 DEF Launch
  <2>. QED BY <2>1, OthersTyped, RecordsGrow
<1>24. CASE Finish
  BY <1>24, <1>a DEF Finish
<1>25. CASE Exit
  BY <1>25, <1>a DEF Exit, counters
<1>26. CASE Elapse
  BY <1>26, <1>a DEF Elapse, counters
<1>27. CASE Crash
  BY <1>27, <1>a DEF Crash, Gone
<1>28. CASE Relabel
  BY <1>28, <1>a DEF Relabel
<1>29. CASE UNCHANGED vars
  BY <1>29, <1>a DEF vars, world, cycle, counters
<1>. QED BY <1>1, <1>2, <1>3, <1>4, <1>5, <1>6, <1>7, <1>8, <1>9, <1>10, <1>11, <1>12,
   <1>13, <1>14, <1>15, <1>16, <1>17, <1>18, <1>19, <1>20, <1>21, <1>22, <1>23, <1>24,
   <1>25, <1>26, <1>27, <1>28, <1>29 DEF Next, Cycle, Rules, Gc, Steps

-----------------------------------------------------------------------------
(* Every launch stays paid for.                                            *)

LEMMA CoveredKept ==
  ASSUME IInv, [Next]_vars PROVE Covered'
<1>. TypeOK /\ Held /\ disk \in Book /\ mem \in Book /\ runs \in Nat /\ manual \in Nat
  BY BudgetAssumption, RecordsAreBooks DEF IInv, TypeOK
<1>c. Fits(disk, labels, runs, manual) /\ Fits(mem, labels, runs, manual)
  BY DEF IInv, Covered
<1>a. \A L : Fits(disk, L, runs, manual) /\ Fits(mem, L, runs, manual) =>
               /\ Fits(CountedOnce(mem), L, runs, manual)
               /\ Fits(Unreserved(mem), L, runs, manual)
               /\ Fits(Marked(mem), L, runs, manual)
  BY CountedFits, UnreservedFits, MarkedFits
<1>1. CASE Start
  <2>1. mem' = disk /\ UNCHANGED <<disk, runs, manual>>
    BY <1>1 DEF Start, counters
  <2>2. Open(disk, labels') => Open(disk, labels)
    BY <1>1 DEF Start, Open
  <2>. QED BY <2>1, <2>2, <1>c, Relabelled DEF Covered
<1>2. CASE NotJudged
  BY <1>2, <1>c DEF NotJudged, Covered, counters
<1>3. CASE JudgeLimit
  BY <1>3, <1>c DEF JudgeLimit, Covered, counters
<1>4. CASE JudgeDirty
  <2>1. mem' = CountedOnce(mem) /\ disk' \in {disk, mem'} /\ UNCHANGED <<labels, runs, manual>>
    BY <1>4 DEF JudgeDirty, Try, Save, CountedOnce
  <2>. QED BY <2>1, <1>a, <1>c DEF Covered
<1>5. CASE JudgeUnknown
  BY <1>5, <1>c DEF JudgeUnknown, Covered, counters
<1>6. CASE JudgeBlocked
  BY <1>6, <1>c DEF JudgeBlocked, Covered, counters
<1>7. CASE JudgeEnded
  BY <1>7, <1>c DEF JudgeEnded, Covered, counters
<1>8. CASE NothingToReclaim
  BY <1>8, <1>c DEF NothingToReclaim, Covered, counters
<1>9. CASE Discard
  <2>1. /\ mem' \in {mem, Discarded(mem)} /\ disk' = disk /\ UNCHANGED <<labels, runs, manual>>
        /\ "progress" \notin labels
    BY <1>9 DEF Discard, Stale
  <2>2. Fits(Discarded(mem), labels, runs, manual)
    BY <2>1, <1>c, DiscardedFits
  <2>. QED BY <2>1, <2>2, <1>c DEF Covered
<1>10. CASE ReclaimLimit
  BY <1>10, <1>c DEF ReclaimLimit, Covered, counters
<1>11. CASE Reclaim
  BY <1>11, <1>c DEF Reclaim, Covered, counters
<1>12. CASE Reserve
  <2>1. op \in Ways
    BY <1>12 DEF Reserve, Held
  <2>2. /\ disk' \in {disk, Reserved(mem, op)} /\ mem' \in {mem, disk, Reserved(mem, op)}
        /\ UNCHANGED <<labels, runs, manual>>
    BY <1>12 DEF Reserve, Save, NotReserved, Gone, Leave
  <2>3. Fits(Reserved(mem, op), labels, runs, manual)
    BY <2>1, <1>c, ReservedFits
  <2>. QED BY <2>2, <2>3, <1>c DEF Covered
<1>13. CASE Kill
  BY <1>13, <1>c DEF Kill, Covered, counters
<1>14. CASE Clear
  BY <1>14, <1>c DEF Clear, Covered
<1>15. CASE NotRemoved
  BY <1>15, <1>c DEF NotRemoved, Covered
<1>16. CASE NotBackedUp
  <2>1. mem' \in {mem, Unreserved(mem)} /\ disk' \in {disk, mem'} /\ UNCHANGED <<labels, runs, manual>>
    BY <1>16 DEF NotBackedUp
  <2>. QED BY <2>1, <1>a, <1>c DEF Covered
<1>17. CASE Label
  <2>1. labels \subseteq labels' /\ UNCHANGED <<disk, mem, runs, manual>>
    BY <1>17 DEF Label, counters
  <2>2. \A m \in {disk, mem} : Open(m, labels') => Open(m, labels)
    BY <2>1 DEF Open
  <2>3. Fits(disk, labels', runs, manual) /\ Fits(mem, labels', runs, manual)
    BY <2>2, <1>c, Relabelled
  <2>. QED BY <2>1, <2>3 DEF Covered
<1>18. CASE LabelFails
  <2>1. labels \subseteq labels' /\ UNCHANGED <<runs, manual>>
    BY <1>18 DEF LabelFails
  <2>2. \A m \in {disk, mem} : Open(m, labels') => Open(m, labels)
    BY <2>1 DEF Open
  <2>3. Fits(disk, labels', runs, manual) /\ Fits(mem, labels', runs, manual)
    BY <2>2, <1>c, Relabelled
  <2>4. mem' \in {mem, disk, Marked(mem), Unreserved(mem)} /\ disk' \in {disk, mem'}
    BY <1>18 DEF LabelFails, Refused, Gone
  <2>. QED BY <2>1, <2>3, <2>4, <1>a DEF Covered
<1>19. CASE Settle
  <2>1. mem' \in {mem, disk, Settled(mem, op)} /\ disk' \in {disk, mem'} /\ UNCHANGED <<labels, runs, manual>>
    BY <1>19 DEF Settle, Save, Gone
  <2>2. mem.entry /\ op \in Ways /\ Carries(mem) /\ at = "settle"
    BY <1>19 DEF Settle, Held
  <2>3. \/ "review" \in labels
        \/ Credit(mem) \/ mem.limitPend \/ mem.deathPend \/ (op = "timeout" /\ mem.reviewPend)
    BY <2>2 DEF Carries, IInv, Gated, Ways, Requeues
  <2>4. Fits(Settled(mem, op), labels, runs, manual)
    BY <2>2, <2>3, <1>c, SettledFits
  <2>. QED BY <2>1, <2>4, <1>c DEF Covered
<1>20. CASE Unlabel
  <2>1. /\ mem' \in {mem, Settled(mem, op)} /\ disk' = disk /\ UNCHANGED <<runs, manual>>
        /\ mem' # mem => op = "stop"
        /\ labels' = (labels \ (seen \cap {"queued", "progress"})) \cup {Target(op)}
    BY <1>20 DEF Unlabel, counters
  <2>2. op \in Ways /\ Carries(disk) /\ Carries(mem) /\ at = "unlabel"
    BY <1>20 DEF Unlabel, Held
  <2>3. CASE op \notin Requeues
    <3>1. "review" \in labels'
      BY <2>1, <2>3 DEF Target
    <3>2. \A m : ~Open(m, labels')
      BY <3>1 DEF Open
    <3>3. Fits(disk, labels', runs, manual) /\ Fits(mem, labels', runs, manual)
      BY <3>2, <1>c, Relabelled
    <3>4. Fits(Settled(mem, op), labels', runs, manual)
      BY <3>1, <1>c, SettledFits
    <3>. QED BY <2>1, <3>3, <3>4 DEF Covered
  <2>4. CASE op \in Requeues
    <3>1. UNCHANGED <<disk, mem>>
      BY <2>1, <2>4 DEF Requeues
    <3>2. ASSUME NEW m \in {disk, mem} PROVE Fits(m, labels', runs, manual)
      <4>1. m \in Book /\ Carries(m) /\ Fits(m, labels, runs, manual)
        BY <2>2, <1>c
      <4>2. CASE m.entry
        <5>1. Credit(m) \/ m.limitPend
          BY <4>1, <4>2, <2>2, <2>4 DEF Carries, Requeues
        <5>. QED BY <4>1, <4>2, <5>1, Requeued
      <4>3. CASE ~m.entry
        <5>1. Open(m, labels') => Open(m, labels)
          BY <2>1, <4>3 DEF Open
        <5>. QED BY <4>1, <5>1, Relabelled
      <4>. QED BY <4>2, <4>3
    <3>. QED BY <2>1, <3>1, <3>2 DEF Covered
  <2>. QED BY <2>3, <2>4
<1>21. CASE UnlabelFails
  <2>1. mem' \in {mem, disk, Marked(mem), Unreserved(mem)} /\ disk' \in {disk, mem'}
    BY <1>21 DEF UnlabelFails, Refused, Gone
  <2>2. UNCHANGED <<labels, runs, manual>>
    BY <1>21 DEF UnlabelFails
  <2>. QED BY <2>1, <2>2, <1>a, <1>c DEF Covered
<1>22. CASE Repair
  <2>1. /\ labels' \in {labels, {"review"}} \/ ("progress" \in labels /\ "review" \notin labels /\ labels' = {"progress"})
        /\ UNCHANGED <<disk, mem, runs, manual>>
    BY <1>22 DEF Repair
  <2>2. \A m \in {disk, mem} : Open(m, labels') => Open(m, labels)
    BY <2>1 DEF Open
  <2>3. Fits(disk, labels', runs, manual) /\ Fits(mem, labels', runs, manual)
    BY <2>2, <1>c, Relabelled
  <2>. QED BY <2>1, <2>3 DEF Covered
<1>23. CASE Launch
  <2>1. /\ mem' = Launched(mem) /\ disk' = Launched(mem) /\ runs' = runs + 1 /\ UNCHANGED manual
        /\ labels' = {"progress"} /\ labels = {"queued"} /\ ~mem.entry
    BY <1>23 DEF Launch, Launchable
  <2>2. Open(mem, labels)
    BY <2>1 DEF Open
  <2>3. Fits(Launched(mem), {"progress"}, runs + 1, manual)
    BY <2>2, <1>c, LaunchedFits
  <2>. QED BY <2>1, <2>3 DEF Covered
<1>24. CASE Finish
  BY <1>24, <1>c DEF Finish, Covered
<1>25. CASE Exit
  BY <1>25, <1>c DEF Exit, Covered, counters
<1>26. CASE Elapse
  BY <1>26, <1>c DEF Elapse, Covered, counters
<1>27. CASE Crash
  BY <1>27, <1>c DEF Crash, Covered, Gone
<1>28. CASE Relabel
  <2>1. UNCHANGED <<disk, mem, runs>> /\ manual' = manual + 1
    BY <1>28 DEF Relabel
  <2>2. Fits(disk, labels', runs, manual + 1) /\ Fits(mem, labels', runs, manual + 1)
    BY <1>c, PaidByHand
  <2>. QED BY <2>1, <2>2 DEF Covered
<1>29. CASE UNCHANGED vars
  BY <1>29, <1>c DEF vars, world, cycle, counters, Covered
<1>. QED BY <1>1, <1>2, <1>3, <1>4, <1>5, <1>6, <1>7, <1>8, <1>9, <1>10, <1>11, <1>12,
   <1>13, <1>14, <1>15, <1>16, <1>17, <1>18, <1>19, <1>20, <1>21, <1>22, <1>23, <1>24,
   <1>25, <1>26, <1>27, <1>28, <1>29 DEF Next, Cycle, Rules, Gc, Steps

-----------------------------------------------------------------------------
(* What the steps of a cycle rely on.                                      *)

LEMMA LoadedKept ==
  ASSUME IInv, [Next]_vars PROVE Loaded'
<1>. TypeOK /\ Loaded /\ Held /\ Gated /\ CountLags
  BY DEF IInv
<1>1. CASE Start
  BY <1>1 DEF Start, Loaded, Goto, world, counters
<1>2. CASE NotJudged
  BY <1>2 DEF NotJudged, Loaded, Goto, Skip, cycle, world, counters
<1>3. CASE JudgeLimit
  BY <1>3 DEF JudgeLimit, Loaded, Goto, Begin, world, counters
<1>4. CASE JudgeDirty
  BY <1>4 DEF JudgeDirty, Loaded, Goto, Begin, Hold, world, Try, Save
<1>5. CASE JudgeUnknown
  BY <1>5 DEF JudgeUnknown, Loaded, Goto, Hold, world, counters, Clean
<1>6. CASE JudgeBlocked
  BY <1>6 DEF JudgeBlocked, Loaded, Goto, Begin, world, counters, Clean
<1>7. CASE JudgeEnded
  BY <1>7 DEF JudgeEnded, Loaded, Goto, Begin, world, counters, Clean
<1>8. CASE NothingToReclaim
  BY <1>8 DEF NothingToReclaim, Loaded, Goto, Skip, cycle, world, counters
<1>9. CASE Discard
  BY <1>9 DEF Discard, Loaded, Goto, Skip, cycle, world
<1>10. CASE ReclaimLimit
  BY <1>10 DEF ReclaimLimit, Loaded, Goto, Begin, world, counters, Reclaimable
<1>11. CASE Reclaim
  BY <1>11 DEF Reclaim, Loaded, Goto, Begin, world, counters, Reclaimable
<1>12. CASE Reserve
  BY <1>12 DEF Reserve, Loaded, Goto, Leave, Gone, cycle, world, Save, NotReserved
<1>13. CASE Kill
  BY <1>13 DEF Kill, Loaded, Goto, Skip, cycle, counters
<1>14. CASE Clear
  BY <1>14 DEF Clear, Loaded, Goto, Skip, cycle
<1>15. CASE NotRemoved
  BY <1>15 DEF NotRemoved, Loaded, Goto, Skip, Leave, cycle
<1>16. CASE NotBackedUp
  BY <1>16 DEF NotBackedUp, Loaded, Goto, Skip, Begin, Leave, cycle, world
<1>17. CASE Label
  BY <1>17 DEF Label, Loaded, Goto, Skip, cycle, world, counters
<1>18. CASE LabelFails
  BY <1>18 DEF LabelFails, Loaded, Goto, Leave, Gone, world, Refused
<1>19. CASE Settle
  BY <1>19 DEF Settle, Loaded, Goto, Skip, Leave, Gone, cycle, world, AfterSettle
<1>20. CASE Unlabel
  BY <1>20 DEF Unlabel, Loaded, Goto, Skip, Leave, cycle, world, counters
<1>21. CASE UnlabelFails
  BY <1>21 DEF UnlabelFails, Loaded, Goto, Leave, Gone, world, Refused
<1>22. CASE Repair
  BY <1>22 DEF Repair, Loaded, Goto, Skip, cycle, world
<1>23. CASE Launch
  BY <1>23 DEF Launch, Loaded, Goto
<1>24. CASE Finish
  BY <1>24 DEF Finish, Loaded, Goto, world
<1>25. CASE Exit
  BY <1>25 DEF Exit, Loaded, cycle, counters
<1>26. CASE Elapse
  BY <1>26 DEF Elapse, Loaded, cycle, counters
<1>27. CASE Crash
  BY <1>27 DEF Crash, Loaded, Goto, Gone, world
<1>28. CASE Relabel
  BY <1>28 DEF Relabel, Loaded, cycle, world
<1>29. CASE UNCHANGED vars
  BY <1>29 DEF vars, world, cycle, counters, Loaded
<1>. QED BY <1>1, <1>2, <1>3, <1>4, <1>5, <1>6, <1>7, <1>8, <1>9, <1>10, <1>11, <1>12,
   <1>13, <1>14, <1>15, <1>16, <1>17, <1>18, <1>19, <1>20, <1>21, <1>22, <1>23, <1>24,
   <1>25, <1>26, <1>27, <1>28, <1>29 DEF Next, Cycle, Rules, Gc, Steps

LEMMA GatedKept ==
  ASSUME IInv, [Next]_vars PROVE Gated'
<1>. TypeOK /\ Loaded /\ Held /\ Gated /\ CountLags
  BY DEF IInv
<1>1. CASE Start
  <2>1. /\ at = "off" /\ at' = "rules" /\ op' = op /\ seen' = labels'
    BY <1>1 DEF Start, Goto
  <2>. QED BY <2>1 DEF Gated, Loaded
<1>2. CASE NotJudged
  BY <1>2 DEF NotJudged, Gated, Goto, Skip, cycle, counters
<1>3. CASE JudgeLimit
  BY <1>3 DEF JudgeLimit, Gated, Goto, Begin, counters
<1>4. CASE JudgeDirty
  BY <1>4 DEF JudgeDirty, Gated, Goto, Begin, Hold
<1>5. CASE JudgeUnknown
  BY <1>5 DEF JudgeUnknown, Gated, Goto, Hold, counters, Clean
<1>6. CASE JudgeBlocked
  BY <1>6 DEF JudgeBlocked, Gated, Goto, Begin, counters, Clean
<1>7. CASE JudgeEnded
  BY <1>7 DEF JudgeEnded, Gated, Goto, Begin, counters, Clean
<1>8. CASE NothingToReclaim
  BY <1>8 DEF NothingToReclaim, Gated, Goto, Skip, cycle, counters
<1>9. CASE Discard
  BY <1>9 DEF Discard, Gated, Goto, Skip, cycle
<1>10. CASE ReclaimLimit
  BY <1>10 DEF ReclaimLimit, Gated, Goto, Begin, counters
<1>11. CASE Reclaim
  BY <1>11 DEF Reclaim, Gated, Goto, Begin, counters, AlreadyEscalated
<1>12. CASE Reserve
  BY <1>12 DEF Reserve, Gated, Goto, Leave, Gone, cycle, NotReserved, Save, Stops
<1>13. CASE Kill
  BY <1>13 DEF Kill, Gated, Goto, Skip, cycle, counters
<1>14. CASE Clear
  BY <1>14 DEF Clear, Gated, Goto, Skip, cycle
<1>15. CASE NotRemoved
  BY <1>15 DEF NotRemoved, Gated, Goto, Skip, Leave, cycle
<1>16. CASE NotBackedUp
  BY <1>16 DEF NotBackedUp, Gated, Goto, Skip, Begin, Leave, cycle, Stops
<1>17. CASE Label
  BY <1>17 DEF Label, Gated, Goto, Skip, cycle, counters, Target, Requeues, Stops
<1>18. CASE LabelFails
  BY <1>18 DEF LabelFails, Gated, Goto, Leave, Gone, Refused
<1>19. CASE Settle
  BY <1>19 DEF Settle, Gated, Goto, Skip, Leave, Gone, cycle, AfterSettle
<1>20. CASE Unlabel
  BY <1>20 DEF Unlabel, Gated, Goto, Skip, Leave, cycle, counters, Target
<1>21. CASE UnlabelFails
  BY <1>21 DEF UnlabelFails, Gated, Goto, Leave, Gone, Refused
<1>22. CASE Repair
  BY <1>22 DEF Repair, Gated, Goto, Skip, cycle
<1>23. CASE Launch
  BY <1>23 DEF Launch, Gated, Goto
<1>24. CASE Finish
  BY <1>24 DEF Finish, Gated, Goto
<1>25. CASE Exit
  BY <1>25 DEF Exit, Gated, cycle, counters
<1>26. CASE Elapse
  BY <1>26 DEF Elapse, Gated, cycle, counters
<1>27. CASE Crash
  BY <1>27 DEF Crash, Gated, Goto, Gone
<1>28. CASE Relabel
  BY <1>28 DEF Relabel, Gated, cycle
<1>29. CASE UNCHANGED vars
  BY <1>29 DEF vars, world, cycle, counters, Gated
<1>. QED BY <1>1, <1>2, <1>3, <1>4, <1>5, <1>6, <1>7, <1>8, <1>9, <1>10, <1>11, <1>12,
   <1>13, <1>14, <1>15, <1>16, <1>17, <1>18, <1>19, <1>20, <1>21, <1>22, <1>23, <1>24,
   <1>25, <1>26, <1>27, <1>28, <1>29 DEF Next, Cycle, Rules, Gc, Steps

LEMMA LagsKept ==
  ASSUME IInv, [Next]_vars PROVE CountLags'
<1>. TypeOK /\ Loaded /\ Held /\ Gated /\ CountLags
  BY DEF IInv
<1>a. /\ Discarded(mem).count = mem.count /\ Unreserved(mem).count = mem.count
      /\ Marked(mem).count = mem.count /\ \A w : Settled(mem, w).count = mem.count
  BY DEF Discarded, Unreserved, Marked, Settled, TypeOK, Records
<1>1. CASE Start
  BY <1>1 DEF Start, CountLags, Goto, counters, world
<1>2. CASE NotJudged
  BY <1>2 DEF NotJudged, CountLags, Goto, Skip, cycle, counters, world
<1>3. CASE JudgeLimit
  BY <1>3 DEF JudgeLimit, CountLags, Goto, Begin, counters, world
<1>4. CASE JudgeDirty
  BY <1>4 DEF JudgeDirty, CountLags, Goto, Begin, Hold, world, Judged, Try, Save
<1>5. CASE JudgeUnknown
  BY <1>5 DEF JudgeUnknown, CountLags, Goto, Hold, counters, world, Clean
<1>6. CASE JudgeBlocked
  BY <1>6 DEF JudgeBlocked, CountLags, Goto, Begin, counters, world, Clean
<1>7. CASE JudgeEnded
  BY <1>7 DEF JudgeEnded, CountLags, Goto, Begin, counters, world, Clean
<1>8. CASE NothingToReclaim
  BY <1>8 DEF NothingToReclaim, CountLags, Goto, Skip, cycle, counters, world
<1>9. CASE Discard
  <2>1. /\ mem'.count = mem.count /\ disk' = disk /\ at = "gc" /\ mem.count = disk.count
    BY <1>9, <1>a DEF Discard, Stale, CountLags
  <2>. QED BY <2>1 DEF CountLags
<1>10. CASE ReclaimLimit
  BY <1>10 DEF ReclaimLimit, CountLags, Goto, Begin, counters, world, Reclaimable
<1>11. CASE Reclaim
  BY <1>11 DEF Reclaim, CountLags, Goto, Begin, counters, world, Reclaimable
<1>12. CASE Reserve
  BY <1>12 DEF Reserve, CountLags, Goto, Leave, Gone, cycle, world, NotReserved, Save
<1>13. CASE Kill
  BY <1>13 DEF Kill, CountLags, Goto, Skip, cycle, counters
<1>14. CASE Clear
  BY <1>14 DEF Clear, CountLags, Goto, Skip, cycle
<1>15. CASE NotRemoved
  BY <1>15 DEF NotRemoved, CountLags, Goto, Skip, Leave, cycle
<1>16. CASE NotBackedUp
  <2>1. /\ mem'.count = mem.count /\ disk'.count \in {disk.count, mem'.count}
        /\ at = "clean" /\ mem.count = disk.count
    BY <1>16, <1>a DEF NotBackedUp, CountLags
  <2>. QED BY <2>1 DEF CountLags
<1>17. CASE Label
  BY <1>17 DEF Label, CountLags, Goto, Skip, cycle, counters, world
<1>18. CASE LabelFails
  <2>1. /\ mem'.count \in {mem.count, disk.count} /\ disk'.count \in {disk.count, mem'.count}
        /\ at = "label" /\ at' \in {"repair", "off"} /\ UNCHANGED <<tree, agent>>
    BY <1>18, <1>a DEF LabelFails, Refused, Leave, Gone, Goto, world
  <2>. QED BY <2>1 DEF CountLags
<1>19. CASE Settle
  <2>1. /\ mem'.count \in {mem.count, disk.count} /\ disk'.count \in {disk.count, mem'.count}
    BY <1>19, <1>a DEF Settle, Save, Gone
  <2>2. /\ at = "settle" /\ at' \in {"repair", "unlabel", "off"} /\ UNCHANGED <<tree, agent>>
        /\ at' = "unlabel" => op' = op
    BY <1>19 DEF Settle, AfterSettle, Leave, Gone, Goto, Skip, cycle, world
  <2>. QED BY <2>1, <2>2 DEF CountLags
<1>20. CASE Unlabel
  <2>1. mem'.count = mem.count /\ disk' = disk
    BY <1>20, <1>a DEF Unlabel, counters
  <2>2. /\ at = "unlabel" /\ at' \in {"repair", "settle"} /\ UNCHANGED <<tree, agent>>
        /\ at' = "settle" => op = "reclaim"
    BY <1>20 DEF Unlabel, Leave, Goto, Skip, world
  <2>. QED BY <2>1, <2>2 DEF CountLags
<1>21. CASE UnlabelFails
  <2>1. /\ mem'.count \in {mem.count, disk.count} /\ disk'.count \in {disk.count, mem'.count}
        /\ at = "unlabel" /\ at' \in {"repair", "off"} /\ UNCHANGED <<tree, agent>>
    BY <1>21, <1>a DEF UnlabelFails, Refused, Leave, Gone, Goto, world
  <2>. QED BY <2>1 DEF CountLags
<1>22. CASE Repair
  BY <1>22 DEF Repair, CountLags, Goto, Skip, cycle, world
<1>23. CASE Launch
  BY <1>23 DEF Launch, CountLags, Goto
<1>24. CASE Finish
  BY <1>24 DEF Finish, CountLags, Goto, world
<1>25. CASE Exit
  BY <1>25 DEF Exit, CountLags, cycle, counters
<1>26. CASE Elapse
  BY <1>26 DEF Elapse, CountLags, cycle, counters
<1>27. CASE Crash
  BY <1>27 DEF Crash, CountLags, Goto, Gone, world
<1>28. CASE Relabel
  BY <1>28 DEF Relabel, CountLags, cycle, world
<1>29. CASE UNCHANGED vars
  BY <1>29 DEF vars, world, cycle, counters, CountLags
<1>. QED BY <1>1, <1>2, <1>3, <1>4, <1>5, <1>6, <1>7, <1>8, <1>9, <1>10, <1>11, <1>12,
   <1>13, <1>14, <1>15, <1>16, <1>17, <1>18, <1>19, <1>20, <1>21, <1>22, <1>23, <1>24,
   <1>25, <1>26, <1>27, <1>28, <1>29 DEF Next, Cycle, Rules, Gc, Steps

LEMMA StillHeld == ASSUME Held, UNCHANGED <<at, op, mem, disk, runs>> PROVE Held'
  BY DEF Held, Decided, Carries, MayDie, MayWait, MayLimit, OwnLimit, RunId,
         Exceeds, ReclaimCount, Credit

(* A cycle that does not carry out a way out relies on nothing.            *)
LEMMA NothingHeld ==
  ASSUME at' \in {"off", "rules", "gc", "repair", "launch"} PROVE Held'
  BY DEF Held

(* A way out that goes on with the ledgers it had.                         *)
LEMMA GoesOn ==
  ASSUME Held, at \in {"kill", "clean", "label"}, at' \in {"clean", "label", "settle"},
         op' = op, UNCHANGED <<disk, mem>>
  PROVE  Held'
  BY DEF Held, Carries, Credit

LEMMA HeldKept ==
  ASSUME IInv, [Next]_vars PROVE Held'
<1>. TypeOK /\ Loaded /\ Held /\ Gated /\ CountLags
  BY DEF IInv
<1>1. CASE Start
  BY <1>1, NothingHeld DEF Start, Goto
<1>2. CASE NotJudged
  BY <1>2, NothingHeld DEF NotJudged, Skip, Goto
<1>3. CASE JudgeLimit
  <2>1. mem.entry /\ UNCHANGED <<disk, mem, runs>>
    BY <1>3 DEF JudgeLimit, Judged, counters
  <2>2. at' = "save" /\ op' \in {"limit", "limitStop"} /\ (op' = "limit" => MayLimit(mem))
    BY <1>3 DEF JudgeLimit, Judged, Begin, Goto
  <2>3. MayLimit(mem)' = MayLimit(mem)
    BY <2>1 DEF MayLimit, OwnLimit, RunId
  <2>. QED BY <2>1, <2>2, <2>3 DEF Held, Decided, Ways, Requeues, Stops
<1>4. CASE JudgeDirty
  <2>1. mem.entry /\ mem' = CountedOnce(mem)
    BY <1>4 DEF JudgeDirty, Judged, Try, Save, CountedOnce
  <2>2. mem'.entry = mem.entry
    BY <2>1 DEF CountedOnce, TypeOK, Records
  <2>3. (at' = "label" /\ op' = "dirtyStop") \/ at' = "gc"
    BY <1>4 DEF JudgeDirty, Begin, Hold, Goto
  <2>. QED BY <2>1, <2>2, <2>3 DEF Held, Carries, Ways, Stops
<1>5. CASE JudgeUnknown
  BY <1>5, NothingHeld DEF JudgeUnknown, Hold, Goto
<1>6. CASE JudgeBlocked
  <2>1. mem.entry /\ UNCHANGED <<disk, mem, runs>>
    BY <1>6 DEF JudgeBlocked, Clean, Judged, counters
  <2>2. \/ at' = "save" /\ op' = "timeout" /\ MayWait(mem)
        \/ at' = "clean" /\ op' = "stop"
    BY <1>6 DEF JudgeBlocked, Clean, Judged, Begin, Goto
  <2>3. MayWait(mem)' = MayWait(mem)
    BY <2>1 DEF MayWait
  <2>. QED BY <2>1, <2>2, <2>3 DEF Held, Decided, Carries, Ways, Requeues, Stops
<1>7. CASE JudgeEnded
  <2>1. mem.entry /\ UNCHANGED <<disk, mem, runs>>
    BY <1>7 DEF JudgeEnded, Clean, Judged, counters
  <2>2. \/ at' = "save" /\ op' = "death" /\ MayDie(mem)
        \/ at' = "clean" /\ op' = "stop"
    BY <1>7 DEF JudgeEnded, Clean, Judged, Begin, Goto
  <2>3. MayDie(mem)' = MayDie(mem)
    BY <2>1 DEF MayDie
  <2>. QED BY <2>1, <2>2, <2>3 DEF Held, Decided, Carries, Ways, Requeues, Stops
<1>8. CASE NothingToReclaim
  BY <1>8, NothingHeld DEF NothingToReclaim, Skip, Goto
<1>9. CASE Discard
  BY <1>9, NothingHeld DEF Discard, Skip, Goto
<1>10. CASE ReclaimLimit
  <2>1. mem.entry /\ UNCHANGED <<disk, mem, runs>>
    BY <1>10 DEF ReclaimLimit, Reclaimable, counters
  <2>2. at' = "save" /\ op' \in {"limit", "limitStop"} /\ (op' = "limit" => MayLimit(mem))
    BY <1>10 DEF ReclaimLimit, Reclaimable, Begin, Goto
  <2>3. MayLimit(mem)' = MayLimit(mem)
    BY <2>1 DEF MayLimit, OwnLimit, RunId
  <2>. QED BY <2>1, <2>2, <2>3 DEF Held, Decided, Ways, Requeues, Stops
<1>11. CASE Reclaim
  <2>1. mem.entry /\ UNCHANGED <<disk, mem, runs>>
    BY <1>11 DEF Reclaim, Reclaimable, counters
  <2>2. \/ /\ at' = "save" /\ op' \in {"reclaim", "reclaimStop"}
           /\ op' = "reclaim" => ~Exceeds(ReclaimCount(mem))
        \/ at' = "kill" /\ op' = "kept"
    BY <1>11 DEF Reclaim, Reclaimable, Begin, Goto
  <2>3. Exceeds(ReclaimCount(mem))' = Exceeds(ReclaimCount(mem))
    BY <2>1 DEF Exceeds, ReclaimCount
  <2>. QED BY <2>1, <2>2, <2>3 DEF Held, Decided, Carries, Ways, Requeues, Stops
<1>12. CASE Reserve
  <2>1. mem.entry /\ Decided /\ op \in Ways /\ mem \in Records /\ disk \in Records
    BY <1>12 DEF Reserve, Held, TypeOK
  <2>2. CASE at' \in {"off", "repair"}
    BY <2>2, NothingHeld
  <2>3. CASE at' \notin {"off", "repair"}
    <3>1. /\ mem' = Reserved(mem, op) /\ disk' = mem' /\ op' = op /\ at' \in {"kill", "clean"}
      BY <1>12, <2>3 DEF Reserve, Save, NotReserved, Gone, Leave, Goto, cycle
    <3>2. mem'.entry
      <4>1. Reserved(mem, op).entry = mem.entry
        BY <2>1 DEF Reserved, Records
      <4>. QED BY <4>1, <3>1, <2>1
    <3>3. op = "reclaim" => Credit(mem')
      <4>1. SUFFICES ASSUME op = "reclaim" PROVE Credit(mem')
        OBVIOUS
      <4>2. mem' = [mem EXCEPT !.count = ReclaimCount(mem), !.pend = TRUE]
        BY <4>1, <3>1 DEF Reserved
      <4>3. mem'.pend = TRUE /\ mem'.count = ReclaimCount(mem)
        BY <4>2, <2>1 DEF Records
      <4>4. ReclaimCount(mem) \in Nat /\ ~(ReclaimCount(mem) > MaxReclaims)
        BY <4>1, <2>1 DEF Decided, Exceeds, ReclaimCount, Spend, Records
      <4>. QED BY <4>3, <4>4, Budgets DEF Credit
    <3>4. /\ op = "limit" => mem'.limitPend
          /\ op = "death" => mem'.deathPend
          /\ op = "timeout" => mem'.reviewPend
      BY <2>1, <3>1 DEF Reserved, Records
    <3>5. Carries(mem)' /\ Carries(disk)'
      BY <3>1, <3>3, <3>4 DEF Carries, Credit
    <3>. QED BY <2>1, <3>1, <3>2, <3>5 DEF Held
  <2>. QED BY <2>2, <2>3
<1>13. CASE Kill
  BY <1>13, GoesOn DEF Kill, Skip, Goto, cycle
<1>14. CASE Clear
  BY <1>14, GoesOn DEF Clear, Skip, Goto, cycle
<1>15. CASE NotRemoved
  BY <1>15, GoesOn, NothingHeld DEF NotRemoved, Skip, Goto, Leave, cycle
<1>16. CASE NotBackedUp
  <2>1. CASE op = "limitStop"
    BY <1>16, <2>1 DEF NotBackedUp, Skip, Goto, cycle, Held, Carries
  <2>2. CASE op = "reclaimStop"
    BY <1>16, <2>2 DEF NotBackedUp, Begin, Goto, Held, Carries, Ways, Stops
  <2>3. CASE op \notin {"limitStop", "reclaimStop"}
    BY <1>16, <2>3, NothingHeld DEF NotBackedUp, Leave, Goto
  <2>. QED BY <2>1, <2>2, <2>3
<1>17. CASE Label
  <2>1. /\ at = "label" /\ op' = op /\ UNCHANGED <<disk, mem>>
        /\ at' = IF op \in {"reclaim", "stop"} THEN "unlabel" ELSE "settle"
    BY <1>17 DEF Label, Skip, Goto, cycle
  <2>2. CASE op \in {"reclaim", "stop"}
    BY <2>1, <2>2 DEF Held, Carries, Credit
  <2>3. CASE op \notin {"reclaim", "stop"}
    BY <2>1, <2>3, GoesOn
  <2>. QED BY <2>2, <2>3
<1>18. CASE LabelFails
  BY <1>18, NothingHeld DEF LabelFails, Refused, Leave, Gone, Goto
<1>19. CASE Settle
  <2>1. at = "settle" /\ op \in Ways /\ Carries(disk) /\ Carries(mem) /\ mem \in Records
    BY <1>19 DEF Settle, Held, TypeOK
  <2>2. CASE at' \in {"off", "repair"}
    BY <2>2, NothingHeld
  <2>3. CASE at' \notin {"off", "repair"}
    <3>1. at' = "unlabel" /\ op' = op /\ op \notin {"reclaim", "kept"}
      BY <1>19, <2>3 DEF Settle, AfterSettle, Skip, Leave, Gone, Goto, cycle
    <3>2. \/ mem' = Settled(mem, op) /\ disk' = mem'
          \/ op \notin Requeues /\ op' \notin Requeues
          \/ op = "limit" /\ UNCHANGED <<disk, mem>>
      BY <1>19, <2>1, <2>3, <3>1 DEF Settle, Save, Gone, Goto, Requeues
    <3>3. ~Settled(mem, op).entry
      BY <2>1 DEF Settled, Records
    <3>4. Carries(disk)' /\ Carries(mem)'
      BY <2>1, <3>1, <3>2, <3>3 DEF Carries, Requeues
    <3>. QED BY <2>1, <3>1, <3>4 DEF Held
  <2>. QED BY <2>2, <2>3
<1>20. CASE Unlabel
  <2>1. CASE op = "reclaim"
    <3>1. at' = "settle" /\ op' = op /\ UNCHANGED <<disk, mem>> /\ at = "unlabel"
      BY <1>20, <2>1 DEF Unlabel, Skip, Goto, cycle
    <3>. QED BY <3>1, <2>1 DEF Held, Carries, Credit
  <2>2. CASE op # "reclaim"
    BY <1>20, <2>2, NothingHeld DEF Unlabel, Leave, Goto
  <2>. QED BY <2>1, <2>2
<1>21. CASE UnlabelFails
  BY <1>21, NothingHeld DEF UnlabelFails, Refused, Leave, Gone, Goto
<1>22. CASE Repair
  BY <1>22, NothingHeld DEF Repair, Skip, Goto
<1>23. CASE Launch
  BY <1>23, NothingHeld DEF Launch, Goto
<1>24. CASE Finish
  BY <1>24, NothingHeld DEF Finish, Goto
<1>25. CASE Exit
  BY <1>25, StillHeld DEF Exit, cycle, counters
<1>26. CASE Elapse
  BY <1>26, StillHeld DEF Elapse, cycle, counters
<1>27. CASE Crash
  BY <1>27, NothingHeld DEF Crash, Gone, Goto
<1>28. CASE Relabel
  BY <1>28, NothingHeld DEF Relabel
<1>29. CASE UNCHANGED vars
  BY <1>29, StillHeld DEF vars, cycle, counters
<1>. QED BY <1>1, <1>2, <1>3, <1>4, <1>5, <1>6, <1>7, <1>8, <1>9, <1>10, <1>11, <1>12,
   <1>13, <1>14, <1>15, <1>16, <1>17, <1>18, <1>19, <1>20, <1>21, <1>22, <1>23, <1>24,
   <1>25, <1>26, <1>27, <1>28, <1>29 DEF Next, Cycle, Rules, Gc, Steps

-----------------------------------------------------------------------------
(* The theorems.                                                           *)

LEMMA Starts == Init => IInv
<1>. SUFFICES ASSUME Init PROVE IInv
  OBVIOUS
<1>. USE DEF Init
<1>0. Empty \in Records
  BY BudgetAssumption DEF Empty, Records
<1>t. Tallies
  BY BudgetAssumption DEF Tallies
<1>w. World
  BY DEF World, NoRun
<1>p. Places
  BY DEF Places
<1>1. TypeOK
  BY <1>0, <1>t, <1>w, <1>p, TypeParts
<1>2. Loaded /\ Held /\ Gated /\ CountLags
  BY DEF Loaded, Held, Gated, CountLags
<1>3. Worth(Empty) = 0 /\ Owed(Empty) = 0 /\ One(Empty.reviewPend) = 0
  BY Budgets DEF Worth, Owed, One, Credit, Capped, Empty
<1>4. Fits(Empty, {"queued"}, 0, 0)
  BY <1>3 DEF Fits
<1>5. Covered
  BY <1>4 DEF Covered
<1>. QED BY <1>1, <1>2, <1>5 DEF IInv

LEMMA Keeps == IInv /\ [Next]_vars => IInv'
<1>. SUFFICES ASSUME IInv, [Next]_vars PROVE IInv'
  OBVIOUS
<1>1. Places /\ World /\ Tallies
  BY TypeParts DEF IInv
<1>2. Places' /\ World' /\ Tallies'
  BY <1>1, PlacesKept, WorldKept, TalliesKept
<1>3. TypeOK'
  BY <1>2, LedgersTyped DEF TypeOK, Places, World, Tallies
<1>. QED BY <1>3, LoadedKept, HeldKept, GatedKept, CoveredKept, LagsKept DEF IInv

LEMMA Always == Spec => []IInv
  BY Starts, Keeps, PTL DEF Spec

\* Whatever the budgets are and however often an operator relabels, a request
\* fails or a cycle stops, an Issue is launched only as often as its budgets and
\* the operator allow, and every launch is counted on disk.
THEOREM LaunchesAreAccounted == Spec => []LaunchesAccounted
<1>1. ASSUME IInv PROVE LaunchesAccounted
  <2>1. TypeOK /\ Fits(disk, labels, runs, manual) /\ disk \in Records
    BY <1>1 DEF IInv, Covered, TypeOK
  <2>2. disk \in Book /\ runs \in Nat /\ manual \in Nat
    BY <2>1, RecordsAreBooks, BudgetAssumption DEF TypeOK
  <2>3. runs <= 1 + manual + Worth(disk)
    BY <2>1, <2>2, Sizes DEF Fits
  <2>4. /\ disk.count \in Nat /\ disk.death \in 0..MaxDeaths
        /\ disk.review \in 0..(MaxTimeouts - 1) /\ disk.limit \in 0..MaxLimits
    BY <2>1 DEF Records
  <2>5. /\ Capped(disk.count) \in Nat /\ Capped(disk.count) <= MaxReclaims
        /\ Capped(disk.count) <= disk.count
    BY <2>4, Budgets DEF Capped
  <2>6. LaunchesBounded
    BY ONLY <2>2, <2>3, <2>4, <2>5, Budgets DEF LaunchesBounded, Worth
  <2>7. LaunchesCounted
    BY ONLY <2>2, <2>3, <2>4, <2>5, Budgets DEF LaunchesCounted, Worth
  <2>. QED BY <2>1, <2>6, <2>7 DEF LaunchesAccounted
<1>. QED BY <1>1, Always, PTL

LEMMA Escalated ==
  ASSUME IInv, [Next]_vars, "review" \in labels, manual' = manual
  PROVE  "review" \in labels' /\ runs' = runs
<1>1. CASE Start
  BY <1>1 DEF Start, counters
<1>2. CASE NotJudged
  BY <1>2 DEF NotJudged, counters
<1>3. CASE JudgeLimit
  BY <1>3 DEF JudgeLimit, counters
<1>4. CASE JudgeDirty
  BY <1>4 DEF JudgeDirty
<1>5. CASE JudgeUnknown
  BY <1>5 DEF JudgeUnknown, counters
<1>6. CASE JudgeBlocked
  BY <1>6 DEF JudgeBlocked, counters
<1>7. CASE JudgeEnded
  BY <1>7 DEF JudgeEnded, counters
<1>8. CASE NothingToReclaim
  BY <1>8 DEF NothingToReclaim, counters
<1>9. CASE Discard
  BY <1>9 DEF Discard
<1>10. CASE ReclaimLimit
  BY <1>10 DEF ReclaimLimit, counters
<1>11. CASE Reclaim
  BY <1>11 DEF Reclaim, counters
<1>12. CASE Reserve
  BY <1>12 DEF Reserve
<1>13. CASE Kill
  BY <1>13 DEF Kill, counters
<1>14. CASE Clear
  BY <1>14 DEF Clear
<1>15. CASE NotRemoved
  BY <1>15 DEF NotRemoved
<1>16. CASE NotBackedUp
  BY <1>16 DEF NotBackedUp
<1>17. CASE Label
  BY <1>17 DEF Label, counters
<1>18. CASE LabelFails
  BY <1>18 DEF LabelFails
<1>19. CASE Settle
  BY <1>19 DEF Settle
<1>20. CASE Unlabel
  BY <1>20 DEF Unlabel, counters
<1>21. CASE UnlabelFails
  BY <1>21 DEF UnlabelFails
<1>22. CASE Repair
  BY <1>22 DEF Repair
<1>23. CASE Launch
  BY <1>23 DEF Launch, Launchable
<1>24. CASE Finish
  BY <1>24 DEF Finish
<1>25. CASE Exit
  BY <1>25 DEF Exit, counters
<1>26. CASE Elapse
  BY <1>26 DEF Elapse, counters
<1>27. CASE Crash
  BY <1>27 DEF Crash
<1>28. CASE Relabel
  BY <1>28, BudgetAssumption DEF Relabel, IInv, TypeOK
<1>29. CASE UNCHANGED vars
  BY <1>29 DEF vars, world, cycle, counters
<1>. QED BY <1>1, <1>2, <1>3, <1>4, <1>5, <1>6, <1>7, <1>8, <1>9, <1>10, <1>11, <1>12,
   <1>13, <1>14, <1>15, <1>16, <1>17, <1>18, <1>19, <1>20, <1>21, <1>22, <1>23, <1>24,
   <1>25, <1>26, <1>27, <1>28, <1>29 DEF Next, Cycle, Rules, Gc, Steps

LEMMA CountedInTheOpen ==
  ASSUME IInv, [Next]_vars, disk.pend, disk'.pend, disk'.count > disk.count
  PROVE  tree = "dirty"
<1>. TypeOK /\ Loaded /\ CountLags /\ disk \in Records /\ mem \in Records
  BY DEF IInv, TypeOK
<1>. disk.count \in Nat /\ mem.count \in Nat
  BY DEF Records
<1>a. /\ Unreserved(mem).count = mem.count /\ Marked(mem).count = mem.count
      /\ \A w : Settled(mem, w).count = mem.count
      /\ Launched(mem).count = mem.count
  BY DEF Unreserved, Marked, Settled, Launched, Records
<1>1. CASE Start
  BY <1>1 DEF Start, counters
<1>2. CASE NotJudged
  BY <1>2 DEF NotJudged, counters
<1>3. CASE JudgeLimit
  BY <1>3 DEF JudgeLimit, counters
<1>4. CASE JudgeDirty
  BY <1>4 DEF JudgeDirty
<1>5. CASE JudgeUnknown
  BY <1>5 DEF JudgeUnknown, counters
<1>6. CASE JudgeBlocked
  BY <1>6 DEF JudgeBlocked, counters
<1>7. CASE JudgeEnded
  BY <1>7 DEF JudgeEnded, counters
<1>8. CASE NothingToReclaim
  BY <1>8 DEF NothingToReclaim, counters
<1>9. CASE Discard
  BY <1>9 DEF Discard
<1>10. CASE ReclaimLimit
  BY <1>10 DEF ReclaimLimit, counters
<1>11. CASE Reclaim
  BY <1>11 DEF Reclaim, counters
<1>12. CASE Reserve
  <2>1. mem = disk /\ disk' \in {disk, Reserved(mem, op)}
    BY <1>12 DEF Reserve, Loaded, Save, NotReserved
  <2>2. Reserved(mem, op).count = mem.count
    BY <2>1 DEF Reserved, ReclaimCount, Spend, Records
  <2>. QED BY <2>1, <2>2
<1>13. CASE Kill
  BY <1>13 DEF Kill, counters
<1>14. CASE Clear
  BY <1>14 DEF Clear
<1>15. CASE NotRemoved
  BY <1>15 DEF NotRemoved
<1>16. CASE NotBackedUp
  <2>1. disk'.count \in {disk.count, mem.count} /\ at # "off"
    BY <1>16, <1>a DEF NotBackedUp
  <2>. QED BY <2>1 DEF CountLags
<1>17. CASE Label
  BY <1>17 DEF Label, counters
<1>18. CASE LabelFails
  <2>1. disk'.count \in {disk.count, mem.count} /\ at # "off"
    BY <1>18, <1>a DEF LabelFails, Refused, Gone
  <2>. QED BY <2>1 DEF CountLags
<1>19. CASE Settle
  <2>1. disk'.count \in {disk.count, mem.count} /\ at # "off"
    BY <1>19, <1>a DEF Settle, Save, Gone
  <2>. QED BY <2>1 DEF CountLags
<1>20. CASE Unlabel
  BY <1>20 DEF Unlabel, counters
<1>21. CASE UnlabelFails
  <2>1. disk'.count \in {disk.count, mem.count} /\ at # "off"
    BY <1>21, <1>a DEF UnlabelFails, Refused, Gone
  <2>. QED BY <2>1 DEF CountLags
<1>22. CASE Repair
  BY <1>22 DEF Repair
<1>23. CASE Launch
  <2>1. disk'.count \in {disk.count, mem.count} /\ at # "off"
    BY <1>23, <1>a DEF Launch
  <2>. QED BY <2>1 DEF CountLags
<1>24. CASE Finish
  <2>1. disk'.count \in {disk.count, mem.count} /\ at # "off"
    BY <1>24, <1>a DEF Finish
  <2>. QED BY <2>1 DEF CountLags
<1>25. CASE Exit
  BY <1>25 DEF Exit, counters
<1>26. CASE Elapse
  BY <1>26 DEF Elapse, counters
<1>27. CASE Crash
  BY <1>27 DEF Crash
<1>28. CASE Relabel
  BY <1>28 DEF Relabel
<1>29. CASE UNCHANGED vars
  BY <1>29 DEF vars, world, cycle, counters
<1>. QED BY <1>1, <1>2, <1>3, <1>4, <1>5, <1>6, <1>7, <1>8, <1>9, <1>10, <1>11, <1>12,
   <1>13, <1>14, <1>15, <1>16, <1>17, <1>18, <1>19, <1>20, <1>21, <1>22, <1>23, <1>24,
   <1>25, <1>26, <1>27, <1>28, <1>29 DEF Next, Cycle, Rules, Gc, Steps

\* Whatever the budgets are, what waits for a human is neither launched nor
\* released by the dispatcher, and a reserved reclaim is counted once.
THEOREM NothingIsUndone == Spec => NothingUndone
<1>1. ASSUME IInv, [Next]_vars
      PROVE  /\ ("review" \in labels /\ manual' = manual) => ("review" \in labels' /\ runs' = runs)
             /\ disk.pend /\ disk'.pend /\ disk'.count > disk.count => tree = "dirty"
  BY <1>1, Escalated, CountedInTheOpen
<1>. QED BY <1>1, Always, PTL DEF Spec, NothingUndone, EscalationHolds, ReservedOnce
=============================================================================
