--------------------------- MODULE RecoveryProofs ---------------------------
(***************************************************************************)
(* The recovery loop keeps its backoff, for any jobs, delays and number of   *)
(* failures: the entry of a recovering job counts the failures in a row of   *)
(* the task that its row names, and what is left of its wait together with   *)
(* the time gone by is never less than those failures call for.             *)
(***************************************************************************)
EXTENDS RecoverySchedule, WellFoundedInduction, TLAPS

(***************************************************************************)
(* The invariant.                                                          *)
(***************************************************************************)
\* The shortest wait after n failures.
Need(n) == IF n = 0 THEN 0 ELSE Delay[n] \div 2

Working == {"claim", "reload", "execute", "completed"}

InPass == {"pass"} \cup Working

\* The row that recovery reads, as far as the schedule uses it.
Task(r) == <<r.generation, recoverySpecHash(r)>>

Row == [state : {"Recovering", "other"}, generation : {0, 1}, spec : {"raw", "canonical"}]

Read == [state : {"Recovering", "other", "none"}, generation : {-1, 0, 1}, spec : {"raw", "canonical", "none"}]

Entry ==
    [generation : {-1, 0, 1}, specHash : {"none", "canonical"}, failures : 0..MaxFailures, nextRetry : Nat]

Outcome ==
    [executed : BOOLEAN, terminal : BOOLEAN, repairFailed : BOOLEAN, failed : BOOLEAN,
     generation : {-1, 0, 1}, specHash : {"none", "canonical"}]

Types ==
    /\ rows \in [Jobs -> Row]
    /\ entries \in [Jobs -> Entry]
    /\ scan \in [failures : 0..MaxFailures, nextRetry : Nat] /\ (scan.failures = 0 => scan = NoScan)
    /\ fails \in [Jobs -> 0..MaxFailures] /\ since \in [Jobs -> Nat]
    /\ owner \in [Jobs -> {"none", "recovery", "submission"}]

LoopTypes ==
    /\ DOMAIN loop = {"pc", "todo", "snapshot", "job", "result"}
    /\ loop.pc \in InPass \cup {"begin", "top", "list", "wait"}
    /\ loop.todo \subseteq Jobs
    /\ loop.snapshot \in [Jobs -> Read]
    /\ loop.result \in Outcome
    /\ IF loop.pc \in Working THEN \E j \in loop.todo : loop.job = {j} ELSE loop.job = {}

\* The entry stands for the row, and its wait for its failures.
Matched(j) ==
    /\ SameTask(entries[j], rows[j]) /\ entries[j].failures = fails[j]
    /\ entries[j].nextRetry + since[j] >= Need(fails[j])

Unseen(j) == entries[j] = NoEntry /\ fails[j] = 0

\* The execution of job j has failed and its entry does not say so yet.
Ran(j) == loop.pc = "completed" /\ loop.job = {j} /\ loop.result.executed

Counted(j) ==
    /\ ~Ran(j) => Matched(j) \/ Unseen(j)
    /\ Ran(j) => /\ loop.result.failed
                 /\ fails[j] = incrementRecoveryFailures(
                                 IF entries[j].specHash = loop.result.specHash THEN entries[j].failures ELSE 0)
    /\ loop.pc \in InPass /\ j \notin loop.todo => Matched(j)
    /\ loop.pc = "wait" /\ scan = NoScan => Matched(j)

\* What the pass has read of job j still holds.
Fresh(j) ==
    /\ loop.pc \in InPass /\ j \in loop.todo /\ ~Ran(j) => Task(loop.snapshot[j]) = Task(rows[j])
    /\ loop.job = {j} =>
         /\ loop.result.generation = rows[j].generation /\ loop.result.specHash = recoverySpecHash(rows[j])
         /\ ~loop.result.terminal /\ ~loop.result.repairFailed
         /\ entries[j].nextRetry = 0

\* The execution owns its job.
Owned ==
    /\ loop.pc \in {"claim", "reload"} => ~loop.result.executed /\ ~loop.result.failed
    /\ loop.pc = "execute" => loop.result.executed /\ ~loop.result.failed
    /\ loop.pc \in {"reload", "execute"} => \A j \in loop.job : owner[j] = "recovery"
    /\ loop.pc = "execute" => loop.job \subseteq Listed

Inv == Types /\ LoopTypes /\ Owned /\ \A j \in Listed : Counted(j) /\ Fresh(j)

(***************************************************************************)
(* Delays.                                                                 *)
(***************************************************************************)
\* A set of natural numbers that is not empty has a least element.
LEMMA LeastElement ==
    ASSUME NEW S \in SUBSET Nat, S # {}
    PROVE  \E x \in S : \A y \in S : x <= y
<1> DEFINE R == OpToRel(<, Nat)
<1>1. IsWellFoundedOn(R, Nat)
    BY NatLessThanWellFounded, ZenonT(30)
<1>2. \A x, y \in Nat : x < y => <<x, y>> \in R
    BY DEF OpToRel
<1> HIDE DEF R
<1>3. PICK x \in S : \A y \in S : ~(<<y, x>> \in R)
    BY <1>1, WFMin, ZenonT(30)
<1>4. \A y \in S : x \in Nat /\ y \in Nat /\ ~(y < x)
    BY <1>2, <1>3, ZenonT(30)
<1> QED
    BY <1>4

\* The recursion of Delay is well founded, so that its equation holds.
LEMMA DelayEquation ==
    \A n \in 0..MaxFailures :
      Delay[n] = IF n <= 1 THEN Second
                 ELSE IF Delay[n - 1] * 2 >= MaxDelay THEN MaxDelay ELSE Delay[n - 1] * 2
<1> DEFINE Step(f, n) == IF n <= 1 THEN Second ELSE IF f[n - 1] * 2 >= MaxDelay THEN MaxDelay ELSE f[n - 1] * 2
           Upto(k, f) == f = [n \in 0..k |-> Step(f, n)]
           Bad == {k \in Nat : ~\E f : Upto(k, f)}
<1>1. ASSUME Bad # {}
      PROVE  FALSE
    <2>1. PICK k \in Bad : \A y \in Bad : k <= y
        BY <1>1, LeastElement, ZenonT(30)
    <2>2. CASE k = 0
        <3> DEFINE f == [n \in 0..0 |-> Second]
        <3>1. \A n \in 0..0 : n <= 1
            OBVIOUS
        <3>2. Upto(0, f)
            BY <3>1
        <3> QED
            BY <2>1, <2>2, <3>2, ZenonT(30)
    <2>3. CASE k # 0
        <3>0. k \in Nat
            BY <2>1
        <3>1. k - 1 \in Nat /\ k \in Nat /\ k - 1 \notin Bad
            <4> HIDE DEF Bad
            <4> QED
                BY <2>1, <2>3, <3>0
        <3>2. PICK f : Upto(k - 1, f)
            BY <3>1
        <3> DEFINE g == [n \in 0..k |-> IF n = k THEN Step(f, k) ELSE f[n]]
        <3>3. \A n \in 0..k : n = k \/ n \in 0..(k - 1)
            BY <3>1
        <3>4. \A n \in 0..(k - 1) : f[n] = Step(f, n)
            BY <3>2
        <3>5. \A n \in 0..(k - 1) : g[n] = f[n] /\ n \in 0..k
            BY <3>1
        <3>6. \A n \in 0..k : ~(n <= 1) => n - 1 \in 0..(k - 1)
            BY <3>1
        <3> HIDE DEF Step
        <3>7. ASSUME NEW n \in 0..k
              PROVE  Step(f, n) = Step(g, n)
            BY <3>5, <3>6 DEF Step
        <3>8. \A n \in 0..k : g[n] = Step(g, n)
            BY <3>3, <3>4, <3>5, <3>7
        <3>9. Upto(k, g)
            BY <3>8
        <3> QED
            BY <2>1, <3>9, ZenonT(30)
    <2> QED
        BY <2>2, <2>3
<1>2. \E f : Upto(MaxFailures, f)
    BY <1>1, ScheduleAssumption
<1>3. Upto(MaxFailures, Delay)
    BY <1>2, ZenonT(30) DEF Delay
<1> QED
    BY <1>3, ZenonT(30)

\* No delay is longer than MaxDelay.
LEMMA DelayBounded == \A n \in 0..MaxFailures : Delay[n] \in 0..MaxDelay
<1> DEFINE Bad == {n \in 0..MaxFailures : Delay[n] \notin 0..MaxDelay}
<1> SUFFICES ASSUME Bad # {}
             PROVE  FALSE
    OBVIOUS
<1>1. Second \in 0..MaxDelay /\ MaxDelay \in Nat /\ MaxFailures \in Nat
    BY ScheduleAssumption
<1>2. PICK n \in Bad : \A y \in Bad : n <= y
    <2>1. Bad \in SUBSET Nat
        BY <1>1
    <2> HIDE DEF Bad
    <2> QED
        BY <2>1, LeastElement
<1>3. n \in 0..MaxFailures /\ ~(n <= 1)
    BY <1>1, <1>2, DelayEquation
<1>4. n - 1 \in 0..MaxFailures /\ n - 1 \notin Bad
    BY <1>1, <1>2, <1>3
<1>5. Delay[n - 1] \in 0..MaxDelay
    BY <1>4
<1>6. Delay[n] = IF Delay[n - 1] * 2 >= MaxDelay THEN MaxDelay ELSE Delay[n - 1] * 2
    BY <1>3, DelayEquation
<1> QED
    BY <1>1, <1>2, <1>5, <1>6

\* A wait that recoveryBackoff(n) chooses, and the shortest one.
LEMMA Waits ==
    ASSUME NEW n \in 0..MaxFailures
    PROVE  /\ Need(n) \in Nat /\ Need(n) <= MaxDelay \div 2 /\ MaxDelay \div 2 \in Nat
           /\ \A w \in recoveryBackoff(n) : w \in Nat /\ w >= Need(n)
<1>1. Delay[n] \in Nat /\ Delay[n] <= MaxDelay /\ MaxDelay \in Nat
    BY DelayBounded, ScheduleAssumption
<1> DEFINE d == Delay[n]
<1> HIDE DEF d
<1>2. d \in Nat /\ d <= MaxDelay /\ MaxDelay \in Nat
    BY <1>1 DEF d
<1>3. d \div 2 \in Nat /\ MaxDelay \div 2 \in Nat /\ d \div 2 <= MaxDelay \div 2
    BY <1>2
<1>4. Need(n) = (IF n = 0 THEN 0 ELSE d \div 2) /\ recoveryBackoff(n) = (d \div 2)..d
    BY DEF Need, recoveryBackoff, d
<1> QED
    BY <1>2, <1>3, <1>4

\* The count of failures stays in its range, and one failure is not none.
LEMMA Increments ==
    ASSUME NEW n \in 0..MaxFailures
    PROVE  incrementRecoveryFailures(n) \in 1..MaxFailures
    BY ScheduleAssumption DEF incrementRecoveryFailures

\* The two-element minima and maxima of Tick.
LEMMA TickBounds ==
    ASSUME NEW a \in Int, NEW b \in Int
    PROVE  /\ Min({a, b}) = IF a <= b THEN a ELSE b
           /\ Max({a, b}) = IF a <= b THEN b ELSE a
<1>1. Min({a, b}) = CHOOSE x \in {a, b} : \A y \in {a, b} : x <= y
    BY DEF Min
<1>2. Max({a, b}) = CHOOSE x \in {a, b} : \A y \in {a, b} : x >= y
    BY DEF Max
<1> QED
    BY <1>1, <1>2

(***************************************************************************)
(* The loop goes idle, or on with its pass.                                 *)
(***************************************************************************)
\* What is left of a pass: nothing.
LEMMA IdleLoop ==
    ASSUME NEW pc
    PROVE  /\ DOMAIN Idle(pc) = {"pc", "todo", "snapshot", "job", "result"}
           /\ Idle(pc).pc = pc /\ Idle(pc).todo = {} /\ Idle(pc).job = {} /\ Idle(pc).result = NoResult
           /\ Idle(pc).snapshot \in [Jobs -> Read]
           /\ NoResult \in Outcome
    BY DEF Idle, NoResult, NoRow, Outcome, Read

\* Outside a pass an entry stands for its row, or there was no failure yet.
LEMMA Resting ==
    ASSUME Inv, NEW pc \in {"begin", "top", "list", "wait"}, loop' = Idle(pc),
           UNCHANGED <<rows, owner, entries, fails, since>>,
           scan' \in [failures : 0..MaxFailures, nextRetry : Nat], scan'.failures = 0 => scan' = NoScan,
           \A j \in Listed : ~Ran(j),
           pc = "wait" /\ scan' = NoScan => \A j \in Listed : Matched(j)
    PROVE  Inv'
<1>1. /\ loop'.pc = pc /\ loop'.todo = {} /\ loop'.job = {} /\ loop'.result = NoResult
      /\ LoopTypes'
    BY IdleLoop DEF LoopTypes, InPass, Working
<1>2. Types' /\ Listed' = Listed
    BY DEF Inv, Types, Listed
<1>3. Owned'
    BY <1>1 DEF Owned
<1>4. ASSUME NEW j \in Listed
      PROVE  (Counted(j) /\ Fresh(j))'
    <2>1. Matched(j) \/ Unseen(j)
        BY DEF Inv, Counted
    <2>2. (Matched(j)' <=> Matched(j)) /\ (Unseen(j)' <=> Unseen(j))
        BY DEF Matched, Unseen
    <2>3. loop'.pc \notin InPass /\ ~Ran(j)' /\ loop'.job # {j}
        BY <1>1 DEF InPass, Working, Ran
    <2> QED
        BY <1>1, <2>1, <2>2, <2>3 DEF Counted, Fresh
<1> QED
    BY <1>1, <1>2, <1>3, <1>4 DEF Inv

\* A job that the step does not touch.
LEMMA OtherJob ==
    ASSUME Inv, NEW k \in Jobs, loop.pc \in InPass, loop'.pc \in InPass,
           k \in loop'.todo <=> k \in loop.todo, loop'.snapshot[k] = loop.snapshot[k],
           loop.job # {k}, loop'.job # {k}, rows'[k] = rows[k], entries'[k] = entries[k],
           fails'[k] = fails[k], since'[k] = since[k], k \in Listed'
    PROVE  (Counted(k) /\ Fresh(k))'
<1>1. k \in Listed /\ ~Ran(k) /\ ~Ran(k)'
    BY DEF Listed, Ran
<1>2. Counted(k) /\ Fresh(k)
    BY <1>1 DEF Inv
<1>3. (Matched(k)' <=> Matched(k)) /\ (Unseen(k)' <=> Unseen(k))
    BY DEF Matched, Unseen
<1>4. Counted(k)'
    BY <1>1, <1>2, <1>3 DEF Counted, InPass, Working
<1>5. Fresh(k)'
    BY <1>1, <1>2 DEF Fresh
<1> QED
    BY <1>4, <1>5

\* The entry e would stand for the row of job j as it is.
Fits(j, e) ==
    /\ SameTask(e, rows[j]) /\ e.failures = fails[j]
    /\ e.nextRetry + since[j] >= Need(fails[j])

\* The pass leaves job j behind with a fitting entry, or the job has moved on.
LEMMA Leaving ==
    ASSUME Inv, NEW j \in loop.todo, loop.pc \in InPass, loop.job \in {{}, {j}}, NEW e \in Entry, Dropped(j, e),
           UNCHANGED <<rows, owner, scan, fails, since>>, j \in Listed => Fits(j, e)
    PROVE  Inv'
<1>0. Types /\ LoopTypes /\ j \in Jobs
    BY DEF Inv, LoopTypes
<1>1. /\ DOMAIN loop' = {"pc", "todo", "snapshot", "job", "result"}
      /\ loop'.pc = "pass" /\ loop'.todo = loop.todo \ {j} /\ loop'.job = {} /\ loop'.result = NoResult
      /\ loop'.snapshot = [loop.snapshot EXCEPT ![j] = NoRow]
    BY <1>0 DEF Dropped, LoopTypes
<1>2. entries' = [entries EXCEPT ![j] = e] /\ entries' \in [Jobs -> Entry] /\ entries'[j] = e
    BY <1>0 DEF Dropped, Types
<1>3. Types' /\ Listed' = Listed
    BY <1>0, <1>2 DEF Types, Listed
<1>4. LoopTypes'
    <2>1. NoRow \in Read /\ NoResult \in Outcome
        BY IdleLoop DEF NoRow, Read
    <2>2. loop'.snapshot \in [Jobs -> Read]
        BY <1>0, <1>1, <2>1 DEF LoopTypes
    <2> QED
        BY <1>0, <1>1, <2>1, <2>2 DEF LoopTypes, InPass, Working
<1>5. Owned'
    BY <1>1 DEF Owned
<1>6. ASSUME NEW k \in Listed, k # j
      PROVE  (Counted(k) /\ Fresh(k))'
    <2>1. k \in Jobs /\ loop'.snapshot[k] = loop.snapshot[k] /\ entries'[k] = entries[k]
        BY <1>0, <1>1, <1>2, <1>6 DEF Listed, LoopTypes, Types
    <2>2. loop.job # {k} /\ loop'.job # {k} /\ loop'.pc \in InPass
        BY <1>1, <1>6 DEF InPass
    <2> QED
        BY <1>1, <1>3, <1>6, <2>1, <2>2, OtherJob
<1>7. ASSUME j \in Listed
      PROVE  (Counted(j) /\ Fresh(j))'
    <2>1. Matched(j)'
        BY <1>2, <1>7 DEF Fits, Matched
    <2>2. ~Ran(j)' /\ loop'.job # {j} /\ j \notin loop'.todo
        BY <1>1 DEF Ran
    <2> QED
        BY <1>1, <2>1, <2>2 DEF Counted, Fresh
<1> QED
    BY <1>3, <1>4, <1>5, <1>6, <1>7 DEF Inv

\* A job that is not listed needs no fitting entry, only an entry.
LEMMA Entries ==
    /\ NoEntry \in Entry
    /\ \A e \in Entry, r \in Read : \A w \in recoveryBackoff(1) :
         recoverySpecHash(r) \in {"none", "canonical"} /\ recheck(e, r, w) \in Entry
<1>1. NoEntry \in Entry
    BY ScheduleAssumption DEF NoEntry, Entry
<1>2. ASSUME NEW e \in Entry, NEW r \in Read, NEW w \in recoveryBackoff(1)
      PROVE  recoverySpecHash(r) \in {"none", "canonical"} /\ recheck(e, r, w) \in Entry
    <2>1. recoverySpecHash(r) \in {"none", "canonical"} /\ r.generation \in {-1, 0, 1}
        BY <1>2 DEF Read, recoverySpecHash
    <2>2. w \in Nat /\ 0 \in 0..MaxFailures /\ e.failures \in 0..MaxFailures
        BY <1>2, Waits, ScheduleAssumption DEF Entry
    <2> QED
        BY <2>1, <2>2 DEF recheck, Entry
<1> QED
    BY <1>1, <1>2

\* A recheck keeps the failures of the task it was read for.
LEMMA Rechecked ==
    ASSUME Inv, NEW j \in Listed, NEW r \in Read, Task(r) = Task(rows[j]), NEW w \in recoveryBackoff(1),
           Matched(j) \/ Unseen(j), entries[j].nextRetry = 0 \/ fails[j] = 0
    PROVE  recheck(entries[j], r, w) \in Entry /\ Fits(j, recheck(entries[j], r, w))
<1>0. Types /\ j \in Jobs /\ rows[j] \in Row /\ entries[j] \in Entry /\ fails[j] \in 0..MaxFailures /\ since[j] \in Nat
    BY DEF Inv, Types, Listed
<1>1. r.generation = rows[j].generation /\ recoverySpecHash(r) = recoverySpecHash(rows[j])
    BY DEF Task
<1>2. r.generation \in {0, 1} /\ recoverySpecHash(r) \in {"canonical"}
    BY <1>0, <1>1 DEF Row, recoverySpecHash
<1>3. w \in Nat /\ Need(fails[j]) \in Nat /\ (fails[j] = 0 => Need(fails[j]) = 0)
    BY <1>0, Waits, ScheduleAssumption DEF Need
<1>4. SameTask(entries[j], r) <=> SameTask(entries[j], rows[j])
    BY <1>1 DEF SameTask
<1> DEFINE e == recheck(entries[j], r, w)
<1>5. /\ e.generation = rows[j].generation /\ e.specHash = recoverySpecHash(rows[j]) /\ e.nextRetry = w
      /\ e.failures = (IF SameTask(entries[j], rows[j]) THEN entries[j].failures ELSE 0)
    BY <1>1, <1>4 DEF recheck
<1>6. e \in Entry
    BY <1>0, Entries
<1> HIDE DEF e
<1>7. SameTask(e, rows[j])
    BY <1>5 DEF SameTask
<1>8. e.failures = fails[j]
    <2>1. CASE Matched(j)
        BY <1>5, <2>1 DEF Matched
    <2>2. CASE Unseen(j)
        <3>1. ~SameTask(entries[j], rows[j])
            BY <1>0, <2>2 DEF Unseen, NoEntry, SameTask, Row
        <3> QED
            BY <1>5, <2>2, <3>1 DEF Unseen
    <2> QED
        BY <2>1, <2>2
<1>9. since[j] >= Need(fails[j])
    <2>1. CASE fails[j] = 0
        BY <1>0, <1>3, <2>1
    <2>2. CASE fails[j] # 0
        BY <1>0, <1>3, <2>2 DEF Matched, Unseen
    <2> QED
        BY <2>1, <2>2
<1>10. e.nextRetry + since[j] >= Need(fails[j])
    BY <1>0, <1>3, <1>5, <1>9
<1> QED
    BY <1>6, <1>7, <1>8, <1>10 DEF Fits, e

(***************************************************************************)
(* The pass over one job.                                                  *)
(***************************************************************************)
\* A job that is rechecked on the way: it fits when it is still recovering.
LEMMA RecheckLeaves ==
    ASSUME Inv, NEW j \in loop.todo, loop.pc \in InPass, loop.job \in {{}, {j}},
           NEW r \in Read, NEW w \in recoveryBackoff(1), Dropped(j, recheck(entries[j], r, w)),
           UNCHANGED <<rows, owner, scan, fails, since>>,
           j \in Listed => /\ Task(r) = Task(rows[j])
                           /\ Matched(j) \/ Unseen(j)
                           /\ entries[j].nextRetry = 0 \/ fails[j] = 0
    PROVE  Inv'
<1>1. j \in Jobs /\ entries[j] \in Entry
    BY DEF Inv, LoopTypes, Types
<1>2. recheck(entries[j], r, w) \in Entry
    BY <1>1, Entries
<1>3. ASSUME j \in Listed
      PROVE  Fits(j, recheck(entries[j], r, w))
    BY <1>3, Rechecked
<1> QED
    BY <1>2, <1>3, Leaving

\* The row is loaded again: nothing has changed it while it is Recovering.
LEMMA LoadKeepsInv ==
    ASSUME Inv, NEW j \in Jobs, Load(j)
    PROVE  Inv'
<1>0. /\ Types /\ LoopTypes /\ loop.pc = "pass" /\ j \in loop.todo /\ loop.job = {} /\ loop.pc \in InPass
      /\ rows[j] \in Row /\ entries[j] \in Entry /\ fails[j] \in 0..MaxFailures /\ since[j] \in Nat
      /\ loop.snapshot[j] \in Read /\ UNCHANGED <<rows, owner, scan, fails, since>>
    BY DEF Inv, Load, Types, LoopTypes, InPass, Working, Ghosts
<1>1. ASSUME j \in Listed
      PROVE  (Matched(j) \/ Unseen(j)) /\ Task(loop.snapshot[j]) = Task(rows[j])
    BY <1>0, <1>1 DEF Inv, Counted, Fresh, Ran
<1>2. CASE ~eligible(j) /\ Dropped(j, entries[j])
    <2>1. j \in Listed => Fits(j, entries[j])
        BY <1>1, <1>2 DEF eligible, Fits, Matched, Unseen, NoEntry
    <2> QED
        BY <1>0, <1>2, <2>1, Leaving
<1>3. CASE eligible(j) /\ \E w \in recoveryBackoff(1) : Dropped(j, recheck(entries[j], loop.snapshot[j], w))
    BY <1>0, <1>1, <1>3, RecheckLeaves DEF eligible
<1>4. CASE rows[j].state # "Recovering" /\ Dropped(j, NoEntry)
    <2>1. j \notin Listed
        BY <1>4 DEF Listed
    <2> QED
        BY <1>0, <1>4, <2>1, Entries, Leaving
<1>5. CASE rows[j].state = "Recovering" /\ rows[j].generation # loop.snapshot[j].generation
    BY <1>1, <1>5 DEF Listed, Task
<1>6. CASE /\ eligible(j) /\ rows[j].state = "Recovering" /\ UNCHANGED entries
           /\ loop' = [loop EXCEPT !.pc = "claim", !.job = {j}, !.snapshot[j] = rows[j],
                         !.result = [NoResult EXCEPT !.generation = rows[j].generation,
                                                     !.specHash = recoverySpecHash(rows[j])]]
    <2> DEFINE res == [NoResult EXCEPT !.generation = rows[j].generation, !.specHash = recoverySpecHash(rows[j])]
    <2>1. /\ DOMAIN loop' = {"pc", "todo", "snapshot", "job", "result"}
          /\ loop'.pc = "claim" /\ loop'.todo = loop.todo /\ loop'.job = {j} /\ loop'.result = res
          /\ loop'.snapshot = [loop.snapshot EXCEPT ![j] = rows[j]]
        BY <1>0, <1>6 DEF LoopTypes
    <2>2. /\ res \in Outcome /\ res.generation = rows[j].generation /\ res.specHash = recoverySpecHash(rows[j])
          /\ ~res.terminal /\ ~res.repairFailed /\ ~res.executed /\ ~res.failed
        BY <1>0, ZenonT(30) DEF NoResult, Outcome, Row, recoverySpecHash
    <2> HIDE DEF res
    <2>3. Types' /\ Listed' = Listed
        BY <1>0, <1>6 DEF Types, Listed
    <2>4. LoopTypes'
        <3>1. rows[j] \in Read
            BY <1>0 DEF Row, Read
        <3>2. loop'.snapshot \in [Jobs -> Read]
            BY <1>0, <2>1, <3>1 DEF LoopTypes
        <3> QED
            BY <1>0, <2>1, <2>2, <3>2 DEF LoopTypes, InPass, Working
    <2>5. Owned'
        BY <2>1, <2>2 DEF Owned
    <2>6. ASSUME NEW k \in Listed, k # j
          PROVE  (Counted(k) /\ Fresh(k))'
        <3>1. k \in Jobs /\ loop'.snapshot[k] = loop.snapshot[k] /\ loop.job # {k} /\ loop'.job # {k}
            BY <1>0, <2>1, <2>6 DEF Listed, LoopTypes
        <3>2. loop'.pc \in InPass
            BY <2>1 DEF InPass, Working
        <3> QED
            BY <1>0, <1>6, <2>1, <2>3, <3>1, <3>2, OtherJob
    <2>7. ASSUME j \in Listed
          PROVE  (Counted(j) /\ Fresh(j))'
        <3>1. (Matched(j) \/ Unseen(j))'
            BY <1>0, <1>1, <1>6, <2>7 DEF Matched, Unseen
        <3>2. ~Ran(j)' /\ j \in loop'.todo /\ loop'.snapshot[j] = rows[j]
            BY <1>0, <2>1 DEF Ran, LoopTypes
        <3>3. Counted(j)'
            BY <2>1, <3>1, <3>2 DEF Counted
        <3>4. Fresh(j)'
            BY <1>0, <1>6, <2>1, <2>2, <3>2 DEF Fresh, eligible, Task
        <3> QED
            BY <3>3, <3>4
    <2> QED
        BY <2>3, <2>4, <2>5, <2>6, <2>7 DEF Inv
<1> QED
    BY <1>2, <1>3, <1>4, <1>5, <1>6 DEF Load

\* A step of retryRecoveringJobResult on job j: it may change the row and the
\* ghosts of j only, and leaves entries, scan and the rest of the pass alone.
LEMMA WorkStep ==
    ASSUME Inv, NEW j \in loop.todo, loop.job = {j}, loop.pc \in Working,
           DOMAIN loop' = DOMAIN loop, loop'.pc \in Working, loop'.result \in Outcome,
           loop'.todo = loop.todo, loop'.snapshot = loop.snapshot, loop'.job = loop.job,
           Types', Owned', UNCHANGED entries,
           \A k \in Jobs \ {j} : rows'[k] = rows[k] /\ fails'[k] = fails[k] /\ since'[k] = since[k],
           j \in Listed' => (Counted(j) /\ Fresh(j))'
    PROVE  Inv'
<1>1. LoopTypes'
    BY DEF Inv, LoopTypes, InPass
<1>2. ASSUME NEW k \in Listed', k # j
      PROVE  (Counted(k) /\ Fresh(k))'
    <2>1. k \in Jobs /\ loop.job # {k} /\ loop'.job # {k} /\ loop.pc \in InPass /\ loop'.pc \in InPass
        BY <1>2 DEF Listed, InPass
    <2> QED
        BY <1>2, <2>1, OtherJob
<1> QED
    BY <1>1, <1>2 DEF Inv

\* What holds of the job in hand.
LEMMA InHand ==
    ASSUME Inv, NEW j \in Jobs, loop.job = {j}, loop.pc \in Working
    PROVE  /\ Types /\ LoopTypes /\ j \in loop.todo /\ loop.result \in Outcome /\ loop.snapshot[j] \in Read
           /\ rows[j] \in Row /\ entries[j] \in Entry /\ fails[j] \in 0..MaxFailures /\ since[j] \in Nat
           /\ DOMAIN loop = {"pc", "todo", "snapshot", "job", "result"} /\ loop.pc \in InPass
           /\ j \in Listed => Counted(j) /\ Fresh(j)
<1>1. PICK k \in loop.todo : loop.job = {k}
    BY DEF Inv, LoopTypes
<1>2. k = j
    BY <1>1
<1> QED
    BY <1>1, <1>2 DEF Inv, LoopTypes, Types, InPass

\* The loop returns from the execution with a result.
LEMMA Returned ==
    ASSUME DOMAIN loop = {"pc", "todo", "snapshot", "job", "result"}, NEW res, Returns(res)
    PROVE  /\ DOMAIN loop' = DOMAIN loop /\ loop'.pc = "completed" /\ loop'.result = res
           /\ loop'.todo = loop.todo /\ loop'.snapshot = loop.snapshot /\ loop'.job = loop.job
    BY DEF Returns

\* The entry and the row of a job that was not executed are as they were read.
LEMMA NotExecuted ==
    ASSUME Inv, NEW j \in Jobs, loop.job = {j}, loop.pc \in {"claim", "reload"},
           loop'.todo = loop.todo, loop'.snapshot = loop.snapshot, loop'.job = loop.job,
           UNCHANGED <<rows, entries, scan, fails, since>>,
           \/ loop'.pc = "reload" /\ loop'.result = loop.result
           \/ loop'.pc = "execute" /\ loop'.result = [loop.result EXCEPT !.executed = TRUE,
                                                          !.specHash = recoverySpecHash(rows[j])]
           \/ loop'.pc = "completed" /\ loop'.result = loop.result
           \/ loop'.pc = "completed" /\ loop'.result = [loop.result EXCEPT !.failed = TRUE]
    PROVE  loop'.result \in Outcome /\ (j \in Listed' => (Counted(j) /\ Fresh(j))')
<1>0. /\ j \in loop.todo /\ loop.result \in Outcome /\ rows[j] \in Row /\ loop.pc \in InPass
      /\ j \in Listed => Counted(j) /\ Fresh(j)
    BY InHand DEF Working
<1>1. ~loop.result.executed
    BY DEF Inv, Owned
<1>2. recoverySpecHash(rows[j]) \in {"none", "canonical"}
    BY <1>0 DEF recoverySpecHash, Row
<1>3. /\ loop'.result \in Outcome
      /\ loop'.result.terminal = loop.result.terminal /\ loop'.result.repairFailed = loop.result.repairFailed
      /\ loop'.result.generation = loop.result.generation
      /\ loop'.result.specHash \in {loop.result.specHash, recoverySpecHash(rows[j])}
      /\ loop'.pc = "completed" => ~loop'.result.executed
    BY <1>0, <1>1, <1>2, ZenonT(30) DEF Outcome
<1>4. ASSUME j \in Listed'
      PROVE  (Counted(j) /\ Fresh(j))'
    <2>1. j \in Listed /\ ~Ran(j) /\ ~Ran(j)' /\ loop'.pc \in InPass
        BY <1>1, <1>3, <1>4 DEF Listed, Ran, InPass, Working
    <2>2. (Matched(j) \/ Unseen(j))'
        BY <1>0, <2>1 DEF Counted, Matched, Unseen
    <2>3. Counted(j)'
        BY <1>0, <2>1, <2>2 DEF Counted, InPass, Working
    <2>4. Fresh(j)'
        BY <1>0, <1>3, <2>1 DEF Fresh
    <2> QED
        BY <2>3, <2>4
<1> QED
    BY <1>3, <1>4

\* The job is claimed, or somebody else has it.
LEMMA ClaimKeepsInv ==
    ASSUME Inv, NEW j \in Jobs, Claim(j)
    PROVE  Inv'
<1>0. /\ Types /\ j \in loop.todo /\ loop.pc = "claim" /\ loop.job = {j} /\ loop.pc \in Working
      /\ DOMAIN loop = {"pc", "todo", "snapshot", "job", "result"} /\ ~loop.result.executed /\ ~loop.result.failed
      /\ UNCHANGED <<rows, entries, scan, fails, since>>
    BY InHand DEF Claim, Working, Ghosts, Inv, Owned
<1>1. CASE owner[j] # "none"
    <2>1. UNCHANGED owner /\ Returns([loop.result EXCEPT !.failed = TRUE])
        BY <1>1 DEF Claim
    <2>2. /\ DOMAIN loop' = DOMAIN loop /\ loop'.pc = "completed" /\ loop'.todo = loop.todo
          /\ loop'.result = [loop.result EXCEPT !.failed = TRUE]
          /\ loop'.snapshot = loop.snapshot /\ loop'.job = loop.job
        BY <1>0, <2>1, Returned
    <2>3. Types' /\ Owned' /\ loop'.pc \in Working
        BY <1>0, <2>1, <2>2 DEF Types, Owned, Working
    <2>4. loop'.result \in Outcome /\ (j \in Listed' => (Counted(j) /\ Fresh(j))')
        BY <1>0, <2>2, NotExecuted, ZenonT(30)
    <2> QED
        BY <1>0, <2>2, <2>3, <2>4, WorkStep, ZenonT(30)
<1>2. CASE owner[j] = "none"
    <2>1. owner' = [owner EXCEPT ![j] = "recovery"] /\ loop' = [loop EXCEPT !.pc = "reload"]
        BY <1>2 DEF Claim
    <2>2. /\ DOMAIN loop' = DOMAIN loop /\ loop'.pc = "reload" /\ loop'.todo = loop.todo
          /\ loop'.result = loop.result /\ loop'.snapshot = loop.snapshot /\ loop'.job = loop.job
        BY <1>0, <2>1
    <2>3. Types' /\ loop'.pc \in Working /\ owner'[j] = "recovery"
        BY <1>0, <2>1, <2>2 DEF Types, Working
    <2>4. Owned'
        BY <1>0, <2>2, <2>3 DEF Owned
    <2>5. loop'.result \in Outcome /\ (j \in Listed' => (Counted(j) /\ Fresh(j))')
        BY <1>0, <2>2, NotExecuted
    <2> QED
        BY <1>0, <2>2, <2>3, <2>4, <2>5, WorkStep
<1> QED
    BY <1>1, <1>2

\* The row is compared under ownership.
LEMMA ReloadKeepsInv ==
    ASSUME Inv, NEW j \in Jobs, Reload(j)
    PROVE  Inv'
<1>0. /\ Types /\ j \in loop.todo /\ loop.pc = "reload" /\ loop.job = {j} /\ loop.pc \in Working
      /\ DOMAIN loop = {"pc", "todo", "snapshot", "job", "result"} /\ loop.result \in Outcome
      /\ ~loop.result.executed /\ ~loop.result.failed /\ owner[j] = "recovery"
      /\ UNCHANGED <<rows, entries, scan, fails, since>>
    BY InHand DEF Reload, Working, Ghosts, Inv, Owned
<1>1. ASSUME NEW res, Returns(res), owner' = [owner EXCEPT ![j] = "none"],
             res = loop.result \/ res = [loop.result EXCEPT !.failed = TRUE]
      PROVE  Inv'
    <2>1. /\ DOMAIN loop' = DOMAIN loop /\ loop'.pc = "completed" /\ loop'.todo = loop.todo
          /\ loop'.result = res /\ loop'.snapshot = loop.snapshot /\ loop'.job = loop.job
        BY <1>0, <1>1, Returned
    <2>2. Types' /\ Owned' /\ loop'.pc \in Working
        BY <1>0, <1>1, <2>1 DEF Types, Owned, Working
    <2>3. loop'.result \in Outcome /\ (j \in Listed' => (Counted(j) /\ Fresh(j))')
        BY <1>0, <1>1, <2>1, NotExecuted
    <2> QED
        BY <1>0, <2>1, <2>2, <2>3, WorkStep
<1>2. ASSUME UNCHANGED owner, rows[j].state = "Recovering",
             loop' = [loop EXCEPT !.pc = "execute", !.result.executed = TRUE,
                                  !.result.specHash = recoverySpecHash(rows[j])]
      PROVE  Inv'
    <2>1. /\ DOMAIN loop' = DOMAIN loop /\ loop'.pc = "execute" /\ loop'.todo = loop.todo
          /\ loop'.result = [loop.result EXCEPT !.executed = TRUE, !.specHash = recoverySpecHash(rows[j])]
          /\ loop'.snapshot = loop.snapshot /\ loop'.job = loop.job
        BY <1>0, <1>2 DEF Outcome
    <2>2. Types' /\ loop'.pc \in Working /\ j \in Listed'
        BY <1>0, <1>2, <2>1 DEF Types, Working, Listed
    <2>3. loop'.result.executed /\ ~loop'.result.failed
        BY <1>0, <2>1 DEF Outcome
    <2>4. Owned'
        BY <1>0, <1>2, <2>1, <2>2, <2>3 DEF Owned
    <2>5. loop'.result \in Outcome /\ (j \in Listed' => (Counted(j) /\ Fresh(j))')
        BY <1>0, <2>1, NotExecuted, ZenonT(30)
    <2> QED
        BY <1>0, <2>1, <2>2, <2>4, <2>5, WorkStep
<1> QED
    BY <1>1, <1>2 DEF Reload

\* A generation is 0 or 1 whatever an execution adds to it.
LEMMA Generations == \A g, n \in {0, 1} : Later(g, n) \in {0, 1}
    BY DEF Later

\* An execution ends: its job has moved on, or has failed once more.
LEMMA ExecuteKeepsInv ==
    ASSUME Inv, NEW j \in Jobs, Execute(j)
    PROVE  Inv'
<1>0. /\ Types /\ j \in loop.todo /\ loop.pc = "execute" /\ loop.job = {j} /\ loop.pc \in Working
      /\ DOMAIN loop = {"pc", "todo", "snapshot", "job", "result"} /\ loop.result \in Outcome
      /\ loop.result.executed /\ ~loop.result.failed /\ j \in Listed /\ Counted(j) /\ Fresh(j) /\ loop.pc \in InPass
      /\ rows[j] \in Row /\ entries[j] \in Entry /\ fails[j] \in 0..MaxFailures
      /\ UNCHANGED <<entries, scan>> /\ owner' = [owner EXCEPT ![j] = "none"]
    BY InHand DEF Execute, Working, Inv, Owned
<1>1. /\ loop.result.generation = rows[j].generation /\ loop.result.specHash = recoverySpecHash(rows[j])
      /\ ~loop.result.terminal /\ ~loop.result.repairFailed /\ (Matched(j) \/ Unseen(j))
    BY <1>0 DEF Fresh, Counted, Ran
<1>2. PICK n \in 0..1 :
        LET reached == [loop.result EXCEPT !.generation = Later(@, n)]
        IN \/ /\ rows' = [rows EXCEPT ![j] = Gone] /\ Forgotten(j)
              /\ \/ Returns([reached EXCEPT !.terminal = TRUE])
                 \/ Returns([reached EXCEPT !.failed = TRUE, !.repairFailed = TRUE])
           \/ /\ Returns([reached EXCEPT !.failed = TRUE])
              /\ rows' = [rows EXCEPT ![j].generation = Later(@, n),
                                      ![j].spec = IF n > 0 THEN "canonical" ELSE @]
              /\ fails' = [fails EXCEPT ![j] = IF @ < MaxFailures THEN @ + 1 ELSE @]
              /\ since' = [since EXCEPT ![j] = 0]
    BY ZenonT(30) DEF Execute
<1>3. n \in {0, 1} /\ Later(rows[j].generation, n) \in {0, 1}
    BY <1>0, Generations DEF Row
<1> DEFINE reached == [loop.result EXCEPT !.generation = Later(@, n)]
<1>4. /\ reached \in Outcome /\ reached.generation = Later(rows[j].generation, n)
      /\ reached.specHash = recoverySpecHash(rows[j]) /\ reached.executed /\ ~reached.failed
      /\ ~reached.terminal /\ ~reached.repairFailed
    BY <1>0, <1>1, <1>3 DEF Outcome
<1>5. CASE /\ rows' = [rows EXCEPT ![j] = Gone] /\ Forgotten(j)
           /\ \/ Returns([reached EXCEPT !.terminal = TRUE])
              \/ Returns([reached EXCEPT !.failed = TRUE, !.repairFailed = TRUE])
    <2>1. PICK res \in {[reached EXCEPT !.terminal = TRUE], [reached EXCEPT !.failed = TRUE, !.repairFailed = TRUE]} :
            Returns(res)
        BY <1>5
    <2>2. res \in Outcome
        BY <1>4, <2>1, ZenonT(30) DEF Outcome
    <2>3. /\ DOMAIN loop' = DOMAIN loop /\ loop'.pc = "completed" /\ loop'.todo = loop.todo
          /\ loop'.result = res /\ loop'.snapshot = loop.snapshot /\ loop'.job = loop.job
        BY <1>0, <2>1, Returned
    <2>4. Gone \in Row /\ Gone.state # "Recovering"
        BY DEF Gone, Row
    <2>5. Types' /\ Owned' /\ loop'.pc \in Working
        BY <1>0, <1>5, <2>3, <2>4, ScheduleAssumption DEF Types, Owned, Working, Forgotten
    <2>6. j \notin Listed' /\ \A k \in Jobs \ {j} : rows'[k] = rows[k] /\ fails'[k] = fails[k] /\ since'[k] = since[k]
        BY <1>0, <1>5, <2>4 DEF Types, Listed, Forgotten
    <2> QED
        BY <1>0, <2>2, <2>3, <2>5, <2>6, WorkStep
<1>6. CASE /\ Returns([reached EXCEPT !.failed = TRUE])
           /\ rows' = [rows EXCEPT ![j].generation = Later(@, n), ![j].spec = IF n > 0 THEN "canonical" ELSE @]
           /\ fails' = [fails EXCEPT ![j] = IF @ < MaxFailures THEN @ + 1 ELSE @]
           /\ since' = [since EXCEPT ![j] = 0]
    <2> DEFINE res == [reached EXCEPT !.failed = TRUE]
    <2>1. /\ res \in Outcome /\ res.generation = Later(rows[j].generation, n)
          /\ res.specHash = recoverySpecHash(rows[j]) /\ res.executed /\ res.failed
          /\ ~res.terminal /\ ~res.repairFailed
        BY <1>4, ZenonT(30) DEF Outcome
    <2> HIDE DEF reached
    <2>2. /\ DOMAIN loop' = DOMAIN loop /\ loop'.pc = "completed" /\ loop'.todo = loop.todo
          /\ loop'.result = res /\ loop'.snapshot = loop.snapshot /\ loop'.job = loop.job
        BY <1>0, <1>6, Returned
    <2> HIDE DEF res
    <2>3. /\ rows'[j] = [rows[j] EXCEPT !.generation = Later(@, n), !.spec = IF n > 0 THEN "canonical" ELSE @]
          /\ \A k \in Jobs \ {j} : rows'[k] = rows[k]
          /\ rows' = [rows EXCEPT ![j] = rows'[j]]
        BY <1>0, <1>6, ZenonT(30) DEF Types, Row
    <2>4. /\ rows'[j] \in Row /\ rows'[j].generation = Later(rows[j].generation, n)
          /\ recoverySpecHash(rows'[j]) = recoverySpecHash(rows[j])
        BY <1>0, <1>3, <2>3, ZenonT(30) DEF Row, recoverySpecHash
    <2>5. fails'[j] = incrementRecoveryFailures(fails[j]) /\ since'[j] = 0 /\ fails'[j] \in 0..MaxFailures
        <3>1. fails'[j] = incrementRecoveryFailures(fails[j]) /\ since'[j] = 0
            BY <1>0, <1>6 DEF Types, incrementRecoveryFailures
        <3> QED
            BY <1>0, <3>1, Increments
    <2>6. Types'
        <3>1. rows' \in [Jobs -> Row]
            BY <1>0, <2>3, <2>4 DEF Types
        <3>2. fails' \in [Jobs -> 0..MaxFailures] /\ since' \in [Jobs -> Nat]
            BY <1>0, <1>6, <2>5 DEF Types
        <3> QED
            BY <1>0, <3>1, <3>2, ZenonT(30) DEF Types
    <2>7. Owned' /\ loop'.pc \in Working
        BY <2>2 DEF Owned, Working
    <2>8. \A k \in Jobs \ {j} : fails'[k] = fails[k] /\ since'[k] = since[k]
        BY <1>0, <1>6 DEF Types
    <2>9. (Counted(j) /\ Fresh(j))'
        <3>1. Ran(j)'
            BY <1>0, <2>1, <2>2 DEF Ran
        <3>2. fails'[j] = incrementRecoveryFailures(
                            IF entries[j].specHash = res.specHash THEN entries[j].failures ELSE 0)
            <4>1. CASE Matched(j)
                BY <2>1, <2>5, <4>1 DEF Matched, SameTask
            <4>2. CASE Unseen(j)
                <5>1. entries[j].specHash # res.specHash /\ fails[j] = 0
                    BY <1>0, <2>1, <4>2 DEF Unseen, NoEntry, recoverySpecHash, Row
                <5> QED
                    BY <2>5, <5>1
            <4> QED
                BY <1>1, <4>1, <4>2
        <3>3. Counted(j)'
            BY <1>0, <2>1, <2>2, <3>1, <3>2 DEF Counted
        <3>4. Fresh(j)'
            BY <1>0, <2>1, <2>2, <2>4, <3>1 DEF Fresh
        <3> QED
            BY <3>3, <3>4
    <2> QED
        BY <1>0, <2>1, <2>2, <2>3, <2>6, <2>7, <2>8, <2>9, WorkStep
<1> QED
    BY <1>2, <1>5, <1>6

\* The result of a pass over job j becomes its entry.
LEMMA CompletedKeepsInv ==
    ASSUME Inv, NEW j \in Jobs, Completed(j)
    PROVE  Inv'
<1> DEFINE result == loop.result
           other  == rows[j].generation # result.generation \/ recoverySpecHash(rows[j]) # result.specHash
<1>0. /\ Types /\ j \in loop.todo /\ loop.pc = "completed" /\ loop.job = {j} /\ loop.job \in {{}, {j}}
      /\ loop.pc \in InPass /\ loop.result \in Outcome /\ rows[j] \in Row /\ entries[j] \in Entry
      /\ loop.snapshot[j] \in Read /\ fails[j] \in 0..MaxFailures /\ since[j] \in Nat
      /\ j \in Listed => Counted(j) /\ Fresh(j)
      /\ UNCHANGED <<rows, owner, scan, fails, since>>
    BY InHand DEF Completed, Working, Ghosts
<1>1. ASSUME j \in Listed
      PROVE  /\ ~other /\ ~result.terminal /\ ~result.repairFailed
             /\ result.generation = rows[j].generation /\ result.specHash = recoverySpecHash(rows[j])
    BY <1>0, <1>1 DEF Fresh
<1>2. ASSUME Dropped(j, NoEntry), j \notin Listed
      PROVE  Inv'
    BY <1>0, <1>2, Entries, Leaving
<1>3. ASSUME NEW e \in NextEntries(j, entries[j], result), Dropped(j, e)
      PROVE  Inv'
    <2>1. CASE result.executed /\ result.failed
        <3> DEFINE n == incrementRecoveryFailures(
                          IF entries[j].specHash = result.specHash THEN entries[j].failures ELSE 0)
        <3>1. n \in 1..MaxFailures /\ n \in 0..MaxFailures
            <4>1. entries[j].failures \in 0..MaxFailures /\ 0 \in 0..MaxFailures
                BY <1>0, ScheduleAssumption DEF Entry
            <4>2. (IF entries[j].specHash = result.specHash THEN entries[j].failures ELSE 0) \in 0..MaxFailures
                BY <4>1
            <4>3. n \in 1..MaxFailures
                BY <4>2, Increments
            <4> QED
                BY <4>3, ScheduleAssumption
        <3>2. e \in {[generation |-> result.generation, specHash |-> result.specHash, failures |-> n, nextRetry |-> w] :
                       w \in recoveryBackoff(n)}
            BY <1>3, <2>1 DEF NextEntries, failure
        <3> HIDE DEF n
        <3>3. PICK w \in recoveryBackoff(n) :
                e = [generation |-> result.generation, specHash |-> result.specHash, failures |-> n, nextRetry |-> w]
            BY <3>2
        <3>4. w \in Nat /\ w >= Need(n) /\ Need(n) \in Nat
            BY <3>1, Waits
        <3>5. e \in Entry
            BY <1>0, <3>1, <3>3, <3>4 DEF Entry, Outcome
        <3>6. ASSUME j \in Listed
              PROVE  Fits(j, e)
            <4>1. Ran(j) /\ fails[j] = n
                BY <1>0, <2>1, <3>6 DEF Ran, Counted, n
            <4>2. SameTask(e, rows[j]) /\ e.failures = fails[j] /\ e.nextRetry = w
                BY <1>1, <3>3, <3>6, <4>1 DEF SameTask
            <4> QED
                BY <1>0, <3>4, <4>1, <4>2 DEF Fits
        <3> QED
            BY <1>0, <1>3, <3>5, <3>6, Leaving
    <2>2. CASE ~(result.executed /\ result.failed)
        <3> DEFINE r == [loop.snapshot[j] EXCEPT !.generation = result.generation]
        <3>1. PICK w \in recoveryBackoff(1) : e = recheck(entries[j], r, w)
            BY <1>3, <2>2 DEF NextEntries
        <3>2. /\ r \in Read /\ r.generation = result.generation /\ r.spec = loop.snapshot[j].spec
            BY <1>0 DEF Read, Outcome
        <3> HIDE DEF r
        <3>3. ASSUME j \in Listed
              PROVE  /\ Task(r) = Task(rows[j])
                     /\ Matched(j) \/ Unseen(j)
            <4>1. ~Ran(j)
                BY <1>0, <2>2, <3>3 DEF Ran, Counted
            <4>2. Task(loop.snapshot[j]) = Task(rows[j])
                BY <1>0, <3>3, <4>1 DEF Fresh
            <4>3. recoverySpecHash(r) = recoverySpecHash(loop.snapshot[j])
                BY <3>2 DEF recoverySpecHash
            <4> QED
                BY <1>0, <1>1, <3>2, <3>3, <4>1, <4>2, <4>3 DEF Task, Counted
        <3>4. j \in Listed => entries[j].nextRetry = 0
            BY <1>0 DEF Fresh
        <3> QED
            BY <1>0, <1>3, <3>1, <3>2, <3>3, <3>4, RecheckLeaves
    <2> QED
        BY <2>1, <2>2
<1>4. CASE (result.terminal \/ result.repairFailed) /\ Dropped(j, NoEntry)
    BY <1>1, <1>2, <1>4
<1>5. CASE rows[j].state # "Recovering" /\ Dropped(j, NoEntry)
    BY <1>2, <1>5 DEF Listed
<1>6. CASE rows[j].state = "Recovering" /\ other
    BY <1>1, <1>6 DEF Listed
<1>7. CASE \E e \in NextEntries(j, entries[j], result) : Dropped(j, e)
    BY <1>3, <1>7
<1> QED
    BY <1>4, <1>5, <1>6, <1>7 DEF Completed

(***************************************************************************)
(* The scan, and what goes on beside the loop.                              *)
(***************************************************************************)
\* A scan forgets no failure of a job that is still recovering.
LEMMA ListKeepsInv ==
    ASSUME Inv, List
    PROVE  Inv'
<1>0. /\ Types /\ LoopTypes /\ loop.pc = "list" /\ UNCHANGED <<rows, owner, fails, since>>
      /\ \A j \in Listed : Matched(j) \/ Unseen(j)
      /\ \A j \in Listed : ~Ran(j)
    BY DEF Inv, List, Counted, Ran
<1>1. CASE /\ scan' = NoScan /\ entries' = reconcile
           /\ loop' = [Idle("pass") EXCEPT !.todo = Listed,
                          !.snapshot = [j \in Jobs |-> IF j \in Listed THEN rows[j] ELSE NoRow]]
    <2>1. /\ DOMAIN loop' = {"pc", "todo", "snapshot", "job", "result"} /\ loop'.pc = "pass" /\ loop'.todo = Listed
          /\ loop'.snapshot = [j \in Jobs |-> IF j \in Listed THEN rows[j] ELSE NoRow]
          /\ loop'.job = {} /\ loop'.result = NoResult
        BY <1>1, IdleLoop DEF Idle
    <2>2. Types' /\ Listed' = Listed
        <3>1. entries' \in [Jobs -> Entry]
            BY <1>0, <1>1, Entries DEF reconcile, Types
        <3>2. scan' \in [failures : 0..MaxFailures, nextRetry : Nat]
            BY <1>1, ScheduleAssumption DEF NoScan
        <3> QED
            BY <1>0, <1>1, <3>1, <3>2 DEF Types, Listed
    <2>3. LoopTypes'
        <3>1. \A j \in Jobs : rows[j] \in Read /\ NoRow \in Read
            BY <1>0 DEF Types, Row, Read, NoRow
        <3>2. loop'.snapshot \in [Jobs -> Read]
            BY <2>1, <3>1
        <3> QED
            BY <2>1, <3>2, IdleLoop DEF LoopTypes, InPass, Working, Listed
    <2>4. Owned'
        BY <2>1 DEF Owned
    <2>5. ASSUME NEW j \in Listed
          PROVE  (Counted(j) /\ Fresh(j))'
        <3>1. j \in Jobs /\ rows[j] \in Row
            BY <1>0 DEF Listed, Types
        <3>2. entries'[j] = IF SameTask(entries[j], rows[j]) THEN entries[j] ELSE NoEntry
            BY <1>1, <3>1 DEF reconcile
        <3>3. (Matched(j) \/ Unseen(j))'
            <4>1. CASE Matched(j)
                BY <1>0, <3>2, <4>1 DEF Matched
            <4>2. CASE Unseen(j)
                BY <1>0, <3>2, <4>2 DEF Unseen
            <4> QED
                BY <1>0, <4>1, <4>2
        <3>4. ~Ran(j)' /\ j \in loop'.todo /\ loop'.job # {j} /\ loop'.snapshot[j] = rows'[j]
            BY <1>0, <2>1, <3>1 DEF Ran
        <3> QED
            BY <2>1, <3>3, <3>4 DEF Counted, Fresh
    <2> QED
        BY <2>2, <2>3, <2>4, <2>5 DEF Inv
<1>2. CASE /\ loop' = Idle("wait") /\ UNCHANGED entries
           /\ LET n == incrementRecoveryFailures(scan.failures)
              IN \E w \in recoveryBackoff(n) : scan' = [failures |-> n, nextRetry |-> w]
    <2> DEFINE n == incrementRecoveryFailures(scan.failures)
    <2>1. n \in 1..MaxFailures /\ n \in 0..MaxFailures /\ n # 0
        <3>1. n \in 1..MaxFailures
            BY <1>0, Increments DEF Types
        <3> QED
            BY <3>1, ScheduleAssumption
    <2>2. PICK w \in recoveryBackoff(n) : scan' = [failures |-> n, nextRetry |-> w]
        BY <1>2
    <2> HIDE DEF n
    <2>3. w \in Nat
        BY <2>1, Waits
    <2>4. scan' \in [failures : 0..MaxFailures, nextRetry : Nat] /\ scan'.failures # 0 /\ scan' # NoScan
        BY <2>1, <2>2, <2>3 DEF NoScan
    <2> QED
        BY <1>0, <1>2, <2>4, Resting
<1> QED
    BY <1>1, <1>2 DEF List

\* The loop goes round without touching a job.
LEMMA RoundKeepsInv ==
    ASSUME Inv, Begin \/ Top \/ PassEnds \/ Wake
    PROVE  Inv'
<1>0. /\ UNCHANGED <<rows, owner, entries, fails, since, scan>>
      /\ scan \in [failures : 0..MaxFailures, nextRetry : Nat] /\ (scan.failures = 0 => scan = NoScan)
      /\ loop.pc \in {"begin", "top", "pass", "wait"}
    BY DEF Begin, Top, PassEnds, Wake, Ghosts, Inv, Types
<1>1. \A j \in Listed : ~Ran(j)
    BY <1>0 DEF Ran
<1>2. CASE Begin \/ Wake
    <2>1. loop' = Idle("top")
        BY <1>2 DEF Begin, Wake
    <2> QED
        BY <1>0, <1>1, <2>1, Resting
<1>3. CASE Top
    <2>1. CASE scan.nextRetry = 0
        BY <1>0, <1>1, <1>3, <2>1, Resting DEF Top
    <2>2. CASE scan.nextRetry # 0
        <3>1. loop' = Idle("wait") /\ scan' # NoScan
            BY <1>0, <1>3, <2>2 DEF Top, NoScan
        <3> QED
            BY <1>0, <1>1, <3>1, Resting
    <2> QED
        BY <2>1, <2>2
<1>4. CASE PassEnds
    <2>1. loop' = Idle("wait") /\ loop.pc \in InPass /\ loop.todo = {}
        BY <1>4 DEF PassEnds, InPass
    <2>2. \A j \in Listed : Matched(j)
        BY <2>1 DEF Inv, Counted
    <2> QED
        BY <1>0, <1>1, <2>1, <2>2, Resting
<1> QED
    BY <1>2, <1>3, <1>4

\* Time goes by: what is left of a wait passes over to what has been waited.
LEMMA TickKeepsInv ==
    ASSUME Inv, Tick
    PROVE  Inv'
<1>0. /\ Types /\ LoopTypes /\ Owned /\ UNCHANGED <<rows, owner, loop, fails>>
      /\ entries' = [j \in Jobs |-> Elapse(entries[j])] /\ scan' = Elapse(scan)
      /\ since' = [j \in Jobs |-> IF fails[j] = 0 THEN 0 ELSE Min({since[j] + 1, MaxDelay \div 2})]
    BY DEF Inv, Tick
<1>1. ASSUME NEW x \in Nat
      PROVE  Max({0, x - 1}) = (IF x = 0 THEN 0 ELSE x - 1) /\ Max({0, x - 1}) \in Nat
    <2>1. x - 1 \in Int /\ 0 \in Int
        OBVIOUS
    <2>2. Max({0, x - 1}) = IF 0 <= x - 1 THEN x - 1 ELSE 0
        BY <2>1, TickBounds, ZenonT(30)
    <2> QED
        BY <2>2
<1>2. ASSUME NEW e \in Entry
      PROVE  /\ Elapse(e) \in Entry /\ Elapse(e).generation = e.generation /\ Elapse(e).specHash = e.specHash
             /\ Elapse(e).failures = e.failures /\ Elapse(e).nextRetry = IF e.nextRetry = 0 THEN 0 ELSE e.nextRetry - 1
    <2>1. e.nextRetry \in Nat
        BY <1>2 DEF Entry
    <2>2. Max({0, e.nextRetry - 1}) = (IF e.nextRetry = 0 THEN 0 ELSE e.nextRetry - 1) /\ Max({0, e.nextRetry - 1}) \in Nat
        BY <1>1, <2>1
    <2>3. Elapse(e) = [e EXCEPT !.nextRetry = Max({0, e.nextRetry - 1})]
        BY DEF Elapse
    <2> QED
        BY <1>2, <2>2, <2>3 DEF Entry
<1>3. Elapse(NoEntry) = NoEntry
    <2>1. Max({0, 0 - 1}) = 0
        BY <1>1
    <2> QED
        BY <2>1 DEF Elapse, NoEntry
<1>4. /\ scan' \in [failures : 0..MaxFailures, nextRetry : Nat] /\ scan'.failures = scan.failures
      /\ (scan'.failures = 0 => scan' = NoScan) /\ (scan' = NoScan => scan = NoScan)
    <2>1. scan \in [failures : 0..MaxFailures, nextRetry : Nat] /\ scan.nextRetry \in Nat
        BY <1>0 DEF Types
    <2>2. Max({0, scan.nextRetry - 1}) \in Nat /\ Max({0, 0 - 1}) = 0
        BY <1>1, <2>1
    <2>3. scan' = [scan EXCEPT !.nextRetry = Max({0, scan.nextRetry - 1})]
        BY <1>0 DEF Elapse
    <2>4. scan' \in [failures : 0..MaxFailures, nextRetry : Nat] /\ scan'.failures = scan.failures
        BY <2>1, <2>2, <2>3
    <2>5. ASSUME scan.failures = 0
          PROVE  scan = NoScan /\ scan' = NoScan
        <3>1. scan = NoScan
            BY <1>0, <2>5 DEF Types
        <3>2. scan.nextRetry = 0 /\ [NoScan EXCEPT !.nextRetry = 0] = NoScan
            BY <3>1 DEF NoScan
        <3>3. scan' = [NoScan EXCEPT !.nextRetry = 0]
            BY <2>2, <2>3, <3>1, <3>2
        <3> QED
            BY <3>1, <3>2, <3>3
    <2>6. NoScan.failures = 0
        BY DEF NoScan
    <2> QED
        BY <2>4, <2>5, <2>6
<1>5. ASSUME NEW j \in Jobs
      PROVE  since'[j] = IF fails[j] = 0 THEN 0
                         ELSE IF since[j] + 1 <= MaxDelay \div 2 THEN since[j] + 1 ELSE MaxDelay \div 2
    <2>1. since[j] + 1 \in Int /\ MaxDelay \div 2 \in Int
        BY <1>0, ScheduleAssumption DEF Types
    <2> QED
        BY <1>0, <2>1, TickBounds
<1>6. Types' /\ Listed' = Listed
    <2>1. entries' \in [Jobs -> Entry]
        BY <1>0, <1>2 DEF Types
    <2>2. MaxDelay \div 2 \in Nat
        BY ScheduleAssumption
    <2>3. \A j \in Jobs : since'[j] \in Nat
        BY <1>0, <1>5, <2>2 DEF Types
    <2>4. since' \in [Jobs -> Nat]
        BY <1>0, <2>3
    <2> QED
        BY <1>0, <1>4, <2>1, <2>4 DEF Types, Listed
<1>7. LoopTypes' /\ Owned'
    BY <1>0, <1>6 DEF LoopTypes, Owned
<1>8. ASSUME NEW j \in Listed
      PROVE  (Counted(j) /\ Fresh(j))'
    <2>0. /\ j \in Jobs /\ entries[j] \in Entry /\ entries'[j] = Elapse(entries[j])
          /\ fails[j] \in 0..MaxFailures /\ since[j] \in Nat /\ entries[j].nextRetry \in Nat
        BY <1>0 DEF Listed, Types, Entry
    <2>1. /\ entries'[j].generation = entries[j].generation /\ entries'[j].specHash = entries[j].specHash
          /\ entries'[j].failures = entries[j].failures
          /\ entries'[j].nextRetry = IF entries[j].nextRetry = 0 THEN 0 ELSE entries[j].nextRetry - 1
        BY <1>2, <2>0
    <2>2. Unseen(j) => Unseen(j)'
        BY <1>0, <1>3, <2>0 DEF Unseen
    <2>3. ASSUME Matched(j)
          PROVE  Matched(j)'
        <3> DEFINE need == Need(fails[j])
                   top == MaxDelay \div 2
                   left == entries[j].nextRetry
        <3>1. need \in Nat /\ need <= top /\ top \in Nat /\ (fails[j] = 0 => need = 0)
            BY <2>0, Waits DEF Need
        <3>2. left + since[j] >= need
            BY <2>3 DEF Matched
        <3>3. since'[j] = IF fails[j] = 0 THEN 0 ELSE IF since[j] + 1 <= top THEN since[j] + 1 ELSE top
            BY <1>5, <2>0
        <3>4. entries'[j].nextRetry = IF left = 0 THEN 0 ELSE left - 1
            BY <2>1
        <3>5. left \in Nat
            BY <2>0
        <3> HIDE DEF need, top, left
        <3>6. entries'[j].nextRetry + since'[j] >= need
            BY <2>0, <3>1, <3>2, <3>3, <3>4, <3>5
        <3> QED
            BY <1>0, <2>1, <2>3, <3>6 DEF Matched, SameTask, need
    <2>4. Counted(j) /\ Fresh(j)
        BY DEF Inv
    <2>5. Ran(j)' <=> Ran(j)
        BY <1>0 DEF Ran
    <2>6. Counted(j)'
        BY <1>0, <1>4, <2>1, <2>2, <2>3, <2>4, <2>5, ZenonT(30) DEF Counted
    <2>7. Fresh(j)'
        BY <1>0, <2>1, <2>4, <2>5 DEF Fresh
    <2> QED
        BY <2>6, <2>7
<1> QED
    BY <1>6, <1>7, <1>8 DEF Inv

\* A submission moves a job on only while recovery does not own it.
LEMMA SubmissionKeepsInv ==
    ASSUME Inv, NEW j \in Jobs, Submitted(j) \/ SubmissionEnds(j)
    PROVE  Inv'
<1>0. /\ Types /\ LoopTypes /\ Owned /\ UNCHANGED <<entries, scan, loop>>
      /\ owner[j] \in {"none", "submission"} /\ owner'[j] \in {"none", "submission"}
      /\ owner' \in [Jobs -> {"none", "recovery", "submission"}]
      /\ \A k \in Jobs \ {j} : owner'[k] = owner[k]
    BY DEF Inv, Submitted, SubmissionEnds, Types
<1>1. \/ UNCHANGED <<rows, fails, since>>
      \/ rows' = [rows EXCEPT ![j] = Gone] /\ Forgotten(j)
    BY DEF Submitted, SubmissionEnds, Ghosts
<1>2. Gone \in Row /\ Gone.state # "Recovering"
    BY DEF Gone, Row
<1>3. Types'
    BY <1>0, <1>1, <1>2, ScheduleAssumption DEF Types, Forgotten
<1>4. /\ Listed' \subseteq Listed /\ Listed \ {j} \subseteq Listed'
      /\ \A k \in Listed' : rows'[k] = rows[k] /\ fails'[k] = fails[k] /\ since'[k] = since[k]
    BY <1>0, <1>1, <1>2 DEF Types, Listed, Forgotten
<1>5. LoopTypes'
    BY <1>0 DEF LoopTypes
<1>6. Owned'
    <2>1. loop.pc \in {"reload", "execute"} => loop.job \subseteq Jobs \ {j}
        BY <1>0 DEF Owned, LoopTypes, Working
    <2>2. loop.pc = "execute" => loop.job \subseteq Listed'
        BY <1>0, <1>4, <2>1 DEF Owned
    <2> QED
        BY <1>0, <2>1, <2>2 DEF Owned
<1>7. ASSUME NEW k \in Listed'
      PROVE  (Counted(k) /\ Fresh(k))'
    <2>1. k \in Listed /\ Counted(k) /\ Fresh(k)
        BY <1>4 DEF Inv
    <2>2. rows'[k] = rows[k] /\ fails'[k] = fails[k] /\ since'[k] = since[k] /\ (Ran(k)' <=> Ran(k))
        BY <1>0, <1>4 DEF Ran
    <2>3. (Matched(k)' <=> Matched(k)) /\ (Unseen(k)' <=> Unseen(k))
        BY <1>0, <2>2 DEF Matched, Unseen
    <2>4. Counted(k)'
        BY <1>0, <2>1, <2>2, <2>3, ZenonT(30) DEF Counted
    <2>5. Fresh(k)'
        BY <1>0, <2>1, <2>2, ZenonT(30) DEF Fresh
    <2> QED
        BY <2>4, <2>5
<1> QED
    BY <1>3, <1>5, <1>6, <1>7 DEF Inv

\* A step that leaves the schedule, the rows and the loop alone.
LEMMA IdleStepKeepsInv ==
    ASSUME Inv, UNCHANGED <<rows, owner, entries, scan, loop, fails, since>>
    PROVE  Inv'
<1>1. Types' /\ LoopTypes' /\ Listed' = Listed /\ Owned'
    BY DEF Inv, Types, LoopTypes, Listed, Owned
<1>2. ASSUME NEW j \in Listed
      PROVE  (Counted(j) /\ Fresh(j))'
    <2>1. Counted(j) /\ Fresh(j)
        BY DEF Inv
    <2>2. (Matched(j)' <=> Matched(j)) /\ (Unseen(j)' <=> Unseen(j)) /\ (Ran(j)' <=> Ran(j))
        BY DEF Matched, Unseen, Ran
    <2> QED
        BY <2>1, <2>2 DEF Counted, Fresh
<1> QED
    BY <1>1, <1>2 DEF Inv

\* The invariant holds before the first scan.
LEMMA InitialInv == Init => Inv
<1> SUFFICES ASSUME Init
             PROVE  Inv
    OBVIOUS
<1>1. Types
    <2>1. rows \in [Jobs -> Row]
        BY DEF Init, Row
    <2>2. NoEntry \in Entry /\ 0 \in 0..MaxFailures /\ NoScan \in [failures : 0..MaxFailures, nextRetry : Nat]
        BY Entries, ScheduleAssumption DEF NoScan
    <2> QED
        BY <2>1, <2>2 DEF Init, Types
<1>2. loop.pc = "begin" /\ loop.job = {} /\ LoopTypes
    BY IdleLoop DEF Init, LoopTypes, InPass, Working
<1>3. Owned
    BY <1>2 DEF Owned
<1>4. ASSUME NEW j \in Listed
      PROVE  Counted(j) /\ Fresh(j)
    <2>1. Unseen(j) /\ ~Ran(j) /\ loop.pc \notin InPass
        BY <1>2 DEF Init, Unseen, Ran, Listed, InPass, Working
    <2> QED
        BY <1>2, <2>1 DEF Counted, Fresh
<1> QED
    BY <1>1, <1>2, <1>3, <1>4 DEF Inv

\* Every step keeps the invariant.
LEMMA StepKeepsInv == Inv /\ [Next]_vars => Inv'
<1> SUFFICES ASSUME Inv, [Next]_vars
             PROVE  Inv'
    OBVIOUS
<1>1. CASE UNCHANGED vars
    BY <1>1, IdleStepKeepsInv DEF vars
<1>2. CASE WorkerUp \/ Notify
    <2>1. UNCHANGED <<rows, owner, entries, scan, loop, fails, since>>
        BY <1>2 DEF WorkerUp, Notify, Ghosts
    <2> QED
        BY <2>1, IdleStepKeepsInv
<1>3. CASE Tick
    BY <1>3, TickKeepsInv
<1>4. CASE Loop
    <2>1. CASE Begin \/ Top \/ PassEnds \/ Wake
        BY <2>1, RoundKeepsInv
    <2>2. CASE List
        BY <2>2, ListKeepsInv
    <2>3. CASE \E j \in Jobs : Load(j) \/ Claim(j) \/ Reload(j) \/ Execute(j) \/ Completed(j)
        BY <2>3, LoadKeepsInv, ClaimKeepsInv, ReloadKeepsInv, ExecuteKeepsInv, CompletedKeepsInv
    <2> QED
        BY <1>4, <2>1, <2>2, <2>3 DEF Loop
<1>5. CASE \E j \in Jobs : Submitted(j) \/ SubmissionEnds(j)
    BY <1>5, SubmissionKeepsInv
<1> QED
    BY <1>1, <1>2, <1>3, <1>4, <1>5 DEF Next

\* No execution of recovery starts before the wait that its failures in a row call
\* for, and no scan, contention, read error, normalised row or new generation
\* forgets them: for any number of jobs, and any delays and failures.
THEOREM BackoffHolds == Spec => []BackoffKept
<1>1. ASSUME Inv
      PROVE  BackoffKept
    <2> SUFFICES ASSUME NEW j \in Jobs
                 PROVE  /\ (loop.pc = "execute" /\ loop.job = {j} /\ fails[j] > 0) => since[j] >= Delay[fails[j]] \div 2
                        /\ (loop.pc = "wait" /\ j \in Listed) =>
                              \/ scan # NoScan
                              \/ SameTask(entries[j], rows[j]) /\ entries[j].failures = fails[j]
        BY DEF BackoffKept
    <2>1. ASSUME loop.pc = "execute", loop.job = {j}, fails[j] > 0
          PROVE  since[j] >= Delay[fails[j]] \div 2
        <3>1. j \in Listed /\ Counted(j) /\ Fresh(j) /\ fails[j] \in 0..MaxFailures /\ since[j] \in Nat
            BY <1>1, <2>1 DEF Inv, Owned, Types
        <3>2. Matched(j) /\ entries[j].nextRetry = 0
            BY <2>1, <3>1 DEF Counted, Fresh, Ran, Unseen
        <3>3. Need(fails[j]) = Delay[fails[j]] \div 2 /\ Need(fails[j]) \in Nat
            BY <2>1, <3>1, Waits DEF Need
        <3> QED
            BY <3>1, <3>2, <3>3 DEF Matched
    <2>2. ASSUME loop.pc = "wait", j \in Listed, scan = NoScan
          PROVE  SameTask(entries[j], rows[j]) /\ entries[j].failures = fails[j]
        BY <1>1, <2>2 DEF Inv, Counted, Matched
    <2> QED
        BY <2>1, <2>2
<1> QED
    BY <1>1, InitialInv, StepKeepsInv, PTL DEF Spec
====
