-------------------------- MODULE RecoverySchedule --------------------------
(***************************************************************************)
(* When the coordinator retries its Recovering jobs: the recovery loop and  *)
(* its private schedule (recovery_schedule.go), one pass over the store     *)
(* (recovery.go), and the wake-up by worker registration and heartbeat       *)
(* (workers.go).  What an execution does to a row step by step is the        *)
(* matter of JobExecution: here it ends in one of its results.              *)
(*                                                                         *)
(* Time is relative: a deadline is the time left, and Tick takes one unit    *)
(* off all of them.  Generations are only compared for equality, and no      *)
(* entry or snapshot is more than one execution behind its row, so they are  *)
(* counted modulo 2.  A row that has left Recovering does not come back to it *)
(* in the life of the process, and nothing is read off it but that.          *)
(***************************************************************************)
EXTENDS Integers, FiniteSets, FiniteSetsExt

CONSTANTS Jobs,
          Second,       \* first delay (1s)
          MaxDelay,     \* delay that is never exceeded (30s)
          MaxFailures,  \* ^uint32(0)
          MaxTrouble    \* failing store reads, and submissions of a recovering job

ASSUME ScheduleAssumption ==
    /\ {Second, MaxDelay, MaxFailures} \subseteq Nat \ {0} /\ MaxTrouble \in Nat
    /\ Second <= MaxDelay

VARIABLES rows,      \* the job table
          owner,     \* activeJobs: who has claimed a job
          entries,   \* recoverySchedule.entries; NoEntry is no key
          scan,      \* recoverySchedule.scan
          loop,      \* the recovery loop: place, rest of the snapshot, job, result
          calling,   \* a handler has published a worker and not notified yet
          ready,     \* recoveryReady holds a notification
          fails,     \* executions of the job that failed in a row (saturating)
          since,     \* time since the last of them, up to the shortest wait after MaxFailures
          owed,      \* a worker came up and no scan has begun since
          budget

vars == <<rows, owner, entries, scan, loop, calling, ready, fails, since, owed, budget>>

Trouble == budget > 0 /\ budget' = budget - 1

NoTrouble == UNCHANGED budget

NoEntry == [generation |-> -1, specHash |-> "none", failures |-> 0, nextRetry |-> 0]

NoScan == [failures |-> 0, nextRetry |-> 0]

Later(g, n) == (g + n) % 2

\* Mutant: the specification is hashed as it is stored.
storedSpecHash(r) == r.spec

\* The canonical form is hashed: publication normalises a legacy row.
recoverySpecHash(r) == IF r.spec = "raw" THEN "canonical" ELSE r.spec

incrementRecoveryFailures(n) == IF n < MaxFailures THEN n + 1 ELSE n

\* The delay after n failures: doubled each time, and never beyond MaxDelay.
Delay[n \in 0..MaxFailures] ==
    IF n <= 1 THEN Second
    ELSE IF Delay[n - 1] * 2 >= MaxDelay THEN MaxDelay ELSE Delay[n - 1] * 2

\* recoveryBackoff: any value from half the delay to all of it.
recoveryBackoff(n) == (Delay[n] \div 2)..Delay[n]

(***************************************************************************)
(* The schedule.                                                           *)
(***************************************************************************)
Listed == {j \in Jobs : rows[j].state = "Recovering"}

SameTask(e, r) == e.generation = r.generation /\ e.specHash = recoverySpecHash(r)

reconcile == [j \in Jobs |-> IF j \in Listed /\ SameTask(entries[j], rows[j]) THEN entries[j] ELSE NoEntry]

eligible(j) == entries[j].nextRetry = 0

\* recheck(r) of job j, on the entry e: contention and read errors are no failures.
recheck(e, r, wait) ==
    [generation |-> r.generation, specHash |-> recoverySpecHash(r), nextRetry |-> wait,
     failures |-> IF SameTask(e, r) THEN e.failures ELSE 0]

\* One more failure of the task, for the generation that the execution reached.
failure(e, result) ==
    LET n == incrementRecoveryFailures(IF e.specHash = result.specHash THEN e.failures ELSE 0)
    IN {[generation |-> result.generation, specHash |-> result.specHash, failures |-> n, nextRetry |-> w] :
          w \in recoveryBackoff(n)}

Deadlines == {entries[j].nextRetry : j \in {k \in Jobs : entries[k] # NoEntry}}

\* deadline(): a failed scan goes before every job; without either there is none.
deadline == IF scan # NoScan THEN {scan.nextRetry} ELSE IF Deadlines = {} THEN {} ELSE {Min(Deadlines)}

(***************************************************************************)
(* The loop and its pass.  A step ends where the store is called, ownership  *)
(* changes or the loop waits.                                               *)
(***************************************************************************)
NoRow == [state |-> "none", generation |-> -1, spec |-> "none"]

NoResult == [executed |-> FALSE, terminal |-> FALSE, repairFailed |-> FALSE, failed |-> FALSE,
             generation |-> -1, specHash |-> "none"]

Idle(pc) == [pc |-> pc, todo |-> {}, snapshot |-> [j \in Jobs |-> NoRow], job |-> {}, result |-> NoResult]

Registry == <<calling, ready>>

Ghosts == <<fails, since, owed>>

\* A pending notification is merged with the first scan.
Begin ==
    /\ loop.pc = "begin" /\ ready' = FALSE /\ loop' = Idle("top")
    /\ UNCHANGED <<rows, owner, entries, scan, calling, Ghosts, budget>>

\* Even an overdue job does not bypass the deadline of a failed scan.
Top ==
    /\ loop.pc = "top" /\ loop' = Idle(IF scan.nextRetry = 0 THEN "list" ELSE "wait")
    /\ UNCHANGED <<rows, owner, entries, scan, Registry, Ghosts, budget>>

List ==
    /\ loop.pc = "list" /\ UNCHANGED <<rows, owner, Registry, fails, since>>
    /\ \/ /\ NoTrouble /\ scan' = NoScan /\ entries' = reconcile /\ owed' = FALSE
          /\ loop' = [Idle("pass") EXCEPT !.todo = Listed,
                         !.snapshot = [j \in Jobs |-> IF j \in Listed THEN rows[j] ELSE NoRow]]
       \/ /\ Trouble /\ loop' = Idle("wait") /\ UNCHANGED <<entries, owed>>
          /\ LET n == incrementRecoveryFailures(scan.failures)
             IN \E w \in recoveryBackoff(n) : scan' = [failures |-> n, nextRetry |-> w]

\* The pass goes on without job j, whose entry becomes e.
Dropped(j, e) ==
    /\ loop' = [loop EXCEPT !.pc = "pass", !.todo = @ \ {j}, !.snapshot[j] = NoRow, !.job = {},
                            !.result = NoResult]
    /\ entries' = [entries EXCEPT ![j] = e]

PassEnds ==
    /\ loop.pc = "pass" /\ loop.todo = {} /\ loop' = Idle("wait")
    /\ UNCHANGED <<rows, owner, entries, scan, Registry, Ghosts, budget>>

\* The row is loaded again; a job that waits, or has moved on, is passed over.
Load(j) ==
    /\ loop.pc = "pass" /\ j \in loop.todo /\ UNCHANGED <<rows, owner, scan, Registry, Ghosts>>
    /\ \/ ~eligible(j) /\ NoTrouble /\ Dropped(j, entries[j])
       \/ /\ eligible(j) /\ Trouble
          /\ \E w \in recoveryBackoff(1) : Dropped(j, recheck(entries[j], loop.snapshot[j], w))
       \/ /\ eligible(j) /\ NoTrouble
          /\ IF rows[j].state # "Recovering" THEN Dropped(j, NoEntry)
             ELSE IF rows[j].generation # loop.snapshot[j].generation
             THEN \E w \in recoveryBackoff(1) : Dropped(j, recheck(NoEntry, rows[j], w))
             ELSE /\ loop' = [loop EXCEPT !.pc = "claim", !.job = {j}, !.snapshot[j] = rows[j],
                                !.result = [NoResult EXCEPT !.generation = rows[j].generation,
                                                            !.specHash = recoverySpecHash(rows[j])]]
                  /\ UNCHANGED entries

(***************************************************************************)
(* retryRecoveringJobResult, and schedule.completed.                        *)
(***************************************************************************)
Gone == [state |-> "other", generation |-> 0, spec |-> "canonical"]

\* There is no next execution to wait for.
Forgotten(j) == fails' = [fails EXCEPT ![j] = 0] /\ since' = [since EXCEPT ![j] = 0]

Returns(result) == loop' = [loop EXCEPT !.pc = "completed", !.result = result]

Claim(j) ==
    /\ loop.pc = "claim" /\ loop.job = {j} /\ NoTrouble
    /\ UNCHANGED <<rows, entries, scan, Registry, Ghosts>>
    /\ IF owner[j] # "none" THEN Returns([loop.result EXCEPT !.failed = TRUE]) /\ UNCHANGED owner
       ELSE owner' = [owner EXCEPT ![j] = "recovery"] /\ loop' = [loop EXCEPT !.pc = "reload"]

\* The snapshot is compared under ownership; ownership is given up on the way out.
Reload(j) ==
    /\ loop.pc = "reload" /\ loop.job = {j} /\ UNCHANGED <<rows, entries, scan, Registry, Ghosts>>
    /\ LET stale == rows[j].state # "Recovering" \/ rows[j].generation # loop.snapshot[j].generation
       IN \/ Trouble /\ Returns([loop.result EXCEPT !.failed = TRUE]) /\ owner' = [owner EXCEPT ![j] = "none"]
          \/ /\ stale /\ NoTrouble /\ Returns(loop.result) /\ owner' = [owner EXCEPT ![j] = "none"]
          \/ /\ ~stale /\ NoTrouble /\ UNCHANGED owner
             /\ loop' = [loop EXCEPT !.pc = "execute", !.result.executed = TRUE,
                                     !.result.specHash = recoverySpecHash(rows[j])]

\* The execution published attempts (n = 1) or none, for want of a worker or of the
\* store, and ended.  A failed one is repaired to Recovering, or the repair fails.
Execute(j) ==
    /\ loop.pc = "execute" /\ loop.job = {j} /\ UNCHANGED <<entries, scan, Registry, owed>>
    /\ owner' = [owner EXCEPT ![j] = "none"]
    /\ \E n \in 0..1 :
       LET reached == [loop.result EXCEPT !.generation = Later(@, n)]
       IN \/ /\ n > 0 /\ NoTrouble /\ rows' = [rows EXCEPT ![j] = Gone]
             /\ Returns([reached EXCEPT !.terminal = TRUE]) /\ Forgotten(j)
          \/ /\ n > 0 /\ Trouble /\ rows' = [rows EXCEPT ![j] = Gone]
             /\ Returns([reached EXCEPT !.failed = TRUE, !.repairFailed = TRUE]) /\ Forgotten(j)
          \/ /\ NoTrouble /\ Returns([reached EXCEPT !.failed = TRUE])
             /\ rows' = [rows EXCEPT ![j].generation = Later(@, n),
                                     ![j].spec = IF n > 0 THEN "canonical" ELSE @]
             /\ fails' = [fails EXCEPT ![j] = IF @ < MaxFailures THEN @ + 1 ELSE @]
             /\ since' = [since EXCEPT ![j] = 0]

\* What becomes of the entry e of a job that is still to be retried.
NextEntries(j, e, result) ==
    IF result.executed /\ result.failed THEN failure(e, result)
    ELSE {recheck(e, [loop.snapshot[j] EXCEPT !.generation = result.generation], w) : w \in recoveryBackoff(1)}

Completed(j) ==
    /\ loop.pc = "completed" /\ loop.job = {j} /\ UNCHANGED <<rows, owner, scan, Registry, Ghosts>>
    /\ LET result == loop.result
           other  == rows[j].generation # result.generation \/ recoverySpecHash(rows[j]) # result.specHash
       IN \/ (result.terminal \/ result.repairFailed) /\ NoTrouble /\ Dropped(j, NoEntry)
          \/ /\ ~(result.terminal \/ result.repairFailed) /\ Trouble
             /\ \E e \in NextEntries(j, entries[j], result) : Dropped(j, e)
          \/ /\ ~(result.terminal \/ result.repairFailed) /\ NoTrouble
             /\ IF rows[j].state # "Recovering" THEN Dropped(j, NoEntry)
                ELSE IF other THEN \E w \in recoveryBackoff(1) : Dropped(j, recheck(NoEntry, rows[j], w))
                ELSE \E e \in NextEntries(j, entries[j], result) : Dropped(j, e)

\* The loop waits for a notification or for its timer.
Wake ==
    /\ loop.pc = "wait" /\ loop' = Idle("top")
    /\ \/ ready /\ ready' = FALSE
       \/ 0 \in deadline /\ UNCHANGED ready
    /\ UNCHANGED <<rows, owner, entries, scan, calling, Ghosts, budget>>

\* One unit of time goes by; it changes nothing when every deadline is past.
Elapse(e) == [e EXCEPT !.nextRetry = Max({0, @ - 1})]

Tick ==
    /\ entries' = [j \in Jobs |-> Elapse(entries[j])] /\ scan' = Elapse(scan)
    /\ since' = [j \in Jobs |-> IF fails[j] = 0 THEN 0 ELSE Min({since[j] + 1, MaxDelay \div 2})]
    /\ UNCHANGED <<rows, owner, loop, Registry, fails, owed, budget>>

(***************************************************************************)
(* A client's submission of a recovering job: it claims the job, publishes  *)
(* its own attempt unless it finds no worker, and ends.                     *)
(***************************************************************************)
Submitted(j) ==
    /\ UNCHANGED <<entries, scan, loop, Registry, owed>>
    /\ \/ /\ owner[j] = "none" /\ j \in Listed /\ Trouble
          /\ owner' = [owner EXCEPT ![j] = "submission"] /\ UNCHANGED <<rows, fails, since>>
       \/ /\ owner[j] = "submission" /\ j \in Listed /\ NoTrouble
          /\ rows' = [rows EXCEPT ![j] = Gone] /\ Forgotten(j) /\ UNCHANGED owner

SubmissionEnds(j) ==
    /\ owner[j] = "submission" /\ owner' = [owner EXCEPT ![j] = "none"]
    /\ UNCHANGED <<rows, entries, scan, loop, Registry, Ghosts, budget>>

(***************************************************************************)
(* The registry: a registration, or the heartbeat of a worker taken for     *)
(* dead, publishes the worker under s.mu and notifies after the unlock.      *)
(* Which workers are alive is the matter of Registry; here an execution may   *)
(* find one or none at any time.                                             *)
(***************************************************************************)
WorkerUp ==
    /\ ~calling /\ calling' = TRUE /\ owed' = TRUE
    /\ UNCHANGED <<rows, owner, entries, scan, loop, ready, fails, since, budget>>

\* Mutant: the channel is not buffered, and the loop must be receiving.
NotifyUnbuffered ==
    /\ calling /\ calling' = FALSE /\ ready' = (loop.pc = "wait")
    /\ UNCHANGED <<rows, owner, entries, scan, loop, Ghosts, budget>>

\* notifyRecoveryReady: a notification already there stands for this one.
Notify ==
    /\ calling /\ calling' = FALSE /\ ready' = TRUE
    /\ UNCHANGED <<rows, owner, entries, scan, loop, Ghosts, budget>>

Init ==
    /\ rows \in [Jobs -> {[state |-> "Recovering", generation |-> 0, spec |-> s] : s \in {"raw", "canonical"}}]
    /\ owner = [j \in Jobs |-> "none"] /\ entries = [j \in Jobs |-> NoEntry] /\ scan = NoScan
    /\ loop = Idle("begin") /\ calling = FALSE /\ ready = FALSE
    /\ fails = [j \in Jobs |-> 0] /\ since = [j \in Jobs |-> 0] /\ owed = FALSE
    /\ budget = MaxTrouble

Loop ==
    \/ Begin \/ Top \/ List \/ PassEnds \/ Wake
    \/ \E j \in Jobs : Load(j) \/ Claim(j) \/ Reload(j) \/ Execute(j) \/ Completed(j)

Next ==
    \/ Loop \/ Tick \/ Notify \/ WorkerUp
    \/ \E j \in Jobs : Submitted(j) \/ SubmissionEnds(j)

Spec == Init /\ [][Next]_vars

\* The loop and the handlers run on; a submission ends, at its deadline if not before.
FairSpec ==
    /\ Spec /\ WF_vars(Loop) /\ WF_vars(Tick) /\ WF_vars(Notify)
    /\ \A j \in Jobs : WF_vars(SubmissionEnds(j))

(***************************************************************************)
(* Properties.                                                             *)
(***************************************************************************)
\* The wait between two executions is the one the failures in a row call for
\* (retryEntry: "a session's own generation advance retains failures"): no scan,
\* contention, read error, normalised row or new generation forgets them or
\* starts an execution sooner, and while the loop waits every recovering job
\* has its entry or the scan is to be repeated.
BackoffKept ==
    \A j \in Jobs :
      /\ (loop.pc = "execute" /\ loop.job = {j} /\ fails[j] > 0) => since[j] >= Delay[fails[j]] \div 2
      /\ (loop.pc = "wait" /\ j \in Listed) =>
            \/ scan # NoScan
            \/ SameTask(entries[j], rows[j]) /\ entries[j].failures = fails[j]

\* A job does not stay Recovering unattended, whatever the store, other owners
\* and the workers do, and a worker that came up is followed by a scan even when
\* it came up in the middle of a pass (notifyRecoveryReady).
Retried ==
    /\ \A j \in Jobs : []<>(j \notin Listed \/ (loop.pc = "execute" /\ loop.job = {j}))
    /\ owed ~> ~owed
====
