---------------------------- MODULE JobExecution ----------------------------
(***************************************************************************)
(* The coordinator's execution of jobs: ownership of a JobID, publication  *)
(* of attempts, leases, result fencing, proof verification, the durable    *)
(* terminal state, cancellation, retry exhaustion, the repair of failed    *)
(* recoveries, and crash and restart.  It models attempts.go, execution.go *)
(* and jobs.go of cmd/coordinator, SubmitJob of main.go and the entry      *)
(* points of recovery.go.                                                  *)
(*                                                                         *)
(* A session is one goroutine that executes a job: a SubmitJob handler or  *)
(* the recovery loop.  A step is atomic when the code holds s.mu, or when  *)
(* it only reads and writes the session's own variables.  Time is the      *)
(* action LeaseExpires.  A Load or a Save of the job store may fail at any *)
(* time; a failed Save leaves the row as it was (one SQLite statement).    *)
(***************************************************************************)
EXTENDS Integers, FiniteSets

CONSTANTS
    Jobs,          \* JobIDs
    Handlers,      \* goroutines that may run SubmitJob
    Recovery,      \* the goroutine of runRecoveryLoop
    Specs,         \* task specifications (TaskType, Payload, TimeoutMs)
    ZKSpecs,       \* those of type zk_preimage_prove
    Canon,         \* the canonical form of a specification, or Invalid
    Invalid,       \* not a specification
    LegacyRows,    \* rows that an earlier build may have left in the store
    None,          \* no value
    RPCError,      \* the dispatch RPC failed
    MaxAttemptID   \* bound: no session starts above MaxAttemptID - maxAttempts

Threads == Handlers \union {Recovery}

maxAttempts == 2

Terminal == {"Succeeded", "Failed", "Cancelled"}
JobState == {"Running", "Recovering"} \union Terminal

JobRecord == [state: JobState, attempt: Nat \ {0}, spec: Specs]
NoRow == [state |-> "Absent", attempt |-> 0, spec |-> None]
Row == JobRecord \union {NoRow}

JobLease == [attempt: Nat, live: BOOLEAN]
NoLease == [attempt |-> 0, live |-> FALSE]

(* What a worker may answer.  proof says whether the output is a proof of  *)
(* the public payload of the job.  "bogus" is a status outside the three   *)
(* that jobStateFromStatus accepts; attempt 0 also stands for a nil answer.*)
Response == [job: Jobs, attempt: 0 .. MaxAttemptID,
             status: Terminal \union {"bogus"}, proof: BOOLEAN]

ASSUME ConstantsAssumption ==
    /\ Recovery \notin Handlers
    /\ ZKSpecs \subseteq Specs
    /\ Invalid \notin Specs
    /\ None \notin Specs
    /\ None \notin Response
    /\ RPCError \notin Response
    /\ LegacyRows \subseteq JobRecord
    /\ MaxAttemptID \in Nat

(* validateJobSpec keeps the task type and is idempotent *)
ASSUME CanonAssumption ==
    /\ Canon \in [Specs -> Specs \union {Invalid}]
    /\ \A s \in Specs : Canon[s] # Invalid =>
          /\ Canon[Canon[s]] = Canon[s]
          /\ Canon[s] \in ZKSpecs <=> s \in ZKSpecs

Label == {"idle", "picked", "reload", "loop", "dispatched", "verify",
          "persist", "exhausted", "errored", "cancelling", "repairLoad",
          "repairSave", "release"}

Session == [pc: Label, job: Jobs \union {None}, spec: Specs \union {None},
            tries: Nat, initial: Nat, attempt: Nat, failed: BOOLEAN,
            cancelled: BOOLEAN, answer: Response \union {None}, seen: Row,
            fault: BOOLEAN]

Idle == [pc |-> "idle", job |-> None, spec |-> None, tries |-> 0,
         initial |-> 0, attempt |-> 0, failed |-> FALSE, cancelled |-> FALSE,
         answer |-> None, seen |-> NoRow, fault |-> FALSE]

Verdict == [job: Jobs, attempt: Nat \ {0}, state: Terminal, spec: Specs,
            cause: {"result", "exhausted", "cancelled"}, proof: BOOLEAN]

VARIABLES
    store,        \* the jobs table: JobID -> row (survives a crash)
    jobAttempts,  \* s.jobAttempts, 0 where the map has no entry
    leases,       \* s.leases; live until ExpiresAt
    activeJobs,   \* s.activeJobs
    sess,         \* the local variables of the sessions
    phase,        \* of the process: down, starting, serving, draining
    zkDisabled,   \* s.zkDisabled
    issued,       \* history: the last AttemptID sent to a worker, per job
    committed,    \* history: every terminal state ever saved
    unsettled     \* history: jobs whose last session ended in an internal error

vars == <<store, jobAttempts, leases, activeJobs, sess, phase, zkDisabled,
          issued, committed, unsettled>>
memory == <<jobAttempts, leases, activeJobs>>
process == <<phase, zkDisabled>>
history == <<issued, committed, unsettled>>

Init ==
    /\ store \in [Jobs -> {NoRow} \union LegacyRows]
    /\ jobAttempts = [j \in Jobs |-> 0]
    /\ leases = [j \in Jobs |-> NoLease]
    /\ activeJobs = {}
    /\ sess = [t \in Threads |-> Idle]
    /\ phase = "down"
    /\ zkDisabled = FALSE
    /\ issued = [j \in Jobs |-> store[j].attempt]
    /\ committed = {}
    /\ unsettled = {}
-----------------------------------------------------------------------------
(* Helpers *)

\* Mutant: the row is not consulted.
nextAttemptInMemory(j) == jobAttempts[j] + 1

nextAttempt(j) ==
    (IF store[j].attempt > jobAttempts[j] THEN store[j].attempt
                                          ELSE jobAttempts[j]) + 1

\* Mutant: only the generation is compared, not the deadline.
isLeaseOfAttempt(j, a) == leases[j].attempt = a

isLeaseCurrentLocked(j, a) == leases[j].attempt = a /\ leases[j].live

\* Mutant: ownership is not exclusive.
claimAlways(j) == j \in Jobs

claimJob(j) == j \notin activeJobs

\* Mutant: a disabled coordinator still takes ZK tasks.
zkAlwaysAvailable(s) == s \in Specs

checkZKAvailable(s) == ~(zkDisabled /\ s \in ZKSpecs)

validateJobSpec(s) == Canon[s]

\* Mutant: the generation may come from an earlier session.
anyGeneration(j, a, initial) == j \in activeJobs

(* persistSubmitCancellation and persistSubmitFailure close only the row   *)
(* of the generation that this session published and that still runs.      *)
ownGeneration(j, a, initial) == j \in activeJobs /\ a > initial

\* Mutant: an expired lease prevents the finalization.
closableUnderLease(j, a, initial) ==
    /\ ownGeneration(j, a, initial)
    /\ store[j].state = "Running"
    /\ isLeaseCurrentLocked(j, a)

closable(j, a, initial) ==
    /\ ownGeneration(j, a, initial)
    /\ store[j].state = "Running"
    /\ store[j].attempt = a

Own(t) == sess[t].job

Goto(t, l) == sess' = [sess EXCEPT ![t].pc = l]

(* continue: the loop of executeJobFromSource goes on with lastErr set *)
NextTry(t) == sess' = [sess EXCEPT ![t].pc = "loop", ![t].tries = @ + 1,
                                   ![t].failed = TRUE, ![t].answer = None]

(* executeJobFromSource returns an error other than exhaustion; internal   *)
(* says that the store or an unknown worker status is to blame.            *)
Error(t, internal) ==
    sess' = [sess EXCEPT ![t].pc = "errored", ![t].answer = None,
                         ![t].fault = @ \/ internal]

(* The session returns; fault says that it leaves its row unsettled *)
ReleaseWith(t, fault) ==
    sess' = [sess EXCEPT ![t].pc = "release", ![t].fault = fault]

(* Save of a terminal row *)
Commit(j, row, cause, proof) ==
    /\ store' = [store EXCEPT ![j] = row]
    /\ committed' = committed \union
         {[job |-> j, attempt |-> row.attempt, state |-> row.state,
           spec |-> row.spec, cause |-> cause, proof |-> proof]}
-----------------------------------------------------------------------------
(* Start and end of a session *)

(* SubmitJob up to the loop of executeJobFromSource.  A request that is    *)
(* refused (cancelled, ZK disabled, invalid, already active) changes       *)
(* nothing and is no step.                                                 *)
SubmitJob(t, j, s) ==
    /\ phase = "serving"
    /\ sess[t].pc = "idle"
    /\ checkZKAvailable(s)
    /\ validateJobSpec(s) # Invalid
    /\ claimJob(j)
    /\ store[j].attempt + maxAttempts <= MaxAttemptID
    /\ activeJobs' = activeJobs \union {j}
    /\ sess' = [sess EXCEPT ![t] = [Idle EXCEPT
                  !.pc = "loop", !.job = j, !.spec = validateJobSpec(s),
                  !.initial = jobAttempts[j]]]
    /\ UNCHANGED <<store, jobAttempts, leases, process, history>>

(* runScheduledRecoveryPass finds a Recovering row and reloads it *)
PickRecovering(j) ==
    /\ phase = "serving"
    /\ sess[Recovery].pc = "idle"
    /\ store[j].state = "Recovering"
    /\ store[j].attempt + maxAttempts <= MaxAttemptID
    /\ sess' = [sess EXCEPT ![Recovery] = [Idle EXCEPT
                  !.pc = "picked", !.job = j, !.seen = store[j]]]
    /\ UNCHANGED <<store, memory, process, history>>

(* retryRecoveringJobResult takes ownership, unless the pass is cancelled  *)
(* or the job is active.                                                   *)
ClaimRecovering ==
    /\ sess[Recovery].pc = "picked"
    /\ IF sess[Recovery].cancelled \/ ~claimJob(Own(Recovery))
         THEN /\ sess' = [sess EXCEPT ![Recovery] = Idle]
              /\ UNCHANGED activeJobs
         ELSE /\ Goto(Recovery, "reload")
              /\ activeJobs' = activeJobs \union {Own(Recovery)}
    /\ UNCHANGED <<store, jobAttempts, leases, process, history>>

\* Mutant: the picked row is executed without a second look.
snapshotTrusted(j, seen) == seen.state = "Recovering"

(* Under ownership the row must still be the one that was picked *)
snapshotCurrent(j, seen) ==
    store[j].state = "Recovering" /\ store[j].attempt = seen.attempt

ReloadSkipped ==
    /\ sess[Recovery].pc = "reload"
    /\ Goto(Recovery, "release")   \* a stale snapshot, or Load failed
    /\ UNCHANGED <<store, memory, process, history>>

ReloadRecovering ==
    LET j == Own(Recovery)
        spec == validateJobSpec(store[j].spec)
        refused == \/ sess[Recovery].cancelled
                   \/ ~checkZKAvailable(store[j].spec)
                   \/ spec = Invalid
    IN  /\ sess[Recovery].pc = "reload"
        /\ snapshotCurrent(j, sess[Recovery].seen)
        /\ sess' = [sess EXCEPT
             ![Recovery].pc = IF refused THEN "errored" ELSE "loop",
             ![Recovery].spec = IF refused THEN None ELSE spec,
             ![Recovery].initial = jobAttempts[j]]
        /\ UNCHANGED <<store, memory, process, history>>

(* The deferred releaseJob; the RPC returns after it *)
Release(t) ==
    LET j == Own(t)
    IN  /\ sess[t].pc = "release"
        /\ activeJobs' = activeJobs \ {j}
        /\ unsettled' = IF sess[t].fault THEN unsettled \union {j}
                        ELSE IF sess[t].attempt > 0 THEN unsettled \ {j}
                        ELSE unsettled
        /\ sess' = [sess EXCEPT ![t] = Idle]
        /\ UNCHANGED <<store, jobAttempts, leases, process, issued, committed>>
-----------------------------------------------------------------------------
(* One iteration of the loop of executeJobFromSource *)

LoopCancelled(t) ==
    /\ sess[t].pc = "loop"
    /\ sess[t].cancelled
    /\ Error(t, FALSE)
    /\ UNCHANGED <<store, memory, process, history>>

(* No try is left, or getNextWorker found no live worker *)
LoopEnds(t) ==
    /\ sess[t].pc = "loop"
    /\ ~sess[t].cancelled
    /\ Goto(t, IF sess[t].failed /\ t # Recovery THEN "exhausted"
                                                 ELSE "errored")
    /\ UNCHANGED <<store, memory, process, history>>

(* publishAttempt: Save Running, then memory and lease; then the dispatch *)
PublishAttempt(t) ==
    LET j == Own(t)
        next == nextAttempt(j)
    IN  /\ sess[t].pc = "loop"
        /\ ~sess[t].cancelled
        /\ sess[t].tries < maxAttempts
        /\ store' = [store EXCEPT ![j] = [state |-> "Running",
                       attempt |-> next, spec |-> sess[t].spec]]
        /\ jobAttempts' = [jobAttempts EXCEPT ![j] = next]
        /\ leases' = [leases EXCEPT ![j] = [attempt |-> next, live |-> TRUE]]
        /\ issued' = [issued EXCEPT ![j] = next]
        /\ sess' = [sess EXCEPT ![t].pc = "dispatched", ![t].attempt = next]
        /\ UNCHANGED <<activeJobs, process, committed, unsettled>>

\* Mutant: the generation is published before it is saved.
PublishedUnsaved(t) ==
    /\ sess[t].pc = "loop"
    /\ ~sess[t].cancelled
    /\ sess[t].tries < maxAttempts
    /\ Error(t, TRUE)
    /\ jobAttempts' = [jobAttempts EXCEPT ![Own(t)] = nextAttempt(Own(t))]
    /\ UNCHANGED <<store, leases, activeJobs, process, history>>

(* publishAttempt fails in Load or Save: nothing is published *)
PublishFails(t) ==
    /\ sess[t].pc = "loop"
    /\ ~sess[t].cancelled
    /\ sess[t].tries < maxAttempts
    /\ Error(t, TRUE)
    /\ UNCHANGED <<store, memory, process, history>>

(* Time passes the ExpiresAt of a lease *)
LeaseExpires(j) ==
    /\ leases[j].live
    /\ leases' = [leases EXCEPT ![j].live = FALSE]
    /\ UNCHANGED <<store, jobAttempts, activeJobs, sess, process, history>>

\* Mutant: only cancellation ends the wait for a result.
NoLeaseTimer(t) ==
    /\ sess[t].pc = "dispatched"
    /\ sess[t].cancelled
    /\ NextTry(t)
    /\ UNCHANGED <<store, memory, process, history>>

(* leaseTimer fires.  It is started after the lease with the same duration *)
LeaseTimerFires(t) ==
    /\ sess[t].pc = "dispatched"
    /\ ~leases[Own(t)].live
    /\ NextTry(t)
    /\ UNCHANGED <<store, memory, process, history>>

(* ctx.Done() of the select, and the check of ctx after a result *)
DispatchCancelled(t) ==
    /\ sess[t].pc = "dispatched"
    /\ sess[t].cancelled
    /\ Error(t, FALSE)
    /\ UNCHANGED <<store, memory, process, history>>
-----------------------------------------------------------------------------
(* A result arrives on resultCh *)

(* resp.JobId, resp.AttemptId and the lease fence off every other result *)
fenced(t, r) ==
    \/ r.job # Own(t)
    \/ r.attempt # sess[t].attempt
    \/ ~isLeaseCurrentLocked(Own(t), sess[t].attempt)

ResultRefused(t, r) ==
    /\ sess[t].pc = "dispatched"
    /\ ~sess[t].cancelled
    /\ r # RPCError => fenced(t, r)
    /\ NextTry(t)
    /\ UNCHANGED <<store, memory, process, history>>

ResultInvalidStatus(t, r) ==
    /\ sess[t].pc = "dispatched"
    /\ ~sess[t].cancelled
    /\ ~fenced(t, r)
    /\ r.status \notin Terminal
    /\ Error(t, TRUE)
    /\ UNCHANGED <<store, memory, process, history>>

ResultCandidate(t, r) ==
    /\ sess[t].pc = "dispatched"
    /\ ~sess[t].cancelled
    /\ ~fenced(t, r)
    /\ r.status \in Terminal
    /\ sess' = [sess EXCEPT
         ![t].answer = r,
         ![t].pc = IF sess[t].spec \in ZKSpecs /\ r.status = "Succeeded"
                     THEN "verify" ELSE "persist"]
    /\ UNCHANGED <<store, memory, process, history>>

\* Mutant: the worker's word is enough.
verifyNothing(t) == sess[t].answer # None

verifyZKPreimageResult(t) == sess[t].answer.proof

VerifyResult(t) ==
    /\ sess[t].pc = "verify"
    /\ IF verifyZKPreimageResult(t) THEN Goto(t, "persist") ELSE NextTry(t)
    /\ UNCHANGED <<store, memory, process, history>>

PersistCancelled(t) ==
    /\ sess[t].pc = "persist"
    /\ sess[t].cancelled
    /\ Error(t, FALSE)
    /\ UNCHANGED <<store, memory, process, history>>

PersistFenced(t) ==
    /\ sess[t].pc = "persist"
    /\ ~sess[t].cancelled
    /\ ~isLeaseCurrentLocked(Own(t), sess[t].attempt)
    /\ NextTry(t)
    /\ UNCHANGED <<store, memory, process, history>>

PersistTerminalResult(t) ==
    /\ sess[t].pc = "persist"
    /\ ~sess[t].cancelled
    /\ isLeaseCurrentLocked(Own(t), sess[t].attempt)
    /\ Commit(Own(t), [state |-> sess[t].answer.status,
                       attempt |-> sess[t].attempt, spec |-> sess[t].spec],
              "result", sess[t].answer.proof)
    /\ Goto(t, "release")
    /\ UNCHANGED <<memory, process, issued, unsettled>>

\* Mutant: the result is returned although Save failed.
RepliedUnsaved(t) ==
    /\ sess[t].pc = "persist"
    /\ ~sess[t].cancelled
    /\ isLeaseCurrentLocked(Own(t), sess[t].attempt)
    /\ Goto(t, "release")
    /\ UNCHANGED <<store, memory, process, history>>

PersistSaveFails(t) ==
    /\ sess[t].pc = "persist"
    /\ ~sess[t].cancelled
    /\ isLeaseCurrentLocked(Own(t), sess[t].attempt)
    /\ Error(t, TRUE)
    /\ UNCHANGED <<store, memory, process, history>>
-----------------------------------------------------------------------------
(* executeJob: finalization of a submission *)

(* persistSubmitFailure; a cancelled context selects cancellation instead *)
FinalizeFailure(t) ==
    /\ sess[t].pc = "exhausted"
    /\ ~sess[t].cancelled
    /\ jobAttempts[Own(t)] = sess[t].attempt
    /\ closable(Own(t), sess[t].attempt, sess[t].initial)
    /\ Commit(Own(t), [store[Own(t)] EXCEPT !.state = "Failed"],
              "exhausted", FALSE)
    /\ Goto(t, "release")
    /\ UNCHANGED <<memory, process, issued, unsettled>>

FinalizeFailureSkipped(t) ==
    /\ sess[t].pc = "exhausted"
    /\ \/ sess[t].cancelled
       \/ jobAttempts[Own(t)] # sess[t].attempt
       \/ ~closable(Own(t), sess[t].attempt, sess[t].initial)
    /\ Goto(t, "errored")
    /\ UNCHANGED <<store, memory, process, history>>

(* Load or Save fails: an internal error, whatever the context says by now *)
FinalizeFailureFails(t) ==
    /\ sess[t].pc = "exhausted"
    /\ ~sess[t].cancelled
    /\ jobAttempts[Own(t)] = sess[t].attempt
    /\ ownGeneration(Own(t), sess[t].attempt, sess[t].initial)
    /\ ReleaseWith(t, TRUE)
    /\ UNCHANGED <<store, memory, process, history>>

SubmitErrored(t) ==
    /\ t \in Handlers
    /\ sess[t].pc = "errored"
    /\ Goto(t, IF sess[t].cancelled THEN "cancelling" ELSE "release")
    /\ UNCHANGED <<store, memory, process, history>>

(* persistSubmitCancellation *)
FinalizeCancellation(t) ==
    /\ sess[t].pc = "cancelling"
    /\ closable(Own(t), jobAttempts[Own(t)], sess[t].initial)
    /\ Commit(Own(t), [store[Own(t)] EXCEPT !.state = "Cancelled"],
              "cancelled", FALSE)
    /\ ReleaseWith(t, FALSE)
    /\ UNCHANGED <<memory, process, issued, unsettled>>

FinalizeCancellationSkipped(t) ==
    /\ sess[t].pc = "cancelling"
    /\ ~closable(Own(t), jobAttempts[Own(t)], sess[t].initial)
    /\ Goto(t, "release")
    /\ UNCHANGED <<store, memory, process, history>>

FinalizeCancellationFails(t) ==
    /\ sess[t].pc = "cancelling"
    /\ ownGeneration(Own(t), jobAttempts[Own(t)], sess[t].initial)
    /\ ReleaseWith(t, TRUE)
    /\ UNCHANGED <<store, memory, process, history>>
-----------------------------------------------------------------------------
(* retryRecoveringJobResult: repair of an unsuccessful recovery *)

RecoveryErrored ==
    LET failedAttempt == jobAttempts[Own(Recovery)]
    IN  /\ sess[Recovery].pc = "errored"
        /\ IF failedAttempt > sess[Recovery].initial
             THEN sess' = [sess EXCEPT ![Recovery].pc = "repairLoad",
                                       ![Recovery].attempt = failedAttempt]
             ELSE Goto(Recovery, "release")
        /\ UNCHANGED <<store, memory, process, history>>

(* restoreRecoveringJob does not hold s.mu between its Load and its Save *)
RepairLoad ==
    LET row == store[Own(Recovery)]
    IN  /\ sess[Recovery].pc = "repairLoad"
        /\ sess' = [sess EXCEPT
             ![Recovery].seen = row,
             ![Recovery].pc =
                IF row.state = "Running" /\ row.attempt = sess[Recovery].attempt
                  THEN "repairSave" ELSE "release"]
        /\ UNCHANGED <<store, memory, process, history>>

RepairSave ==
    /\ sess[Recovery].pc = "repairSave"
    /\ store' = [store EXCEPT ![Own(Recovery)] =
                   [sess[Recovery].seen EXCEPT !.state = "Recovering"]]
    /\ ReleaseWith(Recovery, FALSE)
    /\ UNCHANGED <<memory, process, history>>

RepairFails ==
    /\ sess[Recovery].pc \in {"repairLoad", "repairSave"}
    /\ ReleaseWith(Recovery, TRUE)
    /\ UNCHANGED <<store, memory, process, history>>
-----------------------------------------------------------------------------
(* The clients and the process *)

(* The RPC of a submission is cancelled or passes its deadline *)
CancelRequest(t) ==
    /\ sess[t].pc # "idle"
    /\ ~sess[t].cancelled
    /\ sess' = [sess EXCEPT ![t].cancelled = TRUE]
    /\ UNCHANGED <<store, memory, process, history>>

(* beginShutdown: no new work is admitted *)
BeginShutdown ==
    /\ phase = "serving"
    /\ phase' = "draining"
    /\ UNCHANGED <<store, memory, sess, zkDisabled, history>>

(* cancelWork cancels the contexts one after the other *)
CancelWork(t) ==
    /\ phase = "draining"
    /\ sess[t].pc # "idle"
    /\ ~sess[t].cancelled
    /\ sess' = [sess EXCEPT ![t].cancelled = TRUE]
    /\ UNCHANGED <<store, memory, process, history>>

(* The process ends, in whatever state it is: a crash, a failed startup, or *)
(* the end of a shutdown.                                                  *)
Crash ==
    /\ phase # "down"
    /\ phase' = "down"
    /\ jobAttempts' = [j \in Jobs |-> 0]
    /\ leases' = [j \in Jobs |-> NoLease]
    /\ activeJobs' = {}
    /\ sess' = [t \in Threads |-> Idle]
    /\ unsettled' = {}
    /\ UNCHANGED <<store, zkDisabled, issued, committed>>

(* checkDisabledZKRecovery *)
unfinishedZK ==
    \E j \in Jobs : /\ store[j].state \in {"Running", "Recovering"}
                    /\ store[j].spec \in ZKSpecs

(* initializeCoordinator up to recoverRunningJobs *)
Boot(disable) ==
    /\ phase = "down"
    /\ disable => ~unfinishedZK
    /\ phase' = "starting"
    /\ zkDisabled' = disable
    /\ UNCHANGED <<store, memory, sess, history>>

\* Mutant: rows are converted without validation.
runningRow(row) == row.state = "Running"

restartable(row) ==
    row.state = "Running" /\ validateJobSpec(row.spec) # Invalid

(* One row of recoverRunningJobs; rows with an invalid spec stay as they are *)
RecoverRunningJob(j) ==
    /\ phase = "starting"
    /\ restartable(store[j])
    /\ store' = [store EXCEPT ![j].state = "Recovering",
                              ![j].spec = validateJobSpec(store[j].spec)]
    /\ UNCHANGED <<memory, sess, process, history>>

Serve ==
    /\ phase = "starting"
    /\ ~\E j \in Jobs : restartable(store[j])
    /\ phase' = "serving"
    /\ UNCHANGED <<store, memory, sess, zkDisabled, history>>
-----------------------------------------------------------------------------
(* What goroutine t does by itself, without a worker's answer *)
SessionStep(t) ==
    \/ LoopCancelled(t) \/ LoopEnds(t) \/ PublishAttempt(t) \/ PublishFails(t)
    \/ LeaseTimerFires(t) \/ DispatchCancelled(t)
    \/ VerifyResult(t)
    \/ PersistCancelled(t) \/ PersistFenced(t) \/ PersistTerminalResult(t)
    \/ PersistSaveFails(t)
    \/ FinalizeFailure(t) \/ FinalizeFailureSkipped(t) \/ FinalizeFailureFails(t)
    \/ SubmitErrored(t)
    \/ FinalizeCancellation(t) \/ FinalizeCancellationSkipped(t)
    \/ FinalizeCancellationFails(t)
    \/ Release(t)

RecoveryStep ==
    \/ ClaimRecovering \/ ReloadSkipped \/ ReloadRecovering
    \/ RecoveryErrored \/ RepairLoad \/ RepairSave \/ RepairFails

Next ==
    \/ \E t \in Handlers, j \in Jobs, s \in Specs : SubmitJob(t, j, s)
    \/ \E t \in Handlers : CancelRequest(t)
    \/ \E t \in Threads : SessionStep(t) \/ CancelWork(t)
    \/ \E t \in Threads, r \in Response \union {RPCError} : ResultRefused(t, r)
    \/ \E t \in Threads, r \in Response :
          ResultInvalidStatus(t, r) \/ ResultCandidate(t, r)
    \/ \E j \in Jobs : PickRecovering(j) \/ LeaseExpires(j)
    \/ RecoveryStep
    \/ \E j \in Jobs : RecoverRunningJob(j)
    \/ \E disable \in BOOLEAN : Boot(disable)
    \/ Serve \/ BeginShutdown \/ Crash

(* Goroutines are scheduled and time passes; workers and clients may be    *)
(* silent for ever.                                                        *)
Fairness ==
    /\ \A t \in Threads : WF_vars(SessionStep(t))
    /\ WF_vars(RecoveryStep)
    /\ \A j \in Jobs : WF_vars(LeaseExpires(j))

Spec == Init /\ [][Next]_vars /\ Fairness
-----------------------------------------------------------------------------
(* Properties *)

(* Every variable keeps its type: rows are JobRecords with a generation    *)
(* and a usable specification, also those that recoverRunningJobs rewrote. *)
TypeOK ==
    /\ store \in [Jobs -> Row]
    /\ jobAttempts \in [Jobs -> Nat]
    /\ leases \in [Jobs -> JobLease]
    /\ activeJobs \in SUBSET Jobs
    /\ sess \in [Threads -> Session]
    /\ phase \in {"down", "starting", "serving", "draining"}
    /\ zkDisabled \in BOOLEAN
    /\ issued \in [Jobs -> Nat]
    /\ committed \in SUBSET Verdict
    /\ unsettled \in SUBSET Jobs

Owning(t) == sess[t].pc \notin {"idle", "picked"}

(* claimJob and releaseJob: a job is executed by one session at a time,    *)
(* and activeJobs names exactly the jobs being executed, so that no job    *)
(* stays blocked by a session that is gone.                                *)
OneOwner ==
    /\ \A t, u \in Threads : Owning(t) /\ Owning(u) /\ t # u => Own(t) # Own(u)
    /\ \A j \in Jobs : j \in activeJobs <=>
                         \E t \in Threads : Owning(t) /\ Own(t) = j

(* publishAttempt saves a generation before anyone sees it: what memory    *)
(* and the workers know is never ahead of the row, even after a crash.     *)
GenerationDurable ==
    \A j \in Jobs : /\ jobAttempts[j] <= store[j].attempt
                    /\ leases[j].attempt = jobAttempts[j]
                    /\ issued[j] = store[j].attempt

(* persistTerminalResult and the finalizers: a generation gets at most one *)
(* terminal state, over all restarts.                                      *)
OneVerdict ==
    \A c, d \in committed : c.job = d.job /\ c.attempt = d.attempt => c = d

(* verifyZKPreimageResult: a ZK job is Succeeded only with a proof that    *)
(* verifies, whichever path and retry the result came through.             *)
SuccessProved ==
    \A c \in committed :
       c.state = "Succeeded" => /\ c.cause = "result"
                                /\ c.spec \in ZKSpecs => c.proof

RepliesDurably(t) ==
    sess[t].pc = "release" /\ sess[t].answer # None =>
       \E c \in committed : /\ c.job = sess[t].answer.job
                            /\ c.attempt = sess[t].answer.attempt
                            /\ c.state = sess[t].answer.status
                            /\ c.spec = sess[t].spec

(* executeJob answers a client only with a terminal state that is durable *)
ReplyDurable == \A t \in Threads : RepliesDurably(t)

OwnsRow(t) ==
    LET j == Own(t)
    IN  /\ Owning(t) /\ sess[t].attempt > 0 =>
             /\ sess[t].attempt = jobAttempts[j]
             /\ sess[t].attempt = store[j].attempt
             /\ sess[t].attempt > sess[t].initial
             /\ sess[t].spec = store[j].spec
             /\ sess[t].pc # "release" => store[j].state = "Running"
        /\ Owning(t) /\ sess[t].attempt = 0
             /\ sess[t].pc \notin {"reload", "release"} =>
               sess[t].initial = jobAttempts[j]

(* publishAttempt and the repair agree on one number: from publication to  *)
(* finalization the session, memory and the row name the same generation,  *)
(* Running with the session's specification; before the first publication  *)
(* memory is as the session found it.                                      *)
OwnRow == \A t \in Threads : OwnsRow(t)

(* A Running row of a serving coordinator has a session that will settle   *)
(* it, unless the last session on the job ended in an internal error.      *)
RunningIsOwned ==
    phase \in {"serving", "draining"} =>
       \A j \in Jobs : restartable(store[j]) => j \in activeJobs \union unsettled

(* checkDisabledZKRecovery and checkZKAvailable: a coordinator with ZK     *)
(* disabled never holds an unfinished ZK job.                              *)
DisabledMeansNoZK == zkDisabled /\ phase # "down" => ~unfinishedZK

(* A generation is never handed out twice: what publishAttempt dispatches  *)
(* is newer than everything any worker was ever sent for the job.          *)
AttemptIDsFresh ==
    [][\A t \in Threads :
          sess'[t].pc = "dispatched" /\ sess[t].pc # "dispatched" =>
             sess'[t].attempt > issued[Own(t)]]_vars

(* retryRecoveringJobResult reloads under ownership: recovery never runs   *)
(* again a job that a submission finished or moved on since it was picked. *)
RecoveryNeverReruns ==
    [][sess[Recovery].pc = "loop" /\ sess[Recovery].tries = 0
         /\ sess'[Recovery].pc = "dispatched" =>
           /\ store[Own(Recovery)].state = "Recovering"
           /\ store[Own(Recovery)].attempt = sess[Recovery].seen.attempt
           /\ sess[Recovery].spec = Canon[store[Own(Recovery)].spec]]_vars

(* A result is committed only while its attempt holds an unexpired lease   *)
(* and no newer attempt exists, although verification may have taken any   *)
(* time since the first check.                                             *)
CommitUnderLease ==
    [][\A c \in committed' \ committed : c.cause = "result" =>
          /\ leases[c.job] = [attempt |-> c.attempt, live |-> TRUE]
          /\ issued[c.job] = c.attempt]_vars

(* Cancellation and exhaustion close only the generation that the session  *)
(* itself published last, with the specification it was given.             *)
ClosesOwnGeneration ==
    [][\A c \in committed' \ committed : c.cause # "result" =>
          \E t \in Handlers : /\ Owning(t)
                              /\ Own(t) = c.job
                              /\ sess[t].attempt = c.attempt
                              /\ sess[t].spec = c.spec]_vars

(* The retries, the leases and the finalization of a session are bounded:  *)
(* every session ends, although workers and clients may stay silent.       *)
SessionsEnd == \A t \in Threads : sess[t].pc # "idle" ~> sess[t].pc = "idle"

Ledger == INSTANCE JobLedger WITH ledger <- store, Closed <- Terminal,
                                  InitialRows <- {NoRow} \union LegacyRows

(* The jobs table keeps the promise of JobLedger: its generations follow   *)
(* each other without gap or return, and a closed one is never reopened,   *)
(* rewritten or closed twice, whatever sessions, crashes and restarts do.  *)
LedgerSpec == Ledger!Spec
=============================================================================
