------------------------------ MODULE Executor ------------------------------
(***************************************************************************)
(* The in-process pool of internal/runtime/executor.go: Submit, the pool     *)
(* goroutines, Shutdown and ForceShutdown, with a queue of QueueSize, a       *)
(* results channel without buffer, and a reader that may or may not read.     *)
(***************************************************************************)
EXTENDS Integers, FiniteSets, Sequences

CONSTANTS Jobs, Submitters, Pool, Callers, QueueSize

VARIABLES state,     \* ExecutorState; stopCh is closed when it leaves Running
          cancelled, \* e.ctx
          registry,  \* jobRegistry[j].Status; "none" is no entry
          queue, queueClosed,
          submit,    \* the calls of Submit
          pool,      \* the pool goroutines
          caller     \* the calls of Shutdown and ForceShutdown

vars == <<state, cancelled, registry, queue, queueClosed, submit, pool, caller>>

Queue == <<queue, queueClosed>>

Out(result) == [pc |-> result, job |-> "none"]

Terminal == {"Succeeded", "Failed", "Cancelled"}

validTransition(from, to) ==
    (from = "Pending" /\ to \in {"Running", "Cancelled"}) \/ (from = "Running" /\ to \in Terminal)

(***************************************************************************)
(* Submit.                                                                 *)
(***************************************************************************)
\* submitWG.Add happens under mu, in the state Running only.
SubmitEnters(s, j) ==
    /\ submit[s].pc = "out" /\ state = "Running"
    /\ submit' = [submit EXCEPT ![s] = [pc |-> "entered", job |-> j]]
    /\ UNCHANGED <<state, cancelled, registry, Queue, pool, caller>>

SubmitRegisters(s) ==
    /\ submit[s].pc = "entered" /\ UNCHANGED <<state, cancelled, Queue, pool, caller>>
    /\ IF registry[submit[s].job] # "none" THEN submit' = [submit EXCEPT ![s] = Out("refused")] /\ UNCHANGED registry
       ELSE /\ registry' = [registry EXCEPT ![submit[s].job] = "Pending"]
            /\ submit' = [submit EXCEPT ![s].pc = "sending"]

\* The select takes either of its ready cases.
SubmitSends(s) ==
    /\ submit[s].pc = "sending" /\ UNCHANGED <<state, cancelled, queueClosed, pool, caller>>
    /\ \/ /\ Len(queue) < QueueSize /\ queue' = Append(queue, submit[s].job)
          /\ submit' = [submit EXCEPT ![s] = Out("accepted")] /\ UNCHANGED registry
       \/ /\ state # "Running" /\ registry' = [registry EXCEPT ![submit[s].job] = "none"]
          /\ submit' = [submit EXCEPT ![s] = Out("refused")] /\ UNCHANGED queue

InFlight == {s \in Submitters : submit[s].pc \in {"entered", "sending"}}

(***************************************************************************)
(* The pool.                                                               *)
(***************************************************************************)
\* A closed channel still gives what it holds.
Take(p) ==
    /\ pool[p].pc = "idle" /\ UNCHANGED <<state, cancelled, queueClosed, submit, caller>>
    /\ \/ /\ queue # <<>> /\ queue' = Tail(queue)
          /\ IF validTransition(registry[Head(queue)], "Running")
             THEN /\ registry' = [registry EXCEPT ![Head(queue)] = "Running"]
                  /\ pool' = [pool EXCEPT ![p] = [pc |-> "running", job |-> Head(queue)]]
             ELSE pool' = [pool EXCEPT ![p].pc = "result"] /\ UNCHANGED registry
       \/ /\ (queue = <<>> /\ queueClosed) \/ cancelled
          /\ pool' = [pool EXCEPT ![p].pc = "gone"] /\ UNCHANGED <<queue, registry>>

\* ExecuteJob: no task succeeds under a cancelled context.
Run(p) ==
    /\ pool[p].pc = "running" /\ UNCHANGED <<state, cancelled, Queue, submit, caller>>
    /\ \E result \in IF cancelled THEN {"Failed", "Cancelled"} ELSE Terminal :
         registry' = [registry EXCEPT ![pool[p].job] = result]
    /\ pool' = [pool EXCEPT ![p] = Out("result")]

\* sendResult: the reader takes it, or the context ends it and the goroutine.
Send(p, read) ==
    /\ pool[p].pc = "result" /\ (read \/ cancelled)
    /\ pool' = [pool EXCEPT ![p].pc = IF read THEN "idle" ELSE "gone"]
    /\ UNCHANGED <<state, cancelled, registry, Queue, submit, caller>>

(***************************************************************************)
(* Shutdown and ForceShutdown.                                             *)
(***************************************************************************)
Step(c, pc) == caller' = [caller EXCEPT ![c].pc = pc]

\* ForceShutdown cancels before it enters Shutdown.
Call(c, forced) ==
    /\ caller[c].pc = "out" /\ caller' = [caller EXCEPT ![c] = [pc |-> "called", forced |-> forced]]
    /\ cancelled' = (cancelled \/ forced)
    /\ UNCHANGED <<state, registry, Queue, submit, pool>>

\* The first caller stops the executor, the others wait for it.
EnterShutdown(c) ==
    /\ caller[c].pc = "called" /\ Step(c, IF state = "Running" THEN "submits" ELSE "waits")
    /\ state' = IF state = "Running" THEN "ShuttingDown" ELSE state
    /\ UNCHANGED <<cancelled, registry, Queue, submit, pool>>

CloseQueue(c) ==
    /\ caller[c].pc = "submits" /\ InFlight = {} /\ queueClosed' = TRUE /\ Step(c, "pool")
    /\ UNCHANGED <<state, cancelled, registry, queue, submit, pool>>

Stopped(c) ==
    /\ caller[c].pc = "pool" /\ \A p \in Pool : pool[p].pc = "gone"
    /\ state' = "Stopped" /\ Step(c, "stopped")
    /\ UNCHANGED <<cancelled, registry, Queue, submit, pool>>

\* ForceShutdown then cancels what was never taken off the queue.
Return(c) ==
    /\ (caller[c].pc = "stopped") \/ (caller[c].pc = "waits" /\ state = "Stopped")
    /\ Step(c, "returned")
    /\ registry' = [j \in Jobs |-> IF caller[c].forced /\ registry[j] = "Pending" THEN "Cancelled" ELSE registry[j]]
    /\ UNCHANGED <<state, cancelled, Queue, submit, pool>>

Init ==
    /\ state = "Running" /\ cancelled = FALSE /\ registry = [j \in Jobs |-> "none"]
    /\ queue = <<>> /\ queueClosed = FALSE
    /\ submit = [s \in Submitters |-> Out("out")] /\ pool = [p \in Pool |-> Out("idle")]
    /\ caller = [c \in Callers |-> [pc |-> "out", forced |-> FALSE]]

Submit(s) == SubmitRegisters(s) \/ SubmitSends(s)

Work(p) == Take(p) \/ Run(p) \/ Send(p, FALSE)

Shutdown(c) == EnterShutdown(c) \/ CloseQueue(c) \/ Stopped(c) \/ Return(c)

Next ==
    \/ \E s \in Submitters : Submit(s) \/ \E j \in Jobs : SubmitEnters(s, j)
    \/ \E p \in Pool : Work(p) \/ Send(p, TRUE)
    \/ \E c \in Callers : Shutdown(c) \/ \E forced \in BOOLEAN : Call(c, forced)

\* A call of ForceShutdown returns although nobody reads results and an earlier
\* Shutdown hangs on them; then no job is left Pending or Running, and an accepted
\* one is terminal.  No Submit is left that could send on the closed queue.
Resolves ==
    /\ \A c \in Callers : caller[c].forced ~> caller[c].pc = "returned"
    /\ [](queueClosed => InFlight = {})
    /\ [](\A c \in Callers : caller[c].forced /\ caller[c].pc = "returned"
            => \A j \in Jobs : registry[j] \in Terminal \cup {"none"})
====
