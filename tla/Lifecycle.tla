------------------------------ MODULE Lifecycle ------------------------------
(***************************************************************************)
(* How a process of the runtime serves, and how it stops: the admission     *)
(* gate, the startup producer, the background loops, the dispatches, and    *)
(* the shutdown that joins them against one deadline and then closes what   *)
(* was opened (cmd/coordinator/shutdown.go, cmd/worker/shutdown.go and the   *)
(* two main.go).  The process is a Coordinator or a Worker; a Worker's       *)
(* handler runs one task, under the shared proving limiter                   *)
(* (zk_preimage_task.go, executor.go).                                      *)
(***************************************************************************)
EXTENDS Integers, FiniteSets

CONSTANTS Handlers,       \* RPC handlers at one time
          MaxDispatches,  \* dispatches in flight
          MaxProofs       \* -max-concurrent-proofs

ASSUME LifecycleAssumption ==
    IsFiniteSet(Handlers) /\ MaxDispatches \in Nat /\ MaxProofs \in Nat \ {0}

VARIABLES role,
          startup,      \* where the startup producer is
          held,         \* resources it opened
          serving,      \* Serve has not returned
          loops,        \* background loops that run
          dispatching,  \* dispatchWG
          rpc,          \* the handlers
          slots,        \* ProvingLimiter.slots
          draining,     \* admission is sealed
          closes,       \* times lifecycle.done was closed
          ended,        \* lifecycle.ctx is cancelled
          shut,         \* shutdown: the caller, the deadline, Stop, the cleanup and its answer
          closed        \* resources that were closed

vars == <<role, startup, held, serving, loops, dispatching, rpc, slots, draining, closes, ended, shut, closed>>

Work == <<startup, held, serving, loops, dispatching>>

Gate == <<draining, closes, ended>>

Active == {h \in Handlers : rpc[h].pc # "out"}

\* The handlers that own a slot of the limiter.
Holders == {h \in Handlers : rpc[h].pc \in {"acquired", "proving", "proved"}}

(***************************************************************************)
(* Startup.  Each stage is preceded by a look at lifecycle.ctx, and each    *)
(* may fail; what was opened until then stays published.                    *)
(***************************************************************************)
StartupFails ==
    /\ startup # "over" /\ startup' = "over"
    /\ UNCHANGED <<role, held, serving, loops, dispatching, rpc, slots, Gate, shut, closed>>

OpenStore ==
    /\ startup = "store" /\ ~ended /\ startup' = "metrics" /\ held' = held \cup {"store"}
    /\ UNCHANGED <<role, serving, loops, dispatching, rpc, slots, Gate, shut, closed>>

OpenMetrics ==
    /\ startup = "metrics" /\ ~ended /\ startup' = "start" /\ held' = held \cup {"metrics"}
    /\ UNCHANGED <<role, serving, loops, dispatching, rpc, slots, Gate, shut, closed>>

\* The Worker's producer goes on to register and to send heartbeats.
Start ==
    /\ startup = "start" /\ ~ended /\ serving' = TRUE
    /\ startup' = IF role = "worker" THEN "background" ELSE "over"
    /\ loops' = IF role = "worker" THEN {} ELSE {"monitor", "recovery"}
    /\ UNCHANGED <<role, held, dispatching, rpc, slots, Gate, shut, closed>>

\* startupDone of the Coordinator, resourcesReady of the Worker.
Ready == startup = "over" \/ (role = "worker" /\ startup = "background")

LoopEnds(l) ==
    /\ l \in loops /\ ended /\ loops' = loops \ {l}
    /\ UNCHANGED <<role, startup, held, serving, dispatching, rpc, slots, Gate, shut, closed>>

\* Serve returns when the server is stopped, or fails.
ServeEnds ==
    /\ serving /\ serving' = FALSE
    /\ UNCHANGED <<role, startup, held, loops, dispatching, rpc, slots, Gate, shut, closed>>

(***************************************************************************)
(* The handlers.                                                           *)
(***************************************************************************)
\* tryEnter; a refused request changes nothing.
Enter(h) ==
    /\ serving /\ rpc[h].pc = "out" /\ ~draining
    /\ rpc' = [rpc EXCEPT ![h] = [pc |-> "admitted", cancelled |-> FALSE, reply |-> "none"]]
    /\ UNCHANGED <<role, Work, slots, Gate, shut, closed>>

\* The handler returns: the last one to leave a sealed gate closes done.
Leave(h, reply) ==
    /\ rpc' = [rpc EXCEPT ![h].pc = "out", ![h].reply = reply]
    /\ closes' = IF draining /\ Active = {h} THEN closes + 1 ELSE closes

To(h, pc) == rpc' = [rpc EXCEPT ![h].pc = pc] /\ UNCHANGED closes

\* Mutant: a cancelled request gives its slot back while it proves.
CancelReleases(h) ==
    /\ h \in Active /\ ~rpc[h].cancelled /\ rpc' = [rpc EXCEPT ![h].cancelled = TRUE]
    /\ slots' = IF rpc[h].pc = "proving" THEN slots - 1 ELSE slots
    /\ UNCHANGED <<role, Work, Gate, shut, closed>>

\* The client goes away, or the deadline of the request or of its task passes.
Cancel(h) ==
    /\ h \in Active /\ ~rpc[h].cancelled /\ rpc' = [rpc EXCEPT ![h].cancelled = TRUE]
    /\ UNCHANGED <<role, Work, slots, Gate, shut, closed>>

Admitted(h) ==
    /\ rpc[h].pc = "admitted" /\ UNCHANGED <<role, Work, slots, draining, ended, shut, closed>>
    /\ IF rpc[h].cancelled THEN Leave(h, "cancelled") ELSE To(h, "running")

\* Handler or recovery loop: executeJobFromSource adds before it starts the goroutine.
Dispatch ==
    /\ role = "coordinator" /\ dispatching < MaxDispatches
    /\ "recovery" \in loops \/ \E h \in Handlers : rpc[h].pc = "running"
    /\ dispatching' = dispatching + 1
    /\ UNCHANGED <<role, startup, held, serving, loops, rpc, slots, Gate, shut, closed>>

\* The goroutine may outlive the attempt, and its handler.
DispatchEnds ==
    /\ dispatching > 0 /\ dispatching' = dispatching - 1
    /\ UNCHANGED <<role, startup, held, serving, loops, rpc, slots, Gate, shut, closed>>

CoordinatorReturns(h) ==
    /\ role = "coordinator" /\ rpc[h].pc = "running" /\ Leave(h, "answered")
    /\ UNCHANGED <<role, Work, slots, draining, ended, shut, closed>>

\* A refused task, a task without proof (which may ignore its context), and
\* ZKPreimageTask up to TryAcquire, which does not wait.
Task(h) ==
    /\ role = "worker" /\ rpc[h].pc = "running"
    /\ UNCHANGED <<role, Work, draining, ended, shut, closed>>
    /\ \/ Leave(h, "failed") /\ UNCHANGED slots
       \/ To(h, "gate") /\ UNCHANGED slots
       \/ rpc[h].cancelled /\ Leave(h, "cancelled") /\ UNCHANGED slots
       \/ ~rpc[h].cancelled /\ slots = MaxProofs /\ Leave(h, "busy") /\ UNCHANGED slots
       \/ ~rpc[h].cancelled /\ slots < MaxProofs /\ To(h, "acquired") /\ slots' = slots + 1

Acquired(h) ==
    /\ rpc[h].pc = "acquired" /\ UNCHANGED <<role, Work, draining, ended, shut, closed>>
    /\ IF rpc[h].cancelled THEN Leave(h, "cancelled") /\ slots' = slots - 1
       ELSE To(h, "proving") /\ UNCHANGED slots

\* Prove is synchronous: nothing but its end changes the place of the handler.
ProveEnds(h) ==
    /\ rpc[h].pc = "proving" /\ UNCHANGED <<role, Work, draining, ended, shut, closed>>
    /\ \/ Leave(h, "failed") /\ slots' = slots - 1
       \/ To(h, "proved") /\ UNCHANGED slots

\* The task's own checkpoint, and the deferred Release.
TaskReturns(h) ==
    /\ rpc[h].pc = "proved" /\ slots' = slots - 1
    /\ UNCHANGED <<role, Work, draining, ended, shut, closed>>
    /\ IF rpc[h].cancelled THEN Leave(h, "cancelled") ELSE To(h, "gate")

\* ExecuteJob: success is decided after the task, whatever the task looked at.
SuccessGate(h) ==
    /\ rpc[h].pc = "gate" /\ Leave(h, IF rpc[h].cancelled THEN "cancelled" ELSE "success")
    /\ UNCHANGED <<role, Work, slots, draining, ended, shut, closed>>

(***************************************************************************)
(* Shutdown: on a signal, or when startup, a loop or Serve has ended.       *)
(***************************************************************************)
\* Mutant: done is only ever closed by a handler.
BeginShutdownLeavesOpen ==
    /\ shut.pc = "no" /\ shut' = [shut EXCEPT !.pc = "begun"]
    /\ draining' = TRUE /\ UNCHANGED <<role, Work, rpc, slots, closes, ended, closed>>

BeginShutdown ==
    /\ shut.pc = "no" /\ shut' = [shut EXCEPT !.pc = "begun"]
    /\ draining' = TRUE /\ closes' = IF Active = {} THEN closes + 1 ELSE closes
    /\ UNCHANGED <<role, Work, rpc, slots, ended, closed>>

\* cancelWork: the context of the loops first, then the requests it finds.
CancelLoops ==
    /\ shut.pc = "begun" /\ shut' = [shut EXCEPT !.pc = "cancelling"] /\ ended' = TRUE
    /\ UNCHANGED <<role, Work, rpc, slots, draining, closes, closed>>

CancelledActive == [h \in Handlers |-> IF h \in Active THEN [rpc[h] EXCEPT !.cancelled = TRUE] ELSE rpc[h]]

CancelRequests ==
    /\ shut.pc = "cancelling" /\ rpc' = CancelledActive
    /\ shut' = [shut EXCEPT !.pc = "waiting", !.clean = "startup"]
    /\ UNCHANGED <<role, Work, slots, Gate, closed>>

\* The deadline runs from the first call of shutdown.
Expire ==
    /\ shut.pc # "no" /\ ~shut.expired /\ shut' = [shut EXCEPT !.expired = TRUE]
    /\ UNCHANGED <<role, Work, rpc, slots, Gate, closed>>

\* server.Stop also ends the connections, and with them the requests.
Stop ==
    /\ shut.clean # "no" /\ Ready /\ ~shut.stopped /\ shut' = [shut EXCEPT !.stopped = TRUE]
    /\ rpc' = CancelledActive /\ UNCHANGED <<role, Work, slots, Gate, closed>>

\* Mutant: the Coordinator does not join its loops.
FollowsUnjoined(stage) ==
    CASE stage = "startup"  -> IF role = "worker" THEN "loops" ELSE "handlers"
      [] stage = "handlers" -> IF role = "worker" THEN "stop" ELSE "dispatch"
      [] stage = "loops"    -> "handlers"
      [] stage = "dispatch" -> "stop"
      [] stage = "stop"     -> "serve"
      [] stage = "serve"    -> "check"
      [] stage = "check"    -> "metrics"
      [] stage = "metrics"  -> IF role = "worker" THEN "finish" ELSE "recheck"
      [] stage = "recheck"  -> "store"
      [] stage = "store"    -> "finish"

\* The order of the cleanup goroutine.
Follows(stage) ==
    CASE stage = "startup"  -> IF role = "worker" THEN "loops" ELSE "handlers"
      [] stage = "handlers" -> IF role = "worker" THEN "stop" ELSE "loops"
      [] stage = "loops"    -> IF role = "worker" THEN "handlers" ELSE "dispatch"
      [] stage = "dispatch" -> "stop"
      [] stage = "stop"     -> "serve"
      [] stage = "serve"    -> "check"
      [] stage = "check"    -> "metrics"
      [] stage = "metrics"  -> IF role = "worker" THEN "finish" ELSE "recheck"
      [] stage = "recheck"  -> "store"
      [] stage = "store"    -> "finish"

\* What each stage of it waits for; backgroundDone is the Worker's startup producer.
Joined(stage) ==
    CASE stage = "startup"  -> Ready
      [] stage = "handlers" -> closes > 0
      [] stage = "loops"    -> loops = {} /\ startup = "over"
      [] stage = "dispatch" -> dispatching = 0
      [] stage = "stop"     -> shut.stopped
      [] stage = "serve"    -> ~serving

Sent(answer) == shut' = [shut EXCEPT !.clean = "sent", !.answer = answer] /\ UNCHANGED closed

Advances == shut' = [shut EXCEPT !.clean = Follows(@)]

Join ==
    /\ shut.clean \in {"startup", "handlers", "loops", "dispatch", "stop", "serve"} /\ Joined(shut.clean)
    /\ Advances /\ UNCHANGED <<role, Work, rpc, slots, Gate, closed>>

\* No cleanup is begun after the deadline was seen.
CheckDeadline ==
    /\ shut.clean \in {"check", "recheck"} /\ UNCHANGED <<role, Work, rpc, slots, Gate>>
    /\ IF shut.expired THEN Sent("failed") ELSE Advances /\ UNCHANGED closed

Close ==
    /\ shut.clean \in {"metrics", "store"} /\ UNCHANGED <<role, Work, rpc, slots, Gate>>
    /\ \/ Advances /\ closed' = closed \cup ({shut.clean} \cap held)
       \/ shut.clean \in held /\ Sent("failed")

Finish ==
    /\ shut.clean = "finish" /\ Sent(IF shut.expired THEN "failed" ELSE "complete")
    /\ UNCHANGED <<role, Work, rpc, slots, Gate>>

CleanupDone ==
    /\ shut.clean = "sent" /\ shut' = [shut EXCEPT !.clean = "over"]
    /\ UNCHANGED <<role, Work, rpc, slots, Gate, closed>>

\* The end of shutdown also cancels the context of the deadline.
Returns(failed) == shut' = [shut EXCEPT !.pc = "returned", !.failed = failed, !.expired = TRUE]

\* The caller waits for the answer and then for the goroutine, or for the deadline.
Await ==
    /\ UNCHANGED <<role, Work, rpc, slots, Gate, closed>>
    /\ \/ shut.pc = "waiting" /\ shut.answer # "none"
          /\ shut' = [shut EXCEPT !.pc = "answered", !.failed = shut.answer # "complete" \/ shut.expired]
       \/ shut.pc = "answered" /\ shut.clean = "over" /\ Returns(shut.failed)
       \/ shut.pc \in {"waiting", "answered"} /\ shut.expired /\ Returns(TRUE)

Init ==
    /\ role \in {"coordinator", "worker"} /\ startup = IF role = "worker" THEN "metrics" ELSE "store"
    /\ held = {} /\ serving = FALSE /\ loops = {} /\ dispatching = 0 /\ slots = 0
    /\ rpc = [h \in Handlers |-> [pc |-> "out", cancelled |-> FALSE, reply |-> "none"]]
    /\ draining = FALSE /\ closes = 0 /\ ended = FALSE /\ closed = {}
    /\ shut = [pc |-> "no", expired |-> FALSE, stopped |-> FALSE, clean |-> "no", answer |-> "none",
               failed |-> FALSE]

Handler(h) ==
    \/ Enter(h) \/ Cancel(h) \/ Admitted(h) \/ CoordinatorReturns(h)
    \/ Task(h) \/ Acquired(h) \/ ProveEnds(h) \/ TaskReturns(h) \/ SuccessGate(h)

Cleanup == Join \/ CheckDeadline \/ Close \/ Finish \/ CleanupDone

Caller == CancelLoops \/ CancelRequests \/ Await

Next ==
    \/ StartupFails \/ OpenStore \/ OpenMetrics \/ Start \/ ServeEnds \/ Dispatch \/ DispatchEnds
    \/ \E l \in loops : LoopEnds(l)
    \/ \E h \in Handlers : Handler(h)
    \/ BeginShutdown \/ Caller \/ Expire \/ Stop \/ Cleanup

Spec == Init /\ [][Next]_vars

(***************************************************************************)
(* Properties.                                                             *)
(***************************************************************************)
Quiet == startup = "over" /\ loops = {} /\ dispatching = 0 /\ Active = {}

\* Nothing that could use a resource runs when the first of them is closed, and a
\* shutdown that reports success has ended and closed everything it opened
\* (coordinatorProcess.shutdown, workerProcess.shutdown).  done is closed once, and
\* when the Coordinator waits for its dispatches nobody is left to add one ("no Add
\* can race Wait").
CleanupOrdered ==
    /\ closes <= 1
    /\ closed # {} => Quiet /\ ~serving /\ slots = 0
    /\ shut.pc = "returned" /\ ~shut.failed => Quiet /\ ~serving /\ closed = held /\ shut.clean = "over"
    /\ shut.clean = "dispatch" => Active = {} /\ loops = {}

\* A proof is made only under a slot, whatever is cancelled meanwhile ("Cancellation
\* cannot release capacity while synchronous Prove runs"), no slot is lost, and a
\* request cancelled before the gate is not answered with success (ExecuteJob).
ProvingBounded ==
    /\ slots = Cardinality(Holders) /\ slots <= MaxProofs
    /\ \A h \in Handlers : rpc[h].reply = "success" => ~rpc[h].cancelled

\* shutdown returns even if startup, a loop or a handler never ends; and once all
\* of them have ended the cleanup goroutine ends as well.
Drains ==
    /\ shut.pc = "begun" ~> shut.pc = "returned"
    /\ <>[](draining /\ Quiet) => <>(shut.clean = "over")
====
