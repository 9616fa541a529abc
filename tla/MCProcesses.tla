----------------------------- MODULE MCProcesses -----------------------------
(***************************************************************************)
(* Lifecycle, Registry and Executor share no state: one instance checks the  *)
(* three side by side.  The component that moves is chosen at the start, and *)
(* the other two keep their initial states.                                  *)
(***************************************************************************)
EXTENDS Lifecycle, Registry

CONSTANTS Jobs, Submitters, Pool, Callers, QueueSize

VARIABLES which,
          state, cancelled, registry, queue, queueClosed, submit, pool, caller

E == INSTANCE Executor

executorVars == <<state, cancelled, registry, queue, queueClosed, submit, pool, caller>>

all == <<which, vars, registryVars, executorVars>>

OfLifecycle == which = "lifecycle" /\ UNCHANGED <<which, registryVars, executorVars>>

OfRegistry == which = "registry" /\ UNCHANGED <<which, vars, executorVars>>

OfExecutor == which = "executor" /\ UNCHANGED <<which, vars, registryVars>>

MCInit == which \in {"lifecycle", "registry", "executor"} /\ Init /\ RegistryInit /\ E!Init

MCNext == (Next /\ OfLifecycle) \/ (RegistryNext /\ OfRegistry) \/ (E!Next /\ OfExecutor)

\* Fair are the goroutines of shutdown and its clock (not startup, loops and
\* handlers); the heartbeat loops; and the goroutines of the pool and its callers
\* (not the reader of results).
MCSpec ==
    /\ MCInit /\ [][MCNext]_all
    /\ WF_all(Caller /\ OfLifecycle) /\ WF_all(Expire /\ OfLifecycle) /\ WF_all(Stop /\ OfLifecycle)
    /\ WF_all(Cleanup /\ OfLifecycle) /\ WF_all(shut.stopped /\ ServeEnds /\ OfLifecycle)
    /\ \A w \in Workers : WF_all(Heartbeat(w) /\ OfRegistry) /\ WF_all(Reregister(w) /\ OfRegistry)
    /\ \A s \in Submitters : WF_all(E!Submit(s) /\ OfExecutor)
    /\ \A p \in Pool : WF_all(E!Work(p) /\ OfExecutor)
    /\ \A c \in Callers : WF_all(E!Shutdown(c) /\ OfExecutor)

\* Whoever waits is released: a shutdown by its deadline and its cleanup by the end
\* of what it joins (shutdown), a worker the Coordinator has forgotten by its next
\* heartbeat (workerheartbeat.Send), and a ForceShutdown whatever the reader of
\* results does, with every accepted job terminal (Executor).
Progress == Drains /\ Rejoins /\ E!Resolves
====
