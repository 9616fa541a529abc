------------------------------ MODULE Registry ------------------------------
(***************************************************************************)
(* Which workers the Coordinator knows and whom it gives the next attempt:   *)
(* registration, heartbeat, the liveness monitor and getNextWorker            *)
(* (cmd/coordinator/workers.go), with the heartbeat loop of each worker       *)
(* (workerheartbeat.Send), lost calls, crashes, and a Coordinator that        *)
(* restarts with an empty registry.                                          *)
(***************************************************************************)
EXTENDS Integers, FiniteSets, Sequences, FiniteSetsExt

CONSTANTS Workers,
          Timeout,    \* workerTimeout, in ticks
          MaxTrouble  \* crashes, lost calls and restarts

VARIABLES status,   \* workers[w].Status; "none" is no entry
          silent,   \* time since workers[w].LastSeen
          order,    \* workerOrder
          next,     \* nextWorker
          up,       \* worker processes that run
          refused,  \* workers whose heartbeat was not accepted and that register next
          passes,   \* times v (or Nobody) was chosen while w was waiting and alive
          budget

registryVars == <<status, silent, order, next, up, refused, passes, budget>>

Nobody == "nobody"

ASSUME RegistryAssumption == Nobody \notin Workers

Trouble == budget > 0 /\ budget' = budget - 1

NeverPassed == [v \in Workers \cup {Nobody} |-> 0]

Alive == {w \in Workers : status[w] = "Alive"}

\* RegisterWorker: an unknown worker goes to the end of the order.
RegisterWorker(w) ==
    /\ status' = [status EXCEPT ![w] = "Alive"] /\ silent' = [silent EXCEPT ![w] = 0]
    /\ order' = IF status[w] = "none" THEN Append(order, w) ELSE order

StartWorker(w) ==
    /\ w \notin up /\ up' = up \cup {w} /\ RegisterWorker(w) /\ UNCHANGED <<next, refused, passes, budget>>

\* Heartbeat: a known worker is alive again, an unknown one is told so.
Heartbeat(w) ==
    /\ w \in up \ refused /\ UNCHANGED <<order, next, up, passes, budget>>
    /\ IF status[w] = "none" THEN refused' = refused \cup {w} /\ UNCHANGED <<status, silent>>
       ELSE /\ status' = [status EXCEPT ![w] = "Alive"] /\ silent' = [silent EXCEPT ![w] = 0]
            /\ UNCHANGED refused

\* Send registers a worker that the Coordinator has lost; the call may be lost too.
Reregister(w) ==
    /\ w \in refused /\ refused' = refused \ {w} /\ UNCHANGED <<next, up, passes>>
    /\ \/ RegisterWorker(w) /\ UNCHANGED budget
       \/ Trouble /\ UNCHANGED <<status, silent, order>>

Crash(w) ==
    /\ w \in up /\ up' = up \ {w} /\ refused' = refused \ {w} /\ Trouble
    /\ UNCHANGED <<status, silent, order, next, passes>>

Tick ==
    /\ silent' = [w \in Workers |-> IF status[w] = "Alive" THEN Min({silent[w] + 1, Timeout + 1}) ELSE silent[w]]
    /\ UNCHANGED <<status, order, next, up, refused, passes, budget>>

checkWorkerLiveness ==
    LET dead == {w \in Alive : silent[w] > Timeout}
    IN /\ status' = [w \in Workers |-> IF w \in dead THEN "Dead" ELSE status[w]]
       /\ silent' = [w \in Workers |-> IF w \in dead THEN 0 ELSE silent[w]]
       /\ passes' = [w \in Workers |-> IF w \in dead THEN NeverPassed ELSE passes[w]]
       /\ UNCHANGED <<order, next, up, refused, budget>>

\* Mutant: the cursor moves once per call, and not past the workers it skips.
CursorOnce(skipped) == (next + 1) % Len(order)

\* The cursor after the call looked at skipped workers and took the next one.
Cursor(skipped) == (next + skipped + 1) % Len(order)

\* getNextWorker looks at every position once, starting at the cursor.
getNextWorker ==
    LET at(i)  == order[((next + i) % Len(order)) + 1]
        found  == {i \in 0..(Len(order) - 1) : status[at(i)] = "Alive"}
        chosen == IF found = {} THEN Nobody ELSE at(Min(found))
    IN /\ next' = IF found = {} THEN next ELSE Cursor(Min(found))
       /\ passes' = [w \in Workers |->
            IF w = chosen \/ w \notin Alive THEN NeverPassed
            ELSE [passes[w] EXCEPT ![chosen] = Min({@ + 1, 2})]]
       /\ UNCHANGED <<status, silent, order, up, refused, budget>>

\* The registry is not stored.
RestartCoordinator ==
    /\ Trouble /\ status' = [w \in Workers |-> "none"] /\ silent' = [w \in Workers |-> 0]
    /\ order' = <<>> /\ next' = 0 /\ passes' = [w \in Workers |-> NeverPassed]
    /\ UNCHANGED <<up, refused>>

RegistryInit ==
    /\ status = [w \in Workers |-> "none"] /\ silent = [w \in Workers |-> 0] /\ order = <<>> /\ next = 0
    /\ up = {} /\ refused = {} /\ passes = [w \in Workers |-> NeverPassed] /\ budget = MaxTrouble

RegistryNext ==
    \/ \E w \in Workers : StartWorker(w) \/ Heartbeat(w) \/ Reregister(w) \/ Crash(w)
    \/ Tick \/ checkWorkerLiveness \/ getNextWorker \/ RestartCoordinator

RegistrySpec == RegistryInit /\ [][RegistryNext]_registryVars

\* While a worker is alive nobody is chosen twice before it, and a choice finds a
\* worker whenever there is one, however workers join, die, come back and are lost
\* in between (getNextWorker).
RoundRobin ==
    \A w \in Workers : passes[w][Nobody] = 0 /\ \A v \in Workers : passes[w][v] <= 1

\* A worker that keeps running is known and alive again and again, also after the
\* Coordinator has restarted and forgotten it (workerheartbeat.Send).
Rejoins == \A w \in Workers : <>[](w \in up) => []<>(w \in Alive)
====
