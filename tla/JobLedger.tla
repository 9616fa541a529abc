----------------------------- MODULE JobLedger -----------------------------
(***************************************************************************)
(* What the jobs table promises to whoever reads it, however the           *)
(* coordinator crashes and restarts: a row moves to the next generation,   *)
(* a running generation is closed once or put back for recovery, and       *)
(* nothing else ever happens to it.  JobExecution implements it.           *)
(***************************************************************************)
EXTENDS Integers

CONSTANTS Jobs, Specs, Canon, Invalid, InitialRows, Closed

VARIABLE ledger   \* JobID -> [state, attempt, spec]

Init == ledger \in [Jobs -> InitialRows]

(* A new generation: the next number, saved before it is dispatched *)
Start(j, s) ==
    ledger' = [ledger EXCEPT ![j] = [state |-> "Running",
                  attempt |-> ledger[j].attempt + 1, spec |-> s]]

(* The running generation ends in a terminal state and stays there *)
Close(j, state) ==
    /\ ledger[j].state = "Running"
    /\ ledger' = [ledger EXCEPT ![j].state = state]

(* The running generation waits for recovery, its inputs in canonical form *)
Suspend(j) ==
    /\ ledger[j].state = "Running"
    /\ Canon[ledger[j].spec] # Invalid
    /\ ledger' = [ledger EXCEPT ![j].state = "Recovering",
                                ![j].spec = Canon[ledger[j].spec]]

Next ==
    \E j \in Jobs :
       \/ \E s \in Specs : Canon[s] = s /\ Start(j, s)
       \/ \E state \in Closed : Close(j, state)
       \/ Suspend(j)

Spec == Init /\ [][Next]_ledger
=============================================================================
