------------------------------- MODULE Barrier -------------------------------
(***************************************************************************)
(* What the start barrier of tools/bench promises of a supervised run: the *)
(* target is held until it has been observed, works only after its release, *)
(* and is observed again at work before anybody calls the run a success.    *)
(***************************************************************************)
EXTENDS Naturals, Sequences

VARIABLES stage,    \* how far the target and its observation have come
          verdict   \* what the Supervisor reports

vars == <<stage, verdict>>

STAGES == <<"held", "observed", "released", "working", "confirmed">>

Init == stage = "held" /\ verdict = "none"

\* One thing happens after the other; the run may be given up at any stage.
Advance(n) == stage = STAGES[n] /\ stage' = STAGES[n + 1] /\ UNCHANGED verdict

Accept == verdict = "none" /\ stage = "confirmed" /\ verdict' = "accepted" /\ UNCHANGED stage

Refuse == verdict = "none" /\ verdict' = "refused" /\ UNCHANGED stage

Next == (\E n \in 1..4 : Advance(n)) \/ Accept \/ Refuse

Spec == Init /\ [][Next]_vars
=============================================================================
