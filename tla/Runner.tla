------------------------------- MODULE Runner -------------------------------
(***************************************************************************)
(* tools/bench/run_check.py: run_command starts the target as leader of a  *)
(* session of its own, watches it (interrupts, exit, wall clock, monitor,   *)
(* stage watchdog, resource stops), then cleanup() signals what is left of   *)
(* the process group, reaps the leader and inspects once more, and the       *)
(* verdict is published in result.json.                                     *)
(*                                                                         *)
(* The group lives on while Runner works: members fork, exit, die of the   *)
(* signals they were sent (some ignore SIGTERM, a SIGKILL may take longer   *)
(* than kill_grace), and are reaped; only Runner reaps the leader, and only   *)
(* in process.wait.  group_snapshot lists /proc once and then reads PID by    *)
(* PID, so a member forked after the listing is not seen.  A SIGINT or        *)
(* SIGTERM may reach Runner at any step.  The wall clock, the graces and      *)
(* the wait for the leader are one timer, armed for each in turn.            *)
(***************************************************************************)
EXTENDS Integers, FiniteSets, FiniteSetsExt

CONSTANTS Pids,        \* PIDs, numbers: /proc is read in their order
          Leader,      \* PID, PGID and SID of the target
          MaxForks,    \* bound: forks of the target
          MaxTrouble   \* bound: reads, writes and calls of Runner that fail, and
                       \* SIGINT or SIGTERM to Runner

ASSUME RunnerAssumption ==
    /\ Pids \subseteq Nat /\ IsFiniteSet(Pids) /\ Leader \in Pids
    /\ MaxForks \in Nat /\ MaxTrouble \in Nat

VARIABLES
    proc,     \* PID |-> "free", "live", "zombie" in the group, or "foreign"
    deaf,     \* members that ignore SIGTERM
    doomed,   \* members with a deadly signal on its way
    exit,     \* how the leader ended
    pc,       \* the step of run_command or cleanup
    scan,     \* the group_snapshot at hand: what it is for, PIDs to read, live ones, errors
    late,     \* the armed deadline has passed
    rec,      \* the record that result.json gets
    signals,  \* interrupts.signals, by number
    known,    \* history: members alive when the final inspection listed /proc, and still
    forks, faults

target == <<proc, deaf, doomed, exit, known, forks>>
runner == <<pc, scan, late, rec>>
vars == <<target, runner, signals, faults>>

Group == {p \in Pids : proc[p] = "live"}

(***************************************************************************)
(* The target and its group.                                               *)
(***************************************************************************)
Fork(p, c) ==
    /\ proc[p] = "live" /\ p \notin doomed /\ proc[c] = "free" /\ c # Leader
    /\ forks < MaxForks /\ forks' = forks + 1
    /\ proc' = [proc EXCEPT ![c] = "live"]
    /\ deaf' \in {deaf \cup {c}, deaf \ {c}}
    /\ UNCHANGED <<doomed, exit, known, runner, signals, faults>>

Ends(p, how) ==
    /\ proc[p] = "live"
    /\ proc' = [proc EXCEPT ![p] = "zombie"]
    /\ doomed' = doomed \ {p} /\ known' = known \ {p}
    /\ exit' = IF p = Leader THEN how ELSE exit
    /\ UNCHANGED <<deaf, forks, runner, signals, faults>>

Exit(p) == \E how \in {"zero", "nonzero"} : Ends(p, how)

Die(p) == p \in doomed /\ Ends(p, "signal")

ReapMember(p) ==
    /\ p # Leader /\ proc[p] = "zombie"
    /\ proc' = [proc EXCEPT ![p] = "free"]
    /\ UNCHANGED <<deaf, doomed, exit, known, forks, runner, signals, faults>>

\* Once the leader is reaped and its group is empty, its number may become the
\* group of an unrelated process.
Reuse ==
    /\ rec.process
    /\ \A p \in Pids : proc[p] = "free"
    /\ proc' = [proc EXCEPT ![Leader] = "foreign"]
    /\ UNCHANGED <<deaf, doomed, exit, known, forks, runner, signals, faults>>

Target == \E p \in Pids : Exit(p) \/ Die(p) \/ ReapMember(p) \/ \E c \in Pids : Fork(p, c)

\* The handler of Interrupts only records.
Interrupt ==
    /\ signals + faults < MaxTrouble
    /\ signals' = signals + 1
    /\ UNCHANGED <<target, runner, faults>>

\* The deadlines that some later step reads: the wall clock's while the loop runs,
\* a grace while wait_group runs, and the one of process.wait.
Timed == \/ pc \in {"loop", "poll", "wall", "monitor", "wait"}
         \/ pc = "scan" /\ scan.why \in {"term_wait", "kill_wait"}

Tick ==
    /\ Timed /\ ~late /\ late' = TRUE
    /\ UNCHANGED <<target, pc, scan, rec, signals, faults>>

(***************************************************************************)
(* run_command up to cleanup.                                              *)
(***************************************************************************)
Idle == [why |-> "none", todo |-> {}, live |-> {}, errors |-> FALSE]

Goto(l, r) == pc' = l /\ rec' = r /\ UNCHANGED <<scan, late>>

Works == UNCHANGED faults

Fails == signals + faults < MaxTrouble /\ faults' = faults + 1

Primary(outcome) == [rec EXCEPT !.primary = outcome]

\* Mutant: the exception replaces the cause that was already recorded.
CaughtLast == [rec EXCEPT !.primary = "runner_error"]

\* An exception inside the try block.
Caught ==
    IF rec.primary = "not_started" THEN Primary("runner_error")
    ELSE [rec EXCEPT !.execution_errors = TRUE, !.evidence_complete = FALSE]

Start ==
    /\ pc = "start" /\ UNCHANGED <<deaf, doomed, exit, known, forks, signals>>
    /\ \/ /\ Works /\ Goto("owner", [rec EXCEPT !.process = TRUE])
          /\ proc' = [proc EXCEPT ![Leader] = "live"]
       \/ Fails /\ Goto("settle", Caught) /\ UNCHANGED proc

Owner ==
    /\ pc = "owner" /\ UNCHANGED <<target, signals>>
    /\ \/ Works /\ Goto("loop", [rec EXCEPT !.owner = TRUE])
       \/ Fails /\ Goto("cleanup", Caught)
       \/ Fails /\ Goto("cleanup", [Caught EXCEPT !.owner = TRUE])

Loop ==
    /\ pc = "loop" /\ UNCHANGED <<target, signals>> /\ Works
    /\ IF signals > 0 THEN Goto("close", Primary("interrupted")) ELSE Goto("poll", rec)

\* Mutant: the poll reaps the leader (no WNOWAIT).
PollReaps ==
    /\ pc = "poll" /\ UNCHANGED <<deaf, doomed, exit, known, forks, signals>> /\ Works
    /\ IF proc[Leader] = "zombie"
       THEN /\ Goto("close", Primary(IF exit = "zero" THEN "command_success" ELSE "command_failed"))
            /\ proc' = [proc EXCEPT ![Leader] = "free"]
       ELSE Goto("wall", rec) /\ UNCHANGED proc

\* observed_exit: waitid with WNOWAIT.
Poll ==
    /\ pc = "poll" /\ UNCHANGED <<target, signals>> /\ Works
    /\ IF proc[Leader] = "zombie"
       THEN Goto("close", Primary(IF exit = "zero" THEN "command_success" ELSE "command_failed"))
       ELSE Goto("wall", rec)

Wall ==
    /\ pc = "wall" /\ UNCHANGED <<target, signals>> /\ Works
    /\ IF late THEN Goto("close", Primary("timeout")) ELSE Goto("monitor", rec)

\* monitor() raises, or returns the group's RSS ("high" is above the escalation
\* limit, "stop" above the stop limit) and whether MemAvailable is too low; a
\* stage line may be malformed, and a stage may be over its budget.
Monitor ==
    /\ pc = "monitor" /\ UNCHANGED <<target, signals>>
    /\ \/ Fails /\ Goto("close", Caught)
       \/ \E rss \in {"low", "high", "stop"}, scarce \in BOOLEAN :
            LET r == [rec EXCEPT !.escalation = @ \/ rss # "low"]
            IN \/ Fails /\ Goto("close", [r EXCEPT !.primary = "runner_error"])
               \/ Works /\ Goto("close", [r EXCEPT !.primary = "timeout"])
               \/ /\ Works
                  /\ IF rss = "stop" \/ scarce
                     THEN Goto("close", [r EXCEPT !.primary = "resource_stop"])
                     ELSE Goto("loop", r)

\* The output files are closed.
Close ==
    /\ pc = "close" /\ UNCHANGED <<target, signals>>
    /\ \/ Works /\ Goto("cleanup", rec)
       \/ Fails /\ Goto("cleanup", Caught)

(***************************************************************************)
(* cleanup(): every inspect() is a ScanBegin, a ScanPid per PID of the     *)
(* listing, and the step that uses the snapshot.                           *)
(***************************************************************************)
ScanBegin(why, timer) ==
    /\ pc' = "scan" /\ late' = timer
    /\ scan' = [why |-> why, todo |-> {p \in Pids : proc[p] # "free"}, live |-> {}, errors |-> FALSE]

ScanPid ==
    /\ pc = "scan" /\ scan.todo # {} /\ UNCHANGED <<target, signals, pc, late>>
    /\ LET p == Min(scan.todo)
       IN \/ /\ Works /\ UNCHANGED rec
             /\ scan' = [scan EXCEPT !.todo = @ \ {p},
                                     !.live = IF proc[p] \in {"live", "foreign"} THEN @ \cup {p} ELSE @]
          \/ /\ Fails /\ rec' = [rec EXCEPT !.snapshot_errors = TRUE]
             /\ scan' = [scan EXCEPT !.todo = @ \ {p}, !.errors = TRUE]

Snapshot(why) == pc = "scan" /\ scan.why = why /\ scan.todo = {}

Cleanup ==
    /\ pc = "cleanup" /\ UNCHANGED <<target, rec, signals>> /\ Works
    /\ ScanBegin("initial", FALSE)

\* signal_group: the original leader must still be there, under its identity.
Authorised == rec.owner /\ proc[Leader] \in {"live", "zombie"}

\* An exception in the signalling part of cleanup.
Unverifiable == pc' = "wait" /\ late' = FALSE /\ scan' = Idle
                /\ rec' = [rec EXCEPT !.outcome = "unverifiable"]

\* The last line of that part: a snapshot with errors proves nothing.
Settled(outcome) ==
    pc' = "wait" /\ late' = FALSE /\ scan' = Idle
    /\ rec' = [rec EXCEPT !.outcome = IF rec.snapshot_errors THEN "unverifiable" ELSE outcome]

\* signal_group reads the leader's identity, then inspects before it signals.
ToSignal(why) ==
    \/ Authorised /\ Works /\ ScanBegin(why, FALSE) /\ UNCHANGED rec
    \/ ~Authorised /\ Works /\ Unverifiable
    \/ Fails /\ Unverifiable

Initial ==
    /\ Snapshot("initial") /\ UNCHANGED <<target, signals>>
    /\ \/ scan.live = {} /\ Works /\ Settled("not_needed")
       \/ scan.live # {} /\ ToSignal("term")

Signal(why, next, hit) ==
    /\ Snapshot(why) /\ Works /\ UNCHANGED <<proc, deaf, exit, known, forks, signals, rec>>
    /\ doomed' = doomed \cup hit
    /\ ScanBegin(next, FALSE)

Term == Signal("term", "term_wait", Group \ deaf)

Kill == Signal("kill", "kill_wait", Group)

\* Mutant: the wait is over only when the group is empty.
WaitOnAlways(why) == /\ Snapshot(why) /\ scan.live # {}
                     /\ ScanBegin(why, late) /\ UNCHANGED <<target, rec, signals, faults>>

\* wait_group: another snapshot while something lives and the grace is not over.
WaitOn(why) == /\ Snapshot(why) /\ scan.live # {} /\ ~late
               /\ ScanBegin(why, late) /\ UNCHANGED <<target, rec, signals, faults>>

WaitOver(why) == Snapshot(why) /\ (scan.live = {} \/ late) /\ UNCHANGED <<target, signals>>

TermWait ==
    \/ WaitOn("term_wait")
    \/ /\ WaitOver("term_wait")
       /\ \/ scan.live = {} /\ Works /\ Settled("after_sigterm")
          \/ scan.live # {} /\ ToSignal("kill")

KillWait ==
    \/ WaitOn("kill_wait")
    \/ /\ WaitOver("kill_wait") /\ Works
       /\ Settled(IF scan.live = {} THEN "after_sigkill" ELSE "incomplete")

\* process.wait(timeout=kill_grace), then the final inspection.
Reaped ==
    /\ pc = "wait" /\ UNCHANGED <<deaf, doomed, exit, forks, signals>> /\ Works
    /\ ScanBegin("final", FALSE)
    /\ \/ /\ proc[Leader] = "zombie" /\ proc' = [proc EXCEPT ![Leader] = "free"]
          /\ rec' = [rec EXCEPT !.reaped = TRUE]
       \/ /\ proc[Leader] = "free" /\ UNCHANGED proc
          /\ rec' = [rec EXCEPT !.reaped = TRUE]
       \/ /\ late /\ UNCHANGED proc
          /\ rec' = [rec EXCEPT !.outcome = "incomplete"]
    /\ known' = Group

\* Mutant: the final inspection is not consulted.
FinalUnread ==
    /\ Snapshot("final") /\ UNCHANGED <<target, signals>> /\ Works
    /\ pc' = "settle" /\ scan' = Idle /\ UNCHANGED <<late, rec>>

Final ==
    /\ Snapshot("final") /\ UNCHANGED <<target, signals>> /\ Works
    /\ pc' = "settle" /\ scan' = Idle /\ UNCHANGED late
    /\ rec' = [rec EXCEPT !.outcome = IF scan.errors THEN "unverifiable"
                                      ELSE IF scan.live # {} THEN "incomplete" ELSE @]

(***************************************************************************)
(* The verdict.                                                            *)
(***************************************************************************)
CleanupSuccess(r) ==
    \/ ~r.process
    \/ r.outcome \in {"not_needed", "after_sigterm", "after_sigkill"} /\ r.reaped

Settle ==
    /\ pc = "settle" /\ UNCHANGED <<target, signals>> /\ Works
    /\ Goto("capture", IF signals > 0 /\ rec.primary = "command_success"
                       THEN Primary("interrupted") ELSE rec)

\* Sizes and hashes of the two output files.
Capture ==
    /\ pc = "capture" /\ UNCHANGED <<target, signals>>
    /\ \/ Works /\ Goto("judge", rec)
       \/ Fails /\ Goto("judge", [rec EXCEPT !.evidence_complete = FALSE])

Judge ==
    /\ pc = "judge" /\ UNCHANGED <<target, signals>> /\ Works
    /\ Goto("report", [rec EXCEPT !.success =
            /\ rec.primary = "command_success" /\ CleanupSuccess(rec)
            /\ rec.evidence_complete /\ ~rec.escalation /\ signals = 0])

\* reporter(result.json); the record holds the live list of signals.
Report ==
    /\ pc = "report" /\ UNCHANGED <<target, signals>>
    /\ \/ Works /\ Goto("done", [rec EXCEPT !.published = TRUE, !.runner_signals = signals])
       \/ Fails /\ Goto("done", [rec EXCEPT !.evidence_complete = FALSE, !.success = FALSE])

Init ==
    /\ proc = [p \in Pids |-> "free"] /\ deaf \in SUBSET {Leader} /\ doomed = {}
    /\ exit = "running" /\ pc = "start" /\ scan = Idle /\ late = FALSE
    /\ rec = [primary |-> "not_started", process |-> FALSE, owner |-> FALSE,
              execution_errors |-> FALSE, evidence_complete |-> TRUE, escalation |-> FALSE,
              snapshot_errors |-> FALSE, outcome |-> "none", reaped |-> FALSE,
              success |-> FALSE, published |-> FALSE, runner_signals |-> 0]
    /\ signals = 0 /\ known = {} /\ forks = 0 /\ faults = 0

Steps == \/ Start \/ Owner \/ Loop \/ Poll \/ Wall \/ Monitor \/ Close \/ Cleanup
         \/ ScanPid \/ Initial \/ Term \/ TermWait \/ Kill \/ KillWait \/ Reaped \/ Final
         \/ Settle \/ Capture \/ Judge \/ Report

\* What happens after run_command has returned is not followed.
Next == pc # "done" /\ (Target \/ Reuse \/ Interrupt \/ Tick \/ Steps)

Spec == Init /\ [][Next]_vars

(***************************************************************************)
(* Runner is scheduled and its clock moves on.  Nothing is assumed of the  *)
(* target: it need not exit, and need not die of the signals it gets.      *)
(***************************************************************************)
FairSpec == Spec /\ WF_vars(Steps) /\ WF_vars(Tick)

(***************************************************************************)
(* Properties.                                                             *)
(***************************************************************************)
Done == pc = "done"

\* cleanup() reports success only when the leader is reaped and every member
\* that was alive when its final inspection listed /proc is dead, whatever
\* forked, ignored SIGTERM or outlived a grace before.  run_command reports
\* success only for a leader that exited by itself with status zero.
CleanupHonest ==
    /\ Done /\ rec.process /\ CleanupSuccess(rec) => rec.reaped /\ known = {}
    /\ Done /\ rec.success => exit = "zero" /\ rec.published

\* The leader stays unreaped until cleanup is through with its group: as long
\* as no read of /proc fails, cleanup never ends "unverifiable", not even when
\* the leader exited first and left members behind.
AnchorHeld == Done /\ faults = 0 => rec.outcome # "unverifiable"

\* The first cause that run_command records stays: a later exception, signal or
\* cleanup failure does not replace it, except that a signal turns a
\* command_success into interrupted.
FirstCauseKept ==
    [][rec'.primary # rec.primary =>
          \/ rec.primary = "not_started"
          \/ rec.primary = "command_success" /\ rec'.primary = "interrupted"]_vars

\* Runner ends, whatever the target does: every wait of run_command and of
\* cleanup has a deadline.
RunEnds == <>Done
=============================================================================
