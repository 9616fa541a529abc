----------------------------- MODULE GroupStream -----------------------------
(***************************************************************************)
(* The stream of resource samples of one run: tools/bench/group_rss.py's   *)
(* Recorder writes it row by row and keeps a summary as it goes, Runner      *)
(* takes its resource decisions from the same samples (run_check.py), and     *)
(* two readers that share no code with either judge it afterwards:            *)
(* group_audit.audit recomputes the summary from the rows, and                *)
(* g4_verify.resource_decision recomputes Runner's decision.                  *)
(*                                                                         *)
(* Two adapters feed the stream.  group_run.py (mode "g3") knows no phases.  *)
(* g4_bootstrap.py (mode "g4") takes its phase from the Supervisor's events: *)
(* the first sample is taken when the target is ready and the second after it *)
(* acknowledged its release; events and rows are stamped by one clock.        *)
(*                                                                         *)
(* Sizes are in KiB: /proc reports kB, so the byte counts are multiples and   *)
(* the conversions between the two are exact.  How a row gets its status is   *)
(* GroupObservation's matter; here it is any of the five.                     *)
(***************************************************************************)
EXTENDS Integers, Sequences, FiniteSets, FiniteSetsExt

CONSTANTS MaxSamples,     \* MAX_SAMPLES of the recorder
          Rss,            \* RSS values of COMPLETE rows
          Avail,          \* MemAvailable values
          RssStop, AvailableStop, EscalationStop

ASSUME StreamAssumption ==
    /\ MaxSamples \in Nat /\ Rss \subseteq Nat /\ Avail \subseteq Nat
    /\ {RssStop, AvailableStop, EscalationStop} \subseteq Nat

None == -1

Statuses == {"COMPLETE", "PARTIAL", "INVALID", "NO_LIVE_MEMBERS", "ZOMBIE_ONLY"}

Usable == {"COMPLETE", "ZOMBIE_ONLY", "NO_LIVE_MEMBERS"}

PHASES == <<"unknown", "readiness", "workload", "cleanup">>

Rank(p) == CHOOSE i \in 1..4 : PHASES[i] = p

VARIABLES mode,    \* "g3" or "g4"
          pc,      \* "monitor", "cleanup", "close", "done"
          now,     \* the monotonic clock
          rows,    \* the JSONL file
          recorder,\* Recorder's fields
          link,    \* events exchanged with the Supervisor, and the current phase
          core     \* Runner's record: primary, peak, minimum, and its own verdict

vars == <<mode, pc, now, rows, recorder, link, core>>

(***************************************************************************)
(* Recorder.                                                               *)
(***************************************************************************)
NewRecorder ==
    [error |-> FALSE, statuses |-> [s \in Statuses |-> 0],
     phases |-> [p \in {PHASES[i] : i \in 1..4} |-> [samples |-> 0, complete |-> 0, peak |-> None]],
     monitorPeak |-> None, lastEnd |-> None, maxGap |-> None]

\* max(x or 0, y)
Raise(x, y) == IF x = None THEN y ELSE Max({x, y})

\* Mutant: the sample after cleanup counts for the monitor's peak too.
TalliedAll(r, row) ==
    LET whole == row.status = "COMPLETE"
    IN [r EXCEPT !.statuses[row.status] = @ + 1,
                 !.phases[row.phase].samples = @ + 1,
                 !.phases[row.phase].complete = IF whole THEN @ + 1 ELSE @,
                 !.phases[row.phase].peak = IF whole THEN Raise(@, row.rss) ELSE @,
                 !.monitorPeak = IF whole THEN Raise(@, row.rss) ELSE @,
                 !.maxGap = IF r.lastEnd = None THEN @ ELSE Raise(@, row.start - r.lastEnd),
                 !.lastEnd = row.end]

\* The recorder's state after a row that was stored.
Tallied(r, row) ==
    LET whole == row.status = "COMPLETE"
    IN [r EXCEPT !.statuses[row.status] = @ + 1,
                 !.phases[row.phase].samples = @ + 1,
                 !.phases[row.phase].complete = IF whole THEN @ + 1 ELSE @,
                 !.phases[row.phase].peak = IF whole THEN Raise(@, row.rss) ELSE @,
                 !.monitorPeak = IF whole /\ row.site = "runner_monitor"
                                 THEN Raise(@, row.rss) ELSE @,
                 !.maxGap = IF r.lastEnd = None THEN @ ELSE Raise(@, row.start - r.lastEnd),
                 !.lastEnd = row.end]

\* append(): the row is stored and counted, or storage failed for good.
Append_(row, stored) ==
    IF stored THEN rows' = Append(rows, row) /\ recorder' = Tallied(recorder, row)
              ELSE rows' = rows /\ recorder' = [recorder EXCEPT !.error = TRUE]

\* A row that observe() can return at some time from t on.
RowsAt(t, phase, event, site) ==
    {row \in [status : Statuses, rss : Rss \cup {None}, avail : Avail, phase : {phase},
              event : {event}, site : {site}, start : {t, t + 1}, end : {t + 1, t + 2}] :
        (row.status = "COMPLETE" <=> row.rss # None) /\ row.end = row.start + 1}

(***************************************************************************)
(* Runner's loop with the adapter's monitor (group_run.run.monitor and      *)
(* g4_bootstrap.Monitor).  Where the adapter waits for the Supervisor, an   *)
(* event comes with its stamp, or the channel fails.                       *)
(***************************************************************************)
Stopped(c, outcome) == core' = [c EXCEPT !.primary = outcome] /\ pc' = "cleanup"

\* The leader exits, a signal comes, or the wall clock runs out, before the
\* next sample.
Ends ==
    /\ pc = "monitor" /\ UNCHANGED <<mode, now, rows, recorder, link>>
    /\ \E outcome \in {"command_success", "command_failed", "interrupted", "timeout"} :
          Stopped(core, outcome)

\* The link when the next sample is taken, after the events received for it.
NextPhase ==
    CASE mode = "g4" /\ link.seq = 0 ->
            {[link EXCEPT !.owner = TRUE, !.seq = 1, !.phase = "readiness", !.event = t] :
                t \in {now - 1, now} \cap Nat}
      [] mode = "g4" /\ link.seq = 2 ->
            {[link EXCEPT !.seq = 4, !.phase = "workload", !.event = t] :
                t \in {t \in {now - 1, now} : t >= link.sent}}
      [] OTHER -> {[link EXCEPT !.owner = TRUE]}

\* The monitor raises; a usable row that was stored is lost to Runner.
Raises(l, row) ==
    /\ link' = [l EXCEPT !.failed = TRUE]
    /\ Stopped([core EXCEPT !.lost = @ \/ row.status \in Usable], "runner_error")

\* owner.json is unreadable, or the channel breaks or times out.
NoPhase ==
    /\ pc = "monitor" /\ UNCHANGED <<mode, now, rows, recorder>>
    /\ \E owner \in {link.owner, mode = "g4"} :
          Raises([link EXCEPT !.owner = owner], [status |-> "none"])

\* Mutant: MemAvailable is looked at before the group's RSS.
DecideAvailableFirst(row) ==
    LET rss == IF row.status = "COMPLETE" THEN row.rss ELSE 0
        c   == [core EXCEPT !.peak = Max({@, rss}),
                            !.minimum = IF @ = None THEN row.avail ELSE Min({@, row.avail})]
    IN \/ row.avail < AvailableStop /\ Stopped(c, "available_stop")
       \/ row.avail >= AvailableStop /\ rss > RssStop /\ Stopped(c, "rss_stop")
       \/ ~(rss > RssStop \/ row.avail < AvailableStop) /\ core' = c /\ pc' = "monitor"

\* The sample is delivered: Runner parses stage lines, checks the stage
\* watchdog, then the resource limits.
Decide(row) ==
    LET rss == IF row.status = "COMPLETE" THEN row.rss ELSE 0
        c   == [core EXCEPT !.peak = Max({@, rss}),
                            !.minimum = IF @ = None THEN row.avail ELSE Min({@, row.avail})]
    IN \/ Stopped(c, "runner_error")
       \/ Stopped(c, "stage_timeout")
       \/ rss > RssStop /\ Stopped(c, "rss_stop")
       \/ rss <= RssStop /\ row.avail < AvailableStop /\ Stopped(c, "available_stop")
       \/ ~(rss > RssStop \/ row.avail < AvailableStop) /\ core' = c /\ pc' = "monitor"

\* Mutant: any usable sample serves as evidence of a phase.
PersistsAny(l, row) == mode = "g4" /\ l.seq \in {1, 4} /\ row.status \in Usable

\* The first sample of a phase must be COMPLETE; its receipt goes to the
\* Supervisor, and the next event is not before it.
Persists(l, row) == mode = "g4" /\ l.seq \in {1, 4} /\ row.status = "COMPLETE"

Sample ==
    /\ pc = "monitor" /\ UNCHANGED mode
    /\ \E l \in NextPhase : \E row \in RowsAt(now, l.phase, l.event, "runner_monitor") :
          /\ now' = row.end
          /\ \/ Append_(row, FALSE) /\ Raises(l, [status |-> "none"])
             \/ /\ Len(rows) < MaxSamples /\ Append_(row, TRUE)
                /\ \/ row.status \notin Usable /\ Raises(l, row)
                   \/ /\ row.status \in Usable /\ mode = "g4" /\ l.seq \in {1, 4}
                      /\ Raises(l, row)
                   \/ /\ Persists(l, row)
                      /\ link' = [l EXCEPT !.seq = @ + 1, !.sent = row.end] /\ Decide(row)
                   \/ /\ row.status \in Usable /\ ~(mode = "g4" /\ l.seq \in {1, 4})
                      /\ link' = l /\ Decide(row)

\* Runner is done with the group; the rest of its verdict (cleanup, evidence,
\* signals) is Runner's matter.  One more sample, unless storage failed.
CleanupSample ==
    /\ pc = "cleanup" /\ UNCHANGED <<mode, link>>
    /\ \E fine \in BOOLEAN :
          core' = [core EXCEPT !.success = /\ fine /\ core.primary = "command_success"
                                           /\ core.peak <= EscalationStop]
    /\ \/ /\ link.owner /\ ~recorder.error /\ pc' = "close"
          /\ \E row \in RowsAt(now, "cleanup", now, "cleanup_check"), stored \in BOOLEAN :
                /\ stored => Len(rows) < MaxSamples
                /\ Append_(row, stored) /\ now' = row.end
       \/ ~(link.owner /\ ~recorder.error) /\ pc' = "close" /\ UNCHANGED <<now, rows, recorder>>

Finish == pc = "close" /\ pc' = "done" /\ UNCHANGED <<mode, now, rows, recorder, link, core>>

(***************************************************************************)
(* group_audit.audit: the summary recomputed from the rows, and the order  *)
(* of the phases.                                                          *)
(***************************************************************************)
Indices(test(_)) == {i \in DOMAIN rows : test(rows[i])}

MaxOrNone(s) == IF s = {} THEN None ELSE Max(s)

PeakOf(idx) == MaxOrNone({rows[i].rss : i \in {i \in idx : rows[i].status = "COMPLETE"}})

DerivedPhase(p) ==
    LET idx == Indices(LAMBDA row : row.phase = p)
    IN [samples |-> Cardinality(idx),
        complete |-> Cardinality({i \in idx : rows[i].status = "COMPLETE"}),
        peak |-> PeakOf(idx)]

Derived ==
    [statuses |-> [s \in Statuses |-> Cardinality(Indices(LAMBDA row : row.status = s))],
     phases |-> [p \in {PHASES[i] : i \in 1..4} |-> DerivedPhase(p)],
     monitorPeak |-> PeakOf(Indices(LAMBDA row : row.site = "runner_monitor")),
     maxGap |-> MaxOrNone({rows[i].start - rows[i - 1].end : i \in DOMAIN rows \ {1}})]

PhasesInOrder ==
    \A i \in DOMAIN rows : rows[i].phase # "unknown" =>
       LET before  == {j \in 1..(i - 1) : rows[j].phase # "unknown"}
           ready   == {j \in before : rows[j].phase = "readiness"}
           cleaned == {j \in before : rows[j].phase = "cleanup"}
       IN /\ rows[i].event <= rows[i].start
          /\ \A j \in before : /\ Rank(rows[j].phase) <= Rank(rows[i].phase)
                               /\ rows[j].event <= rows[i].event
          /\ rows[i].phase = "workload" =>
                ready # {} /\ rows[i].event >= rows[Max(ready)].end
          /\ rows[i].phase = "cleanup" /\ cleaned = {} /\ i > 1 => rows[i].event >= rows[i - 1].end

Audit ==
    /\ ~recorder.error /\ rows # <<>>
    /\ \A i \in DOMAIN rows : rows[i].status # "INVALID"
    /\ \A i \in DOMAIN rows \ {1} : rows[i].start >= rows[i - 1].end
    /\ PhasesInOrder
    /\ \A f \in DOMAIN Derived : Derived[f] = recorder[f]
    /\ core.peak = Derived.monitorPeak        \* legacy_runner_peak_bytes

(***************************************************************************)
(* The adapters' verdicts, and g4_verify.resource_decision.                *)
(***************************************************************************)
Report ==
    /\ Audit /\ core.success
    /\ recorder.statuses["PARTIAL"] = 0 /\ recorder.monitorPeak # None

Outcome ==
    /\ Audit /\ core.success /\ ~link.failed /\ link.seq = 5
    /\ Derived.phases["readiness"].complete > 0 /\ Derived.phases["workload"].complete > 0
    /\ Derived.statuses["PARTIAL"] = 0

MonitorRows == Indices(LAMBDA row : row.site = "runner_monitor")

RowReason(row) ==
    IF row.status = "COMPLETE" /\ row.rss > RssStop THEN "rss_stop"
    ELSE IF row.avail < AvailableStop THEN "available_stop" ELSE "none"

Triggers == {i \in MonitorRows : RowReason(rows[i]) # "none"}

ResourceDecision ==
    LET kib(row) == IF row.status = "COMPLETE" THEN row.rss ELSE 0
    IN /\ MonitorRows # {}
       /\ \A i \in MonitorRows : /\ rows[i].phase \in {"readiness", "workload"}
                                 /\ rows[i].status \in Usable
       /\ core.peak = Max({kib(rows[i]) : i \in MonitorRows})
       /\ core.minimum = Min({rows[i].avail : i \in MonitorRows})
       /\ Triggers # {} =>
             /\ Min(Triggers) = Max(MonitorRows)
             /\ core.primary \in {"rss_stop", "available_stop", "runner_error", "stage_timeout"}
       /\ core.primary \in {"rss_stop", "available_stop"} =>
             Triggers # {} /\ core.primary = RowReason(rows[Min(Triggers)])

Init ==
    /\ mode \in {"g3", "g4"} /\ pc = "monitor" /\ now = 0 /\ rows = <<>>
    /\ recorder = NewRecorder
    /\ link = [owner |-> FALSE, seq |-> 0, phase |-> "unknown", event |-> None, sent |-> 0,
               failed |-> FALSE]
    /\ core = [primary |-> "not_started", peak |-> 0, minimum |-> None, success |-> FALSE,
               lost |-> FALSE]

Next == Ends \/ NoPhase \/ Sample \/ CleanupSample \/ Finish

Spec == Init /\ [][Next]_vars

(***************************************************************************)
(* Properties.                                                             *)
(***************************************************************************)
Done == pc = "done"

\* The summary that Recorder.append keeps as it goes is the one group_audit.audit
\* finds in the file, and the phases are in the order it demands: an honest
\* stream with a COMPLETE monitor sample is accepted, however the run ended,
\* unless storage failed, a row is INVALID or a sample never reached Runner.
StreamAudited ==
    Done /\ ~recorder.error /\ recorder.statuses["INVALID"] = 0 /\ ~core.lost
         /\ recorder.monitorPeak # None => Audit

\* g4_verify.resource_decision, which sees only the rows, reaches the decision
\* that Runner took from them: peak, minimum, stop and reason, in every run
\* whose monitor samples were all usable and all reached Runner.
DecisionAgrees ==
    Done /\ mode = "g4" /\ MonitorRows # {} /\ ~core.lost
         /\ (\A i \in MonitorRows : rows[i].status \in Usable) => ResourceDecision

\* A run that the bootstrap accepts was observed where it matters: the first
\* sample is a COMPLETE one of the target at the barrier, the second a COMPLETE
\* one that began after the target had acknowledged, and that was after the
\* first had been stored; and no sample called for a stop.  A success that
\* group_run reports (mode "g3") is never over a stream with a gap in it, and its
\* peak is that of every COMPLETE monitor sample.
AcceptedIsObserved ==
    /\ Done /\ mode = "g4" /\ Outcome =>
          /\ rows[1].status = "COMPLETE" /\ rows[1].phase = "readiness"
          /\ rows[2].status = "COMPLETE" /\ rows[2].phase = "workload"
          /\ rows[1].end <= rows[2].event /\ rows[2].event <= rows[2].start
          /\ Triggers = {}
    /\ Done /\ mode = "g3" /\ Report =>
          /\ \A i \in DOMAIN rows : rows[i].status \in Usable
          /\ Triggers = {} /\ core.peak = PeakOf(MonitorRows)
=============================================================================
