-------------------------------- MODULE G4Run --------------------------------
(***************************************************************************)
(* One supervised benchmark run of tools/bench, with three processes:       *)
(*                                                                         *)
(*   Supervisor   g4_supervise.py (Mode "g4") or supervise.py ("legacy")     *)
(*   Bootstrap    g4_bootstrap.py around run_check.run_command ("g4"), or    *)
(*                run_check.py alone ("legacy")                              *)
(*   target       the Go program, which stops at its start barrier           *)
(*                                                                         *)
(* Supervisor and target talk over the barrier socket (ipc); in Mode "g4"    *)
(* Supervisor and Bootstrap exchange five events over the G4 channel (chan,  *)
(* g4_events.py) and each keeps a transcript.  At the end g4_verify._audit   *)
(* judges the records that were left.                                       *)
(*                                                                         *)
(* Deadlines are members of the set `late` once they have passed; each can   *)
(* pass at any time.  How Runner cleans up and how a sample gets its status  *)
(* are the matter of Runner and GroupObservation: here a cleanup succeeds or *)
(* fails, and a sample tells whether the target lives.                       *)
(***************************************************************************)
EXTENDS Integers, Sequences, FiniteSets

CONSTANTS Modes,       \* of "g4" and "legacy"
          MaxRows,     \* samples of the stream, the one after cleanup included
          MaxTrouble   \* failing calls (start, read, write, observation), and signals
                       \* from outside to Supervisor or Bootstrap

ASSUME G4Assumption == Modes \subseteq {"g4", "legacy"} /\ {MaxRows, MaxTrouble} \subseteq Nat

None == -1

NoSample == [seq |-> None, start |-> None, end |-> None]

NoResult == [primary |-> "none", success |-> FALSE, clean |-> FALSE, signals |-> FALSE]

NoOutcome == [written |-> FALSE, complete |-> FALSE, accepted |-> FALSE]

ORDER == <<"ready_verified", "readiness_persisted", "release_initiated",
           "release_acknowledged", "workload_persisted">>

VARIABLES mode,    \* which of the two Supervisors runs
          sup,     \* the Supervisor
          boot,    \* Bootstrap and the Runner in it
          tgt,     \* the target
          chan,    \* the G4 channel: frames on their way, and who has it open
          ipc,     \* the barrier socket: lines on their way, and who has it open
          rows,    \* group-rss.jsonl
          clock,   \* stamps given so far
          late,    \* deadlines that have passed
          budget   \* faults and signals left

vars == <<mode, sup, boot, tgt, chan, ipc, rows, clock, late, budget>>

Fault == budget > 0 /\ budget' = budget - 1

NoFault == UNCHANGED budget

(***************************************************************************)
(* g4_events.State: what an endpoint accepts next, its own frames included. *)
(***************************************************************************)
NewState == [seq |-> 0, last |-> -1, readyEnd |-> None, ack |-> None, failed |-> FALSE]

SampleFits(st, m) ==
    /\ m.sample.seq = (IF m.seq = 1 THEN 0 ELSE 1)
    /\ st.last <= m.sample.start /\ m.sample.start <= m.sample.end /\ m.sample.end <= m.stamp
    /\ m.seq = 4 => st.ack <= m.sample.start

Accepts(st, m, now) ==
    /\ ~st.failed
    /\ m.seq = st.seq /\ m.seq < 5 /\ m.event = ORDER[m.seq + 1]
    /\ st.last <= m.stamp /\ m.stamp <= now
    /\ IF m.seq \in {1, 4} THEN m.sample # NoSample /\ SampleFits(st, m)
       ELSE m.sample = NoSample
    /\ m.seq = 2 => st.readyEnd # None /\ st.readyEnd <= m.stamp

Accepted(st, m) ==
    [st EXCEPT !.seq = @ + 1, !.last = m.stamp,
               !.readyEnd = IF m.seq = 1 THEN m.sample.end ELSE @,
               !.ack = IF m.seq = 3 THEN m.stamp ELSE @]

Message(n, stamp, sample) == [seq |-> n, event |-> ORDER[n + 1], stamp |-> stamp, sample |-> sample]

ErrorRecord(st) == [seq |-> st.seq, event |-> "error", stamp |-> None, sample |-> NoSample]

(***************************************************************************)
(* g4_events.Link, for the endpoint e (a record with st and tr): the frame  *)
(* is accepted locally first, then sent, then recorded.                    *)
(***************************************************************************)
Deadline(name) == IF name = "sup" THEN "barrier" ELSE "boot"

CanFrame(name, peerOpen) == Deadline(name) \notin late /\ peerOpen

Sent(e, m) == [e EXCEPT !.st = Accepted(@, m), !.tr = Append(@, m)]

NotSent(e, m) == [e EXCEPT !.st = Accepted(@, m)]

\* fail(): the endpoint is poisoned and says so in its transcript.
Failed(e) == [e EXCEPT !.st.failed = TRUE, !.tr = Append(@, ErrorRecord(e.st))]

CanRead(name, frames) == Deadline(name) \notin late /\ frames # <<>>

\* Mutant: only a closed channel ends a wait.
ReadFailsClosed(name, frames, peerOpen) == frames = <<>> /\ ~peerOpen

ReadFails(name, frames, peerOpen) == Deadline(name) \in late \/ (frames = <<>> /\ ~peerOpen)

\* verify_receipt(): the row that the receipt names is in the file.
Receipt(m, phase) ==
    LET n == m.sample.seq + 1
    IN /\ n \in DOMAIN rows
       /\ rows[n].phase = phase /\ rows[n].status = "COMPLETE"
       /\ rows[n].start = m.sample.start /\ rows[n].end = m.sample.end

(***************************************************************************)
(* The Supervisor.  pc names the place of the loop it is at.                *)
(***************************************************************************)
Alive(b) == b.pc \notin {"none", "dead"}

\* fail(): the first reason stays.
SFail(s, reason) == [s EXCEPT !.reason = IF @ = "none" THEN reason ELSE @, !.pc = "term"]

SRaise(s) == [SFail(s, "monitor_or_protocol_failure") EXCEPT !.errors = TRUE]

\* Link.send by the Supervisor s, which goes on at pc.
SSend(s, m, pc) ==
    LET sends == Accepts(s.st, m, clock') /\ CanFrame("sup", chan.boot)
        frame == [chan EXCEPT !.toBoot = Append(@, m)]
    IN \/ sends /\ NoFault /\ sup' = [Sent(s, m) EXCEPT !.pc = pc] /\ chan' = frame
       \/ sends /\ Fault /\ sup' = SRaise(NotSent(s, m)) /\ chan' = frame
       \/ ~sends /\ NoFault /\ sup' = SRaise(NotSent(s, m)) /\ UNCHANGED chan

\* Link.receive and verify_receipt by the Supervisor.
SReceive(n, phase, pc) ==
    /\ UNCHANGED <<boot, tgt, ipc, rows, clock, late>>
    /\ \/ /\ ReadFails("sup", chan.toSup, chan.boot) /\ NoFault
          /\ sup' = SRaise(sup) /\ UNCHANGED chan
       \/ /\ CanRead("sup", chan.toSup)
          /\ chan' = [chan EXCEPT !.toSup = Tail(@)]
          /\ LET m  == Head(chan.toSup)
                 ok == Accepts(sup.st, m, clock) /\ m.seq = n /\ Receipt(m, phase)
             IN \/ NoFault /\ sup' = IF ok THEN [Sent(sup, m) EXCEPT !.pc = pc] ELSE SRaise(Failed(sup))
                \/ ok /\ Fault /\ sup' = SRaise(NotSent(sup, m))
                \/ ok /\ Fault /\ sup' = SRaise(Sent(sup, m))

SLaunch ==
    /\ sup.pc = "launch" /\ UNCHANGED <<tgt, chan, ipc, rows, clock, late>>
    /\ \/ Fault /\ sup' = SRaise(sup) /\ UNCHANGED boot
       \/ /\ NoFault
          /\ boot' = [boot EXCEPT !.pc = IF mode = "g4" THEN "connect" ELSE "start"]
          /\ sup' = [sup EXCEPT !.proc = TRUE, !.pc = IF mode = "g4" THEN "accept" ELSE "top"]

\* Controller.runner_created: Server.accept, with its own hello.
SAccept ==
    /\ sup.pc = "accept" /\ NoFault /\ UNCHANGED <<boot, tgt, ipc, rows, clock, late>>
    /\ \/ /\ "barrier" \notin late /\ chan.boot
          /\ sup' = [sup EXCEPT !.link = TRUE, !.pc = "top"] /\ chan' = [chan EXCEPT !.sup = TRUE]
       \/ /\ "barrier" \in late \/ (boot.dialled /\ ~chan.boot)
          /\ sup' = SRaise(sup) /\ UNCHANGED chan

\* get_target, then interrupts, then the outer deadline.
STop ==
    /\ sup.pc = "top" /\ NoFault /\ UNCHANGED <<boot, tgt, chan, ipc, rows, clock, late>>
    /\ LET s == [sup EXCEPT !.owner = boot.owner]
       IN sup' = IF sup.pending THEN SFail(s, "supervisor_interrupted")
                 ELSE IF "outer" \in late THEN SFail(s, "outer_timeout")
                 ELSE [s EXCEPT !.pc = "recv"]

\* The readiness line: the peer must be the live target.
SIdentify(s) ==
    IF tgt.st = "live"
    THEN /\ clock' = clock + 1
         /\ LET t == [s EXCEPT !.hello = TRUE, !.identified = clock']
            IN IF mode = "g4" THEN SSend(t, Message(0, clock', NoSample), "sample")
               ELSE sup' = [t EXCEPT !.pc = "sample"] /\ NoFault /\ UNCHANGED chan
    ELSE sup' = SRaise(s) /\ NoFault /\ UNCHANGED <<chan, clock>>

\* The acknowledgement line.
SAcknowledged(s) ==
    /\ clock' = clock + 1
    /\ LET t == [s EXCEPT !.done = TRUE, !.ack = clock']
       IN IF mode = "g4" THEN SSend(t, Message(3, clock', NoSample), "workload")
          ELSE sup' = [t EXCEPT !.pc = "sample"] /\ NoFault /\ UNCHANGED chan

\* Buffered bytes are taken before a process exit is interpreted.
SRecv ==
    /\ sup.pc = "recv" /\ UNCHANGED <<boot, tgt, rows, late>>
    /\ ipc' = [ipc EXCEPT !.sup = @ \/ ipc.dialled, !.toSup = IF sup.done THEN @ ELSE <<>>]
    /\ LET s      == [sup EXCEPT !.buf = IF sup.done THEN @ ELSE @ \o ipc.toSup]
           closed == ipc.dialled /\ ~sup.done /\ ipc.toSup = <<>> /\ ~ipc.tgt
       IN \/ closed /\ sup' = SRaise(sup) /\ NoFault /\ UNCHANGED <<chan, clock>>
          \/ /\ ~closed /\ (s.buf = <<>> \/ ~(sup.hello \/ sup.owner))
             /\ sup' = [s EXCEPT !.pc = "sample"] /\ NoFault /\ UNCHANGED <<chan, clock>>
          \/ /\ ~closed /\ s.buf # <<>> /\ (sup.hello \/ sup.owner)
             /\ LET t == [s EXCEPT !.buf = Tail(@)]
                IN IF sup.hello THEN SAcknowledged(t) ELSE SIdentify(t)

\* Mutant: the Supervisor's own sample is enough to release.
SSampleAlone ==
    /\ sup.pc = "sample" /\ NoFault /\ UNCHANGED <<boot, tgt, chan, ipc, rows, late>>
    /\ \/ /\ sup.hello /\ sup.begin = None /\ tgt.st = "live" /\ clock' = clock + 1
          /\ sup' = [sup EXCEPT !.pre = clock', !.pc = "release"]
       \/ /\ ~(sup.hello /\ sup.begin = None /\ tgt.st # "zombie")
          /\ sup' = [sup EXCEPT !.pc = "checks"] /\ UNCHANGED clock

\* ps.observe by the Supervisor: a zombie is a valid sample of no live target.
SSample ==
    /\ sup.pc = "sample" /\ UNCHANGED <<boot, tgt, chan, ipc, rows, late>>
    /\ \/ /\ sup.hello /\ sup.begin = None /\ tgt.st = "live" /\ NoFault
          /\ clock' = clock + 1
          /\ sup' = [sup EXCEPT !.pre = clock', !.pc = IF mode = "g4" THEN "before" ELSE "release"]
       \/ /\ sup.hello /\ sup.begin = None /\ tgt.st = "gone" /\ NoFault
          /\ sup' = SRaise(sup) /\ UNCHANGED clock
       \/ /\ sup.hello /\ (sup.begin = None \/ sup.done) /\ tgt.st = "live" /\ Fault
          /\ sup' = SRaise(sup) /\ UNCHANGED clock          \* resource_safety_stop
       \/ /\ ~(sup.hello /\ sup.begin = None /\ tgt.st # "zombie") /\ NoFault
          /\ sup' = [sup EXCEPT !.pc = "checks"] /\ UNCHANGED clock

\* Controller.before_release: nothing is released before the receipt.
SBefore == sup.pc = "before" /\ SReceive(1, "readiness", "release")

\* The release goes to the target, and release_initiated to Bootstrap.
SRelease ==
    /\ sup.pc = "release" /\ UNCHANGED <<boot, tgt, rows, late>>
    /\ \/ /\ sup.pending /\ NoFault /\ sup' = SRaise(SFail(sup, "supervisor_interrupted"))
          /\ UNCHANGED <<chan, ipc, clock>>
       \/ /\ ~sup.pending /\ clock' = clock + 1
          /\ LET s == [sup EXCEPT !.begin = clock']
             IN \/ ~ipc.tgt /\ NoFault /\ sup' = SRaise(s) /\ UNCHANGED <<chan, ipc>>
                \/ /\ ipc.tgt /\ ipc' = [ipc EXCEPT !.toTgt = TRUE]
                   /\ IF mode = "g4" THEN SSend(s, Message(2, clock', NoSample), "checks")
                      ELSE sup' = [s EXCEPT !.pc = "checks"] /\ NoFault /\ UNCHANGED chan

\* Controller.acknowledged: no further step before the sample at work.
SWorkload == sup.pc = "workload" /\ SReceive(4, "workload", "sample")

SChecks ==
    /\ sup.pc = "checks" /\ NoFault /\ UNCHANGED <<boot, tgt, chan, ipc, rows, clock, late>>
    /\ sup' = IF ~sup.done /\ "barrier" \in late THEN SFail(sup, "barrier_timeout")
              ELSE IF ~Alive(boot)
                   THEN IF sup.done THEN [sup EXCEPT !.pc = "term"] ELSE SFail(sup, "handshake_incomplete")
              ELSE IF sup.owner /\ ~sup.hello /\ tgt.st # "live"
                   THEN SFail(sup, "target_exited_before_handshake")
              ELSE [sup EXCEPT !.pc = "top"]

(***************************************************************************)
(* supervise.finish: SIGTERM to Runner's session, a grace for both, SIGKILL *)
(* to whoever is left, then wait for Runner and look for survivors.          *)
(***************************************************************************)
\* Runner handles signals while run_command runs; elsewhere they end it.
Handled == {"start", "owner", "loop", "recv", "sample", "cleanup", "publish"}

Terminated(b) == IF b.pc \in Handled THEN [b EXCEPT !.sig = TRUE]
                 ELSE [b EXCEPT !.pc = "dead", !.code = "signal"]

STerm ==
    /\ sup.pc = "term" /\ NoFault /\ UNCHANGED <<tgt, rows, clock, late>>
    /\ ipc' = [ipc EXCEPT !.sup = FALSE]
    /\ LET s == [sup EXCEPT !.owner = boot.owner]
       IN IF ~sup.proc
          THEN sup' = [s EXCEPT !.pc = "report", !.clean = TRUE] /\ UNCHANGED <<boot, chan>>
          ELSE /\ sup' = [s EXCEPT !.pc = "wait"]
               /\ boot' = IF Alive(boot) THEN Terminated(boot) ELSE boot
               /\ chan' = [chan EXCEPT !.boot = @ /\ Alive(boot')]

Sessions == {x \in {"target", "runner"} :
                IF x = "runner" THEN Alive(boot) ELSE sup.owner /\ tgt.st = "live"}

SWait ==
    /\ sup.pc = "wait" /\ (Sessions = {} \/ "grace" \in late)
    /\ NoFault /\ UNCHANGED <<chan, ipc, rows, clock, late>>
    /\ sup' = [sup EXCEPT !.pc = "reap"]
    /\ tgt' = [tgt EXCEPT !.killed = @ \/ "target" \in Sessions]
    /\ boot' = [boot EXCEPT !.killed = @ \/ "runner" \in Sessions]

\* Mutant: nobody looks for survivors.
SReapOnly ==
    /\ sup.pc = "reap" /\ NoFault /\ UNCHANGED <<boot, tgt, chan, ipc, rows, clock, late>>
    /\ \/ ~Alive(boot) /\ sup' = [sup EXCEPT !.pc = "report", !.code = boot.code, !.clean = TRUE]
       \/ Alive(boot) /\ "reap" \in late /\ sup' = [sup EXCEPT !.pc = "report"]

SReap ==
    /\ sup.pc = "reap" /\ NoFault /\ UNCHANGED <<boot, tgt, chan, ipc, rows, clock, late>>
    /\ \/ /\ ~Alive(boot)
          /\ sup' = [sup EXCEPT !.pc = "report", !.code = boot.code, !.clean = Sessions = {}]
       \/ /\ Alive(boot) /\ "reap" \in late
          /\ sup' = [sup EXCEPT !.pc = "report"]

\* observation_complete
Observed(s) == s.done /\ s.pre # None /\ s.begin # None /\ s.pre <= s.begin

\* Mutant: the Supervisor does not look at Runner's own verdict.
SuccessUnread(s) ==
    /\ s.reason = "none" /\ ~s.errors /\ Observed(s) /\ s.clean /\ s.inner # NoResult
    /\ mode = "g4" => s.complete

Success(s) ==
    /\ s.reason = "none" /\ ~s.errors /\ Observed(s)
    /\ s.clean /\ s.inner # NoResult /\ s.inner.success /\ s.inner.clean
    /\ mode = "g4" => s.complete /\ s.code = "accepted"

\* The record that is written, and Controller.close.
SReport ==
    /\ sup.pc = "report" /\ NoFault /\ UNCHANGED <<boot, tgt, ipc, rows, clock, late>>
    /\ LET s == [sup EXCEPT !.inner = boot.result, !.errors = @ \/ boot.result = NoResult,
                            !.complete = sup.link /\ sup.st.seq = 5 /\ ~sup.st.failed]
           t == [s EXCEPT !.success = Success(s), !.pc = "done"]
       IN sup' = IF sup.link /\ ~s.complete THEN Failed(t) ELSE t
    /\ chan' = [chan EXCEPT !.sup = FALSE]

(***************************************************************************)
(* Bootstrap: the channel, then run_check.run_command with Monitor.          *)
(***************************************************************************)
Died(b, code) == [b EXCEPT !.pc = "dead", !.code = code]

\* g4_events.connect: the socket, the hello, and the confirmation.
BConnect ==
    /\ boot.pc = "connect" /\ NoFault /\ UNCHANGED <<sup, tgt, ipc, rows, clock, late>>
    /\ \/ /\ "boot" \notin late /\ chan' = [chan EXCEPT !.boot = TRUE]
          /\ boot' = [boot EXCEPT !.pc = "confirm", !.dialled = TRUE]
       \/ "boot" \in late /\ boot' = Died(boot, "error") /\ UNCHANGED chan

BConfirm ==
    /\ boot.pc = "confirm" /\ NoFault /\ UNCHANGED <<sup, tgt, ipc, rows, clock, late>>
    /\ \/ "boot" \notin late /\ chan.sup /\ boot' = [boot EXCEPT !.pc = "start"] /\ UNCHANGED chan
       \/ /\ "boot" \in late /\ boot' = Died(boot, "error")
          /\ chan' = [chan EXCEPT !.boot = FALSE]

\* Runner starts the target; owner.json is published a step later.
BStart ==
    /\ boot.pc = "start" /\ UNCHANGED <<sup, chan, ipc, rows, clock, late>>
    /\ \/ NoFault /\ boot' = [boot EXCEPT !.pc = "owner"] /\ tgt' = [tgt EXCEPT !.st = "live"]
       \/ Fault /\ boot' = [boot EXCEPT !.pc = "cleanup", !.primary = "runner_error"] /\ UNCHANGED tgt

BOwner ==
    /\ boot.pc = "owner" /\ UNCHANGED <<sup, tgt, chan, ipc, rows, clock, late>>
    /\ \/ NoFault /\ boot' = [boot EXCEPT !.pc = "loop", !.owner = TRUE]
       \/ Fault /\ boot' = [boot EXCEPT !.pc = "cleanup", !.primary = "runner_error"]

\* One round of Runner's loop, up to the monitor.
BLoop ==
    /\ boot.pc = "loop" /\ NoFault /\ UNCHANGED <<sup, tgt, chan, ipc, rows, clock, late>>
    /\ LET stop(outcome) == [boot EXCEPT !.pc = "cleanup", !.primary = outcome]
       IN boot' = IF boot.sig THEN stop("interrupted")
                  ELSE IF tgt.st = "zombie"
                       THEN stop(IF tgt.code = 0 THEN "command_success" ELSE "command_failed")
                  ELSE IF "wall" \in late THEN stop("timeout")
                  ELSE IF mode = "g4" /\ boot.st.seq \in {0, 2}
                       THEN [boot EXCEPT !.pc = "recv", !.monitor = TRUE]
                  ELSE IF mode = "g4" /\ Len(rows) < MaxRows - 1 THEN [boot EXCEPT !.pc = "sample"]
                  ELSE boot

\* The monitor raises: Monitor.__call__'s handler, then Runner's.
BRaise(b) == [Failed(b) EXCEPT !.error = TRUE, !.pc = "cleanup", !.primary = "runner_error"]

\* Link.receive by the monitor: ready_verified, or release_initiated and then
\* release_acknowledged.
BRecv ==
    /\ boot.pc = "recv" /\ UNCHANGED <<sup, tgt, ipc, rows, clock, late>>
    /\ \/ /\ ReadFails("boot", chan.toBoot, chan.sup) /\ NoFault
          /\ boot' = BRaise(boot) /\ UNCHANGED chan
       \/ /\ CanRead("boot", chan.toBoot) /\ chan' = [chan EXCEPT !.toBoot = Tail(@)]
          /\ LET m  == Head(chan.toBoot)
                 ok == Accepts(boot.st, m, clock) /\ m.seq \in {0, 2, 3}
             IN \/ /\ NoFault
                   /\ boot' = IF ok THEN [Sent(boot, m) EXCEPT !.event = m.stamp,
                                             !.pc = IF m.seq = 2 THEN "recv" ELSE "sample"]
                              ELSE BRaise(boot)
                \/ Fault /\ boot' = BRaise(NotSent(boot, m))

Phase(seq) == IF seq < 3 THEN "readiness" ELSE "workload"

\* The status of a sample of the target's group.
StatusNow == IF tgt.st = "live" THEN "COMPLETE"
             ELSE IF tgt.st = "zombie" THEN "ZOMBIE_ONLY" ELSE "NO_LIVE_MEMBERS"

\* Mutant: any usable sample stands for the phase.
EvidenceAny(row) == row.status # "PARTIAL"

\* missing complete barrier sample
Evidence(row) == row.status = "COMPLETE"

\* A sample is stored; the first of each phase is acknowledged to the Supervisor.
BSample ==
    /\ boot.pc = "sample" /\ UNCHANGED <<sup, tgt, ipc, late>>
    /\ \E status \in {StatusNow, "PARTIAL"} :
       LET row == [phase |-> Phase(boot.st.seq), status |-> status, event |-> boot.event,
                   start |-> clock + 1, end |-> clock + 2]
           m   == Message(boot.st.seq, clock + 3, [seq |-> Len(rows), start |-> row.start, end |-> row.end])
           sends == CanFrame("boot", chan.sup) /\ Accepts(boot.st, m, clock + 3)
           frame == [chan EXCEPT !.toSup = Append(@, m)]
           goes(b) == \/ boot' = [b EXCEPT !.pc = "loop"]
                      \/ boot' = [b EXCEPT !.pc = "cleanup", !.primary = "resource_stop"]
       IN \/ /\ status # "PARTIAL" /\ Fault /\ boot' = [BRaise(boot) EXCEPT !.storage = FALSE]
             /\ UNCHANGED <<rows, clock, chan>>
          \/ /\ rows' = Append(rows, row) /\ status = "PARTIAL" /\ Fault
             /\ boot' = BRaise(boot) /\ clock' = clock + 2 /\ UNCHANGED chan
          \/ /\ rows' = Append(rows, row) /\ status # "PARTIAL" /\ boot.st.seq \notin {1, 4}
             /\ NoFault /\ goes(boot) /\ clock' = clock + 2 /\ UNCHANGED chan
          \/ /\ rows' = Append(rows, row) /\ status # "PARTIAL" /\ boot.st.seq \in {1, 4}
             /\ ~(Evidence(row) /\ sends) /\ NoFault
             /\ boot' = BRaise(IF Evidence(row) THEN NotSent(boot, m) ELSE boot)
             /\ clock' = clock + 3 /\ UNCHANGED chan
          \/ /\ rows' = Append(rows, row) /\ status # "PARTIAL" /\ boot.st.seq \in {1, 4}
             /\ Evidence(row) /\ sends /\ clock' = clock + 3 /\ chan' = frame
             /\ \/ NoFault /\ goes(Sent(boot, m))
                \/ Fault /\ boot' = BRaise(NotSent(boot, m))

\* Runner's cleanup and its verdict.
BCleanup ==
    /\ boot.pc = "cleanup" /\ UNCHANGED <<sup, chan, ipc, rows, clock, late>>
    /\ LET primary == IF boot.sig /\ boot.primary = "command_success" THEN "interrupted" ELSE boot.primary
           b(clean) == [boot EXCEPT !.primary = primary, !.clean = clean, !.pc = "publish",
                                    !.success = clean /\ primary = "command_success"]
       IN \/ /\ NoFault /\ boot' = b(TRUE)
             /\ tgt' = IF tgt.st = "none" THEN tgt ELSE [tgt EXCEPT !.st = "gone"]
          \/ /\ tgt.st # "none" /\ Fault /\ boot' = b(FALSE)
             /\ tgt' = [tgt EXCEPT !.killed = tgt.st = "live"]

\* result.json holds the list of signals as it is when the file is written.
BPublish ==
    /\ boot.pc = "publish" /\ UNCHANGED <<sup, tgt, ipc, rows, clock, late>>
    /\ LET record == [primary |-> boot.primary, success |-> boot.success, clean |-> boot.clean,
                      signals |-> boot.sig]
           b(ok)  == [boot EXCEPT !.result = IF ok THEN record ELSE NoResult, !.success = @ /\ ok]
           on(c)  == IF mode = "g4" THEN [c EXCEPT !.pc = "row"]
                     ELSE Died(c, IF c.success THEN "accepted" ELSE "complete")
       IN (NoFault /\ boot' = on(b(TRUE))) \/ (Fault /\ boot' = on(b(FALSE)))
    /\ UNCHANGED chan

\* The sample after cleanup, if the monitor ever knew the owner.
BRow ==
    /\ boot.pc = "row" /\ UNCHANGED <<sup, tgt, ipc, late>>
    /\ LET row == [phase |-> "cleanup", status |-> StatusNow, event |-> clock,
                   start |-> clock + 1, end |-> clock + 2]
       IN IF boot.monitor /\ boot.storage
          THEN \/ /\ NoFault /\ rows' = Append(rows, row) /\ clock' = clock + 2
                  /\ boot' = [boot EXCEPT !.pc = "outcome"] /\ UNCHANGED chan
               \/ /\ Fault /\ boot' = Died(boot, "error") /\ chan' = [chan EXCEPT !.boot = FALSE]
                  /\ UNCHANGED <<rows, clock>>
          ELSE NoFault /\ boot' = [boot EXCEPT !.pc = "outcome"] /\ UNCHANGED <<rows, clock, chan>>

Covers(phase) == \E i \in DOMAIN rows : rows[i].phase = phase /\ rows[i].status = "COMPLETE"

\* bootstrap.json, the end of the channel, and the exit code.
BOutcome ==
    /\ boot.pc = "outcome" /\ NoFault /\ UNCHANGED <<sup, tgt, ipc, rows, clock, late>>
    /\ LET complete == /\ ~boot.error /\ boot.st.seq = 5 /\ ~boot.st.failed /\ boot.storage
                       /\ Covers("readiness") /\ Covers("workload")
                       /\ \A i \in DOMAIN rows : rows[i].status # "PARTIAL"
       IN boot' = Died([boot EXCEPT !.outcome = [written |-> TRUE,
                           complete |-> complete, accepted |-> complete /\ boot.success]],
                       IF complete /\ boot.success THEN "accepted" ELSE IF complete THEN "complete" ELSE "error")
    /\ chan' = [chan EXCEPT !.boot = FALSE]

\* SIGKILL takes effect.
BKilled ==
    /\ boot.killed /\ Alive(boot) /\ boot' = Died(boot, "signal")
    /\ chan' = [chan EXCEPT !.boot = FALSE]
    /\ UNCHANGED <<sup, tgt, ipc, rows, clock, late, budget>>

(***************************************************************************)
(* The target: pilotStartBarrier, then its work.  It may fail, stop early or *)
(* hold for ever, and its own barrier timeout may pass.                      *)
(***************************************************************************)
Exited(code) == tgt' = [tgt EXCEPT !.st = "zombie", !.code = code]

Hangup == ipc' = [ipc EXCEPT !.tgt = FALSE]

TDial ==
    /\ tgt.st = "live" /\ tgt.pc = "start" /\ tgt' = [tgt EXCEPT !.pc = "wait"]
    /\ ipc' = [ipc EXCEPT !.dialled = TRUE, !.tgt = TRUE, !.toSup = Append(@, "ready")]
    /\ UNCHANGED <<sup, boot, chan, rows, clock, late, budget>>

TGo ==
    /\ tgt.st = "live" /\ tgt.pc = "wait" /\ ipc.toTgt /\ ipc.sup
    /\ tgt' = [tgt EXCEPT !.pc = "work"]
    /\ ipc' = [ipc EXCEPT !.tgt = FALSE, !.toSup = Append(@, "released")]
    /\ UNCHANGED <<sup, boot, chan, rows, clock, late, budget>>

TExit ==
    /\ tgt.st = "live" /\ Hangup
    /\ \/ tgt.pc = "work" /\ (Exited(0) \/ Exited(1))
       \/ tgt.pc # "work" /\ Exited(1)
    /\ UNCHANGED <<sup, boot, chan, rows, clock, late, budget>>

TKilled ==
    /\ tgt.st = "live" /\ tgt.killed /\ Exited(1) /\ Hangup
    /\ UNCHANGED <<sup, boot, chan, rows, clock, late, budget>>

\* Without Runner the target's parent is the Guardian, which reaps it.
TReaped ==
    /\ tgt.st = "zombie" /\ boot.pc = "dead" /\ tgt' = [tgt EXCEPT !.st = "gone"]
    /\ UNCHANGED <<sup, boot, chan, ipc, rows, clock, late, budget>>

Target == TDial \/ TGo \/ TExit \/ TKilled \/ TReaped

(***************************************************************************)
(* Time and signals.                                                       *)
(***************************************************************************)
Deadlines == {"barrier", "boot", "outer", "wall", "grace", "reap"}

\* The deadlines that a later step may look at; a grace begins when its wait does.
Started(d) ==
    CASE d = "grace" -> sup.pc = "wait" [] d = "reap" -> sup.pc = "reap"
      [] d = "boot" -> /\ boot.pc \in {"connect", "confirm", "start", "owner", "loop", "recv", "sample"}
                       /\ boot.st.seq < 5 /\ mode = "g4"
      [] d = "wall" -> boot.pc \in {"start", "owner", "loop", "recv", "sample"}
      [] d = "barrier" -> sup.pc \notin {"term", "wait", "reap", "report", "done"}
                          /\ (~sup.done \/ sup.pc = "workload")
      [] d = "outer" -> sup.pc \notin {"term", "wait", "reap", "report", "done"}

Pass(d) ==
    /\ d \notin late /\ Started(d) /\ late' = late \cup {d}
    /\ UNCHANGED <<sup, boot, tgt, chan, ipc, rows, clock, budget>>

Signal ==
    /\ Fault
    /\ UNCHANGED <<tgt, ipc, rows, clock, late>>
    /\ \/ /\ sup.pc \notin {"report", "done"} /\ ~sup.pending /\ sup' = [sup EXCEPT !.pending = TRUE]
          /\ UNCHANGED <<boot, chan>>
       \/ /\ Alive(boot) /\ ~boot.sig /\ boot' = Terminated(boot) /\ UNCHANGED sup
          /\ chan' = [chan EXCEPT !.boot = @ /\ Alive(boot')]

Init ==
    /\ sup = [pc |-> "launch", proc |-> FALSE, reason |-> "none", errors |-> FALSE, owner |-> FALSE,
              buf |-> <<>>, hello |-> FALSE, identified |-> None, pre |-> None, begin |-> None,
              ack |-> None, done |-> FALSE, link |-> FALSE, st |-> NewState, tr |-> <<>>,
              pending |-> FALSE, code |-> "none", clean |-> FALSE, inner |-> NoResult,
              complete |-> FALSE, success |-> FALSE]
    /\ boot = [pc |-> "none", dialled |-> FALSE, owner |-> FALSE, monitor |-> FALSE, event |-> None,
               st |-> NewState, tr |-> <<>>, error |-> FALSE, storage |-> TRUE,
               primary |-> "not_started", sig |-> FALSE, killed |-> FALSE, clean |-> FALSE,
               success |-> FALSE, result |-> NoResult, outcome |-> NoOutcome, code |-> "none"]
    /\ tgt = [st |-> "none", pc |-> "start", code |-> None, killed |-> FALSE]
    /\ chan = [toBoot |-> <<>>, toSup |-> <<>>, sup |-> FALSE, boot |-> FALSE]
    /\ ipc = [toSup |-> <<>>, toTgt |-> FALSE, dialled |-> FALSE, sup |-> FALSE, tgt |-> FALSE]
    /\ rows = <<>> /\ clock = 0 /\ late = {}
    /\ budget = MaxTrouble /\ mode \in Modes

Supervisor ==
    \/ SLaunch \/ SAccept \/ STop \/ SRecv \/ SSample \/ SBefore \/ SRelease \/ SWorkload
    \/ SChecks \/ STerm \/ SWait \/ SReap \/ SReport

Bootstrap ==
    \/ BConnect \/ BConfirm \/ BStart \/ BOwner \/ BLoop \/ BRecv \/ BSample \/ BCleanup
    \/ BPublish \/ BRow \/ BOutcome

Next ==
    /\ UNCHANGED mode
    /\ Supervisor \/ Bootstrap \/ BKilled \/ Target \/ Signal \/ \E d \in Deadlines : Pass(d)

Spec == Init /\ [][Next]_vars

\* The Supervisor is scheduled and its deadlines pass.  Nothing is assumed of
\* Bootstrap or of the target.
FairSpec == Spec /\ WF_vars(Supervisor /\ UNCHANGED mode)
                 /\ \A d \in Deadlines : WF_vars(Pass(d) /\ UNCHANGED mode)

(***************************************************************************)
(* g4_verify._audit, on what the three processes left behind.                *)
(***************************************************************************)
\* events.State over a transcript.
Replayed(tr) ==
    LET step(st, m) == IF Accepts(st, m, clock) THEN Accepted(st, m) ELSE [st EXCEPT !.failed = TRUE]
        after[n \in 0 .. Len(tr)] == IF n = 0 THEN NewState ELSE step(after[n - 1], tr[n])
    IN after[Len(tr)]

TargetOk == boot.result.primary = "command_success"

ExpectedSuccess == TargetOk /\ sup.code = "accepted" /\ sup.reason = "none" /\ ~sup.errors

Transcripts ==
    /\ sup.tr = boot.tr /\ Len(sup.tr) = 5
    /\ LET st == Replayed(sup.tr) IN st.seq = 5 /\ ~st.failed
    /\ sup.tr[1].stamp = sup.identified /\ sup.tr[3].stamp = sup.begin /\ sup.tr[4].stamp = sup.ack
    /\ Receipt(sup.tr[2], "readiness") /\ Receipt(sup.tr[5], "workload")

Coverage ==
    /\ boot.storage /\ Covers("readiness") /\ Covers("workload")
    /\ \A i \in DOMAIN rows : rows[i].status # "PARTIAL"
    /\ rows[1].event = sup.tr[1].stamp /\ rows[2].event = sup.tr[4].stamp
    /\ rows[Len(rows)].phase = "cleanup" /\ rows[Len(rows)].status = "NO_LIVE_MEMBERS"

\* Mutant: signals that reached Runner are not looked at.
EvidenceSignalled ==
    /\ boot.result # NoResult /\ boot.outcome.written /\ sup.owner
    /\ Transcripts /\ Coverage /\ boot.result.clean /\ sup.clean
    /\ boot.result.success = TargetOk
    /\ boot.outcome.complete /\ boot.outcome.accepted = TargetOk
    /\ sup.code = (IF TargetOk THEN "accepted" ELSE "complete")
    /\ sup.done /\ sup.complete /\ sup.success = ExpectedSuccess

EvidenceValid ==
    /\ boot.result # NoResult /\ boot.outcome.written /\ sup.owner
    /\ Transcripts /\ Coverage
    /\ boot.result.clean /\ sup.clean
    /\ ~boot.result.signals
    /\ boot.result.success = TargetOk
    /\ boot.outcome.complete /\ boot.outcome.accepted = TargetOk
    /\ sup.code = (IF TargetOk THEN "accepted" ELSE "complete")
    /\ Observed(sup)
    /\ sup.complete /\ sup.success = ExpectedSuccess

FinalAccepted == EvidenceValid /\ ExpectedSuccess

\* The target failed or was stopped, and every record of the run is complete.
FailureRecorded ==
    /\ boot.code = "complete" /\ sup.complete /\ sup.clean /\ Len(sup.tr) = 5
    /\ boot.result # NoResult /\ boot.result.clean /\ ~boot.result.signals

(***************************************************************************)
(* The readers of a "legacy" run: resource_audit.audit with require_success, *)
(* and policy_verify.observed_outcome with the exit status of policy_launch. *)
(***************************************************************************)
AuditComplete ==
    /\ None \notin {sup.pre, sup.begin, sup.ack}
    /\ sup.pre <= sup.begin /\ sup.begin <= sup.ack

ResourceAudited ==
    /\ AuditComplete = Observed(sup)
    /\ sup.success /\ AuditComplete /\ sup.reason = "none" /\ ~sup.errors
    /\ sup.clean /\ sup.inner.primary = "command_success" /\ sup.inner.clean

\* "rejected" is a PolicyError: Runner was not reaped, or the records disagree.
PolicyState ==
    IF ~sup.proc THEN "spawn_failed"
    ELSE IF boot.result = NoResult \/ ~boot.owner THEN "evidence_incomplete"
    ELSE IF sup.code = "none" \/ ~sup.owner \/ sup.inner # boot.result \/ sup.pre = None THEN "rejected"
    ELSE IF ~sup.clean \/ ~boot.result.clean THEN "cleanup_failed"
    ELSE IF sup.errors \/ boot.result.primary = "runner_error" THEN "evidence_incomplete"
    ELSE IF sup.code # "accepted" \/ ~sup.success \/ ~boot.result.success \/ ~TargetOk \/ boot.result.signals
         THEN "runner_failed_or_stopped"
    ELSE "target_completed"

PolicyExit == CASE PolicyState = "target_completed" -> 0 [] PolicyState = "rejected" -> 2 [] OTHER -> 1

(***************************************************************************)
(* Properties.                                                             *)
(***************************************************************************)
Done == sup.pc = "done"

\* The Supervisor's success is true of the run: the target passed its barrier
\* after it had been observed, exited with status 0, and neither it nor Runner is
\* left.  In both modes.
SuccessHonest ==
    Done /\ sup.success =>
       /\ tgt.pc = "work" /\ tgt.code = 0 /\ tgt.st \notin {"none", "live"} /\ ~Alive(boot)
       /\ sup.pre <= sup.begin /\ sup.begin <= sup.ack

\* finish(): a cleanup reported as a success left no process of Runner's session,
\* nor of the target's if its owner record was there when the loop ended.  (A
\* target whose owner record came later is left to Runner and to the Guardian.)
CleanupHonest == Done /\ sup.clean => ~Alive(boot) /\ (sup.owner => tgt.st # "live")

\* The readers agree with the Supervisor, and with the processes.  Mode "g4":
\* g4_verify accepts exactly the runs that the Supervisor calls a success, but for
\* a signal that reached Runner after its verdict; an accepted target was released
\* after a COMPLETE sample was in the file and sampled again at work; and a target
\* that failed, with all records complete, leaves valid evidence of a failure.
\* Mode "legacy": resource_audit accepts exactly the successes, policy_verify the
\* same but for a late signal; a recorded stop left no process, and a recorded
\* spawn failure never had a target.
VerifierAgrees ==
    Done => IF mode = "g4"
            THEN /\ FinalAccepted <=> (sup.success /\ ~boot.result.signals)
                 /\ FinalAccepted => /\ rows[1].end <= sup.begin /\ sup.ack <= rows[2].start
                                     /\ rows[2].status = "COMPLETE" /\ tgt.code = 0
                 /\ FailureRecorded => EvidenceValid /\ ~FinalAccepted
            ELSE /\ PolicyExit = 0 <=> (sup.success /\ ~boot.result.signals)
                 /\ ResourceAudited <=> sup.success
                 /\ PolicyState \in {"target_completed", "runner_failed_or_stopped"} =>
                       ~Alive(boot) /\ tgt.st # "live"
                 /\ PolicyState = "spawn_failed" => tgt.st = "none"

\* The run implements what the barrier promises.  In Mode "g4" the observations are
\* the COMPLETE rows of the stream, in Mode "legacy" the Supervisor's own sample and
\* the acknowledgement it read.
Stage ==
    IF mode = "legacy"
    THEN CASE sup.ack # None -> "confirmed" [] sup.ack = None /\ tgt.pc = "work" -> "working"
           [] tgt.pc # "work" /\ ipc.toTgt -> "released"
           [] tgt.pc # "work" /\ ~ipc.toTgt -> IF sup.pre # None THEN "observed" ELSE "held"
    ELSE IF \E i \in DOMAIN rows : rows[i].phase = "workload" /\ rows[i].status = "COMPLETE" THEN "confirmed"
    ELSE IF tgt.pc = "work" THEN "working"
    ELSE IF ipc.toTgt THEN "released"
    ELSE IF \E i \in DOMAIN rows : rows[i].phase = "readiness" /\ rows[i].status = "COMPLETE"
         THEN "observed" ELSE "held"

Promise == INSTANCE Barrier WITH
    stage <- Stage, verdict <- IF ~Done THEN "none" ELSE IF sup.success THEN "accepted" ELSE "refused"

BarrierKept == Promise!Spec

\* The Supervisor always reports, whatever Bootstrap and the target do: every
\* wait of its loop, of the channel and of finish() has a deadline.
SupervisorEnds == <>Done
=============================================================================
