---------------------------- MODULE RunnerProofs ----------------------------
(***************************************************************************)
(* For any set of processes, any number of forks, failures and signals: the *)
(* record that run_command publishes is true of the process group, and its  *)
(* first cause stays.                                                      *)
(***************************************************************************)
EXTENDS Runner, WellFoundedInduction, TLAPS

Causes == {"not_started", "runner_error", "interrupted", "command_success", "command_failed", "timeout",
           "resource_stop"}

Outcomes == {"none", "not_needed", "after_sigterm", "after_sigkill", "unverifiable", "incomplete"}

Good == {"not_needed", "after_sigterm", "after_sigkill"}

Records == [primary : Causes, process : BOOLEAN, owner : BOOLEAN, execution_errors : BOOLEAN,
            evidence_complete : BOOLEAN, escalation : BOOLEAN, snapshot_errors : BOOLEAN,
            outcome : Outcomes, reaped : BOOLEAN, success : BOOLEAN, published : BOOLEAN,
            runner_signals : Nat]

Whys == {"none", "initial", "term", "term_wait", "kill", "kill_wait", "final"}

Scans == [why : Whys, todo : SUBSET Pids, live : SUBSET Pids, errors : BOOLEAN]

Types ==
    /\ proc \in [Pids -> {"free", "live", "zombie", "foreign"}] /\ rec \in Records /\ scan \in Scans
    /\ signals \in Nat /\ faults \in Nat

Watching == {"owner", "loop", "poll", "wall", "monitor", "close", "cleanup"}

Judging == {"settle", "capture", "judge", "report", "done"}

\* Until cleanup waits for the leader, nobody has reaped it.
Anchor ==
    /\ pc \in {"start", "scan", "wait"} \cup Watching \cup Judging
    /\ pc = "start" => ~rec.process
    /\ pc \in Watching \cup {"wait"} \/ (pc = "scan" /\ scan.why # "final")
       => proc[Leader] \in {"live", "zombie"}

\* Without a failing call no read is missing and the owner is known.
Sure ==
    faults = 0 => /\ ~rec.snapshot_errors /\ ~scan.errors /\ rec.outcome # "unverifiable"
                  /\ pc \notin {"start", "owner"} => rec.owner

\* What the first cause says.
Cause ==
    /\ pc \in {"start", "owner", "loop", "poll", "wall", "monitor"} => rec.primary = "not_started"
    /\ rec.primary = "command_success" => exit = "zero" /\ proc[Leader] # "live"

\* The final inspection does not lose a member that lives on.
Inspected ==
    /\ known \subseteq Group
    /\ pc = "scan" /\ scan.why = "final" => scan.errors \/ known \subseteq scan.todo \cup scan.live
    /\ pc \in Judging /\ rec.process /\ rec.outcome \in Good => known = {}

\* What a success rests on.
Verdict ==
    rec.success => /\ pc \in {"report", "done"} /\ rec.primary = "command_success"
                   /\ pc = "done" => rec.published

Inv == Types /\ Anchor /\ Sure /\ Cause /\ Inspected /\ Verdict

\* The scan reads a PID of its listing.
LEMMA MinIn ==
    ASSUME NEW S \in SUBSET Pids, S # {}
    PROVE  Min(S) \in S
<1> DEFINE R == OpToRel(<, Nat)
<1>1. IsWellFoundedOn(R, Nat)
    BY NatLessThanWellFounded, ZenonT(30)
<1>2. \A x, y \in Nat : x < y => <<x, y>> \in R
    BY DEF OpToRel
<1> HIDE DEF R
<1>3. S \subseteq Nat
    BY RunnerAssumption
<1>4. PICK x \in S : \A y \in S : ~(<<y, x>> \in R)
    BY <1>1, <1>3, WFMin, ZenonT(30)
<1>5. \A y \in S : ~(y < x)
    BY <1>2, <1>3, <1>4, ZenonT(30)
<1>6. \A y \in S : x =< y
    BY <1>3, <1>5
<1> QED
    BY <1>6 DEF Min

(***************************************************************************)
(* The target, signals and time.                                           *)
(***************************************************************************)
LEMMA WorldKeepsInv ==
    ASSUME Inv, Target \/ Reuse \/ Interrupt \/ Tick
    PROVE  Inv'
<1>0. Types /\ Leader \in Pids /\ UNCHANGED <<pc, scan, rec, faults>>
    BY RunnerAssumption DEF Inv, Target, Exit, Die, Ends, Fork, ReapMember, Reuse, Interrupt, Tick, runner
<1>1. signals' \in Nat
    BY <1>0 DEF Types, Target, Exit, Die, Ends, Fork, ReapMember, Reuse, Interrupt, Tick
<1>2. ASSUME NEW p \in Pids, NEW how, Ends(p, how)
      PROVE  Inv'
    <2>1. /\ proc' \in [Pids -> {"free", "live", "zombie", "foreign"}]
          /\ \A q \in Pids : proc'[q] = IF q = p THEN "zombie" ELSE proc[q]
          /\ proc[p] = "live" /\ known' = known \ {p} /\ (p # Leader => exit' = exit)
        BY <1>0, <1>2 DEF Ends, Types
    <2>2. Types' /\ Anchor' /\ Sure' /\ Verdict'
        BY <1>0, <1>1, <2>1 DEF Inv, Types, Anchor, Sure, Verdict
    <2>3. Cause'
        BY <1>0, <2>1 DEF Inv, Cause
    <2>4. Inspected'
        BY <1>0, <2>1 DEF Inv, Inspected, Group
    <2> QED
        BY <2>2, <2>3, <2>4 DEF Inv
<1>3. ASSUME NEW p \in Pids, ReapMember(p)
      PROVE  Inv'
    <2>1. /\ proc' \in [Pids -> {"free", "live", "zombie", "foreign"}]
          /\ \A q \in Pids : proc'[q] = IF q = p THEN "free" ELSE proc[q]
          /\ proc[p] = "zombie" /\ p # Leader /\ UNCHANGED <<known, exit>>
        BY <1>0, <1>3 DEF ReapMember, Types
    <2>2. Types' /\ Anchor' /\ Sure' /\ Verdict'
        BY <1>0, <1>1, <2>1 DEF Inv, Types, Anchor, Sure, Verdict
    <2>3. Cause'
        BY <1>0, <2>1 DEF Inv, Cause
    <2>4. Inspected'
        BY <1>0, <2>1 DEF Inv, Inspected, Group
    <2> QED
        BY <2>2, <2>3, <2>4 DEF Inv
<1>4. ASSUME NEW p \in Pids, NEW c \in Pids, Fork(p, c)
      PROVE  Inv'
    <2>1. /\ proc' \in [Pids -> {"free", "live", "zombie", "foreign"}]
          /\ \A q \in Pids : proc'[q] = IF q = c THEN "live" ELSE proc[q]
          /\ c # Leader /\ UNCHANGED <<known, exit>>
        BY <1>0, <1>4 DEF Fork, Types
    <2>2. Types' /\ Anchor' /\ Sure' /\ Verdict'
        BY <1>0, <1>1, <2>1 DEF Inv, Types, Anchor, Sure, Verdict
    <2>3. Cause'
        BY <1>0, <2>1 DEF Inv, Cause
    <2>4. Inspected'
        BY <1>0, <2>1 DEF Inv, Inspected, Group
    <2> QED
        BY <2>2, <2>3, <2>4 DEF Inv
<1>5. CASE Reuse
    <2>1. /\ proc' \in [Pids -> {"free", "live", "zombie", "foreign"}]
          /\ \A q \in Pids : proc[q] = "free" /\ proc'[q] = IF q = Leader THEN "foreign" ELSE "free"
          /\ UNCHANGED <<known, exit>>
        BY <1>0, <1>5 DEF Reuse, Types
    <2>2. Types' /\ Anchor' /\ Sure' /\ Verdict'
        BY <1>0, <1>1, <2>1 DEF Inv, Types, Anchor, Sure, Verdict
    <2>3. Cause'
        BY <1>0, <2>1 DEF Inv, Cause
    <2>4. Inspected'
        BY <1>0, <2>1 DEF Inv, Inspected, Group
    <2> QED
        BY <2>2, <2>3, <2>4 DEF Inv
<1>6. CASE Interrupt \/ Tick
    <2>1. UNCHANGED <<proc, known, exit>>
        BY <1>6 DEF Interrupt, Tick, target
    <2>2. Types' /\ Anchor' /\ Sure' /\ Verdict'
        BY <1>0, <1>1, <2>1 DEF Inv, Types, Anchor, Sure, Verdict
    <2>3. Cause' /\ Inspected'
        BY <1>0, <2>1 DEF Inv, Cause, Inspected, Group
    <2> QED
        BY <2>2, <2>3 DEF Inv
<1> QED
    BY <1>2, <1>3, <1>4, <1>5, <1>6 DEF Target, Exit, Die

(***************************************************************************)
(* run_command up to cleanup.                                              *)
(***************************************************************************)
\* What an exception leaves of the record.
LEMMA CaughtFacts ==
    ASSUME Types
    PROVE  /\ Caught \in Records /\ Caught.process = rec.process /\ Caught.owner = rec.owner
           /\ Caught.snapshot_errors = rec.snapshot_errors /\ Caught.outcome = rec.outcome
           /\ Caught.success = rec.success
           /\ Caught.primary = IF rec.primary = "not_started" THEN "runner_error" ELSE rec.primary
<1>0. rec \in Records
    BY DEF Types
<1>1. CASE rec.primary = "not_started"
    <2>1. Caught = [rec EXCEPT !.primary = "runner_error"]
        BY <1>1 DEF Caught, Primary
    <2> QED
        BY <1>0, <1>1, <2>1, ZenonT(30) DEF Records, Causes
<1>2. CASE rec.primary # "not_started"
    <2>1. Caught = [rec EXCEPT !.execution_errors = TRUE, !.evidence_complete = FALSE]
        BY <1>2 DEF Caught
    <2> QED
        BY <1>0, <1>2, <2>1, ZenonT(30) DEF Records
<1> QED
    BY <1>1, <1>2

\* A step that watches the target: it leaves the outcome of the cleanup alone and has
\* grounds for its cause.
Watched ==
    /\ UNCHANGED <<proc, exit, known, scan, signals>> /\ pc \in Watching \ {"cleanup"}
    /\ pc' \in Watching \ {"owner"}
    /\ faults' \in Nat /\ (faults' = 0 => faults = 0 /\ (pc = "owner" => rec'.owner))
    /\ rec' \in Records /\ rec'.process = rec.process /\ rec'.snapshot_errors = rec.snapshot_errors
    /\ rec'.outcome = rec.outcome /\ rec'.success = rec.success
    /\ pc # "owner" => rec'.owner = rec.owner
    /\ rec'.primary # rec.primary => rec.primary = "not_started"
    /\ pc' \in {"loop", "poll", "wall", "monitor"} => rec'.primary = rec.primary /\ pc # "close"
    /\ rec'.primary = "command_success" =>
          rec.primary = "command_success" \/ (exit = "zero" /\ proc[Leader] = "zombie")

\* It keeps the invariant.
LEMMA WatchedKeepsInv ==
    ASSUME Inv, Watched PROVE Inv'
<1>1. Types'
    BY DEF Inv, Types, Watched
<1>2. Anchor' /\ Sure'
    BY DEF Inv, Anchor, Sure, Watched, Watching
<1>3. Cause'
    BY DEF Inv, Cause, Watched, Watching
<1>4. Inspected'
    BY DEF Inv, Inspected, Watched, Watching, Judging, Group
<1>5. Verdict'
    BY DEF Inv, Verdict, Watched, Watching
<1> QED
    BY <1>1, <1>2, <1>3, <1>4, <1>5 DEF Inv

\* A step that goes on with the record at hand, an exception in it, and a new cause.
LEMMA WatchSteps ==
    ASSUME Inv, UNCHANGED <<target, signals>>, pc \in Watching \ {"cleanup"}
    PROVE  /\ \A l \in {"loop", "poll", "wall", "monitor"} :
                 pc \notin {"owner", "close"} /\ Works /\ Goto(l, rec) => Watched
           /\ \A l \in {"close", "cleanup"} : Fails /\ Goto(l, Caught) => Watched
<1>0. /\ Types /\ UNCHANGED <<proc, exit, known, signals>> /\ faults \in Nat /\ rec \in Records
    BY DEF Inv, Types, target
<1>1. ASSUME NEW l \in {"loop", "poll", "wall", "monitor"}, pc \notin {"owner", "close"}, Works, Goto(l, rec)
      PROVE  Watched
    BY <1>0, <1>1 DEF Watched, Watching, Works, Goto
<1>2. ASSUME NEW l \in {"close", "cleanup"}, Fails, Goto(l, Caught)
      PROVE  Watched
    <2>1. faults' \in Nat /\ faults' # 0
        BY <1>0, <1>2 DEF Fails
    <2> QED
        BY <1>0, <1>2, <2>1, CaughtFacts DEF Watched, Watching, Goto
<1> QED
    BY <1>1, <1>2

\* A new cause at the end of the loop.
LEMMA EndsLoop ==
    ASSUME Inv, UNCHANGED <<target, signals>>, pc \in {"loop", "poll", "wall", "monitor"},
           NEW why \in Causes, NEW high \in BOOLEAN, Works \/ Fails,
           Goto("close", [rec EXCEPT !.escalation = high, !.primary = why]),
           why = "command_success" => exit = "zero" /\ proc[Leader] = "zombie"
    PROVE  Watched
<1>0. /\ Types /\ UNCHANGED <<proc, exit, known, signals>> /\ faults \in Nat /\ rec \in Records
      /\ rec.primary = "not_started"
    BY DEF Inv, Types, Cause, target
<1>1. /\ rec' \in Records /\ rec'.process = rec.process /\ rec'.snapshot_errors = rec.snapshot_errors
      /\ rec'.outcome = rec.outcome /\ rec'.success = rec.success /\ rec'.owner = rec.owner
      /\ rec'.primary = why
    BY <1>0, ZenonT(30) DEF Goto, Records
<1>2. faults' \in Nat /\ (faults' = 0 => faults = 0)
    BY <1>0 DEF Works, Fails
<1> QED
    BY <1>0, <1>1, <1>2 DEF Watched, Watching, Goto

\* Every step up to cleanup keeps the invariant.
LEMMA RunKeepsInv ==
    ASSUME Inv, Owner \/ Loop \/ Poll \/ Wall \/ Monitor \/ Close
    PROVE  Watched
<1>0. /\ Types /\ UNCHANGED <<target, signals, proc, exit, known>> /\ faults \in Nat /\ rec \in Records
      /\ rec.escalation \in BOOLEAN
    BY ZenonT(30) DEF Inv, Types, Records, Owner, Loop, Poll, Wall, Monitor, Close, target
<1>1. ASSUME NEW why \in Causes, Works, Goto("close", Primary(why)),
             pc \in {"loop", "poll", "wall", "monitor"},
             why = "command_success" => exit = "zero" /\ proc[Leader] = "zombie"
      PROVE  Watched
    <2>1. Primary(why) = [rec EXCEPT !.escalation = rec.escalation, !.primary = why]
        BY <1>0, ZenonT(30) DEF Primary, Records
    <2> QED
        BY <1>0, <1>1, <2>1, EndsLoop, ZenonT(30)
<1>2. CASE Owner
    <2>1. pc = "owner" /\ rec.primary = "not_started"
        BY <1>2 DEF Owner, Inv, Cause
    <2>2. CASE Works /\ Goto("loop", [rec EXCEPT !.owner = TRUE])
        <3>1. /\ rec' \in Records /\ rec'.process = rec.process /\ rec'.snapshot_errors = rec.snapshot_errors
              /\ rec'.outcome = rec.outcome /\ rec'.success = rec.success /\ rec'.owner
              /\ rec'.primary = rec.primary
            BY <1>0, <2>2, ZenonT(30) DEF Goto, Records
        <3> QED
            BY <1>0, <2>1, <2>2, <3>1 DEF Watched, Watching, Works, Goto
    <2>3. CASE Fails /\ Goto("cleanup", Caught)
        BY <1>0, <2>1, <2>3, WatchSteps DEF Watching
    <2>4. CASE Fails /\ Goto("cleanup", [Caught EXCEPT !.owner = TRUE])
        <3> DEFINE r == Caught
        <3>1. /\ r \in Records /\ r.process = rec.process /\ r.owner = rec.owner
              /\ r.snapshot_errors = rec.snapshot_errors /\ r.outcome = rec.outcome
              /\ r.success = rec.success /\ r.primary = "runner_error"
            BY <1>0, <2>1, CaughtFacts
        <3>2. rec' = [r EXCEPT !.owner = TRUE]
            BY <2>4 DEF Goto
        <3> HIDE DEF r
        <3>3. /\ rec' \in Records /\ rec'.process = r.process /\ rec'.snapshot_errors = r.snapshot_errors
              /\ rec'.outcome = r.outcome /\ rec'.success = r.success /\ rec'.owner
              /\ rec'.primary = r.primary
            BY <3>1, <3>2, ZenonT(30) DEF Records
        <3>4. faults' \in Nat /\ faults' # 0
            BY <1>0, <2>4 DEF Fails
        <3> QED
            BY <1>0, <2>1, <2>4, <3>1, <3>3, <3>4 DEF Watched, Watching, Goto
    <2> QED
        BY <1>2, <2>2, <2>3, <2>4 DEF Owner
<1>3. CASE Loop \/ Poll \/ Wall
    <2>1. pc \in {"loop", "poll", "wall"} /\ Works
        BY <1>3 DEF Loop, Poll, Wall
    <2>2. \/ \E l \in {"loop", "poll", "wall", "monitor"} : Goto(l, rec)
          \/ \E why \in Causes : /\ Goto("close", Primary(why))
                                 /\ why = "command_success" => exit = "zero" /\ proc[Leader] = "zombie"
        BY <1>3, ZenonT(30) DEF Loop, Poll, Wall, Causes
    <2> QED
        BY <1>0, <1>1, <2>1, <2>2, WatchSteps DEF Watching
<1>4. CASE Monitor
    <2>0. pc = "monitor"
        BY <1>4 DEF Monitor
    <2>1. CASE Fails /\ Goto("close", Caught)
        BY <1>0, <2>0, <2>1, WatchSteps DEF Watching
    <2>2. ASSUME NEW rss \in {"low", "high", "stop"}, NEW why \in Causes \ {"command_success"}, Works \/ Fails,
                 Goto("close", [[rec EXCEPT !.escalation = @ \/ rss # "low"] EXCEPT !.primary = why])
          PROVE  Watched
        <3> DEFINE high == rec.escalation \/ rss # "low"
        <3>1. high \in BOOLEAN
            OBVIOUS
        <3>2. Goto("close", [rec EXCEPT !.escalation = high, !.primary = why])
            BY <2>2
        <3> HIDE DEF high
        <3> QED
            BY <1>0, <2>0, <2>2, <3>1, <3>2, EndsLoop, ZenonT(30)
    <2>3. ASSUME NEW rss \in {"low", "high", "stop"}, Works,
                 Goto("loop", [rec EXCEPT !.escalation = @ \/ rss # "low"])
          PROVE  Watched
        <3>1. /\ rec' \in Records /\ rec'.process = rec.process /\ rec'.snapshot_errors = rec.snapshot_errors
              /\ rec'.outcome = rec.outcome /\ rec'.success = rec.success /\ rec'.owner = rec.owner
              /\ rec'.primary = rec.primary
            BY <1>0, <2>3, ZenonT(30) DEF Goto, Records
        <3> QED
            BY <1>0, <2>0, <2>3, <3>1 DEF Watched, Watching, Works, Goto
    <2> QED
        BY <1>4, <2>1, <2>2, <2>3, ZenonT(30) DEF Monitor, Causes
<1>5. CASE Close
    <2>0. pc = "close"
        BY <1>5 DEF Close
    <2>1. CASE Works /\ Goto("cleanup", rec)
        BY <1>0, <2>0, <2>1 DEF Watched, Watching, Works, Goto
    <2>2. CASE Fails /\ Goto("cleanup", Caught)
        BY <1>0, <2>0, <2>2, WatchSteps DEF Watching
    <2> QED
        BY <1>5, <2>1, <2>2 DEF Close
<1> QED
    BY <1>2, <1>3, <1>4, <1>5

\* The start keeps it, with a target or without.
LEMMA StartKeepsInv ==
    ASSUME Inv, Start
    PROVE  Inv' /\ (rec'.primary # rec.primary => rec.primary = "not_started")
<1>0. /\ Types /\ pc = "start" /\ UNCHANGED <<exit, known, signals>> /\ faults \in Nat /\ rec \in Records
      /\ rec.primary = "not_started" /\ Leader \in Pids /\ ~rec.success
    BY RunnerAssumption DEF Inv, Types, Cause, Start, Verdict
<1>1. CASE /\ Works /\ Goto("owner", [rec EXCEPT !.process = TRUE])
           /\ proc' = [proc EXCEPT ![Leader] = "live"]
    <2>1. /\ rec' \in Records /\ rec'.snapshot_errors = rec.snapshot_errors /\ rec'.primary = "not_started"
          /\ rec'.outcome = rec.outcome /\ ~rec'.success
        BY <1>0, <1>1, ZenonT(30) DEF Goto, Records
    <2>2. /\ proc' \in [Pids -> {"free", "live", "zombie", "foreign"}] /\ proc'[Leader] = "live"
          /\ \A p \in Pids : proc[p] = "live" => proc'[p] = "live"
        BY <1>0, <1>1 DEF Types
    <2>3. Types' /\ Anchor' /\ Sure' /\ Cause' /\ Verdict'
        BY <1>0, <1>1, <2>1, <2>2 DEF Inv, Types, Anchor, Sure, Cause, Verdict, Watching, Works, Goto
    <2>4. Inspected'
        BY <1>0, <1>1, <2>2 DEF Inv, Inspected, Group, Goto, Judging
    <2> QED
        BY <1>0, <2>1, <2>3, <2>4 DEF Inv
<1>2. CASE Fails /\ Goto("settle", Caught) /\ UNCHANGED proc
    <2>1. faults' \in Nat /\ faults' # 0
        BY <1>0, <1>2 DEF Fails
    <2>2. /\ rec' \in Records /\ rec'.primary = "runner_error" /\ ~rec'.success /\ rec'.process = rec.process
        BY <1>0, <1>2, CaughtFacts DEF Goto
    <2>3. Types' /\ Anchor' /\ Sure' /\ Cause' /\ Verdict'
        BY <1>0, <1>2, <2>1, <2>2 DEF Inv, Types, Anchor, Sure, Cause, Verdict, Judging, Watching, Goto
    <2>4. Inspected'
        BY <1>0, <1>2, <2>2 DEF Inv, Anchor, Inspected, Group, Goto, Judging
    <2> QED
        BY <1>0, <2>2, <2>3, <2>4 DEF Inv
<1> QED
    BY <1>0, <1>1, <1>2 DEF Start

(***************************************************************************)
(* cleanup().                                                              *)
(***************************************************************************)
\* A step of cleanup before the final inspection: the cause stays, nobody is reaped.
Cleaned ==
    /\ UNCHANGED <<proc, exit, known, signals>>
    /\ pc \in {"cleanup"} \/ (pc = "scan" /\ scan.why # "final")
    /\ pc' = "wait" \/ (pc' = "scan" /\ scan'.why # "final")
    /\ scan' \in Scans /\ rec' \in Records
    /\ faults' \in Nat
    /\ faults' = 0 => faults = 0 /\ ~scan'.errors /\ ~rec'.snapshot_errors /\ rec'.outcome # "unverifiable"
    /\ rec'.primary = rec.primary /\ rec'.success = rec.success /\ rec'.owner = rec.owner

\* It keeps the invariant.
LEMMA CleanedKeepsInv ==
    ASSUME Inv, Cleaned PROVE Inv'
<1>1. Types'
    BY DEF Inv, Types, Cleaned
<1>2. Anchor' /\ Sure'
    BY DEF Inv, Anchor, Sure, Cleaned, Watching
<1>3. Cause'
    BY DEF Inv, Cause, Cleaned
<1>4. Inspected'
    BY DEF Inv, Inspected, Cleaned, Judging, Group
<1>5. Verdict'
    BY DEF Inv, Verdict, Cleaned
<1> QED
    BY <1>1, <1>2, <1>3, <1>4, <1>5 DEF Inv

\* A new snapshot has read nothing yet.
LEMMA ScanBeginFacts ==
    ASSUME Types, NEW why \in Whys, NEW timer, ScanBegin(why, timer)
    PROVE  /\ scan' \in Scans /\ scan'.why = why /\ ~scan'.errors /\ pc' = "scan"
           /\ scan'.todo = {p \in Pids : proc[p] # "free"}
BY DEF ScanBegin, Scans

\* The outcome of the signalling part.
LEMMA OutcomeFacts ==
    ASSUME Types, NEW what \in Outcomes
    PROVE  /\ [rec EXCEPT !.outcome = what] \in Records
           /\ [rec EXCEPT !.outcome = what].outcome = what
           /\ [rec EXCEPT !.outcome = what].snapshot_errors = rec.snapshot_errors
           /\ [rec EXCEPT !.outcome = what].primary = rec.primary
           /\ [rec EXCEPT !.outcome = what].success = rec.success
           /\ [rec EXCEPT !.outcome = what].owner = rec.owner
           /\ [rec EXCEPT !.outcome = what].process = rec.process
BY ZenonT(30) DEF Types, Records

\* A snapshot may follow, or the signalling part be over.
LEMMA CleanSteps ==
    ASSUME Inv, UNCHANGED <<proc, exit, known, signals>>, pc = "cleanup" \/ (pc = "scan" /\ scan.why # "final")
    PROVE  /\ \A timer : \A why \in Whys \ {"final"} : Works /\ ScanBegin(why, timer) /\ UNCHANGED rec => Cleaned
           /\ \A what \in Outcomes \ {"unverifiable"} : Works /\ Settled(what) => Cleaned
           /\ Fails /\ Unverifiable => Cleaned
           /\ ~Authorised /\ Works /\ Unverifiable /\ pc # "cleanup" => Cleaned
<1>0. /\ Types /\ faults \in Nat /\ rec \in Records
    BY DEF Inv, Types
<1>1. ASSUME NEW why \in Whys \ {"final"}, NEW timer, Works, ScanBegin(why, timer), UNCHANGED rec
      PROVE  Cleaned
    <2>1. scan' \in Scans /\ scan'.why = why /\ ~scan'.errors /\ pc' = "scan"
        BY <1>0, <1>1, ScanBeginFacts
    <2> QED
        BY <1>0, <1>1, <2>1 DEF Cleaned, Works, Inv, Sure
<1>2. Idle \in Scans /\ Idle.why = "none" /\ ~Idle.errors
    BY DEF Idle, Scans, Whys
<1>3. ASSUME NEW what \in Outcomes \ {"unverifiable"}, Works, Settled(what)
      PROVE  Cleaned
    <2>1. PICK w \in Outcomes : /\ rec' = [rec EXCEPT !.outcome = w]
                                /\ ~rec.snapshot_errors => w # "unverifiable"
        BY <1>3, ZenonT(30) DEF Settled, Outcomes
    <2>2. pc' = "wait" /\ scan' = Idle /\ faults' = faults
        BY <1>3 DEF Settled, Works
    <2>3. /\ rec' \in Records /\ rec'.outcome = w /\ rec'.snapshot_errors = rec.snapshot_errors
          /\ rec'.primary = rec.primary /\ rec'.success = rec.success /\ rec'.owner = rec.owner
        BY <1>0, <2>1, OutcomeFacts, ZenonT(30)
    <2> QED
        BY <1>0, <1>2, <2>1, <2>2, <2>3 DEF Cleaned, Inv, Sure
<1>4. ASSUME Unverifiable, faults' \in Nat, faults' # 0
      PROVE  Cleaned
    <2>1. pc' = "wait" /\ scan' = Idle /\ rec' = [rec EXCEPT !.outcome = "unverifiable"]
        BY <1>4 DEF Unverifiable
    <2>2. /\ rec' \in Records
          /\ rec'.primary = rec.primary /\ rec'.success = rec.success /\ rec'.owner = rec.owner
        BY <1>0, <2>1, OutcomeFacts, ZenonT(30) DEF Outcomes
    <2> QED
        BY <1>0, <1>2, <1>4, <2>1, <2>2 DEF Cleaned
<1>5. ASSUME Fails, Unverifiable PROVE Cleaned
    <2>1. faults' \in Nat /\ faults' # 0
        BY <1>0, <1>5 DEF Fails
    <2> QED
        BY <1>4, <1>5, <2>1
<1>6. ASSUME ~Authorised, Works, Unverifiable, pc # "cleanup" PROVE Cleaned
    <2>1. faults # 0
        BY <1>6 DEF Inv, Sure, Anchor, Authorised
    <2>2. faults' \in Nat /\ faults' # 0
        BY <1>0, <1>6, <2>1 DEF Works
    <2> QED
        BY <1>4, <1>6, <2>2
<1> QED
    BY <1>1, <1>3, <1>5, <1>6

\* The steps of cleanup before process.wait.
LEMMA CleanupSteps ==
    ASSUME Inv, Cleanup \/ Initial \/ Term \/ TermWait \/ Kill \/ KillWait
    PROVE  Cleaned
<1>0. UNCHANGED <<proc, exit, known, signals>> /\ (pc = "cleanup" \/ (pc = "scan" /\ scan.why # "final"))
    BY ZenonT(30) DEF Cleanup, Initial, Term, TermWait, Kill, KillWait, Signal, WaitOn, WaitOver, Snapshot, target
<1>1. ASSUME NEW why \in {"term", "kill"}, ToSignal(why), pc # "cleanup"
      PROVE  Cleaned
    BY <1>0, <1>1, CleanSteps, ZenonT(30) DEF ToSignal, Whys
<1>2. CASE Cleanup
    BY <1>0, <1>2, CleanSteps, ZenonT(30) DEF Cleanup, Whys
<1>3. CASE Initial
    BY <1>0, <1>1, <1>3, CleanSteps, ZenonT(30) DEF Initial, Snapshot, Outcomes
<1>4. CASE Term \/ Kill
    BY <1>0, <1>4, CleanSteps, ZenonT(30) DEF Term, Kill, Signal, Whys
<1>5. ASSUME NEW why \in {"term_wait", "kill_wait"}, WaitOn(why)
      PROVE  Cleaned
    <2>1. Works /\ ScanBegin(why, late) /\ UNCHANGED rec
        BY <1>5 DEF WaitOn, Works
    <2> QED
        BY <1>0, <2>1, CleanSteps DEF Whys
<1>6. CASE TermWait
    BY <1>0, <1>1, <1>5, <1>6, CleanSteps, ZenonT(30) DEF TermWait, WaitOver, Snapshot, Outcomes
<1>7. CASE KillWait
    BY <1>0, <1>5, <1>7, CleanSteps, ZenonT(30) DEF KillWait, Outcomes
<1> QED
    BY <1>2, <1>3, <1>4, <1>6, <1>7

\* Reading a PID: a member that lives is put down, or the read failed.
LEMMA ScanPidKeepsInv ==
    ASSUME Inv, ScanPid
    PROVE  Inv' /\ rec'.primary = rec.primary
<1> DEFINE p == Min(scan.todo)
<1>0. /\ Types /\ faults \in Nat /\ rec \in Records /\ scan \in Scans /\ pc = "scan"
      /\ UNCHANGED <<proc, exit, known, signals, pc>> /\ p \in Pids /\ p \in scan.todo
    BY MinIn DEF Inv, Types, Scans, ScanPid, target
<1> HIDE DEF p
<1>1. CASE /\ Works /\ UNCHANGED rec
           /\ scan' = [scan EXCEPT !.todo = @ \ {p},
                                   !.live = IF proc[p] \in {"live", "foreign"} THEN @ \cup {p} ELSE @]
    <2>1. /\ scan' \in Scans /\ scan'.why = scan.why /\ scan'.errors = scan.errors
          /\ scan'.todo = scan.todo \ {p}
          /\ scan'.live = IF proc[p] \in {"live", "foreign"} THEN scan.live \cup {p} ELSE scan.live
        BY <1>0, <1>1, ZenonT(30) DEF Scans
    <2>2. Types' /\ Anchor' /\ Sure' /\ Cause' /\ Verdict'
        BY <1>0, <1>1, <2>1 DEF Inv, Types, Anchor, Sure, Cause, Verdict, Works
    <2>3. Inspected'
        BY <1>0, <1>1, <2>1 DEF Inv, Inspected, Group, Judging
    <2> QED
        BY <1>1, <2>2, <2>3 DEF Inv
<1>2. CASE /\ Fails /\ rec' = [rec EXCEPT !.snapshot_errors = TRUE]
           /\ scan' = [scan EXCEPT !.todo = @ \ {p}, !.errors = TRUE]
    <2>0. faults' \in Nat /\ faults' # 0
        BY <1>0, <1>2 DEF Fails
    <2>1. scan' \in Scans /\ scan'.why = scan.why /\ scan'.errors
        BY <1>0, <1>2, ZenonT(30) DEF Scans
    <2>2. /\ rec' \in Records /\ rec'.primary = rec.primary /\ rec'.success = rec.success
          /\ rec'.process = rec.process /\ rec'.published = rec.published
        BY <1>0, <1>2, ZenonT(30) DEF Records
    <2>3. Types' /\ Anchor' /\ Sure' /\ Cause' /\ Verdict'
        BY <1>0, <2>0, <2>1, <2>2 DEF Inv, Types, Anchor, Sure, Cause, Verdict
    <2>4. Inspected'
        BY <1>0, <2>1 DEF Inv, Inspected, Group, Judging
    <2> QED
        BY <2>2, <2>3, <2>4 DEF Inv
<1> QED
    BY <1>1, <1>2 DEF ScanPid, p

\* The leader is reaped and the final inspection begins: its listing has every member
\* that lives.
LEMMA ReapedKeepsInv ==
    ASSUME Inv, Reaped
    PROVE  Inv' /\ rec'.primary = rec.primary
<1>0. /\ Types /\ pc = "wait" /\ UNCHANGED <<exit, signals, faults>> /\ rec \in Records /\ Leader \in Pids
      /\ known' = Group
    BY RunnerAssumption DEF Inv, Types, Reaped, Works
<1>1. /\ scan' \in Scans /\ scan'.why = "final" /\ ~scan'.errors /\ pc' = "scan"
      /\ scan'.todo = {p \in Pids : proc[p] # "free"}
    BY <1>0, ScanBeginFacts, ZenonT(30) DEF Reaped, Whys
<1>2. /\ proc' \in [Pids -> {"free", "live", "zombie", "foreign"}]
      /\ \A p \in Pids : proc[p] = "live" <=> proc'[p] = "live"
    BY <1>0 DEF Reaped, Types
<1>3. /\ rec' \in Records /\ rec'.primary = rec.primary /\ rec'.success = rec.success
      /\ rec'.process = rec.process /\ rec'.owner = rec.owner
      /\ rec'.snapshot_errors = rec.snapshot_errors
      /\ rec'.outcome \in {rec.outcome, "incomplete"}
    BY <1>0, ZenonT(30) DEF Reaped, Records, Outcomes
<1>4. Types' /\ Anchor' /\ Sure' /\ Cause' /\ Verdict'
    BY <1>0, <1>1, <1>2, <1>3 DEF Inv, Types, Anchor, Sure, Cause, Verdict, Watching
<1>5. Inspected'
    BY <1>0, <1>1, <1>2 DEF Inspected, Group, Judging
<1> QED
    BY <1>3, <1>4, <1>5 DEF Inv

\* The final inspection has the last word on the outcome.
LEMMA FinalKeepsInv ==
    ASSUME Inv, Final
    PROVE  Inv' /\ rec'.primary = rec.primary
<1>0. /\ Types /\ pc = "scan" /\ scan.why = "final" /\ scan.todo = {} /\ pc' = "settle" /\ scan' = Idle
      /\ UNCHANGED <<proc, known, exit, signals, faults>> /\ scan \in Scans /\ rec \in Records
    BY DEF Inv, Types, Final, Snapshot, Works, target
<1>1. Idle \in Scans /\ ~Idle.errors
    BY DEF Idle, Scans, Whys
<1>2. PICK what \in Outcomes :
         /\ rec' = [rec EXCEPT !.outcome = what]
         /\ what = "unverifiable" => scan.errors \/ rec.outcome = "unverifiable"
         /\ what \in Good => ~scan.errors /\ scan.live = {}
    <2>1. CASE scan.errors
        <3>1. rec' = [rec EXCEPT !.outcome = "unverifiable"]
            BY <2>1, ZenonT(30) DEF Final
        <3> QED
            BY <2>1, <3>1 DEF Outcomes, Good
    <2>2. CASE ~scan.errors /\ scan.live # {}
        <3>1. rec' = [rec EXCEPT !.outcome = "incomplete"]
            BY <2>2, ZenonT(30) DEF Final
        <3> QED
            BY <2>2, <3>1 DEF Outcomes, Good
    <2>3. CASE ~scan.errors /\ scan.live = {}
        <3>1. rec' = [rec EXCEPT !.outcome = rec.outcome]
            BY <2>3, ZenonT(30) DEF Final
        <3>2. rec.outcome \in Outcomes
            BY <1>0, ZenonT(30) DEF Records
        <3> QED
            BY <2>3, <3>1, <3>2
    <2> QED
        BY <2>1, <2>2, <2>3
<1>3. /\ rec' \in Records /\ rec'.primary = rec.primary /\ rec'.success = rec.success /\ rec'.outcome = what
      /\ rec'.process = rec.process /\ rec'.owner = rec.owner
      /\ rec'.snapshot_errors = rec.snapshot_errors
    BY <1>0, <1>2, OutcomeFacts, ZenonT(30)
<1>4. Types' /\ Anchor' /\ Sure' /\ Cause' /\ Verdict'
    BY <1>0, <1>1, <1>2, <1>3 DEF Inv, Types, Anchor, Sure, Cause, Verdict, Watching, Judging
<1>5. Inspected'
    BY <1>0, <1>2, <1>3 DEF Inv, Inspected, Group, Judging
<1> QED
    BY <1>3, <1>4, <1>5 DEF Inv

(***************************************************************************)
(* The verdict.                                                            *)
(***************************************************************************)
\* The steps after cleanup: a command that succeeded may become an interrupted one.
LEMMA JudgingKeepsInv ==
    ASSUME Inv, Settle \/ Capture \/ Judge \/ Report
    PROVE  /\ Inv'
           /\ rec'.primary # rec.primary => rec.primary = "command_success" /\ rec'.primary = "interrupted"
<1>0. /\ Types /\ pc \in Judging \ {"done"} /\ pc' \in Judging \ {"settle"}
      /\ UNCHANGED <<proc, known, exit, signals, scan>>
      /\ rec \in Records /\ signals \in Nat /\ faults \in Nat
    BY ZenonT(30) DEF Inv, Types, Settle, Capture, Judge, Report, Goto, Judging, target
<1>1. faults' \in Nat /\ (faults' = 0 => faults = 0)
    BY <1>0 DEF Settle, Capture, Judge, Report, Works, Fails
<1>2. ASSUME /\ rec' \in Records /\ rec'.process = rec.process /\ rec'.owner = rec.owner
             /\ rec'.snapshot_errors = rec.snapshot_errors /\ rec'.outcome = rec.outcome,
             rec'.primary = rec.primary \/ (rec.primary = "command_success" /\ rec'.primary = "interrupted"),
             rec'.success => pc' \in {"report", "done"} /\ rec'.primary = "command_success",
             rec'.success /\ pc' = "done" => rec'.published
      PROVE  /\ Inv'
             /\ rec'.primary # rec.primary => rec.primary = "command_success" /\ rec'.primary = "interrupted"
    <2>1. Types' /\ Anchor' /\ Sure' /\ Cause' /\ Verdict'
        BY <1>0, <1>1, <1>2 DEF Inv, Types, Anchor, Sure, Cause, Verdict, Watching, Judging
    <2>2. Inspected'
        BY <1>0, <1>2 DEF Inv, Inspected, Group, Judging
    <2> QED
        BY <1>2, <2>1, <2>2 DEF Inv
<1>3. CASE Settle
    <2>0. pc = "settle" /\ ~rec.success
        BY <1>3 DEF Settle, Inv, Verdict
    <2>1. CASE rec' = rec
        BY <1>0, <1>2, <2>0, <2>1
    <2>2. CASE rec.primary = "command_success" /\ rec' = [rec EXCEPT !.primary = "interrupted"]
        <3>1. /\ rec' \in Records /\ rec'.process = rec.process /\ rec'.owner = rec.owner
              /\ rec'.snapshot_errors = rec.snapshot_errors /\ rec'.outcome = rec.outcome
              /\ rec'.primary = "interrupted" /\ rec'.success = rec.success
            BY <1>0, <2>2, ZenonT(30) DEF Records, Causes
        <3> QED
            BY <1>2, <2>0, <2>2, <3>1
    <2> QED
        BY <1>3, <2>1, <2>2, ZenonT(30) DEF Settle, Goto, Primary
<1>4. CASE Capture
    <2>0. pc = "capture" /\ ~rec.success
        BY <1>4 DEF Capture, Inv, Verdict
    <2>1. CASE rec' = rec
        BY <1>0, <1>2, <2>0, <2>1
    <2>2. CASE rec' = [rec EXCEPT !.evidence_complete = FALSE]
        <3>1. /\ rec' \in Records /\ rec'.process = rec.process /\ rec'.owner = rec.owner
              /\ rec'.snapshot_errors = rec.snapshot_errors /\ rec'.outcome = rec.outcome
              /\ rec'.primary = rec.primary /\ rec'.success = rec.success
            BY <1>0, <2>2, ZenonT(30) DEF Records
        <3> QED
            BY <1>2, <2>0, <3>1
    <2> QED
        BY <1>4, <2>1, <2>2 DEF Capture, Goto
<1>5. CASE Judge
    <2>1. PICK success \in BOOLEAN : /\ rec' = [rec EXCEPT !.success = success]
                                     /\ success => rec.primary = "command_success"
        <3> DEFINE success == /\ rec.primary = "command_success" /\ CleanupSuccess(rec)
                              /\ rec.evidence_complete /\ ~rec.escalation /\ signals = 0
        <3>1. success \in BOOLEAN /\ (success => rec.primary = "command_success")
            OBVIOUS
        <3>2. rec' = [rec EXCEPT !.success = success]
            BY <1>5, ZenonT(30) DEF Judge, Goto
        <3> HIDE DEF success
        <3> QED
            BY <3>1, <3>2
    <2>2. /\ rec' \in Records /\ rec'.process = rec.process /\ rec'.owner = rec.owner
          /\ rec'.snapshot_errors = rec.snapshot_errors /\ rec'.outcome = rec.outcome
          /\ rec'.primary = rec.primary /\ rec'.success = success
        BY <1>0, <2>1, ZenonT(30) DEF Records
    <2>3. pc' = "report"
        BY <1>5 DEF Judge, Goto
    <2> QED
        BY <1>2, <2>1, <2>2, <2>3
<1>6. CASE Report
    <2>0. pc = "report" /\ pc' = "done" /\ (rec.success => rec.primary = "command_success")
        BY <1>6 DEF Report, Goto, Inv, Verdict
    <2>1. CASE rec' = [rec EXCEPT !.published = TRUE, !.runner_signals = signals]
        <3>1. /\ rec' \in Records /\ rec'.process = rec.process /\ rec'.owner = rec.owner
              /\ rec'.snapshot_errors = rec.snapshot_errors /\ rec'.outcome = rec.outcome
              /\ rec'.primary = rec.primary /\ rec'.success = rec.success /\ rec'.published
            BY <1>0, <2>1, ZenonT(30) DEF Records
        <3> QED
            BY <1>2, <2>0, <3>1
    <2>2. CASE rec' = [rec EXCEPT !.evidence_complete = FALSE, !.success = FALSE]
        <3>1. /\ rec' \in Records /\ rec'.process = rec.process /\ rec'.owner = rec.owner
              /\ rec'.snapshot_errors = rec.snapshot_errors /\ rec'.outcome = rec.outcome
              /\ rec'.primary = rec.primary /\ ~rec'.success
            BY <1>0, <2>2, ZenonT(30) DEF Records
        <3> QED
            BY <1>2, <2>0, <3>1
    <2> QED
        BY <1>6, <2>1, <2>2 DEF Report, Goto
<1> QED
    BY <1>3, <1>4, <1>5, <1>6

(***************************************************************************)
(* The theorems.                                                           *)
(***************************************************************************)
\* What a step may do to the first cause.
CauseKept ==
    rec'.primary # rec.primary => \/ rec.primary = "not_started"
                                  \/ rec.primary = "command_success" /\ rec'.primary = "interrupted"

\* Every step keeps the invariant and the cause.
LEMMA StepKeepsInv ==
    ASSUME Inv, [Next]_vars
    PROVE  Inv' /\ CauseKept
<1>1. CASE UNCHANGED vars
    <2>1. UNCHANGED <<proc, known, exit, pc, scan, rec, signals, faults>>
        BY <1>1 DEF vars, target, runner
    <2>2. Types' /\ Anchor' /\ Sure' /\ Cause' /\ Verdict'
        BY <2>1 DEF Inv, Types, Anchor, Sure, Cause, Verdict
    <2>3. Inspected'
        BY <2>1 DEF Inv, Inspected, Group
    <2> QED
        BY <2>1, <2>2, <2>3 DEF Inv, CauseKept
<1>2. CASE Target \/ Reuse \/ Interrupt \/ Tick
    <2>1. rec' = rec
        BY <1>2 DEF Target, Exit, Die, Ends, Fork, ReapMember, Reuse, Interrupt, Tick, runner
    <2> QED
        BY <1>2, <2>1, WorldKeepsInv DEF CauseKept
<1>3. CASE Start
    BY <1>3, StartKeepsInv DEF CauseKept
<1>4. CASE Owner \/ Loop \/ Poll \/ Wall \/ Monitor \/ Close
    BY <1>4, RunKeepsInv, WatchedKeepsInv DEF CauseKept, Watched
<1>5. CASE Cleanup \/ Initial \/ Term \/ TermWait \/ Kill \/ KillWait
    BY <1>5, CleanupSteps, CleanedKeepsInv DEF CauseKept, Cleaned
<1>6. CASE ScanPid \/ Reaped \/ Final
    BY <1>6, ScanPidKeepsInv, ReapedKeepsInv, FinalKeepsInv DEF CauseKept
<1>7. CASE Settle \/ Capture \/ Judge \/ Report
    BY <1>7, JudgingKeepsInv DEF CauseKept
<1> QED
    BY <1>1, <1>2, <1>3, <1>4, <1>5, <1>6, <1>7 DEF Next, Steps

\* The invariant holds in every run.
LEMMA Invariance == Spec => []Inv
<1>1. Init => Inv
    <2> SUFFICES ASSUME Init PROVE Inv
        OBVIOUS
    <2>1. /\ rec \in Records /\ rec.primary = "not_started" /\ ~rec.process /\ ~rec.snapshot_errors
          /\ rec.outcome = "none" /\ ~rec.success
        BY DEF Init, Records, Causes, Outcomes
    <2>2. scan \in Scans /\ ~scan.errors
        BY DEF Init, Idle, Scans, Whys
    <2>3. Types
        BY <2>1, <2>2 DEF Init, Types
    <2> QED
        BY <2>1, <2>2, <2>3 DEF Init, Inv, Anchor, Sure, Cause, Inspected, Verdict, Group, Watching, Judging
<1>2. Inv /\ [Next]_vars => Inv'
    BY StepKeepsInv
<1> QED
    BY <1>1, <1>2, PTL DEF Spec

\* CleanupHonest: whatever forks, ignores SIGTERM or outlives a grace, a cleanup that
\* reports success has reaped the leader and left no member its final inspection listed,
\* and a successful run is one whose leader exited with zero (run_check.py cleanup,
\* run_command).
THEOREM HonestCleanup == Spec => []CleanupHonest
<1>1. Inv => CleanupHonest
    BY DEF Inv, Inspected, Cause, Verdict, CleanupHonest, CleanupSuccess, Done, Good, Judging
<1> QED
    BY <1>1, Invariance, PTL

\* AnchorHeld: without a failing call the cleanup never ends unverifiable, because the
\* leader stays unreaped until process.wait (observed_exit, signal_group).
THEOREM AnchorStays == Spec => []AnchorHeld
<1>1. Inv => AnchorHeld
    BY DEF Inv, Sure, AnchorHeld
<1> QED
    BY <1>1, Invariance, PTL

\* FirstCauseKept: run_command never replaces the first cause it recorded, except that a
\* signal turns a command_success into interrupted.
THEOREM FirstCauseStays == Spec => FirstCauseKept
<1>1. Inv /\ [Next]_vars => [CauseKept]_vars
    BY StepKeepsInv
<1>2. [][CauseKept]_vars => FirstCauseKept
    BY PTL DEF FirstCauseKept, CauseKept
<1> QED
    BY <1>1, <1>2, Invariance, PTL DEF Spec
=============================================================================
