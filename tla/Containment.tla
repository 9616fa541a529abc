---------------------------- MODULE Containment ----------------------------
(***************************************************************************)
(* The two outermost processes of a benchmark attempt, each a subreaper    *)
(* that starts one child at a time, watches it and leaves nothing behind:  *)
(*                                                                         *)
(*   Guardian    g4_launch.launch: one child, the Supervisor                *)
(*   Collector   d2_collect.collect: the Guardian, then the verification,    *)
(*               under one deadline, and the verdict of the attempt          *)
(*                                                                         *)
(* Both use tests/harness.py to reap, to signal and to clean up.  The tree   *)
(* below the child forks, exits, ignores SIGTERM and outlives its parents at  *)
(* will; orphans are adopted by the nearest subreaper.                          *)
(* One listing of /proc/<pid>/task/<pid>/children is one step.                *)
(***************************************************************************)
EXTENDS Integers, FiniteSets

CONSTANTS Roles,           \* of "guardian" and "collector"
          Pids, Leader,    \* processes below; the direct child
          MaxForks,        \* bound: forks below the child
          MaxDescendants,  \* more of them stop the attempt
          MaxTrouble       \* bound: failing calls, signals, modified sources

ASSUME ContainmentAssumption ==
    /\ Roles \subseteq {"guardian", "collector"} /\ Pids \subseteq Nat \ {0} /\ IsFiniteSet(Pids) /\ Leader \in Pids
    /\ {MaxForks, MaxDescendants, MaxTrouble} \subseteq Nat

VARIABLES
    role,     \* who we are
    st,       \* PID |-> "free", "live" or "zombie"
    par,      \* PID |-> its parent, 0 for us
    deaf,     \* those that ignore SIGTERM
    doomed,   \* those with a deadly signal on its way
    ended,    \* phase |-> how its child ended
    pc,       \* the step of launch, collect, child or cleanup
    rec,      \* the record of the child at hand
    res,      \* the record of the attempt
    window,   \* the grace of the current cleanup stage has passed
    outer,    \* the deadline of the attempt has passed
    pending,  \* a signal has been recorded
    dir,      \* attempt marker there; sources and policy as frozen
    forks, trouble

tree == <<st, par, deaf, doomed, ended, forks>>
own == <<pc, rec, res, window>>
vars == <<role, tree, own, outer, pending, dir, trouble>>

Phases == {"guardian", "verification"}

Works == UNCHANGED trouble

Fails == trouble < MaxTrouble /\ trouble' = trouble + 1

(***************************************************************************)
(* The processes below.                                                    *)
(***************************************************************************)
Live == {p \in Pids : st[p] = "live"}

Children == {p \in Pids : st[p] # "free" /\ par[p] = 0}

Adopted == Children \ {Leader}

\* Mutant: no PR_SET_CHILD_SUBREAPER, orphans go to init.
AdopterInit(p) == -1

\* Orphans of p go to the nearest subreaper: the Guardian below a Collector, else us.
Adopter(p) ==
    IF role = "collector" /\ rec.phase = "guardian" /\ p # Leader /\ st[Leader] = "live"
    THEN Leader ELSE 0

Unused == {c \in Pids \ {Leader} : st[c] = "free"}

\* Nothing depends on the number of a new process, so any that is free will do.  The verification starts no process.
Fork(p) ==
    /\ st[p] = "live" /\ p \notin doomed /\ Unused # {} /\ rec.phase = "guardian"
    /\ forks < MaxForks /\ forks' = forks + 1
    /\ LET c == CHOOSE q \in Unused : TRUE
       IN /\ st' = [st EXCEPT ![c] = "live"] /\ par' = [par EXCEPT ![c] = p]
          /\ deaf' \in {deaf, deaf \cup {c}}
    /\ UNCHANGED <<doomed, ended>>

Ends(p, how) ==
    /\ st[p] = "live"
    /\ st' = [st EXCEPT ![p] = "zombie"]
    /\ par' = [q \in Pids |-> IF par[q] = p THEN Adopter(p) ELSE par[q]]
    /\ doomed' = doomed \ {p}
    /\ ended' = IF p = Leader THEN [ended EXCEPT ![rec.phase] = how] ELSE ended
    /\ UNCHANGED <<deaf, forks>>

\* The numbers ps become free.
Freed(ps) ==
    /\ st' = [p \in Pids |-> IF p \in ps THEN "free" ELSE st[p]]
    /\ par' = [p \in Pids |-> IF p \in ps THEN 0 ELSE par[p]]
    /\ deaf' = deaf \ ps /\ UNCHANGED <<ended, forks>>

Released(ps) == Freed(ps) /\ UNCHANGED doomed

Die(p) == p \in doomed /\ Ends(p, "signal")

ReapedBelow(p) ==
    /\ st[p] = "zombie" /\ par[p] \in Live /\ Released({p})

Below ==
    /\ \E p \in Pids : \/ Ends(p, "zero") \/ Ends(p, "nonzero") \/ Die(p) \/ ReapedBelow(p)
                       \/ Fork(p)
    /\ UNCHANGED <<role, own, outer, pending, dir, trouble>>

(***************************************************************************)
(* harness.py.                                                             *)
(***************************************************************************)
Quiet == UNCHANGED <<role, outer, pending, dir>>

Goto(l, r) == pc' = l /\ rec' = r /\ UNCHANGED <<res, window>>

Reap(ps) == Released({p \in ps \cap Children : st[p] = "zombie"})

\* cleanup() begins, for the reason why.
ToCleanup(r) == /\ pc' = "test" /\ rec' = [r EXCEPT !.stage = "TERM", !.graceOver = FALSE]
                /\ window' = FALSE /\ UNCHANGED res

\* The next signal, or the wait for the direct child.
NextStage ==
    /\ window' = FALSE /\ UNCHANGED res
    /\ IF rec.stage = "TERM"
       THEN pc' = "test" /\ rec' = [rec EXCEPT !.stage = "KILL", !.graceOver = window]
       ELSE pc' = "wait" /\ rec' = rec

Test ==
    /\ pc = "test" /\ Works /\ UNCHANGED tree
    /\ IF Children # {} /\ ~window THEN Goto("signal", rec) ELSE NextStage

\* An exception after the child was started.  The Collector records it.  The Guardian's
\* handler cleans up (again) if the child was not waited for; an exception in there
\* leaves launch().
Raise(r) ==
    IF role = "collector" THEN Goto("row", [r EXCEPT !.errors = TRUE])
    ELSE IF r.stop = "guardian_error" THEN Goto("publish", [r EXCEPT !.errors = TRUE])
    ELSE IF r.code = "none" THEN ToCleanup([r EXCEPT !.stop = "guardian_error"])
    ELSE Goto("publish", [r EXCEPT !.stop = "guardian_error"])

\* signal_children, only direct children and through pidfds, then reap_adopted.
Signal ==
    /\ pc = "signal"
    /\ LET hit == Children \cap Live
       IN \/ /\ Works /\ Freed({p \in Adopted : st[p] = "zombie"})
             /\ doomed' = doomed \cup (IF rec.stage = "TERM" THEN hit \ deaf ELSE hit)
             /\ Goto("check", [rec EXCEPT !.signals = @ \/ hit # {}])
          \/ Fails /\ UNCHANGED tree /\ Raise(rec)

\* Mutant: the exit of the direct child ends the stage, its orphans notwithstanding.
StageOverLeader == st[Leader] = "zombie"

\* The stage ends early once the direct child is a zombie and nobody else is left.
StageOver == st[Leader] = "zombie" /\ Adopted = {}

Check ==
    /\ pc = "check" /\ Works /\ UNCHANGED tree
    /\ IF ~StageOver /\ Children # {} /\ ~window THEN Goto("signal", rec) ELSE NextStage

\* Mutant: proc.wait() without a timeout.
WaitForever == pc = "wait" /\ Works /\ st[Leader] = "zombie" /\ Reap({Leader})
               /\ Goto("last", [rec EXCEPT !.code = ended[rec.phase]])

\* proc.wait(timeout=1)
Wait ==
    /\ pc = "wait" /\ Works
    /\ \/ st[Leader] = "zombie" /\ Reap({Leader}) /\ Goto("last", [rec EXCEPT !.code = ended[rec.phase]])
       \/ st[Leader] = "live" /\ window /\ Raise(rec) /\ UNCHANGED tree

LastReap ==
    /\ pc = "last"
    /\ \/ Works /\ Reap(Pids) /\ Goto("list", rec)
       \/ Fails /\ UNCHANGED tree /\ Raise(rec)

Listed(r) == [r EXCEPT !.residual = IF Children = {} THEN "none" ELSE "some"]

List ==
    /\ pc = "list" /\ Works /\ UNCHANGED tree
    /\ Goto(IF role = "guardian" THEN "publish" ELSE "row", Listed(rec))

Harness == (Test \/ Signal \/ Check \/ Wait \/ LastReap \/ List) /\ Quiet

(***************************************************************************)
(* Starting: the marker consumes the only attempt of the directory.        *)
(***************************************************************************)
Refused == pc' = "done" /\ res' = [res EXCEPT !.exit = 2] /\ UNCHANGED <<rec, window>>

Consumed == dir.attempt

Frozen == dir.bound

\* The Guardian: its binding, its resources, the exclusive marker.
Eligible == ~Consumed /\ Frozen

\* The Collector: checked(config), fresh(out), lock(), preflight(), checked(config) again,
\* the exclusive marker, the handlers.
Reserve ==
    /\ pc = "reserve" /\ UNCHANGED <<tree, role, outer, pending>>
    /\ \/ /\ Works /\ Eligible
          /\ dir' = [dir EXCEPT !.attempt = TRUE]
          /\ Goto(IF role = "guardian" THEN "spawn" ELSE "phase", rec)
       \/ ((Works /\ ~Eligible) \/ Fails) /\ Refused /\ UNCHANGED dir

NewRecord(phase) ==
    [phase |-> phase, stage |-> "TERM", graceOver |-> FALSE, stop |-> "none", signals |-> FALSE,
     code |-> "none", inTime |-> FALSE, normal |-> FALSE, residual |-> "unknown", errors |-> FALSE]

Spawn ==
    /\ pc = "spawn" /\ UNCHANGED <<par, doomed, ended, forks, role, outer, pending, dir>>
    /\ \/ /\ Works /\ st' = [st EXCEPT ![Leader] = "live"]
          /\ deaf' \in {deaf, deaf \cup {Leader}}
          /\ Goto("watch", rec)
       \/ /\ Fails /\ UNCHANGED <<st, deaf>>
          /\ IF role = "guardian" THEN Goto("publish", [rec EXCEPT !.stop = "guardian_error"])
             ELSE Goto("row", [rec EXCEPT !.stop = "collector_exception", !.errors = TRUE])

(***************************************************************************)
(* g4_launch.launch after the marker.                                      *)
(***************************************************************************)
Stopped(why) == ToCleanup([rec EXCEPT !.stop = why])

TooMany == Cardinality(Live \cup {p \in Pids \ Adopted : st[p] = "zombie"}) > MaxDescendants

GWatch ==
    /\ role = "guardian" /\ pc = "watch" /\ Quiet
    /\ IF st[Leader] = "zombie" THEN Works /\ UNCHANGED tree /\ Goto("over", rec)
       ELSE \/ /\ Works /\ Reap(Adopted)
               /\ IF pending \/ outer THEN Stopped("interrupt_or_outer_timeout")
                  ELSE IF TooMany THEN Stopped("process_count_or_headroom_stop")
                  ELSE Goto("watch", rec)
            \/ Fails /\ UNCHANGED tree /\ (Raise(rec) \/ Stopped("process_count_or_headroom_stop"))

\* Mutant: the Supervisor's exit status is taken whoever else is left.
GOverAlone ==
    /\ role = "guardian" /\ pc = "over" /\ Quiet /\ Works /\ Reap({Leader})
    /\ Goto("last", [rec EXCEPT !.code = ended.guardian, !.normal = TRUE])

\* The Supervisor has exited: its status counts only if it left no process.
GOver ==
    /\ role = "guardian" /\ pc = "over" /\ Quiet /\ Works
    /\ IF \E p \in Adopted : st[p] = "live"
       THEN Reap(Adopted) /\ Stopped("unexpected_surviving_child")
       ELSE Reap(Children) /\ Goto("last", [rec EXCEPT !.code = ended.guardian, !.normal = TRUE])

\* guardian.json, then the exit status of main().
GPublish ==
    /\ role = "guardian" /\ pc = "publish" /\ Quiet /\ UNCHANGED <<tree, rec, window>>
    /\ pc' = "done"
    /\ \/ Works /\ res' = [res EXCEPT !.published = TRUE,
                               !.exit = IF rec.normal /\ rec.code = "zero" /\ ~rec.errors THEN 0 ELSE 1]
       \/ Fails /\ res' = [res EXCEPT !.exit = 1]

(***************************************************************************)
(* d2_collect.child and collect after the marker.                          *)
(***************************************************************************)
CPhase ==
    /\ role = "collector" /\ pc = "phase" /\ Works /\ UNCHANGED tree /\ Quiet
    /\ IF outer \/ pending
       THEN pc' = "audit" /\ res' = [res EXCEPT !.timedOut = @ \/ outer, !.failed = TRUE]
            /\ UNCHANGED <<rec, window>>
       ELSE IF ~Frozen
       THEN pc' = "commit" /\ res' = [res EXCEPT !.failed = TRUE] /\ UNCHANGED <<rec, window>>
       ELSE Goto("spawn", rec)

\* Deadline, signal, exit, resources, in this order.
CWatch ==
    /\ role = "collector" /\ pc = "watch" /\ Quiet
    /\ \/ /\ Works /\ IF ~outer /\ ~pending /\ st[Leader] = "live" THEN Reap(Adopted) ELSE UNCHANGED tree
          /\ IF outer THEN Stopped("outer_timeout")
             ELSE IF pending THEN Stopped("collector_interrupted")
             ELSE IF st[Leader] = "zombie" THEN Goto("exited", rec)
             ELSE IF TooMany THEN Stopped("outer_resource_stop")
             ELSE Goto("watch", rec)
       \/ /\ Fails /\ UNCHANGED tree
          /\ Stopped("outer_resource_stop") \/ ToCleanup([rec EXCEPT !.stop = "collector_exception",
                                                                     !.errors = TRUE])

CExited ==
    /\ role = "collector" /\ pc = "exited" /\ Works /\ UNCHANGED tree /\ Quiet
    /\ ToCleanup([rec EXCEPT !.inTime = ~outer,
                             !.stop = IF outer THEN "outer_timeout"
                                      ELSE IF Adopted # {} THEN "unexpected_descendants" ELSE "none"])

NoRow == [ran |-> FALSE, ok |-> FALSE, zero |-> FALSE, clean |-> FALSE, signals |-> FALSE]

Clean(r) == r.residual = "none" /\ r.code # "none"

\* Why a child's record speaks against the attempt.
Reason(r) == r.stop # "none" \/ ~Clean(r) \/ r.errors \/ r.signals \/ r.code # "zero"

GuardianOk(r) == r.code = "zero" /\ r.stop = "none" /\ r.inTime

\* What is read of a record later.
Summary(r) == [ran |-> TRUE, ok |-> GuardianOk(r), zero |-> r.code = "zero", clean |-> Clean(r),
               signals |-> r.signals]

\* The record joins the result; a second child only after a complete cleanup in time.
CRow ==
    /\ role = "collector" /\ pc = "row" /\ Works /\ UNCHANGED <<st, par, deaf, doomed, ended, window>> /\ Quiet
    /\ LET timedOut == res.timedOut \/ rec.stop = "outer_timeout" \/ outer
       IN /\ res' = [res EXCEPT !.rows[rec.phase] = Summary(rec), !.timedOut = timedOut,
                                !.failed = @ \/ Reason(rec)]
          /\ IF timedOut \/ ~Clean(rec) \/ rec.phase = "verification"
             THEN pc' = "audit" /\ UNCHANGED <<rec, forks>>
             ELSE pc' = "phase" /\ rec' = NewRecord("verification") /\ forks' = 0

\* The report of the verification, which exits with 0 iff it accepts; what it wrote
\* may be cut short, or be of another run.
CAudit ==
    /\ role = "collector" /\ pc = "audit" /\ Works /\ UNCHANGED <<tree, rec, window>> /\ Quiet
    /\ \E report \in IF ~res.rows.verification.ran THEN {"none"}
                      ELSE IF res.rows.verification.zero THEN {"accepts", "garbled", "foreign"}
                      ELSE {"rejects", "garbled"} :
          IF report = "foreign" \/ ~Frozen
          THEN pc' = "commit" /\ res' = [res EXCEPT !.failed = TRUE]
          ELSE pc' = "judge" /\ res' = [res EXCEPT !.evidence = report = "accepts",
                                                 !.failed = @ \/ report # "accepts"]

CJudge ==
    /\ role = "collector" /\ pc = "judge" /\ Works /\ UNCHANGED <<tree, rec, window>> /\ Quiet
    /\ pc' = "commit"
    /\ LET timedOut == res.timedOut \/ outer
           clean    == Children = {} /\ res.rows.guardian.ran
                       /\ \A p \in Phases : res.rows[p].ran => res.rows[p].clean
       IN res' = [res EXCEPT !.timedOut = timedOut,
                    !.accepted = /\ res.rows.guardian.ok /\ ~timedOut /\ ~pending /\ clean
                                 /\ res.evidence /\ ~res.failed]

\* The handlers retire, then the last look at signals and clock.
CCommit ==
    /\ role = "collector" /\ pc = "commit" /\ Works /\ UNCHANGED <<tree, rec, window>> /\ Quiet
    /\ pc' = "publish"
    /\ res' = [res EXCEPT !.timedOut = @ \/ outer,
                          !.accepted = @ /\ ~pending /\ ~res.timedOut /\ ~outer]

\* outer-result.json.  It may fail, or take until after the deadline.
CPublish ==
    /\ role = "collector" /\ pc = "publish" /\ UNCHANGED <<tree, rec, window>> /\ Quiet
    /\ \/ Works /\ pc' = "exit" /\ res' = [res EXCEPT !.published = TRUE]
       \/ Fails /\ pc' = "done" /\ res' = [res EXCEPT !.exit = 2]

CExit ==
    /\ role = "collector" /\ pc = "exit" /\ Works /\ UNCHANGED <<tree, rec, window>> /\ Quiet
    /\ pc' = "done" /\ res' = [res EXCEPT !.exit = IF res.accepted /\ ~pending /\ ~outer THEN 0 ELSE 1]

(***************************************************************************)
(* Time, signals, and changes of what was frozen.                          *)
(***************************************************************************)
Started == pc \notin {"reserve", "done"}

\* cleanup() looks at neither the deadline of the attempt, nor signals, nor files.
Cleaning == pc \in {"test", "signal", "check", "wait", "last", "list"}

Tick ==
    /\ Cleaning /\ pc \notin {"last", "list"} /\ ~window /\ window' = TRUE
    /\ UNCHANGED <<role, tree, pc, rec, res, outer, pending, dir, trouble>>

Deadline ==
    /\ Started /\ ~Cleaning /\ ~outer /\ outer' = TRUE
    /\ UNCHANGED <<role, tree, own, pending, dir, trouble>>

\* SIGTERM is recorded while the handlers are installed and ends us otherwise.
Interrupt ==
    /\ ~Cleaning /\ Fails /\ ~pending
    /\ UNCHANGED <<role, tree, outer, dir>>
    /\ IF Started /\ pc \notin {"publish", "exit"} THEN pending' = TRUE /\ UNCHANGED own
       ELSE pc' = "done" /\ res' = [res EXCEPT !.exit = 3] /\ UNCHANGED <<rec, window, pending>>

Modify ==
    /\ pc \in {"reserve", "phase", "audit"} /\ Fails /\ dir.bound /\ dir' = [dir EXCEPT !.bound = FALSE]
    /\ UNCHANGED <<role, tree, own, outer, pending>>

Init ==
    /\ role \in Roles
    /\ st = [p \in Pids |-> "free"] /\ par = [p \in Pids |-> 0] /\ deaf = {} /\ doomed = {}
    /\ ended = [p \in Phases |-> "none"] /\ pc = "reserve" /\ rec = NewRecord("guardian")
    /\ res = [rows |-> [p \in Phases |-> NoRow], timedOut |-> FALSE, failed |-> FALSE,
              evidence |-> FALSE, accepted |-> FALSE, published |-> FALSE, exit |-> -1]
    /\ window = FALSE /\ outer = FALSE /\ pending = FALSE
    /\ dir \in [attempt : BOOLEAN, bound : {TRUE}]
    /\ forks = 0 /\ trouble = 0

Steps ==
    \/ Harness \/ Reserve \/ Spawn \/ GWatch \/ GOver \/ GPublish
    \/ CPhase \/ CWatch \/ CExited \/ CRow \/ CAudit \/ CJudge \/ CCommit \/ CPublish \/ CExit

\* What happens after we have exited is not followed.
Next == pc # "done" /\ (Steps \/ Below \/ Tick \/ Deadline \/ Interrupt \/ Modify)

Spec == Init /\ [][Next]_vars

\* We are scheduled and our clock moves on.  Nothing is assumed of the processes below.
FairSpec == Spec /\ WF_vars(Steps) /\ WF_vars(Tick) /\ WF_vars(Deadline)

(***************************************************************************)
(* Properties.                                                             *)
(***************************************************************************)
Done == pc = "done"

\* A record that names no residual children is true: when guardian.json or a row of
\* outer-result.json says so, no process below is alive, none is even left unreaped,
\* whatever forked, was orphaned or ignored SIGTERM.
NothingLeft ==
    pc \in {"publish", "row"} /\ rec.residual = "none" => \A p \in Pids : st[p] = "free"

\* Exit status 0 of the Guardian: the Supervisor exited by itself with 0 and left no
\* process.  Exit status 0 of the Collector: the Guardian and the verification did,
\* nobody was signalled, no signal and no deadline came before the verdict was
\* published, and the sources are what was frozen when the last child had ended.
ExitHonest ==
    Done /\ res.exit = 0 =>
       /\ Live = {} /\ ended.guardian = "zero"
       /\ role = "collector" =>
             /\ ended.verification = "zero" /\ res.published /\ ~outer /\ ~pending
             /\ \A p \in Phases : ~res.rows[p].signals /\ res.rows[p].clean

\* harness.cleanup: whoever is still alive gets the whole TERM grace before SIGKILL,
\* also the orphans of a child that exits at once.
GraceGiven ==
    pc = "signal" /\ rec.stage = "KILL" /\ Live # {} => rec.graceOver

\* Both end, whatever happens below: every wait has a deadline, also for a child that
\* SIGKILL does not end.
ContainmentEnds == <>Done
=============================================================================
