-------------------------- MODULE GroupObservation --------------------------
(***************************************************************************)
(* One resource sample of a running benchmark: tools/bench/group_rss.py    *)
(* scans the process table, measures every member of the target's process  *)
(* group, scans again, and classifies the row; group_audit.py classifies    *)
(* the same row again, sharing no code with the observer.                   *)
(*                                                                         *)
(* The kernel's process table changes between any two reads.  The target    *)
(* forks, exits, is reaped, moves a child to another group; a free PID is    *)
(* taken again by a member or by an unrelated process.  A PID that is still  *)
(* the number of a group or a session is not handed out (pid allocation).    *)
(* A process that left the group does not come back into it.               *)
(*                                                                         *)
(* The owner record is the one Runner made when it started the target: the *)
(* first process under the PID Leader, leader of its session and group.    *)
(***************************************************************************)
EXTENDS Integers, FiniteSets, FiniteSetsExt

CONSTANTS Pids,        \* PIDs of the machine, numbers: scans go in their order
          Leader,      \* PID, PGID and SID of the owner
          MaxMembers,  \* MAX_MEMBERS
          MaxChurn,    \* bound: process-table changes during the sample
          MaxFaults    \* bound: /proc reads that fail during the sample

ASSUME SampleAssumption ==
    /\ Pids \subseteq Nat \ {0} /\ IsFiniteSet(Pids) /\ Leader \in Pids
    /\ MaxMembers \in Nat /\ MaxChurn \in Nat /\ MaxFaults \in Nat

None == [pid |-> 0]

Other == 0      \* any PGID or SID that is not the owner's

VARIABLES proc,     \* the process table: PID |-> what /proc/PID/stat says
          row,      \* the row observe() fills in
          pc,       \* the next read of observe()
          todo,     \* the PIDs or members the running loop still has to read
          hist,     \* history: proc when the opening scan ended, and when the
                    \* closing scan began and ended
          churn, faults

vars == <<proc, row, pc, todo, hist, churn, faults>>

(***************************************************************************)
(* The kernel.                                                             *)
(***************************************************************************)
Entry(st, start, pgid, sid) == [st |-> st, start |-> start, pgid |-> pgid, sid |-> sid]

Exists(t, p) == t[p].st # "absent"

\* PIDs of table t that are in the owner's group; a zombie still is.
InGroup(t) == {p \in DOMAIN t : Exists(t, p) /\ t[p].pgid = Leader}

\* What a read of /proc/PID/stat returns.
Identity(p) ==
    IF Exists(proc, p)
    THEN [pid |-> p, start |-> proc[p].start, pgid |-> proc[p].pgid,
          sid |-> proc[p].sid, dead |-> proc[p].st = "zombie"]
    ELSE None

Owner == [pid |-> Leader, start |-> 1, pgid |-> Leader, sid |-> Leader]

Change(p, e) ==
    /\ pc # "done" /\ churn < MaxChurn
    /\ churn' = churn + 1
    /\ proc' = [proc EXCEPT ![p] = e]
    /\ UNCHANGED <<row, pc, todo, hist, faults>>

\* The number p names no group and no session.
Reusable(p) == /\ ~Exists(proc, p)
               /\ \A q \in Pids : Exists(proc, q) => proc[q].pgid # p /\ proc[q].sid # p

Fork(p, c) ==
    /\ proc[p].st = "live" /\ Reusable(c)
    /\ Change(c, Entry("live", proc[c].start + 1, proc[p].pgid, proc[p].sid))

\* An unrelated process takes the PID; it may make itself leader of a group,
\* or of a session, of that number.
Foreign(c) ==
    /\ Reusable(c)
    /\ \E g, s \in {Other} \cup (IF c = Leader THEN {Leader} ELSE {}) :
          /\ s = Leader => g = Leader
          /\ Change(c, Entry("live", proc[c].start + 1, g, s))

Exit(p) == proc[p].st = "live" /\ Change(p, [proc[p] EXCEPT !.st = "zombie"])

\* Only Runner's process.wait reaps the leader, and Runner is taking the sample.
Reap(p) == p # Leader /\ proc[p].st = "zombie" /\ Change(p, [proc[p] EXCEPT !.st = "absent"])

\* setpgid or setsid of a child; the session leader itself can do neither.
Leave(p) ==
    /\ p # Leader /\ proc[p].st = "live" /\ proc[p].pgid = Leader
    /\ \E s \in {Other, Leader} :
          Change(p, [proc[p] EXCEPT !.pgid = Other, !.sid = s])

Kernel == \E p \in Pids : Exit(p) \/ Reap(p) \/ Leave(p) \/ Foreign(p) \/ \E c \in Pids : Fork(p, c)

(***************************************************************************)
(* observe(): anchor, opening scan, one measurement per member found,      *)
(* closing scan, anchor, MemAvailable.                                     *)
(***************************************************************************)
same(a, b) == /\ a # None /\ b # None
              /\ \A k \in {"pid", "start", "pgid", "sid"} : a[k] = b[k]

Step(at, to, t, r) ==
    /\ pc = at /\ pc' = to /\ todo' = t /\ row' = r
    /\ UNCHANGED <<proc, churn>>

Fault == faults < MaxFaults /\ faults' = faults + 1

NoHistory == UNCHANGED hist

\* An exception outside the inner handlers: the rest of the row stays empty.
Interrupted(at) ==
    /\ Fault /\ NoHistory
    /\ Step(at, "done", {}, [row EXCEPT !.samplingErrors = @ \cup {"observation_interrupted"}])

AnchorBefore ==
    \/ /\ Step("anchor_before", "list1", {}, [row EXCEPT !.anchor[1] = Identity(Leader)])
       /\ NoHistory /\ UNCHANGED faults
    \/ Interrupted("anchor_before")

\* Where scan n goes on when it is over.
AfterScan(n) == IF n = 1 THEN "members" ELSE "anchor_after"

\* scan() is over: the loop over the members, or the MISSING rows, follow.
ScanEnds(n, at, r) ==
    LET missing == {[before |-> i, after |-> None, rss |-> FALSE, status |-> "MISSING"] :
                      i \in {i \in r.scan[2] : \A b \in r.scan[1] : b.pid # i.pid}}
    IN /\ Step(at, AfterScan(n), IF n = 1 THEN r.scan[1] ELSE {},
               [r EXCEPT !.members = @ \cup (IF n = 1 THEN {} ELSE missing)])
       /\ hist' = IF n = 1 THEN [hist EXCEPT !.opened = proc] ELSE [hist EXCEPT !.closed = proc]

ListPids(n, at, to) ==
    LET pids == {p \in Pids : Exists(proc, p)}
    IN \/ /\ pids # {} /\ Step(at, to, pids, row)
          /\ NoHistory /\ UNCHANGED faults
       \/ pids = {} /\ ScanEnds(n, at, row) /\ UNCHANGED faults
       \/ Fault /\ ScanEnds(n, at, [row EXCEPT !.scanErrors = TRUE])

ScanPid(n, at) ==
    LET p     == Min(todo)
        found == row.scan[n] \cup (IF Identity(p) # None /\ Identity(p).pgid = Leader
                                   THEN {Identity(p)} ELSE {})
        Goes(r) == IF todo = {p} THEN ScanEnds(n, at, r)
                   ELSE Step(at, at, todo \ {p}, r) /\ NoHistory
    IN \/ /\ Cardinality(found) <= MaxMembers
          /\ Goes([row EXCEPT !.scan[n] = found]) /\ UNCHANGED faults
       \/ /\ Cardinality(found) > MaxMembers
          /\ ScanEnds(n, at, [row EXCEPT !.scanErrors = TRUE]) /\ UNCHANGED faults
       \/ Fault /\ Goes([row EXCEPT !.scanErrors = TRUE])

\* The member of todo that the loop is at, and the row with its result.
Current == CHOOSE i \in todo : \A j \in todo : i.pid <= j.pid

Measured(after, rss, status) ==
    [row EXCEPT !.members = @ \cup {[before |-> Current, after |-> after,
                                     rss |-> rss, status |-> status]}]

\* reader.rss of a live member; a zombie's status file has no VmRSS line.
ReadRss ==
    LET Ends(s) == Step("members", "members", todo \ {Current}, Measured(None, FALSE, s))
    IN /\ pc = "members" /\ todo # {} /\ ~Current.dead /\ NoHistory
       /\ \/ /\ proc[Current.pid].st = "live" /\ UNCHANGED faults
             /\ Step("members", "after", todo, row)
          \/ proc[Current.pid].st = "absent" /\ Ends("VANISHED") /\ UNCHANGED faults
          \/ proc[Current.pid].st = "zombie" /\ Ends("UNREADABLE") /\ UNCHANGED faults
          \/ Fault /\ Ends("UNREADABLE")

\* What the second identity read makes of a member.
MemberStatus(before, after) ==
    CASE after = None -> "VANISHED"
      [] after # None /\ ~same(before, after) -> "IDENTITY_CHANGED"
      [] same(before, after) /\ after.dead /\ ~before.dead -> "VANISHED"
      [] OTHER -> IF before.dead THEN "ZOMBIE" ELSE "LIVE"

ReadAfter ==
    LET rest  == todo \ {Current}
        after == Identity(Current.pid)
        at    == IF Current.dead THEN "members" ELSE "after"
    IN /\ pc \in {"members", "after"} /\ todo # {} /\ NoHistory
       /\ \/ /\ UNCHANGED faults
             /\ Step(at, "members", rest,
                     Measured(after, ~Current.dead, MemberStatus(Current, after)))
          \/ Fault /\ Step(at, "members", rest, Measured(None, ~Current.dead, "UNREADABLE"))

MembersDone ==
    /\ pc = "members" /\ todo = {} /\ Step("members", "list2", {}, row)
    /\ hist' = [hist EXCEPT !.closing = proc] /\ UNCHANGED faults

AnchorAfter ==
    \/ /\ Step("anchor_after", "available", {}, [row EXCEPT !.anchor[2] = Identity(Leader)])
       /\ NoHistory /\ UNCHANGED faults
    \/ Interrupted("anchor_after")

Available ==
    /\ NoHistory
    /\ \/ Step("available", "done", {}, row) /\ UNCHANGED faults
       \/ /\ Fault
          /\ Step("available", "done", {},
                  [row EXCEPT !.samplingErrors = @ \cup {"mem_available_unreadable"}])

Observe ==
    \/ AnchorBefore
    \/ ListPids(1, "list1", "scan1") \/ (pc = "scan1" /\ ScanPid(1, "scan1"))
    \/ ReadRss \/ ReadAfter \/ MembersDone
    \/ ListPids(2, "list2", "scan2") \/ (pc = "scan2" /\ ScanPid(2, "scan2"))
    \/ AnchorAfter \/ Available

Ids(scanned) == {[pid |-> i.pid, start |-> i.start, pgid |-> i.pgid, sid |-> i.sid] : i \in scanned}

\* What makes a row PARTIAL: a read failed, or the group changed under it.
Errors(r) == r.scanErrors \/ r.samplingErrors # {}

Unmeasured(r) == \E m \in r.members : m.status \notin {"LIVE", "ZOMBIE"}

AnchorOutside(r) ==
    \/ \E n \in {1, 2} : r.anchor[n] # None /\ \A i \in r.scan[n] : ~same(r.anchor[n], i)
    \/ r.members # {} /\ \E n \in {1, 2} : r.anchor[n] = None

\* Mutant: the two scans are not compared.
UncomparedScans(r) == Errors(r) \/ Unmeasured(r) \/ AnchorOutside(r)

\* Mutant: only the scans count, not what became of each member.
ScansOnly(r) == Errors(r) \/ Ids(r.scan[1]) # Ids(r.scan[2]) \/ AnchorOutside(r)

Partial(r) ==
    Errors(r) \/ Unmeasured(r) \/ Ids(r.scan[1]) # Ids(r.scan[2]) \/ AnchorOutside(r)

\* Mutant: the anchor is not compared with the owner.
InvalidMember(r) ==
    \E m \in r.members : m.before.sid # Leader \/ m.status = "IDENTITY_CHANGED"

Invalid(r) ==
    \/ \E n \in {1, 2} : r.anchor[n] # None /\ ~same(r.anchor[n], Owner)
    \/ \E m \in r.members : m.before.sid # Leader \/ m.status = "IDENTITY_CHANGED"

\* The status observe() gives a finished row; the anchor of a row without
\* members was seen by neither read, or the row is PARTIAL.
SampleStatus(r) ==
    IF Invalid(r) THEN "INVALID"
    ELSE IF Partial(r) \/ (r.members = {} /\ r.anchor # <<None, None>>) THEN "PARTIAL"
    ELSE IF r.members = {} THEN "NO_LIVE_MEMBERS"
    ELSE IF \A m \in r.members : m.status = "ZOMBIE" THEN "ZOMBIE_ONLY" ELSE "COMPLETE"

(***************************************************************************)
(* group_audit.sample(): the status it derives from a row that carries the *)
(* status st, or "rejected".  MaxMembers bounds the members it accepts.    *)
(***************************************************************************)
AuditMember(r, m) ==
    LET opening    == {i \in r.scan[1] : i.pid = m.before.pid}
        closing    == {i \in r.scan[2] : same(i, m.before)}
        discovered == IF opening # {} THEN opening
                      ELSE {i \in r.scan[2] : i.pid = m.before.pid}
    IN /\ m.before \in discovered
       /\ m.after # None => same(m.after, m.before) /\ (m.before.dead => m.after.dead)
       /\ m.before.dead \/ (m.after # None /\ m.after.dead) => \A i \in closing : i.dead
       /\ \/ /\ m.status = "LIVE" /\ m.rss
             /\ m.after # None /\ ~m.before.dead /\ ~m.after.dead
             /\ closing # {}
          \/ /\ m.status = "ZOMBIE" /\ ~m.rss
             /\ m.after # None /\ m.before.dead /\ m.after.dead
          \/ m.status \in {"MISSING", "UNREADABLE", "VANISHED"}

AuditRow(r, st) ==
    LET pidsOf(s) == {i.pid : i \in s}
        shaped  == /\ \A n \in {1, 2} : r.anchor[n] # None => same(r.anchor[n], Owner)
                   /\ \A n \in {1, 2} : /\ Cardinality(r.scan[n]) <= MaxMembers
                                        /\ \A i \in r.scan[n] : i.sid = Leader
                   /\ Cardinality(r.members) <= MaxMembers
                   /\ \A m \in r.members : AuditMember(r, m)
                   /\ \A m, n \in r.members : m.before.pid = n.before.pid => m = n
                   /\ {m.before.pid : m \in r.members} = pidsOf(r.scan[1]) \cup pidsOf(r.scan[2])
        partial == \/ \E m \in r.members : m.status \in {"MISSING", "UNREADABLE", "VANISHED"}
                   \/ r.scanErrors \/ r.samplingErrors # {}
                   \/ Ids(r.scan[1]) # Ids(r.scan[2])
                   \/ r.members # {} /\ \E n \in {1, 2} : r.anchor[n] = None
                   \/ \E n \in {1, 2} : r.anchor[n] # None /\ Leader \notin pidsOf(r.scan[n])
        derived == CASE partial -> "PARTIAL"
                     [] ~partial /\ r.members = {} -> "NO_LIVE_MEMBERS"
                     [] OTHER -> IF \E m \in r.members : m.status = "LIVE"
                                 THEN "COMPLETE" ELSE "ZOMBIE_ONLY"
    IN IF shaped /\ derived = st THEN derived ELSE "rejected"

(***************************************************************************)
(* Specification.  The sample starts while the leader runs or waits to be  *)
(* reaped, or (the sample after cleanup) when the group is gone.           *)
(***************************************************************************)
EmptyRow == [anchor |-> <<None, None>>, scan |-> <<{}, {}>>, members |-> {},
             scanErrors |-> FALSE, samplingErrors |-> {}]

Member(st) == Entry(st, 1, Leader, Leader)

Init ==
    /\ proc \in {t \in [Pids -> {Member("absent"), Member("live"), Member("zombie"),
                                 Entry("live", 1, Other, Other)}] :
                    /\ t[Leader] # Entry("live", 1, Other, Other)
                    /\ ~Exists(t, Leader) => InGroup(t) = {}}
    /\ row = EmptyRow /\ pc = "anchor_before" /\ todo = {}
    /\ hist = [opened |-> proc, closing |-> proc, closed |-> proc]
    /\ churn = 0 /\ faults = 0

Next == Kernel \/ Observe

Spec == Init /\ [][Next]_vars

(***************************************************************************)
(* Properties.                                                             *)
(***************************************************************************)
Done == pc = "done"

\* A row that Runner goes on with: group_run's monitor raises on any other.
Eligible == Done /\ SampleStatus(row) \in {"COMPLETE", "ZOMBIE_ONLY", "NO_LIVE_MEMBERS"}

\* The processes (PID and start) of the group in table t.
Group(t) == {<<p, t[p].start>> : p \in InGroup(t)}

\* The membership a usable row reports is that of one moment: everything it
\* lists was in the group from the end of observe()'s opening scan to the start
\* of its closing scan, and it lists everything that was in the group at the end
\* of both.
MembershipBracketed ==
    Eligible => LET members == {<<m.before.pid, m.before.start>> : m \in row.members}
                IN /\ members \subseteq Group(hist.opened) \cap Group(hist.closing)
                   /\ Group(hist.opened) \cap Group(hist.closed) \subseteq members

\* A usable row sums the RSS of exactly the members that ran when the opening
\* scan ended: it takes no zombie, nor another process under the same PID, for
\* one, and leaves none of them out.
LiveWasLive ==
    Eligible => \A m \in row.members :
                   LET then == hist.opened[m.before.pid]
                   IN then.start = m.before.start /\ (m.rss <=> then.st = "live")

\* The two classifications agree: group_audit.sample accepts, with the same
\* status, every row observe() calls usable, and rejects every INVALID one.
AuditorAgrees ==
    Done => /\ Eligible => AuditRow(row, SampleStatus(row)) = SampleStatus(row)
            /\ SampleStatus(row) = "INVALID" => AuditRow(row, "INVALID") = "rejected"

\* README.md: "a structurally honest partial stream can be audited".  A PARTIAL
\* row as observe() writes it, within the member bound, is accepted as PARTIAL.
PartialRowAudited ==
    Done /\ SampleStatus(row) = "PARTIAL" /\ Cardinality(row.members) <= MaxMembers
    => AuditRow(row, "PARTIAL") = "PARTIAL"
=============================================================================
