---------------------- MODULE GroupObservationProofs ----------------------
(***************************************************************************)
(* Proofs about one resource sample (GroupObservation).  A process only    *)
(* grows older between two reads: it runs, is a zombie, is gone, and its PID *)
(* comes back with a later start; who left the group stays out of it.  What  *)
(* the opening and the closing scan read alike was so all the time between. *)
(***************************************************************************)
EXTENDS GroupObservation, FiniteSetTheorems, TLAPS

Numbers == {Leader, Other}

ProcEntry == [st : {"absent", "live", "zombie"}, start : Nat, pgid : Numbers, sid : Numbers]

Table == [Pids -> ProcEntry]

Id == [pid : Pids, start : Nat, pgid : Numbers, sid : Numbers, dead : BOOLEAN]

Measurement ==
    [before : Id, after : Id \cup {None}, rss : BOOLEAN,
     status : {"LIVE", "ZOMBIE", "MISSING", "UNREADABLE", "VANISHED", "IDENTITY_CHANGED"}]

RowType ==
    [anchor : [1..2 -> Id \cup {None}], scan : [1..2 -> SUBSET Id],
     members : SUBSET Measurement, scanErrors : BOOLEAN,
     samplingErrors : SUBSET {"observation_interrupted", "mem_available_unreadable"}]

Places == {"anchor_before", "list1", "scan1", "members", "after", "list2", "scan2",
           "anchor_after", "available", "done"}

\* The state of a process may have become b when it was a.
Follows(a, b) ==
    \/ a.start < b.start
    \/ /\ a.start = b.start
       /\ a.st = "absent" => b.st = "absent"
       /\ a.st = "zombie" => b.st # "live"
       /\ a.pgid = Other => b.pgid = Other

\* The table entry that an identity was read from.
View(i) == [st |-> IF i.dead THEN "zombie" ELSE "live", start |-> i.start,
            pgid |-> i.pgid, sid |-> i.sid]

Whole == pc = "done" /\ row.samplingErrors = {}

Opened == pc \in {"members", "after", "list2", "scan2", "anchor_after", "available"} \/ Whole

Closing == pc \in {"list2", "scan2", "anchor_after", "available"} \/ Whole

Closed == pc \in {"anchor_after", "available"} \/ Whole

TypeInv ==
    /\ proc \in Table /\ row \in RowType /\ pc \in Places
    /\ hist \in [opened : Table, closing : Table, closed : Table]
    /\ pc \in {"scan1", "scan2"} => todo \subseteq Pids /\ todo # {}
    /\ pc \in {"members", "after"} => todo \subseteq row.scan[1]
    /\ pc = "after" => todo # {} /\ ~Current.dead
    /\ churn \in Nat /\ faults \in Nat

\* What a scan has found: one identity per PID, of the group, within the bound.
ScanInv(n) ==
    /\ IsFiniteSet(row.scan[n]) /\ Cardinality(row.scan[n]) <= MaxMembers
    /\ \A i \in row.scan[n] : i.pgid = Leader
    /\ \A i, j \in row.scan[n] : i.pid = j.pid => i = j

ScansInv ==
    /\ ScanInv(1) /\ ScanInv(2)
    /\ pc \in {"anchor_before", "list1"} => row.scan[1] = {}
    /\ pc = "scan1" => \A i \in row.scan[1] : i.pid \notin todo
    /\ pc \in {"anchor_before", "list1", "scan1", "members", "after", "list2"} =>
          row.scan[2] = {}
    /\ pc = "scan2" => \A i \in row.scan[2] : i.pid \notin todo
    /\ \A n \in 1..2 : row.anchor[n] # None => row.anchor[n].pid = Leader

\* The order of what was read and of the tables.
OrderInv ==
    /\ \A i \in row.scan[1] : Follows(View(i), proc[i.pid])
    /\ Opened => /\ \A i \in row.scan[1] : Follows(View(i), hist.opened[i.pid])
                 /\ \A p \in Pids : Follows(hist.opened[p], proc[p])
    /\ Closing => /\ \A p \in Pids : /\ Follows(hist.opened[p], hist.closing[p])
                                     /\ Follows(hist.closing[p], proc[p])
                  /\ \A i \in row.scan[2] : Follows(hist.closing[i.pid], View(i))

\* A member that was measured, and how.
MeasuredInv(m) ==
    /\ m.status # "MISSING" => m.before \in row.scan[1]
    /\ m.status = "LIVE" =>
          /\ m.rss /\ ~m.before.dead /\ m.after # None
          /\ same(m.before, m.after) /\ ~m.after.dead
          /\ Follows(hist.opened[m.before.pid], View(m.after))
    /\ m.status = "ZOMBIE" =>
          /\ ~m.rss /\ m.before.dead /\ m.after # None
          /\ same(m.before, m.after) /\ m.after.dead

MembersInv ==
    /\ pc \in {"anchor_before", "list1", "scan1"} => row.members = {}
    /\ Opened => /\ \A m \in row.members : MeasuredInv(m)
                 /\ \A m, n \in row.members :
                       m.status # "MISSING" /\ n.status # "MISSING"
                       /\ m.before = n.before => m = n
    /\ pc \in {"members", "after"} =>
          /\ \A m \in row.members : m.before \notin todo
          /\ \A i \in row.scan[1] \ todo : \E m \in row.members : m.before = i
    /\ Closing => \A i \in row.scan[1] : \E m \in row.members : m.before = i

\* Who was in the group at the opening and is at the entry e has been found.
Covered(p, e) ==
    /\ hist.opened[p].st # "absent" /\ hist.opened[p].pgid = Leader
    /\ e.st # "absent" /\ e.pgid = Leader /\ e.start = hist.opened[p].start
    => \E i \in row.scan[2] : i.pid = p /\ i.start = e.start

CoverInv ==
    ~row.scanErrors =>
       /\ pc = "scan2" => \A p \in Pids \ todo : Covered(p, proc[p])
       /\ Closed => \A p \in Pids : Covered(p, hist.closed[p])

IInv == TypeInv /\ ScansInv /\ OrderInv /\ MembersInv /\ CoverInv

(***************************************************************************)
(* The operators of the model.                                             *)
(***************************************************************************)
LEMMA Constants == /\ Leader \in Pids /\ Pids \subseteq Nat /\ Leader # Other
                   /\ \A p \in Pids : p # 0
  BY SampleAssumption DEF Other

\* An identity is not None.
LEMMA IdIsSome == \A i \in Id : i # None
  BY Constants DEF Id, None

\* same() of two identities compares the four fields.
LEMMA SameFields ==
    ASSUME NEW a \in Id, NEW b \in Id
    PROVE  same(a, b) <=> a.pid = b.pid /\ a.start = b.start /\ a.pgid = b.pgid /\ a.sid = b.sid
  BY IdIsSome DEF same, Id

\* A set of PIDs has a least one.
LEMMA LeastPid ==
    ASSUME NEW S, S \subseteq Pids, S # {}
    PROVE  /\ Min(S) \in S
           /\ \E x \in S : \A y \in S : x <= y
<1> DEFINE R == OpToRel(<, Nat)
<1>1. IsWellFoundedOn(R, Nat)
  BY NatLessThanWellFounded, ZenonT(30)
<1>2. \A x, y \in Nat : x < y => <<x, y>> \in R
  BY DEF OpToRel
<1> HIDE DEF R
<1>3. S \subseteq Nat
  BY Constants
<1>4. PICK x \in S : \A y \in S : ~(<<y, x>> \in R)
  BY <1>1, <1>3, WFMin, ZenonT(30)
<1>5. \A y \in S : ~(y < x)
  BY <1>2, <1>3, <1>4, ZenonT(30)
<1>6. \A y \in S : x <= y
  BY <1>3, <1>5
<1> QED BY <1>6 DEF Min

\* The loop over the members is at one of them.
LEMMA CurrentIsOne ==
    ASSUME todo \subseteq Id, todo # {}
    PROVE  Current \in todo
<1> DEFINE S == {i.pid : i \in todo}
<1>1. S \subseteq Pids /\ S # {}
  BY DEF Id
<1>2. PICK x \in S : \A y \in S : x <= y
  BY <1>1, LeastPid, Zenon
<1>3. PICK i \in todo : i.pid = x
  OBVIOUS
<1>4. \A j \in todo : i.pid <= j.pid
  BY <1>2, <1>3
<1> QED BY <1>4 DEF Current

LEMMA ViewFields ==
    ASSUME NEW i \in Id
    PROVE  /\ View(i) \in ProcEntry
           /\ View(i).start = i.start /\ View(i).pgid = i.pgid
           /\ View(i).st = IF i.dead THEN "zombie" ELSE "live"
  BY DEF View, Id, ProcEntry

\* What a read of a process table entry gives.
LEMMA IdentityRead ==
    ASSUME TypeInv, NEW p \in Pids
    PROVE  /\ proc[p].st = "absent" => Identity(p) = None
           /\ proc[p].st # "absent" =>
                 /\ Identity(p) \in Id /\ Identity(p).pid = p
                 /\ View(Identity(p)) = proc[p] /\ Identity(p) # None
                 /\ Identity(p).start = proc[p].start /\ Identity(p).pgid = proc[p].pgid
<1>1. proc[p] \in ProcEntry
  BY DEF TypeInv, Table
<1> DEFINE i == [pid |-> p, start |-> proc[p].start, pgid |-> proc[p].pgid,
                 sid |-> proc[p].sid, dead |-> proc[p].st = "zombie"]
<1>2. i \in Id
  BY <1>1 DEF ProcEntry, Id
<1>3. proc[p].st # "absent" => View(i) = proc[p]
  BY <1>1, Zenon DEF ProcEntry, View
<1>4. Identity(p) = IF proc[p].st # "absent" THEN i ELSE None
  BY DEF Identity, Exists
<1> QED BY <1>2, <1>3, <1>4, IdIsSome

LEMMA FollowsSelf == \A e \in ProcEntry : Follows(e, e)
  BY DEF Follows, ProcEntry

LEMMA FollowsOn ==
    ASSUME NEW a \in ProcEntry, NEW b \in ProcEntry, NEW c \in ProcEntry,
           Follows(a, b), Follows(b, c)
    PROVE  Follows(a, c)
  BY DEF Follows, ProcEntry

\* What was read alike before and after was so in between.
LEMMA Squeezed ==
    ASSUME NEW a \in ProcEntry, NEW b \in ProcEntry, NEW c \in ProcEntry,
           Follows(a, b), Follows(b, c),
           a.start = c.start, c.st # "absent", c.pgid = Leader
    PROVE  /\ b.start = a.start /\ b.st # "absent" /\ b.pgid = Leader
           /\ c.st = "live" => b.st = "live"
           /\ a.st = "zombie" => b.st = "zombie"
<1>1. b.start = a.start
  BY DEF Follows, ProcEntry
<1> QED BY <1>1, Constants DEF Follows, ProcEntry, Numbers

(***************************************************************************)
(* The kernel moves on.                                                    *)
(***************************************************************************)
LEMMA KernelStep ==
    ASSUME TypeInv, Kernel
    PROVE  /\ proc' \in Table /\ \A p \in Pids : Follows(proc[p], proc'[p])
           /\ UNCHANGED <<row, pc, todo, hist, faults>> /\ churn' \in Nat
           /\ pc # "done"
<1>1. ASSUME NEW p \in Pids, NEW e \in ProcEntry, Change(p, e), Follows(proc[p], e)
      PROVE  /\ proc' \in Table /\ \A q \in Pids : Follows(proc[q], proc'[q])
             /\ UNCHANGED <<row, pc, todo, hist, faults>> /\ churn' \in Nat
             /\ pc # "done"
  <2>1. proc' \in Table /\ \A q \in Pids : proc'[q] = IF q = p THEN e ELSE proc[q]
    BY <1>1 DEF Change, TypeInv, Table
  <2>2. \A q \in Pids : Follows(proc[q], proc'[q])
    BY <1>1, <2>1, FollowsSelf DEF TypeInv, Table
  <2> QED BY <1>1, <2>1, <2>2 DEF Change, TypeInv
<1>2. \A q \in Pids : proc[q] \in ProcEntry
  BY DEF TypeInv, Table
<1>3. ASSUME NEW p \in Pids, Exit(p)
      PROVE  \E e \in ProcEntry : Change(p, e) /\ Follows(proc[p], e)
  BY <1>2, <1>3 DEF Exit, Follows, ProcEntry
<1>4. ASSUME NEW p \in Pids, Reap(p)
      PROVE  \E e \in ProcEntry : Change(p, e) /\ Follows(proc[p], e)
  BY <1>2, <1>4 DEF Reap, Follows, ProcEntry
<1>5. ASSUME NEW p \in Pids, Leave(p)
      PROVE  \E e \in ProcEntry : Change(p, e) /\ Follows(proc[p], e)
  <2>1. PICK s \in Numbers : Change(p, [proc[p] EXCEPT !.pgid = Other, !.sid = s])
    BY <1>5, Zenon DEF Leave, Numbers
  <2> DEFINE e == [proc[p] EXCEPT !.pgid = Other, !.sid = s]
  <2>2. proc[p] \in ProcEntry /\ proc[p].pgid = Leader
    BY <1>2, <1>5 DEF Leave
  <2>3. e \in ProcEntry
    BY <2>2, Zenon DEF ProcEntry, Numbers
  <2>4. Follows(proc[p], e)
    BY <2>2, Constants DEF ProcEntry, Follows
  <2> QED BY <2>1, <2>3, <2>4
<1>6. ASSUME NEW p \in Pids, Foreign(p)
      PROVE  \E e \in ProcEntry : Change(p, e) /\ Follows(proc[p], e)
  BY <1>2, <1>6 DEF Foreign, Entry, Follows, ProcEntry, Numbers
<1>7. ASSUME NEW p \in Pids, NEW c \in Pids, Fork(p, c)
      PROVE  \E e \in ProcEntry : Change(c, e) /\ Follows(proc[c], e)
  BY <1>2, <1>7 DEF Fork, Entry, Follows, ProcEntry
<1> QED BY <1>1, <1>3, <1>4, <1>5, <1>6, <1>7, ZenonT(30) DEF Kernel

\* A process that was not found stays unfound.
LEMMA CoveredOn ==
    ASSUME NEW p \in Pids, NEW a \in ProcEntry, NEW b \in ProcEntry,
           hist.opened[p] \in ProcEntry,
           Follows(hist.opened[p], a), Follows(a, b), Covered(p, a)
    PROVE  Covered(p, b)
<1> SUFFICES ASSUME hist.opened[p].st # "absent", hist.opened[p].pgid = Leader,
                    b.st # "absent", b.pgid = Leader, b.start = hist.opened[p].start
             PROVE  \E i \in row.scan[2] : i.pid = p /\ i.start = b.start
  BY DEF Covered
<1>1. a.start = b.start /\ a.st # "absent" /\ a.pgid = Leader
  BY Squeezed
<1> QED BY <1>1 DEF Covered

LEMMA KernelKeepsInv ==
    ASSUME IInv, Kernel
    PROVE  IInv'
<1>1. TypeInv
  BY DEF IInv
<1>2. /\ proc' \in Table /\ \A p \in Pids : Follows(proc[p], proc'[p])
      /\ UNCHANGED <<row, pc, todo, hist, faults>> /\ churn' \in Nat /\ pc # "done"
  BY <1>1, KernelStep
<1>3. TypeInv'
  BY <1>1, <1>2 DEF TypeInv, Current
<1>4. ScansInv'
  BY <1>2 DEF IInv, ScansInv, ScanInv
<1>5. /\ \A p \in Pids : proc[p] \in ProcEntry /\ proc'[p] \in ProcEntry
      /\ \A p \in Pids : hist.opened[p] \in ProcEntry /\ hist.closing[p] \in ProcEntry
      /\ \A i \in row.scan[1] : i.pid \in Pids /\ View(i) \in ProcEntry
  BY <1>1, <1>2, ViewFields DEF TypeInv, Table, RowType, Id
<1>6. OrderInv'
  <2>1. OrderInv /\ (Opened' <=> Opened) /\ (Closing' <=> Closing)
    BY <1>2 DEF IInv, Opened, Closing, Whole
  <2>2. \A i \in row.scan[1] : Follows(View(i), proc'[i.pid])
    BY <1>2, <1>5, <2>1, FollowsOn DEF OrderInv
  <2>3. Opened => \A p \in Pids : Follows(hist.opened[p], proc'[p])
    BY <1>2, <1>5, <2>1, FollowsOn DEF OrderInv
  <2>4. Closing => \A p \in Pids : Follows(hist.closing[p], proc'[p])
    BY <1>2, <1>5, <2>1, FollowsOn DEF OrderInv
  <2> QED BY <1>2, <2>1, <2>2, <2>3, <2>4 DEF OrderInv
<1>7. MembersInv'
  BY <1>2 DEF IInv, MembersInv, MeasuredInv, Opened, Closing, Whole
<1>8. CoverInv'
  <2>1. CoverInv /\ OrderInv
    BY DEF IInv
  <2>2. ASSUME ~row.scanErrors, pc = "scan2", NEW p \in Pids \ todo
        PROVE  Covered(p, proc'[p])
    <3>1. Opened
      BY <2>2 DEF Opened
    <3>2. Follows(hist.opened[p], proc[p]) /\ Covered(p, proc[p])
      BY <2>1, <2>2, <3>1 DEF OrderInv, CoverInv
    <3> QED BY <1>2, <1>5, <2>2, <3>2, CoveredOn
  <2>3. Closed' <=> Closed
    BY <1>2 DEF Closed, Whole
  <2>4. \A p, e : Covered(p, e)' <=> Covered(p, e)
    BY <1>2 DEF Covered
  <2> QED BY <1>2, <2>1, <2>2, <2>3, <2>4 DEF CoverInv
<1> QED BY <1>3, <1>4, <1>6, <1>7, <1>8 DEF IInv

(***************************************************************************)
(* observe(): the anchors, MemAvailable and an interruption.               *)
(***************************************************************************)
LEMMA PlainStepInv ==
    ASSUME IInv, UNCHANGED <<proc, churn, hist>>, faults' \in Nat, todo' = {},
           row' \in RowType, row'.scan = row.scan, row'.members = row.members,
           row'.scanErrors = row.scanErrors,
           \A n \in 1..2 : row'.anchor[n] # None => row'.anchor[n].pid = Leader,
           \/ pc = "anchor_before" /\ pc' = "list1"
           \/ pc = "anchor_after" /\ pc' = "available"
           \/ pc = "available" /\ pc' = "done"
           \/ pc' = "done" /\ row'.samplingErrors # {}
    PROVE  IInv'
<1>1. TypeInv'
  BY DEF IInv, TypeInv, Places
<1>2. ScansInv'
  BY DEF IInv, ScansInv, ScanInv
<1>3. (Opened' => Opened) /\ (Closing' => Closing) /\ (Closed' => Closed)
  BY DEF Opened, Closing, Closed, Whole
<1>4. OrderInv'
  BY <1>3 DEF IInv, OrderInv
<1>5. MembersInv'
  BY <1>3 DEF IInv, MembersInv, MeasuredInv
<1>6. CoverInv'
  BY <1>3 DEF IInv, CoverInv, Covered
<1> QED BY <1>1, <1>2, <1>4, <1>5, <1>6 DEF IInv

LEMMA InterruptedInv ==
    ASSUME IInv, NEW at, Interrupted(at)
    PROVE  IInv'
<1> DEFINE r == [row EXCEPT !.samplingErrors = @ \cup {"observation_interrupted"}]
<1>1. row \in RowType /\ faults \in Nat
  BY DEF IInv, TypeInv
<1>2. /\ UNCHANGED <<proc, churn, hist>> /\ faults' \in Nat /\ todo' = {} /\ pc' = "done"
      /\ row' = r
  BY <1>1 DEF Interrupted, Fault, NoHistory, Step
<1>3. /\ r \in RowType /\ r.scan = row.scan /\ r.members = row.members
      /\ r.scanErrors = row.scanErrors /\ r.anchor = row.anchor /\ r.samplingErrors # {}
  BY <1>1 DEF RowType
<1> HIDE DEF r
<1>4. \A n \in 1..2 : row'.anchor[n] # None => row'.anchor[n].pid = Leader
  BY <1>2, <1>3 DEF IInv, ScansInv
<1> QED BY <1>2, <1>3, <1>4, PlainStepInv

LEMMA AnchorInv ==
    ASSUME IInv, NEW n \in 1..2, NEW at, NEW to,
           \/ at = "anchor_before" /\ to = "list1"
           \/ at = "anchor_after" /\ to = "available",
           Step(at, to, {}, [row EXCEPT !.anchor[n] = Identity(Leader)]),
           NoHistory, UNCHANGED faults
    PROVE  IInv'
<1> DEFINE i == Identity(Leader)
           r == [row EXCEPT !.anchor = [row.anchor EXCEPT ![n] = i]]
<1>1. row \in RowType /\ faults \in Nat /\ TypeInv
  BY DEF IInv, TypeInv
<1>2. i \in Id \cup {None} /\ (i # None => i.pid = Leader)
  BY <1>1, IdentityRead, Constants
<1> HIDE DEF i
<1>3. /\ UNCHANGED <<proc, churn, hist>> /\ faults' \in Nat /\ todo' = {}
      /\ pc = at /\ pc' = to /\ row' = r
  BY <1>1 DEF NoHistory, Step, i
<1>4. row.anchor \in [1..2 -> Id \cup {None}]
  BY <1>1 DEF RowType
<1>5. /\ [row.anchor EXCEPT ![n] = i] \in [1..2 -> Id \cup {None}]
      /\ \A k \in 1..2 : [row.anchor EXCEPT ![n] = i][k] = IF k = n THEN i ELSE row.anchor[k]
  BY <1>2, <1>4
<1>6. /\ r \in RowType /\ r.scan = row.scan /\ r.members = row.members
      /\ r.scanErrors = row.scanErrors /\ r.anchor = [row.anchor EXCEPT ![n] = i]
  BY <1>1, <1>5 DEF RowType
<1> HIDE DEF r
<1>7. \A k \in 1..2 : row'.anchor[k] # None => row'.anchor[k].pid = Leader
  BY <1>2, <1>3, <1>5, <1>6 DEF IInv, ScansInv
<1> QED BY <1>3, <1>6, <1>7, PlainStepInv

LEMMA AvailableInv ==
    ASSUME IInv, Available
    PROVE  IInv'
<1> DEFINE r == [row EXCEPT !.samplingErrors = @ \cup {"mem_available_unreadable"}]
<1>1. row \in RowType /\ faults \in Nat
  BY DEF IInv, TypeInv
<1>2. /\ UNCHANGED <<proc, churn, hist>> /\ faults' \in Nat /\ todo' = {}
      /\ pc = "available" /\ pc' = "done" /\ row' \in {row, r}
  BY <1>1 DEF Available, Fault, NoHistory, Step
<1>3. /\ r \in RowType /\ r.scan = row.scan /\ r.members = row.members
      /\ r.scanErrors = row.scanErrors /\ r.anchor = row.anchor
  BY <1>1 DEF RowType
<1> HIDE DEF r
<1>4. \A n \in 1..2 : row'.anchor[n] # None => row'.anchor[n].pid = Leader
  BY <1>2, <1>3 DEF IInv, ScansInv
<1> QED BY <1>1, <1>2, <1>3, <1>4, PlainStepInv

(***************************************************************************)
(* The loop over the members.                                              *)
(***************************************************************************)
LEMMA MembersDoneInv ==
    ASSUME IInv, MembersDone
    PROVE  IInv'
<1>1. /\ pc = "members" /\ pc' = "list2" /\ todo = {} /\ todo' = {} /\ row' = row
      /\ UNCHANGED <<proc, churn, faults>> /\ hist' = [hist EXCEPT !.closing = proc]
  BY DEF MembersDone, Step
<1>2. /\ hist \in [opened : Table, closing : Table, closed : Table] /\ proc \in Table
  BY DEF IInv, TypeInv
<1>3. /\ hist' \in [opened : Table, closing : Table, closed : Table]
      /\ hist'.opened = hist.opened /\ hist'.closing = proc
  BY <1>1, <1>2
<1>4. Opened /\ Opened' /\ Closing' /\ ~Closed'
  BY <1>1 DEF Opened, Closing, Closed, Whole
<1>5. TypeInv'
  BY <1>1, <1>3 DEF IInv, TypeInv, Places
<1>6. ScansInv'
  BY <1>1 DEF IInv, ScansInv, ScanInv
<1>7. \A p \in Pids : Follows(proc[p], proc[p])
  BY <1>2, FollowsSelf DEF Table
<1>8. OrderInv'
  <2>1. row.scan[2] = {}
    BY <1>1 DEF IInv, ScansInv
  <2> QED BY <1>1, <1>3, <1>4, <1>7, <2>1 DEF IInv, OrderInv
<1>9. MembersInv'
  BY <1>1, <1>3, <1>4 DEF IInv, MembersInv, MeasuredInv
<1>10. CoverInv'
  BY <1>1, <1>4 DEF CoverInv
<1> QED BY <1>5, <1>6, <1>8, <1>9, <1>10 DEF IInv

LEMMA MeasureInv ==
    ASSUME IInv, pc \in {"members", "after"}, todo # {},
           NEW m \in Measurement, m.before = Current, m.status # "MISSING", MeasuredInv(m),
           row' = [row EXCEPT !.members = @ \cup {m}], todo' = todo \ {Current},
           pc' = "members", UNCHANGED <<proc, churn, hist>>, faults' \in Nat
    PROVE  IInv'
<1>1. row \in RowType /\ todo \subseteq row.scan[1]
  BY DEF IInv, TypeInv
<1>2. Current \in todo
  BY <1>1, CurrentIsOne DEF RowType
<1>3. /\ row' \in RowType /\ row'.scan = row.scan /\ row'.members = row.members \cup {m}
      /\ row'.scanErrors = row.scanErrors /\ row'.anchor = row.anchor
      /\ row'.samplingErrors = row.samplingErrors
  BY <1>1 DEF RowType
<1>4. TypeInv'
  <2>1. todo' \subseteq row'.scan[1]
    BY <1>1, <1>3
  <2> QED BY <1>3, <2>1 DEF IInv, TypeInv, Places
<1>5. ScansInv'
  BY <1>3 DEF IInv, ScansInv, ScanInv
<1>6. Opened /\ Opened' /\ ~Closing' /\ ~Closed'
  BY DEF Opened, Closing, Closed, Whole
<1>7. OrderInv'
  BY <1>3, <1>6 DEF IInv, OrderInv
<1>8. MembersInv'
  <2>1. MembersInv
    BY DEF IInv
  <2>2. \A k \in row'.members : MeasuredInv(k)'
    BY <1>3, <1>6, <2>1 DEF MembersInv, MeasuredInv
  <2>3. \A k \in row.members : k.before # Current
    BY <1>2, <2>1 DEF MembersInv
  <2>4. \A k, n \in row'.members : k.status # "MISSING" /\ n.status # "MISSING"
                                   /\ k.before = n.before => k = n
    BY <1>3, <1>6, <2>1, <2>3 DEF MembersInv
  <2>5. \A k \in row'.members : k.before \notin todo'
    BY <1>3, <2>1 DEF MembersInv
  <2>6. \A i \in row'.scan[1] \ todo' : \E k \in row'.members : k.before = i
    BY <1>3, <2>1 DEF MembersInv
  <2> QED BY <1>6, <2>2, <2>4, <2>5, <2>6 DEF MembersInv
<1>9. CoverInv'
  BY <1>6 DEF CoverInv
<1> QED BY <1>4, <1>5, <1>7, <1>8, <1>9 DEF IInv

\* What the status of a member says of the two reads.
LEMMA StatusOf ==
    ASSUME NEW b \in Id, NEW a \in Id \cup {None}
    PROVE  /\ MemberStatus(b, a) \in {"LIVE", "ZOMBIE", "VANISHED", "IDENTITY_CHANGED"}
           /\ MemberStatus(b, a) = "LIVE" => /\ a # None /\ same(b, a)
                                             /\ ~b.dead /\ ~a.dead
           /\ MemberStatus(b, a) = "ZOMBIE" => a # None /\ same(b, a) /\ b.dead
<1>1. CASE a = None
  <2>1. MemberStatus(b, a) = "VANISHED"
    BY <1>1 DEF MemberStatus, same
  <2> QED BY <2>1
<1>2. CASE a # None /\ ~same(b, a)
  <2>1. MemberStatus(b, a) = "IDENTITY_CHANGED"
    BY <1>2 DEF MemberStatus
  <2> QED BY <2>1
<1>3. CASE a # None /\ same(b, a) /\ a.dead /\ ~b.dead
  <2>1. MemberStatus(b, a) = "VANISHED"
    BY <1>3 DEF MemberStatus
  <2> QED BY <2>1
<1>4. CASE a # None /\ same(b, a) /\ ~(a.dead /\ ~b.dead)
  <2>1. MemberStatus(b, a) = IF b.dead THEN "ZOMBIE" ELSE "LIVE"
    BY <1>4 DEF MemberStatus
  <2> QED BY <1>4, <2>1
<1> QED BY <1>1, <1>2, <1>3, <1>4

LEMMA ReadRssInv ==
    ASSUME IInv, ReadRss
    PROVE  IInv'
<1>0. /\ row \in RowType /\ todo \subseteq row.scan[1] /\ faults \in Nat
      /\ pc = "members" /\ todo # {} /\ ~Current.dead /\ UNCHANGED <<proc, churn, hist>>
  BY ZenonT(30) DEF IInv, TypeInv, ReadRss, NoHistory, Step
<1>1. Current \in row.scan[1] /\ Current \in Id
  BY <1>0, CurrentIsOne DEF RowType
<1>2. ASSUME NEW st \in {"VANISHED", "UNREADABLE"}, faults' \in Nat,
             Step("members", "members", todo \ {Current}, Measured(None, FALSE, st))
      PROVE  IInv'
  <2> DEFINE m == [before |-> Current, after |-> None, rss |-> FALSE, status |-> st]
  <2>1. m \in Measurement /\ m.before = Current /\ m.status = st
    BY <1>1, <1>2 DEF Measurement
  <2>2. row' = [row EXCEPT !.members = @ \cup {m}] /\ pc' = "members" /\ todo' = todo \ {Current}
    BY <1>2 DEF Step, Measured
  <2> HIDE DEF m
  <2>3. MeasuredInv(m)
    BY <1>1, <2>1 DEF MeasuredInv
  <2> QED BY <1>0, <1>2, <2>1, <2>2, <2>3, MeasureInv
<1>3. ASSUME faults' \in Nat, Step("members", "after", todo, row)
      PROVE  IInv'
  <2>1. pc' = "after" /\ todo' = todo /\ row' = row
    BY <1>3 DEF Step
  <2>2. TypeInv'
    BY <1>0, <1>3, <2>1 DEF IInv, TypeInv, Places, Current
  <2>3. ScansInv'
    BY <1>0, <2>1 DEF IInv, ScansInv, ScanInv
  <2>4. Opened /\ Opened' /\ ~Closing' /\ ~Closed'
    BY <1>0, <2>1 DEF Opened, Closing, Closed, Whole
  <2>5. OrderInv'
    BY <1>0, <2>1, <2>4, ZenonT(30) DEF IInv, OrderInv
  <2>6. MembersInv'
    BY <1>0, <2>1, <2>4 DEF IInv, MembersInv, MeasuredInv
  <2>7. CoverInv'
    BY <2>1, <2>4 DEF CoverInv
  <2> QED BY <2>2, <2>3, <2>5, <2>6, <2>7 DEF IInv
<1>4. faults' \in {faults, faults + 1}
  BY Zenon DEF ReadRss, Fault
<1>5. faults' \in Nat
  BY <1>0, <1>4
<1>6. \/ Step("members", "after", todo, row)
      \/ \E st \in {"VANISHED", "UNREADABLE"} :
            Step("members", "members", todo \ {Current}, Measured(None, FALSE, st))
  BY Zenon DEF ReadRss
<1> QED BY <1>2, <1>3, <1>5, <1>6, Zenon

LEMMA ReadAfterInv ==
    ASSUME IInv, ReadAfter
    PROVE  IInv'
<1> DEFINE i == Current
           a == Identity(i.pid)
<1>0. /\ row \in RowType /\ todo \subseteq row.scan[1] /\ faults \in Nat /\ TypeInv
      /\ pc \in {"members", "after"} /\ todo # {}
      /\ pc' = "members" /\ todo' = todo \ {i} /\ UNCHANGED <<proc, churn, hist>>
  BY DEF IInv, TypeInv, ReadAfter, NoHistory, Step
<1>1. i \in row.scan[1] /\ i \in Id /\ i.pid \in Pids /\ i.pgid = Leader
  <2>1. i \in row.scan[1] /\ i \in Id
    BY <1>0, CurrentIsOne DEF RowType
  <2> QED BY <2>1 DEF Id, IInv, ScansInv, ScanInv
<1>2. PICK m : /\ \/ /\ faults' = faults
                    /\ m = [before |-> i, after |-> a, rss |-> ~i.dead,
                            status |-> MemberStatus(i, a)]
                 \/ /\ faults' = faults + 1
                    /\ m = [before |-> i, after |-> None, rss |-> ~i.dead,
                            status |-> "UNREADABLE"]
               /\ row' = [row EXCEPT !.members = @ \cup {m}]
  BY ZenonT(30) DEF ReadAfter, Step, Measured, Fault
<1>3. Opened
  BY <1>0 DEF Opened
<1>4. Follows(View(i), proc[i.pid]) /\ Follows(hist.opened[i.pid], proc[i.pid])
  BY <1>1, <1>3 DEF IInv, OrderInv
<1>5. a \in Id \cup {None} /\ (a # None => View(a) = proc[i.pid] /\ a \in Id)
  BY <1>0, <1>1, IdentityRead
<1> HIDE DEF i, a
<1>6. m \in Measurement /\ m.before = i /\ m.status # "MISSING" /\ MeasuredInv(m)
  <2>1. CASE m = [before |-> i, after |-> None, rss |-> ~i.dead, status |-> "UNREADABLE"]
    <3>1. i.dead \in BOOLEAN
      BY <1>1 DEF Id
    <3>2. /\ m \in Measurement /\ m.before = i /\ m.status = "UNREADABLE"
      BY <1>1, <2>1, <3>1 DEF Measurement
    <3> QED BY <1>1, <3>2 DEF MeasuredInv
  <2>2. CASE m = [before |-> i, after |-> a, rss |-> ~i.dead, status |-> MemberStatus(i, a)]
    <3>1. i.dead \in BOOLEAN
      BY <1>1 DEF Id
    <3>2. MemberStatus(i, a) \in {"LIVE", "ZOMBIE", "VANISHED", "IDENTITY_CHANGED"}
      BY <1>1, <1>5, StatusOf
    <3>3. /\ m \in Measurement /\ m.before = i /\ m.after = a /\ m.rss = ~i.dead
          /\ m.status = MemberStatus(i, a)
      BY <1>1, <1>5, <2>2, <3>1, <3>2 DEF Measurement
    <3>4. m.status = "LIVE" => /\ m.rss /\ ~i.dead /\ a # None /\ same(i, a) /\ ~a.dead
                               /\ Follows(hist.opened[i.pid], View(a))
      BY <1>1, <1>4, <1>5, <3>3, StatusOf, ZenonT(30)
    <3>5. m.status = "ZOMBIE" => ~m.rss /\ i.dead /\ a # None /\ same(i, a) /\ a.dead
      <4> SUFFICES ASSUME m.status = "ZOMBIE" PROVE ~m.rss /\ i.dead /\ a # None /\ same(i, a) /\ a.dead
        OBVIOUS
      <4>1. i.dead /\ a # None /\ same(i, a) /\ a \in Id
        BY <1>1, <1>5, <3>3, StatusOf
      <4>2. i.start = a.start
        BY <1>1, <4>1, SameFields
      <4>3. Follows(View(i), View(a))
        BY <1>4, <1>5, <4>1
      <4>4. a.dead
        BY <1>1, <4>1, <4>2, <4>3, ViewFields DEF Follows, Id
      <4> QED BY <3>3, <4>1, <4>4, Zenon
    <3> QED BY <1>1, <3>2, <3>3, <3>4, <3>5 DEF MeasuredInv
  <2> QED BY <1>2, <2>1, <2>2
<1> QED BY <1>0, <1>2, <1>6, MeasureInv DEF i

(***************************************************************************)
(* The scans.  Fine(n, S) says what the set S of identities, read so far by *)
(* scan n, has to be.                                                      *)
(***************************************************************************)
Fine(n, S) ==
    /\ S \subseteq Id /\ IsFiniteSet(S) /\ Cardinality(S) <= MaxMembers
    /\ \A i \in S : i.pgid = Leader
    /\ \A i, j \in S : i.pid = j.pid => i = j
    /\ n = 1 => \A i \in S : Follows(View(i), proc[i.pid])
    /\ n = 2 => \A i \in S : Follows(hist.closing[i.pid], View(i))

\* Who was in the group at the opening and is now, is in S.
Found(p, S) ==
    /\ hist.opened[p].st # "absent" /\ hist.opened[p].pgid = Leader
    /\ proc[p].st # "absent" /\ proc[p].pgid = Leader /\ proc[p].start = hist.opened[p].start
    => \E i \in S : i.pid = p /\ i.start = proc[p].start

\* The row r is row with the set S as the result of scan n, and perhaps an error.
Rescanned(r, n, S) ==
    /\ r \in RowType /\ r.anchor = row.anchor /\ r.members = row.members
    /\ r.samplingErrors = row.samplingErrors
    /\ \A k \in 1..2 : r.scan[k] = IF k = n THEN S ELSE row.scan[k]
    /\ row.scanErrors => r.scanErrors

LEMMA FirstScanEnds ==
    ASSUME IInv, pc \in {"list1", "scan1"}, NEW r, NEW S, Rescanned(r, 1, S), Fine(1, S),
           NEW at, ScanEnds(1, at, r), faults' \in Nat
    PROVE  IInv'
<1>1. /\ pc' = "members" /\ todo' = S /\ UNCHANGED <<proc, churn>>
      /\ hist' = [hist EXCEPT !.opened = proc]
      /\ row' = [r EXCEPT !.members = @ \cup {}]
  BY DEF ScanEnds, Step, AfterScan, Rescanned
<1>2. /\ row' \in RowType /\ row'.scan[1] = S /\ row'.scan[2] = row.scan[2]
      /\ row'.members = row.members /\ row'.anchor = row.anchor
  BY <1>1 DEF Rescanned, RowType
<1>3. /\ hist \in [opened : Table, closing : Table, closed : Table] /\ proc \in Table
  BY DEF IInv, TypeInv
<1>4. /\ hist' \in [opened : Table, closing : Table, closed : Table] /\ hist'.opened = proc
  BY <1>1, <1>3
<1>5. TypeInv'
  BY <1>1, <1>2, <1>4 DEF IInv, TypeInv, Places
<1>6. row'.scan[2] = {} /\ row'.members = {}
  BY <1>2 DEF IInv, ScansInv, MembersInv
<1>7. ScansInv'
  BY <1>1, <1>2, <1>6, ZenonT(30) DEF IInv, ScansInv, ScanInv, Fine
<1>8. ~Closing' /\ ~Closed'
  BY <1>1 DEF Closing, Closed, Whole
<1>9. \A p \in Pids : Follows(proc[p], proc[p])
  BY <1>3, FollowsSelf DEF Table
<1>10. OrderInv'
  BY <1>1, <1>2, <1>4, <1>8, <1>9 DEF OrderInv, Fine
<1>11. MembersInv'
  BY <1>1, <1>2, <1>6, <1>8 DEF MembersInv
<1>12. CoverInv'
  BY <1>1, <1>8 DEF CoverInv
<1> QED BY <1>5, <1>7, <1>10, <1>11, <1>12 DEF IInv

LEMMA SecondScanEnds ==
    ASSUME IInv, pc \in {"list2", "scan2"}, NEW r, NEW S, Rescanned(r, 2, S), Fine(2, S),
           ~r.scanErrors => \A p \in Pids : Found(p, S),
           NEW at, ScanEnds(2, at, r), faults' \in Nat
    PROVE  IInv'
<1> DEFINE missing == {[before |-> i, after |-> None, rss |-> FALSE, status |-> "MISSING"] :
                         i \in {i \in r.scan[2] : \A b \in r.scan[1] : b.pid # i.pid}}
<1>1. /\ pc' = "anchor_after" /\ todo' = {} /\ UNCHANGED <<proc, churn>>
      /\ hist' = [hist EXCEPT !.closed = proc]
      /\ row' = [r EXCEPT !.members = @ \cup missing]
  BY DEF ScanEnds, Step, AfterScan
<1>2. missing \subseteq Measurement /\ \A m \in missing : m.status = "MISSING"
  <2>1. r.scan[2] \subseteq Id
    BY DEF Rescanned, RowType
  <2>2. ASSUME NEW m \in missing
        PROVE  m \in Measurement /\ m.status = "MISSING"
    <3>1. PICK i \in Id : m = [before |-> i, after |-> None, rss |-> FALSE, status |-> "MISSING"]
      BY <2>1, Zenon
    <3> QED BY <3>1 DEF Measurement
  <2> QED BY <2>2, Zenon
<1> HIDE DEF missing
<1>3. /\ row' \in RowType /\ row'.scan[2] = S /\ row'.scan[1] = row.scan[1]
      /\ row'.members = row.members \cup missing /\ row'.anchor = row.anchor
      /\ row'.scanErrors = r.scanErrors
  BY <1>1, <1>2 DEF Rescanned, RowType
<1>4. /\ hist \in [opened : Table, closing : Table, closed : Table] /\ proc \in Table
  BY DEF IInv, TypeInv
<1>5. /\ hist' \in [opened : Table, closing : Table, closed : Table] /\ hist'.closed = proc
      /\ hist'.opened = hist.opened /\ hist'.closing = hist.closing
  BY <1>1, <1>4
<1>6. TypeInv'
  BY <1>1, <1>3, <1>5 DEF IInv, TypeInv, Places
<1>7. ScansInv'
  BY <1>1, <1>3 DEF IInv, ScansInv, ScanInv, Fine
<1>8. Opened /\ Closing
  BY DEF Opened, Closing
<1>9. OrderInv'
  BY <1>1, <1>3, <1>5, <1>8 DEF IInv, OrderInv, Fine
<1>10. MembersInv'
  <2>1. MembersInv
    BY DEF IInv
  <2>2. \A m \in row'.members : MeasuredInv(m)'
    <3>1. \A m \in row.members : MeasuredInv(m)'
      BY <1>3, <1>5, <1>8, <2>1, ZenonT(30) DEF MembersInv, MeasuredInv
    <3>2. \A m \in missing : MeasuredInv(m)'
      BY <1>2 DEF MeasuredInv
    <3> QED BY <1>3, <3>1, <3>2, ZenonT(30)
  <2>3. \A m, n \in row'.members : m.status # "MISSING" /\ n.status # "MISSING"
                                   /\ m.before = n.before => m = n
    BY <1>2, <1>3, <1>8, <2>1 DEF MembersInv
  <2>4. \A i \in row'.scan[1] : \E m \in row'.members : m.before = i
    BY <1>3, <1>8, <2>1 DEF MembersInv
  <2> QED BY <1>1, <2>2, <2>3, <2>4 DEF MembersInv
<1>11. CoverInv'
  BY <1>1, <1>3, <1>5 DEF CoverInv, Covered, Found
<1> QED BY <1>6, <1>7, <1>9, <1>10, <1>11 DEF IInv

LEMMA ScanGoesOn ==
    ASSUME IInv, NEW n \in 1..2,
           pc \in IF n = 1 THEN {"list1", "scan1"} ELSE {"list2", "scan2"},
           pc' = IF n = 1 THEN "scan1" ELSE "scan2",
           NEW S, Rescanned(row', n, S), Fine(n, S),
           todo' \subseteq Pids, todo' # {}, \A i \in S : i.pid \notin todo',
           n = 2 /\ ~row'.scanErrors => \A p \in Pids \ todo' : Found(p, S),
           UNCHANGED <<proc, churn, hist>>, faults' \in Nat
    PROVE  IInv'
<1>1. /\ row' \in RowType /\ row'.members = row.members /\ row'.anchor = row.anchor
      /\ \A k \in 1..2 : row'.scan[k] = IF k = n THEN S ELSE row.scan[k]
  BY DEF Rescanned
<1>2. TypeInv'
  BY <1>1 DEF IInv, TypeInv, Places
<1>3. CASE n = 1
  <2>1. pc' = "scan1" /\ row'.scan[1] = S /\ row'.scan[2] = row.scan[2]
    BY <1>1, <1>3
  <2>2. row'.scan[2] = {} /\ row'.members = {}
    BY <1>1, <1>3, <2>1 DEF IInv, ScansInv, MembersInv
  <2>3. ScansInv'
    BY <1>1, <2>1, <2>2, ZenonT(30) DEF IInv, ScansInv, ScanInv, Fine
  <2>4. ~Opened' /\ ~Closing' /\ ~Closed'
    BY <2>1 DEF Opened, Closing, Closed, Whole
  <2>5. OrderInv'
    BY <1>3, <2>1, <2>4 DEF OrderInv, Fine
  <2>6. MembersInv' /\ CoverInv'
    BY <2>1, <2>2, <2>4 DEF MembersInv, CoverInv
  <2> QED BY <1>2, <2>3, <2>5, <2>6 DEF IInv
<1>4. CASE n = 2
  <2>1. /\ pc' = "scan2" /\ row'.scan[2] = S /\ row'.scan[1] = row.scan[1]
        /\ pc \in {"list2", "scan2"}
    BY <1>1, <1>4
  <2>3. ScansInv'
    BY <1>1, <2>1, ZenonT(30) DEF IInv, ScansInv, ScanInv, Fine
  <2>4. Opened /\ Opened' /\ Closing /\ Closing' /\ ~Closed'
    BY <2>1 DEF Opened, Closing, Closed, Whole
  <2>5. OrderInv'
    BY <1>4, <2>1, <2>4, ZenonT(30) DEF IInv, OrderInv, Fine
  <2>6. MembersInv'
    BY <1>1, <2>1, <2>4, ZenonT(30) DEF IInv, MembersInv, MeasuredInv
  <2>7. CoverInv'
    BY <1>4, <2>1, <2>4 DEF CoverInv, Covered, Found
  <2> QED BY <1>2, <2>3, <2>5, <2>6, <2>7 DEF IInv
<1> QED BY <1>3, <1>4

\* Either way a scan ends.
LEMMA ScanEndsInv ==
    ASSUME IInv, NEW n \in 1..2,
           pc \in IF n = 1 THEN {"list1", "scan1"} ELSE {"list2", "scan2"},
           NEW r, NEW S, Rescanned(r, n, S), Fine(n, S),
           n = 2 /\ ~r.scanErrors => \A p \in Pids : Found(p, S),
           NEW at, ScanEnds(n, at, r), faults' \in Nat
    PROVE  IInv'
<1>1. CASE n = 1
  BY <1>1, FirstScanEnds, ZenonT(30)
<1>2. CASE n = 2
  <2>1. pc \in {"list2", "scan2"}
    BY <1>2
  <2> QED BY <1>2, <2>1, SecondScanEnds, ZenonT(30)
<1> QED BY <1>1, <1>2

\* The rows that a scan goes on or ends with.
LEMMA ScanRows ==
    ASSUME row \in RowType, NEW n \in 1..2, NEW S \in SUBSET Id
    PROVE  /\ Rescanned(row, n, row.scan[n])
           /\ Rescanned([row EXCEPT !.scanErrors = TRUE], n, row.scan[n])
           /\ [row EXCEPT !.scanErrors = TRUE].scanErrors
           /\ Rescanned([row EXCEPT !.scan[n] = S], n, S)
           /\ [row EXCEPT !.scan[n] = S].scanErrors = row.scanErrors
<1>1. Rescanned(row, n, row.scan[n])
  BY DEF Rescanned
<1>2. /\ Rescanned([row EXCEPT !.scanErrors = TRUE], n, row.scan[n])
      /\ [row EXCEPT !.scanErrors = TRUE].scanErrors
  BY Zenon DEF Rescanned, RowType
<1> DEFINE t == [row.scan EXCEPT ![n] = S]
           r == [row EXCEPT !.scan = t]
<1>3. t \in [1..2 -> SUBSET Id] /\ \A k \in 1..2 : t[k] = IF k = n THEN S ELSE row.scan[k]
  BY DEF RowType
<1> HIDE DEF t
<1>4. /\ r \in RowType /\ r.anchor = row.anchor /\ r.members = row.members
      /\ r.samplingErrors = row.samplingErrors /\ r.scan = t /\ r.scanErrors = row.scanErrors
  BY <1>3 DEF RowType
<1>5. [row EXCEPT !.scan[n] = S] = r
  BY DEF t
<1> HIDE DEF r
<1>6. Rescanned(r, n, S) /\ r.scanErrors = row.scanErrors
  BY <1>3, <1>4 DEF Rescanned
<1> QED BY <1>1, <1>2, <1>5, <1>6, Zenon

\* Where a scan starts or stands.
LEMMA ScanStands ==
    ASSUME IInv, NEW n \in 1..2,
           pc \in IF n = 1 THEN {"list1", "scan1"} ELSE {"list2", "scan2"}
    PROVE  /\ row \in RowType /\ Fine(n, row.scan[n])
           /\ pc \in {"list1", "list2"} => row.scan[n] = {}
           /\ pc \in {"scan1", "scan2"} => \A i \in row.scan[n] : i.pid \notin todo
           /\ pc = "scan2" /\ ~row.scanErrors => \A p \in Pids \ todo : Found(p, row.scan[2])
<1>1. row \in RowType
  BY DEF IInv, TypeInv
<1>2. row.scan[n] \subseteq Id
  BY <1>1 DEF RowType
<1>3. n = 2 => Closing
  BY DEF Closing
<1>4. CASE n = 1
  BY <1>1, <1>2, <1>4 DEF IInv, ScansInv, ScanInv, OrderInv, Fine
<1>5. CASE n = 2
  <2>1. pc \in {"list2", "scan2"}
    BY <1>5
  <2>2. Fine(2, row.scan[2])
    BY <1>2, <1>3, <1>5, ZenonT(30) DEF IInv, ScansInv, ScanInv, OrderInv, Fine
  <2>3. pc = "scan2" /\ ~row.scanErrors => \A p \in Pids \ todo : Found(p, row.scan[2])
    BY DEF IInv, CoverInv, Covered, Found
  <2>4. /\ pc = "list2" => row.scan[2] = {}
        /\ pc = "scan2" => \A i \in row.scan[2] : i.pid \notin todo
    BY DEF IInv, ScansInv
  <2> QED BY <1>1, <1>5, <2>1, <2>2, <2>3, <2>4
<1> QED BY <1>4, <1>5

LEMMA ListPidsInv ==
    ASSUME IInv, NEW n \in 1..2, NEW at, NEW to,
           at = IF n = 1 THEN "list1" ELSE "list2", to = IF n = 1 THEN "scan1" ELSE "scan2",
           ListPids(n, at, to)
    PROVE  IInv'
<1> DEFINE pids == {p \in Pids : Exists(proc, p)}
           e == [row EXCEPT !.scanErrors = TRUE]
<1>1. pc = at
  BY DEF ListPids, ScanEnds, Step
<1>2. pc \in IF n = 1 THEN {"list1", "scan1"} ELSE {"list2", "scan2"}
  BY <1>1
<1>3. row \in RowType /\ Fine(n, row.scan[n]) /\ row.scan[n] = {} /\ faults \in Nat
  BY <1>1, <1>2, ScanStands DEF IInv, TypeInv
<1>4. /\ Rescanned(row, n, row.scan[n]) /\ Rescanned(e, n, row.scan[n]) /\ e.scanErrors
  BY <1>3, ScanRows, ZenonT(30)
<1>5. \A p \in Pids \ pids : Found(p, row.scan[n])
  BY DEF Found, Exists
<1>6. CASE pids # {} /\ Step(at, to, pids, row) /\ NoHistory /\ UNCHANGED faults
  <2>1. /\ pc' = to /\ todo' = pids /\ row' = row /\ UNCHANGED <<proc, churn, hist, faults>>
    BY <1>6 DEF Step, NoHistory
  <2>2. pids \subseteq Pids
    OBVIOUS
  <2> HIDE DEF pids
  <2> QED BY <1>2, <1>3, <1>4, <1>5, <1>6, <2>1, <2>2, ScanGoesOn, ZenonT(30)
<1>7. CASE pids = {} /\ ScanEnds(n, at, row) /\ UNCHANGED faults
  <2>1. \A p \in Pids : Found(p, row.scan[n])
    BY <1>5, <1>7
  <2> HIDE DEF pids
  <2> QED BY <1>2, <1>3, <1>4, <1>7, <2>1, ScanEndsInv, ZenonT(30)
<1>8. CASE Fault /\ ScanEnds(n, at, e)
  <2>1. faults' \in Nat
    BY <1>3, <1>8 DEF Fault
  <2> HIDE DEF pids, e
  <2> QED BY <1>2, <1>3, <1>4, <1>8, <2>1, ScanEndsInv, ZenonT(30)
<1> QED BY <1>6, <1>7, <1>8, Zenon DEF ListPids

LEMMA ScanPidInv ==
    ASSUME IInv, NEW n \in 1..2, NEW at, at = IF n = 1 THEN "scan1" ELSE "scan2",
           pc = at, ScanPid(n, at)
    PROVE  IInv'
<1> DEFINE p == Min(todo)
           S == row.scan[n]
           found == S \cup (IF Identity(p) # None /\ Identity(p).pgid = Leader
                             THEN {Identity(p)} ELSE {})
           e == [row EXCEPT !.scanErrors = TRUE]
           f == [row EXCEPT !.scan[n] = found]
           Goes(r) == IF todo = {p} THEN ScanEnds(n, at, r)
                      ELSE Step(at, at, todo \ {p}, r) /\ NoHistory
<1>1. pc \in IF n = 1 THEN {"list1", "scan1"} ELSE {"list2", "scan2"}
  OBVIOUS
<1>2. /\ row \in RowType /\ Fine(n, S) /\ faults \in Nat /\ TypeInv /\ proc \in Table
      /\ \A i \in S : i.pid \notin todo
      /\ n = 2 /\ ~row.scanErrors => \A q \in Pids \ todo : Found(q, S)
      /\ todo \subseteq Pids /\ todo # {}
  BY <1>1, ScanStands DEF IInv, TypeInv
<1>3. p \in todo /\ p \in Pids
  BY <1>2, LeastPid, ZenonT(30)
<1> HIDE DEF p
<1>4. /\ found \subseteq Id
      /\ \A i \in found : i.pid \notin todo \ {p}
      /\ Cardinality(found) <= MaxMembers => Fine(n, found)
  <2>1. CASE found = S
    BY <1>2, <2>1, Zenon DEF Fine
  <2>2. CASE found # S
    <3> DEFINE i == Identity(p)
    <3>1. /\ found = S \cup {i} /\ i.pgid = Leader /\ i \in Id /\ i.pid = p
          /\ View(i) = proc[p] /\ proc[p] \in ProcEntry
      BY <1>2, <1>3, <2>2, IdentityRead, ZenonT(30) DEF Table
    <3> HIDE DEF i, found
    <3>2. found \subseteq Id /\ \A k \in found : k.pid \notin todo \ {p} /\ k.pgid = Leader
      BY <1>2, <3>1, ZenonT(30) DEF Fine
    <3>3. IsFiniteSet(found)
      BY <1>2, <3>1, FS_AddElement, ZenonT(30) DEF Fine
    <3>4. \A k, l \in found : k.pid = l.pid => k = l
      BY <1>2, <1>3, <3>1, ZenonT(30) DEF Fine
    <3>5. n = 1 => \A k \in found : Follows(View(k), proc[k.pid])
      BY <1>2, <3>1, FollowsSelf, ZenonT(30) DEF Fine
    <3>6. n = 2 => \A k \in found : Follows(hist.closing[k.pid], View(k))
      <4>1. n = 2 => Follows(hist.closing[p], proc[p])
        BY <1>3 DEF IInv, OrderInv, Closing
      <4> QED BY <1>2, <3>1, <4>1 DEF Fine
    <3> QED BY <3>2, <3>3, <3>4, <3>5, <3>6, ZenonT(30) DEF Fine
  <2> QED BY <2>1, <2>2
<1>5. n = 2 /\ ~row.scanErrors => \A q \in Pids \ (todo \ {p}) : Found(q, found)
  <2> SUFFICES ASSUME n = 2, ~row.scanErrors, NEW q \in Pids, q \notin todo \/ q = p
               PROVE  Found(q, found)
    BY Zenon
  <2>1. CASE q \notin todo
    BY <1>2, <2>1 DEF Found
  <2>2. CASE q = p
    <3> SUFFICES ASSUME proc[p].st # "absent", proc[p].pgid = Leader
                 PROVE  \E i \in found : i.pid = p /\ i.start = proc[p].start
      BY <2>2, ZenonT(30) DEF Found
    <3>1. /\ Identity(p) # None /\ Identity(p).pgid = Leader
          /\ Identity(p).pid = p /\ Identity(p).start = proc[p].start
      BY <1>2, <1>3, IdentityRead
    <3> QED BY <3>1
  <2> QED BY <2>1, <2>2
<1>6. /\ Rescanned(e, n, S) /\ e.scanErrors
      /\ Rescanned(f, n, found) /\ f.scanErrors = row.scanErrors
  <2> HIDE DEF found
  <2> QED BY <1>2, <1>4, ScanRows, ZenonT(30)
<1> HIDE DEF e, f, found, S
<1>7. ASSUME NEW r, NEW T, Rescanned(r, n, T), Fine(n, T), Goes(r), faults' \in Nat,
             \A i \in T : i.pid \notin todo \ {p},
             n = 2 /\ ~r.scanErrors => \A q \in Pids \ (todo \ {p}) : Found(q, T)
      PROVE  IInv'
  <2>1. CASE todo = {p}
    <3>1. ScanEnds(n, at, r)
      BY <1>7, <2>1
    <3>2. n = 2 /\ ~r.scanErrors => \A q \in Pids : Found(q, T)
      BY <1>7, <2>1
    <3> QED BY <1>1, <1>7, <3>1, <3>2, ScanEndsInv, ZenonT(30)
  <2>2. CASE todo # {p}
    <3>1. /\ pc' = at /\ todo' = todo \ {p} /\ row' = r /\ UNCHANGED <<proc, churn, hist>>
      BY <1>7, <2>2 DEF Step, NoHistory
    <3>2. todo' \subseteq Pids /\ todo' # {}
      BY <1>2, <1>3, <2>2, <3>1
    <3> QED BY <1>1, <1>7, <3>1, <3>2, ScanGoesOn, ZenonT(30)
  <2> QED BY <2>1, <2>2
<1>8. \A i \in S : i.pid \notin todo \ {p}
  BY <1>2
<1>9. CASE Cardinality(found) <= MaxMembers /\ Goes(f) /\ UNCHANGED faults
  BY <1>2, <1>4, <1>5, <1>6, <1>7, <1>9, Zenon
<1>10. CASE ScanEnds(n, at, e) /\ UNCHANGED faults
  BY <1>1, <1>2, <1>6, <1>10, ScanEndsInv, ZenonT(30)
<1>11. CASE Fault /\ Goes(e)
  <2>1. faults' \in Nat
    BY <1>2, <1>11 DEF Fault
  <2> QED BY <1>2, <1>6, <1>7, <1>8, <1>11, <2>1, Zenon
<1> QED BY <1>9, <1>10, <1>11, ZenonT(30) DEF ScanPid, p, S, e, f, found

LEMMA ObserveKeepsInv ==
    ASSUME IInv, Observe
    PROVE  IInv'
<1>1. CASE AnchorBefore
  <2>1. CASE /\ Step("anchor_before", "list1", {}, [row EXCEPT !.anchor[1] = Identity(Leader)])
             /\ NoHistory /\ UNCHANGED faults
    <3>1. 1 \in 1..2
      OBVIOUS
    <3> QED BY <2>1, <3>1, AnchorInv
  <2>2. CASE Interrupted("anchor_before")
    BY <2>2, InterruptedInv
  <2> QED BY <1>1, <2>1, <2>2, Zenon DEF AnchorBefore
<1>2. CASE ListPids(1, "list1", "scan1")
  BY <1>2, ListPidsInv
<1>3. CASE pc = "scan1" /\ ScanPid(1, "scan1")
  BY <1>3, ScanPidInv
<1>4. CASE ListPids(2, "list2", "scan2")
  BY <1>4, ListPidsInv
<1>5. CASE pc = "scan2" /\ ScanPid(2, "scan2")
  BY <1>5, ScanPidInv
<1>6. CASE AnchorAfter
  <2>1. CASE /\ Step("anchor_after", "available", {}, [row EXCEPT !.anchor[2] = Identity(Leader)])
             /\ NoHistory /\ UNCHANGED faults
    <3>1. 2 \in 1..2
      OBVIOUS
    <3> QED BY <2>1, <3>1, AnchorInv
  <2>2. CASE Interrupted("anchor_after")
    BY <2>2, InterruptedInv, ZenonT(30)
  <2> QED BY <1>6, <2>1, <2>2, Zenon DEF AnchorAfter
<1> QED
  BY <1>1, <1>2, <1>3, <1>4, <1>5, <1>6, ReadRssInv, ReadAfterInv, MembersDoneInv,
     AvailableInv, ZenonT(30) DEF Observe

LEMMA InitInv == Init => IInv
<1> SUFFICES ASSUME Init PROVE IInv
  OBVIOUS
<1>1. proc \in Table
  <2>1. {Member("absent"), Member("live"), Member("zombie"), Entry("live", 1, Other, Other)}
        \subseteq ProcEntry
    BY DEF Member, Entry, ProcEntry, Numbers
  <2>2. proc \in [Pids -> {Member("absent"), Member("live"), Member("zombie"),
                           Entry("live", 1, Other, Other)}]
    BY Zenon DEF Init
  <2> QED BY <2>1, <2>2 DEF Table
<1>2. /\ row \in RowType /\ row.scan[1] = {} /\ row.scan[2] = {} /\ row.members = {}
      /\ \A n \in 1..2 : row.anchor[n] = None
  BY DEF Init, EmptyRow, RowType
<1>3. pc = "anchor_before" /\ churn \in Nat /\ faults \in Nat
  BY ZenonT(30) DEF Init
<1>4. TypeInv
  BY <1>1, <1>2, <1>3, ZenonT(30) DEF Init, TypeInv, Places
<1>5. ScansInv
  BY <1>2, <1>3, FS_EmptySet, SampleAssumption DEF ScansInv, ScanInv
<1>6. ~Opened /\ ~Closing /\ ~Closed
  BY <1>3 DEF Opened, Closing, Closed, Whole
<1> QED BY <1>2, <1>3, <1>4, <1>5, <1>6, ZenonT(30) DEF IInv, OrderInv, MembersInv, CoverInv

LEMMA Invariance == Spec => []IInv
<1>1. IInv /\ [Next]_vars => IInv'
  <2> SUFFICES ASSUME IInv, [Next]_vars PROVE IInv'
    BY Zenon
  <2>1. CASE UNCHANGED vars
    <3>1. UNCHANGED <<proc, row, pc, todo, hist, churn, faults>>
      BY <2>1 DEF vars
    <3>2. (Opened' <=> Opened) /\ (Closing' <=> Closing) /\ (Closed' <=> Closed)
      BY <3>1, Zenon DEF Opened, Closing, Closed, Whole
    <3>3. TypeInv'
      BY <3>1, Zenon DEF IInv, TypeInv, Current
    <3>4. ScansInv'
      BY <3>1, Zenon DEF IInv, ScansInv, ScanInv
    <3>5. OrderInv'
      BY <3>1, <3>2, Zenon DEF IInv, OrderInv
    <3>6. MembersInv'
      BY <3>1, <3>2, Zenon DEF IInv, MembersInv, MeasuredInv
    <3>7. CoverInv'
      <4>1. \A p, e : Covered(p, e)' <=> Covered(p, e)
        BY <3>1 DEF Covered
      <4>2. CoverInv
        BY Zenon DEF IInv
      <4> QED BY <3>1, <3>2, <4>1, <4>2, Zenon DEF CoverInv
    <3> QED BY <3>3, <3>4, <3>5, <3>6, <3>7 DEF IInv
  <2> QED BY <2>1, KernelKeepsInv, ObserveKeepsInv, Zenon DEF Next
<1> QED BY <1>1, InitInv, PTL DEF Spec

(***************************************************************************)
(* What a usable row says.                                                 *)
(***************************************************************************)
LEMMA UsableRow ==
    ASSUME IInv, Eligible
    PROVE  /\ row \in RowType /\ Opened /\ Closing /\ Closed /\ ~Invalid(row) /\ ~Partial(row)
           /\ ~row.scanErrors /\ row.samplingErrors = {}
           /\ \A m \in row.members : /\ m.status \in {"LIVE", "ZOMBIE"} /\ MeasuredInv(m)
                                     /\ m \in Measurement /\ m.before \in row.scan[1]
           /\ Ids(row.scan[1]) = Ids(row.scan[2])
<1>1. ~Invalid(row) /\ ~Partial(row) /\ pc = "done"
  BY DEF Eligible, SampleStatus, Done
<1>2. ~row.scanErrors /\ row.samplingErrors = {} /\ Ids(row.scan[1]) = Ids(row.scan[2])
  BY <1>1, Zenon DEF Partial, Errors
<1>3. \A m \in row.members : m.status \in {"LIVE", "ZOMBIE"}
  BY <1>1, Zenon DEF Partial, Unmeasured
<1>4. Opened /\ Closing /\ Closed
  BY <1>1, <1>2 DEF Opened, Closing, Closed, Whole
<1>5. row \in RowType
  BY DEF IInv, TypeInv
<1>6. \A m \in row.members : MeasuredInv(m)
  BY <1>4, Zenon DEF IInv, MembersInv
<1>7. \A m \in row.members : m \in Measurement
  BY <1>5 DEF RowType
<1>8. \A m \in row.members : m.before \in row.scan[1]
  BY <1>3, <1>6 DEF MeasuredInv
<1> QED BY <1>1, <1>2, <1>3, <1>4, <1>5, <1>6, <1>7, <1>8

\* Each identity of one scan of a usable row is, its state aside, in the other.
LEMMA ScansAlike ==
    ASSUME IInv, Eligible
    PROVE  /\ \A i \in row.scan[1] : \E j \in row.scan[2] : same(i, j) /\ same(j, i)
           /\ \A j \in row.scan[2] : \E i \in row.scan[1] : same(i, j) /\ same(j, i)
<1>1. ASSUME NEW k \in 1..2, NEW l \in 1..2, NEW i \in row.scan[k],
             Ids(row.scan[k]) = Ids(row.scan[l])
      PROVE  \E j \in row.scan[l] : same(i, j) /\ same(j, i)
  <2> DEFINE Of(x) == [pid |-> x.pid, start |-> x.start, pgid |-> x.pgid, sid |-> x.sid]
  <2>1. Of(i) \in Ids(row.scan[k])
    BY DEF Ids
  <2>2. PICK j \in row.scan[l] : Of(i) = Of(j)
    BY <1>1, <2>1 DEF Ids
  <2>3. i \in Id /\ j \in Id
    BY UsableRow DEF RowType
  <2>4. i.pid = j.pid /\ i.start = j.start /\ i.pgid = j.pgid /\ i.sid = j.sid
    BY <2>2
  <2>5. same(i, j) /\ same(j, i)
    BY <2>3, <2>4, SameFields
  <2> QED BY <2>5
<1>2. Ids(row.scan[1]) = Ids(row.scan[2])
  BY UsableRow
<1> QED BY <1>1, <1>2

\* Between the scans of a usable row nothing happened to what they list.
LEMMA BetweenScans ==
    ASSUME IInv, Eligible, NEW i \in row.scan[1]
    PROVE  /\ i \in Id /\ i.pid \in Pids /\ i.pgid = Leader
           /\ \A t \in {hist.opened, hist.closing} :
                 /\ t[i.pid].start = i.start /\ t[i.pid].st # "absent" /\ t[i.pid].pgid = Leader
                 /\ i.dead => t[i.pid].st = "zombie"
           /\ \A j \in row.scan[2] : same(j, i) => (i.dead => j.dead)
<1>1. /\ row \in RowType /\ Opened /\ Closing
  BY UsableRow
<1>2. /\ i \in Id /\ i.pid \in Pids /\ i.pgid = Leader
  BY <1>1 DEF RowType, Id, IInv, ScansInv, ScanInv
<1> DEFINE o == hist.opened[i.pid]
           c == hist.closing[i.pid]
<1>3. o \in ProcEntry /\ c \in ProcEntry
  BY <1>2 DEF IInv, TypeInv, Table
<1>4. Follows(View(i), o) /\ Follows(o, c)
  BY <1>1, <1>2 DEF IInv, OrderInv
<1>5. ASSUME NEW j \in row.scan[2], same(j, i)
      PROVE  /\ j \in Id /\ j.pid = i.pid /\ j.start = i.start /\ j.pgid = Leader
             /\ Follows(c, View(j))
  <2>1. j \in Id
    BY <1>1 DEF RowType
  <2>2. j.pid = i.pid /\ j.start = i.start /\ j.pgid = Leader
    BY <1>2, <1>5, <2>1, SameFields, ZenonT(30)
  <2>3. Follows(hist.closing[j.pid], View(j))
    BY <1>1 DEF IInv, OrderInv
  <2> QED BY <2>1, <2>2, <2>3
<1> HIDE DEF o, c
<1>6. ASSUME NEW j \in row.scan[2], same(j, i)
      PROVE  /\ o.start = i.start /\ o.st # "absent" /\ o.pgid = Leader
             /\ c.start = i.start /\ c.st # "absent" /\ c.pgid = Leader
             /\ i.dead => o.st = "zombie" /\ c.st = "zombie" /\ j.dead
  <2> DEFINE a == View(i)
             e == View(j)
  <2>1. /\ a \in ProcEntry /\ a.start = i.start /\ (i.dead => a.st = "zombie")
        /\ e \in ProcEntry /\ e.start = i.start /\ e.st # "absent" /\ e.pgid = Leader
        /\ ~j.dead => e.st = "live"
    BY <1>2, <1>5, <1>6, ViewFields
  <2> HIDE DEF a, e
  <2>2. Follows(o, e) /\ Follows(a, c) /\ Follows(a, e)
    BY <1>3, <1>4, <1>5, <1>6, <2>1, FollowsOn, ZenonT(30) DEF a, e
  <2>3. /\ o.start = i.start /\ o.st # "absent" /\ o.pgid = Leader
        /\ a.st = "zombie" => o.st = "zombie"
    BY <1>3, <1>4, <2>1, <2>2, Squeezed DEF a
  <2>4. /\ c.start = i.start /\ c.st # "absent" /\ c.pgid = Leader
        /\ a.st = "zombie" => c.st = "zombie"
    BY <1>3, <1>5, <1>6, <2>1, <2>2, Squeezed DEF e
  <2>5. a.st = "zombie" => e.st # "live"
    BY <2>1, <2>2 DEF Follows, ProcEntry
  <2> QED BY <2>1, <2>3, <2>4, <2>5
<1>7. PICK j \in row.scan[2] : same(j, i)
  BY ScansAlike
<1> QED BY <1>2, <1>6, <1>7 DEF o, c

\* A usable row's members are exactly what the opening scan found.
LEMMA MembersOfScan ==
    ASSUME IInv, Eligible
    PROVE  /\ \A i \in row.scan[1] : \E m \in row.members : m.before = i
           /\ \A m, n \in row.members : m.before.pid = n.before.pid => m = n
<1>1. Opened /\ Closing
  BY UsableRow
<1>2. \A m \in row.members : m.status # "MISSING" /\ m.before \in row.scan[1]
  BY UsableRow
<1>3. \A i, j \in row.scan[1] : i.pid = j.pid => i = j
  BY DEF IInv, ScansInv, ScanInv
<1>4. \A m, n \in row.members :
         m.status # "MISSING" /\ n.status # "MISSING" /\ m.before = n.before => m = n
  BY <1>1, Zenon DEF IInv, MembersInv
<1>5. \A i \in row.scan[1] : \E m \in row.members : m.before = i
  BY <1>1, Zenon DEF IInv, MembersInv
<1> QED BY <1>2, <1>3, <1>4, <1>5, Zenon

LEMMA BracketedRow == IInv => MembershipBracketed
<1> SUFFICES ASSUME IInv, Eligible PROVE MembershipBracketed
  BY DEF MembershipBracketed
<1> DEFINE members == {<<m.before.pid, m.before.start>> : m \in row.members}
<1>0. /\ hist \in [opened : Table, closing : Table, closed : Table]
  BY DEF IInv, TypeInv
<1>1. ASSUME NEW m \in row.members, NEW t \in {hist.opened, hist.closing}
      PROVE  <<m.before.pid, m.before.start>> \in Group(t)
  <2> DEFINE i == m.before
  <2>1. i \in row.scan[1]
    BY UsableRow, ZenonT(30)
  <2> HIDE DEF i
  <2>2. i.pid \in Pids /\ t[i.pid].start = i.start /\ t[i.pid].st # "absent"
        /\ t[i.pid].pgid = Leader
    BY <2>1, BetweenScans
  <2>3. i.pid \in InGroup(t)
    BY <1>0, <2>2 DEF InGroup, Exists, Table
  <2> QED BY <2>2, <2>3 DEF Group, i
<1>2. ASSUME NEW x \in Group(hist.opened), x \in Group(hist.closed)
      PROVE  x \in members
  <2>1. PICK p \in InGroup(hist.opened) : x = <<p, hist.opened[p].start>>
    BY DEF Group
  <2>2. PICK q \in InGroup(hist.closed) : x = <<q, hist.closed[q].start>>
    BY <1>2 DEF Group
  <2>3. /\ p = q /\ p \in Pids /\ hist.opened[p].start = hist.closed[p].start
        /\ hist.opened[p].st # "absent" /\ hist.opened[p].pgid = Leader
        /\ hist.closed[p].st # "absent" /\ hist.closed[p].pgid = Leader
    BY <1>0, <2>1, <2>2 DEF InGroup, Exists, Table
  <2>4. Covered(p, hist.closed[p])
    BY <2>3, UsableRow, ZenonT(30) DEF IInv, CoverInv
  <2>5. PICK j \in row.scan[2] : j.pid = p /\ j.start = hist.closed[p].start
    BY <2>3, <2>4, ZenonT(30) DEF Covered
  <2>6. PICK i \in row.scan[1] : same(i, j)
    BY ScansAlike, ZenonT(30)
  <2>7. i \in Id /\ j \in Id
    BY UsableRow DEF RowType
  <2>8. i.pid = p /\ i.start = hist.closed[p].start
    BY <2>5, <2>6, <2>7, SameFields, ZenonT(30)
  <2>9. PICK m \in row.members : m.before = i
    BY MembersOfScan
  <2> QED BY <2>2, <2>3, <2>8, <2>9
<1>3. members \subseteq Group(hist.opened) \cap Group(hist.closing)
  BY <1>1
<1>4. Group(hist.opened) \cap Group(hist.closed) \subseteq members
  BY <1>2
<1> QED BY <1>3, <1>4, Zenon DEF MembershipBracketed

LEMMA LiveRow == IInv => LiveWasLive
<1> SUFFICES ASSUME IInv, Eligible, NEW m \in row.members
             PROVE  LET then == hist.opened[m.before.pid]
                    IN then.start = m.before.start /\ (m.rss <=> then.st = "live")
  BY DEF LiveWasLive
<1> DEFINE i == m.before
           then == hist.opened[i.pid]
<1>1. /\ m.status \in {"LIVE", "ZOMBIE"} /\ MeasuredInv(m) /\ m \in Measurement
      /\ i \in row.scan[1] /\ Opened
  BY UsableRow, ZenonT(30)
<1>2. /\ i \in Id /\ i.pid \in Pids /\ i.pgid = Leader
      /\ then.start = i.start /\ (i.dead => then.st = "zombie")
  BY <1>1, BetweenScans, ZenonT(30)
<1>3. then \in ProcEntry /\ Follows(View(i), then)
  BY <1>1, <1>2, ZenonT(30) DEF IInv, TypeInv, Table, OrderInv
<1>4. CASE m.status = "LIVE"
  <2> DEFINE a == m.after
  <2>1. /\ m.rss /\ ~i.dead /\ a # None /\ same(i, a) /\ ~a.dead /\ Follows(then, View(a))
    BY <1>1, <1>4, ZenonT(30) DEF MeasuredInv
  <2>2. a \in Id
    BY <1>1, <2>1, ZenonT(30) DEF Measurement
  <2> HIDE DEF a, i, then
  <2>3. /\ View(a) \in ProcEntry /\ View(a).start = i.start /\ View(a).pgid = Leader
        /\ View(a).st = "live" /\ View(i) \in ProcEntry /\ View(i).start = i.start
    BY <1>2, <2>1, <2>2, SameFields, ViewFields, ZenonT(30)
  <2>4. then.st = "live"
    BY <1>3, <2>1, <2>3, Squeezed
  <2> QED BY <1>2, <2>1, <2>4, ZenonT(30) DEF i, then
<1>5. CASE m.status = "ZOMBIE"
  BY <1>1, <1>2, <1>5 DEF MeasuredInv
<1> QED BY <1>1, <1>4, <1>5

\* The auditor's view of one member of a usable row.
LEMMA MemberAudited ==
    ASSUME IInv, Eligible, NEW m \in row.members
    PROVE  AuditMember(row, m)
<1> DEFINE b == m.before
           a == m.after
           opening == {i \in row.scan[1] : i.pid = b.pid}
           closing == {i \in row.scan[2] : same(i, b)}
<1>1. /\ m.status \in {"LIVE", "ZOMBIE"} /\ MeasuredInv(m) /\ m \in Measurement
      /\ b \in row.scan[1]
  BY UsableRow
<1>2. b \in opening
  BY <1>1, ZenonT(30)
<1>3. b \in Id /\ \A j \in closing : b.dead => j.dead
  BY <1>1, BetweenScans
<1>4. closing # {}
  BY <1>1, ScansAlike, ZenonT(30)
<1>5. /\ a # None /\ same(b, a)
      /\ \/ m.status = "LIVE" /\ m.rss /\ ~b.dead /\ ~a.dead
         \/ m.status = "ZOMBIE" /\ ~m.rss /\ b.dead /\ a.dead
  BY <1>1 DEF MeasuredInv
<1>6. a \in Id
  BY <1>1, <1>5 DEF Measurement
<1>7. same(a, b)
  BY <1>3, <1>5, <1>6, SameFields
<1> DEFINE discovered == IF opening # {} THEN opening
                         ELSE {i \in row.scan[2] : i.pid = b.pid}
<1>8. b \in discovered
  BY <1>2
<1> HIDE DEF opening, closing, discovered, a, b
<1>9. /\ b \in discovered
      /\ a # None => same(a, b) /\ (b.dead => a.dead)
      /\ b.dead \/ (a # None /\ a.dead) => \A i \in closing : i.dead
      /\ \/ m.status = "LIVE" /\ m.rss /\ a # None /\ ~b.dead /\ ~a.dead /\ closing # {}
         \/ m.status = "ZOMBIE" /\ ~m.rss /\ a # None /\ b.dead /\ a.dead
         \/ m.status \in {"MISSING", "UNREADABLE", "VANISHED"}
  BY <1>3, <1>4, <1>5, <1>7, <1>8, ZenonT(30)
<1> QED BY <1>9, Zenon DEF AuditMember, opening, closing, discovered, a, b

\* The shape the auditor asks for, and what it calls partial.
AuditShaped(r) ==
    /\ \A n \in {1, 2} : r.anchor[n] # None => same(r.anchor[n], Owner)
    /\ \A n \in {1, 2} : /\ Cardinality(r.scan[n]) <= MaxMembers
                         /\ \A i \in r.scan[n] : i.sid = Leader
    /\ Cardinality(r.members) <= MaxMembers
    /\ \A m \in r.members : AuditMember(r, m)
    /\ \A m, n \in r.members : m.before.pid = n.before.pid => m = n
    /\ {m.before.pid : m \in r.members} = {i.pid : i \in r.scan[1]} \cup {i.pid : i \in r.scan[2]}

AuditPartial(r) ==
    \/ \E m \in r.members : m.status \in {"MISSING", "UNREADABLE", "VANISHED"}
    \/ r.scanErrors \/ r.samplingErrors # {}
    \/ Ids(r.scan[1]) # Ids(r.scan[2])
    \/ r.members # {} /\ \E n \in {1, 2} : r.anchor[n] = None
    \/ \E n \in {1, 2} : r.anchor[n] # None /\ Leader \notin {i.pid : i \in r.scan[n]}

AuditDerived(r) ==
    CASE AuditPartial(r) -> "PARTIAL"
      [] ~AuditPartial(r) /\ r.members = {} -> "NO_LIVE_MEMBERS"
      [] OTHER -> IF \E m \in r.members : m.status = "LIVE" THEN "COMPLETE" ELSE "ZOMBIE_ONLY"

LEMMA AuditRowIs ==
    \A r, st : AuditRow(r, st) = IF AuditShaped(r) /\ AuditDerived(r) = st
                               THEN AuditDerived(r) ELSE "rejected"
  BY Zenon DEF AuditRow, AuditShaped, AuditDerived, AuditPartial

LEMMA RowShaped ==
    ASSUME IInv, Eligible
    PROVE  AuditShaped(row)
<1>1. \A n \in {1, 2} : row.anchor[n] # None => same(row.anchor[n], Owner)
  BY UsableRow, Zenon DEF Invalid
<1>2. \A m \in row.members : m.before.sid = Leader /\ m.before \in row.scan[1]
  BY UsableRow, Zenon DEF Invalid
<1>3. \A i \in row.scan[1] : i.sid = Leader
  BY <1>2, MembersOfScan
<1>4. \A j \in row.scan[2] : j.sid = Leader
  <2> TAKE j \in row.scan[2]
  <2>1. PICK i \in row.scan[1] : same(i, j)
    BY ScansAlike
  <2>2. i \in Id /\ j \in Id
    BY UsableRow DEF RowType
  <2> QED BY <1>3, <2>1, <2>2, SameFields
<1>5. \A n \in {1, 2} : Cardinality(row.scan[n]) <= MaxMembers
  BY DEF IInv, ScansInv, ScanInv
<1>6. Cardinality(row.members) <= MaxMembers
  <2> DEFINE f == [m \in row.members |-> m.before]
  <2>1. f \in [row.members -> row.scan[1]]
    BY <1>2
  <2>2. \A m, n \in row.members : f[m] = f[n] => m = n
    BY MembersOfScan
  <2>3. f \in Injection(row.members, row.scan[1])
    BY <2>1, <2>2, ZenonT(30) DEF Injection, IsInjective
  <2> HIDE DEF f
  <2>4. /\ IsFiniteSet(row.members) /\ Cardinality(row.members) <= Cardinality(row.scan[1])
        /\ IsFiniteSet(row.scan[1]) /\ Cardinality(row.scan[1]) <= MaxMembers
    BY <2>3, FS_Injection DEF IInv, ScansInv, ScanInv
  <2>5. Cardinality(row.members) \in Nat /\ Cardinality(row.scan[1]) \in Nat /\ MaxMembers \in Nat
    BY <2>4, FS_CardinalityType, SampleAssumption
  <2> QED BY <2>4, <2>5
<1>7. {m.before.pid : m \in row.members} = {i.pid : i \in row.scan[1]} \cup {i.pid : i \in row.scan[2]}
  <2>1. \A j \in row.scan[2] : \E i \in row.scan[1] : i.pid = j.pid
    <3> TAKE j \in row.scan[2]
    <3>1. PICK i \in row.scan[1] : same(i, j)
      BY ScansAlike
    <3>2. i \in Id /\ j \in Id
      BY UsableRow DEF RowType
    <3> QED BY <3>1, <3>2, SameFields
  <2>2. \A i \in row.scan[1] : \E m \in row.members : m.before.pid = i.pid
    BY MembersOfScan
  <2> QED BY <1>2, <2>1, <2>2
<1> QED
  BY <1>1, <1>3, <1>4, <1>5, <1>6, <1>7, MemberAudited, MembersOfScan, ZenonT(30) DEF AuditShaped

LEMMA RowDerived ==
    ASSUME IInv, Eligible
    PROVE  AuditDerived(row) = SampleStatus(row)
<1>1. ~Invalid(row) /\ ~Partial(row) /\ row.samplingErrors = {} /\ ~row.scanErrors
      /\ Ids(row.scan[1]) = Ids(row.scan[2])
      /\ \A m \in row.members : m.status \in {"LIVE", "ZOMBIE"}
  BY UsableRow
<1>2. ~AnchorOutside(row)
  BY <1>1, Zenon DEF Partial
<1>3. ASSUME NEW n \in {1, 2}, row.anchor[n] # None
      PROVE  Leader \in {i.pid : i \in row.scan[n]}
  <2>1. PICK i \in row.scan[n] : same(row.anchor[n], i)
    BY <1>2, <1>3, Zenon DEF AnchorOutside
  <2>2. i \in Id /\ row.anchor[n] \in Id /\ row.anchor[n].pid = Leader
    BY <1>3, UsableRow DEF RowType, IInv, ScansInv
  <2> QED BY <2>1, <2>2, SameFields
<1>4. ~AuditPartial(row)
  BY <1>1, <1>2, <1>3, ZenonT(30) DEF AuditPartial, AnchorOutside
<1>5. ~(row.members = {} /\ row.anchor # <<None, None>>)
  BY <1>1 DEF Eligible, SampleStatus
<1>6. CASE row.members = {}
  BY <1>1, <1>4, <1>5, <1>6 DEF AuditDerived, SampleStatus
<1>7. CASE row.members # {}
  <2>1. (\A m \in row.members : m.status = "ZOMBIE") <=> ~ \E m \in row.members : m.status = "LIVE"
    BY <1>1
  <2>2. AuditDerived(row) = IF \E m \in row.members : m.status = "LIVE"
                            THEN "COMPLETE" ELSE "ZOMBIE_ONLY"
    BY <1>4, <1>7 DEF AuditDerived
  <2>3. SampleStatus(row) = IF \A m \in row.members : m.status = "ZOMBIE"
                            THEN "ZOMBIE_ONLY" ELSE "COMPLETE"
    BY <1>1, <1>7 DEF SampleStatus
  <2> QED BY <2>1, <2>2, <2>3
<1> QED BY <1>6, <1>7

LEMMA AuditedRow == IInv => AuditorAgrees
<1> SUFFICES ASSUME IInv PROVE AuditorAgrees
  OBVIOUS
<1>1. Eligible => AuditRow(row, SampleStatus(row)) = SampleStatus(row)
  BY RowShaped, RowDerived, AuditRowIs, Zenon
<1>2. AuditDerived(row) # "INVALID"
  BY DEF AuditDerived
<1>3. AuditRow(row, "INVALID") = "rejected"
  BY <1>2, AuditRowIs, Zenon
<1> QED BY <1>1, <1>3 DEF AuditorAgrees

(***************************************************************************)
(* The theorems.                                                           *)
(***************************************************************************)
\* observe(): what a usable row lists was in the group from the end of the
\* opening scan to the start of the closing one, and it leaves out nobody who
\* was in the group at the end of both, however the kernel's process table
\* changes between the reads.
THEOREM UsableRowsAreBracketed == Spec => []MembershipBracketed
  BY Invariance, BracketedRow, PTL

\* observe(): the RSS a usable row sums is that of exactly the processes that
\* ran when its opening scan ended: no zombie, no other process under a PID.
THEOREM UsableRowsSumTheLive == Spec => []LiveWasLive
  BY Invariance, LiveRow, PTL

\* group_audit.sample accepts, with observe()'s status, every row that observe()
\* calls usable, and rejects every row that it calls INVALID.
THEOREM AuditorAgreesOnRows == Spec => []AuditorAgrees
  BY Invariance, AuditedRow, PTL
===========================================================================
