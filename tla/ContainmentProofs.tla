------------------------- MODULE ContainmentProofs -------------------------
(***************************************************************************)
(* For any set of processes, any number of forks and failures: a record of  *)
(* no residual children is true, a child is given its grace, and exit       *)
(* status 0 of the Guardian and of the Collector means what it says.  The   *)
(* argument is that adoption keeps the processes below a forest, so that    *)
(* whoever has no child has no descendant.                                  *)
(***************************************************************************)
EXTENDS Containment, TLAPS

Codes == {"none", "zero", "nonzero", "signal"}

Reasons == {"none", "guardian_error", "interrupt_or_outer_timeout", "process_count_or_headroom_stop",
            "unexpected_surviving_child", "collector_exception", "outer_timeout", "collector_interrupted",
            "outer_resource_stop", "unexpected_descendants"}

Records == [phase : Phases, stage : {"TERM", "KILL"}, graceOver : BOOLEAN, stop : Reasons, signals : BOOLEAN,
            code : Codes, inTime : BOOLEAN, normal : BOOLEAN, residual : {"unknown", "none", "some"},
            errors : BOOLEAN]

Types ==
    /\ rec \in Records /\ ended \in [Phases -> Codes]
    /\ window \in BOOLEAN /\ outer \in BOOLEAN /\ pending \in BOOLEAN
    /\ st \in [Pids -> {"free", "live", "zombie"}] /\ par \in [Pids -> Pids \cup {0}]

NonFree == {p \in Pids : st[p] # "free"}

\* Parents are alive, and among any processes there is one whose parent is not.
Forest ==
    /\ par[Leader] = 0 /\ \A p \in Pids : par[p] # 0 => st[par[p]] = "live"
    /\ \A S \in SUBSET NonFree : S # {} => \E p \in S : par[p] \notin S

\* The steps that follow the last listing.
Final == {"publish", "row", "audit", "judge", "commit", "exit", "done"}

Honest == rec.residual = "none" => pc \in Final /\ NonFree = {}

Inv == Types /\ Forest /\ Honest

(***************************************************************************)
(* What happens to the forest.                                             *)
(***************************************************************************)
\* A process that ends hands its children to a live subreaper, or to us.
LEMMA EndsKeepsForest ==
    ASSUME Types, Forest, NEW p \in Pids, NEW how \in Codes, Ends(p, how)
    PROVE  Forest' /\ NonFree' = NonFree /\ NonFree # {}
<1>1. Adopter(p) \in {0, Leader} /\ (Adopter(p) = Leader => p # Leader /\ st[Leader] = "live")
    BY ContainmentAssumption DEF Adopter
<1>2. \A q \in Pids : par'[q] = IF par[q] = p THEN Adopter(p) ELSE par[q]
    BY DEF Ends
<1>3. \A q \in Pids : st'[q] = IF q = p THEN "zombie" ELSE st[q]
    BY DEF Ends, Types
<1>4. NonFree' = NonFree /\ p \in NonFree
    BY <1>3 DEF NonFree, Ends
<1>5. 0 \notin Pids /\ Leader \in Pids
    BY ContainmentAssumption
<1>6. par'[Leader] = 0
    BY <1>2, <1>5 DEF Forest
<1>7. \A q \in Pids : par'[q] # 0 => st'[par'[q]] = "live"
    <2> SUFFICES ASSUME NEW q \in Pids, par'[q] # 0 PROVE st'[par'[q]] = "live"
        OBVIOUS
    <2>1. CASE par[q] = p
        BY <1>1, <1>2, <1>3, <1>5, <2>1
    <2>2. CASE par[q] # p
        BY <1>2, <1>3, <2>2 DEF Forest, Types
    <2> QED
        BY <2>1, <2>2
<1>8. ASSUME NEW S \in SUBSET NonFree, S # {} PROVE \E q \in S : par'[q] \notin S
    <2>0. 0 \notin S /\ S \subseteq Pids
        BY <1>5, <1>8 DEF NonFree
    <2>1. CASE Leader \in S
        BY <1>6, <2>0, <2>1
    <2>2. CASE Leader \notin S
        <3>1. PICK q \in S : par[q] \notin S
            BY <1>8 DEF Forest
        <3> QED
            BY <1>1, <1>2, <2>0, <2>2, <3>1
    <2> QED
        BY <2>1, <2>2
<1> QED
    BY <1>4, <1>6, <1>7, <1>8 DEF Forest

\* A process that forks is alive, and its child has no child.
LEMMA ForkKeepsForest ==
    ASSUME Types, Forest, NEW p \in Pids, Fork(p)
    PROVE  Forest' /\ NonFree # {}
<1> DEFINE c == CHOOSE q \in Unused : TRUE
<1>1. c \in Unused
    BY DEF Fork
<1>2. c \in Pids /\ c # Leader /\ st[c] = "free" /\ p # c
    BY <1>1 DEF Unused, Fork
<1> HIDE DEF c
<1>3. \A q \in Pids : st'[q] = (IF q = c THEN "live" ELSE st[q]) /\ par'[q] = (IF q = c THEN p ELSE par[q])
    BY DEF Fork, Types, c
<1>4. 0 \notin Pids /\ Leader \in Pids /\ \A q \in Pids : par[q] # c
    BY <1>2, ContainmentAssumption DEF Forest
<1>5. NonFree' = NonFree \cup {c} /\ NonFree # {}
    BY <1>2, <1>3 DEF NonFree, Fork
<1>6. par'[Leader] = 0 /\ \A q \in Pids : par'[q] # 0 => st'[par'[q]] = "live"
    BY <1>2, <1>3, <1>4 DEF Forest, Fork, Types
<1>7. ASSUME NEW S \in SUBSET NonFree', S # {} PROVE \E q \in S : par'[q] \notin S
    <2>0. S \subseteq Pids /\ S \ {c} \in SUBSET NonFree
        BY <1>5, <1>7 DEF NonFree
    <2>1. CASE S = {c}
        BY <1>2, <1>3, <2>1
    <2>2. CASE S # {c}
        <3>1. PICK q \in S \ {c} : par[q] \notin S \ {c}
            BY <1>7, <2>0, <2>2, ZenonT(30) DEF Forest
        <3> QED
            BY <1>3, <1>4, <2>0, <3>1
    <2> QED
        BY <2>1, <2>2
<1> QED
    BY <1>5, <1>6, <1>7 DEF Forest

\* Only zombies are reaped, and they have no children.
LEMMA FreedKeepsForest ==
    ASSUME Types, Forest, NEW ps \in SUBSET Pids, \A p \in ps : st[p] = "zombie", Freed(ps)
    PROVE  Forest' /\ NonFree' \subseteq NonFree
<1>1. \A q \in Pids : /\ st'[q] = IF q \in ps THEN "free" ELSE st[q]
                      /\ par'[q] = IF q \in ps THEN 0 ELSE par[q]
    BY DEF Freed
<1>2. NonFree' = NonFree \ ps
    BY <1>1 DEF NonFree
<1>3. par'[Leader] = 0 /\ \A q \in Pids : par'[q] # 0 => st'[par'[q]] = "live"
    <2>1. par'[Leader] = 0
        BY <1>1, ContainmentAssumption DEF Forest
    <2>2. ASSUME NEW q \in Pids, par'[q] # 0 PROVE st'[par'[q]] = "live"
        <3>1. par'[q] = par[q] /\ par[q] \in Pids /\ st[par[q]] = "live"
            BY <1>1, <2>2 DEF Forest, Types
        <3> QED
            BY <1>1, <3>1
    <2> QED
        BY <2>1, <2>2
<1>4. ASSUME NEW S \in SUBSET NonFree', S # {} PROVE \E q \in S : par'[q] \notin S
    <2>1. PICK q \in S : par[q] \notin S
        BY <1>2, <1>4 DEF Forest
    <2> QED
        BY <1>1, <1>2, <1>4, <2>1 DEF NonFree
<1> QED
    BY <1>2, <1>3, <1>4 DEF Forest

(***************************************************************************)
(* What happens to the record.                                             *)
(***************************************************************************)
\* The record keeps its type, and what it says of residual children.
Recorded == rec' \in Records /\ rec'.residual = rec.residual /\ window' \in BOOLEAN

\* cleanup() is entered with the record at hand.
LEMMA ToCleanupRecords ==
    ASSUME NEW r \in Records, r.residual = rec.residual, ToCleanup(r)
    PROVE  Recorded
BY ZenonT(30) DEF ToCleanup, Records, Recorded

\* A new reason leaves the rest.
LEMMA StopRecords ==
    ASSUME NEW r \in Records, NEW why \in Reasons
    PROVE  /\ [r EXCEPT !.stop = why] \in Records /\ [r EXCEPT !.stop = why].residual = r.residual
           /\ [r EXCEPT !.errors = TRUE] \in Records /\ [r EXCEPT !.errors = TRUE].residual = r.residual
BY ZenonT(30) DEF Records

\* An exception changes the reason and the errors only.
LEMMA RaiseRecords ==
    ASSUME Types, NEW r \in Records, r.residual = rec.residual, Raise(r)
    PROVE  Recorded
<1>0. /\ [r EXCEPT !.stop = "guardian_error"] \in Records
      /\ [r EXCEPT !.stop = "guardian_error"].residual = r.residual
      /\ [r EXCEPT !.errors = TRUE] \in Records /\ [r EXCEPT !.errors = TRUE].residual = r.residual
    BY StopRecords, ZenonT(30) DEF Reasons
<1>1. CASE role = "collector"
    BY <1>0, <1>1, ZenonT(30) DEF Raise, Goto, Types, Recorded
<1>2. CASE role # "collector" /\ r.stop = "guardian_error"
    BY <1>0, <1>2, ZenonT(30) DEF Raise, Goto, Types, Recorded
<1>3. CASE role # "collector" /\ r.stop # "guardian_error" /\ r.code = "none"
    BY <1>0, <1>3, ToCleanupRecords, ZenonT(30) DEF Raise
<1>4. CASE role # "collector" /\ r.stop # "guardian_error" /\ r.code # "none"
    BY <1>0, <1>4, ZenonT(30) DEF Raise, Goto, Types, Recorded
<1> QED
    BY <1>1, <1>2, <1>3, <1>4

\* The next signal starts with the same record.
LEMMA NextStageRecords ==
    ASSUME Types, NextStage
    PROVE  Recorded
BY ZenonT(30) DEF NextStage, Types, Records, Recorded

\* So does a stop of the attempt.
LEMMA StoppedRecords ==
    ASSUME Types, NEW why \in Reasons, Stopped(why)
    PROVE  Recorded
<1>1. /\ [rec EXCEPT !.stop = why] \in Records
      /\ [rec EXCEPT !.stop = why].residual = rec.residual
    BY StopRecords, ZenonT(30) DEF Types
<1> QED
    BY <1>1, ToCleanupRecords, ZenonT(30) DEF Stopped

(***************************************************************************)
(* The steps of cleanup().                                                 *)
(***************************************************************************)
\* The tree stays as it is, or zombies among its processes are reaped.
Reaps == \/ UNCHANGED <<st, par, ended>>
         \/ \E ps \in SUBSET Pids : (\A p \in ps : st[p] = "zombie") /\ Freed(ps)

\* A step of ours that keeps the record and at most reaps keeps the invariant.
LEMMA ReapingKeepsInv ==
    ASSUME Inv, Recorded, Reaps, pc \notin Final \/ pc' \in Final, outer' \in BOOLEAN, pending' \in BOOLEAN
    PROVE  Inv'
<1>1. Forest' /\ NonFree' \subseteq NonFree
    <2>1. CASE UNCHANGED <<st, par, ended>>
        BY <2>1 DEF Inv, Forest, NonFree
    <2>2. CASE \E ps \in SUBSET Pids : (\A p \in ps : st[p] = "zombie") /\ Freed(ps)
        BY <2>2, FreedKeepsForest DEF Inv
    <2> QED
        BY <2>1, <2>2 DEF Reaps
<1>2. Types'
    <2>1. CASE UNCHANGED <<st, par, ended>>
        BY <2>1 DEF Inv, Types, Recorded
    <2>2. CASE \E ps \in SUBSET Pids : (\A p \in ps : st[p] = "zombie") /\ Freed(ps)
        BY <2>2 DEF Inv, Types, Recorded, Freed
    <2> QED
        BY <2>1, <2>2 DEF Reaps
<1>3. Honest'
    BY <1>1 DEF Inv, Honest, Recorded
<1> QED
    BY <1>1, <1>2, <1>3 DEF Inv

\* Reaping is of zombies.
LEMMA ReapReaps ==
    ASSUME NEW ps, Reap(ps)
    PROVE  Reaps
<1> DEFINE zs == {p \in ps \cap Children : st[p] = "zombie"}
<1>1. zs \in SUBSET Pids /\ (\A p \in zs : st[p] = "zombie") /\ Freed(zs)
    BY DEF Reap, Released, Children
<1> QED
    BY <1>1 DEF Reaps

\* Every step of cleanup() keeps the invariant; the listing is where it matters.
LEMMA HarnessKeepsInv ==
    ASSUME Inv, Harness PROVE Inv'
<1>0. Types /\ outer' \in BOOLEAN /\ pending' \in BOOLEAN /\ rec \in Records /\ ended \in [Phases -> Codes]
    BY DEF Inv, Types, Harness, Quiet
<1>1. CASE Test
    <2>1. Recorded
        BY <1>0, <1>1, NextStageRecords DEF Test, Goto, Recorded, Types
    <2> QED
        BY <1>0, <1>1, <2>1, ReapingKeepsInv DEF Test, Reaps, tree, Final
<1>2. CASE Signal
    <2>1. CASE Fails /\ UNCHANGED tree /\ Raise(rec)
        <3>1. Recorded
            BY <1>0, <2>1, RaiseRecords
        <3> QED
            BY <1>0, <1>2, <2>1, <3>1, ReapingKeepsInv DEF Signal, Reaps, tree, Final
    <2>2. CASE \E hit \in SUBSET Pids : /\ Freed({p \in Adopted : st[p] = "zombie"})
                                         /\ Goto("check", [rec EXCEPT !.signals = @ \/ hit # {}])
        <3>1. Recorded
            BY <1>0, <2>2, ZenonT(30) DEF Goto, Recorded, Records, Types
        <3>2. Reaps
            BY <2>2 DEF Reaps, Adopted, Children
        <3> QED
            BY <1>0, <1>2, <3>1, <3>2, ReapingKeepsInv DEF Signal, Final
    <2> QED
        BY <1>2, <2>1, <2>2, ZenonT(30) DEF Signal, Live, Children
<1>3. CASE Check
    <2>1. Recorded
        BY <1>0, <1>3, NextStageRecords DEF Check, Goto, Recorded, Types
    <2> QED
        BY <1>0, <1>3, <2>1, ReapingKeepsInv DEF Check, Reaps, tree, Final
<1>4. CASE Wait
    <2>1. CASE Reap({Leader}) /\ Goto("last", [rec EXCEPT !.code = ended[rec.phase]])
        <3>1. ended[rec.phase] \in Codes
            BY <1>0 DEF Records
        <3>2. Recorded
            BY <1>0, <2>1, <3>1 DEF Goto, Recorded, Records, Types
        <3> QED
            BY <1>0, <1>4, <2>1, <3>2, ReapReaps, ReapingKeepsInv DEF Wait, Final
    <2>2. CASE Raise(rec) /\ UNCHANGED tree
        <3>1. Recorded
            BY <1>0, <2>2, RaiseRecords
        <3> QED
            BY <1>0, <1>4, <2>2, <3>1, ReapingKeepsInv DEF Wait, Reaps, tree, Final
    <2> QED
        BY <1>4, <2>1, <2>2 DEF Wait
<1>5. CASE LastReap
    <2>1. CASE Reap(Pids) /\ Goto("list", rec)
        <3>1. Recorded
            BY <1>0, <2>1 DEF Goto, Recorded, Types
        <3> QED
            BY <1>0, <1>5, <2>1, <3>1, ReapReaps, ReapingKeepsInv DEF LastReap, Final
    <2>2. CASE Raise(rec) /\ UNCHANGED tree
        <3>1. Recorded
            BY <1>0, <2>2, RaiseRecords
        <3> QED
            BY <1>0, <1>5, <2>2, <3>1, ReapingKeepsInv DEF LastReap, Reaps, tree, Final
    <2> QED
        BY <1>5, <2>1, <2>2 DEF LastReap
<1>6. CASE List
    <2>1. Children = {} => NonFree = {}
        <3>1. SUFFICES ASSUME Children = {}, NonFree # {} PROVE FALSE
            OBVIOUS
        <3>2. PICK p \in NonFree : par[p] \notin NonFree
            BY <3>1 DEF Inv, Forest
        <3>3. par[p] # 0
            BY <3>1 DEF Children, NonFree
        <3> QED
            BY <3>2, <3>3 DEF Inv, Types, Forest, NonFree
    <2>2. /\ pc' \in {"publish", "row"} /\ UNCHANGED <<st, par, ended, window>> /\ rec' \in Records
          /\ rec'.residual = "none" => Children = {}
        BY <1>0, <1>6 DEF List, Goto, Listed, Records, tree
    <2>3. NonFree' = NonFree
        BY <2>2 DEF NonFree
    <2>4. Honest'
        BY <2>1, <2>2, <2>3 DEF Honest, Final
    <2> QED
        BY <1>0, <2>2, <2>3, <2>4 DEF Inv, Types, Forest
<1> QED
    BY <1>1, <1>2, <1>3, <1>4, <1>5, <1>6 DEF Harness

(***************************************************************************)
(* The other steps.                                                        *)
(***************************************************************************)
\* The processes below: there is none left when the record says so.
LEMMA BelowKeepsInv ==
    ASSUME Inv, Below PROVE Inv'
<1>0. Types /\ Forest /\ UNCHANGED <<pc, rec, window, outer, pending>>
    BY DEF Inv, Below, own
<1>1. PICK p \in Pids : Ends(p, "zero") \/ Ends(p, "nonzero") \/ Die(p) \/ ReapedBelow(p) \/ Fork(p)
    BY DEF Below
<1>2. ASSUME NEW how \in Codes, Ends(p, how) PROVE Inv'
    <2>1. Forest' /\ NonFree' = NonFree /\ NonFree # {}
        BY <1>0, <1>2, EndsKeepsForest
    <2>2. ended' \in [Phases -> Codes] /\ st' \in [Pids -> {"free", "live", "zombie"}]
        BY <1>0, <1>2, ZenonT(30) DEF Ends, Types
    <2>3. par' \in [Pids -> Pids \cup {0}]
        BY <1>0, <1>2, ContainmentAssumption DEF Ends, Types, Adopter
    <2> QED
        BY <1>0, <2>1, <2>2, <2>3 DEF Inv, Types, Honest
<1>3. CASE ReapedBelow(p)
    <2>1. Reaps
        BY <1>3 DEF ReapedBelow, Released, Reaps
    <2> QED
        BY <1>0, <2>1, ReapingKeepsInv DEF Recorded, Types
<1>4. CASE Fork(p)
    <2>1. Forest' /\ NonFree # {}
        BY <1>0, <1>4, ForkKeepsForest
    <2>2. ended' = ended /\ st' \in [Pids -> {"free", "live", "zombie"}] /\ par' \in [Pids -> Pids \cup {0}]
        BY <1>0, <1>4, ZenonT(30) DEF Fork, Types
    <2> QED
        BY <1>0, <2>1, <2>2 DEF Inv, Types, Honest
<1> QED
    BY <1>1, <1>2, <1>3, <1>4 DEF Die, Codes

\* Starting: the direct child is ours.
LEMMA StartKeepsInv ==
    ASSUME Inv, Reserve \/ Spawn PROVE Inv'
<1>0. Types /\ outer' \in BOOLEAN /\ pending' \in BOOLEAN /\ rec \in Records
    BY DEF Inv, Types, Reserve, Spawn
<1>1. CASE Reserve
    <2>1. Recorded
        BY <1>0, <1>1 DEF Reserve, Goto, Refused, Recorded, Types
    <2> QED
        BY <1>0, <1>1, <2>1, ReapingKeepsInv DEF Reserve, Reaps, tree, Final
<1>2. CASE Spawn
    <2>1. Recorded
        <3>1. CASE rec' = rec /\ window' = window
            BY <1>0, <3>1 DEF Recorded, Types
        <3>2. CASE Goto("publish", [rec EXCEPT !.stop = "guardian_error"])
            BY <1>0, <3>2, StopRecords, ZenonT(30) DEF Goto, Recorded, Types, Reasons
        <3>3. CASE Goto("row", [rec EXCEPT !.stop = "collector_exception", !.errors = TRUE])
            BY <1>0, <3>3, ZenonT(30) DEF Goto, Recorded, Types, Records, Reasons
        <3> QED
            BY <1>2, <3>1, <3>2, <3>3 DEF Spawn, Goto
    <2>2. rec'.residual # "none"
        BY <1>2, <2>1 DEF Recorded, Spawn, Inv, Honest, Final
    <2>3. CASE st' = [st EXCEPT ![Leader] = "live"]
        <3>1. par' = par /\ ended' = ended
            BY <1>2 DEF Spawn
        <3>2. Leader \in Pids /\ 0 \notin Pids
            BY ContainmentAssumption
        <3>3. NonFree' = NonFree \cup {Leader}
            BY <1>0, <2>3, <3>2 DEF NonFree, Types
        <3>4. ASSUME NEW S \in SUBSET NonFree', S # {} PROVE \E q \in S : par'[q] \notin S
            <4>0. 0 \notin S
                BY <3>2, <3>4 DEF NonFree
            <4>1. CASE Leader \in S
                BY <3>1, <4>0, <4>1 DEF Inv, Forest
            <4>2. CASE Leader \notin S
                BY <3>1, <3>3, <3>4, <4>2 DEF Inv, Forest
            <4> QED
                BY <4>1, <4>2
        <3>5. \A p \in Pids : par'[p] # 0 => st'[par'[p]] = "live"
            BY <1>0, <2>3, <3>1, <3>2 DEF Inv, Forest, Types
        <3>6. Forest'
            BY <3>1, <3>4, <3>5 DEF Inv, Forest
        <3>7. Types'
            BY <1>0, <2>1, <2>3, <3>1, ZenonT(30) DEF Types, Recorded
        <3> QED
            BY <2>2, <3>6, <3>7 DEF Inv, Honest
    <2>4. CASE UNCHANGED <<st, deaf>>
        BY <1>0, <1>2, <2>1, <2>4, ReapingKeepsInv DEF Spawn, Reaps, Final
    <2> QED
        BY <1>2, <2>3, <2>4 DEF Spawn
<1> QED
    BY <1>1, <1>2

\* The steps of the Guardian.
LEMMA GuardianKeepsInv ==
    ASSUME Inv, GWatch \/ GOver \/ GPublish PROVE Inv'
<1>0. Types /\ outer' \in BOOLEAN /\ pending' \in BOOLEAN /\ rec \in Records /\ ended \in [Phases -> Codes]
    BY DEF Inv, Types, GWatch, GOver, GPublish, Quiet
<1>1. CASE GWatch
    <2>1. Recorded
        <3>1. CASE rec' = rec /\ window' = window
            BY <1>0, <3>1 DEF Recorded, Types
        <3>2. CASE Raise(rec)
            BY <1>0, <3>2, RaiseRecords
        <3>3. CASE \E why \in Reasons : Stopped(why)
            BY <1>0, <3>3, StoppedRecords
        <3> QED
            BY <1>1, <3>1, <3>2, <3>3 DEF GWatch, Goto, Reasons
    <2>2. Reaps
        BY <1>1, ReapReaps DEF GWatch, Reaps, tree
    <2> QED
        BY <1>0, <1>1, <2>1, <2>2, ReapingKeepsInv DEF GWatch, Final
<1>2. CASE GOver
    <2>1. Recorded
        <3>1. CASE Stopped("unexpected_surviving_child")
            BY <1>0, <3>1, StoppedRecords DEF Reasons
        <3>2. CASE Goto("last", [rec EXCEPT !.code = ended.guardian, !.normal = TRUE])
            <4>1. ended["guardian"] \in Codes
                BY <1>0 DEF Phases
            <4> QED
                BY <1>0, <3>2, <4>1, ZenonT(30) DEF Goto, Recorded, Types, Records
        <3> QED
            BY <1>2, <3>1, <3>2 DEF GOver
    <2>2. Reaps
        BY <1>2, ReapReaps DEF GOver
    <2> QED
        BY <1>0, <1>2, <2>1, <2>2, ReapingKeepsInv DEF GOver, Final
<1>3. CASE GPublish
    BY <1>0, <1>3, ReapingKeepsInv DEF GPublish, Reaps, tree, Recorded, Types, Final
<1> QED
    BY <1>1, <1>2, <1>3

\* The steps of the Collector; the record of the next child says nothing yet.
LEMMA CollectorKeepsInv ==
    ASSUME Inv, CPhase \/ CWatch \/ CExited \/ CRow \/ CAudit \/ CJudge \/ CCommit \/ CPublish \/ CExit
    PROVE  Inv'
<1>0. Types /\ outer' \in BOOLEAN /\ pending' \in BOOLEAN /\ rec \in Records /\ window \in BOOLEAN
    BY ZenonT(30) DEF Inv, Types, CPhase, CWatch, CExited, CRow, CAudit, CJudge, CCommit, CPublish, CExit, Quiet
<1>1. CASE CPhase
    <2>1. UNCHANGED <<rec, window>>
        BY <1>1 DEF CPhase, Goto
    <2> QED
        BY <1>0, <1>1, <2>1, ReapingKeepsInv DEF CPhase, Reaps, tree, Recorded, Final
<1>2. CASE CWatch
    <2>1. Recorded
        <3>1. CASE rec' = rec /\ window' = window
            BY <1>0, <3>1 DEF Recorded
        <3>2. CASE \E why \in Reasons : Stopped(why)
            BY <1>0, <3>2, StoppedRecords
        <3>3. CASE ToCleanup([rec EXCEPT !.stop = "collector_exception", !.errors = TRUE])
            <4>1. /\ [rec EXCEPT !.stop = "collector_exception", !.errors = TRUE] \in Records
                  /\ [rec EXCEPT !.stop = "collector_exception", !.errors = TRUE].residual = rec.residual
                BY <1>0, ZenonT(30) DEF Records, Reasons
            <4> QED
                BY <3>3, <4>1, ToCleanupRecords, ZenonT(30)
        <3> QED
            BY <1>2, <3>1, <3>2, <3>3 DEF CWatch, Goto, Reasons
    <2>2. Reaps
        BY <1>2, ReapReaps DEF CWatch, Reaps, tree
    <2> QED
        BY <1>0, <1>2, <2>1, <2>2, ReapingKeepsInv DEF CWatch, Final
<1>3. CASE CExited
    <2>1. PICK why \in Reasons : ToCleanup([rec EXCEPT !.inTime = ~outer, !.stop = why])
        BY <1>3, ZenonT(30) DEF CExited, Reasons
    <2>2. /\ [rec EXCEPT !.inTime = ~outer, !.stop = why] \in Records
          /\ [rec EXCEPT !.inTime = ~outer, !.stop = why].residual = rec.residual
        BY <1>0, ZenonT(30) DEF Records
    <2>3. Recorded
        BY <2>1, <2>2, ToCleanupRecords, ZenonT(30)
    <2> QED
        BY <1>0, <1>3, <2>3, ReapingKeepsInv DEF CExited, Reaps, tree, Final
<1>4. CASE CRow
    <2>1. CASE pc' = "audit" /\ rec' = rec
        BY <1>0, <1>4, <2>1, ReapingKeepsInv DEF CRow, Reaps, Recorded, Final
    <2>2. CASE rec' = NewRecord("verification")
        <3>1. rec' \in Records /\ rec'.residual = "unknown"
            BY <2>2 DEF NewRecord, Records, Phases, Codes, Reasons
        <3>2. UNCHANGED <<st, par, ended, window>>
            BY <1>4 DEF CRow
        <3>3. Types'
            BY <1>0, <3>1, <3>2 DEF Types
        <3>4. Forest'
            BY <3>2 DEF Inv, Forest, NonFree
        <3> QED
            BY <3>1, <3>3, <3>4 DEF Inv, Honest
    <2> QED
        BY <1>4, <2>1, <2>2 DEF CRow
<1>5. CASE CAudit \/ CJudge \/ CCommit \/ CPublish \/ CExit
    <2>1. pc' \in Final /\ UNCHANGED <<tree, rec, window>>
        BY <1>5, ZenonT(30) DEF CAudit, CJudge, CCommit, CPublish, CExit, Final
    <2> QED
        BY <1>0, <2>1, ReapingKeepsInv, ZenonT(30) DEF Reaps, tree, Recorded
<1> QED
    BY <1>1, <1>2, <1>3, <1>4, <1>5

\* Time, signals and modified sources.
LEMMA WorldKeepsInv ==
    ASSUME Inv, Tick \/ Deadline \/ Interrupt \/ Modify PROVE Inv'
<1>1. Recorded /\ outer' \in BOOLEAN /\ pending' \in BOOLEAN /\ UNCHANGED tree
    BY ZenonT(30) DEF Inv, Types, Recorded, Tick, Deadline, Interrupt, Modify, own
<1>2. pc' = pc \/ pc' \in Final
    BY DEF Tick, Deadline, Interrupt, Modify, own, Final
<1> QED
    BY <1>1, <1>2, ReapingKeepsInv DEF Reaps, tree

\* The invariant holds from the start of the attempt on.
LEMMA Invariance == Spec => []Inv
<1>1. Init => Inv
    <2> SUFFICES ASSUME Init PROVE Inv
        OBVIOUS
    <2>1. rec \in Records /\ rec.residual = "unknown"
        BY DEF Init, NewRecord, Records, Phases, Codes, Reasons
    <2>2. NonFree = {}
        BY DEF Init, NonFree
    <2>3. Types
        BY <2>1, ZenonT(30) DEF Init, Types, Codes
    <2>4. Forest
        BY <2>2, ContainmentAssumption DEF Init, Forest
    <2> QED
        BY <2>1, <2>3, <2>4 DEF Inv, Honest
<1>2. Inv /\ [Next]_vars => Inv'
    <2> SUFFICES ASSUME Inv, [Next]_vars PROVE Inv'
        OBVIOUS
    <2>1. CASE Steps
        BY <2>1, HarnessKeepsInv, StartKeepsInv, GuardianKeepsInv, CollectorKeepsInv DEF Steps
    <2>2. CASE Below
        BY <2>2, BelowKeepsInv
    <2>3. CASE Tick \/ Deadline \/ Interrupt \/ Modify
        BY <2>3, WorldKeepsInv
    <2>4. CASE UNCHANGED vars
        BY <2>4 DEF vars, tree, own, Inv, Types, Forest, Honest, NonFree
    <2> QED
        BY <2>1, <2>2, <2>3, <2>4 DEF Next
<1> QED
    BY <1>1, <1>2, PTL DEF Spec

\* For any processes, forks, orphans and failures: when guardian.json or a row of
\* outer-result.json names no residual children, no process below is left, alive or
\* unreaped (harness.cleanup, g4_launch.launch, d2_collect.child).
THEOREM Contained == Spec => []NothingLeft
<1>1. Inv => NothingLeft
    BY DEF Inv, Types, Honest, NonFree, NothingLeft
<1> QED
    BY <1>1, Invariance, PTL

(***************************************************************************)
(* The grace.                                                              *)
(***************************************************************************)
\* SIGKILL without the whole grace is for nobody: all that ran has ended.
GraceInv == pc \in {"test", "signal", "check"} /\ rec.stage = "KILL" /\ ~rec.graceOver => Live = {}

\* A stage that ends early has nobody left to signal.
LEMMA EarlyEnd ==
    ASSUME Inv, Children = {} \/ StageOver
    PROVE  Live = {}
<1> DEFINE S == NonFree \ {Leader}
<1>1. 0 \notin Pids /\ Leader \in Pids /\ S \in SUBSET NonFree
    BY ContainmentAssumption DEF NonFree
<1>2. st[Leader] # "live"
    BY <1>1 DEF Inv, Forest, Children, StageOver
<1>3. S = {}
    <2>1. SUFFICES ASSUME S # {} PROVE FALSE
        OBVIOUS
    <2>2. PICK p \in S : par[p] \notin S
        BY <1>1, <2>1, ZenonT(30) DEF Inv, Forest
    <2>3. p \in Pids /\ p # Leader /\ st[p] # "free"
        BY <2>2 DEF NonFree
    <2>4. par[p] # 0
        BY <2>3 DEF Children, Adopted, StageOver
    <2>5. par[p] \in Pids /\ st[par[p]] = "live"
        BY <2>3, <2>4 DEF Inv, Types, Forest
    <2> QED
        BY <1>2, <2>2, <2>5 DEF NonFree
<1> QED
    BY <1>2, <1>3 DEF Live, NonFree

\* Reaping brings nobody to life.
LEMMA ReapingLive ==
    ASSUME Reaps
    PROVE  Live' \subseteq Live
<1>1. CASE UNCHANGED <<st, par, ended>>
    BY <1>1 DEF Live
<1>2. CASE \E ps \in SUBSET Pids : (\A p \in ps : st[p] = "zombie") /\ Freed(ps)
    BY <1>2 DEF Live, Freed
<1> QED
    BY <1>1, <1>2 DEF Reaps

\* cleanup() begins with SIGTERM, for whatever reason and wherever it is entered.
LEMMA ToCleanupGrace ==
    ASSUME NEW r \in Records, ToCleanup(r)
    PROVE  GraceInv'
BY ZenonT(30) DEF ToCleanup, Records, GraceInv

\* What ends a stage early, or late, keeps the promise of the grace.
LEMMA NextStageGrace ==
    ASSUME Inv, GraceInv, pc \in {"test", "check"}, NextStage, UNCHANGED tree, ~window => Children = {} \/ StageOver
    PROVE  GraceInv'
<1>1. rec \in Records /\ window \in BOOLEAN /\ Live' = Live
    BY DEF Inv, Types, Live, tree
<1>2. CASE rec.stage = "TERM"
    <2>1. rec'.graceOver = window
        BY <1>1, <1>2, ZenonT(30) DEF NextStage, Records
    <2> QED
        BY <1>1, <2>1, EarlyEnd DEF GraceInv
<1>3. CASE rec.stage # "TERM"
    BY <1>3 DEF NextStage, GraceInv
<1> QED
    BY <1>2, <1>3

\* An exception leads out of the stages, or to a new cleanup.
LEMMA RaiseGrace ==
    ASSUME Inv, Raise(rec)
    PROVE  GraceInv'
<1>1. rec \in Records /\ [rec EXCEPT !.stop = "guardian_error"] \in Records
    BY StopRecords, ZenonT(30) DEF Inv, Types, Reasons
<1>2. CASE ToCleanup([rec EXCEPT !.stop = "guardian_error"])
    BY <1>1, <1>2, ToCleanupGrace
<1>3. CASE pc' \in {"row", "publish"}
    BY <1>3 DEF GraceInv
<1> QED
    BY <1>2, <1>3, ZenonT(30) DEF Raise, Goto

\* Every step keeps it.
LEMMA GraceKept ==
    ASSUME Inv, GraceInv, [Next]_vars
    PROVE  GraceInv'
<1>0. rec \in Records /\ window \in BOOLEAN
    BY DEF Inv, Types
<1>1. CASE Test
    <2>1. CASE Goto("signal", rec)
        BY <1>1, <2>1 DEF Test, Goto, GraceInv, Live, tree
    <2>2. CASE NextStage /\ (window \/ Children = {})
        BY <1>1, <2>2, NextStageGrace DEF Test
    <2> QED
        BY <1>1, <2>1, <2>2 DEF Test
<1>2. CASE Signal
    <2>1. CASE Raise(rec)
        BY <2>1, RaiseGrace
    <2>2. CASE \E hit \in SUBSET Pids : /\ Freed({p \in Adopted : st[p] = "zombie"})
                                         /\ Goto("check", [rec EXCEPT !.signals = @ \/ hit # {}])
        <3>1. Live' \subseteq Live
            BY <2>2, ReapingLive DEF Reaps, Adopted, Children
        <3>2. rec'.stage = rec.stage /\ rec'.graceOver = rec.graceOver
            BY <1>0, <2>2, ZenonT(30) DEF Goto, Records
        <3> QED
            BY <1>2, <3>1, <3>2 DEF Signal, GraceInv
    <2> QED
        BY <1>2, <2>1, <2>2, ZenonT(30) DEF Signal, Live, Children
<1>3. CASE Check
    <2>1. CASE Goto("signal", rec)
        BY <1>3, <2>1 DEF Check, Goto, GraceInv, Live, tree
    <2>2. CASE NextStage /\ (StageOver \/ window \/ Children = {})
        BY <1>3, <2>2, NextStageGrace DEF Check
    <2> QED
        BY <1>3, <2>1, <2>2 DEF Check
<1>4. CASE Wait \/ LastReap \/ List
    <2>1. CASE Raise(rec)
        BY <2>1, RaiseGrace
    <2>2. CASE pc' \in {"last", "list", "publish", "row"}
        BY <2>2 DEF GraceInv
    <2> QED
        BY <1>4, <2>1, <2>2, ZenonT(30) DEF Wait, LastReap, List, Goto
<1>5. ASSUME NEW why \in Reasons, Stopped(why) PROVE GraceInv'
    BY <1>0, <1>5, StopRecords, ToCleanupGrace, ZenonT(30) DEF Stopped
<1>6. CASE GWatch \/ GOver \/ GPublish
    <2>1. CASE Raise(rec)
        BY <2>1, RaiseGrace
    <2>2. CASE pc' \in {"over", "watch", "last", "done"}
        BY <2>2 DEF GraceInv
    <2> QED
        BY <1>5, <1>6, <2>1, <2>2, ZenonT(30) DEF GWatch, GOver, GPublish, Goto, Reasons
<1>7. CASE CWatch
    <2>1. [rec EXCEPT !.stop = "collector_exception", !.errors = TRUE] \in Records
        BY <1>0, ZenonT(30) DEF Records, Reasons
    <2>2. CASE ToCleanup([rec EXCEPT !.stop = "collector_exception", !.errors = TRUE])
        BY <2>1, <2>2, ToCleanupGrace
    <2>3. CASE pc' \in {"exited", "watch"}
        BY <2>3 DEF GraceInv
    <2> QED
        BY <1>5, <1>7, <2>2, <2>3, ZenonT(30) DEF CWatch, Goto, Reasons
<1>8. CASE CExited
    <2>1. PICK why \in Reasons : ToCleanup([rec EXCEPT !.inTime = ~outer, !.stop = why])
        BY <1>8, ZenonT(30) DEF CExited, Reasons
    <2>2. [rec EXCEPT !.inTime = ~outer, !.stop = why] \in Records
        BY <1>0, ZenonT(30) DEF Records, Inv, Types
    <2> QED
        BY <2>1, <2>2, ToCleanupGrace
<1>9. CASE Reserve \/ Spawn \/ CPhase \/ CRow \/ CAudit \/ CJudge \/ CCommit \/ CPublish \/ CExit
    <2>1. pc' \notin {"test", "signal", "check"}
        BY <1>9, ZenonT(30) DEF Reserve, Refused, Spawn, Goto, CPhase, CRow, CAudit, CJudge, CCommit, CPublish, CExit
    <2> QED
        BY <2>1 DEF GraceInv
<1>10. CASE Below
    <2>1. CASE Live = {}
        <3>1. PICK p \in Pids : ReapedBelow(p)
            BY <1>10, <2>1 DEF Below, Ends, Die, Fork, Live
        <3> QED
            BY <2>1, <3>1 DEF ReapedBelow, Live
    <2>2. CASE Live # {}
        BY <1>10, <2>2 DEF Below, own, GraceInv
    <2> QED
        BY <2>1, <2>2
<1>11. CASE Tick \/ Deadline \/ Interrupt \/ Modify
    <2>1. UNCHANGED <<st, rec>> /\ (pc' = pc \/ pc' = "done")
        BY <1>11, ZenonT(30) DEF Tick, Deadline, Interrupt, Modify, own, tree
    <2> QED
        BY <2>1 DEF GraceInv, Live
<1>12. CASE UNCHANGED vars
    BY <1>12 DEF vars, tree, own, GraceInv, Live
<1> QED
    BY <1>1, <1>2, <1>3, <1>4, <1>6, <1>7, <1>8, <1>9, <1>10, <1>11, <1>12, ZenonT(30) DEF Next, Steps, Harness

\* For any processes below: whoever is still alive when SIGKILL is sent had the whole
\* TERM grace, orphans of a child that exits at once included (harness.cleanup).
THEOREM Graceful == Spec => []GraceGiven
<1>1. Init => GraceInv
    BY DEF Init, GraceInv
<1>2. GraceInv => GraceGiven
    BY DEF GraceInv, GraceGiven
<1> QED
    BY <1>1, <1>2, GraceKept, Invariance, PTL DEF Spec

Rows == [ran : BOOLEAN, ok : BOOLEAN, zero : BOOLEAN, clean : BOOLEAN, signals : BOOLEAN]

Results == [rows : [Phases -> Rows], timedOut : BOOLEAN, failed : BOOLEAN, evidence : BOOLEAN,
            accepted : BOOLEAN, published : BOOLEAN, exit : {-1, 0, 1, 2, 3}]

Waited == {"last", "list"}

Judged == {"judge", "commit", "publish", "exit", "done"}

\* The exit status in a record is that of the child, which is gone; the Guardian calls
\* an exit normal only when nobody is left.
CodeInv ==
    /\ rec.code # "none" => pc \in Waited \cup Final /\ rec.code = ended[rec.phase] /\ st[Leader] = "free"
    /\ pc \in Waited => rec.code # "none"
    /\ rec.normal => role = "guardian" /\ rec.code # "none" /\ NonFree = {}

\* A child that has ended has a status.
EndInv ==
    /\ st[Leader] = "zombie" => ended[rec.phase] # "none"
    /\ pc = "over" => st[Leader] = "zombie"
    /\ role = "guardian" => rec.phase = "guardian"

\* A row of the result agrees with how its child ended.
RowInv ==
    \A p \in Phases :
       /\ res.rows[p].ok => res.rows[p].zero
       /\ res.rows[p].zero => /\ res.rows[p].ran /\ ended[p] = "zero"
                              /\ p = rec.phase => pc \in Final \ {"row"} /\ st[Leader] = "free"
                              /\ p = "verification" => rec.phase = "verification"
       /\ res.failed \/ ~res.rows[p].signals

\* What an accepting verdict rests on.
VerdictInv ==
    /\ res.evidence => pc \in Judged /\ res.rows["verification"].zero
    /\ res.accepted => /\ pc \in Judged \ {"judge"} /\ NonFree = {} /\ res.evidence /\ ~res.failed
                       /\ res.rows["guardian"].ok /\ \A p \in Phases : res.rows[p].ran => res.rows[p].clean
    /\ role = "collector" /\ pc = "exit" => res.published

ExitInv == res.exit = 0 => Done /\ ExitHonest

VInv == res \in Results /\ CodeInv /\ EndInv /\ RowInv /\ VerdictInv /\ ExitInv

(***************************************************************************)
(* The processes below.                                                    *)
(***************************************************************************)
\* Below, only the direct child changes how a phase ended, and only once.
LEMMA BelowFacts ==
    ASSUME Inv, VInv, Below
    PROVE  /\ UNCHANGED <<role, pc, rec, res, outer, pending>>
           /\ NonFree = {} => NonFree' = {}
           /\ st[Leader] = "free" => st'[Leader] = "free" /\ ended' = ended
           /\ st[Leader] = "zombie" => st'[Leader] = "zombie" /\ ended' = ended
           /\ st'[Leader] = "zombie" => ended'[rec.phase] # "none"
           /\ \A q \in Phases \ {rec.phase} : ended'[q] = ended[q]
<1>0. Types /\ Forest /\ Leader \in Pids /\ 0 \notin Pids /\ rec.phase \in Phases
    BY ContainmentAssumption DEF Inv, Types, Records
<1>1. UNCHANGED <<role, pc, rec, res, outer, pending>>
    BY DEF Below, own
<1>2. PICK p \in Pids : Ends(p, "zero") \/ Ends(p, "nonzero") \/ Die(p) \/ ReapedBelow(p) \/ Fork(p)
    BY DEF Below
<1>3. ASSUME NEW how \in Codes \ {"none"}, Ends(p, how)
      PROVE  /\ NonFree = {} => NonFree' = {}
             /\ st[Leader] = "free" => st'[Leader] = "free" /\ ended' = ended
             /\ st[Leader] = "zombie" => st'[Leader] = "zombie" /\ ended' = ended
             /\ st'[Leader] = "zombie" => ended'[rec.phase] # "none"
             /\ \A q \in Phases \ {rec.phase} : ended'[q] = ended[q]
    <2>1. NonFree = {} => NonFree' = {}
        BY <1>0, <1>3, EndsKeepsForest
    <2>2. st[p] = "live" /\ st'[Leader] = (IF p = Leader THEN "zombie" ELSE st[Leader])
        BY <1>0, <1>3 DEF Ends, Types
    <2>3. ended' = IF p = Leader THEN [ended EXCEPT ![rec.phase] = how] ELSE ended
        BY <1>3 DEF Ends
    <2>4. /\ p = Leader => ended'[rec.phase] = how
          /\ \A q \in Phases \ {rec.phase} : ended'[q] = ended[q]
        BY <1>0, <2>3 DEF Types
    <2> QED
        BY <2>1, <2>2, <2>3, <2>4 DEF VInv, EndInv
<1>4. CASE ReapedBelow(p)
    <2>1. p # Leader /\ ended' = ended /\ st'[Leader] = st[Leader]
        BY <1>0, <1>4 DEF ReapedBelow, Released, Freed, Forest, Live
    <2>2. NonFree' \subseteq NonFree
        BY <1>0, <1>4, FreedKeepsForest DEF ReapedBelow, Released
    <2> QED
        BY <2>1, <2>2, <1>1 DEF VInv, EndInv
<1>5. CASE Fork(p)
    <2>1. ended' = ended /\ NonFree # {}
        BY <1>0, <1>5, ForkKeepsForest DEF Fork
    <2>2. (CHOOSE c \in Unused : TRUE) # Leader
        BY <1>5 DEF Fork, Unused
    <2>3. st'[Leader] = st[Leader]
        BY <1>0, <1>5, <2>2 DEF Fork, Types
    <2> QED
        BY <2>1, <2>3, <1>1 DEF VInv, EndInv
<1> QED
    BY <1>1, <1>2, <1>3, <1>4, <1>5 DEF Die, Codes

\* The processes below keep the verdict's invariant.
LEMMA BelowKeepsVerdict ==
    ASSUME Inv, VInv, Below, pc # "done"
    PROVE  VInv'
<1>1. /\ UNCHANGED <<role, pc, rec, res, outer, pending>>
      /\ NonFree = {} => NonFree' = {}
      /\ st[Leader] = "free" => st'[Leader] = "free" /\ ended' = ended
      /\ st[Leader] = "zombie" => st'[Leader] = "zombie" /\ ended' = ended
      /\ st'[Leader] = "zombie" => ended'[rec.phase] # "none"
      /\ \A q \in Phases \ {rec.phase} : ended'[q] = ended[q]
    BY BelowFacts
<1>2. res' \in Results /\ ExitInv'
    BY <1>1 DEF VInv, ExitInv, Done
<1>3. CodeInv'
    BY <1>1 DEF VInv, CodeInv
<1>4. EndInv'
    BY <1>1 DEF VInv, EndInv
<1>5. RowInv'
    BY <1>1 DEF VInv, RowInv
<1>6. VerdictInv'
    BY <1>1 DEF VInv, VerdictInv
<1> QED
    BY <1>2, <1>3, <1>4, <1>5, <1>6 DEF VInv

(***************************************************************************)
(* Before the verdict.                                                     *)
(***************************************************************************)
\* What a step before the verdict may do to the record at hand.
Prudent ==
    /\ UNCHANGED <<role, ended, res>> /\ rec'.phase = rec.phase
    /\ rec'.code # "none" => pc' \in Waited \cup Final /\ rec'.code = ended[rec.phase] /\ st'[Leader] = "free"
    /\ pc' \in Waited => rec'.code # "none"
    /\ rec'.normal => role = "guardian" /\ rec'.code # "none" /\ NonFree' = {}
    /\ st'[Leader] = "zombie" => st[Leader] = "zombie"
    /\ pc' = "over" => st'[Leader] = "zombie"
    /\ pc' # "exit"

\* Such a step, by a process that has not come to its verdict, keeps the invariant.
LEMMA PrudentKeepsVerdict ==
    ASSUME VInv, Prudent, pc \notin Final
    PROVE  VInv'
<1>1. res' \in Results /\ ExitInv'
    BY DEF VInv, Prudent, ExitInv, Done, Final
<1>2. CodeInv'
    BY DEF VInv, Prudent, CodeInv
<1>3. EndInv'
    BY DEF VInv, Prudent, EndInv
<1>4. RowInv'
    BY DEF VInv, Prudent, RowInv
<1>5. VerdictInv'
    BY DEF VInv, Prudent, VerdictInv, Final, Judged
<1> QED
    BY <1>1, <1>2, <1>3, <1>4, <1>5 DEF VInv

\* The record keeps its status, and so does the direct child.
Unwaited == /\ UNCHANGED <<role, ended, res>> /\ st'[Leader] = st[Leader]
            /\ rec'.phase = rec.phase /\ rec'.code = rec.code /\ rec'.normal = rec.normal

\* Before the child was waited for there is no status that could be wrong.
LEMMA UnwaitedIsPrudent ==
    ASSUME VInv, Unwaited, pc \notin Waited \cup Final, pc' \notin Waited \cup {"exit"},
           pc' = "over" => st[Leader] = "zombie"
    PROVE  Prudent
BY DEF VInv, CodeInv, EndInv, Unwaited, Prudent

\* cleanup() is entered with the status at hand.
LEMMA ToCleanupStatus ==
    ASSUME NEW r \in Records, ToCleanup(r)
    PROVE  /\ rec'.phase = r.phase /\ rec'.code = r.code /\ rec'.normal = r.normal
           /\ res' = res /\ pc' = "test"
BY ZenonT(30) DEF ToCleanup, Records

\* A new reason leaves the status.
LEMMA StopStatus ==
    ASSUME NEW r \in Records, NEW why \in Reasons
    PROVE  /\ [r EXCEPT !.stop = why].phase = r.phase /\ [r EXCEPT !.stop = why].code = r.code
           /\ [r EXCEPT !.stop = why].normal = r.normal
           /\ [r EXCEPT !.errors = TRUE].phase = r.phase /\ [r EXCEPT !.errors = TRUE].code = r.code
           /\ [r EXCEPT !.errors = TRUE].normal = r.normal
BY ZenonT(30) DEF Records

\* An exception leaves the status; with one, it leads to the end.
LEMMA RaiseStatus ==
    ASSUME Types, Raise(rec)
    PROVE  /\ rec'.phase = rec.phase /\ rec'.code = rec.code /\ rec'.normal = rec.normal /\ res' = res
           /\ pc' \in {"row", "publish"} \/ (pc' = "test" /\ rec.code = "none")
<1>0. /\ [rec EXCEPT !.stop = "guardian_error"] \in Records
      /\ [rec EXCEPT !.stop = "guardian_error"].phase = rec.phase
      /\ [rec EXCEPT !.stop = "guardian_error"].code = rec.code
      /\ [rec EXCEPT !.stop = "guardian_error"].normal = rec.normal
      /\ [rec EXCEPT !.errors = TRUE].phase = rec.phase /\ [rec EXCEPT !.errors = TRUE].code = rec.code
      /\ [rec EXCEPT !.errors = TRUE].normal = rec.normal
    BY StopRecords, StopStatus, ZenonT(30) DEF Types, Reasons
<1>1. CASE ToCleanup([rec EXCEPT !.stop = "guardian_error"]) /\ rec.code = "none"
    BY <1>0, <1>1, ToCleanupStatus, ZenonT(30)
<1>2. CASE /\ rec' \in {[rec EXCEPT !.stop = "guardian_error"], [rec EXCEPT !.errors = TRUE]}
           /\ pc' \in {"row", "publish"} /\ res' = res
    BY <1>0, <1>2, ZenonT(30)
<1> QED
    BY <1>1, <1>2, ZenonT(30) DEF Raise, Goto

\* So does a stop of the attempt.
LEMMA StoppedStatus ==
    ASSUME Types, NEW why \in Reasons, Stopped(why)
    PROVE  /\ rec'.phase = rec.phase /\ rec'.code = rec.code /\ rec'.normal = rec.normal
           /\ res' = res /\ pc' = "test"
<1> DEFINE r == [rec EXCEPT !.stop = why]
<1>1. r \in Records /\ r.phase = rec.phase /\ r.code = rec.code /\ r.normal = rec.normal
    BY StopRecords, StopStatus, ZenonT(30) DEF Types
<1>2. ToCleanup(r)
    BY DEF Stopped
<1> HIDE DEF r
<1> QED
    BY <1>1, <1>2, ToCleanupStatus

\* The next signal too.
LEMMA NextStageStatus ==
    ASSUME Types, NextStage
    PROVE  /\ rec'.phase = rec.phase /\ rec'.code = rec.code /\ rec'.normal = rec.normal
           /\ res' = res /\ pc' \in {"test", "wait"}
BY ZenonT(30) DEF NextStage, Types, Records

\* What is reaped among ours.
LEMMA ReapFacts ==
    ASSUME Types, NEW ps, Reap(ps)
    PROVE  /\ ended' = ended
           /\ st[Leader] # "zombie" => st'[Leader] = st[Leader]
           /\ Leader \notin ps => st'[Leader] = st[Leader]
           /\ Leader \in ps /\ st[Leader] = "zombie" /\ par[Leader] = 0 => st'[Leader] = "free"
BY ContainmentAssumption DEF Reap, Released, Freed, Children, Types

\* Every step of cleanup() keeps the verdict's invariant.
LEMMA HarnessKeepsVerdict ==
    ASSUME Inv, VInv, Harness PROVE VInv'
<1>0. Types /\ Forest /\ rec \in Records /\ role' = role /\ Leader \in Pids
    BY ContainmentAssumption DEF Inv, Types, Harness, Quiet
<1>1. CASE Test
    <2>1. Unwaited
        BY <1>0, <1>1, NextStageStatus, ZenonT(30) DEF Test, Goto, Unwaited, tree
    <2>2. pc' \in {"test", "wait", "signal"} /\ pc = "test"
        BY <1>0, <1>1, NextStageStatus, ZenonT(30) DEF Test, Goto
    <2> QED
        BY <2>1, <2>2, UnwaitedIsPrudent, PrudentKeepsVerdict DEF Waited, Final
<1>2. CASE Signal
    <2>1. CASE Fails /\ UNCHANGED tree /\ Raise(rec)
        <3>1. Unwaited /\ pc' \in {"row", "publish", "test"}
            BY <1>0, <2>1, RaiseStatus, ZenonT(30) DEF Unwaited, tree
        <3> QED
            BY <1>2, <3>1, UnwaitedIsPrudent, PrudentKeepsVerdict DEF Signal, Waited, Final
    <2>2. CASE \E hit \in SUBSET Pids : /\ Freed({p \in Adopted : st[p] = "zombie"})
                                         /\ Goto("check", [rec EXCEPT !.signals = @ \/ hit # {}])
        <3>1. ended' = ended /\ st'[Leader] = st[Leader]
            BY <1>0, <2>2 DEF Freed, Adopted
        <3>2. Unwaited /\ pc' = "check"
            BY <1>0, <2>2, <3>1, ZenonT(30) DEF Unwaited, Goto, Records
        <3> QED
            BY <1>2, <3>2, UnwaitedIsPrudent, PrudentKeepsVerdict DEF Signal, Waited, Final
    <2> QED
        BY <1>2, <2>1, <2>2, ZenonT(30) DEF Signal, Live, Children
<1>3. CASE Check
    <2>1. Unwaited
        BY <1>0, <1>3, NextStageStatus, ZenonT(30) DEF Check, Goto, Unwaited, tree
    <2>2. pc' \in {"test", "wait", "signal"} /\ pc = "check"
        BY <1>0, <1>3, NextStageStatus, ZenonT(30) DEF Check, Goto
    <2> QED
        BY <2>1, <2>2, UnwaitedIsPrudent, PrudentKeepsVerdict DEF Waited, Final
<1>4. CASE Wait
    <2>1. CASE st[Leader] = "zombie" /\ Reap({Leader}) /\ Goto("last", [rec EXCEPT !.code = ended[rec.phase]])
        <3>1. ended' = ended /\ st'[Leader] = "free"
            BY <1>0, <2>1, ReapFacts DEF Forest
        <3>2. /\ rec'.phase = rec.phase /\ rec'.code = ended[rec.phase] /\ rec'.normal = rec.normal
              /\ pc' = "last" /\ res' = res
            BY <1>0, <2>1, ZenonT(30) DEF Goto, Records
        <3>3. ended[rec.phase] # "none" /\ ~rec.normal
            BY <1>4, <2>1 DEF VInv, EndInv, CodeInv, Wait, Waited, Final
        <3> QED
            BY <1>0, <1>4, <3>1, <3>2, <3>3, PrudentKeepsVerdict DEF Wait, Prudent, Waited, Final
    <2>2. CASE Raise(rec) /\ UNCHANGED tree
        <3>1. Unwaited /\ pc' \in {"row", "publish", "test"}
            BY <1>0, <2>2, RaiseStatus, ZenonT(30) DEF Unwaited, tree
        <3> QED
            BY <1>4, <3>1, UnwaitedIsPrudent, PrudentKeepsVerdict DEF Wait, Waited, Final
    <2> QED
        BY <1>4, <2>1, <2>2 DEF Wait
<1>5. CASE LastReap
    <2>0. /\ pc = "last" /\ rec.code # "none" /\ rec.code = ended[rec.phase] /\ st[Leader] = "free"
          /\ rec.normal => role = "guardian" /\ NonFree = {}
        BY <1>5 DEF LastReap, VInv, CodeInv, Waited
    <2>1. CASE Reap(Pids) /\ Goto("list", rec)
        <3>1. ended' = ended /\ st'[Leader] = "free"
            BY <1>0, <2>0, <2>1, ReapFacts
        <3>2. NonFree = {} => NonFree' = {}
            BY <2>1 DEF Reap, Released, Freed, NonFree
        <3> QED
            BY <1>0, <2>0, <2>1, <3>1, <3>2, PrudentKeepsVerdict DEF Goto, Prudent, Waited, Final
    <2>2. CASE Raise(rec) /\ UNCHANGED tree
        <3>1. Unwaited /\ pc' \in {"row", "publish"}
            BY <1>0, <2>0, <2>2, RaiseStatus, ZenonT(30) DEF Unwaited, tree
        <3>2. NonFree' = NonFree
            BY <2>2 DEF tree, NonFree
        <3> QED
            BY <2>0, <3>1, <3>2, PrudentKeepsVerdict DEF Unwaited, Prudent, Waited, Final
    <2> QED
        BY <1>5, <2>1, <2>2 DEF LastReap
<1>6. CASE List
    <2>0. /\ pc = "list" /\ rec.code # "none" /\ rec.code = ended[rec.phase] /\ st[Leader] = "free"
          /\ rec.normal => role = "guardian" /\ NonFree = {}
        BY <1>6 DEF List, VInv, CodeInv, Waited
    <2>1. Unwaited /\ pc' \in {"publish", "row"}
        BY <1>0, <1>6, ZenonT(30) DEF List, Listed, Goto, Unwaited, tree, Records
    <2>2. NonFree' = NonFree
        BY <1>6 DEF List, tree, NonFree
    <2> QED
        BY <2>0, <2>1, <2>2, PrudentKeepsVerdict DEF Unwaited, Prudent, Waited, Final
<1> QED
    BY <1>1, <1>2, <1>3, <1>4, <1>5, <1>6 DEF Harness

(***************************************************************************)
(* The end.                                                                *)
(***************************************************************************)
\* An exit with another status than 0 keeps it.
LEMMA LastWord ==
    ASSUME VInv, UNCHANGED <<role, tree, rec>>, pc' = "done", pc # "done",
           NEW code \in {1, 2, 3}, NEW said \in BOOLEAN,
           res' = [res EXCEPT !.published = said, !.exit = code]
    PROVE  VInv'
<1>0. UNCHANGED <<st, ended>> /\ NonFree' = NonFree
    BY DEF tree, NonFree
<1>1. /\ res' \in Results /\ res'.exit = code
      /\ res'.rows = res.rows /\ res'.failed = res.failed /\ res'.evidence = res.evidence
      /\ res'.accepted = res.accepted
    BY ZenonT(30) DEF VInv, Results
<1>2. CodeInv' /\ EndInv'
    BY <1>0, <1>1 DEF VInv, CodeInv, EndInv, Waited, Final
<1>3. RowInv'
    BY <1>0, <1>1 DEF VInv, RowInv, Final
<1>4. VerdictInv' /\ ExitInv'
    BY <1>0, <1>1 DEF VInv, VerdictInv, ExitInv, Judged
<1> QED
    BY <1>1, <1>2, <1>3, <1>4 DEF VInv

\* Starting keeps it: a new child has no status yet.
LEMMA StartKeepsVerdict ==
    ASSUME Inv, VInv, Reserve \/ Spawn PROVE VInv'
<1>0. Types /\ rec \in Records /\ Leader \in Pids /\ res \in Results
    BY ContainmentAssumption DEF Inv, Types, VInv
<1>1. CASE Reserve
    <2>1. CASE Goto("spawn", rec) \/ Goto("phase", rec)
        <3>1. Unwaited /\ pc' \in {"spawn", "phase"} /\ pc = "reserve"
            BY <1>1, <2>1, ZenonT(30) DEF Reserve, Goto, Unwaited, tree
        <3> QED
            BY <3>1, UnwaitedIsPrudent, PrudentKeepsVerdict DEF Waited, Final
    <2>2. CASE Refused
        <3>1. /\ UNCHANGED <<role, tree, rec>> /\ pc = "reserve" /\ pc' = "done" /\ res.published \in BOOLEAN
              /\ res' = [res EXCEPT !.published = res.published, !.exit = 2]
            BY <1>0, <1>1, <2>2, ZenonT(30) DEF Reserve, Refused, Results
        <3> QED
            BY <1>0, <3>1, LastWord, ZenonT(30)
    <2> QED
        BY <1>1, <2>1, <2>2 DEF Reserve
<1>2. CASE Spawn
    <2>1. /\ rec'.phase = rec.phase /\ rec'.code = rec.code /\ rec'.normal = rec.normal /\ res' = res
          /\ pc = "spawn" /\ pc' \in {"watch", "publish", "row"} /\ UNCHANGED <<role, ended>>
        BY <1>0, <1>2, ZenonT(30) DEF Spawn, Goto, Records
    <2>2. st'[Leader] = "zombie" => st[Leader] = "zombie"
        BY <1>0, <1>2 DEF Spawn, Types
    <2>3. rec.code = "none" /\ ~rec.normal
        BY <2>1 DEF VInv, CodeInv, Waited, Final
    <2> QED
        BY <2>1, <2>2, <2>3, PrudentKeepsVerdict DEF Prudent, Waited, Final
<1> QED
    BY <1>1, <1>2

\* The steps of the Guardian keep it.
LEMMA GuardianKeepsVerdict ==
    ASSUME Inv, VInv, GWatch \/ GOver \/ GPublish PROVE VInv'
<1>0. Types /\ Forest /\ rec \in Records /\ role' = role /\ Leader \in Pids /\ res \in Results /\ 0 \notin Pids
    BY ContainmentAssumption DEF Inv, Types, VInv, GWatch, GOver, GPublish, Quiet
<1>1. CASE GWatch
    <2>1. pc = "watch" /\ ended' = ended /\ st'[Leader] = st[Leader]
        BY <1>0, <1>1, ReapFacts DEF GWatch, tree, Adopted
    <2>2. CASE UNCHANGED <<rec, res>> /\ (pc' = "watch" \/ (pc' = "over" /\ st[Leader] = "zombie"))
        <3>1. Unwaited
            BY <1>0, <2>1, <2>2 DEF Unwaited
        <3> QED
            BY <2>1, <2>2, <3>1, UnwaitedIsPrudent, PrudentKeepsVerdict DEF Waited, Final
    <2>3. CASE Raise(rec)
        <3>1. Unwaited /\ pc' \in {"row", "publish", "test"}
            BY <1>0, <2>1, <2>3, RaiseStatus DEF Unwaited
        <3> QED
            BY <2>1, <3>1, UnwaitedIsPrudent, PrudentKeepsVerdict DEF Waited, Final
    <2>4. ASSUME NEW why \in Reasons, Stopped(why) PROVE VInv'
        <3>1. Unwaited /\ pc' = "test"
            BY <1>0, <2>1, <2>4, StoppedStatus DEF Unwaited
        <3> QED
            BY <2>1, <3>1, UnwaitedIsPrudent, PrudentKeepsVerdict DEF Waited, Final
    <2> QED
        BY <1>1, <2>2, <2>3, <2>4, ZenonT(30) DEF GWatch, Goto, Reasons
<1>2. CASE GOver
    <2>0. pc = "over" /\ st[Leader] = "zombie" /\ role = "guardian" /\ rec.phase = "guardian"
        BY <1>2 DEF GOver, VInv, EndInv
    <2>1. CASE Reap(Adopted) /\ Stopped("unexpected_surviving_child")
        <3>1. ended' = ended /\ st'[Leader] = st[Leader]
            BY <1>0, <2>1, ReapFacts DEF Adopted
        <3>2. Unwaited /\ pc' = "test"
            BY <1>0, <2>1, <3>1, StoppedStatus DEF Unwaited, Reasons
        <3> QED
            BY <2>0, <3>2, UnwaitedIsPrudent, PrudentKeepsVerdict DEF Waited, Final
    <2>2. CASE /\ \A p \in Adopted : st[p] # "live"
               /\ Reap(Children) /\ Goto("last", [rec EXCEPT !.code = ended.guardian, !.normal = TRUE])
        <3>1. ended' = ended /\ st'[Leader] = "free"
            BY <1>0, <2>0, <2>2, ReapFacts DEF Forest, Children
        <3>2. /\ rec'.phase = rec.phase /\ rec'.code = ended["guardian"] /\ pc' = "last" /\ res' = res
            BY <1>0, <2>2, ZenonT(30) DEF Goto, Records
        <3>3. \A p \in Children : st[p] = "zombie"
            BY <1>0, <2>0, <2>2 DEF Adopted, Children, Types
        <3>4. Forest'
            BY <1>0, <2>2, FreedKeepsForest DEF Reap, Released, Children
        <3>5. NonFree' = {}
            <4>1. SUFFICES ASSUME NonFree' # {} PROVE FALSE
                OBVIOUS
            <4>2. PICK p \in NonFree' : par'[p] \notin NonFree'
                BY <3>4, <4>1 DEF Forest
            <4>3. p \in Pids /\ st'[p] # "free" /\ par'[p] \in Pids \cup {0}
                BY <1>0, <2>2, <4>2 DEF NonFree, Reap, Released, Freed, Types
            <4>4. par'[p] = 0
                BY <3>4, <4>2, <4>3 DEF Forest, NonFree
            <4>5. p \notin Children
                BY <2>2, <3>3, <4>3 DEF Reap, Released, Freed, Children
            <4>6. par'[p] = par[p] /\ st'[p] = st[p]
                BY <2>2, <4>3, <4>5 DEF Reap, Released, Freed
            <4> QED
                BY <4>3, <4>4, <4>5, <4>6 DEF Children
        <3>6. ended["guardian"] # "none"
            BY <2>0 DEF VInv, EndInv
        <3> QED
            BY <1>0, <2>0, <3>1, <3>2, <3>5, <3>6, PrudentKeepsVerdict DEF Prudent, Waited, Final
    <2> QED
        BY <1>2, <2>1, <2>2 DEF GOver
<1>3. CASE GPublish
    <2>0. UNCHANGED <<role, tree, rec>> /\ pc = "publish" /\ pc' = "done" /\ role = "guardian"
        BY <1>3 DEF GPublish, Quiet
    <2>1. CASE res' = [res EXCEPT !.exit = 1]
        <3>1. res' = [res EXCEPT !.published = res.published, !.exit = 1] /\ res.published \in BOOLEAN
            BY <1>0, <2>1, ZenonT(30) DEF Results
        <3> QED
            BY <2>0, <3>1, LastWord, ZenonT(30)
    <2>2. CASE res' = [res EXCEPT !.published = TRUE, !.exit = 1]
        BY <2>0, <2>2, LastWord, ZenonT(30)
    <2>3. CASE /\ res' = [res EXCEPT !.published = TRUE, !.exit = 0]
               /\ rec.normal /\ rec.code = "zero"
        <3>0. UNCHANGED <<st, ended>> /\ NonFree' = NonFree
            BY <2>0 DEF tree, NonFree
        <3>1. /\ res' \in Results /\ res'.exit = 0
              /\ res'.rows = res.rows /\ res'.failed = res.failed /\ res'.evidence = res.evidence
              /\ res'.accepted = res.accepted
            BY <1>0, <2>3, ZenonT(30) DEF Results
        <3>2. NonFree = {} /\ ended["guardian"] = "zero"
            BY <2>0, <2>3 DEF VInv, CodeInv, EndInv
        <3>3. Live' = {}
            BY <3>0, <3>2 DEF Live, NonFree
        <3>4. ExitInv'
            BY <2>0, <3>0, <3>1, <3>2, <3>3 DEF ExitInv, ExitHonest, Done
        <3>5. CodeInv' /\ EndInv'
            BY <2>0, <3>0, <3>1 DEF VInv, CodeInv, EndInv, Waited, Final
        <3>6. RowInv'
            BY <2>0, <3>0, <3>1 DEF VInv, RowInv, Final
        <3>7. VerdictInv'
            BY <2>0, <3>0, <3>1 DEF VInv, VerdictInv, Judged
        <3> QED
            BY <3>1, <3>4, <3>5, <3>6, <3>7 DEF VInv
    <2> QED
        BY <1>3, <2>1, <2>2, <2>3, ZenonT(30) DEF GPublish
<1> QED
    BY <1>1, <1>2, <1>3

\* The Collector, until a child has ended, and between its children.
LEMMA WatchKeepsVerdict ==
    ASSUME Inv, VInv, CWatch \/ CExited PROVE VInv'
<1>0. Types /\ rec \in Records /\ role' = role /\ Leader \in Pids
    BY ContainmentAssumption DEF Inv, Types, CWatch, CExited, Quiet
<1>1. CASE CWatch
    <2>1. pc = "watch" /\ ended' = ended /\ st'[Leader] = st[Leader]
        BY <1>0, <1>1, ReapFacts DEF CWatch, tree, Adopted
    <2>2. CASE UNCHANGED <<rec, res>> /\ pc' \in {"watch", "exited"}
        <3>1. Unwaited
            BY <1>0, <2>1, <2>2 DEF Unwaited
        <3> QED
            BY <2>1, <2>2, <3>1, UnwaitedIsPrudent, PrudentKeepsVerdict DEF Waited, Final
    <2>3. ASSUME NEW why \in Reasons, Stopped(why) PROVE VInv'
        <3>1. Unwaited /\ pc' = "test"
            BY <1>0, <2>1, <2>3, StoppedStatus DEF Unwaited
        <3> QED
            BY <2>1, <3>1, UnwaitedIsPrudent, PrudentKeepsVerdict DEF Waited, Final
    <2>4. CASE ToCleanup([rec EXCEPT !.stop = "collector_exception", !.errors = TRUE])
        <3> DEFINE r == [rec EXCEPT !.stop = "collector_exception", !.errors = TRUE]
        <3>1. r \in Records /\ r.phase = rec.phase /\ r.code = rec.code /\ r.normal = rec.normal
            BY <1>0, ZenonT(30) DEF Records, Reasons
        <3>2. ToCleanup(r)
            BY <2>4
        <3> HIDE DEF r
        <3>3. Unwaited /\ pc' = "test"
            BY <1>0, <2>1, <3>1, <3>2, ToCleanupStatus DEF Unwaited
        <3> QED
            BY <2>1, <3>3, UnwaitedIsPrudent, PrudentKeepsVerdict DEF Waited, Final
    <2> QED
        BY <1>1, <2>2, <2>3, <2>4, ZenonT(30) DEF CWatch, Goto, Reasons
<1>2. CASE CExited
    <2>1. PICK why \in Reasons : ToCleanup([rec EXCEPT !.inTime = ~outer, !.stop = why])
        BY <1>2, ZenonT(30) DEF CExited, Reasons
    <2> DEFINE r == [rec EXCEPT !.inTime = ~outer, !.stop = why]
    <2>2. r \in Records /\ r.phase = rec.phase /\ r.code = rec.code /\ r.normal = rec.normal
        BY <1>0, ZenonT(30) DEF Records, Types
    <2>3. ToCleanup(r)
        BY <2>1
    <2> HIDE DEF r
    <2>4. pc = "exited" /\ UNCHANGED tree
        BY <1>2 DEF CExited
    <2>5. Unwaited /\ pc' = "test"
        BY <1>0, <2>2, <2>3, <2>4, ToCleanupStatus DEF Unwaited, tree
    <2> QED
        BY <2>4, <2>5, UnwaitedIsPrudent, PrudentKeepsVerdict DEF Waited, Final
<1> QED
    BY <1>1, <1>2

\* A row is written: it says how its child ended, and the record of the next is new.
LEMMA RowKeepsVerdict ==
    ASSUME Inv, VInv, CRow PROVE VInv'
<1>0. /\ Types /\ rec \in Records /\ res \in Results /\ rec.phase \in Phases /\ outer \in BOOLEAN
      /\ pc = "row" /\ role = "collector" /\ UNCHANGED <<role, st, ended>> /\ NonFree' = NonFree
      /\ rec.code \in Codes /\ rec.residual \in {"unknown", "none", "some"}
    BY DEF Inv, VInv, Types, Records, CRow, Quiet, NonFree
<1>1. /\ rec.code # "none" => rec.code = ended[rec.phase] /\ st[Leader] = "free"
      /\ ~rec.normal /\ ~res.evidence /\ ~res.accepted /\ ~(res.exit = 0)
      /\ ~res.rows[rec.phase].zero /\ ~res.rows["verification"].zero
    <2>1. ~res.rows[rec.phase].zero
        BY <1>0 DEF VInv, RowInv
    <2>2. ~res.rows["verification"].zero
        BY <1>0, <2>1 DEF VInv, RowInv, Phases
    <2> QED
        BY <1>0, <2>1, <2>2 DEF VInv, CodeInv, VerdictInv, ExitInv, Judged, Done
<1>2. Summary(rec) \in Rows
    BY <1>0, ZenonT(30) DEF Summary, Rows, GuardianOk, Clean, Records
<1>3. /\ Summary(rec).ok => Summary(rec).zero
      /\ Summary(rec).zero => rec.code = "zero"
      /\ Summary(rec).ran
      /\ Summary(rec).signals => Reason(rec)
    BY <1>0, ZenonT(30) DEF Summary, GuardianOk, Reason, Records
<1>4. PICK timedOut \in BOOLEAN :
         res' = [res EXCEPT !.rows[rec.phase] = Summary(rec), !.timedOut = timedOut, !.failed = @ \/ Reason(rec)]
    <2>1. (res.timedOut \/ rec.stop = "outer_timeout" \/ outer) \in BOOLEAN
        OBVIOUS
    <2> QED
        BY <2>1, ZenonT(30) DEF CRow
<1>5. /\ res' \in Results /\ res'.evidence = res.evidence /\ res'.accepted = res.accepted
      /\ res'.exit = res.exit /\ res'.failed = (res.failed \/ Reason(rec))
    BY <1>0, <1>2, <1>4, ZenonT(30) DEF Results, Reason
<1>6. \A p \in Phases : res'.rows[p] = IF p = rec.phase THEN Summary(rec) ELSE res.rows[p]
    BY <1>0, <1>4, ZenonT(30) DEF Results
<1>7. \A p \in Phases : /\ res'.rows[p].ok => res'.rows[p].zero
                        /\ res'.rows[p].zero => res'.rows[p].ran /\ ended'[p] = "zero"
                        /\ res'.rows[p].zero /\ p = rec.phase => st'[Leader] = "free"
                        /\ res'.rows[p].zero /\ p = "verification" => rec.phase = "verification"
                        /\ res'.failed \/ ~res'.rows[p].signals
    <2> SUFFICES ASSUME NEW p \in Phases
                 PROVE  /\ res'.rows[p].ok => res'.rows[p].zero
                        /\ res'.rows[p].zero => res'.rows[p].ran /\ ended'[p] = "zero"
                        /\ res'.rows[p].zero /\ p = rec.phase => st'[Leader] = "free"
                        /\ res'.rows[p].zero /\ p = "verification" => rec.phase = "verification"
                        /\ res'.failed \/ ~res'.rows[p].signals
        OBVIOUS
    <2>1. CASE p = rec.phase
        BY <1>0, <1>1, <1>3, <1>5, <1>6, <2>1, ZenonT(30)
    <2>2. CASE p # rec.phase
        BY <1>0, <1>1, <1>5, <1>6, <2>2, ZenonT(30) DEF VInv, RowInv
    <2> QED
        BY <2>1, <2>2
<1>8. CASE pc' = "audit" /\ rec' = rec
    <2>1. RowInv'
        BY <1>7, <1>8 DEF RowInv, Final
    <2>2. CodeInv' /\ EndInv'
        BY <1>0, <1>1, <1>8 DEF VInv, CodeInv, EndInv, Waited, Final
    <2>3. VerdictInv' /\ ExitInv'
        BY <1>1, <1>5, <1>8 DEF VerdictInv, ExitInv
    <2> QED
        BY <1>5, <2>1, <2>2, <2>3 DEF VInv
<1>9. CASE Clean(rec) /\ rec.phase # "verification" /\ pc' = "phase" /\ rec' = NewRecord("verification")
    <2>1. rec'.phase = "verification" /\ rec'.code = "none" /\ ~rec'.normal
        BY <1>9 DEF NewRecord
    <2>2. st[Leader] = "free"
        BY <1>1, <1>9 DEF Clean
    <2>3. rec.phase = "guardian"
        BY <1>0, <1>9 DEF Phases
    <2>4. RowInv'
        BY <1>1, <1>6, <1>7, <2>1, <2>3 DEF RowInv, Phases
    <2>5. CodeInv' /\ EndInv'
        BY <1>0, <1>9, <2>1, <2>2 DEF CodeInv, EndInv, Waited
    <2>6. VerdictInv' /\ ExitInv'
        BY <1>1, <1>5, <1>9 DEF VerdictInv, ExitInv
    <2> QED
        BY <1>5, <2>4, <2>5, <2>6 DEF VInv
<1> QED
    BY <1>8, <1>9, ZenonT(30) DEF CRow

\* A step from the end of a child to the verdict: what was found against the attempt is
\* not forgotten, and a new claim has its grounds.
Deliberated ==
    /\ UNCHANGED <<role, tree, rec>> /\ role = "collector"
    /\ res' \in Results /\ res'.rows = res.rows /\ res'.exit = res.exit
    /\ res.failed => res'.failed
    /\ res'.evidence => pc' \in Judged /\ res.rows["verification"].zero
    /\ res'.accepted => /\ pc' \in Judged \ {"judge"} /\ NonFree = {} /\ res'.evidence /\ ~res'.failed
                        /\ res.rows["guardian"].ok
                        /\ \A p \in Phases : res.rows[p].ran => res.rows[p].clean
    /\ pc' = "exit" => res'.published

\* Such a step keeps the invariant.
LEMMA DeliberatedKeepsVerdict ==
    ASSUME VInv, Deliberated, pc # "done", pc \notin Waited \cup {"row"}, pc' \in Final \ {"row"}
    PROVE  VInv'
<1>0. UNCHANGED <<role, st, ended, rec>> /\ NonFree' = NonFree
    BY DEF Deliberated, tree, NonFree
<1>1. CodeInv' /\ EndInv'
    BY <1>0 DEF VInv, CodeInv, EndInv, Waited, Final
<1>2. RowInv'
    BY <1>0 DEF VInv, RowInv, Deliberated
<1>3. VerdictInv'
    BY <1>0 DEF VerdictInv, Deliberated
<1>4. ExitInv'
    BY DEF VInv, ExitInv, Done, Deliberated
<1> QED
    BY <1>1, <1>2, <1>3, <1>4 DEF VInv, Deliberated

\* Before an attempt is judged nothing has been accepted.
LEMMA Undecided ==
    ASSUME VInv, pc \in {"phase", "audit"}
    PROVE  ~res.evidence /\ ~res.accepted
BY DEF VInv, VerdictInv, Judged

\* Without children there is nobody below.
LEMMA Childless ==
    ASSUME Inv, Children = {} PROVE NonFree = {}
<1>0. Types /\ Forest /\ 0 \notin Pids
    BY ContainmentAssumption DEF Inv
<1>1. SUFFICES ASSUME NonFree # {} PROVE FALSE
    OBVIOUS
<1>2. PICK p \in NonFree : par[p] \notin NonFree
    BY <1>0, <1>1 DEF Forest
<1>3. p \in Pids /\ st[p] # "free" /\ par[p] \in Pids \cup {0}
    BY <1>0, <1>2 DEF NonFree, Types
<1>4. par[p] = 0
    BY <1>0, <1>2, <1>3 DEF Forest, NonFree
<1> QED
    BY <1>3, <1>4 DEF Children

\* The Collector's verdict keeps the invariant: it starts no second child late, accepts
\* on the rows alone, and the last look can only withdraw.
LEMMA JudgementKeepsVerdict ==
    ASSUME Inv, VInv, CPhase \/ CAudit \/ CJudge \/ CCommit PROVE VInv'
<1>0. /\ Types /\ res \in Results /\ role' = role /\ UNCHANGED tree /\ outer \in BOOLEAN
      /\ role = "collector" /\ res.timedOut \in BOOLEAN /\ pending \in BOOLEAN
    BY ZenonT(30) DEF Inv, Types, VInv, CPhase, CAudit, CJudge, CCommit, Quiet, Results
<1>1. CASE CPhase
    <2>0. pc = "phase"
        BY <1>1 DEF CPhase
    <2>1. CASE Goto("spawn", rec)
        <3>1. Unwaited /\ pc' = "spawn"
            BY <1>0, <2>1 DEF Goto, Unwaited, tree
        <3> QED
            BY <2>0, <3>1, UnwaitedIsPrudent, PrudentKeepsVerdict DEF Waited, Final
    <2>2. ASSUME NEW late \in BOOLEAN, res' = [res EXCEPT !.timedOut = late, !.failed = TRUE],
                 pc' \in {"audit", "commit"}, rec' = rec
          PROVE  VInv'
        <3>1. /\ res' \in Results /\ res'.rows = res.rows /\ res'.exit = res.exit /\ res'.failed
              /\ res'.evidence = res.evidence /\ res'.accepted = res.accepted
            BY <1>0, <2>2, ZenonT(30) DEF Results
        <3>2. Deliberated
            BY <1>0, <2>0, <2>2, <3>1, Undecided DEF Deliberated
        <3> QED
            BY <2>0, <2>2, <3>2, DeliberatedKeepsVerdict DEF Waited, Final
    <2>3. ASSUME res' = [res EXCEPT !.failed = TRUE], pc' = "commit", rec' = rec
          PROVE  VInv'
        <3>1. res' = [res EXCEPT !.timedOut = res.timedOut, !.failed = TRUE]
            BY <1>0, <2>3, ZenonT(30) DEF Results
        <3> QED
            BY <1>0, <2>2, <2>3, <3>1, ZenonT(30)
    <2>4. (res.timedOut \/ outer) \in BOOLEAN
        BY <1>0
    <2> QED
        BY <1>1, <2>1, <2>2, <2>3, <2>4, ZenonT(30) DEF CPhase
<1>2. CASE CAudit
    <2>0. pc = "audit" /\ rec' = rec /\ ~res.evidence /\ ~res.accepted
        BY <1>2, Undecided, ZenonT(30) DEF CAudit
    <2>1. CASE pc' = "commit" /\ res' = [res EXCEPT !.failed = TRUE]
        <3>1. /\ res' \in Results /\ res'.rows = res.rows /\ res'.exit = res.exit /\ res'.failed
              /\ res'.evidence = res.evidence /\ res'.accepted = res.accepted
            BY <1>0, <2>1, ZenonT(30) DEF Results
        <3>2. Deliberated
            BY <1>0, <2>0, <2>1, <3>1 DEF Deliberated
        <3> QED
            BY <2>0, <2>1, <3>2, DeliberatedKeepsVerdict DEF Waited, Final
    <2>2. ASSUME NEW report, report = "accepts" => res.rows["verification"].zero, pc' = "judge",
                 res' = [res EXCEPT !.evidence = report = "accepts", !.failed = @ \/ report # "accepts"]
          PROVE  VInv'
        <3>1. /\ res' \in Results /\ res'.rows = res.rows /\ res'.exit = res.exit
              /\ res.failed => res'.failed
              /\ res'.evidence = (report = "accepts") /\ res'.accepted = res.accepted
            BY <1>0, <2>2, ZenonT(30) DEF Results
        <3>2. Deliberated
            BY <1>0, <2>0, <2>2, <3>1, ZenonT(30) DEF Deliberated, Judged
        <3> QED
            BY <2>0, <2>2, <3>2, DeliberatedKeepsVerdict DEF Waited, Final
    <2> QED
        BY <1>2, <2>1, <2>2, ZenonT(30) DEF CAudit
<1>3. CASE CJudge
    <2>0. pc = "judge" /\ pc' = "commit" /\ rec' = rec
        BY <1>3 DEF CJudge
    <2>1. PICK late \in BOOLEAN, verdict \in BOOLEAN :
             /\ res' = [res EXCEPT !.timedOut = late, !.accepted = verdict]
             /\ verdict => /\ res.rows["guardian"].ok /\ res.evidence /\ ~res.failed /\ Children = {}
                           /\ \A p \in Phases : res.rows[p].ran => res.rows[p].clean
        <3> DEFINE late == res.timedOut \/ outer
                   verdict == /\ res.rows["guardian"].ok /\ ~late /\ ~pending
                              /\ Children = {} /\ res.rows["guardian"].ran
                              /\ \A p \in Phases : res.rows[p].ran => res.rows[p].clean
                              /\ res.evidence /\ ~res.failed
        <3>1. late \in BOOLEAN /\ verdict \in BOOLEAN
            OBVIOUS
        <3>2. verdict => /\ res.rows["guardian"].ok /\ res.evidence /\ ~res.failed /\ Children = {}
                         /\ \A p \in Phases : res.rows[p].ran => res.rows[p].clean
            OBVIOUS
        <3>3. res' = [res EXCEPT !.timedOut = late, !.accepted = verdict]
            BY <1>3, ZenonT(30) DEF CJudge
        <3> HIDE DEF late, verdict
        <3> QED
            BY <3>1, <3>2, <3>3, ZenonT(30)
    <2>2. /\ res' \in Results /\ res'.rows = res.rows /\ res'.exit = res.exit /\ res'.failed = res.failed
          /\ res'.evidence = res.evidence /\ res'.accepted = verdict
        BY <1>0, <2>1, ZenonT(30) DEF Results
    <2>3. res.evidence => res.rows["verification"].zero
        BY DEF VInv, VerdictInv
    <2>4. Deliberated
        BY <1>0, <2>0, <2>1, <2>2, <2>3, Childless DEF Deliberated, Judged
    <2> QED
        BY <2>0, <2>4, DeliberatedKeepsVerdict DEF Waited, Final
<1>4. CASE CCommit
    <2>0. pc = "commit" /\ pc' = "publish" /\ rec' = rec
        BY <1>4 DEF CCommit
    <2>1. /\ res' \in Results /\ res'.rows = res.rows /\ res'.exit = res.exit /\ res'.failed = res.failed
          /\ res'.evidence = res.evidence
          /\ res'.accepted => res.accepted
        BY <1>0, <1>4, ZenonT(30) DEF CCommit, Results
    <2>2. Deliberated
        BY <1>0, <2>0, <2>1 DEF VInv, VerdictInv, Deliberated, Judged
    <2> QED
        BY <2>0, <2>2, DeliberatedKeepsVerdict DEF Waited, Final
<1> QED
    BY <1>1, <1>2, <1>3, <1>4

\* The last steps of the Collector keep it: exit status 0 has all its grounds.
LEMMA CollectorEndsHonestly ==
    ASSUME Inv, VInv, CPublish \/ CExit PROVE VInv'
<1>0. /\ res \in Results /\ UNCHANGED <<role, tree, rec, outer, pending>> /\ role = "collector"
      /\ res.published \in BOOLEAN
    BY ZenonT(30) DEF VInv, CPublish, CExit, Quiet, Results
<1>1. CASE CPublish
    <2>0. pc = "publish"
        BY <1>1 DEF CPublish
    <2>1. CASE pc' = "exit" /\ res' = [res EXCEPT !.published = TRUE]
        <3>1. /\ res' \in Results /\ res'.rows = res.rows /\ res'.exit = res.exit /\ res'.failed = res.failed
              /\ res'.evidence = res.evidence /\ res'.accepted = res.accepted /\ res'.published
            BY <1>0, <2>1, ZenonT(30) DEF Results
        <3>2. Deliberated
            BY <1>0, <2>0, <2>1, <3>1 DEF VInv, VerdictInv, Deliberated, Judged
        <3> QED
            BY <2>0, <2>1, <3>2, DeliberatedKeepsVerdict DEF Waited, Final
    <2>2. CASE pc' = "done" /\ res' = [res EXCEPT !.exit = 2]
        <3>1. res' = [res EXCEPT !.published = res.published, !.exit = 2]
            BY <1>0, <2>2, ZenonT(30) DEF Results
        <3> QED
            BY <1>0, <2>0, <2>2, <3>1, LastWord, ZenonT(30)
    <2> QED
        BY <1>1, <2>1, <2>2 DEF CPublish
<1>2. CASE CExit
    <2>0. pc = "exit" /\ pc' = "done" /\ res.published
        BY <1>0, <1>2 DEF CExit, VInv, VerdictInv
    <2>1. CASE res' = [res EXCEPT !.exit = 1]
        <3>1. res' = [res EXCEPT !.published = res.published, !.exit = 1]
            BY <1>0, <2>1, ZenonT(30) DEF Results
        <3> QED
            BY <1>0, <2>0, <3>1, LastWord, ZenonT(30)
    <2>2. CASE res' = [res EXCEPT !.exit = 0] /\ res.accepted /\ ~pending /\ ~outer
        <3>0. UNCHANGED <<st, ended>> /\ NonFree' = NonFree
            BY <1>0 DEF tree, NonFree
        <3>1. /\ res' \in Results /\ res'.rows = res.rows /\ res'.exit = 0 /\ res'.failed = res.failed
              /\ res'.evidence = res.evidence /\ res'.accepted = res.accepted
              /\ res'.published = res.published
            BY <1>0, <2>2, ZenonT(30) DEF Results
        <3>2. /\ NonFree = {} /\ ~res.failed /\ res.rows["guardian"].zero /\ res.rows["verification"].zero
              /\ \A p \in Phases : res.rows[p].ran => res.rows[p].clean
            BY <2>2 DEF VInv, VerdictInv, RowInv, Phases
        <3>3. \A p \in Phases : ended[p] = "zero" /\ ~res.rows[p].signals /\ res.rows[p].clean
            BY <3>2 DEF VInv, RowInv, Phases
        <3>4. Live' = {}
            BY <3>0, <3>2 DEF Live, NonFree
        <3>5. ExitInv'
            BY <1>0, <2>0, <2>2, <3>0, <3>1, <3>3, <3>4 DEF ExitInv, ExitHonest, Done, Phases
        <3>6. CodeInv' /\ EndInv'
            BY <1>0, <2>0, <3>0 DEF VInv, CodeInv, EndInv, Waited, Final
        <3>7. RowInv'
            BY <1>0, <2>0, <3>0, <3>1 DEF VInv, RowInv, Final
        <3>8. VerdictInv'
            BY <1>0, <2>0, <3>0, <3>1 DEF VInv, VerdictInv, Judged
        <3> QED
            BY <3>1, <3>5, <3>6, <3>7, <3>8 DEF VInv
    <2> QED
        BY <1>2, <2>1, <2>2, ZenonT(30) DEF CExit
<1> QED
    BY <1>1, <1>2

\* Time, signals and changed files keep it.
LEMMA WorldKeepsVerdict ==
    ASSUME Inv, VInv, pc # "done", Tick \/ Deadline \/ Interrupt \/ Modify PROVE VInv'
<1>0. res \in Results /\ res.published \in BOOLEAN /\ UNCHANGED <<role, tree, rec>>
    BY ZenonT(30) DEF VInv, Results, Tick, Deadline, Interrupt, Modify, own
<1>1. CASE pc' = pc /\ res' = res
    <2>1. UNCHANGED <<role, st, ended, rec, pc, res>> /\ NonFree' = NonFree
        BY <1>0, <1>1 DEF tree, NonFree
    <2>2. CodeInv' /\ EndInv'
        BY <2>1 DEF VInv, CodeInv, EndInv
    <2>3. RowInv'
        BY <2>1 DEF VInv, RowInv
    <2>4. VerdictInv' /\ ExitInv'
        BY <2>1 DEF VInv, VerdictInv, ExitInv, Done
    <2> QED
        BY <2>1, <2>2, <2>3, <2>4 DEF VInv
<1>2. CASE pc' = "done" /\ res' = [res EXCEPT !.exit = 3]
    <2>1. res' = [res EXCEPT !.published = res.published, !.exit = 3]
        BY <1>0, <1>2, ZenonT(30) DEF Results
    <2> QED
        BY <1>0, <1>2, <2>1, LastWord, ZenonT(30)
<1> QED
    BY <1>1, <1>2 DEF Tick, Deadline, Interrupt, Modify, own

\* Every step keeps it.
LEMMA VerdictKept ==
    ASSUME Inv, VInv, [Next]_vars PROVE VInv'
<1>1. CASE UNCHANGED vars
    <2>1. UNCHANGED <<role, st, ended, rec, pc, res, outer, pending>> /\ NonFree' = NonFree /\ Live' = Live
        BY <1>1 DEF vars, tree, own, NonFree, Live
    <2>2. CodeInv' /\ EndInv' /\ RowInv' /\ VerdictInv'
        BY <2>1 DEF VInv, CodeInv, EndInv, RowInv, VerdictInv
    <2>3. ExitInv'
        BY <2>1 DEF VInv, ExitInv, ExitHonest, Done
    <2> QED
        BY <2>1, <2>2, <2>3 DEF VInv
<1>2. CASE Next
    BY <1>2, HarnessKeepsVerdict, StartKeepsVerdict, GuardianKeepsVerdict, WatchKeepsVerdict, RowKeepsVerdict,
       JudgementKeepsVerdict, CollectorEndsHonestly, BelowKeepsVerdict, WorldKeepsVerdict DEF Next, Steps
<1> QED
    BY <1>1, <1>2

\* ExitHonest for every number of processes, forks and failures: the Guardian exits with
\* 0 only when the Supervisor did by itself and left no process, the Collector only when
\* both children did, nobody was signalled, and neither a signal nor the deadline came
\* before the verdict was on disk (g4_launch.py main, d2_collect.py main).
THEOREM HonestExit == Spec => []ExitHonest
<1>1. Init => VInv
    <2> SUFFICES ASSUME Init PROVE VInv
        OBVIOUS
    <2>1. /\ res \in Results /\ ~res.evidence /\ ~res.accepted /\ res.exit = -1
          /\ \A p \in Phases : ~res.rows[p].ok /\ ~res.rows[p].zero /\ ~res.rows[p].signals
        BY ZenonT(30) DEF Init, NoRow, Results, Rows
    <2>2. /\ rec.code = "none" /\ ~rec.normal /\ rec.phase = "guardian" /\ st[Leader] = "free"
          /\ pc = "reserve"
        BY ContainmentAssumption DEF Init, NewRecord
    <2> QED
        BY <2>1, <2>2 DEF VInv, CodeInv, EndInv, RowInv, VerdictInv, ExitInv, Waited
<1>2. Inv /\ VInv /\ [Next]_vars => VInv'
    BY VerdictKept
<1>3. VInv => ExitHonest
    BY DEF VInv, ExitInv, ExitHonest
<1> QED
    BY <1>1, <1>2, <1>3, Invariance, PTL DEF Spec
====
