--------------------------- MODULE LifecycleProofs ---------------------------
(***************************************************************************)
(* The two parts of a process that MCProcesses checks side by side.  For any *)
(* number of handlers, dispatches and proofs: the order of the cleanup, and  *)
(* the slots of the proving limiter (Lifecycle).  For any number of workers:  *)
(* the choice of a worker is fair (Registry).                                *)
(***************************************************************************)
EXTENDS Lifecycle, Registry, FiniteSetTheorems, WellFoundedInduction, TLAPS

Places == {"out", "admitted", "running", "acquired", "proving", "proved", "gate"}

Stages == {"no", "startup", "handlers", "loops", "dispatch", "stop", "serve", "check", "metrics",
           "recheck", "store", "finish", "sent", "over"}

\* The stages after the last join.
Late == {"check", "metrics", "recheck", "store", "finish", "sent", "over"}

Shutdown == [pc : {"no", "begun", "cancelling", "waiting", "answered", "returned"}, expired : BOOLEAN,
             stopped : BOOLEAN, clean : Stages, answer : {"none", "failed", "complete"}, failed : BOOLEAN]

Types ==
    /\ role \in {"coordinator", "worker"}
    /\ startup \in {"store", "metrics", "start", "background", "over"}
    /\ held \in SUBSET {"store", "metrics"} /\ closed \in SUBSET held
    /\ serving \in BOOLEAN /\ draining \in BOOLEAN /\ ended \in BOOLEAN
    /\ loops \in SUBSET {"monitor", "recovery"}
    /\ dispatching \in Nat /\ closes \in Nat /\ slots \in Nat
    /\ rpc \in [Handlers -> [pc : Places, cancelled : BOOLEAN,
                             reply : {"none", "answered", "failed", "cancelled", "busy", "success"}]]
    /\ shut \in Shutdown

\* done is closed exactly when the gate is sealed and empty.
GateInv ==
    /\ closes = IF draining /\ Active = {} THEN 1 ELSE 0
    /\ draining <=> shut.pc # "no"
    /\ shut.pc \in {"no", "begun", "cancelling"} => shut.clean = "no"

\* What a role can be doing.
RoleInv ==
    /\ role = "worker" => loops = {} /\ dispatching = 0 /\ "store" \notin held /\ startup # "store"
    /\ role = "coordinator" => startup # "background"
    /\ startup \in {"store", "metrics", "start"} => loops = {} /\ ~serving
    /\ shut.clean \in {"dispatch", "recheck", "store"} => role = "coordinator"

\* What the cleanup has joined stays ended.
JoinInv ==
    /\ shut.clean \notin {"no", "startup"} => Ready
    /\ shut.clean \in {"loops", "dispatch"} /\ role = "coordinator" => closes > 0
    /\ shut.clean \in {"dispatch", "stop", "serve"} \cup Late => loops = {} /\ startup = "over"
    /\ shut.clean = "handlers" /\ role = "worker" => startup = "over"
    /\ shut.clean \in {"stop", "serve"} \cup Late => closes > 0 /\ dispatching = 0
    /\ shut.clean \in Late => ~serving

\* What was closed, and what the answer says of it.
CloseInv ==
    /\ closed # {} => shut.clean \in Late
    /\ shut.clean \in {"recheck", "store"} => held \cap {"metrics"} \subseteq closed
    /\ shut.clean = "finish" \/ shut.answer = "complete" => closed = held
    /\ shut.answer # "none" => shut.clean \in {"sent", "over"}
    /\ shut.pc \in {"answered", "returned"} /\ ~shut.failed => shut.answer = "complete"
    /\ shut.pc = "returned" /\ ~shut.failed => shut.clean = "over"

SlotInv ==
    /\ slots = Cardinality(Holders) /\ slots <= MaxProofs
    /\ \A h \in Handlers : /\ rpc[h].pc # "out" => rpc[h].reply = "none"
                           /\ rpc[h].reply = "success" => ~rpc[h].cancelled

Inv == Types /\ GateInv /\ RoleInv /\ JoinInv /\ CloseInv /\ SlotInv

(***************************************************************************)
(* Startup, loops, dispatches and Serve leave the handlers and shutdown     *)
(* alone.                                                                  *)
(***************************************************************************)
WorkStep == StartupFails \/ OpenStore \/ OpenMetrics \/ Start \/ ServeEnds \/ Dispatch \/ DispatchEnds
            \/ \E l \in loops : LoopEnds(l)

\* The work of a process, other than its handlers, keeps the invariant.
LEMMA WorkKeepsInv ==
    ASSUME Inv, WorkStep PROVE Inv'
<1>1. UNCHANGED <<rpc, slots, draining, closes, shut, closed, role, ended>>
    BY DEF WorkStep, StartupFails, OpenStore, OpenMetrics, Start, ServeEnds, Dispatch,
       DispatchEnds, LoopEnds, Gate
<1>2. SlotInv' /\ GateInv'
    BY <1>1 DEF Inv, SlotInv, GateInv, Holders, Active
<1> USE DEF Inv, Types, GateInv, RoleInv, JoinInv, CloseInv, Active, Ready, Late, Stages
<1>3. CASE StartupFails
    BY <1>1, <1>2, <1>3 DEF StartupFails
<1>4. CASE OpenStore
    BY <1>1, <1>2, <1>4 DEF OpenStore
<1>5. CASE OpenMetrics
    BY <1>1, <1>2, <1>5 DEF OpenMetrics
<1>6. CASE Start
    BY <1>1, <1>2, <1>6 DEF Start
<1>7. CASE ServeEnds
    BY <1>1, <1>2, <1>7, ZenonT(30) DEF ServeEnds
<1>8. CASE Dispatch
    BY <1>1, <1>2, <1>8 DEF Dispatch
<1>9. CASE DispatchEnds
    BY <1>1, <1>2, <1>9 DEF DispatchEnds
<1>10. CASE (\E l \in loops : LoopEnds(l))
    BY <1>1, <1>2, <1>10 DEF LoopEnds
<1> QED
    BY <1>3, <1>4, <1>5, <1>6, <1>7, <1>8, <1>9, <1>10, ZenonT(30) DEF WorkStep

(***************************************************************************)
(* The handlers.                                                           *)
(***************************************************************************)
Replies == {"none", "answered", "failed", "cancelled", "busy", "success"}

Holding == {"acquired", "proving", "proved"}

\* The slots counted when a handler takes one or gives one back.
LEMMA HolderCount ==
    ASSUME Inv, NEW h \in Handlers
    PROVE  /\ IsFiniteSet(Holders) /\ Cardinality(Holders) \in Nat
           /\ h \in Holders => Cardinality(Holders) > 0 /\ Cardinality(Holders \ {h}) = Cardinality(Holders) - 1
           /\ h \notin Holders => Cardinality(Holders \cup {h}) = Cardinality(Holders) + 1
<1>1. Holders \subseteq Handlers
    BY DEF Holders
<1>2. IsFiniteSet(Holders)
    BY <1>1, LifecycleAssumption, FS_Subset
<1>3. Cardinality(Holders) \in Nat
    BY <1>2, FS_CardinalityType
<1>4. ASSUME h \in Holders
      PROVE  Cardinality(Holders) > 0 /\ Cardinality(Holders \ {h}) = Cardinality(Holders) - 1
    <2>1. Cardinality(Holders \ {h}) = Cardinality(Holders) - 1
        BY <1>2, <1>4, FS_RemoveElement
    <2>2. Cardinality(Holders) # 0
        BY <1>2, <1>4, FS_EmptySet
    <2> QED
        BY <1>3, <2>1, <2>2
<1>5. ASSUME h \notin Holders PROVE Cardinality(Holders \cup {h}) = Cardinality(Holders) + 1
    BY <1>2, <1>5, FS_AddElement
<1> QED
    BY <1>2, <1>3, <1>4, <1>5

\* Leaving: one handler fewer, and done is closed by the last one.
LEMMA LeaveFacts ==
    ASSUME Inv, NEW h \in Handlers, h \in Active, NEW reply \in Replies, Leave(h, reply), UNCHANGED draining
    PROVE  /\ Active' = Active \ {h} /\ Holders' = Holders \ {h}
           /\ closes' \in Nat /\ closes' = IF draining /\ Active' = {} THEN 1 ELSE 0
           /\ rpc'[h].pc = "out" /\ rpc'[h].reply = reply /\ rpc'[h].cancelled = rpc[h].cancelled
           /\ rpc'[h] \in [pc : Places, cancelled : BOOLEAN, reply : Replies]
           /\ rpc' = [rpc EXCEPT ![h] = rpc'[h]]
<1>1. /\ rpc[h] \in [pc : Places, cancelled : BOOLEAN, reply : Replies]
      /\ rpc \in [Handlers -> [pc : Places, cancelled : BOOLEAN, reply : Replies]]
    BY DEF Inv, Types, Replies
<1>2. rpc' = [rpc EXCEPT ![h] = [rpc[h] EXCEPT !.pc = "out", !.reply = reply]]
    BY ZenonT(30) DEF Leave
<1>3. /\ rpc'[h].pc = "out" /\ rpc'[h].reply = reply /\ rpc'[h].cancelled = rpc[h].cancelled
      /\ rpc'[h] \in [pc : Places, cancelled : BOOLEAN, reply : Replies]
      /\ rpc' = [rpc EXCEPT ![h] = rpc'[h]]
    BY <1>1, <1>2, ZenonT(30) DEF Places
<1>4. Active' = Active \ {h} /\ Holders' = Holders \ {h}
    BY <1>1, <1>3 DEF Active, Holders
<1> QED
    BY <1>3, <1>4 DEF Inv, GateInv, Leave

\* Going on: the handler stays inside, with or without a slot.
LEMMA ToFacts ==
    ASSUME Inv, NEW h \in Handlers, h \in Active, NEW pc \in Places \ {"out"}, To(h, pc)
    PROVE  /\ Active' = Active /\ closes' = closes
           /\ Holders' = IF pc \in Holding THEN Holders \cup {h} ELSE Holders \ {h}
           /\ rpc'[h].pc = pc /\ rpc'[h].reply = rpc[h].reply /\ rpc'[h].cancelled = rpc[h].cancelled
           /\ rpc'[h] \in [pc : Places, cancelled : BOOLEAN, reply : Replies]
           /\ rpc' = [rpc EXCEPT ![h] = rpc'[h]]
<1>1. /\ rpc[h] \in [pc : Places, cancelled : BOOLEAN, reply : Replies]
      /\ rpc \in [Handlers -> [pc : Places, cancelled : BOOLEAN, reply : Replies]]
    BY DEF Inv, Types, Replies
<1>2. rpc' = [rpc EXCEPT ![h] = [rpc[h] EXCEPT !.pc = pc]]
    BY DEF To
<1>3. /\ rpc'[h].pc = pc /\ rpc'[h].reply = rpc[h].reply /\ rpc'[h].cancelled = rpc[h].cancelled
      /\ rpc'[h] \in [pc : Places, cancelled : BOOLEAN, reply : Replies]
      /\ rpc' = [rpc EXCEPT ![h] = rpc'[h]]
    BY <1>1, <1>2
<1> QED
    BY <1>1, <1>3 DEF Active, Holders, Holding, To

\* A step inside the gate, given what it does to the handler, the slots and done.
LEMMA InsideKeepsInv ==
    ASSUME Inv, NEW h \in Handlers, h \in Active \/ ~draining,
           UNCHANGED <<role, startup, held, serving, loops, dispatching, draining, ended, shut, closed>>,
           rpc'[h] \in [pc : Places, cancelled : BOOLEAN, reply : Replies],
           rpc' = [rpc EXCEPT ![h] = rpc'[h]],
           closes' \in Nat, closes' = IF draining /\ Active' = {} THEN 1 ELSE 0,
           rpc'[h].pc # "out" => rpc'[h].reply = "none",
           rpc'[h].reply = "success" => ~rpc'[h].cancelled,
           slots' \in Nat, slots' = Cardinality(Holders'), slots' <= MaxProofs
    PROVE  Inv'
<1>1. closes = 0
    BY DEF Inv, GateInv
<1>2. GateInv'
    BY DEF Inv, GateInv
<1>3. Types'
    BY DEF Inv, Types, Replies
<1>4. RoleInv' /\ CloseInv'
    BY DEF Inv, RoleInv, CloseInv
<1>5. JoinInv'
    BY <1>1 DEF Inv, JoinInv, Ready
<1>6. SlotInv'
    BY DEF Inv, SlotInv, Types
<1> QED
    BY <1>2, <1>3, <1>4, <1>5, <1>6 DEF Inv

\* A handler that leaves, with the slot it may own.
LEMMA LeavingKeepsInv ==
    ASSUME Inv, NEW h \in Handlers, h \in Active, NEW reply \in Replies, Leave(h, reply),
           UNCHANGED <<role, startup, held, serving, loops, dispatching, draining, ended, shut, closed>>,
           reply = "success" => ~rpc[h].cancelled,
           slots' = IF h \in Holders THEN slots - 1 ELSE slots
    PROVE  Inv'
<1>1. /\ Active' = Active \ {h} /\ Holders' = Holders \ {h}
      /\ closes' \in Nat /\ closes' = IF draining /\ Active' = {} THEN 1 ELSE 0
      /\ rpc'[h].pc = "out" /\ rpc'[h].reply = reply /\ rpc'[h].cancelled = rpc[h].cancelled
      /\ rpc'[h] \in [pc : Places, cancelled : BOOLEAN, reply : Replies]
      /\ rpc' = [rpc EXCEPT ![h] = rpc'[h]]
    BY LeaveFacts
<1>2. h \notin Holders => Holders' = Holders
    BY <1>1
<1>3. slots = Cardinality(Holders) /\ slots <= MaxProofs /\ MaxProofs \in Nat
    BY LifecycleAssumption DEF Inv, SlotInv
<1>4. Cardinality(Holders) \in Nat
    BY HolderCount, ZenonT(30)
<1>5. ASSUME h \in Holders PROVE slots' \in Nat /\ slots' = Cardinality(Holders') /\ slots' <= MaxProofs
    <2>1. Cardinality(Holders) > 0 /\ Cardinality(Holders') = Cardinality(Holders) - 1
        BY <1>1, <1>5, HolderCount
    <2> QED
        BY <1>3, <1>4, <1>5, <2>1
<1>6. slots' \in Nat /\ slots' = Cardinality(Holders') /\ slots' <= MaxProofs
    BY <1>2, <1>3, <1>4, <1>5
<1> QED
    BY <1>1, <1>6, InsideKeepsInv, ZenonT(30)

\* A handler that goes on, and takes or gives back a slot as its new place demands.
LEMMA GoingKeepsInv ==
    ASSUME Inv, NEW h \in Handlers, h \in Active, NEW pc \in Places \ {"out"}, To(h, pc),
           UNCHANGED <<role, startup, held, serving, loops, dispatching, draining, ended, shut, closed>>,
           slots' = IF h \in Holders /\ pc \notin Holding THEN slots - 1
                    ELSE IF h \notin Holders /\ pc \in Holding THEN slots + 1 ELSE slots,
           slots' <= MaxProofs
    PROVE  Inv'
<1>1. /\ Active' = Active /\ closes' = closes
      /\ Holders' = IF pc \in Holding THEN Holders \cup {h} ELSE Holders \ {h}
      /\ rpc'[h].pc = pc /\ rpc'[h].reply = rpc[h].reply /\ rpc'[h].cancelled = rpc[h].cancelled
      /\ rpc'[h] \in [pc : Places, cancelled : BOOLEAN, reply : Replies]
      /\ rpc' = [rpc EXCEPT ![h] = rpc'[h]]
    BY ToFacts
<1>2. /\ h \notin Holders => Holders \ {h} = Holders
      /\ h \in Holders => Holders \cup {h} = Holders
    OBVIOUS
<1>3. slots = Cardinality(Holders) /\ Cardinality(Holders) \in Nat
    BY HolderCount, ZenonT(30) DEF Inv, SlotInv
<1>4. ASSUME h \in Holders, pc \notin Holding PROVE slots' \in Nat /\ slots' = Cardinality(Holders')
    <2>1. Cardinality(Holders) > 0 /\ Cardinality(Holders') = Cardinality(Holders) - 1
        BY <1>1, <1>4, HolderCount
    <2> QED
        BY <1>3, <1>4, <2>1
<1>5. ASSUME h \notin Holders, pc \in Holding PROVE slots' \in Nat /\ slots' = Cardinality(Holders')
    <2>1. Cardinality(Holders') = Cardinality(Holders) + 1
        BY <1>1, <1>5, HolderCount
    <2> QED
        BY <1>3, <1>5, <2>1
<1>6. slots' \in Nat /\ slots' = Cardinality(Holders')
    BY <1>1, <1>2, <1>3, <1>4, <1>5, ZenonT(30)
<1>7. closes' \in Nat /\ closes' = IF draining /\ Active' = {} THEN 1 ELSE 0
    BY <1>1 DEF Inv, Types, GateInv
<1>8. rpc'[h].reply = "none"
    BY <1>1 DEF Inv, SlotInv, Active
<1> QED
    BY <1>1, <1>6, <1>7, <1>8, InsideKeepsInv, ZenonT(30)

\* Every step of a handler, from admission to its answer, keeps the invariant.
LEMMA HandlerKeepsInv ==
    ASSUME Inv, NEW h \in Handlers, Handler(h) PROVE Inv'
<1> USE DEF Work, Gate, Replies, Places, Holding
<1>0. /\ rpc \in [Handlers -> [pc : Places, cancelled : BOOLEAN, reply : Replies]]
      /\ slots \in Nat /\ slots <= MaxProofs
    BY DEF Inv, Types, SlotInv
<1>1. CASE Enter(h)
    <2>1. rpc' = [rpc EXCEPT ![h] = [pc |-> "admitted", cancelled |-> FALSE, reply |-> "none"]]
        BY <1>1 DEF Enter
    <2>2. /\ rpc'[h].pc = "admitted" /\ rpc'[h].reply = "none"
          /\ rpc'[h] \in [pc : Places, cancelled : BOOLEAN, reply : Replies] /\ rpc' = [rpc EXCEPT ![h] = rpc'[h]]
        BY <1>0, <2>1
    <2>3. Holders' = Holders
        BY <1>0, <1>1, <2>2 DEF Enter, Holders
    <2>4. /\ ~draining /\ closes' = 0 /\ slots' = slots
          
          /\ UNCHANGED <<role, startup, held, serving, loops, dispatching, draining, ended, shut, closed>>
        BY <1>1 DEF Enter, Inv, GateInv
    <2>5. slots' \in Nat /\ slots' = Cardinality(Holders') /\ slots' <= MaxProofs
        BY <1>0, <2>3, <2>4 DEF Inv, SlotInv
    <2> QED
        BY <2>2, <2>4, <2>5, InsideKeepsInv
<1>2. CASE Cancel(h)
    <2>1. rpc' = [rpc EXCEPT ![h] = [rpc[h] EXCEPT !.cancelled = TRUE]] /\ h \in Active
        BY <1>2 DEF Cancel
    <2>2. /\ rpc'[h].pc = rpc[h].pc /\ rpc'[h].reply = rpc[h].reply
          /\ rpc'[h] \in [pc : Places, cancelled : BOOLEAN, reply : Replies] /\ rpc' = [rpc EXCEPT ![h] = rpc'[h]]
        BY <1>0, <2>1, ZenonT(30)
    <2>3. Holders' = Holders /\ Active' = Active
        BY <1>0, <2>2 DEF Holders, Active
    <2>4. /\ closes' = closes /\ slots' = slots
          
          /\ UNCHANGED <<role, startup, held, serving, loops, dispatching, draining, ended, shut, closed>>
        BY <1>2 DEF Cancel
    <2>5. slots' \in Nat /\ slots' = Cardinality(Holders') /\ slots' <= MaxProofs
        BY <1>0, <2>3, <2>4 DEF Inv, SlotInv
    <2>6. closes' \in Nat /\ closes' = IF draining /\ Active' = {} THEN 1 ELSE 0
        BY <2>3, <2>4 DEF Inv, Types, GateInv
    <2>7. rpc'[h].reply = "none"
        BY <2>1, <2>2 DEF Inv, SlotInv, Active
    <2> QED
        BY <2>1, <2>2, <2>4, <2>5, <2>6, <2>7, InsideKeepsInv, ZenonT(30)
<1>3. CASE Admitted(h)
    <2>0. /\ h \in Active /\ h \notin Holders
          /\ UNCHANGED <<role, startup, held, serving, loops, dispatching, draining, ended, shut, closed>>
        BY <1>3 DEF Admitted, Active, Holders
    <2>1. CASE rpc[h].cancelled
        <3>1. Leave(h, "cancelled") /\ slots' = slots
            BY <1>0, <1>3, <2>0, <2>1, LifecycleAssumption DEF Admitted
        <3> QED
            BY <2>0, <3>1, <2>1, LeavingKeepsInv
    <2>2. CASE ~rpc[h].cancelled
        <3>1. To(h, "running") /\ slots' = slots /\ slots' <= MaxProofs
            BY <1>0, <1>3, <2>0, <2>2, LifecycleAssumption DEF Admitted
        <3> QED
            BY <2>0, <3>1, <2>2, GoingKeepsInv
    <2> QED
        BY <1>3, <2>1, <2>2
<1>4. CASE CoordinatorReturns(h)
    <2>0. /\ h \in Active /\ h \notin Holders
          /\ UNCHANGED <<role, startup, held, serving, loops, dispatching, draining, ended, shut, closed>>
        BY <1>4 DEF CoordinatorReturns, Active, Holders
    <2>1. Inv'
        <3>1. Leave(h, "answered") /\ slots' = slots
            BY <1>0, <1>4, <2>0, LifecycleAssumption DEF CoordinatorReturns
        <3> QED
            BY <2>0, <3>1, LeavingKeepsInv
    <2> QED
        BY <1>4, <2>1
<1>5. CASE Task(h)
    <2>0. /\ h \in Active /\ h \notin Holders
          /\ UNCHANGED <<role, startup, held, serving, loops, dispatching, draining, ended, shut, closed>>
        BY <1>5 DEF Task, Active, Holders
    <2>1. CASE Leave(h, "failed") /\ slots' = slots
        <3>1. Leave(h, "failed") /\ slots' = slots
            BY <1>0, <1>5, <2>0, <2>1, LifecycleAssumption DEF Task
        <3> QED
            BY <2>0, <3>1, <2>1, LeavingKeepsInv
    <2>2. CASE To(h, "gate") /\ slots' = slots
        <3>1. To(h, "gate") /\ slots' = slots /\ slots' <= MaxProofs
            BY <1>0, <1>5, <2>0, <2>2, LifecycleAssumption DEF Task
        <3> QED
            BY <2>0, <3>1, <2>2, GoingKeepsInv
    <2>3. CASE Leave(h, "cancelled") /\ slots' = slots
        <3>1. Leave(h, "cancelled") /\ slots' = slots
            BY <1>0, <1>5, <2>0, <2>3, LifecycleAssumption DEF Task
        <3> QED
            BY <2>0, <3>1, <2>3, LeavingKeepsInv
    <2>4. CASE Leave(h, "busy") /\ slots' = slots
        <3>1. Leave(h, "busy") /\ slots' = slots
            BY <1>0, <1>5, <2>0, <2>4, LifecycleAssumption DEF Task
        <3> QED
            BY <2>0, <3>1, <2>4, LeavingKeepsInv
    <2>5. CASE slots < MaxProofs /\ To(h, "acquired") /\ slots' = slots + 1
        <3>1. To(h, "acquired") /\ slots' = slots + 1 /\ slots' <= MaxProofs
            BY <1>0, <1>5, <2>0, <2>5, LifecycleAssumption DEF Task
        <3> QED
            BY <2>0, <3>1, <2>5, GoingKeepsInv
    <2> QED
        BY <1>5, <2>1, <2>2, <2>3, <2>4, <2>5 DEF Task
<1>6. CASE Acquired(h)
    <2>0. /\ h \in Active /\ h \in Holders
          /\ UNCHANGED <<role, startup, held, serving, loops, dispatching, draining, ended, shut, closed>>
        BY <1>6 DEF Acquired, Active, Holders
    <2>1. CASE rpc[h].cancelled
        <3>1. Leave(h, "cancelled") /\ slots' = slots - 1
            BY <1>0, <1>6, <2>0, <2>1, LifecycleAssumption DEF Acquired
        <3> QED
            BY <2>0, <3>1, <2>1, LeavingKeepsInv
    <2>2. CASE ~rpc[h].cancelled
        <3>1. To(h, "proving") /\ slots' = slots /\ slots' <= MaxProofs
            BY <1>0, <1>6, <2>0, <2>2, LifecycleAssumption DEF Acquired
        <3> QED
            BY <2>0, <3>1, <2>2, GoingKeepsInv
    <2> QED
        BY <1>6, <2>1, <2>2
<1>7. CASE ProveEnds(h)
    <2>0. /\ h \in Active /\ h \in Holders
          /\ UNCHANGED <<role, startup, held, serving, loops, dispatching, draining, ended, shut, closed>>
        BY <1>7 DEF ProveEnds, Active, Holders
    <2>1. CASE Leave(h, "failed") /\ slots' = slots - 1
        <3>1. Leave(h, "failed") /\ slots' = slots - 1
            BY <1>0, <1>7, <2>0, <2>1, LifecycleAssumption DEF ProveEnds
        <3> QED
            BY <2>0, <3>1, <2>1, LeavingKeepsInv
    <2>2. CASE To(h, "proved") /\ slots' = slots
        <3>1. To(h, "proved") /\ slots' = slots /\ slots' <= MaxProofs
            BY <1>0, <1>7, <2>0, <2>2, LifecycleAssumption DEF ProveEnds
        <3> QED
            BY <2>0, <3>1, <2>2, GoingKeepsInv
    <2> QED
        BY <1>7, <2>1, <2>2 DEF ProveEnds
<1>8. CASE TaskReturns(h)
    <2>0. /\ h \in Active /\ h \in Holders
          /\ UNCHANGED <<role, startup, held, serving, loops, dispatching, draining, ended, shut, closed>>
        BY <1>8 DEF TaskReturns, Active, Holders
    <2>1. CASE rpc[h].cancelled
        <3>1. Leave(h, "cancelled") /\ slots' = slots - 1
            BY <1>0, <1>8, <2>0, <2>1, LifecycleAssumption DEF TaskReturns
        <3> QED
            BY <2>0, <3>1, <2>1, LeavingKeepsInv
    <2>2. CASE ~rpc[h].cancelled
        <3>1. To(h, "gate") /\ slots' = slots - 1 /\ slots' <= MaxProofs
            BY <1>0, <1>8, <2>0, <2>2, LifecycleAssumption DEF TaskReturns
        <3> QED
            BY <2>0, <3>1, <2>2, GoingKeepsInv
    <2> QED
        BY <1>8, <2>1, <2>2
<1>9. CASE SuccessGate(h)
    <2>0. /\ h \in Active /\ h \notin Holders
          /\ UNCHANGED <<role, startup, held, serving, loops, dispatching, draining, ended, shut, closed>>
        BY <1>9, ZenonT(30) DEF SuccessGate, Active, Holders
    <2>1. CASE rpc[h].cancelled
        <3>1. Leave(h, "cancelled") /\ slots' = slots
            BY <1>0, <1>9, <2>0, <2>1, LifecycleAssumption, ZenonT(30) DEF SuccessGate
        <3> QED
            BY <2>0, <3>1, <2>1, LeavingKeepsInv
    <2>2. CASE ~rpc[h].cancelled
        <3>1. Leave(h, "success") /\ slots' = slots
            BY <1>0, <1>9, <2>0, <2>2, LifecycleAssumption DEF SuccessGate
        <3> QED
            BY <2>0, <3>1, <2>2, LeavingKeepsInv
    <2> QED
        BY <1>9, <2>1, <2>2
<1> QED
    BY <1>1, <1>2, <1>3, <1>4, <1>5, <1>6, <1>7, <1>8, <1>9 DEF Handler

(***************************************************************************)
(* Shutdown.                                                               *)
(***************************************************************************)
\* Cancelling all requests moves no handler.
LEMMA CancelledFacts ==
    ASSUME Inv, rpc' = CancelledActive, UNCHANGED slots
    PROVE  /\ Active' = Active /\ SlotInv'
           /\ rpc' \in [Handlers -> [pc : Places, cancelled : BOOLEAN, reply : Replies]]
<1>1. rpc \in [Handlers -> [pc : Places, cancelled : BOOLEAN, reply : Replies]]
    BY DEF Inv, Types, Replies
<1>2. \A h \in Handlers : /\ rpc'[h] \in [pc : Places, cancelled : BOOLEAN, reply : Replies]
                          /\ rpc'[h].pc = rpc[h].pc /\ rpc'[h].reply = rpc[h].reply
                          /\ h \notin Active => rpc'[h] = rpc[h]
    BY <1>1, ZenonT(30) DEF CancelledActive
<1>3. rpc' \in [Handlers -> [pc : Places, cancelled : BOOLEAN, reply : Replies]]
    BY <1>2 DEF CancelledActive
<1>4. Active' = Active /\ Holders' = Holders
    BY <1>2 DEF Active, Holders
<1>5. SlotInv'
    BY <1>2, <1>4 DEF Inv, SlotInv, Active
<1> QED
    BY <1>3, <1>4, <1>5

\* What the Worker closes is all it opened.
LEMMA OnlyMetrics ==
    ASSUME NEW opened, NEW done, done \subseteq opened, opened \subseteq {"metrics"}
    PROVE  done \cup ({"metrics"} \cap opened) = opened
BY ZenonT(30)

\* Metrics and then the store are all the Coordinator opened.
LEMMA MetricsAndStore ==
    ASSUME NEW opened, NEW done, done \subseteq opened, opened \subseteq {"store", "metrics"},
           opened \cap {"metrics"} \subseteq done
    PROVE  done \cup ({"store"} \cap opened) = opened
BY ZenonT(30)

\* The cleanup goroutine sends an answer: shutdown keeps its type.
LEMMA SentTyped ==
    ASSUME shut \in Shutdown, NEW answer \in {"failed", "complete"}, Sent(answer)
    PROVE  shut' \in Shutdown
BY ZenonT(30) DEF Sent, Shutdown, Stages

\* It goes on to the next stage: shutdown keeps its type.
LEMMA AdvanceTyped ==
    ASSUME shut \in Shutdown, Advances, Follows(shut.clean) \in Stages
    PROVE  shut' \in Shutdown
BY DEF Advances, Shutdown

\* Every step of shutdown, of its cleanup and of its deadline keeps the invariant.
LEMMA ShutdownKeepsInv ==
    ASSUME Inv, BeginShutdown \/ Caller \/ Expire \/ Stop \/ Cleanup PROVE Inv'
<1> USE DEF Work, Gate, Inv, Types, Shutdown, GateInv, RoleInv, JoinInv, CloseInv, Ready, Late, Stages
<1>0. rpc' = rpc => Active' = Active /\ (slots' = slots => SlotInv')
    BY ZenonT(30) DEF Inv, Active, SlotInv, Holders
<1>1. CASE BeginShutdown
    <2>1. Active' = Active /\ SlotInv'
        BY <1>0, <1>1 DEF BeginShutdown
    <2>2. Types'
        BY <1>1, <2>1 DEF BeginShutdown
    <2>3. GateInv' /\ RoleInv'
        BY <1>1, <2>1 DEF BeginShutdown
    <2>4. JoinInv'
        BY <1>1, <2>1 DEF BeginShutdown
    <2>5. CloseInv'
        BY <1>1, <2>1 DEF BeginShutdown
    <2> QED
        BY <2>1, <2>2, <2>3, <2>4, <2>5
<1>2. CASE CancelLoops
    <2>1. Active' = Active /\ SlotInv'
        BY <1>0, <1>2 DEF CancelLoops
    <2>2. Types'
        BY <1>2, <2>1 DEF CancelLoops
    <2>3. GateInv' /\ RoleInv'
        BY <1>2, <2>1 DEF CancelLoops
    <2>4. JoinInv'
        BY <1>2, <2>1 DEF CancelLoops
    <2>5. CloseInv'
        BY <1>2, <2>1 DEF CancelLoops
    <2> QED
        BY <2>1, <2>2, <2>3, <2>4, <2>5
<1>3. CASE Expire
    <2>1. Active' = Active /\ SlotInv'
        BY <1>0, <1>3 DEF Expire
    <2>2. Types'
        BY <1>3, <2>1, ZenonT(30) DEF Expire
    <2>3. GateInv' /\ RoleInv'
        BY <1>3, <2>1 DEF Expire
    <2>4. JoinInv'
        BY <1>3, <2>1 DEF Expire
    <2>5. CloseInv'
        BY <1>3, <2>1, ZenonT(30) DEF Expire
    <2> QED
        BY <2>1, <2>2, <2>3, <2>4, <2>5
<1>4. CASE Join
    <2>1. Active' = Active /\ SlotInv'
        BY <1>0, <1>4 DEF Join
    <2>2. /\ UNCHANGED <<role, Work, rpc, slots, Gate>> /\ closed' \in SUBSET held
          /\ shut'.pc = shut.pc /\ shut'.failed = shut.failed
        BY <1>4 DEF Join, Advances
    <2>3. /\ shut.clean \in {"startup", "handlers", "loops", "dispatch", "stop", "serve"}
          /\ closed' = closed /\ shut'.answer = shut.answer /\ shut'.clean = Follows(shut.clean)
        BY <1>4 DEF Join, Advances
    <2>4. /\ shut'.clean \in {"loops", "handlers", "dispatch", "stop", "serve", "check"}
          /\ shut.clean = "startup" => Ready /\ shut'.clean = (IF role = "worker" THEN "loops" ELSE "handlers")
          /\ shut.clean = "handlers" => closes > 0 /\ shut'.clean = (IF role = "worker" THEN "stop" ELSE "loops")
          /\ shut.clean = "loops" => /\ loops = {} /\ startup = "over"
                                    /\ shut'.clean = (IF role = "worker" THEN "handlers" ELSE "dispatch")
          /\ shut.clean = "dispatch" => dispatching = 0 /\ shut'.clean = "stop"
          /\ shut.clean = "stop" => shut'.clean = "serve"
          /\ shut.clean = "serve" => ~serving /\ shut'.clean = "check"
        BY <1>4, <2>3, ZenonT(30) DEF Join, Joined, Follows
    <2>5. shut' \in Shutdown
        BY <1>4, <2>3, <2>4, AdvanceTyped, ZenonT(30) DEF Join
    <2>6. Types' /\ GateInv' /\ RoleInv'
        BY <2>1, <2>2, <2>3, <2>4, <2>5
    <2>7. JoinInv'
        BY <2>1, <2>2, <2>3, <2>4, ZenonT(30)
    <2>8. CloseInv'
        BY <2>1, <2>2, <2>3, <2>4, ZenonT(30)
    <2> QED
        BY <2>1, <2>6, <2>7, <2>8
<1>5. CASE CheckDeadline
    <2>1. Active' = Active /\ SlotInv'
        BY <1>0, <1>5 DEF CheckDeadline
    <2>2. /\ UNCHANGED <<role, Work, rpc, slots, Gate>> /\ closed' \in SUBSET held
          /\ shut'.pc = shut.pc /\ shut'.failed = shut.failed
        <3>1. CASE shut.expired
            BY <1>5, <3>1, ZenonT(30) DEF CheckDeadline, Sent
        <3>2. CASE ~shut.expired
            BY <1>5, <3>2, ZenonT(30) DEF CheckDeadline, Advances
        <3> QED
            BY <3>1, <3>2
    <2>3. shut.clean \in {"check", "recheck"} /\ closed' = closed
        BY <1>5 DEF CheckDeadline, Sent
    <2>4. \/ shut'.clean = "sent" /\ shut'.answer = "failed"
          \/ /\ shut'.clean = (IF shut.clean = "check" THEN "metrics" ELSE "store")
             /\ shut'.answer = shut.answer
        <3>1. CASE shut.expired
            BY <1>5, <3>1, ZenonT(30) DEF CheckDeadline, Sent
        <3>2. CASE ~shut.expired
            BY <1>5, <3>2 DEF CheckDeadline, Advances, Follows
        <3> QED
            BY <3>1, <3>2
    <2>5. shut' \in Shutdown
        <3>1. Follows(shut.clean) \in Stages
            BY <2>3 DEF Follows
        <3> QED
            BY <1>5, <3>1, AdvanceTyped, SentTyped DEF CheckDeadline
    <2>6. Types' /\ GateInv' /\ RoleInv'
        BY <2>1, <2>2, <2>3, <2>4, <2>5, ZenonT(30)
    <2>7. JoinInv'
        BY <2>1, <2>2, <2>3, <2>4, ZenonT(30)
    <2>8. CloseInv'
        BY <2>1, <2>2, <2>3, <2>4, ZenonT(30)
    <2> QED
        BY <2>1, <2>6, <2>7, <2>8
<1>6. CASE Close
    <2>1. Active' = Active /\ SlotInv'
        BY <1>0, <1>6 DEF Close
    <2>2. /\ UNCHANGED <<role, Work, rpc, slots, Gate>> /\ closed' \in SUBSET held
          /\ shut'.pc = shut.pc /\ shut'.failed = shut.failed
        BY <1>6, ZenonT(30) DEF Close, Sent, Advances
    <2>3. shut.clean \in {"metrics", "store"}
        BY <1>6 DEF Close
    <2>4. \/ shut'.clean = "sent" /\ shut'.answer = "failed" /\ closed' = closed
          \/ /\ shut.clean = "metrics" /\ shut'.answer = shut.answer
             /\ shut'.clean = (IF role = "worker" THEN "finish" ELSE "recheck")
             /\ closed' = closed \cup ({"metrics"} \cap held)
          \/ /\ shut.clean = "store" /\ shut'.answer = shut.answer /\ shut'.clean = "finish"
             /\ closed' = closed \cup ({"store"} \cap held)
        BY <1>6, ZenonT(30) DEF Close, Sent, Advances, Follows
    <2>5. shut'.clean = "finish" => closed' = held
        <3>1. closed \subseteq held /\ held \subseteq {"store", "metrics"}
            OBVIOUS
        <3>2. CASE shut.clean = "metrics"
            <4>1. role = "worker" => held \subseteq {"metrics"}
                BY <3>1
            <4>2. shut'.clean = "finish" => role = "worker" /\ closed' = closed \cup ({"metrics"} \cap held)
                BY <2>4, <3>2
            <4> QED
                BY <3>1, <4>1, <4>2, OnlyMetrics, ZenonT(30)
        <3>3. CASE shut.clean = "store"
            <4>1. held \cap {"metrics"} \subseteq closed
                BY <3>3
            <4>2. shut'.clean = "finish" => closed' = closed \cup ({"store"} \cap held)
                BY <2>4, <3>3, ZenonT(30)
            <4> QED
                BY <3>1, <4>1, <4>2, MetricsAndStore, ZenonT(30)
        <3> QED
            BY <2>3, <3>2, <3>3
    <2>6. shut' \in Shutdown
        <3>1. Follows(shut.clean) \in Stages
            BY <2>3, ZenonT(30) DEF Follows
        <3> QED
            BY <1>6, <3>1, AdvanceTyped, SentTyped DEF Close
    <2>7. Types' /\ GateInv' /\ RoleInv'
        BY <2>1, <2>2, <2>3, <2>4, <2>5, <2>6, ZenonT(30)
    <2>8. JoinInv'
        BY <2>1, <2>2, <2>3, <2>4, ZenonT(30)
    <2>9. CloseInv'
        BY <2>1, <2>2, <2>3, <2>4, <2>5, ZenonT(30)
    <2> QED
        BY <2>1, <2>7, <2>8, <2>9
<1>7. CASE Finish
    <2>1. Active' = Active /\ SlotInv'
        BY <1>0, <1>7 DEF Finish
    <2>2. Types'
        BY <1>7, <2>1, ZenonT(30) DEF Finish, Sent
    <2>3. GateInv' /\ RoleInv'
        BY <1>7, <2>1 DEF Finish, Sent
    <2>4. JoinInv'
        BY <1>7, <2>1 DEF Finish, Sent
    <2>5. CloseInv'
        BY <1>7, <2>1, ZenonT(30) DEF Finish, Sent
    <2> QED
        BY <2>1, <2>2, <2>3, <2>4, <2>5
<1>8. CASE CleanupDone
    <2>1. Active' = Active /\ SlotInv'
        BY <1>0, <1>8 DEF CleanupDone
    <2>2. Types'
        BY <1>8, <2>1 DEF CleanupDone
    <2>3. GateInv' /\ RoleInv'
        BY <1>8, <2>1 DEF CleanupDone
    <2>4. JoinInv'
        BY <1>8, <2>1 DEF CleanupDone
    <2>5. CloseInv'
        BY <1>8, <2>1, ZenonT(30) DEF CleanupDone
    <2> QED
        BY <2>1, <2>2, <2>3, <2>4, <2>5
<1>9. CASE Await
    <2>1. Active' = Active /\ SlotInv'
        BY <1>0, <1>9 DEF Await
    <2>2. /\ UNCHANGED <<role, Work, Gate, closed>>
          /\ shut.pc \in {"waiting", "answered"} /\ shut'.pc \in {"answered", "returned"}
          /\ shut'.clean = shut.clean /\ shut'.answer = shut.answer
          /\ shut' \in Shutdown
        <3>1. CASE /\ shut.pc = "waiting"
                   /\ shut' = [shut EXCEPT !.pc = "answered", !.failed = shut.answer # "complete" \/ shut.expired]
            BY <1>9, <3>1, ZenonT(30) DEF Await
        <3>2. CASE shut.pc = "answered" /\ Returns(shut.failed)
            BY <1>9, <3>2, ZenonT(30) DEF Await, Returns
        <3>3. CASE shut.pc \in {"waiting", "answered"} /\ Returns(TRUE)
            BY <1>9, <3>3, ZenonT(30) DEF Await, Returns
        <3> QED
            BY <1>9, <3>1, <3>2, <3>3, ZenonT(30) DEF Await
    <2>3. ~shut'.failed => /\ shut.answer = "complete"
                           /\ shut'.pc = "returned" => shut.clean = "over"
        BY <1>9, ZenonT(30) DEF Await, Returns
    <2>4. Types'
        BY <1>9, <2>2 DEF Await
    <2>5. GateInv' /\ RoleInv' /\ JoinInv'
        BY <2>1, <2>2
    <2>6. CloseInv'
        BY <2>2, <2>3, ZenonT(30)
    <2> QED
        BY <2>1, <2>4, <2>5, <2>6
<1>10. CASE CancelRequests
    <2>1. /\ Active' = Active /\ SlotInv'
          /\ rpc' \in [Handlers -> [pc : Places, cancelled : BOOLEAN, reply : Replies]]
        BY <1>10, CancelledFacts DEF CancelRequests
    <2>2. Types' /\ RoleInv'
        BY <1>10, <2>1, ZenonT(30) DEF Replies, CancelRequests
    <2>3. GateInv' /\ JoinInv' /\ CloseInv'
        BY <1>10, <2>1, ZenonT(30) DEF CancelRequests
    <2> QED
        BY <2>1, <2>2, <2>3, ZenonT(30)
<1>11. CASE Stop
    <2>1. /\ Active' = Active /\ SlotInv'
          /\ rpc' \in [Handlers -> [pc : Places, cancelled : BOOLEAN, reply : Replies]]
        BY <1>11, CancelledFacts DEF Stop
    <2>2. Types' /\ RoleInv'
        BY <1>11, <2>1, ZenonT(30) DEF Replies, Stop
    <2>3. GateInv' /\ JoinInv' /\ CloseInv'
        BY <1>11, <2>1 DEF Stop
    <2> QED
        BY <2>1, <2>2, <2>3
<1> QED
    BY <1>1, <1>2, <1>3, <1>4, <1>5, <1>6, <1>7, <1>8, <1>9, <1>10, <1>11, ZenonT(30) DEF Caller, Cleanup

(***************************************************************************)
(* The theorems.                                                           *)
(***************************************************************************)
\* The invariant holds from the start of the process on.
LEMMA Invariance == Spec => []Inv
<1>1. Init => Inv
    <2> SUFFICES ASSUME Init PROVE Inv
        OBVIOUS
    <2>1. Active = {} /\ Holders = {}
        BY DEF Init, Active, Holders
    <2>2. Cardinality(Holders) = 0
        BY <2>1, FS_EmptySet
    <2>3. SlotInv
        BY <2>2, LifecycleAssumption DEF Init, SlotInv
    <2>4. Types
        BY ZenonT(30) DEF Init, Types, Shutdown, Places, Stages
    <2> QED
        BY <2>1, <2>3, <2>4 DEF Init, Inv, GateInv, RoleInv, JoinInv, CloseInv, Late
<1>2. Inv /\ [Next]_vars => Inv'
    <2> SUFFICES ASSUME Inv, [Next]_vars PROVE Inv'
        OBVIOUS
    <2>1. CASE WorkStep
        BY <2>1, WorkKeepsInv
    <2>2. ASSUME NEW h \in Handlers, Handler(h) PROVE Inv'
        BY <2>2, HandlerKeepsInv
    <2>3. CASE BeginShutdown \/ Caller \/ Expire \/ Stop \/ Cleanup
        BY <2>3, ShutdownKeepsInv, ZenonT(30)
    <2>4. CASE UNCHANGED vars
        BY <2>4 DEF vars, Inv, Types, Shutdown, GateInv, RoleInv, JoinInv, CloseInv, SlotInv, Active, Holders, Ready
    <2> QED
        BY <2>1, <2>2, <2>3, <2>4 DEF Next, WorkStep
<1> QED
    BY <1>1, <1>2, PTL DEF Spec

\* For any number of handlers and dispatches: nothing runs when the first resource
\* is closed, a successful shutdown has ended and closed everything, done is closed
\* once, and no dispatch is added while they are waited for (shutdown).
THEOREM OrderedCleanup == Spec => []CleanupOrdered
<1>1. Inv => CleanupOrdered
    <2> SUFFICES ASSUME Inv PROVE CleanupOrdered
        OBVIOUS
    <2>1. closes <= 1 /\ (closes > 0 => Active = {})
        BY DEF Inv, GateInv
    <2>2. Active = {} => slots = 0
        <3>1. Active = {} => Holders = {}
            BY DEF Active, Holders
        <3> QED
            BY <3>1, FS_EmptySet DEF Inv, SlotInv
    <2>3. shut.clean \in Late => Quiet /\ ~serving /\ slots = 0
        BY <2>1, <2>2 DEF Inv, JoinInv, Quiet
    <2>4. shut.clean = "dispatch" => Active = {} /\ loops = {}
        BY <2>1 DEF Inv, Types, Shutdown, RoleInv, JoinInv
    <2> QED
        BY <2>1, <2>3, <2>4 DEF Inv, CloseInv, CleanupOrdered, Late
<1> QED
    BY <1>1, Invariance, PTL

\* For any number of handlers and any limit: the slots taken are those of the
\* handlers that prove, and no cancelled request is answered with success.
THEOREM BoundedProving == Spec => []ProvingBounded
<1>1. Inv => ProvingBounded
    BY DEF Inv, SlotInv, ProvingBounded
<1> QED
    BY <1>1, Invariance, PTL

(***************************************************************************)
(* getNextWorker is fair: for any number of workers nobody is chosen twice   *)
(* while another worker is alive and waits.  The argument: count positions   *)
(* from the cursor.  Whoever was chosen while w waited is farther from the   *)
(* cursor than w, and the cursor stops at the first worker that is alive.    *)
(***************************************************************************)
\* How many positions the cursor moves before it looks at position i of the order.
Dist(i) == IF next < i THEN i - next - 1 ELSE i - next - 1 + Len(order)

RegistryTypes ==
    /\ status \in [Workers -> {"none", "Alive", "Dead"}] /\ order \in Seq(Workers)
    /\ passes \in [Workers -> [Workers \cup {Nobody} -> Nat]]
    /\ next \in Nat /\ (order # <<>> => next < Len(order)) /\ (order = <<>> => next = 0)

\* The order lists the known workers, each once.
Known ==
    /\ \A w \in Workers : status[w] # "none" => \E i \in 1..Len(order) : order[i] = w
    /\ \A i \in 1..Len(order) : status[order[i]] # "none"
    /\ \A i, j \in 1..Len(order) : order[i] = order[j] => i = j

\* Only workers that are alive wait, and for none that is nearer to the cursor.
Turns ==
    /\ \A w \in Workers : passes[w][Nobody] = 0
    /\ \A w, v \in Workers : /\ passes[w][v] <= 1
                             /\ passes[w][v] = 1 => status[w] = "Alive" /\ status[v] # "none"
    /\ \A i, j \in 1..Len(order) : passes[order[i]][order[j]] = 1 => Dist(i) < Dist(j)

RegistryInv == RegistryTypes /\ Known /\ Turns

\* A set of natural numbers that is not empty has a least element.
LEMMA LeastIn ==
    ASSUME NEW S \in SUBSET Nat, S # {}
    PROVE  Min(S) \in S /\ \A y \in S : Min(S) <= y
<1> DEFINE R == OpToRel(<, Nat)
<1>1. IsWellFoundedOn(R, Nat)
    BY NatLessThanWellFounded, ZenonT(30)
<1>2. \A x, y \in Nat : x < y => <<x, y>> \in R
    BY DEF OpToRel
<1> HIDE DEF R
<1>3. PICK x \in S : \A y \in S : ~(<<y, x>> \in R)
    BY <1>1, WFMin, ZenonT(30)
<1>4. \A y \in S : x \in Nat /\ y \in Nat /\ ~(y < x)
    BY <1>2, <1>3, ZenonT(30)
<1>5. \A y \in S : x <= y
    BY <1>4
<1> QED
    BY <1>5, ZenonT(30) DEF Min

\* One turn of the cursor: the remainder by the length is at most one subtraction.
LEMMA Wrap ==
    ASSUME NEW L \in Nat, L > 0, NEW n \in Nat, NEW i \in Nat, n < L, i <= L
    PROVE  (n + i) % L = IF n + i < L THEN n + i ELSE IF n + i < L + L THEN n + i - L ELSE 0
<1>1. CASE n + i < L
    BY <1>1
<1>2. CASE n + i >= L /\ n + i < L + L
    BY <1>2
<1> QED
    BY <1>1, <1>2

\* The position that the call looks at after skipping i is at distance i, and
\* every position is the one of its distance.
LEMMA Looked ==
    ASSUME RegistryTypes, order # <<>>
    PROVE  /\ \A i \in 0..(Len(order) - 1) :
                LET p == ((next + i) % Len(order)) + 1 IN p \in 1..Len(order) /\ Dist(p) = i
           /\ \A p \in 1..Len(order) :
                Dist(p) \in 0..(Len(order) - 1) /\ ((next + Dist(p)) % Len(order)) + 1 = p
<1> DEFINE L == Len(order)
<1>1. L \in Nat /\ L > 0 /\ next \in Nat /\ next < L
    BY DEF RegistryTypes
<1> HIDE DEF L
<1>2. ASSUME NEW i \in 0..(L - 1)
      PROVE  LET p == ((next + i) % L) + 1 IN p \in 1..L /\ Dist(p) = i
    <2>1. (next + i) % L = IF next + i < L THEN next + i ELSE next + i - L
        BY <1>1, Wrap
    <2> QED
        BY <1>1, <2>1 DEF Dist, L
<1>3. ASSUME NEW p \in 1..L
      PROVE  Dist(p) \in 0..(L - 1) /\ ((next + Dist(p)) % L) + 1 = p
    <2>1. Dist(p) = IF next < p THEN p - next - 1 ELSE p - next - 1 + L
        BY DEF Dist, L
    <2>2. Dist(p) \in 0..(L - 1) /\ next + Dist(p) = IF next < p THEN p - 1 ELSE p - 1 + L
        BY <1>1, <2>1
    <2>3. (next + Dist(p)) % L = p - 1
        <3> DEFINE d == Dist(p)
        <3>1. d \in Nat /\ d <= L /\ next + d = IF next < p THEN p - 1 ELSE p - 1 + L
            BY <1>1, <2>2
        <3> HIDE DEF d
        <3>2. (next + d) % L = IF next + d < L THEN next + d ELSE IF next + d < L + L THEN next + d - L ELSE 0
            BY <1>1, <3>1, Wrap
        <3>3. (next + d) % L = p - 1
            BY <1>1, <3>1, <3>2
        <3> QED
            BY <3>3 DEF d
    <2> QED
        BY <1>1, <2>2, <2>3
<1> QED
    BY <1>2, <1>3 DEF L

\* What a worker that does not wait has counted.
LEMMA NeverTyped ==
    /\ NeverPassed \in [Workers \cup {Nobody} -> Nat]
    /\ \A v \in Workers \cup {Nobody} : NeverPassed[v] = 0
<1> DEFINE D == Workers \cup {Nobody}
<1>1. NeverPassed = [v \in D |-> 0]
    BY DEF NeverPassed
<1> HIDE DEF D
<1>2. NeverPassed \in [D -> Nat] /\ \A v \in D : NeverPassed[v] = 0
    BY <1>1
<1> QED
    BY <1>2 DEF D

\* A choice takes the nearest worker that is alive, moves the cursor past it, and
\* leaves every worker that still waits nearer than those that went before.
LEMMA ChoiceKeepsInv ==
    ASSUME RegistryInv, Nobody \notin Workers, getNextWorker
    PROVE  RegistryInv'
<1> DEFINE at(i)  == order[((next + i) % Len(order)) + 1]
           found  == {i \in 0..(Len(order) - 1) : status[at(i)] = "Alive"}
           chosen == IF found = {} THEN Nobody ELSE at(Min(found))
<1>0. /\ next' = (IF found = {} THEN next ELSE Cursor(Min(found)))
      /\ passes' = [w \in Workers |->
           IF w = chosen \/ w \notin Alive THEN NeverPassed
           ELSE [passes[w] EXCEPT ![chosen] = Min({@ + 1, 2})]]
      /\ status' = status /\ order' = order
    BY ZenonT(30) DEF getNextWorker
<1>1. RegistryTypes /\ Known /\ Turns
    BY DEF RegistryInv
<1>2. CASE found = {}
    <2>1. Alive = {}
        <3> SUFFICES ASSUME NEW w \in Alive PROVE FALSE
            OBVIOUS
        <3>1. PICK p \in 1..Len(order) : order[p] = w
            BY <1>1 DEF Known, Alive
        <3>2. order # <<>>
            BY <3>1, <1>1 DEF RegistryTypes
        <3>3. Dist(p) \in 0..(Len(order) - 1) /\ at(Dist(p)) = w
            BY <1>1, <3>1, <3>2, Looked
        <3>4. status[at(Dist(p))] = "Alive"
            BY <3>3, ZenonT(30) DEF Alive
        <3> QED
            BY <1>2, <3>3, <3>4
    <2>2. passes' = [w \in Workers |-> NeverPassed] /\ next' = next
        BY <1>0, <1>2, <2>1
    <2>3. RegistryTypes'
        <3>1. passes' \in [Workers -> [Workers \cup {Nobody} -> Nat]]
            BY <2>2, NeverTyped
        <3> QED
            BY <1>0, <1>1, <2>2, <3>1, ZenonT(30) DEF RegistryTypes
    <2>7. Known'
        BY <1>0, <1>1, ZenonT(30) DEF Known
    <2>4. \A w \in Workers : \A v \in Workers \cup {Nobody} : passes'[w][v] = 0
        BY <2>2 DEF NeverPassed
    <2>5. \A i \in 1..Len(order) : order[i] \in Workers
        BY <1>1 DEF RegistryTypes
    <2>6. Turns'
        <3>1. \A i, j \in 1..Len(order) : passes'[order[i]][order[j]] = 0
            BY <2>4, <2>5
        <3>2. \A w \in Workers : passes'[w][Nobody] = 0 /\ \A v \in Workers : passes'[w][v] = 0
            BY <2>4
        <3>3. ASSUME NEW i \in 1..Len(order'), NEW j \in 1..Len(order')
              PROVE  passes'[order'[i]][order'[j]] # 1
            <4>1. order' = order
                BY <1>0, ZenonT(30)
            <4>2. passes'[order[i]][order[j]] = 0
                BY <3>1, <4>1
            <4> QED
                BY <4>1, <4>2
        <3>4. \A w, v \in Workers : passes'[w][v] <= 1 /\ passes'[w][v] # 1
            BY <3>2
        <3> QED
            BY <3>2, <3>3, <3>4, ZenonT(30) DEF Turns
    <2> QED
        BY <2>3, <2>6, <2>7 DEF RegistryInv
<1>3. CASE found # {}
    <2> DEFINE m == Min(found)
               L == Len(order)
               c == at(m)
    <2>1. m \in found /\ \A i \in found : m <= i
        <3>1. found \in SUBSET Nat
            BY <1>1 DEF RegistryTypes
        <3> QED
            BY <1>3, <3>1, LeastIn, ZenonT(30)
    <2>2. order # <<>> /\ L \in Nat /\ L > 0 /\ next \in Nat /\ next < L /\ m \in 0..(L - 1)
        BY <1>1, <2>1 DEF RegistryTypes
    <2>3. /\ chosen = c /\ c \in Workers /\ c \in Alive
          /\ next' = (next + m + 1) % L
        <3>1. ((next + m) % L) + 1 \in 1..L
            BY <1>1, <2>2, Looked, ZenonT(30)
        <3>2. c \in Workers
            BY <1>1, <3>1 DEF RegistryTypes
        <3>3. status[c] = "Alive"
            BY <2>1, ZenonT(30)
        <3> QED
            BY <1>0, <1>3, <3>2, <3>3, ZenonT(30) DEF Cursor, Alive
    <2>4. \A w \in Workers : passes'[w] = IF w = c \/ w \notin Alive THEN NeverPassed
                                          ELSE [passes[w] EXCEPT ![c] = Min({@ + 1, 2})]
        BY <1>0, <2>3, ZenonT(30)
    <2>5. PICK q \in 1..L : order[q] = c /\ Dist(q) = m
        BY <2>2, <1>1, Looked, ZenonT(30)
    <2>6. \A p \in 1..L : status[order[p]] = "Alive" => m <= Dist(p)
        <3> TAKE p \in 1..L
        <3>1. Dist(p) \in 0..(L - 1) /\ at(Dist(p)) = order[p]
            BY <1>1, <2>2, Looked, ZenonT(30)
        <3> QED
            BY <2>1, <3>1
    <2>7. \A p \in 1..L : p # q => Dist(p) # m
        <3> TAKE p \in 1..L
        <3> QED
            BY <1>1, <2>2, <2>5, Looked
    <2>16. \A p \in 1..L : order[p] \in Workers
        BY <1>1 DEF RegistryTypes
    <2> HIDE DEF m, c, found, chosen
    <2>8. \A p \in 1..L : Dist(p) \in 0..(L - 1)
        BY <1>1, <2>2, Looked
    <2>9. next' = (IF next + m + 1 < L THEN next + m + 1 ELSE next + m + 1 - L) /\ next' \in Nat /\ next' < L
        BY <2>2, <2>3, Wrap
    <2>10. \A p \in 1..L : Dist(p)' = IF Dist(p) > m THEN Dist(p) - m - 1 ELSE Dist(p) - m - 1 + L
        <3> TAKE p \in 1..L
        <3>1. Dist(p) = IF next < p THEN p - next - 1 ELSE p - next - 1 + L
            BY DEF Dist
        <3>2. Dist(p)' = IF next' < p THEN p - next' - 1 ELSE p - next' - 1 + L
            BY <1>0 DEF Dist
        <3> HIDE DEF L
        <3> QED
            BY <2>2, <2>8, <2>9, <3>1, <3>2
    <2>11. ASSUME NEW w \in Workers, w # c, w \in Alive
           PROVE  /\ passes[w][c] = 0
                  /\ \A v \in Workers \cup {Nobody} : passes'[w][v] = IF v = c THEN 1 ELSE passes[w][v]
                  /\ passes'[w] \in [Workers \cup {Nobody} -> Nat]
        <3>1. PICK p \in 1..L : order[p] = w
            BY <1>1, <2>11 DEF Known, Alive
        <3>2. m < Dist(p)
            BY <2>2, <2>5, <2>6, <2>7, <2>8, <2>11, <3>1 DEF Alive
        <3>3. ~(Dist(p) < Dist(q))
            BY <2>2, <2>5, <2>8, <3>2
        <3>4. passes[w][c] # 1 /\ passes[w][c] <= 1 /\ passes[w][c] \in Nat
            BY <1>1, <2>3, <2>5, <3>1, <3>3, ZenonT(30) DEF Turns, RegistryTypes
        <3>5. passes[w][c] = 0
            BY <3>4
        <3>6. Min({0 + 1, 2}) = 1
            <4>1. Min({1, 2}) \in {1, 2} /\ \A y \in {1, 2} : Min({1, 2}) <= y
                BY LeastIn
            <4> QED
                BY <4>1
        <3>7. passes'[w] = [passes[w] EXCEPT ![c] = 1]
            BY <2>4, <2>11, <3>5, <3>6, ZenonT(30)
        <3> QED
            <4> DEFINE D == Workers \cup {Nobody}
            <4>1. passes[w] \in [D -> Nat] /\ c \in D
                BY <1>1, <2>3, ZenonT(30) DEF RegistryTypes
            <4> HIDE DEF D
            <4>2. passes'[w] \in [D -> Nat] /\ \A v \in D : passes'[w][v] = IF v = c THEN 1 ELSE passes[w][v]
                BY <3>7, <4>1
            <4> QED
                BY <3>5, <4>2 DEF D
    <2>12. ASSUME NEW w \in Workers, w = c \/ w \notin Alive
           PROVE  passes'[w] = NeverPassed
        BY <2>4, <2>12, ZenonT(30)
    <2>13. RegistryTypes'
        <3>1. passes' \in [Workers -> [Workers \cup {Nobody} -> Nat]]
            <4>1. \A w \in Workers : passes'[w] \in [Workers \cup {Nobody} -> Nat]
                BY <2>11, <2>12, NeverTyped, ZenonT(30)
            <4> QED
                BY <1>0, <4>1, ZenonT(30)
        <3> QED
            BY <1>0, <1>1, <2>2, <2>9, <3>1, ZenonT(30) DEF RegistryTypes
    <2>14. Known'
        BY <1>0, <1>1 DEF Known
    <2>15. Turns'
        <3>1. \A w \in Workers : passes'[w][Nobody] = 0
            BY <1>1, <2>3, <2>11, <2>12 DEF NeverPassed, Turns
        <3>2. \A w, v \in Workers : /\ passes'[w][v] <= 1
                                    /\ passes'[w][v] = 1 => status[w] = "Alive" /\ status[v] # "none"
            <4> TAKE w, v \in Workers
            <4>1. CASE w = c \/ w \notin Alive
                BY <2>12, <4>1 DEF NeverPassed
            <4>2. CASE w # c /\ w \in Alive
                BY <1>1, <2>3, <2>11, <4>2 DEF Turns, Alive
            <4> QED
                BY <4>1, <4>2
        <3>3. ASSUME NEW i \in 1..L, NEW j \in 1..L, passes'[order[i]][order[j]] = 1
              PROVE  Dist(i)' < Dist(j)'
            <4>1. order[i] \in Workers /\ order[j] \in Workers
                BY <1>1, <2>16
            <4>6. NeverPassed[order[j]] # 1
                BY <4>1, NeverTyped
            <4>2. order[i] # c /\ order[i] \in Alive
                BY <2>12, <3>3, <4>1, <4>6, ZenonT(30)
            <4>3. i # q /\ m < Dist(i)
                BY <2>2, <2>5, <2>6, <2>7, <2>8, <4>2 DEF Alive
            <4>4. CASE order[j] = c
                <5>1. j = q
                    BY <1>1, <2>5, <4>4, ZenonT(30) DEF Known
                <5>2. Dist(j)' = L - 1 /\ Dist(i)' = Dist(i) - m - 1
                    BY <2>2, <2>5, <2>8, <2>10, <4>3, <5>1
                <5> QED
                    BY <2>2, <2>8, <5>2
            <4>5. CASE order[j] # c
                <5>1. passes[order[i]][order[j]] = 1
                    BY <2>11, <3>3, <4>1, <4>2, <4>5, ZenonT(30)
                <5>2. Dist(i) < Dist(j)
                    BY <1>1, <5>1 DEF Turns
                <5>3. Dist(i)' = Dist(i) - m - 1 /\ Dist(j)' = Dist(j) - m - 1
                    BY <2>2, <2>8, <2>10, <4>3, <5>2
                <5>4. Dist(i) \in Int /\ Dist(j) \in Int /\ m \in Int
                    BY <2>2, <2>8, <5>2
                <5> QED
                    BY <5>2, <5>3, <5>4
            <4> QED
                BY <4>4, <4>5
        <3> QED
            BY <1>0, <3>1, <3>2, <3>3, ZenonT(30) DEF Turns
    <2> QED
        BY <2>13, <2>14, <2>15 DEF RegistryInv
<1> QED
    BY <1>2, <1>3

\* A registration: an unknown worker is appended, and nobody has gone before it or
\* waited for it.
LEMMA RegistrationKeepsInv ==
    ASSUME RegistryInv, NEW w \in Workers, RegisterWorker(w), UNCHANGED <<next, passes>>
    PROVE  RegistryInv'
<1>0. RegistryTypes /\ Known /\ Turns /\ next' = next /\ passes' = passes
    BY DEF RegistryInv
<1>1. /\ status' \in [Workers -> {"none", "Alive", "Dead"}]
      /\ status'[w] = "Alive" /\ \A v \in Workers \ {w} : status'[v] = status[v]
    BY <1>0 DEF RegisterWorker, RegistryTypes
<1>2. CASE status[w] # "none"
    <2>1. order' = order
        BY <1>2 DEF RegisterWorker
    <2>6. RegistryTypes'
        BY <1>0, <1>1, <2>1, ZenonT(30) DEF RegistryTypes
    <2>7. \A i \in 1..Len(order) : order[i] \in Workers
        BY <1>0 DEF RegistryTypes
    <2>2. Known'
        BY <1>0, <1>1, <1>2, <2>1, <2>7, ZenonT(30) DEF Known
    <2>3. (\A i, j \in 1..Len(order) : passes[order[i]][order[j]] = 1 => Dist(i) < Dist(j))'
        BY <1>0, <2>1 DEF Turns, Dist
    <2>4. \A v \in Workers : (status[v] # "none" => status'[v] # "none") /\ (status[v] = "Alive" => status'[v] = "Alive")
        BY <1>1, ZenonT(30)
    <2>5. Turns'
        BY <1>0, <2>3, <2>4 DEF Turns
    <2> QED
        BY <2>2, <2>5, <2>6 DEF RegistryInv
<1>3. CASE status[w] = "none"
    <2> DEFINE L == Len(order)
    <2>1. order' = Append(order, w) /\ L \in Nat /\ \A i \in 1..L : order[i] \in Workers
        <3>1. order' = Append(order, w)
            BY <1>3 DEF RegisterWorker
        <3>2. order \in Seq(Workers)
            BY <1>0 DEF RegistryTypes
        <3> QED
            BY <3>1, <3>2
    <2>2. /\ Len(order') = L + 1 /\ order'[L + 1] = w /\ order' \in Seq(Workers)
          /\ \A i \in 1..L : order'[i] = order[i]
        BY <1>0, <2>1 DEF RegistryTypes
    <2>3. \A i \in 1..L : order[i] # w
        BY <1>0, <1>3 DEF Known
    <2>4. /\ order' # <<>> /\ next' \in Nat /\ next' < L + 1
        <3>1. next \in Nat /\ (next < L \/ next = 0)
            BY <1>0 DEF RegistryTypes
        <3>2. order' # <<>>
            BY <2>1, <2>2
        <3> QED
            BY <1>0, <2>1, <3>1, <3>2
    <2>5. RegistryTypes'
        BY <1>0, <1>1, <2>2, <2>4, ZenonT(30) DEF RegistryTypes
    <2>6. Known'
        <3>1. \A v \in Workers : status'[v] # "none" => \E i \in 1..(L + 1) : order'[i] = v
            BY <1>0, <1>1, <2>1, <2>2 DEF Known
        <3>2. \A i \in 1..(L + 1) : i \in 1..L \/ i = L + 1
            BY <2>1
        <3>3. \A i \in 1..(L + 1) : status'[order'[i]] # "none"
            BY <1>0, <1>1, <2>1, <2>2, <2>3, <3>2, ZenonT(30) DEF Known
        <3>4. \A i, j \in 1..(L + 1) : order'[i] = order'[j] => i = j
            BY <1>0, <2>2, <2>3, <3>2 DEF Known
        <3> QED
            BY <2>2, <3>1, <3>3, <3>4, ZenonT(30) DEF Known
    <2>7. \A v \in Workers : passes[w][v] # 1 /\ passes[v][w] # 1
        BY <1>0, <1>3 DEF Turns
    <2>8. ASSUME NEW i \in 1..(L + 1), NEW j \in 1..(L + 1), passes'[order'[i]][order'[j]] = 1
          PROVE  Dist(i)' < Dist(j)'
        <3>1. i # L + 1 /\ j # L + 1
            <4>1. order'[i] \in Workers /\ order'[j] \in Workers
                BY <2>2
            <4> QED
                BY <1>0, <2>2, <2>7, <2>8, <4>1
        <3>2. i \in 1..L /\ j \in 1..L
            BY <2>1, <3>1
        <3>3. Dist(i) < Dist(j)
            BY <1>0, <2>2, <2>8, <3>2 DEF Turns
        <3>4. next < L /\ next \in Nat
            BY <1>0, <3>2 DEF RegistryTypes
        <3>5. /\ Dist(i) = IF next < i THEN i - next - 1 ELSE i - next - 1 + L
              /\ Dist(j) = IF next < j THEN j - next - 1 ELSE j - next - 1 + L
              /\ Dist(i)' = IF next < i THEN i - next - 1 ELSE i - next - 1 + (L + 1)
              /\ Dist(j)' = IF next < j THEN j - next - 1 ELSE j - next - 1 + (L + 1)
            BY <1>0, <2>2, ZenonT(30) DEF Dist
        <3> HIDE DEF L
        <3> QED
            BY <2>1, <3>2, <3>3, <3>4, <3>5
    <2>9. \A v \in Workers : (status[v] # "none" => status'[v] # "none") /\ (status[v] = "Alive" => status'[v] = "Alive")
        BY <1>1
    <2>10. Turns'
        BY <1>0, <2>2, <2>8, <2>9 DEF Turns
    <2> QED
        BY <2>5, <2>6, <2>10 DEF RegistryInv
<1> QED
    BY <1>2, <1>3

\* A heartbeat, or the monitor: the order stays, and a worker that is taken for
\* dead no longer waits.
LEMMA StatusKeepsInv ==
    ASSUME RegistryInv, UNCHANGED <<order, next>>,
           status' \in [Workers -> {"none", "Alive", "Dead"}],
           \A w \in Workers : status[w] = "none" <=> status'[w] = "none",
           \A w \in Workers : \/ passes'[w] = passes[w] /\ (status[w] = "Alive" => status'[w] = "Alive")
                              \/ passes'[w] = NeverPassed,
           passes' = [w \in Workers |-> passes'[w]]
    PROVE  RegistryInv'
<1>0. RegistryTypes /\ Known /\ Turns /\ next' = next /\ order' = order
    BY DEF RegistryInv
<1>1. Known'
    <2>1. \A i \in 1..Len(order) : order[i] \in Workers
        BY <1>0 DEF RegistryTypes
    <2> QED
        BY <1>0, <2>1 DEF Known
<1>2. \A w \in Workers : passes'[w] \in [Workers \cup {Nobody} -> Nat]
    BY <1>0, NeverTyped, ZenonT(30) DEF RegistryTypes
<1>3. RegistryTypes'
    BY <1>0, <1>2, ZenonT(30) DEF RegistryTypes
<1>4. \A w, v \in Workers : passes'[w][v] = 0 \/ (passes'[w] = passes[w] /\ (status[w] = "Alive" => status'[w] = "Alive"))
    BY NeverTyped
<1>5. \A w \in Workers : passes'[w][Nobody] = 0
    BY <1>0, NeverTyped DEF Turns
<1>6. \A w, v \in Workers : /\ passes'[w][v] <= 1
                            /\ passes'[w][v] = 1 => status'[w] = "Alive" /\ status'[v] # "none"
    BY <1>0, <1>4 DEF Turns
<1>7. \A i \in 1..Len(order) : order[i] \in Workers
    BY <1>0 DEF RegistryTypes
<1>8. \A i, j \in 1..Len(order) : passes'[order[i]][order[j]] = 1 => passes[order[i]][order[j]] = 1
    BY <1>4, <1>7
<1>9. \A i \in 1..Len(order) : Dist(i)' = Dist(i)
    BY <1>0, ZenonT(30) DEF Dist
<1>10. Turns'
    BY <1>0, <1>5, <1>6, <1>8, <1>9 DEF Turns
<1> QED
    BY <1>1, <1>3, <1>10 DEF RegistryInv

\* The empty registry, at the start and after a restart.
LEMMA EmptyRegistry ==
    /\ [w \in Workers |-> "none"] \in [Workers -> {"none", "Alive", "Dead"}]
    /\ <<>> \in Seq(Workers) /\ Len(<<>>) = 0
    /\ [w \in Workers |-> NeverPassed] \in [Workers -> [Workers \cup {Nobody} -> Nat]]
    BY NeverTyped

\* Every step keeps the invariant.
LEMMA StepKeepsInv == RegistryInv /\ Nobody \notin Workers /\ [RegistryNext]_registryVars => RegistryInv'
<1> SUFFICES ASSUME RegistryInv, Nobody \notin Workers, [RegistryNext]_registryVars
             PROVE  RegistryInv'
    OBVIOUS
<1>0. RegistryTypes
    BY DEF RegistryInv
<1>1. CASE UNCHANGED <<status, order, next, passes>>
    BY <1>1, ZenonT(30) DEF RegistryInv, RegistryTypes, Known, Turns, Dist
<1>2. ASSUME NEW w \in Workers, StartWorker(w)
      PROVE  RegistryInv'
    BY <1>2, RegistrationKeepsInv DEF StartWorker
<1>3. ASSUME NEW w \in Workers, Reregister(w)
      PROVE  RegistryInv'
    <2>1. CASE RegisterWorker(w) /\ UNCHANGED budget
        BY <1>3, <2>1, RegistrationKeepsInv DEF Reregister
    <2>2. CASE Trouble /\ UNCHANGED <<status, silent, order>>
        BY <1>1, <1>3, <2>2 DEF Reregister
    <2> QED
        BY <1>3, <2>1, <2>2 DEF Reregister
<1>4. ASSUME NEW w \in Workers, Heartbeat(w)
      PROVE  RegistryInv'
    <2>1. CASE status[w] = "none"
        BY <1>1, <1>4, <2>1 DEF Heartbeat
    <2>2. CASE status[w] # "none"
        <3>1. status' = [status EXCEPT ![w] = "Alive"] /\ UNCHANGED <<order, next, passes>>
            BY <1>4, <2>2 DEF Heartbeat
        <3>2. /\ status' \in [Workers -> {"none", "Alive", "Dead"}]
              /\ \A v \in Workers : (status[v] = "none" <=> status'[v] = "none")
                                    /\ (status[v] = "Alive" => status'[v] = "Alive")
            BY <1>0, <2>2, <3>1 DEF RegistryTypes
        <3>3. passes' = [v \in Workers |-> passes'[v]] /\ \A v \in Workers : passes'[v] = passes[v]
            BY <1>0, <3>1, ZenonT(30) DEF RegistryTypes
        <3> QED
            BY <3>1, <3>2, <3>3, StatusKeepsInv
    <2> QED
        BY <2>1, <2>2
<1>5. ASSUME checkWorkerLiveness
      PROVE  RegistryInv'
    <2> DEFINE dead == {w \in Alive : silent[w] > Timeout}
    <2>1. /\ status' = [w \in Workers |-> IF w \in dead THEN "Dead" ELSE status[w]]
          /\ passes' = [w \in Workers |-> IF w \in dead THEN NeverPassed ELSE passes[w]]
          /\ UNCHANGED <<order, next>>
        BY <1>5 DEF checkWorkerLiveness
    <2>2. \A w \in dead : status[w] = "Alive"
        BY DEF Alive
    <2> HIDE DEF dead
    <2>3. /\ status' \in [Workers -> {"none", "Alive", "Dead"}]
          /\ \A v \in Workers : status[v] = "none" <=> status'[v] = "none"
        BY <1>0, <2>1, <2>2, ZenonT(30) DEF RegistryTypes
    <2>4. \A v \in Workers : \/ passes'[v] = passes[v] /\ (status[v] = "Alive" => status'[v] = "Alive")
                             \/ passes'[v] = NeverPassed
        BY <2>1
    <2>5. passes' = [v \in Workers |-> passes'[v]]
        BY <2>1
    <2> QED
        BY <2>1, <2>3, <2>4, <2>5, StatusKeepsInv, ZenonT(30)
<1>6. CASE getNextWorker
    BY <1>6, ChoiceKeepsInv
<1>7. CASE RestartCoordinator
    <2>1. /\ status' = [w \in Workers |-> "none"] /\ order' = <<>> /\ next' = 0
          /\ passes' = [w \in Workers |-> NeverPassed]
        BY <1>7 DEF RestartCoordinator
    <2>2. /\ RegistryTypes' /\ Len(order') = 0 /\ \A w \in Workers : status'[w] = "none"
          /\ \A w \in Workers : passes'[w][Nobody] = 0 /\ \A v \in Workers : passes'[w][v] = 0
        <3>1. RegistryTypes' /\ Len(order') = 0
            BY <2>1, EmptyRegistry, ZenonT(30) DEF RegistryTypes
        <3>2. \A w \in Workers : status'[w] = "none" /\ passes'[w] = NeverPassed
            BY <2>1
        <3> QED
            BY <3>1, <3>2, NeverTyped
    <2>3. (1..Len(order')) = {}
        BY <2>2
    <2>4. \A w, v \in Workers : passes'[w][v] <= 1 /\ passes'[w][v] # 1
        BY <2>2
    <2>5. \A i \in 1..Len(order') : FALSE
        BY <2>3
    <2>6. Known'
        BY <2>2, <2>5, ZenonT(30) DEF Known
    <2>7. Turns'
        BY <2>2, <2>4, <2>5 DEF Turns
    <2> QED
        BY <2>2, <2>6, <2>7 DEF RegistryInv
<1>8. CASE \E w \in Workers : Crash(w)
    BY <1>1, <1>8, ZenonT(30) DEF Crash
<1>9. CASE Tick
    BY <1>1, <1>9 DEF Tick
<1> QED
    BY <1>1, <1>2, <1>3, <1>4, <1>5, <1>6, <1>7, <1>8, <1>9, ZenonT(30) DEF RegistryNext, registryVars

\* getNextWorker is fair, for any number of workers: while a worker is alive nobody
\* is chosen twice before it, and a choice finds a worker whenever there is one.
THEOREM FairTurns == RegistrySpec => []RoundRobin
<1>1. ASSUME RegistryInit
      PROVE  RegistryInv
    <2>1. /\ RegistryTypes /\ Len(order) = 0 /\ \A w \in Workers : status[w] = "none"
          /\ \A w \in Workers : passes[w][Nobody] = 0 /\ \A v \in Workers : passes[w][v] = 0
        <3>1. RegistryTypes /\ Len(order) = 0
            BY <1>1, EmptyRegistry, ZenonT(30) DEF RegistryInit, RegistryTypes
        <3>2. \A w \in Workers : status[w] = "none" /\ passes[w] = NeverPassed
            BY <1>1 DEF RegistryInit
        <3> QED
            BY <3>1, <3>2, NeverTyped
    <2>2. (1..Len(order)) = {}
        BY <2>1
    <2>3. \A w, v \in Workers : passes[w][v] <= 1 /\ passes[w][v] # 1
        BY <2>1
    <2>4. \A i \in 1..Len(order) : FALSE
        BY <2>2
    <2>5. Known
        BY <2>1, <2>4 DEF Known
    <2>6. Turns
        BY <2>1, <2>3, <2>4 DEF Turns
    <2> QED
        BY <2>1, <2>5, <2>6 DEF RegistryInv
<1>2. RegistryInv => RoundRobin
    BY DEF RegistryInv, Turns, RoundRobin
<1>3. RegistryInv /\ [RegistryNext]_registryVars => RegistryInv'
    BY RegistryAssumption, StepKeepsInv
<1> QED
    BY <1>1, <1>2, <1>3, PTL DEF RegistrySpec
====
