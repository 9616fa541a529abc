---------------------------- MODULE G4RunProofs ----------------------------
(***************************************************************************)
(* For any number of samples, failing calls and signals, and with both      *)
(* Supervisors: the run implements what the start barrier promises, and what *)
(* the Supervisor reports of the run is true.                               *)
(***************************************************************************)
EXTENDS G4Run, TLAPS

(***************************************************************************)
(* The three processes, as far as the barrier is concerned.                *)
(***************************************************************************)
SupFields == {"pc", "proc", "reason", "errors", "owner", "buf", "hello", "identified", "pre", "begin", "ack",
              "done", "link", "st", "tr", "pending", "code", "clean", "inner", "complete", "success"}

BootFields == {"pc", "dialled", "owner", "monitor", "event", "st", "tr", "error", "storage", "primary", "sig",
               "killed", "clean", "success", "result", "outcome", "code"}

StFields == {"seq", "last", "readyEnd", "ack", "failed"}

Lines == {"ready", "released"}

Holds(e, fields) == fields \subseteq DOMAIN e /\ StFields \subseteq DOMAIN e.st /\ e.st.seq \in Nat

IsSeq(q) == \E S : q \in Seq(S)

Shape ==
    /\ Holds(sup, SupFields) /\ Holds(boot, BootFields)
    /\ {"st", "pc", "code", "killed"} \subseteq DOMAIN tgt
    /\ {"toBoot", "toSup", "sup", "boot"} \subseteq DOMAIN chan
    /\ {"toSup", "toTgt", "dialled", "sup", "tgt"} \subseteq DOMAIN ipc
    /\ sup.hello \in BOOLEAN /\ sup.done \in BOOLEAN /\ sup.buf \in Seq(Lines) /\ ipc.toSup \in Seq(Lines)
    /\ tgt.pc \in {"start", "wait", "work"} /\ ipc.toTgt \in BOOLEAN
    /\ IsSeq(rows) /\ IsSeq(chan.toBoot) /\ clock \in Nat /\ mode \in {"g4", "legacy"}

AtWork == tgt.pc = "work"

\* The target says two lines, "ready" and "released", and each is read once.
Read(s) == IF s.done THEN 2 ELSE IF s.hello THEN 1 ELSE 0

Said(t) == IF t.pc = "start" THEN 0 ELSE IF t.pc = "wait" THEN 1 ELSE 2

LineInv == Read(sup) + Len(sup.buf) + Len(ipc.toSup) <= Said(tgt) /\ (sup.done => sup.hello)

\* Nothing is released before the observation that its mode asks for.
Seen == IF mode = "g4" THEN Covers("readiness") ELSE sup.pre # None

GateInv ==
    /\ sup.pc = "before" => mode = "g4"
    /\ sup.pc = "release" \/ ipc.toTgt => Seen
    /\ AtWork => ipc.toTgt

\* Who knows that the target is at work.
AckInv ==
    /\ sup.ack # None => AtWork
    /\ sup.done => sup.ack # None
    /\ \A i \in DOMAIN chan.toBoot : chan.toBoot[i].seq = 3 => AtWork
    /\ Covers("workload") => AtWork

\* Bootstrap samples for the workload only when it has been told.
BootInv ==
    /\ sup.pc = "launch" => boot.pc = "none"
    /\ boot.pc \in {"none", "connect", "confirm", "start", "owner"} => boot.st.seq = 0
    /\ boot.pc \in {"loop", "sample"} /\ boot.st.seq >= 3 => AtWork

\* The last receipt was looked up in the stream.
ReceiptInv == mode = "g4" /\ sup.reason = "none" /\ sup.st.seq = 5 => Covers("workload")

Inv == Shape /\ LineInv /\ GateInv /\ AckInv /\ BootInv /\ ReceiptInv

\* What the Supervisor remembers of the barrier.
Kept(s, t) == /\ DOMAIN t = DOMAIN s /\ t.hello = s.hello /\ t.done = s.done /\ t.buf = s.buf
              /\ t.pre = s.pre /\ t.ack = s.ack

\* An exception ends the loop for a reason.
LEMMA RaiseFacts ==
    ASSUME NEW s, SupFields \subseteq DOMAIN s
    PROVE  /\ Kept(s, SRaise(s)) /\ SRaise(s).pc = "term" /\ SRaise(s).reason # "none"
           /\ SRaise(s).st = s.st
BY DEF SRaise, SFail, Kept, SupFields

\* So does a condition of the loop.
LEMMA FailFacts ==
    ASSUME NEW s, SupFields \subseteq DOMAIN s, NEW why, why # "none"
    PROVE  /\ Kept(s, SFail(s, why)) /\ SFail(s, why).pc = "term" /\ SFail(s, why).reason # "none"
           /\ SFail(s, why).st = s.st
BY DEF SFail, Kept, SupFields

\* An accepted frame is the next one.
LEMMA AcceptsFacts ==
    ASSUME NEW st, NEW m, NEW now, Accepts(st, m, now)
    PROVE  m.seq = st.seq
BY DEF Accepts

\* A frame, sent or not, is counted.
LEMMA SentFacts ==
    ASSUME NEW e, NEW m, {"st", "tr"} \subseteq DOMAIN e, StFields \subseteq DOMAIN e.st, e.st.seq \in Nat
    PROVE  /\ DOMAIN Sent(e, m) = DOMAIN e /\ DOMAIN NotSent(e, m) = DOMAIN e
           /\ DOMAIN Sent(e, m).st = DOMAIN e.st /\ DOMAIN NotSent(e, m).st = DOMAIN e.st
           /\ Sent(e, m).st.seq = e.st.seq + 1 /\ NotSent(e, m).st.seq = e.st.seq + 1
           /\ \A f \in DOMAIN e \ {"st", "tr"} : Sent(e, m)[f] = e[f] /\ NotSent(e, m)[f] = e[f]
<1>1. DOMAIN Accepted(e.st, m) = DOMAIN e.st /\ Accepted(e.st, m).seq = e.st.seq + 1
    BY DEF Accepted, StFields
<1> QED
    BY <1>1, ZenonT(30) DEF Sent, NotSent

\* A poisoned endpoint has the same count.
LEMMA FailedFacts ==
    ASSUME NEW e, {"st", "tr"} \subseteq DOMAIN e, StFields \subseteq DOMAIN e.st, e.st.seq \in Nat
    PROVE  /\ DOMAIN Failed(e) = DOMAIN e /\ DOMAIN Failed(e).st = DOMAIN e.st
           /\ Failed(e).st.seq = e.st.seq
           /\ \A f \in DOMAIN e \ {"st", "tr"} : Failed(e)[f] = e[f]
BY ZenonT(30) DEF Failed, StFields

(***************************************************************************)
(* A step that the barrier does not see.                                   *)
(***************************************************************************)
SupQuiet ==
    /\ Kept(sup, sup') /\ Holds(sup', SupFields)
    /\ sup'.reason = "none" => /\ sup.reason = "none"
                               /\ sup'.st.seq = sup.st.seq \/ sup'.st.seq # 5 \/ Covers("workload")
    /\ sup'.pc = "before" => sup.pc = "before"
    /\ sup'.pc = "release" => sup.pc = "release" \/ Seen
    /\ sup'.pc = "launch" => sup.pc = "launch" /\ boot' = boot

BootQuiet ==
    /\ Holds(boot', BootFields)
    /\ boot'.pc \in {"none", "connect", "confirm", "start", "owner"} => boot'.st.seq = 0
    /\ boot'.pc \in {"loop", "sample"} /\ boot'.st.seq >= 3 => AtWork
    /\ sup'.pc = "launch" => boot'.pc = "none"

ChanQuiet ==
    /\ DOMAIN chan' = DOMAIN chan /\ IsSeq(chan'.toBoot)
    /\ \A i \in DOMAIN chan'.toBoot : chan'.toBoot[i].seq = 3 => AtWork

WorldQuiet ==
    /\ DOMAIN tgt' = DOMAIN tgt /\ tgt'.pc = tgt.pc
    /\ DOMAIN ipc' = DOMAIN ipc /\ ipc'.toTgt = ipc.toTgt /\ ipc'.toSup \in Seq(Lines)
    /\ Len(ipc'.toSup) <= Len(ipc.toSup)
    /\ rows' = rows /\ clock' \in Nat /\ mode' = mode

\* At most one thing that the barrier speaks of comes about in a step.
Ready == Covers("readiness")

Confirmed == Covers("workload")

Sampled == sup.pre # None

Acknowledged == sup.ack # None

Released == ipc.toTgt

Move ==
    /\ mode' = mode
    /\ (Ready => Ready') /\ (Confirmed => Confirmed') /\ (AtWork => AtWork') /\ (Released => Released')
    /\ (Sampled => Sampled') /\ (Acknowledged => Acknowledged')
    /\ \E what \in {"ready", "confirmed", "work", "released", "sampled", "acknowledged"} :
          /\ what # "ready" => (Ready' <=> Ready)
          /\ what # "confirmed" => (Confirmed' <=> Confirmed)
          /\ what # "work" => (AtWork' <=> AtWork)
          /\ what # "released" => (Released' <=> Released)
          /\ what # "sampled" => (Sampled' <=> Sampled)
          /\ what # "acknowledged" => (Acknowledged' <=> Acknowledged)

\* Quiet, except that the target may be sampled or released by the Supervisor.
GateStep ==
    /\ DOMAIN sup' = DOMAIN sup /\ Holds(sup', SupFields)
    /\ sup'.hello = sup.hello /\ sup'.done = sup.done /\ sup'.buf = sup.buf /\ sup'.ack = sup.ack
    /\ sup'.reason = "none" => /\ sup.reason = "none"
                               /\ sup'.st.seq = sup.st.seq \/ sup'.st.seq # 5 \/ Covers("workload")
    /\ sup'.pc = "before" => mode = "g4"
    /\ sup'.pc = "release" \/ ipc'.toTgt => Seen'
    /\ DOMAIN tgt' = DOMAIN tgt /\ tgt'.pc = tgt.pc
    /\ DOMAIN ipc' = DOMAIN ipc /\ ipc'.toTgt \in BOOLEAN /\ ipc'.toSup \in Seq(Lines)
    /\ Len(ipc'.toSup) <= Len(ipc.toSup)
    /\ rows' = rows /\ clock' \in Nat /\ mode' = mode
    /\ (Sampled => Sampled') /\ (Released => Released')
    /\ (Sampled' <=> Sampled) \/ (Released' <=> Released)

\* Sampling and releasing keep the invariant when their mode's observation is there.
LEMMA GateKeepsInv ==
    ASSUME Inv, GateStep, BootQuiet, ChanQuiet
    PROVE  Inv' /\ Move
<1>0. /\ (AtWork' <=> AtWork) /\ (Ready' <=> Ready) /\ (Confirmed' <=> Confirmed)
      /\ (Acknowledged' <=> Acknowledged)
    BY DEF AtWork, Ready, Confirmed, Acknowledged, Covers, GateStep
<1>1. Shape'
    <2>1. /\ Holds(sup, SupFields)' /\ Holds(boot, BootFields)'
          /\ ({"st", "pc", "code", "killed"} \subseteq DOMAIN tgt)'
          /\ ({"toBoot", "toSup", "sup", "boot"} \subseteq DOMAIN chan)'
          /\ ({"toSup", "toTgt", "dialled", "sup", "tgt"} \subseteq DOMAIN ipc)'
        BY DEF Inv, Shape, Holds, GateStep, BootQuiet, ChanQuiet
    <2>2. /\ sup'.hello \in BOOLEAN /\ sup'.done \in BOOLEAN /\ sup'.buf \in Seq(Lines)
          /\ ipc'.toSup \in Seq(Lines) /\ tgt'.pc \in {"start", "wait", "work"} /\ ipc'.toTgt \in BOOLEAN
          /\ clock' \in Nat /\ mode' \in {"g4", "legacy"}
        BY DEF Inv, Shape, GateStep
    <2>3. IsSeq(rows)' /\ IsSeq(chan.toBoot)'
        BY DEF Inv, Shape, IsSeq, ChanQuiet, GateStep
    <2> QED
        BY <2>1, <2>2, <2>3 DEF Shape
<1>2. LineInv'
    <2>1. Len(sup.buf) \in Nat /\ Len(ipc.toSup) \in Nat /\ Len(ipc'.toSup) \in Nat
        BY DEF Inv, Shape, GateStep
    <2>2. /\ sup'.buf = sup.buf /\ sup'.hello = sup.hello /\ sup'.done = sup.done /\ tgt'.pc = tgt.pc
          /\ Len(ipc'.toSup) <= Len(ipc.toSup)
        BY DEF GateStep
    <2>3. Read(sup)' = Read(sup) /\ Said(tgt)' = Said(tgt) /\ Read(sup) \in Nat /\ Said(tgt) \in Nat
        BY <2>2 DEF Read, Said
    <2> QED
        BY <2>1, <2>2, <2>3 DEF Inv, LineInv
<1>4. GateInv'
    BY <1>0 DEF Inv, GateInv, Released, GateStep
<1>5. AckInv'
    BY <1>0 DEF Inv, AckInv, Acknowledged, Confirmed, GateStep, ChanQuiet
<1>6. BootInv'
    BY <1>0 DEF BootInv, BootQuiet
<1>7. ReceiptInv'
    BY <1>0 DEF Inv, ReceiptInv, Confirmed, GateStep
<1>8. Move
    BY <1>0 DEF Move, GateStep
<1> QED
    BY <1>1, <1>2, <1>4, <1>5, <1>6, <1>7, <1>8 DEF Inv

\* A step that the barrier does not see keeps the invariant.
LEMMA QuietKeepsInv ==
    ASSUME Inv, SupQuiet, BootQuiet, ChanQuiet, WorldQuiet
    PROVE  Inv' /\ Move
<1>1. (Sampled' <=> Sampled) /\ (Released' <=> Released) /\ (Seen' <=> Seen)
    BY DEF Sampled, Released, Seen, Covers, SupQuiet, WorldQuiet, Kept
<1>2. sup'.pc = "release" \/ ipc'.toTgt => Seen'
    BY <1>1 DEF Inv, GateInv, SupQuiet, WorldQuiet
<1>3. sup'.pc = "before" => mode = "g4"
    BY DEF Inv, GateInv, SupQuiet
<1>4. ipc'.toTgt \in BOOLEAN
    BY DEF Inv, Shape, WorldQuiet
<1>5. GateStep
    BY <1>1, <1>2, <1>3, <1>4 DEF GateStep, SupQuiet, WorldQuiet, Kept
<1> QED
    BY <1>5, GateKeepsInv

\* What is unchanged is quiet.
LEMMA Unchanged ==
    ASSUME Inv
    PROVE  /\ UNCHANGED sup /\ UNCHANGED boot => SupQuiet /\ BootQuiet
           /\ UNCHANGED sup /\ sup.pc # "launch" => SupQuiet
           /\ UNCHANGED boot /\ (sup'.pc = "launch" => sup.pc = "launch") => BootQuiet
           /\ UNCHANGED chan => ChanQuiet
           /\ UNCHANGED <<tgt, ipc, rows, clock, mode>> => WorldQuiet
<1>1. ASSUME UNCHANGED sup, UNCHANGED boot PROVE SupQuiet /\ BootQuiet
    BY <1>1 DEF Inv, Shape, BootInv, SupQuiet, BootQuiet, Kept
<1>2. ASSUME UNCHANGED sup, sup.pc # "launch" PROVE SupQuiet
    BY <1>2 DEF Inv, Shape, SupQuiet, Kept
<1>3. ASSUME UNCHANGED boot, sup'.pc = "launch" => sup.pc = "launch" PROVE BootQuiet
    BY <1>3 DEF Inv, Shape, BootInv, BootQuiet
<1>4. ASSUME UNCHANGED chan PROVE ChanQuiet
    BY <1>4 DEF Inv, Shape, AckInv, ChanQuiet
<1>5. ASSUME UNCHANGED <<tgt, ipc, rows, clock, mode>> PROVE WorldQuiet
    BY <1>5 DEF Inv, Shape, WorldQuiet
<1> QED
    BY <1>1, <1>2, <1>3, <1>4, <1>5

(***************************************************************************)
(* The Supervisor.                                                         *)
(***************************************************************************)
\* A new place, with the reason and the count as before.
Goes(s, t) ==
    /\ Kept(s, t) /\ t.st = s.st
    /\ t.reason = "none" => s.reason = "none"
    /\ t.pc \notin {"before", "release", "launch", "done"}

\* A new place is not seen by the barrier.
LEMMA GoesIsQuiet ==
    ASSUME Inv, Goes(sup, sup') PROVE SupQuiet
BY DEF Inv, Shape, Holds, Goes, Kept, SupQuiet

\* Signals and deadlines change where Bootstrap is, not what it knows.
Shifted(b, c) ==
    /\ DOMAIN c = DOMAIN b /\ c.st = b.st
    /\ c.pc = b.pc \/ c.pc \notin {"none", "connect", "confirm", "start", "owner", "loop", "sample"}

\* Nor is it when Bootstrap only moves on.
LEMMA ShiftedIsQuiet ==
    ASSUME Inv, Shifted(boot, boot'), sup'.pc # "launch" PROVE BootQuiet
BY DEF Inv, Shape, Holds, BootInv, Shifted, BootQuiet

\* SIGTERM moves Bootstrap, or is remembered.
LEMMA TerminatedFacts ==
    ASSUME Inv PROVE Shifted(boot, Terminated(boot))
BY DEF Inv, Shape, Holds, BootFields, Terminated, Shifted

\* The end of the channel loses no frame that is on its way.
LEMMA ChanEnds ==
    ASSUME Inv, DOMAIN chan' = DOMAIN chan, chan'.toBoot = chan.toBoot PROVE ChanQuiet
BY DEF Inv, Shape, AckInv, ChanQuiet

\* Launching, accepting, and the conditions at the top and the end of a round.
LEMMA LoopKeepsInv ==
    ASSUME Inv, mode' = mode, SLaunch \/ SAccept \/ STop \/ SChecks
    PROVE  Inv' /\ Move /\ sup'.pc # "done"
<1>0. /\ SupFields \subseteq DOMAIN sup /\ BootFields \subseteq DOMAIN boot
      /\ {"toBoot", "toSup", "sup", "boot"} \subseteq DOMAIN chan /\ boot.st.seq \in Nat
    BY DEF Inv, Shape, Holds
<1>1. WorldQuiet
    BY Unchanged DEF SLaunch, SAccept, STop, SChecks
<1>2. Goes(sup, SRaise(sup))
    BY <1>0, RaiseFacts DEF Goes
<1>3. CASE SLaunch
    <2>0. sup.pc = "launch" /\ boot.pc = "none" /\ boot.st.seq = 0 /\ ChanQuiet
        BY <1>3, Unchanged DEF SLaunch, Inv, BootInv
    <2>1. Goes(sup, sup')
        <3>1. CASE sup' = SRaise(sup)
            BY <1>2, <3>1
        <3>2. CASE sup' = [sup EXCEPT !.proc = TRUE, !.pc = IF mode = "g4" THEN "accept" ELSE "top"]
            BY <1>0, <3>2 DEF Goes, Kept, SupFields
        <3> QED
            BY <1>3, <3>1, <3>2 DEF SLaunch
    <2>2. BootQuiet
        <3>1. CASE UNCHANGED boot
            BY <2>0, <2>1, <3>1, Unchanged DEF Goes
        <3>2. CASE boot' = [boot EXCEPT !.pc = IF mode = "g4" THEN "connect" ELSE "start"]
            BY <1>0, <2>0, <2>1, <3>2 DEF BootQuiet, Goes, Inv, Shape, Holds, BootFields
        <3> QED
            BY <1>3, <3>1, <3>2 DEF SLaunch
    <2> QED
        BY <1>1, <2>0, <2>1, <2>2, GoesIsQuiet, QuietKeepsInv DEF Goes
<1>4. CASE SAccept
    <2>1. Goes(sup, sup')
        <3>1. CASE sup' = SRaise(sup)
            BY <1>2, <3>1
        <3>2. CASE sup' = [sup EXCEPT !.link = TRUE, !.pc = "top"]
            BY <1>0, <3>2 DEF Goes, Kept, SupFields
        <3> QED
            BY <1>4, <3>1, <3>2 DEF SAccept
    <2>2. BootQuiet
        BY <1>4, <2>1, Unchanged DEF SAccept, Goes
    <2>3. ChanQuiet
        BY <1>0, <1>4, ChanEnds DEF SAccept
    <2> QED
        BY <1>1, <2>1, <2>2, <2>3, GoesIsQuiet, QuietKeepsInv DEF Goes
<1>5. CASE STop \/ SChecks
    <2>0. UNCHANGED <<boot, chan>>
        BY <1>5 DEF STop, SChecks
    <2>1. Goes(sup, sup')
        <3>1. ASSUME NEW why, why # "none", NEW u, SupFields \subseteq DOMAIN u, Goes(sup, u) \/ u = sup,
                     sup' = SFail(u, why)
              PROVE  Goes(sup, sup')
            BY <3>1, FailFacts DEF Goes, Kept
        <3>2. CASE STop
            <4> DEFINE u == [sup EXCEPT !.owner = boot.owner]
            <4>1. SupFields \subseteq DOMAIN u /\ Goes(sup, u) /\ u.pc = "top"
                BY <1>0, <3>2 DEF STop, Goes, Kept, SupFields
            <4>2. Goes(sup, [u EXCEPT !.pc = "recv"])
                BY <4>1 DEF Goes, Kept, SupFields
            <4>3. \/ sup' = SFail(u, "supervisor_interrupted") \/ sup' = SFail(u, "outer_timeout")
                  \/ sup' = [u EXCEPT !.pc = "recv"]
                BY <3>2 DEF STop
            <4> HIDE DEF u
            <4> QED
                BY <3>1, <4>1, <4>2, <4>3
        <3>3. CASE SChecks
            <4>1. Goes(sup, [sup EXCEPT !.pc = "term"]) /\ Goes(sup, [sup EXCEPT !.pc = "top"])
                BY <1>0 DEF Goes, Kept, SupFields
            <4>2. \/ sup' = SFail(sup, "barrier_timeout") \/ sup' = SFail(sup, "handshake_incomplete")
                  \/ sup' = SFail(sup, "target_exited_before_handshake")
                  \/ sup' = [sup EXCEPT !.pc = "term"] \/ sup' = [sup EXCEPT !.pc = "top"]
                BY <3>3 DEF SChecks
            <4> QED
                BY <1>0, <3>1, <4>1, <4>2
        <3> QED
            BY <1>5, <3>2, <3>3
    <2> QED
        BY <1>1, <2>0, <2>1, Unchanged, GoesIsQuiet, QuietKeepsInv DEF Goes
<1> QED
    BY <1>3, <1>4, <1>5

\* finish() leaves the barrier alone.
LEMMA FinishKeepsInv ==
    ASSUME Inv, mode' = mode, STerm \/ SWait \/ SReap
    PROVE  Inv' /\ Move /\ sup'.pc # "done"
<1>0. /\ SupFields \subseteq DOMAIN sup /\ BootFields \subseteq DOMAIN boot
      /\ {"toBoot", "toSup", "sup", "boot"} \subseteq DOMAIN chan
      /\ {"toSup", "toTgt", "dialled", "sup", "tgt"} \subseteq DOMAIN ipc
      /\ {"st", "pc", "code", "killed"} \subseteq DOMAIN tgt
    BY DEF Inv, Shape, Holds
<1>1. Goes(sup, sup')
    <2>1. CASE STerm
        <3> DEFINE u == [sup EXCEPT !.owner = boot.owner]
        <3>1. /\ DOMAIN u = DOMAIN sup /\ u.st = sup.st /\ u.reason = sup.reason /\ u.hello = sup.hello
              /\ u.done = sup.done /\ u.buf = sup.buf /\ u.pre = sup.pre /\ u.ack = sup.ack
            BY <1>0 DEF SupFields
        <3>2. sup' = [u EXCEPT !.pc = "report", !.clean = TRUE] \/ sup' = [u EXCEPT !.pc = "wait"]
            BY <2>1 DEF STerm
        <3> HIDE DEF u
        <3> QED
            BY <1>0, <3>1, <3>2, ZenonT(30) DEF Goes, Kept, SupFields
    <2>2. CASE SWait
        BY <1>0, <2>2 DEF SWait, Goes, Kept, SupFields
    <2>3. CASE SReap
        <3> DEFINE left == Sessions = {}
        <3>1. \/ sup' = [sup EXCEPT !.pc = "report", !.code = boot.code, !.clean = left]
              \/ sup' = [sup EXCEPT !.pc = "report"]
            BY <2>3 DEF SReap
        <3> HIDE DEF left
        <3> QED
            BY <1>0, <3>1, ZenonT(30) DEF Goes, Kept, SupFields
    <2> QED
        BY <2>1, <2>2, <2>3
<1>2. Shifted(boot, boot')
    <2>1. CASE STerm
        <3>1. boot' = boot \/ boot' = Terminated(boot)
            BY <2>1 DEF STerm
        <3> QED
            BY <3>1, TerminatedFacts DEF Shifted
    <2>2. CASE SWait \/ SReap
        BY <1>0, <2>2 DEF SWait, SReap, Shifted, BootFields
    <2> QED
        BY <2>1, <2>2
<1>3. DOMAIN chan' = DOMAIN chan /\ chan'.toBoot = chan.toBoot
    BY <1>0 DEF STerm, SWait, SReap
<1>4. WorldQuiet
    <2>1. DOMAIN tgt' = DOMAIN tgt /\ tgt'.pc = tgt.pc /\ UNCHANGED <<rows, clock>>
        BY <1>0 DEF STerm, SWait, SReap
    <2>2. DOMAIN ipc' = DOMAIN ipc /\ ipc'.toTgt = ipc.toTgt /\ ipc'.toSup = ipc.toSup
        BY <1>0 DEF STerm, SWait, SReap
    <2>3. ipc.toSup \in Seq(Lines) /\ Len(ipc.toSup) \in Nat /\ clock \in Nat
        BY DEF Inv, Shape
    <2> QED
        BY <2>1, <2>2, <2>3 DEF WorldQuiet
<1> QED
    BY <1>1, <1>2, <1>3, <1>4, GoesIsQuiet, ShiftedIsQuiet, ChanEnds, QuietKeepsInv DEF Goes

\* A sequence stays one when a frame is added or taken.
LEMMA SeqFacts ==
    ASSUME NEW q, IsSeq(q), NEW m
    PROVE  /\ IsSeq(Append(q, m)) /\ (q # <<>> => IsSeq(Tail(q)))
           /\ Len(q) \in Nat /\ Len(Append(q, m)) = Len(q) + 1 /\ DOMAIN Append(q, m) = 1..(Len(q) + 1)
           /\ \A i \in 1..Len(q) : Append(q, m)[i] = q[i]
           /\ Append(q, m)[Len(q) + 1] = m /\ DOMAIN q = 1..Len(q)
           /\ q # <<>> => \A i \in DOMAIN Tail(q) : \E j \in DOMAIN q : Tail(q)[i] = q[j]
<1>1. PICK S : q \in Seq(S)
    BY DEF IsSeq
<1>2. q \in Seq(S \cup {m})
    BY <1>1
<1>3. Append(q, m) \in Seq(S \cup {m})
    BY <1>2
<1>4. q # <<>> => Tail(q) \in Seq(S)
    BY <1>1
<1>5. /\ Len(q) \in Nat /\ Len(Append(q, m)) = Len(q) + 1 /\ DOMAIN Append(q, m) = 1..(Len(q) + 1)
      /\ \A i \in 1..Len(q) : Append(q, m)[i] = q[i]
      /\ Append(q, m)[Len(q) + 1] = m /\ DOMAIN q = 1..Len(q)
    BY <1>2
<1>6. ASSUME q # <<>>, NEW i \in DOMAIN Tail(q) PROVE \E j \in DOMAIN q : Tail(q)[i] = q[j]
    <2>1. i \in 1..(Len(q) - 1) /\ Tail(q)[i] = q[i + 1] /\ i + 1 \in DOMAIN q
        BY <1>1, <1>6
    <2> QED
        BY <2>1
<1> QED
    BY <1>3, <1>4, <1>5, <1>6 DEF IsSeq

\* A frame to Bootstrap about the work needs the work.
LEMMA ChanGrows ==
    ASSUME Inv, DOMAIN chan' = DOMAIN chan, NEW m, m.seq = 3 => AtWork,
           chan'.toBoot \in {chan.toBoot, Append(chan.toBoot, m)}
    PROVE  ChanQuiet
<1>1. CASE chan'.toBoot = chan.toBoot
    BY <1>1, ChanEnds
<1>2. CASE chan'.toBoot = Append(chan.toBoot, m)
    <2>1. IsSeq(chan.toBoot)
        BY DEF Inv, Shape
    <2>2. ASSUME NEW i \in DOMAIN chan'.toBoot, chan'.toBoot[i].seq = 3 PROVE AtWork
        <3>1. (i \in DOMAIN chan.toBoot /\ chan'.toBoot[i] = chan.toBoot[i]) \/ chan'.toBoot[i] = m
            BY <1>2, <2>1, <2>2, SeqFacts
        <3> QED
            BY <2>2, <3>1 DEF Inv, AckInv
    <2> QED
        BY <1>2, <2>1, <2>2, SeqFacts DEF ChanQuiet
<1> QED
    BY <1>1, <1>2

\* What a frame does to the Supervisor that sends it.
LEMMA SendFacts ==
    ASSUME Inv, NEW s, Holds(s, SupFields), NEW m, NEW pc, SSend(s, m, pc)
    PROVE  /\ Kept(s, sup') /\ Holds(sup', SupFields)
           /\ sup'.pc \in {pc, "term"}
           /\ sup'.reason = "none" => s.reason = "none" /\ sup'.st.seq = m.seq + 1
           /\ DOMAIN chan' = DOMAIN chan /\ chan'.toBoot \in {chan.toBoot, Append(chan.toBoot, m)}
<1>0. {"toBoot", "toSup", "sup", "boot"} \subseteq DOMAIN chan
    BY DEF Inv, Shape
<1> DEFINE u == Sent(s, m)
           v == NotSent(s, m)
<1>1. /\ DOMAIN u = DOMAIN s /\ DOMAIN v = DOMAIN s /\ SupFields \subseteq DOMAIN s
      /\ Kept(s, u) /\ Kept(s, v) /\ u.reason = s.reason /\ Holds(u, SupFields) /\ Holds(v, SupFields)
      /\ u.st.seq = s.st.seq + 1
    BY SentFacts DEF Holds, SupFields, Kept
<1> HIDE DEF u, v
<1>2. CASE /\ Accepts(s.st, m, clock') /\ sup' = [u EXCEPT !.pc = pc]
           /\ chan' = [chan EXCEPT !.toBoot = Append(@, m)]
    <2>1. m.seq = s.st.seq
        BY <1>2, AcceptsFacts
    <2> QED
        BY <1>0, <1>1, <1>2, <2>1 DEF Kept, Holds, SupFields
<1>3. CASE sup' = SRaise(v) /\ (chan' = [chan EXCEPT !.toBoot = Append(@, m)] \/ chan' = chan)
    <2>1. /\ Kept(v, SRaise(v)) /\ SRaise(v).pc = "term" /\ SRaise(v).reason # "none" /\ SRaise(v).st = v.st
        BY <1>1, RaiseFacts DEF Holds
    <2> QED
        BY <1>0, <1>1, <1>3, <2>1 DEF Kept, Holds, SupFields
<1> QED
    BY <1>2, <1>3 DEF SSend, u, v

\* A step of the Supervisor that is not its report.
Silent == UNCHANGED sup \/ (sup.pc # "done" /\ sup'.pc # "done")

\* A receipt that is taken has been looked up in the stream.
LEMMA ReceiveKeepsInv ==
    ASSUME Inv, mode' = mode, SBefore \/ SWorkload
    PROVE  Inv' /\ Move /\ Silent
<1>0. /\ SupFields \subseteq DOMAIN sup /\ Holds(sup, SupFields)
      /\ {"toBoot", "toSup", "sup", "boot"} \subseteq DOMAIN chan
    BY DEF Inv, Shape, Holds
<1>1. PICK n, phase, pc :
         /\ SReceive(n, phase, pc)
         /\ \/ n = 1 /\ phase = "readiness" /\ pc = "release" /\ sup.pc = "before"
            \/ n = 4 /\ phase = "workload" /\ pc = "sample" /\ sup.pc = "workload"
    BY DEF SBefore, SWorkload
<1>2. WorldQuiet /\ UNCHANGED boot
    BY <1>1, Unchanged DEF SReceive
<1>3. ChanQuiet
    <2>1. DOMAIN chan' = DOMAIN chan /\ chan'.toBoot = chan.toBoot
        BY <1>0, <1>1 DEF SReceive
    <2> QED
        BY <2>1, ChanEnds
<1> DEFINE m == Head(chan.toSup)
           ok == Accepts(sup.st, m, clock) /\ m.seq = n /\ Receipt(m, phase)
<1>4. SupQuiet /\ sup'.pc # "done"
    <2>1. ASSUME NEW v, DOMAIN v = DOMAIN sup, Kept(sup, v), Holds(v, SupFields), sup' = SRaise(v)
          PROVE  SupQuiet /\ sup'.pc # "done"
        <3>1. /\ Kept(v, SRaise(v)) /\ SRaise(v).pc = "term" /\ SRaise(v).reason # "none"
              /\ SRaise(v).st = v.st
            BY <2>1, RaiseFacts DEF Holds
        <3> QED
            BY <2>1, <3>1 DEF SupQuiet, Kept, Holds
    <2> DEFINE u == Sent(sup, m)
    <2>2. /\ DOMAIN u = DOMAIN sup /\ Kept(sup, u) /\ Holds(u, SupFields) /\ u.reason = sup.reason
          /\ u.st.seq = sup.st.seq + 1
        BY <1>0, SentFacts DEF Holds, SupFields, Kept
    <2>3. DOMAIN NotSent(sup, m) = DOMAIN sup /\ Kept(sup, NotSent(sup, m)) /\ Holds(NotSent(sup, m), SupFields)
        BY <1>0, SentFacts DEF Holds, SupFields, Kept
    <2>4. DOMAIN Failed(sup) = DOMAIN sup /\ Kept(sup, Failed(sup)) /\ Holds(Failed(sup), SupFields)
        BY <1>0, FailedFacts DEF Holds, SupFields, Kept
    <2>5. Kept(sup, sup)
        BY DEF Kept
    <2>6. CASE ok /\ sup' = [u EXCEPT !.pc = pc]
        <3>1. m.seq = sup.st.seq /\ m.seq = n
            BY <2>6, AcceptsFacts
        <3>2. Covers(phase)
            BY <2>6 DEF Receipt, Covers
        <3> HIDE DEF u, ok, m
        <3>3. /\ DOMAIN sup' = DOMAIN sup /\ sup'.st = u.st /\ sup'.reason = u.reason /\ sup'.pc = pc
              /\ Kept(u, sup')
            BY <1>0, <2>2, <2>6 DEF Kept, SupFields
        <3>4. Kept(sup, sup') /\ Holds(sup', SupFields)
            BY <2>2, <3>3 DEF Kept, Holds
        <3>5. sup'.st.seq = n + 1
            BY <2>2, <3>1, <3>3
        <3>6. CASE n = 1 /\ phase = "readiness" /\ pc = "release" /\ sup.pc = "before"
            <4>1. Seen
                BY <3>2, <3>6 DEF Seen, Inv, GateInv
            <4> QED
                BY <2>2, <3>3, <3>4, <3>5, <3>6, <4>1 DEF SupQuiet
        <3>7. CASE n = 4 /\ phase = "workload" /\ pc = "sample" /\ sup.pc = "workload"
            BY <2>2, <3>2, <3>3, <3>4, <3>5, <3>7 DEF SupQuiet
        <3> QED
            BY <1>1, <3>6, <3>7
    <2>7. \/ sup' = SRaise(sup) \/ sup' = SRaise(Failed(sup)) \/ sup' = SRaise(NotSent(sup, m))
          \/ sup' = SRaise(u) \/ (ok /\ sup' = [u EXCEPT !.pc = pc])
        BY <1>1 DEF SReceive
    <2> HIDE DEF u, ok, m
    <2> QED
        BY <1>0, <2>1, <2>2, <2>3, <2>4, <2>5, <2>6, <2>7
<1>5. BootQuiet
    BY <1>2, <1>4, Unchanged DEF SupQuiet
<1> QED
    BY <1>1, <1>2, <1>3, <1>4, <1>5, QuietKeepsInv DEF Silent

\* The report, and what a success rests on.
LEMMA ReportKeepsInv ==
    ASSUME Inv, mode' = mode, SReport
    PROVE  /\ Inv' /\ Move /\ sup.pc # "done" /\ sup'.pc = "done" /\ sup'.success \in BOOLEAN
           /\ sup'.success => IF mode = "g4" THEN Covers("workload") ELSE sup.ack # None
           /\ Kept(sup, sup')
<1>0. /\ SupFields \subseteq DOMAIN sup /\ Holds(sup, SupFields)
      /\ {"toBoot", "toSup", "sup", "boot"} \subseteq DOMAIN chan /\ mode \in {"g4", "legacy"}
    BY DEF Inv, Shape, Holds
<1>1. WorldQuiet /\ UNCHANGED boot /\ sup.pc = "report"
    <2>1. sup.pc = "report" /\ UNCHANGED <<boot, tgt, ipc, rows, clock>>
        BY DEF SReport
    <2> QED
        BY <2>1, Unchanged
<1>2. ChanQuiet
    <2>1. DOMAIN chan' = DOMAIN chan /\ chan'.toBoot = chan.toBoot
        BY <1>0 DEF SReport
    <2> QED
        BY <2>1, ChanEnds
<1> DEFINE bad  == sup.errors \/ boot.result = NoResult
           full == sup.link /\ sup.st.seq = 5 /\ ~sup.st.failed
           u    == [sup EXCEPT !.inner = boot.result, !.errors = bad, !.complete = full]
           won  == Success(u)
           v    == [u EXCEPT !.success = won, !.pc = "done"]
<1>3. sup' = v \/ sup' = Failed(v)
    BY DEF SReport
<1>4. /\ DOMAIN u = DOMAIN sup /\ Kept(sup, u) /\ u.st = sup.st /\ u.reason = sup.reason
      /\ u.complete = full
    <2> HIDE DEF bad, full
    <2> QED
        BY <1>0 DEF Kept, SupFields
<1>5. won \in BOOLEAN
    BY DEF Success
<1>6. won => IF mode = "g4" THEN Covers("workload") ELSE sup.ack # None
    <2> SUFFICES ASSUME won PROVE IF mode = "g4" THEN Covers("workload") ELSE sup.ack # None
        OBVIOUS
    <2>1. u.reason = "none" /\ u.done /\ (mode = "g4" => u.complete)
        BY DEF Success, Observed
    <2>2. sup.reason = "none" /\ sup.done /\ (mode = "g4" => sup.st.seq = 5)
        BY <1>4, <2>1, ZenonT(30) DEF Kept
    <2> QED
        BY <2>2 DEF Inv, AckInv, ReceiptInv
<1> HIDE DEF bad, full, u, won
<1>7. /\ DOMAIN v = DOMAIN sup /\ Kept(sup, v) /\ v.st = sup.st /\ v.reason = sup.reason
      /\ v.success = won /\ v.pc = "done" /\ Holds(v, SupFields)
    BY <1>0, <1>4 DEF Kept, SupFields, Holds
<1> HIDE DEF v
<1>8. /\ DOMAIN Failed(v) = DOMAIN v /\ Kept(v, Failed(v)) /\ Failed(v).st.seq = v.st.seq
      /\ Failed(v).reason = v.reason /\ Failed(v).success = v.success /\ Failed(v).pc = v.pc
      /\ Holds(Failed(v), SupFields)
    BY <1>7, FailedFacts DEF Holds, SupFields, Kept
<1>9. /\ Kept(sup, sup') /\ Holds(sup', SupFields) /\ sup'.reason = sup.reason /\ sup'.st.seq = sup.st.seq
      /\ sup'.pc = "done" /\ sup'.success = won
    BY <1>3, <1>7, <1>8 DEF Kept
<1>10. SupQuiet
    BY <1>9 DEF SupQuiet
<1>11. BootQuiet
    BY <1>1, <1>9, Unchanged
<1> QED
    BY <1>1, <1>2, <1>5, <1>6, <1>9, <1>10, <1>11, QuietKeepsInv

\* Lines that are moved from the socket to the buffer are still counted.
LEMMA Sums ==
    ASSUME NEW a \in Nat, NEW b \in Nat, NEW c \in Nat, NEW x \in Nat, NEW y \in Nat, NEW total \in Nat,
           a + b + c <= total, x + y = b + c
    PROVE  a + x + y <= total
OBVIOUS

\* The lines of the target are taken one at a time; the second is its word that it works.
LEMMA RecvKeepsInv ==
    ASSUME Inv, mode' = mode, SRecv
    PROVE  Inv' /\ Move /\ Silent
<1>0. /\ SupFields \subseteq DOMAIN sup /\ Holds(sup, SupFields)
      /\ {"toBoot", "toSup", "sup", "boot"} \subseteq DOMAIN chan
      /\ {"toSup", "toTgt", "dialled", "sup", "tgt"} \subseteq DOMAIN ipc
      /\ sup.buf \in Seq(Lines) /\ ipc.toSup \in Seq(Lines) /\ clock \in Nat
      /\ sup.hello \in BOOLEAN /\ sup.done \in BOOLEAN /\ (sup.done => sup.hello)
      /\ Shape /\ mode \in {"g4", "legacy"}
    BY DEF Inv, Shape, Holds, LineInv
<1>1. sup.pc = "recv" /\ UNCHANGED <<boot, tgt, rows>>
    BY DEF SRecv
<1> DEFINE all == IF sup.done THEN sup.buf ELSE sup.buf \o ipc.toSup
           u   == [sup EXCEPT !.buf = all]
           v   == [u EXCEPT !.buf = Tail(all)]
<1>2. /\ all \in Seq(Lines) /\ ipc'.toSup \in Seq(Lines) /\ DOMAIN ipc' = DOMAIN ipc /\ ipc'.toTgt = ipc.toTgt
      /\ Len(all) \in Nat /\ Len(ipc'.toSup) \in Nat /\ Len(ipc'.toSup) <= Len(ipc.toSup)
      /\ Len(all) + Len(ipc'.toSup) = Len(sup.buf) + Len(ipc.toSup)
    <2>1. CASE sup.done
        <3>1. ipc' = [ipc EXCEPT !.sup = @ \/ ipc.dialled, !.toSup = ipc.toSup] /\ all = sup.buf
            BY <2>1 DEF SRecv
        <3> HIDE DEF all
        <3>2. DOMAIN ipc' = DOMAIN ipc /\ ipc'.toSup = ipc.toSup /\ ipc'.toTgt = ipc.toTgt
            BY <1>0, <3>1
        <3> QED
            BY <1>0, <3>1, <3>2
    <2>2. CASE ~sup.done
        <3>1. ipc' = [ipc EXCEPT !.sup = @ \/ ipc.dialled, !.toSup = <<>>] /\ all = sup.buf \o ipc.toSup
            BY <2>2, ZenonT(30) DEF SRecv
        <3> HIDE DEF all
        <3>2. DOMAIN ipc' = DOMAIN ipc /\ ipc'.toSup = <<>> /\ ipc'.toTgt = ipc.toTgt
            BY <1>0, <3>1
        <3> QED
            BY <1>0, <3>1, <3>2
    <2> QED
        BY <2>1, <2>2, ZenonT(30)
<1>3. Read(sup) + Len(all) + Len(ipc'.toSup) <= Said(tgt)
    <2>1. Read(sup) \in Nat /\ Said(tgt) \in Nat /\ Len(sup.buf) \in Nat /\ Len(ipc.toSup) \in Nat
        BY <1>0 DEF Read, Said
    <2>2. Read(sup) + Len(sup.buf) + Len(ipc.toSup) <= Said(tgt)
        BY DEF Inv, LineInv
    <2> HIDE DEF all
    <2>3. /\ Len(all) \in Nat /\ Len(ipc'.toSup) \in Nat
          /\ Len(all) + Len(ipc'.toSup) = Len(sup.buf) + Len(ipc.toSup)
        BY <1>2, ZenonT(30)
    <2> QED
        BY ONLY <2>1, <2>2, <2>3, Sums, ZenonT(30)
<1> HIDE DEF all
<1>4. /\ DOMAIN u = DOMAIN sup /\ u.st = sup.st /\ u.reason = sup.reason /\ u.hello = sup.hello
      /\ u.done = sup.done /\ u.buf = all /\ u.pre = sup.pre /\ u.ack = sup.ack
    BY <1>0 DEF SupFields
<1> HIDE DEF u
<1>5. /\ DOMAIN v = DOMAIN sup /\ v.st = sup.st /\ v.reason = sup.reason /\ v.hello = sup.hello
      /\ v.done = sup.done /\ v.buf = Tail(all) /\ v.pre = sup.pre /\ v.ack = sup.ack
    BY <1>0, <1>4 DEF SupFields
<1> HIDE DEF v
\* What the step leaves, whatever line it took.
<1> DEFINE Left ==
        /\ DOMAIN sup' = DOMAIN sup /\ Holds(sup', SupFields) /\ sup'.pre = sup.pre
        /\ sup'.pc \in {"sample", "term", "workload"}
        /\ sup'.reason = "none" => sup.reason = "none" /\ (sup'.st.seq = sup.st.seq \/ sup'.st.seq # 5)
        /\ sup'.buf \in Seq(Lines) /\ clock' \in Nat
        /\ sup'.hello \in BOOLEAN /\ sup'.done \in BOOLEAN /\ (sup'.done => sup'.hello)
        /\ Read(sup') + Len(sup'.buf) <= Read(sup) + Len(all)
        /\ sup'.done => sup'.ack # None
        /\ sup'.ack = sup.ack \/ (AtWork /\ sup'.ack # None)
        /\ ChanQuiet
<1>6. ASSUME Left PROVE Inv' /\ Move /\ Silent
    <2>1. UNCHANGED <<boot, tgt, rows>> /\ mode' = mode /\ sup.pc # "done" /\ sup'.pc # "done"
        BY <1>1, <1>6
    <2>2. /\ (AtWork' <=> AtWork) /\ (Ready' <=> Ready) /\ (Confirmed' <=> Confirmed)
          /\ (Released' <=> Released) /\ (Sampled' <=> Sampled) /\ (Acknowledged => Acknowledged')
        BY <1>2, <1>6, <2>1 DEF AtWork, Ready, Confirmed, Released, Sampled, Acknowledged, Covers
    <2>3. Move
        BY <2>1, <2>2 DEF Move
    <2>4. Shape'
        <3>1. /\ Holds(sup, SupFields)' /\ Holds(boot, BootFields)'
              /\ ({"st", "pc", "code", "killed"} \subseteq DOMAIN tgt)'
              /\ ({"toBoot", "toSup", "sup", "boot"} \subseteq DOMAIN chan)'
              /\ ({"toSup", "toTgt", "dialled", "sup", "tgt"} \subseteq DOMAIN ipc)'
            BY <1>2, <1>6, <2>1 DEF Inv, Shape, Holds, ChanQuiet
        <3>2. /\ sup'.hello \in BOOLEAN /\ sup'.done \in BOOLEAN /\ sup'.buf \in Seq(Lines)
              /\ ipc'.toSup \in Seq(Lines) /\ tgt'.pc \in {"start", "wait", "work"} /\ ipc'.toTgt \in BOOLEAN
              /\ clock' \in Nat /\ mode' \in {"g4", "legacy"}
            BY <1>2, <1>6, <2>1 DEF Inv, Shape
        <3>3. IsSeq(rows)' /\ IsSeq(chan.toBoot)'
            BY <1>6, <2>1 DEF Inv, Shape, IsSeq, ChanQuiet
        <3> QED
            BY <3>1, <3>2, <3>3 DEF Shape
    <2>5. LineInv'
        <3>1. Said(tgt)' = Said(tgt) /\ Said(tgt) \in Nat /\ Read(sup)' = Read(sup') /\ Read(sup') \in Nat
              /\ Read(sup) \in Nat
            BY <2>1 DEF Said, Read
        <3>2. Len(sup'.buf) \in Nat /\ Read(sup') + Len(sup'.buf) <= Read(sup) + Len(all)
            BY <1>6
        <3>3. Read(sup') + Len(sup'.buf) + Len(ipc'.toSup) <= Said(tgt)
            <4>1. Len(all) \in Nat /\ Len(ipc'.toSup) \in Nat
                BY <1>2
            <4>2. \A a, b, c, d \in Int : a <= b /\ b + c <= d => a + c <= d
                OBVIOUS
            <4>3. /\ Read(sup') + Len(sup'.buf) \in Int /\ Read(sup) + Len(all) \in Int
                  /\ Len(ipc'.toSup) \in Int /\ Said(tgt) \in Int
                BY ONLY <3>1, <3>2, <4>1
            <4> QED
                BY ONLY <1>3, <3>2, <4>2, <4>3, ZenonT(30)
        <3> QED
            BY <1>6, <3>1, <3>3 DEF LineInv
    <2>6. GateInv'
        BY <1>6, <2>1, <2>2 DEF Inv, GateInv, Seen, Ready, Sampled, Released
    <2>7. AckInv'
        <3>1. (sup.ack # None => AtWork) /\ (Covers("workload") => AtWork)
            BY DEF Inv, AckInv
        <3> QED
            BY <1>6, <2>2, <3>1 DEF AckInv, Confirmed, ChanQuiet
    <2>8. BootInv'
        BY <1>6, <2>1, <2>2 DEF Inv, BootInv
    <2>9. ReceiptInv'
        BY <1>6, <2>1, <2>2 DEF Inv, ReceiptInv, Confirmed
    <2> QED
        BY <2>1, <2>3, <2>4, <2>5, <2>6, <2>7, <2>8, <2>9 DEF Inv, Silent
<1>7. CASE sup' = SRaise(sup) /\ UNCHANGED <<chan, clock>>
    <2>1. /\ Kept(sup, sup') /\ sup'.pc = "term" /\ sup'.reason # "none" /\ sup'.st = sup.st
        BY <1>0, <1>7, RaiseFacts
    <2>2. Read(sup') = Read(sup) /\ Read(sup) \in Nat /\ Len(sup.buf) <= Len(all)
        <3>1. Read(sup') = Read(sup) /\ Read(sup) \in Nat
            BY <2>1 DEF Kept, Read
        <3>2. Len(sup.buf) <= Len(all)
            BY <1>0 DEF all
        <3> QED
            BY <3>1, <3>2
    <2>3. Read(sup') + Len(sup'.buf) <= Read(sup) + Len(all)
        <3>1. sup'.buf = sup.buf /\ Len(sup.buf) \in Nat /\ Len(all) \in Nat
            BY <1>0, <1>2, <2>1 DEF Kept
        <3> QED
            BY <2>2, <3>1
    <2>4. ChanQuiet /\ (sup.done => sup.ack # None)
        BY <1>7, Unchanged DEF Inv, AckInv
    <2> QED
        BY <1>0, <1>6, <1>7, <2>1, <2>3, <2>4 DEF Kept, Holds
<1>8. CASE sup' = [u EXCEPT !.pc = "sample"] /\ UNCHANGED <<chan, clock>>
    <2>1. /\ DOMAIN sup' = DOMAIN sup /\ sup'.st = sup.st /\ sup'.reason = sup.reason
          /\ sup'.hello = sup.hello /\ sup'.done = sup.done /\ sup'.buf = all /\ sup'.pre = sup.pre
          /\ sup'.ack = sup.ack /\ sup'.pc = "sample"
        BY <1>0, <1>4, <1>8 DEF SupFields
    <2>2. Read(sup') + Len(sup'.buf) <= Read(sup) + Len(all)
        <3>1. Read(sup') = Read(sup) /\ Read(sup) \in Nat /\ Len(all) \in Nat
            BY <1>2, <2>1 DEF Read
        <3> QED
            BY <2>1, <3>1
    <2>3. ChanQuiet /\ (sup.done => sup.ack # None)
        BY <1>8, Unchanged DEF Inv, AckInv
    <2> QED
        BY <1>0, <1>2, <1>6, <1>8, <2>1, <2>2, <2>3 DEF Holds
\* A line is taken from a buffer that has one.
<1>11. all # <<>> => /\ Tail(all) \in Seq(Lines) /\ Len(Tail(all)) \in Nat /\ Len(all) = Len(Tail(all)) + 1
    BY <1>2
\* The line is taken, and the frame about it is sent or not.
<1>12. ASSUME NEW w, DOMAIN w = DOMAIN sup, w.st = sup.st, w.reason = sup.reason, w.pre = sup.pre,
              w.buf \in Seq(Lines), w.hello \in BOOLEAN, w.done \in BOOLEAN, w.done => w.hello /\ w.ack # None,
              w.ack = sup.ack \/ (AtWork /\ w.ack # None),
              Read(w) + Len(w.buf) <= Read(sup) + Len(all), clock' \in Nat,
              NEW n \in {0, 3}, n = 3 => AtWork, NEW pc \in {"sample", "workload"},
              IF mode = "g4" THEN SSend(w, Message(n, clock', NoSample), pc)
              ELSE sup' = [w EXCEPT !.pc = "sample"] /\ UNCHANGED chan
       PROVE  Left
    <2>0. Holds(w, SupFields)
        BY <1>0, <1>12 DEF Holds
    <2>1. /\ Kept(w, sup') /\ Holds(sup', SupFields) /\ sup'.pc \in {"sample", "term", "workload"}
          /\ sup'.reason = "none" => sup.reason = "none" /\ (sup'.st.seq = sup.st.seq \/ sup'.st.seq # 5)
          /\ ChanQuiet
        <3>1. CASE mode = "g4"
            <4> DEFINE m == Message(n, clock', NoSample)
            <4>1. m.seq = n
                BY DEF Message
            <4> HIDE DEF m
            <4>2. /\ Kept(w, sup') /\ Holds(sup', SupFields) /\ sup'.pc \in {pc, "term"}
                  /\ sup'.reason = "none" => w.reason = "none" /\ sup'.st.seq = n + 1
                  /\ DOMAIN chan' = DOMAIN chan /\ chan'.toBoot \in {chan.toBoot, Append(chan.toBoot, m)}
                BY <1>12, <2>0, <3>1, <4>1, SendFacts DEF m
            <4>3. ChanQuiet
                BY <1>12, <4>1, <4>2, ChanGrows
            <4>4. n + 1 # 5
                BY <1>12
            <4> QED
                BY <1>12, <4>2, <4>3, <4>4
        <3>2. CASE mode # "g4"
            BY <1>0, <1>12, <2>0, <3>2, Unchanged, ZenonT(30) DEF Kept, Holds, SupFields
        <3> QED
            BY <3>1, <3>2
    <2>2. Read(sup') = Read(w)
        BY <2>1 DEF Read, Kept
    <2> QED
        BY <1>12, <2>1, <2>2 DEF Kept
<1>9. CASE all # <<>> /\ sup.hello /\ SAcknowledged(v)
    <2>1. Read(sup) \in {1, 2} /\ (sup.done <=> Read(sup) = 2) /\ Said(tgt) \in {0, 1, 2}
        BY <1>0, <1>9 DEF Read, Said
    <2>2. Len(all) >= 1 /\ Len(all) \in Nat /\ Len(ipc'.toSup) \in Nat
        BY <1>2, <1>9, <1>11
    <2>3. Read(sup) = 1 /\ Said(tgt) = 2
        BY ONLY <1>3, <2>1, <2>2
    <2>4. ~sup.done /\ AtWork
        BY <1>0, <2>1, <2>3 DEF Said, AtWork, Shape
    <2> DEFINE w == [v EXCEPT !.done = TRUE, !.ack = clock']
    <2>5. /\ DOMAIN w = DOMAIN sup /\ w.st = sup.st /\ w.reason = sup.reason /\ w.pre = sup.pre
          /\ w.buf = Tail(all) /\ w.hello = sup.hello /\ w.done = TRUE /\ w.ack = clock'
        BY <1>0, <1>5 DEF SupFields
    <2>6. /\ clock' = clock + 1
          /\ IF mode = "g4" THEN SSend(w, Message(3, clock', NoSample), "workload")
             ELSE sup' = [w EXCEPT !.pc = "sample"] /\ UNCHANGED chan
        BY <1>9 DEF SAcknowledged
    <2> HIDE DEF w
    <2>7. clock' \in Nat /\ w.ack # None
        BY <1>0, <2>5, <2>6 DEF None
    <2>8. Read(w) + Len(w.buf) <= Read(sup) + Len(all)
        <3>1. Read(w) = 2 /\ Len(w.buf) \in Nat /\ Len(all) = Len(w.buf) + 1
            BY <1>9, <1>11, <2>5 DEF Read
        <3> QED
            BY ONLY <2>2, <2>3, <3>1
    <2>9. w.buf \in Seq(Lines) /\ w.hello /\ w.hello \in BOOLEAN /\ w.done \in BOOLEAN
        BY <1>0, <1>9, <1>11, <2>5, ZenonT(30)
    <2>10. Left
        BY <1>12, <2>4, <2>5, <2>6, <2>7, <2>8, <2>9, ZenonT(30)
    <2> QED
        BY <1>6, <2>10
<1>10. CASE all # <<>> /\ ~sup.hello /\ SIdentify(v)
    <2>0. ~sup.done /\ Read(sup) = 0 /\ Len(all) = Len(Tail(all)) + 1 /\ Len(Tail(all)) \in Nat
        BY <1>0, <1>10, <1>11 DEF Read
    <2>1. CASE tgt.st = "live"
        <3> DEFINE w == [v EXCEPT !.hello = TRUE, !.identified = clock']
        <3>1. /\ DOMAIN w = DOMAIN sup /\ w.st = sup.st /\ w.reason = sup.reason /\ w.pre = sup.pre
              /\ w.buf = Tail(all) /\ w.hello = TRUE /\ w.done = sup.done /\ w.ack = sup.ack
            BY <1>0, <1>5 DEF SupFields
        <3>2. /\ clock' = clock + 1
              /\ IF mode = "g4" THEN SSend(w, Message(0, clock', NoSample), "sample")
                 ELSE sup' = [w EXCEPT !.pc = "sample"] /\ UNCHANGED chan
            BY <1>10, <2>1 DEF SIdentify
        <3> HIDE DEF w
        <3>3. clock' \in Nat
            BY <1>0, <3>2
        <3>4. Read(w) + Len(w.buf) <= Read(sup) + Len(all)
            <4>1. Read(w) = 1 /\ Len(w.buf) = Len(Tail(all))
                BY <2>0, <3>1 DEF Read
            <4> QED
                BY ONLY <2>0, <4>1
        <3>5. w.buf \in Seq(Lines) /\ w.hello \in BOOLEAN /\ w.done \in BOOLEAN /\ ~w.done
            BY <1>0, <1>10, <1>11, <2>0, <3>1, ZenonT(30)
        <3>6. Left
            BY <1>12, <3>1, <3>2, <3>3, <3>4, <3>5
        <3> QED
            BY <1>6, <3>6
    <2>2. CASE tgt.st # "live"
        <3>1. sup' = SRaise(v) /\ UNCHANGED <<chan, clock>>
            BY <1>10, <2>2 DEF SIdentify
        <3>2. Kept(v, sup') /\ sup'.pc = "term" /\ sup'.reason # "none" /\ sup'.st = v.st
            BY <1>0, <1>5, <3>1, RaiseFacts
        <3>3. /\ DOMAIN sup' = DOMAIN sup /\ Holds(sup', SupFields) /\ sup'.pre = sup.pre
              /\ sup'.ack = sup.ack /\ sup'.done = sup.done /\ sup'.hello = sup.hello /\ sup'.buf = Tail(all)
            BY <1>0, <1>5, <3>2 DEF Kept, Holds
        <3>4. Read(sup') + Len(sup'.buf) <= Read(sup) + Len(all)
            <4>1. Read(sup') = 0 /\ Len(sup'.buf) = Len(Tail(all))
                BY <1>10, <2>0, <3>3 DEF Read
            <4> QED
                BY ONLY <2>0, <4>1
        <3>5. ChanQuiet /\ Tail(all) \in Seq(Lines)
            BY <1>10, <1>11, <3>1, Unchanged
        <3> QED
            BY <1>0, <1>6, <2>0, <3>1, <3>2, <3>3, <3>4, <3>5
    <2> QED
        BY <2>1, <2>2
<1> QED
    BY <1>0, <1>7, <1>8, <1>9, <1>10 DEF SRecv, u, v, all

\* The Supervisor's own sample.
LEMMA SampleKeepsInv ==
    ASSUME Inv, mode' = mode, SSample
    PROVE  Inv' /\ Move /\ Silent
<1>0. /\ SupFields \subseteq DOMAIN sup /\ Holds(sup, SupFields) /\ clock \in Nat /\ mode \in {"g4", "legacy"}
      /\ ipc.toTgt \in BOOLEAN /\ ipc.toSup \in Seq(Lines) /\ Len(ipc.toSup) \in Nat
    BY DEF Inv, Shape, Holds
<1>1. sup.pc = "sample" /\ UNCHANGED <<boot, tgt, chan, ipc, rows>>
    BY DEF SSample
<1>2. CASE sup' = SRaise(sup) /\ UNCHANGED clock
    <2>1. Goes(sup, sup')
        BY <1>0, <1>2, RaiseFacts DEF Goes
    <2> QED
        BY <1>1, <1>2, <2>1, GoesIsQuiet, Unchanged, QuietKeepsInv DEF Goes, Silent
<1>3. CASE sup' = [sup EXCEPT !.pc = "checks"] /\ UNCHANGED clock
    <2>1. Goes(sup, sup')
        BY <1>0, <1>3 DEF Goes, Kept, SupFields
    <2> QED
        BY <1>1, <1>3, <2>1, GoesIsQuiet, Unchanged, QuietKeepsInv DEF Goes, Silent
<1>4. CASE /\ clock' = clock + 1
           /\ sup' = [sup EXCEPT !.pre = clock', !.pc = IF mode = "g4" THEN "before" ELSE "release"]
    <2>1. /\ DOMAIN sup' = DOMAIN sup /\ sup'.st = sup.st /\ sup'.reason = sup.reason
          /\ sup'.hello = sup.hello /\ sup'.done = sup.done /\ sup'.buf = sup.buf /\ sup'.ack = sup.ack
          /\ sup'.pre = clock' /\ sup'.pc = (IF mode = "g4" THEN "before" ELSE "release")
        BY <1>0, <1>4 DEF SupFields
    <2>2. Sampled' /\ clock' \in Nat
        BY <1>0, <1>4, <2>1 DEF Sampled, None
    <2>3. (Seen => Seen') /\ (mode # "g4" => Seen')
        BY <1>1, <2>2 DEF Seen, Sampled, Covers
    <2>4. ipc.toTgt => Seen
        BY DEF Inv, GateInv
    <2>5. GateStep
        BY <1>0, <1>1, <2>1, <2>2, <2>3, <2>4 DEF GateStep, Holds, Released
    <2>6. BootQuiet /\ ChanQuiet
        BY <1>1, <2>1, Unchanged
    <2> QED
        BY <1>1, <2>1, <2>5, <2>6, GateKeepsInv DEF Silent
<1> QED
    BY <1>2, <1>3, <1>4 DEF SSample

\* The release, after what its mode asks for.
LEMMA ReleaseKeepsInv ==
    ASSUME Inv, mode' = mode, SRelease
    PROVE  Inv' /\ Move /\ Silent
<1>0. /\ SupFields \subseteq DOMAIN sup /\ Holds(sup, SupFields) /\ clock \in Nat /\ mode \in {"g4", "legacy"}
      /\ {"toSup", "toTgt", "dialled", "sup", "tgt"} \subseteq DOMAIN ipc
      /\ ipc.toTgt \in BOOLEAN /\ ipc.toSup \in Seq(Lines) /\ Len(ipc.toSup) \in Nat
    BY DEF Inv, Shape, Holds
<1>1. sup.pc = "release" /\ UNCHANGED <<boot, tgt, rows>> /\ Seen
    BY DEF SRelease, Inv, GateInv
<1> DEFINE u == [sup EXCEPT !.begin = clock']
<1>2. /\ DOMAIN u = DOMAIN sup /\ u.st = sup.st /\ u.reason = sup.reason /\ Kept(sup, u)
      /\ Holds(u, SupFields)
    BY <1>0 DEF SupFields, Kept, Holds
<1>3. \/ sup' = SRaise(SFail(sup, "supervisor_interrupted")) /\ UNCHANGED <<chan, ipc, clock>>
      \/ clock' = clock + 1 /\ sup' = SRaise(u) /\ UNCHANGED <<chan, ipc>>
      \/ /\ clock' = clock + 1 /\ ipc' = [ipc EXCEPT !.toTgt = TRUE]
         /\ IF mode = "g4" THEN SSend(u, Message(2, clock', NoSample), "checks")
            ELSE sup' = [u EXCEPT !.pc = "checks"] /\ UNCHANGED chan
    BY DEF SRelease
<1> HIDE DEF u
<1>4. ASSUME Goes(sup, sup'), UNCHANGED <<chan, ipc>>, clock' \in Nat PROVE Inv' /\ Move /\ Silent
    <2>1. WorldQuiet
        BY <1>0, <1>1, <1>4 DEF WorldQuiet
    <2> QED
        BY <1>1, <1>4, <2>1, GoesIsQuiet, Unchanged, QuietKeepsInv DEF Goes, Silent
<1>5. CASE sup' = SRaise(SFail(sup, "supervisor_interrupted")) /\ UNCHANGED <<chan, ipc, clock>>
    <2> DEFINE v == SFail(sup, "supervisor_interrupted")
    <2>1. Kept(sup, v) /\ v.st = sup.st /\ SupFields \subseteq DOMAIN v
        BY <1>0, FailFacts DEF Kept
    <2> HIDE DEF v
    <2>2. Goes(sup, sup')
        BY <1>5, <2>1, RaiseFacts DEF Goes, Kept, v
    <2> QED
        BY <1>0, <1>4, <1>5, <2>2
<1>6. CASE clock' = clock + 1 /\ sup' = SRaise(u) /\ UNCHANGED <<chan, ipc>>
    <2>1. Goes(sup, sup')
        BY <1>2, <1>6, RaiseFacts DEF Goes, Kept, Holds
    <2> QED
        BY <1>0, <1>4, <1>6, <2>1
<1>7. CASE /\ clock' = clock + 1 /\ ipc' = [ipc EXCEPT !.toTgt = TRUE]
           /\ IF mode = "g4" THEN SSend(u, Message(2, clock', NoSample), "checks")
              ELSE sup' = [u EXCEPT !.pc = "checks"] /\ UNCHANGED chan
    <2>1. /\ Kept(u, sup') /\ Holds(sup', SupFields) /\ sup'.pc \in {"checks", "term"}
          /\ sup'.reason = "none" => sup.reason = "none" /\ (sup'.st.seq = sup.st.seq \/ sup'.st.seq # 5)
          /\ ChanQuiet
        <3>1. CASE mode = "g4"
            <4> DEFINE m == Message(2, clock', NoSample)
            <4>1. m.seq = 2
                BY DEF Message
            <4> HIDE DEF m
            <4>2. /\ Kept(u, sup') /\ Holds(sup', SupFields) /\ sup'.pc \in {"checks", "term"}
                  /\ sup'.reason = "none" => u.reason = "none" /\ sup'.st.seq = 2 + 1
                  /\ DOMAIN chan' = DOMAIN chan /\ chan'.toBoot \in {chan.toBoot, Append(chan.toBoot, m)}
                BY <1>2, <1>7, <3>1, <4>1, SendFacts DEF m
            <4>3. ChanQuiet
                BY <4>1, <4>2, ChanGrows
            <4> QED
                BY <1>2, <4>2, <4>3
        <3>2. CASE mode # "g4"
            BY <1>0, <1>2, <1>7, <3>2, Unchanged DEF Kept, Holds, SupFields
        <3> QED
            BY <3>1, <3>2
    <2>2. DOMAIN ipc' = DOMAIN ipc /\ ipc'.toTgt = TRUE /\ ipc'.toSup = ipc.toSup /\ clock' \in Nat
        BY <1>0, <1>7
    <2>3. Seen' /\ (Sampled' <=> Sampled)
        BY <1>1, <1>2, <2>1 DEF Seen, Covers, Kept, Sampled
    <2>6. /\ DOMAIN sup' = DOMAIN sup /\ sup'.hello = sup.hello /\ sup'.done = sup.done
          /\ sup'.buf = sup.buf /\ sup'.ack = sup.ack
        BY <1>2, <2>1 DEF Kept
    <2>7. Released' /\ UNCHANGED <<tgt, rows>> /\ Len(ipc'.toSup) <= Len(ipc.toSup) /\ ipc'.toTgt \in BOOLEAN
        <3>1. Released'
            BY <2>2 DEF Released
        <3>2. Len(ipc'.toSup) <= Len(ipc.toSup)
            BY <1>0, <2>2
        <3> QED
            BY <1>1, <2>2, <3>1, <3>2, ZenonT(30)
    <2>4. GateStep
        BY <1>0, <2>1, <2>2, <2>3, <2>6, <2>7 DEF GateStep
    <2>5. BootQuiet
        BY <1>1, <2>1, Unchanged
    <2> QED
        BY <1>1, <2>1, <2>4, <2>5, GateKeepsInv DEF Silent
<1> QED
    BY <1>3, <1>5, <1>6, <1>7

(***************************************************************************)
(* Bootstrap.                                                              *)
(***************************************************************************)
Early == {"none", "connect", "confirm", "start", "owner"}

\* A new place for Bootstrap, at which nothing is claimed that was not known.
Placed(b, c) ==
    /\ DOMAIN c = DOMAIN b /\ c.st = b.st
    /\ \/ c.pc \notin Early \cup {"loop", "sample"}
       \/ c.pc \in Early \cup {"loop"} /\ b.pc \in Early
       \/ c.pc \in {"loop", "sample"} /\ b.pc \in {"loop", "sample"}

\* A new place for Bootstrap is not seen by the barrier.
LEMMA PlacedIsQuiet ==
    ASSUME Inv, Placed(boot, boot'), sup' = sup, sup.pc # "launch" PROVE BootQuiet
BY DEF Inv, Shape, Holds, BootInv, Placed, BootQuiet, Early

\* While Bootstrap runs, the Supervisor has launched it.
LEMMA Launched ==
    ASSUME Inv, boot.pc # "none" PROVE sup.pc # "launch"
BY DEF Inv, BootInv

\* The monitor's exception ends in the cleanup, with the same count.
LEMMA RaisedFacts ==
    ASSUME NEW b, Holds(b, BootFields)
    PROVE  /\ DOMAIN BRaise(b) = DOMAIN b /\ Holds(BRaise(b), BootFields) /\ BRaise(b).pc = "cleanup"
           /\ BRaise(b).st.seq = b.st.seq
<1> DEFINE f == Failed(b)
<1>1. DOMAIN f = DOMAIN b /\ DOMAIN f.st = DOMAIN b.st /\ f.st.seq = b.st.seq /\ BootFields \subseteq DOMAIN b
    BY FailedFacts DEF Holds, BootFields
<1> HIDE DEF f
<1>2. BRaise(b) = [f EXCEPT !.error = TRUE, !.pc = "cleanup", !.primary = "runner_error"]
    BY DEF BRaise, f
<1>3. DOMAIN BRaise(b) = DOMAIN b /\ BRaise(b).pc = "cleanup" /\ BRaise(b).st = f.st
    BY <1>1, <1>2 DEF BootFields
<1> QED
    BY <1>1, <1>3 DEF Holds

\* From the channel to the target, and one round of the loop.
LEMMA StartKeepsInv ==
    ASSUME Inv, mode' = mode, BConnect \/ BConfirm \/ BStart \/ BOwner \/ BLoop
    PROVE  Inv' /\ Move /\ UNCHANGED sup
<1>0. /\ BootFields \subseteq DOMAIN boot /\ {"toBoot", "toSup", "sup", "boot"} \subseteq DOMAIN chan
      /\ {"st", "pc", "code", "killed"} \subseteq DOMAIN tgt
      /\ ipc.toSup \in Seq(Lines) /\ Len(ipc.toSup) \in Nat /\ clock \in Nat
    BY DEF Inv, Shape, Holds
<1>1. UNCHANGED <<sup, ipc, rows, clock>> /\ boot.pc # "none"
    BY DEF BConnect, BConfirm, BStart, BOwner, BLoop
<1>2. Placed(boot, boot')
    <2>1. CASE BConnect
        BY <1>0, <2>1, ZenonT(30) DEF BConnect, Died, Placed, Early, BootFields
    <2>2. CASE BConfirm
        BY <1>0, <2>2, ZenonT(30) DEF BConfirm, Died, Placed, Early, BootFields
    <2>3. CASE BStart
        BY <1>0, <2>3, ZenonT(30) DEF BStart, Placed, Early, BootFields
    <2>4. CASE BOwner
        BY <1>0, <2>4, ZenonT(30) DEF BOwner, Placed, Early, BootFields
    <2>5. CASE BLoop
        <3>1. boot.pc = "loop"
            BY <2>5 DEF BLoop
        <3>2. \/ \E outcome : boot' = [boot EXCEPT !.pc = "cleanup", !.primary = outcome]
              \/ boot' = [boot EXCEPT !.pc = "recv", !.monitor = TRUE]
              \/ boot' = [boot EXCEPT !.pc = "sample"]
              \/ boot' = boot
            BY <2>5, ZenonT(30) DEF BLoop
        <3>3. ASSUME NEW outcome, boot' = [boot EXCEPT !.pc = "cleanup", !.primary = outcome]
              PROVE  Placed(boot, boot')
            BY <1>0, <3>3 DEF Placed, Early, BootFields
        <3>4. CASE boot' = [boot EXCEPT !.pc = "recv", !.monitor = TRUE]
            BY <1>0, <3>4 DEF Placed, Early, BootFields
        <3>5. CASE boot' = [boot EXCEPT !.pc = "sample"]
            BY <1>0, <3>1, <3>5 DEF Placed, Early, BootFields
        <3>6. CASE boot' = boot
            BY <3>1, <3>6 DEF Placed
        <3> QED
            BY <3>2, <3>3, <3>4, <3>5, <3>6, ZenonT(30)
    <2> QED
        BY <2>1, <2>2, <2>3, <2>4, <2>5
<1>3. DOMAIN chan' = DOMAIN chan /\ chan'.toBoot = chan.toBoot
    BY <1>0 DEF BConnect, BConfirm, BStart, BOwner, BLoop
<1>4. DOMAIN tgt' = DOMAIN tgt /\ tgt'.pc = tgt.pc
    BY <1>0 DEF BConnect, BConfirm, BStart, BOwner, BLoop
<1>5. WorldQuiet
    BY <1>0, <1>1, <1>4 DEF WorldQuiet
<1>6. SupQuiet /\ BootQuiet /\ ChanQuiet
    BY <1>1, <1>2, <1>3, Launched, Unchanged, PlacedIsQuiet, ChanEnds
<1> QED
    BY <1>1, <1>5, <1>6, QuietKeepsInv

\* The monitor takes a frame; one about the work is sent by somebody who knows.
LEMMA TakeKeepsInv ==
    ASSUME Inv, mode' = mode, BRecv
    PROVE  Inv' /\ Move /\ UNCHANGED sup
<1>0. /\ BootFields \subseteq DOMAIN boot /\ Holds(boot, BootFields)
      /\ {"toBoot", "toSup", "sup", "boot"} \subseteq DOMAIN chan /\ IsSeq(chan.toBoot)
    BY DEF Inv, Shape, Holds
<1>1. UNCHANGED <<sup, tgt, ipc, rows, clock>> /\ boot.pc = "recv"
    BY DEF BRecv
<1>2. SupQuiet /\ WorldQuiet /\ sup.pc # "launch"
    BY <1>1, Launched, Unchanged
<1> DEFINE m  == Head(chan.toBoot)
           ok == Accepts(boot.st, m, clock) /\ m.seq \in {0, 2, 3}
<1>3. ChanQuiet
    <2>1. CASE UNCHANGED chan
        BY <2>1, Unchanged
    <2>2. CASE chan.toBoot # <<>> /\ chan' = [chan EXCEPT !.toBoot = Tail(@)]
        <3>1. DOMAIN chan' = DOMAIN chan /\ chan'.toBoot = Tail(chan.toBoot)
            BY <1>0, <2>2
        <3>2. IsSeq(chan'.toBoot)
            BY <1>0, <2>2, <3>1, SeqFacts
        <3>3. ASSUME NEW i \in DOMAIN chan'.toBoot, chan'.toBoot[i].seq = 3 PROVE AtWork
            <4>1. PICK j \in DOMAIN chan.toBoot : chan'.toBoot[i] = chan.toBoot[j]
                BY <1>0, <2>2, <3>1, <3>3, SeqFacts
            <4> QED
                BY <3>3, <4>1 DEF Inv, AckInv
        <3> QED
            BY <3>1, <3>2, <3>3 DEF ChanQuiet
    <2> QED
        BY <2>1, <2>2 DEF BRecv, CanRead
<1>4. ASSUME chan.toBoot # <<>>, m.seq = 3 PROVE AtWork
    <2>1. 1 \in DOMAIN chan.toBoot /\ m = chan.toBoot[1]
        <3>1. PICK S : chan.toBoot \in Seq(S)
            BY <1>0 DEF IsSeq
        <3> QED
            BY <1>4, <3>1
    <2> QED
        BY <1>4, <2>1 DEF Inv, AckInv
<1>5. \/ boot' = BRaise(boot) \/ boot' = BRaise(NotSent(boot, m))
      \/ /\ chan.toBoot # <<>> /\ ok
         /\ boot' = [Sent(boot, m) EXCEPT !.event = m.stamp, !.pc = IF m.seq = 2 THEN "recv" ELSE "sample"]
    BY DEF BRecv, CanRead
<1>6. /\ Holds(NotSent(boot, m), BootFields) /\ Holds(Sent(boot, m), BootFields)
      /\ DOMAIN Sent(boot, m) = DOMAIN boot /\ Sent(boot, m).st.seq = boot.st.seq + 1
    BY <1>0, SentFacts DEF Holds, BootFields
<1>7. ASSUME NEW b, Holds(b, BootFields), boot' = BRaise(b) PROVE BootQuiet
    <2>1. Holds(boot', BootFields) /\ boot'.pc = "cleanup"
        BY <1>7, RaisedFacts
    <2> QED
        BY <1>1, <1>2, <2>1 DEF BootQuiet
<1>8. ASSUME chan.toBoot # <<>>, ok,
             boot' = [Sent(boot, m) EXCEPT !.event = m.stamp, !.pc = IF m.seq = 2 THEN "recv" ELSE "sample"]
      PROVE  BootQuiet
    <2> DEFINE b == Sent(boot, m)
    <2>1. m.seq = boot.st.seq /\ m.seq \in {0, 2, 3}
        BY <1>8, AcceptsFacts
    <2> HIDE DEF b, m
    <2>2. /\ DOMAIN boot' = DOMAIN b /\ boot'.st = b.st
          /\ boot'.pc = (IF m.seq = 2 THEN "recv" ELSE "sample")
        BY <1>0, <1>6, <1>8 DEF BootFields, b
    <2>3. Holds(boot', BootFields) /\ boot'.st.seq = m.seq + 1
        BY <1>6, <2>1, <2>2 DEF Holds, b
    <2>4. boot'.pc = "sample" /\ boot'.st.seq >= 3 => AtWork
        BY <1>4, <1>8, <2>1, <2>2, <2>3
    <2>5. boot'.pc \in {"recv", "sample"} /\ sup'.pc # "launch"
        BY <1>1, <1>2, <2>2
    <2>6. boot'.pc \notin {"none", "connect", "confirm", "start", "owner", "loop"}
        BY <2>5
    <2> QED
        BY <2>3, <2>4, <2>5, <2>6 DEF BootQuiet
<1>9. BootQuiet
    <2>1. CASE boot' = BRaise(boot)
        BY <1>0, <1>7, <2>1
    <2>2. CASE boot' = BRaise(NotSent(boot, m))
        <3> DEFINE b == NotSent(boot, m)
        <3>1. Holds(b, BootFields)
            BY <1>6
        <3> HIDE DEF b
        <3> QED
            BY <1>7, <2>2, <3>1 DEF b
    <2> HIDE DEF m, ok
    <2> QED
        BY <1>5, <1>8, <2>1, <2>2
<1> QED
    BY <1>1, <1>2, <1>3, <1>9, QuietKeepsInv

\* Cleanup, the verdict and the end are past all that the barrier is about.
LEMMA EndKeepsInv ==
    ASSUME Inv, mode' = mode, BCleanup \/ BPublish \/ BOutcome \/ BKilled
    PROVE  Inv' /\ Move /\ UNCHANGED sup
<1>0. /\ BootFields \subseteq DOMAIN boot /\ {"toBoot", "toSup", "sup", "boot"} \subseteq DOMAIN chan
      /\ {"st", "pc", "code", "killed"} \subseteq DOMAIN tgt
      /\ ipc.toSup \in Seq(Lines) /\ Len(ipc.toSup) \in Nat /\ clock \in Nat
    BY DEF Inv, Shape, Holds
<1>1. UNCHANGED <<sup, ipc, rows, clock>> /\ boot.pc # "none"
    BY DEF BCleanup, BPublish, BOutcome, BKilled, Alive
<1>d. ASSUME NEW c, DOMAIN c = DOMAIN boot, c.st = boot.st, NEW code, boot' = Died(c, code)
      PROVE  Placed(boot, boot')
    BY <1>0, <1>d DEF Placed, Died, Early, BootFields
<1>2. Placed(boot, boot')
    <2>1. CASE BCleanup
        <3> DEFINE p == IF boot.sig /\ boot.primary = "command_success" THEN "interrupted" ELSE boot.primary
                   won(clean) == clean /\ p = "command_success"
                   b(clean) == [boot EXCEPT !.primary = p, !.clean = clean, !.pc = "publish",
                                            !.success = won(clean)]
        <3>1. boot' = b(TRUE) \/ boot' = b(FALSE)
            BY <2>1 DEF BCleanup
        <3> HIDE DEF p, won
        <3> QED
            BY <1>0, <3>1, ZenonT(30) DEF Placed, Early, BootFields
    <2>2. CASE BPublish
        <3> DEFINE record == [primary |-> boot.primary, success |-> boot.success, clean |-> boot.clean,
                              signals |-> boot.sig]
                   result(ok) == IF ok THEN record ELSE NoResult
                   won(ok) == boot.success /\ ok
                   b(ok) == [boot EXCEPT !.result = result(ok), !.success = won(ok)]
                   code(c) == IF c.success THEN "accepted" ELSE "complete"
                   on(c) == IF mode = "g4" THEN [c EXCEPT !.pc = "row"] ELSE Died(c, code(c))
        <3>1. boot' = on(b(TRUE)) \/ boot' = on(b(FALSE))
            BY <2>2 DEF BPublish
        <3> HIDE DEF result, won, code
        <3>2. \A ok : DOMAIN b(ok) = DOMAIN boot /\ b(ok).st = boot.st
            BY <1>0 DEF BootFields
        <3> HIDE DEF b
        <3>3. ASSUME NEW c, DOMAIN c = DOMAIN boot, c.st = boot.st, boot' = on(c) PROVE Placed(boot, boot')
            <4>1. CASE mode = "g4"
                BY <1>0, <3>3, <4>1 DEF Placed, Early, BootFields
            <4>2. CASE mode # "g4"
                BY <1>d, <3>3, <4>2
            <4> QED
                BY <4>1, <4>2
        <3> HIDE DEF on
        <3> QED
            BY <3>1, <3>2, <3>3, ZenonT(30)
    <2>3. CASE BOutcome
        <3>1. PICK outcome, code : boot' = Died([boot EXCEPT !.outcome = outcome], code)
            BY <2>3, ZenonT(30) DEF BOutcome
        <3> DEFINE c == [boot EXCEPT !.outcome = outcome]
        <3>2. DOMAIN c = DOMAIN boot /\ c.st = boot.st /\ boot' = Died(c, code)
            BY <1>0, <3>1 DEF BootFields
        <3> HIDE DEF c
        <3> QED
            BY <1>d, <3>2
    <2>4. CASE BKilled
        BY <1>d, <2>4 DEF BKilled
    <2> QED
        BY <2>1, <2>2, <2>3, <2>4
<1>3. DOMAIN chan' = DOMAIN chan /\ chan'.toBoot = chan.toBoot
    BY <1>0 DEF BCleanup, BPublish, BOutcome, BKilled
<1>4. DOMAIN tgt' = DOMAIN tgt /\ tgt'.pc = tgt.pc
    <2>1. CASE BCleanup
        <3>1. tgt' = tgt \/ tgt' = [tgt EXCEPT !.st = "gone"] \/ \E k : tgt' = [tgt EXCEPT !.killed = k]
            BY <2>1 DEF BCleanup
        <3> QED
            BY <1>0, <3>1
    <2>2. CASE BPublish \/ BOutcome \/ BKilled
        BY <2>2 DEF BPublish, BOutcome, BKilled
    <2> QED
        BY <2>1, <2>2
<1>5. WorldQuiet
    BY <1>0, <1>1, <1>4 DEF WorldQuiet
<1>6. SupQuiet /\ BootQuiet /\ ChanQuiet
    BY <1>1, <1>2, <1>3, Launched, Unchanged, PlacedIsQuiet, ChanEnds
<1> QED
    BY <1>1, <1>5, <1>6, QuietKeepsInv

(***************************************************************************)
(* Bootstrap's samples.                                                    *)
(***************************************************************************)
\* A row is stored, or none; a COMPLETE one of a phase covers it.
LEMMA RowFacts ==
    ASSUME Inv, NEW row, rows' = rows \/ rows' = Append(rows, row)
    PROVE  /\ IsSeq(rows)'
           /\ \A phase : Covers(phase) => Covers(phase)'
           /\ \A phase : Covers(phase)' => Covers(phase) \/ (row.phase = phase /\ row.status = "COMPLETE")
<1>1. CASE rows' = rows
    BY <1>1 DEF Inv, Shape, IsSeq, Covers
<1>2. CASE rows' = Append(rows, row)
    <2>1. IsSeq(rows)
        BY DEF Inv, Shape
    <2>2. /\ DOMAIN rows = 1..Len(rows) /\ DOMAIN rows' = 1..(Len(rows) + 1) /\ Len(rows) \in Nat
          /\ \A i \in 1..Len(rows) : rows'[i] = rows[i]
          /\ rows'[Len(rows) + 1] = row /\ IsSeq(rows')
        BY <1>2, <2>1, SeqFacts
    <2>3. \A i \in DOMAIN rows' : (i \in DOMAIN rows /\ rows'[i] = rows[i]) \/ rows'[i] = row
        BY <2>2
    <2>4. \A i \in DOMAIN rows : i \in DOMAIN rows' /\ rows'[i] = rows[i]
        BY <2>2
    <2> QED
        BY <2>2, <2>3, <2>4 DEF Covers, IsSeq
<1> QED
    BY <1>1, <1>2

\* A step that stores a row: quiet for everybody else.
LEMMA RowKeepsInv ==
    ASSUME Inv, mode' = mode, UNCHANGED <<sup, tgt, ipc>>, sup.pc # "launch", BootQuiet, ChanQuiet,
           clock' \in Nat, NEW row, rows' = rows \/ rows' = Append(rows, row),
           row.phase = "workload" => AtWork
    PROVE  Inv' /\ Move
<1>1. /\ IsSeq(rows)' /\ (Ready => Ready') /\ (Confirmed => Confirmed')
      /\ (Ready' => Ready \/ row.phase = "readiness") /\ (Confirmed' => Confirmed \/ row.phase = "workload")
    BY RowFacts DEF Ready, Confirmed
<1>2. /\ (AtWork' <=> AtWork) /\ (Released' <=> Released) /\ (Sampled' <=> Sampled)
      /\ (Acknowledged' <=> Acknowledged) /\ (Seen => Seen')
    BY <1>1 DEF AtWork, Released, Sampled, Acknowledged, Seen, Ready
<1>3. Move
    <2>1. CASE row.phase = "readiness"
        BY <1>1, <1>2, <2>1 DEF Move
    <2>2. CASE row.phase # "readiness"
        BY <1>1, <1>2, <2>2 DEF Move
    <2> QED
        BY <2>1, <2>2
<1>4. Shape'
    BY <1>1 DEF Inv, Shape, Holds, BootQuiet, ChanQuiet
<1>5. LineInv'
    BY ZenonT(30) DEF Inv, LineInv, Read, Said
<1>6. GateInv'
    BY <1>2 DEF Inv, GateInv
<1>7. AckInv'
    BY <1>1, <1>2 DEF Inv, AckInv, Confirmed, ChanQuiet
<1>8. BootInv'
    BY <1>2 DEF BootInv, BootQuiet
<1>9. ReceiptInv'
    BY <1>1 DEF Inv, ReceiptInv, Confirmed
<1> QED
    BY <1>3, <1>4, <1>5, <1>6, <1>7, <1>8, <1>9 DEF Inv

\* A sample in the loop, and its receipt.
LEMMA StoreKeepsInv ==
    ASSUME Inv, mode' = mode, BSample
    PROVE  Inv' /\ Move /\ UNCHANGED sup
<1>0. /\ BootFields \subseteq DOMAIN boot /\ Holds(boot, BootFields) /\ boot.st.seq \in Nat
      /\ {"toBoot", "toSup", "sup", "boot"} \subseteq DOMAIN chan /\ clock \in Nat
    BY DEF Inv, Shape, Holds
<1>1. UNCHANGED <<sup, tgt, ipc>> /\ boot.pc = "sample"
    BY DEF BSample
<1>2. sup.pc # "launch" /\ (boot.st.seq >= 3 => AtWork)
    BY <1>1, Launched DEF Inv, BootInv
<1>3. PICK status \in {StatusNow, "PARTIAL"} :
       LET row == [phase |-> Phase(boot.st.seq), status |-> status, event |-> boot.event,
                   start |-> clock + 1, end |-> clock + 2]
           m   == Message(boot.st.seq, clock + 3, [seq |-> Len(rows), start |-> row.start, end |-> row.end])
           goes(b) == \/ boot' = [b EXCEPT !.pc = "loop"]
                      \/ boot' = [b EXCEPT !.pc = "cleanup", !.primary = "resource_stop"]
       IN /\ rows' = rows \/ rows' = Append(rows, row)
          /\ clock' \in {clock, clock + 2, clock + 3}
          /\ chan' = chan \/ chan' = [chan EXCEPT !.toSup = Append(@, m)]
          /\ \/ boot' = [BRaise(boot) EXCEPT !.storage = FALSE]
             \/ boot' = BRaise(boot)
             \/ boot' = BRaise(NotSent(boot, m))
             \/ goes(boot)
             \/ boot.st.seq \in {1, 4} /\ goes(Sent(boot, m))
    BY DEF BSample
<1> DEFINE row == [phase |-> Phase(boot.st.seq), status |-> status, event |-> boot.event,
                   start |-> clock + 1, end |-> clock + 2]
           m == Message(boot.st.seq, clock + 3, [seq |-> Len(rows), start |-> row.start, end |-> row.end])
           goes(b) == \/ boot' = [b EXCEPT !.pc = "loop"]
                      \/ boot' = [b EXCEPT !.pc = "cleanup", !.primary = "resource_stop"]
<1>4. /\ rows' = rows \/ rows' = Append(rows, row)
      /\ chan' = chan \/ chan' = [chan EXCEPT !.toSup = Append(@, m)]
      /\ \/ boot' = [BRaise(boot) EXCEPT !.storage = FALSE]
         \/ boot' = BRaise(boot)
         \/ boot' = BRaise(NotSent(boot, m))
         \/ goes(boot)
         \/ boot.st.seq \in {1, 4} /\ goes(Sent(boot, m))
    BY <1>3
<1>5. clock' \in Nat
    BY <1>0, <1>3
<1>6. row.phase = "workload" => AtWork
    BY <1>0, <1>2 DEF Phase
<1> HIDE DEF row, m
<1>7. ChanQuiet
    <2>1. DOMAIN chan' = DOMAIN chan /\ chan'.toBoot = chan.toBoot
        BY <1>0, <1>4
    <2> QED
        BY <2>1, ChanEnds
<1>8. BootQuiet
    <2>1. ASSUME Holds(boot', BootFields), boot'.pc = "cleanup" PROVE BootQuiet
        BY <1>1, <1>2, <2>1 DEF BootQuiet
    <2>2. ASSUME NEW b, Holds(b, BootFields), boot' = BRaise(b) \/ boot' = [BRaise(b) EXCEPT !.storage = FALSE]
          PROVE  BootQuiet
        <3> DEFINE r == BRaise(b)
        <3>1. Holds(r, BootFields) /\ r.pc = "cleanup" /\ BootFields \subseteq DOMAIN r
            BY <2>2, RaisedFacts DEF Holds
        <3> HIDE DEF r
        <3>2. Holds(boot', BootFields) /\ boot'.pc = "cleanup"
            BY <2>2, <3>1 DEF Holds, BootFields, r
        <3> QED
            BY <2>1, <3>2
    <2>3. ASSUME NEW b, Holds(b, BootFields), goes(b), b.st.seq >= 3 => AtWork PROVE BootQuiet
        <3>0. BootFields \subseteq DOMAIN b
            BY <2>3 DEF Holds
        <3>1. CASE boot' = [b EXCEPT !.pc = "loop"]
            <4>1. DOMAIN boot' = DOMAIN b /\ boot'.st = b.st /\ boot'.pc = "loop"
                BY <3>0, <3>1 DEF BootFields
            <4>2. Holds(boot', BootFields)
                BY <2>3, <4>1 DEF Holds
            <4> QED
                BY <1>1, <1>2, <2>3, <4>1, <4>2 DEF BootQuiet
        <3>2. CASE boot' = [b EXCEPT !.pc = "cleanup", !.primary = "resource_stop"]
            BY <2>1, <2>3, <3>0, <3>2 DEF Holds, BootFields
        <3> QED
            BY <2>3, <3>1, <3>2
    <2>4. /\ Holds(NotSent(boot, m), BootFields) /\ Holds(Sent(boot, m), BootFields)
          /\ Sent(boot, m).st.seq = boot.st.seq + 1
        BY <1>0, SentFacts DEF Holds, BootFields
    <2>5. CASE boot' = [BRaise(boot) EXCEPT !.storage = FALSE] \/ boot' = BRaise(boot)
        BY <1>0, <2>2, <2>5
    <2>6. CASE boot' = BRaise(NotSent(boot, m))
        <3> DEFINE b == NotSent(boot, m)
        <3>1. Holds(b, BootFields) /\ boot' = BRaise(b)
            BY <2>4, <2>6
        <3> HIDE DEF b
        <3> QED
            BY <2>2, <3>1
    <2>7. CASE goes(boot)
        BY <1>0, <1>2, <2>3, <2>7, ZenonT(30)
    <2>8. CASE boot.st.seq \in {1, 4} /\ goes(Sent(boot, m))
        <3> DEFINE b == Sent(boot, m)
        <3>1. Holds(b, BootFields) /\ goes(b) /\ b.st.seq = boot.st.seq + 1
            BY <2>4, <2>8
        <3> HIDE DEF b, goes
        <3>2. b.st.seq >= 3 => boot.st.seq >= 3
            BY <2>8, <3>1
        <3> QED
            BY <1>2, <2>3, <3>1, <3>2
    <2> HIDE DEF goes
    <2> QED
        BY <1>4, <2>5, <2>6, <2>7, <2>8
<1> QED
    BY <1>1, <1>2, <1>4, <1>5, <1>6, <1>7, <1>8, RowKeepsInv

\* The sample after cleanup is of no phase of the barrier.
LEMMA LastRowKeepsInv ==
    ASSUME Inv, mode' = mode, BRow
    PROVE  Inv' /\ Move /\ UNCHANGED sup
<1>0. /\ BootFields \subseteq DOMAIN boot /\ {"toBoot", "toSup", "sup", "boot"} \subseteq DOMAIN chan
      /\ clock \in Nat
    BY DEF Inv, Shape, Holds
<1>1. UNCHANGED <<sup, tgt, ipc>> /\ boot.pc = "row"
    BY DEF BRow
<1> DEFINE row == [phase |-> "cleanup", status |-> StatusNow, event |-> clock,
                   start |-> clock + 1, end |-> clock + 2]
<1>2. /\ rows' = rows \/ rows' = Append(rows, row)
      /\ clock' = clock \/ clock' = clock + 2
      /\ chan' = chan \/ chan' = [chan EXCEPT !.boot = FALSE]
      /\ boot' = [boot EXCEPT !.pc = "outcome"] \/ boot' = Died(boot, "error")
    BY DEF BRow
<1>3. row.phase # "workload"
    OBVIOUS
<1> HIDE DEF row
<1>4. Placed(boot, boot')
    BY <1>0, <1>2, ZenonT(30) DEF Placed, Died, Early, BootFields
<1>5. DOMAIN chan' = DOMAIN chan /\ chan'.toBoot = chan.toBoot /\ clock' \in Nat
    BY <1>0, <1>2
<1>6. BootQuiet /\ ChanQuiet /\ sup.pc # "launch"
    BY <1>1, <1>4, <1>5, Launched, PlacedIsQuiet, ChanEnds
<1> QED
    BY <1>1, <1>2, <1>3, <1>5, <1>6, RowKeepsInv

(***************************************************************************)
(* The target, time and signals.                                           *)
(***************************************************************************)
\* A line of the target: it says one more than before.
LEMMA LineKeepsInv ==
    ASSUME Inv, mode' = mode, TDial \/ TGo
    PROVE  Inv' /\ Move /\ UNCHANGED sup
<1>0. /\ {"st", "pc", "code", "killed"} \subseteq DOMAIN tgt
      /\ {"toSup", "toTgt", "dialled", "sup", "tgt"} \subseteq DOMAIN ipc
      /\ ipc.toSup \in Seq(Lines) /\ sup.buf \in Seq(Lines) /\ ipc.toTgt \in BOOLEAN
    BY DEF Inv, Shape
<1>1. UNCHANGED <<sup, boot, chan, rows, clock>>
    BY DEF TDial, TGo
<1>2. PICK line \in Lines :
         /\ DOMAIN ipc' = DOMAIN ipc /\ ipc'.toTgt = ipc.toTgt /\ ipc'.toSup = Append(ipc.toSup, line)
         /\ DOMAIN tgt' = DOMAIN tgt
         /\ \/ tgt.pc = "start" /\ tgt'.pc = "wait"
            \/ tgt.pc = "wait" /\ tgt'.pc = "work" /\ ipc.toTgt
    <2>1. CASE TDial
        <3>1. /\ DOMAIN ipc' = DOMAIN ipc /\ ipc'.toTgt = ipc.toTgt /\ ipc'.toSup = Append(ipc.toSup, "ready")
              /\ DOMAIN tgt' = DOMAIN tgt /\ tgt.pc = "start" /\ tgt'.pc = "wait"
            BY <1>0, <2>1 DEF TDial
        <3> QED
            BY <3>1 DEF Lines
    <2>2. CASE TGo
        <3>1. /\ DOMAIN ipc' = DOMAIN ipc /\ ipc'.toTgt = ipc.toTgt
              /\ ipc'.toSup = Append(ipc.toSup, "released")
              /\ DOMAIN tgt' = DOMAIN tgt /\ tgt.pc = "wait" /\ tgt'.pc = "work" /\ ipc.toTgt
            BY <1>0, <2>2, ZenonT(30) DEF TGo
        <3> QED
            BY <3>1 DEF Lines
    <2> QED
        BY <2>1, <2>2
<1>3. /\ ipc'.toSup \in Seq(Lines) /\ Len(ipc.toSup) \in Nat /\ Len(ipc'.toSup) = Len(ipc.toSup) + 1
      /\ Len(sup.buf) \in Nat
    BY <1>0, <1>2
<1>4. /\ (AtWork => AtWork') /\ (AtWork' => ipc'.toTgt) /\ (Ready' <=> Ready) /\ (Confirmed' <=> Confirmed)
      /\ (Released' <=> Released) /\ (Sampled' <=> Sampled) /\ (Acknowledged' <=> Acknowledged)
      /\ (Seen' <=> Seen)
    BY <1>1, <1>2 DEF AtWork, Ready, Confirmed, Released, Sampled, Acknowledged, Covers, Seen
<1>5. Move
    BY <1>4 DEF Move
<1>6. Shape'
    <2>1. /\ ({"st", "pc", "code", "killed"} \subseteq DOMAIN tgt)'
          /\ ({"toSup", "toTgt", "dialled", "sup", "tgt"} \subseteq DOMAIN ipc)'
          /\ tgt'.pc \in {"start", "wait", "work"} /\ ipc'.toTgt \in BOOLEAN
        BY <1>0, <1>2
    <2> QED
        BY <1>1, <1>3, <2>1 DEF Inv, Shape, Holds, IsSeq
<1>7. LineInv'
    <2>1. Said(tgt') = Said(tgt) + 1 /\ Said(tgt) \in Nat /\ Read(sup) \in Nat
        BY <1>2 DEF Said, Read
    <2>2. Read(sup) + Len(sup.buf) + Len(ipc.toSup) <= Said(tgt) /\ (sup.done => sup.hello)
        BY DEF Inv, LineInv
    <2>3. Read(sup) + Len(sup.buf) + Len(ipc'.toSup) <= Said(tgt')
        BY ONLY <1>3, <2>1, <2>2
    <2> QED
        BY <1>1, <2>2, <2>3 DEF LineInv
<1>8. GateInv'
    BY <1>1, <1>2, <1>4 DEF Inv, GateInv
<1>9. AckInv'
    BY <1>1, <1>4 DEF Inv, AckInv, Confirmed
<1>10. BootInv'
    BY <1>1, <1>4 DEF Inv, BootInv
<1>11. ReceiptInv'
    BY <1>1, <1>4 DEF Inv, ReceiptInv, Confirmed
<1> QED
    BY <1>1, <1>5, <1>6, <1>7, <1>8, <1>9, <1>10, <1>11 DEF Inv

\* The end of the target, deadlines and signals.
LEMMA OutsideKeepsInv ==
    ASSUME Inv, mode' = mode, TExit \/ TKilled \/ TReaped \/ Signal \/ \E d \in Deadlines : Pass(d)
    PROVE  Inv' /\ Move /\ Silent
<1>0. /\ SupFields \subseteq DOMAIN sup /\ Holds(sup, SupFields)
      /\ {"st", "pc", "code", "killed"} \subseteq DOMAIN tgt
      /\ {"toSup", "toTgt", "dialled", "sup", "tgt"} \subseteq DOMAIN ipc
      /\ {"toBoot", "toSup", "sup", "boot"} \subseteq DOMAIN chan
      /\ ipc.toSup \in Seq(Lines) /\ Len(ipc.toSup) \in Nat /\ clock \in Nat
    BY DEF Inv, Shape, Holds
<1>1. WorldQuiet
    <2>1. /\ DOMAIN tgt' = DOMAIN tgt /\ tgt'.pc = tgt.pc /\ DOMAIN ipc' = DOMAIN ipc
          /\ ipc'.toTgt = ipc.toTgt /\ ipc'.toSup = ipc.toSup /\ UNCHANGED <<rows, clock>>
        BY <1>0, ZenonT(30) DEF TExit, TKilled, TReaped, Signal, Pass, Exited, Hangup
    <2> QED
        BY <1>0, <2>1 DEF WorldQuiet
<1>2. CASE TExit \/ TKilled \/ TReaped \/ \E d \in Deadlines : Pass(d)
    <2>1. UNCHANGED <<sup, boot, chan>>
        BY <1>2 DEF TExit, TKilled, TReaped, Pass
    <2> QED
        BY <1>1, <2>1, Unchanged, QuietKeepsInv DEF Silent
<1>3. CASE Signal
    <2>1. CASE sup.pc \notin {"report", "done"} /\ sup' = [sup EXCEPT !.pending = TRUE] /\ UNCHANGED <<boot, chan>>
        <3>1. /\ DOMAIN sup' = DOMAIN sup /\ sup'.st = sup.st /\ sup'.reason = sup.reason /\ sup'.pc = sup.pc
              /\ Kept(sup, sup')
            BY <1>0, <2>1 DEF SupFields, Kept
        <3>2. SupQuiet
            BY <1>0, <2>1, <3>1 DEF SupQuiet, Holds, Inv, GateInv
        <3>3. BootQuiet /\ ChanQuiet
            BY <2>1, <3>1, Unchanged
        <3> QED
            BY <1>1, <2>1, <3>1, <3>2, <3>3, QuietKeepsInv DEF Silent
    <2>2. CASE /\ Alive(boot) /\ boot' = Terminated(boot) /\ UNCHANGED sup
               /\ chan' = [chan EXCEPT !.boot = @ /\ Alive(boot')]
        <3>1. DOMAIN chan' = DOMAIN chan /\ chan'.toBoot = chan.toBoot
            BY <1>0, <2>2
        <3>2. sup.pc # "launch"
            BY <2>2, Launched DEF Alive
        <3>3. SupQuiet /\ BootQuiet /\ ChanQuiet
            BY <2>2, <3>1, <3>2, Unchanged, TerminatedFacts, ShiftedIsQuiet, ChanEnds
        <3> QED
            BY <1>1, <2>2, <3>3, QuietKeepsInv DEF Silent
    <2> QED
        BY <1>3, <2>1, <2>2 DEF Signal
<1> QED
    BY <1>2, <1>3

(***************************************************************************)
(* The refinement.                                                         *)
(***************************************************************************)
LEMMA InitInv == ASSUME Init PROVE Inv
<1>1. /\ DOMAIN sup = SupFields /\ DOMAIN boot = BootFields /\ sup.st = NewState /\ boot.st = NewState
      /\ sup.pc = "launch" /\ boot.pc = "none" /\ sup.hello = FALSE /\ sup.done = FALSE /\ sup.buf = <<>>
      /\ sup.pre = None /\ sup.ack = None /\ sup.reason = "none"
    BY ZenonT(30) DEF Init, SupFields, BootFields
<1>2. DOMAIN NewState = StFields /\ NewState.seq = 0
    BY DEF NewState, StFields
<1>3. /\ DOMAIN tgt = {"st", "pc", "code", "killed"} /\ tgt.pc = "start"
      /\ DOMAIN chan = {"toBoot", "toSup", "sup", "boot"} /\ chan.toBoot = <<>>
      /\ DOMAIN ipc = {"toSup", "toTgt", "dialled", "sup", "tgt"} /\ ipc.toSup = <<>> /\ ipc.toTgt = FALSE
    BY ZenonT(30) DEF Init
<1>4. rows = <<>> /\ clock = 0 /\ mode \in {"g4", "legacy"}
    BY G4Assumption, ZenonT(30) DEF Init
<1>5. IsSeq(<<>>)
    <2>1. << >> \in Seq({})
        OBVIOUS
    <2> QED
        BY <2>1 DEF IsSeq
<1>6. Shape
    <2>1. Holds(sup, SupFields) /\ Holds(boot, BootFields)
        BY <1>1, <1>2 DEF Holds
    <2>2. sup.buf \in Seq(Lines) /\ ipc.toSup \in Seq(Lines)
        BY <1>1, <1>3
    <2>3. IsSeq(rows) /\ IsSeq(chan.toBoot)
        BY <1>3, <1>4, <1>5
    <2> QED
        BY <1>1, <1>3, <1>4, <2>1, <2>2, <2>3, ZenonT(30) DEF Shape
<1>7. LineInv
    BY <1>1, <1>3 DEF LineInv, Read, Said
<1>8. ~Covers("readiness") /\ ~Covers("workload")
    BY <1>4 DEF Covers
<1>9. GateInv /\ AckInv /\ BootInv /\ ReceiptInv
    BY <1>1, <1>2, <1>3, <1>8 DEF GateInv, AckInv, BootInv, ReceiptInv, AtWork
<1> QED
    BY <1>6, <1>7, <1>9 DEF Inv

\* Every step keeps the invariant, advances the barrier by at most one stage, and only
\* the report changes the verdict.
LEMMA NextInv ==
    ASSUME Inv, Next
    PROVE  Inv' /\ Move /\ (Silent \/ SReport)
<1>0. mode' = mode
    BY DEF Next
<1>1. CASE Supervisor
    <2>1. CASE SLaunch \/ SAccept \/ STop \/ SChecks
        <3>1. sup.pc # "done"
            BY <2>1 DEF SLaunch, SAccept, STop, SChecks
        <3> QED
            BY <1>0, <2>1, <3>1, LoopKeepsInv DEF Silent
    <2>2. CASE STerm \/ SWait \/ SReap
        <3>1. sup.pc # "done"
            BY <2>2 DEF STerm, SWait, SReap
        <3> QED
            BY <1>0, <2>2, <3>1, FinishKeepsInv DEF Silent
    <2> QED
        BY <1>0, <1>1, <2>1, <2>2, RecvKeepsInv, SampleKeepsInv, ReceiveKeepsInv, ReleaseKeepsInv, ReportKeepsInv
           DEF Supervisor
<1>2. CASE Bootstrap \/ BKilled
    BY <1>0, <1>2, StartKeepsInv, TakeKeepsInv, StoreKeepsInv, EndKeepsInv, LastRowKeepsInv DEF Bootstrap, Silent
<1>3. CASE Target \/ Signal \/ \E d \in Deadlines : Pass(d)
    BY <1>0, <1>3, LineKeepsInv, OutsideKeepsInv DEF Target, Silent
<1> QED
    BY <1>1, <1>2, <1>3 DEF Next

\* The stages, from what has come about.
Level(c, w, r, o) == IF c THEN "confirmed" ELSE IF w THEN "working" ELSE IF r THEN "released"
                     ELSE IF o THEN "observed" ELSE "held"

Chain(c, w, r, o) == (c => w) /\ (w => r) /\ (r => o)

\* The stage is how far the run has come.
LEMMA StageIsLevel ==
    ASSUME Inv
    PROVE  /\ mode = "g4" => /\ Stage = Level(Confirmed, AtWork, Released, Ready)
                             /\ Chain(Confirmed, AtWork, Released, Ready)
           /\ mode # "g4" => /\ Stage = Level(Acknowledged, AtWork, Released, Sampled)
                             /\ Chain(Acknowledged, AtWork, Released, Sampled)
<1>1. mode \in {"g4", "legacy"} /\ (Released => Seen) /\ (AtWork => Released)
      /\ (Acknowledged => AtWork) /\ (Confirmed => AtWork)
    BY DEF Inv, Shape, GateInv, AckInv, Released, Acknowledged, Confirmed
<1>2. CASE mode = "g4"
    BY <1>1, <1>2 DEF Stage, Level, Chain, Confirmed, AtWork, Released, Ready, Covers, Seen
<1>3. CASE mode # "g4"
    BY <1>1, <1>3 DEF Stage, Level, Chain, Acknowledged, AtWork, Released, Sampled, Seen
<1> QED
    BY <1>2, <1>3

\* The same of the next state.
LEMMA StageIsLevelNext ==
    ASSUME Inv'
    PROVE  /\ mode' = "g4" => /\ Stage' = Level(Confirmed', AtWork', Released', Ready')
                              /\ Chain(Confirmed', AtWork', Released', Ready')
           /\ mode' # "g4" => /\ Stage' = Level(Acknowledged', AtWork', Released', Sampled')
                              /\ Chain(Acknowledged', AtWork', Released', Sampled')
<1>1. mode' \in {"g4", "legacy"} /\ (Released' => Seen') /\ (AtWork' => Released')
      /\ (Acknowledged' => AtWork') /\ (Confirmed' => AtWork')
    BY DEF Inv, Shape, GateInv, AckInv, Released, Acknowledged, Confirmed
<1>2. CASE mode' = "g4"
    BY <1>1, <1>2 DEF Stage, Level, Chain, Confirmed, AtWork, Released, Ready, Covers, Seen
<1>3. CASE mode' # "g4"
    BY <1>1, <1>3 DEF Stage, Level, Chain, Acknowledged, AtWork, Released, Sampled, Seen
<1> QED
    BY <1>2, <1>3

\* One thing at a time is one stage at a time.
LEMMA StageStep ==
    ASSUME Inv, Inv', Move
    PROVE  Stage' = Stage \/ \E n \in 1..4 : Stage = Promise!STAGES[n] /\ Stage' = Promise!STAGES[n + 1]
<1>0. mode' = mode
    BY DEF Move
<1>1. \/ Stage' = Stage \/ (Stage = "held" /\ Stage' = "observed")
      \/ (Stage = "observed" /\ Stage' = "released") \/ (Stage = "released" /\ Stage' = "working")
      \/ (Stage = "working" /\ Stage' = "confirmed")
    <2>1. CASE mode = "g4"
        <3>1. Stage = Level(Confirmed, AtWork, Released, Ready) /\ Chain(Confirmed, AtWork, Released, Ready)
            BY <2>1, StageIsLevel
        <3>2. /\ Stage' = Level(Confirmed', AtWork', Released', Ready')
              /\ Chain(Confirmed', AtWork', Released', Ready')
            BY <1>0, <2>1, StageIsLevelNext
        <3> QED
            BY <3>1, <3>2 DEF Move, Level, Chain
    <2>2. CASE mode # "g4"
        <3>1. /\ Stage = Level(Acknowledged, AtWork, Released, Sampled)
              /\ Chain(Acknowledged, AtWork, Released, Sampled)
            BY <2>2, StageIsLevel
        <3>2. /\ Stage' = Level(Acknowledged', AtWork', Released', Sampled')
              /\ Chain(Acknowledged', AtWork', Released', Sampled')
            BY <1>0, <2>2, StageIsLevelNext
        <3> QED
            BY <3>1, <3>2 DEF Move, Level, Chain
    <2> QED
        BY <2>1, <2>2
<1>2. /\ Promise!STAGES[1] = "held" /\ Promise!STAGES[2] = "observed" /\ Promise!STAGES[3] = "released"
      /\ Promise!STAGES[4] = "working" /\ Promise!STAGES[5] = "confirmed"
    BY DEF Promise!STAGES
<1>3. /\ Promise!STAGES[1 + 1] = "observed" /\ Promise!STAGES[2 + 1] = "released"
      /\ Promise!STAGES[3 + 1] = "working" /\ Promise!STAGES[4 + 1] = "confirmed"
    BY <1>2
<1> QED
    BY <1>1, <1>2, <1>3

\* What the Supervisor reports, as the barrier sees it.
Verdict == IF ~Done THEN "none" ELSE IF sup.success THEN "accepted" ELSE "refused"

\* Every step is a step of the abstract barrier, or none.
LEMMA NextPromise ==
    ASSUME Inv, [Next]_vars
    PROVE  Inv' /\ [Promise!Next]_(Promise!vars)
<1>1. CASE Next /\ Silent
    <2>1. Inv' /\ Move
        BY <1>1, NextInv
    <2>2. Verdict' = Verdict
        BY <1>1 DEF Silent, Verdict, Done
    <2>3. Stage' = Stage \/ \E n \in 1..4 : Stage = Promise!STAGES[n] /\ Stage' = Promise!STAGES[n + 1]
        BY <2>1, StageStep
    <2> QED
        BY <2>1, <2>2, <2>3 DEF Promise!Next, Promise!Advance, Promise!vars, Verdict
<1>2. CASE Next /\ SReport
    <2>0. mode' = mode
        BY <1>2 DEF Next
    <2>1. /\ Inv' /\ Move /\ sup.pc # "done" /\ sup'.pc = "done" /\ sup'.success \in BOOLEAN
          /\ sup'.success => IF mode = "g4" THEN Covers("workload") ELSE sup.ack # None
        BY <1>2, <2>0, ReportKeepsInv
    <2>2. Stage' = Stage
        <3>1. UNCHANGED <<tgt, ipc, rows>> /\ sup'.ack = sup.ack /\ sup'.pre = sup.pre
            BY <1>2, <2>0, ReportKeepsInv DEF SReport, Kept
        <3> QED
            BY <2>0, <3>1 DEF Stage
    <2>3. Verdict = "none" /\ Verdict' = (IF sup'.success THEN "accepted" ELSE "refused")
        BY <2>1 DEF Verdict, Done
    <2>4. sup'.success => Stage = "confirmed"
        BY <2>1, StageIsLevel DEF Level, Confirmed, Acknowledged
    <2>5. Promise!Accept \/ Promise!Refuse
        BY <2>1, <2>2, <2>3, <2>4 DEF Promise!Accept, Promise!Refuse, Verdict
    <2> QED
        BY <2>1, <2>5 DEF Promise!Next
<1>3. CASE UNCHANGED vars
    <2>1. Inv'
        BY <1>3, ZenonT(30) DEF vars, Inv, Shape, Holds, IsSeq, LineInv, Read, Said, GateInv, Seen, AtWork, AckInv, BootInv,
                    ReceiptInv, Covers
    <2>2. Stage' = Stage /\ Verdict' = Verdict
        BY <1>3 DEF vars, Stage, Verdict, Done
    <2> QED
        BY <2>1, <2>2 DEF Promise!vars, Verdict
<1> QED
    BY <1>1, <1>2, <1>3, NextInv

\* supervise.py, g4_supervise.py, g4_bootstrap.py, g4_events.py: whatever fails, whoever is
\* signalled and whichever deadline passes, the target does not work before it has been
\* observed and released, and no run is called a success before the target has been
\* observed at work.
THEOREM BarrierImplemented == Spec => BarrierKept
<1>1. Init => Inv /\ Promise!Init
    <2> SUFFICES ASSUME Init PROVE Inv /\ Promise!Init
        OBVIOUS
    <2>1. Inv
        BY InitInv
    <2>2. Stage = "held" /\ Verdict = "none"
        BY DEF Init, Stage, Verdict, Done
    <2> QED
        BY <2>1, <2>2 DEF Promise!Init, Verdict
<1>2. Inv /\ [Next]_vars => Inv' /\ [Promise!Next]_(Promise!vars)
    BY NextPromise
<1> QED
    BY <1>1, <1>2, PTL DEF Spec, BarrierKept, Promise!Spec

(***************************************************************************)
(* Supervisor, Runner and target, as far as the report is concerned.         *)
(***************************************************************************)
Starting == {"none", "connect", "confirm", "start"}

Busy == {"none", "connect", "confirm", "start", "owner", "loop", "recv", "sample"}

\* No Runner without a launch, and no target without Runner.
StartedInv ==
    /\ sup.pc = "launch" => ~sup.proc
    /\ ~sup.proc => boot.pc = "none"
    /\ boot.pc \in Starting => tgt.st = "none"

\* A clean end has been looked at, and does not come undone.
CleanInv ==
    sup.clean => /\ sup.pc \in {"report", "done"} /\ ~Alive(boot)
                 /\ sup.owner => tgt.st # "live"

\* Runner's success is the target's exit with status 0.
ExitInv ==
    /\ tgt.code = 0 => AtWork /\ tgt.st \in {"zombie", "gone"}
    /\ boot.primary = "command_success" => tgt.code = 0 /\ boot.pc \notin Busy
    /\ boot.success => boot.primary = "command_success" /\ boot.pc \in {"publish", "row", "outcome", "dead"}
    /\ boot.result.success => boot.primary = "command_success" /\ boot.pc \in {"row", "outcome", "dead"}

\* The stamps of the release and of its acknowledgement.
StampInv ==
    /\ {sup.pre, sup.begin, sup.ack} \subseteq Int
    /\ sup.begin <= clock
    /\ ipc.toTgt => sup.begin # None
    /\ sup.pc \in {"before", "release"} => sup.begin = None
    /\ sup.done => sup.begin # None /\ sup.begin <= sup.ack

\* A success was decided on what the report holds.
DecidedInv ==
    sup.success => Done /\ sup.clean /\ sup.done /\ boot.result.success /\ Observed(sup)

HInv == StartedInv /\ CleanInv /\ ExitInv /\ StampInv /\ DecidedInv

(***************************************************************************)
(* A step of the loop.                                                     *)
(***************************************************************************)
\* Time goes on and the release is left as it was.
LEMMA StampsKept ==
    ASSUME Inv, HInv, clock' \in Nat, clock <= clock', ipc'.toTgt = ipc.toTgt,
           sup'.begin = sup.begin, sup'.ack = sup.ack, sup'.done = sup.done, sup'.pre \in Int,
           sup'.pc \in {"before", "release"} => sup.begin = None
    PROVE  StampInv'
<1>1. clock \in Nat /\ sup.begin \in Int /\ sup.ack \in Int /\ sup.begin <= clock
    BY DEF Inv, Shape, HInv, StampInv
<1>2. sup'.begin <= clock'
    BY <1>1
<1>3. /\ ipc.toTgt => sup.begin # None
      /\ sup.done => sup.begin # None /\ sup.begin <= sup.ack
    BY DEF HInv, StampInv
<1> QED
    BY <1>1, <1>2, <1>3 DEF StampInv

\* What the report is about, but for the stamps.
LEMMA LoopKeepsReport ==
    ASSUME HInv, sup.pc \notin {"report", "done"}, StampInv', UNCHANGED <<boot, tgt>>,
           sup'.clean = sup.clean, sup'.success = sup.success, sup'.proc = sup.proc, sup'.pc # "launch"
    PROVE  HInv'
<1>1. ~sup.clean /\ ~sup.success
    BY DEF HInv, CleanInv, DecidedInv, Done
<1>2. StartedInv'
    BY DEF HInv, StartedInv
<1>3. CleanInv' /\ DecidedInv'
    BY <1>1 DEF CleanInv, DecidedInv
<1>4. ExitInv'
    BY DEF HInv, ExitInv, AtWork
<1> QED
    BY <1>2, <1>3, <1>4 DEF HInv

\* A Supervisor that goes on with the same report.
Calm(s, t) ==
    /\ DOMAIN t = DOMAIN s /\ t.proc = s.proc /\ t.clean = s.clean /\ t.success = s.success
    /\ t.pre = s.pre /\ t.begin = s.begin /\ t.ack = s.ack /\ t.done = s.done

\* Such a step keeps the invariant.
LEMMA CalmKeepsReport ==
    ASSUME Inv, HInv, sup.pc \notin {"report", "done"}, Calm(sup, sup'), sup'.pc # "launch",
           sup'.pc \in {"before", "release"} => sup.begin = None,
           UNCHANGED <<boot, tgt>>, ipc'.toTgt = ipc.toTgt, clock' \in Nat, clock <= clock'
    PROVE  HInv'
<1>1. sup.pre \in Int
    BY DEF HInv, StampInv
<1>2. StampInv'
    BY <1>1, StampsKept DEF Calm
<1> QED
    BY <1>2, LoopKeepsReport DEF Calm

\* An exception, and a frame that is sent or taken.
LEMMA RaiseIsCalm ==
    ASSUME NEW s, SupFields \subseteq DOMAIN s
    PROVE  Calm(s, SRaise(s)) /\ SRaise(s).pc = "term"
BY DEF SRaise, SFail, Calm, SupFields

\* A condition of the loop that ends it.
LEMMA FailIsCalm ==
    ASSUME NEW s, SupFields \subseteq DOMAIN s, NEW why
    PROVE  Calm(s, SFail(s, why)) /\ SFail(s, why).pc = "term"
BY ZenonT(30) DEF SFail, Calm, SupFields

\* A frame concerns the channel's record only.
LEMMA FramesAreCalm ==
    ASSUME NEW s, Holds(s, SupFields), NEW m
    PROVE  /\ Calm(s, Sent(s, m)) /\ Calm(s, NotSent(s, m)) /\ Calm(s, Failed(s))
           /\ Sent(s, m).inner = s.inner /\ Failed(s).pc = s.pc /\ Failed(s).owner = s.owner
<1>1. {"proc", "clean", "success", "pre", "begin", "ack", "done", "inner", "pc", "owner"}
         \subseteq DOMAIN s \ {"st", "tr"}
    BY DEF Holds, SupFields
<1>2. {"st", "tr"} \subseteq DOMAIN s
    BY DEF Holds, SupFields
<1>3. /\ DOMAIN Sent(s, m) = DOMAIN s /\ DOMAIN NotSent(s, m) = DOMAIN s
      /\ \A f \in DOMAIN s \ {"st", "tr"} : Sent(s, m)[f] = s[f] /\ NotSent(s, m)[f] = s[f]
    BY <1>2, SentFacts DEF Holds
<1>4. DOMAIN Failed(s) = DOMAIN s /\ \A f \in DOMAIN s \ {"st", "tr"} : Failed(s)[f] = s[f]
    BY <1>2, FailedFacts DEF Holds
<1> QED
    BY <1>1, <1>3, <1>4, ZenonT(30) DEF Calm

\* Sending a frame, with or without success.
LEMMA SendIsCalm ==
    ASSUME NEW s, Holds(s, SupFields), NEW m, NEW pc, SSend(s, m, pc)
    PROVE  Calm(s, sup') /\ sup'.pc \in {pc, "term"}
<1> DEFINE u == Sent(s, m)
           v == NotSent(s, m)
<1>1. Calm(s, u) /\ Calm(s, v) /\ SupFields \subseteq DOMAIN u /\ SupFields \subseteq DOMAIN v
    <2>1. Calm(s, u) /\ Calm(s, v)
        BY FramesAreCalm, ZenonT(30)
    <2>2. SupFields \subseteq DOMAIN s
        BY ZenonT(30) DEF Holds
    <2> QED
        BY <2>1, <2>2, ZenonT(30) DEF Calm
<1>2. sup' = [u EXCEPT !.pc = pc] \/ sup' = SRaise(v)
    BY DEF SSend
<1> HIDE DEF u, v
<1>3. CASE sup' = [u EXCEPT !.pc = pc]
    BY <1>1, <1>3 DEF Calm, SupFields
<1>4. CASE sup' = SRaise(v)
    BY <1>1, <1>4, RaiseIsCalm, ZenonT(30) DEF Calm
<1> QED
    BY <1>2, <1>3, <1>4, ZenonT(30)

\* Launching, accepting, and the conditions at the top and the end of a round.
LEMMA LoopReports ==
    ASSUME Inv, HInv, SLaunch \/ SAccept \/ STop \/ SChecks
    PROVE  HInv'
<1>0. SupFields \subseteq DOMAIN sup /\ BootFields \subseteq DOMAIN boot /\ clock \in Nat
    BY DEF Inv, Shape, Holds
<1>1. UNCHANGED <<tgt, ipc, clock>> /\ clock <= clock /\ sup.pc \notin {"report", "done"}
    BY <1>0 DEF SLaunch, SAccept, STop, SChecks
<1>2. ASSUME UNCHANGED boot, Calm(sup, sup'), sup'.pc \in {"top", "recv", "term"} PROVE HInv'
    BY <1>0, <1>1, <1>2, CalmKeepsReport
<1>3. ASSUME UNCHANGED boot, sup' = SRaise(sup) PROVE HInv'
    BY <1>0, <1>2, <1>3, RaiseIsCalm
<1>4. CASE /\ sup.pc = "launch"
           /\ boot' = [boot EXCEPT !.pc = IF mode = "g4" THEN "connect" ELSE "start"]
           /\ sup' = [sup EXCEPT !.proc = TRUE, !.pc = IF mode = "g4" THEN "accept" ELSE "top"]
    <2>1. /\ boot' = [boot EXCEPT !.pc = IF mode = "g4" THEN "connect" ELSE "start"]
          /\ sup' = [sup EXCEPT !.proc = TRUE, !.pc = IF mode = "g4" THEN "accept" ELSE "top"]
          /\ sup.pc = "launch"
        BY <1>4
    <2>2. /\ DOMAIN sup' = DOMAIN sup /\ sup'.proc = TRUE /\ sup'.pc \in {"accept", "top"}
          /\ sup'.clean = sup.clean /\ sup'.success = sup.success /\ sup'.pre = sup.pre
          /\ sup'.begin = sup.begin /\ sup'.ack = sup.ack /\ sup'.done = sup.done
        BY <1>0, <2>1 DEF SupFields
    <2>3. /\ boot'.pc \in {"connect", "start"} /\ boot'.primary = boot.primary
          /\ boot'.success = boot.success /\ boot'.result = boot.result
        BY <1>0, <2>1 DEF BootFields
    <2>4. boot.pc = "none" /\ tgt.st = "none" /\ ~sup.clean /\ ~sup.success
        BY <2>1 DEF Inv, BootInv, HInv, StartedInv, Starting, CleanInv, DecidedInv, Done
    <2>5. sup.pre \in Int
        BY DEF HInv, StampInv
    <2>6. StampInv'
        BY <1>0, <1>1, <2>2, <2>5, StampsKept
    <2>7. StartedInv'
        BY <1>1, <2>2, <2>3, <2>4 DEF StartedInv
    <2>8. CleanInv' /\ DecidedInv'
        BY <2>2, <2>4 DEF CleanInv, DecidedInv
    <2>9. ExitInv'
        BY <1>1, <2>3, <2>4 DEF HInv, ExitInv, AtWork, Busy
    <2> QED
        BY <2>6, <2>7, <2>8, <2>9 DEF HInv
<1>5. CASE SAccept
    <2>1. Calm(sup, [sup EXCEPT !.link = TRUE, !.pc = "top"]) /\ [sup EXCEPT !.link = TRUE, !.pc = "top"].pc = "top"
        BY <1>0 DEF Calm, SupFields
    <2> QED
        BY <1>2, <1>3, <1>5, <2>1, ZenonT(30) DEF SAccept
<1>6. CASE STop
    <2> DEFINE u == [sup EXCEPT !.owner = boot.owner]
    <2>1. Calm(sup, u) /\ SupFields \subseteq DOMAIN u
        BY <1>0 DEF Calm, SupFields
    <2>2. \/ sup' = SFail(u, "supervisor_interrupted") \/ sup' = SFail(u, "outer_timeout")
          \/ sup' = [u EXCEPT !.pc = "recv"]
        BY <1>6 DEF STop
    <2> HIDE DEF u
    <2>3. Calm(u, [u EXCEPT !.pc = "recv"]) /\ [u EXCEPT !.pc = "recv"].pc = "recv"
        BY <2>1 DEF Calm, SupFields
    <2>4. Calm(u, sup') /\ sup'.pc \in {"recv", "term"}
        BY <2>1, <2>2, <2>3, FailIsCalm, ZenonT(30)
    <2>5. Calm(sup, sup')
        BY <2>1, <2>4 DEF Calm
    <2> QED
        BY <1>2, <1>6, <2>4, <2>5 DEF STop
<1>7. CASE SChecks
    <2>1. \/ sup' = SFail(sup, "barrier_timeout") \/ sup' = SFail(sup, "handshake_incomplete")
          \/ sup' = SFail(sup, "target_exited_before_handshake")
          \/ sup' = [sup EXCEPT !.pc = "term"] \/ sup' = [sup EXCEPT !.pc = "top"]
        BY <1>7 DEF SChecks
    <2>2. /\ Calm(sup, [sup EXCEPT !.pc = "term"]) /\ Calm(sup, [sup EXCEPT !.pc = "top"])
          /\ [sup EXCEPT !.pc = "term"].pc = "term" /\ [sup EXCEPT !.pc = "top"].pc = "top"
        BY <1>0 DEF Calm, SupFields
    <2>4. ASSUME NEW why, sup' = SFail(sup, why) PROVE Calm(sup, sup') /\ sup'.pc = "term"
        BY <1>0, <2>4, FailIsCalm
    <2>3. Calm(sup, sup') /\ sup'.pc \in {"term", "top"}
        BY <2>1, <2>2, <2>4, Zenon
    <2> QED
        BY <1>2, <1>7, <2>3 DEF SChecks
<1> QED
    BY <1>3, <1>4, <1>5, <1>6, <1>7 DEF SLaunch

\* A receipt, and the samples of the Supervisor.
LEMMA ReceiveReports ==
    ASSUME Inv, HInv, SBefore \/ SWorkload
    PROVE  HInv'
<1>0. SupFields \subseteq DOMAIN sup /\ Holds(sup, SupFields) /\ clock \in Nat /\ clock <= clock
    BY DEF Inv, Shape, Holds
<1>1. PICK n, phase, pc :
         /\ SReceive(n, phase, pc)
         /\ \/ pc = "release" /\ sup.pc = "before"
            \/ pc = "sample" /\ sup.pc = "workload"
    BY DEF SBefore, SWorkload
<1>2. UNCHANGED <<boot, tgt, ipc, clock>>
    BY <1>1 DEF SReceive
<1> DEFINE m == Head(chan.toSup)
           u == Sent(sup, m)
           v == NotSent(sup, m)
           w == Failed(sup)
<1>3. \/ sup' = SRaise(sup) \/ sup' = SRaise(w) \/ sup' = SRaise(v) \/ sup' = SRaise(u)
      \/ sup' = [u EXCEPT !.pc = pc]
    BY <1>1 DEF SReceive
<1>4. Calm(sup, u) /\ Calm(sup, v) /\ Calm(sup, w) /\ Calm(sup, sup)
    <2>1. Calm(sup, u) /\ Calm(sup, v) /\ Calm(sup, w)
        BY <1>0, FramesAreCalm, ZenonT(30)
    <2>2. Calm(sup, sup)
        BY ZenonT(30) DEF Calm
    <2> QED
        BY <2>1, <2>2, ZenonT(30)
<1> HIDE DEF u, v, w
<1>5. ASSUME NEW x, Calm(sup, x), sup' = SRaise(x) PROVE Calm(sup, sup') /\ sup'.pc = "term"
    BY <1>0, <1>5, RaiseIsCalm DEF Calm
<1>6. ASSUME sup' = [u EXCEPT !.pc = pc] PROVE Calm(sup, sup') /\ sup'.pc = pc
    BY <1>0, <1>4, <1>6 DEF Calm, SupFields
<1>7. Calm(sup, sup') /\ sup'.pc \in {"term", pc}
    BY <1>3, <1>4, <1>5, <1>6
<1>8. sup.pc = "before" => sup.begin = None
    BY DEF HInv, StampInv
<1> QED
    BY <1>0, <1>1, <1>2, <1>7, <1>8, CalmKeepsReport

\* The Supervisor's own sample, which comes before the release.
LEMMA SampleReports ==
    ASSUME Inv, HInv, SSample
    PROVE  HInv'
<1>0. SupFields \subseteq DOMAIN sup /\ clock \in Nat /\ clock <= clock
    BY DEF Inv, Shape, Holds
<1>1. UNCHANGED <<boot, tgt, ipc>> /\ sup.pc = "sample"
    BY DEF SSample
<1>2. CASE sup' = SRaise(sup) /\ UNCHANGED clock
    BY <1>0, <1>1, <1>2, RaiseIsCalm, CalmKeepsReport
<1>3. CASE sup' = [sup EXCEPT !.pc = "checks"] /\ UNCHANGED clock
    <2>1. Calm(sup, sup') /\ sup'.pc = "checks"
        BY <1>0, <1>3 DEF Calm, SupFields
    <2> QED
        BY <1>0, <1>1, <1>3, <2>1, CalmKeepsReport
<1>4. CASE /\ clock' = clock + 1 /\ sup.begin = None
           /\ sup' = [sup EXCEPT !.pre = clock', !.pc = IF mode = "g4" THEN "before" ELSE "release"]
    <2>1. /\ sup'.proc = sup.proc /\ sup'.pre = clock' /\ sup'.pc \in {"before", "release"}
          /\ sup'.clean = sup.clean /\ sup'.success = sup.success
          /\ sup'.begin = sup.begin /\ sup'.ack = sup.ack /\ sup'.done = sup.done
        BY <1>0, <1>4 DEF SupFields
    <2>2. clock' \in Nat /\ clock <= clock' /\ clock' \in Int
        BY <1>0, <1>4
    <2>3. StampInv'
        BY <1>1, <1>4, <2>1, <2>2, StampsKept
    <2> QED
        BY <1>1, <2>1, <2>3, LoopKeepsReport
<1> QED
    BY <1>2, <1>3, <1>4 DEF SSample

\* The line after the first is the target's word that it was released.
LEMMA SecondLine ==
    ASSUME Inv, HInv, sup.hello, sup.buf # <<>> \/ ipc.toSup # <<>>
    PROVE  AtWork /\ sup.begin # None
<1>1. /\ sup.buf \in Seq(Lines) /\ ipc.toSup \in Seq(Lines) /\ tgt.pc \in {"start", "wait", "work"}
      /\ Read(sup) + Len(sup.buf) + Len(ipc.toSup) <= Said(tgt)
    BY DEF Inv, Shape, LineInv
<1>2. Read(sup) \in {1, 2}
    BY DEF Read
<1>3. ASSUME NEW q \in Seq(Lines) PROVE Len(q) \in Nat /\ (q # <<>> => Len(q) >= 1)
    OBVIOUS
<1>4. Said(tgt) >= 2
    <2>1. Said(tgt) \in {0, 1, 2}
        BY DEF Said
    <2>2. Len(sup.buf) \in Nat /\ Len(ipc.toSup) \in Nat /\ (Len(sup.buf) >= 1 \/ Len(ipc.toSup) >= 1)
        BY <1>1, <1>3
    <2>3. ASSUME NEW a \in {1, 2}, NEW b \in Nat, NEW c \in Nat, NEW d \in {0, 1, 2}, b >= 1 \/ c >= 1, a + b + c <= d
          PROVE  d >= 2
        BY <2>3
    <2>4. Read(sup) + Len(sup.buf) + Len(ipc.toSup) <= Said(tgt)
        BY <1>1
    <2> QED
        BY ONLY <1>2, <2>1, <2>2, <2>3, <2>4, Zenon
<1>5. AtWork
    BY <1>1, <1>4 DEF Said, AtWork
<1> QED
    BY <1>5 DEF Inv, GateInv, HInv, StampInv

\* The lines of the target: its readiness, and the acknowledgement of the release.
LEMMA RecvReports ==
    ASSUME Inv, HInv, SRecv
    PROVE  HInv'
<1>0. /\ SupFields \subseteq DOMAIN sup /\ Holds(sup, SupFields) /\ clock \in Nat /\ clock <= clock
      /\ {"toSup", "toTgt", "dialled", "sup", "tgt"} \subseteq DOMAIN ipc
      /\ mode \in {"g4", "legacy"} /\ sup.buf \in Seq(Lines) /\ ipc.toSup \in Seq(Lines)
    BY DEF Inv, Shape, Holds
<1>1. UNCHANGED <<boot, tgt>> /\ sup.pc = "recv" /\ ipc'.toTgt = ipc.toTgt
    BY <1>0 DEF SRecv
<1> DEFINE all == IF sup.done THEN sup.buf ELSE sup.buf \o ipc.toSup
           u   == [sup EXCEPT !.buf = all]
           v   == [u EXCEPT !.buf = Tail(all)]
<1>2. \/ sup' = SRaise(sup) /\ UNCHANGED clock
      \/ sup' = [u EXCEPT !.pc = "sample"] /\ UNCHANGED clock
      \/ all # <<>> /\ sup.hello /\ SAcknowledged(v)
      \/ SIdentify(v)
    <2>1. u.buf = all
        BY <1>0 DEF SupFields
    <2>2. u = [sup EXCEPT !.buf = IF sup.done THEN @ ELSE @ \o ipc.toSup] /\ v = [u EXCEPT !.buf = Tail(@)]
        BY <2>1, Zenon
    <2> QED
        BY <2>1, <2>2, ZenonT(30) DEF SRecv
<1>3. all # <<>> => sup.buf # <<>> \/ ipc.toSup # <<>>
    BY <1>0
<1> HIDE DEF all
<1>4. Calm(sup, u)
    BY <1>0 DEF SupFields, Calm
<1> HIDE DEF u
<1>5. Calm(sup, v) /\ DOMAIN v = DOMAIN sup
    BY <1>0, <1>4 DEF SupFields, Calm
<1>6. v.st = sup.st
    <2>1. u.st = sup.st
        BY <1>0 DEF u, SupFields
    <2> QED
        BY <1>0, <1>4, <2>1 DEF Calm, SupFields
<1> HIDE DEF v
<1>7. CASE sup' = SRaise(sup) /\ UNCHANGED clock
    BY <1>0, <1>1, <1>7, RaiseIsCalm, CalmKeepsReport
<1>8. CASE sup' = [u EXCEPT !.pc = "sample"] /\ UNCHANGED clock
    <2>1. Calm(sup, sup') /\ sup'.pc = "sample"
        BY <1>0, <1>4, <1>8 DEF SupFields, Calm
    <2> QED
        BY <1>0, <1>1, <1>8, <2>1, CalmKeepsReport
<1>9. CASE SIdentify(v)
    <2>1. CASE tgt.st # "live"
        <3>1. sup' = SRaise(v) /\ UNCHANGED clock
            BY <1>9, <2>1 DEF SIdentify
        <3>2. Calm(sup, sup') /\ sup'.pc = "term"
            BY <1>0, <1>5, <3>1, RaiseIsCalm DEF Calm
        <3> QED
            BY <1>0, <1>1, <3>1, <3>2, CalmKeepsReport
    <2>2. CASE tgt.st = "live"
        <3> DEFINE t == [v EXCEPT !.hello = TRUE, !.identified = clock']
        <3>1. Calm(sup, t) /\ t.st = sup.st
            BY <1>0, <1>5, <1>6 DEF Calm, SupFields
        <3>2. /\ clock' = clock + 1
              /\ IF mode = "g4" THEN SSend(t, Message(0, clock', NoSample), "sample")
                 ELSE sup' = [t EXCEPT !.pc = "sample"]
            BY <1>9, <2>2 DEF SIdentify
        <3> HIDE DEF t
        <3>3. Holds(t, SupFields)
            BY <1>0, <3>1 DEF Holds, Calm
        <3>4. Calm(t, sup') /\ sup'.pc \in {"sample", "term"}
            <4>1. CASE mode = "g4"
                BY <3>2, <3>3, <4>1, SendIsCalm
            <4>2. CASE mode # "g4"
                BY <3>2, <3>3, <4>2 DEF Calm, Holds, SupFields
            <4> QED
                BY <4>1, <4>2
        <3>5. Calm(sup, sup') /\ clock' \in Nat /\ clock <= clock'
            <4>1. clock' \in Nat /\ clock <= clock'
                BY <1>0, <3>2
            <4> QED
                BY <3>1, <3>4, <4>1 DEF Calm
        <3> QED
            BY <1>1, <3>4, <3>5, CalmKeepsReport
    <2> QED
        BY <2>1, <2>2
<1>10. CASE all # <<>> /\ sup.hello /\ SAcknowledged(v)
    <2> DEFINE t == [v EXCEPT !.done = TRUE, !.ack = clock']
    <2>1. /\ DOMAIN t = DOMAIN sup /\ t.proc = sup.proc /\ t.clean = sup.clean /\ t.success = sup.success
          /\ t.pre = sup.pre /\ t.begin = sup.begin /\ t.ack = clock' /\ t.done = TRUE /\ t.st = sup.st
        BY <1>0, <1>5, <1>6 DEF Calm, SupFields
    <2>2. /\ clock' = clock + 1
          /\ IF mode = "g4" THEN SSend(t, Message(3, clock', NoSample), "workload")
             ELSE sup' = [t EXCEPT !.pc = "sample"]
        BY <1>10 DEF SAcknowledged
    <2> HIDE DEF t
    <2>3. Holds(t, SupFields)
        BY <1>0, <2>1 DEF Holds
    <2>4. Calm(t, sup') /\ sup'.pc \in {"sample", "workload", "term"}
        <3>1. CASE mode = "g4"
            BY <2>2, <2>3, <3>1, SendIsCalm
        <3>2. CASE mode # "g4"
            BY <2>2, <2>3, <3>2 DEF Calm, Holds, SupFields
        <3> QED
            BY <3>1, <3>2
    <2>5. sup.begin # None
        BY <1>3, <1>10, SecondLine
    <2>6. /\ sup'.pre = sup.pre /\ sup'.begin = sup.begin /\ sup'.ack = clock'
          /\ sup'.proc = sup.proc /\ sup'.clean = sup.clean /\ sup'.success = sup.success
        BY <2>1, <2>4 DEF Calm
    <2>7. sup.pre \in Int /\ sup.begin \in Int /\ sup.begin <= clock
        BY DEF HInv, StampInv
    <2>8. clock' \in Int /\ sup.begin <= clock'
        BY <1>0, <2>2, <2>7
    <2>9. StampInv'
        BY <1>1, <2>4, <2>5, <2>6, <2>7, <2>8 DEF StampInv
    <2> QED
        BY <1>1, <2>4, <2>6, <2>9, LoopKeepsReport
<1> QED
    BY <1>2, <1>7, <1>8, <1>9, <1>10

\* The release is stamped before it can be acknowledged.
LEMMA ReleaseReports ==
    ASSUME Inv, HInv, SRelease
    PROVE  HInv'
<1>0. /\ SupFields \subseteq DOMAIN sup /\ Holds(sup, SupFields) /\ clock \in Nat /\ clock <= clock
      /\ {"toSup", "toTgt", "dialled", "sup", "tgt"} \subseteq DOMAIN ipc
    BY DEF Inv, Shape, Holds
<1>1. UNCHANGED <<boot, tgt>> /\ sup.pc = "release" /\ sup.begin = None /\ ~sup.done
    BY DEF SRelease, HInv, StampInv
<1> DEFINE u == [sup EXCEPT !.begin = clock']
           f == SFail(sup, "supervisor_interrupted")
<1>2. \/ sup' = SRaise(f) /\ UNCHANGED <<ipc, clock>>
      \/ /\ clock' = clock + 1
         /\ \/ sup' = SRaise(u) \/ SSend(u, Message(2, clock', NoSample), "checks")
            \/ sup' = [u EXCEPT !.pc = "checks"]
    BY DEF SRelease
<1>3. /\ DOMAIN u = DOMAIN sup /\ u.proc = sup.proc /\ u.clean = sup.clean /\ u.success = sup.success
      /\ u.pre = sup.pre /\ u.begin = clock' /\ u.ack = sup.ack /\ u.done = sup.done /\ u.st = sup.st
    BY <1>0 DEF SupFields
<1> HIDE DEF u
<1>4. Calm(sup, f)
    BY <1>0, FailIsCalm
<1> HIDE DEF f
<1>5. CASE sup' = SRaise(f) /\ UNCHANGED <<ipc, clock>>
    <2>1. Calm(sup, sup') /\ sup'.pc = "term"
        BY <1>0, <1>4, <1>5, RaiseIsCalm DEF Calm
    <2> QED
        BY <1>0, <1>1, <1>5, <2>1, CalmKeepsReport, ZenonT(30)
<1>6. CASE /\ clock' = clock + 1
           /\ \/ sup' = SRaise(u) \/ SSend(u, Message(2, clock', NoSample), "checks")
              \/ sup' = [u EXCEPT !.pc = "checks"]
    <2>1. Holds(u, SupFields) /\ SupFields \subseteq DOMAIN u
        BY <1>0, <1>3 DEF Holds
    <2>2. Calm(u, sup') /\ sup'.pc \in {"checks", "term"}
        <3>1. CASE sup' = SRaise(u)
            BY <2>1, <3>1, RaiseIsCalm
        <3>2. CASE SSend(u, Message(2, clock', NoSample), "checks")
            BY <2>1, <3>2, SendIsCalm
        <3>3. CASE sup' = [u EXCEPT !.pc = "checks"]
            BY <2>1, <3>3 DEF Calm, SupFields
        <3> QED
            BY <1>6, <3>1, <3>2, <3>3
    <2>3. /\ sup'.pre = sup.pre /\ sup'.begin = clock' /\ sup'.ack = sup.ack /\ sup'.done = sup.done
          /\ sup'.proc = sup.proc /\ sup'.clean = sup.clean /\ sup'.success = sup.success
        BY <1>3, <2>2 DEF Calm
    <2>4. sup.pre \in Int /\ sup.ack \in Int
        BY DEF HInv, StampInv
    <2>5. clock' \in Int /\ clock' <= clock' /\ clock' # None
        BY <1>0, <1>6 DEF None
    <2>6. StampInv'
        BY <1>1, <2>2, <2>3, <2>4, <2>5 DEF StampInv
    <2> QED
        BY <1>1, <2>2, <2>3, <2>6, LoopKeepsReport
<1> QED
    BY <1>2, <1>5, <1>6

(***************************************************************************)
(* finish(), signals and the report.                                       *)
(***************************************************************************)
\* A Bootstrap that is told to stop, or does, keeps what it has decided.
BCalm(b, c) ==
    /\ c.primary = b.primary /\ c.success = b.success /\ c.result = b.result
    /\ c.pc = b.pc \/ (b.pc # "none" /\ c.pc = "dead")

Same(t) == t.st = tgt.st /\ t.code = tgt.code /\ t.pc = tgt.pc

\* Such a Bootstrap keeps what relates it to the target.
LEMMA BCalmKeepsExit ==
    ASSUME HInv, BCalm(boot, boot'), Same(tgt')
    PROVE  /\ ExitInv' /\ (boot'.pc \in Starting => tgt'.st = "none")
           /\ (boot.pc = "none" <=> boot'.pc = "none") /\ (~Alive(boot) => ~Alive(boot'))
<1>1. ExitInv'
    BY DEF HInv, ExitInv, BCalm, Same, AtWork, Busy
<1>2. boot'.pc \in Starting => tgt'.st = "none"
    BY DEF HInv, StartedInv, BCalm, Same, Starting
<1>3. (boot.pc = "none" <=> boot'.pc = "none") /\ (~Alive(boot) => ~Alive(boot'))
    BY DEF BCalm, Alive
<1> QED
    BY <1>1, <1>2, <1>3

\* SIGTERM, handled or not.
LEMMA TerminatedIsCalm ==
    ASSUME Inv PROVE boot.pc # "none" => BCalm(boot, Terminated(boot))
BY DEF Inv, Shape, Holds, BootFields, Terminated, BCalm

\* finish() reports a clean end only when it has looked for survivors.
LEMMA FinishReports ==
    ASSUME Inv, HInv, STerm \/ SWait \/ SReap
    PROVE  HInv'
<1>0. /\ SupFields \subseteq DOMAIN sup /\ BootFields \subseteq DOMAIN boot /\ clock \in Nat /\ clock <= clock
      /\ {"st", "pc", "code", "killed"} \subseteq DOMAIN tgt
      /\ {"toSup", "toTgt", "dialled", "sup", "tgt"} \subseteq DOMAIN ipc
    BY DEF Inv, Shape, Holds
<1>1. UNCHANGED clock /\ ipc'.toTgt = ipc.toTgt /\ sup.pc \in {"term", "wait", "reap"}
    BY <1>0 DEF STerm, SWait, SReap
<1>2. ~sup.clean /\ ~sup.success /\ sup.pre \in Int
    BY <1>1 DEF HInv, CleanInv, DecidedInv, Done, StampInv
<1>3. /\ sup'.proc = sup.proc /\ sup'.success = sup.success /\ sup'.pre = sup.pre /\ sup'.begin = sup.begin
      /\ sup'.ack = sup.ack /\ sup'.done = sup.done /\ sup'.pc \in {"wait", "reap", "report"}
    <2>1. CASE STerm
        <3> DEFINE u == [sup EXCEPT !.owner = boot.owner]
        <3>1. /\ DOMAIN u = DOMAIN sup /\ u.proc = sup.proc /\ u.success = sup.success /\ u.pre = sup.pre
              /\ u.begin = sup.begin /\ u.ack = sup.ack /\ u.done = sup.done
            BY <1>0 DEF SupFields
        <3>2. sup' = [u EXCEPT !.pc = "report", !.clean = TRUE] \/ sup' = [u EXCEPT !.pc = "wait"]
            BY <2>1 DEF STerm
        <3> HIDE DEF u
        <3> QED
            BY <1>0, <3>1, <3>2, ZenonT(30) DEF SupFields
    <2>2. CASE SWait
        BY <1>0, <2>2 DEF SWait, SupFields
    <2>3. CASE SReap
        <3> DEFINE left == Sessions = {}
        <3>1. \/ sup' = [sup EXCEPT !.pc = "report", !.code = boot.code, !.clean = left]
              \/ sup' = [sup EXCEPT !.pc = "report"]
            BY <2>3 DEF SReap
        <3> HIDE DEF left
        <3> QED
            BY <1>0, <3>1, ZenonT(30) DEF SupFields
    <2> QED
        BY <2>1, <2>2, <2>3
<1>4. StampInv'
    BY <1>0, <1>1, <1>2, <1>3, StampsKept
<1>5. BCalm(boot, boot') /\ Same(tgt')
    <2>1. CASE STerm
        <3>1. Same(tgt') /\ (boot' = boot \/ (Alive(boot) /\ boot' = Terminated(boot)))
            BY <2>1 DEF STerm, Same
        <3> QED
            BY <3>1, TerminatedIsCalm DEF Alive, BCalm
    <2>2. CASE SWait
        <3> DEFINE a == tgt.killed \/ "target" \in Sessions
                   b == boot.killed \/ "runner" \in Sessions
        <3>1. tgt' = [tgt EXCEPT !.killed = a] /\ boot' = [boot EXCEPT !.killed = b]
            BY <2>2 DEF SWait
        <3> HIDE DEF a, b
        <3> QED
            BY <1>0, <3>1 DEF Same, BCalm, BootFields
    <2>3. CASE SReap
        BY <2>3 DEF SReap, Same, BCalm
    <2> QED
        BY <2>1, <2>2, <2>3
<1>6. /\ ExitInv' /\ (boot'.pc \in Starting => tgt'.st = "none")
      /\ (boot.pc = "none" <=> boot'.pc = "none")
    BY <1>5, BCalmKeepsExit
<1>7. StartedInv'
    BY <1>3, <1>6 DEF HInv, StartedInv
<1>8. DecidedInv'
    BY <1>2, <1>3 DEF DecidedInv
<1>9. CleanInv'
    <2> SUFFICES ASSUME sup'.clean
                 PROVE  sup'.pc \in {"report", "done"} /\ ~Alive(boot') /\ (sup'.owner => tgt'.st # "live")
        BY DEF CleanInv
    <2>1. CASE STerm
        <3> DEFINE u == [sup EXCEPT !.owner = boot.owner]
        <3>1. u.clean = sup.clean /\ DOMAIN u = DOMAIN sup
            BY <1>0 DEF SupFields
        <3>2. \/ ~sup.proc /\ sup' = [u EXCEPT !.pc = "report", !.clean = TRUE] /\ UNCHANGED <<boot, tgt>>
              \/ sup' = [u EXCEPT !.pc = "wait"]
            BY <2>1 DEF STerm
        <3> HIDE DEF u
        <3>3. ~sup.proc /\ sup'.pc = "report" /\ UNCHANGED <<boot, tgt>>
            BY <1>0, <1>2, <3>1, <3>2, ZenonT(30) DEF SupFields
        <3>4. boot.pc = "none" /\ tgt.st = "none"
            BY <3>3 DEF HInv, StartedInv, Starting
        <3> QED
            BY <3>3, <3>4 DEF Alive
    <2>2. CASE SWait
        <3>1. sup'.clean = sup.clean
            BY <1>0, <2>2, ZenonT(30) DEF SWait, SupFields
        <3> QED
            BY <1>2, <3>1
    <2>3. CASE SReap
        <3> DEFINE left == Sessions = {}
        <3>1. /\ \/ ~Alive(boot) /\ sup' = [sup EXCEPT !.pc = "report", !.code = boot.code, !.clean = left]
                 \/ sup' = [sup EXCEPT !.pc = "report"]
              /\ UNCHANGED <<boot, tgt>>
            BY <2>3 DEF SReap
        <3>2. left => ~(sup.owner /\ tgt.st = "live")
            BY DEF Sessions
        <3> HIDE DEF left
        <3>3. ~Alive(boot) /\ left /\ sup'.owner = sup.owner /\ sup'.pc = "report"
            BY <1>0, <1>2, <3>1, ZenonT(30) DEF SupFields
        <3> QED
            BY <3>1, <3>2, <3>3 DEF Alive
    <2> QED
        BY <2>1, <2>2, <2>3
<1> QED
    BY <1>4, <1>6, <1>7, <1>8, <1>9 DEF HInv

\* The record is decided on what is true when it is written.
LEMMA ReportReports ==
    ASSUME Inv, HInv, SReport
    PROVE  HInv'
<1>0. SupFields \subseteq DOMAIN sup /\ Holds(sup, SupFields) /\ clock \in Nat /\ clock <= clock
    BY DEF Inv, Shape, Holds
<1>1. sup.pc = "report" /\ UNCHANGED <<boot, tgt, ipc, clock>>
    BY DEF SReport
<1> DEFINE bad  == sup.errors \/ boot.result = NoResult
           full == sup.link /\ sup.st.seq = 5 /\ ~sup.st.failed
           u    == [sup EXCEPT !.inner = boot.result, !.errors = bad, !.complete = full]
           won  == Success(u)
           v    == [u EXCEPT !.success = won, !.pc = "done"]
<1>2. sup' = v \/ sup' = Failed(v)
    BY DEF SReport
<1>3. /\ DOMAIN u = DOMAIN sup /\ u.inner = boot.result /\ u.st = sup.st /\ u.proc = sup.proc /\ u.clean = sup.clean
      /\ u.pre = sup.pre /\ u.begin = sup.begin /\ u.ack = sup.ack /\ u.done = sup.done /\ u.owner = sup.owner
    <2> HIDE DEF bad, full
    <2> QED
        BY <1>0 DEF SupFields
<1> HIDE DEF u
<1>4. won => u.clean /\ u.done /\ u.inner.success /\ Observed(u)
    BY DEF Success, Observed
<1> HIDE DEF won
<1>5. /\ DOMAIN v = DOMAIN sup /\ v.st = sup.st /\ v.proc = sup.proc /\ v.clean = sup.clean /\ v.success = won
      /\ v.pre = sup.pre /\ v.begin = sup.begin /\ v.ack = sup.ack /\ v.done = sup.done /\ v.owner = sup.owner
      /\ v.pc = "done"
    BY <1>0, <1>3 DEF SupFields
<1> HIDE DEF v
<1>6. Holds(v, SupFields)
    BY <1>0, <1>5 DEF Holds
<1>7. Calm(v, sup') /\ sup'.pc = "done" /\ sup'.owner = sup.owner
    <2>1. CASE sup' = v
        BY <1>5, <2>1 DEF Calm
    <2>2. CASE sup' = Failed(v)
        BY <1>5, <1>6, <2>2, FramesAreCalm
    <2> QED
        BY <1>2, <2>1, <2>2
<1>8. /\ sup'.proc = sup.proc /\ sup'.clean = sup.clean /\ sup'.success = won /\ sup'.pre = sup.pre
      /\ sup'.begin = sup.begin /\ sup'.ack = sup.ack /\ sup'.done = sup.done
    BY <1>5, <1>7 DEF Calm
<1>9. StampInv'
    <2>1. sup.pre \in Int
        BY DEF HInv, StampInv
    <2> QED
        BY <1>0, <1>1, <1>7, <1>8, <2>1, StampsKept
<1>10. StartedInv' /\ ExitInv'
    BY <1>1, <1>7, <1>8 DEF HInv, StartedInv, ExitInv, AtWork
<1>11. CleanInv'
    BY <1>1, <1>7, <1>8 DEF HInv, CleanInv, Alive
<1>12. DecidedInv'
    <2>1. won => sup.clean /\ sup.done /\ boot.result.success /\ Observed(sup)
        BY <1>3, <1>4 DEF Observed
    <2> QED
        BY <1>1, <1>7, <1>8, <2>1 DEF DecidedInv, Done, Observed
<1> QED
    BY <1>9, <1>10, <1>11, <1>12 DEF HInv

(***************************************************************************)
(* Bootstrap and the Runner in it.                                         *)
(***************************************************************************)
\* While Bootstrap runs, nothing has been reported.
LEMMA BootKeepsReport ==
    ASSUME Inv, HInv, UNCHANGED sup, Alive(boot), boot'.pc # "none", ExitInv',
           boot'.pc \in Starting => tgt'.st = "none",
           ipc'.toTgt = ipc.toTgt, clock' \in Nat, clock <= clock'
    PROVE  HInv'
<1>1. ~sup.clean /\ ~sup.success /\ sup.proc /\ sup.pc # "launch"
    BY DEF HInv, CleanInv, DecidedInv, StartedInv, Alive
<1>2. StampInv'
    <2>1. sup.pre \in Int /\ (sup.pc \in {"before", "release"} => sup.begin = None)
        BY DEF HInv, StampInv
    <2> QED
        BY <2>1, StampsKept
<1>3. StartedInv' /\ CleanInv' /\ DecidedInv'
    BY <1>1 DEF StartedInv, CleanInv, DecidedInv
<1> QED
    BY <1>2, <1>3 DEF HInv

\* Before its cleanup, Runner has no verdict.
LEMMA BusyReports ==
    ASSUME Inv, HInv, UNCHANGED sup, boot.pc \in Busy \ {"none"}, boot'.pc # "none",
           boot'.success = boot.success, boot'.result = boot.result,
           boot'.primary = "command_success" => tgt.code = 0 /\ boot'.pc = "cleanup",
           tgt'.code = tgt.code, tgt'.pc = tgt.pc, tgt.code = 0 => tgt'.st = tgt.st,
           boot'.pc \in Starting => tgt'.st = "none",
           ipc'.toTgt = ipc.toTgt, clock' \in Nat, clock <= clock'
    PROVE  HInv'
<1>1. Alive(boot) /\ ~boot.success /\ ~boot.result.success
    BY DEF HInv, ExitInv, Busy, Alive
<1>2. ExitInv'
    BY <1>1 DEF HInv, ExitInv, AtWork, Busy
<1> QED
    BY <1>1, <1>2, BootKeepsReport

\* From the channel to the owner record.
LEMMA StartReports ==
    ASSUME Inv, HInv, BConnect \/ BConfirm \/ BStart \/ BOwner
    PROVE  HInv'
<1>0. /\ BootFields \subseteq DOMAIN boot /\ {"st", "pc", "code", "killed"} \subseteq DOMAIN tgt
      /\ clock \in Nat /\ clock <= clock
    BY DEF Inv, Shape, Holds
<1>1. UNCHANGED <<sup, ipc, clock>> /\ boot.pc \in {"connect", "confirm", "start", "owner"}
    BY DEF BConnect, BConfirm, BStart, BOwner
<1>2. boot.pc \in Busy \ {"none"} /\ boot.primary # "command_success"
    BY <1>1 DEF Busy, HInv, ExitInv
<1>3. boot.pc \in Starting => tgt.st = "none" /\ tgt.code # 0
    BY DEF HInv, StartedInv, ExitInv
<1>4. CASE BConnect \/ BConfirm
    <2>1. \/ boot' = [boot EXCEPT !.pc = "confirm", !.dialled = TRUE] \/ boot' = [boot EXCEPT !.pc = "start"]
          \/ boot' = [boot EXCEPT !.pc = "dead", !.code = "error"]
        BY <1>4 DEF BConnect, BConfirm, Died
    <2>2. /\ boot'.success = boot.success /\ boot'.result = boot.result /\ boot'.primary = boot.primary
          /\ boot'.pc \in {"confirm", "start", "dead"}
        BY <1>0, <2>1, ZenonT(30) DEF BootFields
    <2>3. UNCHANGED tgt /\ boot.pc \in Starting
        BY <1>4 DEF BConnect, BConfirm, Starting
    <2> QED
        BY <1>0, <1>1, <1>2, <1>3, <2>2, <2>3, BusyReports
<1>5. CASE BStart \/ BOwner
    <2>1. /\ \/ boot' = [boot EXCEPT !.pc = "owner"] \/ boot' = [boot EXCEPT !.pc = "loop", !.owner = TRUE]
             \/ boot' = [boot EXCEPT !.pc = "cleanup", !.primary = "runner_error"]
          /\ tgt' = tgt \/ (boot.pc = "start" /\ tgt' = [tgt EXCEPT !.st = "live"])
        BY <1>5 DEF BStart, BOwner
    <2>2. /\ boot'.success = boot.success /\ boot'.result = boot.result /\ boot'.primary # "command_success"
          /\ boot'.pc \in {"owner", "loop", "cleanup"}
        BY <1>0, <1>2, <2>1, ZenonT(30) DEF BootFields
    <2>3. tgt'.code = tgt.code /\ tgt'.pc = tgt.pc /\ (tgt.code = 0 => tgt'.st = tgt.st)
        BY <1>0, <1>3, <2>1 DEF Starting
    <2>4. boot'.pc \notin Starting
        BY <2>2 DEF Starting
    <2> QED
        BY <1>0, <1>1, <1>2, <2>2, <2>3, <2>4, BusyReports
<1> QED
    BY <1>4, <1>5

\* A round of Runner's loop decides for a success only at an exit with status 0.
LEMMA RoundReports ==
    ASSUME Inv, HInv, BLoop
    PROVE  HInv'
<1>0. BootFields \subseteq DOMAIN boot /\ clock \in Nat /\ clock <= clock
    BY DEF Inv, Shape, Holds
<1>1. UNCHANGED <<sup, tgt, ipc, clock>> /\ boot.pc = "loop"
    BY DEF BLoop
<1>2. boot.pc \in Busy \ {"none"} /\ boot.primary # "command_success"
    BY <1>1 DEF Busy, HInv, ExitInv
<1>3. \/ \E outcome : /\ outcome = "command_success" => tgt.code = 0
                      /\ boot' = [boot EXCEPT !.pc = "cleanup", !.primary = outcome]
      \/ boot' = [boot EXCEPT !.pc = "recv", !.monitor = TRUE]
      \/ boot' = [boot EXCEPT !.pc = "sample"]
      \/ boot' = boot
    <2> DEFINE stop(outcome) == [boot EXCEPT !.pc = "cleanup", !.primary = outcome]
    <2>1. \/ boot' = stop("interrupted") \/ boot' = stop("timeout") \/ boot' = stop("command_failed")
          \/ tgt.code = 0 /\ boot' = stop("command_success")
          \/ boot' = [boot EXCEPT !.pc = "recv", !.monitor = TRUE]
          \/ boot' = [boot EXCEPT !.pc = "sample"]
          \/ boot' = boot
        BY ZenonT(30) DEF BLoop
    <2>2. "interrupted" # "command_success" /\ "timeout" # "command_success" /\ "command_failed" # "command_success"
        OBVIOUS
    <2> QED
        BY <2>1, <2>2, ZenonT(30)
<1>4. /\ boot'.success = boot.success /\ boot'.result = boot.result
      /\ boot'.primary = "command_success" => tgt.code = 0 /\ boot'.pc = "cleanup"
      /\ boot'.pc \in {"cleanup", "recv", "sample", "loop"}
    <2>1. ASSUME NEW outcome, outcome = "command_success" => tgt.code = 0,
                 boot' = [boot EXCEPT !.pc = "cleanup", !.primary = outcome]
          PROVE  /\ boot'.success = boot.success /\ boot'.result = boot.result
                 /\ boot'.primary = "command_success" => tgt.code = 0 /\ boot'.pc = "cleanup"
                 /\ boot'.pc \in {"cleanup", "recv", "sample", "loop"}
        BY <1>0, <2>1 DEF BootFields
    <2>2. CASE boot' = [boot EXCEPT !.pc = "recv", !.monitor = TRUE]
        BY <1>0, <1>2, <2>2 DEF BootFields
    <2>3. CASE boot' = [boot EXCEPT !.pc = "sample"]
        BY <1>0, <1>2, <2>3 DEF BootFields
    <2>4. CASE boot' = boot
        BY <1>1, <1>2, <2>4
    <2> QED
        BY <1>3, <2>1, <2>2, <2>3, <2>4, ZenonT(30)
<1>5. boot'.pc \notin Starting /\ boot'.pc # "none"
    BY <1>4 DEF Starting
<1> QED
    BY <1>0, <1>1, <1>2, <1>4, <1>5, BusyReports

\* The monitor: frames, samples, and its exceptions.
Watching(b, c) ==
    /\ c.success = b.success /\ c.result = b.result /\ c.primary # "command_success"
    /\ c.pc \in {"recv", "sample", "loop", "cleanup"}

\* Whatever the monitor does, it does not decide for a success.
LEMMA MonitorIsWatching ==
    ASSUME NEW b, Holds(b, BootFields), NEW m, b.primary # "command_success"
    PROVE  /\ Watching(b, BRaise(b)) /\ Watching(b, BRaise(NotSent(b, m)))
           /\ \A e : \A pc \in {"recv", "sample", "loop"} :
                 Watching(b, [Sent(b, m) EXCEPT !.event = e, !.pc = pc])
           /\ \A pc \in {"recv", "sample", "loop"} :
                 Watching(b, [Sent(b, m) EXCEPT !.pc = pc]) /\ Watching(b, [b EXCEPT !.pc = pc])
           /\ Watching(b, [Sent(b, m) EXCEPT !.pc = "cleanup", !.primary = "resource_stop"])
           /\ Watching(b, [b EXCEPT !.pc = "cleanup", !.primary = "resource_stop"])
           /\ Watching(b, [BRaise(b) EXCEPT !.storage = FALSE])
<1>0. {"st", "tr"} \subseteq DOMAIN b /\ {"success", "result", "primary"} \subseteq DOMAIN b \ {"st", "tr"}
      /\ BootFields \subseteq DOMAIN b
    BY DEF Holds, BootFields
<1> DEFINE u == Sent(b, m)
           v == NotSent(b, m)
<1>1. /\ DOMAIN u = DOMAIN b /\ u.success = b.success /\ u.result = b.result /\ u.primary = b.primary
      /\ DOMAIN v = DOMAIN b /\ v.success = b.success /\ v.result = b.result /\ v.primary = b.primary
      /\ Holds(v, BootFields)
    <2>1. StFields \subseteq DOMAIN b.st /\ b.st.seq \in Nat
        BY ZenonT(30) DEF Holds
    <2>2. /\ DOMAIN u = DOMAIN b /\ DOMAIN v = DOMAIN b /\ DOMAIN v.st = DOMAIN b.st
          /\ v.st.seq = b.st.seq + 1
          /\ \A f \in DOMAIN b \ {"st", "tr"} : u[f] = b[f] /\ v[f] = b[f]
        BY <1>0, <2>1, SentFacts, ZenonT(30)
    <2> HIDE DEF u, v
    <2>3. v.st.seq \in Nat
        BY <2>1, <2>2
    <2>4. Holds(v, BootFields)
        BY <1>0, <2>1, <2>2, <2>3, ZenonT(30) DEF Holds
    <2> QED
        BY <1>0, <2>2, <2>4, ZenonT(30)
<1>2. ASSUME NEW x, Holds(x, BootFields), DOMAIN x = DOMAIN b, x.success = b.success, x.result = b.result
      PROVE  Watching(b, BRaise(x)) /\ DOMAIN BRaise(x) = DOMAIN b
    <2> DEFINE f == Failed(x)
    <2>1. DOMAIN f = DOMAIN b /\ f.success = b.success /\ f.result = b.result
        BY <1>0, <1>2, FailedFacts DEF Holds
    <2>2. BRaise(x) = [f EXCEPT !.error = TRUE, !.pc = "cleanup", !.primary = "runner_error"]
        BY ZenonT(30) DEF BRaise
    <2> HIDE DEF f
    <2> QED
        BY <1>0, <2>1, <2>2, ZenonT(30) DEF Watching, BootFields
<1>3. Watching(b, BRaise(b)) /\ Watching(b, BRaise(v)) /\ DOMAIN BRaise(b) = DOMAIN b
    BY <1>1, <1>2
<1>4. Watching(b, [BRaise(b) EXCEPT !.storage = FALSE])
    <2> DEFINE r == BRaise(b)
    <2>1. Watching(b, r) /\ DOMAIN r = DOMAIN b
        BY <1>3
    <2> HIDE DEF r
    <2>2. Watching(b, [r EXCEPT !.storage = FALSE])
        BY <1>0, <2>1 DEF Watching, BootFields
    <2> QED
        BY <2>2, ZenonT(30) DEF r
<1> HIDE DEF u, v
<1>5. ASSUME NEW pc \in {"recv", "sample", "loop"}, NEW e
      PROVE  Watching(b, [u EXCEPT !.event = e, !.pc = pc])
    BY <1>0, <1>1, <1>5 DEF Watching, BootFields
<1>6. ASSUME NEW pc \in {"recv", "sample", "loop"}
      PROVE  Watching(b, [u EXCEPT !.pc = pc]) /\ Watching(b, [b EXCEPT !.pc = pc])
    BY <1>0, <1>1, <1>6 DEF Watching, BootFields
<1>7. /\ Watching(b, [u EXCEPT !.pc = "cleanup", !.primary = "resource_stop"])
      /\ Watching(b, [b EXCEPT !.pc = "cleanup", !.primary = "resource_stop"])
    BY <1>0, <1>1 DEF Watching, BootFields
<1> QED
    BY <1>3, <1>4, <1>5, <1>6, <1>7, ZenonT(30) DEF u, v

\* Frames and samples of the monitor.
LEMMA MonitorReports ==
    ASSUME Inv, HInv, BRecv \/ BSample
    PROVE  HInv'
<1>0. BootFields \subseteq DOMAIN boot /\ Holds(boot, BootFields) /\ clock \in Nat
    BY DEF Inv, Shape, Holds
<1>1. UNCHANGED <<sup, tgt, ipc>> /\ boot.pc \in {"recv", "sample"}
    BY DEF BRecv, BSample
<1>2. boot.pc \in Busy \ {"none"} /\ boot.primary # "command_success"
    BY <1>1 DEF Busy, HInv, ExitInv
<1>3. clock' \in {clock, clock + 2, clock + 3}
    BY DEF BRecv, BSample
<1>4. clock' \in Nat /\ clock <= clock'
    BY <1>0, <1>3
<1>5. Watching(boot, boot')
    <2>1. CASE BRecv
        <3> DEFINE m == Head(chan.toBoot)
        <3>1. \/ boot' = BRaise(boot) \/ boot' = BRaise(NotSent(boot, m))
              \/ \E pc \in {"recv", "sample", "loop"} : boot' = [Sent(boot, m) EXCEPT !.event = m.stamp, !.pc = pc]
            BY <2>1, ZenonT(30) DEF BRecv
        <3> HIDE DEF m
        <3>2. Watching(boot, BRaise(boot)) /\ Watching(boot, BRaise(NotSent(boot, m)))
            BY <1>0, <1>2, MonitorIsWatching, ZenonT(30)
        <3>3. ASSUME NEW pc \in {"recv", "sample", "loop"}
              PROVE  Watching(boot, [Sent(boot, m) EXCEPT !.event = m.stamp, !.pc = pc])
            BY <1>0, <1>2, MonitorIsWatching, ZenonT(30)
        <3> QED
            BY <3>1, <3>2, <3>3
    <2>2. CASE BSample
        <3>1. PICK m : \/ boot' = BRaise(boot) \/ boot' = BRaise(NotSent(boot, m))
                       \/ boot' = [BRaise(boot) EXCEPT !.storage = FALSE]
                       \/ boot' = [boot EXCEPT !.pc = "loop"] \/ boot' = [Sent(boot, m) EXCEPT !.pc = "loop"]
                       \/ boot' = [boot EXCEPT !.pc = "cleanup", !.primary = "resource_stop"]
                       \/ boot' = [Sent(boot, m) EXCEPT !.pc = "cleanup", !.primary = "resource_stop"]
            BY <2>2, ZenonT(30) DEF BSample
        <3>2. /\ Watching(boot, BRaise(boot)) /\ Watching(boot, BRaise(NotSent(boot, m)))
              /\ Watching(boot, [BRaise(boot) EXCEPT !.storage = FALSE])
              /\ Watching(boot, [boot EXCEPT !.pc = "cleanup", !.primary = "resource_stop"])
              /\ Watching(boot, [Sent(boot, m) EXCEPT !.pc = "cleanup", !.primary = "resource_stop"])
            BY <1>0, <1>2, MonitorIsWatching, ZenonT(30)
        <3>3. Watching(boot, [boot EXCEPT !.pc = "loop"]) /\ Watching(boot, [Sent(boot, m) EXCEPT !.pc = "loop"])
            BY <1>0, <1>2, MonitorIsWatching, ZenonT(30)
        <3> QED
            BY <3>1, <3>2, <3>3, ZenonT(30)
    <2> QED
        BY <2>1, <2>2
<1>6. /\ boot'.success = boot.success /\ boot'.result = boot.result /\ boot'.primary # "command_success"
      /\ boot'.pc \notin Starting /\ boot'.pc # "none"
    BY <1>5 DEF Watching, Starting
<1> QED
    BY <1>1, <1>2, <1>4, <1>6, BusyReports

\* Runner's verdict is that of the command, unless a signal or a failed cleanup forbids it.
LEMMA CleanupReports ==
    ASSUME Inv, HInv, BCleanup
    PROVE  HInv'
<1>0. /\ BootFields \subseteq DOMAIN boot /\ {"st", "pc", "code", "killed"} \subseteq DOMAIN tgt
      /\ clock \in Nat /\ clock <= clock
    BY DEF Inv, Shape, Holds
<1>1. UNCHANGED <<sup, ipc, clock>> /\ boot.pc = "cleanup"
    BY DEF BCleanup
<1> DEFINE primary == IF boot.sig /\ boot.primary = "command_success" THEN "interrupted" ELSE boot.primary
           won(clean) == clean /\ primary = "command_success"
           b(clean) == [boot EXCEPT !.primary = primary, !.clean = clean, !.pc = "publish", !.success = won(clean)]
<1>2. /\ boot' = b(TRUE) \/ boot' = b(FALSE)
      /\ tgt' \in {tgt, [tgt EXCEPT !.st = "gone"], [tgt EXCEPT !.killed = tgt.st = "live"]}
      /\ tgt.st = "none" => tgt' = tgt
    BY DEF BCleanup
<1>3. primary = "command_success" => boot.primary = "command_success"
    OBVIOUS
<1>4. \A clean \in BOOLEAN : won(clean) => primary = "command_success"
    OBVIOUS
<1> HIDE DEF primary, won
<1>5. /\ boot'.pc = "publish" /\ boot'.primary = primary /\ boot'.result = boot.result
      /\ boot'.success => primary = "command_success"
    BY <1>0, <1>2, <1>4, ZenonT(30) DEF BootFields
<1>6. tgt'.code = tgt.code /\ tgt'.pc = tgt.pc /\ tgt'.st \in {tgt.st, "gone"}
    <2> DEFINE k == tgt.st = "live"
    <2>1. tgt' = tgt \/ tgt' = [tgt EXCEPT !.st = "gone"] \/ tgt' = [tgt EXCEPT !.killed = k]
        BY <1>2
    <2> HIDE DEF k
    <2> QED
        BY <1>0, <2>1
<1>7. Alive(boot) /\ ~boot.result.success
    BY <1>1 DEF Alive, HInv, ExitInv
<1>8. ExitInv'
    BY <1>3, <1>5, <1>6, <1>7 DEF HInv, ExitInv, AtWork, Busy
<1>9. boot'.pc \notin Starting /\ boot'.pc # "none"
    BY <1>5 DEF Starting
<1> QED
    BY <1>0, <1>1, <1>7, <1>8, <1>9, BootKeepsReport

\* result.json holds Runner's verdict, or is not there.
LEMMA PublishReports ==
    ASSUME Inv, HInv, BPublish
    PROVE  HInv'
<1>0. BootFields \subseteq DOMAIN boot /\ clock \in Nat /\ clock <= clock
    BY DEF Inv, Shape, Holds
<1>1. UNCHANGED <<sup, tgt, ipc, clock>> /\ boot.pc = "publish"
    BY DEF BPublish
<1> DEFINE record == [primary |-> boot.primary, success |-> boot.success, clean |-> boot.clean,
                      signals |-> boot.sig]
           result(ok) == IF ok THEN record ELSE NoResult
           kept(ok) == boot.success /\ ok
           b(ok)  == [boot EXCEPT !.result = result(ok), !.success = kept(ok)]
           code(c) == IF c.success THEN "accepted" ELSE "complete"
<1>2. \E ok \in BOOLEAN : \/ boot' = [b(ok) EXCEPT !.pc = "row"]
                          \/ boot' = [b(ok) EXCEPT !.pc = "dead", !.code = code(b(ok))]
    BY ZenonT(30) DEF BPublish, Died
<1>3. \A ok \in BOOLEAN : (result(ok).success => boot.success) /\ (kept(ok) => boot.success)
    BY DEF NoResult
<1> HIDE DEF result, kept, code
<1>4. PICK ok \in BOOLEAN : \/ boot' = [b(ok) EXCEPT !.pc = "row"]
                            \/ boot' = [b(ok) EXCEPT !.pc = "dead", !.code = code(b(ok))]
    BY <1>2, ZenonT(30)
<1>5. /\ DOMAIN b(ok) = DOMAIN boot /\ b(ok).result = result(ok) /\ b(ok).success = kept(ok)
      /\ b(ok).primary = boot.primary
    BY <1>0 DEF BootFields
<1> HIDE DEF b
<1>6. /\ boot'.pc \in {"row", "dead"} /\ boot'.primary = boot.primary
      /\ boot'.result = result(ok) /\ boot'.success = kept(ok)
    BY <1>0, <1>4, <1>5, ZenonT(30) DEF BootFields
<1>7. (boot'.result.success => boot.success) /\ (boot'.success => boot.success)
    BY <1>3, <1>6
<1>8. Alive(boot) /\ (boot.success => boot.primary = "command_success")
    BY <1>1 DEF Alive, HInv, ExitInv
<1>9. ExitInv'
    BY <1>1, <1>6, <1>7, <1>8 DEF HInv, ExitInv, AtWork, Busy
<1>10. boot'.pc \notin Starting /\ boot'.pc # "none"
    BY <1>6 DEF Starting
<1> QED
    BY <1>0, <1>1, <1>8, <1>9, <1>10, BootKeepsReport

\* After its verdict, Bootstrap only writes its records and ends.
LEMMA EndReports ==
    ASSUME Inv, HInv, BRow \/ BOutcome \/ BKilled
    PROVE  HInv'
<1>0. BootFields \subseteq DOMAIN boot /\ clock \in Nat
    BY DEF Inv, Shape, Holds
<1>1. /\ UNCHANGED <<sup, tgt, ipc>> /\ Alive(boot) /\ clock' \in {clock, clock + 2}
    BY DEF BRow, BOutcome, BKilled, Alive
<1>2. clock' \in Nat /\ clock <= clock'
    BY <1>0, <1>1
<1>3. /\ boot'.primary = boot.primary /\ boot'.success = boot.success /\ boot'.result = boot.result
      /\ boot'.pc = "dead" \/ (boot.pc = "row" /\ boot'.pc = "outcome")
    <2>1. \/ \E code : boot' = [boot EXCEPT !.pc = "dead", !.code = code]
          \/ \E code, out : boot' = [[boot EXCEPT !.outcome = out] EXCEPT !.pc = "dead", !.code = code]
          \/ boot.pc = "row" /\ boot' = [boot EXCEPT !.pc = "outcome"]
        BY ZenonT(30) DEF BRow, BOutcome, BKilled, Died
    <2>2. ASSUME NEW code, boot' = [boot EXCEPT !.pc = "dead", !.code = code]
          PROVE  /\ boot'.primary = boot.primary /\ boot'.success = boot.success /\ boot'.result = boot.result
                 /\ boot'.pc = "dead"
        BY <1>0, <2>2 DEF BootFields
    <2>3. ASSUME NEW code, NEW out, boot' = [[boot EXCEPT !.outcome = out] EXCEPT !.pc = "dead", !.code = code]
          PROVE  /\ boot'.primary = boot.primary /\ boot'.success = boot.success /\ boot'.result = boot.result
                 /\ boot'.pc = "dead"
        BY <1>0, <2>3 DEF BootFields
    <2>4. ASSUME boot' = [boot EXCEPT !.pc = "outcome"]
          PROVE  /\ boot'.primary = boot.primary /\ boot'.success = boot.success /\ boot'.result = boot.result
                 /\ boot'.pc = "outcome"
        BY <1>0, <2>4, ZenonT(30) DEF BootFields
    <2> QED
        BY <2>1, <2>2, <2>3, <2>4, ZenonT(30)
<1>4. ExitInv'
    BY <1>1, <1>3 DEF HInv, ExitInv, AtWork, Busy
<1>5. boot'.pc \notin Starting /\ boot'.pc # "none"
    BY <1>3 DEF Starting
<1> QED
    BY <1>1, <1>2, <1>4, <1>5, BootKeepsReport

(***************************************************************************)
(* The target, time and signals.                                           *)
(***************************************************************************)
LEMMA WorldReports ==
    ASSUME Inv, HInv, Target \/ Signal \/ \E d \in Deadlines : Pass(d)
    PROVE  HInv'
<1>0. /\ SupFields \subseteq DOMAIN sup /\ BootFields \subseteq DOMAIN boot /\ clock \in Nat /\ clock <= clock
      /\ {"st", "pc", "code", "killed"} \subseteq DOMAIN tgt
      /\ {"toSup", "toTgt", "dialled", "sup", "tgt"} \subseteq DOMAIN ipc
    <2>1. clock \in Nat
        BY ZenonT(30) DEF Inv, Shape
    <2>2. clock <= clock
        BY <2>1
    <2> QED
        BY <2>1, <2>2, ZenonT(30) DEF Inv, Shape, Holds
<1>1. UNCHANGED clock /\ ipc'.toTgt = ipc.toTgt
    BY <1>0, ZenonT(30) DEF Target, TDial, TGo, TExit, TKilled, TReaped, Hangup, Signal, Pass
<1>2. CASE Target
    <2>1. UNCHANGED <<sup, boot>>
        BY <1>2, ZenonT(30) DEF Target, TDial, TGo, TExit, TKilled, TReaped
    <2>2. StampInv'
        <3>1. sup.pre \in Int /\ (sup.pc \in {"before", "release"} => sup.begin = None)
            BY DEF HInv, StampInv
        <3> QED
            BY <1>0, <1>1, <2>1, <3>1, StampsKept
    <2>3. DecidedInv'
        BY <2>1 DEF HInv, DecidedInv, Done, Observed
    <2>4. tgt.st \in {"live", "zombie"} /\ tgt'.st \in {tgt.st, "zombie", "gone"} /\ (tgt'.st = "live" => tgt.st = "live")
        BY <1>0, <1>2, ZenonT(30) DEF Target, TDial, TGo, TExit, TKilled, TReaped, Exited
    <2>5. boot.pc \notin Starting
        BY <2>4 DEF HInv, StartedInv
    <2>6. StartedInv' /\ CleanInv'
        BY <2>1, <2>4, <2>5 DEF HInv, StartedInv, CleanInv, Alive
    <2>7. ExitInv'
        <3>1. CASE TReaped
            <4>1. tgt'.code = tgt.code /\ tgt'.pc = tgt.pc /\ tgt'.st = "gone"
                BY <1>0, <3>1 DEF TReaped
            <4> QED
                BY <2>1, <4>1 DEF HInv, ExitInv, AtWork
        <3>2. CASE TDial \/ TGo \/ TExit \/ TKilled
            <4>1. tgt.st = "live"
                BY <3>2 DEF TDial, TGo, TExit, TKilled
            <4>2. tgt.code # 0 /\ boot.primary # "command_success" /\ ~boot.success /\ ~boot.result.success
                BY <4>1 DEF HInv, ExitInv
            <4>3. tgt'.code = 0 => tgt'.pc = "work" /\ tgt'.st = "zombie"
                <5>1. CASE TDial \/ TGo
                    BY <1>0, <4>2, <5>1 DEF TDial, TGo
                <5>2. CASE TExit \/ TKilled
                    <6>1. \/ tgt.pc = "work" /\ tgt' = [tgt EXCEPT !.st = "zombie", !.code = 0]
                          \/ tgt' = [tgt EXCEPT !.st = "zombie", !.code = 1]
                        BY <5>2 DEF TExit, TKilled, Exited
                    <6>2. CASE tgt.pc = "work" /\ tgt' = [tgt EXCEPT !.st = "zombie", !.code = 0]
                        <7>1. tgt'.pc = tgt.pc /\ tgt'.st = "zombie"
                            BY <1>0, <6>2, Zenon
                        <7> QED
                            BY <6>2, <7>1
                    <6>3. CASE tgt' = [tgt EXCEPT !.st = "zombie", !.code = 1]
                        <7>1. tgt'.code = 1
                            BY <1>0, <6>3, Zenon
                        <7> QED
                            BY <7>1
                    <6> QED
                        BY <6>1, <6>2, <6>3
                <5> QED
                    BY <3>2, <5>1, <5>2
            <4> QED
                BY <2>1, <4>2, <4>3 DEF ExitInv, AtWork
        <3> QED
            BY <1>2, <3>1, <3>2 DEF Target
    <2> QED
        BY <2>2, <2>3, <2>6, <2>7 DEF HInv
<1>3. CASE Signal
    <2>1. UNCHANGED tgt
        BY <1>3 DEF Signal
    <2>2. CASE sup.pc \notin {"report", "done"} /\ sup' = [sup EXCEPT !.pending = TRUE] /\ UNCHANGED boot
        <3>1. Calm(sup, sup') /\ sup'.pc = sup.pc
            BY <1>0, <2>2 DEF Calm, SupFields
        <3>2. StampInv'
            <4>1. sup.pre \in Int /\ (sup.pc \in {"before", "release"} => sup.begin = None)
                BY DEF HInv, StampInv
            <4> QED
                BY <1>0, <1>1, <3>1, <4>1, StampsKept DEF Calm
        <3>3. ~sup'.clean /\ ~sup'.success
            BY <2>2, <3>1 DEF Calm, HInv, CleanInv, DecidedInv, Done
        <3>4. StartedInv' /\ ExitInv'
            BY <2>1, <2>2, <3>1 DEF HInv, StartedInv, ExitInv, AtWork, Calm
        <3> QED
            BY <3>2, <3>3, <3>4 DEF HInv, CleanInv, DecidedInv
    <2>3. CASE Alive(boot) /\ boot' = Terminated(boot) /\ UNCHANGED sup
        <3>1. boot.pc # "none" /\ BCalm(boot, boot') /\ Same(tgt')
            BY <2>1, <2>3, TerminatedIsCalm DEF Alive, Same
        <3>2. /\ ExitInv' /\ (boot'.pc \in Starting => tgt'.st = "none")
              /\ boot'.pc # "none"
            BY <3>1, BCalmKeepsExit, ZenonT(30)
        <3> QED
            BY <1>0, <1>1, <2>3, <3>2, BootKeepsReport
    <2> QED
        BY <1>3, <2>2, <2>3 DEF Signal
<1>4. CASE \E d \in Deadlines : Pass(d)
    <2>1. UNCHANGED <<sup, boot, tgt, ipc, clock>>
        BY <1>4 DEF Pass
    <2> QED
        BY <2>1 DEF HInv, StartedInv, CleanInv, ExitInv, StampInv, DecidedInv, Alive, AtWork, Done, Observed
<1> QED
    BY <1>2, <1>3, <1>4, ZenonT(30)

\* At the start nothing is reported.
LEMMA InitReports == Init => HInv
<1> SUFFICES ASSUME Init PROVE HInv
    BY Zenon
<1>1. /\ sup.pc = "launch" /\ sup.proc = FALSE /\ sup.clean = FALSE /\ sup.success = FALSE /\ sup.pre = None
      /\ sup.begin = None /\ sup.ack = None /\ sup.done = FALSE /\ boot.pc = "none"
      /\ boot.primary = "not_started" /\ boot.success = FALSE /\ boot.result = NoResult
      /\ tgt.st = "none" /\ tgt.code = None /\ ipc.toTgt = FALSE /\ clock = 0
    BY ZenonT(30) DEF Init
<1>2. boot.result.success = FALSE
    BY <1>1 DEF NoResult
<1>3. StampInv
    BY <1>1 DEF StampInv, None
<1>4. StartedInv /\ CleanInv /\ DecidedInv /\ ExitInv
    BY <1>1, <1>2 DEF StartedInv, CleanInv, DecidedInv, ExitInv, None
<1> QED
    BY <1>3, <1>4 DEF HInv

\* Every step keeps the invariant.
LEMMA NextReports == Inv /\ HInv /\ [Next]_vars => HInv'
<1> SUFFICES ASSUME Inv, HInv, [Next]_vars PROVE HInv'
    BY Zenon
<1>1. CASE UNCHANGED vars
    BY <1>1 DEF vars, HInv, StartedInv, CleanInv, ExitInv, StampInv, DecidedInv, Alive, AtWork, Done, Observed
<1>2. CASE Supervisor
    BY <1>2, LoopReports, RecvReports, SampleReports, ReceiveReports, ReleaseReports, FinishReports, ReportReports,
       Zenon DEF Supervisor
<1>3. CASE Bootstrap
    BY <1>3, StartReports, RoundReports, MonitorReports, CleanupReports, PublishReports, EndReports, Zenon DEF Bootstrap
<1>4. CASE BKilled \/ Target \/ Signal \/ \E d \in Deadlines : Pass(d)
    BY <1>4, EndReports, WorldReports, Zenon
<1> QED
    BY <1>1, <1>2, <1>3, <1>4, Zenon DEF Next

\* The report is true in every reachable state: what it says of the start barrier
\* is Inv, of the rest HInv.
LEMMA Reports == Spec => [](Inv /\ HInv)
<1>1. Init => Inv /\ HInv
    BY InitInv, InitReports
<1>2. Inv /\ HInv /\ [Next]_vars => (Inv /\ HInv)'
    <2>1. Inv /\ [Next]_vars => Inv'
        BY NextPromise, Zenon
    <2> QED
        BY <2>1, NextReports
<1> QED
    BY <1>1, <1>2, PTL DEF Spec

\* supervise.finish: a cleanup that is reported as a success left no process of
\* Runner's session, nor of a target whose owner record was known.
THEOREM HonestSupervisorCleanup == Spec => []CleanupHonest
<1>1. HInv => CleanupHonest
    BY DEF HInv, CleanInv, CleanupHonest
<1> QED
    BY <1>1, Reports, PTL

\* A success of either Supervisor is the success of the run: the target passed its
\* barrier after it had been observed, exited with status 0, and nobody is left.
THEOREM HonestSuccess == Spec => []SuccessHonest
<1>1. Inv /\ HInv => SuccessHonest
    BY DEF HInv, CleanInv, DecidedInv, ExitInv, StampInv, Observed, AtWork, SuccessHonest
<1> QED
    BY <1>1, Reports, PTL
====
