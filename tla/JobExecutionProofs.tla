------------------------- MODULE JobExecutionProofs -------------------------
(***************************************************************************)
(* The inductive invariant of JobExecution, IInv, and the proof that every *)
(* step keeps it, for any jobs, handlers, specifications and bound: one    *)
(* lemma per action, from the sessions' local steps to the whole of Next.  *)
(* Then what follows from it: the safety properties, the refinement of     *)
(* JobLedger, the action properties, and what becomes of unfinished rows.  *)
(***************************************************************************)
EXTENDS JobExecution, TLAPS

(* What a session's variables say at each place of the code *)
SessionShape(t) ==
    /\ sess[t].pc # "idle" => Own(t) \in Jobs
    /\ sess[t].pc \in {"picked", "reload", "repairLoad", "repairSave"} =>
         t = Recovery
    /\ sess[t].pc \in {"exhausted", "cancelling"} => t # Recovery
    /\ sess[t].pc \in {"picked", "reload"} => sess[t].attempt = 0
    /\ sess[t].pc \in {"loop", "dispatched", "verify", "persist", "exhausted"}
         => sess[t].spec # None
    /\ sess[t].spec # None => Canon[sess[t].spec] = sess[t].spec
    /\ sess[t].pc \in {"dispatched", "verify", "persist", "repairLoad",
                       "repairSave"} => sess[t].attempt > 0
    /\ sess[t].pc \in {"verify", "persist"} =>
         /\ sess[t].answer # None
         /\ sess[t].answer.status \in Terminal
         /\ sess[t].answer.job = Own(t)
         /\ sess[t].answer.attempt = sess[t].attempt
    /\ sess[t].pc = "persist" /\ sess[t].spec \in ZKSpecs
         /\ sess[t].answer.status = "Succeeded" => sess[t].answer.proof
    /\ sess[t].answer # None => sess[t].pc \in {"verify", "persist", "release"}
    /\ sess[t].pc = "repairSave" => sess[t].seen = store[Own(t)]
    /\ phase \in {"down", "starting"} => sess[t].pc = "idle"

SessionInv(t) == SessionShape(t) /\ OwnsRow(t) /\ RepliesDurably(t)

(* The newest verdict of a job is the state of its row *)
VerdictSettled ==
    \A c \in committed : /\ c.attempt <= store[c.job].attempt
                         /\ c.attempt = store[c.job].attempt =>
                              store[c.job].state = c.state

IInv ==
    /\ TypeOK
    /\ OneOwner
    /\ GenerationDurable
    /\ \A t \in Threads : SessionInv(t)
    /\ VerdictSettled
    /\ OneVerdict
    /\ SuccessProved

USE DEF memory, process, history
-----------------------------------------------------------------------------
(* Updates of a session's variables that keep their types *)
LEMMA SessionUpdate ==
    ASSUME NEW r \in Session
    PROVE  /\ [r EXCEPT !.cancelled = TRUE] \in Session
           /\ \A b \in BOOLEAN : [r EXCEPT !.pc = "release", !.fault = b] \in Session
           /\ \A b \in BOOLEAN : [r EXCEPT !.pc = "errored", !.answer = None,
                                 !.fault = @ \/ b] \in Session
           /\ [r EXCEPT !.pc = "loop", !.tries = @ + 1, !.failed = TRUE,
                        !.answer = None] \in Session
<1>1. [r EXCEPT !.cancelled = TRUE] \in Session
  BY Zenon DEF Session
<1>2. ASSUME NEW b \in BOOLEAN
      PROVE  [r EXCEPT !.pc = "release", !.fault = b] \in Session
  BY Zenon DEF Session, Label
<1>3. ASSUME NEW b \in BOOLEAN
      PROVE  [r EXCEPT !.pc = "errored", !.answer = None, !.fault = @ \/ b]
               \in Session
  BY ZenonT(30) DEF Session, Label
<1>4. ASSUME NEW n \in Nat
      PROVE  [r EXCEPT !.pc = "loop", !.tries = n, !.failed = TRUE,
                       !.answer = None] \in Session
  BY Zenon DEF Session, Label
<1>5. r.tries + 1 \in Nat
  BY DEF Session
<1> QED BY <1>1, <1>2, <1>3, <1>4, <1>5, Zenon

(* A session and what it refers to stay the same *)
LEMMA SessionKept ==
    ASSUME NEW u \in Threads, SessionInv(u), sess'[u] = sess[u],
           UNCHANGED <<store, jobAttempts, committed>>,
           phase' \in {"down", "starting"} => phase \in {"down", "starting"}
    PROVE  SessionInv(u)'
<1>1. SessionShape(u)'
  BY DEF SessionInv, SessionShape, Own
<1>2. OwnsRow(u)'
  BY DEF SessionInv, OwnsRow, Owning, Own
<1>3. RepliesDurably(u)'
  BY DEF SessionInv, RepliesDurably
<1> QED BY <1>1, <1>2, <1>3 DEF SessionInv

(* A row that is not absent is a whole record. *)
LEMMA RowPresent ==
    ASSUME TypeOK, NEW j \in Jobs, store[j].state # "Absent"
    PROVE  store[j] \in JobRecord
<1>1. store[j] \in Row
  BY DEF TypeOK
<1> QED BY <1>1 DEF Row, NoRow

(* An AttemptID that has been published is not the initial 0 *)
LEMMA Published == \A s \in Session : s.attempt > 0 => s.attempt # 0
BY DEF Session

(* A row with a terminal state. *)
LEMMA TerminalRow ==
    ASSUME NEW x \in Terminal, NEW n \in Nat, n > 0, NEW y \in Specs
    PROVE  /\ [state |-> x, attempt |-> n, spec |-> y] \in JobRecord
           /\ [state |-> x, attempt |-> n, spec |-> y].state = x
BY DEF JobRecord, JobState

(* A step that only changes the local variables of one session, and        *)
(* neither takes nor gives up a job.                                       *)
LEMMA LocalStep ==
    ASSUME IInv,
           NEW t \in Threads,
           UNCHANGED <<store, memory, process, history>>,
           \A u \in Threads \ {t} : sess'[u] = sess[u],
           sess' \in [Threads -> Session],
           Owning(t) <=> Owning(t)', Own(t)' = Own(t),
           SessionInv(t)'
    PROVE  IInv'
<1>1. TypeOK'
  BY DEF IInv, TypeOK
<1>2. OneOwner'
  BY DEF IInv, OneOwner, Owning, Own
<1>3. GenerationDurable' /\ VerdictSettled' /\ OneVerdict' /\ SuccessProved'
  BY DEF IInv, GenerationDurable, VerdictSettled, OneVerdict, SuccessProved
<1>4. ASSUME NEW u \in Threads PROVE SessionInv(u)'
  <2>1. CASE u = t
    BY <2>1
  <2>2. CASE u # t
    BY <2>2, SessionKept DEF IInv
  <2> QED BY <2>1, <2>2
<1> QED BY <1>1, <1>2, <1>3, <1>4 DEF IInv

(* Goto within a session *)
LEMMA GotoInv ==
    ASSUME IInv, NEW t \in Threads, NEW l, Goto(t, l),
           UNCHANGED <<store, memory, process, history>>,
           Owning(t),
           l \in {"loop", "persist", "exhausted", "errored", "cancelling",
                  "release"},
           sess[t].pc # "release",
           sess[t].pc = "reload" => l = "release",
           l \in {"loop", "persist", "exhausted"} => sess[t].spec # None,
           l \in {"exhausted", "cancelling"} => t # Recovery,
           l = "persist" => sess[t].pc = "verify" /\ sess[t].answer.proof,
           l # "persist" => sess[t].answer = None
    PROVE  IInv'
<1>1. sess' \in [Threads -> Session]
  BY DEF IInv, TypeOK, Goto, Session, Label
<1>2. sess'[t] = [sess[t] EXCEPT !.pc = l]
  BY DEF IInv, TypeOK, Goto
<1>3. sess[t] \in Session
  BY DEF IInv, TypeOK
<1>4. \A u \in Threads \ {t} : sess'[u] = sess[u]
  BY DEF IInv, TypeOK, Goto
<1>5. SessionInv(t)'
  BY <1>2, <1>3 DEF IInv, SessionInv, SessionShape, OwnsRow, RepliesDurably,
     Owning, Own, Session
<1> QED
  BY <1>1, <1>2, <1>3, <1>4, <1>5, LocalStep DEF Owning, Own, Session

(* continue: the published attempt stays Running under the session *)
LEMMA NextTryInv ==
    ASSUME IInv, NEW t \in Threads, NextTry(t),
           UNCHANGED <<store, memory, process, history>>,
           sess[t].pc \in {"dispatched", "verify", "persist"}
    PROVE  IInv'
<1>1. sess[t] \in Session
  BY DEF IInv, TypeOK
<1>2. sess'[t] = [sess[t] EXCEPT !.pc = "loop", !.tries = @ + 1,
                              !.failed = TRUE, !.answer = None]
  BY DEF IInv, TypeOK, NextTry
<1>3. sess' \in [Threads -> Session]
  BY <1>1, SessionUpdate, Zenon DEF IInv, TypeOK, NextTry
<1>4. \A u \in Threads \ {t} : sess'[u] = sess[u]
  BY DEF IInv, TypeOK, NextTry
<1>5. SessionInv(t)'
  BY <1>1, <1>2 DEF IInv, SessionInv, SessionShape, OwnsRow, RepliesDurably,
     Owning, Own, Session
<1> QED
  BY <1>1, <1>2, <1>3, <1>4, <1>5, LocalStep, Zenon DEF Owning, Own, Session

(* executeJobFromSource returns an error *)
LEMMA ErrorInv ==
    ASSUME IInv, NEW t \in Threads, NEW internal \in BOOLEAN,
           Error(t, internal),
           UNCHANGED <<store, memory, process, history>>,
           sess[t].pc \in {"loop", "dispatched", "verify", "persist"}
    PROVE  IInv'
<1>1. sess[t] \in Session
  BY DEF IInv, TypeOK
<1>2. sess'[t] = [sess[t] EXCEPT !.pc = "errored", !.answer = None,
                              !.fault = @ \/ internal]
  BY DEF IInv, TypeOK, Error
<1>3. sess' \in [Threads -> Session]
  BY <1>1, SessionUpdate, Zenon DEF IInv, TypeOK, Error
<1>4. \A u \in Threads \ {t} : sess'[u] = sess[u]
  BY ZenonT(30) DEF IInv, TypeOK, Error
<1>5. SessionInv(t)'
  BY <1>1, <1>2 DEF IInv, SessionInv, SessionShape, OwnsRow, RepliesDurably,
     Owning, Own, Session
<1> QED
  BY <1>1, <1>2, <1>3, <1>4, <1>5, LocalStep, Zenon DEF Owning, Own, Session

(* The context of a session is cancelled *)
LEMMA CancelInv ==
    ASSUME IInv, NEW t \in Threads, sess[t].pc # "idle",
           UNCHANGED <<store, memory, process, history>>,
           sess' = [sess EXCEPT ![t].cancelled = TRUE]
    PROVE  IInv'
<1>1. sess[t] \in Session
  BY DEF IInv, TypeOK
<1>2. sess'[t] = [sess[t] EXCEPT !.cancelled = TRUE]
  BY DEF IInv, TypeOK
<1>3. sess' \in [Threads -> Session]
  BY <1>1, SessionUpdate, Zenon DEF IInv, TypeOK
<1>4. \A u \in Threads \ {t} : sess'[u] = sess[u]
  BY ZenonT(30) DEF IInv, TypeOK
<1>5. SessionInv(t)'
  BY <1>1, <1>2 DEF IInv, SessionInv, SessionShape, OwnsRow, RepliesDurably,
     Owning, Own, Session
<1> QED
  BY <1>1, <1>2, <1>3, <1>4, <1>5, LocalStep, Zenon DEF Owning, Own, Session

(* A finalization or a repair fails and the session returns *)
LEMMA FaultInv ==
    ASSUME IInv, NEW t \in Threads, Owning(t),
           UNCHANGED <<store, memory, process, history>>,
           sess[t].pc \notin {"verify", "persist", "reload", "release"},
           ReleaseWith(t, TRUE)
    PROVE  IInv'
<1>1. sess[t] \in Session
  BY DEF IInv, TypeOK
<1>2. sess'[t] = [sess[t] EXCEPT !.pc = "release", !.fault = TRUE]
  BY DEF IInv, TypeOK, ReleaseWith
<1>3. sess' \in [Threads -> Session]
  BY <1>1, SessionUpdate, Zenon DEF IInv, TypeOK, ReleaseWith
<1>4. \A u \in Threads \ {t} : sess'[u] = sess[u]
  BY ZenonT(30) DEF IInv, TypeOK, ReleaseWith
<1>5. SessionInv(t)'
  <2>1. /\ sess'[t].pc = "release"
        /\ sess'[t].answer = sess[t].answer
        /\ sess'[t].job = sess[t].job
        /\ sess'[t].spec = sess[t].spec
        /\ sess'[t].attempt = sess[t].attempt
        /\ sess'[t].initial = sess[t].initial
    BY <1>1, <1>2 DEF Session
  <2> QED BY <1>1, <2>1 DEF IInv, SessionInv, SessionShape, OwnsRow, RepliesDurably,
     Owning, Own, Session
<1> QED
  BY <1>1, <1>2, <1>3, <1>4, <1>5, LocalStep, Zenon DEF Owning, Own, Session

(* A result that passes the first fence *)
LEMMA ResultCandidateInv ==
    ASSUME IInv, NEW t \in Threads, NEW r \in Response, ResultCandidate(t, r)
    PROVE  IInv'
<1> DEFINE l == IF sess[t].spec \in ZKSpecs /\ r.status = "Succeeded"
                  THEN "verify" ELSE "persist"
<1>0. /\ sess[t] \in Session
      /\ sess[t].pc = "dispatched"
      /\ r.status \in Terminal /\ r.job = Own(t) /\ r.attempt = sess[t].attempt
      /\ UNCHANGED <<store, memory, process, history>>
  BY DEF IInv, TypeOK, ResultCandidate, fenced
<1>1. l \in {"verify", "persist"}
  OBVIOUS
<1>2. sess'[t] = [sess[t] EXCEPT !.answer = r, !.pc = l]
  BY DEF IInv, TypeOK, ResultCandidate
<1>3. sess'[t] \in Session
  BY <1>0, <1>1, <1>2, Zenon DEF Session, Label
<1>4. sess' \in [Threads -> Session] /\ \A u \in Threads \ {t} : sess'[u] = sess[u]
  BY <1>3 DEF IInv, TypeOK, ResultCandidate
<1>5. r # None
  BY ConstantsAssumption
<1>6. SessionInv(t)'
  BY <1>0, <1>2, <1>5 DEF IInv, SessionInv, SessionShape, OwnsRow,
     RepliesDurably, Owning, Own, Session
<1> QED
  BY <1>0, <1>1, <1>2, <1>4, <1>6, LocalStep, Zenon DEF Owning, Own, Session

(* Recovery reloads the row under ownership *)
LEMMA ReloadRecoveringInv ==
    ASSUME IInv, ReloadRecovering
    PROVE  IInv'
<1> DEFINE j == Own(Recovery)
           x == validateJobSpec(store[j].spec)
<1>0. /\ Recovery \in Threads
      /\ sess[Recovery] \in Session
      /\ sess[Recovery].pc = "reload"
      /\ UNCHANGED <<store, memory, process, history>>
  BY DEF IInv, TypeOK, ReloadRecovering, Threads
<1>1. j \in Jobs
  BY <1>0 DEF IInv, SessionInv, SessionShape
<1>2. PICK l \in {"errored", "loop"}, y \in {None, x} :
        /\ sess'[Recovery] = [sess[Recovery] EXCEPT
             !.pc = l, !.spec = y, !.initial = jobAttempts[j]]
        /\ l = "loop" => y # None
        /\ y # None => y = x /\ x # Invalid
  <2>1. store[j].spec \in Specs
    BY <1>1 DEF IInv, TypeOK, ReloadRecovering, snapshotCurrent, Row, NoRow,
                JobRecord, Own
  <2>2. x \in Specs \union {Invalid}
    BY <2>1, CanonAssumption DEF validateJobSpec
  <2>3. x # Invalid => x # None
    BY <2>2, ConstantsAssumption
  <2> QED
    BY <1>0, <2>3, Zenon DEF IInv, TypeOK, ReloadRecovering
<1>3. y # None => y \in Specs /\ Canon[y] = y
  <2>1. store[j].spec \in Specs
    BY <1>1 DEF IInv, TypeOK, ReloadRecovering, snapshotCurrent, Row, NoRow,
                JobRecord, Own
  <2>2. x \in Specs \union {Invalid} /\ (x # Invalid => Canon[x] = x)
    BY <2>1, CanonAssumption DEF validateJobSpec
  <2> QED BY <1>2, <2>2, ZenonT(30)
<1>4. jobAttempts[j] \in Nat
  BY <1>1 DEF IInv, TypeOK
<1>5. sess'[Recovery] \in Session
  BY <1>0, <1>2, <1>3, <1>4, Zenon DEF Session, Label
<1>6. /\ sess' \in [Threads -> Session]
      /\ \A u \in Threads \ {Recovery} : sess'[u] = sess[u]
  BY <1>5, Zenon DEF IInv, TypeOK, ReloadRecovering
<1>7. SessionInv(Recovery)'
  <2>1. /\ sess'[Recovery].pc = l
        /\ sess'[Recovery].job = sess[Recovery].job
        /\ sess'[Recovery].spec = y
        /\ sess'[Recovery].attempt = sess[Recovery].attempt
        /\ sess'[Recovery].initial = jobAttempts[j]
        /\ sess'[Recovery].answer = sess[Recovery].answer
    BY <1>0, <1>2 DEF Session
  <2>2. sess[Recovery].answer = None /\ sess[Recovery].attempt = 0
        /\ phase \notin {"down", "starting"}
    BY <1>0 DEF IInv, SessionInv, SessionShape
  <2> QED
    BY <1>0, <1>1, <1>2, <1>3, <2>1, <2>2 DEF SessionInv, SessionShape,
       OwnsRow, RepliesDurably, Owning, Own
<1> QED
  BY <1>0, <1>2, <1>6, <1>7, LocalStep, Zenon DEF Owning, Own, Session

(* Recovery failed: is there a generation of its own to repair? *)
LEMMA RecoveryErroredInv ==
    ASSUME IInv, RecoveryErrored
    PROVE  IInv'
<1> DEFINE failedAttempt == jobAttempts[Own(Recovery)]
<1>0. /\ Recovery \in Threads
      /\ sess[Recovery] \in Session
      /\ sess[Recovery].pc = "errored"
      /\ sess[Recovery].answer = None
      /\ Own(Recovery) \in Jobs
      /\ UNCHANGED <<store, memory, process, history>>
  BY DEF IInv, TypeOK, RecoveryErrored, Threads, SessionInv, SessionShape
<1>1. CASE failedAttempt > sess[Recovery].initial
  <2>1. failedAttempt \in Nat /\ sess[Recovery].initial \in Nat
    BY <1>0 DEF IInv, TypeOK, Session
  <2>2. sess[Recovery].attempt = failedAttempt /\ sess[Recovery].attempt > 0
    BY <1>0, <1>1, <2>1 DEF IInv, SessionInv, OwnsRow, Owning, Session
  <2>3. sess'[Recovery] = [sess[Recovery] EXCEPT !.pc = "repairLoad",
                                                 !.attempt = failedAttempt]
    BY <1>0, <1>1, Zenon DEF IInv, TypeOK, RecoveryErrored
  <2>4. sess'[Recovery] \in Session
    BY <1>0, <2>1, <2>3, Zenon DEF Session, Label
  <2>5. /\ sess' \in [Threads -> Session]
        /\ \A u \in Threads \ {Recovery} : sess'[u] = sess[u]
    BY <1>1, <2>4 DEF IInv, TypeOK, RecoveryErrored
  <2>6. SessionInv(Recovery)'
    BY <1>0, <2>2, <2>3 DEF IInv, SessionInv, SessionShape, OwnsRow,
       RepliesDurably, Owning, Own, Session
  <2> QED
    BY <1>0, <2>3, <2>5, <2>6, LocalStep, Zenon DEF Owning, Own, Session
<1>2. CASE ~(failedAttempt > sess[Recovery].initial)
  BY <1>0, <1>2, GotoInv DEF RecoveryErrored, Owning
<1> QED BY <1>1, <1>2

(* restoreRecoveringJob loads the row that the session published *)
LEMMA RepairLoadInv ==
    ASSUME IInv, RepairLoad
    PROVE  IInv'
<1> DEFINE row == store[Own(Recovery)]
<1>0. /\ Recovery \in Threads
      /\ sess[Recovery] \in Session
      /\ sess[Recovery].pc = "repairLoad"
      /\ Own(Recovery) \in Jobs
      /\ UNCHANGED <<store, memory, process, history>>
  BY DEF IInv, TypeOK, RepairLoad, Threads, SessionInv, SessionShape
<1>1. row \in Row
  BY <1>0 DEF IInv, TypeOK
<1>2. PICK l \in {"repairSave", "release"} :
        sess'[Recovery] = [sess[Recovery] EXCEPT !.seen = row, !.pc = l]
  BY <1>0, Zenon DEF IInv, TypeOK, RepairLoad
<1>3. sess'[Recovery] \in Session
  BY <1>0, <1>1, <1>2, Zenon DEF Session, Label
<1>4. /\ sess' \in [Threads -> Session]
      /\ \A u \in Threads \ {Recovery} : sess'[u] = sess[u]
  BY <1>3, Zenon DEF IInv, TypeOK, RepairLoad
<1>5. SessionInv(Recovery)'
  BY <1>0, <1>2 DEF IInv, SessionInv, SessionShape, OwnsRow,
     RepliesDurably, Owning, Own, Session
<1> QED
  BY <1>0, <1>2, <1>4, <1>5, LocalStep, Zenon DEF Owning, Own, Session
-----------------------------------------------------------------------------
(* A step of an owner on its own job leaves the other sessions alone *)
LEMMA OwnerStep ==
    ASSUME IInv,
           NEW t \in Threads,
           UNCHANGED <<activeJobs, process>>,
           \A u \in Threads \ {t} : sess'[u] = sess[u],
           Owning(t), Owning(t)', Own(t)' = Own(t),
           \A k \in Jobs \ {Own(t)} : store'[k] = store[k]
                                      /\ jobAttempts'[k] = jobAttempts[k],
           committed \subseteq committed',
           SessionInv(t)'
    PROVE  OneOwner' /\ \A u \in Threads : SessionInv(u)'
<1>1. OneOwner'
  BY DEF IInv, OneOwner, Owning, Own
<1>2. ASSUME NEW u \in Threads, u # t PROVE SessionInv(u)'
  <2>1. sess'[u] = sess[u]
    BY <1>2, Zenon
  <2>2. Owning(u) => Own(u) # Own(t) /\ Own(u) \in Jobs
    BY <1>2, ZenonT(30) DEF IInv, OneOwner, SessionInv, SessionShape, Owning
  <2>3. Owning(u) => store'[Own(u)] = store[Own(u)]
                     /\ jobAttempts'[Own(u)] = jobAttempts[Own(u)]
    BY <2>2, Zenon
  <2>4. SessionShape(u)'
    BY <2>1, <2>3 DEF IInv, SessionInv, SessionShape, Owning, Own
  <2>5. OwnsRow(u)'
    <3>1. OwnsRow(u)
      BY Zenon DEF IInv, SessionInv
    <3>2. (Owning(u)' <=> Owning(u)) /\ Own(u)' = Own(u)
      BY <2>1, Zenon DEF Owning, Own
    <3>3. Owning(u)' => /\ store'[Own(u)'] = store[Own(u)]
                        /\ jobAttempts'[Own(u)'] = jobAttempts[Own(u)]
      BY <2>3, <3>2, Zenon
    <3> QED
      BY <2>1, <3>1, <3>2, <3>3, ZenonT(30) DEF OwnsRow
  <2>6. RepliesDurably(u)'
    <3>1. RepliesDurably(u)
      BY ZenonT(30) DEF IInv, SessionInv
    <3> QED BY <2>1, <3>1, ZenonT(30) DEF RepliesDurably
  <2> QED BY <2>4, <2>5, <2>6 DEF SessionInv
<1> QED BY <1>1, <1>2

(* Saving a terminal state of the running generation of an owner *)
LEMMA CommitInv ==
    ASSUME IInv,
           NEW t \in Threads, NEW row \in JobRecord,
           NEW cause \in {"result", "exhausted", "cancelled"},
           NEW proof \in BOOLEAN,
           Commit(Own(t), row, cause, proof),
           Owning(t), Own(t) \in Jobs, sess[t].attempt > 0,
           sess[t].pc # "release",
           row.state \in Terminal,
           row.attempt = sess[t].attempt,
           row.spec = sess[t].spec,
           row.state = "Succeeded" => cause = "result"
                                      /\ (row.spec \in ZKSpecs => proof),
           sess' \in [Threads -> Session],
           \A u \in Threads \ {t} : sess'[u] = sess[u],
           sess'[t].pc = "release",
           sess'[t].job = sess[t].job,
           sess'[t].spec = sess[t].spec,
           sess'[t].attempt = sess[t].attempt,
           sess'[t].initial = sess[t].initial,
           sess'[t].answer # None =>
              /\ sess'[t].answer.job = Own(t)
              /\ sess'[t].answer.attempt = row.attempt
              /\ sess'[t].answer.status = row.state,
           UNCHANGED <<memory, process, issued, unsettled>>
    PROVE  IInv'
<1> DEFINE j == Own(t)
           c == [job |-> j, attempt |-> row.attempt, state |-> row.state,
                 spec |-> row.spec, cause |-> cause, proof |-> proof]
<1>1. /\ store \in [Jobs -> Row]
      /\ store' = [store EXCEPT ![j] = row]
      /\ committed' = committed \union {c}
  BY DEF Commit, IInv, TypeOK
<1>2. c \in Verdict
  BY Zenon DEF Verdict, JobRecord
<1>3. /\ store[j].state = "Running"
      /\ row.attempt = store[j].attempt
      /\ row.attempt = jobAttempts[j]
      /\ row.attempt > sess[t].initial
  BY DEF IInv, SessionInv, OwnsRow
<1>4. TypeOK'
  BY <1>1, <1>2, ZenonT(30) DEF IInv, TypeOK, Row
<1>5. store'[j] = row /\ \A k \in Jobs \ {j} : store'[k] = store[k]
  BY <1>1
<1>6. SessionInv(t)'
  <2>1. SessionShape(t)'
    <3>1. SessionShape(t)
      BY Zenon DEF IInv, SessionInv
    <3> QED BY <3>1, ZenonT(30) DEF SessionShape, Own, Owning
  <2>2. OwnsRow(t)'
    BY <1>3, <1>5, ZenonT(30) DEF OwnsRow, Own, Owning
  <2>3. RepliesDurably(t)'
    <3>1. /\ c \in committed'
          /\ c.job = j /\ c.attempt = row.attempt
          /\ c.state = row.state /\ c.spec = sess'[t].spec
      BY <1>1, ZenonT(30)
    <3> HIDE DEF c
    <3> QED BY <3>1 DEF RepliesDurably
  <2> QED BY <2>1, <2>2, <2>3, Zenon DEF SessionInv
<1>7. OneOwner' /\ \A u \in Threads : SessionInv(u)'
  BY <1>1, <1>5, <1>6, OwnerStep DEF Owning, Own
<1>8. GenerationDurable'
  BY <1>3, <1>5, ZenonT(30) DEF IInv, GenerationDurable
<1>9. \A d \in committed : d.job = j => d.attempt # row.attempt
  BY <1>3, Zenon DEF IInv, VerdictSettled, TypeOK, Verdict, Terminal
<1>10. OneVerdict'
  <2>1. c.job = j /\ c.attempt = row.attempt /\ committed' = committed \union {c}
    BY <1>1
  <2> HIDE DEF c
  <2> QED BY <1>9, <2>1 DEF IInv, OneVerdict
<1>11. VerdictSettled'
  <2> SUFFICES ASSUME NEW d \in committed'
               PROVE  /\ d.attempt <= store'[d.job].attempt
                      /\ d.attempt = store'[d.job].attempt =>
                           store'[d.job].state = d.state
    BY ZenonT(30) DEF VerdictSettled
  <2>1. CASE d = c
    BY <1>5, <2>1 DEF JobRecord
  <2>2. CASE d \in committed
    <3>1. d.job \in Jobs
      BY <2>2 DEF IInv, TypeOK, Verdict
    <3>2. /\ d.attempt <= store[d.job].attempt
          /\ d.attempt = store[d.job].attempt => store[d.job].state = d.state
      BY <2>2, Zenon DEF IInv, VerdictSettled
    <3> QED BY <1>3, <1>5, <1>9, <2>2, <3>1, <3>2, ZenonT(30)
  <2> QED BY <1>1, <2>1, <2>2, ZenonT(30)
<1>12. SuccessProved'
  <2>1. c.state = "Succeeded" => c.cause = "result" /\ (c.spec \in ZKSpecs => c.proof)
    BY Zenon
  <2> HIDE DEF c
  <2> QED BY <1>1, <2>1 DEF IInv, SuccessProved
<1> QED BY <1>4, <1>7, <1>8, <1>10, <1>11, <1>12 DEF IInv

(* The terminal result is the session's own, under its lease. *)
LEMMA PersistTerminalResultInv ==
    ASSUME IInv, NEW t \in Threads, PersistTerminalResult(t)
    PROVE  IInv'
<1> DEFINE a == sess[t].answer
           row == [state |-> a.status, attempt |-> sess[t].attempt,
                   spec |-> sess[t].spec]
<1>1. /\ sess[t] \in Session
      /\ sess[t].pc = "persist"
      /\ Commit(Own(t), row, "result", a.proof)
      /\ UNCHANGED <<memory, process, issued, unsettled>>
  BY DEF IInv, TypeOK, PersistTerminalResult
<1>2. SessionShape(t)
  BY Zenon DEF IInv, SessionInv
<1>3. /\ a \in Response /\ a.status \in Terminal /\ a.job = Own(t)
      /\ a.attempt = sess[t].attempt
      /\ sess[t].attempt > 0 /\ sess[t].spec \in Specs /\ Own(t) \in Jobs
      /\ sess[t].spec \in ZKSpecs /\ a.status = "Succeeded" => a.proof
  BY <1>1, <1>2, ZenonT(30) DEF SessionShape, Session
<1>4. row \in JobRecord /\ a.proof \in BOOLEAN
  BY <1>1, <1>3 DEF JobRecord, JobState, Session, Response
<1>5. sess'[t] = [sess[t] EXCEPT !.pc = "release"]
  BY DEF IInv, TypeOK, PersistTerminalResult, Goto
<1>6. sess'[t] \in Session
  BY <1>1, <1>5 DEF Session, Label
<1>7. sess' \in [Threads -> Session] /\ \A u \in Threads \ {t} : sess'[u] = sess[u]
  BY <1>6 DEF IInv, TypeOK, PersistTerminalResult, Goto
<1>8. /\ sess'[t].pc = "release"
      /\ sess'[t].job = sess[t].job
      /\ sess'[t].spec = sess[t].spec
      /\ sess'[t].attempt = sess[t].attempt
      /\ sess'[t].initial = sess[t].initial
      /\ sess'[t].answer = a
  BY <1>1, <1>5 DEF Session
<1>9. row.state = a.status /\ row.attempt = sess[t].attempt /\ row.spec = sess[t].spec
  OBVIOUS
<1> HIDE DEF a, row
<1> QED
  BY <1>1, <1>3, <1>4, <1>7, <1>8, <1>9, CommitInv DEF Owning, a

(* What the two finalizers close is the session's own running row *)
LEMMA FinalizeInv ==
    ASSUME IInv, NEW t \in Threads,
           NEW state \in {"Failed", "Cancelled"},
           NEW cause \in {"exhausted", "cancelled"},
           Commit(Own(t), [store[Own(t)] EXCEPT !.state = state], cause, FALSE),
           sess[t].pc \in {"exhausted", "cancelling"},
           closable(Own(t), jobAttempts[Own(t)], sess[t].initial),
           Goto(t, "release") \/ ReleaseWith(t, FALSE),
           UNCHANGED <<memory, process, issued, unsettled>>
    PROVE  IInv'
<1> DEFINE row == [store[Own(t)] EXCEPT !.state = state]
<1>1. /\ sess[t] \in Session /\ Own(t) \in Jobs /\ sess[t].answer = None
  BY DEF IInv, TypeOK, SessionInv, SessionShape
<1>2. jobAttempts[Own(t)] \in Nat /\ store[Own(t)] \in JobRecord
  BY <1>1 DEF IInv, TypeOK, closable, Row, NoRow
<1>3. sess[t].attempt > 0 /\ sess[t].attempt = store[Own(t)].attempt
      /\ sess[t].spec = store[Own(t)].spec
  BY <1>1, <1>2 DEF IInv, SessionInv, OwnsRow, Owning, closable, ownGeneration,
     Session
<1>4. /\ row \in JobRecord /\ row.state = state /\ row.state \in Terminal
      /\ row.attempt = sess[t].attempt /\ row.spec = sess[t].spec
  BY <1>2, <1>3 DEF JobRecord, JobState, Terminal
<1>5. \/ sess'[t] = [sess[t] EXCEPT !.pc = "release"]
      \/ sess'[t] = [sess[t] EXCEPT !.pc = "release", !.fault = FALSE]
  BY DEF IInv, TypeOK, Goto, ReleaseWith
<1>6. sess'[t] \in Session
  <2>1. [sess[t] EXCEPT !.pc = "release"] \in Session
    BY <1>1 DEF Session, Label
  <2> QED BY <1>1, <1>5, <2>1, SessionUpdate, Zenon
<1>7. sess' \in [Threads -> Session] /\ \A u \in Threads \ {t} : sess'[u] = sess[u]
  BY <1>6 DEF IInv, TypeOK, Goto, ReleaseWith
<1>8. /\ sess'[t].pc = "release"
      /\ sess'[t].job = sess[t].job
      /\ sess'[t].spec = sess[t].spec
      /\ sess'[t].attempt = sess[t].attempt
      /\ sess'[t].initial = sess[t].initial
      /\ sess'[t].answer = None
  BY <1>1, <1>5, Zenon DEF Session
<1> HIDE DEF row
<1>9. Commit(Own(t), row, cause, FALSE)
  BY Zenon DEF row
<1> QED
  BY <1>1, <1>3, <1>4, <1>7, <1>8, <1>9, CommitInv, Zenon DEF Owning
-----------------------------------------------------------------------------
(* The next generation follows the durable one: memory is never ahead *)
LEMMA NextAttempt ==
    ASSUME IInv, NEW j \in Jobs
    PROVE  nextAttempt(j) = store[j].attempt + 1
BY DEF IInv, TypeOK, GenerationDurable, nextAttempt, Row, JobRecord, NoRow

(* A new generation is above all earlier ones. *)
LEMMA PublishAttemptInv ==
    ASSUME IInv, NEW t \in Threads, PublishAttempt(t)
    PROVE  IInv'
<1> DEFINE j == Own(t)
           n == store[j].attempt + 1
           row == [state |-> "Running", attempt |-> n, spec |-> sess[t].spec]
<1>1. /\ sess[t] \in Session
      /\ sess[t].pc = "loop"
      /\ j \in Jobs
      /\ sess[t].spec \in Specs /\ sess[t].spec # None
      /\ sess[t].answer = None
      /\ Canon[sess[t].spec] = sess[t].spec
      /\ phase \notin {"down", "starting"}
  BY DEF IInv, TypeOK, PublishAttempt, SessionInv, SessionShape, Session
<1>2. nextAttempt(j) = n
  BY <1>1, NextAttempt
<1>3. store[j].attempt \in Nat /\ n \in Nat \ {0}
  BY <1>1 DEF IInv, TypeOK, Row, JobRecord, NoRow
<1>4. /\ store' = [store EXCEPT ![j] = row]
      /\ jobAttempts' = [jobAttempts EXCEPT ![j] = n]
      /\ leases' = [leases EXCEPT ![j] = [attempt |-> n, live |-> TRUE]]
      /\ issued' = [issued EXCEPT ![j] = n]
      /\ sess' = [sess EXCEPT ![t].pc = "dispatched", ![t].attempt = n]
      /\ UNCHANGED <<activeJobs, process, committed, unsettled>>
  BY <1>2, ZenonT(30) DEF PublishAttempt
<1> HIDE DEF n
<1>5. row \in Row
  BY <1>1, <1>3 DEF Row, JobRecord, JobState
<1>6. sess'[t] = [sess[t] EXCEPT !.pc = "dispatched", !.attempt = n]
  BY <1>4 DEF IInv, TypeOK
<1>7. sess'[t] \in Session
  BY <1>1, <1>3, <1>6, ZenonT(30) DEF Session, Label
<1>8. /\ sess' \in [Threads -> Session]
      /\ \A u \in Threads \ {t} : sess'[u] = sess[u]
  BY <1>4, <1>7 DEF IInv, TypeOK
<1>9. TypeOK'
  <2>1. [attempt |-> n, live |-> TRUE] \in JobLease
    BY <1>3 DEF JobLease
  <2>2. leases' \in [Jobs -> JobLease]
    BY <1>4, <2>1, Zenon DEF IInv, TypeOK
  <2>3. store' \in [Jobs -> Row]
    BY <1>4, <1>5, Zenon DEF IInv, TypeOK
  <2>4. jobAttempts' \in [Jobs -> Nat] /\ issued' \in [Jobs -> Nat]
    BY <1>3, <1>4, Zenon DEF IInv, TypeOK
  <2> QED BY <1>4, <1>8, <2>2, <2>3, <2>4 DEF IInv, TypeOK
<1>10. /\ store'[j] = row /\ jobAttempts'[j] = n /\ issued'[j] = n
       /\ leases'[j].attempt = n
       /\ \A k \in Jobs \ {j} : /\ store'[k] = store[k]
                                /\ jobAttempts'[k] = jobAttempts[k]
                                /\ issued'[k] = issued[k]
                                /\ leases'[k] = leases[k]
  BY <1>1, <1>4 DEF IInv, TypeOK
<1>11. /\ sess'[t].pc = "dispatched"
       /\ sess'[t].job = j
       /\ sess'[t].spec = sess[t].spec
       /\ sess'[t].attempt = n
       /\ sess'[t].initial = sess[t].initial
       /\ sess'[t].answer = None
  BY <1>1, <1>6 DEF Session, Own
<1>12. n > sess[t].initial
  <2>1. jobAttempts[j] <= store[j].attempt
    BY <1>1, ZenonT(30) DEF IInv, GenerationDurable
  <2>2. sess[t].initial <= jobAttempts[j]
    BY <1>1 DEF IInv, TypeOK, SessionInv, OwnsRow, Owning, Session
  <2> QED BY <1>1, <1>3, <2>1, <2>2 DEF n, IInv, TypeOK, Session
<1>13. SessionInv(t)'
  <2>1. SessionShape(t)'
    <3>1. n > 0 /\ n # 0
      BY <1>3
    <3> QED BY <1>1, <1>3, <1>4, <1>11, <3>1, ZenonT(30) DEF SessionShape, Own
  <2>2. OwnsRow(t)'
    BY <1>3, <1>10, <1>11, <1>12 DEF OwnsRow, Own
  <2>3. RepliesDurably(t)'
    BY <1>11 DEF RepliesDurably
  <2> QED BY <2>1, <2>2, <2>3, Zenon DEF SessionInv
<1>14. OneOwner' /\ \A u \in Threads : SessionInv(u)'
  BY <1>1, <1>4, <1>8, <1>10, <1>11, <1>13, OwnerStep, ZenonT(30) DEF Owning,
     Own
<1>15. GenerationDurable'
  BY <1>3, <1>10 DEF IInv, GenerationDurable, TypeOK
<1>16. VerdictSettled'
  <2> SUFFICES ASSUME NEW d \in committed
               PROVE  /\ d.attempt <= store'[d.job].attempt
                      /\ d.attempt = store'[d.job].attempt =>
                           store'[d.job].state = d.state
    BY <1>4 DEF VerdictSettled
  <2>1. d.job \in Jobs /\ d.attempt \in Nat
    BY DEF IInv, TypeOK, Verdict
  <2>2. /\ d.attempt <= store[d.job].attempt
        /\ d.attempt = store[d.job].attempt => store[d.job].state = d.state
    BY DEF IInv, VerdictSettled
  <2> QED BY <1>3, <1>10, <2>1, <2>2 DEF n
<1>17. OneVerdict' /\ SuccessProved'
  BY <1>4 DEF IInv, OneVerdict, SuccessProved
<1> QED BY <1>9, <1>14, <1>15, <1>16, <1>17 DEF IInv

(* The repair of a row keeps its generation. *)
LEMMA RepairSaveInv ==
    ASSUME IInv, RepairSave
    PROVE  IInv'
<1> DEFINE j == Own(Recovery)
           row == [store[j] EXCEPT !.state = "Recovering"]
<1>1. /\ Recovery \in Threads
      /\ sess[Recovery] \in Session
      /\ sess[Recovery].pc = "repairSave"
      /\ j \in Jobs
      /\ sess[Recovery].attempt > 0
      /\ sess[Recovery].seen = store[j]
      /\ sess[Recovery].answer = None
      /\ UNCHANGED <<memory, process, history>>
  BY DEF IInv, TypeOK, RepairSave, Threads, SessionInv, SessionShape
<1>2. /\ store' = [store EXCEPT ![j] = row]
      /\ ReleaseWith(Recovery, FALSE)
  BY <1>1, Zenon DEF RepairSave
<1>3. /\ store[j] \in JobRecord
      /\ store[j].state = "Running"
      /\ sess[Recovery].attempt = store[j].attempt
      /\ sess[Recovery].attempt = jobAttempts[j]
      /\ sess[Recovery].spec = store[j].spec
      /\ sess[Recovery].attempt > sess[Recovery].initial
  BY <1>1 DEF IInv, TypeOK, SessionInv, OwnsRow, Owning, Row, NoRow
<1>4. /\ row \in JobRecord /\ row.state = "Recovering"
      /\ row.attempt = store[j].attempt /\ row.spec = store[j].spec
  BY <1>3, Zenon DEF JobRecord, JobState
<1> HIDE DEF row
<1>5. sess'[Recovery] = [sess[Recovery] EXCEPT !.pc = "release", !.fault = FALSE]
  BY <1>1, <1>2 DEF IInv, TypeOK, ReleaseWith
<1>6. sess'[Recovery] \in Session
  BY <1>1, <1>5, SessionUpdate, Zenon
<1>7. /\ sess' \in [Threads -> Session]
      /\ \A u \in Threads \ {Recovery} : sess'[u] = sess[u]
  BY <1>2, <1>6, ZenonT(30) DEF IInv, TypeOK, ReleaseWith
<1>8. /\ sess'[Recovery].pc = "release"
      /\ sess'[Recovery].job = j
      /\ sess'[Recovery].spec = sess[Recovery].spec
      /\ sess'[Recovery].attempt = sess[Recovery].attempt
      /\ sess'[Recovery].initial = sess[Recovery].initial
      /\ sess'[Recovery].answer = None
  BY <1>1, <1>5 DEF Session, Own
<1>9. store'[j] = row /\ \A k \in Jobs \ {j} : store'[k] = store[k]
  BY <1>1, <1>2 DEF IInv, TypeOK
<1>10. TypeOK'
  BY <1>1, <1>2, <1>4, <1>7 DEF IInv, TypeOK, Row
<1>11. SessionInv(Recovery)'
  <2>1. SessionShape(Recovery)'
    <3>1. SessionShape(Recovery)
      BY <1>1, ZenonT(30) DEF IInv, SessionInv
    <3> QED BY <1>1, <1>8, <3>1, ZenonT(30) DEF SessionShape, Own
  <2>2. OwnsRow(Recovery)'
    BY <1>1, <1>3, <1>4, <1>8, <1>9 DEF OwnsRow, Own
  <2>3. RepliesDurably(Recovery)'
    BY <1>8 DEF RepliesDurably
  <2> QED BY <2>1, <2>2, <2>3, Zenon DEF SessionInv
<1>12. OneOwner' /\ \A u \in Threads : SessionInv(u)'
  BY <1>1, <1>7, <1>8, <1>9, <1>11, OwnerStep, ZenonT(30) DEF Owning, Own
<1>13. GenerationDurable'
  BY <1>1, <1>4, <1>9, ZenonT(30) DEF IInv, GenerationDurable
<1>14. VerdictSettled'
  <2> SUFFICES ASSUME NEW d \in committed
               PROVE  /\ d.attempt <= store'[d.job].attempt
                      /\ d.attempt = store'[d.job].attempt =>
                           store'[d.job].state = d.state
    BY <1>1 DEF VerdictSettled
  <2>1. d.job \in Jobs /\ d.state \in Terminal
    BY DEF IInv, TypeOK, Verdict
  <2>2. /\ d.attempt <= store[d.job].attempt
        /\ d.attempt = store[d.job].attempt => store[d.job].state = d.state
    BY DEF IInv, VerdictSettled
  <2> QED BY <1>3, <1>4, <1>9, <2>1, <2>2, ZenonT(30) DEF Terminal
<1>15. OneVerdict' /\ SuccessProved'
  BY <1>1 DEF IInv, OneVerdict, SuccessProved
<1> QED BY <1>10, <1>12, <1>13, <1>14, <1>15 DEF IInv
-----------------------------------------------------------------------------
(* The idle session satisfies every condition on sessions *)
LEMMA IdleSession ==
    /\ Idle \in Session
    /\ Idle.pc = "idle" /\ Idle.answer = None /\ Idle.spec = None
    /\ Idle.attempt = 0
BY DEF Idle, Session, Label, Row

(* A session begins with a claim. *)
LEMMA SubmitJobInv ==
    ASSUME IInv, NEW t \in Handlers, NEW j \in Jobs, NEW x \in Specs,
           SubmitJob(t, j, x)
    PROVE  IInv'
<1> DEFINE y == validateJobSpec(x)
           new == [Idle EXCEPT !.pc = "loop", !.job = j, !.spec = y,
                               !.initial = jobAttempts[j]]
<1>1. /\ t \in Threads /\ sess[t].pc = "idle" /\ j \notin activeJobs
      /\ phase = "serving"
      /\ activeJobs' = activeJobs \union {j}
      /\ sess' = [sess EXCEPT ![t] = new]
      /\ UNCHANGED <<store, jobAttempts, leases, process, history>>
  BY DEF SubmitJob, claimJob, Threads
<1>2. y \in Specs /\ y # None /\ Canon[y] = y
  BY CanonAssumption, ConstantsAssumption DEF SubmitJob, validateJobSpec
<1>3. jobAttempts[j] \in Nat
  BY DEF IInv, TypeOK
<1> HIDE DEF y
<1>4. /\ new \in Session /\ new.pc = "loop" /\ new.job = j /\ new.spec = y
      /\ new.initial = jobAttempts[j] /\ new.attempt = 0 /\ new.answer = None
  BY <1>2, <1>3, ZenonT(30) DEF Idle, Session, Label, Row
<1> HIDE DEF new
<1>5. /\ sess'[t] = new /\ sess' \in [Threads -> Session]
      /\ \A u \in Threads \ {t} : sess'[u] = sess[u]
  BY <1>1, <1>4 DEF IInv, TypeOK
<1>6. TypeOK'
  BY <1>1, <1>5, ZenonT(30) DEF IInv, TypeOK
<1>7. OneOwner'
  BY <1>1, <1>4, <1>5 DEF IInv, OneOwner, Owning, Own
<1>8. ASSUME NEW u \in Threads PROVE SessionInv(u)'
  <2>1. CASE u = t
    <3>1. SessionShape(t)'
      BY <1>1, <1>2, <1>4, <1>5, ZenonT(30) DEF SessionShape, Own
    <3>2. OwnsRow(t)'
      BY <1>1, <1>4, <1>5 DEF OwnsRow, Own
    <3>3. RepliesDurably(t)'
      BY <1>4, <1>5 DEF RepliesDurably
    <3> QED BY <2>1, <3>1, <3>2, <3>3, Zenon DEF SessionInv
  <2>2. CASE u # t
    BY <1>1, <1>5, <2>2, SessionKept, ZenonT(30) DEF IInv
  <2> QED BY <2>1, <2>2
<1>9. GenerationDurable' /\ VerdictSettled' /\ OneVerdict' /\ SuccessProved'
  BY <1>1 DEF IInv, GenerationDurable, VerdictSettled, OneVerdict, SuccessProved
<1> QED BY <1>6, <1>7, <1>8, <1>9 DEF IInv

(* A session that owns nothing before and after the step *)
LEMMA UnownedStep ==
    ASSUME IInv, NEW t \in Threads, NEW new \in Session,
           ~Owning(t), new.pc \in {"idle", "picked"},
           sess' = [sess EXCEPT ![t] = new],
           SessionShape(t)',
           UNCHANGED <<store, memory, process, history>>
    PROVE  IInv'
<1>1. /\ sess'[t] = new /\ sess' \in [Threads -> Session]
      /\ \A u \in Threads \ {t} : sess'[u] = sess[u]
  BY DEF IInv, TypeOK
<1>2. TypeOK'
  BY <1>1 DEF IInv, TypeOK
<1>3. OneOwner'
  BY <1>1 DEF IInv, OneOwner, Owning, Own
<1>4. ASSUME NEW u \in Threads PROVE SessionInv(u)'
  <2>1. CASE u = t
    BY <1>1, <2>1 DEF SessionInv, OwnsRow, RepliesDurably, Owning
  <2>2. CASE u # t
    BY <1>1, <2>2, SessionKept, ZenonT(30) DEF IInv
  <2> QED BY <2>1, <2>2, Zenon
<1>5. GenerationDurable' /\ VerdictSettled' /\ OneVerdict' /\ SuccessProved'
  BY DEF IInv, GenerationDurable, VerdictSettled, OneVerdict, SuccessProved
<1> QED BY <1>2, <1>3, <1>4, <1>5 DEF IInv

(* Recovery picks a row without owning it. *)
LEMMA PickRecoveringInv ==
    ASSUME IInv, NEW j \in Jobs, PickRecovering(j)
    PROVE  IInv'
<1> DEFINE new == [Idle EXCEPT !.pc = "picked", !.job = j, !.seen = store[j]]
<1>1. /\ Recovery \in Threads /\ ~Owning(Recovery) /\ phase = "serving"
      /\ sess' = [sess EXCEPT ![Recovery] = new]
      /\ UNCHANGED <<store, memory, process, history>>
  BY DEF PickRecovering, Owning, Threads
<1>2. store[j] \in Row
  BY DEF IInv, TypeOK
<1>3. /\ new \in Session /\ new.pc = "picked" /\ new.job = j /\ new.spec = None
      /\ new.attempt = 0 /\ new.answer = None
  BY <1>2, Zenon DEF Idle, Session, Label
<1> HIDE DEF new
<1>4. sess'[Recovery] = new
  BY <1>1, ZenonT(30) DEF IInv, TypeOK
<1>5. SessionShape(Recovery)'
  BY <1>1, <1>3, <1>4 DEF SessionShape, Own
<1> QED BY <1>1, <1>3, <1>5, UnownedStep, Zenon

(* Recovery claims as a session does. *)
LEMMA ClaimRecoveringInv ==
    ASSUME IInv, ClaimRecovering
    PROVE  IInv'
<1> DEFINE j == Own(Recovery)
<1>1. /\ Recovery \in Threads /\ sess[Recovery] \in Session
      /\ sess[Recovery].pc = "picked" /\ j \in Jobs
      /\ sess[Recovery].attempt = 0 /\ sess[Recovery].answer = None
      /\ phase \notin {"down", "starting"}
  BY DEF IInv, TypeOK, ClaimRecovering, SessionInv, SessionShape, Threads
<1>2. CASE sess[Recovery].cancelled \/ ~claimJob(j)
  <2>1. /\ sess' = [sess EXCEPT ![Recovery] = Idle]
        /\ UNCHANGED <<store, memory, process, history>>
    BY <1>2 DEF ClaimRecovering
  <2>2. sess'[Recovery] = Idle
    BY <1>1, <2>1, ZenonT(30) DEF IInv, TypeOK
  <2>3. SessionShape(Recovery)'
    BY <2>2, IdleSession DEF SessionShape
  <2> QED BY <1>1, <2>1, <2>3, IdleSession, UnownedStep, Zenon DEF Owning
<1>3. CASE ~(sess[Recovery].cancelled \/ ~claimJob(j))
  <2>1. /\ Goto(Recovery, "reload")
        /\ j \notin activeJobs
        /\ activeJobs' = activeJobs \union {j}
        /\ UNCHANGED <<store, jobAttempts, leases, process, history>>
    BY <1>3 DEF ClaimRecovering, claimJob
  <2>2. sess'[Recovery] = [sess[Recovery] EXCEPT !.pc = "reload"]
    BY <1>1, <2>1 DEF IInv, TypeOK, Goto
  <2>3. sess'[Recovery] \in Session
    BY <1>1, <2>2 DEF Session, Label
  <2>4. /\ sess' \in [Threads -> Session]
        /\ \A u \in Threads \ {Recovery} : sess'[u] = sess[u]
    BY <2>1, <2>3, Zenon DEF IInv, TypeOK, Goto
  <2>5. /\ sess'[Recovery].pc = "reload"
        /\ sess'[Recovery].job = j
        /\ sess'[Recovery].spec = sess[Recovery].spec
        /\ sess'[Recovery].attempt = 0
        /\ sess'[Recovery].answer = None
    BY <1>1, <2>2 DEF Session, Own
  <2>6. TypeOK'
    BY <1>1, <2>1, <2>4, ZenonT(30) DEF IInv, TypeOK
  <2>7. OneOwner'
    BY <1>1, <2>1, <2>4, <2>5 DEF IInv, OneOwner, Owning, Own
  <2>8. ASSUME NEW u \in Threads PROVE SessionInv(u)'
    <3>1. CASE u = Recovery
      <4>1. SessionShape(Recovery)
        BY <1>1, Zenon DEF IInv, SessionInv
      <4>2. SessionShape(Recovery)'
        <5>1. Canon[sess[Recovery].spec] = sess[Recovery].spec
              \/ sess[Recovery].spec = None
          BY <4>1, Zenon DEF SessionShape
        <5>2. phase' = phase
          BY <2>1, Zenon
        <5> HIDE <4>1
        <5> QED BY <1>1, <2>5, <5>1, <5>2 DEF SessionShape, Own
      <4>3. OwnsRow(Recovery)'
        BY <2>5 DEF OwnsRow
      <4>4. RepliesDurably(Recovery)'
        BY <2>5 DEF RepliesDurably
      <4> QED BY <3>1, <4>2, <4>3, <4>4 DEF SessionInv
    <3>2. CASE u # Recovery
      BY <2>1, <2>4, <3>2, SessionKept, ZenonT(30) DEF IInv
    <3> QED BY <3>1, <3>2
  <2>9. GenerationDurable' /\ VerdictSettled' /\ OneVerdict' /\ SuccessProved'
    BY <2>1 DEF IInv, GenerationDurable, VerdictSettled, OneVerdict,
       SuccessProved
  <2> QED BY <2>6, <2>7, <2>8, <2>9 DEF IInv
<1> QED BY <1>2, <1>3, ZenonT(30)

(* A release ends the claim. *)
LEMMA ReleaseInv ==
    ASSUME IInv, NEW t \in Threads, Release(t)
    PROVE  IInv'
<1> DEFINE j == Own(t)
<1>1. /\ sess[t].pc = "release" /\ j \in Jobs
      /\ activeJobs' = activeJobs \ {j}
      /\ sess' = [sess EXCEPT ![t] = Idle]
      /\ UNCHANGED <<store, jobAttempts, leases, process, issued, committed>>
  BY DEF IInv, Release, SessionInv, SessionShape
<1>2. unsettled' \in SUBSET Jobs
  <2>1. unsettled \in SUBSET Jobs
    BY Zenon DEF IInv, TypeOK
  <2>2. unsettled' \in {unsettled, unsettled \union {j}, unsettled \ {j}}
    BY ZenonT(30) DEF Release
  <2> HIDE DEF j
  <2> QED BY <1>1, <2>1, <2>2
<1>3. /\ sess'[t] = Idle /\ sess' \in [Threads -> Session]
      /\ \A u \in Threads \ {t} : sess'[u] = sess[u]
  BY <1>1, IdleSession DEF IInv, TypeOK
<1>4. TypeOK'
  BY <1>1, <1>2, <1>3, ZenonT(30) DEF IInv, TypeOK
<1>5. OneOwner'
  BY <1>1, <1>3, IdleSession DEF IInv, OneOwner, Owning, Own
<1>6. ASSUME NEW u \in Threads PROVE SessionInv(u)'
  <2>1. CASE u = t
    BY <1>3, <2>1, IdleSession DEF SessionInv, SessionShape, OwnsRow,
       RepliesDurably, Owning
  <2>2. CASE u # t
    BY <1>1, <1>3, <2>2, SessionKept, ZenonT(30) DEF IInv
  <2> QED BY <2>1, <2>2, Zenon
<1>7. GenerationDurable' /\ VerdictSettled' /\ OneVerdict' /\ SuccessProved'
  BY <1>1 DEF IInv, GenerationDurable, VerdictSettled, OneVerdict, SuccessProved
<1> QED BY <1>4, <1>5, <1>6, <1>7, Zenon DEF IInv
-----------------------------------------------------------------------------
(* Time, shutdown, crash and restart *)

(* A lease that expires takes nothing else with it. *)
LEMMA LeaseExpiresInv ==
    ASSUME IInv, NEW j \in Jobs, LeaseExpires(j)
    PROVE  IInv'
<1>1. /\ leases' = [leases EXCEPT ![j].live = FALSE]
      /\ UNCHANGED <<store, jobAttempts, activeJobs, sess, process, history>>
  BY DEF LeaseExpires
<1>2. leases[j] \in JobLease
  BY DEF IInv, TypeOK
<1>3. leases'[j] = [leases[j] EXCEPT !.live = FALSE]
  BY <1>1 DEF IInv, TypeOK
<1>4. leases'[j] \in JobLease /\ leases'[j].attempt = leases[j].attempt
  BY <1>2, <1>3, Zenon DEF JobLease
<1>5. leases' \in [Jobs -> JobLease] /\ \A k \in Jobs \ {j} : leases'[k] = leases[k]
  BY <1>1, <1>4 DEF IInv, TypeOK
<1>6. TypeOK'
  BY <1>1, <1>5 DEF IInv, TypeOK
<1>7. GenerationDurable'
  BY <1>1, <1>4, <1>5 DEF IInv, GenerationDurable
<1>8. OneOwner' /\ VerdictSettled' /\ OneVerdict' /\ SuccessProved'
  BY <1>1 DEF IInv, OneOwner, VerdictSettled, OneVerdict, SuccessProved,
     Owning, Own
<1>9. \A u \in Threads : SessionInv(u)'
  BY <1>1, SessionKept DEF IInv
<1> QED BY <1>6, <1>7, <1>8, <1>9 DEF IInv

(* Without sessions, a step that keeps the generations of the rows and the *)
(* closed rows preserves the invariant.                                    *)
LEMMA NoSessions ==
    ASSUME TypeOK',
           \A u \in Threads : sess'[u] = Idle,
           activeJobs' = {},
           GenerationDurable', VerdictSettled', OneVerdict', SuccessProved'
    PROVE  IInv'
<1>1. OneOwner'
  <2>1. \A u \in Threads : ~Owning(u)'
    BY IdleSession, Zenon DEF Owning
  <2> QED BY <2>1, Zenon DEF OneOwner
<1>2. \A u \in Threads : SessionInv(u)'
  BY IdleSession DEF SessionInv, SessionShape, OwnsRow, RepliesDurably, Owning
<1> QED BY <1>1, <1>2, Zenon DEF IInv

(* A crash ends the sessions; the store stays. *)
LEMMA CrashInv ==
    ASSUME IInv, Crash
    PROVE  IInv'
<1>1. TypeOK'
  <2>1. NoLease \in JobLease
    BY ZenonT(30) DEF NoLease, JobLease
  <2> QED BY <2>1, IdleSession DEF IInv, TypeOK, Crash
<1>2. GenerationDurable'
  <2> SUFFICES ASSUME NEW j \in Jobs
               PROVE  /\ jobAttempts'[j] <= store'[j].attempt
                      /\ leases'[j].attempt = jobAttempts'[j]
                      /\ issued'[j] = store'[j].attempt
    BY DEF GenerationDurable
  <2>1. store[j].attempt \in Nat
    <3>1. store[j] \in Row
      BY DEF IInv, TypeOK
    <3> QED BY <3>1 DEF Row, JobRecord, NoRow
  <2> QED BY <2>1 DEF IInv, GenerationDurable, Crash, NoLease
<1>3. VerdictSettled' /\ OneVerdict' /\ SuccessProved'
  BY DEF Crash, IInv, VerdictSettled, OneVerdict, SuccessProved
<1>4. activeJobs' = {} /\ \A u \in Threads : sess'[u] = Idle
  BY DEF Crash
<1> QED BY <1>1, <1>2, <1>3, <1>4, NoSessions, Zenon

(* Boot, Serve and BeginShutdown change only the phase of the process *)
LEMMA PhaseInv ==
    ASSUME IInv, phase' \in {"starting", "serving", "draining"},
           phase' = "starting" => phase = "down", zkDisabled' \in BOOLEAN,
           UNCHANGED <<store, memory, sess, history>>
    PROVE  IInv'
<1>1. TypeOK'
  BY DEF IInv, TypeOK
<1>2. \A u \in Threads : SessionInv(u)'
  BY SessionKept DEF IInv
<1>3. /\ OneOwner' /\ GenerationDurable' /\ VerdictSettled' /\ OneVerdict'
      /\ SuccessProved'
  BY ZenonT(30) DEF IInv, OneOwner, GenerationDurable, VerdictSettled,
     OneVerdict, SuccessProved, Owning, Own
<1> QED BY <1>1, <1>2, <1>3 DEF IInv

(* The restart marks a running row as recovering. *)
LEMMA RecoverRunningJobInv ==
    ASSUME IInv, NEW j \in Jobs, RecoverRunningJob(j)
    PROVE  IInv'
<1> DEFINE y == validateJobSpec(store[j].spec)
<1>1. /\ phase = "starting" /\ store[j].state = "Running" /\ y # Invalid
      /\ store' = [store EXCEPT ![j].state = "Recovering", ![j].spec = y]
      /\ UNCHANGED <<memory, sess, process, history>>
  BY DEF RecoverRunningJob, restartable
<1>2. store[j] \in JobRecord
  BY <1>1 DEF IInv, TypeOK, Row, NoRow
<1>3. y \in Specs
  BY <1>1, <1>2, CanonAssumption DEF validateJobSpec, JobRecord
<1> HIDE DEF y
<1>4. store'[j] = [store[j] EXCEPT !.state = "Recovering", !.spec = y]
  BY <1>1 DEF IInv, TypeOK
<1>5. /\ store'[j] \in JobRecord /\ store'[j].state = "Recovering"
      /\ store'[j].attempt = store[j].attempt
  BY <1>2, <1>3, <1>4, Zenon DEF JobRecord, JobState
<1>6. store' \in [Jobs -> Row] /\ \A k \in Jobs \ {j} : store'[k] = store[k]
  BY <1>1, <1>5 DEF IInv, TypeOK, Row
<1>7. TypeOK'
  BY <1>1, <1>6 DEF IInv, TypeOK
<1>8. GenerationDurable'
  BY <1>1, <1>5, <1>6 DEF IInv, GenerationDurable
<1>9. VerdictSettled'
  <2> SUFFICES ASSUME NEW d \in committed
               PROVE  /\ d.attempt <= store'[d.job].attempt
                      /\ d.attempt = store'[d.job].attempt =>
                           store'[d.job].state = d.state
    BY <1>1, Zenon DEF VerdictSettled
  <2>1. d.job \in Jobs /\ d.state \in Terminal
    BY DEF IInv, TypeOK, Verdict
  <2>2. /\ d.attempt <= store[d.job].attempt
        /\ d.attempt = store[d.job].attempt => store[d.job].state = d.state
    BY DEF IInv, VerdictSettled
  <2> QED BY <1>1, <1>5, <1>6, <2>1, <2>2 DEF Terminal
<1>10. OneVerdict' /\ SuccessProved' /\ OneOwner'
  <2>1. OneVerdict' /\ SuccessProved'
    BY <1>1, Zenon DEF IInv, OneVerdict, SuccessProved
  <2>2. OneOwner'
    BY <1>1, ZenonT(30) DEF IInv, OneOwner, Owning, Own
  <2> QED BY <2>1, <2>2
<1>11. ASSUME NEW u \in Threads PROVE SessionInv(u)'
  BY <1>1 DEF IInv, SessionInv, SessionShape, OwnsRow, RepliesDurably, Owning,
     Own
<1> QED BY <1>7, <1>8, <1>9, <1>10, <1>11 DEF IInv
-----------------------------------------------------------------------------
(* The inductive step, one case per action *)

(* Every step of a session keeps the invariant. *)
LEMMA SessionStepInv ==
    ASSUME IInv, NEW t \in Threads, SessionStep(t)
    PROVE  IInv'
<1>0. /\ sess[t] \in Session
      /\ sess[t].pc \notin {"verify", "persist", "release"} =>
           sess[t].answer = None
      /\ sess[t].pc = "loop" => sess[t].spec # None
  BY ZenonT(30) DEF IInv, TypeOK, SessionInv, SessionShape
<1>1. CASE LoopCancelled(t)
  BY <1>1, ErrorInv, ZenonT(30) DEF LoopCancelled
<1>2. CASE LoopEnds(t)
  BY <1>0, <1>2, GotoInv, ZenonT(30) DEF LoopEnds, Owning
<1>3. CASE PublishAttempt(t)
  BY <1>3, PublishAttemptInv
<1>4. CASE PublishFails(t)
  BY <1>4, ErrorInv, Zenon DEF PublishFails
<1>5. CASE LeaseTimerFires(t)
  BY <1>5, NextTryInv DEF LeaseTimerFires
<1>6. CASE DispatchCancelled(t)
  BY <1>6, ErrorInv, Zenon DEF DispatchCancelled
<1>7. CASE VerifyResult(t)
  <2>1. CASE sess[t].answer.proof
    <3>1. sess[t].spec # None
      BY <1>7, Zenon DEF VerifyResult, IInv, SessionInv, SessionShape
    <3> QED
      BY <1>7, <2>1, <3>1, GotoInv DEF VerifyResult, verifyZKPreimageResult,
         Owning
  <2>2. CASE ~sess[t].answer.proof
    BY <1>7, <2>2, NextTryInv DEF VerifyResult, verifyZKPreimageResult
  <2> QED BY <2>1, <2>2, Zenon
<1>8. CASE PersistCancelled(t)
  BY <1>8, ErrorInv, Zenon DEF PersistCancelled
<1>9. CASE PersistFenced(t)
  BY <1>9, NextTryInv DEF PersistFenced
<1>10. CASE PersistTerminalResult(t)
  BY <1>10, PersistTerminalResultInv
<1>11. CASE PersistSaveFails(t)
  BY <1>11, ErrorInv, Zenon DEF PersistSaveFails
<1>12. CASE FinalizeFailure(t)
  BY <1>12, FinalizeInv, ZenonT(30) DEF FinalizeFailure
<1>13. CASE FinalizeFailureSkipped(t)
  BY <1>0, <1>13, GotoInv DEF FinalizeFailureSkipped, Owning
<1>14. CASE FinalizeFailureFails(t)
  BY <1>14, FaultInv, Zenon DEF FinalizeFailureFails, Owning
<1>15. CASE SubmitErrored(t)
  BY <1>0, <1>15, GotoInv, ConstantsAssumption DEF SubmitErrored, Owning
<1>16. CASE FinalizeCancellation(t)
  BY <1>16, FinalizeInv, ZenonT(30) DEF FinalizeCancellation
<1>17. CASE FinalizeCancellationSkipped(t)
  BY <1>0, <1>17, GotoInv DEF FinalizeCancellationSkipped, Owning
<1>18. CASE FinalizeCancellationFails(t)
  BY <1>18, FaultInv, Zenon DEF FinalizeCancellationFails, Owning
<1>19. CASE Release(t)
  BY <1>19, ReleaseInv
<1> QED
  BY <1>1, <1>2, <1>3, <1>4, <1>5, <1>6, <1>7, <1>8, <1>9, <1>10, <1>11,
     <1>12, <1>13, <1>14, <1>15, <1>16, <1>17, <1>18, <1>19
     DEF SessionStep

(* So does every step of recovery. *)
LEMMA RecoveryStepInv ==
    ASSUME IInv, RecoveryStep
    PROVE  IInv'
<1>0. /\ Recovery \in Threads
      /\ sess[Recovery].pc = "reload" => sess[Recovery].answer = None
  BY DEF IInv, SessionInv, SessionShape, Threads
<1>1. CASE ClaimRecovering
  BY <1>1, ClaimRecoveringInv, Zenon
<1>2. CASE ReloadSkipped
  BY <1>0, <1>2, GotoInv DEF ReloadSkipped, Owning
<1>3. CASE ReloadRecovering
  BY <1>3, ReloadRecoveringInv
<1>4. CASE RecoveryErrored
  BY <1>4, RecoveryErroredInv
<1>5. CASE RepairLoad
  BY <1>5, RepairLoadInv
<1>6. CASE RepairSave
  BY <1>6, RepairSaveInv
<1>7. CASE RepairFails
  BY <1>0, <1>7, FaultInv, Zenon DEF RepairFails, Owning
<1> QED
  BY <1>1, <1>2, <1>3, <1>4, <1>5, <1>6, <1>7, Zenon DEF RecoveryStep

(* The invariant holds at the start. *)
LEMMA InitInv == Init => IInv
<1> SUFFICES ASSUME Init PROVE IInv
  OBVIOUS
<1>1. store \in [Jobs -> Row]
  BY ConstantsAssumption DEF Init, Row
<1>2. \A j \in Jobs : store[j].attempt \in Nat
  BY <1>1 DEF Row, JobRecord, NoRow
<1>3. TypeOK
  BY <1>1, <1>2, IdleSession, Zenon DEF Init, TypeOK, JobLease, NoLease
<1>4. OneOwner
  BY IdleSession DEF Init, OneOwner, Owning
<1>5. GenerationDurable
  BY <1>2 DEF Init, GenerationDurable, NoLease
<1>6. \A t \in Threads : SessionInv(t)
  BY IdleSession, Zenon DEF Init, SessionInv, SessionShape, OwnsRow,
     RepliesDurably, Owning
<1>7. VerdictSettled /\ OneVerdict /\ SuccessProved
  BY ZenonT(30) DEF Init, VerdictSettled, OneVerdict, SuccessProved
<1> QED BY <1>3, <1>4, <1>5, <1>6, <1>7 DEF IInv

(* Every step keeps the invariant. *)
LEMMA NextInv == IInv /\ [Next]_vars => IInv'
<1> SUFFICES ASSUME IInv, [Next]_vars PROVE IInv'
  OBVIOUS
<1>1. ASSUME NEW t \in Handlers, NEW j \in Jobs, NEW x \in Specs,
             SubmitJob(t, j, x)
      PROVE  IInv'
  BY <1>1, SubmitJobInv
<1>2. ASSUME NEW t \in Threads, CancelRequest(t) \/ CancelWork(t) PROVE IInv'
  BY <1>2, CancelInv DEF CancelRequest, CancelWork
<1>3. ASSUME NEW t \in Threads, SessionStep(t) PROVE IInv'
  BY <1>3, SessionStepInv, ZenonT(30)
<1>4. ASSUME NEW t \in Threads, NEW r \in Response \union {RPCError},
             ResultRefused(t, r)
      PROVE  IInv'
  BY <1>4, NextTryInv DEF ResultRefused
<1>5. ASSUME NEW t \in Threads, NEW r \in Response, ResultInvalidStatus(t, r)
      PROVE  IInv'
  BY <1>5, ErrorInv, ZenonT(30) DEF ResultInvalidStatus
<1>6. ASSUME NEW t \in Threads, NEW r \in Response, ResultCandidate(t, r)
      PROVE  IInv'
  BY <1>6, ResultCandidateInv
<1>7. ASSUME NEW j \in Jobs, PickRecovering(j) PROVE IInv'
  BY <1>7, PickRecoveringInv
<1>8. ASSUME NEW j \in Jobs, LeaseExpires(j) PROVE IInv'
  BY <1>8, LeaseExpiresInv
<1>9. CASE RecoveryStep
  BY <1>9, RecoveryStepInv
<1>10. ASSUME NEW j \in Jobs, RecoverRunningJob(j) PROVE IInv'
  BY <1>10, RecoverRunningJobInv
<1>11. ASSUME NEW disable \in BOOLEAN, Boot(disable) PROVE IInv'
  BY <1>11, PhaseInv, ZenonT(30) DEF Boot
<1>12. CASE Serve
  BY <1>12, PhaseInv, ZenonT(30) DEF Serve, IInv, TypeOK
<1>13. CASE BeginShutdown
  BY <1>13, PhaseInv DEF BeginShutdown, IInv, TypeOK
<1>14. CASE Crash
  BY <1>14, CrashInv
<1>15. CASE UNCHANGED vars
  <2>1. TypeOK' /\ OneOwner' /\ GenerationDurable'
    BY <1>15 DEF vars, IInv, TypeOK, OneOwner, GenerationDurable, Owning, Own
  <2>2. \A t \in Threads : SessionInv(t)'
    BY <1>15, SessionKept DEF vars, IInv
  <2>3. VerdictSettled' /\ OneVerdict' /\ SuccessProved'
    BY <1>15, Zenon DEF vars, IInv, VerdictSettled, OneVerdict, SuccessProved
  <2> QED BY <2>1, <2>2, <2>3, Zenon DEF IInv
<1> QED
  BY <1>1, <1>2, <1>3, <1>4, <1>5, <1>6, <1>7, <1>8, <1>9, <1>10, <1>11, <1>12,
     <1>13, <1>14, <1>15 DEF Next, Threads

(* The inductive invariant holds in every reachable state: what the rows,  *)
(* the memory of the coordinator and the sessions say of a job agrees,     *)
(* whatever the interleaving, the store failures and the crashes.          *)
THEOREM Invariance == Spec => []IInv
BY InitInv, NextInv, PTL DEF Spec

(***************************************************************************)
(* What follows from the invariant: the safety properties of JobExecution, *)
(* the refinement of JobLedger and the action properties.                  *)
(***************************************************************************)
(* Every variable keeps its type *)
THEOREM TypeCorrect == Spec => []TypeOK
BY Invariance, PTL DEF IInv

(* claimJob and releaseJob give a job to one session at a time *)
THEOREM Ownership == Spec => []OneOwner
BY Invariance, PTL DEF IInv

(* Memory and workers are never ahead of the row, even after a crash *)
THEOREM Durability == Spec => []GenerationDurable
BY Invariance, PTL DEF IInv

(* Session, memory and row name the same running generation *)
THEOREM RowOwnership == Spec => []OwnRow
<1>1. IInv => OwnRow
  BY DEF IInv, OwnRow, SessionInv
<1> QED BY <1>1, Invariance, PTL

(* A generation gets at most one terminal state, over all restarts *)
THEOREM SingleVerdict == Spec => []OneVerdict
BY Invariance, PTL DEF IInv

(* A ZK job is Succeeded only with a proof that verifies *)
THEOREM ProvedSuccess == Spec => []SuccessProved
BY Invariance, PTL DEF IInv

(* A client is answered only with a terminal state that is durable *)
THEOREM DurableReply == Spec => []ReplyDurable
<1>1. IInv => ReplyDurable
  BY ZenonT(30) DEF IInv, ReplyDurable, SessionInv
<1> QED BY <1>1, Invariance, PTL
-----------------------------------------------------------------------------
(* The row of a job changes only by the steps of JobLedger *)

(* A terminal row closes its generation. *)
LEMMA CommitCloses ==
    ASSUME IInv, NEW t \in Threads, NEW row \in JobRecord,
           NEW cause, NEW proof,
           Commit(Own(t), row, cause, proof),
           Own(t) \in Jobs,
           store[Own(t)] \in JobRecord, store[Own(t)].state = "Running",
           row.state \in Terminal,
           row.attempt = store[Own(t)].attempt,
           row.spec = store[Own(t)].spec
    PROVE  Ledger!Next
<1> DEFINE j == Own(t)
<1>1. store' = [store EXCEPT ![j] = row]
  BY DEF Commit
<1>2. row = [store[j] EXCEPT !.state = row.state]
  BY DEF JobRecord
<1>3. store' = [store EXCEPT ![j].state = row.state]
  BY <1>1, <1>2, Zenon DEF IInv, TypeOK
<1>4. Ledger!Close(j, row.state)
  BY <1>3 DEF Ledger!Close
<1> QED BY <1>4 DEF Ledger!Next

(* Every step is a step of the ledger, or none. *)
LEMMA LedgerStep == IInv /\ [Next]_vars => [Ledger!Next]_store
<1> SUFFICES ASSUME IInv, Next, store' # store PROVE Ledger!Next
  BY ZenonT(30) DEF vars
<1>1. ASSUME NEW t \in Threads, PublishAttempt(t) PROVE Ledger!Next
  <2> DEFINE j == Own(t)
  <2>1. /\ j \in Jobs /\ sess[t].spec \in Specs
        /\ Canon[sess[t].spec] = sess[t].spec
    BY <1>1, ZenonT(30) DEF PublishAttempt, IInv, TypeOK, SessionInv, SessionShape, Session
  <2>2. nextAttempt(j) = store[j].attempt + 1
    BY <2>1, NextAttempt
  <2>3. Ledger!Start(j, sess[t].spec)
    BY <1>1, <2>2, ZenonT(30) DEF PublishAttempt, Ledger!Start
  <2> QED BY <2>1, <2>3 DEF Ledger!Next
<1>2. ASSUME NEW t \in Threads, PersistTerminalResult(t) PROVE Ledger!Next
  <2> DEFINE row == [state |-> sess[t].answer.status,
                     attempt |-> sess[t].attempt, spec |-> sess[t].spec]
  <2>1. /\ sess[t] \in Session /\ sess[t].pc = "persist"
        /\ Commit(Own(t), row, "result", sess[t].answer.proof)
    BY <1>2 DEF PersistTerminalResult, IInv, TypeOK
  <2>2. SessionShape(t) /\ OwnsRow(t)
    BY ZenonT(30) DEF IInv, SessionInv
  <2>3. /\ sess[t].answer.status \in Terminal
        /\ sess[t].attempt > 0 /\ sess[t].attempt \in Nat
        /\ sess[t].spec \in Specs /\ Own(t) \in Jobs
    BY <2>1, <2>2, ZenonT(30) DEF SessionShape, Session
  <2>4. /\ store[Own(t)].state = "Running"
        /\ sess[t].attempt = store[Own(t)].attempt
        /\ sess[t].spec = store[Own(t)].spec
    BY <2>1, <2>2, <2>3, ZenonT(30) DEF OwnsRow, Owning
  <2>5. row \in JobRecord
    BY <2>3, TerminalRow, ZenonT(30)
  <2>6. store[Own(t)] \in JobRecord
    BY <2>3, <2>4, RowPresent, ZenonT(30) DEF IInv
  <2>7. row.state \in Terminal /\ row.attempt = store[Own(t)].attempt
        /\ row.spec = store[Own(t)].spec
    BY <2>3, <2>4, ZenonT(30)
  <2> HIDE DEF row
  <2> QED BY <2>1, <2>3, <2>4, <2>5, <2>6, <2>7, CommitCloses, ZenonT(30)
<1>3. ASSUME NEW t \in Threads, NEW state \in {"Failed", "Cancelled"},
             NEW cause,
             Commit(Own(t), [store[Own(t)] EXCEPT !.state = state], cause, FALSE),
             Own(t) \in Jobs, store[Own(t)].state = "Running"
      PROVE  Ledger!Next
  <2> DEFINE row == [store[Own(t)] EXCEPT !.state = state]
  <2>1. store[Own(t)] \in JobRecord
    BY <1>3, RowPresent DEF IInv
  <2>2. /\ row \in JobRecord /\ row.state \in Terminal
        /\ row.attempt = store[Own(t)].attempt
        /\ row.spec = store[Own(t)].spec
    BY <2>1 DEF JobRecord, JobState, Terminal
  <2>3. Commit(Own(t), row, cause, FALSE)
    BY <1>3, Zenon
  <2> HIDE DEF row
  <2> QED BY <1>3, <2>1, <2>2, <2>3, CommitCloses, Zenon
<1>4. ASSUME NEW t \in Threads, FinalizeFailure(t) PROVE Ledger!Next
  <2>1. Own(t) \in Jobs
    BY <1>4 DEF FinalizeFailure, IInv, SessionInv, SessionShape
  <2> QED BY <1>3, <1>4, <2>1, Zenon DEF FinalizeFailure, closable
<1>5. ASSUME NEW t \in Threads, FinalizeCancellation(t) PROVE Ledger!Next
  <2>1. Own(t) \in Jobs
    BY <1>5, ZenonT(30) DEF FinalizeCancellation, IInv, SessionInv, SessionShape
  <2> QED BY <1>3, <1>5, <2>1, Zenon DEF FinalizeCancellation, closable
<1>6. CASE RepairSave
  <2> DEFINE j == Own(Recovery)
  <2>1. /\ Recovery \in Threads /\ sess[Recovery].pc = "repairSave"
    BY <1>6 DEF RepairSave, Threads
  <2>2. SessionShape(Recovery) /\ OwnsRow(Recovery) /\ sess[Recovery] \in Session
    BY <2>1, ZenonT(30) DEF IInv, SessionInv, TypeOK
  <2>3. /\ j \in Jobs /\ sess[Recovery].seen = store[j]
        /\ sess[Recovery].attempt > 0
    BY <2>1, <2>2, ZenonT(30) DEF SessionShape
  <2>4. store[j].state = "Running" /\ sess[Recovery].spec = store[j].spec
    BY <2>1, <2>2, <2>3, ZenonT(30) DEF OwnsRow, Owning
  <2>5. store[j] \in JobRecord
    BY <2>3, <2>4, RowPresent, ZenonT(30) DEF IInv
  <2>6. store[j].spec \in Specs /\ Canon[store[j].spec] = store[j].spec
    BY <2>2, <2>4, <2>5, ConstantsAssumption DEF SessionShape, JobRecord
  <2>7. [store[j] EXCEPT !.state = "Recovering"] =
        [store[j] EXCEPT !.state = "Recovering", !.spec = Canon[store[j].spec]]
    BY <2>5, <2>6, Zenon DEF JobRecord
  <2>8. store' = [store EXCEPT ![j].state = "Recovering",
                               ![j].spec = Canon[store[j].spec]]
    BY <1>6, <2>3, <2>7, Zenon DEF RepairSave, IInv, TypeOK
  <2>9. Ledger!Suspend(j)
    BY <2>4, <2>6, <2>8, ConstantsAssumption DEF Ledger!Suspend
  <2> QED BY <2>3, <2>9 DEF Ledger!Next
<1>7. ASSUME NEW j \in Jobs, RecoverRunningJob(j) PROVE Ledger!Next
  BY <1>7, Zenon DEF RecoverRunningJob, restartable, validateJobSpec,
     Ledger!Suspend, Ledger!Next
<1>8. ASSUME NEW t \in Threads, SessionStep(t) PROVE Ledger!Next
  BY <1>1, <1>2, <1>4, <1>5, <1>8, Zenon DEF SessionStep, LoopCancelled,
     LoopEnds, PublishFails, LeaseTimerFires, DispatchCancelled, VerifyResult,
     PersistCancelled, PersistFenced, PersistSaveFails,
     FinalizeFailureSkipped, FinalizeFailureFails, SubmitErrored,
     FinalizeCancellationSkipped, FinalizeCancellationFails, Release
<1>9. CASE RecoveryStep
  BY <1>6, <1>9, Zenon DEF RecoveryStep, ClaimRecovering, ReloadSkipped,
     ReloadRecovering, RecoveryErrored, RepairLoad, RepairFails
<1> QED
  BY <1>7, <1>8, <1>9, Zenon DEF Next, SubmitJob, CancelRequest, CancelWork,
     ResultRefused, ResultInvalidStatus, ResultCandidate, PickRecovering,
     LeaseExpires, Boot, Serve, BeginShutdown, Crash

(* The coordinator implements the jobs table's promise: the rows change    *)
(* only by the steps of JobLedger.                                         *)
THEOREM Refinement == Spec => LedgerSpec
<1>1. Init => Ledger!Init
  BY DEF Init, Ledger!Init
<1> QED BY <1>1, LedgerStep, Invariance, PTL DEF Spec, LedgerSpec, Ledger!Spec
-----------------------------------------------------------------------------
(* Who commits a verdict, and who dispatches an attempt *)

(* Only the three terminal writes of a session commit. *)
LEMMA CommitStep ==
    ASSUME IInv, [Next]_vars, NEW c \in committed' \ committed
    PROVE  \E t \in Threads : \/ PersistTerminalResult(t)
                              \/ FinalizeFailure(t)
                              \/ FinalizeCancellation(t)
<1>0. Next
  BY DEF vars
<1>1. ASSUME NEW t \in Threads, SessionStep(t)
      PROVE  \/ PersistTerminalResult(t)
             \/ FinalizeFailure(t)
             \/ FinalizeCancellation(t)
  BY <1>1, Zenon DEF SessionStep, LoopCancelled, LoopEnds, PublishAttempt,
     PublishFails, LeaseTimerFires, DispatchCancelled, VerifyResult,
     PersistCancelled, PersistFenced, PersistSaveFails,
     FinalizeFailureSkipped, FinalizeFailureFails, SubmitErrored,
     FinalizeCancellationSkipped, FinalizeCancellationFails, Release
<1>2. ~RecoveryStep
  BY Zenon DEF RecoveryStep, ClaimRecovering, ReloadSkipped, ReloadRecovering,
     RecoveryErrored, RepairLoad, RepairSave, RepairFails
<1> QED
  BY <1>0, <1>1, <1>2, Zenon DEF Next, SubmitJob, CancelRequest, CancelWork,
     ResultRefused, ResultInvalidStatus, ResultCandidate, PickRecovering,
     LeaseExpires, RecoverRunningJob, Boot, Serve, BeginShutdown, Crash

(* What a result adds to the commit record *)
LEMMA PersistAdds ==
    ASSUME NEW t \in Threads, PersistTerminalResult(t),
           NEW c \in committed' \ committed
    PROVE  /\ c.job = Own(t)
           /\ c.attempt = sess[t].attempt
           /\ c.cause = "result"
<1> DEFINE row == [state |-> sess[t].answer.status,
                   attempt |-> sess[t].attempt, spec |-> sess[t].spec]
<1>1. Commit(Own(t), row, "result", sess[t].answer.proof)
  BY ZenonT(30) DEF PersistTerminalResult
<1>2. row.attempt = sess[t].attempt
  BY ZenonT(30)
<1> HIDE DEF row
<1>3. c = [job |-> Own(t), attempt |-> row.attempt, state |-> row.state,
           spec |-> row.spec, cause |-> "result",
           proof |-> sess[t].answer.proof]
  BY <1>1, ZenonT(30) DEF Commit
<1> QED BY <1>2, <1>3, ZenonT(30)

(* What they commit is the row that was found, and never a result. *)
LEMMA FinalizeAdds ==
    ASSUME NEW t \in Threads, FinalizeFailure(t) \/ FinalizeCancellation(t),
           store[Own(t)] \in JobRecord, NEW c \in committed' \ committed
    PROVE  /\ c.job = Own(t) /\ c.attempt = store[Own(t)].attempt
           /\ c.spec = store[Own(t)].spec /\ c.cause # "result"
<1> DEFINE row(state) == [store[Own(t)] EXCEPT !.state = state]
<1>1. \A state : row(state).attempt = store[Own(t)].attempt
                /\ row(state).spec = store[Own(t)].spec
  BY DEF JobRecord
<1>2. \/ Commit(Own(t), row("Failed"), "exhausted", FALSE)
      \/ Commit(Own(t), row("Cancelled"), "cancelled", FALSE)
  BY Zenon DEF FinalizeFailure, FinalizeCancellation
<1> HIDE DEF row
<1> QED BY <1>1, <1>2 DEF Commit

(* A result is committed only under its unexpired lease, by the newest     *)
(* attempt, however long its verification took.                            *)
THEOREM CommittedUnderLease == Spec => CommitUnderLease
<1> DEFINE A == \A c \in committed' \ committed : c.cause = "result" =>
                  /\ leases[c.job] = [attempt |-> c.attempt, live |-> TRUE]
                  /\ issued[c.job] = c.attempt
<1>1. IInv /\ [Next]_vars => A
  <2> SUFFICES ASSUME IInv, [Next]_vars, NEW c \in committed' \ committed,
                      c.cause = "result"
               PROVE  /\ leases[c.job] = [attempt |-> c.attempt, live |-> TRUE]
                      /\ issued[c.job] = c.attempt
    OBVIOUS
  <2>1. PICK t \in Threads : PersistTerminalResult(t)
    <3>1. ASSUME NEW t \in Threads, FinalizeFailure(t) \/ FinalizeCancellation(t)
          PROVE  FALSE
      <4>1. store[Own(t)].state = "Running" /\ Own(t) \in Jobs
        BY <3>1, Zenon DEF FinalizeFailure, FinalizeCancellation, closable,
           IInv, SessionInv, SessionShape
      <4>2. store[Own(t)] \in JobRecord
        BY <4>1, RowPresent DEF IInv
      <4> QED BY <3>1, <4>2, FinalizeAdds
    <3> QED BY <3>1, CommitStep, ZenonT(30)
  <2>2. /\ c.job = Own(t) /\ c.attempt = sess[t].attempt
        /\ isLeaseCurrentLocked(Own(t), sess[t].attempt)
        /\ sess[t].pc = "persist"
    <3>1. c.job = Own(t) /\ c.attempt = sess[t].attempt
      BY <2>1, PersistAdds, ZenonT(30)
    <3>2. /\ isLeaseCurrentLocked(Own(t), sess[t].attempt)
          /\ sess[t].pc = "persist"
      BY <2>1, ZenonT(30) DEF PersistTerminalResult
    <3> QED BY <3>1, <3>2
  <2>3. /\ Own(t) \in Jobs /\ sess[t].attempt > 0 /\ Owning(t)
        /\ sess[t].attempt = store[Own(t)].attempt
    BY <2>2, ZenonT(30) DEF IInv, SessionInv, SessionShape, OwnsRow, Owning
  <2>4. leases[Own(t)] \in JobLease
    BY <2>3 DEF IInv, TypeOK
  <2>5. leases[Own(t)] = [attempt |-> sess[t].attempt, live |-> TRUE]
    BY <2>2, <2>4, Zenon DEF isLeaseCurrentLocked, JobLease
  <2> QED BY <2>2, <2>3, <2>5, ZenonT(30) DEF IInv, GenerationDurable
<1>2. IInv /\ [Next]_vars => [A]_vars
  BY <1>1
<1> QED BY <1>2, Invariance, PTL DEF Spec, CommitUnderLease

(* Cancellation and exhaustion close only what their own session published *)
THEOREM ClosedByOwner == Spec => ClosesOwnGeneration
<1> DEFINE A == \A c \in committed' \ committed : c.cause # "result" =>
                  \E t \in Handlers : /\ Owning(t)
                                      /\ Own(t) = c.job
                                      /\ sess[t].attempt = c.attempt
                                      /\ sess[t].spec = c.spec
<1>1. IInv /\ [Next]_vars => A
  <2> SUFFICES ASSUME IInv, [Next]_vars, NEW c \in committed' \ committed,
                      c.cause # "result"
               PROVE  \E t \in Handlers : /\ Owning(t)
                                          /\ Own(t) = c.job
                                          /\ sess[t].attempt = c.attempt
                                          /\ sess[t].spec = c.spec
    BY ZenonT(30)
  <2>1. PICK t \in Threads : FinalizeFailure(t) \/ FinalizeCancellation(t)
    BY CommitStep, PersistAdds
  <2>2. /\ sess[t].pc \in {"exhausted", "cancelling"}
        /\ closable(Own(t), jobAttempts[Own(t)], sess[t].initial)
    BY <2>1, Zenon DEF FinalizeFailure, FinalizeCancellation
  <2>3. /\ sess[t] \in Session /\ SessionShape(t) /\ OwnsRow(t)
    BY ZenonT(30) DEF IInv, SessionInv, TypeOK
  <2>4. Owning(t) /\ Own(t) \in Jobs /\ t \in Handlers
    BY <2>2, <2>3, ZenonT(30) DEF Owning, SessionShape, Threads
  <2>5. sess[t].attempt # 0
    <3>1. /\ jobAttempts[Own(t)] \in Nat
          /\ jobAttempts[Own(t)] > sess[t].initial
      BY <2>2, <2>4, ZenonT(30) DEF closable, ownGeneration, IInv, TypeOK
    <3>2. sess[t].initial \in Nat
      BY <2>3, ZenonT(30) DEF Session
    <3>3. /\ sess[t].pc \notin {"reload", "release"}
          /\ jobAttempts[Own(t)] # sess[t].initial
      BY <2>2, <3>1, <3>2
    <3> QED BY <2>3, <2>4, <3>3, ZenonT(30) DEF OwnsRow
  <2>6. sess[t].attempt > 0
    BY <2>3, <2>5 DEF Session
  <2>7. /\ sess[t].attempt = store[Own(t)].attempt
        /\ sess[t].spec = store[Own(t)].spec
        /\ store[Own(t)].state = "Running"
    BY <2>2, <2>3, <2>4, <2>6, ZenonT(30) DEF OwnsRow
  <2>8. store[Own(t)] \in JobRecord
    BY <2>4, <2>7, RowPresent, ZenonT(30) DEF IInv
  <2>9. /\ c.job = Own(t) /\ c.attempt = store[Own(t)].attempt
        /\ c.spec = store[Own(t)].spec
    BY <2>1, <2>8, FinalizeAdds, ZenonT(30)
  <2> QED BY <2>4, <2>7, <2>9
<1>2. IInv /\ [Next]_vars => [A]_vars
  BY <1>1
<1> QED BY <1>2, Invariance, PTL DEF Spec, ClosesOwnGeneration

(* Only the publication of an attempt leads to its dispatch. *)
LEMMA DispatchStep ==
    ASSUME IInv, [Next]_vars, NEW u \in Threads,
           sess'[u].pc = "dispatched", sess[u].pc # "dispatched"
    PROVE  PublishAttempt(u)
<1>0. Next /\ sess \in [Threads -> Session]
  BY DEF vars, IInv, TypeOK
<1>1. ASSUME NEW t \in Threads, NEW l, Goto(t, l), l # "dispatched" PROVE FALSE
  BY <1>0, <1>1 DEF Goto, Session
<1>2. ASSUME NEW t \in Threads,
             \/ NextTry(t) \/ Error(t, TRUE) \/ Error(t, FALSE)
             \/ ReleaseWith(t, TRUE) \/ ReleaseWith(t, FALSE)
      PROVE  FALSE
  BY <1>0, <1>2 DEF NextTry, Error, ReleaseWith, Session
<1>3. ASSUME NEW t \in Threads, PublishAttempt(t) PROVE t = u
  BY <1>0, <1>3, ZenonT(30) DEF PublishAttempt
<1>4. ASSUME NEW t \in Threads, sess' = [sess EXCEPT ![t] = Idle] PROVE FALSE
  BY <1>0, <1>4 DEF Idle
<1>5. ASSUME NEW t \in Threads, SessionStep(t) PROVE PublishAttempt(u)
  BY <1>1, <1>2, <1>3, <1>4, <1>5, Zenon DEF SessionStep, LoopCancelled,
     LoopEnds, PublishFails, LeaseTimerFires, DispatchCancelled, VerifyResult,
     PersistCancelled, PersistFenced, PersistTerminalResult, PersistSaveFails,
     FinalizeFailure, FinalizeFailureSkipped, FinalizeFailureFails,
     SubmitErrored, FinalizeCancellation, FinalizeCancellationSkipped,
     FinalizeCancellationFails, Release
<1>6. Recovery \in Threads
  BY DEF Threads
<1>7. ~ReloadRecovering /\ ~RepairLoad /\ ~RecoveryErrored
  <2>1. ~ReloadRecovering
    BY <1>0, <1>6 DEF ReloadRecovering, Session
  <2>2. ~RepairLoad
    BY <1>0, <1>6 DEF RepairLoad, Session
  <2>3. ~RecoveryErrored
    BY <1>0, <1>1, <1>6 DEF RecoveryErrored, Session
  <2> QED BY <2>1, <2>2, <2>3
<1>8. ~RecoveryStep
  BY <1>1, <1>2, <1>4, <1>6, <1>7, Zenon DEF RecoveryStep, ClaimRecovering,
     ReloadSkipped, RepairSave, RepairFails
<1>9. ASSUME NEW t \in Handlers, NEW j \in Jobs, NEW x \in Specs,
             SubmitJob(t, j, x)
      PROVE  FALSE
  BY <1>0, <1>9 DEF SubmitJob, Idle
<1>10. ASSUME NEW j \in Jobs, PickRecovering(j) PROVE FALSE
  BY <1>0, <1>10 DEF PickRecovering, Idle
<1>11. ASSUME NEW t \in Threads, sess' = [sess EXCEPT ![t].cancelled = TRUE]
       PROVE  FALSE
  BY <1>0, <1>11 DEF Session
<1>12. ASSUME NEW t \in Threads, NEW r \in Response, ResultCandidate(t, r)
       PROVE  FALSE
  BY <1>0, <1>12, ZenonT(30) DEF ResultCandidate, Session
<1>13. ~Crash
  BY DEF Crash, Idle
<1> QED
  BY <1>0, <1>2, <1>5, <1>8, <1>9, <1>10, <1>11, <1>12, <1>13, ZenonT(30) DEF
     Next, Threads, CancelRequest, CancelWork, ResultRefused,
     ResultInvalidStatus, LeaseExpires, RecoverRunningJob, Boot, Serve,
     BeginShutdown

(* No AttemptID is ever dispatched twice, over all retries and restarts *)
THEOREM FreshAttempts == Spec => AttemptIDsFresh
<1> DEFINE A == \A t \in Threads :
                  sess'[t].pc = "dispatched" /\ sess[t].pc # "dispatched" =>
                     sess'[t].attempt > issued[Own(t)]
<1>1. IInv /\ [Next]_vars => A
  <2> SUFFICES ASSUME IInv, [Next]_vars, NEW t \in Threads,
                      sess'[t].pc = "dispatched", sess[t].pc # "dispatched"
               PROVE  sess'[t].attempt > issued[Own(t)]
    BY ZenonT(30)
  <2>1. PublishAttempt(t)
    BY DispatchStep
  <2>2. Own(t) \in Jobs /\ sess[t] \in Session
    BY <2>1 DEF PublishAttempt, IInv, TypeOK, SessionInv, SessionShape
  <2>3. nextAttempt(Own(t)) = store[Own(t)].attempt + 1
    BY <2>2, NextAttempt
  <2>4. sess'[t].attempt = nextAttempt(Own(t))
    BY <2>1, <2>2, ZenonT(30) DEF PublishAttempt, IInv, TypeOK, Session
  <2>5. issued[Own(t)] = store[Own(t)].attempt /\ issued[Own(t)] \in Nat
    BY <2>2 DEF IInv, GenerationDurable, TypeOK
  <2> QED BY <2>3, <2>4, <2>5
<1>2. IInv /\ [Next]_vars => [A]_vars
  BY <1>1, ZenonT(30)
<1> QED BY <1>2, Invariance, PTL DEF Spec, AttemptIDsFresh
-----------------------------------------------------------------------------
(* What becomes of unfinished rows *)

(* A session that has published nothing found a Running row only where an  *)
(* internal error had left it; one that has published returns with its row *)
(* settled or notes a fault; recovery enters its first try with the row it *)
(* picked.                                                                 *)
Settles(t) ==
    LET j == Own(t)
    IN  /\ Owning(t) /\ sess[t].attempt = 0 /\ restartable(store[j]) =>
             j \in unsettled
        /\ sess[t].pc = "loop" /\ sess[t].attempt > 0 => sess[t].failed
        /\ sess[t].pc = "errored" /\ sess[t].attempt > 0 /\ t # Recovery =>
             sess[t].cancelled \/ sess[t].fault
        /\ sess[t].pc = "release" /\ sess[t].attempt > 0 /\ ~sess[t].fault =>
             store[j].state # "Running"
        /\ sess[t].pc = "loop" /\ sess[t].tries = 0 /\ t = Recovery =>
             /\ snapshotCurrent(j, sess[t].seen)
             /\ sess[t].spec = Canon[store[j].spec]
        /\ sess[t].pc = "idle" => sess[t].spec = None

(* With ZK disabled no session carries a ZK specification either *)
NoZK ==
    zkDisabled /\ phase # "down" =>
       /\ \A j \in Jobs : store[j].state \in {"Running", "Recovering"} =>
                            store[j].spec \notin ZKSpecs
       /\ \A t \in Threads : sess[t].spec \notin ZKSpecs

SInv == RunningIsOwned /\ NoZK /\ \A t \in Threads : Settles(t)

(* A session settles its row as before when neither of them changes *)
LEMMA SettlesKept ==
    ASSUME NEW u \in Threads, Settles(u), sess'[u] = sess[u],
           Owning(u) => /\ store'[Own(u)] = store[Own(u)]
                        /\ Own(u) \in unsettled => Own(u) \in unsettled'
    PROVE  Settles(u)'
<1>1. (Owning(u)' <=> Owning(u)) /\ Own(u)' = Own(u)
  BY Zenon DEF Owning, Own
<1>2. sess[u].pc \in {"loop", "errored", "release"} => Owning(u)
  BY ZenonT(30) DEF Owning
<1>3. CASE ~Owning(u)
  BY <1>1, <1>2, <1>3, ZenonT(30) DEF Settles
<1>4. CASE Owning(u)
  BY <1>1, <1>4, ZenonT(30) DEF Settles, restartable, snapshotCurrent
<1> QED BY <1>3, <1>4

(* A step of session t that changes at most its own variables and row *)
LEMMA StepSettles ==
    ASSUME IInv, SInv, NEW t \in Threads,
           UNCHANGED <<activeJobs, process, unsettled>>,
           \A u \in Threads \ {t} : sess'[u] = sess[u],
           \/ store' = store
           \/ /\ Owning(t) /\ Own(t) \in Jobs
              /\ \A k \in Jobs \ {Own(t)} : store'[k] = store[k]
              /\ zkDisabled /\ phase # "down"
                   /\ store'[Own(t)].state \in {"Running", "Recovering"} =>
                     store'[Own(t)].spec \notin ZKSpecs,
           zkDisabled /\ phase # "down" => sess'[t].spec \notin ZKSpecs,
           Settles(t)'
    PROVE  SInv'
<1>1. ASSUME NEW u \in Threads, u # t PROVE Settles(u)'
  <2>1. sess'[u] = sess[u] /\ Settles(u)
    BY <1>1, ZenonT(30) DEF SInv
  <2>2. Owning(u) => Own(u) \in Jobs /\ (Owning(t) => Own(u) # Own(t))
    BY <1>1, ZenonT(30) DEF IInv, OneOwner, SessionInv, SessionShape, Owning
  <2>3. Owning(u) => store'[Own(u)] = store[Own(u)]
    BY <2>2, ZenonT(30)
  <2> QED BY <2>1, <2>3, SettlesKept, ZenonT(30)
<1>2. RunningIsOwned'
  <2> SUFFICES ASSUME phase \in {"serving", "draining"}, NEW j \in Jobs,
                      restartable(store'[j])
               PROVE  j \in activeJobs \union unsettled
    BY ZenonT(30) DEF RunningIsOwned, restartable, validateJobSpec
  <2>1. CASE store'[j] = store[j]
    BY <2>1, ZenonT(30) DEF SInv, RunningIsOwned
  <2>2. CASE store'[j] # store[j]
    BY <2>2, ZenonT(30) DEF IInv, OneOwner
  <2> QED BY <2>1, <2>2, ZenonT(30)
<1>3. NoZK'
  BY ZenonT(30) DEF SInv, NoZK
<1> QED BY <1>1, <1>2, <1>3, ZenonT(30) DEF SInv

(* The variables of session t after an update of some of them *)
LEMMA GotoSettles ==
    ASSUME IInv, SInv, NEW t \in Threads, NEW l, Goto(t, l), Owning(t),
           UNCHANGED <<store, memory, process, history>>,
           l \notin {"idle", "picked", "loop"},
           sess[t].attempt > 0 /\ l = "errored" /\ t # Recovery =>
              sess[t].cancelled \/ sess[t].fault,
           sess[t].attempt > 0 /\ l = "release" /\ ~sess[t].fault =>
              store[Own(t)].state # "Running"
    PROVE  SInv'
<1>1. sess[t] \in Session /\ \A u \in Threads \ {t} : sess'[u] = sess[u]
  BY DEF IInv, TypeOK, Goto
<1>2. sess'[t] = [sess[t] EXCEPT !.pc = l]
  BY DEF IInv, TypeOK, Goto
<1>3. /\ sess'[t].pc = l /\ sess'[t].job = sess[t].job
      /\ sess'[t].spec = sess[t].spec /\ sess'[t].attempt = sess[t].attempt
      /\ sess'[t].cancelled = sess[t].cancelled
      /\ sess'[t].fault = sess[t].fault
  BY <1>1, <1>2, ZenonT(30) DEF Session
<1>4. Settles(t)'
  BY <1>3, ZenonT(30) DEF SInv, Settles, Owning, Own, restartable
<1> QED BY <1>1, <1>3, <1>4, StepSettles, ZenonT(30) DEF SInv, NoZK

(* A retry: the published attempt failed *)
LEMMA NextTrySettles ==
    ASSUME IInv, SInv, NEW t \in Threads, NextTry(t),
           UNCHANGED <<store, memory, process, history>>,
           sess[t].pc \in {"dispatched", "verify", "persist"}
    PROVE  SInv'
<1>1. sess[t] \in Session /\ \A u \in Threads \ {t} : sess'[u] = sess[u]
  BY DEF IInv, TypeOK, NextTry
<1>2. sess'[t] = [sess[t] EXCEPT !.pc = "loop", !.tries = @ + 1,
                              !.failed = TRUE, !.answer = None]
  BY DEF IInv, TypeOK, NextTry
<1>3. /\ sess'[t].pc = "loop" /\ sess'[t].job = sess[t].job
      /\ sess'[t].spec = sess[t].spec /\ sess'[t].attempt = sess[t].attempt
      /\ sess'[t].failed = TRUE /\ sess'[t].tries = sess[t].tries + 1
      /\ sess[t].tries \in Nat /\ sess[t].attempt > 0
  BY <1>1, <1>2, ZenonT(30) DEF Session, IInv, SessionInv, SessionShape
<1>4. Settles(t)'
  BY <1>1, <1>3 DEF Settles, Owning, Own, Session
<1> QED BY <1>1, <1>3, <1>4, StepSettles, ZenonT(30) DEF SInv, NoZK

(* An error is an internal one or comes from a cancelled context *)
LEMMA ErrorSettles ==
    ASSUME IInv, SInv, NEW t \in Threads, NEW internal \in BOOLEAN,
           Error(t, internal), Owning(t), internal \/ sess[t].cancelled,
           UNCHANGED <<store, memory, process, history>>
    PROVE  SInv'
<1>1. sess[t] \in Session /\ \A u \in Threads \ {t} : sess'[u] = sess[u]
  BY DEF IInv, TypeOK, Error
<1>2. sess'[t] = [sess[t] EXCEPT !.pc = "errored", !.answer = None,
                              !.fault = @ \/ internal]
  BY DEF IInv, TypeOK, Error
<1>3. /\ sess'[t].pc = "errored" /\ sess'[t].job = sess[t].job
      /\ sess'[t].spec = sess[t].spec /\ sess'[t].attempt = sess[t].attempt
      /\ sess'[t].cancelled \/ sess'[t].fault
  BY <1>1, <1>2, Zenon DEF Session
<1>4. Settles(t)'
  BY <1>3, ZenonT(30) DEF SInv, Settles, Owning, Own, restartable
<1> QED BY <1>1, <1>3, <1>4, StepSettles, ZenonT(30) DEF SInv, NoZK

(* Cancellation only adds to what a session may do *)
LEMMA CancelSettles ==
    ASSUME IInv, SInv, NEW t \in Threads,
           UNCHANGED <<store, memory, process, history>>,
           sess' = [sess EXCEPT ![t].cancelled = TRUE]
    PROVE  SInv'
<1>1. sess[t] \in Session /\ \A u \in Threads \ {t} : sess'[u] = sess[u]
  BY DEF IInv, TypeOK
<1>2. sess'[t] = [sess[t] EXCEPT !.cancelled = TRUE]
  BY DEF IInv, TypeOK
<1>3. /\ sess'[t].pc = sess[t].pc /\ sess'[t].job = sess[t].job
      /\ sess'[t].spec = sess[t].spec /\ sess'[t].attempt = sess[t].attempt
      /\ sess'[t].cancelled = TRUE
      /\ sess'[t].failed = sess[t].failed /\ sess'[t].fault = sess[t].fault
      /\ sess'[t].tries = sess[t].tries /\ sess'[t].seen = sess[t].seen
  BY <1>1, <1>2 DEF Session
<1>4. Settles(t)'
  BY <1>3 DEF SInv, Settles, Owning, Own, restartable, snapshotCurrent
<1> QED BY <1>1, <1>3, <1>4, StepSettles DEF SInv, NoZK

(* A session that could not settle its row says so *)
LEMMA FaultSettles ==
    ASSUME IInv, SInv, NEW t \in Threads, Owning(t),
           UNCHANGED <<store, memory, process, history>>,
           ReleaseWith(t, TRUE)
    PROVE  SInv'
<1>1. sess[t] \in Session /\ \A u \in Threads \ {t} : sess'[u] = sess[u]
  BY DEF IInv, TypeOK, ReleaseWith
<1>2. sess'[t] = [sess[t] EXCEPT !.pc = "release", !.fault = TRUE]
  BY DEF IInv, TypeOK, ReleaseWith
<1>3. /\ sess'[t].pc = "release" /\ sess'[t].job = sess[t].job
      /\ sess'[t].spec = sess[t].spec /\ sess'[t].attempt = sess[t].attempt
      /\ sess'[t].fault = TRUE
  BY <1>1, <1>2, ZenonT(30) DEF Session
<1>4. Settles(t)'
  BY <1>3, ZenonT(30) DEF SInv, Settles, Owning, Own, restartable
<1> QED BY <1>1, <1>3, <1>4, StepSettles, ZenonT(30) DEF SInv, NoZK
(* A result passes the first fence *)
LEMMA ResultCandidateSettles ==
    ASSUME IInv, SInv, NEW t \in Threads, NEW r \in Response,
           ResultCandidate(t, r)
    PROVE  SInv'
<1> DEFINE l == IF sess[t].spec \in ZKSpecs /\ r.status = "Succeeded"
                  THEN "verify" ELSE "persist"
<1>1. /\ sess[t] \in Session /\ sess[t].pc = "dispatched"
      /\ \A u \in Threads \ {t} : sess'[u] = sess[u]
      /\ UNCHANGED <<store, memory, process, history>>
  BY DEF IInv, TypeOK, ResultCandidate
<1>2. sess'[t] = [sess[t] EXCEPT !.answer = r, !.pc = l]
  BY DEF IInv, TypeOK, ResultCandidate
<1>3. l \in {"verify", "persist"}
  OBVIOUS
<1> HIDE DEF l
<1>4. /\ sess'[t].pc \in {"verify", "persist"} /\ sess'[t].job = sess[t].job
      /\ sess'[t].spec = sess[t].spec /\ sess'[t].attempt = sess[t].attempt
      /\ sess[t].attempt > 0
  BY <1>1, <1>2, <1>3, ZenonT(30) DEF Session, IInv, SessionInv, SessionShape
<1>5. Settles(t)'
  <2>1. sess'[t].attempt # 0
    BY <1>1, <1>4, Published, ZenonT(30)
  <2> QED BY <1>4, <2>1, ZenonT(30) DEF Settles
<1> QED BY <1>1, <1>4, <1>5, StepSettles, ZenonT(30) DEF SInv, NoZK

(* The row that recovery picked is still the same, and it is its to run *)
LEMMA ReloadRecoveringSettles ==
    ASSUME IInv, SInv, ReloadRecovering
    PROVE  SInv'
<1> DEFINE j == Own(Recovery)
           x == validateJobSpec(store[j].spec)
           refused == \/ sess[Recovery].cancelled
                      \/ ~checkZKAvailable(store[j].spec)
                      \/ x = Invalid
           l == IF refused THEN "errored" ELSE "loop"
           y == IF refused THEN None ELSE x
<1>1. /\ Recovery \in Threads /\ sess[Recovery] \in Session
      /\ sess[Recovery].pc = "reload" /\ j \in Jobs
      /\ \A u \in Threads \ {Recovery} : sess'[u] = sess[u]
      /\ UNCHANGED <<store, memory, process, history>>
  BY ZenonT(30) DEF IInv, TypeOK, ReloadRecovering, Threads, SessionInv,
     SessionShape
<1>2. snapshotCurrent(j, sess[Recovery].seen) /\ sess[Recovery].attempt = 0
  BY <1>1 DEF ReloadRecovering, IInv, SessionInv, SessionShape
<1>3. sess'[Recovery] = [sess[Recovery] EXCEPT !.pc = l, !.spec = y,
                                               !.initial = jobAttempts[j]]
  BY <1>1, ZenonT(30) DEF IInv, TypeOK, ReloadRecovering
<1>4. /\ l \in {"errored", "loop"}
      /\ l = "loop" => y = Canon[store[j].spec]
      /\ zkDisabled => y \notin ZKSpecs
  <2>1. store[j].spec \in Specs
    <3>1. store[j].state # "Absent"
      BY <1>2, ZenonT(30) DEF snapshotCurrent
    <3>2. store[j] \in JobRecord
      BY <1>1, <3>1, RowPresent, ZenonT(30) DEF IInv
    <3> QED BY <3>2, ZenonT(30) DEF JobRecord
  <2>2. None \notin ZKSpecs
    BY ConstantsAssumption
  <2>3. ~refused /\ zkDisabled => x \notin ZKSpecs
    BY <2>1, CanonAssumption DEF checkZKAvailable, validateJobSpec
  <2> QED BY <2>2, <2>3, ZenonT(30) DEF validateJobSpec
<1> HIDE DEF l, y
<1>5. /\ sess'[Recovery].pc = l /\ sess'[Recovery].job = sess[Recovery].job
      /\ sess'[Recovery].spec = y
      /\ sess'[Recovery].attempt = sess[Recovery].attempt
      /\ sess'[Recovery].seen = sess[Recovery].seen
  BY <1>1, <1>3, ZenonT(30) DEF Session
<1>6. Settles(Recovery)'
  <2>1. ~(sess'[Recovery].attempt > 0)
    BY <1>2, <1>5
  <2>2. Own(Recovery)' = j
    BY <1>5, ZenonT(30) DEF Own
  <2>3. store' = store
    BY <1>1
  <2>4. store[j].state = "Recovering"
    BY <1>2, ZenonT(30) DEF snapshotCurrent
  <2>5. ~restartable(store[j])'
    BY <2>2, <2>3, <2>4, ZenonT(30) DEF restartable
  <2>6. snapshotCurrent(j, sess[Recovery].seen)'
    BY <1>2, <1>5, <2>2, <2>3, ZenonT(30) DEF snapshotCurrent
  <2>7. sess'[Recovery].pc # "release" /\ sess'[Recovery].pc # "idle"
    BY <1>4, <1>5
  <2> QED BY <1>4, <1>5, <2>1, <2>2, <2>3, <2>5, <2>6, <2>7, ZenonT(30) DEF Settles
<1> QED BY <1>1, <1>4, <1>5, <1>6, StepSettles, ZenonT(30)

(* A failed recovery that published has a generation to repair *)
LEMMA RecoveryErroredSettles ==
    ASSUME IInv, SInv, RecoveryErrored
    PROVE  SInv'
<1> DEFINE a == jobAttempts[Own(Recovery)]
<1>1. /\ Recovery \in Threads /\ sess[Recovery] \in Session
      /\ sess[Recovery].pc = "errored" /\ Own(Recovery) \in Jobs
      /\ OwnsRow(Recovery) /\ Owning(Recovery)
      /\ UNCHANGED <<store, memory, process, history>>
  BY ZenonT(30) DEF IInv, TypeOK, RecoveryErrored, Threads, SessionInv, SessionShape,
     Owning
<1>2. a \in Nat /\ sess[Recovery].initial \in Nat /\ sess[Recovery].attempt \in Nat
  BY <1>1 DEF IInv, TypeOK, Session
<1>3. CASE a > sess[Recovery].initial
  <2>1. sess'[Recovery] = [sess[Recovery] EXCEPT !.pc = "repairLoad",
                                                 !.attempt = a]
    BY <1>1, <1>3, Zenon DEF IInv, TypeOK, RecoveryErrored
  <2>2. \A u \in Threads \ {Recovery} : sess'[u] = sess[u]
    BY <1>1, <1>3 DEF IInv, TypeOK, RecoveryErrored
  <2> HIDE DEF a
  <2>3. /\ sess'[Recovery].pc = "repairLoad"
        /\ sess'[Recovery].spec = sess[Recovery].spec
        /\ sess'[Recovery].attempt = a
    BY <1>1, <2>1, ZenonT(30) DEF Session
  <2>4. Settles(Recovery)'
    BY <1>2, <1>3, <2>3 DEF Settles
  <2> QED BY <1>1, <2>2, <2>3, <2>4, StepSettles, ZenonT(30) DEF SInv, NoZK
<1>4. CASE ~(a > sess[Recovery].initial)
  <2>1. Goto(Recovery, "release")
    BY <1>4, ZenonT(30) DEF RecoveryErrored
  <2>2. ~(sess[Recovery].attempt > 0)
    BY <1>1, <1>2, <1>4, ZenonT(30) DEF OwnsRow
  <2> QED BY <1>1, <2>1, <2>2, GotoSettles, ZenonT(30)
<1> QED BY <1>3, <1>4

(* restoreRecoveringJob finds the generation it is to repair *)
LEMMA RepairLoadSettles ==
    ASSUME IInv, SInv, RepairLoad
    PROVE  SInv'
<1> DEFINE row == store[Own(Recovery)]
<1>1. /\ Recovery \in Threads /\ sess[Recovery] \in Session
      /\ sess[Recovery].pc = "repairLoad" /\ sess[Recovery].attempt > 0
      /\ OwnsRow(Recovery) /\ Owning(Recovery)
      /\ \A u \in Threads \ {Recovery} : sess'[u] = sess[u]
      /\ UNCHANGED <<store, memory, process, history>>
  BY ZenonT(30) DEF IInv, TypeOK, RepairLoad, Threads, SessionInv, SessionShape,
     Owning
<1>2. row.state = "Running" /\ row.attempt = sess[Recovery].attempt
  BY <1>1 DEF OwnsRow
<1>3. sess'[Recovery] = [sess[Recovery] EXCEPT !.seen = row,
                                               !.pc = "repairSave"]
  BY <1>1, <1>2 DEF IInv, TypeOK, RepairLoad
<1> HIDE DEF row
<1>4. /\ sess'[Recovery].pc = "repairSave"
      /\ sess'[Recovery].spec = sess[Recovery].spec
      /\ sess'[Recovery].attempt = sess[Recovery].attempt
  BY <1>1, <1>3, ZenonT(30) DEF Session
<1>5. Settles(Recovery)'
  <2>1. sess'[Recovery].attempt # 0
    BY <1>1, <1>4, Published, ZenonT(30)
  <2> QED BY <1>4, <2>1, ZenonT(30) DEF Settles
<1> QED BY <1>1, <1>4, <1>5, StepSettles, ZenonT(30) DEF SInv, NoZK

(* A terminal row is settled *)
LEMMA CommitSettles ==
    ASSUME IInv, SInv, NEW t \in Threads, NEW row \in JobRecord,
           NEW cause, NEW proof,
           Commit(Own(t), row, cause, proof),
           Owning(t), Own(t) \in Jobs, sess[t].attempt > 0,
           row.state \in Terminal,
           Goto(t, "release") \/ ReleaseWith(t, FALSE),
           UNCHANGED <<memory, process, issued, unsettled>>
    PROVE  SInv'
<1>1. sess[t] \in Session /\ \A u \in Threads \ {t} : sess'[u] = sess[u]
  BY DEF IInv, TypeOK, Goto, ReleaseWith
<1>2. \/ sess'[t] = [sess[t] EXCEPT !.pc = "release"]
      \/ sess'[t] = [sess[t] EXCEPT !.pc = "release", !.fault = FALSE]
  BY DEF IInv, TypeOK, Goto, ReleaseWith
<1>3. /\ sess'[t].pc = "release" /\ sess'[t].job = sess[t].job
      /\ sess'[t].spec = sess[t].spec /\ sess'[t].attempt = sess[t].attempt
  BY <1>1, <1>2, Zenon DEF Session
<1>4. store'[Own(t)] = row /\ \A k \in Jobs \ {Own(t)} : store'[k] = store[k]
  BY DEF Commit, IInv, TypeOK
<1>5. row.state \notin {"Running", "Recovering"}
  BY ZenonT(30) DEF Terminal
<1>6. Settles(t)'
  <2>0. sess[t].attempt # 0
    BY <1>1, Published, ZenonT(30)
  <2>1. Own(t)' = Own(t) /\ sess'[t].attempt # 0 /\ sess'[t].pc = "release"
    BY <1>3, <2>0, ZenonT(30) DEF Own
  <2>2. store'[Own(t)].state # "Running"
    BY <1>4, <1>5, ZenonT(30)
  <2> QED BY <2>1, <2>2, ZenonT(30) DEF Settles
<1> QED BY <1>1, <1>3, <1>4, <1>5, <1>6, StepSettles, ZenonT(30) DEF SInv, NoZK

(* Closing a cancelled generation leaves a terminal row. *)
LEMMA FinalizeSettles ==
    ASSUME IInv, SInv, NEW t \in Threads,
           NEW state \in {"Failed", "Cancelled"}, NEW cause,
           Commit(Own(t), [store[Own(t)] EXCEPT !.state = state], cause, FALSE),
           sess[t].pc \in {"exhausted", "cancelling"},
           closable(Own(t), jobAttempts[Own(t)], sess[t].initial),
           Goto(t, "release") \/ ReleaseWith(t, FALSE),
           UNCHANGED <<memory, process, issued, unsettled>>
    PROVE  SInv'
<1> DEFINE row == [store[Own(t)] EXCEPT !.state = state]
<1>1. sess[t] \in Session /\ Own(t) \in Jobs /\ Owning(t)
  BY DEF IInv, TypeOK, SessionInv, SessionShape, Owning
<1>2. jobAttempts[Own(t)] \in Nat /\ store[Own(t)] \in JobRecord
  BY <1>1 DEF IInv, TypeOK, closable, Row, NoRow
<1>3. sess[t].attempt > 0
  BY <1>1, <1>2 DEF IInv, SessionInv, OwnsRow, closable, ownGeneration, Session
<1>4. row \in JobRecord /\ row.state \in Terminal
  BY <1>2 DEF JobRecord, JobState, Terminal
<1> HIDE DEF row
<1>5. Commit(Own(t), row, cause, FALSE)
  BY Zenon DEF row
<1> QED BY <1>1, <1>3, <1>4, <1>5, CommitSettles, Zenon

(* So does the terminal result of a session. *)
LEMMA PersistTerminalResultSettles ==
    ASSUME IInv, SInv, NEW t \in Threads, PersistTerminalResult(t)
    PROVE  SInv'
<1> DEFINE row == [state |-> sess[t].answer.status,
                   attempt |-> sess[t].attempt, spec |-> sess[t].spec]
<1>1. /\ sess[t] \in Session /\ sess[t].pc = "persist" /\ SessionShape(t)
      /\ Commit(Own(t), row, "result", sess[t].answer.proof)
      /\ Goto(t, "release")
      /\ UNCHANGED <<memory, process, issued, unsettled>>
  BY ZenonT(30) DEF IInv, TypeOK, PersistTerminalResult, SessionInv
<1>2. /\ sess[t].answer.status \in Terminal
      /\ sess[t].attempt > 0 /\ sess[t].attempt \in Nat
      /\ sess[t].spec \in Specs /\ Own(t) \in Jobs /\ Owning(t)
  BY <1>1, ZenonT(30) DEF SessionShape, Session, Owning
<1>3. row \in JobRecord /\ row.state \in Terminal
  BY <1>2, TerminalRow, ZenonT(30)
<1> HIDE DEF row
<1> QED BY <1>1, <1>2, <1>3, CommitSettles, ZenonT(30)

(* A published generation runs under its session *)
LEMMA PublishAttemptSettles ==
    ASSUME IInv, SInv, NEW t \in Threads, PublishAttempt(t)
    PROVE  SInv'
<1> DEFINE j == Own(t)
           n == store[j].attempt + 1
           row == [state |-> "Running", attempt |-> n, spec |-> sess[t].spec]
<1>1. /\ sess[t] \in Session /\ j \in Jobs /\ Owning(t)
      /\ store[j].attempt \in Nat
      /\ \A u \in Threads \ {t} : sess'[u] = sess[u]
      /\ UNCHANGED <<activeJobs, process, unsettled>>
  BY DEF IInv, TypeOK, PublishAttempt, SessionInv, SessionShape,
     Owning, Row, JobRecord, NoRow
<1>2. nextAttempt(j) = n /\ n > 0
  BY <1>1, NextAttempt
<1>3. store' = [store EXCEPT ![j] = row]
  BY <1>2 DEF PublishAttempt
<1>4. sess'[t] = [sess[t] EXCEPT !.pc = "dispatched", !.attempt = n]
  BY <1>2 DEF IInv, TypeOK, PublishAttempt
<1> HIDE DEF n
<1>5. /\ sess'[t].pc = "dispatched" /\ sess'[t].attempt = n
      /\ sess'[t].spec = sess[t].spec
  BY <1>1, <1>4, ZenonT(30) DEF Session
<1>6. /\ store'[j].spec = sess[t].spec
      /\ \A k \in Jobs \ {j} : store'[k] = store[k]
  BY <1>1, <1>3, ZenonT(30) DEF IInv, TypeOK
<1>7. Settles(t)'
  BY <1>2, <1>5 DEF Settles
<1>8. zkDisabled /\ phase # "down" => sess[t].spec \notin ZKSpecs
  BY ZenonT(30) DEF SInv, NoZK
<1> QED BY <1>1, <1>5, <1>6, <1>7, <1>8, StepSettles, ZenonT(30)

(* The repair turns the Running row of the session into a Recovering one *)
LEMMA RepairSaveSettles ==
    ASSUME IInv, SInv, RepairSave
    PROVE  SInv'
<1> DEFINE j == Own(Recovery)
           row == [store[j] EXCEPT !.state = "Recovering"]
<1>1. /\ Recovery \in Threads /\ sess[Recovery] \in Session
      /\ sess[Recovery].pc = "repairSave" /\ j \in Jobs
      /\ sess[Recovery].attempt > 0 /\ sess[Recovery].seen = store[j]
      /\ OwnsRow(Recovery) /\ Owning(Recovery)
      /\ UNCHANGED <<memory, process, history>>
  BY ZenonT(30) DEF IInv, TypeOK, RepairSave, Threads, SessionInv, SessionShape, Owning
<1>2. store[j].state = "Running" /\ store[j] \in JobRecord
  BY <1>1, RowPresent, ZenonT(30) DEF OwnsRow, IInv
<1>3. row.state = "Recovering" /\ row.spec = store[j].spec
  BY <1>2 DEF JobRecord
<1>4. store' = [store EXCEPT ![j] = row] /\ ReleaseWith(Recovery, FALSE)
  BY <1>1, Zenon DEF RepairSave
<1> HIDE DEF row
<1>5. sess'[Recovery] = [sess[Recovery] EXCEPT !.pc = "release",
                                               !.fault = FALSE]
  BY <1>1, <1>4 DEF IInv, TypeOK, ReleaseWith
<1>6. /\ sess'[Recovery].pc = "release"
      /\ sess'[Recovery].job = sess[Recovery].job
      /\ sess'[Recovery].spec = sess[Recovery].spec
      /\ sess'[Recovery].attempt = sess[Recovery].attempt
  BY <1>1, <1>5, ZenonT(30) DEF Session
<1>7. store'[j] = row /\ \A k \in Jobs \ {j} : store'[k] = store[k]
  BY <1>1, <1>4 DEF IInv, TypeOK
<1>8. \A u \in Threads \ {Recovery} : sess'[u] = sess[u]
  BY <1>4, ZenonT(30) DEF IInv, TypeOK, ReleaseWith
<1>9. Settles(Recovery)'
  <2>1. sess'[Recovery].attempt # 0
    BY <1>1, <1>6, Published, ZenonT(30)
  <2>2. Own(Recovery)' = j
    BY <1>6, Zenon DEF Own
  <2>3. store'[j].state # "Running"
    BY <1>3, <1>7, Zenon
  <2> QED BY <1>6, <2>1, <2>2, <2>3, ZenonT(30) DEF Settles
<1>10. zkDisabled /\ phase # "down" => store[j].spec \notin ZKSpecs
  BY <1>1, <1>2, ZenonT(30) DEF SInv, NoZK
<1>11. zkDisabled /\ phase # "down" => sess[Recovery].spec \notin ZKSpecs
  BY <1>1, ZenonT(30) DEF SInv, NoZK
<1> QED BY <1>1, <1>3, <1>6, <1>7, <1>8, <1>9, <1>10, <1>11, StepSettles, ZenonT(30)

(* A session takes a job: a Running row that no one owned was unsettled *)
LEMMA TakeSettles ==
    ASSUME IInv, SInv, NEW t \in Threads, NEW j \in Jobs, j \notin activeJobs,
           phase = "serving" \/ phase = "draining",
           activeJobs' = activeJobs \union {j},
           UNCHANGED <<store, process, unsettled>>,
           \A u \in Threads \ {t} : sess'[u] = sess[u],
           sess'[t].pc = "reload" \/ (sess'[t].pc = "loop" /\ t # Recovery),
           sess'[t].job = j, sess'[t].attempt = 0,
           zkDisabled => sess'[t].spec \notin ZKSpecs
    PROVE  SInv'
<1>1. restartable(store[j]) => j \in unsettled
  BY ZenonT(30) DEF SInv, RunningIsOwned
<1>2. Settles(t)'
  <2>1. ~(sess'[t].attempt > 0)
    OBVIOUS
  <2>2. Own(t)' = j
    BY ZenonT(30) DEF Own
  <2>3. restartable(store[j])' => j \in unsettled'
    BY <1>1, ZenonT(30) DEF restartable, validateJobSpec
  <2>4. /\ sess'[t].pc # "errored" /\ sess'[t].pc # "release" /\ sess'[t].pc # "idle"
        /\ sess'[t].pc = "loop" => t # Recovery
    BY ZenonT(30)
  <2> QED BY <2>1, <2>2, <2>3, <2>4, ZenonT(30) DEF Settles
<1>3. ASSUME NEW u \in Threads, u # t PROVE Settles(u)'
  BY <1>3, SettlesKept, ZenonT(30) DEF SInv
<1>4. RunningIsOwned'
  BY ZenonT(30) DEF SInv, RunningIsOwned, restartable, validateJobSpec
<1>5. NoZK'
  BY ZenonT(30) DEF SInv, NoZK
<1> QED BY <1>2, <1>3, <1>4, <1>5, ZenonT(30) DEF SInv

(* A new session does not own an unfinished row. *)
LEMMA SubmitJobSettles ==
    ASSUME IInv, SInv, NEW t \in Handlers, NEW j \in Jobs, NEW x \in Specs,
           SubmitJob(t, j, x)
    PROVE  SInv'
<1> DEFINE y == validateJobSpec(x)
           new == [Idle EXCEPT !.pc = "loop", !.job = j, !.spec = y,
                               !.initial = jobAttempts[j]]
<1>1. /\ t \in Threads /\ t # Recovery /\ j \notin activeJobs
      /\ phase = "serving"
      /\ activeJobs' = activeJobs \union {j}
      /\ sess' = [sess EXCEPT ![t] = new]
      /\ UNCHANGED <<store, jobAttempts, leases, process, history>>
  BY ConstantsAssumption DEF SubmitJob, claimJob, Threads
<1>2. zkDisabled => y \notin ZKSpecs
  BY CanonAssumption DEF SubmitJob, validateJobSpec, checkZKAvailable
<1> HIDE DEF y
<1>3. new.pc = "loop" /\ new.job = j /\ new.spec = y /\ new.attempt = 0
  BY ZenonT(30) DEF Idle
<1> HIDE DEF new
<1>4. sess'[t] = new /\ \A u \in Threads \ {t} : sess'[u] = sess[u]
  BY <1>1, ZenonT(30) DEF IInv, TypeOK
<1> QED BY <1>1, <1>2, <1>3, <1>4, TakeSettles

(* An idle or picking session owes nothing *)
LEMMA UnownedSettles ==
    ASSUME IInv, SInv, NEW t \in Threads, NEW new \in Session,
           new.pc \in {"idle", "picked"}, new.spec = None,
           sess' = [sess EXCEPT ![t] = new],
           UNCHANGED <<store, memory, process, history>>
    PROVE  SInv'
<1>1. sess'[t] = new /\ \A u \in Threads \ {t} : sess'[u] = sess[u]
  BY ZenonT(30) DEF IInv, TypeOK
<1>2. Settles(t)'
  BY <1>1, ZenonT(30) DEF Settles, Owning
<1>3. None \notin ZKSpecs
  BY ConstantsAssumption
<1> QED BY <1>1, <1>2, <1>3, StepSettles, ZenonT(30)

(* Recovery looks at a row before it owns it. *)
LEMMA PickRecoveringSettles ==
    ASSUME IInv, SInv, NEW j \in Jobs, PickRecovering(j)
    PROVE  SInv'
<1> DEFINE new == [Idle EXCEPT !.pc = "picked", !.job = j, !.seen = store[j]]
<1>1. /\ Recovery \in Threads /\ sess' = [sess EXCEPT ![Recovery] = new]
      /\ UNCHANGED <<store, memory, process, history>>
  BY DEF PickRecovering, Threads
<1>2. store[j] \in Row
  BY DEF IInv, TypeOK
<1>3. new \in Session /\ new.pc = "picked" /\ new.spec = None
  BY <1>2, Zenon DEF Idle, Session, Label
<1> HIDE DEF new
<1> QED BY <1>1, <1>3, UnownedSettles, Zenon

(* Recovery owns the row it has looked at. *)
LEMMA ClaimRecoveringSettles ==
    ASSUME IInv, SInv, ClaimRecovering
    PROVE  SInv'
<1> DEFINE j == Own(Recovery)
<1>1. /\ Recovery \in Threads /\ sess[Recovery] \in Session
      /\ sess[Recovery].pc = "picked" /\ j \in Jobs
      /\ sess[Recovery].attempt = 0
      /\ phase \in {"serving", "draining"}
  BY ZenonT(30) DEF IInv, TypeOK, ClaimRecovering, SessionInv, SessionShape, Threads
<1>2. CASE sess[Recovery].cancelled \/ ~claimJob(j)
  <2>1. /\ sess' = [sess EXCEPT ![Recovery] = Idle]
        /\ UNCHANGED <<store, memory, process, history>>
    BY <1>2 DEF ClaimRecovering
  <2> QED BY <1>1, <2>1, IdleSession, UnownedSettles, Zenon
<1>3. CASE ~(sess[Recovery].cancelled \/ ~claimJob(j))
  <2>1. /\ Goto(Recovery, "reload") /\ j \notin activeJobs
        /\ activeJobs' = activeJobs \union {j}
        /\ UNCHANGED <<store, jobAttempts, leases, process, history>>
    BY <1>3 DEF ClaimRecovering, claimJob
  <2>2. /\ sess'[Recovery] = [sess[Recovery] EXCEPT !.pc = "reload"]
        /\ \A u \in Threads \ {Recovery} : sess'[u] = sess[u]
    BY <1>1, <2>1 DEF IInv, TypeOK, Goto
  <2>3. /\ sess'[Recovery].pc = "reload" /\ sess'[Recovery].job = j
        /\ sess'[Recovery].spec = sess[Recovery].spec
        /\ sess'[Recovery].attempt = 0
    BY <1>1, <2>2, ZenonT(30) DEF Session, Own
  <2>4. zkDisabled => sess[Recovery].spec \notin ZKSpecs
    BY <1>1 DEF SInv, NoZK
  <2> QED BY <1>1, <2>1, <2>2, <2>3, <2>4, TakeSettles, ZenonT(30)
<1> QED BY <1>2, <1>3

(* A session gives up its job: its row is settled, or the job is noted *)
LEMMA ReleaseSettles ==
    ASSUME IInv, SInv, NEW t \in Threads, Release(t)
    PROVE  SInv'
<1> DEFINE j == Own(t)
<1>1. /\ sess[t].pc = "release" /\ j \in Jobs /\ sess[t] \in Session
      /\ activeJobs' = activeJobs \ {j} /\ Owning(t)
      /\ UNCHANGED <<store, jobAttempts, leases, process, issued, committed>>
  BY ZenonT(30) DEF IInv, TypeOK, Release, SessionInv, SessionShape, Owning
<1>2. /\ \A k : k # j => (k \in unsettled' <=> k \in unsettled)
      /\ sess[t].fault => j \in unsettled'
      /\ ~(sess[t].attempt > 0) /\ j \in unsettled => j \in unsettled'
  BY ZenonT(30) DEF Release
<1>3. sess'[t] = Idle /\ \A u \in Threads \ {t} : sess'[u] = sess[u]
  BY ZenonT(30) DEF IInv, TypeOK, Release
<1>4. Settles(t)'
  BY <1>3, IdleSession, ZenonT(30) DEF Settles, Owning
<1>5. ASSUME NEW u \in Threads, u # t PROVE Settles(u)'
  <2>1. Owning(u) => Own(u) # j
    BY <1>1, <1>5, ZenonT(30) DEF IInv, OneOwner
  <2> QED BY <1>1, <1>2, <1>3, <1>5, <2>1, SettlesKept, ZenonT(30) DEF SInv
<1>6. restartable(store[j]) => j \in unsettled'
  <2> SUFFICES ASSUME restartable(store[j]), ~sess[t].fault
               PROVE  j \in unsettled'
    BY <1>2
  <2>1. Settles(t)
    BY ZenonT(30) DEF SInv
  <2>2. ~(sess[t].attempt > 0)
    BY <1>1, <2>1, ZenonT(30) DEF Settles, restartable
  <2>3. sess[t].attempt = 0
    BY <1>1, <2>2 DEF Session
  <2> QED BY <1>1, <1>2, <2>1, <2>2, <2>3, ZenonT(30) DEF Settles
<1>7. RunningIsOwned'
  <2> SUFFICES ASSUME phase \in {"serving", "draining"}, NEW k \in Jobs,
                      restartable(store[k])
               PROVE  k \in activeJobs' \union unsettled'
    BY <1>1, ZenonT(30) DEF RunningIsOwned, restartable, validateJobSpec
  <2>1. CASE k = j
    BY <1>6, <2>1, ZenonT(30)
  <2>2. CASE k # j
    BY <1>1, <1>2, <2>2, ZenonT(30) DEF SInv, RunningIsOwned
  <2> QED BY <2>1, <2>2, ZenonT(30)
<1>8. NoZK'
  <2>1. Idle.spec \notin ZKSpecs
    BY IdleSession, ConstantsAssumption
  <2> QED BY <1>1, <1>3, <2>1, ZenonT(30) DEF SInv, NoZK
<1> QED BY <1>4, <1>5, <1>7, <1>8, ZenonT(30) DEF SInv
(* Startup converts the Running rows before anything is served *)
LEMMA RecoverRunningJobSettles ==
    ASSUME IInv, SInv, NEW j \in Jobs, RecoverRunningJob(j)
    PROVE  SInv'
<1> DEFINE y == validateJobSpec(store[j].spec)
<1>1. /\ phase = "starting" /\ store[j].state = "Running" /\ y # Invalid
      /\ store' = [store EXCEPT ![j].state = "Recovering", ![j].spec = y]
      /\ UNCHANGED <<memory, sess, process, history>>
  BY DEF RecoverRunningJob, restartable
<1>2. store[j] \in JobRecord
  BY <1>1, RowPresent DEF IInv
<1>3. y \in ZKSpecs => store[j].spec \in ZKSpecs
  BY <1>1, <1>2, CanonAssumption DEF validateJobSpec, JobRecord
<1> HIDE DEF y
<1>4. store'[j] = [store[j] EXCEPT !.state = "Recovering", !.spec = y]
  BY <1>1 DEF IInv, TypeOK
<1>5. store'[j].spec = y /\ \A k \in Jobs \ {j} : store'[k] = store[k]
  BY <1>1, <1>2, <1>4, Zenon DEF JobRecord, IInv, TypeOK
<1>6. NoZK'
  BY <1>1, <1>3, <1>5, ZenonT(30) DEF SInv, NoZK
<1>7. RunningIsOwned'
  BY <1>1 DEF RunningIsOwned
<1>8. ASSUME NEW u \in Threads PROVE Settles(u)'
  <2>1. ~Owning(u)
    BY <1>1 DEF IInv, SessionInv, SessionShape, Owning
  <2> QED BY <1>1, <2>1, SettlesKept, ZenonT(30) DEF SInv
<1> QED BY <1>6, <1>7, <1>8 DEF SInv

(* Boot, Serve and BeginShutdown *)
LEMMA PhaseSettles ==
    ASSUME IInv, SInv,
           \/ \E disable \in BOOLEAN : Boot(disable)
           \/ Serve
           \/ BeginShutdown
    PROVE  SInv'
<1>1. UNCHANGED <<store, memory, sess, history>>
  BY DEF Boot, Serve, BeginShutdown
<1>2. \A u \in Threads : Settles(u)'
  BY <1>1, SettlesKept, ZenonT(30) DEF SInv
<1>3. RunningIsOwned'
  BY <1>1 DEF SInv, RunningIsOwned, restartable, validateJobSpec, Boot, Serve,
     BeginShutdown
<1>4. NoZK'
  <2>1. CASE Serve \/ BeginShutdown
    BY <1>1, <2>1, ZenonT(30) DEF SInv, NoZK, Serve, BeginShutdown
  <2>2. ASSUME NEW disable \in BOOLEAN, Boot(disable) PROVE NoZK'
    <3>1. \A u \in Threads : sess[u].pc = "idle"
      BY <2>2, ZenonT(30) DEF Boot, IInv, SessionInv, SessionShape
    <3>2. \A u \in Threads : sess[u].spec \notin ZKSpecs
      <4>1. None \notin ZKSpecs
        BY ConstantsAssumption
      <4> QED BY <3>1, <4>1 DEF SInv, Settles
    <3> QED BY <1>1, <2>2, <3>2, ZenonT(30) DEF Boot, unfinishedZK, NoZK
  <2> QED BY <2>1, <2>2
<1> QED BY <1>2, <1>3, <1>4, ZenonT(30) DEF SInv

(* After a crash nobody owns anything. *)
LEMMA CrashSettles ==
    ASSUME IInv, SInv, Crash
    PROVE  SInv'
<1>1. phase' = "down" /\ \A u \in Threads : sess'[u] = Idle
  BY ZenonT(30) DEF Crash
<1>2. \A u \in Threads : Settles(u)'
  BY <1>1, IdleSession, ZenonT(30) DEF Settles, Owning
<1>3. RunningIsOwned' /\ NoZK'
  BY <1>1 DEF RunningIsOwned, NoZK
<1> QED BY <1>2, <1>3 DEF SInv

(* The steps of a session, one case per action *)
LEMMA SessionStepSettles ==
    ASSUME IInv, SInv, NEW t \in Threads, SessionStep(t)
    PROVE  SInv'
<1>0. /\ sess[t] \in Session /\ Settles(t) /\ OwnsRow(t) /\ SessionShape(t)
      /\ Owning(t) => /\ Own(t) \in Jobs /\ Own(t) \in activeJobs
                      /\ jobAttempts[Own(t)] \in Nat
  BY ZenonT(30) DEF SInv, IInv, TypeOK, SessionInv, SessionShape, OneOwner, Owning
<1>1. CASE LoopCancelled(t)
  BY <1>1, ErrorSettles, ZenonT(30) DEF LoopCancelled, Owning
<1>2. CASE LoopEnds(t)
  <2>1. sess[t].attempt > 0 => sess[t].failed
    BY <1>0, <1>2, ZenonT(30) DEF LoopEnds, Settles
  <2> QED BY <1>2, <2>1, GotoSettles, ZenonT(30) DEF LoopEnds, Owning
<1>3. CASE PublishAttempt(t)
  BY <1>3, PublishAttemptSettles
<1>4. CASE PublishFails(t)
  BY <1>4, ErrorSettles, Zenon DEF PublishFails, Owning
<1>5. CASE LeaseTimerFires(t)
  BY <1>5, NextTrySettles DEF LeaseTimerFires
<1>6. CASE DispatchCancelled(t)
  BY <1>6, ErrorSettles, Zenon DEF DispatchCancelled, Owning
<1>7. CASE VerifyResult(t)
  <2>1. CASE verifyZKPreimageResult(t)
    <3>1. /\ Goto(t, "persist") /\ Owning(t)
          /\ UNCHANGED <<store, memory, process, history>>
      BY <1>7, <2>1, ZenonT(30) DEF VerifyResult, Owning
    <3> QED BY <3>1, GotoSettles, ZenonT(30)
  <2>2. CASE ~verifyZKPreimageResult(t)
    BY <1>7, <2>2, NextTrySettles, ZenonT(30) DEF VerifyResult
  <2> QED BY <2>1, <2>2, ZenonT(30)
<1>8. CASE PersistCancelled(t)
  BY <1>8, ErrorSettles, Zenon DEF PersistCancelled, Owning
<1>9. CASE PersistFenced(t)
  BY <1>9, NextTrySettles, ZenonT(30) DEF PersistFenced
<1>10. CASE PersistTerminalResult(t)
  BY <1>10, PersistTerminalResultSettles
<1>11. CASE PersistSaveFails(t)
  BY <1>11, ErrorSettles, Zenon DEF PersistSaveFails, Owning
<1>12. CASE FinalizeFailure(t)
  BY <1>12, FinalizeSettles, ZenonT(30) DEF FinalizeFailure
<1>13. CASE FinalizeFailureSkipped(t)
  <2>1. sess[t].attempt > 0 => sess[t].cancelled
    BY <1>0, <1>13, ZenonT(30) DEF FinalizeFailureSkipped, OwnsRow, Owning, closable,
       ownGeneration
  <2> QED BY <1>13, <2>1, GotoSettles, ZenonT(30) DEF FinalizeFailureSkipped, Owning
<1>14. CASE FinalizeFailureFails(t)
  BY <1>14, FaultSettles, ZenonT(30) DEF FinalizeFailureFails, Owning
<1>15. CASE SubmitErrored(t)
  <2>1. t # Recovery
    BY <1>15, ConstantsAssumption DEF SubmitErrored
  <2>2. sess[t].attempt > 0 => sess[t].cancelled \/ sess[t].fault
    BY <1>0, <1>15, <2>1, ZenonT(30) DEF SubmitErrored, Settles
  <2> QED BY <1>15, <2>2, GotoSettles, ZenonT(30) DEF SubmitErrored, Owning
<1>16. CASE FinalizeCancellation(t)
  BY <1>16, FinalizeSettles, ZenonT(30) DEF FinalizeCancellation
<1>17. CASE FinalizeCancellationSkipped(t)
  <2>1. ~(sess[t].attempt > 0)
    BY <1>0, <1>17, ZenonT(30) DEF FinalizeCancellationSkipped, OwnsRow, Owning, closable,
       ownGeneration
  <2> QED BY <1>17, <2>1, GotoSettles, ZenonT(30) DEF FinalizeCancellationSkipped, Owning
<1>18. CASE FinalizeCancellationFails(t)
  BY <1>18, FaultSettles, Zenon DEF FinalizeCancellationFails, Owning
<1>19. CASE Release(t)
  BY <1>19, ReleaseSettles
<1> QED
  BY <1>1, <1>2, <1>3, <1>4, <1>5, <1>6, <1>7, <1>8, <1>9, <1>10, <1>11,
     <1>12, <1>13, <1>14, <1>15, <1>16, <1>17, <1>18, <1>19, ZenonT(30)
     DEF SessionStep

(* The steps of recovery *)
LEMMA RecoveryStepSettles ==
    ASSUME IInv, SInv, RecoveryStep
    PROVE  SInv'
<1>0. /\ Recovery \in Threads
      /\ sess[Recovery].pc = "reload" => sess[Recovery].attempt = 0
  BY ZenonT(30) DEF IInv, SessionInv, SessionShape, Threads
<1>1. CASE ReloadSkipped
  <2>1. /\ sess[Recovery].pc = "reload" /\ Goto(Recovery, "release")
        /\ UNCHANGED <<store, memory, process, history>>
    BY <1>1, ZenonT(30) DEF ReloadSkipped
  <2>2. Owning(Recovery)
    BY <2>1, ZenonT(30) DEF Owning
  <2>3. sess[Recovery].attempt = 0
    BY <1>0, <2>1, ZenonT(30)
  <2>4. ~(sess[Recovery].attempt > 0)
    BY <2>3
  <2> QED BY <1>0, <2>1, <2>2, <2>4, GotoSettles, ZenonT(30)
<1>2. CASE RepairFails
  BY <1>0, <1>2, FaultSettles, Zenon DEF RepairFails, Owning
<1> QED
  BY <1>1, <1>2, ClaimRecoveringSettles, ReloadRecoveringSettles,
     RecoveryErroredSettles, RepairLoadSettles, RepairSaveSettles, Zenon
     DEF RecoveryStep

(* Every step keeps the unfinished rows accounted for *)
LEMMA NextSettles == IInv /\ SInv /\ [Next]_vars => SInv'
<1> SUFFICES ASSUME IInv, SInv, [Next]_vars PROVE SInv'
  OBVIOUS
<1>1. ASSUME NEW t \in Handlers, NEW j \in Jobs, NEW x \in Specs,
             SubmitJob(t, j, x)
      PROVE  SInv'
  BY <1>1, SubmitJobSettles
<1>2. ASSUME NEW t \in Threads, CancelRequest(t) \/ CancelWork(t) PROVE SInv'
  BY <1>2, CancelSettles DEF CancelRequest, CancelWork
<1>3. ASSUME NEW t \in Threads, SessionStep(t) PROVE SInv'
  BY <1>3, SessionStepSettles, ZenonT(30)
<1>4. ASSUME NEW t \in Threads, NEW r \in Response \union {RPCError},
             ResultRefused(t, r)
      PROVE  SInv'
  BY <1>4, NextTrySettles DEF ResultRefused
<1>5. ASSUME NEW t \in Threads, NEW r \in Response, ResultInvalidStatus(t, r)
      PROVE  SInv'
  BY <1>5, ErrorSettles, ZenonT(30) DEF ResultInvalidStatus, Owning
<1>6. ASSUME NEW t \in Threads, NEW r \in Response, ResultCandidate(t, r)
      PROVE  SInv'
  BY <1>6, ResultCandidateSettles
<1>7. ASSUME NEW j \in Jobs, PickRecovering(j) PROVE SInv'
  BY <1>7, PickRecoveringSettles, ZenonT(30)
<1>8. ASSUME UNCHANGED <<store, activeJobs, sess, process, unsettled>>
      PROVE  SInv'
  BY <1>8, SettlesKept, ZenonT(30) DEF SInv, RunningIsOwned, NoZK, restartable,
     validateJobSpec
<1>9. ASSUME NEW j \in Jobs, RecoverRunningJob(j) PROVE SInv'
  BY <1>9, RecoverRunningJobSettles
<1>10. CASE (\E disable \in BOOLEAN : Boot(disable)) \/ Serve \/ BeginShutdown
  BY <1>10, PhaseSettles
<1>11. CASE RecoveryStep
  BY <1>11, RecoveryStepSettles
<1>12. CASE Crash
  BY <1>12, CrashSettles
<1>13. ASSUME NEW j \in Jobs, LeaseExpires(j) PROVE SInv'
  BY <1>8, <1>13 DEF LeaseExpires
<1>14. CASE UNCHANGED vars
  BY <1>8, <1>14 DEF vars
<1> QED
  BY <1>1, <1>2, <1>3, <1>4, <1>5, <1>6, <1>7, <1>9, <1>10, <1>11, <1>12,
     <1>13, <1>14 DEF Next, Threads

(* Unfinished rows keep an owner, and sessions keep to their specification *)
LEMMA Settlement == Spec => []SInv
<1>1. Init => SInv
  <2> SUFFICES ASSUME Init PROVE SInv
    OBVIOUS
  <2>1. phase = "down" /\ \A u \in Threads : sess[u] = Idle
    BY ZenonT(30) DEF Init
  <2>2. \A u \in Threads : Settles(u)
    BY <2>1, IdleSession, ZenonT(30) DEF Settles, Owning
  <2> QED BY <2>1, <2>2 DEF SInv, RunningIsOwned, NoZK
<1> QED BY <1>1, NextSettles, Invariance, PTL DEF Spec

(* A Running row of a serving coordinator has a session that will settle   *)
(* it, unless the last session on the job ended in an internal error.      *)
THEOREM OwnedRunning == Spec => []RunningIsOwned
BY Settlement, PTL DEF SInv

(* checkDisabledZKRecovery and checkZKAvailable together: a coordinator    *)
(* with ZK disabled never holds an unfinished ZK job.                      *)
THEOREM NoZKWhenDisabled == Spec => []DisabledMeansNoZK
<1>1. SInv => DisabledMeansNoZK
  BY DEF SInv, NoZK, DisabledMeansNoZK, unfinishedZK
<1> QED BY <1>1, Settlement, PTL

(* Recovery never runs a job again that a submission finished or moved on  *)
(* since retryRecoveringJobResult picked it.                               *)
THEOREM NeverRerun == Spec => RecoveryNeverReruns
<1> DEFINE A == sess[Recovery].pc = "loop" /\ sess[Recovery].tries = 0
                  /\ sess'[Recovery].pc = "dispatched" =>
                    /\ store[Own(Recovery)].state = "Recovering"
                    /\ store[Own(Recovery)].attempt = sess[Recovery].seen.attempt
                    /\ sess[Recovery].spec = Canon[store[Own(Recovery)].spec]
<1>1. SInv => A
  <2>1. Recovery \in Threads
    BY ZenonT(30) DEF Threads
  <2> QED BY <2>1, ZenonT(30) DEF SInv, Settles, snapshotCurrent
<1>2. SInv /\ [Next]_vars => [A]_vars
  BY <1>1
<1> QED BY <1>2, Settlement, PTL DEF Spec, RecoveryNeverReruns
=============================================================================
