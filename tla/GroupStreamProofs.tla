------------------------- MODULE GroupStreamProofs -------------------------
(***************************************************************************)
(* Proofs about the stream of resource samples (GroupStream).  The recorder *)
(* keeps a running summary and Runner a running peak and minimum; the        *)
(* readers recompute both from the rows.  The invariant says what each       *)
(* running value is a maximum, a minimum or a count of.                      *)
(***************************************************************************)
EXTENDS GroupStream, FiniteSetTheorems, TLAPS

Phases == {"unknown", "readiness", "workload", "cleanup"}

Optional == Nat \cup {None}

Outcomes == {"not_started", "command_success", "command_failed", "interrupted", "timeout",
             "runner_error", "stage_timeout", "rss_stop", "available_stop"}

Row == [status : Statuses, rss : Optional, avail : Nat, phase : Phases, event : Optional,
        site : {"runner_monitor", "cleanup_check"}, start : Nat, end : Nat]

PhaseTally == [samples : Nat, complete : Nat, peak : Optional]

RecorderType ==
    [error : BOOLEAN, statuses : [Statuses -> Nat], phases : [Phases -> PhaseTally],
     monitorPeak : Optional, lastEnd : Optional, maxGap : Optional]

LinkType == [owner : BOOLEAN, seq : {0, 1, 2, 4, 5}, phase : Phases, event : Optional,
             sent : Nat, failed : BOOLEAN]

CoreType == [primary : Outcomes, peak : Nat, minimum : Optional, success : BOOLEAN,
             lost : BOOLEAN]

TypeInv ==
    /\ mode \in {"g3", "g4"} /\ pc \in {"monitor", "cleanup", "close", "done"} /\ now \in Nat
    /\ rows \in Seq(Row) /\ recorder \in RecorderType
    /\ link \in LinkType /\ core \in CoreType

\* m is the greatest (the least) element of S, or None if there is none.
IsMax(m, S) == (S = {} /\ m = None) \/ (m \in S /\ \A x \in S : x <= m)

IsMin(m, S) == (S = {} /\ m = None) \/ (m \in S /\ \A x \in S : m <= x)

\* What the readers look at: the indices of some rows, and their values.
Complete(i) == rows[i].status = "COMPLETE"

OfStatus(s) == {i \in DOMAIN rows : rows[i].status = s}

OfPhase(p) == {i \in DOMAIN rows : rows[i].phase = p}

OfMonitor == {i \in DOMAIN rows : rows[i].site = "runner_monitor"}

Sizes(idx) == {rows[i].rss : i \in {i \in idx : Complete(i)}}

Gaps == {rows[i].start - rows[i - 1].end : i \in DOMAIN rows \ {1}}

Available == {rows[i].avail : i \in {i \in OfMonitor : rows[i].status \in Usable}}

\* The rows follow each other in time, and only the last is not the monitor's.
RowsInv ==
    /\ \A i \in DOMAIN rows : /\ Complete(i) <=> rows[i].rss # None
                              /\ rows[i].start < rows[i].end /\ rows[i].end <= now
                              /\ i > 1 => rows[i - 1].end <= rows[i].start
                              /\ i < Len(rows) => rows[i].site = "runner_monitor"
    /\ pc \in {"monitor", "cleanup"} => \A i \in DOMAIN rows : rows[i].site = "runner_monitor"

\* The recorder's fields are what the auditor derives.
SummaryInv ==
    /\ \A s \in Statuses : recorder.statuses[s] = Cardinality(OfStatus(s))
    /\ \A p \in Phases : /\ recorder.phases[p].samples = Cardinality(OfPhase(p))
                         /\ recorder.phases[p].complete = Cardinality({i \in OfPhase(p) : Complete(i)})
                         /\ IsMax(recorder.phases[p].peak, Sizes(OfPhase(p)))
    /\ IsMax(recorder.monitorPeak, Sizes(OfMonitor))
    /\ IsMax(recorder.maxGap, Gaps)
    /\ recorder.lastEnd = IF rows = <<>> THEN None ELSE rows[Len(rows)].end

\* The phase and the event of a row.
PhasesInv ==
    \A i \in DOMAIN rows :
       /\ rows[i].site = "cleanup_check" =>
             /\ rows[i].phase = "cleanup" /\ rows[i].event \in Nat
             /\ rows[i].event <= rows[i].start
             /\ i > 1 => rows[i - 1].end <= rows[i].event
       /\ rows[i].site = "runner_monitor" /\ mode = "g3" => rows[i].phase = "unknown"
       /\ rows[i].site = "runner_monitor" /\ mode = "g4" =>
             /\ rows[i].phase = IF i = 1 THEN "readiness" ELSE "workload"
             /\ rows[i].event \in Nat /\ rows[i].event <= rows[i].start
             /\ i > 1 => rows[i].event = link.event /\ rows[1].end <= rows[i].event

\* Where the adapter stands with the Supervisor.
LinkInv ==
    /\ mode = "g3" => link.seq = 0 /\ link.phase = "unknown"
    /\ mode = "g4" =>
          /\ link.seq \in {2, 4, 5} => /\ Len(rows) >= 1 /\ Complete(1)
                                       /\ rows[1].site = "runner_monitor"
          /\ link.seq = 5 => /\ Len(rows) >= 2 /\ Complete(2)
                             /\ rows[2].site = "runner_monitor"
          /\ pc = "monitor" =>
                /\ link.seq = 0 => Len(rows) = 0
                /\ link.seq = 2 => Len(rows) = 1 /\ link.sent = rows[1].end
                /\ link.seq = 5 => /\ link.phase = "workload" /\ link.event \in Nat
                                   /\ rows[1].end <= link.event /\ link.event <= now
                /\ link.seq \in {0, 2, 5}

\* What Runner made of the samples that reached it.
DecidedInv ==
    /\ ~core.lost => /\ core.peak = IF recorder.monitorPeak = None THEN 0 ELSE recorder.monitorPeak
                     /\ IsMin(core.minimum, Available)
    /\ pc = "monitor" => core.primary = "not_started" /\ ~recorder.error
    /\ core.primary \in {"not_started", "command_success"} =>
          /\ ~core.lost /\ Triggers = {}
          /\ \A i \in OfMonitor : rows[i].status \in Usable
    /\ \A i \in Triggers : /\ \A j \in OfMonitor : j <= i
                           /\ ~core.lost /\ rows[i].status \in Usable =>
                                 core.primary \in {"rss_stop", "available_stop",
                                                   "runner_error", "stage_timeout"}
    /\ core.primary \in {"rss_stop", "available_stop"} =>
          \E i \in Triggers : RowReason(rows[i]) = core.primary
    /\ core.success => core.primary = "command_success"

IInv == TypeInv /\ RowsInv /\ SummaryInv /\ PhasesInv /\ LinkInv /\ DecidedInv

(***************************************************************************)
(* The operators of the model.                                             *)
(***************************************************************************)
LEMMA TheConstants ==
    /\ MaxSamples \in Nat /\ Rss \subseteq Nat /\ Avail \subseteq Nat
    /\ RssStop \in Nat /\ AvailableStop \in Nat /\ EscalationStop \in Nat
    /\ None \notin Nat /\ None \in Int
  BY StreamAssumption DEF None

LEMMA RowFields ==
    \A r \in Row : /\ r.status \in Statuses /\ r.rss \in Optional /\ r.avail \in Nat
                  /\ r.phase \in Phases /\ r.event \in Optional
                  /\ r.site \in {"runner_monitor", "cleanup_check"}
                  /\ r.start \in Nat /\ r.end \in Nat
  BY Zenon DEF Row

\* Max and Min pick the greatest and the least element, if there is one.
LEMMA MaxIs ==
    ASSUME NEW S, S \subseteq Nat, NEW m \in S, \A x \in S : x <= m
    PROVE  Max(S) = m
<1>1. m \in S /\ \A y \in S : m >= y
  OBVIOUS
<1>2. ASSUME NEW x \in S, \A y \in S : x >= y
      PROVE  x = m
  BY <1>2
<1> QED BY <1>1, <1>2, Zenon DEF Max

LEMMA MinIs ==
    ASSUME NEW S, S \subseteq Nat, NEW m \in S, \A x \in S : m <= x
    PROVE  Min(S) = m
<1>1. m \in S /\ \A y \in S : m <= y
  OBVIOUS
<1>2. ASSUME NEW x \in S, \A y \in S : x <= y
      PROVE  x = m
  BY <1>2
<1> QED BY <1>1, <1>2, Zenon DEF Min

LEMMA MaxOrNoneIs ==
    ASSUME NEW S, S \subseteq Nat, NEW m, IsMax(m, S)
    PROVE  MaxOrNone(S) = m
  BY MaxIs, Zenon DEF MaxOrNone, IsMax

\* Raising a running maximum, and lowering a running minimum, by one value.
LEMMA MaxOfTwo ==
    ASSUME NEW a \in Nat, NEW b \in Nat
    PROVE  /\ Max({a, b}) = IF a >= b THEN a ELSE b
           /\ Min({a, b}) = IF a >= b THEN b ELSE a
<1>1. CASE a >= b
  BY <1>1, MaxIs, MinIs
<1>2. CASE ~(a >= b)
  BY <1>2, MaxIs, MinIs
<1> QED BY <1>1, <1>2

LEMMA RaiseIsMax ==
    ASSUME NEW S, S \subseteq Nat, NEW m, IsMax(m, S), NEW x \in Nat
    PROVE  IsMax(Raise(m, x), S \cup {x}) /\ Raise(m, x) \in Nat
<1>1. CASE S = {}
  <2>1. m = None
    BY <1>1 DEF IsMax
  <2> QED BY <1>1, <2>1 DEF IsMax, Raise
<1>2. CASE S # {}
  <2>1. m \in S /\ m \in Nat /\ m # None /\ \A y \in S : y <= m
    BY <1>2, TheConstants, Zenon DEF IsMax
  <2>2. Raise(m, x) = IF m >= x THEN m ELSE x
    BY <2>1, MaxOfTwo DEF Raise
  <2> QED BY <2>1, <2>2 DEF IsMax
<1> QED BY <1>1, <1>2

LEMMA LowerIsMin ==
    ASSUME NEW S, S \subseteq Nat, NEW m, IsMin(m, S), NEW x \in Nat
    PROVE  LET l == IF m = None THEN x ELSE Min({m, x})
           IN IsMin(l, S \cup {x}) /\ l \in Nat
<1>1. CASE S = {}
  <2>1. m = None
    BY <1>1 DEF IsMin
  <2> QED BY <1>1, <2>1 DEF IsMin
<1>2. CASE S # {}
  <2>1. m \in S /\ m \in Nat /\ m # None /\ \A y \in S : m <= y
    BY <1>2, TheConstants, Zenon DEF IsMin
  <2>2. Min({m, x}) = IF m >= x THEN x ELSE m
    BY <2>1, MaxOfTwo
  <2> QED BY <2>1, <2>2 DEF IsMin
<1> QED BY <1>1, <1>2

\* What append() leaves in the recorder's fields.
LEMMA TalliedFields ==
    ASSUME NEW r \in RecorderType, NEW row \in Row
    PROVE  LET t == Tallied(r, row)
               whole == row.status = "COMPLETE"
           IN /\ DOMAIN t = DOMAIN r /\ t.error = r.error
              /\ t.statuses = [r.statuses EXCEPT ![row.status] = @ + 1]
              /\ t.phases = [r.phases EXCEPT ![row.phase] =
                               [samples |-> @.samples + 1,
                                complete |-> IF whole THEN @.complete + 1 ELSE @.complete,
                                peak |-> IF whole THEN Raise(@.peak, row.rss) ELSE @.peak]]
              /\ t.monitorPeak = IF whole /\ row.site = "runner_monitor"
                                 THEN Raise(r.monitorPeak, row.rss) ELSE r.monitorPeak
              /\ t.maxGap = IF r.lastEnd = None THEN r.maxGap
                            ELSE Raise(r.maxGap, row.start - r.lastEnd)
              /\ t.lastEnd = row.end
  BY DEF Tallied, RecorderType, PhaseTally, Row

\* A row that is appended becomes the last one.
LEMMA Appended ==
    ASSUME rows \in Seq(Row), NEW row \in Row, rows' = Append(rows, row)
    PROVE  /\ rows' \in Seq(Row) /\ Len(rows) \in Nat /\ Len(rows') = Len(rows) + 1
           /\ DOMAIN rows = 1..Len(rows) /\ DOMAIN rows' = DOMAIN rows \cup {Len(rows) + 1}
           /\ Len(rows) + 1 \notin DOMAIN rows /\ rows'[Len(rows) + 1] = row
           /\ \A i \in DOMAIN rows : rows'[i] = rows[i] /\ rows[i] \in Row
  OBVIOUS

\* The indices a reader selects, after a row was appended.
LEMMA SelectedAppended ==
    ASSUME rows \in Seq(Row), NEW row \in Row, rows' = Append(rows, row),
           NEW I, I \subseteq DOMAIN rows, NEW J,
           J = I \/ J = I \cup {Len(rows) + 1}
    PROVE  /\ IsFiniteSet(I) /\ Cardinality(I) \in Nat
           /\ Cardinality(J) = Cardinality(I) + IF J = I THEN 0 ELSE 1
<1>1. Len(rows) \in Nat /\ DOMAIN rows = 1..Len(rows) /\ Len(rows) + 1 \notin I
  BY Appended
<1>2. IsFiniteSet(1..Len(rows))
  BY <1>1, FS_Interval
<1>3. IsFiniteSet(I) /\ Cardinality(I) \in Nat
  BY <1>1, <1>2, FS_Subset, FS_CardinalityType
<1>4. CASE J = I
  BY <1>3, <1>4
<1>5. CASE J = I \cup {Len(rows) + 1} /\ J # I
  BY <1>1, <1>3, <1>5, FS_AddElement, Zenon
<1> QED BY <1>4, <1>5

LEMMA SetsAppended ==
    ASSUME rows \in Seq(Row), NEW row \in Row, rows' = Append(rows, row)
    PROVE  LET n == Len(rows) + 1
           IN /\ \A s : OfStatus(s)' = IF row.status = s THEN OfStatus(s) \cup {n} ELSE OfStatus(s)
              /\ \A p : OfPhase(p)' = IF row.phase = p THEN OfPhase(p) \cup {n} ELSE OfPhase(p)
              /\ OfMonitor' = IF row.site = "runner_monitor" THEN OfMonitor \cup {n} ELSE OfMonitor
<1> DEFINE n == Len(rows) + 1
<1>1. /\ DOMAIN rows' = DOMAIN rows \cup {n} /\ n \notin DOMAIN rows /\ rows'[n] = row
      /\ \A i \in DOMAIN rows : rows'[i] = rows[i]
  BY Appended
<1> HIDE DEF n
<1>2. ASSUME NEW s
      PROVE  OfStatus(s)' = IF row.status = s THEN OfStatus(s) \cup {n} ELSE OfStatus(s)
  BY <1>1 DEF OfStatus
<1>3. ASSUME NEW p
      PROVE  OfPhase(p)' = IF row.phase = p THEN OfPhase(p) \cup {n} ELSE OfPhase(p)
  BY <1>1 DEF OfPhase
<1>4. OfMonitor' = IF row.site = "runner_monitor" THEN OfMonitor \cup {n} ELSE OfMonitor
  BY <1>1 DEF OfMonitor
<1> QED BY <1>2, <1>3, <1>4 DEF n

\* The sizes of the COMPLETE rows among a set of rows.
LEMMA SizesAppended ==
    ASSUME rows \in Seq(Row), NEW row \in Row, rows' = Append(rows, row),
           NEW I, I \subseteq DOMAIN rows, NEW J,
           J = I \/ J = I \cup {Len(rows) + 1}
    PROVE  {rows'[i].rss : i \in {i \in J : rows'[i].status = "COMPLETE"}} =
              IF J # I /\ row.status = "COMPLETE" THEN Sizes(I) \cup {row.rss} ELSE Sizes(I)
<1> DEFINE n == Len(rows) + 1
<1>1. /\ n \notin I /\ rows'[n] = row /\ \A i \in I : rows'[i] = rows[i]
  BY Appended
<1>3. Sizes(I) = {rows[i].rss : i \in {i \in I : rows[i].status = "COMPLETE"}}
  BY DEF Sizes, Complete
<1> HIDE DEF n
<1>4. {i \in J : rows'[i].status = "COMPLETE"} =
      {i \in I : rows[i].status = "COMPLETE"} \cup
         (IF J # I /\ row.status = "COMPLETE" THEN {n} ELSE {})
  BY <1>1 DEF n
<1> DEFINE K == {i \in I : rows[i].status = "COMPLETE"}
           L == {i \in J : rows'[i].status = "COMPLETE"}
<1>5. K \subseteq I
  OBVIOUS
<1>6. CASE J # I /\ row.status = "COMPLETE"
  <2>1. L = K \cup {n}
    BY <1>4, <1>6
  <2> HIDE DEF K, L
  <2>2. {rows'[i].rss : i \in L} = {rows[i].rss : i \in K} \cup {row.rss}
    BY <1>1, <1>5, <2>1, Zenon
  <2> QED BY <1>3, <1>6, <2>2 DEF K, L
<1>7. CASE ~(J # I /\ row.status = "COMPLETE")
  <2>1. L = K
    BY <1>4, <1>7
  <2> HIDE DEF K, L
  <2>2. {rows'[i].rss : i \in L} = {rows[i].rss : i \in K}
    BY <1>1, <1>5, <2>1, Zenon
  <2> QED BY <1>3, <1>7, <2>2 DEF K, L
<1> QED BY <1>6, <1>7

\* The time between one row and the next.
LEMMA GapsAppended ==
    ASSUME rows \in Seq(Row), NEW row \in Row, rows' = Append(rows, row)
    PROVE  Gaps' = IF rows = <<>> THEN Gaps ELSE Gaps \cup {row.start - rows[Len(rows)].end}
<1> DEFINE n == Len(rows) + 1
           D == DOMAIN rows \ {1}
<1>1. /\ Len(rows) \in Nat /\ DOMAIN rows = 1..Len(rows) /\ DOMAIN rows' = DOMAIN rows \cup {n}
      /\ rows'[n] = row /\ \A i \in DOMAIN rows : rows'[i] = rows[i]
      /\ rows = <<>> <=> Len(rows) = 0
  BY Appended
<1> DEFINE was(i) == rows[i].start - rows[i - 1].end
           is(i) == rows'[i].start - rows'[i - 1].end
<1>2. \A i \in D : is(i) = was(i)
  BY <1>1
<1>3. Gaps' = {is(i) : i \in DOMAIN rows' \ {1}} /\ Gaps = {was(i) : i \in D}
  BY DEF Gaps
<1>4. CASE rows = <<>>
  <2>1. DOMAIN rows' \ {1} = D
    BY <1>1, <1>4
  <2> HIDE DEF D, was, is
  <2> QED BY <1>2, <1>3, <1>4, <2>1, Zenon
<1>5. CASE rows # <<>>
  <2>1. DOMAIN rows' \ {1} = D \cup {n} /\ n - 1 = Len(rows) /\ Len(rows) \in DOMAIN rows
    BY <1>1, <1>5
  <2>2. is(n) = row.start - rows[Len(rows)].end
    BY <1>1, <2>1
  <2> HIDE DEF D, n, was, is
  <2>3. {is(i) : i \in D \cup {n}} = {was(i) : i \in D} \cup {is(n)}
    BY <1>2, Zenon
  <2> QED BY <1>3, <1>5, <2>1, <2>2, <2>3, Zenon
<1> QED BY <1>4, <1>5

\* The recorder stays the auditor's summary when a row is stored.
LEMMA SummaryKept ==
    ASSUME TypeInv, RowsInv, SummaryInv, NEW row \in Row,
           row.status = "COMPLETE" <=> row.rss # None,
           rows # <<>> => rows[Len(rows)].end <= row.start,
           rows' = Append(rows, row), recorder' = Tallied(recorder, row)
    PROVE  SummaryInv' /\ recorder' \in RecorderType
<1> DEFINE n == Len(rows) + 1
           whole == row.status = "COMPLETE"
<1>0. /\ rows \in Seq(Row) /\ recorder \in RecorderType
      /\ row.status \in Statuses /\ row.phase \in Phases /\ (whole => row.rss \in Nat)
  BY TheConstants DEF TypeInv, Row, Optional
<1>1. /\ recorder'.error = recorder.error
      /\ recorder'.statuses = [recorder.statuses EXCEPT ![row.status] = @ + 1]
      /\ recorder'.phases = [recorder.phases EXCEPT ![row.phase] =
                       [samples |-> @.samples + 1,
                        complete |-> IF whole THEN @.complete + 1 ELSE @.complete,
                        peak |-> IF whole THEN Raise(@.peak, row.rss) ELSE @.peak]]
      /\ recorder'.monitorPeak = IF whole /\ row.site = "runner_monitor"
                         THEN Raise(recorder.monitorPeak, row.rss) ELSE recorder.monitorPeak
      /\ recorder'.maxGap = IF recorder.lastEnd = None THEN recorder.maxGap
                            ELSE Raise(recorder.maxGap, row.start - recorder.lastEnd)
      /\ recorder'.lastEnd = row.end
  BY <1>0, TalliedFields
<1>2. /\ rows' \in Seq(Row) /\ Len(rows) \in Nat /\ Len(rows') = n
      /\ DOMAIN rows = 1..Len(rows) /\ DOMAIN rows' = DOMAIN rows \cup {n}
      /\ n \notin DOMAIN rows /\ rows'[n] = row
      /\ \A i \in DOMAIN rows : rows'[i] = rows[i] /\ rows[i] \in Row
  BY <1>0, Appended
<1>3. \A s \in Statuses : recorder'.statuses[s] = Cardinality(OfStatus(s)')
  <2> SUFFICES ASSUME NEW s \in Statuses
               PROVE  recorder'.statuses[s] = Cardinality(OfStatus(s)')
    OBVIOUS
  <2>1. recorder'.statuses[s] = IF s = row.status THEN recorder.statuses[s] + 1 ELSE recorder.statuses[s]
    BY <1>0, <1>1 DEF RecorderType
  <2>2. OfStatus(s) \subseteq DOMAIN rows /\ recorder.statuses[s] = Cardinality(OfStatus(s))
    BY DEF OfStatus, SummaryInv
  <2>3. OfStatus(s)' = IF row.status = s THEN OfStatus(s) \cup {n} ELSE OfStatus(s)
    BY <1>0, SetsAppended
  <2>4. /\ Cardinality(OfStatus(s)) \in Nat /\ n \notin OfStatus(s)
        /\ Cardinality(OfStatus(s)') =
              Cardinality(OfStatus(s)) + IF OfStatus(s)' = OfStatus(s) THEN 0 ELSE 1
    BY <1>0, <1>2, <2>2, <2>3, SelectedAppended
  <2> QED BY <2>1, <2>2, <2>3, <2>4
<1>4. ASSUME NEW I, I \subseteq DOMAIN rows, NEW m \in Optional, IsMax(m, Sizes(I)),
             NEW b \in BOOLEAN, NEW J, J = IF b THEN I \cup {n} ELSE I,
             NEW k, k = IF b /\ whole THEN Raise(m, row.rss) ELSE m
      PROVE  /\ IsMax(k, {rows'[i].rss : i \in {i \in J : rows'[i].status = "COMPLETE"}})
             /\ k \in Optional
  <2>1. Sizes(I) \subseteq Nat
    <3>1. ASSUME NEW i \in I, Complete(i)
          PROVE  rows[i].rss \in Nat
      <4>1. rows[i] \in Row /\ rows[i].rss # None
        BY <1>2, <1>4, <3>1 DEF RowsInv, Complete
      <4> QED BY <4>1 DEF Row, Optional
    <3> QED BY <3>1 DEF Sizes
  <2>2. (J # I <=> b) /\ (J = I \/ J = I \cup {n})
    BY <1>2, <1>4
  <2>3. {rows'[i].rss : i \in {i \in J : rows'[i].status = "COMPLETE"}} =
           IF b /\ whole THEN Sizes(I) \cup {row.rss} ELSE Sizes(I)
    BY <1>0, <1>4, <2>2, SizesAppended
  <2>4. CASE b /\ whole
    <3>1. IsMax(Raise(m, row.rss), Sizes(I) \cup {row.rss}) /\ Raise(m, row.rss) \in Nat
      BY <1>0, <1>4, <2>1, <2>4, RaiseIsMax, Zenon
    <3> QED BY <1>4, <2>3, <2>4, <3>1, Zenon DEF Optional
  <2>5. CASE ~(b /\ whole)
    BY <1>4, <2>3, <2>5, Zenon
  <2> QED BY <2>4, <2>5, Zenon
<1>5. ASSUME NEW p \in Phases
      PROVE  /\ recorder'.phases[p] \in PhaseTally
             /\ recorder'.phases[p].samples = Cardinality(OfPhase(p)')
             /\ recorder'.phases[p].complete = Cardinality({i \in OfPhase(p) : Complete(i)}')
             /\ IsMax(recorder'.phases[p].peak, Sizes(OfPhase(p))')
  <2> DEFINE I == OfPhase(p)
             K == {i \in I : Complete(i)}
             t == recorder.phases[p]
             u == recorder'.phases[p]
  <2>1. /\ t \in PhaseTally /\ I \subseteq DOMAIN rows /\ K \subseteq DOMAIN rows
        /\ t.samples = Cardinality(I) /\ t.complete = Cardinality(K) /\ IsMax(t.peak, Sizes(I))
    BY <1>0, Zenon DEF RecorderType, OfPhase, SummaryInv
  <2>2. I' = IF row.phase = p THEN I \cup {n} ELSE I
    BY <1>0, SetsAppended
  <2>3. K' = IF row.phase = p /\ whole THEN K \cup {n} ELSE K
    <3>1. K' = {i \in I' : rows'[i].status = "COMPLETE"}
      BY DEF Complete
    <3>2. K = {i \in I : rows[i].status = "COMPLETE"}
      BY DEF Complete
    <3> HIDE DEF I, K, n
    <3>3. \A i \in I : i \in DOMAIN rows /\ rows'[i] = rows[i]
      BY <1>2, <2>1
    <3> QED BY <1>2, <2>2, <3>1, <3>2, <3>3
  <2>4. u = IF p = row.phase
            THEN [samples |-> t.samples + 1,
                  complete |-> IF whole THEN t.complete + 1 ELSE t.complete,
                  peak |-> IF whole THEN Raise(t.peak, row.rss) ELSE t.peak]
            ELSE t
    BY <1>0, <1>1 DEF RecorderType
  <2>5. Sizes(I)' = {rows'[i].rss : i \in {i \in I' : rows'[i].status = "COMPLETE"}}
    BY DEF Sizes, Complete
  <2>6. n \notin I /\ n \notin K
    BY <1>2, <2>1
  <2> HIDE DEF I, K, t, u, n
  <2>7. t.peak \in Optional /\ (row.phase = p) \in BOOLEAN
    BY <2>1 DEF PhaseTally
  <2>8. /\ IsMax(IF row.phase = p /\ whole THEN Raise(t.peak, row.rss) ELSE t.peak, Sizes(I)')
        /\ (IF row.phase = p /\ whole THEN Raise(t.peak, row.rss) ELSE t.peak) \in Optional
    <3> DEFINE b == row.phase = p
               k == IF b /\ whole THEN Raise(t.peak, row.rss) ELSE t.peak
               J == I'
    <3>1. b \in BOOLEAN /\ J = IF b THEN I \cup {n} ELSE I
      BY <2>2, <2>7
    <3>2. k = IF b /\ whole THEN Raise(t.peak, row.rss) ELSE t.peak
      OBVIOUS
    <3>3. Sizes(I)' = {rows'[i].rss : i \in {i \in J : rows'[i].status = "COMPLETE"}}
      BY <2>5
    <3> HIDE DEF b, k, J, whole
    <3>4. /\ IsMax(k, {rows'[i].rss : i \in {i \in J : rows'[i].status = "COMPLETE"}})
          /\ k \in Optional
      BY <1>4, <2>1, <2>7, <3>1, <3>2, Zenon
    <3> QED BY <3>3, <3>4, Zenon DEF b, k
  <2>9. /\ Cardinality(I') = Cardinality(I) + IF I' = I THEN 0 ELSE 1
        /\ Cardinality(K') = Cardinality(K) + IF K' = K THEN 0 ELSE 1
        /\ Cardinality(I) \in Nat /\ Cardinality(K) \in Nat
    BY <1>0, <2>1, <2>2, <2>3, SelectedAppended, ZenonT(30) DEF n
  <2>10. u \in PhaseTally
    BY <2>1, <2>4, <2>8 DEF PhaseTally, Optional
  <2>11. /\ u.samples = Cardinality(I') /\ u.complete = Cardinality(K')
    BY <2>1, <2>2, <2>3, <2>4, <2>6, <2>9
  <2>12. IsMax(u.peak, Sizes(I)')
    <3>1. u.peak = IF row.phase = p /\ whole THEN Raise(t.peak, row.rss) ELSE t.peak
      BY <2>4
    <3> QED BY <2>8, <3>1, Zenon
  <2> QED BY <2>10, <2>11, <2>12 DEF I, K, u
<1>6. IsMax(recorder'.monitorPeak, Sizes(OfMonitor)') /\ recorder'.monitorPeak \in Optional
  <2> DEFINE I == OfMonitor
             J == I'
             b == row.site = "runner_monitor"
             m == recorder.monitorPeak
             k == recorder'.monitorPeak
  <2>1. I \subseteq DOMAIN rows /\ IsMax(m, Sizes(I)) /\ m \in Optional
    BY <1>0 DEF OfMonitor, SummaryInv, RecorderType
  <2>2. b \in BOOLEAN /\ J = IF b THEN I \cup {n} ELSE I
    BY <1>0, SetsAppended
  <2>3. k = IF b /\ whole THEN Raise(m, row.rss) ELSE m
    BY <1>1
  <2>4. Sizes(I)' = {rows'[i].rss : i \in {i \in J : rows'[i].status = "COMPLETE"}}
    BY DEF Sizes, Complete
  <2> HIDE DEF I, J, b, m, k, whole, n
  <2>5. /\ IsMax(k, {rows'[i].rss : i \in {i \in J : rows'[i].status = "COMPLETE"}})
        /\ k \in Optional
    BY <1>4, <2>1, <2>2, <2>3, Zenon
  <2> QED BY <2>4, <2>5, Zenon DEF I, k
<1>7. /\ IsMax(recorder'.maxGap, Gaps') /\ recorder'.maxGap \in Optional
      /\ recorder'.lastEnd = rows'[Len(rows')].end /\ recorder'.lastEnd \in Optional
  <2>1. /\ IsMax(recorder.maxGap, Gaps) /\ recorder.maxGap \in Optional
        /\ recorder.lastEnd = IF rows = <<>> THEN None ELSE rows[Len(rows)].end
    BY <1>0 DEF SummaryInv, RecorderType
  <2>2. Gaps' = IF rows = <<>> THEN Gaps ELSE Gaps \cup {row.start - rows[Len(rows)].end}
    BY <1>0, GapsAppended
  <2>3. Gaps \subseteq Nat
    <3> SUFFICES ASSUME NEW i \in DOMAIN rows \ {1}
                 PROVE  rows[i].start - rows[i - 1].end \in Nat
      BY DEF Gaps
    <3>1. i \in 1..Len(rows) /\ i > 1 /\ i - 1 \in DOMAIN rows
      BY <1>2
    <3>2. rows[i - 1].end <= rows[i].start /\ rows[i].start \in Nat /\ rows[i - 1].end \in Nat
      BY <1>2, <3>1 DEF RowsInv, Row
    <3> QED BY <3>2
  <2>4. recorder'.lastEnd = rows'[Len(rows')].end /\ recorder'.lastEnd \in Optional
    BY <1>1, <1>2 DEF Row, Optional
  <2>5. CASE rows = <<>>
    BY <1>1, <2>1, <2>2, <2>4, <2>5, ZenonT(30)
  <2>6. CASE rows # <<>>
    <3> DEFINE d == rows[Len(rows)].end
               g == row.start - d
    <3>1. Len(rows) \in DOMAIN rows
      BY <1>2, <2>6
    <3>2. d \in Nat /\ g \in Nat
      <4>1. d \in Nat /\ row.start \in Nat
        BY <1>2, <3>1, RowFields, Zenon
      <4>2. d <= row.start
        BY <2>6
      <4> HIDE DEF d
      <4> QED BY <4>1, <4>2
    <3>3. recorder.lastEnd = d /\ recorder.lastEnd # None
      BY <2>1, <2>6, <3>2, TheConstants, ZenonT(30)
    <3>4. recorder'.maxGap = Raise(recorder.maxGap, g)
      BY <1>1, <3>3
    <3> HIDE DEF d, g
    <3>5. IsMax(Raise(recorder.maxGap, g), Gaps \cup {g}) /\ Raise(recorder.maxGap, g) \in Nat
      BY <2>1, <2>3, <3>2, RaiseIsMax, Zenon
    <3> QED BY <2>2, <2>4, <2>6, <3>4, <3>5 DEF d, g, Optional
  <2> QED BY <2>5, <2>6
<1>8. recorder' \in RecorderType
  <2>1. DOMAIN recorder' = DOMAIN recorder
    BY <1>0, TalliedFields, Zenon
  <2>2. recorder'.statuses \in [Statuses -> Nat]
    BY <1>0, <1>1 DEF RecorderType
  <2>3. recorder'.phases \in [Phases -> PhaseTally]
    BY <1>0, <1>1, <1>5, Zenon DEF RecorderType
  <2>4. recorder' = [error |-> recorder'.error, statuses |-> recorder'.statuses,
                     phases |-> recorder'.phases, monitorPeak |-> recorder'.monitorPeak,
                     lastEnd |-> recorder'.lastEnd, maxGap |-> recorder'.maxGap]
    BY <1>0, Zenon DEF Tallied, RecorderType
  <2> QED BY <1>0, <1>1, <1>6, <1>7, <2>2, <2>3, <2>4, Zenon DEF RecorderType
<1>9. rows' # <<>>
  BY <1>2
<1>10. \A s \in Statuses : (recorder.statuses[s] = Cardinality(OfStatus(s)))'
  BY <1>3
<1> QED BY <1>5, <1>6, <1>7, <1>8, <1>9, <1>10, Zenon DEF SummaryInv

LEMMA RowAt ==
    ASSUME NEW t \in Nat, NEW phase \in Phases, NEW event \in Optional,
           NEW site \in {"runner_monitor", "cleanup_check"}, NEW row \in RowsAt(t, phase, event, site)
    PROVE  /\ row \in Row /\ row.phase = phase /\ row.event = event /\ row.site = site
           /\ row.status = "COMPLETE" <=> row.rss # None
           /\ t <= row.start /\ row.end = row.start + 1
<1> DEFINE R == [status : Statuses, rss : Rss \cup {None}, avail : Avail, phase : {phase},
                 event : {event}, site : {site}, start : {t, t + 1}, end : {t + 1, t + 2}]
<1>1. /\ row \in R /\ (row.status = "COMPLETE" <=> row.rss # None) /\ row.end = row.start + 1
  BY Zenon DEF RowsAt
<1>2. /\ Rss \cup {None} \subseteq Optional /\ Avail \subseteq Nat
      /\ {t, t + 1} \subseteq Nat /\ {t + 1, t + 2} \subseteq Nat
  BY TheConstants DEF Optional
<1>3. row \in Row
  BY <1>1, <1>2, Zenon DEF Row
<1>4. row.phase = phase /\ row.event = event /\ row.site = site /\ row.start \in {t, t + 1}
  BY <1>1
<1> QED BY <1>1, <1>3, <1>4

\* The rows and the summary after a row was stored.
LEMMA RowStored ==
    ASSUME IInv, pc \in {"monitor", "cleanup"}, NEW row \in Row,
           row.status = "COMPLETE" <=> row.rss # None,
           now <= row.start, row.end = row.start + 1, now' = row.end,
           rows' = Append(rows, row), recorder' = Tallied(recorder, row),
           pc' \in {"monitor", "cleanup"} => row.site = "runner_monitor"
    PROVE  /\ RowsInv' /\ SummaryInv' /\ now' \in Nat
           /\ rows' \in Seq(Row) /\ recorder' \in RecorderType
<1> DEFINE n == Len(rows) + 1
<1>1. rows \in Seq(Row) /\ now \in Nat /\ row.start \in Nat /\ row.end \in Nat
  BY DEF IInv, TypeInv, Row
<1>2. /\ rows' \in Seq(Row) /\ Len(rows) \in Nat /\ Len(rows') = n
      /\ DOMAIN rows = 1..Len(rows) /\ DOMAIN rows' = DOMAIN rows \cup {n}
      /\ n \notin DOMAIN rows /\ rows'[n] = row
      /\ \A i \in DOMAIN rows : rows'[i] = rows[i] /\ rows[i] \in Row
  BY <1>1, Appended
<1>3. \A i \in DOMAIN rows : /\ rows[i].status = "COMPLETE" <=> rows[i].rss # None
                             /\ rows[i].start < rows[i].end /\ rows[i].end <= now
                             /\ i > 1 => rows[i - 1].end <= rows[i].start
                             /\ rows[i].site = "runner_monitor"
  BY DEF IInv, RowsInv, Complete
<1>4. rows # <<>> => rows[Len(rows)].end <= row.start
  <2>1. rows # <<>> => Len(rows) \in DOMAIN rows
    BY <1>2
  <2>2. rows # <<>> => rows[Len(rows)].end \in Nat /\ rows[Len(rows)].end <= now
    BY <1>2, <1>3, <2>1, RowFields, Zenon
  <2> QED BY <1>1, <2>2
<1>5. SummaryInv' /\ recorder' \in RecorderType
  BY <1>4, SummaryKept DEF IInv
<1>6. ASSUME NEW i \in DOMAIN rows'
      PROVE  /\ rows'[i].status = "COMPLETE" <=> rows'[i].rss # None
             /\ rows'[i].start < rows'[i].end /\ rows'[i].end <= now'
             /\ i > 1 => rows'[i - 1].end <= rows'[i].start
             /\ i < Len(rows') => rows'[i].site = "runner_monitor"
             /\ pc' \in {"monitor", "cleanup"} => rows'[i].site = "runner_monitor"
  <2>1. CASE i = n
    <3>1. rows'[i] = row /\ ~(i < Len(rows'))
      BY <1>2, <2>1
    <3>0. i > 1 => i - 1 = Len(rows) /\ Len(rows) \in DOMAIN rows /\ Len(rows) # 0
      BY <1>2, <2>1
    <3>2. i > 1 => rows'[i - 1] = rows[Len(rows)] /\ rows # <<>>
      BY <1>2, <3>0
    <3> QED BY <1>1, <1>4, <3>1, <3>2
  <2>2. CASE i \in DOMAIN rows
    <3>0. i > 1 => i - 1 \in DOMAIN rows
      BY <1>2, <2>2
    <3>1. rows'[i] = rows[i] /\ rows[i].end \in Nat /\ (i > 1 => rows'[i - 1] = rows[i - 1])
      BY <1>2, <2>2, <3>0, RowFields, Zenon
    <3>2. rows[i].end <= now'
      BY <1>1, <1>3, <2>2, <3>1
    <3> QED BY <1>3, <2>2, <3>1, <3>2
  <2> QED BY <1>2, <2>1, <2>2
<1>7. RowsInv'
  BY <1>6 DEF RowsInv, Complete
<1> QED BY <1>1, <1>2, <1>5, <1>7

LEMMA PhasesStored ==
    ASSUME IInv, pc \in {"monitor", "cleanup"}, NEW row \in Row,
           rows' = Append(rows, row), UNCHANGED mode,
           link'.event = link.event \/ Len(rows) <= 1,
           row.site = "cleanup_check" => /\ row.phase = "cleanup" /\ row.event \in Nat
                                         /\ row.event <= row.start /\ now <= row.event,
           row.site = "runner_monitor" /\ mode = "g3" => row.phase = "unknown",
           row.site = "runner_monitor" /\ mode = "g4" =>
              /\ row.phase = IF Len(rows) = 0 THEN "readiness" ELSE "workload"
              /\ row.event \in Nat /\ row.event <= row.start
              /\ Len(rows) > 0 => row.event = link'.event /\ rows[1].end <= row.event
    PROVE  PhasesInv'
<1> DEFINE n == Len(rows) + 1
<1>1. rows \in Seq(Row) /\ now \in Nat
  BY Zenon DEF IInv, TypeInv
<1>2. /\ Len(rows) \in Nat /\ DOMAIN rows = 1..Len(rows) /\ DOMAIN rows' = DOMAIN rows \cup {n}
      /\ n \notin DOMAIN rows /\ rows'[n] = row
      /\ \A i \in DOMAIN rows : rows'[i] = rows[i] /\ rows[i] \in Row
  BY <1>1, Appended
<1>3. \A i \in DOMAIN rows : rows[i].site = "runner_monitor" /\ rows[i].end <= now
  BY DEF IInv, RowsInv
<1>4. \A i \in DOMAIN rows : i > 1 => rows'[1] = rows[1]
  BY <1>2
<1>5. \A i \in DOMAIN rows : i > 1 => link'.event = link.event
  BY <1>2
<1> SUFFICES ASSUME NEW i \in DOMAIN rows'
    PROVE
       /\ rows'[i].site = "cleanup_check" =>
             /\ rows'[i].phase = "cleanup" /\ rows'[i].event \in Nat
             /\ rows'[i].event <= rows'[i].start
             /\ i > 1 => rows'[i - 1].end <= rows'[i].event
       /\ rows'[i].site = "runner_monitor" /\ mode = "g3" => rows'[i].phase = "unknown"
       /\ rows'[i].site = "runner_monitor" /\ mode = "g4" =>
             /\ rows'[i].phase = IF i = 1 THEN "readiness" ELSE "workload"
             /\ rows'[i].event \in Nat /\ rows'[i].event <= rows'[i].start
             /\ i > 1 => rows'[i].event = link'.event /\ rows'[1].end <= rows'[i].event
  BY DEF PhasesInv
<1>6. CASE i \in DOMAIN rows
  <2>1. rows'[i] = rows[i] /\ rows[i].site = "runner_monitor"
    BY <1>2, <1>3, <1>6
  <2>2. /\ mode = "g3" => rows[i].phase = "unknown"
        /\ mode = "g4" =>
             /\ rows[i].phase = IF i = 1 THEN "readiness" ELSE "workload"
             /\ rows[i].event \in Nat /\ rows[i].event <= rows[i].start
             /\ i > 1 => rows[i].event = link.event /\ rows[1].end <= rows[i].event
    BY <1>6, <2>1 DEF IInv, PhasesInv
  <2> QED BY <1>4, <1>5, <1>6, <2>1, <2>2
<1>7. CASE i = n
  <2>1. rows'[i] = row /\ (i > 1 => i - 1 = Len(rows) /\ Len(rows) \in DOMAIN rows /\ 1 \in DOMAIN rows)
    BY <1>2, <1>7
  <2>2. i > 1 => rows'[i - 1].end <= now /\ rows'[i - 1].end \in Nat
    BY <1>2, <1>3, <2>1 DEF Row
  <2>3. i > 1 => rows'[1] = rows[1] /\ Len(rows) > 0
    BY <1>2, <2>1
  <2>4. i = 1 <=> Len(rows) = 0
    BY <1>2, <1>7
  <2>5. row.site = "cleanup_check" => (i > 1 => rows'[i - 1].end <= row.event)
    BY <1>1, <2>2
  <2>6. i > 1 \/ i = 1
    BY <1>2, <1>7
  <2> QED BY <2>1, <2>3, <2>4, <2>5, <2>6
<1> QED BY <1>2, <1>6, <1>7

\* MonitorRows is the same set of indices, before and after a step.
LEMMA MonitorRowsAre == MonitorRows = OfMonitor /\ (MonitorRows = OfMonitor)'
  BY DEF MonitorRows, Indices, OfMonitor

\* The link that the next sample is taken with.
LEMMA NextLink ==
    ASSUME IInv, pc = "monitor", NEW l \in NextPhase
    PROVE  /\ l \in LinkType
           /\ \/ mode = "g3" /\ l.seq = 0 /\ l.phase = "unknown" /\ l.event = link.event
              \/ /\ mode = "g4" /\ l.seq = 1 /\ l.phase = "readiness" /\ Len(rows) = 0
                 /\ l.event \in Nat /\ l.event <= now
              \/ /\ mode = "g4" /\ l.seq = 4 /\ l.phase = "workload" /\ Len(rows) = 1
                 /\ l.event \in Nat /\ l.event <= now /\ rows[1].end <= l.event /\ Complete(1)
              \/ /\ mode = "g4" /\ l.seq = 5 /\ l.phase = "workload" /\ Len(rows) >= 2
                 /\ l.event \in Nat /\ l.event <= now /\ rows[1].end <= l.event
                 /\ l.event = link.event /\ Complete(1) /\ Complete(2)
<1>1. mode \in {"g3", "g4"} /\ now \in Nat /\ link \in LinkType
  BY DEF IInv, TypeInv
<1>2. /\ mode = "g3" => link.seq = 0 /\ link.phase = "unknown"
      /\ mode = "g4" =>
             /\ link.seq \in {0, 2, 5}
             /\ link.seq = 0 => Len(rows) = 0
             /\ link.seq = 2 => Len(rows) = 1 /\ link.sent = rows[1].end /\ Complete(1)
             /\ link.seq = 5 => /\ link.phase = "workload" /\ link.event \in Nat
                                /\ rows[1].end <= link.event /\ link.event <= now
                                /\ Len(rows) >= 2 /\ Complete(1) /\ Complete(2)
  BY DEF IInv, LinkInv
<1> DEFINE A == {[link EXCEPT !.owner = TRUE, !.seq = 1, !.phase = "readiness", !.event = t] :
                   t \in {now - 1, now} \cap Nat}
           B == {[link EXCEPT !.seq = 4, !.phase = "workload", !.event = t] :
                   t \in {t \in {now - 1, now} : t >= link.sent}}
           C == {[link EXCEPT !.owner = TRUE]}
<1>0. /\ mode = "g4" /\ link.seq = 0 => l \in A
      /\ mode = "g4" /\ link.seq = 2 => l \in B
      /\ ~(mode = "g4" /\ link.seq \in {0, 2}) => l \in C
  <2>1. NextPhase = CASE mode = "g4" /\ link.seq = 0 -> A
                      [] mode = "g4" /\ link.seq = 2 -> B
                      [] OTHER -> C
    BY Zenon DEF NextPhase
  <2> HIDE DEF A, B, C
  <2> QED BY <2>1
<1>3. CASE mode = "g4" /\ link.seq = 0
  <2>1. PICK t \in {now - 1, now} \cap Nat :
           l = [link EXCEPT !.owner = TRUE, !.seq = 1, !.phase = "readiness", !.event = t]
    BY <1>0, <1>3, Zenon
  <2>2. /\ l \in LinkType /\ l.seq = 1 /\ l.phase = "readiness" /\ l.event = t
    BY <1>1, <2>1, Zenon DEF LinkType, Phases, Optional
  <2>3. t \in Nat /\ t <= now
    BY <1>1
  <2> QED BY <1>2, <1>3, <2>2, <2>3, Zenon
<1>4. CASE mode = "g4" /\ link.seq = 2
  <2>1. PICK t \in {now - 1, now} : /\ t >= link.sent
                                   /\ l = [link EXCEPT !.seq = 4, !.phase = "workload", !.event = t]
    BY <1>0, <1>4, Zenon
  <2>2. t \in Nat
    <3>1. link.sent \in Nat
      BY <1>1 DEF LinkType
    <3> QED BY <1>1, <2>1, <3>1
  <2>3. /\ l \in LinkType /\ l.seq = 4 /\ l.phase = "workload" /\ l.event = t
    BY <1>1, <2>1, <2>2, Zenon DEF LinkType, Phases, Optional
  <2> QED BY <1>1, <1>2, <1>4, <2>1, <2>2, <2>3
<1>5. CASE ~(mode = "g4" /\ link.seq \in {0, 2})
  <2>1. l = [link EXCEPT !.owner = TRUE]
    BY <1>0, <1>5, Zenon
  <2>2. /\ l \in LinkType /\ l.seq = link.seq /\ l.phase = link.phase /\ l.event = link.event
    BY <1>1, <2>1, Zenon DEF LinkType
  <2> QED BY <1>1, <1>2, <1>5, <2>2
<1> QED BY <1>3, <1>4, <1>5

(***************************************************************************)
(* Runner's side of the rows.                                              *)
(***************************************************************************)
LEMMA TriggersAre ==
    /\ Triggers = {i \in OfMonitor : RowReason(rows[i]) # "none"}
    /\ Triggers' = {i \in OfMonitor' : RowReason(rows'[i]) # "none"}
  BY MonitorRowsAre, Zenon DEF Triggers

\* What Runner and its verifier look at after the monitor's row was stored.
LEMMA MonitorStored ==
    ASSUME IInv, pc = "monitor", NEW row \in Row, row.site = "runner_monitor",
           rows' = Append(rows, row), recorder' = Tallied(recorder, row),
           NEW n, n = Len(rows) + 1
    PROVE  /\ OfMonitor' = OfMonitor \cup {n} /\ (\A j \in OfMonitor' : j <= n)
           /\ (\A i \in OfMonitor : rows'[i] = rows[i]) /\ rows'[n] = row
           /\ Triggers' = IF RowReason(row) # "none" THEN {n} ELSE {}
           /\ Available \subseteq Nat
           /\ Available' = IF row.status \in Usable THEN Available \cup {row.avail} ELSE Available
           /\ recorder'.monitorPeak = IF row.status = "COMPLETE"
                                      THEN Raise(recorder.monitorPeak, row.rss)
                                      ELSE recorder.monitorPeak
           /\ recorder'.error = recorder.error
<1>1. rows \in Seq(Row) /\ recorder \in RecorderType
  BY Zenon DEF IInv, TypeInv
<1>2. /\ Len(rows) \in Nat /\ DOMAIN rows = 1..Len(rows) /\ DOMAIN rows' = DOMAIN rows \cup {n}
      /\ n \notin DOMAIN rows /\ rows'[n] = row
      /\ \A i \in DOMAIN rows : rows'[i] = rows[i] /\ rows[i] \in Row
  BY <1>1, Appended
<1>3. OfMonitor \subseteq DOMAIN rows
  BY DEF OfMonitor
<1>4. OfMonitor' = OfMonitor \cup {n}
  BY <1>1, SetsAppended
<1>5. \A j \in OfMonitor' : j <= n
  BY <1>2, <1>3, <1>4
<1>6. \A i \in OfMonitor : rows'[i] = rows[i] /\ rows[i] \in Row
  BY <1>2, <1>3
<1>7. Triggers' = IF RowReason(row) # "none" THEN {n} ELSE {}
  <2>1. Triggers = {}
    BY Zenon DEF IInv, DecidedInv
  <2>2. \A i \in OfMonitor : RowReason(rows'[i]) = "none"
    BY <1>6, <2>1, TriggersAre, Zenon
  <2> QED BY <1>2, <1>4, <2>2, TriggersAre, ZenonT(30)
<1>8. Available \subseteq Nat
  BY <1>6, RowFields, Zenon DEF Available
<1>9. Available' = IF row.status \in Usable THEN Available \cup {row.avail} ELSE Available
  <2> DEFINE K == {i \in OfMonitor : rows[i].status \in Usable}
             L == {i \in OfMonitor' : rows'[i].status \in Usable}
  <2>1. Available = {rows[i].avail : i \in K} /\ Available' = {rows'[i].avail : i \in L}
    BY DEF Available
  <2>2. L = IF row.status \in Usable THEN K \cup {n} ELSE K
    BY <1>2, <1>4, <1>6, Zenon
  <2>3. rows'[n] = row /\ \A i \in K : rows'[i] = rows[i]
    BY <1>2, <1>6, Zenon
  <2> HIDE DEF K, L
  <2>4. CASE row.status \in Usable
    <3>1. {rows'[i].avail : i \in K \cup {n}} = {rows[i].avail : i \in K} \cup {row.avail}
      BY <2>3, Zenon
    <3> QED BY <2>1, <2>2, <2>4, <3>1, Zenon
  <2>5. CASE row.status \notin Usable
    <3>1. {rows'[i].avail : i \in K} = {rows[i].avail : i \in K}
      BY <2>3, Zenon
    <3> QED BY <2>1, <2>2, <2>5, <3>1, Zenon
  <2> QED BY <2>4, <2>5
<1>10. /\ recorder'.monitorPeak = IF row.status = "COMPLETE"
                                  THEN Raise(recorder.monitorPeak, row.rss)
                                  ELSE recorder.monitorPeak
       /\ recorder'.error = recorder.error
  BY <1>1, TalliedFields, Zenon
<1> QED BY <1>2, <1>4, <1>5, <1>6, <1>7, <1>8, <1>9, <1>10, Zenon

\* Nothing of it changes when no row, or only the one after cleanup, is stored.
LEMMA MonitorUndisturbed ==
    ASSUME rows \in Seq(Row), recorder \in RecorderType,
           \/ rows' = rows /\ recorder'.monitorPeak = recorder.monitorPeak
           \/ \E row \in Row : /\ row.site = "cleanup_check"
                               /\ rows' = Append(rows, row) /\ recorder' = Tallied(recorder, row)
    PROVE  /\ OfMonitor' = OfMonitor /\ (\A i \in OfMonitor : rows'[i] = rows[i])
           /\ Triggers' = Triggers /\ Available' = Available
           /\ recorder'.monitorPeak = recorder.monitorPeak
<1>1. /\ OfMonitor' = OfMonitor /\ (\A i \in OfMonitor : rows'[i] = rows[i])
      /\ recorder'.monitorPeak = recorder.monitorPeak
  <2>1. CASE rows' = rows /\ recorder'.monitorPeak = recorder.monitorPeak
    BY <2>1 DEF OfMonitor
  <2>2. ASSUME NEW row \in Row, row.site = "cleanup_check",
               rows' = Append(rows, row), recorder' = Tallied(recorder, row)
        PROVE  /\ OfMonitor' = OfMonitor /\ (\A i \in OfMonitor : rows'[i] = rows[i])
               /\ recorder'.monitorPeak = recorder.monitorPeak
    <3>1. OfMonitor' = OfMonitor
      BY <2>2, SetsAppended
    <3>2. \A i \in DOMAIN rows : rows'[i] = rows[i]
      BY <2>2, Appended
    <3>3. recorder'.monitorPeak = recorder.monitorPeak
      BY <2>2, TalliedFields, Zenon
    <3> QED BY <3>1, <3>2, <3>3 DEF OfMonitor
  <2> QED BY <2>1, <2>2, Zenon
<1>2. Triggers' = Triggers
  BY <1>1, TriggersAre, Zenon
<1>3. Available' = Available
  <2> DEFINE K == {i \in OfMonitor : rows[i].status \in Usable}
             L == {i \in OfMonitor' : rows'[i].status \in Usable}
  <2>1. Available = {rows[i].avail : i \in K} /\ Available' = {rows'[i].avail : i \in L}
    BY DEF Available
  <2>2. L = K /\ \A i \in K : rows'[i] = rows[i]
    BY <1>1, Zenon
  <2> HIDE DEF K, L
  <2> QED BY <2>1, <2>2, Zenon
<1> QED BY <1>1, <1>2, <1>3

\* A step that stores no row.
LEMMA NothingStored ==
    ASSUME IInv, rows' = rows, UNCHANGED mode, now' \in Nat, now <= now',
           recorder' \in {recorder, [recorder EXCEPT !.error = TRUE]},
           pc' \in {"monitor", "cleanup"} => pc \in {"monitor", "cleanup"},
           link'.event = link.event \/ Len(rows) <= 1
    PROVE  /\ RowsInv' /\ SummaryInv' /\ PhasesInv' /\ recorder' \in RecorderType
           /\ recorder'.monitorPeak = recorder.monitorPeak
<1>1. rows \in Seq(Row) /\ recorder \in RecorderType /\ now \in Nat
  BY DEF IInv, TypeInv
<1>2. /\ recorder' \in RecorderType /\ recorder'.statuses = recorder.statuses
      /\ recorder'.phases = recorder.phases /\ recorder'.monitorPeak = recorder.monitorPeak
      /\ recorder'.lastEnd = recorder.lastEnd /\ recorder'.maxGap = recorder.maxGap
  BY <1>1, Zenon DEF RecorderType
<1>3. SummaryInv'
  <2>1. /\ \A x : OfStatus(x)' = OfStatus(x) /\ OfPhase(x)' = OfPhase(x)
                 /\ {i \in OfPhase(x) : Complete(i)}' = {i \in OfPhase(x) : Complete(i)}
                 /\ Sizes(OfPhase(x))' = Sizes(OfPhase(x))
        /\ Sizes(OfMonitor)' = Sizes(OfMonitor) /\ Gaps' = Gaps
    <3>1. ASSUME NEW x
          PROVE  OfStatus(x)' = OfStatus(x) /\ OfPhase(x)' = OfPhase(x)
      BY Zenon DEF OfStatus, OfPhase
    <3>2. OfMonitor' = OfMonitor
      BY Zenon DEF OfMonitor
    <3>3. ASSUME NEW x
          PROVE  {i \in OfPhase(x) : Complete(i)}' = {i \in OfPhase(x) : Complete(i)}
      <4> DEFINE F(r) == {i \in {i \in DOMAIN r : r[i].phase = x} : r[i].status = "COMPLETE"}
      <4>1. /\ {i \in OfPhase(x) : Complete(i)}' = F(rows')
            /\ {i \in OfPhase(x) : Complete(i)} = F(rows)
        BY Zenon DEF OfPhase, Complete
      <4> HIDE DEF F
      <4> QED BY <4>1
    <3>4. ASSUME NEW x
          PROVE  Sizes(OfPhase(x))' = Sizes(OfPhase(x))
      <4> DEFINE F(r) == {r[i].rss : i \in {i \in {i \in DOMAIN r : r[i].phase = x} :
                                                r[i].status = "COMPLETE"}}
      <4>1. Sizes(OfPhase(x))' = F(rows') /\ Sizes(OfPhase(x)) = F(rows)
        BY Zenon DEF OfPhase, Sizes, Complete
      <4> HIDE DEF F
      <4> QED BY <4>1
    <3>5. Sizes(OfMonitor)' = Sizes(OfMonitor) /\ Gaps' = Gaps
      <4> DEFINE F(r) == {r[i].rss : i \in {i \in {i \in DOMAIN r : r[i].site = "runner_monitor"} :
                                                r[i].status = "COMPLETE"}}
                 G(r) == {r[i].start - r[i - 1].end : i \in DOMAIN r \ {1}}
      <4>1. /\ Sizes(OfMonitor)' = F(rows') /\ Sizes(OfMonitor) = F(rows)
            /\ Gaps' = G(rows') /\ Gaps = G(rows)
        BY Zenon DEF OfMonitor, Sizes, Complete, Gaps
      <4> HIDE DEF F, G
      <4> QED BY <4>1
    <3> QED BY <3>1, <3>3, <3>4, <3>5, Zenon
  <2> QED BY <1>2, <2>1, Zenon DEF IInv, SummaryInv
<1>4. \A i \in DOMAIN rows : rows[i].end \in Nat
  BY <1>1, RowFields
<1>5. RowsInv'
  <2>1. \A i \in DOMAIN rows : rows[i].end <= now'
    BY <1>1, <1>4 DEF IInv, RowsInv
  <2> QED BY <2>1, Zenon DEF IInv, RowsInv, Complete
<1>6. PhasesInv'
  <2>1. \A i \in DOMAIN rows : i > 1 => link'.event = link.event
    BY <1>1
  <2> QED BY <2>1, Zenon DEF IInv, PhasesInv
<1> QED BY <1>2, <1>3, <1>5, <1>6

\* Runner stops without having been given the last sample.
LEMMA StoppedEarly ==
    ASSUME IInv, pc = "monitor", pc' = "cleanup", rows' = rows,
           recorder'.monitorPeak = recorder.monitorPeak,
           NEW o \in {"command_success", "command_failed", "interrupted", "timeout", "runner_error"},
           core' = [core EXCEPT !.primary = o]
    PROVE  DecidedInv' /\ core' \in CoreType
<1>1. core \in CoreType /\ rows \in Seq(Row) /\ recorder \in RecorderType
  BY DEF IInv, TypeInv
<1>2. /\ core' \in CoreType /\ core'.primary = o /\ core'.peak = core.peak
      /\ core'.minimum = core.minimum /\ core'.lost = core.lost /\ core'.success = core.success
  BY <1>1 DEF CoreType, Outcomes
<1>3. /\ OfMonitor' = OfMonitor /\ Triggers' = Triggers /\ Available' = Available
  BY <1>1, MonitorUndisturbed
<1>4. /\ core.primary = "not_started" /\ ~core.lost /\ Triggers = {} /\ ~core.success
      /\ \A i \in OfMonitor : rows[i].status \in Usable
      /\ core.peak = IF recorder.monitorPeak = None THEN 0 ELSE recorder.monitorPeak
      /\ IsMin(core.minimum, Available)
  BY DEF IInv, DecidedInv
<1> QED BY <1>2, <1>3, <1>4 DEF DecidedInv

LEMMA EndsInv == ASSUME IInv, Ends PROVE IInv'
<1>1. /\ pc = "monitor" /\ pc' = "cleanup" /\ UNCHANGED <<mode, now, rows, recorder, link>>
  BY DEF Ends, Stopped
<1>2. PICK o \in {"command_success", "command_failed", "interrupted", "timeout"} :
         core' = [core EXCEPT !.primary = o]
  BY DEF Ends, Stopped
<1>3. DecidedInv' /\ core' \in CoreType
  BY <1>1, <1>2, StoppedEarly
<1>4. now \in Nat /\ now <= now'
  BY <1>1 DEF IInv, TypeInv
<1>5. RowsInv' /\ SummaryInv' /\ PhasesInv'
  BY <1>1, <1>4, NothingStored
<1>6. LinkInv'
  BY <1>1, Zenon DEF IInv, LinkInv, Complete
<1>7. TypeInv'
  BY <1>1, <1>3 DEF IInv, TypeInv
<1> QED BY <1>3, <1>5, <1>6, <1>7 DEF IInv

LEMMA NoPhaseInv == ASSUME IInv, NoPhase PROVE IInv'
<1>1. /\ pc = "monitor" /\ pc' = "cleanup" /\ UNCHANGED <<mode, now, rows, recorder>>
  BY DEF NoPhase, Raises, Stopped
<1>2. PICK owner \in {link.owner, mode = "g4"} :
         /\ link' = [[link EXCEPT !.owner = owner] EXCEPT !.failed = TRUE]
         /\ core' = [[core EXCEPT !.lost = @ \/ "none" \in Usable] EXCEPT !.primary = "runner_error"]
  BY Zenon DEF NoPhase, Raises, Stopped
<1>3. link \in LinkType /\ core \in CoreType
  BY DEF IInv, TypeInv
<1>4. core' = [core EXCEPT !.primary = "runner_error"]
  BY <1>2, <1>3, Zenon DEF CoreType, Usable
<1>5. DecidedInv' /\ core' \in CoreType
  BY <1>1, <1>4, StoppedEarly
<1>6. /\ link' \in LinkType /\ link'.seq = link.seq /\ link'.phase = link.phase
      /\ link'.event = link.event
  BY <1>2, <1>3, Zenon DEF LinkType
<1>7. now \in Nat /\ now <= now'
  BY <1>1 DEF IInv, TypeInv
<1>8. RowsInv' /\ SummaryInv' /\ PhasesInv'
  BY <1>1, <1>6, <1>7, NothingStored
<1>9. LinkInv'
  BY <1>1, <1>6, Zenon DEF IInv, LinkInv, Complete
<1>10. TypeInv'
  BY <1>1, <1>5, <1>6 DEF IInv, TypeInv
<1> QED BY <1>5, <1>8, <1>9, <1>10 DEF IInv

LEMMA FinishInv == ASSUME IInv, Finish PROVE IInv'
<1>1. /\ pc = "close" /\ pc' = "done" /\ UNCHANGED <<mode, now, rows, recorder, link, core>>
  BY DEF Finish
<1>2. now \in Nat /\ now <= now'
  BY <1>1 DEF IInv, TypeInv
<1>3. RowsInv' /\ SummaryInv' /\ PhasesInv'
  BY <1>1, <1>2, NothingStored
<1>4. LinkInv'
  BY <1>1 DEF IInv, LinkInv, Complete
<1>5. TypeInv'
  BY <1>1 DEF IInv, TypeInv
<1>6. rows \in Seq(Row) /\ recorder \in RecorderType
  BY Zenon DEF IInv, TypeInv
<1>7. OfMonitor' = OfMonitor /\ Triggers' = Triggers /\ Available' = Available
  BY <1>1, <1>6, MonitorUndisturbed
<1>8. DecidedInv'
  BY <1>1, <1>7 DEF IInv, DecidedInv
<1> QED BY <1>3, <1>4, <1>5, <1>8 DEF IInv

\* A row of the cleanup phase changes nothing of the link's side of the rows.
LEMMA LinkBehind ==
    ASSUME IInv, UNCHANGED <<mode, link>>, pc' # "monitor",
           rows' = rows \/ \E row \in Row : rows' = Append(rows, row)
    PROVE  LinkInv'
<1>1. rows \in Seq(Row)
  BY Zenon DEF IInv, TypeInv
<1>2. Len(rows) \in Nat /\ Len(rows') \in Nat /\ Len(rows') >= Len(rows)
  BY <1>1, Appended
<1>3. \A i \in 1..Len(rows) : rows'[i] = rows[i]
  BY <1>1, Appended
<1>4. /\ Len(rows) >= 1 => Len(rows') >= 1 /\ rows'[1] = rows[1]
      /\ Len(rows) >= 2 => Len(rows') >= 2 /\ rows'[2] = rows[2]
  BY <1>2, <1>3
<1> QED BY <1>4, ZenonT(30) DEF IInv, LinkInv, Complete

LEMMA CleanupSampleInv == ASSUME IInv, CleanupSample PROVE IInv'
<1>1. /\ pc = "cleanup" /\ pc' = "close" /\ UNCHANGED <<mode, link>>
  BY DEF CleanupSample
<1>2. /\ rows \in Seq(Row) /\ recorder \in RecorderType /\ now \in Nat /\ core \in CoreType
      /\ mode \in {"g3", "g4"} /\ link \in LinkType
  BY Zenon DEF IInv, TypeInv
<1>3. PICK fine \in BOOLEAN :
         core' = [core EXCEPT !.success = /\ fine /\ core.primary = "command_success"
                                          /\ core.peak <= EscalationStop]
  BY Zenon DEF CleanupSample
<1>4. /\ core' \in CoreType /\ core'.primary = core.primary /\ core'.peak = core.peak
      /\ core'.minimum = core.minimum /\ core'.lost = core.lost
      /\ core'.success => core.primary = "command_success"
  <2> DEFINE b == fine /\ core.primary = "command_success" /\ core.peak <= EscalationStop
  <2>1. b \in BOOLEAN /\ core' = [core EXCEPT !.success = b]
    BY <1>3, Zenon
  <2>2. b => core.primary = "command_success"
    OBVIOUS
  <2> HIDE DEF b
  <2> QED BY <1>2, <2>1, <2>2, Zenon DEF CoreType
<1>5. ASSUME \/ rows' = rows /\ recorder'.monitorPeak = recorder.monitorPeak
             \/ \E row \in Row : /\ row.site = "cleanup_check"
                                 /\ rows' = Append(rows, row) /\ recorder' = Tallied(recorder, row)
      PROVE  DecidedInv' /\ LinkInv'
  <2>1. /\ OfMonitor' = OfMonitor /\ (\A i \in OfMonitor : rows'[i] = rows[i])
        /\ Triggers' = Triggers /\ Available' = Available
        /\ recorder'.monitorPeak = recorder.monitorPeak
    BY <1>2, <1>5, MonitorUndisturbed
  <2>2. \A i \in Triggers : i \in OfMonitor
    BY TriggersAre
  <2>3. DecidedInv'
    <3>1. /\ ~core.lost => /\ core.peak = IF recorder.monitorPeak = None THEN 0 ELSE recorder.monitorPeak
                           /\ IsMin(core.minimum, Available)
          /\ core.primary \in {"not_started", "command_success"} =>
                /\ ~core.lost /\ Triggers = {}
                /\ \A i \in OfMonitor : rows[i].status \in Usable
          /\ core.primary \in {"rss_stop", "available_stop"} =>
                \E i \in Triggers : RowReason(rows[i]) = core.primary
      BY Zenon DEF IInv, DecidedInv
    <3>2. \A i \in Triggers : /\ \A j \in OfMonitor : j <= i
                              /\ ~core.lost /\ rows[i].status \in Usable =>
                                    core.primary \in {"rss_stop", "available_stop",
                                                      "runner_error", "stage_timeout"}
      BY Zenon DEF IInv, DecidedInv
    <3> QED BY <1>1, <1>4, <2>1, <2>2, <3>1, <3>2, ZenonT(30) DEF DecidedInv
  <2>4. LinkInv'
    BY <1>1, <1>5, LinkBehind
  <2> QED BY <2>3, <2>4
<1>6. ASSUME now' \in Nat, rows' \in Seq(Row), recorder' \in RecorderType
      PROVE  TypeInv'
  BY <1>1, <1>2, <1>4, <1>6 DEF TypeInv
<1>7. CASE now' = now /\ rows' = rows /\ recorder' = recorder
  <2>1. now' \in Nat /\ now <= now'
    BY <1>2, <1>7
  <2>2. RowsInv' /\ SummaryInv' /\ PhasesInv'
    BY <1>1, <1>7, <2>1, NothingStored
  <2> QED BY <1>2, <1>5, <1>6, <1>7, <2>1, <2>2, Zenon DEF IInv
<1>8. ASSUME NEW row \in RowsAt(now, "cleanup", now, "cleanup_check"), NEW stored \in BOOLEAN,
             Append_(row, stored), now' = row.end
      PROVE  IInv'
  <2>1. /\ row \in Row /\ row.phase = "cleanup" /\ row.event = now /\ row.site = "cleanup_check"
        /\ row.status = "COMPLETE" <=> row.rss # None
        /\ now <= row.start /\ row.end = row.start + 1
    BY <1>2, RowAt DEF Phases, Optional
  <2>2. row.start \in Nat /\ now' \in Nat /\ now <= now'
    <3>1. row.start \in Nat /\ row.end \in Nat
      BY <2>1, RowFields
    <3> QED BY <1>2, <1>8, <2>1, <3>1
  <2>3. CASE stored
    <3>1. rows' = Append(rows, row) /\ recorder' = Tallied(recorder, row)
      BY <1>8, <2>3 DEF Append_
    <3>2. /\ RowsInv' /\ SummaryInv' /\ rows' \in Seq(Row) /\ recorder' \in RecorderType
      BY <1>1, <1>8, <2>1, <3>1, RowStored, ZenonT(30)
    <3>3. PhasesInv'
      BY <1>1, <1>2, <2>1, <2>2, <3>1, PhasesStored
    <3> QED BY <1>5, <1>6, <2>1, <2>2, <3>1, <3>2, <3>3, Zenon DEF IInv
  <2>4. CASE ~stored
    <3>1. rows' = rows /\ recorder' = [recorder EXCEPT !.error = TRUE]
      BY <1>8, <2>4 DEF Append_
    <3>2. /\ RowsInv' /\ SummaryInv' /\ PhasesInv' /\ recorder' \in RecorderType
          /\ recorder'.monitorPeak = recorder.monitorPeak
      BY <1>1, <2>2, <3>1, NothingStored
    <3> QED BY <1>2, <1>5, <1>6, <2>2, <3>1, <3>2, Zenon DEF IInv
  <2> QED BY <2>3, <2>4
<1> QED BY <1>7, <1>8, ZenonT(30) DEF CleanupSample

(***************************************************************************)
(* A sample of the monitor.                                                *)
(***************************************************************************)
LEMMA FewRows ==
    ASSUME NEW k \in Nat
    PROVE  /\ k >= 1 => 1 \in 1..k
           /\ k >= 2 => 2 \in 1..k /\ 1 \in 1..k /\ k >= 1 /\ k + 1 >= 2
           /\ k = 1 => k >= 1 /\ k <= 1 /\ 1 \in 1..k /\ k + 1 = 2
           /\ k = 0 => k <= 1 /\ k + 1 = 1
<1>1. k >= 1 => 1 \in 1..k
  OBVIOUS
<1>2. k >= 2 => 2 \in 1..k /\ k >= 1 /\ k + 1 >= 2
  OBVIOUS
<1>3. 1 >= 1 /\ 1 <= 1 /\ 1 + 1 = 2
  OBVIOUS
<1>4. 0 <= 1 /\ 0 + 1 = 1
  OBVIOUS
<1> QED BY <1>1, <1>2, <1>3, <1>4, Zenon

\* The link when the sample is not delivered, or is, and what the rows say of it.
LEMMA SampleLink ==
    ASSUME IInv, pc = "monitor", NEW l \in NextPhase, UNCHANGED mode, rows' = rows,
           pc' = "cleanup", link' = [l EXCEPT !.failed = TRUE]
    PROVE  LinkInv' /\ link' \in LinkType /\ (link'.event = link.event \/ Len(rows) <= 1)
<1>1. rows \in Seq(Row) /\ l \in LinkType /\ mode \in {"g3", "g4"}
  BY NextLink, Zenon DEF IInv, TypeInv
<1>2. /\ link' \in LinkType /\ link'.seq = l.seq /\ link'.phase = l.phase /\ link'.event = l.event
  BY <1>1, Zenon DEF LinkType
<1>3. \A i \in 1..Len(rows) : rows[i].site = "runner_monitor"
  BY <1>1 DEF IInv, RowsInv
<1>4. /\ Len(rows) >= 1 => rows[1].site = "runner_monitor"
      /\ Len(rows) >= 2 => rows[2].site = "runner_monitor"
      /\ Len(rows) = 1 => Len(rows) >= 1 /\ Len(rows) <= 1
      /\ Len(rows) = 0 => Len(rows) <= 1
      /\ Len(rows) >= 2 => Len(rows) >= 1
  <2> DEFINE k == Len(rows)
  <2>1. k \in Nat
    BY <1>1
  <2> HIDE DEF k
  <2>2. /\ k >= 1 => 1 \in 1..k
        /\ k >= 2 => 2 \in 1..k /\ k >= 1
        /\ k = 1 => k >= 1 /\ k <= 1
        /\ k = 0 => k <= 1
    BY <2>1, FewRows, Zenon
  <2> QED BY <1>3, <2>2, Zenon DEF k
<1>5. /\ \/ mode = "g3" /\ l.seq = 0 /\ l.phase = "unknown" /\ l.event = link.event
         \/ mode = "g4" /\ l.seq = 1 /\ Len(rows) = 0
         \/ mode = "g4" /\ l.seq = 4 /\ Len(rows) = 1 /\ Complete(1)
         \/ /\ mode = "g4" /\ l.seq = 5 /\ Len(rows) >= 2 /\ l.event = link.event
            /\ Complete(1) /\ Complete(2)
  BY NextLink, Zenon
<1>6. LinkInv'
  BY <1>2, <1>4, <1>5 DEF LinkInv, Complete
<1> QED BY <1>2, <1>4, <1>5, <1>6, Zenon

LEMMA SampleLinkStored ==
    ASSUME IInv, pc = "monitor", NEW l \in NextPhase, UNCHANGED mode,
           NEW row \in Row, row.site = "runner_monitor", rows' = Append(rows, row),
           row.end = now', now <= now', now' \in Nat,
           \/ pc' = "cleanup" /\ link' = [l EXCEPT !.failed = TRUE]
           \/ /\ pc' \in {"monitor", "cleanup"} /\ Persists(l, row)
              /\ link' = [l EXCEPT !.seq = @ + 1, !.sent = row.end]
           \/ /\ pc' \in {"monitor", "cleanup"} /\ ~(mode = "g4" /\ l.seq \in {1, 4})
              /\ link' = l
    PROVE  /\ LinkInv' /\ link' \in LinkType /\ link'.event = l.event
           /\ link'.event = link.event \/ Len(rows) <= 1
<1> DEFINE n == Len(rows) + 1
<1>1. rows \in Seq(Row) /\ l \in LinkType /\ mode \in {"g3", "g4"} /\ now \in Nat
  BY NextLink, Zenon DEF IInv, TypeInv
<1>2. /\ Len(rows) \in Nat /\ Len(rows') = n /\ rows'[n] = row
      /\ \A i \in 1..Len(rows) : rows'[i] = rows[i]
  BY <1>1, Appended
<1>3. \A i \in 1..Len(rows) : rows[i].site = "runner_monitor"
  BY <1>1 DEF IInv, RowsInv
<1>4. /\ Len(rows) = 0 => Len(rows') = 1 /\ rows'[1] = row
      /\ Len(rows) = 1 => /\ Len(rows') = 2 /\ rows'[2] = row /\ rows'[1] = rows[1]
                          /\ rows[1].site = "runner_monitor"
      /\ Len(rows) >= 2 => /\ Len(rows') >= 2 /\ rows'[1] = rows[1] /\ rows'[2] = rows[2]
                           /\ rows[1].site = "runner_monitor" /\ rows[2].site = "runner_monitor"
  <2> DEFINE k == Len(rows)
  <2>1. k \in Nat /\ n = k + 1
    BY <1>2
  <2> HIDE DEF k, n
  <2>2. /\ k = 0 => n = 1
        /\ k = 1 => n = 2 /\ 1 \in 1..k
        /\ k >= 2 => n >= 2 /\ 1 \in 1..k /\ 2 \in 1..k
    BY <2>1, FewRows, Zenon
  <2> QED BY <1>2, <1>3, <2>2, Zenon DEF k
<1>5. CASE mode = "g3"
  <2>1. l.seq = 0 /\ l.phase = "unknown" /\ l.event = link.event
    BY <1>5, NextLink
  <2>2. /\ link' \in LinkType /\ link'.seq = 0 /\ link'.phase = "unknown" /\ link'.event = l.event
    BY <1>1, <1>5, <2>1, Zenon DEF LinkType, Persists
  <2> QED BY <1>5, <2>1, <2>2 DEF LinkInv
<1>6. CASE mode = "g4" /\ l.seq = 1
  <2>1. Len(rows) = 0
    BY <1>6, NextLink
  <2>2. \/ pc' = "cleanup" /\ link' = [l EXCEPT !.failed = TRUE]
        \/ row.status = "COMPLETE" /\ link' = [l EXCEPT !.seq = 2, !.sent = row.end]
    BY <1>6 DEF Persists
  <2>3. /\ link' \in LinkType /\ link'.event = l.event
        /\ \/ link'.seq = 1 /\ pc' = "cleanup"
           \/ link'.seq = 2 /\ row.status = "COMPLETE" /\ link'.sent = row.end
    BY <1>1, <1>6, <2>2, ZenonT(30) DEF LinkType
  <2> QED BY <1>4, <1>6, <2>1, <2>3 DEF LinkInv, Complete
<1>7. CASE mode = "g4" /\ l.seq = 4
  <2>1. /\ Len(rows) = 1 /\ l.event \in Nat /\ l.event <= now /\ rows[1].end <= l.event
        /\ l.phase = "workload" /\ rows[1].status = "COMPLETE"
    BY <1>7, NextLink DEF Complete
  <2>2. \/ pc' = "cleanup" /\ link' = [l EXCEPT !.failed = TRUE]
        \/ row.status = "COMPLETE" /\ link' = [l EXCEPT !.seq = 5, !.sent = row.end]
    BY <1>7 DEF Persists
  <2>3. /\ link' \in LinkType /\ link'.event = l.event /\ link'.phase = "workload"
        /\ \/ link'.seq = 4 /\ pc' = "cleanup"
           \/ link'.seq = 5 /\ row.status = "COMPLETE"
    BY <1>1, <1>7, <2>1, <2>2, ZenonT(30) DEF LinkType
  <2>4. l.event <= now'
    BY <1>1, <2>1
  <2> QED BY <1>4, <1>7, <2>1, <2>3, <2>4 DEF LinkInv, Complete
<1>8. CASE mode = "g4" /\ l.seq = 5
  <2>1. /\ Len(rows) >= 2 /\ l.event \in Nat /\ l.event <= now /\ rows[1].end <= l.event
        /\ l.phase = "workload" /\ rows[1].status = "COMPLETE" /\ rows[2].status = "COMPLETE"
        /\ l.event = link.event
    BY <1>8, NextLink DEF Complete
  <2>2. link' = l \/ link' = [l EXCEPT !.failed = TRUE]
    BY <1>8 DEF Persists
  <2>3. /\ link' \in LinkType /\ link'.event = l.event /\ link'.phase = "workload" /\ link'.seq = 5
    BY <1>1, <1>8, <2>1, <2>2, ZenonT(30) DEF LinkType
  <2>4. l.event <= now' /\ Len(rows') >= 1
    BY <1>1, <1>2, <2>1
  <2> QED BY <1>4, <1>8, <2>1, <2>3, <2>4 DEF LinkInv, Complete
<1> QED BY <1>1, <1>5, <1>6, <1>7, <1>8, NextLink

\* The state of Runner's record when the next sample is taken.
LEMMA Watching ==
    ASSUME IInv, pc = "monitor"
    PROVE  /\ core \in CoreType /\ core.primary = "not_started" /\ ~core.lost /\ ~core.success
           /\ Triggers = {} /\ ~recorder.error
           /\ \A i \in OfMonitor : rows[i].status \in Usable
           /\ core.peak = IF recorder.monitorPeak = None THEN 0 ELSE recorder.monitorPeak
           /\ IsMin(core.minimum, Available)
           /\ rows \in Seq(Row) /\ recorder \in RecorderType
           /\ recorder.monitorPeak \in Optional
<1>1. core \in CoreType /\ rows \in Seq(Row) /\ recorder \in RecorderType
  BY Zenon DEF IInv, TypeInv
<1>2. core.primary = "not_started" /\ ~recorder.error
  BY Zenon DEF IInv, DecidedInv
<1>3. /\ ~core.lost /\ Triggers = {} /\ \A i \in OfMonitor : rows[i].status \in Usable
  BY <1>2, Zenon DEF IInv, DecidedInv
<1>4. /\ core.peak = IF recorder.monitorPeak = None THEN 0 ELSE recorder.monitorPeak
      /\ IsMin(core.minimum, Available)
  BY <1>3, Zenon DEF IInv, DecidedInv
<1>5. ~core.success
  BY <1>2 DEF IInv, DecidedInv
<1>6. recorder.monitorPeak \in Optional
  BY <1>1 DEF RecorderType
<1> QED BY <1>1, <1>2, <1>3, <1>4, <1>5, <1>6, Zenon

\* The monitor raises over a row that was stored.
LEMMA SampleRaised ==
    ASSUME IInv, pc = "monitor", NEW row \in Row, row.site = "runner_monitor",
           rows' = Append(rows, row), recorder' = Tallied(recorder, row), pc' = "cleanup",
           core' = [[core EXCEPT !.lost = @ \/ row.status \in Usable] EXCEPT !.primary = "runner_error"]
    PROVE  DecidedInv' /\ core' \in CoreType
<1> DEFINE n == Len(rows) + 1
<1>1. /\ OfMonitor' = OfMonitor \cup {n} /\ (\A j \in OfMonitor' : j <= n)
      /\ Triggers' = IF RowReason(row) # "none" THEN {n} ELSE {}
      /\ Available' = IF row.status \in Usable THEN Available \cup {row.avail} ELSE Available
      /\ recorder'.monitorPeak = IF row.status = "COMPLETE"
                                 THEN Raise(recorder.monitorPeak, row.rss) ELSE recorder.monitorPeak
  BY MonitorStored
<1>2. /\ core' \in CoreType /\ core'.primary = "runner_error" /\ core'.peak = core.peak
      /\ core'.minimum = core.minimum /\ core'.success = core.success
      /\ core'.lost <=> row.status \in Usable
  BY Watching, ZenonT(30) DEF CoreType, Outcomes
<1>3. row.status \notin Usable => row.status # "COMPLETE"
  BY DEF Usable
<1>4. ~core'.lost => /\ core'.peak = IF recorder'.monitorPeak = None THEN 0 ELSE recorder'.monitorPeak
                     /\ IsMin(core'.minimum, Available')
  BY <1>1, <1>2, <1>3, Watching, Zenon
<1>5. \A i \in Triggers' : \A j \in OfMonitor' : j <= i
  BY <1>1, Zenon
<1>6. ~core'.success
  BY <1>2, Watching, Zenon
<1> HIDE DEF n
<1> QED BY <1>2, <1>4, <1>5, <1>6 DEF DecidedInv

\* The sample reaches Runner.
LEMMA SampleDelivered ==
    ASSUME IInv, pc = "monitor", NEW row \in Row, row.site = "runner_monitor",
           row.status = "COMPLETE" <=> row.rss # None, row.status \in Usable,
           rows' = Append(rows, row), recorder' = Tallied(recorder, row), Decide(row)
    PROVE  DecidedInv' /\ core' \in CoreType /\ pc' \in {"monitor", "cleanup"}
<1> DEFINE n == Len(rows) + 1
           rss == IF row.status = "COMPLETE" THEN row.rss ELSE 0
           peak == Max({core.peak, rss})
           minimum == IF core.minimum = None THEN row.avail ELSE Min({core.minimum, row.avail})
           c == [core EXCEPT !.peak = peak, !.minimum = minimum]
           mp == recorder.monitorPeak
<1>1. /\ OfMonitor' = OfMonitor \cup {n} /\ (\A j \in OfMonitor' : j <= n)
      /\ (\A i \in OfMonitor : rows'[i] = rows[i]) /\ rows'[n] = row
      /\ Triggers' = IF RowReason(row) # "none" THEN {n} ELSE {}
      /\ Available \subseteq Nat /\ Available' = Available \cup {row.avail}
      /\ recorder'.monitorPeak = IF row.status = "COMPLETE" THEN Raise(mp, row.rss) ELSE mp
      /\ recorder'.error = recorder.error
  BY MonitorStored, Zenon
<1>2. row.avail \in Nat /\ (row.status = "COMPLETE" => row.rss \in Nat) /\ rss \in Nat
  BY RowFields, TheConstants DEF Optional
<1>3. /\ core \in CoreType /\ core.primary = "not_started" /\ ~core.lost /\ ~core.success
      /\ ~recorder.error /\ IsMin(core.minimum, Available) /\ mp \in Optional
      /\ core.peak = IF mp = None THEN 0 ELSE mp
      /\ \A i \in OfMonitor : rows[i].status \in Usable
  BY Watching, Zenon
<1> HIDE DEF n, mp
<1>4. peak \in Nat /\ peak = IF recorder'.monitorPeak = None THEN 0 ELSE recorder'.monitorPeak
  <2>1. core.peak \in Nat
    BY <1>3 DEF CoreType
  <2>2. peak = IF core.peak >= rss THEN core.peak ELSE rss
    BY <1>2, <2>1, MaxOfTwo, ZenonT(30)
  <2>3. CASE row.status = "COMPLETE" /\ mp = None
    BY <1>1, <1>2, <1>3, <2>2, <2>3, TheConstants DEF Raise
  <2>4. CASE row.status = "COMPLETE" /\ mp # None
    <3>1. mp \in Nat /\ core.peak = mp /\ rss = row.rss
      BY <1>3, <2>4 DEF Optional
    <3>2. recorder'.monitorPeak = peak
      BY <1>1, <2>4, <3>1 DEF Raise
    <3>3. peak \in Nat /\ peak # None
      BY <1>2, <2>1, <2>2, TheConstants, ZenonT(30)
    <3> QED BY <3>2, <3>3, ZenonT(30)
  <2>5. CASE row.status # "COMPLETE"
    BY <1>1, <1>3, <2>1, <2>2, <2>5
  <2> QED BY <2>3, <2>4, <2>5, ZenonT(30)
<1>5. IsMin(minimum, Available') /\ minimum \in Nat
  BY <1>1, <1>2, <1>3, LowerIsMin, Zenon
<1> HIDE DEF peak, minimum, rss
<1>6. /\ c \in CoreType /\ c.primary = "not_started" /\ ~c.lost /\ ~c.success
      /\ c.peak = peak /\ c.minimum = minimum
  BY <1>3, <1>4, <1>5, Zenon DEF CoreType, Optional
<1>7. /\ rss > RssStop => RowReason(row) = "rss_stop"
      /\ rss <= RssStop /\ row.avail < AvailableStop => RowReason(row) = "available_stop"
      /\ ~(rss > RssStop \/ row.avail < AvailableStop) => RowReason(row) = "none"
  BY <1>2, TheConstants DEF RowReason, rss
<1>8. ASSUME NEW o \in {"runner_error", "stage_timeout", "rss_stop", "available_stop"},
             Stopped(c, o), o \in {"rss_stop", "available_stop"} => RowReason(row) = o
      PROVE  DecidedInv' /\ core' \in CoreType /\ pc' \in {"monitor", "cleanup"}
  <2>1. pc' = "cleanup" /\ core' = [c EXCEPT !.primary = o]
    BY <1>8 DEF Stopped
  <2> HIDE DEF c
  <2>2. /\ core' \in CoreType /\ core'.primary = o /\ ~core'.lost /\ ~core'.success
        /\ core'.peak = peak /\ core'.minimum = minimum
    BY <1>6, <2>1, Zenon DEF CoreType, Outcomes
  <2>3. \A i \in Triggers' : i = n
    BY <1>1, Zenon
  <2>4. o \in {"rss_stop", "available_stop"} => n \in Triggers' /\ RowReason(rows'[n]) = o
    BY <1>1, <1>8
  <2>5. core'.primary \in {"rss_stop", "available_stop", "runner_error", "stage_timeout"}
    BY <2>2
  <2>6. core'.primary \in {"rss_stop", "available_stop"} =>
           \E i \in Triggers' : RowReason(rows'[i]) = core'.primary
    BY <2>2, <2>4, Zenon
  <2>7. \A i \in Triggers' : \A j \in OfMonitor' : j <= i
    BY <1>1, <2>3, Zenon
  <2>8. core'.primary \notin {"not_started", "command_success"}
    BY <2>2
  <2> QED BY <1>4, <1>5, <2>1, <2>2, <2>5, <2>6, <2>7, <2>8, ZenonT(30) DEF DecidedInv
<1>9. CASE core' = c /\ pc' = "monitor" /\ RowReason(row) = "none"
  <2> HIDE DEF c
  <2>1. /\ core' \in CoreType /\ core'.primary = "not_started" /\ ~core'.lost /\ ~core'.success
        /\ core'.peak = peak /\ core'.minimum = minimum
    BY <1>6, <1>9, Zenon
  <2>2. Triggers' = {} /\ ~recorder'.error
    BY <1>1, <1>3, <1>9, Zenon
  <2>3. \A i \in OfMonitor' : rows'[i].status \in Usable
    BY <1>1, <1>3, Zenon
  <2>4. core'.primary \notin {"rss_stop", "available_stop"}
    BY <2>1
  <2> QED BY <1>4, <1>5, <1>9, <2>1, <2>2, <2>3, <2>4, ZenonT(30) DEF DecidedInv
<1>10. \/ Stopped(c, "runner_error")
       \/ Stopped(c, "stage_timeout")
       \/ rss > RssStop /\ Stopped(c, "rss_stop")
       \/ rss <= RssStop /\ row.avail < AvailableStop /\ Stopped(c, "available_stop")
       \/ ~(rss > RssStop \/ row.avail < AvailableStop) /\ core' = c /\ pc' = "monitor"
  BY ZenonT(30) DEF Decide, c, peak, minimum, rss
<1> HIDE DEF c
<1>11. CASE Stopped(c, "runner_error")
  BY <1>8, <1>11
<1>12. CASE Stopped(c, "stage_timeout")
  BY <1>8, <1>12
<1>13. CASE rss > RssStop /\ Stopped(c, "rss_stop")
  BY <1>7, <1>8, <1>13
<1>14. CASE rss <= RssStop /\ row.avail < AvailableStop /\ Stopped(c, "available_stop")
  BY <1>7, <1>8, <1>14
<1> QED BY <1>7, <1>9, <1>10, <1>11, <1>12, <1>13, <1>14, Zenon

LEMMA SampleInv == ASSUME IInv, Sample PROVE IInv'
<1>1. pc = "monitor" /\ UNCHANGED mode
  BY DEF Sample
<1>0. PICK l \in NextPhase : \E row \in RowsAt(now, l.phase, l.event, "runner_monitor") :
         /\ now' = row.end
         /\ \/ Append_(row, FALSE) /\ Raises(l, [status |-> "none"])
            \/ /\ Len(rows) < MaxSamples /\ Append_(row, TRUE)
               /\ \/ row.status \notin Usable /\ Raises(l, row)
                  \/ /\ row.status \in Usable /\ mode = "g4" /\ l.seq \in {1, 4}
                     /\ Raises(l, row)
                  \/ /\ Persists(l, row)
                     /\ link' = [l EXCEPT !.seq = @ + 1, !.sent = row.end] /\ Decide(row)
                  \/ /\ row.status \in Usable /\ ~(mode = "g4" /\ l.seq \in {1, 4})
                     /\ link' = l /\ Decide(row)
  BY ZenonT(30) DEF Sample
<1>2. PICK row \in RowsAt(now, l.phase, l.event, "runner_monitor") :
         /\ now' = row.end
         /\ \/ Append_(row, FALSE) /\ Raises(l, [status |-> "none"])
            \/ /\ Len(rows) < MaxSamples /\ Append_(row, TRUE)
               /\ \/ row.status \notin Usable /\ Raises(l, row)
                  \/ /\ row.status \in Usable /\ mode = "g4" /\ l.seq \in {1, 4}
                     /\ Raises(l, row)
                  \/ /\ Persists(l, row)
                     /\ link' = [l EXCEPT !.seq = @ + 1, !.sent = row.end] /\ Decide(row)
                  \/ /\ row.status \in Usable /\ ~(mode = "g4" /\ l.seq \in {1, 4})
                     /\ link' = l /\ Decide(row)
  BY <1>0, Zenon
<1>3. now \in Nat /\ l \in LinkType /\ rows \in Seq(Row) /\ recorder \in RecorderType
      /\ mode \in {"g3", "g4"}
  BY <1>1, NextLink, Zenon DEF IInv, TypeInv
<1>4. /\ row \in Row /\ row.phase = l.phase /\ row.event = l.event /\ row.site = "runner_monitor"
      /\ row.status = "COMPLETE" <=> row.rss # None
      /\ now <= row.start /\ row.end = row.start + 1
  BY <1>3, RowAt DEF LinkType
<1>5. /\ row.start \in Nat /\ row.end \in Nat /\ now' \in Nat /\ now <= now'
  <2>1. row.start \in Nat /\ row.end \in Nat
    BY <1>4, RowFields
  <2> QED BY <1>2, <1>3, <1>4, <2>1
<1>6. ASSUME rows' \in Seq(Row), recorder' \in RecorderType, link' \in LinkType,
             core' \in CoreType, pc' \in {"monitor", "cleanup"}
      PROVE  TypeInv'
  BY <1>1, <1>3, <1>5, <1>6 DEF TypeInv
<1>7. ASSUME Append_(row, FALSE), Raises(l, [status |-> "none"])
      PROVE  IInv'
  <2>1. /\ rows' = rows /\ recorder' = [recorder EXCEPT !.error = TRUE] /\ pc' = "cleanup"
        /\ link' = [l EXCEPT !.failed = TRUE]
        /\ core' = [[core EXCEPT !.lost = @ \/ "none" \in Usable] EXCEPT !.primary = "runner_error"]
    BY <1>7, Zenon DEF Append_, Raises, Stopped
  <2>2. core' = [core EXCEPT !.primary = "runner_error"]
    <3>1. core \in CoreType
      BY Zenon DEF IInv, TypeInv
    <3> QED BY <2>1, <3>1, Zenon DEF CoreType, Usable
  <2>3. LinkInv' /\ link' \in LinkType /\ (link'.event = link.event \/ Len(rows) <= 1)
    BY <1>1, <2>1, SampleLink, Zenon
  <2>4. /\ RowsInv' /\ SummaryInv' /\ PhasesInv' /\ recorder' \in RecorderType
        /\ recorder'.monitorPeak = recorder.monitorPeak
    BY <1>1, <1>5, <2>1, <2>3, NothingStored
  <2>5. DecidedInv' /\ core' \in CoreType
    BY <1>1, <2>1, <2>2, <2>4, StoppedEarly, Zenon
  <2> QED BY <1>3, <1>6, <2>1, <2>3, <2>4, <2>5, Zenon DEF IInv
<1>8. ASSUME Append_(row, TRUE), DecidedInv', core' \in CoreType, pc' \in {"monitor", "cleanup"},
             \/ pc' = "cleanup" /\ link' = [l EXCEPT !.failed = TRUE]
             \/ Persists(l, row) /\ link' = [l EXCEPT !.seq = @ + 1, !.sent = row.end]
             \/ ~(mode = "g4" /\ l.seq \in {1, 4}) /\ link' = l
      PROVE  IInv'
  <2>1. rows' = Append(rows, row) /\ recorder' = Tallied(recorder, row)
    BY <1>8, Zenon DEF Append_
  <2>2. /\ RowsInv' /\ SummaryInv' /\ rows' \in Seq(Row) /\ recorder' \in RecorderType
    BY <1>1, <1>2, <1>4, <2>1, RowStored
  <2>3. /\ LinkInv' /\ link' \in LinkType /\ link'.event = l.event
        /\ link'.event = link.event \/ Len(rows) <= 1
    BY <1>1, <1>2, <1>4, <1>5, <1>8, <2>1, SampleLinkStored, ZenonT(30)
  <2>4. /\ mode = "g3" => row.phase = "unknown"
        /\ mode = "g4" =>
              /\ row.phase = IF Len(rows) = 0 THEN "readiness" ELSE "workload"
              /\ row.event \in Nat /\ row.event <= row.start
              /\ Len(rows) > 0 => row.event = link'.event /\ rows[1].end <= row.event
    <3>1. \/ mode = "g3" /\ row.phase = "unknown"
          \/ /\ mode = "g4" /\ row.phase = "readiness" /\ Len(rows) = 0
             /\ row.event \in Nat /\ row.event <= now
          \/ /\ mode = "g4" /\ row.phase = "workload" /\ (Len(rows) = 1 \/ Len(rows) >= 2)
             /\ row.event \in Nat /\ row.event <= now /\ rows[1].end <= row.event
      BY <1>1, <1>4, NextLink, ZenonT(30)
    <3>2. row.event \in Nat /\ row.event <= now => row.event <= row.start
      BY <1>3, <1>4, <1>5
    <3>3. Len(rows) = 1 \/ Len(rows) >= 2 => Len(rows) # 0
      OBVIOUS
    <3> QED BY <1>4, <2>3, <3>1, <3>2, <3>3
  <2>5. PhasesInv'
    BY <1>1, <1>4, <2>1, <2>3, <2>4, PhasesStored, ZenonT(30)
  <2> QED BY <1>6, <1>8, <2>2, <2>3, <2>5, Zenon DEF IInv
<1>9. ASSUME Append_(row, TRUE), Raises(l, row)
      PROVE  IInv'
  <2>1. /\ rows' = Append(rows, row) /\ recorder' = Tallied(recorder, row) /\ pc' = "cleanup"
        /\ link' = [l EXCEPT !.failed = TRUE]
        /\ core' = [[core EXCEPT !.lost = @ \/ row.status \in Usable] EXCEPT !.primary = "runner_error"]
    BY <1>9, Zenon DEF Append_, Raises, Stopped
  <2>2. DecidedInv' /\ core' \in CoreType
    BY <1>1, <1>4, <2>1, SampleRaised, Zenon
  <2> QED BY <1>8, <1>9, <2>1, <2>2
<1>10. ASSUME Append_(row, TRUE), row.status \in Usable, Decide(row),
              \/ Persists(l, row) /\ link' = [l EXCEPT !.seq = @ + 1, !.sent = row.end]
              \/ ~(mode = "g4" /\ l.seq \in {1, 4}) /\ link' = l
      PROVE  IInv'
  <2>1. /\ rows' = Append(rows, row) /\ recorder' = Tallied(recorder, row)
    BY <1>10, Zenon DEF Append_
  <2>2. DecidedInv' /\ core' \in CoreType /\ pc' \in {"monitor", "cleanup"}
    BY <1>1, <1>4, <1>10, <2>1, SampleDelivered, Zenon
  <2> QED BY <1>8, <1>10, <2>2, Zenon
<1>11. Persists(l, row) => row.status \in Usable
  BY DEF Persists, Usable
<1> QED BY <1>2, <1>7, <1>9, <1>10, <1>11, ZenonT(30)

LEMMA PhaseNames == {PHASES[i] : i \in 1..4} = Phases
<1>1. /\ PHASES[1] = "unknown" /\ PHASES[2] = "readiness" /\ PHASES[3] = "workload"
      /\ PHASES[4] = "cleanup"
  BY DEF PHASES
<1>2. 1..4 = {1, 2, 3, 4}
  OBVIOUS
<1> QED BY <1>1, <1>2, Zenon DEF Phases

LEMMA InitInv == Init => IInv
<1> SUFFICES ASSUME Init PROVE IInv
  BY Zenon
<1>1. /\ mode \in {"g3", "g4"} /\ pc = "monitor" /\ now = 0 /\ rows = <<>>
      /\ recorder = NewRecorder
  BY Zenon DEF Init
<1>2. rows \in Seq(Row) /\ DOMAIN rows = {} /\ Len(rows) = 0
  BY <1>1
<1>3. /\ link \in LinkType /\ link.seq = 0 /\ link.phase = "unknown"
  BY DEF Init, LinkType, Phases, Optional
<1>4. /\ core \in CoreType /\ core.primary = "not_started" /\ core.peak = 0 /\ core.minimum = None
      /\ ~core.success /\ ~core.lost
  BY DEF Init, CoreType, Outcomes, Optional
<1>5. /\ recorder \in RecorderType /\ ~recorder.error /\ recorder.monitorPeak = None
      /\ recorder.maxGap = None /\ recorder.lastEnd = None
      /\ \A s \in Statuses : recorder.statuses[s] = 0
      /\ \A p \in Phases : recorder.phases[p] = [samples |-> 0, complete |-> 0, peak |-> None]
  BY <1>1, PhaseNames DEF NewRecorder, RecorderType, PhaseTally, Optional
<1>6. /\ \A x : OfStatus(x) = {} /\ OfPhase(x) = {}
      /\ OfMonitor = {} /\ Gaps = {} /\ Available = {} /\ Sizes({}) = {} /\ Triggers = {}
  <2>1. /\ \A x : OfStatus(x) = {} /\ OfPhase(x) = {}
        /\ OfMonitor = {} /\ Gaps = {} /\ Sizes({}) = {}
    BY <1>2 DEF OfStatus, OfPhase, OfMonitor, Gaps, Sizes
  <2>2. Available = {} /\ Triggers = {}
    BY <2>1, TriggersAre DEF Available
  <2> QED BY <2>1, <2>2
<1>7. Cardinality({}) = 0
  BY FS_EmptySet
<1>8. IsMax(None, {}) /\ IsMin(None, {})
  BY DEF IsMax, IsMin
<1>9. TypeInv
  BY <1>1, <1>2, <1>3, <1>4, <1>5, ZenonT(30) DEF TypeInv
<1>10. RowsInv /\ PhasesInv
  BY <1>2 DEF RowsInv, PhasesInv
<1>11. SummaryInv
  <2>1. \A p \in Phases : {i \in OfPhase(p) : Complete(i)} = {}
    BY <1>6
  <2>2. \A p \in Phases : /\ recorder.phases[p].samples = 0 /\ recorder.phases[p].complete = 0
                          /\ recorder.phases[p].peak = None
    BY <1>5
  <2> QED BY <1>1, <1>5, <1>6, <1>7, <1>8, <2>1, <2>2, ZenonT(30) DEF SummaryInv
<1>12. LinkInv
  BY <1>1, <1>2, <1>3 DEF LinkInv
<1>13. DecidedInv
  BY <1>4, <1>5, <1>6, <1>8 DEF DecidedInv
<1> QED BY <1>9, <1>10, <1>11, <1>12, <1>13 DEF IInv

LEMMA Invariance == Spec => []IInv
<1>1. IInv /\ [Next]_vars => IInv'
  <2> SUFFICES ASSUME IInv, [Next]_vars PROVE IInv'
    BY Zenon
  <2>1. CASE UNCHANGED vars
    <3>1. UNCHANGED <<mode, pc, now, rows, recorder, link, core>>
      BY <2>1 DEF vars
    <3>2. now \in Nat /\ now <= now'
      BY <3>1 DEF IInv, TypeInv
    <3>3. RowsInv' /\ SummaryInv' /\ PhasesInv'
      BY <3>1, <3>2, NothingStored
    <3>4. TypeInv' /\ LinkInv'
      BY <3>1, Zenon DEF IInv, TypeInv, LinkInv, Complete
    <3>5. rows \in Seq(Row) /\ recorder \in RecorderType
      BY Zenon DEF IInv, TypeInv
    <3>6. OfMonitor' = OfMonitor /\ Triggers' = Triggers /\ Available' = Available
      BY <3>1, <3>5, MonitorUndisturbed
    <3>7. DecidedInv'
      BY <3>1, <3>6, Zenon DEF IInv, DecidedInv
    <3> QED BY <3>3, <3>4, <3>7 DEF IInv
  <2> QED
    BY <2>1, EndsInv, NoPhaseInv, SampleInv, CleanupSampleInv, FinishInv, Zenon DEF Next
<1> QED BY <1>1, InitInv, PTL DEF Spec

(***************************************************************************)
(* What the readers find.                                                  *)
(***************************************************************************)
LEMMA SizesOf ==
    ASSUME IInv, NEW I, I \subseteq DOMAIN rows
    PROVE  Sizes(I) \subseteq Nat /\ PeakOf(I) = MaxOrNone(Sizes(I))
<1>1. \A i \in DOMAIN rows : Complete(i) => rows[i].rss \in Nat
  <2>1. \A i \in DOMAIN rows : rows[i] \in Row
    BY DEF IInv, TypeInv
  <2>2. \A i \in DOMAIN rows : Complete(i) => rows[i].rss # None
    BY Zenon DEF IInv, RowsInv
  <2> QED BY <2>1, <2>2, RowFields, Zenon DEF Optional
<1> QED BY <1>1, Zenon DEF Sizes, PeakOf, Complete

LEMMA GapsOf == ASSUME IInv PROVE Gaps \subseteq Nat
<1> SUFFICES ASSUME NEW i \in DOMAIN rows \ {1}
             PROVE  rows[i].start - rows[i - 1].end \in Nat
  BY DEF Gaps
<1>1. rows \in Seq(Row)
  BY Zenon DEF IInv, TypeInv
<1>2. i \in DOMAIN rows /\ i > 1 /\ i - 1 \in DOMAIN rows
  BY <1>1
<1>3. rows[i] \in Row /\ rows[i - 1] \in Row
  BY <1>1, <1>2
<1>4. rows[i - 1].end <= rows[i].start /\ rows[i].start \in Nat /\ rows[i - 1].end \in Nat
  BY <1>2, <1>3, RowFields, Zenon DEF IInv, RowsInv
<1> QED BY <1>4

\* The auditor derives the recorder's summary.
LEMMA DerivedSummary ==
    ASSUME IInv
    PROVE  /\ Derived.statuses = recorder.statuses /\ Derived.phases = recorder.phases
           /\ Derived.monitorPeak = recorder.monitorPeak /\ Derived.maxGap = recorder.maxGap
           /\ Derived.monitorPeak = PeakOf(MonitorRows)
           /\ \A f \in DOMAIN Derived : Derived[f] = recorder[f]
<1>1. recorder \in RecorderType
  BY Zenon DEF IInv, TypeInv
<1>2. \A s \in Statuses : recorder.statuses[s] = Cardinality(OfStatus(s))
  BY Zenon DEF IInv, SummaryInv
<1>3. \A s : Indices(LAMBDA row : row.status = s) = OfStatus(s)
  BY DEF Indices, OfStatus
<1>4. \A p : Indices(LAMBDA row : row.phase = p) = OfPhase(p)
  BY DEF Indices, OfPhase
<1>5. Indices(LAMBDA row : row.site = "runner_monitor") = OfMonitor
  BY DEF Indices, OfMonitor
<1>6. ASSUME NEW p \in Phases
      PROVE  DerivedPhase(p) = recorder.phases[p]
  <2> DEFINE t == recorder.phases[p]
  <2>1. t \in PhaseTally
    BY <1>1 DEF RecorderType
  <2>2. /\ t.samples = Cardinality(OfPhase(p)) /\ IsMax(t.peak, Sizes(OfPhase(p)))
        /\ t.complete = Cardinality({i \in OfPhase(p) : Complete(i)})
    BY Zenon DEF IInv, SummaryInv
  <2>3. OfPhase(p) \subseteq DOMAIN rows
    BY DEF OfPhase
  <2>4. t.peak = PeakOf(OfPhase(p))
    BY <2>2, <2>3, SizesOf, MaxOrNoneIs, Zenon
  <2>5. DerivedPhase(p) = [samples |-> Cardinality(OfPhase(p)),
                           complete |-> Cardinality({i \in OfPhase(p) : rows[i].status = "COMPLETE"}),
                           peak |-> PeakOf(OfPhase(p))]
    BY <1>4, Zenon DEF DerivedPhase
  <2>6. {i \in OfPhase(p) : Complete(i)} = {i \in OfPhase(p) : rows[i].status = "COMPLETE"}
    BY Zenon DEF Complete
  <2> HIDE DEF t
  <2>7. t = [samples |-> t.samples, complete |-> t.complete, peak |-> t.peak]
    BY <2>1 DEF PhaseTally
  <2> QED BY <2>2, <2>4, <2>5, <2>6, <2>7, Zenon DEF t
<1>7. Derived.phases = recorder.phases
  <2>1. Derived.phases = [p \in Phases |-> DerivedPhase(p)]
    BY PhaseNames, Zenon DEF Derived
  <2>2. recorder.phases \in [Phases -> PhaseTally]
    BY <1>1 DEF RecorderType
  <2> HIDE DEF Phases, PhaseTally
  <2> QED BY <1>6, <2>1, <2>2
<1>8. Derived.statuses = recorder.statuses
  <2>1. Derived.statuses = [s \in Statuses |-> Cardinality(OfStatus(s))]
    BY <1>3, Zenon DEF Derived
  <2>2. recorder.statuses \in [Statuses -> Nat]
    BY <1>1 DEF RecorderType
  <2> QED BY <1>2, <2>1, <2>2
<1>9. Derived.monitorPeak = PeakOf(OfMonitor) /\ Derived.monitorPeak = recorder.monitorPeak
  <2>1. Derived.monitorPeak = PeakOf(OfMonitor)
    BY <1>5, Zenon DEF Derived
  <2>2. OfMonitor \subseteq DOMAIN rows
    BY DEF OfMonitor
  <2>3. IsMax(recorder.monitorPeak, Sizes(OfMonitor))
    BY Zenon DEF IInv, SummaryInv
  <2> QED BY <2>1, <2>2, <2>3, SizesOf, MaxOrNoneIs, Zenon
<1>10. Derived.maxGap = recorder.maxGap
  <2>1. Derived.maxGap = MaxOrNone(Gaps)
    BY Zenon DEF Derived, Gaps
  <2>2. IsMax(recorder.maxGap, Gaps)
    BY Zenon DEF IInv, SummaryInv
  <2> QED BY <2>1, <2>2, GapsOf, MaxOrNoneIs, Zenon
<1>11. DOMAIN Derived = {"statuses", "phases", "monitorPeak", "maxGap"}
  BY Zenon DEF Derived
<1> QED BY <1>7, <1>8, <1>9, <1>10, <1>11, MonitorRowsAre, Zenon

LEMMA Ranks ==
    Rank("unknown") = 1 /\ Rank("readiness") = 2 /\ Rank("workload") = 3 /\ Rank("cleanup") = 4
<1>1. /\ PHASES[1] = "unknown" /\ PHASES[2] = "readiness" /\ PHASES[3] = "workload"
      /\ PHASES[4] = "cleanup"
  BY DEF PHASES
<1>2. \A i \in 1..4 : i = 1 \/ i = 2 \/ i = 3 \/ i = 4
  OBVIOUS
<1>3. 1 \in 1..4 /\ 2 \in 1..4 /\ 3 \in 1..4 /\ 4 \in 1..4
  OBVIOUS
<1>4. /\ \A i \in 1..4 : PHASES[i] = "unknown" => i = 1
      /\ \A i \in 1..4 : PHASES[i] = "readiness" => i = 2
      /\ \A i \in 1..4 : PHASES[i] = "workload" => i = 3
      /\ \A i \in 1..4 : PHASES[i] = "cleanup" => i = 4
  BY <1>1, <1>2
<1> QED BY <1>1, <1>3, <1>4, Zenon DEF Rank

\* A row and one before it: the earlier one is the monitor's.
LEMMA EarlierRow ==
    ASSUME IInv, NEW i \in DOMAIN rows, NEW j \in 1..(i - 1)
    PROVE  /\ i \in Nat /\ j \in DOMAIN rows /\ j >= 1 /\ j < i /\ i - 1 \in DOMAIN rows
           /\ rows[j].site = "runner_monitor"
           /\ mode = "g3" => rows[j].phase = "unknown"
           /\ mode = "g4" =>
                 /\ rows[j].phase = IF j = 1 THEN "readiness" ELSE "workload"
                 /\ rows[j].event \in Nat /\ rows[j].start \in Nat /\ rows[j].end \in Nat
                 /\ rows[j].event <= rows[j].start /\ rows[j].start < rows[j].end
                 /\ j > 1 => rows[j].event = link.event /\ rows[1].end <= rows[j].event
<1>1. rows \in Seq(Row)
  BY Zenon DEF IInv, TypeInv
<1>2. i \in Nat /\ j \in DOMAIN rows /\ j >= 1 /\ j < i /\ i - 1 \in DOMAIN rows /\ j < Len(rows)
  BY <1>1
<1>3. rows[j] \in Row
  BY <1>1, <1>2
<1>4. rows[j].site = "runner_monitor" /\ rows[j].start < rows[j].end
  BY <1>2, Zenon DEF IInv, RowsInv
<1>5. /\ mode = "g3" => rows[j].phase = "unknown"
      /\ mode = "g4" =>
            /\ rows[j].phase = IF j = 1 THEN "readiness" ELSE "workload"
            /\ rows[j].event \in Nat /\ rows[j].event <= rows[j].start
            /\ j > 1 => rows[j].event = link.event /\ rows[1].end <= rows[j].event
  BY <1>2, <1>4, Zenon DEF IInv, PhasesInv
<1> QED BY <1>2, <1>3, <1>4, <1>5, RowFields, Zenon

LEMMA OrderedPhases == ASSUME IInv PROVE PhasesInOrder
<1> DEFINE before(i) == {j \in 1..(i - 1) : rows[j].phase # "unknown"}
           ready(i) == {j \in before(i) : rows[j].phase = "readiness"}
           cleaned(i) == {j \in before(i) : rows[j].phase = "cleanup"}
<1> SUFFICES ASSUME NEW i \in DOMAIN rows, rows[i].phase # "unknown"
             PROVE  /\ rows[i].event <= rows[i].start
                    /\ \A j \in before(i) : /\ Rank(rows[j].phase) <= Rank(rows[i].phase)
                                            /\ rows[j].event <= rows[i].event
                    /\ rows[i].phase = "workload" =>
                          ready(i) # {} /\ rows[i].event >= rows[Max(ready(i))].end
                    /\ rows[i].phase = "cleanup" /\ cleaned(i) = {} /\ i > 1 =>
                          rows[i].event >= rows[i - 1].end
  BY Zenon DEF PhasesInOrder
<1>1. rows \in Seq(Row) /\ mode \in {"g3", "g4"}
  BY Zenon DEF IInv, TypeInv
<1>2. rows[i] \in Row /\ i \in Nat /\ i >= 1
  BY <1>1
<1>3. rows[i].start \in Nat /\ rows[i].end \in Nat
      /\ (rows[i].site = "runner_monitor" \/ rows[i].site = "cleanup_check")
  BY <1>2, RowFields, Zenon
<1>4. CASE rows[i].site = "cleanup_check"
  <2>1. /\ rows[i].phase = "cleanup" /\ rows[i].event \in Nat /\ rows[i].event <= rows[i].start
        /\ i > 1 => rows[i - 1].end <= rows[i].event
    BY <1>4, Zenon DEF IInv, PhasesInv
  <2>2. ASSUME NEW j \in before(i)
        PROVE  Rank(rows[j].phase) <= Rank(rows[i].phase) /\ rows[j].event <= rows[i].event
    <3>1. j \in 1..(i - 1) /\ rows[j].phase # "unknown"
      BY <2>2
    <3> HIDE DEF before, ready, cleaned
    <3>2. /\ mode = "g4" /\ j \in Nat /\ j >= 1 /\ j < i
          /\ rows[j].phase = IF j = 1 THEN "readiness" ELSE "workload"
          /\ rows[j].event \in Nat /\ rows[j].start \in Nat /\ rows[j].end \in Nat
          /\ rows[j].event <= rows[j].start /\ rows[j].start < rows[j].end
          /\ j > 1 => rows[j].event = link.event /\ rows[1].end <= rows[j].event
      BY <1>1, <3>1, EarlierRow
    <3> DEFINE k == i - 1
    <3>3. k \in 1..(i - 1) /\ k = i - 1 /\ k \in Nat /\ j <= k /\ i > 1
      BY <1>2, <3>2
    <3> HIDE DEF k
    <3>4. /\ rows[k].event \in Nat /\ rows[k].start \in Nat /\ rows[k].end \in Nat
          /\ rows[k].event <= rows[k].start /\ rows[k].start < rows[k].end
          /\ k > 1 => rows[k].event = link.event /\ rows[1].end <= rows[k].event
      BY <3>2, <3>3, EarlierRow, Zenon
    <3>5. rows[k].end <= rows[i].event
      BY <2>1, <3>3, Zenon
    <3>6. rows[j].event <= rows[k].end
      <4>1. CASE j = k
        BY <3>4, <4>1
      <4>2. CASE j = 1 /\ k > 1
        BY <3>2, <3>4, <4>2
      <4>3. CASE j > 1 /\ k > 1
        BY <3>2, <3>4, <4>3
      <4> QED BY <3>2, <3>3, <4>1, <4>2, <4>3
    <3>7. rows[j].event <= rows[i].event
      BY <2>1, <3>2, <3>4, <3>5, <3>6
    <3>8. Rank(rows[j].phase) <= Rank(rows[i].phase)
      BY <2>1, <3>2, Ranks
    <3> QED BY <3>7, <3>8
  <2>3. rows[i].phase # "workload"
    BY <2>1
  <2> QED BY <2>1, <2>2, <2>3
<1>5. CASE rows[i].site = "runner_monitor"
  <2>1. /\ mode = "g4" /\ rows[i].phase = IF i = 1 THEN "readiness" ELSE "workload"
        /\ rows[i].event \in Nat /\ rows[i].event <= rows[i].start
        /\ i > 1 => rows[i].event = link.event /\ rows[1].end <= rows[i].event
    BY <1>1, <1>5, Zenon DEF IInv, PhasesInv
  <2>2. ASSUME NEW j \in before(i)
        PROVE  Rank(rows[j].phase) <= Rank(rows[i].phase) /\ rows[j].event <= rows[i].event
    <3>1. j \in 1..(i - 1) /\ rows[j].phase # "unknown"
      BY <2>2
    <3> HIDE DEF before, ready, cleaned
    <3>2. /\ j \in Nat /\ j >= 1 /\ j < i
          /\ rows[j].phase = IF j = 1 THEN "readiness" ELSE "workload"
          /\ rows[j].event \in Nat /\ rows[j].start \in Nat /\ rows[j].end \in Nat
          /\ rows[j].event <= rows[j].start /\ rows[j].start < rows[j].end
          /\ j > 1 => rows[j].event = link.event /\ rows[1].end <= rows[j].event
      BY <2>1, <3>1, EarlierRow
    <3>3. i > 1 /\ i # 1
      BY <1>2, <3>2
    <3>4. rows[i].phase = "workload" /\ rows[i].event = link.event /\ rows[1].end <= rows[i].event
      BY <2>1, <3>3, Zenon
    <3>5. rows[j].event <= rows[i].event
      <4>1. CASE j = 1
        BY <2>1, <3>2, <3>4, <4>1
      <4>2. CASE j > 1
        BY <2>1, <3>2, <3>4, <4>2
      <4> QED BY <3>2, <4>1, <4>2
    <3>6. Rank(rows[j].phase) <= Rank(rows[i].phase)
      BY <3>2, <3>4, Ranks
    <3> QED BY <3>5, <3>6
  <2>3. ASSUME rows[i].phase = "workload"
        PROVE  ready(i) # {} /\ rows[i].event >= rows[Max(ready(i))].end
    <3>1. i > 1 /\ rows[1].end <= rows[i].event
      BY <1>2, <2>1, <2>3
    <3>2. 1 \in 1..(i - 1)
      BY <1>2, <3>1
    <3>3. \A j \in 1..(i - 1) : rows[j].phase = IF j = 1 THEN "readiness" ELSE "workload"
      BY <2>1, EarlierRow, Zenon
    <3>4. ready(i) = {1}
      BY <3>2, <3>3
    <3> HIDE DEF before, ready, cleaned
    <3>5. Max(ready(i)) = 1
      BY <3>4, MaxIs
    <3>6. rows[1].end \in Nat
      BY <2>1, <3>2, EarlierRow, Zenon
    <3>7. rows[i].event >= rows[1].end
      BY <2>1, <3>1, <3>6
    <3> QED BY <3>4, <3>5, <3>7, Zenon
  <2>4. rows[i].phase # "cleanup"
    BY <2>1
  <2> HIDE DEF before, ready, cleaned
  <2> QED BY <2>1, <2>2, <2>3, <2>4, Zenon
<1> QED BY <1>3, <1>4, <1>5, Zenon

\* The rows that a count of zero rules out.
LEMMA NoneCounted ==
    ASSUME IInv, NEW s \in Statuses, recorder.statuses[s] = 0
    PROVE  \A i \in DOMAIN rows : rows[i].status # s
<1>1. rows \in Seq(Row)
  BY Zenon DEF IInv, TypeInv
<1>2. Len(rows) \in Nat /\ DOMAIN rows = 1..Len(rows) /\ OfStatus(s) \subseteq 1..Len(rows)
  BY <1>1 DEF OfStatus
<1>3. IsFiniteSet(1..Len(rows))
  BY <1>2, FS_Interval
<1>4. IsFiniteSet(OfStatus(s))
  BY <1>2, <1>3, FS_Subset
<1>5. Cardinality(OfStatus(s)) = 0
  BY Zenon DEF IInv, SummaryInv
<1>6. OfStatus(s) = {}
  BY <1>4, <1>5, FS_EmptySet
<1> QED BY <1>6, Zenon DEF OfStatus

LEMMA AuditedStream == IInv => StreamAudited
<1> SUFFICES ASSUME IInv, ~recorder.error, recorder.statuses["INVALID"] = 0, ~core.lost,
                    recorder.monitorPeak # None
             PROVE  Audit
  BY Zenon DEF StreamAudited
<1>1. rows \in Seq(Row)
  BY Zenon DEF IInv, TypeInv
<1>2. rows # <<>>
  <2>1. IsMax(recorder.monitorPeak, Sizes(OfMonitor))
    BY Zenon DEF IInv, SummaryInv
  <2>2. Sizes(OfMonitor) # {}
    BY <2>1, Zenon DEF IsMax
  <2>3. OfMonitor # {}
    BY <2>2, Zenon DEF Sizes
  <2> QED BY <1>1, <2>3 DEF OfMonitor
<1>3. \A i \in DOMAIN rows : rows[i].status # "INVALID"
  BY NoneCounted DEF Statuses
<1>4. \A i \in DOMAIN rows \ {1} : rows[i].start >= rows[i - 1].end
  <2> SUFFICES ASSUME NEW i \in DOMAIN rows \ {1} PROVE rows[i].start >= rows[i - 1].end
    BY Zenon
  <2>1. i \in DOMAIN rows /\ i > 1 /\ i - 1 \in DOMAIN rows
    BY <1>1
  <2>2. rows[i] \in Row /\ rows[i - 1] \in Row
    BY <1>1, <2>1
  <2>3. rows[i - 1].end <= rows[i].start /\ rows[i].start \in Nat /\ rows[i - 1].end \in Nat
    BY <2>1, <2>2, RowFields, Zenon DEF IInv, RowsInv
  <2> QED BY <2>3
<1>5. core.peak = recorder.monitorPeak
  BY Zenon DEF IInv, DecidedInv
<1>6. core.peak = Derived.monitorPeak /\ \A f \in DOMAIN Derived : Derived[f] = recorder[f]
  BY <1>5, DerivedSummary, Zenon
<1> QED BY <1>2, <1>3, <1>4, <1>6, OrderedPhases, Zenon DEF Audit

\* Runner's running peak is the greatest size among the monitor's rows, where
\* a row that is not COMPLETE counts as none.
LEMMA DecidedPeak ==
    ASSUME IInv, ~core.lost, OfMonitor # {}
    PROVE  core.peak = Max({IF rows[i].status = "COMPLETE" THEN rows[i].rss ELSE 0 : i \in OfMonitor})
<1> DEFINE K == {IF rows[i].status = "COMPLETE" THEN rows[i].rss ELSE 0 : i \in OfMonitor}
           S == Sizes(OfMonitor)
           m == recorder.monitorPeak
<1>1. S \subseteq Nat
  BY SizesOf, Zenon DEF OfMonitor
<1>2. core.peak = IF m = None THEN 0 ELSE m
  BY Zenon DEF IInv, DecidedInv
<1>3. IsMax(m, S)
  BY Zenon DEF IInv, SummaryInv
<1>4. K \subseteq S \cup {0} /\ S \subseteq K
  BY Zenon DEF Sizes, Complete
<1>5. S = {} => 0 \in K
  BY Zenon DEF Sizes, Complete
<1> HIDE DEF K, S, m
<1>6. K \subseteq Nat
  BY <1>1, <1>4
<1>7. CASE S = {}
  <2>1. m = None
    BY <1>3, <1>7, Zenon DEF IsMax
  <2>2. 0 \in K /\ \A x \in K : x <= 0
    BY <1>4, <1>5, <1>7
  <2> QED BY <1>2, <1>6, <2>1, <2>2, MaxIs, Zenon DEF K
<1>8. CASE S # {}
  <2>1. m \in S /\ \A x \in S : x <= m
    BY <1>3, <1>8, Zenon DEF IsMax
  <2>2. m \in Nat /\ m \in K /\ m # None
    BY <1>1, <1>4, <2>1, TheConstants
  <2>3. \A x \in K : x <= m
    BY <1>4, <2>1, <2>2
  <2> QED BY <1>2, <1>6, <2>2, <2>3, MaxIs, Zenon DEF K
<1> QED BY <1>7, <1>8

LEMMA DecidedMinimum ==
    ASSUME IInv, ~core.lost, OfMonitor # {}, \A i \in OfMonitor : rows[i].status \in Usable
    PROVE  core.minimum = Min({rows[i].avail : i \in OfMonitor})
<1>1. IsMin(core.minimum, Available)
  BY Zenon DEF IInv, DecidedInv
<1>2. Available = {rows[i].avail : i \in OfMonitor}
  BY Zenon DEF Available
<1>3. \A i \in OfMonitor : rows[i].avail \in Nat
  <2>1. \A i \in OfMonitor : rows[i] \in Row
    BY DEF IInv, TypeInv, OfMonitor
  <2> QED BY <2>1, RowFields, Zenon
<1>4. Available \subseteq Nat /\ Available # {}
  BY <1>2, <1>3, Zenon
<1>5. core.minimum \in Available /\ \A x \in Available : core.minimum <= x
  BY <1>1, <1>4, Zenon DEF IsMin
<1> QED BY <1>2, <1>4, <1>5, MinIs, Zenon

\* A row that calls for a stop is the monitor's last.
LEMMA OneTrigger ==
    ASSUME IInv, NEW t \in Triggers
    PROVE  /\ Triggers = {t} /\ Min(Triggers) = t /\ Max(OfMonitor) = t
<1>1. rows \in Seq(Row)
  BY Zenon DEF IInv, TypeInv
<1>2. OfMonitor \subseteq Nat
  BY <1>1 DEF OfMonitor
<1>3. Triggers \subseteq OfMonitor
  BY TriggersAre
<1>4. \A i \in Triggers : \A j \in OfMonitor : j <= i
  BY Zenon DEF IInv, DecidedInv
<1>5. Triggers = {t}
  <2> SUFFICES ASSUME NEW i \in Triggers PROVE i = t
    BY Zenon
  <2>1. i \in Nat /\ t \in Nat /\ i <= t /\ t <= i
    BY <1>2, <1>3, <1>4, Zenon
  <2> QED BY <2>1
<1>6. Min({t}) = t
  BY <1>2, <1>3, MinIs
<1>7. Max(OfMonitor) = t
  BY <1>2, <1>3, <1>4, MaxIs, ZenonT(30)
<1> QED BY <1>5, <1>6, <1>7

LEMMA AgreedDecision == IInv => DecisionAgrees
<1> SUFFICES ASSUME IInv, mode = "g4", MonitorRows # {}, ~core.lost,
                    \A i \in MonitorRows : rows[i].status \in Usable
             PROVE  ResourceDecision
  BY Zenon DEF DecisionAgrees
<1>1. MonitorRows = OfMonitor
  BY MonitorRowsAre
<1>2. \A i \in OfMonitor : rows[i].phase \in {"readiness", "workload"}
  <2>1. \A i \in OfMonitor : rows[i].phase = IF i = 1 THEN "readiness" ELSE "workload"
    BY Zenon DEF IInv, PhasesInv, OfMonitor
  <2> QED BY <2>1, Zenon
<1>3. core.peak = Max({IF rows[i].status = "COMPLETE" THEN rows[i].rss ELSE 0 : i \in OfMonitor})
  BY <1>1, DecidedPeak
<1>4. core.minimum = Min({rows[i].avail : i \in OfMonitor})
  BY <1>1, DecidedMinimum
<1>5. ASSUME NEW t \in Triggers
      PROVE  /\ Min(Triggers) = Max(OfMonitor)
             /\ core.primary \in {"rss_stop", "available_stop", "runner_error", "stage_timeout"}
  <2>1. Min(Triggers) = Max(OfMonitor)
    BY OneTrigger
  <2>2. rows[t].status \in Usable
    BY TriggersAre, <1>1, Zenon
  <2> QED BY <2>1, <2>2, Zenon DEF IInv, DecidedInv
<1>6. ASSUME core.primary \in {"rss_stop", "available_stop"}
      PROVE  Triggers # {} /\ core.primary = RowReason(rows[Min(Triggers)])
  <2>1. PICK t \in Triggers : RowReason(rows[t]) = core.primary
    BY <1>6, Zenon DEF IInv, DecidedInv
  <2>2. Min(Triggers) = t
    BY OneTrigger
  <2> QED BY <2>1, <2>2, Zenon
<1> QED BY <1>1, <1>2, <1>3, <1>4, <1>5, <1>6, Zenon DEF ResourceDecision

LEMMA ObservedAccepted == IInv => AcceptedIsObserved
<1> SUFFICES ASSUME IInv PROVE AcceptedIsObserved
  BY Zenon
<1>1. core.success => /\ core.primary = "command_success" /\ Triggers = {}
                      /\ \A i \in OfMonitor : rows[i].status \in Usable
  BY Zenon DEF IInv, DecidedInv
<1>2. ASSUME mode = "g4", Outcome
      PROVE  /\ rows[1].status = "COMPLETE" /\ rows[1].phase = "readiness"
             /\ rows[2].status = "COMPLETE" /\ rows[2].phase = "workload"
             /\ rows[1].end <= rows[2].event /\ rows[2].event <= rows[2].start
             /\ Triggers = {}
  <2>1. link.seq = 5 /\ core.success
    BY <1>2, Zenon DEF Outcome
  <2>2. /\ Len(rows) >= 2 /\ Complete(1) /\ Complete(2)
        /\ rows[1].site = "runner_monitor" /\ rows[2].site = "runner_monitor"
    BY <1>2, <2>1, Zenon DEF IInv, LinkInv
  <2>3. rows \in Seq(Row)
    BY Zenon DEF IInv, TypeInv
  <2>4. 1 \in DOMAIN rows /\ 2 \in DOMAIN rows /\ 2 > 1 /\ 2 # 1
    BY <2>2, <2>3
  <2>5. /\ rows[1].phase = "readiness" /\ rows[2].phase = "workload"
        /\ rows[1].end <= rows[2].event /\ rows[2].event <= rows[2].start
    BY <1>2, <2>2, <2>4, Zenon DEF IInv, PhasesInv
  <2> QED BY <1>1, <2>1, <2>2, <2>5, Zenon DEF Complete
<1>3. ASSUME Report
      PROVE  /\ \A i \in DOMAIN rows : rows[i].status \in Usable
             /\ Triggers = {} /\ core.peak = PeakOf(MonitorRows)
  <2>1. Audit /\ core.success /\ recorder.statuses["PARTIAL"] = 0
    BY <1>3, Zenon DEF Report
  <2>2. \A i \in DOMAIN rows : rows[i].status # "INVALID" /\ rows[i].status # "PARTIAL"
    BY <2>1, NoneCounted DEF Audit, Statuses
  <2>3. \A i \in DOMAIN rows : rows[i].status \in Statuses
    <3>1. \A i \in DOMAIN rows : rows[i] \in Row
      BY DEF IInv, TypeInv
    <3> QED BY <3>1, RowFields, Zenon
  <2>4. \A i \in DOMAIN rows : rows[i].status \in Usable
    BY <2>2, <2>3, Zenon DEF Statuses, Usable
  <2>5. core.peak = PeakOf(MonitorRows)
    BY <2>1, DerivedSummary, Zenon DEF Audit
  <2> QED BY <1>1, <2>1, <2>4, <2>5, Zenon
<1> QED BY <1>2, <1>3, Zenon DEF AcceptedIsObserved

\* The summary that Recorder.append keeps is the one group_audit.audit derives
\* from the stored rows, and the rows are in the order it demands: an honest
\* stream is accepted however the run ended, for any number of samples, any
\* sizes and any thresholds.
THEOREM HonestStreamIsAudited == Spec => []StreamAudited
  BY Invariance, AuditedStream, PTL

\* g4_verify.resource_decision recomputes from the rows alone the peak, the
\* minimum, the stop and the reason that run_check.py's loop decided on.
THEOREM VerifierRecomputesDecision == Spec => []DecisionAgrees
  BY Invariance, AgreedDecision, PTL

\* A run that g4_bootstrap accepts has a COMPLETE sample on each side of the
\* release, and one that group_run reports as a success has no gap in its
\* stream; neither has a sample that called for a stop.
THEOREM AcceptedRunsWereObserved == Spec => []AcceptedIsObserved
  BY Invariance, ObservedAccepted, PTL
=============================================================================
