----------------------- MODULE OutcomeMaturation_proofs -----------------------
(***************************************************************************)
(* Proofs about OutcomeMaturation, for any rows of any kinds, any candles, *)
(* horizons, batch sizes and delays.                                       *)
(*                                                                         *)
(* A row that ended is never due again, and whatever a cycle still has in  *)
(* its hands it has listed before: the retention evaluation, which reads   *)
(* between those two, only calls archivable what has ended.                *)
(***************************************************************************)
EXTENDS OutcomeMaturation, FiniteSetTheorems, WellFoundedInduction, TLAPS

\* Nothing lists the row again.
Final(r) ==
    /\ rows[r] # None
    /\ \/ r \in Scheduled /\ rows[r].due = None /\ rows[r].status \in {"MATURE", "DATA_GAP"}
       \/ r \in Observations /\ rows[r].status = "complete"

MatureIsFinal ==
    \A r \in Scheduled : rows[r] # None /\ rows[r].status = "MATURE" => rows[r].due = None

\* What a cycle has listed and not yet reached has not ended.
CycleOK ==
    /\ phase = "idle" => todo = {} /\ hand = {}
    /\ phase # "idle" => asof \in 0..MaxTime /\ begun \in 0..MaxTime
    /\ phase = "scheduler" => /\ todo \cup hand \subseteq Scheduled /\ todo \cap hand = {}
                              /\ \A r \in todo \cup hand : ~Final(r)
    /\ phase = "signals" => hand = {} /\ todo \subseteq Signals
    /\ phase = "observations" => hand = {} /\ todo \subseteq Observations /\ \A r \in todo : ~Final(r)

\* What the evaluation knows of its table has ended.
RetentionOK ==
    /\ step = 2 => context.table \in Tables
    /\ \A r \in context.matured \cup archived : r \in Stored /\ Final(r)

OutcomeInv == TypeOK /\ MatureIsFinal /\ CycleOK /\ RetentionOK

-----------------------------------------------------------------------------
(***************************************************************************)
(* Numbers.                                                                *)
(***************************************************************************)
\* A set of numbers that is not empty has a least element.
LEMMA LeastNumber ==
  ASSUME NEW S \in SUBSET Nat, S # {}
  PROVE  \E m \in S : \A y \in S : m <= y
<1> DEFINE Below == {0..n : n \in S}
<1>1. \A n \in S : 0..n \in FiniteSubsetsOf(Nat)
  <2>1. TAKE n \in S
  <2>2. 0 \in Int /\ n \in Int
    OBVIOUS
  <2>3. IsFiniteSet(0..n)
    BY <2>2, FS_Interval
  <2>4. 0..n \in SUBSET Nat
    BY <2>2
  <2> QED BY <2>3, <2>4, Zenon DEF FiniteSubsetsOf
<1>2. Below # {} /\ Below \subseteq FiniteSubsetsOf(Nat)
  BY <1>1
<1>3. \E x \in Below : \A y \in Below : ~(<<y, x>> \in StrictSubsetOrdering(Nat))
  <2> HIDE DEF Below
  <2> QED BY <1>2, FS_StrictSubsetOrderingWellFounded, WFMin
<1>4. PICK m \in S : \A y \in Below : ~(<<y, 0..m>> \in StrictSubsetOrdering(Nat))
  BY <1>3
<1>5. ASSUME NEW n \in S, n < m PROVE FALSE
  <2>1. 0..n \in Below
    OBVIOUS
  <2>2. 0..n \subseteq 0..m /\ m \in 0..m /\ m \notin 0..n
    BY <1>5
  <2>3. <<0..n, 0..m>> \in StrictSubsetOrdering(Nat)
    BY <2>2 DEF StrictSubsetOrdering
  <2> QED BY <1>4, <2>1, <2>3
<1>6. \A y \in S : m <= y
  BY <1>5
<1> QED BY <1>6

LEMMA MinIsLeast ==
  ASSUME NEW S \in SUBSET Nat, S # {}
  PROVE  Min(S) \in S /\ \A y \in S : Min(S) <= y
BY LeastNumber DEF Min

LEMMA MinOfTwo ==
  ASSUME NEW m \in Nat, NEW n \in Nat
  PROVE  Min({m, n}) \in Nat /\ Min({m, n}) <= m
<1> DEFINE S == {m, n}
<1>1. S \in SUBSET Nat /\ S # {} /\ m \in S
  OBVIOUS
<1> HIDE DEF S
<1>2. Min(S) \in S /\ \A y \in S : Min(S) <= y
  BY <1>1, MinIsLeast
<1>3. Min(S) \in Nat /\ Min(S) <= m
  BY <1>1, <1>2
<1> QED
  BY <1>3 DEF S

\* The back-off of an attempt count, which never passes six.
LEMMA DelayOK == \A n \in 0..6 : Delay(n) \in Nat
<1> TAKE n \in 0..6
<1>1. n = 0 \/ n = 1 \/ n = 2 \/ n = 3 \/ n = 4 \/ n = 5 \/ n = 6
  OBVIOUS
<1>2. 2^0 = 1 /\ 2^1 = 2 /\ 2^2 = 4 /\ 2^3 = 8 /\ 2^4 = 16 /\ 2^5 = 32 /\ 2^6 = 64
  OBVIOUS
<1>3. 2^n \in Nat
  <2>1. 2^n \in {2^0, 2^1, 2^2, 2^3, 2^4, 2^5, 2^6}
    BY <1>1, Zenon
  <2> QED
    BY <1>2, <2>1
<1> HIDE DEF Delay
<1> DEFINE m == 2^n
<1>4. Delay(n) = Min({MaxDelay, m})
  BY DEF Delay
<1>5. m \in Nat
  BY <1>3
<1> HIDE DEF m
<1> QED
  BY <1>4, <1>5, MinOfTwo, TimesAssumption

-----------------------------------------------------------------------------
(***************************************************************************)
(* Rows.                                                                   *)
(***************************************************************************)
Statuses == {"CENSORED", "PARTIAL", "MATURE", "DATA_GAP", "RETRYABLE_ERROR",
             "new", "incomplete", "unknown", "complete"}

LEMMA NewRowsOK ==
  ASSUME NEW at \in 0..MaxTime
  PROVE  /\ ScheduledRow(at) \in Row /\ ScheduledRow(at).status = "CENSORED"
         /\ NewRow(at) \in Row /\ NewRow(at).status = "new"
<1>1. Horizons \in SUBSET Nat /\ Horizons # {}
  BY TimesAssumption
<1>2. First \in Nat
  BY <1>1, MinIsLeast DEF First
<1>3. ScheduledRow(at) \in Row /\ ScheduledRow(at).status = "CENSORED"
  BY <1>2 DEF ScheduledRow, Row
<1> QED
  BY <1>3 DEF NewRow, Row

LEMMA AttemptedOK ==
  ASSUME NEW r, rows[r] \in Row, NEW status \in Statuses, NEW due \in Nat \cup {None}
  PROVE  /\ Attempted(r, status, due) \in Row
         /\ Attempted(r, status, due).status = status /\ Attempted(r, status, due).due = due
<1> DEFINE n == Min({6, rows[r].attempts + 1})
<1>1. rows[r].attempts \in 0..6
  BY DEF Row
<1>2. n \in 0..6
  BY <1>1, MinOfTwo
<1>3. Attempted(r, status, due) = [rows[r] EXCEPT !.status = status, !.due = due, !.attempts = n]
  BY DEF Attempted
<1> HIDE DEF n
<1> QED
  BY <1>2, <1>3 DEF Row, Statuses

\* What ends a row of the scheduler is that nothing is due any more.
LEMMA NextDueOK ==
  ASSUME NEW a \in Nat, NEW at \in Nat
  PROVE  /\ ShadowStatus(a, at) \in {"CENSORED", "PARTIAL", "MATURE", "DATA_GAP"}
         /\ NextDue(a, at) \in Nat \cup {None}
         /\ ShadowStatus(a, at) = "MATURE" => NextDue(a, at) = None
<1>1. ShadowStatus(a, at) \in {"CENSORED", "PARTIAL", "MATURE", "DATA_GAP"}
  BY DEF ShadowStatus
<1> DEFINE open == {h \in Horizons : ~Priced(a, h, at)}
<1>2. CASE ShadowStatus(a, at) \in {"MATURE", "DATA_GAP"}
  BY <1>1, <1>2 DEF NextDue
<1>3. CASE ShadowStatus(a, at) \notin {"MATURE", "DATA_GAP"}
  <2>1. open # {}
    <3>1. CASE DueHorizons(a, at) = {}
      <4>1. PICK h \in Horizons : TRUE
        BY TimesAssumption
      <4>2. ~(at >= a + h) /\ h \in Nat
        BY <3>1, TimesAssumption DEF DueHorizons
      <4>3. ~Priced(a, h, at)
        BY <4>2, TimesAssumption DEF Priced
      <4> QED
        BY <4>3
    <3>2. CASE DueHorizons(a, at) # {}
      BY <1>3, <3>2 DEF ShadowStatus
    <3> QED
      BY <3>1, <3>2
  <2>2. open \in SUBSET Nat
    BY TimesAssumption
  <2>3. NextDue(a, at) = a + Min(open)
    BY <1>3 DEF NextDue
  <2> HIDE DEF open
  <2>4. Min(open) \in Nat
    BY <2>1, <2>2, MinIsLeast
  <2> QED
    BY <1>1, <1>3, <2>3, <2>4
<1> QED
  BY <1>2, <1>3

\* A scheduler's result: typed, and mature only with nothing due.
LEMMA ComputedOK ==
  ASSUME NEW r, rows[r] \in Row, asof \in 0..MaxTime
  PROVE  Computed(r) \in Row /\ (Computed(r).status = "MATURE" => Computed(r).due = None)
<1> DEFINE a == rows[r].anchor
           row == Attempted(r, ShadowStatus(a, asof), NextDue(a, asof))
           labelled == Kind[r] # "episode" /\ asof >= a + Last
<1>1. a \in Nat /\ asof \in Nat
  BY TimesAssumption DEF Row
<1>2. row \in Row /\ (row.status = "MATURE" => row.due = None)
  <2> DEFINE status == ShadowStatus(a, asof)
             due == NextDue(a, asof)
  <2>1. /\ status \in Statuses /\ due \in Nat \cup {None}
        /\ status = "MATURE" => due = None
    BY <1>1, NextDueOK DEF Statuses
  <2>2. row = Attempted(r, status, due)
    OBVIOUS
  <2> HIDE DEF status, due, row
  <2>3. /\ Attempted(r, status, due) \in Row
        /\ Attempted(r, status, due).status = status /\ Attempted(r, status, due).due = due
    BY <2>1, AttemptedOK
  <2> QED
    BY <2>1, <2>2, <2>3
<1>3. labelled \in BOOLEAN
  OBVIOUS
<1>4. Computed(r) = [row EXCEPT !.labelled = labelled]
  BY DEF Computed
<1> HIDE DEF row, labelled
<1> QED
  BY <1>2, <1>3, <1>4 DEF Row

LEMMA ErroredOK ==
  ASSUME NEW r, rows[r] \in Row, asof \in 0..MaxTime
  PROVE  Errored(r) \in Row /\ Errored(r).status = "RETRYABLE_ERROR"
<1> DEFINE delay == Delay(IF Kind[r] = "episode" THEN rows[r].attempts ELSE 0)
           row == Attempted(r, "RETRYABLE_ERROR", asof + delay)
<1>1. rows[r].attempts \in 0..6
  BY DEF Row
<1>2. delay \in Nat
  BY <1>1, DelayOK
<1> HIDE DEF delay
<1>3. asof + delay \in Nat
  BY <1>2, TimesAssumption
<1>4. row \in Row /\ row.status = "RETRYABLE_ERROR"
  BY <1>3, AttemptedOK DEF Statuses
<1>5. Errored(r) = [row EXCEPT !.labelled = FALSE]
  BY DEF Errored, delay
<1> HIDE DEF row
<1> QED
  BY <1>4, <1>5 DEF Row

LEMMA ObservedOK ==
  ASSUME NEW r, rows[r] \in Row, asof \in 0..MaxTime, NEW ok
  PROVE  Observed(r, ok) \in Row
<1> DEFINE status == IF r \in Unpriced \/ ~ok THEN "unknown" ELSE ObservedStatus(r)
           due == IF r \in Unpriced \/ status = "complete" THEN None
                  ELSE IF status = "incomplete" THEN asof + 1
                  ELSE asof + Delay(rows[r].attempts)
<1>1. status \in Statuses
  BY DEF ObservedStatus, Statuses
<1>2. rows[r].attempts \in 0..6
  BY DEF Row
<1>3. Delay(rows[r].attempts) \in Nat
  BY <1>2, DelayOK
<1> HIDE DEF status
<1>4. due \in Nat \cup {None}
  BY <1>3, TimesAssumption
<1>5. Observed(r, ok) = Attempted(r, status, due)
  BY DEF Observed, status
<1> HIDE DEF due
<1> QED
  BY <1>1, <1>4, <1>5, AttemptedOK

-----------------------------------------------------------------------------
(***************************************************************************)
(* The invariant, step by step.                                            *)
(***************************************************************************)
\* A row that has ended is left alone.
KeepsFinal == \A q \in Rows : Final(q) => rows'[q] = rows[q] /\ Final(q)'

\* What the rows themselves need.
RowsOK == rows \in [Rows -> Row \cup {None}] /\ MatureIsFinal

LEMMA RowsOfInv == OutcomeInv => RowsOK
BY DEF OutcomeInv, RowsOK, TypeOK

LEMMA KindOfRow ==
  /\ \A r \in Rows : r \in Scheduled \/ r \in Signals \/ r \in Observations
  /\ Scheduled \subseteq Rows /\ Signals \subseteq Rows /\ Observations \subseteq Rows
  /\ Scheduled \cap Observations = {} /\ Scheduled \cap Signals = {} /\ Signals \cap Observations = {}
BY RowsAssumption DEF Scheduled, Signals, Observations

\* A row that has not ended is written.
LEMMA WrittenRow ==
  ASSUME RowsOK, NEW r \in Rows, NEW x \in Row, ~Final(r), rows' = [rows EXCEPT ![r] = x],
         r \in Scheduled /\ x.status = "MATURE" => x.due = None
  PROVE  /\ RowsOK' /\ KeepsFinal
         /\ Stored' = Stored \cup {r}
         /\ \A q \in Rows : q # r => (Final(q)' <=> Final(q))
<1>1. /\ rows' \in [Rows -> Row \cup {None}] /\ rows'[r] = x
      /\ \A q \in Rows : q # r => rows'[q] = rows[q]
  BY DEF RowsOK
<1>2. x # None
  BY NoRowAssumption
<1>3. MatureIsFinal'
  BY <1>1, KindOfRow DEF RowsOK, MatureIsFinal
<1>4. \A q \in Rows : q # r => (Final(q)' <=> Final(q))
  BY <1>1 DEF Final
<1>5. Stored' = Stored \cup {r}
  BY <1>1, <1>2 DEF Stored
<1>6. KeepsFinal
  BY <1>1, <1>4 DEF KeepsFinal
<1> QED
  BY <1>1, <1>3, <1>4, <1>5, <1>6 DEF RowsOK

LEMMA UnwrittenRows ==
  ASSUME RowsOK, UNCHANGED rows
  PROVE  RowsOK' /\ KeepsFinal /\ Stored' = Stored /\ \A q : Final(q)' <=> Final(q)
BY DEF RowsOK, MatureIsFinal, KeepsFinal, Stored, Final

CycleType ==
    /\ phase \in {"idle", "scheduler", "signals", "observations"}
    /\ asof \in 0..MaxTime \cup {None} /\ begun \in 0..MaxTime \cup {None}
    /\ todo \subseteq Stored /\ hand \subseteq Stored \cap Scheduled /\ frame \in BOOLEAN
    /\ tried \subseteq Observations /\ batches \in 0..MaxBatches

RetentionType ==
    /\ step \in 0..3
    /\ context \in [table : Tables \cup {None}, roots : SUBSET Rows, pending : SUBSET Rows, matured : SUBSET Rows]
    /\ archived \subseteq Stored

\* The invariant falls into four parts.
LEMMA InvParts ==
  OutcomeInv <=> /\ RowsOK /\ clock \in 0..MaxTime /\ faults \in 0..MaxFaults
                 /\ CycleType /\ CycleOK /\ RetentionType /\ RetentionOK
BY DEF OutcomeInv, TypeOK, RowsOK, CycleType, RetentionType

LEMMA InvPartsNext ==
  OutcomeInv' <=> /\ RowsOK' /\ clock' \in 0..MaxTime /\ faults' \in 0..MaxFaults
                  /\ CycleType' /\ CycleOK' /\ RetentionType' /\ RetentionOK'
BY DEF OutcomeInv, TypeOK, RowsOK, CycleType, RetentionType

\* Whatever keeps what has ended keeps what the evaluation knows.
LEMMA RetentionKept ==
  ASSUME OutcomeInv, KeepsFinal, Stored \subseteq Stored', UNCHANGED retention
  PROVE  RetentionType' /\ RetentionOK'
<1>1. RetentionType'
  BY InvParts DEF RetentionType, retention
<1>2. \A r \in context.matured \cup archived : r \in Stored' /\ Final(r)'
  BY DEF OutcomeInv, RetentionOK, KeepsFinal, Stored
<1> QED
  BY <1>1, <1>2 DEF OutcomeInv, RetentionOK, retention

LEMMA FaultsOK ==
  ASSUME OutcomeInv, UNCHANGED faults \/ Fault
  PROVE  faults' \in 0..MaxFaults
BY TimesAssumption DEF OutcomeInv, TypeOK, Fault

LEMMA IdleOK ==
  ASSUME OutcomeInv, Idle, UNCHANGED begun
  PROVE  CycleType' /\ CycleOK'
<1>1. /\ phase' = "idle" /\ asof' = None /\ todo' = {} /\ hand' = {} /\ frame' = FALSE
      /\ tried' = {} /\ batches' = 0 /\ begun' \in 0..MaxTime \cup {None}
  BY InvParts DEF Idle, CycleType
<1>2. 0 \in 0..MaxBatches
  BY TimesAssumption
<1>3. CycleType'
  BY <1>1, <1>2 DEF CycleType
<1>4. CycleOK'
  BY <1>1 DEF CycleOK
<1> QED
  BY <1>3, <1>4

\* A step that leaves the rows and the evaluation alone.
LEMMA CycleStep ==
  ASSUME OutcomeInv, UNCHANGED <<clock, rows, retention>>, UNCHANGED faults \/ Fault,
         CycleType', CycleOK'
  PROVE  OutcomeInv' /\ KeepsFinal
<1>1. RowsOK' /\ KeepsFinal /\ Stored' = Stored
  BY RowsOfInv, UnwrittenRows
<1>2. RetentionType' /\ RetentionOK'
  BY <1>1, RetentionKept
<1> QED
  BY <1>1, <1>2, FaultsOK, InvParts, InvPartsNext

LEMMA TickStep == ASSUME OutcomeInv, Tick PROVE OutcomeInv' /\ KeepsFinal
<1>1. clock' \in 0..MaxTime /\ UNCHANGED <<rows, cycle, retention, faults>>
  BY TimesAssumption DEF Tick, OutcomeInv, TypeOK
<1>2. RowsOK' /\ KeepsFinal /\ Stored' = Stored /\ \A q : Final(q)' <=> Final(q)
  BY <1>1, RowsOfInv, UnwrittenRows
<1>3. RetentionType' /\ RetentionOK'
  BY <1>1, <1>2, RetentionKept
<1>4. CycleType' /\ CycleOK'
  BY <1>1, <1>2, InvParts DEF CycleType, CycleOK, cycle
<1> QED
  BY <1>1, <1>2, <1>3, <1>4, InvParts, InvPartsNext

LEMMA AddsStep ==
  ASSUME OutcomeInv, NEW r \in Rows, NEW x \in Row, x.status # "MATURE", Adds(r, x)
  PROVE  OutcomeInv' /\ KeepsFinal
<1>1. rows[r] = None /\ rows' = [rows EXCEPT ![r] = x] /\ UNCHANGED <<clock, cycle, retention, faults>>
  BY DEF Adds
<1>2. ~Final(r) /\ r \notin Stored
  BY <1>1 DEF Final, Stored
<1>3. /\ RowsOK' /\ KeepsFinal /\ Stored' = Stored \cup {r}
      /\ \A q \in Rows : q # r => (Final(q)' <=> Final(q))
  BY <1>1, <1>2, RowsOfInv, WrittenRow
<1>4. RetentionType' /\ RetentionOK'
  BY <1>1, <1>3, RetentionKept
<1>5. \A q \in todo \cup hand : q \in Rows /\ q # r
  BY <1>2 DEF OutcomeInv, TypeOK, Stored
<1>6. CycleType' /\ CycleOK'
  BY <1>1, <1>3, <1>5, InvParts DEF CycleType, CycleOK, cycle
<1> QED
  BY <1>1, <1>3, <1>4, <1>6, InvParts, InvPartsNext

LEMMA CreationStep ==
  ASSUME OutcomeInv,
         ObserveRootDetector \/ Observe \/ \E r \in Rows : CreateRoot(r) \/ CreateSignal(r)
  PROVE  OutcomeInv' /\ KeepsFinal
<1>1. clock \in 0..MaxTime
  BY DEF OutcomeInv, TypeOK
<1>2. \E r \in Rows : Adds(r, ScheduledRow(clock)) \/ Adds(r, NewRow(clock))
  BY KindOfRow DEF ObserveRootDetector, Observe, OpensEpisode, OpensV2Root, CreateRoot, CreateSignal
<1> QED
  BY <1>1, <1>2, NewRowsOK, AddsStep

\* A list of due rows.
LEMMA FirstOfIs == \A S, n : \A T \in FirstOf(S, n) : T \subseteq S
BY DEF FirstOf

LEMMA BeginStep == ASSUME OutcomeInv, Begin PROVE OutcomeInv' /\ KeepsFinal
<1>1. /\ phase = "idle" /\ phase' = "scheduler" /\ asof' = clock /\ begun' = clock
      /\ UNCHANGED <<clock, rows, hand, frame, tried, batches, retention>>
      /\ UNCHANGED faults \/ Fault
      /\ todo' \in Batches(clock) \/ todo' = {}
  BY DEF Begin
<1>2. todo' \subseteq Stored \cap Scheduled /\ \A r \in todo' : DueRow(r, clock)
  <2>1. CASE todo' = {}
    BY <2>1
  <2>2. CASE todo' \in Batches(clock)
    <3> DEFINE due(k) == {r \in Stored : Kind[r] = k /\ DueRow(r, clock)}
    <3>0. todo' \in {e \cup v \cup l : e \in FirstOf(due("episode"), Limit),
                 v \in FirstOf(due("v2"), Limit), l \in FirstOf(due("live"), Limit)}
      BY <2>2 DEF Batches
    <3>1. PICK e \in FirstOf(due("episode"), Limit), v \in FirstOf(due("v2"), Limit),
               l \in FirstOf(due("live"), Limit) : todo' = e \cup v \cup l
      BY <3>0
    <3>2. e \subseteq due("episode") /\ v \subseteq due("v2") /\ l \subseteq due("live")
      BY <3>1, FirstOfIs
    <3>3. \A k \in {"episode", "v2", "live"} : \A r \in due(k) : r \in Stored \cap Scheduled /\ DueRow(r, clock)
      BY DEF Scheduled, Stored
    <3> HIDE DEF due
    <3> QED
      BY <3>1, <3>2, <3>3
  <2> QED
    BY <1>1, <2>1, <2>2
<1>3. \A r \in todo' : ~Final(r)
  BY <1>2, KindOfRow DEF DueRow, Final
<1>4. Stored' = Stored /\ \A q : Final(q)' <=> Final(q)
  BY <1>1, RowsOfInv, UnwrittenRows
<1>5. hand = {} /\ clock \in 0..MaxTime
  BY <1>1 DEF OutcomeInv, CycleOK, TypeOK
<1>6. CycleType' /\ CycleOK'
  BY <1>1, <1>2, <1>3, <1>4, <1>5, InvParts DEF CycleType, CycleOK
<1> QED
  BY <1>1, <1>6, CycleStep

LEMMA FetchStep == ASSUME OutcomeInv, NEW s, Fetch(s) PROVE OutcomeInv' /\ KeepsFinal
<1>1. /\ phase = "scheduler" /\ hand = {} /\ hand' \subseteq todo /\ todo' = todo \ hand'
      /\ UNCHANGED <<clock, rows, phase, asof, begun, tried, batches, retention>>
      /\ UNCHANGED faults \/ Fault
  BY DEF Fetch
<1>2. frame' \in BOOLEAN
  BY DEF Fetch
<1>3. Stored' = Stored /\ \A q : Final(q)' <=> Final(q)
  BY <1>1, RowsOfInv, UnwrittenRows
<1>4. CycleType'
  BY <1>1, <1>2, <1>3, InvParts DEF CycleType, CycleOK
<1>5. CycleOK'
  BY <1>1, <1>3, InvParts DEF CycleOK
<1> QED
  BY <1>1, <1>4, <1>5, CycleStep

LEMMA ScanStep == ASSUME OutcomeInv, Scan PROVE OutcomeInv' /\ KeepsFinal
<1>1. /\ phase = "scheduler" /\ todo = {} /\ hand = {}
      /\ UNCHANGED <<clock, rows, begun, retention>>
      /\ UNCHANGED faults \/ Fault
  BY DEF Scan
<1>2. Stored' = Stored
  BY <1>1, RowsOfInv, UnwrittenRows
<1>3. CASE /\ phase' = "signals" /\ asof' = clock /\ todo' \in Listed(clock)
           /\ UNCHANGED <<hand, frame, tried, batches, faults>>
  <2>1. todo' \subseteq Stored \cap Signals
    BY <1>3, FirstOfIs DEF Listed
  <2>2. begun \in 0..MaxTime /\ clock \in 0..MaxTime
    BY <1>1 DEF OutcomeInv, CycleOK, TypeOK
  <2>3. CycleType' /\ CycleOK'
    BY <1>1, <1>2, <1>3, <2>1, <2>2, InvParts DEF CycleType, CycleOK
  <2> QED
    BY <1>1, <2>3, CycleStep
<1>4. CASE Idle
  BY <1>1, <1>4, IdleOK, CycleStep
<1> QED
  BY <1>3, <1>4 DEF Scan

LEMMA ListObservationsStep == ASSUME OutcomeInv, ListObservations PROVE OutcomeInv' /\ KeepsFinal
<1> DEFINE due == {r \in (Stored \cap Observations) \ tried : DueObservation(r)}
<1>1. /\ phase \in {"signals", "observations"} /\ todo = {} /\ hand = {}
      /\ UNCHANGED <<clock, rows, begun, retention, faults>>
  BY DEF ListObservations
<1>2. Stored' = Stored /\ \A q : Final(q)' <=> Final(q)
  BY <1>1, RowsOfInv, UnwrittenRows
<1>3. CASE Idle
  BY <1>1, <1>3, IdleOK, CycleStep
<1>4. CASE /\ batches # MaxBatches
           /\ phase' = "observations" /\ batches' = batches + 1
           /\ todo' \in FirstOf(due, Limit) /\ tried' = tried \cup todo'
           /\ UNCHANGED <<asof, hand, frame>>
  <2>1. todo' \subseteq due
    BY <1>4, FirstOfIs
  <2>2. due \subseteq Stored \cap Observations /\ \A r \in due : ~Final(r)
    BY KindOfRow DEF DueObservation, Final
  <2> HIDE DEF due
  <2>3. batches' \in 0..MaxBatches
    BY <1>4, TimesAssumption DEF OutcomeInv, TypeOK
  <2>4. CycleType' /\ CycleOK'
    BY <1>1, <1>2, <1>4, <2>1, <2>2, <2>3, InvParts DEF CycleType, CycleOK
  <2> QED
    BY <1>1, <2>4, CycleStep
<1> QED
  BY <1>3, <1>4 DEF ListObservations

LEMMA ProcessStep == ASSUME OutcomeInv, NEW r \in Rows, Process(r) PROVE OutcomeInv' /\ KeepsFinal
<1>1. /\ r \in hand /\ hand' = hand \ {r}
      /\ UNCHANGED <<clock, phase, asof, begun, todo, frame, tried, batches, retention>>
      /\ UNCHANGED faults \/ Fault
  BY DEF Process, Reached
<1>2. /\ phase = "scheduler" /\ asof \in 0..MaxTime /\ r \in Scheduled /\ r \in Stored /\ ~Final(r)
      /\ r \notin todo
  BY <1>1 DEF OutcomeInv, TypeOK, CycleOK
<1>3. rows[r] \in Row
  BY <1>2, InvParts DEF RowsOK, Stored
<1>4. rows' = [rows EXCEPT ![r] = Computed(r)] \/ rows' = [rows EXCEPT ![r] = Errored(r)] \/ UNCHANGED rows
  BY InvParts DEF Process, Unpersisted, RowsOK
<1>5. /\ RowsOK' /\ KeepsFinal /\ Stored' = Stored
      /\ \A q \in Rows : q # r => (Final(q)' <=> Final(q))
  <2>1. CASE UNCHANGED rows
    BY <2>1, RowsOfInv, UnwrittenRows
  <2>2. ASSUME NEW x \in Row, rows' = [rows EXCEPT ![r] = x], x.status = "MATURE" => x.due = None
        PROVE  /\ RowsOK' /\ KeepsFinal /\ Stored' = Stored
               /\ \A q \in Rows : q # r => (Final(q)' <=> Final(q))
    BY <1>2, <2>2, RowsOfInv, WrittenRow
  <2>3. /\ Computed(r) \in Row /\ (Computed(r).status = "MATURE" => Computed(r).due = None)
        /\ Errored(r) \in Row /\ Errored(r).status # "MATURE"
    BY <1>2, <1>3, ComputedOK, ErroredOK
  <2> QED
    BY <1>4, <2>1, <2>2, <2>3
<1>6. RetentionType' /\ RetentionOK'
  BY <1>1, <1>5, RetentionKept
<1>7. CycleType' /\ CycleOK'
  BY <1>1, <1>2, <1>5, KindOfRow, InvParts DEF CycleType, CycleOK
<1> QED
  BY <1>1, <1>5, <1>6, <1>7, FaultsOK, InvParts, InvPartsNext

LEMMA UpdateSignalStep ==
  ASSUME OutcomeInv, NEW r \in Rows, UpdateSignal(r)
  PROVE  OutcomeInv' /\ KeepsFinal
<1>1. phase = "signals" /\ r \in todo /\ UNCHANGED <<clock, begun, retention>>
  BY DEF UpdateSignal
<1>2. r \in Signals /\ r \in Stored /\ ~Final(r) /\ rows[r] \in Row
  BY <1>1, KindOfRow, InvParts DEF OutcomeInv, TypeOK, CycleOK, Final, RowsOK, Stored
<1>3. CASE Fault /\ Idle /\ UNCHANGED rows
  BY <1>1, <1>3, IdleOK, CycleStep
<1>4. CASE /\ todo' = todo \ {r}
           /\ rows' = [rows EXCEPT ![r].status = SignalStatus(r)]
           /\ UNCHANGED <<phase, asof, hand, frame, tried, batches, faults>>
  <2> DEFINE status == SignalStatus(r)
             x == [rows[r] EXCEPT !.status = status]
  <2>1. status \in Statuses
    BY <1>2 DEF SignalStatus, Statuses, Row
  <2>2. rows' = [rows EXCEPT ![r] = x]
    BY <1>4
  <2> HIDE DEF status
  <2>3. x \in Row
    BY <1>2, <2>1 DEF Row, Statuses
  <2> HIDE DEF x
  <2>4. /\ RowsOK' /\ KeepsFinal /\ Stored' = Stored \cup {r}
    BY <1>2, <2>2, <2>3, KindOfRow, RowsOfInv, WrittenRow
  <2>5. Stored' = Stored
    BY <1>2, <2>4
  <2>6. RetentionType' /\ RetentionOK'
    BY <1>1, <2>4, <2>5, RetentionKept
  <2>7. CycleType' /\ CycleOK'
    BY <1>1, <1>4, <2>5, InvParts DEF CycleType, CycleOK
  <2> QED
    BY <1>1, <1>4, <2>4, <2>6, <2>7, FaultsOK, InvParts, InvPartsNext
<1> QED
  BY <1>3, <1>4 DEF UpdateSignal

LEMMA UpdateObservationStep ==
  ASSUME OutcomeInv, NEW r \in Rows, UpdateObservation(r)
  PROVE  OutcomeInv' /\ KeepsFinal
<1>1. /\ phase = "observations" /\ r \in todo /\ todo' = todo \ {r}
      /\ UNCHANGED <<clock, phase, asof, begun, hand, frame, tried, batches, retention>>
      /\ UNCHANGED faults \/ Fault
  BY DEF UpdateObservation
<1>2. /\ r \in Observations /\ r \in Stored /\ ~Final(r) /\ rows[r] \in Row /\ asof \in 0..MaxTime
  BY <1>1, InvParts DEF OutcomeInv, TypeOK, CycleOK, RowsOK, Stored
<1>3. (\E ok : rows' = [rows EXCEPT ![r] = Observed(r, ok)]) \/ UNCHANGED rows
  BY DEF UpdateObservation
<1>4. /\ RowsOK' /\ KeepsFinal /\ Stored' = Stored
      /\ \A q \in Rows : q # r => (Final(q)' <=> Final(q))
  <2>1. CASE UNCHANGED rows
    BY <2>1, RowsOfInv, UnwrittenRows
  <2>2. CASE \E ok : rows' = [rows EXCEPT ![r] = Observed(r, ok)]
    <3>1. PICK ok : rows' = [rows EXCEPT ![r] = Observed(r, ok)]
      BY <2>2
    <3>2. Observed(r, ok) \in Row /\ r \notin Scheduled
      BY <1>2, ObservedOK, KindOfRow
    <3> QED
      BY <1>2, <3>1, <3>2, RowsOfInv, WrittenRow
  <2> QED
    BY <1>3, <2>1, <2>2
<1>5. RetentionType' /\ RetentionOK'
  BY <1>1, <1>4, RetentionKept
<1>6. CycleType' /\ CycleOK'
  BY <1>1, <1>4, KindOfRow, InvParts DEF CycleType, CycleOK
<1> QED
  BY <1>1, <1>4, <1>5, <1>6, FaultsOK, InvParts, InvPartsNext

LEMMA CrashStep == ASSUME OutcomeInv, Crash PROVE OutcomeInv' /\ KeepsFinal
<1>1. Fault /\ Idle /\ UNCHANGED <<clock, rows, begun, retention>>
  BY DEF Crash
<1> QED
  BY <1>1, IdleOK, CycleStep

LEMMA RuntimeStep == ASSUME OutcomeInv, Runtime PROVE OutcomeInv' /\ KeepsFinal
<1>1. CASE Begin
  BY <1>1, BeginStep
<1>2. CASE Scan
  BY <1>2, ScanStep
<1>3. CASE ListObservations
  BY <1>3, ListObservationsStep
<1>4. CASE \E s \in {SymbolOf[r] : r \in Rows} : Fetch(s)
  BY <1>4, FetchStep
<1>5. CASE \E r \in Rows : Process(r) \/ UpdateSignal(r) \/ UpdateObservation(r)
  BY <1>5, ProcessStep, UpdateSignalStep, UpdateObservationStep
<1> QED
  BY <1>1, <1>2, <1>3, <1>4, <1>5 DEF Runtime

\* A step of the evaluation only reads the rows.
LEMMA ReadingStep ==
  ASSUME OutcomeInv, UNCHANGED <<clock, rows, cycle, faults>>, RetentionType',
         step' = 2 => context'.table \in Tables,
         \A r \in context'.matured \cup archived' : r \in Stored /\ Final(r)
  PROVE  OutcomeInv' /\ KeepsFinal
<1>1. RowsOK' /\ KeepsFinal /\ Stored' = Stored /\ \A q : Final(q)' <=> Final(q)
  BY RowsOfInv, UnwrittenRows
<1>2. CycleType' /\ CycleOK'
  BY <1>1, InvParts DEF CycleType, CycleOK, cycle
<1>3. \A r \in context'.matured \cup archived' : r \in Stored' /\ Final(r)'
  BY <1>1
<1>4. RetentionOK'
  BY <1>3 DEF RetentionOK
<1> QED
  BY <1>1, <1>2, <1>4, InvParts, InvPartsNext

LEMMA ReadRootsStep == ASSUME OutcomeInv, ReadRoots PROVE OutcomeInv' /\ KeepsFinal
<1>1. step' = 1 /\ UNCHANGED <<clock, rows, cycle, archived, faults>>
  BY DEF ReadRoots
<1>2. context' = [context EXCEPT !.roots = Of("live")]
  BY DEF ReadRoots
<1>3. Of("live") \in SUBSET Rows
  BY DEF Of, Stored
<1>4. /\ RetentionType /\ Stored' = Stored
      /\ \A r \in context.matured \cup archived : r \in Stored /\ Final(r)
  BY <1>1, InvParts DEF RetentionOK, Stored
<1>5. /\ context' \in [table : Tables \cup {None}, roots : SUBSET Rows, pending : SUBSET Rows, matured : SUBSET Rows]
      /\ context'.matured = context.matured
  BY <1>2, <1>3, <1>4 DEF RetentionType
<1>6. RetentionType'
  BY <1>1, <1>4, <1>5 DEF RetentionType
<1> QED
  BY <1>1, <1>3, <1>4, <1>5, <1>6, ReadingStep

LEMMA ReadContextStep == ASSUME OutcomeInv, ReadContext PROVE OutcomeInv' /\ KeepsFinal
<1>1. step = 1 /\ step' = 2 /\ UNCHANGED <<clock, rows, cycle, archived, faults>>
  BY DEF ReadContext
<1>2. PICK k \in Tables :
        context' = [table |-> k, roots |-> context.roots \cap Of(k),
                    pending |-> {r \in Of(k) : Unfinished(r)},
                    matured |-> {r \in Of(k) \ Observations : ~Unfinished(r)}]
  BY DEF ReadContext
<1> DEFINE roots == context.roots \cap Of(k)
           pending == {r \in Of(k) : Unfinished(r)}
           matured == {r \in Of(k) \ Observations : ~Unfinished(r)}
<1>3. /\ RetentionType /\ Stored' = Stored
      /\ \A r \in archived : r \in Stored /\ Final(r)
  BY <1>1, InvParts DEF RetentionOK, Stored
<1>4. roots \in SUBSET Rows /\ pending \in SUBSET Rows /\ matured \in SUBSET Rows
  BY DEF Of, Stored
<1>5. context' = [table |-> k, roots |-> roots, pending |-> pending, matured |-> matured]
  BY <1>2
<1>6. \A r \in matured : r \in Stored /\ Final(r)
  <2>1. TAKE r \in matured
  <2>2. r \in Stored /\ r \in Rows /\ Kind[r] \in Tables /\ r \notin Observations /\ ~Unfinished(r)
    BY DEF Of, Stored
  <2>3. r \in Scheduled /\ Kind[r] # "observation"
    BY <2>2 DEF Tables, Scheduled, Observations
  <2> QED
    BY <2>2, <2>3 DEF Unfinished, Final, Stored
<1> HIDE DEF roots, pending, matured
<1>7. /\ context' \in [table : Tables \cup {None}, roots : SUBSET Rows, pending : SUBSET Rows, matured : SUBSET Rows]
      /\ context'.table = k /\ context'.matured = matured
  BY <1>4, <1>5
<1>8. RetentionType'
  BY <1>1, <1>3, <1>7 DEF RetentionType
<1> QED
  BY <1>1, <1>3, <1>6, <1>7, <1>8, ReadingStep

LEMMA EvaluateTableStep == ASSUME OutcomeInv, EvaluateTable PROVE OutcomeInv' /\ KeepsFinal
<1> DEFINE called == {r \in Of(context.table) : Archivable(r)}
<1>1. /\ step = 2 /\ step' = 3 /\ UNCHANGED <<clock, rows, cycle, faults>>
      /\ archived' = called /\ context' = NoContext
  BY DEF EvaluateTable
<1>2. /\ context.table \in Tables /\ MatureIsFinal /\ Stored' = Stored
      /\ \A r \in context.matured : r \in Stored /\ Final(r)
  BY <1>1 DEF OutcomeInv, RetentionOK, Stored
<1>3. \A r \in called : r \in Stored /\ Final(r)
  <2>1. TAKE r \in called
  <2>2. r \in Stored /\ r \in Rows /\ rows[r] # None /\ Kind[r] \in Tables /\ TerminalRow(r)
    BY <1>2 DEF Of, Stored, Archivable
  <2>3. CASE Kind[r] = "observation"
    BY <2>2, <2>3 DEF TerminalRow, Final, Observations
  <2>4. CASE Kind[r] # "observation"
    <3>1. r \in Scheduled
      BY <2>2, <2>4 DEF Tables, Scheduled
    <3> QED
      BY <1>2, <2>2, <2>4, <3>1 DEF TerminalRow, Final, MatureIsFinal
  <2> QED
    BY <2>3, <2>4
<1>4. called \subseteq Stored
  BY <1>3
<1> HIDE DEF called
<1>5. RetentionType' /\ context'.matured = {}
  BY <1>1, <1>2, <1>4 DEF RetentionType, NoContext
<1> QED
  BY <1>1, <1>3, <1>5, ReadingStep

-----------------------------------------------------------------------------
(***************************************************************************)
(* Theorems.                                                               *)
(***************************************************************************)
LEMMA OutcomeInit == Init => OutcomeInv
<1> SUFFICES ASSUME Init PROVE OutcomeInv
  OBVIOUS
<1>1. RowsOK /\ Stored = {}
  BY DEF Init, RowsOK, MatureIsFinal, Stored, Scheduled
<1>2. CycleType /\ CycleOK
  <2>1. 0 \in 0..MaxBatches
    BY TimesAssumption
  <2>2. CycleType
    BY <1>1, <2>1 DEF Init, CycleType
  <2>3. CycleOK
    BY DEF Init, CycleOK
  <2> QED
    BY <2>2, <2>3
<1>3. RetentionType /\ RetentionOK
  BY <1>1 DEF Init, RetentionType, RetentionOK, NoContext
<1>4. clock \in 0..MaxTime /\ faults \in 0..MaxFaults
  BY TimesAssumption DEF Init
<1> QED
  BY <1>1, <1>2, <1>3, <1>4, InvParts

LEMMA OutcomeNext == OutcomeInv /\ [Next]_vars => OutcomeInv' /\ KeepsFinal
<1> SUFFICES ASSUME OutcomeInv, [Next]_vars PROVE OutcomeInv' /\ KeepsFinal
  OBVIOUS
<1>1. CASE Tick
  BY <1>1, TickStep
<1>2. CASE Runtime
  BY <1>2, RuntimeStep
<1>3. CASE Crash
  BY <1>3, CrashStep
<1>4. CASE ReadRoots
  BY <1>4, ReadRootsStep
<1>5. CASE ReadContext
  BY <1>5, ReadContextStep
<1>6. CASE EvaluateTable
  BY <1>6, EvaluateTableStep
<1>7. CASE ObserveRootDetector \/ Observe \/ \E r \in Rows : CreateRoot(r) \/ CreateSignal(r)
  BY <1>7, CreationStep
<1>8. CASE UNCHANGED vars
  <2>1. UNCHANGED <<clock, rows, cycle, retention, faults>>
    BY <1>8 DEF vars
  <2>2. CycleType' /\ CycleOK'
    <3>1. Stored' = Stored /\ \A q : Final(q)' <=> Final(q)
      BY <2>1, RowsOfInv, UnwrittenRows
    <3> QED
      BY <2>1, <3>1, InvParts DEF CycleType, CycleOK, cycle
  <2> QED
    BY <2>1, <2>2, CycleStep
<1> QED
  BY <1>1, <1>2, <1>3, <1>4, <1>5, <1>6, <1>7, <1>8 DEF Next

\* In every reachable state what the cycle still has in its hands has not
\* ended, and what the retention evaluation has called finished or archivable
\* has (run_cycle, build_retention_context, evaluate_database).
THEOREM OutcomeInvariant == Spec => []OutcomeInv
<1>1. OutcomeInv /\ [Next]_vars => OutcomeInv'
  BY OutcomeNext
<1> QED
  BY OutcomeInit, <1>1, PTL DEF Spec

\* Every variable holds a value of its kind; above all every stored row is a
\* complete row, after any sequence of attempts and errors.
THEOREM TypeCorrect == Spec => []TypeOK
<1>1. OutcomeInv => TypeOK
  BY DEF OutcomeInv
<1> QED
  BY OutcomeInvariant, <1>1, PTL

\* A row the retention evaluation called archivable is never written again,
\* whatever is created or computed between its statements (evaluate_row).
THEOREM ArchivedStaysFinal == Spec => ArchivedIsFinal
<1>1. OutcomeInv /\ [Next]_vars => [\A r \in archived : rows'[r] = rows[r]]_vars
  <2> SUFFICES ASSUME OutcomeInv, [Next]_vars PROVE \A r \in archived : rows'[r] = rows[r]
    OBVIOUS
  <2>1. KeepsFinal
    BY OutcomeNext
  <2> QED
    BY <2>1 DEF OutcomeInv, RetentionOK, KeepsFinal, Stored
<1> QED
  BY OutcomeInvariant, <1>1, PTL DEF Spec, ArchivedIsFinal
=============================================================================
