------------------------ MODULE ScanCoverage_proofs ------------------------
(***************************************************************************)
(* Proofs about ScanCoverage, for any finite set of symbols, any set of    *)
(* markets, any batch and any number of moves and faults.                  *)
(*                                                                         *)
(* A rotation is closed by what its results say, and its results may come  *)
(* from any cycle, also from one that was planned without the rotation.    *)
(* The invariant therefore says of every result whose it is and which of   *)
(* the rotation's symbols it is about.                                     *)
(***************************************************************************)
EXTENDS ScanCoverage, FiniteSetTheorems, WellFoundedInduction, TLAPS

Results == [status : ScanStatuses \cup {"EXCLUDED"}, runtime : Nat]

RotationType ==
    [runtime : Nat, status : {"OPEN", "COMPLETED"},
     exchange : SUBSET Symbols, eligible : SUBSET Symbols,
     results : [Symbols -> Results \cup {None}]]

\* A result is one of the process that opened the rotation: of a scan if the
\* symbol was eligible then, of an exclusion if it was only listed.
ResultsOK(r) ==
    \A s \in Symbols : r.results[s] # None =>
        /\ r.results[s] \in Results
        /\ r.results[s].runtime = r.runtime
        /\ \/ r.results[s].status \in ScanStatuses /\ s \in r.eligible
           \/ r.results[s].status = "EXCLUDED" /\ s \in r.exchange \ r.eligible

RotationOK(r) ==
    /\ r \in RotationType
    /\ r.eligible \subseteq r.exchange
    /\ r.runtime \in 1..(MaxFaults + 1)
    /\ ResultsOK(r)
    /\ r.status = "COMPLETED" => Covered(r) = r.eligible

\* What a cycle is working on, at any time.
ScanOK ==
    /\ scan \in [exchange : SUBSET Symbols, eligible : SUBSET Symbols, symbols : SUBSET Symbols]
    /\ scan.eligible \subseteq scan.exchange

\* A process is one start more than the crashes before it.
RuntimeOK ==
    /\ runtime \in Nat
    /\ phase = "down" => runtime <= faults
    /\ phase # "down" => runtime \in 1..(faults + 1)

\* What no step takes out of its range.
BoundsOK ==
    /\ phase \in {"down", "idle", "scan"} /\ mode \in StorageModes /\ market \in Markets
    /\ incident \in BOOLEAN /\ full \in BOOLEAN
    /\ moves \in 0..MaxMoves /\ faults \in 0..MaxFaults

CoverageInv ==
    /\ BoundsOK
    /\ ScanOK
    /\ RuntimeOK
    /\ rotation # None => RotationOK(rotation)

-----------------------------------------------------------------------------
(***************************************************************************)
(* Rotations.                                                              *)
(***************************************************************************)
LEMMA NewRotationOK ==
  ASSUME runtime \in 1..(MaxFaults + 1),
         NEW exchange \in SUBSET Symbols, NEW eligible \in SUBSET exchange
  PROVE  /\ RotationOK(NewRotation(exchange, eligible))
         /\ NewRotation(exchange, eligible).exchange = exchange
         /\ NewRotation(exchange, eligible).eligible = eligible
         /\ NewRotation(exchange, eligible).runtime = runtime
<1> DEFINE r == NewRotation(exchange, eligible)
<1>1. /\ r.runtime = runtime /\ r.status = "OPEN" /\ r.exchange = exchange
      /\ r.eligible = eligible /\ \A s \in Symbols : r.results[s] = None
  BY DEF NewRotation
<1>2. r \in RotationType
  <2>1. [s \in Symbols |-> None] \in [Symbols -> Results \cup {None}]
    OBVIOUS
  <2>2. runtime \in Nat
    BY ScanAssumption
  <2> QED
    BY <2>1, <2>2 DEF NewRotation, RotationType
<1> HIDE DEF r
<1> QED
  BY <1>1, <1>2 DEF RotationOK, ResultsOK, r

LEMMA EligibleIsListed == Exchange \in SUBSET Symbols /\ Eligible \in SUBSET Exchange
BY DEF Exchange, Eligible

LEMMA PreparedOK ==
  ASSUME CoverageInv, phase = "idle"
  PROVE  RotationOK(Prepared)
<1>1. runtime \in 1..(MaxFaults + 1)
  BY ScanAssumption DEF CoverageInv, BoundsOK, RuntimeOK
<1>2. RotationOK(NewRotation(Exchange, Eligible))
  BY <1>1, EligibleIsListed, NewRotationOK
<1> QED
  BY <1>2 DEF Prepared, Open, CoverageInv

\* What a cycle adds to a rotation are results of its own process, about
\* symbols whose place in the rotation it has seen.
LEMMA ResultsAfterOK ==
  ASSUME CoverageInv, NEW r, RotationOK(r), r.runtime = runtime,
         r.exchange = scan.exchange, r.eligible = scan.eligible,
         NEW outcome \in Outcomes, NEW s \in Symbols
  PROVE  LET a == ResultAfter(r, outcome, s)
         IN /\ a \in Results \cup {None}
            /\ r.results[s] # None => a = r.results[s]
            /\ a # None => /\ a.runtime = runtime
                           /\ \/ a.status \in ScanStatuses /\ s \in r.eligible
                              \/ a.status = "EXCLUDED" /\ s \in r.exchange \ r.eligible
<1>1. r.results \in [Symbols -> Results \cup {None}] /\ runtime \in Nat
  BY DEF RotationOK, RotationType, CoverageInv, RuntimeOK
<1>2. CASE r.results[s] # None
  BY <1>1, <1>2 DEF ResultAfter, RotationOK, ResultsOK
<1>3. CASE r.results[s] = None /\ s \in scan.symbols \cap scan.eligible
  <2>1. ResultAfter(r, outcome, s) = [status |-> outcome[s], runtime |-> runtime]
    BY <1>3 DEF ResultAfter
  <2>2. outcome[s] \in ScanStatuses
    BY <1>3 DEF Outcomes
  <2> QED
    BY <1>1, <1>3, <2>1, <2>2 DEF Results
<1>4. CASE r.results[s] = None /\ s \notin scan.symbols \cap scan.eligible /\ s \in ExcludedRows
  <2>1. ResultAfter(r, outcome, s) = [status |-> "EXCLUDED", runtime |-> runtime]
    BY <1>4 DEF ResultAfter
  <2>2. s \in r.exchange \ r.eligible
    BY <1>4 DEF ExcludedRows
  <2> QED
    BY <1>1, <1>4, <2>1, <2>2 DEF Results
<1>5. CASE r.results[s] = None /\ s \notin scan.symbols \cap scan.eligible /\ s \notin ExcludedRows
  BY <1>5 DEF ResultAfter
<1> QED
  BY <1>2, <1>3, <1>4, <1>5

\* A rotation is closed only if every symbol of its universe has a scan result.
LEMMA ClosedOK ==
  ASSUME NEW r, RotationOK(r)
  PROVE  RotationOK(Closed(r))
<1> DEFINE status == IF Covered(r) = r.eligible /\ Scheduled(r) \cap r.eligible = r.eligible
                     THEN "COMPLETED" ELSE r.status
           c == Closed(r)
<1>1. r \in RotationType
  BY DEF RotationOK
<1>2. status \in {"OPEN", "COMPLETED"} /\ c = [r EXCEPT !.status = status]
  BY <1>1 DEF Closed, RotationType
<1>3. status = "COMPLETED" => Covered(r) = r.eligible
  BY DEF RotationOK
<1> HIDE DEF status, c
<1>4. /\ c \in RotationType /\ c.status = status /\ c.results = r.results
      /\ c.eligible = r.eligible /\ c.exchange = r.exchange /\ c.runtime = r.runtime
  BY <1>1, <1>2 DEF RotationType
<1>5. Covered(c) = Covered(r)
  BY <1>4 DEF Covered
<1>6. RotationOK(c)
  BY <1>3, <1>4, <1>5 DEF RotationOK, ResultsOK
<1> QED
  BY <1>6 DEF c

LEMMA RecordedOK ==
  ASSUME CoverageInv, phase = "scan", NEW outcome \in Outcomes
  PROVE  RotationOK(Recorded(outcome))
<1> DEFINE r == IF Matches THEN rotation ELSE NewRotation(scan.exchange, scan.eligible)
           results == [s \in Symbols |-> ResultAfter(r, outcome, s)]
           d == [r EXCEPT !.results = results]
<1>1. runtime \in 1..(MaxFaults + 1)
  BY ScanAssumption DEF CoverageInv, BoundsOK, RuntimeOK
<1>2. scan.exchange \in SUBSET Symbols /\ scan.eligible \in SUBSET scan.exchange
  BY DEF CoverageInv, ScanOK
<1>3. RotationOK(r) /\ r.runtime = runtime /\ r.exchange = scan.exchange /\ r.eligible = scan.eligible
  BY <1>1, <1>2, NewRotationOK DEF Matches, Open, CoverageInv
<1> HIDE DEF r
<1>4. \A s \in Symbols :
        LET a == ResultAfter(r, outcome, s)
        IN /\ a \in Results \cup {None}
           /\ r.results[s] # None => a = r.results[s]
           /\ a # None => /\ a.runtime = runtime
                          /\ \/ a.status \in ScanStatuses /\ s \in r.eligible
                             \/ a.status = "EXCLUDED" /\ s \in r.exchange \ r.eligible
  BY <1>3, ResultsAfterOK
<1>5. /\ results \in [Symbols -> Results \cup {None}]
      /\ \A s \in Symbols : /\ r.results[s] # None => results[s] = r.results[s]
                            /\ results[s] # None =>
                                 /\ results[s] \in Results
                                 /\ results[s].runtime = runtime
                                 /\ \/ results[s].status \in ScanStatuses /\ s \in r.eligible
                                    \/ results[s].status = "EXCLUDED" /\ s \in r.exchange \ r.eligible
  BY <1>4
<1> HIDE DEF results
<1>6. /\ d \in RotationType /\ d.results = results /\ d.status = r.status
      /\ d.eligible = r.eligible /\ d.exchange = r.exchange /\ d.runtime = r.runtime
  BY <1>3, <1>5 DEF RotationOK, RotationType
<1> HIDE DEF d
<1>7. r.status = "COMPLETED" => Covered(d) = d.eligible
  BY <1>3, <1>5, <1>6 DEF RotationOK, RotationType, Covered
<1>8. RotationOK(d)
  BY <1>3, <1>5, <1>6, <1>7 DEF RotationOK, ResultsOK
<1>9. Recorded(outcome) = Closed(d)
  BY DEF Recorded, d, results, r
<1> QED
  BY <1>8, <1>9, ClosedOK

\* The batch is taken from the universe it is given.
LEMMA BatchOK ==
  ASSUME NEW eligible \in SUBSET Symbols, NEW scheduled, NEW preferred
  PROVE  SelectBatch(eligible, scheduled, preferred) \in SUBSET Symbols
BY DEF SelectBatch

LEMMA ShortlistOK == \A preferred \in Shortlists : preferred \in SUBSET Symbols
BY EligibleIsListed DEF Shortlists, kSubset

LEMMA ChooseOK ==
  ASSUME NEW exchange \in SUBSET Symbols, NEW eligible \in SUBSET exchange,
         NEW batch \in SUBSET Symbols, Choose(exchange, eligible, batch)
  PROVE  ScanOK' /\ phase' = "scan"
<1>1. PICK active \in SUBSET Symbols :
        scan' = [exchange |-> exchange, eligible |-> eligible, symbols |-> batch \cup active]
  BY DEF Choose
<1>2. phase' = "scan"
  BY DEF Choose
<1> QED
  BY <1>1, <1>2 DEF ScanOK

-----------------------------------------------------------------------------
(***************************************************************************)
(* The invariant.                                                          *)
(***************************************************************************)
LEMMA InvInit == Init => CoverageInv
<1> SUFFICES ASSUME Init PROVE CoverageInv
  OBVIOUS
<1>1. BoundsOK
  <2>1. 0 \in 0..MaxMoves /\ 0 \in 0..MaxFaults
    BY ScanAssumption
  <2>2. mode \in StorageModes
    BY ScanAssumption DEF Init
  <2> QED
    BY <2>1, <2>2 DEF Init, BoundsOK
<1>2. ScanOK
  BY DEF Init, NoScan, ScanOK
<1>3. RuntimeOK
  BY DEF Init, RuntimeOK
<1> QED
  BY <1>1, <1>2, <1>3 DEF Init, CoverageInv

LEMMA NoScanOK == scan' = NoScan => ScanOK'
BY DEF NoScan, ScanOK

LEMMA RuntimeStays ==
  ASSUME RuntimeOK, runtime' = runtime, phase' = "down" <=> phase = "down",
         {faults, faults'} \subseteq Nat, faults <= faults'
  PROVE  RuntimeOK'
<1>1. runtime \in Nat /\ (phase = "down" => runtime <= faults) /\ (phase # "down" => 1 <= runtime /\ runtime <= faults + 1)
  BY DEF RuntimeOK
<1>2. (phase' = "down" => runtime' <= faults') /\ (phase' # "down" => 1 <= runtime' /\ runtime' <= faults' + 1)
  BY <1>1
<1> QED
  BY <1>1, <1>2 DEF RuntimeOK

\* A cycle that starts: nothing but the scan, the incident, the faults and
\* perhaps the rotation has changed.
LEMMA PlannedOK ==
  ASSUME CoverageInv, phase = "idle", Healthy \/ (incident' = IncidentAfter /\ Fault),
         rotation' \in {rotation, Prepared}, ScanOK', phase' = "scan",
         UNCHANGED <<runtime, mode, market, full, moves>>
  PROVE  CoverageInv'
<1>1. {faults, faults'} \subseteq Nat /\ faults <= faults' /\ faults' <= MaxFaults /\ incident' \in BOOLEAN
  BY ScanAssumption DEF Healthy, Fault, IncidentAfter, CoverageInv, BoundsOK
<1>2. BoundsOK'
  BY <1>1 DEF CoverageInv, BoundsOK
<1>3. RuntimeOK'
  BY <1>1, RuntimeStays DEF CoverageInv
<1>4. rotation' # None => RotationOK(rotation')
  BY PreparedOK DEF CoverageInv
<1>5. (rotation # None => RotationOK(rotation))'
  BY <1>4 DEF RotationOK, ResultsOK, Covered
<1> QED
  BY <1>2, <1>3, <1>5 DEF CoverageInv

LEMMA InvStep == CoverageInv /\ [Next]_vars => CoverageInv'
<1> SUFFICES ASSUME CoverageInv, [Next]_vars PROVE CoverageInv'
  OBVIOUS
<1>1. CASE Move \/ Fill \/ Free \/ Unhealthy \/ ObservationFails \/ UNCHANGED vars
  <2>1. /\ UNCHANGED <<phase, runtime, mode, rotation, scan>>
        /\ {faults, faults'} \subseteq Nat /\ faults <= faults' /\ faults' <= MaxFaults
        /\ market' \in Markets /\ moves' \in 0..MaxMoves /\ incident' \in BOOLEAN /\ full' \in BOOLEAN
    <3>1. CASE Move
      BY <1>1, <3>1, ScanAssumption DEF Move, CoverageInv, BoundsOK
    <3>2. CASE Fill
      <4>1. faults \in Nat /\ faults' = faults + 1 /\ faults < MaxFaults /\ MaxFaults \in Nat
        BY <3>2, ScanAssumption DEF Fill, Fault, CoverageInv, BoundsOK
      <4> QED
        BY <3>2, <4>1 DEF Fill, CoverageInv, BoundsOK
    <3>4. CASE Free
      <4>1. full' = FALSE /\ UNCHANGED <<phase, runtime, mode, market, rotation, scan, incident, moves, faults>>
        BY <3>4 DEF Free
      <4>2. faults \in Nat /\ faults <= MaxFaults
        BY ScanAssumption DEF CoverageInv, BoundsOK
      <4>3. full' \in BOOLEAN
        BY <4>1
      <4>4. incident' \in BOOLEAN
        BY <4>1 DEF CoverageInv, BoundsOK
      <4> QED
        BY <4>1, <4>2, <4>3, <4>4 DEF CoverageInv, BoundsOK
    <3>3. CASE Unhealthy \/ ObservationFails \/ UNCHANGED vars
      BY <3>3, ScanAssumption DEF Unhealthy, ObservationFails, IncidentAfter, vars, CoverageInv, BoundsOK
    <3> QED
      BY <1>1, <3>1, <3>2, <3>3, <3>4
  <2>2. BoundsOK' /\ RuntimeOK'
    BY <2>1, RuntimeStays, ScanAssumption DEF CoverageInv, BoundsOK
  <2>3. ScanOK' /\ (rotation # None => RotationOK(rotation))'
    BY <2>1 DEF CoverageInv, ScanOK, RotationOK, ResultsOK, Covered
  <2> QED
    BY <2>2, <2>3 DEF CoverageInv
<1>2. CASE Start
  <2>1. /\ UNCHANGED <<market, rotation, full, moves, faults>> /\ phase = "down" /\ phase' = "idle"
        /\ runtime' = runtime + 1 /\ mode' \in Modes /\ incident' = FALSE /\ scan' = NoScan
    BY <1>2 DEF Start
  <2>2. BoundsOK'
    BY <2>1, ScanAssumption DEF CoverageInv, BoundsOK
  <2>3. RuntimeOK'
    BY <2>1, ScanAssumption DEF CoverageInv, BoundsOK, RuntimeOK
  <2>4. (rotation # None => RotationOK(rotation))'
    BY <2>1 DEF CoverageInv, RotationOK, ResultsOK, Covered
  <2> QED
    BY <2>1, <2>2, <2>3, <2>4, NoScanOK DEF CoverageInv
<1>3. CASE Crash
  <2>1. /\ UNCHANGED <<runtime, mode, market, rotation, scan, incident, full, moves>>
        /\ phase # "down" /\ phase' = "down" /\ faults' = faults + 1 /\ faults < MaxFaults
    BY <1>3 DEF Crash, Fault
  <2>2. BoundsOK' /\ RuntimeOK'
    BY <2>1, ScanAssumption DEF CoverageInv, BoundsOK, RuntimeOK
  <2>3. ScanOK' /\ (rotation # None => RotationOK(rotation))'
    BY <2>1 DEF CoverageInv, ScanOK, RotationOK, ResultsOK, Covered
  <2> QED
    BY <2>2, <2>3 DEF CoverageInv
<1>4. CASE Plan
  <2>1. phase = "idle" /\ Healthy /\ rotation' = Prepared /\ UNCHANGED <<runtime, mode, market, full, moves>>
    BY <1>4 DEF Plan, Healthy
  <2>2. rotation'.exchange \in SUBSET Symbols /\ rotation'.eligible \in SUBSET rotation'.exchange
    BY <2>1, PreparedOK DEF RotationOK, RotationType
  <2>3. PICK preferred \in Shortlists :
          Choose(rotation'.exchange, rotation'.eligible,
                 SelectBatch(rotation'.eligible, Scheduled(rotation'), preferred))
    BY <1>4 DEF Plan
  <2>4. ScanOK' /\ phase' = "scan"
    BY <2>2, <2>3, BatchOK, ChooseOK
  <2> QED
    BY <2>1, <2>4, PlannedOK
<1>5. CASE PlanWithoutRotation
  <2>1. /\ phase = "idle" /\ incident' = IncidentAfter /\ Fault /\ rotation' = rotation
        /\ UNCHANGED <<runtime, mode, market, full, moves>>
    BY <1>5 DEF PlanWithoutRotation
  <2>2. PICK preferred \in Shortlists : Choose(Exchange, Eligible, preferred)
    BY <1>5 DEF PlanWithoutRotation
  <2>3. ScanOK' /\ phase' = "scan"
    BY <2>2, EligibleIsListed, ShortlistOK, ChooseOK
  <2> QED
    BY <2>1, <2>3, PlannedOK
<1>6. CASE PlanWithoutUniverse
  <2>1. /\ phase = "idle" /\ incident' = IncidentAfter /\ Fault /\ rotation' = Prepared
        /\ UNCHANGED <<runtime, mode, market, full, moves>>
    BY <1>6 DEF PlanWithoutUniverse
  <2>2. PICK preferred \in Shortlists :
          Choose(Exchange, Eligible, SelectBatch(Eligible, Scheduled(rotation'), preferred))
    BY <1>6 DEF PlanWithoutUniverse
  <2>3. ScanOK' /\ phase' = "scan"
    BY <2>2, EligibleIsListed, BatchOK, ChooseOK
  <2> QED
    BY <2>1, <2>3, PlannedOK
<1>7. CASE PlanWithoutResults
  <2>1. /\ phase = "idle" /\ incident' = IncidentAfter /\ Fault /\ rotation' = Prepared
        /\ UNCHANGED <<runtime, mode, market, full, moves>>
    BY <1>7 DEF PlanWithoutResults
  <2>2. rotation'.exchange \in SUBSET Symbols /\ rotation'.eligible \in SUBSET rotation'.exchange
    BY <2>1, PreparedOK DEF RotationOK, RotationType
  <2>3. PICK preferred \in Shortlists : Choose(rotation'.exchange, rotation'.eligible, preferred)
    BY <1>7 DEF PlanWithoutResults
  <2>4. ScanOK' /\ phase' = "scan"
    BY <2>2, <2>3, ShortlistOK, ChooseOK
  <2> QED
    BY <2>1, <2>4, PlannedOK
<1>8. CASE Record \/ Unrecorded
  <2>1. /\ phase = "scan" /\ phase' = "idle" /\ scan' = NoScan
        /\ UNCHANGED <<runtime, mode, market, incident, full, moves>>
        /\ {faults, faults'} \subseteq Nat /\ faults <= faults' /\ faults' <= MaxFaults
    BY <1>8, ScanAssumption DEF Record, Unrecorded, Fault, CoverageInv, BoundsOK
  <2>2. BoundsOK' /\ RuntimeOK'
    BY <2>1, RuntimeStays, ScanAssumption DEF CoverageInv, BoundsOK
  <2>3. rotation' = rotation \/ \E outcome \in Outcomes : rotation' = Recorded(outcome)
    BY <1>8 DEF Record, Unrecorded
  <2>4. rotation' # None => RotationOK(rotation')
    BY <2>1, <2>3, RecordedOK DEF CoverageInv
  <2>5. (rotation # None => RotationOK(rotation))'
    BY <2>4 DEF RotationOK, ResultsOK, Covered
  <2> QED
    BY <2>1, <2>2, <2>5, NoScanOK DEF CoverageInv
<1> QED
  BY <1>1, <1>2, <1>3, <1>4, <1>5, <1>6, <1>7, <1>8 DEF Next

\* The inductive invariant.
THEOREM CoverageInvariant == Spec => []CoverageInv
BY InvInit, InvStep, PTL DEF Spec

\* Every variable keeps its type; the numbers of processes, moves and faults
\* keep their bounds.
THEOREM TypeCorrect == Spec => []TypeOK
<1>1. CoverageInv => TypeOK
  <2> SUFFICES ASSUME CoverageInv PROVE TypeOK
    OBVIOUS
  <2>1. rotation # None =>
          /\ rotation.runtime \in 1..(MaxFaults + 1) /\ rotation.status \in {"OPEN", "COMPLETED"}
          /\ rotation.exchange \subseteq Symbols /\ rotation.eligible \subseteq rotation.exchange
          /\ \A s \in Symbols : rotation.results[s] # None =>
              /\ \/ rotation.results[s].status \in ScanStatuses /\ s \in rotation.eligible
                 \/ /\ rotation.results[s].status = "EXCLUDED"
                    /\ s \in rotation.exchange \ rotation.eligible
              /\ rotation.results[s].runtime \in 1..(MaxFaults + 1)
    BY DEF CoverageInv, RotationOK, RotationType, ResultsOK
  <2>2. runtime \in 0..(MaxFaults + 1)
    BY ScanAssumption DEF CoverageInv, BoundsOK, RuntimeOK
  <2>3. scan.symbols \subseteq Symbols /\ scan.eligible \subseteq scan.exchange
    BY DEF CoverageInv, ScanOK
  <2> QED
    BY <2>1, <2>2, <2>3 DEF CoverageInv, TypeOK, BoundsOK
<1> QED
  BY <1>1, CoverageInvariant, PTL

\* A rotation that is COMPLETED has a scan result of its own process for every
\* symbol that was eligible when it was opened, although cycles that were
\* planned without it write to it too.
THEOREM CompletedIsCovered == Spec => []CompletedCoversItsUniverse
<1>1. CoverageInv => CompletedCoversItsUniverse
  <2> SUFFICES ASSUME CoverageInv, rotation # None, ~Open, NEW s \in rotation.eligible
               PROVE  /\ rotation.results[s] # None
                      /\ rotation.results[s].status \in ScanStatuses
                      /\ rotation.results[s].runtime = rotation.runtime
    BY DEF CompletedCoversItsUniverse
  <2>1. RotationOK(rotation) /\ rotation.status = "COMPLETED"
    BY DEF CoverageInv, Open, RotationOK, RotationType
  <2>2. s \in Symbols /\ s \in Covered(rotation)
    BY <2>1 DEF RotationOK, RotationType
  <2> QED
    BY <2>1, <2>2 DEF RotationOK, ResultsOK, Covered
<1> QED
  BY <1>1, CoverageInvariant, PTL
-----------------------------------------------------------------------------
(***************************************************************************)
(* The batch is full: the number of symbols that wait goes down by as many *)
(* as a cycle has room for.                                                *)
(***************************************************************************)
Before(S, s) == {t \in S : t < s}

LEMMA BeforeGrows ==
  ASSUME NEW S \in SUBSET Nat, IsFiniteSet(S), NEW s \in S
  PROVE  /\ IsFiniteSet(Before(S, s)) /\ Cardinality(Before(S, s)) \in Nat
         /\ \A t \in S : t < s => /\ Before(S, t) \subseteq Before(S, s) /\ Before(S, t) # Before(S, s)
                                  /\ Cardinality(Before(S, t)) < Cardinality(Before(S, s))
<1>1. \A t \in S : IsFiniteSet(Before(S, t)) /\ Cardinality(Before(S, t)) \in Nat
  <2>1. \A t \in S : Before(S, t) \in SUBSET S
    BY DEF Before
  <2> QED
    BY <2>1, FS_Subset, FS_CardinalityType
<1>2. ASSUME NEW t \in S, t < s
      PROVE  /\ Before(S, t) \subseteq Before(S, s) /\ Before(S, t) # Before(S, s)
             /\ Cardinality(Before(S, t)) < Cardinality(Before(S, s))
  <2>1. t \in Before(S, s) /\ t \notin Before(S, t)
    BY <1>2 DEF Before
  <2>2. Before(S, t) \in SUBSET Before(S, s)
    <3>1. \A n \in S : n < t => n < s
      BY <1>2
    <3> QED
      BY <3>1 DEF Before
  <2>3. /\ Cardinality(Before(S, t)) <= Cardinality(Before(S, s))
        /\ Cardinality(Before(S, t)) = Cardinality(Before(S, s)) => Before(S, t) = Before(S, s)
    BY <1>1, <2>2, FS_Subset
  <2> QED
    BY <1>1, <2>1, <2>2, <2>3
<1> QED
  BY <1>1, <1>2

\* The first n of a finite set of numbers.
LEMMA FirstCount ==
  ASSUME NEW S \in SUBSET Nat, IsFiniteSet(S), NEW n \in Nat
  PROVE  LET T == {s \in S : Cardinality(Before(S, s)) < n}
         IN Cardinality(T) = IF Cardinality(S) > n THEN n ELSE Cardinality(S)
<1> DEFINE T == {s \in S : Cardinality(Before(S, s)) < n}
           rank == [s \in T |-> Cardinality(Before(S, s))]
<1>1. T \in SUBSET S /\ \A s \in T : s \in Nat /\ Cardinality(Before(S, s)) \in 0..(n - 1)
  BY BeforeGrows
<1>2. /\ IsFiniteSet(T) /\ Cardinality(T) \in Nat /\ Cardinality(T) <= Cardinality(S)
      /\ Cardinality(S) \in Nat
  BY <1>1, FS_Subset, FS_CardinalityType
<1>3. Cardinality(T) <= n
  <2>1. rank \in [T -> 0..(n - 1)]
    BY <1>1
  <2>2. \A s, t \in T : rank[s] = rank[t] => s = t
    <3>1. SUFFICES ASSUME NEW s \in T, NEW t \in T, s # t
                   PROVE  Cardinality(Before(S, s)) # Cardinality(Before(S, t))
      OBVIOUS
    <3>2. s \in S /\ t \in S /\ (s < t \/ t < s)
      BY <1>1, <3>1
    <3>3. Cardinality(Before(S, s)) \in Nat /\ Cardinality(Before(S, t)) \in Nat
      BY <3>2, BeforeGrows
    <3> QED
      BY <3>2, <3>3, BeforeGrows
  <2> HIDE DEF rank
  <2>3. rank \in Injection(T, 0..(n - 1))
    BY <2>1, <2>2, Zenon DEF Injection, IsInjective
  <2>4. IsFiniteSet(0..(n - 1)) /\ Cardinality(0..(n - 1)) = n
    BY FS_Interval
  <2> HIDE DEF T
  <2> QED
    BY <2>3, <2>4, FS_Injection
<1>4. CASE T = S
  BY <1>2, <1>3, <1>4
<1>5. CASE T # S
  <2> DEFINE Rest == S \ T
             Family == {Before(S, s) : s \in Rest}
  <2>1. Family # {} /\ Family \subseteq FiniteSubsetsOf(S)
    <3>1. Rest # {}
      BY <1>1, <1>5
    <3>2. \A s \in Rest : Before(S, s) \in SUBSET S /\ IsFiniteSet(Before(S, s))
      BY BeforeGrows DEF Before
    <3> QED
      BY <3>1, <3>2 DEF FiniteSubsetsOf
  <2>2. \E x \in Family : \A y \in Family : ~(<<y, x>> \in StrictSubsetOrdering(S))
    <3> HIDE DEF Family
    <3> QED
      BY <2>1, FS_StrictSubsetOrderingWellFounded, WFMin
  <2>3. PICK s \in Rest : \A y \in Family : ~(<<y, Before(S, s)>> \in StrictSubsetOrdering(S))
    BY <2>2
  <2>4. Before(S, s) \in SUBSET T
    <3> SUFFICES ASSUME NEW t \in Before(S, s), t \notin T PROVE FALSE
      BY DEF Before
    <3>1. t \in Rest /\ t < s /\ Before(S, t) \in Family
      BY DEF Before
    <3>2. Before(S, t) \in SUBSET S /\ Before(S, s) \in SUBSET S
      BY DEF Before
    <3>a. Before(S, t) \subseteq Before(S, s) /\ Before(S, t) # Before(S, s)
      <4>1. s \in S /\ t \in S
        BY <3>1
      <4> QED
        BY <3>1, <4>1, BeforeGrows
    <3>3. <<Before(S, t), Before(S, s)>> \in StrictSubsetOrdering(S)
      BY <3>2, <3>a DEF StrictSubsetOrdering
    <3> QED
      BY <2>3, <3>1, <3>3
  <2>5. Cardinality(Before(S, s)) \in Nat /\ Cardinality(Before(S, s)) >= n
    BY BeforeGrows
  <2>6. Cardinality(Before(S, s)) <= Cardinality(T)
    <3> HIDE DEF T
    <3> QED
      BY <1>2, <2>4, FS_Subset
  <2>7. Cardinality(T) # Cardinality(S)
    <3> HIDE DEF T
    <3> QED
      BY <1>1, <1>5, FS_Subset
  <2>8. Cardinality(T) = n /\ Cardinality(S) > n
    <3> HIDE DEF T
    <3> QED
      BY <1>2, <1>3, <2>5, <2>6, <2>7
  <2> QED
    BY <2>8
<1> QED
  BY <1>4, <1>5

\* A cycle takes only symbols the rotation waits for, and of these as many as
\* its batch has room for, whatever the shortlist prefers: the number of cycles
\* of a rotation is bounded by the symbols that wait (select_rotation_batch).
THEOREM BatchIsFull ==
  ASSUME NEW eligible \in SUBSET Symbols, NEW scheduled, NEW preferred \in Shortlists
  PROVE  LET waiting == eligible \ scheduled
             batch == SelectBatch(eligible, scheduled, preferred)
         IN /\ batch \subseteq waiting
            /\ Cardinality(batch) = IF Cardinality(waiting) > BatchSize
                                    THEN BatchSize ELSE Cardinality(waiting)
<1> DEFINE waiting == eligible \ scheduled
           first == waiting \cap preferred
           rest == waiting \ preferred
           n == BatchSize - Cardinality(first)
           others == {s \in rest : Cardinality(Before(rest, s)) < n}
<1>1. /\ waiting \in SUBSET Symbols /\ waiting \in SUBSET Nat /\ rest \in SUBSET Nat
      /\ IsFiniteSet(waiting) /\ IsFiniteSet(rest) /\ IsFiniteSet(first) /\ IsFiniteSet(preferred)
      /\ Cardinality(waiting) \in Nat /\ Cardinality(rest) \in Nat /\ Cardinality(first) \in Nat
  <2>1. waiting \in SUBSET Symbols /\ rest \in SUBSET Symbols /\ first \in SUBSET Symbols
        /\ preferred \in SUBSET Symbols
    BY ShortlistOK
  <2>2. \A S \in SUBSET Symbols : IsFiniteSet(S) /\ Cardinality(S) \in Nat /\ S \in SUBSET Nat
    BY ScanAssumption, FS_Subset, FS_CardinalityType
  <2> QED
    BY <2>1, <2>2
<1>2. Cardinality(first) <= BatchSize
  <2>1. Cardinality(preferred) = Min({BatchSize, Cardinality(Eligible)})
    BY DEF Shortlists, kSubset
  <2>2. IsFiniteSet(Eligible) /\ Cardinality(Eligible) \in Nat
    <3>1. Eligible \in SUBSET Symbols
      BY DEF Eligible
    <3> QED
      BY <3>1, ScanAssumption, FS_Subset, FS_CardinalityType
  <2>3. Min({BatchSize, Cardinality(Eligible)}) \in Nat /\ Min({BatchSize, Cardinality(Eligible)}) <= BatchSize
    <3> DEFINE e == Cardinality(Eligible)
    <3>1. e \in Nat /\ BatchSize \in Nat
      BY <2>2, ScanAssumption
    <3> HIDE DEF e
    <3>2. \E x \in {BatchSize, e} : \A y \in {BatchSize, e} : x <= y
      BY <3>1
    <3>3. /\ Min({BatchSize, e}) \in {BatchSize, e}
          /\ \A y \in {BatchSize, e} : Min({BatchSize, e}) <= y
      BY <3>2 DEF Min
    <3> QED
      BY <3>1, <3>3 DEF e
  <2>4. Cardinality(first) <= Cardinality(preferred)
    <3>1. first \in SUBSET preferred
      OBVIOUS
    <3> HIDE DEF first
    <3> QED
      BY <1>1, <3>1, FS_Subset
  <2> HIDE DEF first
  <2> QED
    BY <1>1, <2>1, <2>3, <2>4, ScanAssumption
<1>3. n \in Nat
  BY <1>1, <1>2, ScanAssumption
<1>4. SelectBatch(eligible, scheduled, preferred) = first \cup others
  BY DEF SelectBatch, Before
<1>5. first \cap others = {} /\ first \cup others \subseteq waiting /\ others \in SUBSET rest
  OBVIOUS
<1>6. Cardinality(waiting) = Cardinality(first) + Cardinality(rest)
  <2>1. waiting \cap preferred = first
    OBVIOUS
  <2>2. Cardinality(rest) = Cardinality(waiting) - Cardinality(waiting \cap preferred)
    <3> HIDE DEF waiting
    <3> QED
      BY <1>1, FS_Difference DEF rest
  <2>3. Cardinality(waiting \cap preferred) = Cardinality(first)
    BY <2>1
  <2> HIDE DEF waiting, first, rest
  <2> QED
    BY <1>1, <2>2, <2>3
<1>7. Cardinality(others) = IF Cardinality(rest) > n THEN n ELSE Cardinality(rest)
  <2> HIDE DEF rest, n
  <2> QED
    BY <1>1, <1>3, FirstCount
<1>8. Cardinality(first \cup others) = Cardinality(first) + Cardinality(others)
  <2>1. IsFiniteSet(others) /\ Cardinality(others) \in Nat
    <3> HIDE DEF others, rest
    <3> QED
      BY <1>1, <1>5, FS_Subset, FS_CardinalityType
  <2>2. Cardinality(first \cap others) = 0
    BY <1>5, FS_EmptySet
  <2> HIDE DEF first, others
  <2>3. Cardinality(first \cup others)
          = Cardinality(first) + Cardinality(others) - Cardinality(first \cap others)
    BY <1>1, <2>1, FS_Union
  <2> QED
    BY <1>1, <2>1, <2>2, <2>3
<1>9. Cardinality(first \cup others) = IF Cardinality(waiting) > BatchSize
                                       THEN BatchSize ELSE Cardinality(waiting)
  <2>1. n = BatchSize - Cardinality(first)
    OBVIOUS
  <2> HIDE DEF first, others, rest, waiting, n
  <2> QED
    BY <1>1, <1>2, <1>3, <1>6, <1>7, <1>8, <2>1, ScanAssumption
<1> QED
  BY <1>4, <1>5, <1>9
=============================================================================
