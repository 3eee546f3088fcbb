---------------------------- MODULE ScanCoverage ----------------------------
(***************************************************************************)
(* Coverage of the market scan.  The exchange lists more symbols than one  *)
(* cycle can scan, so a rotation, stored in SQLite, remembers which of the *)
(* symbols that were eligible when it was opened have a result.  A cycle   *)
(* opens or finds the rotation, reads its frozen universe and what it has  *)
(* covered, scans a batch of the rest, and records the results.  The       *)
(* market moves, the process dies, reads and writes fail, and a full disk  *)
(* closes the gate in front of every cycle.                                *)
(* Symbols are numbered in the order of their names.  Rotations that are   *)
(* closed are never read again, so only the newest one is kept; the cycle  *)
(* rows and the coverage ledger are logs and are left out.                 *)
(***************************************************************************)
EXTENDS Integers, FiniteSets, FiniteSetsExt

CONSTANTS
    Symbols,      \* a set of numbers
    Markets,      \* what the exchange can look like: [Symbols -> Listings]
    BatchSize,    \* shortlist_size
    Modes,        \* storage modes the process may be started in
    MaxActive,    \* bound: symbols with an active event in one cycle
    MaxMoves,     \* bound: changes of the market
    MaxFaults,    \* bound: crashes, failed statements, fillings of the disk
    None

Listings == {"liquid", "thin", "absent"}
StorageModes == {"SQLITE_ONLY", "SPOOL_SHADOW", "SPOOL_CANONICAL"}
ScanStatuses == {"SCANNED_OK", "SCAN_FAILED", "SCAN_SKIPPED"}

ASSUME ScanAssumption ==
    /\ Symbols \subseteq Nat /\ IsFiniteSet(Symbols)
    /\ Markets \subseteq [Symbols -> Listings] /\ Modes \subseteq StorageModes
    /\ BatchSize \in Nat \ {0} /\ {MaxActive, MaxMoves, MaxFaults} \subseteq Nat

VARIABLES
    phase,      \* "down", "idle" between cycles, "scan" inside one
    runtime,    \* runtime_instance_id of the process, or of the last one
    mode,       \* its research storage mode
    market,     \* what the exchange lists
    rotation,   \* the newest rotation and its symbol results
    scan,       \* what the running cycle has read and chosen
    incident,   \* whether the storage incident tracker has a failure open
    full,       \* whether the disk is full
    moves, faults

vars == <<phase, runtime, mode, market, rotation, scan, incident, full, moves, faults>>

(***************************************************************************)
(* The universe.                                                           *)
(***************************************************************************)
Exchange == {s \in Symbols : market[s] # "absent"}
Eligible == {s \in Symbols : market[s] = "liquid"}
Excluded == {s \in Symbols : market[s] = "thin"}

\* The shortlist ranks the eligible symbols by price, velocity and turnover.
Shortlists == kSubset(Min({BatchSize, Cardinality(Eligible)}), Eligible)

NoScan == [exchange |-> {}, eligible |-> {}, symbols |-> {}]

(***************************************************************************)
(* Rotations.                                                              *)
(***************************************************************************)
NewRotation(exchange, eligible) ==
    [runtime |-> runtime, status |-> "OPEN", exchange |-> exchange, eligible |-> eligible,
     results |-> [s \in Symbols |-> None]]

Open == rotation # None /\ rotation.status = "OPEN"

\* prepare_market_scan_rotation: reuses the rotation of this process, whatever
\* the market looks like now, and closes that of another.
Prepared == IF Open /\ rotation.runtime = runtime THEN rotation ELSE NewRotation(Exchange, Eligible)

\* rotation_scheduled_symbols.
Scheduled(r) == {s \in Symbols : r.results[s] # None}

\* Mutant: the batch is taken from the eligible symbols, covered or not.
SelectPreferred(eligible, scheduled, preferred) ==
    LET rest == eligible \ preferred
    IN (preferred \cap eligible)
         \cup {s \in rest : Cardinality({t \in rest : t < s}) < BatchSize - Cardinality(preferred \cap eligible)}

\* select_rotation_batch: what the shortlist prefers first, then by name.
SelectBatch(eligible, scheduled, preferred) ==
    LET first == (eligible \ scheduled) \cap preferred
        rest == (eligible \ scheduled) \ preferred
    IN first \cup {s \in rest : Cardinality({t \in rest : t < s}) < BatchSize - Cardinality(first)}

(***************************************************************************)
(* Recording a cycle.                                                      *)
(***************************************************************************)
\* Mutant: the process that opened the rotation is not compared.
MatchesUniverse == Open /\ rotation.exchange = scan.exchange /\ rotation.eligible = scan.eligible

Matches ==
    /\ Open
    /\ rotation.runtime = runtime
    /\ rotation.exchange = scan.exchange
    /\ rotation.eligible = scan.eligible

\* Mutant: an excluded symbol is stored even if the rotation counts it eligible.
ExcludedNow == Excluded \cap scan.exchange

\* Excluded symbols the rotation knows and did not open as eligible.
ExcludedRows == (Excluded \cap scan.exchange) \ scan.eligible

\* The first result of a symbol stands.
ResultAfter(r, outcome, s) ==
    IF r.results[s] # None THEN r.results[s]
    ELSE IF s \in scan.symbols \cap scan.eligible THEN [status |-> outcome[s], runtime |-> runtime]
    ELSE IF s \in ExcludedRows THEN [status |-> "EXCLUDED", runtime |-> runtime]
    ELSE None

Covered(r) == {s \in r.eligible : r.results[s] # None /\ r.results[s].status \in ScanStatuses}

Closed(r) ==
    [r EXCEPT !.status = IF Covered(r) = r.eligible /\ Scheduled(r) \cap r.eligible = r.eligible
                         THEN "COMPLETED" ELSE @]

\* record_market_scan_cycle.
Recorded(outcome) ==
    LET r == IF Matches THEN rotation ELSE NewRotation(scan.exchange, scan.eligible)
    IN Closed([r EXCEPT !.results = [s \in Symbols |-> ResultAfter(r, outcome, s)]])

\* A symbol with a frame but no snapshot has no result: it is stored as skipped.
Outcomes == [scan.symbols -> ScanStatuses]

(***************************************************************************)
(* The process.                                                            *)
(***************************************************************************)
TypeOK ==
    /\ phase \in {"down", "idle", "scan"} /\ runtime \in 0..(MaxFaults + 1)
    /\ mode \in StorageModes /\ market \in Markets
    /\ rotation # None =>
        /\ rotation.runtime \in 1..(MaxFaults + 1) /\ rotation.status \in {"OPEN", "COMPLETED"}
        /\ rotation.exchange \subseteq Symbols /\ rotation.eligible \subseteq rotation.exchange
        /\ \A s \in Symbols : rotation.results[s] # None =>
            /\ \/ rotation.results[s].status \in ScanStatuses /\ s \in rotation.eligible
               \/ rotation.results[s].status = "EXCLUDED" /\ s \in rotation.exchange \ rotation.eligible
            /\ rotation.results[s].runtime \in 1..(MaxFaults + 1)
    /\ scan.symbols \subseteq Symbols /\ scan.eligible \subseteq scan.exchange
    /\ {incident, full} \subseteq BOOLEAN
    /\ moves \in 0..MaxMoves /\ faults \in 0..MaxFaults

Init ==
    /\ phase = "down" /\ runtime = 0 /\ mode \in Modes
    /\ market \in Markets
    /\ rotation = None /\ scan = NoScan
    /\ incident = FALSE /\ full = FALSE
    /\ moves = 0 /\ faults = 0

Fault ==
    /\ faults < MaxFaults
    /\ faults' = faults + 1

\* The exchange lists or delists a symbol, or its turnover crosses the limit.
Move ==
    /\ phase # "scan" /\ moves < MaxMoves
    /\ market' \in Markets \ {market}
    /\ moves' = moves + 1
    /\ UNCHANGED <<phase, runtime, mode, rotation, scan, incident, full, faults>>

Fill ==
    /\ ~full /\ full' = TRUE
    /\ Fault
    /\ UNCHANGED <<phase, runtime, mode, market, rotation, scan, incident, moves>>

Free ==
    /\ full /\ full' = FALSE
    /\ UNCHANGED <<phase, runtime, mode, market, rotation, scan, incident, moves, faults>>

\* startup: on a full disk the process exits and is started again.
Start ==
    /\ phase = "down" /\ ~full
    /\ phase' = "idle" /\ runtime' = runtime + 1
    /\ mode' \in Modes
    /\ scan' = NoScan /\ incident' = FALSE
    /\ UNCHANGED <<market, rotation, full, moves, faults>>

Crash ==
    /\ phase # "down" /\ phase' = "down"
    /\ Fault
    /\ UNCHANGED <<runtime, mode, market, rotation, scan, incident, full, moves>>

\* Mutant: the heartbeat that succeeds leaves the incident open.
IncidentKept == full \/ incident

\* record_failure and record_success of the tracker, after the heartbeat.
IncidentAfter == full

\* _ensure_storage_healthy fails and the cycle ends.
Unhealthy ==
    /\ phase = "idle" /\ full
    /\ incident' = IncidentAfter
    /\ UNCHANGED <<phase, runtime, mode, market, rotation, scan, full, moves, faults>>

\* Without the size of the disk a recovery is not recorded.
Healthy ==
    /\ phase = "idle" /\ ~full
    /\ \/ incident' = IncidentAfter /\ UNCHANGED faults
       \/ incident /\ Fault /\ UNCHANGED incident

\* The cycle scans the batch and every symbol with an active event.
Choose(exchange, eligible, batch) ==
    /\ phase' = "scan"
    /\ \E active \in SUBSET Symbols :
        /\ Cardinality(active) <= MaxActive
        /\ scan' = [exchange |-> exchange, eligible |-> eligible, symbols |-> batch \cup active]

\* The rotation is prepared, and its universe and its results are read.
Plan ==
    /\ Healthy /\ rotation' = Prepared
    /\ \E preferred \in Shortlists :
        Choose(rotation'.exchange, rotation'.eligible,
               SelectBatch(rotation'.eligible, Scheduled(rotation'), preferred))
    /\ UNCHANGED <<runtime, mode, market, full, moves>>

\* The rotation could not be prepared: the shortlist is scanned.
PlanWithoutRotation ==
    /\ phase = "idle" /\ ~full /\ incident' = IncidentAfter
    /\ Fault
    /\ \E preferred \in Shortlists : Choose(Exchange, Eligible, preferred)
    /\ UNCHANGED <<runtime, mode, market, rotation, full, moves>>

\* Its universe could not be read: that of the scanner stands in.
PlanWithoutUniverse ==
    /\ phase = "idle" /\ ~full /\ incident' = IncidentAfter
    /\ Fault
    /\ rotation' = Prepared
    /\ \E preferred \in Shortlists :
        Choose(Exchange, Eligible, SelectBatch(Eligible, Scheduled(rotation'), preferred))
    /\ UNCHANGED <<runtime, mode, market, full, moves>>

\* Its results could not be read: the shortlist is scanned again.
PlanWithoutResults ==
    /\ phase = "idle" /\ ~full /\ incident' = IncidentAfter
    /\ Fault
    /\ rotation' = Prepared
    /\ \E preferred \in Shortlists : Choose(rotation'.exchange, rotation'.eligible, preferred)
    /\ UNCHANGED <<runtime, mode, market, full, moves>>

\* An observation of a scanned symbol meets the full disk.
ObservationFails ==
    /\ phase = "scan" /\ full
    /\ incident' = IncidentAfter
    /\ UNCHANGED <<phase, runtime, mode, market, rotation, scan, full, moves, faults>>

\* In canonical mode record_market_scan_cycle_operational stores the cycle row
\* alone, and the symbol results go to the spool.
RecordsResults == mode # "SPOOL_CANONICAL"

Record ==
    /\ phase = "scan" /\ ~full
    /\ phase' = "idle" /\ scan' = NoScan
    /\ \/ ~RecordsResults /\ UNCHANGED rotation
       \/ RecordsResults /\ \E outcome \in Outcomes : rotation' = Recorded(outcome)
    /\ UNCHANGED <<runtime, mode, market, incident, full, moves, faults>>

\* The cycle raises before it records, or the transaction is rolled back.
Unrecorded ==
    /\ phase = "scan"
    /\ phase' = "idle" /\ scan' = NoScan
    /\ \/ full /\ UNCHANGED faults
       \/ Fault
    /\ UNCHANGED <<runtime, mode, market, rotation, incident, full, moves>>

Cycle == Unhealthy \/ Plan \/ Record \/ (full /\ Unrecorded)

Next ==
    \/ Move \/ Fill \/ Free \/ Start \/ Crash
    \/ Unhealthy \/ Plan \/ PlanWithoutRotation \/ PlanWithoutUniverse \/ PlanWithoutResults
    \/ ObservationFails \/ Record \/ Unrecorded

Spec == Init /\ [][Next]_vars
FairSpec == Spec /\ WF_vars(Start) /\ WF_vars(Cycle)

(***************************************************************************)
(* Properties.                                                             *)
(***************************************************************************)
\* A rotation that is COMPLETED holds, for every symbol that was eligible when
\* it was opened, a scan result that the process that opened it recorded.  The
\* market may have moved since, other cycles may have failed half-way, and a
\* process may have died in the middle of an earlier rotation.
CompletedCoversItsUniverse ==
    Open \/ rotation = None
    \/ \A s \in rotation.eligible :
        /\ rotation.results[s] # None
        /\ rotation.results[s].status \in ScanStatuses
        /\ rotation.results[s].runtime = rotation.runtime

\* No symbol is starved: once the market, the process and the disk are quiet,
\* every symbol that is eligible is scanned again and again, although the
\* shortlist may prefer the same symbols in every cycle.  In canonical mode
\* this does not hold, the rotation never learns of a result.
EverySymbolScheduled ==
    <>[](mode # "SPOOL_CANONICAL" /\ ~full) =>
        \A s \in Symbols : []<>(market[s] = "liquid" => s \in scan.symbols)

\* The storage incident follows the disk: a process that runs does not miss a
\* disk that stays full, nor keeps an incident open when it has space again.
IncidentTracksDisk == []<>(phase = "down" \/ incident = full)
=============================================================================
