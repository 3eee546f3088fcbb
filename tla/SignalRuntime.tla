--------------------------- MODULE SignalRuntime ---------------------------
(***************************************************************************)
(* app/main.py: how one symbol's pump event becomes signals.  The full     *)
(* scan detects the event, tracks it as a climax candidate, advances it    *)
(* and decides; the fast monitor re-evaluates tracked candidates between   *)
(* scans.  Both work on a detached copy of the event state inside the lane *)
(* of the symbol (SymbolLanes) and write it back whole, without a          *)
(* revision check; a signal row is committed before the Telegram send and  *)
(* the event state is marked only after it.                                *)
(*                                                                         *)
(* A step is what a task does between two awaits.  Market data decides     *)
(* nothing here: whether a pump qualifies, a price kills an event or a     *)
(* setup is actionable is a free choice.  Delivery is DeliveryOutbox's.    *)
(* An episode is one detection of an event: an event id is made of the     *)
(* window and its highest candle, so a later episode may have the same id. *)
(***************************************************************************)
EXTENDS Naturals, Sequences, FiniteSets

CONSTANTS Events,      \* event ids of the symbol
          MaxEpisodes, \* bound: detections
          MaxRecords,  \* bound: signal rows
          MaxFaults,   \* bound: crashes, stops and failed calls
          None

Procs    == {"scan", "monitor"}
Climax   == {"VOLUME_CLIMAX_UNWIND", "LOW_VOLUME_EXTENSION_FAILURE"}
Subtypes == Climax \cup {"TRAPPED_LONGS_REVERSAL"}
Marking  == Climax \cup {"BASELINE"} \* the kinds that set state.signal_id
Kinds    == Subtypes \cup {"BASELINE"}

Statuses == {"PUMP_DETECTED", "PULLBACK_OBSERVED", "SHORT_ZONE_ACTIVE",
             "SIGNAL_SENT", "EXPIRED"}

\* What a task awaits inside the lane, and anywhere.
Inside == {"enriching", "reporting", "rechecking", "sending", "watching",
           "zoning", "trapping"}
Steps  == Inside \cup {"idle", "waiting", "cleaning", "stopped"}

\* ended: expires_at was set when the event expired.
EventStates == [event: Events, episode: Nat, status: Statuses,
                signal: Nat \cup {None}, ended: BOOLEAN]

ASSUME RuntimeAssumption ==
    /\ MaxEpisodes \in Nat /\ MaxRecords \in Nat /\ MaxFaults \in Nat
    /\ None \notin Nat \cup Procs \cup EventStates

VARIABLES
    row,      \* event_states: the row of the symbol
    records,  \* signals: its rows, the id of each is its place
    pool,     \* _active_climax_pool: the events tracked for the symbol
    stale,    \* those older than climax_candidate_ttl_minutes
    due,      \* expires_at has passed for the episodes up to this one
    lane,     \* the task inside the lane of the symbol
    pc,       \* what each task awaits
    chosen,   \* the state the scan selected the symbol by, then reloaded
    key,      \* the event the monitor polls
    w,        \* the copy of the event state each task works on
    saved,    \* the signal row each task has written and not marked yet
    episodes, \* detections so far
    faults,   \* faults so far
    lost      \* episodes whose mark a crash or a failed save has lost

durable == <<row, records>>
memory  == <<pool, stale>>
history == <<episodes, faults, lost>>
vars == <<durable, memory, due, lane, pc, chosen, key, w, saved, history>>

Init ==
    /\ row = None /\ records = <<>>
    /\ pool = {} /\ stale = {} /\ due = 0
    /\ lane = None
    /\ pc = [p \in Procs |-> "idle"]
    /\ chosen = None /\ key = None
    /\ w = [p \in Procs |-> None]
    /\ saved = [p \in Procs |-> None]
    /\ episodes = 0 /\ faults = 0 /\ lost = {}

-----------------------------------------------------------------------------
\* load_active's predicate.
Active(s) == s # None /\ s.status # "EXPIRED" /\ ~s.ended /\ s.episode > due

Detected(e, n) == [event |-> e, episode |-> n, status |-> "PUMP_DETECTED",
                   signal |-> None, ended |-> FALSE]

Marked(s, id) == [s EXCEPT !.status = "SIGNAL_SENT", !.signal = id]

\* Mutant: nobody looks for an earlier signal of another episode.
HasSignalOf(s, k) ==
    \E i \in DOMAIN records : /\ records[i].episode = s.episode
                              /\ records[i].kind = k

\* has_signal_for_event: a row with the event of s and this subtype exists.
HasSignal(s, k) ==
    \E i \in DOMAIN records : records[i].event = s.event /\ records[i].kind = k

\* Mutant: a new event joins the other candidates of the symbol.
TrackBeside(s) ==
    /\ pool' \in {pool \cup {s.event}, pool}
    /\ stale' = stale \cap pool'

\* Mutant: every scan renews the age of the candidate.
TrackAnew(s) ==
    /\ pool' = {s.event}
    /\ stale' = {}

\* _track_climax_candidate: one event per symbol; a candidate that stays keeps
\* its age, one whose high is older than the TTL is not added.
Track(s) ==
    /\ \/ pool' = {s.event}
       \/ s.event \notin pool /\ pool' = {}
    /\ stale' = stale \cap pool'

Forget(e) == pool' = pool \ {e} /\ stale' = stale \ {e}

\* What a confirmed new high or PullbackTracker makes of state s.  A signal
\* does not stop its first pullback from being observed.
Advanced(s) ==
    {[s EXCEPT !.status = "EXPIRED", !.ended = TRUE]}
    \cup (IF s.signal = None THEN {[s EXCEPT !.status = "PUMP_DETECTED"]} ELSE {})
    \cup (IF s.episode > due THEN {s} ELSE {})
    \cup (IF s.episode > due /\ s.status \in {"PUMP_DETECTED", "SIGNAL_SENT"}
          THEN {[s EXCEPT !.status = "PULLBACK_OBSERVED"]} ELSE {})

-----------------------------------------------------------------------------
Await(p, step) == pc' = [pc EXCEPT ![p] = step]

\* Task p leaves the lane.
Exit(p, step) ==
    /\ lane' = None
    /\ Await(p, step)
    /\ w' = [w EXCEPT ![p] = None]
    /\ saved' = [saved EXCEPT ![p] = None]

\* ... in good order: the monitor goes on to clean its pool.
Leave(p) == Exit(p, IF p = "monitor" THEN "cleaning" ELSE "idle")

\* The scan saves state s and leaves.
SavesState(s) == row' = s /\ Leave("scan")

\* Task p goes on with state s after an await.
Continues(p, s, step) ==
    /\ w' = [w EXCEPT ![p] = s]
    /\ Await(p, step)
    /\ UNCHANGED lane

\* save_signal commits a row, then the task awaits its delivery.
SavesSignal(p, k, s, step) ==
    /\ Len(records) < MaxRecords
    /\ records' = Append(records, [event |-> s.event, episode |-> s.episode, kind |-> k])
    /\ saved' = [saved EXCEPT ![p] = IF k \in Marking THEN Len(records') ELSE @]
    /\ Continues(p, s, step)

\* The state the scan works on is one it has just detected, stored or not.
New == chosen = None

\* _process_symbol after the climax branch.  A new state may only be watched;
\* an older one advances and, unless it expired or has a new high, its zone is
\* looked for and its liquidity fetched.
Baseline ==
    /\ \E s \in IF New THEN {w["scan"]} ELSE Advanced(w["scan"]) :
          \/ SavesState(s)
          \/ /\ s.status = "PUMP_DETECTED"
             /\ Continues("scan", s, "watching") /\ UNCHANGED <<row, saved>>
          \/ /\ s.status \notin {"PUMP_DETECTED", "EXPIRED"}
             /\ Continues("scan", s, "zoning") /\ UNCHANGED <<row, saved>>
    /\ UNCHANGED records

\* There is no climax signal: the scan goes on and the monitor is done.
NoClimax(p) == \/ p = "scan" /\ Baseline
               \/ p = "monitor" /\ Leave(p) /\ UNCHANGED durable

\* Mutant: a signalled event is decided again.
MayDecideAgain(s) == s.status # "EXPIRED"

\* state.signal_id suppresses every decision for the event.
MayDecide(s) == s.signal = None

\* The engine decides nothing, a watch or a signal for state s.  snapshot: is
\* the state as the trapped-longs branch may have saved it.
Decides(s, snapshot) ==
    \/ SavesState(s) /\ UNCHANGED records
    \/ /\ MayDecide(s) /\ row' \in snapshot
       /\ \/ Continues("scan", s, "watching") /\ UNCHANGED <<records, saved>>
          \/ SavesSignal("scan", "BASELINE", s, "sending")

-----------------------------------------------------------------------------
\* run_cycle selects the active symbols, then awaits their frames.
Select ==
    /\ pc["scan"] = "idle"
    /\ chosen' = IF Active(row) THEN row ELSE None
    /\ Await("scan", "waiting")
    /\ UNCHANGED <<durable, memory, due, lane, key, w, saved, history>>

\* Mutant: the state selected before the awaits is the one that is used.
LoadedEarly == chosen

\* The state the scan reloads in the lane, by the time of the selection.
Loaded == IF chosen # None /\ row.status # "EXPIRED" /\ ~row.ended THEN row ELSE None

\* The scan enters the lane with the event it reloads or one it detects, and
\* tracks it.
ScanFinds ==
    /\ pc["scan"] = "waiting" /\ lane = None
    /\ \E s \in {Loaded} \cup {Detected(e, episodes + 1) : e \in Events} :
          /\ s # None
          /\ s # Loaded => Loaded = None /\ episodes < MaxEpisodes
          /\ episodes' = IF s = Loaded THEN episodes ELSE episodes + 1
          /\ Track(s)
          /\ w' = [w EXCEPT !["scan"] = s]
    /\ chosen' = Loaded
    /\ lane' = "scan"
    /\ Await("scan", "enriching")
    /\ UNCHANGED <<durable, due, key, saved, faults, lost>>

\* The scan is done with the symbol: no frame, no snapshot or no pump.
ScanPasses ==
    /\ pc["scan"] = "waiting"
    /\ Await("scan", "idle")
    /\ UNCHANGED <<durable, memory, due, lane, chosen, key, w, saved, history>>

\* The monitor polls a candidate and awaits its frame and its snapshot.
Poll ==
    /\ pc["monitor"] = "idle"
    /\ key' \in pool
    /\ Await("monitor", "waiting")
    /\ UNCHANGED <<durable, memory, due, lane, chosen, w, saved, history>>

\* One of them is missing.
PollSkips ==
    /\ pc["monitor"] = "waiting"
    /\ Await("monitor", "cleaning")
    /\ UNCHANGED <<durable, memory, due, lane, chosen, key, w, saved, history>>

Stored(e) == row # None /\ row.event = e

\* Mutant: the monitor does not wait for the lane.
MonitorFindsAtOnce ==
    /\ pc["monitor"] = "waiting"
    /\ key \in pool /\ Stored(key) /\ row.signal = None
    /\ lane' = "monitor"
    /\ w' = [w EXCEPT !["monitor"] = row]
    /\ Await("monitor", "enriching")
    /\ UNCHANGED <<durable, memory, due, chosen, key, saved, history>>

\* The monitor enters the lane and evaluates the state of its candidate,
\* whatever its status is.
MonitorFinds ==
    /\ pc["monitor"] = "waiting" /\ lane = None
    /\ key \in pool /\ Stored(key) /\ row.signal = None
    /\ lane' = "monitor"
    /\ w' = [w EXCEPT !["monitor"] = row]
    /\ Await("monitor", "enriching")
    /\ UNCHANGED <<durable, memory, due, chosen, key, saved, history>>

\* The candidate is gone or its event signalled, or its event state is gone and
\* the candidate goes too.
MonitorPasses ==
    /\ pc["monitor"] = "waiting" /\ lane = None
    /\ ~(key \in pool /\ Stored(key) /\ row.signal = None)
    /\ IF Stored(key) THEN UNCHANGED memory ELSE Forget(key)
    /\ Await("monitor", "cleaning")
    /\ UNCHANGED <<durable, due, lane, chosen, key, w, saved, history>>

\* The monitor ends its poll: candidates older than the TTL go, under the lane.
Clean ==
    /\ pc["monitor"] = "cleaning" /\ lane = None
    /\ pool' = pool \ stale /\ stale' = {}
    /\ Await("monitor", "idle")
    /\ UNCHANGED <<durable, due, lane, chosen, key, w, saved, history>>

-----------------------------------------------------------------------------
\* _evaluate_and_send_climax with the liquidity it waited for: a signalled event
\* is not evaluated.  The shadow lifecycle of a volume-climax candidate is kept
\* in the event state, which is saved whole, a new episode too; the task then
\* reports the observations it could not write.
Evaluate(p) ==
    /\ pc[p] = "enriching"
    /\ IF w[p].signal # None
       THEN NoClimax(p)
       ELSE /\ row' \in {row, w[p]}
            /\ Continues(p, w[p], "reporting")
            /\ UNCHANGED <<records, saved>>
    /\ UNCHANGED <<memory, due, chosen, key, history>>

\* The verdict.  What is actionable and was signalled before loses its
\* candidate; one branch is signalled at once, the other waits for fresh data.
Admits(p) ==
    /\ pc[p] = "reporting"
    /\ \/ NoClimax(p) /\ UNCHANGED memory
       \/ \E k \in Climax :
             \/ HasSignal(w[p], k) /\ Forget(w[p].event) /\ NoClimax(p)
             \/ /\ ~HasSignal(w[p], k)
                /\ UNCHANGED <<row, memory>>
                /\ IF k = "LOW_VOLUME_EXTENSION_FAILURE"
                   THEN Continues(p, w[p], "rechecking") /\ UNCHANGED <<records, saved>>
                   ELSE SavesSignal(p, k, w[p], "sending")
    /\ UNCHANGED <<due, chosen, key, history>>

\* The fresh data confirms the signal, or is missing, or vetoes it.
Recheck(p) ==
    /\ pc[p] = "rechecking"
    /\ \/ NoClimax(p)
       \/ /\ SavesSignal(p, "LOW_VOLUME_EXTENSION_FAILURE", w[p], "sending")
          /\ UNCHANGED row
    /\ UNCHANGED <<memory, due, chosen, key, history>>

\* The scan has liquidity for the zone.  Trapped longs, a strategy of its own,
\* may save the state and a signal that does not mark it; then the engine
\* decides.
Zone ==
    /\ pc["scan"] = "zoning"
    /\ \E s \in {w["scan"]} \cup
                (IF w["scan"].status = "PULLBACK_OBSERVED"
                 THEN {[w["scan"] EXCEPT !.status = "SHORT_ZONE_ACTIVE"]} ELSE {}) :
          \/ Decides(s, {row, s})
          \/ /\ ~HasSignal(s, "TRAPPED_LONGS_REVERSAL")
             /\ row' \in {row, s}
             /\ SavesSignal("scan", "TRAPPED_LONGS_REVERSAL", s, "trapping")
    /\ UNCHANGED <<memory, due, chosen, key, history>>

TrapSent ==
    /\ pc["scan"] = "trapping"
    /\ Decides(w["scan"], {row})
    /\ UNCHANGED <<memory, due, chosen, key, history>>

\* A watch is sent, or is not: the state is saved with its mark either way.
WatchSent ==
    /\ pc["scan"] = "watching"
    /\ SavesState(w["scan"])
    /\ UNCHANGED <<records, memory, due, chosen, key, history>>

\* The state of a signalled event is marked and saved, and a climax signal
\* drops the candidate.
Marks(p) ==
    /\ row' = Marked(w[p], saved[p])
    /\ IF records[saved[p]].kind \in Climax THEN Forget(w[p].event) ELSE UNCHANGED memory

\* Mutant: an exception out of the send does not mark the state.
SendEndsUnmarked(p) ==
    /\ pc[p] = "sending"
    /\ \/ Marks(p)
       \/ UNCHANGED <<row, memory>>
    /\ Leave(p)
    /\ UNCHANGED <<records, due, chosen, key, history>>

\* The send succeeds, fails or raises: _finalize_persisted_signal marks too.
SendEnds(p) ==
    /\ pc[p] = "sending"
    /\ Marks(p)
    /\ \/ Leave(p)
       \/ p = "monitor" /\ Exit(p, "idle")
    /\ UNCHANGED <<records, due, chosen, key, history>>

-----------------------------------------------------------------------------
Fault == faults < MaxFaults /\ faults' = faults + 1 /\ UNCHANGED episodes

\* The signal is sent but its state cannot be saved.
MarkFails(p) ==
    /\ Fault
    /\ pc[p] = "sending"
    /\ lost' = lost \cup {w[p].episode}
    /\ Exit(p, "idle")
    /\ UNCHANGED <<durable, memory, due, chosen, key>>

\* Anything else raises: the scan isolates the symbol, the monitor its poll.
Raises(p) ==
    /\ Fault
    /\ pc[p] \in Inside \ {"sending", "watching"}
    /\ Exit(p, "idle")
    /\ UNCHANGED <<durable, memory, due, chosen, key, lost>>

\* Task p is cancelled at its await.  shutdown() cancels the monitor when the
\* scan is gone.
Stop(p) ==
    /\ pc[p] # "stopped"
    /\ IF p = "monitor" THEN pc["scan"] = "stopped" /\ UNCHANGED <<faults, episodes>>
       ELSE Fault
    /\ IF pc[p] = "sending" THEN Marks(p)
       ELSE /\ row' = IF pc[p] = "watching" THEN w[p] ELSE row
            /\ UNCHANGED memory
    /\ lane' = IF lane = p THEN None ELSE lane
    /\ Await(p, "stopped")
    /\ w' = [w EXCEPT ![p] = None]
    /\ saved' = [saved EXCEPT ![p] = None]
    /\ UNCHANGED <<records, due, chosen, key, lost>>

\* A new process: only the database is left.
Restarts ==
    /\ pool' = {} /\ stale' = {}
    /\ lane' = None
    /\ pc' = [p \in Procs |-> "idle"]
    /\ chosen' = None /\ key' = None
    /\ w' = [p \in Procs |-> None]
    /\ saved' = [p \in Procs |-> None]
    /\ UNCHANGED <<durable, due>>

Restart == /\ \A p \in Procs : pc[p] = "stopped"
           /\ Restarts
           /\ UNCHANGED history

\* The process dies.
Crash == /\ Fault
         /\ Restarts
         /\ lost' = lost \cup {w[p].episode : p \in {q \in Procs : pc[q] = "sending"}}

\* Time passes: an episode's expires_at, a candidate's TTL.
Expire == /\ due < episodes /\ due' = due + 1
          /\ UNCHANGED <<durable, memory, lane, pc, chosen, key, w, saved, history>>

Age == /\ pool # stale /\ stale' = pool
       /\ UNCHANGED <<durable, pool, due, lane, pc, chosen, key, w, saved, history>>

Next ==
    \/ Select \/ ScanFinds \/ ScanPasses \/ Zone \/ TrapSent \/ WatchSent
    \/ Poll \/ PollSkips \/ MonitorFinds \/ MonitorPasses \/ Clean
    \/ \E p \in Procs : \/ Evaluate(p) \/ Admits(p) \/ Recheck(p) \/ SendEnds(p)
                        \/ MarkFails(p) \/ Raises(p) \/ Stop(p)
    \/ Crash \/ Restart \/ Expire \/ Age

Spec == Init /\ [][Next]_vars

\* Awaits end: requests and sends have timeouts.  The monitor polls for as long
\* as the process lives, the lane's lock is first come first served, and the
\* service manager restarts a stopped process.
Fairness ==
    /\ WF_vars(Zone) /\ WF_vars(TrapSent) /\ WF_vars(WatchSent)
    /\ \A p \in Procs : /\ WF_vars(Evaluate(p)) /\ WF_vars(Admits(p))
                        /\ WF_vars(Recheck(p)) /\ WF_vars(SendEnds(p))
    /\ WF_vars(Poll) /\ SF_vars(MonitorFinds \/ MonitorPasses) /\ SF_vars(Clean)
    /\ WF_vars(Stop("monitor")) /\ WF_vars(Restart)

FairSpec == Spec /\ Fairness
-----------------------------------------------------------------------------
\* Every variable has its type; the lane belongs to the task inside it.
TypeOK ==
    /\ row \in EventStates \cup {None}
    /\ records \in Seq([event: Events, episode: Nat, kind: Kinds])
    /\ pool \subseteq Events /\ stale \subseteq pool
    /\ due \in Nat /\ episodes \in Nat /\ faults \in Nat
    /\ lane \in Procs \cup {None}
    /\ pc \in [Procs -> Steps]
    /\ chosen \in EventStates \cup {None}
    /\ key \in Events \cup {None}
    /\ w \in [Procs -> EventStates \cup {None}]
    /\ saved \in [Procs -> Nat \cup {None}]
    /\ lost \subseteq Nat
    /\ \A p \in Procs : /\ lane = p <=> pc[p] \in Inside
                        /\ pc[p] \in Inside => w[p] # None

\* The rows that should have marked an episode.
SignalsOf(n) ==
    {i \in DOMAIN records : records[i].episode = n /\ records[i].kind \in Marking}

\* A tracked event is signalled at most once, by the scan or by the monitor, by
\* the baseline or by a climax branch, unless a crash or a failed save came
\* between the signal and its mark.
OneSignalPerEpisode ==
    \A n \in 1..episodes : n \notin lost => Cardinality(SignalsOf(n)) <= 1

\* The unique constraint of signals never refuses a row with a subtype: what
\* has_signal_for_event said is still true when the row is inserted, awaits,
\* crashes and later episodes of the same event notwithstanding.
IdentityUnique ==
    \A i, j \in DOMAIN records :
        /\ records[i].kind \in Subtypes
        /\ records[i].kind = records[j].kind
        /\ records[i].event = records[j].event
        => i = j

\* Between sends, the stored state is marked with the signal of its episode if
\* there is one: nothing is signalled unmarked, or marked for another episode.
MarkMatchesSignal ==
    (row # None /\ row.episode \notin lost /\ \A p \in Procs : pc[p] # "sending")
        => SignalsOf(row.episode) = IF row.signal = None THEN {} ELSE {row.signal}

\* While nothing has failed, a candidate outside the lane is the stored event.
PoolFollowsState ==
    faults = 0 /\ lane = None => \A e \in pool : Stored(e)

\* No task overwrites the mark of an episode with a copy it read before.
MarkIsKept ==
    [][row # None /\ row.signal # None /\ row'.episode = row.episode
        => row'.signal = row.signal]_row

\* A candidate older than its TTL leaves the pool.
CandidatesLeave == \A e \in Events : e \in stale ~> e \notin pool

\* The identity of signals includes the baseline's: what the contract says.
BaselineIdentityUnique ==
    \A i, j \in DOMAIN records :
        records[i].kind = "BASELINE" /\ records[j].kind = "BASELINE"
        /\ records[i].event = records[j].event => i = j
=============================================================================
