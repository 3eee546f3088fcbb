-------------------------- MODULE OutcomeMaturation --------------------------
(***************************************************************************)
(* Paper outcomes.  Every runtime cycle first matures the outcome rows of  *)
(* shadow episodes, V2 roots and live roots (ShadowOutcomeScheduler) and   *)
(* ends with saved signals and strategy observations (OutcomeTracker).     *)
(* A row holds a status, a due time and an attempt count; the prices       *)
(* themselves are a function of the candles and are left out.  Beside the  *)
(* process, the offline retention evaluation reads the same tables, one    *)
(* SELECT after the other, and says which rows may be archived.            *)
(* Time is counted in minutes of a small clock; candles of the scheduler   *)
(* are Width long, those of the tracker one.                               *)
(***************************************************************************)
EXTENDS Integers, FiniteSets, FiniteSetsExt

CONSTANTS
    Rows,           \* ids of outcome rows
    Kind,           \* [Rows -> {"episode", "v2", "live", "signal", "observation"}]
    SymbolOf,       \* [Rows -> symbols]
    Unpriced,       \* observations recorded without a market price
    Width,          \* length of a scheduler candle
    Closes,         \* close times of the scheduler candles the exchange has
    Minutes,        \* [symbols -> open times of the one-minute candles the exchange has]
    Horizons,       \* horizons of episodes, V2 roots and live roots
    Coverage,       \* last horizon of an observation
    SignalHorizon,  \* last horizon of a signal
    SignalGrace,    \* how long after it candles are asked for
    Window,         \* age at which a signal is no longer listed
    Limit,          \* rows of one batch
    MaxBatches,     \* observation batches of one cycle
    MaxDelay,       \* longest back-off
    Anchors,        \* [Rows -> times at which the row may be created]
    MaxTime, MaxRows, MaxCycle, MaxFaults, FaultsUntil,   \* bounds: clock, rows stored,
                    \* time from cycle to cycle, number of faults, time of the last
    None

Tables == {"episode", "v2", "live", "observation"}

ASSUME RowsAssumption ==
    /\ IsFiniteSet(Rows) /\ Unpriced \subseteq Rows
    /\ Kind \in [Rows -> {"episode", "v2", "live", "signal", "observation"}]

ASSUME TimesAssumption ==
    /\ {Width, Coverage, SignalHorizon, Window, Limit, MaxBatches, MaxDelay} \subseteq Nat \ {0}
    /\ SignalGrace \in Nat
    /\ {MaxTime, MaxRows, MaxCycle, MaxFaults, FaultsUntil} \subseteq Nat
    /\ Anchors \in [Rows -> SUBSET (0..MaxTime)]
    /\ Horizons \subseteq Nat \ {0} /\ Horizons # {} /\ IsFiniteSet(Horizons)
    /\ \A h \in Horizons : h > Width
    /\ Closes \subseteq Nat /\ None \notin Nat
    /\ \A r \in Rows : Minutes[SymbolOf[r]] \subseteq Nat

VARIABLES
    clock,
    rows,       \* [Rows -> None or the stored row]
    phase,      \* what the runtime cycle is doing
    asof,       \* the `now` the running part was called with
    begun,      \* when the last cycle began
    todo,       \* rows listed and not reached
    hand,       \* rows of the symbol whose candles were fetched
    frame,      \* whether that fetch answered
    tried,      \* observations attempted in this cycle
    batches,    \* batches listed in this cycle
    step,       \* statements the retention evaluation has executed
    context,    \* what its first statements read
    archived,   \* rows it called archivable
    faults

cycle == <<phase, asof, begun, todo, hand, frame, tried, batches>>
retention == <<step, context, archived>>
vars == <<clock, rows, cycle, retention, faults>>

Scheduled == {r \in Rows : Kind[r] \in {"episode", "v2", "live"}}
Signals == {r \in Rows : Kind[r] = "signal"}
Observations == {r \in Rows : Kind[r] = "observation"}
Stored == {r \in Rows : rows[r] # None}

First == Min(Horizons)
Last == Max(Horizons)

\* The outcome row beside a new episode, V2 root or live root.
ScheduledRow(at) ==
    [anchor |-> at, attempts |-> 0, labelled |-> FALSE, status |-> "CENSORED", due |-> at + First]

\* Signals and observations are listed by what they lack.
NewRow(at) == [ScheduledRow(at) EXCEPT !.status = "new", !.due = None]

(***************************************************************************)
(* Evaluation.                                                             *)
(***************************************************************************)
\* Whether a closed candle covers the horizon h of a row anchored at a.
Priced(a, h, at) == \E c \in Closes : c - Width > a /\ c >= a + h /\ c <= at

DueHorizons(a, at) == {h \in Horizons : at >= a + h}

\* evaluate_shadow_outcome and terminalize_due_horizons.
ShadowStatus(a, at) ==
    IF DueHorizons(a, at) = {} THEN "CENSORED"
    ELSE IF \A h \in Horizons : Priced(a, h, at) THEN "MATURE"
    ELSE IF /\ \E h \in Horizons : Priced(a, h, at)
            /\ \A h \in DueHorizons(a, at) : Priced(a, h, at) THEN "PARTIAL"
    ELSE "DATA_GAP"

\* next_outcome_due_at: a gap ends the row, its retry branch is not reached.
NextDue(a, at) ==
    IF ShadowStatus(a, at) \in {"MATURE", "DATA_GAP"} THEN None
    ELSE a + Min({h \in Horizons : ~Priced(a, h, at)})

\* An attempt stores the result with the next due time and counts itself.
Attempted(r, status, due) ==
    [rows[r] EXCEPT !.status = status, !.due = due, !.attempts = Min({6, @ + 1})]

\* The row after the scheduler has computed it.
Computed(r) ==
    [Attempted(r, ShadowStatus(rows[r].anchor, asof), NextDue(rows[r].anchor, asof))
        EXCEPT !.labelled = Kind[r] # "episode" /\ asof >= rows[r].anchor + Last]

Delay(n) == Min({MaxDelay, 2 ^ n})

\* _record_error: only episode rows carry the key the delay is read from.
Errored(r) ==
    LET delay == Delay(IF Kind[r] = "episode" THEN rows[r].attempts ELSE 0) IN
    [Attempted(r, "RETRYABLE_ERROR", asof + delay) EXCEPT !.labelled = FALSE]

\* The first closed candle at or after the last horizon is closed by then.
ReadyAt(a) == a + Coverage + 1

\* One-minute candles that are closed, later than the observation and fetched.
After(r) ==
    {m \in Minutes[SymbolOf[r]] :
        rows[r].anchor < m /\ m + 1 <= asof /\ m <= ReadyAt(rows[r].anchor)}

ObservedStatus(r) ==
    IF After(r) = {} THEN IF asof < ReadyAt(rows[r].anchor) THEN "incomplete" ELSE "unknown"
    ELSE IF \E m \in After(r) : m >= rows[r].anchor + Coverage THEN "complete" ELSE "incomplete"

\* The observation after the tracker has evaluated it (ok: candles fetched).
Observed(r, ok) ==
    LET status == IF r \in Unpriced \/ ~ok THEN "unknown" ELSE ObservedStatus(r) IN
    Attempted(r, status, IF r \in Unpriced \/ status = "complete" THEN None
                         ELSE IF status = "incomplete" THEN asof + 1
                         ELSE asof + Delay(rows[r].attempts))

(***************************************************************************)
(* Due lists.                                                              *)
(***************************************************************************)
DueRow(r, at) == rows[r].due # None /\ rows[r].due <= at /\ rows[r].status # "MATURE"

DueObservation(r) ==
    LET row == rows[r] IN
    \/ row.status = "new"
    \/ row.status = "incomplete" /\ (row.due = None \/ row.due <= asof)
    \/ row.status = "unknown" /\ row.due # None /\ row.due <= asof

Key(r) == IF rows[r].due = None THEN rows[r].anchor ELSE rows[r].due

\* The possible first n of a set of rows ordered by their key.
FirstOf(S, n) ==
    {T \in SUBSET S : /\ Cardinality(T) = Min({n, Cardinality(S)})
                      /\ \A r \in T, q \in S \ T : Key(r) <= Key(q)}

\* Rows of each cohort a scheduler cycle at the time `at` may have in hand.
Batches(at) ==
    LET due(k) == {r \in Stored : Kind[r] = k /\ DueRow(r, at)} IN
    {e \cup v \cup l : e \in FirstOf(due("episode"), Limit),
                       v \in FirstOf(due("v2"), Limit),
                       l \in FirstOf(due("live"), Limit)}

\* Mutant: the limit keeps the newest signals of the window.
ListedNewest(at) ==
    LET recent == {r \in Stored \cap Signals : rows[r].anchor + Window >= at} IN
    {{r \in T : rows[r].status # "complete"} : T \in
        {U \in SUBSET recent : /\ Cardinality(U) = Min({Limit, Cardinality(recent)})
                               /\ \A r \in U, q \in recent \ U : Key(r) >= Key(q)}}

\* The oldest signals of the window, answered or not; answered ones are
\* dropped after the limit.
Listed(at) ==
    LET recent == {r \in Stored \cap Signals : rows[r].anchor + Window >= at} IN
    {{r \in T : rows[r].status # "complete"} : T \in FirstOf(recent, Limit)}

(***************************************************************************)
(* The runtime cycle.                                                      *)
(***************************************************************************)
Fault == clock <= FaultsUntil /\ faults < MaxFaults /\ faults' = faults + 1

Idle ==
    /\ phase' = "idle" /\ asof' = None
    /\ todo' = {} /\ hand' = {} /\ frame' = FALSE /\ tried' = {} /\ batches' = 0

NoContext == [table |-> None, roots |-> {}, pending |-> {}, matured |-> {}]

Init ==
    /\ clock = 0
    /\ rows = [r \in Rows |-> None]
    /\ phase = "idle" /\ asof = None /\ begun = None
    /\ todo = {} /\ hand = {} /\ frame = FALSE /\ tried = {} /\ batches = 0
    /\ step = 0 /\ context = NoContext /\ archived = {}
    /\ faults = 0

\* A cycle ends, and after the pause of the scan loop or a restart the next one
\* begins, within MaxCycle of its own beginning.
Tick ==
    /\ clock < MaxTime
    /\ clock < (IF begun = None THEN 0 ELSE begun) + MaxCycle
    /\ clock' = clock + 1
    /\ UNCHANGED <<rows, cycle, retention, faults>>

\* An insert that does nothing when the row's key is there already.
Adds(r, row) ==
    /\ rows[r] = None /\ clock \in Anchors[r] /\ Cardinality(Stored) < MaxRows
    /\ rows' = [rows EXCEPT ![r] = row]
    /\ UNCHANGED <<clock, cycle, retention, faults>>

\* A trigger later than the gap after the last one opens an episode.
OpensEpisode(r) == Kind[r] = "episode" /\ Adds(r, ScheduledRow(clock))

OpensV2Root(r) == Kind[r] = "v2" /\ Adds(r, ScheduledRow(clock))

\* An acceleration is observed: its episode, then perhaps a V2 root of it, a
\* transaction each; one that fails is missed for good.  The episode of a V2
\* root need not be one of Rows: their outcomes do not depend on each other.
ObserveRootDetector == \E r \in Rows : OpensEpisode(r) \/ OpensV2Root(r)

\* A live root is written with its outcome row.
CreateRoot(r) == Kind[r] = "live" /\ Adds(r, ScheduledRow(clock))

CreateSignal(r) == r \in Signals /\ Adds(r, NewRow(clock))

\* The branches of an evaluation are recorded one by one; an observation
\* carries its own outcome.
Observe == \E r \in Observations : Adds(r, NewRow(clock))

\* After the pause of the scan loop (the last value of the clock stands for all
\* later times) the scheduler lists what is due; a failing query ends it for
\* this cycle.
Begin ==
    /\ phase = "idle" /\ (begun # clock \/ clock = MaxTime)
    /\ phase' = "scheduler" /\ asof' = clock /\ begun' = clock
    /\ \/ todo' \in Batches(clock) /\ UNCHANGED faults
       \/ Fault /\ todo' = {}
    /\ UNCHANGED <<clock, rows, hand, frame, tried, batches, retention>>

\* _fetch_group, one request for all rows of a symbol.
Fetch(s) ==
    /\ phase = "scheduler" /\ hand = {}
    /\ hand' = {r \in todo : SymbolOf[r] = s} /\ hand' # {}
    /\ todo' = todo \ hand'
    /\ \/ frame' = TRUE /\ UNCHANGED faults
       \/ Fault /\ frame' = FALSE
    /\ UNCHANGED <<clock, rows, phase, asof, begun, tried, batches, retention>>

\* The next row in hand: episodes, then V2 roots, then live roots.
Reached(r) ==
    /\ r \in hand
    /\ \A q \in hand : Kind[q] = "episode" => Kind[r] = "episode"
    /\ \A q \in hand : Kind[q] = "v2" => Kind[r] # "live"

\* A computed row that is not persisted is recorded as an error, except that
\* of an episode, whose result is not looked at: it stays due.
Unpersisted(r) == IF Kind[r] = "episode" THEN rows[r] ELSE Errored(r)

\* _process_row, or _record_error after a failed fetch.
Process(r) ==
    /\ Reached(r)
    /\ hand' = hand \ {r}
    /\ \/ rows' = [rows EXCEPT ![r] = IF frame THEN Computed(r) ELSE Errored(r)] /\ UNCHANGED faults
       \/ Fault /\ frame /\ rows' = [rows EXCEPT ![r] = Unpersisted(r)]
    /\ UNCHANGED <<clock, phase, asof, begun, todo, frame, tried, batches, retention>>

\* The scan follows; what it raises ends the cycle before the outcomes.
Scan ==
    /\ phase = "scheduler" /\ todo = {} /\ hand = {}
    /\ \/ /\ phase' = "signals" /\ asof' = clock /\ todo' \in Listed(clock)
          /\ UNCHANGED <<hand, frame, tried, batches, faults>>
       \/ Fault /\ Idle
    /\ UNCHANGED <<clock, rows, begun, retention>>

\* The signal's candles include the one that is still forming; none is asked for
\* that opens later than the grace after the last horizon.
SignalCandles(r) ==
    {m \in Minutes[SymbolOf[r]] :
        rows[r].anchor <= m /\ m <= Min({asof, rows[r].anchor + SignalHorizon + SignalGrace})}

\* The stored outcome is complete with the price after the last horizon; without
\* candles nothing is stored.
SignalStatus(r) ==
    IF SignalCandles(r) = {} THEN rows[r].status
    ELSE IF \E m \in SignalCandles(r) : m >= rows[r].anchor + SignalHorizon THEN "complete"
    ELSE "incomplete"

\* _update_signal_outcomes, oldest first; a failed fetch ends the whole update.
UpdateSignal(r) ==
    /\ phase = "signals" /\ r \in todo
    /\ \A q \in todo : rows[r].anchor <= rows[q].anchor
    /\ \/ /\ todo' = todo \ {r}
          /\ rows' = [rows EXCEPT ![r].status = SignalStatus(r)]
          /\ UNCHANGED <<phase, asof, hand, frame, tried, batches, faults>>
       \/ Fault /\ Idle /\ UNCHANGED rows
    /\ UNCHANGED <<clock, begun, retention>>

\* Mutant: observations are listed until none is left.
ListObservationsAll ==
    /\ phase \in {"signals", "observations"} /\ todo = {} /\ hand = {}
    /\ LET due == {r \in (Stored \cap Observations) \ tried : DueObservation(r)} IN
       IF due = {} THEN Idle
       ELSE /\ phase' = "observations" /\ batches' = batches + 1
            /\ todo' \in FirstOf(due, Limit) /\ tried' = tried \cup todo'
            /\ UNCHANGED <<asof, hand, frame>>
    /\ UNCHANGED <<clock, rows, begun, retention, faults>>

\* _update_strategy_observation_outcomes lists a batch without the attempted.
ListObservations ==
    /\ phase \in {"signals", "observations"} /\ todo = {} /\ hand = {}
    /\ LET due == {r \in (Stored \cap Observations) \ tried : DueObservation(r)} IN
       IF due = {} \/ batches = MaxBatches THEN Idle
       ELSE /\ phase' = "observations" /\ batches' = batches + 1
            /\ todo' \in FirstOf(due, Limit) /\ tried' = tried \cup todo'
            /\ UNCHANGED <<asof, hand, frame>>
    /\ UNCHANGED <<clock, rows, begun, retention, faults>>

\* One observation: fetched and stored, fetched in vain, or not stored.
UpdateObservation(r) ==
    /\ phase = "observations" /\ r \in todo
    /\ todo' = todo \ {r}
    /\ \/ rows' = [rows EXCEPT ![r] = Observed(r, TRUE)] /\ UNCHANGED faults
       \/ Fault /\ rows' = [rows EXCEPT ![r] = Observed(r, FALSE)]
       \/ Fault /\ UNCHANGED rows
    /\ UNCHANGED <<clock, phase, asof, begun, hand, frame, tried, batches, retention>>

\* The process dies and is started again.
Crash == phase # "idle" /\ Fault /\ Idle /\ UNCHANGED <<clock, rows, begun, retention>>

(***************************************************************************)
(* Retention.                                                              *)
(***************************************************************************)
Of(k) == {r \in Stored : Kind[r] = k}

\* Rows a context statement takes for unfinished.
Unfinished(r) ==
    IF Kind[r] = "observation"
    THEN \/ rows[r].status \in {"new", "incomplete"}
         \/ rows[r].status = "unknown" /\ rows[r].due # None
    ELSE rows[r].status # "MATURE" \/ rows[r].due # None

\* build_retention_context reads the live roots, then one table after the other;
\* later evaluate_database reads a table again and decides its rows, on which
\* the statements about other tables do not bear.
ReadRoots ==
    /\ step = 0 /\ step' = 1
    /\ context' = [context EXCEPT !.roots = Of("live")]
    /\ UNCHANGED <<clock, rows, cycle, archived, faults>>

ReadContext ==
    /\ step = 1 /\ step' = 2
    /\ \E k \in Tables :
          context' = [table |-> k, roots |-> context.roots \cap Of(k),
                      pending |-> {r \in Of(k) : Unfinished(r)},
                      matured |-> {r \in Of(k) \ Observations : ~Unfinished(r)}]
    /\ UNCHANGED <<clock, rows, cycle, archived, faults>>

\* Mutant: a row whose last computation failed counts as terminal.
ErrorTerminalRow(r) ==
    IF Kind[r] = "observation" THEN rows[r].status = "complete"
    ELSE rows[r].status \in {"MATURE", "RETRYABLE_ERROR"} \/ r \in context.matured

\* _terminal, for the tables of outcomes.
TerminalRow(r) ==
    IF Kind[r] = "observation" THEN rows[r].status = "complete"
    ELSE \/ rows[r].status = "MATURE"
         \/ rows[r].status = "DATA_GAP" /\ rows[r].due = None /\ rows[r].labelled
         \/ r \in context.matured

\* evaluate_row; the shipped policy has no hot window and nothing is deletable.
Archivable(r) ==
    /\ r \notin context.roots
    /\ rows[r].status \notin {"incomplete", "PARTIAL", "CENSORED"}
    /\ ~(rows[r].status = "unknown" /\ rows[r].due # None)
    /\ r \notin context.pending
    /\ TerminalRow(r)

EvaluateTable ==
    /\ step = 2 /\ step' = 3
    /\ archived' = {r \in Of(context.table) : Archivable(r)}
    /\ context' = NoContext
    /\ UNCHANGED <<clock, rows, cycle, faults>>

(***************************************************************************)
(* Specification.                                                          *)
(***************************************************************************)
Runtime ==
    \/ Begin \/ Scan \/ ListObservations
    \/ \E s \in {SymbolOf[r] : r \in Rows} : Fetch(s)
    \/ \E r \in Rows : Process(r) \/ UpdateSignal(r) \/ UpdateObservation(r)

Next ==
    \/ Tick \/ Runtime \/ Crash \/ ReadRoots \/ ReadContext \/ EvaluateTable
    \/ ObserveRootDetector \/ Observe
    \/ \E r \in Rows : CreateRoot(r) \/ CreateSignal(r)

Spec == Init /\ [][Next]_vars

\* The clock goes on and the scan loop runs one cycle after the other.
FairSpec == Spec /\ WF_vars(Tick) /\ WF_vars(Runtime)

(***************************************************************************)
(* Properties.                                                             *)
(***************************************************************************)
Row == [anchor : 0..MaxTime, attempts : 0..6, labelled : BOOLEAN, due : Nat \cup {None},
        status : {"CENSORED", "PARTIAL", "MATURE", "DATA_GAP", "RETRYABLE_ERROR",
                  "new", "incomplete", "unknown", "complete"}]

ASSUME NoRowAssumption == None \notin Row

\* Every variable holds a value of its kind (outcome tables, scheduler, tracker).
TypeOK ==
    /\ clock \in 0..MaxTime
    /\ rows \in [Rows -> Row \cup {None}]
    /\ phase \in {"idle", "scheduler", "signals", "observations"}
    /\ asof \in 0..MaxTime \cup {None} /\ begun \in 0..MaxTime \cup {None}
    /\ todo \subseteq Stored /\ hand \subseteq Stored \cap Scheduled /\ frame \in BOOLEAN
    /\ tried \subseteq Observations /\ batches \in 0..MaxBatches
    /\ step \in 0..3
    /\ context \in [table : Tables \cup {None}, roots : SUBSET Rows, pending : SUBSET Rows, matured : SUBSET Rows]
    /\ archived \subseteq Stored
    /\ faults \in 0..MaxFaults

Ended(r) ==
    \/ rows[r].status \in {"MATURE", "DATA_GAP", "complete"}
    \/ rows[r].status = "unknown" /\ rows[r].due = None

\* A row the retention evaluation called archivable is never written again,
\* whatever was created or computed between its statements (evaluate_row).
ArchivedIsFinal == [][\A r \in archived : rows'[r] = rows[r]]_vars

\* The exchange has the candle that ends the row; a scheduled row ends without.
Answerable(r) ==
    LET minutes(first, last) == Minutes[SymbolOf[r]] \cap
                                (rows[r].anchor + first)..(rows[r].anchor + last) IN
    \/ r \in Scheduled \cup Unpriced
    \/ r \in Observations /\ minutes(Coverage, Coverage + 1) # {}
    \/ r \in Signals /\ minutes(SignalHorizon, SignalHorizon + SignalGrace) # {}

\* Time in which a cycle without a fault lists the signals.
Turn == MaxCycle * (MaxFaults + 2)

\* A limit's worth of other signals is of the same time or up to a turn older:
\* they stand before it until it leaves the window.
Crowded(r) ==
    /\ r \in Signals
    /\ Cardinality({q \in (Stored \cap Signals) \ {r} :
            rows[q].anchor \in (rows[r].anchor - Turn + 1)..rows[r].anchor}) >= Limit

\* Every outcome row the exchange has the candle for comes to an end and stays
\* there, through fetch failures, back-off, batches that are too small, rows that
\* are retried for ever beside it, aborted cycles and restarts; only a signal of
\* a crowd may leave the window before its turn (run_cycle of
\* ShadowOutcomeScheduler, update_due_outcomes of OutcomeTracker).
EventuallyEnded == <>[](\A r \in Stored : Answerable(r) /\ ~Crowded(r) => Ended(r))
=============================================================================
