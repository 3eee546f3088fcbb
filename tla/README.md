# short-telegram-bot in TLA+

The program (`app/`) is one asyncio process: it scans the Bybit perpetual
market every cycle, follows pump events per symbol, decides on short signals,
writes them to SQLite and sends them to Telegram. A second task, the fast
monitor, re-evaluates the tracked candidates between scans. What is hard here
is not the arithmetic of the strategies but the order of things: two tasks and
a database, awaits in the middle of every transition, messages whose answer is
lost, leases that run out, and a process that may die at any await. That is
what these modules are about.

## Inventory

| component | state it keeps | operations | hard because |
|---|---|---|---|
| Delivery outbox (`storage/repository.py`, `main.py`) | `telegram_delivery_outbox`, `telegram_sent` flags | `save_signal`, `save_watch_candidate`, `claim_due_deliveries`, `mark_delivery_sent/retry`, `reconcile_delivery_leases`, `_drain_delivery_outbox`, `_send_new_delivery` | two workers, leases, retries, crash between acceptance and record |
| Symbol lanes (`runtime/symbol_mutation.py`) | lane registry, lock, owner, users | `mutation` | lanes are dropped while others wait, cancellation of a woken waiter |
| Signal runtime (`main.py`, `events/`, `baseline/lifecycle.py`) | `event_states`, `signals`, candidate pool | `run_cycle`, `_process_symbol`, `_evaluate_and_send_climax`, `_evaluate_and_send_trapped_longs`, `_run_fast_monitor`, `_track_climax_candidate`, `_finalize_persisted_signal` | detached copies written back whole, row committed before the send and marked after it |
| Shadow attempts (`storage/repository.py`) | roots, attempts, attempt events | upsert, transition, expire, close, reconcile | late transitions of terminal attempts, restart |
| Coverage rotation (`market/coverage.py`, `storage/repository.py`) | rotation, scheduled and scanned symbols | prepare, schedule, record | restart in the middle, changing universe |
| Market data hub (`market_data/hub.py`) | connection epoch, tickers, candles, health | `start`, `stop`, `update_universe`, `_supervise`, `_run_cycle`, handlers | messages of an old epoch, reconnects |
| Continuity and backfill (`market_data/continuity.py`, `backfill.py`) | gaps per symbol | `observe_closed_candle`, `repair` | out-of-order and conflicting candles, repair races the stream |
| Provider, evidence, parity (`market_data/provider.py`) | captured snapshots | `build_scan_snapshot`, `capture_decision_snapshot` | stale hub values |
| Outcome scheduler (`observability/outcome_scheduler.py`) | outcome rows | `run_cycle`, `terminalize_due_horizons` | retries against deadlines |
| Research spool, router, compactor (`research/`) | segments, Parquet, manifests | capture, seal, compact, route | crash between two files, capacity |
| Retention, archive (`research/retention.py`, `archive.py`) | nothing / manifests | `evaluate_row`, export, verify | dependents and deadlines decide deletion |
| Disk capacity, incidents (`infra/disk_capacity.py`) | incident, last event | `record_failure`, `record_success` | one report per incident |
| Instance fence, lifecycle (`runtime/instance_fence.py`, `main.py`) | flock, lifecycle | `acquire`, `startup`, `shutdown` | only the runtime takes the fence, the commands do not |
| Schema and migrations (`storage/migrations.py`, `scripts/migrate_db.py`) | schema, its version | `migrate`, adoption, validation | each DDL statement commits at once, a migration may die between two |
| Strategies, features, formatting | none | pure functions | not concurrency; thresholds on reals |
| Replay, bundles, reports | files | offline commands | deterministic, single-threaded |

Calls and shared state: the scan and the monitor share the event-state table,
the candidate pool and the lane of each symbol (`SignalRuntime`); both write
signals whose delivery goes through the outbox (`DeliveryOutbox`); the lanes
themselves are `SymbolLanes`. Inside the same visits to a lane both write the
shadow attempts (`ShadowAttempts`). What the scan visits in a cycle is decided
by the rotation (`ScanCoverage`), and what it sees of a symbol by the hub
(`MarketFeed`). Every cycle also matures paper outcomes
(`OutcomeMaturation`). All of it writes one SQLite file and one spool on one
disk, beside which an operator compacts, archives, evaluates retention and
migrates (`StorageOperations`, `OutcomeMaturation`). `PROJECT.json` lists every
component with its status, and every hazard with the line where it bites.

## Modules

| module | what it is |
|---|---|
| `AtLeastOnceDelivery` | abstract: a message is queued, accepted any number of times up to its budget, and settled as sent or dead |
| `DeliveryOutbox` | the outbox and its two workers; `MCDeliveryOutbox` instantiates it, `DeliveryOutbox_proofs` holds its theorems |
| `SymbolMutex` | abstract: at most one task inside the transition of a symbol |
| `SymbolLanes` | the lane registry over asyncio locks; `MCSymbolLanes`, `SymbolLanes_proofs` |
| `SignalRuntime` | scan, monitor, event state, pool and signal rows of one symbol; `MCSignalRuntime`, `SignalRuntime_proofs` |
| `ShadowAttempts` | roots, attempts and their history for one symbol; `MCShadowAttempts`, `ShadowAttempts_proofs` |
| `CandleContinuity` | the window of closed candles of one symbol and its gaps: operators, no state of its own |
| `MarketFeed` | supervisor, connections, subscriptions and messages of the hub over `CandleContinuity`, with the provider's eligibility; `MCMarketFeed`, `MarketFeed_proofs` (also about `CandleContinuity`) |
| `OutcomeMaturation` | outcome rows of five kinds, scheduler, tracker and the retention evaluation; `MCOutcomeMaturation`, `OutcomeMaturation_proofs` |
| `ScanCoverage` | rotation, scan cycle, storage modes and the disk incident; `MCScanCoverage`, `ScanCoverage_proofs` |
| `ResearchSpool`, `ArchiveRun`, `SchemaMigration` | the three components of the storage of one machine, each with its own variables and actions |
| `StorageOperations` | their composition: one runtime, one operator, one disk, one database file; `MCStorageOperations`, `StorageOperations_proofs` |

A step is always what the code does between two awaits: one event loop runs
both tasks, and SQLite calls are synchronous. Where another process takes
part (retention, the operator's commands), or a crash between them matters, a
step is one transaction, one statement or one file operation. Mutants (a plausible bug per
property) stand beside the definitions they change, marked "Mutant".

### DeliveryOutbox

`status`, `attempts`, `leaseLeft`, `waitLeft` are the columns of a row; time is
relative to now and moves in minutes (a tick shortens every lease and wait), so
no clock is bounded. `StartCycle`, `DrainWatches` and `ScanMarket` are the drain at
the start of `run_cycle`; `Emit` is `save_signal`/`save_watch_candidate`
followed, without an await, by the claim of the new row; `Accepted` is the
provider taking the message while the answer is still to come; `SendSucceeds`,
`SendFails`, `RecordFails` are the three ends of `_deliver_outbox_item`;
`Crash` and `Startup` are the death of the process and the reconciliation of
leases. `SlowSends` says whether a send may outlive the 120 s lease.

### SymbolLanes

The lock below a lane is an `asyncio.Lock`: releasing it only marks the first
waiter, which takes it when it runs again and may be cancelled until then.
Symbols are canonicalised by `_key`; three spellings are enough to have two
lanes and an alias.

### SignalRuntime

One symbol: state, pool entries and lane are all keyed by it, and the lanes of
different symbols are independent (`SymbolLanes`). `row` is the event-state
row, `records` the signal rows, `w` the detached copy each task works on.
`Select` takes the active states; `ScanFinds` enters the lane, reloads or
detects, and tracks the candidate; `Evaluate`, `Admits` and `Recheck` are
`_evaluate_and_send_climax` between its awaits. `Evaluate` saves the whole
detached copy for a volume-climax candidate (`main.py:1699-1700`, on by
default), for scan and monitor, before the verdict, its check of earlier
signals and every await behind it: a new episode replaces the stored one
there, even if the task is cancelled or raises after it. `Admits` is the
verdict after the reports, and looks at the signal rows of the copy.
Whether the scan met a new event (`New`) is what its reload told it (`chosen`),
not what the row holds meanwhile. `Baseline`, `Zone`, `Decides` are the
rest of `_process_symbol`; `TrapSent` the trapped-longs branch, whose signal
does not mark the state; `SendEnds` is the mark after a send, also through
`_finalize_persisted_signal`; `MarkFails`, `Raises`, `Stop`, `Crash` are what can
go wrong at an await. Prices decide nothing: every verdict of a strategy is a
free choice. A watch only prolongs a visit to the lane (its state is saved
whatever the send does), so watch rows are left out; the attempts that the
evaluation writes beside the state are `ShadowAttempts`. An *episode* is one
detection: an event id is made of the trigger window and its highest candle,
so the same id can be detected twice.

### ShadowAttempts

`roots` and `attempts` are the tables, `log` the append-only history of an
attempt with its idempotency keys, `event` the state the root is taken from,
`plan` what the running evaluation still has to write. An evaluation is three
transactions: `Evaluate*` upserts the root, `Admit` inserts or reuses the
attempt within the limit, `Settle` moves it; `Crash` falls between any two, and
a failed root write still yields a revision (`UpsertsRoot`). `Replaces` and
`Expires` are what a scan does to the attempts of other roots and overdue
ones, `Start` is the reconciliation at startup. Attempts of the trapped-longs
strategy (`a.kind = "trap"`) have a limit of their own and no root row.

### CandleContinuity and MarketFeed

A candle is its minute, a gap the first minute missing and the next one seen.
`Observed` is `observe_closed_candle` with eviction, `Repaired` a backfill, which
observes the candles of the gap one after the other;
`Fits` says which gaps a repair can close within the window. The hub's modes
are the awaits of `_supervise` and `_run_cycle`: opening, subscribing, reading,
closing, backing off. A connection has a generation, an epoch is a connection
and its generation; messages carry it. `Lose` is a connection that fails,
`FallSilent` one that dies without a sign, which only `PongDeadline` ends.
`Repair*` is the backfiller, whose REST call is an await beside all others. Old
values are a flag (`Age`); candle contents, counters and the forming candle
are left out.

### OutcomeMaturation

A row has a status, a due time, an attempt count and, for the tables that have
one, a label; what a price is, is left out, but which candles exist is not
(`Closes`; `Minutes`, of each symbol). The instance has anchors on and off the
candle grid, so that rows mature and rows meet a gap, and a symbol whose
candles end: its rows never get their last price. `Begin`, `Fetch` and
`Process` are the scheduler, `UpdateSignal`, `ListObservations`,
`UpdateObservation` the tracker at the end of the cycle. Candles of a signal
are asked for up to a grace after its last horizon (`SignalCandles`), and the
list of signals is the oldest `Limit` of the `Window`, answered or not
(`Listed`). `ReadRoots`, `ReadContext` and `EvaluateTable` are the SELECTs of
the retention evaluation, between which the runtime goes on.

`EventuallyEnded` is about the rows the exchange has the last candle for
(`Answerable`); of the others the scheduler's end as DATA_GAP, the tracker's
are retried until they leave the window, or for ever, and must not keep the
rest from their end. One case is left out: a signal that has a limit's worth
of others of its own time before it (`Crowded`). Those stand in the list until
they leave the window, and it leaves the window a moment after them. A moment
is the time in which a cycle without a fault comes (`Turn`, from `MaxCycle`, the
bound on the time between two cycles); in the code 200 signals within a few
minutes.

### ScanCoverage

`rotation` is the newest rotation with its frozen universe and the results of
its symbols; `scan` what the running cycle believes. `Plan` is the cycle up to
the choice of its batch; `PlanWithout*` are its three swallowed exceptions, each
of which leaves it with other beliefs; `Record` is the write at the end, `Unrecorded` a cycle
that raised. The storage mode is chosen at every start. `Fill` and `Free` move
the disk; the incident tracker is consulted by the cycle's gate
(`Unhealthy`, `Healthy`), by plans and by observations.

### StorageOperations

`ResearchSpool`: a segment is a name, that of a second (`Plain`) or one with a
suffix, which `append` makes when the segment of the second is full; under a
name there may be a file in `open` and one in `sealed`. `Seals` is `os.replace`:
append seals a full segment within its second, `seal_open_segments` any
segment, that of the current second included, and a sealed file of the same
name is gone (`replaced`; `hasty` are the plain names sealed within their own
second). A file is whole, ends inside a line (`ragged`, after an append that
died), or has such a line within (`broken`): the record written behind a line
without end is no line of its own, and such a file does not load. `acked` are
the records `append` returned for. Appends and seals are calls of the runtime's
one thread (the repository path has no `to_thread`), so they do not
interleave; the compaction is another process, and its steps are one file
operation each: load, hash (the file is read twice, and may be replaced in
between), open, one write per month, manifest, unlink; it may end after any of
them. A segment holds records of one dataset. `ArchiveRun`: a table
is the number of changes its report shows, `hash` stands for the hash of the
main database file; `Stage`, `VerifyTable`, `VerifyFile`, `Publish`, `Complete`
are one table or file each. `SchemaMigration`: the schema is a version, how
many tables exist, and the form of the provenance table; `Rename`, `Create`,
`Copy`, `Bootstrap`, `Stamp` are the statements or transactions of a migration.
`StorageOperations` joins them. The runtime appends, saves and observes; a
transaction (`Commit`) may reach the main file, and so change the hash, or stay
in the WAL. Every guard reads the free space anew (`\E free \in Levels`). The
operator runs one command at a time; no command takes the instance fence, so
the runtime goes on, stops and starts beside them.

Assumed: the clock of the machine does not step back, and a suffix is not drawn
twice; the service manager waits before a restart (`RestartSec=10`); signal ids
are never reused (AUTOINCREMENT); an append that dies after the line is
written counts as acknowledged; bytes of a line that was cut off are not
counted in the budget.

## Runs

| run | shows | bounds, and why they are enough |
|---|---|---|
| `outbox` | budget, exclusive leases, flags, dead-lettering, settled rows, refinement | 3 rows, 2 attempts, batch of 2: a batch with a tail, both workers holding rows, retries and a crash at every await |
| `outbox_slow` | eventual settlement when sends outlive their lease | 2 rows, 3 attempts |
| `outbox_dead` | **violation**, see below | the code's 5 attempts |
| `lanes` | exact registry, refinement of mutual exclusion, admission | 3 tasks (owner, waiter, third), 3 spellings of 2 symbols, 3 lanes |
| `signals` | one signal per episode, identity, marks, pool | 2 event ids, 2 detections, 3 rows, 1 fault: a second episode with the same or another id, a second row of either, and a fault at any await |
| `signals_live` | old candidates leave the pool | 1 event id detected twice, 1 fault |
| `signals_identity` | **violation**, see below | no fault |
| `attempts` | limit of attempts, history agrees with the rows, no attempt without its root, closed attempts stay as they are | 2 roots (one replaces the other), 2 highs (so revisions), lifetimes and clock of 2, 4 pieces of work, 1 crash or failed write anywhere, all three strategies |
| `feed` | eligible values are current, holes are known, a repair closes what it fits, every topic is answered for in the end | 1 or 2 symbols on 2 connections of 2 topics and a universe that does not fit; 2 changes, 1 fault, 1 repair, 5 minutes with one that never comes, a window of 2 |
| `outcomes` | archived rows are final; every row that has its last candle ends, except a signal in a crowd | any 2 of 10 rows of 5 kinds: of 3 signals in a list of 1, with a window of 4 of the 8 minutes, so that one stands before the other and signals do leave the window unanswered; of 3 observations in batches of 1, one of them retried for ever; 2 horizons, 1 fault anywhere in the first 4 minutes |
| `scan` | a completed rotation covered its universe, no symbol is starved, the incident follows the disk | 3 symbols in batches of 1 (a rotation takes 3 cycles), 2 moves of the market, 3 faults, the 2 spool modes |
| `operations` | what a segment loses is what was replaced within its second or written behind a torn line, an archive is one state of the database, provenance stays in sight | 2 seconds, 1 rollover, 2 months, 2 tables; 3 writes, 2 commands, 1 end of the runtime: a command that dies, and another after it; segments sealed, rolled and replaced at any step of a compaction |

Fairness: sends and requests have timeouts, so awaits end (WF); the scan and
the monitor loop for ever (WF); an `asyncio.Lock` is first come first served, which
justifies SF for entering a lane; systemd restarts the service
(`Restart=always`). In `MarketFeed` the supervisor is a loop
whose awaits have timeouts (WF of `Supervises`) and the exchange answers
requests (WF of `Ack`); market data and repairs are not fair. In
`OutcomeMaturation` the clock goes on and cycle follows cycle (WF of `Tick` and
of `Runtime`); the last value of the clock stands for all later times, since no
candle, horizon or back-off lies beyond it. In `ScanCoverage` systemd starts
the process and `run_forever` runs cycle after cycle (WF of `Start` and of
`Cycle`, which has only the outcomes without a fault). Crashes, failures and
cancellations are never fair; where they would make the state space infinite
they are bounded by `MaxFaults`, and liveness is about what follows the last of them.

No mode or command of a run is symmetric to another; the only symmetry used is
that of the two roots of `attempts`, which checks no liveness.

## What the runs disagree with

* `outbox_dead`: `docs/DELIVERY.md:39` says workers lease, *attempt delivery*,
  record provider results and mark terminal failures DEAD. Attempts are
  counted for a whole batch when it is claimed, so a row at its tail can be
  DEAD without one attempt to send it.
* `signals_identity`: `docs/architecture/current-trading-contract.md:52` says
  persisted signal identity is unique, BASELINE included. The constraint has a
  NULL column there and BASELINE asks no `has_signal_for_event`: an event that
  expires and is detected again gets a second row with the same identity.

Seen while modelling, without a run: `runtime-recovery-contract.md:29` says
startup drains due deliveries before the fast monitor starts, but `startup()`
only reconciles leases. With sends longer than a lease, a late
`mark_delivery_retry` can reopen a SENT row (`SettledIsFinal` is checked, and
proved, for sends that end within it). The fast monitor loads the event state
without the active predicate, so an EXPIRED event with a young candidate can
still be signalled.

### Observations on shadow attempts

* The root of a trapped-longs attempt is never written, so startup reports
  every such attempt as an orphan.
* `attempt_reused_after_restart` is logged without any restart, when an
  attempt is met again in the same process (`main.py:1784-1798`).
* An attempt that became SHADOW_ACTIONABLE and was not closed because of a
  crash is later rewritten to EXPIRED or ROOT_REPLACED; a trapped-longs attempt
  that expired can become actionable again. `TerminalIsFinal` says what is
  left: closed attempts, and terminal ones of the other strategies.
* Attempts of older revisions stay open after a restart.

### Observations on market data

* The back-off index goes back to the first delay only when the universe changes;
  `attempt = 0` after `_run_cycle` is not reached when a connection fails.
* One stale symbol makes the whole hub STALE, so the provider's reason
  HUB_STALE is not reached. A server that never answers a subscription leaves
  its topics pending without any timeout.
* The runtime wires no backfiller, only `scripts/run_marketdata_parity.py` does.
  A gap whose neighbours were evicted cannot be closed by a repair (`Fits`).
  A repair that fails sets DEGRADED although the stream closed the gap
  meanwhile, and DEGRADED and BACKFILLING pass the provider's check: this is
  why `EligibleIsCurrent` excludes unknown holes and not all holes.
* A universe that needs too many connections raises after `_symbols` was
  assigned. A change during a back-off causes one reconnect more.

### Observations on outcomes

* DATA_GAP ends a row for good: `data_gap_retry_minutes` (`config.py:142`) and
  its branch (`outcome_scheduler.py:146`) are dead, as
  `tests/test_live_root_outcome_scheduler.py:60` asserts. A row whose anchor is off the
  five-minute grid mostly ends that way at its first horizon.
* The back-off of live and V2 rows is constant: the key it is read from is
  only in episode rows.
* More than a limit of signals within the window keeps the newer ones waiting
  until the older leave it, answered or not; of a crowd of one time some leave
  the window unanswered. One failed signal request ends that cycle's
  observations.
* A signal without a candle between its last horizon and five minutes after
  it is asked for in every cycle until it leaves the window. An observation
  whose one-minute candles at and after its target are missing, but not all
  earlier ones, is retried every minute, for ever.
* Retention never calls a `current_root_outcomes` row archivable, since
  `climax_root_events.invalidated_at` is never set, and `evaluate_database`
  never returns DELETE_ELIGIBLE. Its context is several SELECTs, not one
  snapshot; `ArchivedIsFinal` shows that this does no harm to outcome rows.

### Observations on scan and disk

* In SPOOL_CANONICAL mode the results of a cycle are not stored in SQLite, so the
  rotation never advances and only the first batch and what the shortlist
  prefers are scanned. The docstring at `market/coverage.py:71` speaks of an
  uncovered batch in every mode; `EverySymbolScheduled` therefore excludes it.
* Reject statistics are always refused by the spool: their key `timeframe`
  contains the forbidden part `frame` (`research/spool.py:46-62`).
* The coverage ledger marks an eligible symbol that was not scheduled in a
  cycle as scanned with status SCAN_SKIPPED.
* A full disk met inside the two swallowing transactions opens no incident; the
  next one outside them does. An incident is known to its process only.

### Observations on spool, archive and migration

* A record whose append had returned after `fsync` can be lost: a segment that is
  full within its second is sealed (`spool.py:249`), the record goes to a name
  of its own, and the next one opens the plain name again (`spool.py:246`).
  When that file is sealed too, `os.replace` (`spool.py:274`) puts it over the
  first. It takes two full segments (`SEGMENT_TARGET_BYTES`, 1 to 16 MiB) in
  one second, or a seal of the current second and an append after it.
  `SpoolKeepsRecords` says that no other segment loses a record.
* `seal_open_segments` has no caller in the runtime: the spool fills up to its
  budget and pauses until somebody seals; only a rollover does. A torn segment,
  or one whose compaction died between Parquet and manifest, stops the
  compaction of all later ones; `quarantine_failed` has no caller. A record
  appended behind a line that was cut off in the same second is glued to it:
  its append returns, but no reader finds it. If a segment is replaced between
  the two reads of a compaction, the rows of the first file are written under
  the hash of the second, and the second is unlinked. The row count of a compaction
  is verified after its manifest is published.
* The digest of an archived table is over its primary keys: an update of text
  alone is not seen. The name of a run is made of the main file without its WAL, so
  a run after a half-published one may refuse to overwrite until a checkpoint.
* `docs/architecture/database-migrations.md` speaks of one SQLite migration
  transaction. The driver opens one at the first INSERT only, each DDL statement
  before commits at once. A migration that dies between renaming and copying
  the provenance table leaves the split for good: a rerun finds the new table
  in place and skips the copy, its validation then fails. No row is lost and no
  runtime starts on it (`ProvenanceInSight`), but only a restore of the backup
  helps; that backup copies the main file without its WAL and is not validated.
* `validate_schema` does not look at CHECK constraints: the runtime starts with the
  old one.

## Proofs

TLAPS proves, for every value of the constants, every safety invariant and
every action property that a passing run checks, and both refinements. Each
proof module states the inductive invariant at its top.

* `DeliveryOutbox_proofs`: `TypeOK`, `AttemptBudget`, `DeadOnlyExhausted`,
  `WatchBudget` (for any sends), and, when sends end within their lease,
  `ExclusiveLease`, `SentFlagMatches`, `SettledIsFinal` and the refinement of
  `AtLeastOnceDelivery`. The inductive invariant adds what the runs do not
  state: which rows a batch may hold in which phase, and that acceptances and
  claims in hand together never exceed the attempts counted. For the watches
  it counts both those sent and those the scan still holds: a claim takes only
  what the budget has left, and the monitor claims signals only.
* `SymbolLanes_proofs`: `TypeOK`, `RegistryMatchesUse`, and the refinement of
  `SymbolMutex`. The inductive invariant says who is queued on which lane, that
  a lock is taken exactly while a task is inside, and that users are counted by
  the tasks that refer to the lane.
* `SignalRuntime_proofs`: every safety property the `signals` run checks. No
  property is inductive alone: that an event is not signalled twice needs that
  the copy a task holds says what the rows say of its episode
  (`CopyMatches`), which needs that nobody else was sending when the copy was
  read (`RowMatches`), which needs the mark of the previous send; and a signal
  that waited for its recheck may be inserted because what
  `has_signal_for_event` said still holds (`StillUnsignalled`). The copy may be
  saved at any moment inside the lane, that inside the climax evaluation
  included, because it bears the mark its rows call for. The actions are
  reduced to the few shapes a step inside the lane can have, and the invariant
  is proved per shape.
* `ShadowAttempts_proofs`: `TypeOK`, `LimitHolds`, `LogTellsState`,
  `RootBeforeAttempt`, `TerminalIsFinal`. Every step changes an attempt and its
  log in one of four ways (`Changed`): a mark in the log, creation, a move
  while open, the closing. While a row is open, its log holds no closing and
  only state entries with fresh keys, so that the unique key does not drop the
  entry that closes it (`Tells`). The limit needs that a refusal finds it reached and that it then
  stays reached (`CountsOK`). What an evaluation carries from one of its
  transactions to the next is `PendingOK`.
* `MarketFeed_proofs`: `TypeOK`, `HolesAreKnown`, `EligibleIsCurrent`,
  `RepairClosesWhatFits`. The trackers: an arriving candle splits, opens or
  closes gaps, an eviction takes candles from the old end only, so a hole stays
  inside an active gap, and a tracker that says CONTIGUOUS has none
  (`TrackerOK`). The connections: a ticker whose connection is open in this
  cycle is all of this connection (`TickersOK`), and answers are there only
  while the connections of the plan are open (`CycleOK`). For a repair, an
  invariant of its run says which candles are in the window after each one it
  adds; the gap is closed exactly when none it needs is evicted before the last.
* `OutcomeMaturation_proofs`: `TypeOK`, `ArchivedIsFinal`. A row that ended is
  not due, so no later list has it (`Final`, `MatureIsFinal`); but a cycle
  works on what it listed before, and two lists of one row could meet. The
  invariant therefore says that nothing a cycle still has in its hands has
  ended (`CycleOK`), and that what the evaluation remembers from its earlier
  SELECT has (`RetentionOK`).
* `ScanCoverage_proofs`: `TypeOK`, `CompletedCoversItsUniverse`, and
  `BatchIsFull`. A rotation is closed by what its results say, and results come
  from any cycle, also one that was planned without the rotation. The invariant
  says of each result whose it is and which of the rotation's symbols it is
  about (`ResultsOK`). `BatchIsFull` is about the operator `SelectBatch`: a
  batch is part of what waits and is full or takes all of it, which is why a
  rotation that is recorded advances; that it ends is liveness and stays with
  TLC (`EverySymbolScheduled`).
* `StorageOperations_proofs`: `SpoolKeepsRecords`, `ArchiveIsSnapshot`,
  `ProvenanceInSight`, and the type invariant, which no run states. The parts
  share the enabling of their actions only, so each has an invariant of its own. Spool:
  a name that was not sealed within its own second is sealed once, and nothing
  is appended to it after that (`SegmentsOK`), so that a segment is replaced only
  if it is `hasty`. The segment a compaction is at has the rows that were
  loaded, unless it was replaced, and a manifest is written only when each of
  these rows is in an output named after the hashed content (`JobOK`). Archive: once all tables
  are staged there is one state of the source, in its history, between what
  was staged and what the source holds now; a table that was compared is equal
  in it (`SnapshotOK`), so that after the last comparison all are. Migration:
  rows lie in the renamed table only while it exists, and the statement that
  comes next finds the form of the table it expects (`SchemaInv`).

The assumptions are the named ones on the constants (`RuntimeAssumption` and
its like): bounds are naturals, sets that are counted are finite, `None` is none
of the values it stands beside. TLC evaluates all of them. A lemma stands where
it is needed; two proof modules state `LeastNumber`, since they extend no
common module.

Only model-checked is liveness: `EventuallySettled`, `EventuallyAdmitted`,
`CandidatesLeave`, `EventuallySubscribed`, `EventuallyEnded`,
`EverySymbolScheduled`, `IncidentTracksDisk`. All need fairness, and so
ENABLED, which the prover does not handle. The two disagreements above are
counterexamples of TLC.

## Plan

The model is complete as far as it is planned, and what the prover reaches of
the properties is proved. What is left is the safety part of liveness, in the
manner of `BatchIsFull`: that a fair step which is taken lowers a bound (an
attempt counted in the outbox, a symbol waiting in a rotation, a topic not
answered for), as a step theorem beside the property TLC checks.

## Not modelled

* Strategy arithmetic (features, engine, climax, trapped longs, scoring):
  real-valued thresholds over candles. The runs take every verdict as possible.
* Delivery policy, formatting, configuration, logging, reports and the delivery
  funnel audit: pure functions or read-only counts.
* The scanner's HTTP requests, the WebSocket library and the parsing of
  messages: their outcomes are choices of the modules that use them.
* Request scheduling, rate limits, caches and throttling: each is a few lines
  over a library primitive. Evidence and parity records of the provider have no influence
  on what it takes.
* The instance fence is a kernel `flock`: `StorageOperations` has at most one
  runtime because of it. How a half-finished start is unwound is left out.
* The records of class D and their terminal states, which no caller writes.
* Offline replay and bundles: deterministic, single-threaded.
