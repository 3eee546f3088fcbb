----------------------------- MODULE MarketFeed -----------------------------
(***************************************************************************)
(* app/market_data: the WebSocket hub (hub.py), the continuity of closed   *)
(* candles it feeds (continuity.py) and what the provider takes from both  *)
(* (provider.py), as app/main.py wires them.                               *)
(*                                                                         *)
(* The supervisor opens a connection per group of topics, subscribes,      *)
(* reads, and starts anew when a connection fails or the universe changes; *)
(* every await is a step boundary.  Values, time stamps and counters are   *)
(* left out; that a value is old enough to be stale is a flag.             *)
(***************************************************************************)
EXTENDS CandleContinuity

CONSTANTS Universes,      \* the sets of symbols the scanner may publish
          Feeds,          \* bound: the symbols market data arrives for
          Streamed,       \* bound: the minutes whose closed candle the stream has
          Budget,         \* topics that fit a connection
          Requests,       \* topics that fit a subscribe request
          MaxConnections, \* max_connections
          MaxAttempt,     \* the last index of _BACKOFF_SECONDS
          MaxChanges,     \* bound: changes of the universe
          MaxFaults,      \* bound: connections that fail or fall silent
          MaxRepairs,     \* bound: repairs of a gap
          None

Symbols == UNION Universes
Kinds   == {"kline", "ticker"}
Topics  == Kinds \X Symbols
Shards  == 0..(MaxConnections - 1)

ASSUME FeedAssumption ==
    /\ Universes \subseteq SUBSET Nat /\ \A U \in Universes : IsFiniteSet(U)
    /\ Feeds \subseteq Symbols /\ Streamed \subseteq Minutes
    /\ Budget \in Nat \ {0} /\ Requests \in 1..Budget
    /\ MaxConnections \in Nat \ {0} /\ MaxAttempt \in Nat
    /\ MaxChanges \in Nat /\ MaxFaults \in Nat /\ MaxRepairs \in Nat
    /\ None \notin Nat

VARIABLES
    universe,  \* _symbols
    changed,   \* _universe_changed
    mode,      \* where _supervise is, or that it does not run
    planned,   \* the universe the cycle was planned for
    opened,    \* connections the cycle has opened
    sent,      \* the requests it has registered and sent
    silent,    \* the shards whose connection has died unnoticed
    attempt,   \* index of the next back-off
    generation,\* _generation_by_shard
    expected, acknowledged, failed, pending, \* subscriptions; pending by request
    health,    \* _health.state
    snapshots, \* _snapshots: the tickers held
    tracker,   \* GapTracker, by symbol
    repair,    \* the repair that waits for REST: its symbol, gap and try
    changes, faults, repairs

hub == <<universe, changed, mode, planned, opened, sent, silent, attempt, generation>>
subscriptions == <<expected, acknowledged, failed, pending>>
data == <<snapshots, tracker>>
mending == <<repair, repairs>>
vars == <<hub, subscriptions, health, data, mending, changes, faults>>

-----------------------------------------------------------------------------
\* plan_topics: the topics in order, as many to a connection as fit.
Position(U, topic) ==
    Cardinality({s \in U : s < topic[2]}) + IF topic[1] = "kline" THEN 0 ELSE Cardinality(U)

TopicsOf(U) == Kinds \X U

Connections(U) == (2 * Cardinality(U) + Budget - 1) \div Budget

Feasible(U) == Connections(U) <= MaxConnections

ShardOf(U, topic) == Position(U, topic) \div Budget

BatchOf(U, topic) ==
    {t \in TopicsOf(U) :
        /\ ShardOf(U, t) = ShardOf(U, topic)
        /\ (Position(U, t) % Budget) \div Requests
               = (Position(U, topic) % Budget) \div Requests}

Batches(U) == {BatchOf(U, t) : t \in TopicsOf(U)}

Epoch(topic) ==
    LET shard == ShardOf(planned, topic) IN [shard |-> shard, gen |-> generation[shard]]

-----------------------------------------------------------------------------
Init ==
    /\ universe = {} /\ changed = FALSE /\ mode = "new"
    /\ planned = {} /\ opened = 0 /\ sent = {} /\ silent = {} /\ attempt = 0
    /\ generation = [k \in Shards |-> 0]
    /\ expected = {} /\ acknowledged = {} /\ failed = {} /\ pending = {}
    /\ health = "STOPPED"
    /\ snapshots = [s \in Feeds |-> None]
    /\ tracker = [s \in Feeds |-> NewTracker]
    /\ repair = None
    /\ changes = 0 /\ faults = 0 /\ repairs = 0

\* The process is shutting down: nothing else is asked of the hub.
Ended == mode \in {"stopping", "stopped"}

\* The except branch of _supervise: the requests without an answer have failed.
Fails ==
    /\ mode' = "backoff" /\ health' = "RECONNECTING"
    /\ failed' = failed \cup UNION pending
    /\ pending' = {}

\* The next turn of _supervise, with this back-off index.
Begins(index) ==
    /\ attempt' = index
    /\ \/ /\ universe = {}
          /\ mode' = "waiting" /\ health' = "DISCONNECTED"
          /\ UNCHANGED <<planned, opened, sent, subscriptions>>
       \/ /\ universe # {} /\ ~Feasible(universe)
          /\ Fails
          /\ UNCHANGED <<planned, opened, sent, expected, acknowledged>>
       \/ /\ universe # {} /\ Feasible(universe)
          /\ mode' = "starting"
          /\ health' = IF index = 0 THEN "CONNECTING" ELSE "RECONNECTING"
          /\ planned' = universe /\ opened' = 0 /\ sent' = {}
          /\ expected' = TopicsOf(universe)
          /\ acknowledged' = {} /\ failed' = {} /\ pending' = {}

Start ==
    /\ mode = "new"
    /\ changed' = FALSE
    /\ Begins(attempt)
    /\ UNCHANGED <<universe, silent, generation, data, mending, changes, faults>>

\* update_universe, from the scan, when the symbols differ.  A universe that
\* needs too many connections raises half-way.
Publish(U) ==
    /\ ~Ended /\ changes < MaxChanges /\ U # universe
    /\ changes' = changes + 1
    /\ universe' = U
    /\ snapshots' = [s \in Feeds |-> IF s \in U THEN snapshots[s] ELSE None]
    /\ IF Feasible(U)
       THEN /\ expected' = TopicsOf(U)
            /\ acknowledged' = {} /\ failed' = {} /\ pending' = {}
            /\ changed' = TRUE
       ELSE UNCHANGED <<subscriptions, changed>>
    /\ UNCHANGED <<mode, planned, opened, sent, silent, attempt, generation,
                   health, tracker, mending, faults>>

\* The wait for a universe ends.
Wake ==
    /\ mode = "waiting" /\ changed
    /\ changed' = FALSE
    /\ Begins(attempt)
    /\ UNCHANGED <<universe, silent, generation, data, mending, changes, faults>>

\* Mutant: the tickers of the last connection are kept.
OpensOver(shard) == UNCHANGED snapshots

\* _invalidate_tickers_for_topics.
Opens(shard) ==
    snapshots' = [s \in Feeds |->
        IF s \in planned /\ ShardOf(planned, <<"ticker", s>>) = shard THEN None ELSE snapshots[s]]

\* _run_cycle: the next connection is open.
Open ==
    /\ mode = "starting" /\ opened < Connections(planned)
    /\ generation' = [generation EXCEPT ![opened] = @ + 1]
    /\ Opens(opened)
    /\ opened' = opened + 1
    /\ silent' = {}
    /\ UNCHANGED <<universe, changed, mode, planned, sent, attempt, subscriptions,
                   health, tracker, mending, changes, faults>>

\* ... and when all are, the next subscribe request is sent.
Subscribe ==
    /\ mode = "starting" /\ opened = Connections(planned)
    /\ \E batch \in Batches(planned) \ sent :
          /\ sent' = sent \cup {batch}
          /\ pending' = pending \cup {batch}
          /\ expected' = expected \cup batch
    /\ UNCHANGED <<universe, changed, mode, planned, opened, silent, attempt, generation,
                   acknowledged, failed, health, data, mending, changes, faults>>

\* _UniverseChanged.
SeesChange == mode' = "closing" /\ attempt' = 0 /\ changed' = FALSE

\* After the last request the messages are read; a change is seen first.
Read ==
    /\ mode = "starting" /\ opened = Connections(planned) /\ sent = Batches(planned)
    /\ IF changed THEN SeesChange ELSE mode' = "running" /\ UNCHANGED <<attempt, changed>>
    /\ UNCHANGED <<universe, planned, opened, sent, silent, generation, subscriptions,
                   health, data, mending, changes, faults>>

\* The event wakes the reader; a message that had come by then goes first.
ChangeSeen ==
    /\ mode = "running" /\ changed
    /\ SeesChange
    /\ UNCHANGED <<universe, planned, opened, sent, silent, generation, subscriptions,
                   health, data, mending, changes, faults>>

\* _close_all has closed the connections.
Close ==
    /\ mode = "closing"
    /\ Begins(attempt)
    /\ UNCHANGED <<universe, changed, silent, generation, data, mending, changes, faults>>

\* A connection or a send fails.
Lose ==
    /\ mode \in {"starting", "running"} /\ faults < MaxFaults
    /\ faults' = faults + 1
    /\ Fails
    /\ UNCHANGED <<universe, changed, planned, opened, sent, silent, attempt, generation,
                   expected, acknowledged, data, mending, changes>>

\* A connection dies and nothing says so.
FallSilent ==
    /\ mode = "running" /\ faults < MaxFaults
    /\ faults' = faults + 1
    /\ \E shard \in 0..(opened - 1) : silent' = silent \cup {shard}
    /\ UNCHANGED <<universe, changed, mode, planned, opened, sent, attempt, generation,
                   subscriptions, health, data, mending, changes>>

\* Mutant: a pong of any connection will do.
OverdueAll == silent = 0..(opened - 1)

\* Some ping has gone unanswered for pong_deadline.
Overdue == silent # {}

\* The deadline of a pong is the only sign of a connection that fell silent.
PongDeadline ==
    /\ mode = "running" /\ Overdue
    /\ Fails
    /\ UNCHANGED <<universe, changed, planned, opened, sent, silent, attempt, generation,
                   expected, acknowledged, data, mending, changes, faults>>

\* Mutant: the index runs off the delays and the supervisor dies of it.
BackedOffPast ==
    /\ attempt' = attempt + 1
    /\ mode' = IF attempt >= MaxAttempt THEN "stopped" ELSE "closing"

\* The delay is over.
BackedOff ==
    /\ attempt' = IF attempt < MaxAttempt THEN attempt + 1 ELSE attempt
    /\ mode' = "closing"

Backoff ==
    /\ mode = "backoff"
    /\ BackedOff
    /\ UNCHANGED <<universe, changed, planned, opened, sent, silent, generation,
                   subscriptions, health, data, mending, changes, faults>>

-----------------------------------------------------------------------------
\* _handle_message: a message arrives on the connection of a topic.
Receives(topic) ==
    /\ mode = "running"
    /\ topic \in TopicsOf(planned) /\ ShardOf(planned, topic) \notin silent
    /\ health' = "HEALTHY"
    /\ UNCHANGED <<hub, mending, changes, faults>>

Rejects(batch) == failed' = failed \cup batch

\* _handle_ack: the answer to a request that is still pending.
Ack ==
    \E batch \in sent :
        /\ \A topic \in batch : Receives(topic)
        /\ batch \in pending /\ pending' = pending \ {batch}
        /\ \/ acknowledged' = acknowledged \cup batch /\ failed' = failed \ batch
           \/ Rejects(batch) /\ UNCHANGED acknowledged
        /\ UNCHANGED <<expected, data>>

\* A pong, a forming candle, an answer nobody waits for, a symbol not wanted.
OtherMessage ==
    /\ \E topic \in TopicsOf(planned) : Receives(topic)
    /\ UNCHANGED <<subscriptions, data>>

\* _handle_ticker, a snapshot: base is the connection its fields come from.
TickerSnapshot(s) ==
    LET topic == <<"ticker", s>> IN
    /\ Receives(topic) /\ s \in universe
    /\ snapshots' = [snapshots EXCEPT ![s] =
           [epoch |-> Epoch(topic), base |-> Epoch(topic), fresh |-> TRUE]]
    /\ UNCHANGED <<subscriptions, tracker>>

\* A delta is merged into what is held; without anything held it is dropped.
TickerDelta(s) ==
    LET topic == <<"ticker", s>> IN
    /\ Receives(topic) /\ s \in universe
    /\ snapshots[s] # None
    /\ snapshots' = [snapshots EXCEPT ![s].epoch = Epoch(topic), ![s].fresh = TRUE]
    /\ UNCHANGED <<subscriptions, tracker>>

\* _handle_kline: a closed candle, for whichever minute.
ClosedCandle(s, minute) ==
    LET topic == <<"kline", s>> IN
    /\ Receives(topic) /\ s \in universe
    /\ tracker' = [tracker EXCEPT ![s] = Observed(@, minute)]
    /\ UNCHANGED <<subscriptions, snapshots>>

\* Nothing has come for a ticker for stale_after.
Age(s) ==
    /\ ~Ended
    /\ snapshots[s] # None /\ snapshots[s].fresh
    /\ snapshots' = [snapshots EXCEPT ![s].fresh = FALSE]
    /\ UNCHANGED <<hub, subscriptions, health, tracker, mending, changes, faults>>

-----------------------------------------------------------------------------
Marks(s, state) == tracker' = [tracker EXCEPT ![s].state = state]

\* repair, of a gap that is active: too long, or REST is asked.
Repair(s) ==
    /\ repair = None /\ repairs < MaxRepairs
    /\ repairs' = repairs + 1
    /\ \E g \in tracker[s].active :
          IF Cardinality(Missing(g)) > MaxRepair
          THEN Marks(s, "DEGRADED") /\ UNCHANGED repair
          ELSE Marks(s, "BACKFILLING") /\ repair' = [symbol |-> s, gap |-> g, try |-> 1]
    /\ UNCHANGED <<hub, subscriptions, health, snapshots, changes, faults>>

\* Every candle of the gap has come, and the stream went on meanwhile.
RepairSucceeds ==
    /\ repair # None
    /\ repair' = None
    /\ tracker' = [tracker EXCEPT ![repair.symbol] = Repaired(@, repair.gap)]
    /\ UNCHANGED <<hub, subscriptions, health, snapshots, repairs, changes, faults>>

\* Not all of them have: REST is asked again, three times in all.
RepairRetries ==
    /\ repair # None /\ repair.try < 3
    /\ repair' = [repair EXCEPT !.try = @ + 1]
    /\ UNCHANGED <<hub, subscriptions, health, data, repairs, changes, faults>>

\* mark_backfill_failure: REST failed, its rows are not the gap's or from after
\* the decision, or they are still not there.
RepairFails ==
    /\ repair # None
    /\ Marks(repair.symbol, "DEGRADED") /\ repair' = None
    /\ UNCHANGED <<hub, subscriptions, health, snapshots, repairs, changes, faults>>

Repairs ==
    /\ ~Ended
    /\ (\E s \in Feeds : Repair(s)) \/ RepairSucceeds \/ RepairRetries \/ RepairFails

-----------------------------------------------------------------------------
\* stop: the supervisor is cancelled at whichever await, then all is closed.
Stop ==
    /\ ~Ended /\ mode # "new"
    /\ mode' = "stopping" /\ changed' = TRUE
    /\ UNCHANGED <<universe, planned, opened, sent, silent, attempt, generation,
                   subscriptions, health, data, mending, changes, faults>>

Stopped ==
    /\ mode = "stopping"
    /\ mode' = "stopped" /\ health' = "STOPPED"
    /\ UNCHANGED <<universe, changed, planned, opened, sent, silent, attempt, generation,
                   subscriptions, data, mending, changes, faults>>

Supervises == Start \/ Wake \/ Open \/ Subscribe \/ Read \/ ChangeSeen \/ Close
                 \/ PongDeadline \/ Backoff

Market ==
    \/ OtherMessage
    \/ \E s \in Feeds : TickerSnapshot(s) \/ TickerDelta(s)
    \/ \E s \in Feeds, minute \in Streamed : ClosedCandle(s, minute)
    \/ \E s \in Feeds : Age(s)

Next ==
    \/ Supervises \/ Ack \/ Market \/ Repairs
    \/ \E U \in Universes : Publish(U)
    \/ Lose \/ FallSilent \/ Stop \/ Stopped

Spec == Init /\ [][Next]_vars

\* asyncio runs what is ready, an await ends, the exchange answers a request.
FairSpec == Spec /\ WF_vars(Supervises) /\ WF_vars(Ack)
-----------------------------------------------------------------------------
\* get_health: one stale symbol makes the whole hub stale.
Healthy ==
    /\ health = "HEALTHY"
    /\ \A s \in Feeds : snapshots[s] # None => snapshots[s].fresh

\* is_current_connection_epoch.
Current(epoch) == generation[epoch.shard] = epoch.gen

\* _eligible_hub_snapshot: the provider may take the ticker of s from the hub,
\* if its fields are all there and none is of the future.
Eligible(s) ==
    /\ Healthy
    /\ <<"ticker", s>> \in acknowledged
    /\ snapshots[s] # None /\ Current(snapshots[s].epoch)
    /\ tracker[s].state \notin {"UNINITIALIZED", "GAP_DETECTED"}
    /\ snapshots[s].fresh

Epochs == [shard : Shards, gen : Nat]

\* Every variable has its type.
TypeOK ==
    /\ universe \in Universes \cup {{}} /\ planned \in Universes \cup {{}}
    /\ changed \in BOOLEAN
    /\ mode \in {"new", "waiting", "starting", "running", "backoff", "closing",
                 "stopping", "stopped"}
    /\ opened \in 0..MaxConnections /\ silent \subseteq Shards
    /\ attempt \in 0..MaxAttempt
    /\ generation \in [Shards -> Nat]
    /\ expected \subseteq Topics /\ acknowledged \subseteq Topics /\ failed \subseteq Topics
    /\ sent \subseteq SUBSET Topics /\ pending \subseteq sent
    /\ health \in {"STOPPED", "CONNECTING", "RECONNECTING", "HEALTHY", "DISCONNECTED"}
    /\ snapshots \in [Feeds -> [epoch : Epochs, base : Epochs, fresh : BOOLEAN] \cup {None}]
    /\ tracker \in [Feeds -> Trackers]
    /\ repair \in [symbol : Feeds, gap : Gaps, try : 1..3] \cup {None}
    /\ repairs \in 0..MaxRepairs /\ changes \in 0..MaxChanges /\ faults \in 0..MaxFaults

\* What the provider takes from the hub is of one connection, the one that
\* carries the symbol's ticker now: no field is older than it, whatever
\* reconnects and changes of the universe came before, and the closed candles
\* behind it have no hole unless a repair was tried.
EligibleIsCurrent ==
    \A s \in Feeds : Eligible(s) =>
        /\ mode \in {"running", "stopping"} /\ s \in planned
        /\ snapshots[s].base = snapshots[s].epoch
        /\ snapshots[s].epoch = Epoch(<<"ticker", s>>)
        /\ \/ Holes(tracker[s].candles) = {}
           \/ tracker[s].state \in {"BACKFILLING", "DEGRADED"}

\* Every hole between the candles held is inside a gap that is still active,
\* however late or often candles come and whichever were evicted.
HolesAreKnown ==
    \A s \in Feeds : \A h \in Holes(tracker[s].candles) :
        \E g \in tracker[s].active : Contains(g, h)

\* A repair that gets its candles while the stream adds, evicts and closes
\* closes the gap, exactly when the window has room for it.
RepairClosesWhatFits ==
    repair # None /\ repair.gap \in tracker[repair.symbol].active =>
        LET t == tracker[repair.symbol]
        IN Fits(t, repair.gap) <=> repair.gap \notin Repaired(t, repair.gap).active

Settled ==
    \/ Ended
    \/ ~Feasible(universe)
    \/ universe = {} /\ mode = "waiting"
    \/ /\ mode = "running" /\ planned = universe
       /\ TopicsOf(universe) = acknowledged \cup failed

\* After whatever reconnects, silent connections and changes, every topic of a
\* universe that fits is answered for, and the hub rests there.
EventuallySubscribed == <>[]Settled
=============================================================================
