--------------------------- MODULE DeliveryOutbox ---------------------------
(***************************************************************************)
(* The durable Telegram outbox: app/storage/repository.py (save_signal,    *)
(* save_watch_candidate, claim_due_deliveries, reconcile_delivery_leases,  *)
(* mark_delivery_sent, mark_delivery_retry) and its two users in           *)
(* app/main.py, the full scan (drain at the start of a cycle, then         *)
(* immediate sends) and the fast monitor (immediate sends).                *)
(*                                                                         *)
(* Both workers are coroutines of one event loop, so every piece of code   *)
(* between two awaits is one step.  The only await of interest is          *)
(* notifier.send_signal: while it is pending the other worker runs, time   *)
(* passes, and the process may die.                                        *)
(*                                                                         *)
(* Time is counted in minutes and stored relative to now: leaseLeft[i] is  *)
(* lease_until - now and waitLeft[i] is next_attempt_at - now, both cut    *)
(* off at 0, so no clock variable is needed.                               *)
(***************************************************************************)
EXTENDS Naturals, FiniteSets

CONSTANTS Items,        \* outbox row ids, in order of insertion
          MaxAttempts,  \* 5 in the code
          Lease,        \* lease_seconds = 120: two ticks
          RetryDelay,   \* timedelta(minutes=1): one tick
          BatchLimit,   \* limit=5 of a drain
          WatchMax,     \* watch_max_per_cycle; 0 is send_watch_to_telegram off
          SlowSends     \* may a send outlive the lease it was claimed under?

ASSUME OutboxAssumption ==
    /\ Items \subseteq Nat
    /\ MaxAttempts \in Nat \ {0}
    /\ Lease \in Nat \ {0}
    /\ RetryDelay \in Nat
    /\ BatchLimit \in Nat \ {0}
    /\ WatchMax \in Nat
    /\ SlowSends \in BOOLEAN

Workers == {"scan", "fast"}
Kinds   == {"SIGNAL", "WATCH"}
Status  == {"NONE", "PENDING", "RETRY", "IN_FLIGHT", "SENT", "DEAD"}
Phases  == {"idle", "drainSignal", "drainWatch", "emit", "sendNew"}

VARIABLES
    status,     \* TelegramDeliveryOutboxModel.status; "NONE": no row yet
    kind,       \* TelegramDeliveryOutboxModel.entity_type
    attempts,   \* attempt_count
    leaseLeft,  \* lease_until - now (0: none, or expired)
    waitLeft,   \* next_attempt_at - now (0: due)
    sentFlag,   \* telegram_sent of the signal or watch candidate
    up,         \* is the process running?
    phase,      \* where each worker is
    batch,      \* claimed deliveries the worker has not finished; it sends
                \* them one by one in id order
    watchSent,  \* _watch_sent_in_cycle
    delivered,  \* history: how often Telegram accepted the message
    tried       \* history: the deliveries send_signal was ever called for

rows     == <<status, kind, attempts, leaseLeft, waitLeft, sentFlag>>
runtime  == <<up, phase, batch, watchSent>>
history  == <<delivered, tried>>
vars     == <<rows, runtime, history>>

Init ==
    /\ status    = [i \in Items |-> "NONE"]
    /\ kind      = [i \in Items |-> "SIGNAL"]
    /\ attempts  = [i \in Items |-> 0]
    /\ leaseLeft = [i \in Items |-> 0]
    /\ waitLeft  = [i \in Items |-> 0]
    /\ sentFlag  = [i \in Items |-> FALSE]
    /\ up        = FALSE
    /\ phase     = [w \in Workers |-> "idle"]
    /\ batch     = [w \in Workers |-> {}]
    /\ watchSent = 0
    /\ delivered = [i \in Items |-> 0]
    /\ tried     = {}

-----------------------------------------------------------------------------
FirstOf(S) == {i \in S : \A j \in S : i <= j}

\* The delivery a worker is sending: the first of its batch.
Sending(w) == FirstOf(batch[w])

\* Mutant: nobody reclaims an expired lease.
ExpiredNever == {}

Expired == {i \in Items : status[i] = "IN_FLIGHT" /\ leaseLeft[i] = 0}

\* Mutant: the reclaim forgets the attempt limit.
ReclaimedStatusUnbounded(i) == IF i \in Expired THEN "RETRY" ELSE status[i]

\* The status a row has once expired leases were reclaimed.
ReclaimedStatus(i) ==
    IF i \notin Expired THEN status[i]
    ELSE IF attempts[i] >= MaxAttempts THEN "DEAD" ELSE "RETRY"

\* Reclaiming sets next_attempt_at to now.
ReclaimedWait(i) == IF i \in Expired THEN 0 ELSE waitLeft[i]

\* Mutant: a claim also takes rows that are in flight.
DueInFlight(S) == {i \in S : /\ ReclaimedStatus(i) \in
                                       {"PENDING", "RETRY", "IN_FLIGHT"}
                             /\ ReclaimedWait(i) = 0}

\* Due rows of a kind, after reclaiming; a claim takes the oldest of them.
Due(S) == {i \in S : /\ ReclaimedStatus(i) \in {"PENDING", "RETRY"}
                     /\ ReclaimedWait(i) = 0}
Oldest(S, limit) == {i \in S : Cardinality({j \in S : j < i}) < limit}

\* Mutant: the attempt is not counted at the claim.
ClaimUncounted(w, New, C, k) ==
    /\ status'    = [i \in Items |-> IF i \in C THEN "IN_FLIGHT"
                                     ELSE ReclaimedStatus(i)]
    /\ kind'      = [i \in Items |-> IF i \in New THEN k ELSE kind[i]]
    /\ leaseLeft' = [i \in Items |-> IF i \in C THEN Lease ELSE leaseLeft[i]]
    /\ waitLeft'  = [i \in Items |-> ReclaimedWait(i)]
    /\ batch'     = [batch EXCEPT ![w] = C]
    /\ tried'     = tried \cup FirstOf(C)
    /\ UNCHANGED <<attempts, sentFlag, delivered>>

\* claim_due_deliveries: one transaction that reclaims every expired lease,
\* whatever its kind, and leases the rows in C to worker w, which begins to
\* send the first of them.  Rows in New were inserted just before.
Claim(w, New, C, k) ==
    /\ status'    = [i \in Items |-> IF i \in C THEN "IN_FLIGHT"
                                     ELSE ReclaimedStatus(i)]
    /\ kind'      = [i \in Items |-> IF i \in New THEN k ELSE kind[i]]
    /\ attempts'  = [i \in Items |-> IF i \in C THEN attempts[i] + 1
                                     ELSE attempts[i]]
    /\ leaseLeft' = [i \in Items |-> IF i \in C THEN Lease ELSE leaseLeft[i]]
    /\ waitLeft'  = [i \in Items |-> ReclaimedWait(i)]
    /\ batch'     = [batch EXCEPT ![w] = C]
    /\ tried'     = tried \cup FirstOf(C)
    /\ UNCHANGED <<sentFlag, delivered>>
-----------------------------------------------------------------------------
\* run_cycle begins: the watch counter is reset and due signals are claimed.
StartCycle ==
    /\ up
    /\ phase["scan"] = "idle"
    /\ Claim("scan", {},
             Oldest(Due({i \in Items : kind[i] = "SIGNAL"}), BatchLimit),
             "SIGNAL")
    /\ phase' = [phase EXCEPT !["scan"] = "drainSignal"]
    /\ watchSent' = 0
    /\ UNCHANGED up

Smaller(a, b) == IF a < b THEN a ELSE b

\* Mutant: the watch claim ignores what is left of the cycle's budget.
DrainWatchesUnbounded ==
    /\ up
    /\ phase["scan"] = "drainSignal"
    /\ batch["scan"] = {}
    /\ Claim("scan", {}, Oldest(Due({i \in Items : kind[i] = "WATCH"}), BatchLimit),
             "WATCH")
    /\ phase' = [phase EXCEPT !["scan"] = "drainWatch"]
    /\ UNCHANGED <<up, watchSent>>

\* The signal batch is done: with watch budget left, due watches are claimed.
DrainWatches ==
    /\ up
    /\ phase["scan"] = "drainSignal"
    /\ batch["scan"] = {}
    /\ IF watchSent < WatchMax
       THEN /\ Claim("scan", {},
                     Oldest(Due({i \in Items : kind[i] = "WATCH"}),
                            Smaller(BatchLimit, WatchMax - watchSent)),
                     "WATCH")
            /\ phase' = [phase EXCEPT !["scan"] = "drainWatch"]
       ELSE /\ phase' = [phase EXCEPT !["scan"] = "emit"]
            /\ UNCHANGED <<rows, batch, history>>
    /\ UNCHANGED <<up, watchSent>>

\* The drain is over: the cycle goes on to the market scan.
ScanMarket ==
    /\ up
    /\ phase["scan"] = "drainWatch"
    /\ batch["scan"] = {}
    /\ phase' = [phase EXCEPT !["scan"] = "emit"]
    /\ UNCHANGED <<rows, history, up, batch, watchSent>>

\* The cycle ends, at its end or early with an exception between two sends.
EndCycle ==
    /\ up
    /\ phase["scan"] \in {"drainSignal", "drainWatch", "emit"}
    /\ batch["scan"] = {}
    /\ phase' = [phase EXCEPT !["scan"] = "idle"]
    /\ UNCHANGED <<rows, history, up, batch, watchSent>>

\* Watches are emitted by the full scan only, for delivery only within the
\* budget of its cycle.
MayWatch(w) == w = "scan" /\ watchSent < WatchMax

\* Worker w has a decision of kind k to persist under the next row id i.
Deciding(w, i, k) ==
    /\ up
    /\ phase[w] = IF w = "scan" THEN "emit" ELSE "idle"
    /\ k = "WATCH" => MayWatch(w)
    /\ status[i] = "NONE"
    /\ \A j \in Items : j < i => status[j] # "NONE"

\* save_signal or save_watch_candidate commits the row with its outbox entry
\* and _send_new_delivery claims it: there is no await between the two.
Emit(w, i, k) ==
    /\ Deciding(w, i, k)
    /\ Claim(w, {i}, {i}, k)
    /\ phase' = [phase EXCEPT ![w] = "sendNew"]
    /\ UNCHANGED <<up, watchSent>>

\* One transaction holds the source row and its PENDING outbox entry.
Saved(i, k) ==
    /\ status' = [status EXCEPT ![i] = "PENDING"]
    /\ kind' = [kind EXCEPT ![i] = k]

\* The row commits but the claim fails (storage error): the row stays PENDING.
\* Together with Crash this is also a crash between the two transactions.
EmitUnclaimed(w, i, k) ==
    /\ Deciding(w, i, k)
    /\ Saved(i, k)
    /\ UNCHANGED <<attempts, leaseLeft, waitLeft, sentFlag, runtime, history>>

-----------------------------------------------------------------------------
\* Telegram accepted the message, or did not, before the answer arrived.
Accepted(i, yes) ==
    delivered' = [delivered EXCEPT ![i] = IF yes THEN @ + 1 ELSE @]

\* Worker w is done with delivery i and turns to the rest of its batch.
NextSend(w, i) ==
    /\ batch' = [batch EXCEPT ![w] = @ \ {i}]
    /\ tried' = tried \cup FirstOf(batch[w] \ {i})
    /\ phase' = IF phase[w] # "sendNew" THEN phase
                ELSE [phase EXCEPT ![w] = IF w = "scan" THEN "emit" ELSE "idle"]

\* Emitters of watches write the result to telegram_sent after their immediate
\* send; of the emitters of signals only the trapped-longs one does.
WritesResult(w, i) == phase[w] = "sendNew" /\ kind[i] = "WATCH"

\* Mutant: mark_delivery_sent forgets the source row.
SendSucceedsUnflagged(w, i) ==
    /\ up
    /\ i \in Sending(w)
    /\ Accepted(i, TRUE)
    /\ NextSend(w, i)
    /\ status'    = [status EXCEPT ![i] = "SENT"]
    /\ leaseLeft' = [leaseLeft EXCEPT ![i] = 0]
    /\ watchSent' = IF kind[i] = "WATCH" THEN watchSent + 1 ELSE watchSent
    /\ UNCHANGED <<kind, attempts, waitLeft, sentFlag, up>>

\* send_signal returned True: mark_delivery_sent, and one more watch counted.
SendSucceeds(w, i) ==
    /\ up
    /\ i \in Sending(w)
    /\ Accepted(i, TRUE)
    /\ NextSend(w, i)
    /\ status'    = [status EXCEPT ![i] = "SENT"]
    /\ leaseLeft' = [leaseLeft EXCEPT ![i] = 0]
    /\ sentFlag'  = [sentFlag EXCEPT ![i] = TRUE]
    /\ watchSent' = IF kind[i] = "WATCH" THEN watchSent + 1 ELSE watchSent
    /\ UNCHANGED <<kind, attempts, waitLeft, up>>

\* Mutant: a False answer is recorded as sent.
SendFailsAsSent(w, i) ==
    /\ up
    /\ i \in Sending(w)
    /\ \E yes \in BOOLEAN : Accepted(i, yes)
    /\ NextSend(w, i)
    /\ status' = [status EXCEPT ![i] = "SENT"]
    /\ leaseLeft' = [leaseLeft EXCEPT ![i] = 0]
    /\ UNCHANGED <<kind, attempts, waitLeft, sentFlag, watchSent, up>>

\* Mutant: the retry is scheduled twice the delay ahead.
SendFailsLate(w, i) ==
    /\ up
    /\ i \in Sending(w)
    /\ \E yes \in BOOLEAN : Accepted(i, yes)
    /\ NextSend(w, i)
    /\ status' = [status EXCEPT ![i] = IF attempts[i] >= MaxAttempts
                                       THEN "DEAD" ELSE "RETRY"]
    /\ leaseLeft' = [leaseLeft EXCEPT ![i] = 0]
    /\ waitLeft'  = [waitLeft EXCEPT ![i] = 2 * RetryDelay]
    /\ UNCHANGED <<kind, attempts, sentFlag, watchSent, up>>

\* send_signal raised or returned False: mark_delivery_retry.  The message may
\* have been accepted all the same (a timeout after the request was served).
SendFails(w, i) ==
    /\ up
    /\ i \in Sending(w)
    /\ \E yes \in BOOLEAN : Accepted(i, yes)
    /\ NextSend(w, i)
    /\ status' = [status EXCEPT ![i] = IF attempts[i] >= MaxAttempts
                                       THEN "DEAD" ELSE "RETRY"]
    /\ leaseLeft' = [leaseLeft EXCEPT ![i] = 0]
    /\ waitLeft'  = [waitLeft EXCEPT ![i] = RetryDelay]
    /\ \/ ~WritesResult(w, i) /\ UNCHANGED sentFlag
       \/ phase[w] = "sendNew" /\ sentFlag' = [sentFlag EXCEPT ![i] = FALSE]
    /\ UNCHANGED <<kind, attempts, watchSent, up>>

\* The result arrives but recording it fails: the exception leaves the worker
\* loop, and whatever it had claimed stays IN_FLIGHT until the leases expire.
RecordFails(w, i) ==
    /\ up
    /\ i \in Sending(w)
    /\ \E yes \in BOOLEAN : Accepted(i, yes)
    /\ batch' = [batch EXCEPT ![w] = {}]
    /\ phase' = [phase EXCEPT ![w] = IF w = "scan" /\ @ = "sendNew"
                                     THEN "emit" ELSE "idle"]
    /\ UNCHANGED <<rows, up, watchSent, tried>>

-----------------------------------------------------------------------------
\* The process dies (or is stopped), possibly after Telegram accepted the
\* message being sent; everything in memory is gone.
Crash ==
    /\ up
    /\ up' = FALSE
    /\ \E yes \in [Workers -> BOOLEAN] :
          LET Took(w, i) == IF yes[w] /\ i \in Sending(w) THEN 1 ELSE 0
          IN delivered' = [i \in Items |->
                              delivered[i] + Took("scan", i) + Took("fast", i)]
    /\ phase' = [w \in Workers |-> "idle"]
    /\ batch' = [w \in Workers |-> {}]
    /\ watchSent' = 0
    /\ UNCHANGED <<rows, tried>>

\* Mutant: startup also revives dead letters.
StartupRevives ==
    /\ ~up
    /\ up' = TRUE
    /\ status'   = [i \in Items |-> IF status[i] = "DEAD" THEN "RETRY"
                                    ELSE ReclaimedStatus(i)]
    /\ waitLeft' = [i \in Items |-> ReclaimedWait(i)]
    /\ UNCHANGED <<kind, attempts, leaseLeft, sentFlag, phase, batch,
                   watchSent, history>>

\* startup: reconcile_delivery_leases releases expired leases, sends nothing.
Startup ==
    /\ ~up
    /\ up' = TRUE
    /\ status'   = [i \in Items |-> ReclaimedStatus(i)]
    /\ waitLeft' = [i \in Items |-> ReclaimedWait(i)]
    /\ UNCHANGED <<kind, attempts, leaseLeft, sentFlag, phase, batch,
                   watchSent, history>>

\* One minute passes.  Unless SlowSends, no send is still pending when the
\* lease it was claimed under runs out.
Tick ==
    /\ SlowSends \/ \A w \in Workers : \A i \in batch[w] : leaseLeft[i] > 1
    /\ leaseLeft' = [i \in Items |-> IF leaseLeft[i] > 0 THEN leaseLeft[i] - 1
                                     ELSE 0]
    /\ waitLeft'  = [i \in Items |-> IF waitLeft[i] > 0 THEN waitLeft[i] - 1
                                     ELSE 0]
    /\ UNCHANGED <<status, kind, attempts, sentFlag, runtime, history>>

Result(w) == \E i \in Items : \/ SendSucceeds(w, i)
                              \/ SendFails(w, i)
                              \/ RecordFails(w, i)

Next ==
    \/ StartCycle \/ DrainWatches \/ ScanMarket \/ EndCycle
    \/ \E w \in Workers : \E i \in Items : \E k \in Kinds :
          Emit(w, i, k) \/ EmitUnclaimed(w, i, k)
    \/ \E w \in Workers : Result(w)
    \/ Crash \/ Startup \/ Tick

Spec == Init /\ [][Next]_vars

\* Time passes, a dead process is restarted (Restart=always), every send ends,
\* and a cycle that has begun goes on or ends.  Strong fairness of the two
\* claims: not every run of the process dies, and not every cycle raises,
\* before it gets to them.
Fairness ==
    /\ WF_vars(Tick) /\ WF_vars(Startup)
    /\ \A w \in Workers : WF_vars(Result(w))
    /\ WF_vars(ScanMarket) /\ WF_vars(EndCycle)
    /\ SF_vars(StartCycle) /\ SF_vars(DrainWatches)

FairSpec == Spec /\ Fairness
-----------------------------------------------------------------------------
\* Every variable has its type.
TypeOK ==
    /\ status \in [Items -> Status]
    /\ kind \in [Items -> Kinds]
    /\ attempts \in [Items -> Nat]
    /\ leaseLeft \in [Items -> 0..Lease]
    /\ waitLeft \in [Items -> 0..RetryDelay]
    /\ sentFlag \in [Items -> BOOLEAN]
    /\ up \in BOOLEAN
    /\ phase \in [Workers -> Phases]
    /\ batch \in [Workers -> SUBSET Items]
    /\ watchSent \in Nat
    /\ delivered \in [Items -> Nat]
    /\ tried \subseteq Items

\* 1 if worker w holds a claim on delivery i.
Held(w, i) == IF i \in batch[w] THEN 1 ELSE 0

\* The attempt budget: whatever dies, stalls, fails or overlaps, the messages
\* Telegram accepted and the claims still being sent never exceed the attempts
\* counted, and these never exceed MaxAttempts: no operator sees an item more
\* than five times (claim_due_deliveries counts at the claim, not at the send).
AttemptBudget ==
    \A i \in Items :
        /\ delivered[i] + Held("scan", i) + Held("fast", i) <= attempts[i]
        /\ attempts[i] <= MaxAttempts

\* The lease excludes: while a worker has a claim to send, the row is
\* IN_FLIGHT with time left, and the other worker does not hold it too.
ExclusiveLease ==
    \A i \in Items :
        /\ \A w \in Workers :
              i \in batch[w] => status[i] = "IN_FLIGHT" /\ leaseLeft[i] > 0
        /\ ~(i \in batch["scan"] /\ i \in batch["fast"])

\* sent_flag_mismatch and its converse never happen: the source's telegram_sent
\* is set exactly when the row is SENT (mark_delivery_sent writes both, the
\* late update_*_telegram_status of an emitter must not undo it), and nothing
\* is SENT that Telegram did not accept.
SentFlagMatches ==
    \A i \in Items : /\ sentFlag[i] <=> status[i] = "SENT"
                     /\ status[i] = "SENT" => delivered[i] > 0

\* A delivery is dead-lettered only after its full budget of attempts, and one
\* that waits for another attempt still has one left.
DeadOnlyExhausted ==
    \A i \in Items :
        /\ status[i] = "DEAD" => attempts[i] = MaxAttempts
        /\ status[i] \in {"PENDING", "RETRY"} => attempts[i] < MaxAttempts

\* watch_max_per_cycle bounds what the drain at the start of a cycle and the
\* emissions later in it deliver together.
WatchBudget == watchSent <= WatchMax

\* A row that has settled never changes again.
SettledIsFinal ==
    [][\A i \in Items : status[i] \in {"SENT", "DEAD"} =>
          /\ status'[i] = status[i]
          /\ attempts'[i] = attempts[i]
          /\ delivered'[i] = delivered[i]]_vars

\* Every persisted delivery eventually settles for good: retries, crashes and
\* a message that fails every time do not leave it, or those behind it in the
\* queue, waiting forever; watches are not starved by the per-cycle budget.
EventuallySettled ==
    \A i \in Items : status[i] # "NONE" ~> [](status[i] \in {"SENT", "DEAD"})

\* An item is DEAD only after send_signal was called for it.
DeadWasTried == \A i \in Items : status[i] = "DEAD" => i \in tried

\* The outbox as its users see it.
AbstractState(i) == CASE status[i] = "NONE" -> "absent"
                      [] status[i] = "SENT" -> "sent"
                      [] status[i] = "DEAD" -> "dead"
                      [] OTHER -> "queued"

Delivery == INSTANCE AtLeastOnceDelivery
            WITH state <- [i \in Items |-> AbstractState(i)],
                 accepted <- delivered

\* Leases, batches, crashes and restarts implement at-least-once delivery.
ImplementsDelivery == Delivery!Spec
=============================================================================
