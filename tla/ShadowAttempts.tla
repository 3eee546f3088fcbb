--------------------------- MODULE ShadowAttempts ---------------------------
(***************************************************************************)
(* app/storage/repository.py and app/main.py: the durable life of shadow   *)
(* entry attempts.  Each evaluation of an event writes its root, admits or *)
(* reuses one attempt and moves it; three strategies do, with attempt ids  *)
(* of their own.  Every repository call is one transaction and a crash may *)
(* fall between two of them; startup reconciles what is left.              *)
(*                                                                         *)
(* One symbol: all of this runs in its lane (SymbolLanes).  What market    *)
(* data decides is a free choice; time and highs are small numbers.        *)
(***************************************************************************)
EXTENDS Naturals, Sequences, FiniteSets

CONSTANTS Roots,       \* event ids of the symbol
          HighAt,      \* the time of the high each event id is made of
          MaxAttempts, \* climax_max_attempts_per_root_event
          Ttl,         \* climax_entry_attempt_ttl_minutes
          Window,      \* volume_climax_confirmation_window_minutes
          Lifetime,    \* volume_climax_ and trapped_longs_max_lifetime_minutes
          MaxHigh,     \* bound: highs of an event
          MaxTime,     \* bound: the clock
          MaxFaults,   \* bound: crashes and failed root writes
          MaxWork,     \* bound: scans, evaluations and new highs
          None

Kinds    == {"retest", "volume", "trap"}
Terminal == {"SHADOW_ACTIONABLE", "EXPIRED", "ROOT_REPLACED"}
States   == Terminal \cup {"RETEST_IN_PROGRESS", "BREAKDOWN_PENDING", "ACTIONABLE"}
Ids      == {a \in [root : Roots, kind : Kinds, rev : 1..MaxHigh] :
                a.kind = "trap" => a.rev = 1}

\* closed: attempt_closed_at is set.
Attempts == [state : States, created : Nat, expires : Nat, closed : BOOLEAN]

\* climax_entry_attempt_events: its type, the state it leads to, the key that
\* makes it unique among those of the attempt and the run that wrote it.
Entries == [type : {"created", "state", "closed", "reused", "orphan"},
            to : States, key : {"fresh", "run", "replaced", "reconcile"}, run : Nat]

\* The event: its start, its high and the time of it, the revision of its root
\* the snapshot has, and the volume lifecycle's latest high and window start.
Events == [root : Roots, start : Nat, high : 1..MaxHigh, at : Nat, rev : Nat,
           top : Nat, since : Nat]

\* What an evaluation at time at is going to write, and to do then.
Plans == [id : Ids, state : States, expires : Nat, at : Nat,
          then : {"SHADOW_ACTIONABLE", "ACTIONABLE", "expire", "nothing"}]

ASSUME AttemptsAssumption ==
    /\ HighAt \in [Roots -> Nat]
    /\ MaxAttempts \in Nat \ {0} /\ Ttl \in Nat \ {0}
    /\ Window \in Nat /\ Lifetime \in Nat
    /\ MaxHigh \in Nat \ {0} /\ MaxTime \in Nat
    /\ MaxFaults \in Nat /\ MaxWork \in Nat
    /\ None \notin Attempts \cup Roots \cup Nat
    /\ None \notin [peak : Nat, revision : Nat]

VARIABLES
    roots,    \* climax_root_events: peak_high and peak_revision of each root
    attempts, \* climax_entry_attempts
    log,      \* climax_entry_attempt_events of each attempt, in order
    refused,  \* the attempts an attempt_limit_reached event names
    event,    \* event_states: the event of the symbol
    tracked,  \* _active_climax_pool: the root tracked for the symbol
    pc,       \* what the process is about to do
    pending,  \* the attempt it is to move, and how
    clock, run, faults,
    work,     \* scans, evaluations and new highs so far
    broken    \* roots whose write has failed

tables == <<roots, attempts, log, refused>>
vars == <<tables, event, tracked, pc, pending, clock, run, faults, work, broken>>

Init ==
    /\ roots = [r \in Roots |-> None]
    /\ attempts = [a \in Ids |-> None]
    /\ log = [a \in Ids |-> <<>>]
    /\ refused = {}
    /\ event = None /\ tracked = None
    /\ pc = "idle" /\ pending = None
    /\ clock = 0 /\ run = 1 /\ faults = 0 /\ work = 0 /\ broken = {}

-----------------------------------------------------------------------------
\* _is_valid_lifecycle_attempt_values: not born expired.
Valid(row) == row.expires > row.created

Exists(a) == attempts[a] # None

\* The trapped-longs root of an event is another root than the event itself.
SameRoot(a, b) == a.root = b.root /\ (a.kind = "trap" <=> b.kind = "trap")

\* Mutant: only attempts still open count.
CountedOpen(a) == {b \in Ids : /\ Exists(b) /\ SameRoot(a, b)
                               /\ Valid(attempts[b]) /\ ~attempts[b].closed}

\* The attempts that count against the limit of a's root.
Counted(a) == {b \in Ids : Exists(b) /\ SameRoot(a, b) /\ Valid(attempts[b])}

LimitOf(a) == IF a.kind = "trap" THEN 1 ELSE MaxAttempts

Entry(type, to, key) == [type |-> type, to |-> to, key |-> key, run |-> run]

SameKey(d, e) == /\ d.type = e.type /\ d.key = e.key /\ e.key # "fresh"
                 /\ e.key = "run" => d.run = e.run

\* _append_attempt_event: an entry whose key is there is not written again.
Logged(l, e) == IF \E i \in DOMAIN l : SameKey(l[i], e) THEN l ELSE Append(l, e)

\* The state of attempt a becomes s, as an event with this key says.
LoggedState(l, row, s, key) == IF row.state = s THEN l ELSE Logged(l, Entry("state", s, key))

\* ... and the attempt is closed in it.
LoggedClose(l, s, key) == Logged(Logged(l, Entry("state", s, key)), Entry("closed", s, key))

\* The entry that an attempt of an earlier run is used again.
LoggedReuse(l, s) ==
    IF l[Len(l)].run # run THEN Logged(l, Entry("reused", s, "run")) ELSE l

Writes(a, row, l) ==
    /\ attempts' = [attempts EXCEPT ![a] = row]
    /\ log' = [log EXCEPT ![a] = l]

-----------------------------------------------------------------------------
\* upsert_shadow_root_event with this peak: the root's row after it.
RootRow(r, peak) ==
    IF roots[r] = None THEN [peak |-> peak, revision |-> 1]
    ELSE IF peak > roots[r].peak
    THEN [peak |-> peak, revision |-> roots[r].revision + 1]
    ELSE roots[r]

\* Mutant: a failed write has no revision.
UpsertsRootOrNone(r, peak, revision) ==
    \/ /\ roots' = [roots EXCEPT ![r] = RootRow(r, peak)]
       /\ revision = RootRow(r, peak).revision
       /\ UNCHANGED <<faults, broken>>
    \/ /\ faults < MaxFaults /\ faults' = faults + 1
       /\ broken' = broken \cup {r}
       /\ revision = 0
       /\ UNCHANGED roots

\* Mutant: the revision is told before it is written, and is not written.
UpsertsRootAhead(r, peak, revision) ==
    /\ roots' = [roots EXCEPT ![r] = IF @ = None THEN RootRow(r, peak) ELSE @]
    /\ revision = RootRow(r, peak).revision
    /\ UNCHANGED <<faults, broken>>

\* The call returns revision 1 when its write fails.
UpsertsRoot(r, peak, revision) ==
    \/ /\ roots' = [roots EXCEPT ![r] = RootRow(r, peak)]
       /\ revision = RootRow(r, peak).revision
       /\ UNCHANGED <<faults, broken>>
    \/ /\ faults < MaxFaults /\ faults' = faults + 1
       /\ broken' = broken \cup {r}
       /\ revision = 1
       /\ UNCHANGED roots

\* upsert_shadow_entry_attempt refuses what is born expired, unless terminal ...
BornExpired(s, expires, t) == s \notin Terminal /\ expires <= t

\* ... and one more than the limit, which it logs.
AtLimit(a) == Cardinality(Counted(a)) >= LimitOf(a)

Creates(a, s, expires, t) ==
    /\ Writes(a, [state |-> s, created |-> t, expires |-> expires,
                  closed |-> s \in Terminal],
              <<Entry("created", s, "fresh")>>)
    /\ UNCHANGED refused

\* Mutant: every evaluation renews the window and a terminal state is reopened.
ObservesAgain(a, s, expires) ==
    LET row == attempts[a] IN
    IF row.closed THEN UNCHANGED <<attempts, log>>
    ELSE Writes(a, [row EXCEPT !.state = s, !.expires = expires],
                LoggedReuse(LoggedState(log[a], row, s, "fresh"), s))

\* An attempt that exists takes the state it is observed in, keeps the end of
\* its window and is not reopened.
Observes(a, s, expires) ==
    LET row == attempts[a] IN
    IF row.closed \/ row.state \in Terminal THEN UNCHANGED <<attempts, log>>
    ELSE Writes(a, [row EXCEPT !.state = s],
                LoggedReuse(LoggedState(log[a], row, s, "fresh"), s))

\* upsert_shadow_entry_attempt for an observation at time t; ok is what it
\* returns.
Upserts(a, s, expires, t, ok) ==
    \/ Exists(a) /\ ok /\ Observes(a, s, expires) /\ UNCHANGED refused
    \/ /\ ~Exists(a) /\ ~BornExpired(s, expires, t) /\ ~AtLimit(a)
       /\ ok /\ Creates(a, s, expires, t)
    \/ /\ ~Exists(a) /\ ~BornExpired(s, expires, t) /\ AtLimit(a)
       /\ ~ok /\ refused' = refused \cup {a}
       /\ UNCHANGED <<attempts, log>>
    \/ /\ ~Exists(a) /\ BornExpired(s, expires, t)
       /\ ~ok /\ UNCHANGED <<attempts, log, refused>>

\* Mutant: the transition looks at the state, not at attempt_closed_at.
TransitionsOpenState(a, s) ==
    IF ~Exists(a) THEN UNCHANGED <<attempts, log>>
    ELSE LET row == attempts[a] IN
         IF s \in Terminal
         THEN Writes(a, [row EXCEPT !.state = s, !.closed = TRUE],
                     Logged(LoggedState(log[a], row, s, "fresh"), Entry("closed", s, "fresh")))
         ELSE Writes(a, [row EXCEPT !.state = s], LoggedState(log[a], row, s, "fresh"))

\* transition_shadow_entry_attempt.
Transitions(a, s) ==
    IF ~Exists(a) \/ (Exists(a) /\ attempts[a].closed) THEN UNCHANGED <<attempts, log>>
    ELSE LET row == attempts[a] IN
         IF s \in Terminal
         THEN Writes(a, [row EXCEPT !.state = s, !.closed = TRUE],
                     Logged(LoggedState(log[a], row, s, "fresh"), Entry("closed", s, "fresh")))
         ELSE Writes(a, [row EXCEPT !.state = s], LoggedState(log[a], row, s, "fresh"))

\* expire_shadow_attempt_if_due, for an evaluation at time t.
Expires(a, t) ==
    IF attempts[a].closed \/ t < attempts[a].expires THEN UNCHANGED <<attempts, log>>
    ELSE Writes(a, [attempts[a] EXCEPT !.state = "EXPIRED", !.closed = TRUE],
                LoggedClose(log[a], "EXPIRED", "fresh"))

OpenOf(r) == {a \in Ids : a.root = r /\ a.kind # "trap" /\ Exists(a) /\ ~attempts[a].closed}

\* close_open_shadow_attempts_for_root.
Replaces(r) ==
    /\ attempts' = [a \in Ids |-> IF a \in OpenOf(r)
           THEN [attempts[a] EXCEPT !.state = "ROOT_REPLACED", !.closed = TRUE]
           ELSE attempts[a]]
    /\ log' = [a \in Ids |-> IF a \in OpenOf(r)
           THEN LoggedClose(log[a], "ROOT_REPLACED", "replaced") ELSE log[a]]

\* get_open_shadow_attempt_id: the latest one, if any.
Latest(r) ==
    LET open == {a \in OpenOf(r) : Valid(attempts[a])} IN
    {a \in open : \A b \in open : attempts[b].created <= attempts[a].created}

-----------------------------------------------------------------------------
\* The process takes the next piece of work.
Works == pc = "idle" /\ work < MaxWork /\ work' = work + 1

Detected(r, start) == [root |-> r, start |-> start, high |-> 1, at |-> HighAt[r],
                       rev |-> 1, top |-> 0, since |-> 0]

\* build_event: its start is the low of the trigger window, its identity is the
\* high's; a later detection may find the same high and a later low.
Detections(r) == {Detected(r, t) : t \in IF HighAt[r] <= clock THEN {HighAt[r], clock} ELSE {}}

\* _prepare_shadow_root_event: the full scan meets the symbol's event again, or
\* detects one, and writes its root.
ScanRoot ==
    /\ Works
    /\ \E e \in (IF event = None THEN {} ELSE {event}) \cup UNION {Detections(r) : r \in Roots},
          rev \in 0..MaxHigh :
          /\ UpsertsRoot(e.root, e.high, rev)
          /\ event' = [e EXCEPT !.rev = rev]
    /\ pc' = "tracking"
    /\ UNCHANGED <<attempts, log, refused, tracked, pending, clock, run>>

\* _track_climax_candidate: the attempts of the root tracked before are closed.
\* A candidate older than the pool's TTL is not added.
Track ==
    /\ pc = "tracking"
    /\ IF tracked \notin {None, event.root} THEN Replaces(tracked)
       ELSE UNCHANGED <<attempts, log>>
    /\ \/ tracked' = event.root
       \/ tracked # event.root /\ tracked' = None
    /\ pc' = "idle"
    /\ UNCHANGED <<roots, refused, event, pending, clock, run, faults, broken, work>>

\* The candidate leaves the pool: its TTL, a signal, the end of its event.
Forget ==
    /\ pc = "idle" /\ tracked # None
    /\ tracked' = None
    /\ UNCHANGED <<tables, event, pc, pending, clock, run, faults, broken, work>>

\* reset_after_confirmed_high.
NewHigh ==
    /\ Works /\ event # None
    /\ event.high < MaxHigh
    /\ event' = [event EXCEPT !.high = @ + 1, !.at = clock]
    /\ UNCHANGED <<tables, tracked, pc, pending, clock, run, faults, broken>>

Plan(id, s, expires, then) ==
    /\ pending' = [id |-> id, state |-> s, expires |-> expires, at |-> clock, then |-> then]

\* Is the event older than the lifetime of a root?
Outlived == clock > event.start + Lifetime

\* advance_volume_climax_lifecycle: a new high starts a new window; after the
\* window, the conditions of the fallback may hold.
Advanced(high) ==
    LET top   == IF event.top = 0 THEN high ELSE event.top
        since == IF event.top = 0 THEN event.at ELSE event.since
    IN {[top |-> IF high > top THEN high ELSE top,
         since |-> IF high > top THEN clock ELSE since,
         ready |-> ready] :
        ready \in IF high > top \/ clock < since + Window THEN {FALSE} ELSE BOOLEAN}

\* _evaluate_and_send_climax, the volume lifecycle: the root is written, the
\* event is saved with the window, and unless the root is too old an attempt
\* of the root's revision is to be admitted.
EvaluateVolume ==
    /\ Works /\ event # None
    /\ \E high \in event.high..MaxHigh, rev \in 0..MaxHigh :
       \E v \in (IF Outlived THEN {[top |-> event.top, since |-> event.since, ready |-> FALSE]}
                ELSE Advanced(high)) :
          /\ UpsertsRoot(event.root, high, rev)
          /\ event' = [event EXCEPT !.top = v.top, !.since = v.since]
          /\ IF Outlived THEN UNCHANGED <<pc, pending>>
             ELSE /\ pc' = "admitting"
                  /\ Plan([root |-> event.root, kind |-> "volume", rev |-> rev],
                          IF v.ready THEN "SHADOW_ACTIONABLE" ELSE "RETEST_IN_PROGRESS",
                          v.since + Window,
                          IF v.ready THEN "SHADOW_ACTIONABLE" ELSE "nothing")
    /\ UNCHANGED <<attempts, log, refused, tracked, clock, run>>

\* ... the frozen-extension shadow, which saw a retest.
EvaluateRetest ==
    /\ Works /\ event # None
    /\ pc' = "admitting"
    /\ \E actionable \in BOOLEAN, s \in {"BREAKDOWN_PENDING", "RETEST_IN_PROGRESS"} :
          /\ actionable => s = "BREAKDOWN_PENDING"
          /\ Plan([root |-> event.root, kind |-> "retest", rev |-> event.rev], s, clock + Ttl,
                  IF actionable THEN "SHADOW_ACTIONABLE" ELSE "expire")
    /\ UNCHANGED <<tables, event, tracked, clock, run, faults, broken>>

\* ... and saw none: the open attempt of the root, if any, is used again.
Correlate ==
    /\ Works /\ event # None
    /\ \E a \in Latest(event.root), then \in {"SHADOW_ACTIONABLE", "expire"} :
          /\ log' = [log EXCEPT ![a] = Logged(@, Entry("reused", attempts[a].state, "run"))]
          /\ Plan(a, attempts[a].state, attempts[a].expires, then)
    /\ pc' = "settling"
    /\ UNCHANGED <<roots, attempts, refused, event, tracked, clock, run, faults, broken>>

\* _evaluate_and_send_trapped_longs: an attempt per event, whose window starts
\* at the high; past it, or past the root's lifetime, the attempt has expired.
EvaluateTrapped ==
    /\ Works /\ event # None
    /\ LET a       == [root |-> event.root, kind |-> "trap", rev |-> 1]
           created == IF Exists(a) THEN attempts[a].created ELSE clock
           expires == IF Exists(a) THEN attempts[a].expires ELSE event.at + Lifetime
           blocked == expires <= created \/ clock >= expires
       IN \E admitted, actionable \in BOOLEAN :
             /\ admitted => ~Outlived
             /\ actionable => admitted /\ ~blocked
             /\ Plan(a,
                     IF blocked \/ Outlived THEN "EXPIRED"
                     ELSE IF admitted THEN "ACTIONABLE" ELSE "RETEST_IN_PROGRESS",
                     event.at + Lifetime,
                     IF actionable THEN "ACTIONABLE" ELSE "nothing")
    /\ pc' = "admitting"
    /\ UNCHANGED <<tables, event, tracked, clock, run, faults, broken>>

\* The attempt is admitted, reused or refused; trapped longs do not look.
Admit ==
    /\ pc = "admitting"
    /\ \E ok \in BOOLEAN :
          /\ Upserts(pending.id, pending.state, pending.expires, pending.at, ok)
          /\ pc' = IF ok \/ pending.id.kind = "trap" THEN "settling" ELSE "idle"
    /\ UNCHANGED <<roots, event, tracked, pending, clock, run, faults, broken, work>>

\* The evaluation is recorded; then the attempt moves on, expires or stays.
Settle ==
    /\ pc = "settling"
    /\ \/ pending.then = "nothing" /\ UNCHANGED <<attempts, log>>
       \/ pending.then = "expire" /\ Expires(pending.id, pending.at)
       \/ pending.then \in States /\ Transitions(pending.id, pending.then)
    /\ pc' = "idle" /\ pending' = None
    /\ UNCHANGED <<roots, refused, event, tracked, clock, run, faults, broken, work>>

-----------------------------------------------------------------------------
\* The process dies; an event it has not saved is lost.
Crash ==
    /\ pc # "down" /\ faults < MaxFaults
    /\ faults' = faults + 1
    /\ pc' = "down" /\ pending' = None /\ tracked' = None
    /\ event' \in {event, None}
    /\ UNCHANGED <<tables, clock, run, broken, work>>

Orphan(a) == a.kind = "trap" \/ roots[a.root] = None

Overdue(a) == Exists(a) /\ ~attempts[a].closed /\ attempts[a].expires <= clock

\* startup: reconcile_shadow_lifecycle logs the attempts without a root and
\* expires those past their window.
Start ==
    /\ pc = "down"
    /\ run' = run + 1
    /\ attempts' = [a \in Ids |-> IF Overdue(a)
           THEN [attempts[a] EXCEPT !.state = "EXPIRED", !.closed = TRUE] ELSE attempts[a]]
    /\ log' = [a \in Ids |->
           LET l == IF Exists(a) /\ Orphan(a)
                    THEN Logged(log[a], [Entry("orphan", attempts[a].state, "reconcile")
                                         EXCEPT !.run = run + 1])
                    ELSE log[a]
           IN IF Overdue(a) THEN LoggedClose(l, "EXPIRED", "reconcile") ELSE l]
    /\ pc' = "idle"
    /\ UNCHANGED <<roots, refused, event, tracked, pending, clock, faults, broken, work>>

Tick ==
    /\ clock < MaxTime /\ clock' = clock + 1
    /\ UNCHANGED <<tables, event, tracked, pc, pending, run, faults, broken, work>>

Next ==
    \/ ScanRoot \/ Track \/ Forget \/ NewHigh
    \/ EvaluateVolume \/ EvaluateRetest \/ Correlate \/ EvaluateTrapped
    \/ Admit \/ Settle \/ Crash \/ Start \/ Tick

Spec == Init /\ [][Next]_vars
-----------------------------------------------------------------------------
\* Every variable has its type.
TypeOK ==
    /\ roots \in [Roots -> [peak : 1..MaxHigh, revision : 1..MaxHigh] \cup {None}]
    /\ attempts \in [Ids -> Attempts \cup {None}]
    /\ log \in [Ids -> Seq(Entries)]
    /\ refused \subseteq Ids
    /\ event \in Events \cup {None}
    /\ tracked \in Roots \cup {None}
    /\ pc \in {"idle", "tracking", "admitting", "settling", "down"}
    /\ pending \in Plans \cup {None}
    /\ clock \in Nat /\ run \in Nat /\ faults \in Nat /\ work \in Nat
    /\ broken \subseteq Roots

\* Whatever strategies, revisions, restarts and expiries a root goes through, no
\* more than max_attempts of its attempts ever count, and one that the limit
\* refused never comes to be.
LimitHolds ==
    /\ \A a \in Ids : Cardinality(Counted(a)) <= LimitOf(a)
    /\ \A a \in refused : ~Exists(a)

Moves(l) == {i \in DOMAIN l : l[i].type \in {"created", "state"}}
Closes(l) == {i \in DOMAIN l : l[i].type = "closed"}

\* The append-only history tells the truth, with or without a restart between
\* two writes: the last state in it is the attempt's state, and an attempt has
\* one attempt_closed event, when it is closed and was not created so.
LogTellsState ==
    \A a \in Ids :
        IF ~Exists(a) THEN log[a] = <<>>
        ELSE LET l == log[a] IN
             /\ \E i \in Moves(l) : /\ l[i].to = attempts[a].state
                                   /\ \A j \in Moves(l) : j <= i
             /\ Cardinality(Closes(l)) =
                    IF attempts[a].closed /\ l[1].to \notin Terminal THEN 1 ELSE 0

\* An attempt of a climax strategy has its root, at its revision or a later
\* one, unless the root's own write has failed.
RootBeforeAttempt ==
    \A a \in Ids : Exists(a) /\ a.kind # "trap" /\ a.root \notin broken =>
        roots[a.root] # None /\ a.rev <= roots[a.root].revision

\* A late transition, from the scan, the monitor or startup, never touches a
\* closed attempt, never reopens a climax attempt that has reached a terminal
\* state, and nothing ever moves the end of a window.
TerminalIsFinal ==
    [][\A a \in Ids : Exists(a) =>
          /\ attempts[a].closed => attempts'[a] = attempts[a]
          /\ a.kind # "trap" /\ attempts[a].state \in Terminal
                => attempts'[a].state \in Terminal
          /\ attempts'[a].expires = attempts[a].expires]_attempts
=============================================================================
