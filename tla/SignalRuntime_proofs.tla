------------------------ MODULE SignalRuntime_proofs ------------------------
(***************************************************************************)
(* Proofs about SignalRuntime, for any events and any bounds.              *)
(*                                                                         *)
(* The many steps of a task inside the lane have few shapes: it quits,     *)
(* waits with another version of its state, writes a signal row, or marks  *)
(* the state.  One lemma per action finds its shape (Works, Finishes), one *)
(* per shape preserves the invariant.                                      *)
(***************************************************************************)
EXTENDS SignalRuntime, FiniteSetTheorems, TLAPS

\* s is state t, advanced: the same event, detection and signal.
Version(s, t) == /\ s \in EventStates
                 /\ s.event = t.event
                 /\ s.episode = t.episode
                 /\ s.signal = t.signal

\* What a state is, and what is made of it.
LEMMA StateFields ==
  ASSUME NEW s \in EventStates
  PROVE  /\ s # None /\ s.event \in Events /\ s.episode \in Nat
         /\ s.signal \in Nat \cup {None}
<1>1. s # None
  BY RuntimeAssumption
<1> QED
  BY <1>1 DEF EventStates

LEMMA SelfVersion == \A s \in EventStates : Version(s, s)
  BY DEF Version

LEMMA AdvancedVersion ==
  ASSUME NEW s \in EventStates
  PROVE  \A t \in Advanced(s) : Version(t, s)
  BY DEF Version, Advanced, EventStates, Statuses

LEMMA ZonedVersion ==
  ASSUME NEW s \in EventStates
  PROVE  Version([s EXCEPT !.status = "SHORT_ZONE_ACTIVE"], s)
  BY DEF Version, EventStates, Statuses

LEMMA MarkedFields ==
  ASSUME NEW s \in EventStates, NEW id \in Nat
  PROVE  /\ Marked(s, id) \in EventStates
         /\ Marked(s, id).event = s.event
         /\ Marked(s, id).episode = s.episode
         /\ Marked(s, id).signal = id
  BY DEF Marked, EventStates, Statuses

LEMMA DetectedType ==
  ASSUME NEW e \in Events, NEW n \in Nat
  PROVE  /\ Detected(e, n) \in EventStates
         /\ Detected(e, n).episode = n
         /\ Detected(e, n).signal = None
  BY DEF Detected, EventStates, Statuses

-----------------------------------------------------------------------------
(***************************************************************************)
(* The shapes.                                                             *)
(***************************************************************************)
Rows == [event: Events, episode: Nat, kind: Kinds]

\* What the steps inside the lane change, typed.
CoreTyped ==
    /\ row \in EventStates \cup {None}
    /\ records \in Seq(Rows)
    /\ episodes \in Nat /\ lost \subseteq Nat
    /\ lane \in Procs \cup {None}
    /\ pc \in [Procs -> Steps]
    /\ w \in [Procs -> EventStates \cup {None}]
    /\ saved \in [Procs -> Nat \cup {None}]
    /\ \A p \in Procs : /\ lane = p <=> pc[p] \in Inside
                        /\ pc[p] \in Inside => w[p] # None

\* The rest, typed.
RestTyped ==
    /\ pool \subseteq Events /\ stale \subseteq pool
    /\ due \in Nat /\ faults \in Nat
    /\ chosen \in EventStates \cup {None}
    /\ key \in Events \cup {None}

LEMMA TypesSplit == TypeOK <=> CoreTyped /\ RestTyped
  BY DEF TypeOK, CoreTyped, RestTyped, Rows

\* A task outside the lane stays there.
Idles == \E p \in Procs :
    /\ pc[p] \notin Inside
    /\ \E step \in Steps \ Inside : Await(p, step)
    /\ UNCHANGED <<row, records, episodes, lost>>
    /\ lane' = lane
    /\ \A q \in Procs \ {p} : w'[q] = w[q] /\ saved'[q] = saved[q]
    /\ w' \in [Procs -> EventStates \cup {None}]
    /\ saved' \in [Procs -> Nat \cup {None}]

\* A task inside quits, waits or writes a row.
Quits(p) == /\ \E step \in Steps \ Inside : Exit(p, step)
            /\ UNCHANGED records

Waits(p) == \E s \in EventStates, step \in Inside \ {"sending"} :
    /\ Version(s, w[p])
    /\ Continues(p, s, step)
    /\ step \in {"reporting", "rechecking"} => s.signal = None
    /\ step = "rechecking" => ~HasSignal(s, "LOW_VOLUME_EXTENSION_FAILURE")
    /\ UNCHANGED <<records, saved>>

Writes(p) == \E s \in EventStates, k \in Kinds :
    /\ Version(s, w[p])
    /\ k \in Subtypes => ~HasSignal(s, k)
    /\ k \in Marking => s.signal = None
    /\ SavesSignal(p, k, s, IF k \in Marking THEN "sending" ELSE "trapping")

Works(p) ==
    /\ pc[p] \in Inside \ {"sending"}
    /\ row' = row \/ Version(row', w[p])
    /\ Quits(p) \/ Waits(p) \/ Writes(p)
    /\ UNCHANGED <<episodes, lost>>

\* A signalled state is marked, or its mark is lost.
Finishes(p) ==
    /\ pc[p] = "sending"
    /\ row' = Marked(w[p], saved[p])
    /\ Quits(p)
    /\ UNCHANGED <<episodes, lost>>

Loses(p) ==
    /\ pc[p] = "sending"
    /\ lost' = lost \cup {w[p].episode}
    /\ Quits(p)
    /\ UNCHANGED <<row, episodes>>

\* Every task leaves the lane at once.
Dies == /\ Restarts
        /\ lost' = lost \cup {w[p].episode : p \in {q \in Procs : pc[q] = "sending"}}
        /\ UNCHANGED episodes

\* A task enters with the stored state or a new one.
Enters(p) == \E s \in EventStates :
    /\ lane = None
    /\ \/ s = row /\ episodes' = episodes
       \/ /\ episodes' = episodes + 1
          /\ s.episode = episodes + 1 /\ s.signal = None
    /\ lane' = p
    /\ w' = [w EXCEPT ![p] = s]
    /\ Await(p, "enriching")
    /\ UNCHANGED <<row, records, saved, lost>>

Rests == UNCHANGED <<row, records, lane, pc, w, saved, episodes, lost>>
-----------------------------------------------------------------------------
(***************************************************************************)
(* The inductive invariant: while a task is inside, its copy says what the *)
(* records say of its episode, and what has_signal_for_event said of an    *)
(* event waiting for its recheck still holds.                              *)
(***************************************************************************)
MarksOf(s) == IF s.signal = None THEN {} ELSE {s.signal}

\* Every episode named is one that was counted.
EpisodesKnown ==
    /\ row # None => row.episode <= episodes
    /\ \A p \in Procs : pc[p] \in Inside => w[p].episode <= episodes
    /\ \A i \in DOMAIN records : records[i].episode <= episodes

SendingFor(n) == \E p \in Procs : pc[p] = "sending" /\ w[p].episode = n

\* The stored state is marked with what was signalled.
RowMatches ==
    row # None /\ row.episode \notin lost /\ ~SendingFor(row.episode)
        => SignalsOf(row.episode) = MarksOf(row)

\* So is the copy of the task inside, or it is being signalled.
CopyMatches ==
    \A p \in Procs : pc[p] \in Inside =>
       /\ row # None /\ row.episode = w[p].episode => row.signal = w[p].signal
       /\ pc[p] \in {"sending", "reporting", "rechecking"} => w[p].signal = None
       /\ pc[p] = "sending" => saved[p] \in DOMAIN records
       /\ w[p].episode \notin lost =>
             SignalsOf(w[p].episode) =
                IF pc[p] = "sending" THEN {saved[p]} ELSE MarksOf(w[p])

OneSignal ==
    \A n \in Nat : n \notin lost => \A i, j \in SignalsOf(n) : i = j

StillUnsignalled ==
    \A p \in Procs : pc[p] = "rechecking" =>
       ~HasSignal(w[p], "LOW_VOLUME_EXTENSION_FAILURE")

SignalInv == /\ CoreTyped
             /\ EpisodesKnown
             /\ RowMatches
             /\ CopyMatches
             /\ OneSignal
             /\ StillUnsignalled
             /\ IdentityUnique

-----------------------------------------------------------------------------
(***************************************************************************)
(* Which action has which shape.                                           *)
(***************************************************************************)
LEMMA LeaveQuits ==
  ASSUME NEW p \in Procs, Leave(p), UNCHANGED records
  PROVE  Quits(p)
  BY DEF Leave, Quits, Steps, Inside

\* The scan is done or goes on with a version of its state.
LEMMA BaselineWorks ==
  ASSUME SignalInv, pc["scan"] \in Inside \ {"sending"}, Baseline, UNCHANGED <<episodes, lost>>
  PROVE  Works("scan")
<1>1. "scan" \in Procs /\ w["scan"] \in EventStates
  BY DEF SignalInv, CoreTyped, Procs
<1>2. PICK s \in IF New THEN {w["scan"]} ELSE Advanced(w["scan"]) :
          \/ SavesState(s)
          \/ /\ s.status = "PUMP_DETECTED"
             /\ Continues("scan", s, "watching") /\ UNCHANGED <<row, saved>>
          \/ /\ s.status \notin {"PUMP_DETECTED", "EXPIRED"}
             /\ Continues("scan", s, "zoning") /\ UNCHANGED <<row, saved>>
  BY DEF Baseline
<1>3. Version(s, w["scan"]) /\ s \in EventStates
  BY <1>1, SelfVersion, AdvancedVersion DEF Version
<1>4. UNCHANGED records
  BY DEF Baseline
<1>5. CASE SavesState(s)
  BY <1>1, <1>3, <1>4, <1>5, LeaveQuits DEF SavesState, Works
<1>6. CASE /\ Continues("scan", s, "watching") \/ Continues("scan", s, "zoning")
           /\ UNCHANGED <<row, saved>>
  <2>1. Waits("scan")
    BY <1>3, <1>4, <1>6 DEF Waits, Inside
  <2> QED
    BY <2>1, <1>6 DEF Works
<1> QED
  BY <1>2, <1>5, <1>6

LEMMA NoClimaxWorks ==
  ASSUME SignalInv, NEW p \in Procs, pc[p] \in Inside \ {"sending"}, NoClimax(p),
         UNCHANGED <<episodes, lost>>
  PROVE  Works(p)
  BY BaselineWorks, LeaveQuits DEF NoClimax, Works, durable

\* The engine's decision, for a version of the scan's state.
LEMMA DecidesWorks ==
  ASSUME SignalInv, pc["scan"] \in Inside \ {"sending"},
         NEW s \in EventStates, Version(s, w["scan"]),
         Decides(s, {row, s}), UNCHANGED <<episodes, lost>>
  PROVE  Works("scan")
<1>1. "scan" \in Procs /\ w["scan"] \in EventStates
  BY DEF SignalInv, CoreTyped, Procs
<1>2. CASE SavesState(s) /\ UNCHANGED records
  BY <1>1, <1>2, LeaveQuits DEF SavesState, Works
<1>3. CASE Continues("scan", s, "watching") /\ UNCHANGED <<records, saved>> /\ row' \in {row, s}
  <2>1. Waits("scan")
    BY <1>3 DEF Waits, Inside
  <2> QED
    BY <2>1, <1>3 DEF Works
<1>4. CASE MayDecide(s) /\ SavesSignal("scan", "BASELINE", s, "sending") /\ row' \in {row, s}
  <2>1. "BASELINE" \in Kinds /\ "BASELINE" \in Marking /\ "BASELINE" \notin Subtypes
    BY DEF Kinds, Marking, Subtypes, Climax
  <2>2. Writes("scan")
    BY <2>1, <1>4 DEF Writes, MayDecide
  <2> QED
    BY <2>2, <1>4 DEF Works
<1> QED
  BY <1>2, <1>3, <1>4 DEF Decides

\* The evaluation stores the task's own copy, if anything.
LEMMA EvaluateWorks ==
  ASSUME SignalInv, NEW p \in Procs, Evaluate(p)
  PROVE  Works(p)
<1>1. pc[p] \in Inside \ {"sending"} /\ UNCHANGED <<episodes, lost>>
  BY DEF Evaluate, Inside, history
<1>2. w[p] \in EventStates /\ Version(w[p], w[p])
  BY <1>1, SelfVersion DEF SignalInv, CoreTyped
<1>3. CASE NoClimax(p)
  BY <1>1, <1>3, NoClimaxWorks
<1>4. CASE /\ w[p].signal = None /\ row' \in {row, w[p]}
           /\ Continues(p, w[p], "reporting") /\ UNCHANGED <<records, saved>>
  <2>1. Waits(p)
    BY <1>2, <1>4 DEF Waits, Inside
  <2> QED
    BY <2>1, <1>1, <1>2, <1>4 DEF Works
<1> QED
  BY <1>3, <1>4 DEF Evaluate

LEMMA AdmitsWorks ==
  ASSUME SignalInv, NEW p \in Procs, Admits(p)
  PROVE  Works(p)
<1>1. /\ pc[p] \in Inside \ {"sending"} /\ UNCHANGED <<episodes, lost>>
      /\ w[p] \in EventStates /\ Version(w[p], w[p]) /\ w[p].signal = None
  <2>1. /\ pc[p] = "reporting" /\ pc[p] \in Inside \ {"sending"}
        /\ UNCHANGED <<episodes, lost>>
    BY DEF Admits, Inside, history
  <2>2. w[p] \in EventStates /\ w[p].signal = None
    BY <2>1 DEF SignalInv, CoreTyped, CopyMatches
  <2> QED
    BY <2>1, <2>2, SelfVersion
<1>2. CASE NoClimax(p)
  BY <1>1, <1>2, NoClimaxWorks
<1>3. ASSUME NEW k \in Climax, ~HasSignal(w[p], k), UNCHANGED row,
             \/ /\ k = "LOW_VOLUME_EXTENSION_FAILURE"
                /\ Continues(p, w[p], "rechecking") /\ UNCHANGED <<records, saved>>
             \/ SavesSignal(p, k, w[p], "sending")
      PROVE  Works(p)
  <2>1. k \in Kinds /\ k \in Marking
    BY DEF Kinds, Marking, Subtypes
  <2>2. CASE /\ k = "LOW_VOLUME_EXTENSION_FAILURE"
             /\ Continues(p, w[p], "rechecking") /\ UNCHANGED <<records, saved>>
    <3>1. Waits(p)
      BY <2>2, <1>1, <1>3 DEF Waits, Inside
    <3> QED
      BY <3>1, <1>1, <1>3 DEF Works
  <2>3. CASE SavesSignal(p, k, w[p], "sending")
    <3>1. Writes(p)
      BY <2>1, <2>3, <1>1, <1>3 DEF Writes
    <3> QED
      BY <3>1, <1>1, <1>3 DEF Works
  <2> QED
    BY <2>2, <2>3, <1>3
<1> QED
  BY <1>2, <1>3 DEF Admits

LEMMA RecheckWorks ==
  ASSUME SignalInv, NEW p \in Procs, Recheck(p)
  PROVE  Works(p)
<1>1. /\ pc[p] \in Inside \ {"sending"} /\ UNCHANGED <<episodes, lost>>
      /\ w[p] \in EventStates /\ Version(w[p], w[p])
      /\ w[p].signal = None /\ ~HasSignal(w[p], "LOW_VOLUME_EXTENSION_FAILURE")
  <2>1. /\ pc[p] = "rechecking" /\ pc[p] \in Inside \ {"sending"}
        /\ UNCHANGED <<episodes, lost>>
    BY DEF Recheck, Inside, history
  <2>2. w[p].signal = None /\ ~HasSignal(w[p], "LOW_VOLUME_EXTENSION_FAILURE")
    BY <2>1 DEF SignalInv, CopyMatches, StillUnsignalled
  <2>3. w[p] \in EventStates
    BY <2>1 DEF SignalInv, CoreTyped
  <2> QED
    BY <2>1, <2>2, <2>3, SelfVersion
<1>2. CASE NoClimax(p)
  BY <1>1, <1>2, NoClimaxWorks
<1>3. CASE /\ SavesSignal(p, "LOW_VOLUME_EXTENSION_FAILURE", w[p], "sending")
           /\ UNCHANGED row
  <2>1. /\ "LOW_VOLUME_EXTENSION_FAILURE" \in Kinds
        /\ "LOW_VOLUME_EXTENSION_FAILURE" \in Marking
    BY DEF Kinds, Marking, Subtypes, Climax
  <2>2. Writes(p)
    BY <2>1, <1>1, <1>3 DEF Writes
  <2> QED
    BY <2>2, <1>1, <1>3 DEF Works
<1> QED
  BY <1>2, <1>3 DEF Recheck

LEMMA ZoneWorks ==
  ASSUME SignalInv, Zone \/ TrapSent
  PROVE  Works("scan")
<1>1. /\ pc["scan"] \in Inside \ {"sending"} /\ UNCHANGED <<episodes, lost>>
      /\ w["scan"] \in EventStates /\ Version(w["scan"], w["scan"])
  BY SelfVersion, ZonedVersion DEF Zone, TrapSent, SignalInv, CoreTyped, Inside, history, Procs
<1>2. CASE TrapSent
  <2>1. Decides(w["scan"], {row, w["scan"]})
    BY <1>2 DEF TrapSent, Decides
  <2> QED
    BY <2>1, <1>1, DecidesWorks
<1>3. CASE Zone
  <2>1. PICK s \in {w["scan"]} \cup
                (IF w["scan"].status = "PULLBACK_OBSERVED"
                 THEN {[w["scan"] EXCEPT !.status = "SHORT_ZONE_ACTIVE"]} ELSE {}) :
          \/ Decides(s, {row, s})
          \/ /\ ~HasSignal(s, "TRAPPED_LONGS_REVERSAL")
             /\ row' \in {row, s}
             /\ SavesSignal("scan", "TRAPPED_LONGS_REVERSAL", s, "trapping")
    BY <1>3 DEF Zone
  <2>2. Version(s, w["scan"]) /\ s \in EventStates
    BY <1>1, <2>1, SelfVersion, ZonedVersion DEF Version
  <2>3. CASE Decides(s, {row, s})
    BY <2>2, <2>3, <1>1, DecidesWorks
  <2>4. CASE /\ ~HasSignal(s, "TRAPPED_LONGS_REVERSAL")
             /\ row' \in {row, s}
             /\ SavesSignal("scan", "TRAPPED_LONGS_REVERSAL", s, "trapping")
    <3>1. "TRAPPED_LONGS_REVERSAL" \in Kinds /\ "TRAPPED_LONGS_REVERSAL" \notin Marking
      BY DEF Kinds, Marking, Subtypes, Climax
    <3>2. Writes("scan")
      BY <3>1, <2>2, <2>4 DEF Writes
    <3> QED
      BY <3>2, <2>2, <2>4, <1>1 DEF Works
  <2> QED
    BY <2>1, <2>3, <2>4
<1> QED
  BY <1>2, <1>3

LEMMA WatchWorks ==
  ASSUME SignalInv, WatchSent
  PROVE  Works("scan")
<1>1. /\ pc["scan"] \in Inside \ {"sending"} /\ UNCHANGED <<records, episodes, lost>>
      /\ w["scan"] \in EventStates /\ Version(w["scan"], w["scan"]) /\ "scan" \in Procs
      /\ row' = w["scan"] /\ Leave("scan")
  BY SelfVersion DEF WatchSent, SignalInv, CoreTyped, Inside, history, Procs, SavesState
<1> QED
  BY <1>1, LeaveQuits DEF Works

LEMMA RaisesWorks ==
  ASSUME NEW p \in Procs, Raises(p)
  PROVE  Works(p)
<1>1. "idle" \in Steps \ Inside
  BY DEF Steps, Inside
<1> QED
  BY <1>1 DEF Raises, Fault, Works, Quits, durable, Inside
\* The send ends, or the mark of its signal is lost.
LEMMA SendEndsFinishes ==
  ASSUME NEW p \in Procs, SendEnds(p)
  PROVE  Finishes(p)
  BY DEF SendEnds, Marks, Leave, Finishes, Quits, history, Steps, Inside

LEMMA MarkFailsLoses ==
  ASSUME NEW p \in Procs, MarkFails(p)
  PROVE  Loses(p)
  BY DEF MarkFails, Fault, Loses, Quits, durable, Steps, Inside

LEMMA StopShape ==
  ASSUME SignalInv, NEW p \in Procs, Stop(p)
  PROVE  Works(p) \/ Finishes(p) \/ Idles
<1>1. /\ UNCHANGED <<records, episodes, lost>>
      /\ "stopped" \in Steps \ Inside
      /\ Await(p, "stopped")
      /\ w' = [w EXCEPT ![p] = None] /\ saved' = [saved EXCEPT ![p] = None]
      /\ lane' = IF lane = p THEN None ELSE lane
  BY DEF Stop, Fault, Steps, Inside
<1>2. CoreTyped
  BY DEF SignalInv
<1>3. CASE pc[p] \in Inside
  <2>1. lane = p /\ w[p] \in EventStates
    BY <1>2, <1>3 DEF CoreTyped
  <2>2. Quits(p)
    BY <1>1, <2>1 DEF Quits, Exit
  <2>3. CASE pc[p] = "sending"
    BY <1>1, <2>2, <2>3 DEF Stop, Marks, Finishes
  <2>4. CASE pc[p] # "sending"
    <3>1. row' = row \/ row' = w[p]
      BY <2>4 DEF Stop
    <3>2. row' = row \/ Version(row', w[p])
      BY <2>1, <3>1, SelfVersion
    <3> QED
      BY <1>1, <1>3, <2>2, <2>4, <3>2 DEF Works
  <2> QED
    BY <2>3, <2>4
<1>4. CASE pc[p] \notin Inside
  <2>1. lane # p
    BY <1>2, <1>4 DEF CoreTyped
  <2>2. row' = row
    BY <1>4 DEF Stop, Inside
  <2>3. /\ \A q \in Procs \ {p} : w'[q] = w[q] /\ saved'[q] = saved[q]
        /\ w' \in [Procs -> EventStates \cup {None}]
        /\ saved' \in [Procs -> Nat \cup {None}]
    BY <1>1, <1>2 DEF CoreTyped
  <2> QED
    BY <1>1, <1>4, <2>1, <2>2, <2>3 DEF Idles
<1> QED
  BY <1>3, <1>4

\* Steps outside the lane.
LEMMA IdlesShape ==
  ASSUME SignalInv, Select \/ ScanPasses \/ Poll \/ PollSkips \/ MonitorPasses \/ Clean
  PROVE  Idles
<1>1. PICK p \in Procs : /\ pc[p] \notin Inside
                         /\ \E step \in Steps \ Inside : Await(p, step)
  BY DEF Select, ScanPasses, Poll, PollSkips, MonitorPasses, Clean, Steps, Inside, Procs
<1>2. UNCHANGED <<row, records, episodes, lost, lane, w, saved>>
  BY DEF Select, ScanPasses, Poll, PollSkips, MonitorPasses, Clean, durable, history
<1> QED
  BY <1>1, <1>2 DEF Idles, SignalInv, CoreTyped

LEMMA ScanEnters ==
  ASSUME SignalInv, ScanFinds
  PROVE  Enters("scan")
<1>1. PICK s \in {Loaded} \cup {Detected(e, episodes + 1) : e \in Events} :
          /\ s # None
          /\ s # Loaded => Loaded = None /\ episodes < MaxEpisodes
          /\ episodes' = IF s = Loaded THEN episodes ELSE episodes + 1
          /\ w' = [w EXCEPT !["scan"] = s]
  BY DEF ScanFinds
<1>2. /\ row \in EventStates \cup {None} /\ episodes \in Nat
  BY DEF SignalInv, CoreTyped
<1>3. /\ lane = None /\ lane' = "scan" /\ Await("scan", "enriching")
      /\ UNCHANGED <<row, records, saved, lost>>
  BY DEF ScanFinds, durable
<1>4. CASE s = Loaded
  <2>1. s = row
    BY <1>1, <1>4 DEF Loaded
  <2> QED
    BY <1>1, <1>2, <1>3, <1>4, <2>1 DEF Enters
<1>5. CASE s # Loaded
  <2>1. s \in EventStates /\ s.episode = episodes + 1 /\ s.signal = None
    BY <1>1, <1>2, <1>5, DetectedType
  <2> QED
    BY <1>1, <1>3, <1>5, <2>1 DEF Enters
<1> QED
  BY <1>4, <1>5

LEMMA MonitorEnters ==
  ASSUME SignalInv, MonitorFinds
  PROVE  Enters("monitor")
<1>1. row \in EventStates
  BY DEF SignalInv, CoreTyped, MonitorFinds, Stored
<1> QED
  BY <1>1 DEF MonitorFinds, Enters, durable, history

LEMMA DiesShape ==
  ASSUME SignalInv, Crash \/ Restart
  PROVE  Dies
<1>1. CASE Crash
  BY <1>1 DEF Crash, Fault, Dies
<1>2. CASE Restart
  <2>1. {q \in Procs : pc[q] = "sending"} = {}
    BY <1>2 DEF Restart
  <2> QED
    BY <1>2, <2>1 DEF Restart, Dies, history
<1> QED
  BY <1>1, <1>2

\* Every step has one of the shapes.
LEMMA Shapes ==
  ASSUME SignalInv, [Next]_vars
  PROVE  \/ Idles \/ Rests \/ Dies \/ ScanFinds \/ MonitorFinds
         \/ \E p \in Procs : Works(p) \/ Finishes(p) \/ Loses(p)
<1>0. "scan" \in Procs /\ "monitor" \in Procs
  BY DEF Procs
<1>1. CASE Select \/ ScanPasses \/ Poll \/ PollSkips \/ MonitorPasses \/ Clean
  BY <1>1, IdlesShape
<1>2. CASE Zone \/ TrapSent \/ WatchSent
  BY <1>0, <1>2, ZoneWorks, WatchWorks
<1>3. ASSUME NEW p \in Procs, Evaluate(p) \/ Admits(p) \/ Recheck(p) \/ Raises(p)
      PROVE  Works(p)
  BY <1>3, EvaluateWorks, AdmitsWorks, RecheckWorks, RaisesWorks
<1>4. ASSUME NEW p \in Procs, SendEnds(p) PROVE Finishes(p)
  BY <1>4, SendEndsFinishes
<1>5. ASSUME NEW p \in Procs, MarkFails(p) PROVE Loses(p)
  BY <1>5, MarkFailsLoses
<1>6. ASSUME NEW p \in Procs, Stop(p) PROVE Works(p) \/ Finishes(p) \/ Idles
  BY <1>6, StopShape
<1>7. CASE Crash \/ Restart
  BY <1>7, DiesShape
<1>8. CASE Expire \/ Age \/ UNCHANGED vars
  BY <1>8 DEF Expire, Age, vars, Rests, durable, memory, history
<1> QED
  BY <1>1, <1>2, <1>3, <1>4, <1>5, <1>6, <1>7, <1>8 DEF Next
-----------------------------------------------------------------------------
(***************************************************************************)
(* What the shapes preserve.                                               *)
(***************************************************************************)
LEMMA InitSignals == Init => SignalInv
<1> SUFFICES ASSUME Init PROVE SignalInv
  OBVIOUS
<1>1. CoreTyped
  BY RuntimeAssumption DEF Init, CoreTyped, Procs, Steps, Inside
<1>2. records = <<>> /\ row = None /\ \A p \in Procs : pc[p] \notin Inside
  BY DEF Init, Inside
<1>3. \A n : SignalsOf(n) = {}
  BY <1>2 DEF SignalsOf
<1> QED
  BY <1>1, <1>2, <1>3 DEF SignalInv, EpisodesKnown, RowMatches, CopyMatches, OneSignal,
                          StillUnsignalled, IdentityUnique, Inside

\* Tasks leave the lane and nothing is stored; what was being signalled is lost.
LEMMA LeavingKeepsSignals ==
  ASSUME SignalInv, UNCHANGED <<row, records, episodes>>, lost \subseteq lost',
         \A p \in Procs : pc'[p] \in Inside =>
            pc'[p] = pc[p] /\ w'[p] = w[p] /\ saved'[p] = saved[p],
         \A p \in Procs : pc[p] = "sending" =>
            pc'[p] = "sending" \/ w[p].episode \in lost'
  PROVE  /\ EpisodesKnown' /\ RowMatches' /\ CopyMatches' /\ OneSignal'
         /\ StillUnsignalled' /\ IdentityUnique'
<1>1. \A n : SignalsOf(n)' = SignalsOf(n)
  BY DEF SignalsOf
<1>2. \A s, k : HasSignal(s, k)' <=> HasSignal(s, k)
  BY DEF HasSignal
<1>3. EpisodesKnown'
  BY DEF SignalInv, EpisodesKnown
<1>4. \A n : n \notin lost' => (SendingFor(n) => SendingFor(n)')
  BY DEF SendingFor, Inside
<1>5. RowMatches'
  BY <1>1, <1>4 DEF SignalInv, RowMatches, MarksOf
<1>6. CopyMatches'
  BY <1>1 DEF SignalInv, CopyMatches, MarksOf
<1>7. OneSignal'
  BY <1>1 DEF SignalInv, OneSignal
<1>8. StillUnsignalled'
  BY <1>2 DEF SignalInv, StillUnsignalled, Inside
<1>9. IdentityUnique'
  BY DEF SignalInv, IdentityUnique
<1> QED
  BY <1>3, <1>5, <1>6, <1>7, <1>8, <1>9

LEMMA IdlesKeepsSignals ==
  ASSUME SignalInv, Idles
  PROVE  SignalInv'
<1>1. CoreTyped
  BY DEF SignalInv
<1>2. PICK p \in Procs, step \in Steps \ Inside :
          /\ pc[p] \notin Inside
          /\ Await(p, step)
          /\ UNCHANGED <<row, records, episodes, lost>>
          /\ lane' = lane
          /\ \A q \in Procs \ {p} : w'[q] = w[q] /\ saved'[q] = saved[q]
          /\ w' \in [Procs -> EventStates \cup {None}]
          /\ saved' \in [Procs -> Nat \cup {None}]
  BY DEF Idles
<1>3. /\ pc'[p] = step /\ pc' \in [Procs -> Steps]
      /\ \A q \in Procs \ {p} : pc'[q] = pc[q]
  BY <1>1, <1>2 DEF Await, CoreTyped
<1>4. CoreTyped'
  BY <1>1, <1>2, <1>3 DEF CoreTyped
<1> QED
  BY <1>2, <1>3, <1>4, LeavingKeepsSignals DEF SignalInv, Inside

LEMMA DiesKeepsSignals ==
  ASSUME SignalInv, Dies
  PROVE  SignalInv'
<1>1. CoreTyped
  BY DEF SignalInv
<1>2. /\ UNCHANGED <<row, records, episodes>>
      /\ lane' = None
      /\ pc' = [p \in Procs |-> "idle"]
      /\ w' = [p \in Procs |-> None] /\ saved' = [p \in Procs |-> None]
      /\ lost' = lost \cup {w[p].episode : p \in {q \in Procs : pc[q] = "sending"}}
  BY DEF Dies, Restarts, durable
<1>3. \A p \in Procs : pc[p] = "sending" => w[p].episode \in Nat
  BY <1>1, StateFields DEF CoreTyped, Inside
<1>4. lost' \subseteq Nat
  BY <1>1, <1>2, <1>3 DEF CoreTyped
<1>5. "idle" \in Steps \ Inside
  BY DEF Steps, Inside
<1>6. None \notin Procs
  BY RuntimeAssumption
<1>7. CoreTyped'
  BY <1>1, <1>2, <1>4, <1>5, <1>6 DEF CoreTyped
<1> QED
  BY <1>2, <1>5, <1>7, LeavingKeepsSignals DEF SignalInv

\* What leaving the lane does to the variables.
LEMMA QuitsTyped ==
  ASSUME CoreTyped, NEW p \in Procs, pc[p] \in Inside, Quits(p),
         row' \in EventStates \cup {None}, episodes' = episodes, lost' \subseteq Nat
  PROVE  /\ CoreTyped'
         /\ \A q \in Procs : pc[q] \in Inside => q = p
         /\ \A q \in Procs : pc'[q] \notin Inside
         /\ UNCHANGED records
<1>1. PICK step \in Steps \ Inside : Exit(p, step) /\ UNCHANGED records
  BY DEF Quits
<1>2. /\ lane' = None /\ pc' = [pc EXCEPT ![p] = step]
      /\ w' = [w EXCEPT ![p] = None] /\ saved' = [saved EXCEPT ![p] = None]
  BY <1>1 DEF Exit, Await
<1>3. lane = p /\ \A q \in Procs : pc[q] \in Inside => q = p
  BY DEF CoreTyped
<1>4. /\ pc' \in [Procs -> Steps]
      /\ \A q \in Procs : pc'[q] \notin Inside
  BY <1>2, <1>3 DEF CoreTyped
<1>5. None \notin Procs
  BY RuntimeAssumption
<1>6. CoreTyped'
  BY <1>1, <1>2, <1>4, <1>5 DEF CoreTyped
<1> QED
  BY <1>1, <1>3, <1>4, <1>6

LEMMA LosesKeepsSignals ==
  ASSUME SignalInv, NEW p \in Procs, Loses(p)
  PROVE  SignalInv'
<1>1. CoreTyped
  BY DEF SignalInv
<1>2. /\ pc[p] \in Inside /\ UNCHANGED <<row, episodes>>
      /\ lost' = lost \cup {w[p].episode} /\ Quits(p)
  BY DEF Loses, Inside
<1>3. w[p].episode \in Nat
  BY <1>1, <1>2, StateFields DEF CoreTyped
<1>4. /\ CoreTyped'
      /\ \A q \in Procs : pc[q] \in Inside => q = p
      /\ \A q \in Procs : pc'[q] \notin Inside
      /\ UNCHANGED records
  BY <1>1, <1>2, <1>3, QuitsTyped DEF CoreTyped
<1> QED
  BY <1>2, <1>4, LeavingKeepsSignals DEF SignalInv, Inside

LEMMA FinishesKeepsSignals ==
  ASSUME SignalInv, NEW p \in Procs, Finishes(p)
  PROVE  SignalInv'
<1>1. CoreTyped /\ EpisodesKnown /\ RowMatches /\ CopyMatches /\ OneSignal /\ IdentityUnique
  BY DEF SignalInv
<1>2. /\ pc[p] = "sending" /\ pc[p] \in Inside /\ UNCHANGED <<episodes, lost>>
      /\ row' = Marked(w[p], saved[p]) /\ Quits(p)
  BY DEF Finishes, Inside
<1>3. w[p] \in EventStates /\ saved[p] \in DOMAIN records /\ saved[p] \in Nat
  <2>1. w[p] \in EventStates
    BY <1>1, <1>2 DEF CoreTyped
  <2>2. saved[p] \in DOMAIN records
    BY <1>1, <1>2 DEF CopyMatches
  <2> QED
    BY <1>1, <2>1, <2>2 DEF CoreTyped
<1>4. /\ row' \in EventStates /\ row'.episode = w[p].episode /\ row'.signal = saved[p]
      /\ row' # None /\ saved[p] # None
  BY <1>2, <1>3, StateFields, MarkedFields, RuntimeAssumption
<1>5. /\ CoreTyped'
      /\ \A q \in Procs : pc'[q] \notin Inside
      /\ UNCHANGED records
  BY <1>1, <1>2, <1>4, QuitsTyped DEF CoreTyped
<1>6. \A n : SignalsOf(n)' = SignalsOf(n)
  BY <1>5 DEF SignalsOf
<1>7. EpisodesKnown'
  BY <1>1, <1>2, <1>4, <1>5 DEF EpisodesKnown
<1>8. RowMatches'
  <2>1. w[p].episode \notin lost => SignalsOf(w[p].episode) = {saved[p]}
    BY <1>1, <1>2 DEF CopyMatches
  <2> QED
    BY <2>1, <1>2, <1>4, <1>6 DEF RowMatches, MarksOf
<1>9. CopyMatches' /\ OneSignal' /\ StillUnsignalled' /\ IdentityUnique'
  BY <1>1, <1>2, <1>5, <1>6 DEF CopyMatches, OneSignal, StillUnsignalled, IdentityUnique, Inside
<1> QED
  BY <1>5, <1>7, <1>8, <1>9 DEF SignalInv
\* What is known of a working task before it steps, and of the stored state
\* after.
LEMMA WorksFrom ==
  ASSUME SignalInv, NEW p \in Procs, Works(p)
  PROVE  /\ pc[p] \in Inside \ {"sending"} /\ lane = p
         /\ \A q \in Procs : pc[q] \in Inside => q = p
         /\ UNCHANGED <<episodes, lost>>
         /\ w[p] \in EventStates /\ w[p].episode <= episodes
         /\ row # None /\ row.episode = w[p].episode => row.signal = w[p].signal
         /\ w[p].episode \notin lost => SignalsOf(w[p].episode) = MarksOf(w[p])
         /\ row' \in EventStates \cup {None}
         /\ row' # None => /\ row'.episode <= episodes
                           /\ row'.episode = w[p].episode => row'.signal = w[p].signal
                           /\ row'.episode # w[p].episode => row' = row
<1>1. /\ pc[p] \in Inside \ {"sending"} /\ UNCHANGED <<episodes, lost>>
      /\ row' = row \/ Version(row', w[p])
  BY DEF Works
<1>2. /\ lane = p /\ w[p] \in EventStates
      /\ \A q \in Procs : pc[q] \in Inside => q = p
      /\ row \in EventStates \cup {None}
  BY <1>1 DEF SignalInv, CoreTyped
<1>3. /\ w[p].episode <= episodes
      /\ row # None => row.episode <= episodes
  BY <1>1 DEF SignalInv, EpisodesKnown
<1>4. /\ row # None /\ row.episode = w[p].episode => row.signal = w[p].signal
      /\ w[p].episode \notin lost => SignalsOf(w[p].episode) = MarksOf(w[p])
  BY <1>1 DEF SignalInv, CopyMatches
<1>5. row' \in EventStates \cup {None}
  BY <1>1, <1>2 DEF Version
<1>6. row' # None => /\ row'.episode <= episodes
                     /\ row'.episode = w[p].episode => row'.signal = w[p].signal
                     /\ row'.episode # w[p].episode => row' = row
  BY <1>1, <1>3, <1>4 DEF Version
<1> QED
  BY <1>1, <1>2, <1>3, <1>4, <1>5, <1>6

\* The task quits, having saved its state or not.
LEMMA QuitsKeepsSignals ==
  ASSUME SignalInv, NEW p \in Procs, Works(p), Quits(p)
  PROVE  SignalInv'
<1>1. CoreTyped /\ EpisodesKnown /\ RowMatches /\ OneSignal /\ IdentityUnique
  BY DEF SignalInv
<1>2. /\ pc[p] \in Inside \ {"sending"}
      /\ \A q \in Procs : pc[q] \in Inside => q = p
      /\ UNCHANGED <<episodes, lost>>
      /\ w[p].episode \notin lost => SignalsOf(w[p].episode) = MarksOf(w[p])
      /\ row' \in EventStates \cup {None}
      /\ row' # None => /\ row'.episode <= episodes
                        /\ row'.episode = w[p].episode => row'.signal = w[p].signal
                        /\ row'.episode # w[p].episode => row' = row
  BY WorksFrom
<1>3. CoreTyped' /\ UNCHANGED records /\ \A q \in Procs : pc'[q] \notin Inside
  BY <1>1, <1>2, QuitsTyped DEF CoreTyped
<1>4. \A n : SignalsOf(n)' = SignalsOf(n)
  BY <1>3 DEF SignalsOf
<1>5. \A n : ~SendingFor(n)
  BY <1>2 DEF SendingFor, Inside
<1>6. EpisodesKnown'
  BY <1>1, <1>2, <1>3 DEF EpisodesKnown
<1>7. RowMatches'
  BY <1>1, <1>2, <1>4, <1>5 DEF RowMatches, MarksOf
<1>8. CopyMatches' /\ OneSignal' /\ StillUnsignalled' /\ IdentityUnique'
  BY <1>1, <1>2, <1>3, <1>4 DEF CopyMatches, OneSignal, StillUnsignalled, IdentityUnique, Inside
<1> QED
  BY <1>3, <1>6, <1>7, <1>8 DEF SignalInv

\* What going on with version s of its state does to the variables.
LEMMA ContinuesTyped ==
  ASSUME CoreTyped, NEW p \in Procs, lane = p, NEW s \in EventStates,
         NEW step \in Inside, Continues(p, s, step),
         row' \in EventStates \cup {None}, records' \in Seq(Rows),
         saved' \in [Procs -> Nat \cup {None}], UNCHANGED <<episodes, lost>>
  PROVE  /\ CoreTyped'
         /\ pc'[p] = step /\ w'[p] = s
         /\ \A q \in Procs : pc'[q] \in Inside => q = p
<1>1. /\ lane' = p /\ pc' = [pc EXCEPT ![p] = step] /\ w' = [w EXCEPT ![p] = s]
  BY DEF Continues, Await
<1>2. /\ pc'[p] = step /\ w'[p] = s /\ step \in Steps
      /\ \A q \in Procs \ {p} : pc'[q] = pc[q] /\ w'[q] = w[q]
  BY <1>1 DEF CoreTyped, Steps
<1>3. \A q \in Procs : pc'[q] \in Inside <=> q = p
  BY <1>2 DEF CoreTyped
<1>4. s # None
  BY StateFields
<1>5. /\ pc' \in [Procs -> Steps]
      /\ w' \in [Procs -> EventStates \cup {None}]
  BY <1>1, <1>2 DEF CoreTyped
<1>6. CoreTyped'
  BY <1>1, <1>2, <1>3, <1>4, <1>5 DEF CoreTyped
<1> QED
  BY <1>2, <1>3, <1>6

\* The task waits with a version of its state.
LEMMA WaitsKeepsSignals ==
  ASSUME SignalInv, NEW p \in Procs, Works(p), Waits(p)
  PROVE  SignalInv'
<1>1. CoreTyped /\ EpisodesKnown /\ RowMatches /\ CopyMatches /\ OneSignal /\ IdentityUnique
  BY DEF SignalInv
<1>2. /\ pc[p] \in Inside \ {"sending"} /\ lane = p
      /\ \A q \in Procs : pc[q] \in Inside => q = p
      /\ UNCHANGED <<episodes, lost>>
      /\ w[p].episode <= episodes
      /\ w[p].episode \notin lost => SignalsOf(w[p].episode) = MarksOf(w[p])
      /\ row' \in EventStates \cup {None}
      /\ row' # None => /\ row'.episode <= episodes
                        /\ row'.episode = w[p].episode => row'.signal = w[p].signal
                        /\ row'.episode # w[p].episode => row' = row
  BY WorksFrom
<1>3. PICK s \in EventStates, step \in Inside \ {"sending"} :
         /\ Version(s, w[p])
         /\ Continues(p, s, step)
         /\ step \in {"reporting", "rechecking"} => s.signal = None
         /\ step = "rechecking" => ~HasSignal(s, "LOW_VOLUME_EXTENSION_FAILURE")
         /\ UNCHANGED <<records, saved>>
  BY DEF Waits
<1>4. s.episode = w[p].episode /\ s.signal = w[p].signal
  BY <1>3 DEF Version
<1>5. /\ CoreTyped' /\ pc'[p] = step /\ w'[p] = s
      /\ \A q \in Procs : pc'[q] \in Inside => q = p
  BY <1>1, <1>2, <1>3, ContinuesTyped DEF CoreTyped
<1>6. \A n : SignalsOf(n)' = SignalsOf(n)
  BY <1>3 DEF SignalsOf
<1>7. \A n : ~SendingFor(n)
  BY <1>2 DEF SendingFor, Inside
<1>8. EpisodesKnown'
  BY <1>1, <1>2, <1>3, <1>4, <1>5 DEF EpisodesKnown
<1>9. RowMatches'
  BY <1>1, <1>2, <1>6, <1>7 DEF RowMatches, MarksOf
<1>10. CopyMatches'
  <2>1. s.episode \notin lost' => SignalsOf(s.episode)' = MarksOf(s)
    BY <1>2, <1>4, <1>6 DEF MarksOf
  <2>2. SignalsOf(w[p].episode)' = SignalsOf(s.episode)'
    BY <1>5 DEF SignalsOf
  <2>3. MarksOf(w[p])' = MarksOf(s)
    BY <1>5 DEF MarksOf
  <2> QED
    BY <1>2, <1>3, <1>4, <1>5, <2>1, <2>2, <2>3 DEF CopyMatches
<1>11. OneSignal' /\ IdentityUnique'
  BY <1>1, <1>2, <1>3, <1>6 DEF OneSignal, IdentityUnique
<1>12. StillUnsignalled'
  <2>1. \A k : HasSignal(s, k)' <=> HasSignal(s, k)
    BY <1>3 DEF HasSignal
  <2>2. HasSignal(w[p], "LOW_VOLUME_EXTENSION_FAILURE")'
           <=> HasSignal(s, "LOW_VOLUME_EXTENSION_FAILURE")
    BY <1>5, <2>1 DEF HasSignal
  <2>3. ASSUME NEW q \in Procs, pc'[q] = "rechecking"
        PROVE  ~HasSignal(w[q], "LOW_VOLUME_EXTENSION_FAILURE")'
    BY <1>3, <1>5, <2>2, <2>3 DEF Inside
  <2> QED
    BY <2>3 DEF StillUnsignalled
<1> QED
  BY <1>5, <1>8, <1>9, <1>10, <1>11, <1>12 DEF SignalInv
\* A row is written: it joins the signals of its episode if it marks.
LEMMA AppendSignals ==
  ASSUME records \in Seq(Rows), NEW r \in Rows, records' = Append(records, r)
  PROVE  /\ records' \in Seq(Rows) /\ Len(records') = Len(records) + 1
         /\ DOMAIN records' = DOMAIN records \cup {Len(records')}
         /\ \A i \in DOMAIN records : records'[i] = records[i]
         /\ records'[Len(records')] = r
         /\ Len(records') \notin DOMAIN records
         /\ \A n : SignalsOf(n)' = IF r.episode = n /\ r.kind \in Marking
                                   THEN SignalsOf(n) \cup {Len(records')}
                                   ELSE SignalsOf(n)
<1>1. /\ records' \in Seq(Rows) /\ Len(records') = Len(records) + 1
      /\ \A i \in DOMAIN records : records'[i] = records[i]
      /\ records'[Len(records')] = r
  OBVIOUS
<1>2. /\ DOMAIN records' = DOMAIN records \cup {Len(records')}
      /\ Len(records') \notin DOMAIN records
  <2>1. Len(records) \in Nat /\ DOMAIN records = 1..Len(records)
    OBVIOUS
  <2>2. DOMAIN records' = 1..Len(records')
    BY <1>1
  <2> QED
    BY <1>1, <2>1, <2>2
<1>3. ASSUME NEW n
      PROVE  SignalsOf(n)' = IF r.episode = n /\ r.kind \in Marking
                             THEN SignalsOf(n) \cup {Len(records')}
                             ELSE SignalsOf(n)
  BY <1>1, <1>2 DEF SignalsOf
<1> QED
  BY <1>1, <1>2, <1>3

\* The task writes a row: a marking one for an event that had none, or a row of
\* a subtype the event had none of.
LEMMA WritesKeepsSignals ==
  ASSUME SignalInv, NEW p \in Procs, Works(p), Writes(p)
  PROVE  SignalInv'
<1>1. CoreTyped /\ EpisodesKnown /\ RowMatches /\ CopyMatches /\ OneSignal /\ IdentityUnique
  BY DEF SignalInv
<1>2. /\ pc[p] \in Inside \ {"sending"} /\ lane = p
      /\ \A q \in Procs : pc[q] \in Inside => q = p
      /\ UNCHANGED <<episodes, lost>>
      /\ w[p].episode <= episodes
      /\ w[p].episode \notin lost => SignalsOf(w[p].episode) = MarksOf(w[p])
      /\ row' \in EventStates \cup {None}
      /\ row' # None => /\ row'.episode <= episodes
                        /\ row'.episode = w[p].episode => row'.signal = w[p].signal
                        /\ row'.episode # w[p].episode => row' = row
  BY WorksFrom
<1>3. PICK s \in EventStates, k \in Kinds :
         /\ Version(s, w[p])
         /\ k \in Subtypes => ~HasSignal(s, k)
         /\ k \in Marking => s.signal = None
         /\ SavesSignal(p, k, s, IF k \in Marking THEN "sending" ELSE "trapping")
  BY DEF Writes
<1> DEFINE r == [event |-> s.event, episode |-> s.episode, kind |-> k]
           step == IF k \in Marking THEN "sending" ELSE "trapping"
<1>4. /\ s.episode = w[p].episode /\ s.signal = w[p].signal
      /\ s.event \in Events /\ s.episode \in Nat
  BY <1>3, StateFields DEF Version
<1>5. /\ r \in Rows /\ r.event = s.event /\ r.episode = s.episode /\ r.kind = k
      /\ records \in Seq(Rows)
  BY <1>1, <1>4 DEF Rows, CoreTyped
<1>6. /\ records' = Append(records, r)
      /\ saved' = [saved EXCEPT ![p] = IF k \in Marking THEN Len(records') ELSE @]
      /\ Continues(p, s, step)
  BY <1>3 DEF SavesSignal
<1>7. step \in Inside \ {"reporting", "rechecking"} /\ (step = "sending" <=> k \in Marking)
  BY DEF Inside
<1> HIDE DEF r, step
<1>8. /\ records' \in Seq(Rows) /\ Len(records') \in Nat
      /\ DOMAIN records' = DOMAIN records \cup {Len(records')}
      /\ \A i \in DOMAIN records : records'[i] = records[i]
      /\ records'[Len(records')] = r
      /\ Len(records') \notin DOMAIN records
      /\ \A n : SignalsOf(n)' = IF r.episode = n /\ r.kind \in Marking
                                THEN SignalsOf(n) \cup {Len(records')}
                                ELSE SignalsOf(n)
  BY <1>5, <1>6, AppendSignals
<1>9. saved' \in [Procs -> Nat \cup {None}] /\ (k \in Marking => saved'[p] = Len(records'))
  BY <1>1, <1>6, <1>8 DEF CoreTyped
<1>10. /\ CoreTyped' /\ pc'[p] = step /\ w'[p] = s
       /\ \A q \in Procs : pc'[q] \in Inside => q = p
  BY <1>1, <1>2, <1>6, <1>7, <1>8, <1>9, ContinuesTyped
<1>11. EpisodesKnown'
  BY <1>1, <1>2, <1>4, <1>5, <1>8, <1>10 DEF EpisodesKnown
<1>12. \A n : n # s.episode => SignalsOf(n)' = SignalsOf(n)
  BY <1>5, <1>8
<1>13. s.episode \notin lost =>
          SignalsOf(s.episode)' = IF k \in Marking THEN {Len(records')} ELSE MarksOf(s)
  <2>1. s.episode \notin lost => SignalsOf(s.episode) = MarksOf(s)
    BY <1>2, <1>4 DEF MarksOf
  <2>2. k \in Marking => MarksOf(s) = {}
    BY <1>3 DEF MarksOf
  <2> QED
    BY <1>5, <1>8, <2>1, <2>2
<1>14. RowMatches'
  <2>1. SendingFor(s.episode)' <=> k \in Marking
    BY <1>7, <1>10 DEF SendingFor, Inside
  <2>2. \A n : ~SendingFor(n)
    BY <1>2 DEF SendingFor, Inside
  <2>3. CASE row' # None /\ row'.episode = s.episode
    <3>1. row'.signal = s.signal
      BY <1>2, <1>4, <2>3
    <3>2. MarksOf(row') = MarksOf(s)
      BY <3>1 DEF MarksOf
    <3>3. SignalsOf(row.episode)' = SignalsOf(s.episode)' /\ MarksOf(row)' = MarksOf(row')
          /\ SendingFor(row.episode)' = SendingFor(s.episode)'
      BY <2>3 DEF SignalsOf, MarksOf, SendingFor
    <3> QED
      BY <1>2, <1>13, <2>1, <2>3, <3>2, <3>3 DEF RowMatches
  <2>4. CASE row' # None /\ row'.episode # s.episode
    <3>1. row' = row
      BY <1>2, <1>4, <2>4
    <3>2. SignalsOf(row.episode)' = SignalsOf(row.episode)
      <4>1. SignalsOf(row.episode)' = {i \in DOMAIN records' :
                 records'[i].episode = row.episode /\ records'[i].kind \in Marking}
        BY <3>1 DEF SignalsOf
      <4>2. \A n : SignalsOf(n)' = {i \in DOMAIN records' :
                 records'[i].episode = n /\ records'[i].kind \in Marking}
        BY DEF SignalsOf
      <4> QED
        BY <1>5, <1>8, <2>4, <3>1, <4>1 DEF SignalsOf
    <3> QED
      BY <1>1, <1>2, <2>2, <2>4, <3>1, <3>2 DEF RowMatches, MarksOf
  <2> QED
    BY <2>3, <2>4 DEF RowMatches
<1>15. CopyMatches'
  <2>1. SignalsOf(w[p].episode)' = SignalsOf(s.episode)'
    BY <1>10 DEF SignalsOf
  <2>2. MarksOf(w[p])' = MarksOf(s)
    BY <1>10 DEF MarksOf
  <2>3. k \in Marking => saved'[p] \in DOMAIN records' /\ s.signal = None
    BY <1>3, <1>8, <1>9
  <2> QED
    BY <1>2, <1>4, <1>7, <1>9, <1>10, <1>13, <2>1, <2>2, <2>3 DEF CopyMatches
<1>16. OneSignal'
  <2> SUFFICES ASSUME NEW n \in Nat, n \notin lost' PROVE \A i, j \in SignalsOf(n)' : i = j
    BY DEF OneSignal
  <2>1. CASE n = s.episode
    BY <1>2, <1>13, <2>1 DEF MarksOf
  <2>2. CASE n # s.episode
    BY <1>1, <1>2, <1>12, <2>2 DEF OneSignal
  <2> QED
    BY <2>1, <2>2
<1>17. StillUnsignalled'
  BY <1>7, <1>10 DEF StillUnsignalled, Inside
<1>18. IdentityUnique'
  <2>1. k \in Subtypes => \A i \in DOMAIN records :
           ~(records[i].event = s.event /\ records[i].kind = k)
    BY <1>3 DEF HasSignal
  <2> QED
    BY <1>1, <1>5, <1>8, <2>1 DEF IdentityUnique
<1> QED
  BY <1>10, <1>11, <1>14, <1>15, <1>16, <1>17, <1>18 DEF SignalInv

\* A task enters the lane: nobody is sending, so the stored state is marked
\* right, and a new episode has no signal.
LEMMA EntersKeepsSignals ==
  ASSUME SignalInv, NEW p \in Procs, Enters(p)
  PROVE  SignalInv'
<1>1. CoreTyped /\ EpisodesKnown /\ RowMatches /\ OneSignal /\ IdentityUnique
  BY DEF SignalInv
<1>2. PICK s \in EventStates :
         /\ lane = None
         /\ \/ s = row /\ episodes' = episodes
            \/ /\ episodes' = episodes + 1
               /\ s.episode = episodes + 1 /\ s.signal = None
         /\ lane' = p
         /\ w' = [w EXCEPT ![p] = s]
         /\ Await(p, "enriching")
         /\ UNCHANGED <<row, records, saved, lost>>
  BY DEF Enters
<1>3. /\ \A q \in Procs : pc[q] \notin Inside
      /\ s # None /\ s.episode \in Nat /\ episodes \in Nat
  <2>1. None \notin Procs
    BY RuntimeAssumption
  <2> QED
    BY <1>1, <1>2, <2>1, StateFields DEF CoreTyped
<1>4. /\ pc' \in [Procs -> Steps] /\ w' \in [Procs -> EventStates \cup {None}]
      /\ pc'[p] = "enriching" /\ w'[p] = s
      /\ \A q \in Procs : pc'[q] \in Inside <=> q = p
  BY <1>1, <1>2, <1>3 DEF CoreTyped, Await, Steps, Inside
<1>5. episodes' \in Nat /\ episodes <= episodes'
  BY <1>2, <1>3
<1>6. CoreTyped'
  BY <1>1, <1>2, <1>3, <1>4, <1>5 DEF CoreTyped
<1>7. \A n : SignalsOf(n)' = SignalsOf(n)
  BY <1>2 DEF SignalsOf
<1>8. row # None => row.episode \in Nat /\ row.episode <= episodes
  BY <1>1, StateFields DEF CoreTyped, EpisodesKnown
<1>9. \A i \in DOMAIN records : records[i].episode \in Nat /\ records[i].episode <= episodes
  <2> TAKE i \in DOMAIN records
  <2>1. records[i] \in Rows
    BY <1>1 DEF CoreTyped
  <2> QED
    BY <1>1, <2>1 DEF Rows, EpisodesKnown
<1>10. s.episode <= episodes'
  <2>1. CASE s = row /\ episodes' = episodes
    BY <1>3, <1>8, <2>1
  <2>2. CASE episodes' = episodes + 1 /\ s.episode = episodes + 1
    BY <1>3, <2>2
  <2> QED
    BY <1>2, <2>1, <2>2
<1>11. EpisodesKnown'
  BY <1>2, <1>3, <1>4, <1>5, <1>8, <1>9, <1>10 DEF EpisodesKnown
<1>12. \A n : ~SendingFor(n) /\ ~SendingFor(n)'
  BY <1>3, <1>4 DEF SendingFor, Inside
<1>13. RowMatches'
  BY <1>1, <1>2, <1>7, <1>12 DEF RowMatches, MarksOf
<1>14. /\ row # None /\ row.episode = s.episode => row.signal = s.signal
       /\ s.episode \notin lost => SignalsOf(s.episode) = MarksOf(s)
  <2>1. CASE s = row
    BY <1>1, <1>3, <1>12, <2>1 DEF RowMatches
  <2>2. CASE s.episode = episodes + 1 /\ s.signal = None
    BY <1>3, <1>8, <1>9, <2>2 DEF SignalsOf, MarksOf
  <2> QED
    BY <1>2, <2>1, <2>2
<1>15. CopyMatches'
  <2>1. SignalsOf(w[p].episode)' = SignalsOf(s.episode)'
    BY <1>4 DEF SignalsOf
  <2>2. MarksOf(w[p])' = MarksOf(s)
    BY <1>4 DEF MarksOf
  <2> QED
    BY <1>2, <1>4, <1>7, <1>14, <2>1, <2>2 DEF CopyMatches
<1>16. OneSignal' /\ IdentityUnique' /\ StillUnsignalled'
  BY <1>1, <1>2, <1>4, <1>7 DEF OneSignal, IdentityUnique, StillUnsignalled, Inside
<1> QED
  BY <1>6, <1>11, <1>13, <1>15, <1>16 DEF SignalInv

LEMMA NextSignals == SignalInv /\ [Next]_vars => SignalInv'
<1> SUFFICES ASSUME SignalInv, [Next]_vars PROVE SignalInv'
  OBVIOUS
<1>1. CASE Idles
  BY <1>1, IdlesKeepsSignals
<1>2. CASE Rests
  BY <1>2, LeavingKeepsSignals DEF Rests, SignalInv, CoreTyped
<1>3. CASE Dies
  BY <1>3, DiesKeepsSignals
<1>4. CASE ScanFinds \/ MonitorFinds
  BY <1>4, ScanEnters, MonitorEnters, EntersKeepsSignals DEF Procs
<1>5. ASSUME NEW p \in Procs, Works(p) PROVE SignalInv'
  BY <1>5, QuitsKeepsSignals, WaitsKeepsSignals, WritesKeepsSignals DEF Works
<1>6. ASSUME NEW p \in Procs, Finishes(p) PROVE SignalInv'
  BY <1>6, FinishesKeepsSignals
<1>7. ASSUME NEW p \in Procs, Loses(p) PROVE SignalInv'
  BY <1>7, LosesKeepsSignals
<1> QED
  BY <1>1, <1>2, <1>3, <1>4, <1>5, <1>6, <1>7, Shapes

LEMMA SignalsInvariant == Spec => []SignalInv
<1> QED
  BY InitSignals, NextSignals, PTL DEF Spec
-----------------------------------------------------------------------------
(***************************************************************************)
(* The theorems.                                                           *)
(***************************************************************************)
\* A tracked event is signalled at most once by the branches that mark it, for
\* any events and any number of episodes, signals and faults, unless its mark
\* was lost.
THEOREM SignalledOnce == Spec => []OneSignalPerEpisode
<1>1. SignalInv => OneSignalPerEpisode
  <2> SUFFICES ASSUME SignalInv, NEW n \in 1..episodes, n \notin lost
               PROVE  Cardinality(SignalsOf(n)) <= 1
    BY DEF OneSignalPerEpisode
  <2>1. n \in Nat
    BY DEF SignalInv, CoreTyped
  <2>2. \A i, j \in SignalsOf(n) : i = j
    BY <2>1 DEF SignalInv, OneSignal
  <2>3. CASE SignalsOf(n) = {}
    BY <2>3, FS_EmptySet
  <2>4. CASE SignalsOf(n) # {}
    <3>1. PICK i \in SignalsOf(n) : TRUE
      BY <2>4
    <3>2. SignalsOf(n) = {i}
      BY <2>2, <3>1
    <3>3. Cardinality(SignalsOf(n)) = 1
      BY <3>2, FS_Singleton
    <3> QED
      BY <3>3
  <2> QED
    BY <2>3, <2>4
<1> QED
  BY <1>1, SignalsInvariant, PTL

\* The insert of a signal with a subtype never meets its unique constraint,
\* though the check and the insert are two statements, with awaits between.
THEOREM SubtypeOnce == Spec => []IdentityUnique
  BY SignalsInvariant, PTL DEF SignalInv

\* Between sends the stored state bears the signal of its episode, and no other.
THEOREM MarkIsExact == Spec => []MarkMatchesSignal
<1>1. SignalInv => MarkMatchesSignal
  BY DEF SignalInv, RowMatches, MarkMatchesSignal, SendingFor, MarksOf
<1> QED
  BY <1>1, SignalsInvariant, PTL
\* No step overwrites the mark of an episode, though every task writes back
\* whole copies it read before its awaits: a copy still agrees with the row.
LEMMA StepKeepsMark ==
  ASSUME SignalInv, [Next]_vars, row # None, row.signal # None,
         row'.episode = row.episode
  PROVE  row'.signal = row.signal
<1>1. CASE UNCHANGED row
  BY <1>1
<1>2. ASSUME NEW p \in Procs, Works(p) PROVE row'.signal = row.signal
  BY <1>2, WorksFrom DEF Works, Version
<1>3. ASSUME NEW p \in Procs, Finishes(p) PROVE FALSE
  <2>1. /\ pc[p] = "sending" /\ pc[p] \in Inside /\ row' = Marked(w[p], saved[p])
    BY <1>3 DEF Finishes, Inside
  <2>2. w[p] \in EventStates
    BY <2>1 DEF SignalInv, CoreTyped
  <2>3. /\ row.episode = w[p].episode => row.signal = w[p].signal
        /\ w[p].signal = None /\ saved[p] \in DOMAIN records
    BY <2>1 DEF SignalInv, CopyMatches
  <2>4. saved[p] \in Nat
    BY <2>3 DEF SignalInv, CoreTyped
  <2> QED
    BY <2>1, <2>2, <2>3, <2>4, MarkedFields
<1>4. ASSUME NEW p \in Procs, Loses(p) PROVE UNCHANGED row
  BY <1>4 DEF Loses
<1>5. CASE Idles \/ Rests \/ Dies \/ ScanFinds \/ MonitorFinds
  BY <1>1, <1>5 DEF Idles, Rests, Dies, Restarts, ScanFinds, MonitorFinds, durable
<1> QED
  BY <1>1, <1>2, <1>3, <1>4, <1>5, Shapes

\* Once an episode is marked with a signal, no step changes that mark.
THEOREM MarkStays == Spec => MarkIsKept
<1>1. SignalInv /\ [Next]_vars =>
         [row # None /\ row.signal # None /\ row'.episode = row.episode
             => row'.signal = row.signal]_row
  BY StepKeepsMark
<1> QED
  BY <1>1, SignalsInvariant, PTL DEF Spec, MarkIsKept

\* The pool holds events, the rest what its type says.
LEMMA NextRest ==
  ASSUME CoreTyped, RestTyped, [Next]_vars
  PROVE  RestTyped'
<1> USE DEF RestTyped, memory, history, durable
<1>1. CASE Select \/ ScanPasses \/ Zone \/ TrapSent \/ WatchSent
  BY <1>1 DEF Select, ScanPasses, Zone, TrapSent, WatchSent, CoreTyped
<1>2. CASE Poll \/ PollSkips \/ MonitorFinds \/ MonitorPasses \/ Clean
  BY <1>2 DEF Poll, PollSkips, MonitorFinds, MonitorPasses, Clean, Forget
<1>3. CASE ScanFinds
  <2>1. PICK s \in {Loaded} \cup {Detected(e, episodes + 1) : e \in Events} :
            s # None /\ Track(s)
    BY <1>3 DEF ScanFinds
  <2>2. s \in EventStates
    BY <2>1, DetectedType DEF Loaded, CoreTyped
  <2>3. chosen' \in EventStates \cup {None} /\ UNCHANGED <<due, faults, key>>
    BY <1>3 DEF ScanFinds, Loaded, CoreTyped
  <2> QED
    BY <2>1, <2>2, <2>3, StateFields DEF Track
<1>4. ASSUME NEW p \in Procs, \/ Evaluate(p) \/ Admits(p) \/ Recheck(p)
                               \/ MarkFails(p) \/ Raises(p)
      PROVE  RestTyped'
  BY <1>4 DEF Evaluate, Admits, Recheck, MarkFails, Raises, Forget, Fault
<1>5. ASSUME NEW p \in Procs, SendEnds(p) \/ Stop(p) PROVE RestTyped'
  BY <1>5 DEF SendEnds, Stop, Marks, Forget, Fault
<1>6. CASE Crash \/ Restart
  BY <1>6 DEF Crash, Restart, Restarts, Fault
<1>7. CASE Expire \/ Age \/ UNCHANGED vars
  BY <1>7 DEF Expire, Age, vars
<1> QED
  BY <1>1, <1>2, <1>3, <1>4, <1>5, <1>6, <1>7 DEF Next

\* Every variable keeps its type, and the lane belongs to the task inside it.
THEOREM RuntimeTyped == Spec => []TypeOK
<1>1. Init => RestTyped
  BY DEF Init, RestTyped
<1>2. SignalInv /\ RestTyped /\ [Next]_vars => RestTyped'
  BY NextRest DEF SignalInv
<1>3. SignalInv /\ RestTyped => TypeOK
  BY TypesSplit DEF SignalInv
<1> QED
  BY <1>1, <1>2, <1>3, SignalsInvariant, PTL DEF Spec
-----------------------------------------------------------------------------
(***************************************************************************)
(* The candidates.  While nothing has failed the scan never leaves the     *)
(* lane without saving the state it tracked, and the monitor, which may,   *)
(* works on the stored event.                                              *)
(***************************************************************************)
CandidatesOK ==
    /\ pc["scan"] = "stopped" => faults # 0
    /\ faults = 0 =>
          /\ lane = None => \A e \in pool : Stored(e)
          /\ \A p \in Procs : pc[p] \in Inside => \A e \in pool : e = w[p].event
          /\ pc["monitor"] \in Inside => Stored(w["monitor"].event)

\* What a step other than finding an event does to the candidates: if the scan
\* leaves, the stored state is of the event it worked on.
SavesEvent == row' # None /\ row'.event = w["scan"].event

PoolStep == \/ Fault
            \/ /\ faults' = faults /\ pool' \subseteq pool
               /\ pc'["scan"] = "stopped" => pc["scan"] = "stopped"
               /\ pc["scan"] \in Inside =>
                     pc'["scan"] \in Inside \/ SavesEvent

LEMMA ScanMoves ==
  ASSUME SignalInv
  PROVE  /\ \A s, step : Continues("scan", s, step) => pc'["scan"] = step
         /\ \A step : Exit("scan", step) => pc'["scan"] = step
         /\ \A s : SavesState(s) /\ Version(s, w["scan"]) =>
               SavesEvent /\ pc'["scan"] = "idle"
<1>1. pc \in [Procs -> Steps] /\ "scan" \in Procs
  BY DEF SignalInv, CoreTyped, Procs
<1>2. \A step : Await("scan", step) => pc'["scan"] = step
  BY <1>1 DEF Await
<1>3. \A s : Version(s, w["scan"]) => s # None /\ s.event = w["scan"].event
  BY StateFields DEF Version
<1> QED
  BY <1>2, <1>3 DEF Continues, Exit, SavesState, Leave, SavesEvent

LEMMA BaselineSaves ==
  ASSUME SignalInv, w["scan"] \in EventStates, Baseline
  PROVE  /\ pc'["scan"] \in Inside \/ SavesEvent
         /\ pc'["scan"] # "stopped"
<1>1. PICK s \in IF New THEN {w["scan"]} ELSE Advanced(w["scan"]) :
          \/ SavesState(s)
          \/ Continues("scan", s, "watching")
          \/ Continues("scan", s, "zoning")
  BY DEF Baseline
<1>2. Version(s, w["scan"])
  BY <1>1, SelfVersion, AdvancedVersion
<1> QED
  BY <1>1, <1>2, ScanMoves DEF Inside

LEMMA DecidesSaves ==
  ASSUME SignalInv, NEW s, Version(s, w["scan"]), NEW snapshot, Decides(s, snapshot)
  PROVE  /\ pc'["scan"] \in Inside \/ SavesEvent
         /\ pc'["scan"] # "stopped"
  BY ScanMoves DEF Decides, SavesSignal, Inside

\* The monitor's steps inside the lane are not the scan's.
LEMMA MonitorMoves ==
  ASSUME SignalInv, pc["monitor"] \in Inside, NEW step, Await("monitor", step)
  PROVE  pc["scan"] \notin Inside /\ pc'["scan"] = pc["scan"]
  BY DEF SignalInv, CoreTyped, Await, Procs

LEMMA EvaluatePools ==
  ASSUME SignalInv, NEW p \in Procs, Evaluate(p) \/ Admits(p) \/ Recheck(p)
  PROVE  PoolStep
<1>1. /\ pc[p] \in Inside /\ faults' = faults /\ pool' \subseteq pool
      /\ w[p] \in EventStates
  <2>1. pc[p] \in Inside /\ faults' = faults /\ pool' \subseteq pool
    BY DEF Evaluate, Admits, Recheck, Inside, history, memory, Forget
  <2> QED
    BY <2>1 DEF SignalInv, CoreTyped
<1>2. \/ NoClimax(p)
      \/ \E step \in {"reporting", "rechecking", "sending"} : Continues(p, w[p], step)
  BY DEF Evaluate, Admits, Recheck, SavesSignal
<1>3. CASE p = "scan"
  BY <1>1, <1>2, <1>3, BaselineSaves, ScanMoves DEF PoolStep, NoClimax, Inside
<1>4. CASE p = "monitor"
  <2>1. \E step : Await("monitor", step)
    BY <1>2, <1>4 DEF NoClimax, Leave, Exit, Continues
  <2> QED
    BY <1>1, <1>4, <2>1, MonitorMoves DEF PoolStep
<1> QED
  BY <1>3, <1>4 DEF Procs

LEMMA ZonePools ==
  ASSUME SignalInv, Zone \/ TrapSent \/ WatchSent
  PROVE  PoolStep
<1>1. /\ pc["scan"] \in Inside /\ faults' = faults /\ pool' \subseteq pool
      /\ w["scan"] \in EventStates
  <2>1. pc["scan"] \in Inside /\ faults' = faults /\ pool' \subseteq pool
    BY DEF Zone, TrapSent, WatchSent, Inside, history, memory
  <2> QED
    BY <2>1 DEF SignalInv, CoreTyped, Procs
<1>2. CASE WatchSent
  BY <1>1, <1>2, ScanMoves, SelfVersion DEF WatchSent, PoolStep
<1>3. CASE TrapSent
  BY <1>1, <1>3, DecidesSaves, SelfVersion DEF TrapSent, PoolStep
<1>4. CASE Zone
  <2>1. PICK s \in {w["scan"]} \cup
                (IF w["scan"].status = "PULLBACK_OBSERVED"
                 THEN {[w["scan"] EXCEPT !.status = "SHORT_ZONE_ACTIVE"]} ELSE {}) :
          Decides(s, {row, s}) \/ Continues("scan", s, "trapping")
    BY <1>4 DEF Zone, SavesSignal
  <2>2. Version(s, w["scan"])
    BY <1>1, <2>1, SelfVersion, ZonedVersion
  <2>3. /\ pc'["scan"] \in Inside \/ SavesEvent
        /\ pc'["scan"] # "stopped"
    BY <2>1, <2>2, DecidesSaves, ScanMoves DEF Inside
  <2> QED
    BY <1>1, <2>3 DEF PoolStep
<1> QED
  BY <1>2, <1>3, <1>4

LEMMA SendEndsPools ==
  ASSUME SignalInv, NEW p \in Procs, SendEnds(p)
  PROVE  PoolStep
<1>1. /\ pc[p] \in Inside /\ faults' = faults /\ pool' \subseteq pool
      /\ Leave(p) \/ (p = "monitor" /\ Exit(p, "idle"))
      /\ row' = Marked(w[p], saved[p]) /\ saved[p] \in DOMAIN records
  BY DEF SendEnds, Marks, Forget, Inside, history, memory, SignalInv, CopyMatches
<1>2. CASE p = "scan"
  <2>1. row'.event = w["scan"].event /\ pc'["scan"] = "idle" /\ row' \in EventStates
    <3>1. w["scan"] \in EventStates /\ saved["scan"] \in Nat
      BY <1>1, <1>2 DEF SignalInv, CoreTyped
    <3> QED
      BY <1>1, <1>2, <3>1, ScanMoves, MarkedFields DEF Leave
  <2> QED
    BY <1>1, <1>2, <2>1, StateFields DEF PoolStep, SavesEvent
<1>3. CASE p = "monitor"
  <2>1. \E step : Await("monitor", step)
    BY <1>1, <1>3 DEF Leave, Exit
  <2> QED
    BY <1>1, <1>3, <2>1, MonitorMoves DEF PoolStep
<1> QED
  BY <1>2, <1>3 DEF Procs
LEMMA StopPools ==
  ASSUME SignalInv, NEW p \in Procs, Stop(p)
  PROVE  PoolStep
<1>1. CASE p = "scan"
  BY <1>1 DEF Stop, PoolStep
<1>2. CASE p = "monitor"
  <2>1. /\ pc["scan"] = "stopped" /\ faults' = faults /\ pool' \subseteq pool
    BY <1>2 DEF Stop, Marks, Forget, memory
  <2> QED
    BY <2>1 DEF PoolStep, Inside
<1> QED
  BY <1>1, <1>2 DEF Procs

\* The steps of no task inside the lane.
LEMMA OutsidePools ==
  ASSUME SignalInv, \/ Select \/ ScanPasses \/ Poll \/ PollSkips \/ MonitorPasses \/ Clean
                    \/ Restart \/ Expire \/ Age \/ UNCHANGED vars
  PROVE  PoolStep
<1>1. faults' = faults
  BY DEF Select, ScanPasses, Poll, PollSkips, MonitorPasses, Clean, Restart, Expire, Age,
         vars, history
<1>2. pool' \subseteq pool
  BY DEF Select, ScanPasses, Poll, PollSkips, MonitorPasses, Clean, Restart, Restarts,
         Expire, Age, vars, memory, Forget
<1>3. pc \in [Procs -> Steps] /\ "scan" \in Procs /\ "monitor" \in Procs
  BY DEF SignalInv, CoreTyped, Procs
<1>4. CASE Select \/ ScanPasses
  <2>1. pc["scan"] \notin Inside /\ pc'["scan"] \in {"waiting", "idle"}
    BY <1>3, <1>4 DEF Select, ScanPasses, Await, Inside
  <2> QED
    BY <1>1, <1>2, <2>1 DEF PoolStep
<1>5. CASE Restart
  <2>1. pc["scan"] = "stopped"
    BY <1>3, <1>5 DEF Restart
  <2> QED
    BY <1>1, <1>2, <2>1 DEF PoolStep, Inside
<1>6. CASE Poll \/ PollSkips \/ MonitorPasses \/ Clean \/ Expire \/ Age \/ UNCHANGED vars
  <2>1. pc'["scan"] = pc["scan"]
    BY <1>3, <1>6 DEF Poll, PollSkips, MonitorPasses, Clean, Expire, Age, vars, Await
  <2> QED
    BY <1>1, <1>2, <2>1 DEF PoolStep
<1> QED
  BY <1>4, <1>5, <1>6

LEMMA PoolSteps ==
  ASSUME SignalInv, [Next]_vars
  PROVE  PoolStep \/ ScanFinds \/ MonitorFinds
<1>1. ASSUME NEW p \in Procs, MarkFails(p) \/ Raises(p) \/ Crash PROVE PoolStep
  BY <1>1 DEF MarkFails, Raises, Crash, PoolStep
<1>2. ASSUME NEW p \in Procs, \/ Evaluate(p) \/ Admits(p) \/ Recheck(p)
                               \/ SendEnds(p) \/ Stop(p)
      PROVE  PoolStep
  BY <1>2, EvaluatePools, SendEndsPools, StopPools
<1>3. CASE Zone \/ TrapSent \/ WatchSent
  BY <1>3, ZonePools
<1>4. CASE \/ Select \/ ScanPasses \/ Poll \/ PollSkips \/ MonitorPasses \/ Clean
           \/ Restart \/ Expire \/ Age \/ UNCHANGED vars
  BY <1>4, OutsidePools
<1> QED
  BY <1>1, <1>2, <1>3, <1>4 DEF Next, Procs

\* A task finds its event.
LEMMA FindsKeepsCandidates ==
  ASSUME SignalInv, CandidatesOK, ScanFinds \/ MonitorFinds
  PROVE  CandidatesOK'
<1>1. /\ lane = None /\ lane' \in Procs
      /\ UNCHANGED <<row, faults>>
      /\ \A q \in Procs : pc'[q] \in Inside => q = lane'
      /\ None \notin Procs
  <2>1. None \notin Procs /\ pc \in [Procs -> Steps]
    BY RuntimeAssumption DEF SignalInv, CoreTyped
  <2>2. lane = None /\ lane' \in Procs /\ UNCHANGED <<row, faults>>
        /\ Await(lane', "enriching")
    BY DEF ScanFinds, MonitorFinds, durable, history, Procs
  <2>3. \A q \in Procs : pc[q] \notin Inside
    BY <2>1, <2>2 DEF SignalInv, CoreTyped
  <2> QED
    BY <2>1, <2>2, <2>3 DEF Await
<1>2. pc'["scan"] = "stopped" => pc["scan"] = "stopped"
  BY DEF ScanFinds, MonitorFinds, Await, SignalInv, CoreTyped, Procs
<1>3. CASE ScanFinds
  <2>1. PICK s \in {Loaded} \cup {Detected(e, episodes + 1) : e \in Events} :
            w' = [w EXCEPT !["scan"] = s] /\ Track(s) /\ lane' = "scan"
    BY <1>3 DEF ScanFinds
  <2>2. w'["scan"] = s /\ \A e \in pool' : e = s.event
    BY <2>1 DEF SignalInv, CoreTyped, Procs, Track
  <2>3. pc'["monitor"] \notin Inside /\ lane' # None
    BY <1>1, <2>1 DEF Procs
  <2>4. \A q \in Procs : pc'[q] \in Inside => \A e \in pool' : e = w'[q].event
    BY <1>1, <2>1, <2>2
  <2> QED
    BY <1>1, <1>2, <2>3, <2>4 DEF CandidatesOK
<1>4. CASE MonitorFinds
  <2>1. w'["monitor"] = row /\ row # None /\ pool' = pool /\ lane' = "monitor"
    BY <1>4 DEF MonitorFinds, Stored, SignalInv, CoreTyped, Procs, memory
  <2> QED
    BY <1>1, <1>2, <2>1 DEF CandidatesOK, Stored
<1> QED
  BY <1>3, <1>4

\* Any other step, by its shape.
LEMMA StepKeepsCandidates ==
  ASSUME SignalInv, SignalInv', CandidatesOK, PoolStep, [Next]_vars,
         ~ScanFinds, ~MonitorFinds, faults \in Nat
  PROVE  CandidatesOK'
<1>1. CASE Fault
  BY <1>1 DEF Fault, CandidatesOK
<1>2. CASE faults # 0 /\ faults' = faults
  BY <1>2 DEF CandidatesOK
<1> SUFFICES ASSUME faults = 0, faults' = 0, pool' \subseteq pool,
                    pc'["scan"] # "stopped",
                    pc["scan"] \in Inside => pc'["scan"] \in Inside \/ SavesEvent
             PROVE  CandidatesOK'
  BY <1>1, <1>2 DEF PoolStep, CandidatesOK
<1>3. /\ lane = None => \A e \in pool : Stored(e)
      /\ \A p \in Procs : pc[p] \in Inside => \A e \in pool : e = w[p].event
      /\ pc["monitor"] \in Inside => Stored(w["monitor"].event)
  BY DEF CandidatesOK
<1>4. "scan" \in Procs /\ "monitor" \in Procs /\ CoreTyped /\ CoreTyped'
  BY DEF Procs, SignalInv
<1>5. CASE Idles
  <2>1. /\ lane' = lane /\ row' = row
        /\ \A q \in Procs : pc'[q] \in Inside => pc'[q] = pc[q] /\ w'[q] = w[q]
    BY <1>4, <1>5 DEF Idles, Await, CoreTyped
  <2> QED
    BY <1>3, <1>4, <2>1 DEF CandidatesOK, Stored
<1>6. CASE Rests
  BY <1>3, <1>6 DEF Rests, CandidatesOK, Stored
<1>7. CASE Dies
  BY <1>4, <1>7 DEF Dies, Restarts, CandidatesOK, Inside
<1>8. ASSUME NEW p \in Procs, pc[p] \in Inside, Quits(p),
             row' = row \/ (row' # None /\ row'.event = w[p].event)
      PROVE  CandidatesOK'
  <2>1. /\ lane' = None /\ \A q \in Procs : pc'[q] \notin Inside
    <3>1. PICK step \in Steps \ Inside : Exit(p, step)
      BY <1>8 DEF Quits
    <3>2. \A q \in Procs : pc[q] \in Inside => q = p
      BY <1>4, <1>8 DEF CoreTyped
    <3> QED
      BY <1>4, <3>1, <3>2 DEF Exit, Await, CoreTyped
  <2>2. row' # None /\ row'.event = w[p].event
    BY <1>3, <1>4, <1>8, <2>1 DEF Stored, SavesEvent, Procs
  <2> QED
    BY <1>3, <1>4, <1>8, <2>1, <2>2 DEF CandidatesOK, Stored
<1>9. ASSUME NEW p \in Procs, pc[p] \in Inside, NEW s \in EventStates, NEW step \in Inside,
             Version(s, w[p]), Continues(p, s, step), row' = row \/ Version(row', w[p])
      PROVE  CandidatesOK'
  <2>1. /\ w'[p] = s /\ s.event = w[p].event /\ lane' = p
        /\ row' = row \/ (row' # None /\ row'.event = w[p].event)
    BY <1>4, <1>9, StateFields DEF Version, Continues, CoreTyped
  <2>2. \A q \in Procs : pc'[q] \in Inside => q = p
    BY <1>4, <2>1 DEF CoreTyped
  <2>3. lane' # None
    BY <2>1, RuntimeAssumption
  <2>4. pc'["monitor"] \in Inside => Stored(w["monitor"].event)'
    BY <1>3, <1>4, <1>9, <2>1, <2>2 DEF Stored
  <2> QED
    BY <1>3, <1>9, <2>1, <2>2, <2>3, <2>4 DEF CandidatesOK
<1>10. ASSUME NEW p \in Procs, Works(p) PROVE CandidatesOK'
  <2>1. pc[p] \in Inside /\ (row' = row \/ Version(row', w[p]))
    BY <1>10 DEF Works
  <2>2. CASE Quits(p)
    <3>1. row' = row \/ (row' # None /\ row'.event = w[p].event)
      BY <2>1, StateFields DEF Version
    <3> QED
      BY <1>8, <2>1, <2>2, <3>1
  <2>3. ASSUME NEW s \in EventStates, NEW step \in Inside,
               Version(s, w[p]), Continues(p, s, step)
        PROVE  CandidatesOK'
    BY <1>9, <2>1, <2>3
  <2>4. CASE Waits(p)
    <3>1. PICK s \in EventStates, step \in Inside : Version(s, w[p]) /\ Continues(p, s, step)
      BY <2>4 DEF Waits
    <3> QED
      BY <2>3, <3>1
  <2>5. CASE Writes(p)
    <3>1. PICK s \in EventStates, k \in Kinds :
              /\ Version(s, w[p])
              /\ SavesSignal(p, k, s, IF k \in Marking THEN "sending" ELSE "trapping")
      BY <2>5 DEF Writes
    <3>2. PICK step \in Inside : Continues(p, s, step)
      BY <3>1 DEF SavesSignal, Inside
    <3> QED
      BY <2>3, <3>1, <3>2
  <2> QED
    BY <1>10, <2>2, <2>4, <2>5 DEF Works
<1>11. ASSUME NEW p \in Procs, Finishes(p) PROVE CandidatesOK'
  <2>1. /\ pc[p] = "sending" /\ pc[p] \in Inside /\ row' = Marked(w[p], saved[p])
        /\ Quits(p)
    BY <1>11 DEF Finishes, Inside
  <2>2. w[p] \in EventStates /\ saved[p] \in DOMAIN records
    BY <2>1, <1>4 DEF CoreTyped, SignalInv, CopyMatches
  <2>3. saved[p] \in Nat
    BY <2>2, <1>4 DEF CoreTyped
  <2>4. row' # None /\ row'.event = w[p].event
    BY <2>1, <2>2, <2>3, MarkedFields, StateFields
  <2> QED
    BY <1>8, <2>1, <2>4
<1>12. ASSUME NEW p \in Procs, Loses(p) PROVE CandidatesOK'
  BY <1>8, <1>12 DEF Loses, Inside
<1> QED
  BY <1>5, <1>6, <1>7, <1>10, <1>11, <1>12, Shapes

\* While nothing has failed the pool holds no event but the stored one between
\* the tasks' turns in the lane: the two survive each other's interleaving.
THEOREM PoolIsStored == Spec => []PoolFollowsState
<1>1. Init => CandidatesOK
  BY DEF Init, CandidatesOK, Inside, Procs
<1>2. SignalInv /\ SignalInv' /\ TypeOK /\ CandidatesOK /\ [Next]_vars => CandidatesOK'
  BY PoolSteps, FindsKeepsCandidates, StepKeepsCandidates DEF TypeOK
<1>3. CandidatesOK => PoolFollowsState
  BY DEF CandidatesOK, PoolFollowsState
<1> QED
  BY <1>1, <1>2, <1>3, SignalsInvariant, RuntimeTyped, PTL DEF Spec
=============================================================================
