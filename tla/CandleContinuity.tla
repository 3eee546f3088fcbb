-------------------------- MODULE CandleContinuity --------------------------
(***************************************************************************)
(* app/market_data/continuity.py and backfill.py: what GapTracker knows of *)
(* the closed one-minute candles of one symbol, and what a repair makes of *)
(* it.  A candle is its minute; a gap is the first minute that is missing  *)
(* and the next one that was seen.                                         *)
(***************************************************************************)
EXTENDS Integers, FiniteSets, FiniteSetsExt

CONSTANTS MaxCandles, \* max_candles_per_symbol
          MaxRepair,  \* max_candles of a repair
          LastMinute  \* bound: the minutes

Minutes == 0..LastMinute
Gaps    == {g \in Minutes \X Minutes : g[1] < g[2]}

ASSUME ContinuityAssumption ==
    /\ MaxCandles \in Nat \ {0, 1} /\ MaxRepair \in Nat \ {0} /\ LastMinute \in Nat

\* candles: the minutes held; active: the gaps not closed yet.
Trackers == [candles : SUBSET Minutes, active : SUBSET Gaps,
             state : {"UNINITIALIZED", "TRACKING", "GAP_DETECTED", "BACKFILLING",
                      "CONTIGUOUS", "DEGRADED"}]

NewTracker == [candles |-> {}, active |-> {}, state |-> "UNINITIALIZED"]

Missing(g) == g[1]..(g[2] - 1)

\* The holes between the candles of a set.
Holes(candles) == {g \in Gaps : /\ g[1] - 1 \in candles /\ g[2] \in candles
                                /\ Missing(g) \cap candles = {}}

\* _contains.
Contains(g, h) == g[1] <= h[1] /\ h[2] <= g[2]

\* The holes that are gaps of their own.
Found(prior, candles) == {g \in Holes(candles) : \A h \in prior : ~Contains(h, g)}

\* Mutant: a gap is forgotten when the first of its candles comes.
KeptUntouched(prior, candles) == {g \in prior : Missing(g) \cap candles = {}}

\* A gap stays until all of its candles are held.
Kept(prior, candles) == {g \in prior : ~(Missing(g) \subseteq candles)}

\* _recompute_symbol.
Recomputed(tracker, candles) ==
    LET alone  == Cardinality(candles) = 1
        active == Kept(tracker.active, candles)
                      \cup IF alone THEN {} ELSE Found(tracker.active, candles)
    IN [candles |-> candles, active |-> active,
        state |-> IF alone THEN "TRACKING"
                  ELSE IF active # {} THEN "GAP_DETECTED" ELSE "CONTIGUOUS"]

\* The oldest candle leaves a window that is too long.
Bounded(candles) ==
    IF Cardinality(candles) > MaxCandles THEN candles \ {Min(candles)} ELSE candles

\* Mutant: the window is cut before the gaps are computed.
ObservedCut(tracker, minute) ==
    IF minute \in tracker.candles THEN tracker
    ELSE Recomputed(tracker, Bounded(tracker.candles \cup {minute}))

\* observe_closed_candle: a candle that is held is not replaced.
Observed(tracker, minute) ==
    IF minute \in tracker.candles THEN tracker
    ELSE LET after == Recomputed(tracker, tracker.candles \cup {minute})
         IN [after EXCEPT !.candles = Bounded(@)]

\* A repair that got its candles observes them, the first one first.
Repaired(tracker, g) ==
    LET after[n \in 0..(g[2] - g[1])] ==
            IF n = 0 THEN tracker ELSE Observed(after[n - 1], g[1] + n - 1)
    IN after[g[2] - g[1]]

\* While the candles of g come, only candles before it must leave the window.
Fits(tracker, g) ==
    Cardinality(tracker.candles \cup Missing(g)) - 1 - MaxCandles
        <= Cardinality({m \in tracker.candles : m < g[1]})
=============================================================================
