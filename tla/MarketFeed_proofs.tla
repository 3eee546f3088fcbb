-------------------------- MODULE MarketFeed_proofs --------------------------
(***************************************************************************)
(* Proofs about MarketFeed and CandleContinuity, for any universes, any    *)
(* size of connections, windows and requests, and any bounds.              *)
(*                                                                         *)
(* Two arguments that do not meet: what a tracker holds after any sequence *)
(* of candles, and what the supervisor's cycle makes of connections and    *)
(* tickers.  The provider's rule needs both.                               *)
(***************************************************************************)
EXTENDS MarketFeed, FiniteSetTheorems, WellFoundedInduction, TLAPS

\* Every hole is inside a gap that is active, and there is none in a state that
\* says so.  The window is not too long, and an active gap lacks a candle.
TrackerOK(t) ==
    /\ t \in Trackers /\ IsFiniteSet(t.candles) /\ Cardinality(t.candles) <= MaxCandles
    /\ \A g \in t.active : ~(Missing(g) \subseteq t.candles)
    /\ \A h \in Holes(t.candles) : \E g \in t.active : Contains(g, h)
    /\ t.state \in {"TRACKING", "CONTIGUOUS"} => Holes(t.candles) = {}

TrackersOK == tracker \in [Feeds -> Trackers] /\ \A s \in Feeds : TrackerOK(tracker[s])

\* Requests and answers are about topics of the plan.
SubscriptionsOK ==
    /\ Feasible(planned)
    /\ acknowledged \subseteq TopicsOf(planned)
    /\ sent \subseteq SUBSET TopicsOf(planned) /\ {} \notin sent
    /\ pending \subseteq sent

\* A change that is not seen yet has voided the answers, and the hub is only
\* healthy with answers while the connections of the plan are all open.
CycleOK ==
    /\ mode = "running" => opened = Connections(planned)
    /\ mode = "running" /\ changed => acknowledged = {} /\ pending = {}
    /\ health = "HEALTHY" /\ acknowledged # {} =>
           mode \in {"running", "stopping"} /\ opened = Connections(planned)

TickerShard(s) == ShardOf(planned, <<"ticker", s>>)

\* A ticker whose connection is open in this cycle is all of this connection.
TickersOK ==
    \A s \in Feeds \cap planned : TickerShard(s) < opened /\ snapshots[s] # None =>
        snapshots[s].base = snapshots[s].epoch /\ snapshots[s].epoch = Epoch(<<"ticker", s>>)

FeedInv == TypeOK /\ TrackersOK /\ SubscriptionsOK /\ CycleOK /\ TickersOK

-----------------------------------------------------------------------------
(***************************************************************************)
(* Candles.                                                                *)
(***************************************************************************)
\* A set of numbers that is not empty has a least element.
LEMMA LeastNumber ==
  ASSUME NEW S \in SUBSET Nat, S # {}
  PROVE  \E m \in S : \A y \in S : m <= y
<1> DEFINE Below == {0..n : n \in S}
<1>1. \A n \in S : 0..n \in FiniteSubsetsOf(Nat)
  <2>1. TAKE n \in S
  <2>2. 0 \in Int /\ n \in Int
    OBVIOUS
  <2>3. IsFiniteSet(0..n)
    BY <2>2, FS_Interval
  <2>4. 0..n \in SUBSET Nat
    BY <2>2
  <2> QED BY <2>3, <2>4, Zenon DEF FiniteSubsetsOf
<1>2. Below # {} /\ Below \subseteq FiniteSubsetsOf(Nat)
  BY <1>1
<1>3. \E x \in Below : \A y \in Below : ~(<<y, x>> \in StrictSubsetOrdering(Nat))
  <2> HIDE DEF Below
  <2> QED BY <1>2, FS_StrictSubsetOrderingWellFounded, WFMin
<1>4. PICK m \in S : \A y \in Below : ~(<<y, 0..m>> \in StrictSubsetOrdering(Nat))
  BY <1>3
<1>5. ASSUME NEW n \in S, n < m PROVE FALSE
  <2>1. 0..n \in Below
    OBVIOUS
  <2>2. 0..n \subseteq 0..m /\ m \in 0..m /\ m \notin 0..n
    BY <1>5
  <2>3. <<0..n, 0..m>> \in StrictSubsetOrdering(Nat)
    BY <2>2 DEF StrictSubsetOrdering
  <2> QED BY <1>4, <2>1, <2>3
<1>6. \A y \in S : m <= y
  BY <1>5
<1> QED BY <1>6

LEMMA MinIsLeast ==
  ASSUME NEW S \in SUBSET Nat, S # {}
  PROVE  Min(S) \in S /\ \A y \in S : Min(S) <= y
BY LeastNumber DEF Min

\* What is left of a window is of the window, and leaving the oldest candle
\* out makes no hole.
LEMMA BoundedWindow ==
  ASSUME NEW C \in SUBSET Minutes, IsFiniteSet(C)
  PROVE  /\ Bounded(C) \in SUBSET C /\ IsFiniteSet(Bounded(C))
         /\ Holes(Bounded(C)) \subseteq Holes(C)
         /\ Cardinality(C) <= MaxCandles + 1 => Cardinality(Bounded(C)) <= MaxCandles
<1>1. CASE Cardinality(C) > MaxCandles
  <2>1. C # {} /\ C \subseteq Nat
    BY <1>1, FS_EmptySet, ContinuityAssumption DEF Minutes
  <2> DEFINE m == Min(C)
  <2>2. m \in C /\ \A y \in C : m <= y
    BY <2>1, MinIsLeast
  <2>3. Bounded(C) = C \ {m}
    BY <1>1 DEF Bounded
  <2> HIDE DEF m
  <2>4. IsFiniteSet(C \ {m}) /\ Cardinality(C \ {m}) = Cardinality(C) - 1 /\ Cardinality(C) \in Nat
    BY <2>2, FS_RemoveElement, FS_CardinalityType
  <2>5. ASSUME NEW g \in Holes(C \ {m}) PROVE g \in Holes(C)
    <3>1. /\ g \in Gaps /\ g[1] \in Nat /\ g[2] \in Nat /\ g[1] < g[2]
          /\ g[1] - 1 \in C \ {m} /\ g[2] \in C \ {m} /\ Missing(g) \cap (C \ {m}) = {}
      BY <2>5 DEF Holes, Gaps, Minutes
    <3>2. m < g[1]
      BY <2>1, <2>2, <3>1
    <3>3. m \notin Missing(g)
      BY <2>1, <2>2, <3>1, <3>2 DEF Missing
    <3> QED
      BY <3>1, <3>3 DEF Holes
  <2>6. Cardinality(C) <= MaxCandles + 1 => Cardinality(C \ {m}) <= MaxCandles
    BY <2>4, ContinuityAssumption
  <2> QED
    BY <2>3, <2>4, <2>5, <2>6
<1>2. CASE ~(Cardinality(C) > MaxCandles)
  <2>1. Cardinality(C) <= MaxCandles
    BY <1>2, FS_CardinalityType, ContinuityAssumption
  <2> QED
    BY <1>2, <2>1 DEF Bounded
<1> QED
  BY <1>1, <1>2

\* A hole that was inside a gap keeps it open; another one is a gap of its own.
LEMMA RecomputedCovers ==
  ASSUME NEW t \in Trackers, NEW C \in SUBSET Minutes, IsFiniteSet(C)
  PROVE  LET u == Recomputed(t, C)
         IN /\ u \in Trackers /\ u.candles = C
            /\ \A h \in Holes(C) : \E g \in u.active : Contains(g, h)
            /\ u.state \in {"TRACKING", "CONTIGUOUS"} => Holes(C) = {}
            /\ u.state \in {"TRACKING", "CONTIGUOUS", "GAP_DETECTED"}
            /\ \A g \in u.active : ~(Missing(g) \subseteq C)
            /\ \A g \in t.active : ~(Missing(g) \subseteq C) => g \in u.active
<1> DEFINE u == Recomputed(t, C)
           alone == Cardinality(C) = 1
           active == Kept(t.active, C) \cup IF alone THEN {} ELSE Found(t.active, C)
           state == IF alone THEN "TRACKING" ELSE IF active # {} THEN "GAP_DETECTED" ELSE "CONTIGUOUS"
<1>1. u = [candles |-> C, active |-> active, state |-> state]
  BY DEF Recomputed
<1>2. active \subseteq Gaps
  BY DEF Kept, Found, Holes, Trackers
<1>3. alone => Holes(C) = {}
  <2> SUFFICES ASSUME alone, NEW g \in Holes(C) PROVE FALSE
    OBVIOUS
  <2>1. PICK x : C = {x}
    BY FS_Singleton
  <2>2. g[1] - 1 \in C /\ g[2] \in C /\ g[1] \in Nat /\ g[2] \in Nat /\ g[1] < g[2]
    BY DEF Holes, Gaps, Minutes
  <2> QED
    BY <2>1, <2>2
<1>4. ASSUME NEW h \in Holes(C) PROVE \E g \in active : Contains(g, h)
  <2>1. /\ h \in Gaps /\ h[1] \in Nat /\ h[2] \in Nat /\ h[1] < h[2] /\ Missing(h) \cap C = {}
    BY DEF Holes, Gaps, Minutes
  <2>2. CASE \E g \in t.active : Contains(g, h)
    <3>1. PICK g \in t.active : Contains(g, h)
      BY <2>2
    <3>2. g[1] \in Nat /\ g[2] \in Nat
      BY DEF Trackers, Gaps, Minutes
    <3>3. h[1] \in Missing(g) /\ h[1] \in Missing(h)
      BY <2>1, <3>1, <3>2 DEF Missing, Contains
    <3>4. g \in Kept(t.active, C)
      BY <2>1, <3>3 DEF Kept
    <3> QED
      BY <3>1, <3>4
  <2>3. CASE ~ \E g \in t.active : Contains(g, h)
    <3>1. h \in Found(t.active, C) /\ ~alone
      BY <1>3, <2>3 DEF Found
    <3>2. Contains(h, h)
      BY <2>1 DEF Contains
    <3> QED
      BY <3>1, <3>2
  <2> QED
    BY <2>2, <2>3
<1>a. \A g \in active : ~(Missing(g) \subseteq C)
  <2>1. \A g \in Gaps : g[1] \in Missing(g)
    BY DEF Gaps, Minutes, Missing
  <2> QED
    BY <2>1 DEF Kept, Found, Holes
<1>b. \A g \in t.active : ~(Missing(g) \subseteq C) => g \in active
  BY DEF Kept
<1> HIDE DEF active
<1>5. state = "CONTIGUOUS" => Holes(C) = {}
  BY <1>4
<1>6. state \in {"TRACKING", "CONTIGUOUS", "GAP_DETECTED"} /\ (state = "TRACKING" => alone)
  OBVIOUS
<1> HIDE DEF state, alone
<1>7. u \in Trackers /\ u.candles = C /\ u.active = active /\ u.state = state
  BY <1>1, <1>2, <1>6 DEF Trackers
<1> HIDE DEF u
<1>8. /\ \A h \in Holes(C) : \E g \in u.active : Contains(g, h)
      /\ u.state \in {"TRACKING", "CONTIGUOUS"} => Holes(C) = {}
      /\ \A g \in u.active : ~(Missing(g) \subseteq C)
      /\ \A g \in t.active : ~(Missing(g) \subseteq C) => g \in u.active
  BY <1>3, <1>4, <1>5, <1>6, <1>7, <1>a, <1>b
<1> QED
  BY <1>6, <1>7, <1>8 DEF u

\* observe_closed_candle: a gap that was active is closed by its last candle,
\* before the window is cut.
LEMMA ObservedOK ==
  ASSUME NEW t, TrackerOK(t), NEW minute \in Minutes
  PROVE  /\ TrackerOK(Observed(t, minute))
         /\ minute \notin t.candles =>
               /\ Observed(t, minute).candles = Bounded(t.candles \cup {minute})
               /\ \A g \in t.active : g \in Observed(t, minute).active
                                         <=> ~(Missing(g) \subseteq t.candles \cup {minute})
<1>1. CASE minute \in t.candles
  BY <1>1 DEF Observed
<1>2. CASE minute \notin t.candles
  <2> DEFINE C == t.candles \cup {minute}
             u == Recomputed(t, C)
             v == [u EXCEPT !.candles = Bounded(C)]
  <2>1. C \in SUBSET Minutes /\ IsFiniteSet(C) /\ t \in Trackers
    BY FS_AddElement DEF TrackerOK, Trackers
  <2>a. Cardinality(C) <= MaxCandles + 1
    <3>1. IsFiniteSet(t.candles) /\ Cardinality(t.candles) \in Nat /\ Cardinality(t.candles) <= MaxCandles
      BY FS_CardinalityType DEF TrackerOK
    <3>2. Cardinality(C) = Cardinality(t.candles) + 1
      BY <1>2, <3>1, FS_AddElement
    <3> QED
      BY <3>1, <3>2, ContinuityAssumption
  <2> HIDE DEF C
  <2>2. /\ u \in Trackers /\ u.candles = C
        /\ \A h \in Holes(C) : \E g \in u.active : Contains(g, h)
        /\ u.state \in {"TRACKING", "CONTIGUOUS"} => Holes(C) = {}
        /\ \A g \in u.active : ~(Missing(g) \subseteq C)
        /\ \A g \in t.active : ~(Missing(g) \subseteq C) => g \in u.active
    BY <2>1, RecomputedCovers
  <2>3. Observed(t, minute) = [u EXCEPT !.candles = Bounded(u.candles)]
    BY <1>2 DEF Observed, C
  <2> HIDE DEF u
  <2>4. /\ Bounded(C) \in SUBSET C /\ IsFiniteSet(Bounded(C))
        /\ Holes(Bounded(C)) \subseteq Holes(C) /\ Cardinality(Bounded(C)) <= MaxCandles
    BY <2>1, <2>a, BoundedWindow
  <2>5. v \in Trackers /\ v.candles = Bounded(C) /\ v.active = u.active /\ v.state = u.state
    BY <2>1, <2>2, <2>4 DEF Trackers
  <2>6. Observed(t, minute) = v
    BY <2>2, <2>3
  <2> HIDE DEF v
  <2>7. TrackerOK(v)
    BY <2>2, <2>4, <2>5 DEF TrackerOK
  <2> QED
    BY <1>2, <2>2, <2>5, <2>6, <2>7 DEF C
<1> QED
  BY <1>1, <1>2

\* A repair observes the candles of its gap one after the other: its recursive
\* function exists, and what each observation keeps the repair keeps.
LEMMA RepairRun ==
  ASSUME NEW t, TrackerOK(t), NEW g \in Gaps
  PROVE  \E run : /\ run[0] = t
                  /\ \A n \in 0..(g[2] - g[1]) : TrackerOK(run[n])
                  /\ \A n \in 1..(g[2] - g[1]) : run[n] = Observed(run[n - 1], g[1] + n - 1)
                  /\ Repaired(t, g) = run[g[2] - g[1]]
<1> DEFINE k == g[2] - g[1]
           Step(f) == [n \in 0..k |-> IF n = 0 THEN t ELSE Observed(f[n - 1], g[1] + n - 1)]
           Reach(h, n) == /\ h \in [0..n -> Trackers] /\ h[0] = t
                          /\ \A i \in 1..n : h[i] = Observed(h[i - 1], g[1] + i - 1)
                          /\ \A i \in 0..n : TrackerOK(h[i])
<1>1. /\ g[1] \in Nat /\ g[2] \in Nat /\ g[1] < g[2] /\ k \in Nat
      /\ \A n \in 1..k : g[1] + n - 1 \in Minutes
  BY ContinuityAssumption DEF Gaps, Minutes
<1>2. ASSUME NEW n \in 0..k, n # k, NEW h, Reach(h, n)
      PROVE  \E e : Reach(e, n + 1)
  <2> DEFINE next == Observed(h[n], g[1] + n)
             e == [i \in 0..(n + 1) |-> IF i = n + 1 THEN next ELSE h[i]]
  <2>1. TrackerOK(next)
    <3>1. n \in 0..n /\ n + 1 \in 1..k /\ g[1] + n = g[1] + (n + 1) - 1
      BY <1>1, <1>2
    <3>2. TrackerOK(h[n]) /\ g[1] + n \in Minutes
      BY <1>1, <1>2, <3>1
    <3> QED
      BY <3>2, ObservedOK
  <2>2. next = Observed(h[n], g[1] + (n + 1) - 1)
    BY <1>1, <1>2
  <2> HIDE DEF next
  <2>3. \A i \in 0..n : e[i] = h[i] /\ i # n + 1
    BY <1>1
  <2>4. e[n + 1] = next /\ DOMAIN e = 0..(n + 1)
    BY <1>1
  <2>5. \A i \in 0..(n + 1) : i \in 0..n \/ i = n + 1
    BY <1>1
  <2>6. \A i \in 0..(n + 1) : TrackerOK(e[i])
    BY <1>2, <2>1, <2>3, <2>4, <2>5
  <2>7. e \in [0..(n + 1) -> Trackers]
    BY <2>6 DEF TrackerOK
  <2>8. \A i \in 1..(n + 1) : e[i] = Observed(e[i - 1], g[1] + i - 1)
    <3> TAKE i \in 1..(n + 1)
    <3>1. CASE i = n + 1
      <4>1. i - 1 = n /\ n \in 0..n
        BY <1>1, <3>1
      <4>2. e[i - 1] = h[n] /\ e[i] = next
        BY <2>3, <2>4, <3>1, <4>1
      <4> QED
        BY <2>2, <3>1, <4>2
    <3>2. CASE i \in 1..n
      <4>1. i \in 0..n /\ i - 1 \in 0..n
        BY <1>1, <3>2
      <4>2. e[i] = h[i] /\ e[i - 1] = h[i - 1]
        BY <2>3, <4>1
      <4> QED
        BY <1>2, <3>2, <4>2
    <3> QED
      BY <1>1, <3>1, <3>2
  <2>9. e[0] = t
    <3>1. 0 \in 0..n
      BY <1>1
    <3> QED
      BY <1>2, <2>3, <3>1
  <2> HIDE DEF e
  <2> QED
    BY <2>6, <2>7, <2>8, <2>9
<1>3. \E h : Reach(h, 0)
  <2> DEFINE e == [i \in 0..0 |-> t]
  <2>1. e[0] = t /\ \A i \in 0..0 : e[i] = t
    OBVIOUS
  <2>2. e \in [0..0 -> Trackers]
    BY DEF TrackerOK
  <2>3. \A i \in 1..0 : FALSE
    OBVIOUS
  <2> HIDE DEF e
  <2>4. Reach(e, 0)
    BY <2>1, <2>2, <2>3
  <2> QED
    BY <2>4
<1> HIDE DEF Reach
<1>4. \E h : Reach(h, k)
  <2> DEFINE None0 == {n \in 0..k : ~ \E h : Reach(h, n)}
  <2> SUFFICES ASSUME None0 # {} PROVE FALSE
    BY <1>1
  <2>1. PICK m \in None0 : \A n \in None0 : m <= n
    <3>1. None0 \in SUBSET Nat
      OBVIOUS
    <3> HIDE DEF None0
    <3> QED
      BY <3>1, LeastNumber
  <2>2. m \in 0..k /\ ~ \E h : Reach(h, m)
    OBVIOUS
  <2>3. m # 0
    BY <1>3, <2>2
  <2>4. m - 1 \in 0..k /\ m - 1 # k /\ ~(m <= m - 1) /\ (m - 1) + 1 = m
    BY <1>1, <2>2, <2>3
  <2>5. \E h : Reach(h, m - 1)
    BY <2>1, <2>4
  <2> HIDE DEF k
  <2> QED
    BY <1>2, <2>2, <2>4, <2>5
<1>5. PICK h : Reach(h, k)
  BY <1>4
<1>6. h = Step(h)
  <2>1. h \in [0..k -> Trackers] /\ h[0] = t /\ \A i \in 1..k : h[i] = Observed(h[i - 1], g[1] + i - 1)
    BY <1>5 DEF Reach
  <2>2. \A n \in 0..k : h[n] = Step(h)[n]
    <3> TAKE n \in 0..k
    <3>1. n = 0 \/ n \in 1..k
      BY <1>1
    <3> HIDE DEF k
    <3> QED
      BY <2>1, <3>1
  <2> QED
    BY <2>1, <2>2
<1> DEFINE after == CHOOSE f : f = Step(f)
<1>7. after = Step(after)
  <2> HIDE DEF Step
  <2> QED
    BY <1>6
<1>8. Repaired(t, g) = after[k]
  BY DEF Repaired
<1> HIDE DEF after
<1>9. \A n \in 0..k : TrackerOK(after[n])
  <2> DEFINE Bad == {n \in 0..k : ~TrackerOK(after[n])}
  <2> SUFFICES ASSUME Bad # {} PROVE FALSE
    OBVIOUS
  <2>1. PICK m \in Bad : \A n \in Bad : m <= n
    <3>1. Bad \in SUBSET Nat
      OBVIOUS
    <3> HIDE DEF Bad
    <3> QED
      BY <3>1, LeastNumber
  <2>2. m \in 0..k /\ ~TrackerOK(after[m])
    OBVIOUS
  <2>3. after[m] = IF m = 0 THEN t ELSE Observed(after[m - 1], g[1] + m - 1)
    BY <1>7, <2>2
  <2>4. m # 0
    BY <2>2, <2>3
  <2>5. m - 1 \in 0..k /\ ~(m <= m - 1) /\ m \in 1..k
    BY <1>1, <2>2, <2>4
  <2>6. TrackerOK(after[m - 1]) /\ g[1] + m - 1 \in Minutes
    BY <1>1, <2>1, <2>5
  <2> QED
    BY <2>2, <2>3, <2>4, <2>6, ObservedOK
<1>10. after[0] = t /\ \A n \in 1..k : after[n] = Observed(after[n - 1], g[1] + n - 1)
  <2>1. 0 \in 0..k /\ \A n \in 1..k : n \in 0..k /\ n # 0
    BY <1>1
  <2> QED
    BY <1>7, <2>1
<1> QED
  BY <1>8, <1>9, <1>10

LEMMA RepairedOK ==
  ASSUME NEW t, TrackerOK(t), NEW g \in Gaps
  PROVE  TrackerOK(Repaired(t, g))
<1>1. g[2] - g[1] \in 0..(g[2] - g[1])
  BY DEF Gaps, Minutes
<1> QED
  BY <1>1, RepairRun

-----------------------------------------------------------------------------
(***************************************************************************)
(* What a repair closes.  C are the candles held of the offered ones U, all *)
(* offered since x being held: what left the window is older than what is  *)
(* in it, and no more left it than had to.                                 *)
(***************************************************************************)
Window(U, C, x) ==
    /\ C \subseteq U /\ U \subseteq Minutes
    /\ \A e \in U \ C : e < x /\ \A c \in C : e < c
    /\ Cardinality(C) = IF Cardinality(U) > MaxCandles THEN MaxCandles ELSE Cardinality(U)

LEMMA FiniteMinutes == \A S \in SUBSET Minutes : IsFiniteSet(S) /\ Cardinality(S) \in Nat
<1>1. IsFiniteSet(Minutes)
  BY FS_Interval, ContinuityAssumption DEF Minutes
<1> QED
  BY <1>1, FS_Subset, FS_CardinalityType

\* The next candle: nothing that left the window comes back.
LEMMA WindowNext ==
  ASSUME NEW U, NEW C, NEW x \in Minutes, Window(U, C, x), x \notin U
  PROVE  Window(U \cup {x}, Bounded(C \cup {x}), x + 1)
<1> DEFINE D == C \cup {x}
<1>1. /\ C \in SUBSET Minutes /\ U \in SUBSET Minutes /\ D \in SUBSET Minutes /\ x \notin C
      /\ IsFiniteSet(C) /\ IsFiniteSet(U) /\ IsFiniteSet(D)
      /\ Cardinality(C) \in Nat /\ Cardinality(U) \in Nat /\ Cardinality(D) \in Nat
  BY FiniteMinutes DEF Window
<1>2. Cardinality(D) = Cardinality(C) + 1 /\ Cardinality(U \cup {x}) = Cardinality(U) + 1
  BY <1>1, FS_AddElement
<1>3. \A n \in Minutes : n \in Nat
  BY ContinuityAssumption DEF Minutes
<1>4. \A e \in U \ C : e < x /\ e \in Nat /\ \A c \in D : e < c
  BY <1>1, <1>3 DEF Window
<1>5. Cardinality(C) = IF Cardinality(U) > MaxCandles THEN MaxCandles ELSE Cardinality(U)
  BY DEF Window
<1>6. CASE Cardinality(D) > MaxCandles
  <2> DEFINE m == Min(D)
  <2>1. m \in D /\ \A c \in D : m <= c
    <3>1. D \in SUBSET Nat /\ D # {}
      BY <1>1, <1>3
    <3> HIDE DEF D
    <3> QED
      BY <3>1, MinIsLeast
  <2>2. Bounded(D) = D \ {m}
    BY <1>6 DEF Bounded
  <2> HIDE DEF m
  <2>3. m \in Nat /\ m <= x /\ \A c \in D \ {m} : c \in Nat /\ m < c
    BY <1>1, <1>3, <2>1
  <2>4. \A e \in (U \cup {x}) \ (D \ {m}) : e < x + 1 /\ \A c \in D \ {m} : e < c
    <3>1. TAKE e \in (U \cup {x}) \ (D \ {m})
    <3>2. e \in U \ C \/ e = m
      OBVIOUS
    <3>3. x \in Nat
      BY <1>3
    <3> QED
      BY <1>4, <2>3, <3>2, <3>3
  <2>5. Cardinality(D \ {m}) = Cardinality(C)
    <3>1. Cardinality(D \ {m}) = Cardinality(D) - 1
      BY <1>1, <2>1, FS_RemoveElement
    <3> QED
      BY <1>1, <1>2, <3>1
  <2>6. Cardinality(C) = MaxCandles /\ Cardinality(U) + 1 > MaxCandles
    BY <1>1, <1>2, <1>5, <1>6, ContinuityAssumption
  <2>7. D \ {m} \subseteq U \cup {x} /\ U \cup {x} \subseteq Minutes
    BY <1>1 DEF Window
  <2> HIDE DEF D
  <2> QED
    BY <1>2, <2>2, <2>4, <2>5, <2>6, <2>7 DEF Window, D
<1>7. CASE ~(Cardinality(D) > MaxCandles)
  <2>1. Bounded(D) = D
    BY <1>7 DEF Bounded
  <2>2. Cardinality(C) = Cardinality(U) /\ ~(Cardinality(U) + 1 > MaxCandles)
    BY <1>1, <1>2, <1>5, <1>7, ContinuityAssumption
  <2>3. \A e \in (U \cup {x}) \ D : e < x + 1 /\ \A c \in D : e < c
    BY <1>3, <1>4
  <2>4. D \subseteq U \cup {x} /\ U \cup {x} \subseteq Minutes
    BY <1>1 DEF Window
  <2> HIDE DEF D
  <2> QED
    BY <1>2, <2>1, <2>2, <2>3, <2>4 DEF Window, D
<1> QED
  BY <1>6, <1>7

\* Before the last candle that lacked comes, whatever left the window is of the
\* gap, or there was room for the gap.
LEMMA WindowFits ==
  ASSUME NEW B \in SUBSET Minutes, NEW g \in Gaps, NEW C, NEW last \in Missing(g) \ B,
         \A n \in Missing(g) : n > last => n \in B,
         Window(B \cup g[1]..(last - 1), C, last)
  PROVE  (Missing(g) \subseteq C \cup {last})
         <=> (Cardinality(B \cup Missing(g)) - 1 - MaxCandles <= Cardinality({n \in B : n < g[1]}))
<1> DEFINE M == Missing(g)
           U == B \cup g[1]..(last - 1)
           A == {n \in B : n < g[1]}
           E == U \ C
<1>1. /\ g[1] \in Nat /\ g[2] \in Nat /\ last \in Nat /\ g[1] <= last /\ last < g[2]
      /\ \A n : n \in M <=> n \in Nat /\ g[1] <= n /\ n < g[2]
      /\ \A n : n \in g[1]..(last - 1) <=> n \in Nat /\ g[1] <= n /\ n < last
      /\ M \subseteq Minutes
  BY ContinuityAssumption DEF Gaps, Minutes, Missing
<1>2. \A n \in B : n \in Nat
  BY ContinuityAssumption DEF Minutes
<1>3. /\ U \in SUBSET Minutes /\ C \in SUBSET U /\ A \in SUBSET Minutes /\ E \in SUBSET Minutes
      /\ last \notin U /\ B \cup M = U \cup {last}
  <2>1. last \notin U
    BY <1>1
  <2>2. \A n : n \in B \cup M <=> n \in U \cup {last}
    BY <1>1, <1>2
  <2>3. B \cup M = U \cup {last}
    BY <2>2
  <2> QED
    BY <1>1, <2>1, <2>3 DEF Window
<1>4. /\ \A e \in E : e < last /\ e \in Nat /\ \A c \in C : e < c
      /\ Cardinality(C) = IF Cardinality(U) > MaxCandles THEN MaxCandles ELSE Cardinality(U)
  <2>1. \A e \in E : e \in Nat
    BY <1>3, ContinuityAssumption DEF Minutes
  <2> QED
    BY <2>1 DEF Window
<1>5. M \subseteq C \cup {last} <=> E \cap M = {}
  <2>1. ASSUME M \subseteq C \cup {last} PROVE E \cap M = {}
    BY <1>3, <2>1
  <2>2. ASSUME E \cap M = {}, NEW n \in M PROVE n \in C \cup {last}
    <3>1. n \in U \/ n = last
      BY <1>3
    <3> QED
      BY <2>2, <3>1
  <2> QED
    BY <2>1, <2>2
<1> HIDE DEF U
<1>6. /\ IsFiniteSet(U) /\ Cardinality(U) \in Nat /\ IsFiniteSet(A) /\ Cardinality(A) \in Nat
      /\ IsFiniteSet(E) /\ Cardinality(E) \in Nat /\ Cardinality(C) \in Nat
  BY <1>3, FiniteMinutes
<1>7. Cardinality(B \cup M) = Cardinality(U) + 1
  BY <1>3, <1>6, FS_AddElement
<1>8. Cardinality(E) = Cardinality(U) - Cardinality(C)
  <2>1. U \cap C = C
    BY <1>3
  <2> QED
    BY <1>6, <2>1, FS_Difference
<1>9. ASSUME Cardinality(U) - MaxCandles <= Cardinality(A), NEW n \in E \cap M PROVE FALSE
  <2>1. A \cup {n} \in SUBSET E /\ n \notin A
    <3>1. \A a \in A : a \in U /\ a \in Nat /\ a < n
      BY <1>1, <1>2 DEF U
    <3>2. n \notin A
      BY <1>1
    <3>3. \A a \in A : a \in E
      BY <1>4, <3>1
    <3> QED
      BY <3>2, <3>3
  <2> HIDE DEF A, E
  <2>2. Cardinality(A \cup {n}) = Cardinality(A) + 1
    BY <1>6, <2>1, FS_AddElement
  <2>3. Cardinality(A \cup {n}) <= Cardinality(E)
    BY <1>6, <2>1, FS_Subset
  <2> QED
    BY <1>4, <1>6, <1>8, <1>9, <2>2, <2>3, ContinuityAssumption
<1>10. ASSUME E \cap M = {} PROVE Cardinality(U) - MaxCandles <= Cardinality(A)
  <2>1. E \in SUBSET A
    <3>1. \A e \in E : e \in U /\ e \notin M
      BY <1>10
    <3>2. \A e \in E : e \in B
      BY <1>1, <1>4, <3>1 DEF U
    <3> QED
      BY <1>1, <1>4, <3>1, <3>2
  <2> HIDE DEF A, E
  <2>2. Cardinality(E) <= Cardinality(A)
    BY <1>6, <2>1, FS_Subset
  <2> QED
    BY <1>4, <1>6, <1>8, <2>2, ContinuityAssumption
<1>11. Cardinality(B \cup M) - 1 - MaxCandles <= Cardinality(A)
       <=> Cardinality(U) - MaxCandles <= Cardinality(A)
  BY <1>6, <1>7, ContinuityAssumption
<1> HIDE DEF A, E
<1> QED
  BY <1>5, <1>9, <1>10, <1>11 DEF A

\* repair: the gap is closed exactly when the window has room for it.
LEMMA RepairCloses ==
  ASSUME NEW t, TrackerOK(t), NEW g \in t.active
  PROVE  Fits(t, g) <=> g \notin Repaired(t, g).active
<1> DEFINE k == g[2] - g[1]
           B == t.candles
           Offered(n) == B \cup g[1]..(g[1] + n - 1)
<1>1. g \in Gaps /\ B \in SUBSET Minutes
  BY DEF TrackerOK, Trackers
<1>2. /\ g[1] \in Nat /\ g[2] \in Nat /\ k \in Nat /\ k # 0
      /\ \A n \in 0..(k - 1) : g[1] + n \in Minutes /\ g[1] + n \in Nat
      /\ \A x : x \in Missing(g) <=> x \in Nat /\ g[1] <= x /\ x < g[1] + k
  BY <1>1, ContinuityAssumption DEF Gaps, Minutes, Missing
<1>3. PICK run : /\ run[0] = t
                 /\ \A n \in 0..k : TrackerOK(run[n])
                 /\ \A n \in 1..k : run[n] = Observed(run[n - 1], g[1] + n - 1)
                 /\ Repaired(t, g) = run[k]
  BY <1>1, RepairRun
<1> HIDE DEF k
\* The last candle that lacks is the one at g[1] + l.
<1>4. PICK l \in 0..(k - 1) : /\ g[1] + l \notin B
                              /\ \A n \in 0..(k - 1) : n > l => g[1] + n \in B
  <2> DEFINE S == {l \in 0..(k - 1) : \A n \in 0..(k - 1) : n > l => g[1] + n \in B}
  <2>1. S \in SUBSET Nat
    BY <1>2
  <2>2. k - 1 \in S
    BY <1>2
  <2>3. PICK l \in S : \A n \in S : l <= n
    <3> HIDE DEF S
    <3> QED
      BY <2>1, <2>2, LeastNumber
  <2>4. l \in 0..(k - 1) /\ l \in Nat /\ \A n \in 0..(k - 1) : n > l => g[1] + n \in B
    BY <2>1, <2>3
  <2>5. ASSUME g[1] + l \in B PROVE FALSE
    <3>1. \A n \in 0..(k - 1) : n >= l => g[1] + n \in B
      BY <2>4, <2>5
    <3>2. CASE l = 0
      <4>1. \A x \in Missing(g) : x - g[1] \in 0..(k - 1) /\ g[1] + (x - g[1]) = x /\ x - g[1] >= 0
        BY <1>2
      <4>2. Missing(g) \subseteq B
        BY <3>1, <3>2, <4>1
      <4> QED
        BY <4>2 DEF TrackerOK
    <3>3. CASE l # 0
      <4>1. l - 1 \in 0..(k - 1) /\ ~(l <= l - 1) /\ \A n \in 0..(k - 1) : n > l - 1 => n >= l
        BY <1>2, <2>4, <3>3
      <4>2. l - 1 \in S
        BY <3>1, <4>1
      <4> QED
        BY <2>3, <4>1, <4>2
    <3> QED
      BY <3>2, <3>3
  <2> QED
    BY <2>4, <2>5
<1> DEFINE last == g[1] + l
           closed == Missing(g) \subseteq run[l].candles \cup {last}
           Along(n) == /\ Window(Offered(n), run[n].candles, g[1] + n)
                       /\ n <= l => g \in run[n].active
                       /\ n > l => (g \in run[n].active <=> ~closed)
<1>5. l \in Nat /\ l < k /\ last \in Nat /\ last \in Missing(g) /\ last \notin B
  BY <1>2, <1>4
<1>6. \A n \in 0..(k - 1) : n # l /\ n < l => last \notin Offered(n + 1)
  BY <1>2, <1>5
<1>7. \A n \in 0..(k - 1) : Offered(n + 1) = Offered(n) \cup {g[1] + n}
  <2>1. TAKE n \in 0..(k - 1)
  <2>2. \A x : x \in g[1]..(g[1] + (n + 1) - 1) <=> x \in g[1]..(g[1] + n - 1) \/ x = g[1] + n
    BY <1>2
  <2> QED
    BY <2>2
<1>8. Along(0)
  <2>1. Offered(0) = B
    BY <1>2
  <2>2. IsFiniteSet(B) /\ Cardinality(B) \in Nat /\ Cardinality(B) <= MaxCandles
    BY FS_CardinalityType DEF TrackerOK
  <2>3. Window(B, B, g[1] + 0)
    BY <1>1, <2>2, ContinuityAssumption DEF Window
  <2> HIDE DEF closed, Offered
  <2> QED
    BY <1>3, <1>5, <2>1, <2>3
<1>9. ASSUME NEW n \in 0..(k - 1), Along(n) PROVE Along(n + 1)
  <2> DEFINE x == g[1] + n
             C == run[n].candles
  <2>1. /\ n \in Nat /\ x \in Minutes /\ x \in Nat /\ TrackerOK(run[n]) /\ n + 1 \in 1..k
        /\ run[n + 1] = Observed(run[n], x) /\ g[1] + (n + 1) = x + 1
    <3>1. n \in 0..k /\ n + 1 \in 1..k /\ (n + 1) - 1 = n /\ g[1] + (n + 1) - 1 = g[1] + n
          /\ g[1] + (n + 1) = x + 1 /\ n \in Nat
      BY <1>2
    <3> QED
      BY <1>2, <1>3, <3>1
  <2>2. Offered(n + 1) = Offered(n) \cup {x}
    BY <1>7
  <2>3. Window(Offered(n), C, x)
    BY <1>9
  <2>4. CASE x \in C
    <3>1. run[n + 1] = run[n]
      BY <2>1, <2>4 DEF Observed
    <3>2. Offered(n + 1) = Offered(n)
      BY <2>2, <2>3, <2>4 DEF Window
    <3>3. Window(Offered(n + 1), C, x + 1)
      <4>1. \A e \in Offered(n) \ C : e < x /\ e \in Nat
        BY <2>3, ContinuityAssumption DEF Window, Minutes
      <4>2. \A e \in Offered(n) \ C : e < x + 1
        BY <2>1, <4>1
      <4> HIDE DEF Offered, x
      <4> QED
        BY <2>3, <3>2, <4>2 DEF Window
    <3>4. n # l
      <4>1. last \notin Offered(n) \/ n # l
        BY <1>2, <1>5
      <4> QED
        BY <2>3, <2>4, <4>1 DEF Window
    <3>5. (n + 1 <= l => n <= l) /\ (n + 1 > l => n > l)
      BY <1>5, <2>1, <3>4
    <3> HIDE DEF Offered, closed
    <3> QED
      BY <1>9, <2>1, <3>1, <3>3, <3>5
  <2>5. CASE x \notin C
    <3>1. x \notin Offered(n)
      <4>1. ~(x < x)
        BY <2>1
      <4> QED
        BY <2>3, <2>5, <4>1 DEF Window
    <3>2. n <= l
      <4>1. n > l => x \in B
        BY <1>4
      <4> QED
        BY <1>5, <2>1, <3>1, <4>1
    <3>3. /\ run[n + 1].candles = Bounded(C \cup {x})
          /\ \A h \in run[n].active : h \in run[n + 1].active
                                      <=> ~(Missing(h) \subseteq C \cup {x})
      BY <2>1, <2>5, ObservedOK
    <3>4. Window(Offered(n + 1), run[n + 1].candles, x + 1)
      <4> HIDE DEF Offered, x, C
      <4> QED
        BY <2>1, <2>2, <2>3, <3>1, <3>3, WindowNext
    <3>5. g \in run[n + 1].active <=> ~(Missing(g) \subseteq C \cup {x})
      BY <1>9, <3>2, <3>3
    <3>6. CASE n = l
      <4>1. ~(n + 1 <= l) /\ n + 1 > l
        BY <1>5, <3>6
      <4>2. closed <=> Missing(g) \subseteq C \cup {x}
        BY <3>6
      <4> HIDE DEF Offered, closed
      <4> QED
        BY <2>1, <3>4, <3>5, <4>1, <4>2
    <3>7. CASE n # l
      <4>1. n + 1 <= l /\ ~(n + 1 > l) /\ n < l
        BY <1>5, <2>1, <3>2, <3>7
      <4>2. last \notin C \cup {x}
        BY <1>6, <2>2, <2>3, <3>7, <4>1 DEF Window
      <4>3. g \in run[n + 1].active
        BY <1>5, <3>5, <4>2
      <4> HIDE DEF Offered, closed
      <4> QED
        BY <2>1, <3>4, <4>1, <4>3
    <3> QED
      BY <3>6, <3>7
  <2> QED
    BY <2>4, <2>5
<1> HIDE DEF Along
<1>10. \A n \in 0..k : Along(n)
  <2> DEFINE Bad == {n \in 0..k : ~Along(n)}
  <2> SUFFICES ASSUME Bad # {} PROVE FALSE
    OBVIOUS
  <2>1. PICK m \in Bad : \A n \in Bad : m <= n
    <3>1. Bad \in SUBSET Nat
      BY <1>2
    <3> HIDE DEF Bad
    <3> QED
      BY <3>1, LeastNumber
  <2>2. m \in 0..k /\ ~Along(m) /\ m # 0
    BY <1>8
  <2>3. m - 1 \in 0..(k - 1) /\ m - 1 \in 0..k /\ ~(m <= m - 1) /\ (m - 1) + 1 = m
    BY <1>2, <2>2
  <2>4. Along(m - 1)
    BY <2>1, <2>3
  <2> QED
    BY <1>9, <2>2, <2>3, <2>4
<1>11. g \in Repaired(t, g).active <=> ~closed
  <2>1. k \in 0..k /\ k > l
    BY <1>2, <1>5
  <2> HIDE DEF closed
  <2> QED
    BY <1>3, <1>10, <2>1 DEF Along
<1>12. closed <=> Fits(t, g)
  <2>1. l \in 0..k
    BY <1>2, <1>5
  <2>2. Window(Offered(l), run[l].candles, last)
    BY <1>10, <2>1 DEF Along
  <2>3. \A x \in Missing(g) : x > last => x \in B
    <3>1. TAKE x \in Missing(g)
    <3>2. x - g[1] \in 0..(k - 1) /\ g[1] + (x - g[1]) = x /\ (x > last => x - g[1] > l)
      BY <1>2, <1>5
    <3> QED
      BY <1>4, <3>2
  <2>4. Offered(l) = B \cup g[1]..(last - 1)
    BY <1>2, <1>5
  <2> HIDE DEF Offered, last, B
  <2>5. (Missing(g) \subseteq run[l].candles \cup {last})
        <=> (Cardinality(B \cup Missing(g)) - 1 - MaxCandles <= Cardinality({n \in B : n < g[1]}))
    BY <1>1, <1>5, <2>2, <2>3, <2>4, WindowFits
  <2> QED
    BY <2>5 DEF Fits, B
<1> QED
  BY <1>11, <1>12

-----------------------------------------------------------------------------
(***************************************************************************)
(* Topics, shards and requests.                                            *)
(***************************************************************************)
LEMMA DivisionRounds ==
  ASSUME NEW p \in Nat, NEW q \in Nat, NEW b \in Nat \ {0}, p < q
  PROVE  p \div b \in Nat /\ p \div b < (q + b - 1) \div b
<1> DEFINE k == p \div b
           n == (q + b - 1) \div b
<1>1. k \in Nat /\ k * b <= p
  OBVIOUS
<1>2. n \in Nat /\ q + b - 1 < (n + 1) * b
  OBVIOUS
<1> HIDE DEF k, n
<1>3. (k + 1) * b = k * b + b /\ k * b \in Nat
  BY <1>1
<1>4. (k + 1) * b < (n + 1) * b
  BY <1>1, <1>2, <1>3
<1>5. k < n
  <2> SUFFICES ASSUME n <= k PROVE FALSE
    BY <1>1, <1>2
  <2>1. (n + 1) * b <= (k + 1) * b
    BY <1>1, <1>2
  <2> QED
    BY <1>1, <1>2, <1>4, <2>1
<1> QED
  BY <1>1, <1>5 DEF k, n

Plannable(U) == U \subseteq Nat /\ IsFiniteSet(U)

LEMMA PlannedOK ==
  /\ Plannable({}) /\ Feasible({})
  /\ \A U \in Universes \cup {{}} : Plannable(U) /\ U \subseteq Symbols /\ TopicsOf(U) \subseteq Topics
<1>1. Plannable({})
  BY FS_EmptySet DEF Plannable
<1>2. Cardinality({}) = 0
  BY FS_EmptySet
<1>3. (2 * 0 + Budget - 1) \div Budget = 0
  BY FeedAssumption
<1>4. Feasible({})
  BY <1>2, <1>3, FeedAssumption DEF Feasible, Connections
<1> QED
  BY <1>1, <1>4, FeedAssumption DEF Plannable, Symbols, TopicsOf, Topics

LEMMA TickerShardOK ==
  ASSUME NEW U, Plannable(U), NEW s \in U
  PROVE  ShardOf(U, <<"ticker", s>>) \in Nat /\ ShardOf(U, <<"ticker", s>>) < Connections(U)
<1> DEFINE before == {q \in U : q < s}
           n == Cardinality(U)
           p == Cardinality(before) + n
<1>1. IsFiniteSet(U \ {s}) /\ Cardinality(U \ {s}) = n - 1 /\ n \in Nat
  BY FS_RemoveElement, FS_CardinalityType DEF Plannable
<1>2. before \in SUBSET (U \ {s})
  BY DEF Plannable
<1>3. IsFiniteSet(before) /\ Cardinality(before) <= n - 1
  BY <1>1, <1>2, FS_Subset
<1>4. Cardinality(before) \in Nat
  BY <1>3, FS_CardinalityType
<1>5. Position(U, <<"ticker", s>>) = p
  BY DEF Position
<1> HIDE DEF before
<1>6. p \in Nat /\ 2 * n \in Nat /\ p < 2 * n
  BY <1>1, <1>3, <1>4
<1> HIDE DEF p, n
<1>7. p \div Budget \in Nat /\ p \div Budget < (2 * n + Budget - 1) \div Budget
  BY <1>6, FeedAssumption, DivisionRounds
<1> QED
  BY <1>5, <1>7 DEF ShardOf, Connections, n

LEMMA BatchesOK ==
  ASSUME NEW U, NEW batch \in Batches(U)
  PROVE  batch \subseteq TopicsOf(U) /\ batch # {}
<1>1. PICK t \in TopicsOf(U) : batch = BatchOf(U, t)
  BY DEF Batches
<1>2. t \in BatchOf(U, t)
  BY DEF BatchOf
<1> QED
  BY <1>1, <1>2 DEF BatchOf

\* The connection that carries a ticker of the plan.
LEMMA TickerEpoch ==
  ASSUME FeedInv, NEW s \in planned
  PROVE  /\ TickerShard(s) \in Shards /\ TickerShard(s) < Connections(planned)
         /\ Epoch(<<"ticker", s>>) \in Epochs
         /\ Epoch(<<"ticker", s>>) = [shard |-> TickerShard(s), gen |-> generation[TickerShard(s)]]
<1>1. Plannable(planned)
  BY PlannedOK DEF FeedInv, TypeOK
<1>2. /\ Connections(planned) <= MaxConnections
      /\ TickerShard(s) \in Nat /\ TickerShard(s) < Connections(planned)
  BY <1>1, TickerShardOK DEF FeedInv, SubscriptionsOK, Feasible, TickerShard
<1>3. TickerShard(s) \in Shards
  <2>1. Connections(planned) \in Int
    <3>1. Cardinality(planned) \in Nat
      BY <1>1, FS_CardinalityType DEF Plannable
    <3> QED
      BY <3>1, FeedAssumption DEF Connections
  <2> QED
    BY <1>2, <2>1, FeedAssumption DEF Shards
<1>4. generation \in [Shards -> Nat]
  BY DEF FeedInv, TypeOK
<1> QED
  BY <1>2, <1>3, <1>4 DEF Epoch, Epochs, TickerShard

-----------------------------------------------------------------------------
(***************************************************************************)
(* The supervisor's steps.                                                 *)
(***************************************************************************)
\* As long as the plan and its connections stay, tickers that only leave stay
\* what they are.
LEMMA TickersKept ==
  ASSUME TickersOK, UNCHANGED <<planned, opened, generation>>,
         \A s \in Feeds : snapshots'[s] \in {snapshots[s], None}
  PROVE  TickersOK'
BY DEF TickersOK, TickerShard, Epoch

LEMMA TrackersKept == TrackersOK /\ UNCHANGED tracker => TrackersOK'
BY DEF TrackersOK

LEMMA FailsType ==
  ASSUME FeedInv, Fails
  PROVE  /\ mode' = "backoff" /\ health' = "RECONNECTING"
         /\ failed' \subseteq Topics /\ pending' = {}
BY DEF Fails, FeedInv, TypeOK

LEMMA BeginsStep ==
  ASSUME FeedInv, mode \in {"new", "waiting", "closing"}, changed' \in {FALSE, changed},
         Begins(attempt),
         UNCHANGED <<universe, silent, generation, data, mending, changes, faults>>
  PROVE  FeedInv'
<1>1. TrackersOK'
  BY TrackersKept DEF data, FeedInv
<1>2. attempt' = attempt /\ changed' \in BOOLEAN
  BY DEF Begins, FeedInv, TypeOK
<1>3. CASE /\ universe = {}
           /\ mode' = "waiting" /\ health' = "DISCONNECTED"
           /\ UNCHANGED <<planned, opened, sent, subscriptions>>
  <2>1. TypeOK'
    BY <1>2, <1>3 DEF FeedInv, TypeOK, data, mending, subscriptions
  <2>2. SubscriptionsOK' /\ CycleOK'
    BY <1>3 DEF FeedInv, SubscriptionsOK, CycleOK, subscriptions
  <2>3. TickersOK'
    BY <1>3, TickersKept DEF FeedInv, data
  <2> QED
    BY <1>1, <2>1, <2>2, <2>3 DEF FeedInv
<1>4. CASE /\ Fails
           /\ UNCHANGED <<planned, opened, sent, expected, acknowledged>>
  <2>1. TypeOK'
    BY <1>2, <1>4, FailsType DEF FeedInv, TypeOK, data, mending
  <2>2. SubscriptionsOK' /\ CycleOK'
    BY <1>4, FailsType DEF FeedInv, SubscriptionsOK, CycleOK
  <2>3. TickersOK'
    BY <1>4, TickersKept DEF FeedInv, data
  <2> QED
    BY <1>1, <2>1, <2>2, <2>3 DEF FeedInv
<1>5. CASE /\ Feasible(universe)
           /\ mode' = "starting"
           /\ health' = IF attempt = 0 THEN "CONNECTING" ELSE "RECONNECTING"
           /\ planned' = universe /\ opened' = 0 /\ sent' = {}
           /\ expected' = TopicsOf(universe)
           /\ acknowledged' = {} /\ failed' = {} /\ pending' = {}
  <2>1. universe \in Universes \cup {{}} /\ TopicsOf(universe) \subseteq Topics
    BY PlannedOK DEF FeedInv, TypeOK
  <2>2. opened' \in 0..MaxConnections
    BY <1>5, FeedAssumption
  <2>3. TypeOK'
    BY <1>2, <1>5, <2>1, <2>2 DEF FeedInv, TypeOK, data, mending
  <2>4. SubscriptionsOK' /\ CycleOK'
    BY <1>5 DEF SubscriptionsOK, CycleOK, Feasible, Connections
  <2>5. TickersOK'
    <3>1. Plannable(planned') /\ opened' = 0
      BY <1>5, <2>1, PlannedOK
    <3>2. \A s \in planned' : TickerShard(s)' \in Nat
      BY <3>1, TickerShardOK DEF TickerShard
    <3> QED
      BY <3>1, <3>2 DEF TickersOK
  <2> QED
    BY <1>1, <2>3, <2>4, <2>5 DEF FeedInv
<1> QED
  BY <1>3, <1>4, <1>5 DEF Begins

LEMMA OpenStep == ASSUME FeedInv, Open PROVE FeedInv'
<1>1. /\ mode = "starting" /\ opened < Connections(planned)
      /\ generation' = [generation EXCEPT ![opened] = generation[opened] + 1]
      /\ Opens(opened)
      /\ opened' = opened + 1
      /\ silent' = {}
      /\ UNCHANGED <<universe, changed, mode, planned, sent, attempt, subscriptions,
                     health, tracker, mending, changes, faults>>
  BY DEF Open
<1>2. opened \in Nat /\ opened + 1 \in 0..MaxConnections /\ opened \in Shards
  <2>1. opened \in Nat /\ Feasible(planned) /\ Plannable(planned)
    BY PlannedOK DEF FeedInv, TypeOK, SubscriptionsOK
  <2>2. Connections(planned) \in Int
    <3>1. Cardinality(planned) \in Nat
      BY <2>1, FS_CardinalityType DEF Plannable
    <3> QED
      BY <3>1, FeedAssumption DEF Connections
  <2> QED
    BY <1>1, <2>1, <2>2, FeedAssumption DEF Feasible, Shards
<1>3. generation' \in [Shards -> Nat] /\ \A k \in Shards : k # opened => generation'[k] = generation[k]
  BY <1>1, <1>2 DEF FeedInv, TypeOK
<1>4. snapshots' = [s \in Feeds |->
          IF s \in planned /\ TickerShard(s) = opened THEN None ELSE snapshots[s]]
  BY <1>1 DEF Opens, TickerShard
<1>5. TypeOK'
  <2>1. snapshots' \in [Feeds -> [epoch : Epochs, base : Epochs, fresh : BOOLEAN] \cup {None}]
    BY <1>4 DEF FeedInv, TypeOK
  <2> QED
    BY <1>1, <1>2, <1>3, <2>1 DEF FeedInv, TypeOK, subscriptions, mending
<1>6. TrackersOK' /\ SubscriptionsOK' /\ CycleOK'
  BY <1>1, TrackersKept DEF FeedInv, SubscriptionsOK, CycleOK, subscriptions
<1>7. TickersOK'
  <2> SUFFICES ASSUME NEW s \in Feeds \cap planned, TickerShard(s) < opened + 1, snapshots'[s] # None
               PROVE  /\ snapshots'[s].base = snapshots'[s].epoch
                      /\ snapshots'[s].epoch
                           = [shard |-> TickerShard(s), gen |-> generation'[TickerShard(s)]]
    BY <1>1 DEF TickersOK, TickerShard, Epoch
  <2>1. TickerShard(s) # opened /\ snapshots'[s] = snapshots[s]
    BY <1>4
  <2>2. TickerShard(s) \in Shards /\ TickerShard(s) < opened
    <3>1. TickerShard(s) \in Shards
      BY TickerEpoch
    <3> QED
      BY <1>2, <2>1, <3>1, FeedAssumption DEF Shards
  <2>3. Epoch(<<"ticker", s>>) = [shard |-> TickerShard(s), gen |-> generation[TickerShard(s)]]
    BY TickerEpoch
  <2> QED
    BY <1>3, <2>1, <2>2, <2>3 DEF FeedInv, TickersOK
<1> QED
  BY <1>5, <1>6, <1>7 DEF FeedInv

LEMMA SubscribeStep == ASSUME FeedInv, Subscribe PROVE FeedInv'
<1>1. /\ mode = "starting"
      /\ UNCHANGED <<universe, changed, mode, planned, opened, silent, attempt, generation,
                     acknowledged, failed, health, data, mending, changes, faults>>
  BY DEF Subscribe
<1>2. PICK batch \in Batches(planned) :
        /\ sent' = sent \cup {batch} /\ pending' = pending \cup {batch}
        /\ expected' = expected \cup batch
  BY DEF Subscribe
<1>3. batch \subseteq TopicsOf(planned) /\ batch # {} /\ TopicsOf(planned) \subseteq Topics
  BY BatchesOK, PlannedOK DEF FeedInv, TypeOK
<1>4. TypeOK'
  BY <1>1, <1>2, <1>3 DEF FeedInv, TypeOK, data, mending
<1>5. TrackersOK' /\ SubscriptionsOK' /\ CycleOK' /\ TickersOK'
  BY <1>1, <1>2, <1>3, TrackersKept, TickersKept DEF FeedInv, SubscriptionsOK, CycleOK, data
<1> QED
  BY <1>4, <1>5 DEF FeedInv

\* The supervisor goes on to read, sees a change, or waits for its delay.
LEMMA SupervisorStep ==
  ASSUME FeedInv, Read \/ ChangeSeen \/ Backoff
  PROVE  FeedInv'
<1>1. UNCHANGED <<universe, planned, opened, sent, silent, generation, subscriptions,
                  health, data, mending, changes, faults>>
  BY DEF Read, ChangeSeen, Backoff
<1>2. attempt' \in 0..MaxAttempt
  BY FeedAssumption DEF Read, ChangeSeen, Backoff, SeesChange, BackedOff, FeedInv, TypeOK
<1>3. changed' \in BOOLEAN /\ mode' \in {"running", "closing"}
  BY DEF Read, ChangeSeen, Backoff, SeesChange, BackedOff, FeedInv, TypeOK
<1>4. TypeOK'
  BY <1>1, <1>2, <1>3 DEF FeedInv, TypeOK, subscriptions, data, mending
<1>5. SubscriptionsOK' /\ TrackersOK' /\ TickersOK'
  BY <1>1, TrackersKept, TickersKept DEF FeedInv, SubscriptionsOK, subscriptions, data
<1>6. CycleOK'
  BY <1>1 DEF Read, ChangeSeen, Backoff, SeesChange, BackedOff, FeedInv, CycleOK, subscriptions
<1> QED
  BY <1>4, <1>5, <1>6 DEF FeedInv

\* A connection fails, or is found silent.
LEMMA FailureStep ==
  ASSUME FeedInv, Lose \/ PongDeadline
  PROVE  FeedInv'
<1>1. /\ Fails
      /\ UNCHANGED <<universe, changed, planned, opened, sent, silent, attempt, generation,
                     expected, acknowledged, data, mending, changes>>
  BY DEF Lose, PongDeadline
<1>2. faults' \in 0..MaxFaults
  BY FeedAssumption DEF Lose, PongDeadline, FeedInv, TypeOK
<1>3. TypeOK'
  BY <1>1, <1>2, FailsType DEF FeedInv, TypeOK, data, mending
<1>4. SubscriptionsOK' /\ CycleOK' /\ TrackersOK' /\ TickersOK'
  BY <1>1, FailsType, TrackersKept, TickersKept DEF FeedInv, SubscriptionsOK, CycleOK, data
<1> QED
  BY <1>3, <1>4 DEF FeedInv

LEMMA FallSilentStep == ASSUME FeedInv, FallSilent PROVE FeedInv'
<1>1. /\ faults < MaxFaults /\ faults' = faults + 1
      /\ UNCHANGED <<universe, changed, mode, planned, opened, sent, attempt, generation,
                     subscriptions, health, data, mending, changes>>
  BY DEF FallSilent
<1>2. PICK shard \in 0..(opened - 1) : silent' = silent \cup {shard}
  BY DEF FallSilent
<1>3. silent' \subseteq Shards /\ faults' \in 0..MaxFaults
  BY <1>1, <1>2, FeedAssumption DEF FeedInv, TypeOK, Shards
<1>4. TypeOK'
  BY <1>1, <1>3 DEF FeedInv, TypeOK, subscriptions, data, mending
<1>5. SubscriptionsOK' /\ CycleOK' /\ TrackersOK' /\ TickersOK'
  BY <1>1, TrackersKept, TickersKept DEF FeedInv, SubscriptionsOK, CycleOK, subscriptions, data
<1> QED
  BY <1>4, <1>5 DEF FeedInv

LEMMA PublishStep == ASSUME FeedInv, NEW U \in Universes, Publish(U) PROVE FeedInv'
<1>1. /\ changes < MaxChanges /\ changes' = changes + 1 /\ universe' = U
      /\ snapshots' = [s \in Feeds |-> IF s \in U THEN snapshots[s] ELSE None]
      /\ UNCHANGED <<mode, planned, opened, sent, silent, attempt, generation,
                     health, tracker, mending, faults>>
  BY DEF Publish
<1>2. \/ /\ expected' = TopicsOf(U) /\ changed' = TRUE
         /\ acknowledged' = {} /\ failed' = {} /\ pending' = {}
      \/ UNCHANGED <<subscriptions, changed>>
  BY DEF Publish
<1>3. TopicsOf(U) \subseteq Topics
  BY PlannedOK
<1>4. TypeOK'
  <2>1. snapshots' \in [Feeds -> [epoch : Epochs, base : Epochs, fresh : BOOLEAN] \cup {None}]
    BY <1>1 DEF FeedInv, TypeOK
  <2>2. /\ expected' \subseteq Topics /\ acknowledged' \subseteq Topics /\ failed' \subseteq Topics
        /\ pending' \subseteq sent'
    BY <1>1, <1>2, <1>3 DEF FeedInv, TypeOK, subscriptions
  <2>3. changed' \in BOOLEAN
    BY <1>2 DEF FeedInv, TypeOK
  <2>4. changes' \in 0..MaxChanges
    BY <1>1, FeedAssumption DEF FeedInv, TypeOK
  <2> QED
    BY <1>1, <2>1, <2>2, <2>3, <2>4 DEF FeedInv, TypeOK, mending
<1>5. SubscriptionsOK' /\ CycleOK'
  BY <1>1, <1>2 DEF FeedInv, SubscriptionsOK, CycleOK, subscriptions
<1>6. TrackersOK' /\ TickersOK'
  BY <1>1, TrackersKept, TickersKept DEF FeedInv
<1> QED
  BY <1>4, <1>5, <1>6 DEF FeedInv

LEMMA StopStep ==
  ASSUME FeedInv, Stop \/ Stopped
  PROVE  FeedInv'
<1>1. UNCHANGED <<universe, planned, opened, sent, silent, attempt, generation,
                  subscriptions, data, mending, changes, faults>>
  BY DEF Stop, Stopped
<1>2. /\ changed' \in BOOLEAN /\ mode' \in {"stopping", "stopped"}
      /\ health' \in {health, "STOPPED"} /\ (mode' = "stopped" => health' = "STOPPED")
  BY DEF Stop, Stopped, FeedInv, TypeOK
<1>3. TypeOK'
  BY <1>1, <1>2 DEF FeedInv, TypeOK, subscriptions, data, mending
<1>4. SubscriptionsOK' /\ CycleOK' /\ TrackersOK' /\ TickersOK'
  BY <1>1, <1>2, TrackersKept, TickersKept DEF FeedInv, SubscriptionsOK, CycleOK, subscriptions, data
<1> QED
  BY <1>3, <1>4 DEF FeedInv

-----------------------------------------------------------------------------
(***************************************************************************)
(* Messages and repairs.                                                   *)
(***************************************************************************)
LEMMA ReceivesOn ==
  ASSUME NEW topic, Receives(topic)
  PROVE  /\ mode = "running" /\ topic \in TopicsOf(planned) /\ health' = "HEALTHY"
         /\ UNCHANGED <<hub, mending, changes, faults>>
BY DEF Receives

\* A message leaves the hub as it is and the cycle in order.
LEMMA MessageKeeps ==
  ASSUME FeedInv, mode = "running", health' = "HEALTHY",
         UNCHANGED <<hub, mending, changes, faults>>,
         expected' = expected, failed' \subseteq Topics, pending' \subseteq pending,
         acknowledged' \subseteq TopicsOf(planned),
         changed => acknowledged' = {},
         snapshots' \in [Feeds -> [epoch : Epochs, base : Epochs, fresh : BOOLEAN] \cup {None}],
         TrackersOK', TickersOK'
  PROVE  FeedInv'
<1>1. TopicsOf(planned) \subseteq Topics
  BY PlannedOK DEF FeedInv, TypeOK
<1>2. TypeOK'
  BY <1>1 DEF FeedInv, TypeOK, hub, mending, TrackersOK
<1>3. SubscriptionsOK' /\ CycleOK'
  BY DEF FeedInv, SubscriptionsOK, CycleOK, hub
<1> QED
  BY <1>2, <1>3 DEF FeedInv

LEMMA AckStep == ASSUME FeedInv, Ack PROVE FeedInv'
<1>1. PICK batch \in sent :
        /\ \A topic \in batch : Receives(topic)
        /\ batch \in pending /\ pending' = pending \ {batch}
        /\ \/ acknowledged' = acknowledged \cup batch /\ failed' = failed \ batch
           \/ failed' = failed \cup batch /\ UNCHANGED acknowledged
        /\ UNCHANGED <<expected, data>>
  BY DEF Ack, Rejects
<1>2. batch \subseteq TopicsOf(planned) /\ batch # {} /\ TopicsOf(planned) \subseteq Topics
  BY PlannedOK DEF FeedInv, TypeOK, SubscriptionsOK
<1>3. mode = "running" /\ health' = "HEALTHY" /\ UNCHANGED <<hub, mending, changes, faults>>
  BY <1>1, <1>2, ReceivesOn
<1>4. ~changed
  BY <1>1, <1>3 DEF FeedInv, CycleOK
<1>5. acknowledged' \subseteq TopicsOf(planned) /\ failed' \subseteq Topics /\ pending' \subseteq pending
  BY <1>1, <1>2 DEF FeedInv, TypeOK, SubscriptionsOK
<1>6. TrackersOK' /\ TickersOK'
  BY <1>1, <1>3, TrackersKept, TickersKept DEF FeedInv, data, hub
<1>7. snapshots' \in [Feeds -> [epoch : Epochs, base : Epochs, fresh : BOOLEAN] \cup {None}]
  BY <1>1 DEF FeedInv, TypeOK, data
<1> QED
  BY <1>1, <1>3, <1>4, <1>5, <1>6, <1>7, MessageKeeps

\* A message that answers no request.
LEMMA DataKeeps ==
  ASSUME FeedInv, NEW topic, Receives(topic), UNCHANGED subscriptions,
         snapshots' \in [Feeds -> [epoch : Epochs, base : Epochs, fresh : BOOLEAN] \cup {None}],
         TrackersOK', TickersOK'
  PROVE  FeedInv'
<1>1. /\ mode = "running" /\ health' = "HEALTHY" /\ UNCHANGED <<hub, mending, changes, faults>>
  BY ReceivesOn
<1>2. /\ expected' = expected /\ failed' \subseteq Topics /\ pending' \subseteq pending
      /\ acknowledged' \subseteq TopicsOf(planned)
      /\ changed => acknowledged' = {}
  BY <1>1 DEF FeedInv, TypeOK, SubscriptionsOK, CycleOK, subscriptions
<1> QED
  BY <1>1, <1>2, MessageKeeps

LEMMA OtherMessageStep == ASSUME FeedInv, OtherMessage PROVE FeedInv'
<1>1. PICK topic \in TopicsOf(planned) : Receives(topic)
  BY DEF OtherMessage
<1>2. UNCHANGED <<subscriptions, data>> /\ UNCHANGED hub
  BY <1>1, ReceivesOn DEF OtherMessage
<1>3. TrackersOK' /\ TickersOK'
  BY <1>2, TrackersKept, TickersKept DEF FeedInv, data, hub
<1>4. snapshots' \in [Feeds -> [epoch : Epochs, base : Epochs, fresh : BOOLEAN] \cup {None}]
  BY <1>2 DEF FeedInv, TypeOK, data
<1> QED
  BY <1>1, <1>2, <1>3, <1>4, DataKeeps

\* A ticker that is written on the connection it comes from, over nothing or
\* over what came from there.
LEMMA TickerStep ==
  ASSUME FeedInv, NEW s \in Feeds, TickerSnapshot(s) \/ TickerDelta(s)
  PROVE  FeedInv'
<1> DEFINE topic == <<"ticker", s>>
           here  == Epoch(topic)
<1>1. Receives(topic) /\ UNCHANGED <<subscriptions, tracker>>
  BY DEF TickerSnapshot, TickerDelta
<1>2. mode = "running" /\ s \in planned /\ UNCHANGED hub
  BY <1>1, ReceivesOn DEF TopicsOf
<1>3. here \in Epochs /\ TickerShard(s) < opened
  BY <1>2, TickerEpoch DEF FeedInv, CycleOK
<1>4. snapshots \in [Feeds -> [epoch : Epochs, base : Epochs, fresh : BOOLEAN] \cup {None}]
  BY DEF FeedInv, TypeOK
<1>5. PICK row \in [epoch : Epochs, base : Epochs, fresh : BOOLEAN] :
        row.base = here /\ row.epoch = here /\ snapshots' = [snapshots EXCEPT ![s] = row]
  <2>1. CASE TickerSnapshot(s)
    <3> DEFINE new == [epoch |-> here, base |-> here, fresh |-> TRUE]
    <3>1. snapshots' = [snapshots EXCEPT ![s] = new]
      BY <2>1 DEF TickerSnapshot
    <3>2. new \in [epoch : Epochs, base : Epochs, fresh : BOOLEAN] /\ new.base = here /\ new.epoch = here
      BY <1>3
    <3> HIDE DEF new, here
    <3> QED
      BY <3>1, <3>2
  <2>2. CASE TickerDelta(s)
    <3> DEFINE new == [snapshots[s] EXCEPT !.epoch = here, !.fresh = TRUE]
    <3>1. snapshots[s] # None /\ snapshots' = [snapshots EXCEPT ![s] = new]
      BY <2>2, <1>4 DEF TickerDelta
    <3>2. snapshots[s] \in [epoch : Epochs, base : Epochs, fresh : BOOLEAN] /\ snapshots[s].base = here
      BY <1>2, <1>3, <1>4, <3>1 DEF FeedInv, TickersOK
    <3> HIDE DEF here
    <3>3. new \in [epoch : Epochs, base : Epochs, fresh : BOOLEAN] /\ new.base = here /\ new.epoch = here
      BY <1>3, <3>2
    <3> HIDE DEF new
    <3> QED
      BY <3>1, <3>3
  <2> QED
    BY <1>1, <2>1, <2>2
<1>7. snapshots' \in [Feeds -> [epoch : Epochs, base : Epochs, fresh : BOOLEAN] \cup {None}]
  BY <1>4, <1>5
<1>8. TickersOK'
  <2>1. snapshots'[s] = row /\ \A r \in Feeds : r # s => snapshots'[r] = snapshots[r]
    BY <1>4, <1>5
  <2>2. UNCHANGED <<planned, opened, generation>>
    BY <1>2 DEF hub
  <2>3. \A r \in Feeds \cap planned : TickerShard(r) < opened /\ snapshots'[r] # None =>
          snapshots'[r].base = snapshots'[r].epoch /\ snapshots'[r].epoch = Epoch(<<"ticker", r>>)
    BY <1>5, <2>1 DEF FeedInv, TickersOK
  <2> QED
    BY <2>2, <2>3 DEF TickersOK, TickerShard, Epoch
<1>9. TrackersOK'
  BY <1>1, TrackersKept DEF FeedInv
<1> QED
  BY <1>1, <1>7, <1>8, <1>9, DataKeeps

\* A tracker that is replaced by another one that is in order.
LEMMA TrackerReplaced ==
  ASSUME TrackersOK, NEW s \in Feeds, NEW t, TrackerOK(t), tracker' = [tracker EXCEPT ![s] = t]
  PROVE  TrackersOK'
<1>1. t \in Trackers
  BY DEF TrackerOK
<1>2. tracker' \in [Feeds -> Trackers] /\ tracker'[s] = t
  BY <1>1 DEF TrackersOK
<1>3. \A r \in Feeds : r # s => tracker'[r] = tracker[r]
  BY DEF TrackersOK
<1>4. \A r \in Feeds : TrackerOK(tracker'[r])
  BY <1>2, <1>3 DEF TrackersOK
<1> QED
  BY <1>2, <1>4 DEF TrackersOK, TrackerOK, Holes

LEMMA ClosedCandleStep ==
  ASSUME FeedInv, NEW s \in Feeds, NEW minute \in Streamed, ClosedCandle(s, minute)
  PROVE  FeedInv'
<1>1. /\ Receives(<<"kline", s>>) /\ UNCHANGED <<subscriptions, snapshots>>
      /\ tracker' = [tracker EXCEPT ![s] = Observed(tracker[s], minute)]
  BY DEF ClosedCandle
<1>2. UNCHANGED hub
  BY <1>1, ReceivesOn
<1>3. TrackerOK(Observed(tracker[s], minute))
  BY FeedAssumption, ObservedOK DEF FeedInv, TrackersOK
<1>4. TrackersOK'
  BY <1>1, <1>3, TrackerReplaced DEF FeedInv
<1>5. TickersOK'
  BY <1>1, <1>2, TickersKept DEF FeedInv, hub
<1>6. snapshots' \in [Feeds -> [epoch : Epochs, base : Epochs, fresh : BOOLEAN] \cup {None}]
  BY <1>1 DEF FeedInv, TypeOK
<1> QED
  BY <1>1, <1>4, <1>5, <1>6, DataKeeps

LEMMA AgeStep == ASSUME FeedInv, NEW s \in Feeds, Age(s) PROVE FeedInv'
<1>1. /\ snapshots[s] # None
      /\ snapshots' = [snapshots EXCEPT ![s].fresh = FALSE]
      /\ UNCHANGED <<hub, subscriptions, health, tracker, mending, changes, faults>>
  BY DEF Age
<1>2. snapshots \in [Feeds -> [epoch : Epochs, base : Epochs, fresh : BOOLEAN] \cup {None}]
  BY DEF FeedInv, TypeOK
<1> DEFINE row == [snapshots[s] EXCEPT !.fresh = FALSE]
<1>3. /\ row \in [epoch : Epochs, base : Epochs, fresh : BOOLEAN]
      /\ row.epoch = snapshots[s].epoch /\ row.base = snapshots[s].base
  BY <1>1, <1>2
<1>4. snapshots' = [snapshots EXCEPT ![s] = row]
  BY <1>1
<1> HIDE DEF row
<1>5. snapshots' \in [Feeds -> [epoch : Epochs, base : Epochs, fresh : BOOLEAN] \cup {None}]
  BY <1>2, <1>3, <1>4
<1>6. TypeOK'
  BY <1>1, <1>5 DEF FeedInv, TypeOK, hub, subscriptions, mending
<1>7. TickersOK'
  <2>1. snapshots'[s] = row /\ \A r \in Feeds : r # s => snapshots'[r] = snapshots[r]
    BY <1>2, <1>4
  <2> QED
    BY <1>1, <1>3, <2>1 DEF FeedInv, TickersOK, TickerShard, Epoch, hub
<1>8. SubscriptionsOK' /\ CycleOK' /\ TrackersOK'
  BY <1>1, TrackersKept DEF FeedInv, SubscriptionsOK, CycleOK, hub, subscriptions
<1> QED
  BY <1>6, <1>7, <1>8 DEF FeedInv

\* A repair only says so, or closes its gap.
LEMMA RepairsStep == ASSUME FeedInv, Repairs PROVE FeedInv'
<1>1. UNCHANGED <<hub, subscriptions, health, snapshots, changes, faults>>
  BY DEF Repairs, Repair, RepairSucceeds, RepairRetries, RepairFails, data
<1>2. ASSUME NEW s \in Feeds, NEW state \in {"BACKFILLING", "DEGRADED"}, Marks(s, state)
      PROVE  TrackersOK'
  <2> DEFINE t == [tracker[s] EXCEPT !.state = state]
  <2>1. tracker' = [tracker EXCEPT ![s] = t]
    BY <1>2 DEF Marks
  <2>2. /\ t \in Trackers /\ t.candles = tracker[s].candles /\ t.active = tracker[s].active
        /\ t.state = state
    BY DEF FeedInv, TrackersOK, Trackers
  <2>3. TrackerOK(tracker[s])
    BY DEF FeedInv, TrackersOK
  <2> HIDE DEF t
  <2>4. TrackerOK(t)
    BY <2>2, <2>3 DEF TrackerOK
  <2> QED
    BY <2>1, <2>4, TrackerReplaced DEF FeedInv
<1>3. /\ TrackersOK' /\ repairs' \in 0..MaxRepairs
      /\ repair' \in [symbol : Feeds, gap : Gaps, try : 1..3] \cup {None}
  <2>1. CASE \E s \in Feeds : Repair(s)
    <3>1. PICK s \in Feeds : Repair(s)
      BY <2>1
    <3>2. PICK g \in tracker[s].active :
            IF Cardinality(Missing(g)) > MaxRepair
            THEN Marks(s, "DEGRADED") /\ UNCHANGED repair
            ELSE Marks(s, "BACKFILLING") /\ repair' = [symbol |-> s, gap |-> g, try |-> 1]
      BY <3>1 DEF Repair
    <3>3. g \in Gaps
      BY DEF FeedInv, TrackersOK, Trackers
    <3>4. repairs' \in 0..MaxRepairs
      BY <3>1, FeedAssumption DEF Repair, FeedInv, TypeOK
    <3>5. TrackersOK'
      BY <1>2, <3>2
    <3>6. repair' \in [symbol : Feeds, gap : Gaps, try : 1..3] \cup {None}
      BY <3>2, <3>3 DEF FeedInv, TypeOK
    <3> QED
      BY <3>4, <3>5, <3>6
  <2>2. CASE RepairSucceeds
    <3>1. repair.symbol \in Feeds /\ repair.gap \in Gaps
      BY <2>2 DEF RepairSucceeds, FeedInv, TypeOK
    <3>2. TrackerOK(Repaired(tracker[repair.symbol], repair.gap))
      BY <3>1, RepairedOK DEF FeedInv, TrackersOK
    <3>3. tracker' = [tracker EXCEPT ![repair.symbol] = Repaired(tracker[repair.symbol], repair.gap)]
      BY <2>2 DEF RepairSucceeds
    <3>4. TrackersOK'
      BY <3>1, <3>2, <3>3, TrackerReplaced DEF FeedInv
    <3> QED
      BY <2>2, <3>4 DEF RepairSucceeds, FeedInv, TypeOK
  <2>3. CASE RepairRetries
    BY <2>3, TrackersKept DEF RepairRetries, data, FeedInv, TypeOK
  <2>4. CASE RepairFails
    <3>1. repair.symbol \in Feeds
      BY <2>4 DEF RepairFails, FeedInv, TypeOK
    <3>2. TrackersOK'
      BY <1>2, <2>4, <3>1 DEF RepairFails
    <3> QED
      BY <2>4, <3>2 DEF RepairFails, FeedInv, TypeOK
  <2> QED
    BY <2>1, <2>2, <2>3, <2>4 DEF Repairs
<1>4. TypeOK'
  BY <1>1, <1>3 DEF FeedInv, TypeOK, TrackersOK, hub, subscriptions
<1>5. SubscriptionsOK' /\ CycleOK' /\ TickersOK'
  BY <1>1, TickersKept DEF FeedInv, SubscriptionsOK, CycleOK, hub, subscriptions
<1> QED
  BY <1>3, <1>4, <1>5 DEF FeedInv

-----------------------------------------------------------------------------
(***************************************************************************)
(* The theorems.                                                           *)
(***************************************************************************)
LEMMA FeedInit == Init => FeedInv
<1> SUFFICES ASSUME Init PROVE FeedInv
  OBVIOUS
<1>1. NewTracker \in Trackers /\ NewTracker.candles = {} /\ NewTracker.state = "UNINITIALIZED"
  BY DEF NewTracker, Trackers
<1>2. TrackerOK(NewTracker)
  BY <1>1, FS_EmptySet, ContinuityAssumption DEF TrackerOK, Holes, NewTracker
<1>3. TypeOK
  <2>1. /\ opened \in 0..MaxConnections /\ attempt \in 0..MaxAttempt
        /\ repairs \in 0..MaxRepairs /\ changes \in 0..MaxChanges /\ faults \in 0..MaxFaults
    BY FeedAssumption DEF Init
  <2>2. generation \in [Shards -> Nat] /\ tracker \in [Feeds -> Trackers]
    BY <1>1 DEF Init
  <2>3. snapshots \in [Feeds -> [epoch : Epochs, base : Epochs, fresh : BOOLEAN] \cup {None}]
    BY DEF Init
  <2> QED
    BY <2>1, <2>2, <2>3 DEF Init, TypeOK
<1>4. TrackersOK
  BY <1>1, <1>2 DEF Init, TrackersOK
<1>5. SubscriptionsOK
  BY PlannedOK DEF Init, SubscriptionsOK
<1>6. CycleOK /\ TickersOK
  BY DEF Init, CycleOK, TickersOK
<1> QED
  BY <1>3, <1>4, <1>5, <1>6 DEF FeedInv

LEMMA FeedNext == FeedInv /\ [Next]_vars => FeedInv'
<1> SUFFICES ASSUME FeedInv, [Next]_vars PROVE FeedInv'
  OBVIOUS
<1>1. CASE UNCHANGED vars
  <2>1. UNCHANGED <<hub, subscriptions, health, data, mending, changes, faults>>
    BY <1>1 DEF vars
  <2>2. TypeOK'
    BY <2>1 DEF FeedInv, TypeOK, hub, subscriptions, data, mending
  <2>3. SubscriptionsOK' /\ CycleOK' /\ TrackersOK' /\ TickersOK'
    BY <2>1, TrackersKept, TickersKept DEF FeedInv, SubscriptionsOK, CycleOK, hub, subscriptions, data
  <2> QED
    BY <2>2, <2>3 DEF FeedInv
<1>2. CASE Start \/ Wake \/ Close
  BY <1>2, BeginsStep DEF Start, Wake, Close
<1>3. CASE Next /\ ~(Start \/ Wake \/ Close)
  BY <1>3, OpenStep, SubscribeStep, SupervisorStep, FailureStep, FallSilentStep, PublishStep, StopStep,
     AckStep, OtherMessageStep, TickerStep, ClosedCandleStep, AgeStep, RepairsStep
     DEF Next, Supervises, Market
<1> QED
  BY <1>1, <1>2, <1>3

\* What the properties below follow from: trackers that know their holes, and
\* a cycle whose answers, tickers and health are of the connections it opened.
THEOREM FeedInvariant == Spec => []FeedInv
<1>1. Init => FeedInv
  BY FeedInit
<1>2. FeedInv /\ [Next]_vars => FeedInv'
  BY FeedNext
<1> QED
  BY <1>1, <1>2, PTL DEF Spec

\* Every variable has its type: _supervise never runs off its back-off delays
\* or its plan, whatever fails and whatever universe is published.
THEOREM TypeCorrect == Spec => []TypeOK
<1>1. FeedInv => TypeOK
  BY DEF FeedInv
<1> QED
  BY <1>1, FeedInvariant, PTL

\* observe_closed_candle and repair, in whatever order candles come and
\* whichever the window drops: no hole is ever outside the active gaps.
THEOREM HolesStayKnown == Spec => []HolesAreKnown
<1>1. FeedInv => HolesAreKnown
  BY DEF FeedInv, TrackersOK, TrackerOK, HolesAreKnown
<1> QED
  BY <1>1, FeedInvariant, PTL

\* What _eligible_hub_snapshot lets the provider take is of the connection that
\* carries the symbol now, after any reconnects and changes of the universe.
THEOREM EligibleStaysCurrent == Spec => []EligibleIsCurrent
<1>1. ASSUME FeedInv, NEW s \in Feeds, Eligible(s)
      PROVE  /\ mode \in {"running", "stopping"} /\ s \in planned
             /\ snapshots[s].base = snapshots[s].epoch
             /\ snapshots[s].epoch = Epoch(<<"ticker", s>>)
             /\ \/ Holes(tracker[s].candles) = {}
                \/ tracker[s].state \in {"BACKFILLING", "DEGRADED"}
  <2>1. /\ health = "HEALTHY" /\ <<"ticker", s>> \in acknowledged /\ snapshots[s] # None
        /\ tracker[s].state \notin {"UNINITIALIZED", "GAP_DETECTED"}
    BY <1>1 DEF Eligible, Healthy
  <2>2. mode \in {"running", "stopping"} /\ opened = Connections(planned) /\ s \in planned
    BY <1>1, <2>1 DEF FeedInv, CycleOK, SubscriptionsOK, TopicsOf
  <2>3. TickerShard(s) < opened
    BY <1>1, <2>2, TickerEpoch
  <2>4. snapshots[s].base = snapshots[s].epoch /\ snapshots[s].epoch = Epoch(<<"ticker", s>>)
    BY <1>1, <2>1, <2>2, <2>3 DEF FeedInv, TickersOK
  <2>5. TrackerOK(tracker[s])
    BY <1>1 DEF FeedInv, TrackersOK
  <2>6. \/ Holes(tracker[s].candles) = {}
        \/ tracker[s].state \in {"BACKFILLING", "DEGRADED"}
    BY <2>1, <2>5 DEF TrackerOK, Trackers
  <2> QED
    BY <2>2, <2>4, <2>6
<1>2. FeedInv => EligibleIsCurrent
  BY <1>1 DEF EligibleIsCurrent
<1> QED
  BY <1>2, FeedInvariant, PTL
\* A repair that gets its candles while the stream adds, evicts and closes
\* closes the gap exactly when the window has room for it (repair,
\* observe_closed_candle), for every size of window and gap.
THEOREM RepairClosesGap == Spec => []RepairClosesWhatFits
<1>1. ASSUME FeedInv, repair # None, repair.gap \in tracker[repair.symbol].active
      PROVE  LET t == tracker[repair.symbol]
             IN Fits(t, repair.gap) <=> repair.gap \notin Repaired(t, repair.gap).active
  <2>1. repair.symbol \in Feeds
    BY <1>1 DEF FeedInv, TypeOK
  <2>2. TrackerOK(tracker[repair.symbol])
    BY <1>1, <2>1 DEF FeedInv, TrackersOK
  <2> QED
    BY <1>1, <2>2, RepairCloses
<1>2. FeedInv => RepairClosesWhatFits
  BY <1>1 DEF RepairClosesWhatFits
<1> QED
  BY <1>2, FeedInvariant, PTL
=============================================================================
