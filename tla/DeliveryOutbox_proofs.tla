------------------------ MODULE DeliveryOutbox_proofs ------------------------
(***************************************************************************)
(* Proofs about DeliveryOutbox, for any set of rows, any number of         *)
(* attempts, any lease, retry delay and batch limit.                       *)
(*                                                                         *)
(* CountInv is inductive whatever the timing; LeaseInv is inductive when   *)
(* sends finish within their lease, and relies on CountInv.                *)
(***************************************************************************)
EXTENDS DeliveryOutbox, FiniteSetTheorems, TLAPS

\* A row that does not exist was never claimed, sent or accepted.
AbsentIsFresh ==
    \A i \in Items : status[i] = "NONE" => attempts[i] = 0 /\ delivered[i] = 0

\* Between its batches a worker holds no claim; an immediate send holds one.
PhaseBatch ==
    \A w \in Workers :
        /\ phase[w] \in {"idle", "emit"} => batch[w] = {}
        /\ phase[w] = "sendNew" => \A i, j \in batch[w] : i = j

CountInv == /\ TypeOK
            /\ AttemptBudget
            /\ DeadOnlyExhausted
            /\ AbsentIsFresh
            /\ PhaseBatch

LeaseInv == CountInv /\ ExclusiveLease /\ SentFlagMatches

-----------------------------------------------------------------------------
\* A claim takes only due rows.
LEMMA OldestIsSubset == \A S, limit : Oldest(S, limit) \subseteq S
  BY DEF Oldest

LEMMA DueIsClaimable ==
  ASSUME NEW S \in SUBSET Items, NEW limit
  PROVE  /\ Oldest(Due(S), limit) \in SUBSET Items
         /\ \A i \in Oldest(Due(S), limit) :
                ReclaimedStatus(i) \in {"PENDING", "RETRY"}
  BY OldestIsSubset DEF Due

LEMMA SendingIsHeld ==
  ASSUME TypeOK, NEW w \in Workers, NEW i \in Sending(w)
  PROVE  i \in batch[w] /\ i \in Items
  BY DEF TypeOK, Sending, FirstOf

\* What a claim does to the counters, whoever makes it: the reclaim keeps them,
\* the claimed rows pay one attempt for one send.
LEMMA ClaimKeepsCount ==
  ASSUME CountInv,
         NEW w \in Workers, NEW C \in SUBSET Items, NEW N \in SUBSET Items,
         NEW k \in Kinds,
         batch[w] = {}, N \subseteq C,
         \A i \in N : status[i] = "NONE",
         \A i \in C \ N : ReclaimedStatus(i) \in {"PENDING", "RETRY"},
         Claim(w, N, C, k),
         up' \in BOOLEAN, watchSent' \in Nat,
         phase' \in [Workers -> Phases],
         phase'[w] \notin {"idle", "emit"},
         phase'[w] = "sendNew" => \A i, j \in C : i = j,
         \A v \in Workers \ {w} : phase'[v] = phase[v]
  PROVE  CountInv'
<1> USE OutboxAssumption DEF CountInv
<1>0. \A i \in C : attempts[i] < MaxAttempts
  <2> SUFFICES ASSUME NEW i \in C PROVE attempts[i] < MaxAttempts
    OBVIOUS
  <2>1. CASE i \in N
    BY <2>1 DEF AbsentIsFresh, TypeOK
  <2>2. CASE i \notin N
    BY <2>2 DEF ReclaimedStatus, Expired, DeadOnlyExhausted, TypeOK
  <2> QED BY <2>1, <2>2
<1>1. TypeOK'
  <2>1. /\ status' \in [Items -> Status]
        /\ kind' \in [Items -> Kinds]
        /\ leaseLeft' \in [Items -> 0..Lease]
        /\ waitLeft' \in [Items -> 0..RetryDelay]
    BY DEF TypeOK, Claim, ReclaimedStatus, ReclaimedWait, Status
  <2>2. /\ attempts' \in [Items -> Nat]
        /\ batch' \in [Workers -> SUBSET Items]
        /\ UNCHANGED <<sentFlag, delivered>>
    BY DEF TypeOK, Claim
  <2>3. tried' \subseteq Items
    BY DEF TypeOK, Claim, FirstOf
  <2> QED BY <2>1, <2>2, <2>3 DEF TypeOK
<1>2. AttemptBudget'
  BY <1>0 DEF TypeOK, Claim, AttemptBudget, Held, Workers
<1>3. DeadOnlyExhausted'
  <2> SUFFICES ASSUME NEW i \in Items
               PROVE  /\ status'[i] = "DEAD" => attempts'[i] = MaxAttempts
                      /\ status'[i] \in {"PENDING", "RETRY"}
                            => attempts'[i] < MaxAttempts
    BY DEF DeadOnlyExhausted
  <2>1. CASE i \in C
    BY <2>1 DEF Claim
  <2>2. CASE i \notin C
    BY <2>2 DEF Claim, ReclaimedStatus, Expired, DeadOnlyExhausted,
                AttemptBudget, Held, TypeOK
  <2> QED BY <2>1, <2>2
<1>4. AbsentIsFresh'
  BY DEF TypeOK, Claim, AbsentIsFresh, ReclaimedStatus
<1>5. PhaseBatch'
  BY DEF TypeOK, Claim, PhaseBatch
<1> QED BY <1>1, <1>2, <1>3, <1>4, <1>5

\* Finishing one delivery keeps the types of what it changes.
LEMMA NextSendType ==
  ASSUME TypeOK, NEW w \in Workers, NEW i \in batch[w], NextSend(w, i)
  PROVE  /\ batch' \in [Workers -> SUBSET Items]
         /\ phase' \in [Workers -> Phases]
         /\ tried' \subseteq Items
<1> USE DEF TypeOK, NextSend
<1>1. batch' \in [Workers -> SUBSET Items]
  OBVIOUS
<1>2. tried' \subseteq Items
  BY DEF FirstOf
<1>3. phase' \in [Workers -> Phases]
  BY DEF Phases
<1> QED BY <1>1, <1>2, <1>3

\* Finishing one delivery of a batch keeps phases and batches in step.
LEMMA NextSendPhaseBatch ==
  ASSUME TypeOK, PhaseBatch,
         NEW w \in Workers, NEW i \in batch[w], NextSend(w, i)
  PROVE  PhaseBatch'
<1> USE DEF TypeOK, NextSend, PhaseBatch
<1>1. CASE phase[w] # "sendNew"
  BY <1>1
<1>2. CASE phase[w] = "sendNew"
  <2>1. batch'[w] = {}
    BY <1>2
  <2>2. \A v \in Workers \ {w} : phase'[v] = phase[v] /\ batch'[v] = batch[v]
    BY <1>2
  <2>3. phase'[w] \in {"idle", "emit"}
    BY <1>2
  <2> QED BY <2>1, <2>2, <2>3
<1> QED BY <1>1, <1>2

LEMMA InitCount == Init => CountInv
<1> SUFFICES ASSUME Init PROVE CountInv
  OBVIOUS
<1> USE OutboxAssumption DEF Init
<1>1. TypeOK
  <2>1. /\ status \in [Items -> Status]
        /\ kind \in [Items -> Kinds]
    BY DEF Kinds, Status
  <2>2. /\ leaseLeft \in [Items -> 0..Lease]
        /\ waitLeft \in [Items -> 0..RetryDelay]
    OBVIOUS
  <2>3. /\ attempts \in [Items -> Nat] /\ delivered \in [Items -> Nat]
        /\ sentFlag \in [Items -> BOOLEAN]
        /\ tried \subseteq Items
    OBVIOUS
  <2>4. /\ up \in BOOLEAN /\ watchSent \in Nat
        /\ phase \in [Workers -> Phases]
        /\ batch \in [Workers -> SUBSET Items]
    BY DEF Phases
  <2> QED BY <2>1, <2>2, <2>3, <2>4 DEF TypeOK
<1>2. AttemptBudget
  BY DEF AttemptBudget, Held, Workers
<1>3. DeadOnlyExhausted /\ AbsentIsFresh /\ PhaseBatch
  BY DEF DeadOnlyExhausted, AbsentIsFresh, PhaseBatch
<1> QED BY <1>1, <1>2, <1>3 DEF CountInv

\* The full scan moves on to another part of its cycle with nothing in hand.
LEMMA ScanMovesOn ==
  ASSUME CountInv, NEW p \in Phases,
         batch["scan"] = {},
         phase' = [phase EXCEPT !["scan"] = p],
         UNCHANGED <<rows, history, up, batch, watchSent>>
  PROVE  CountInv'
<1> USE DEF CountInv, rows, history
<1>1. TypeOK'
  BY DEF TypeOK
<1>2. AttemptBudget' /\ DeadOnlyExhausted' /\ AbsentIsFresh'
  BY DEF AttemptBudget, Held, DeadOnlyExhausted, AbsentIsFresh
<1>3. PhaseBatch'
  BY DEF TypeOK, PhaseBatch, Workers
<1> QED BY <1>1, <1>2, <1>3

\* Every step of the outbox keeps the counters in order.
LEMMA NextCount == CountInv /\ [Next]_vars => CountInv'
<1> SUFFICES ASSUME CountInv, [Next]_vars PROVE CountInv'
  OBVIOUS
<1> USE OutboxAssumption DEF CountInv
<1>1. CASE StartCycle
  <2> DEFINE S == {i \in Items : kind[i] = "SIGNAL"}
             C == Oldest(Due(S), BatchLimit)
  <2>1. C \in SUBSET Items
        /\ \A i \in C : ReclaimedStatus(i) \in {"PENDING", "RETRY"}
    BY DueIsClaimable
  <2>2. batch["scan"] = {}
    BY <1>1 DEF StartCycle, PhaseBatch, Workers
  <2>3. /\ Claim("scan", {}, C, "SIGNAL")
        /\ up' \in BOOLEAN /\ watchSent' \in Nat
        /\ phase' \in [Workers -> Phases]
        /\ phase'["scan"] = "drainSignal"
        /\ \A v \in Workers \ {"scan"} : phase'[v] = phase[v]
    BY <1>1 DEF StartCycle, TypeOK, Workers, Phases
  <2> HIDE DEF C
  <2> QED BY <2>1, <2>2, <2>3, ClaimKeepsCount DEF Workers, Kinds
<1>2. CASE DrainWatches
  <2> DEFINE S == {i \in Items : kind[i] = "WATCH"}
             C == Oldest(Due(S), Smaller(BatchLimit, WatchMax - watchSent))
  <2>1. CASE watchSent < WatchMax
    <3>1. C \in SUBSET Items
          /\ \A i \in C : ReclaimedStatus(i) \in {"PENDING", "RETRY"}
      BY DueIsClaimable
    <3>2. /\ batch["scan"] = {}
          /\ Claim("scan", {}, C, "WATCH")
          /\ up' \in BOOLEAN /\ watchSent' \in Nat
          /\ phase' \in [Workers -> Phases]
          /\ phase'["scan"] = "drainWatch"
          /\ \A v \in Workers \ {"scan"} : phase'[v] = phase[v]
      BY <1>2, <2>1 DEF DrainWatches, TypeOK, Workers, Phases
    <3> HIDE DEF C
    <3> QED BY <3>1, <3>2, ClaimKeepsCount DEF Workers, Kinds
  <2>2. CASE ~(watchSent < WatchMax)
    BY <1>2, <2>2, ScanMovesOn DEF DrainWatches, Phases
  <2> QED BY <2>1, <2>2
<1>3. CASE ScanMarket
  BY <1>3, ScanMovesOn DEF ScanMarket, Phases
<1>4. CASE EndCycle
  BY <1>4, ScanMovesOn DEF EndCycle, Phases
<1>5. ASSUME NEW w \in Workers, NEW i \in Items, NEW k \in Kinds, Emit(w, i, k)
      PROVE  CountInv'
  <2>1. /\ batch[w] = {}
        /\ status[i] = "NONE"
        /\ Claim(w, {i}, {i}, k)
        /\ up' \in BOOLEAN /\ watchSent' \in Nat
        /\ phase' \in [Workers -> Phases]
        /\ phase'[w] = "sendNew"
        /\ \A v \in Workers \ {w} : phase'[v] = phase[v]
    BY <1>5 DEF Emit, Deciding, TypeOK, PhaseBatch, Phases
  <2> QED BY <2>1, ClaimKeepsCount
<1>6. ASSUME NEW w \in Workers, NEW i \in Items, NEW k \in Kinds,
             EmitUnclaimed(w, i, k)
      PROVE  CountInv'
  BY <1>6 DEF EmitUnclaimed, Saved, Deciding, runtime, history, TypeOK, Status,
     AttemptBudget, Held, DeadOnlyExhausted, AbsentIsFresh, PhaseBatch
<1>7. ASSUME NEW w \in Workers, NEW i \in Items, SendSucceeds(w, i)
      PROVE  CountInv'
  <2>0. i \in batch[w]
    BY <1>7, SendingIsHeld DEF SendSucceeds
  <2>1. TypeOK'
    BY <1>7, <2>0, NextSendType DEF SendSucceeds, Accepted, TypeOK, Status
  <2>2. AttemptBudget'
    BY <1>7, <2>0 DEF SendSucceeds, NextSend, Accepted, TypeOK, AttemptBudget,
                      Held, Workers
  <2>3. DeadOnlyExhausted'
    BY <1>7 DEF SendSucceeds, TypeOK, DeadOnlyExhausted
  <2>4. AbsentIsFresh'
    BY <1>7 DEF SendSucceeds, Accepted, TypeOK, AbsentIsFresh
  <2>5. PhaseBatch'
    BY <1>7, <2>0, NextSendPhaseBatch DEF SendSucceeds
  <2> QED BY <2>1, <2>2, <2>3, <2>4, <2>5
<1>8. ASSUME NEW w \in Workers, NEW i \in Items, SendFails(w, i)
      PROVE  CountInv'
  <2>0. i \in batch[w]
    BY <1>8, SendingIsHeld DEF SendFails
  <2>a. PICK yes \in BOOLEAN : Accepted(i, yes)
    BY <1>8 DEF SendFails
  <2>b. delivered' \in [Items -> Nat]
    BY <2>a DEF Accepted, TypeOK
  <2>c. /\ status' \in [Items -> Status]
        /\ leaseLeft' \in [Items -> 0..Lease]
        /\ waitLeft' \in [Items -> 0..RetryDelay]
        /\ sentFlag' \in [Items -> BOOLEAN]
    <3>1. status' \in [Items -> Status]
      BY <1>8 DEF SendFails, TypeOK, Status
    <3>2. /\ leaseLeft' \in [Items -> 0..Lease]
          /\ waitLeft' \in [Items -> 0..RetryDelay]
      BY <1>8 DEF SendFails, TypeOK
    <3>3. sentFlag' \in [Items -> BOOLEAN]
      BY <1>8 DEF SendFails, TypeOK
    <3> QED BY <3>1, <3>2, <3>3
  <2>1. TypeOK'
    BY <1>8, <2>0, <2>b, <2>c, NextSendType DEF SendFails, TypeOK
  <2>2. AttemptBudget'
    BY <1>8, <2>0, <2>a DEF SendFails, NextSend, Accepted, TypeOK,
                            AttemptBudget, Held, Workers
  <2>3. DeadOnlyExhausted'
    BY <1>8 DEF SendFails, TypeOK, DeadOnlyExhausted, AttemptBudget
  <2>4. AbsentIsFresh'
    BY <1>8, <2>a DEF SendFails, Accepted, TypeOK, AbsentIsFresh
  <2>5. PhaseBatch'
    BY <1>8, <2>0, NextSendPhaseBatch DEF SendFails
  <2> QED BY <2>1, <2>2, <2>3, <2>4, <2>5
<1>9. ASSUME NEW w \in Workers, NEW i \in Items, RecordFails(w, i)
      PROVE  CountInv'
  <2>0. i \in batch[w]
    BY <1>9, SendingIsHeld DEF RecordFails
  <2>a. PICK yes \in BOOLEAN : Accepted(i, yes)
    BY <1>9 DEF RecordFails
  <2>1. TypeOK'
    BY <1>9, <2>a DEF RecordFails, Accepted, rows, TypeOK, Phases
  <2>2. AttemptBudget'
    BY <1>9, <2>0, <2>a DEF RecordFails, Accepted, rows, TypeOK,
                            AttemptBudget, Held, Workers
  <2>3. DeadOnlyExhausted'
    BY <1>9 DEF RecordFails, rows, DeadOnlyExhausted
  <2>4. AbsentIsFresh'
    <3> SUFFICES ASSUME NEW j \in Items, status'[j] = "NONE"
                 PROVE  attempts'[j] = 0 /\ delivered'[j] = 0
      BY DEF AbsentIsFresh
    <3>1. j # i
      BY <1>9, <2>0 DEF RecordFails, rows, AbsentIsFresh, AttemptBudget, Held,
                        TypeOK, Workers
    <3> QED BY <1>9, <2>a, <3>1 DEF RecordFails, Accepted, rows,
                                    AbsentIsFresh, TypeOK
  <2>5. PhaseBatch'
    BY <1>9 DEF RecordFails, TypeOK, PhaseBatch
  <2> QED BY <2>1, <2>2, <2>3, <2>4, <2>5
<1>10. CASE Crash
  <2> DEFINE Took(yes, w, i) == IF yes[w] /\ i \in Sending(w) THEN 1 ELSE 0
  <2>a. PICK yes \in [Workers -> BOOLEAN] :
           delivered' = [i \in Items |-> delivered[i] + Took(yes, "scan", i)
                                                      + Took(yes, "fast", i)]
    BY <1>10 DEF Crash
  <2>b. \A i \in Items, w \in Workers : Took(yes, w, i) <= Held(w, i)
                                        /\ Took(yes, w, i) \in {0, 1}
    BY DEF Held, Sending, FirstOf
  <2>c. \A i \in Items : Held("scan", i) \in {0, 1} /\ Held("fast", i) \in {0, 1}
    BY DEF Held
  <2>d. /\ UNCHANGED <<rows, tried>>
        /\ up' = FALSE /\ watchSent' = 0
        /\ phase' = [w \in Workers |-> "idle"]
        /\ batch' = [w \in Workers |-> {}]
    BY <1>10 DEF Crash
  <2> HIDE DEF Took
  <2>e. delivered' \in [Items -> Nat]
    BY <2>a, <2>b DEF TypeOK, Workers
  <2>1. TypeOK'
    BY <2>d, <2>e DEF rows, TypeOK, Phases
  <2>2. AttemptBudget'
    <3> SUFFICES ASSUME NEW i \in Items
                 PROVE  /\ delivered'[i] + Held("scan", i)' + Held("fast", i)'
                              <= attempts'[i]
                        /\ attempts'[i] <= MaxAttempts
      BY DEF AttemptBudget
    <3>1. Held("scan", i)' = 0 /\ Held("fast", i)' = 0
      BY <2>d DEF Held, Workers
    <3>2. delivered'[i] <= delivered[i] + Held("scan", i) + Held("fast", i)
      BY <2>a, <2>b, <2>c DEF TypeOK, Workers
    <3> QED BY <2>c, <2>d, <2>e, <3>1, <3>2 DEF rows, AttemptBudget, TypeOK
  <2>3. DeadOnlyExhausted'
    BY <2>d DEF rows, DeadOnlyExhausted
  <2>4. AbsentIsFresh'
    <3> SUFFICES ASSUME NEW i \in Items, status'[i] = "NONE"
                 PROVE  attempts'[i] = 0 /\ delivered'[i] = 0
      BY DEF AbsentIsFresh
    <3>1. attempts[i] = 0 /\ delivered[i] = 0
      BY <2>d DEF rows, AbsentIsFresh
    <3>2. Held("scan", i) = 0 /\ Held("fast", i) = 0
      BY <2>c, <3>1 DEF AttemptBudget, TypeOK
    <3>3. Took(yes, "scan", i) = 0 /\ Took(yes, "fast", i) = 0
      BY <2>b, <3>2 DEF Workers
    <3> QED BY <2>a, <2>d, <3>1, <3>3 DEF rows
  <2>5. PhaseBatch'
    BY <2>d DEF PhaseBatch
  <2> QED BY <2>1, <2>2, <2>3, <2>4, <2>5
<1>11. CASE Startup
  <2>1. TypeOK'
    BY <1>11 DEF Startup, history, ReclaimedStatus, ReclaimedWait, TypeOK, Status
  <2>2. AttemptBudget' /\ PhaseBatch'
    BY <1>11 DEF Startup, history, AttemptBudget, Held, PhaseBatch
  <2>3. DeadOnlyExhausted'
    BY <1>11 DEF Startup, ReclaimedStatus, Expired, DeadOnlyExhausted,
                 AttemptBudget, TypeOK
  <2>4. AbsentIsFresh'
    BY <1>11 DEF Startup, history, ReclaimedStatus, AbsentIsFresh, TypeOK
  <2> QED BY <2>1, <2>2, <2>3, <2>4
<1>12. CASE Tick
  <2>1. TypeOK'
    BY <1>12 DEF Tick, runtime, history, TypeOK
  <2> QED BY <1>12, <2>1 DEF Tick, runtime, history, AttemptBudget, Held,
             DeadOnlyExhausted, AbsentIsFresh, PhaseBatch
<1>13. CASE UNCHANGED vars
  BY <1>13 DEF vars, rows, runtime, history, TypeOK, AttemptBudget, Held,
     DeadOnlyExhausted, AbsentIsFresh, PhaseBatch
<1> QED
  BY <1>1, <1>2, <1>3, <1>4, <1>5, <1>6, <1>7, <1>8, <1>9, <1>10, <1>11,
     <1>12, <1>13 DEF Next, Result

LEMMA CountInvariant == Spec => []CountInv
  BY InitCount, NextCount, PTL DEF Spec

\* Every variable of the outbox keeps its type, for every instance.
THEOREM TypeCorrect == Spec => []TypeOK
  BY CountInvariant, PTL DEF CountInv

\* No message is accepted by Telegram more often than it was claimed, and none
\* is claimed more than MaxAttempts times, however slow or unlucky the sends:
\* claim_due_deliveries counts an attempt before the send, in one transaction.
THEOREM BudgetHolds == Spec => []AttemptBudget
  BY CountInvariant, PTL DEF CountInv

\* Dead-lettered rows have spent every attempt and waiting rows have one left.
THEOREM DeadIsExhausted == Spec => []DeadOnlyExhausted
  BY CountInvariant, PTL DEF CountInv
-----------------------------------------------------------------------------
(***************************************************************************)
(* The budget of watches.  What the full scan has delivered in this cycle  *)
(* and the watches it holds never exceed it together; the fast monitor     *)
(* holds signals only.                                                     *)
(***************************************************************************)
WatchesInHand == {i \in batch["scan"] : kind[i] = "WATCH"}

WatchesOK ==
    /\ IsFiniteSet(WatchesInHand)
    /\ watchSent + Cardinality(WatchesInHand) <= WatchMax
    /\ \A i \in batch["fast"] : kind[i] = "SIGNAL"

WatchInv == CountInv /\ WatchesOK

\* LIMIT bounds what a claim takes: the rows it takes have different numbers of
\* older ones.
LEMMA OldestIsBounded ==
  ASSUME NEW S \in SUBSET Nat, NEW limit \in Nat
  PROVE  IsFiniteSet(Oldest(S, limit)) /\ Cardinality(Oldest(S, limit)) <= limit
<1> DEFINE Older(i) == {j \in S : j < i}
           rank == [i \in Oldest(S, limit) |-> Cardinality(Older(i))]
<1>1. \A i \in Nat : IsFiniteSet(Older(i)) /\ Cardinality(Older(i)) \in Nat
  <2>1. TAKE i \in Nat
  <2>2. \A j \in S : j \in Nat /\ (j < i => j \in 0..i)
    OBVIOUS
  <2>3. Older(i) \in SUBSET (0..i)
    BY <2>2
  <2>4. IsFiniteSet(0..i)
    BY FS_Interval
  <2> HIDE DEF Older
  <2> QED
    BY <2>3, <2>4, FS_Subset, FS_CardinalityType
<1>2. \A i, j \in S : i < j => Cardinality(Older(i)) < Cardinality(Older(j))
  <2>1. SUFFICES ASSUME NEW i \in S, NEW j \in S, i < j
                 PROVE  Cardinality(Older(i)) < Cardinality(Older(j))
    OBVIOUS
  <2>2. Older(i) \in SUBSET Older(j) /\ i \in Older(j) /\ i \notin Older(i)
    <3>1. \A n \in S : n < i => n < j
      BY <2>1
    <3>2. ~(i < i)
      OBVIOUS
    <3> QED
      BY <2>1, <3>1, <3>2
  <2>3. /\ IsFiniteSet(Older(j)) /\ Cardinality(Older(i)) \in Nat /\ Cardinality(Older(j)) \in Nat
    BY <1>1
  <2> HIDE DEF Older
  <2>4. /\ Cardinality(Older(i)) <= Cardinality(Older(j))
        /\ Cardinality(Older(i)) = Cardinality(Older(j)) => Older(i) = Older(j)
    BY <2>2, <2>3, FS_Subset
  <2> QED
    BY <2>2, <2>3, <2>4
<1>3. \A i \in Oldest(S, limit) : i \in S /\ i \in Nat /\ Cardinality(Older(i)) < limit
  BY DEF Oldest
<1> HIDE DEF Older
<1>4. rank \in [Oldest(S, limit) -> 0..(limit - 1)]
  BY <1>1, <1>3
<1>5. rank \in Injection(Oldest(S, limit), 0..(limit - 1))
  <2>1. \A i, j \in Oldest(S, limit) : rank[i] = rank[j] => i = j
    <3>1. SUFFICES ASSUME NEW i \in Oldest(S, limit), NEW j \in Oldest(S, limit), i # j
                   PROVE  Cardinality(Older(i)) # Cardinality(Older(j))
      OBVIOUS
    <3>2. i < j \/ j < i
      BY <1>3, <3>1
    <3>3. Cardinality(Older(i)) \in Nat /\ Cardinality(Older(j)) \in Nat
      BY <1>1, <1>3
    <3> QED
      BY <1>2, <1>3, <3>2, <3>3
  <2> HIDE DEF rank
  <2> QED
    BY <1>4, <2>1, Zenon DEF Injection, IsInjective
<1>6. IsFiniteSet(0..(limit - 1)) /\ Cardinality(0..(limit - 1)) = limit
  BY FS_Interval
<1> HIDE DEF rank
<1> QED
  BY <1>5, <1>6, FS_Injection

\* Signals in hand, or none: the budget is what was spent.
LEMMA NoWatches ==
  ASSUME WatchesInHand' = {}, watchSent' <= WatchMax, watchSent' \in Nat,
         \A i \in batch'["fast"] : kind'[i] = "SIGNAL"
  PROVE  WatchesOK'
BY FS_EmptySet DEF WatchesOK

\* A step that leaves the watches of the scan alone and counts none.
LEMMA SameWatches ==
  ASSUME WatchesOK, WatchesInHand' = WatchesInHand, UNCHANGED watchSent,
         \A i \in batch'["fast"] : kind'[i] = "SIGNAL"
  PROVE  WatchesOK'
BY DEF WatchesOK

\* A watch that is done leaves the batch, counted or not.
LEMMA OneWatchLess ==
  ASSUME WatchInv, NEW i \in WatchesInHand, WatchesInHand' = WatchesInHand \ {i},
         watchSent' \in {watchSent, watchSent + 1},
         \A j \in batch'["fast"] : kind'[j] = "SIGNAL"
  PROVE  WatchesOK'
<1> DEFINE W == WatchesInHand
<1>1. IsFiniteSet(W) /\ Cardinality(W) \in Nat /\ watchSent \in Nat
      /\ watchSent + Cardinality(W) <= WatchMax /\ i \in W
  BY FS_CardinalityType DEF WatchInv, WatchesOK, CountInv, TypeOK
<1>2. WatchesInHand' = W \ {i}
  OBVIOUS
<1> HIDE DEF W
<1>3. IsFiniteSet(W \ {i}) /\ Cardinality(W \ {i}) = Cardinality(W) - 1
  BY <1>1, FS_RemoveElement
<1>4. watchSent' + Cardinality(W \ {i}) <= WatchMax
  BY <1>1, <1>3, OutboxAssumption
<1> QED
  BY <1>2, <1>3, <1>4 DEF WatchesOK

\* Nobody holds a row that is not there.
LEMMA HeldExists ==
  ASSUME CountInv, NEW i \in Items, status[i] = "NONE"
  PROVE  \A w \in Workers : i \notin batch[w]
BY DEF CountInv, AbsentIsFresh, AttemptBudget, Held, TypeOK, Workers

\* The delivery that ended was a signal, or a watch of the scan.
LEMMA NextSendWatches ==
  ASSUME WatchInv, NEW w \in Workers, NEW i \in batch[w], NextSend(w, i), UNCHANGED kind,
         \/ watchSent' = (IF kind[i] = "WATCH" THEN watchSent + 1 ELSE watchSent)
         \/ watchSent' = watchSent
  PROVE  WatchesOK'
<1>1. /\ batch' = [batch EXCEPT ![w] = batch[w] \ {i}] /\ batch \in [Workers -> SUBSET Items]
      /\ watchSent \in Nat
  BY DEF NextSend, WatchInv, CountInv, TypeOK
<1>2. \A j \in batch'["fast"] : kind'[j] = "SIGNAL"
  BY <1>1 DEF WatchInv, WatchesOK, Workers
<1>3. CASE i \in WatchesInHand /\ w = "scan"
  <2>1. WatchesInHand' = WatchesInHand \ {i}
    BY <1>1, <1>3 DEF WatchesInHand, Workers
  <2>2. watchSent' \in {watchSent, watchSent + 1}
    OBVIOUS
  <2> QED
    BY <1>2, <1>3, <2>1, <2>2, OneWatchLess
<1>4. CASE ~(i \in WatchesInHand /\ w = "scan")
  <2>1. kind[i] # "WATCH"
    BY <1>4 DEF WatchesInHand, WatchInv, WatchesOK, Workers
  <2>2. WatchesInHand' = WatchesInHand
    BY <1>1, <2>1 DEF WatchesInHand, Workers
  <2>3. watchSent' = watchSent
    BY <2>1
  <2> QED
    BY <1>2, <2>2, <2>3, SameWatches DEF WatchInv
<1> QED
  BY <1>3, <1>4

LEMMA InitWatches == Init => WatchesOK
<1> SUFFICES ASSUME Init PROVE WatchesOK
  OBVIOUS
<1>1. WatchesInHand = {} /\ watchSent = 0 /\ batch["fast"] = {}
  BY DEF Init, WatchesInHand, Workers
<1> QED
  BY <1>1, FS_EmptySet, OutboxAssumption DEF WatchesOK

LEMMA NextWatches == WatchInv /\ [Next]_vars => WatchInv'
<1> SUFFICES ASSUME WatchInv, [Next]_vars PROVE WatchesOK'
  BY NextCount DEF WatchInv
<1>a. /\ CountInv /\ TypeOK /\ WatchesOK
  BY DEF WatchInv, CountInv
<1>b. /\ batch \in [Workers -> SUBSET Items] /\ kind \in [Items -> Kinds] /\ watchSent \in Nat
      /\ \A i \in batch["fast"] : i \in Items /\ kind[i] = "SIGNAL"
  BY <1>a DEF TypeOK, WatchesOK, Workers
<1>1. CASE StartCycle
  <2> DEFINE S == {i \in Items : kind[i] = "SIGNAL"}
             C == Oldest(Due(S), BatchLimit)
  <2>1. \A i \in C : i \in Items /\ kind[i] = "SIGNAL"
    BY OldestIsSubset DEF Due
  <2>2. /\ batch' = [batch EXCEPT !["scan"] = C] /\ kind' = [i \in Items |-> kind[i]] /\ watchSent' = 0
    BY <1>1 DEF StartCycle, Claim
  <2> HIDE DEF C
  <2>3. batch'["scan"] = C /\ batch'["fast"] = batch["fast"]
    BY <1>b, <2>2 DEF Workers
  <2>4. WatchesInHand' = {}
    BY <2>1, <2>2, <2>3 DEF WatchesInHand
  <2> QED
    BY <1>b, <2>2, <2>3, <2>4, NoWatches, OutboxAssumption
<1>2. CASE DrainWatches
  <2>1. CASE watchSent < WatchMax
    <3> DEFINE S == {i \in Items : kind[i] = "WATCH"}
               limit == Smaller(BatchLimit, WatchMax - watchSent)
               C == Oldest(Due(S), limit)
    <3>1. /\ batch' = [batch EXCEPT !["scan"] = C] /\ kind' = [i \in Items |-> kind[i]]
          /\ UNCHANGED watchSent
      BY <1>2, <2>1 DEF DrainWatches, Claim
    <3>2. limit \in Nat /\ watchSent + limit <= WatchMax
      BY <1>b, <2>1, OutboxAssumption DEF Smaller
    <3> HIDE DEF limit
    <3>3. Due(S) \in SUBSET Nat /\ Due(S) \subseteq S
      BY OutboxAssumption DEF Due
    <3>4. IsFiniteSet(C) /\ Cardinality(C) <= limit /\ Cardinality(C) \in Nat
      BY <3>2, <3>3, OldestIsBounded, FS_CardinalityType
    <3>5. \A i \in C : i \in Items /\ kind[i] = "WATCH"
      BY <3>3, OldestIsSubset
    <3> HIDE DEF C
    <3>6. batch'["scan"] = C /\ batch'["fast"] = batch["fast"]
      BY <1>b, <3>1 DEF Workers
    <3>7. WatchesInHand' = C
      BY <3>1, <3>5, <3>6 DEF WatchesInHand
    <3>8. watchSent' + Cardinality(C) <= WatchMax
      BY <1>b, <3>1, <3>2, <3>4, OutboxAssumption
    <3>9. \A i \in batch'["fast"] : kind'[i] = "SIGNAL"
      BY <1>b, <3>1, <3>6
    <3> QED
      BY <3>4, <3>7, <3>8, <3>9 DEF WatchesOK
  <2>2. CASE ~(watchSent < WatchMax)
    <3>1. UNCHANGED <<batch, kind, watchSent>>
      BY <1>2, <2>2 DEF DrainWatches, rows
    <3> QED
      BY <1>a, <1>b, <3>1, SameWatches DEF WatchesInHand
  <2> QED
    BY <2>1, <2>2
<1>3. CASE ScanMarket \/ EndCycle \/ Startup \/ Tick \/ UNCHANGED vars
  <2>1. UNCHANGED <<batch, kind, watchSent>>
    BY <1>3 DEF ScanMarket, EndCycle, Startup, Tick, vars, rows, runtime
  <2> QED
    BY <1>a, <1>b, <2>1, SameWatches DEF WatchesInHand
<1>4. ASSUME NEW w \in Workers, NEW i \in Items, NEW k \in Kinds, Emit(w, i, k)
      PROVE  WatchesOK'
  <2>1. /\ batch' = [batch EXCEPT ![w] = {i}] /\ kind' = [j \in Items |-> IF j \in {i} THEN k ELSE kind[j]]
        /\ UNCHANGED watchSent
        /\ k = "WATCH" => w = "scan" /\ watchSent < WatchMax
        /\ status[i] = "NONE"
    BY <1>4 DEF Emit, Claim, Deciding, MayWatch
  <2>2. \A v \in Workers : i \notin batch[v]
    BY <1>a, <2>1, HeldExists
  <2>3. \A j \in batch'["fast"] : kind'[j] = "SIGNAL"
    BY <1>b, <2>1, <2>2 DEF Workers, Kinds
  <2>4. CASE w = "scan" /\ k = "WATCH"
    <3>1. WatchesInHand' = {i}
      BY <1>b, <2>1, <2>4 DEF WatchesInHand, Workers
    <3>2. watchSent' + 1 <= WatchMax
      BY <1>b, <2>1, <2>4, OutboxAssumption
    <3> QED
      BY <2>3, <3>1, <3>2, FS_Singleton DEF WatchesOK
  <2>5. CASE w = "scan" /\ k # "WATCH"
    <3>1. WatchesInHand' = {}
      BY <1>b, <2>1, <2>5 DEF WatchesInHand, Workers
    <3>2. watchSent <= WatchMax
      <4>1. Cardinality(WatchesInHand) \in Nat /\ watchSent + Cardinality(WatchesInHand) <= WatchMax
        BY <1>a, FS_CardinalityType DEF WatchesOK
      <4> QED
        BY <1>b, <4>1, OutboxAssumption
    <3> QED
      BY <1>b, <2>1, <2>3, <3>1, <3>2, NoWatches
  <2>6. CASE w # "scan"
    <3>1. WatchesInHand' = WatchesInHand
      BY <1>b, <2>1, <2>2, <2>6 DEF WatchesInHand, Workers
    <3> QED
      BY <1>a, <2>1, <2>3, <3>1, SameWatches
  <2> QED
    BY <2>4, <2>5, <2>6
<1>5. ASSUME NEW w \in Workers, NEW i \in Items, NEW k \in Kinds, EmitUnclaimed(w, i, k)
      PROVE  WatchesOK'
  <2>1. kind' = [kind EXCEPT ![i] = k] /\ status[i] = "NONE" /\ UNCHANGED <<batch, watchSent>>
    BY <1>5 DEF EmitUnclaimed, Deciding, Saved, runtime
  <2>2. \A v \in Workers : i \notin batch[v]
    BY <1>a, <2>1, HeldExists
  <2>3. WatchesInHand' = WatchesInHand /\ \A j \in batch'["fast"] : kind'[j] = "SIGNAL"
    BY <1>b, <2>1, <2>2 DEF WatchesInHand, Workers
  <2> QED
    BY <1>a, <2>1, <2>3, SameWatches
<1>6. ASSUME NEW w \in Workers, NEW i \in Items, SendSucceeds(w, i) \/ SendFails(w, i)
      PROVE  WatchesOK'
  <2>1. i \in batch[w]
    BY <1>6, SendingIsHeld, <1>a DEF SendSucceeds, SendFails
  <2>2. NextSend(w, i) /\ UNCHANGED kind
    BY <1>6 DEF SendSucceeds, SendFails
  <2>3. \/ watchSent' = (IF kind[i] = "WATCH" THEN watchSent + 1 ELSE watchSent)
        \/ watchSent' = watchSent
    BY <1>6 DEF SendSucceeds, SendFails
  <2> QED
    BY <2>1, <2>2, <2>3, NextSendWatches
<1>7. ASSUME NEW w \in Workers, NEW i \in Items, RecordFails(w, i)
      PROVE  WatchesOK'
  <2>1. batch' = [batch EXCEPT ![w] = {}] /\ UNCHANGED <<kind, watchSent>>
    BY <1>7 DEF RecordFails, rows
  <2>2. \A j \in batch'["fast"] : kind'[j] = "SIGNAL"
    BY <1>b, <2>1 DEF Workers
  <2>3. CASE w = "scan"
    <3>1. WatchesInHand' = {}
      BY <1>b, <2>1, <2>3 DEF WatchesInHand, Workers
    <3>2. watchSent <= WatchMax
      <4>1. Cardinality(WatchesInHand) \in Nat /\ watchSent + Cardinality(WatchesInHand) <= WatchMax
        BY <1>a, FS_CardinalityType DEF WatchesOK
      <4> QED
        BY <1>b, <4>1, OutboxAssumption
    <3> QED
      BY <1>b, <2>1, <2>2, <3>1, <3>2, NoWatches
  <2>4. CASE w # "scan"
    <3>1. WatchesInHand' = WatchesInHand
      BY <1>b, <2>1, <2>4 DEF WatchesInHand, Workers
    <3> QED
      BY <1>a, <2>1, <2>2, <3>1, SameWatches
  <2> QED
    BY <2>3, <2>4
<1>8. CASE Crash
  <2>1. batch' = [w \in Workers |-> {}] /\ watchSent' = 0
    BY <1>8 DEF Crash
  <2>2. WatchesInHand' = {} /\ batch'["fast"] = {}
    BY <2>1 DEF WatchesInHand, Workers
  <2> QED
    BY <2>1, <2>2, NoWatches, OutboxAssumption
<1> QED
  BY <1>1, <1>2, <1>3, <1>4, <1>5, <1>6, <1>7, <1>8 DEF Next, Result

\* watch_max_per_cycle bounds what the drain and the emissions of a cycle
\* deliver together, whatever is retried, lost or overtaken by its lease.
THEOREM WatchesWithinBudget == Spec => []WatchBudget
<1>1. Init => WatchInv
  BY InitCount, InitWatches DEF WatchInv
<1>2. WatchInv => WatchBudget
  <2> SUFFICES ASSUME WatchInv PROVE WatchBudget
    OBVIOUS
  <2>1. /\ Cardinality(WatchesInHand) \in Nat /\ watchSent \in Nat
        /\ watchSent + Cardinality(WatchesInHand) <= WatchMax
    BY FS_CardinalityType DEF WatchInv, WatchesOK, CountInv, TypeOK
  <2> QED
    BY <2>1, OutboxAssumption DEF WatchBudget
<1> QED
  BY <1>1, NextWatches, <1>2, PTL DEF Spec
-----------------------------------------------------------------------------
(***************************************************************************)
(* Sends that finish within their lease.  The claims of the two workers    *)
(* never overlap, because a claim takes only rows that are waiting, new or *)
(* expired, and a row somebody is sending is none of these.                *)
(***************************************************************************)
LEMMA ClaimKeepsLease ==
  ASSUME LeaseInv, CountInv',
         NEW w \in Workers, NEW C \in SUBSET Items, NEW N \in SUBSET Items,
         NEW k \in Kinds,
         batch[w] = {}, N \subseteq C,
         \A i \in N : status[i] = "NONE",
         \A i \in C \ N : ReclaimedStatus(i) \in {"PENDING", "RETRY"},
         Claim(w, N, C, k)
  PROVE  LeaseInv'
<1> USE OutboxAssumption DEF LeaseInv
<1>1. \A i \in C : status[i] # "IN_FLIGHT" \/ leaseLeft[i] = 0
  BY DEF ReclaimedStatus, Expired
<1>2. \A v \in Workers : \A i \in batch[v] : i \notin C
  BY <1>1 DEF ExclusiveLease, CountInv, TypeOK
<1>3. ExclusiveLease'
  BY <1>2 DEF Claim, ExclusiveLease, CountInv, TypeOK, ReclaimedStatus,
              Expired, Workers
<1>4. SentFlagMatches'
  BY DEF Claim, SentFlagMatches, CountInv, TypeOK, ReclaimedStatus, Expired
<1> QED BY <1>3, <1>4

\* Finishing one delivery releases its row and touches no other.
LEMMA ReleaseKeepsLease ==
  ASSUME LeaseInv, NEW w \in Workers, NEW i \in batch[w], NEW s,
         NextSend(w, i),
         status' = [status EXCEPT ![i] = s],
         leaseLeft' = [leaseLeft EXCEPT ![i] = 0]
  PROVE  ExclusiveLease'
<1> USE DEF LeaseInv, CountInv, TypeOK, ExclusiveLease
<1>1. i \in Items /\ \A v \in Workers : i \notin batch'[v]
  BY DEF NextSend, Workers
<1>2. \A v \in Workers : batch'[v] \subseteq batch[v]
  BY DEF NextSend
<1>3. \A j \in Items \ {i} : status'[j] = status[j] /\ leaseLeft'[j] = leaseLeft[j]
  OBVIOUS
<1> QED BY <1>1, <1>2, <1>3 DEF Workers

LEMMA InitLease == Init => LeaseInv
  BY InitCount DEF Init, LeaseInv, ExclusiveLease, SentFlagMatches, Workers

LEMMA NextLease ==
  ASSUME SlowSends = FALSE
  PROVE  LeaseInv /\ [Next]_vars => LeaseInv'
<1> SUFFICES ASSUME LeaseInv, [Next]_vars PROVE LeaseInv'
  OBVIOUS
<1>0. CountInv'
  BY NextCount DEF LeaseInv
<1> USE OutboxAssumption DEF LeaseInv
<1>1. CASE StartCycle
  <2> DEFINE S == {i \in Items : kind[i] = "SIGNAL"}
             C == Oldest(Due(S), BatchLimit)
  <2>1. C \in SUBSET Items
        /\ \A i \in C : ReclaimedStatus(i) \in {"PENDING", "RETRY"}
    BY DueIsClaimable
  <2>2. batch["scan"] = {} /\ Claim("scan", {}, C, "SIGNAL")
    BY <1>1 DEF StartCycle, CountInv, PhaseBatch, Workers
  <2> HIDE DEF C
  <2> QED BY <1>0, <2>1, <2>2, ClaimKeepsLease DEF Workers, Kinds
<1>2. CASE DrainWatches
  <2> DEFINE S == {i \in Items : kind[i] = "WATCH"}
             C == Oldest(Due(S), Smaller(BatchLimit, WatchMax - watchSent))
  <2>1. CASE watchSent < WatchMax
    <3>1. C \in SUBSET Items
          /\ \A i \in C : ReclaimedStatus(i) \in {"PENDING", "RETRY"}
      BY DueIsClaimable
    <3>2. batch["scan"] = {} /\ Claim("scan", {}, C, "WATCH")
      BY <1>2, <2>1 DEF DrainWatches
    <3> HIDE DEF C
    <3> QED BY <1>0, <3>1, <3>2, ClaimKeepsLease DEF Workers, Kinds
  <2>2. CASE ~(watchSent < WatchMax)
    BY <1>0, <1>2, <2>2 DEF DrainWatches, rows, history, ExclusiveLease,
                            SentFlagMatches
  <2> QED BY <2>1, <2>2
<1>3. CASE ScanMarket
  BY <1>0, <1>3 DEF ScanMarket, rows, history, ExclusiveLease, SentFlagMatches
<1>4. CASE EndCycle
  BY <1>0, <1>4 DEF EndCycle, rows, history, ExclusiveLease, SentFlagMatches
<1>5. ASSUME NEW w \in Workers, NEW i \in Items, NEW k \in Kinds, Emit(w, i, k)
      PROVE  LeaseInv'
  <2>1. batch[w] = {} /\ status[i] = "NONE" /\ Claim(w, {i}, {i}, k)
    BY <1>5 DEF Emit, Deciding, CountInv, PhaseBatch
  <2> QED BY <1>0, <2>1, ClaimKeepsLease
<1>6. ASSUME NEW w \in Workers, NEW i \in Items, NEW k \in Kinds,
             EmitUnclaimed(w, i, k)
      PROVE  LeaseInv'
  BY <1>0, <1>6 DEF EmitUnclaimed, Saved, Deciding, runtime, history, CountInv, TypeOK,
                    ExclusiveLease, SentFlagMatches
<1>7. ASSUME NEW w \in Workers, NEW i \in Items, SendSucceeds(w, i)
      PROVE  LeaseInv'
  <2>0. i \in batch[w]
    BY <1>7, SendingIsHeld DEF SendSucceeds, CountInv
  <2>1. ExclusiveLease'
    <3>1. /\ NextSend(w, i)
          /\ status' = [status EXCEPT ![i] = "SENT"]
          /\ leaseLeft' = [leaseLeft EXCEPT ![i] = 0]
      BY <1>7 DEF SendSucceeds
    <3> QED BY <2>0, <3>1, ReleaseKeepsLease
  <2>2. SentFlagMatches'
    BY <1>7 DEF SendSucceeds, Accepted, CountInv, TypeOK, SentFlagMatches
  <2> QED BY <1>0, <2>1, <2>2
<1>8. ASSUME NEW w \in Workers, NEW i \in Items, SendFails(w, i)
      PROVE  LeaseInv'
  <2>0. i \in batch[w] /\ status[i] = "IN_FLIGHT"
    BY <1>8, SendingIsHeld DEF SendFails, CountInv, ExclusiveLease
  <2>1. ExclusiveLease'
    <3> DEFINE s == IF attempts[i] >= MaxAttempts THEN "DEAD" ELSE "RETRY"
    <3>1. /\ NextSend(w, i)
          /\ status' = [status EXCEPT ![i] = s]
          /\ leaseLeft' = [leaseLeft EXCEPT ![i] = 0]
      BY <1>8 DEF SendFails
    <3> HIDE DEF s
    <3> QED BY <2>0, <3>1, ReleaseKeepsLease
  <2>2. SentFlagMatches'
    <3> PICK yes \in BOOLEAN : Accepted(i, yes)
      BY <1>8 DEF SendFails
    <3> QED BY <1>8, <2>0 DEF SendFails, Accepted, CountInv, TypeOK,
                              SentFlagMatches
  <2> QED BY <1>0, <2>1, <2>2
<1>9. ASSUME NEW w \in Workers, NEW i \in Items, RecordFails(w, i)
      PROVE  LeaseInv'
  <2>1. ExclusiveLease'
    BY <1>9 DEF RecordFails, rows, CountInv, TypeOK, ExclusiveLease, Workers
  <2>2. SentFlagMatches'
    <3> PICK yes \in BOOLEAN : Accepted(i, yes)
      BY <1>9 DEF RecordFails
    <3> QED BY <1>9 DEF RecordFails, rows, Accepted, CountInv, TypeOK,
                        SentFlagMatches
  <2> QED BY <1>0, <2>1, <2>2
<1>10. CASE Crash
  <2>0. batch' = [w \in Workers |-> {}]
    BY <1>10 DEF Crash
  <2>1. ExclusiveLease'
    BY <2>0 DEF ExclusiveLease, Workers
  <2>2. \A i \in Items : delivered[i] <= delivered'[i]
    BY <1>10 DEF Crash, CountInv, TypeOK
  <2>3. SentFlagMatches'
    BY <1>0, <1>10, <2>2 DEF Crash, rows, CountInv, TypeOK, SentFlagMatches
  <2> QED BY <1>0, <2>1, <2>3
<1>11. CASE Startup
  BY <1>0, <1>11 DEF Startup, history, ReclaimedStatus, Expired, CountInv,
                     TypeOK, ExclusiveLease, SentFlagMatches
<1>12. CASE Tick
  <2>1. \A w \in Workers : \A i \in batch[w] : leaseLeft[i] > 1
    BY <1>12 DEF Tick
  <2> QED BY <1>0, <1>12, <2>1 DEF Tick, runtime, history, CountInv, TypeOK,
                                  ExclusiveLease, SentFlagMatches
<1>13. CASE UNCHANGED vars
  BY <1>0, <1>13 DEF vars, rows, runtime, history, ExclusiveLease,
                     SentFlagMatches
<1> QED
  BY <1>1, <1>2, <1>3, <1>4, <1>5, <1>6, <1>7, <1>8, <1>9, <1>10, <1>11,
     <1>12, <1>13 DEF Next, Result

LEMMA LeaseInvariant == ASSUME SlowSends = FALSE PROVE Spec => []LeaseInv
  BY InitLease, NextLease, PTL DEF Spec

\* With prompt sends no delivery is ever in the hands of both workers, and a
\* claim in progress always has an unexpired lease on its row.
THEOREM LeaseExcludes ==
  ASSUME SlowSends = FALSE PROVE Spec => []ExclusiveLease
  BY LeaseInvariant, PTL DEF LeaseInv

\* With prompt sends telegram_sent and SENT always agree, which is what the
\* funnel audit checks as sent_flag_mismatch.
THEOREM FlagsAgree ==
  ASSUME SlowSends = FALSE PROVE Spec => []SentFlagMatches
  BY LeaseInvariant, PTL DEF LeaseInv
-----------------------------------------------------------------------------
(***************************************************************************)
(* What one step may do to one row, and from it the refinement.            *)
(***************************************************************************)
Waiting == {"PENDING", "RETRY", "IN_FLIGHT"}

RowStep(i) ==
    /\ status[i] \in {"SENT", "DEAD"} =>
          /\ status'[i] = status[i]
          /\ attempts'[i] = attempts[i]
          /\ delivered'[i] = delivered[i]
    /\ status[i] \in Waiting =>
          /\ status'[i] # "NONE"
          /\ delivered'[i] \in {delivered[i], delivered[i] + 1}
          /\ status'[i] = "SENT" => delivered'[i] = delivered[i] + 1
    /\ status[i] = "NONE" =>
          /\ status'[i] \in {"NONE", "PENDING", "IN_FLIGHT"}
          /\ delivered'[i] = delivered[i]

LEMMA ClaimRowStep ==
  ASSUME LeaseInv,
         NEW w \in Workers, NEW C \in SUBSET Items, NEW N \in SUBSET Items,
         NEW k \in Kinds,
         \A i \in N : status[i] = "NONE",
         \A i \in C \ N : ReclaimedStatus(i) \in {"PENDING", "RETRY"},
         Claim(w, N, C, k),
         NEW i \in Items
  PROVE  RowStep(i)
<1> USE DEF LeaseInv, CountInv, TypeOK
<1>1. CASE i \in C
  BY <1>1 DEF Claim, RowStep, Waiting, ReclaimedStatus, Expired
<1>2. CASE i \notin C
  BY <1>2 DEF Claim, RowStep, Waiting, ReclaimedStatus, Expired
<1> QED BY <1>1, <1>2

LEMMA NextRowStep ==
  ASSUME SlowSends = FALSE, LeaseInv, [Next]_vars, NEW i \in Items
  PROVE  RowStep(i)
<1> USE OutboxAssumption DEF LeaseInv
<1>1. CASE StartCycle
  <2> DEFINE S == {j \in Items : kind[j] = "SIGNAL"}
             C == Oldest(Due(S), BatchLimit)
  <2>1. /\ C \in SUBSET Items
        /\ \A j \in C : ReclaimedStatus(j) \in {"PENDING", "RETRY"}
    BY DueIsClaimable
  <2>2. Claim("scan", {}, C, "SIGNAL")
    BY <1>1 DEF StartCycle
  <2> HIDE DEF C
  <2> QED BY <2>1, <2>2, ClaimRowStep DEF Workers, Kinds
<1>2. CASE DrainWatches
  <2> DEFINE S == {j \in Items : kind[j] = "WATCH"}
             C == Oldest(Due(S), Smaller(BatchLimit, WatchMax - watchSent))
  <2>1. CASE watchSent < WatchMax
    <3>1. /\ C \in SUBSET Items
          /\ \A j \in C : ReclaimedStatus(j) \in {"PENDING", "RETRY"}
      BY DueIsClaimable
    <3>2. Claim("scan", {}, C, "WATCH")
      BY <1>2, <2>1 DEF DrainWatches
    <3> HIDE DEF C
    <3> QED BY <3>1, <3>2, ClaimRowStep DEF Workers, Kinds
  <2>2. CASE ~(watchSent < WatchMax)
    BY <1>2, <2>2 DEF DrainWatches, rows, history, RowStep, Waiting
  <2> QED BY <2>1, <2>2
<1>3. CASE ScanMarket \/ EndCycle
  BY <1>3 DEF ScanMarket, EndCycle, rows, history, RowStep, Waiting
<1>4. ASSUME NEW w \in Workers, NEW n \in Items, NEW k \in Kinds, Emit(w, n, k)
      PROVE  RowStep(i)
  BY <1>4, ClaimRowStep DEF Emit, Deciding
<1>5. ASSUME NEW w \in Workers, NEW n \in Items, NEW k \in Kinds,
             EmitUnclaimed(w, n, k)
      PROVE  RowStep(i)
  BY <1>5 DEF EmitUnclaimed, Saved, Deciding, history, CountInv, TypeOK, RowStep, Waiting
<1>6. ASSUME NEW w \in Workers, NEW n \in Items,
             SendSucceeds(w, n) \/ SendFails(w, n) \/ RecordFails(w, n)
      PROVE  RowStep(i)
  <2>0. n \in Sending(w)
    BY <1>6 DEF SendSucceeds, SendFails, RecordFails
  <2>1. n \in batch[w] /\ status[n] = "IN_FLIGHT"
    BY <2>0, SendingIsHeld DEF CountInv, ExclusiveLease
  <2>2. CASE SendSucceeds(w, n)
    BY <2>1, <2>2 DEF SendSucceeds, Accepted, CountInv, TypeOK, RowStep, Waiting
  <2>3. CASE SendFails(w, n)
    <3> PICK yes \in BOOLEAN : Accepted(n, yes)
      BY <2>3 DEF SendFails
    <3> QED BY <2>1, <2>3 DEF SendFails, Accepted, CountInv, TypeOK, RowStep,
                              Waiting
  <2>4. CASE RecordFails(w, n)
    <3> PICK yes \in BOOLEAN : Accepted(n, yes)
      BY <2>4 DEF RecordFails
    <3> QED BY <2>1, <2>4 DEF RecordFails, rows, Accepted, CountInv, TypeOK,
                              RowStep, Waiting
  <2> QED BY <1>6, <2>2, <2>3, <2>4
<1>7. CASE Crash
  <2>1. UNCHANGED rows
    BY <1>7 DEF Crash
  <2>2. ~(i \in batch["scan"] /\ i \in batch["fast"])
        /\ \A w \in Workers : i \in batch[w] => status[i] = "IN_FLIGHT"
    BY DEF ExclusiveLease
  <2>3. delivered'[i] \in {delivered[i], delivered[i] + 1}
        /\ (delivered'[i] # delivered[i] => status[i] = "IN_FLIGHT")
    BY <1>7, <2>2 DEF Crash, Sending, FirstOf, CountInv, TypeOK, Workers
  <2> QED BY <2>1, <2>3 DEF rows, RowStep, Waiting
<1>8. CASE Startup
  BY <1>8 DEF Startup, history, ReclaimedStatus, Expired, CountInv, TypeOK,
              RowStep, Waiting
<1>9. CASE Tick \/ UNCHANGED vars
  BY <1>9 DEF Tick, vars, rows, runtime, history, RowStep, Waiting
<1> QED
  BY <1>1, <1>2, <1>3, <1>4, <1>5, <1>6, <1>7, <1>8, <1>9 DEF Next, Result

\* With prompt sends a SENT or DEAD row is never touched again: no late
\* mark_delivery_retry reopens it, no reclaim or claim picks it up.
THEOREM SettledStays == ASSUME SlowSends = FALSE PROVE Spec => SettledIsFinal
<1>1. LeaseInv /\ [Next]_vars =>
        [\A i \in Items : status[i] \in {"SENT", "DEAD"} =>
            /\ status'[i] = status[i]
            /\ attempts'[i] = attempts[i]
            /\ delivered'[i] = delivered[i]]_vars
  BY NextRowStep DEF RowStep
<1> QED BY <1>1, LeaseInvariant, PTL DEF Spec, SettledIsFinal

\* With prompt sends the outbox implements at-least-once delivery: rows, leases,
\* batches, retries, crashes and restarts are invisible to the abstract view.
THEOREM OutboxRefines == ASSUME SlowSends = FALSE PROVE Spec => ImplementsDelivery
<1>1. Init => Delivery!Init
  BY DEF Init, Delivery!Init, AbstractState
<1>2. LeaseInv /\ LeaseInv' /\ [Next]_vars => [Delivery!Next]_(Delivery!vars)
  <2> SUFFICES ASSUME LeaseInv, LeaseInv', [Next]_vars PROVE Delivery!Next
    OBVIOUS
  <2>0. /\ status \in [Items -> Status] /\ status' \in [Items -> Status]
        /\ delivered \in [Items -> Nat] /\ delivered' \in [Items -> Nat]
    BY DEF LeaseInv, CountInv, TypeOK
  <2> DEFINE abs(s) == CASE s = "NONE" -> "absent" [] s = "SENT" -> "sent"
                         [] s = "DEAD" -> "dead" [] OTHER -> "queued"
  <2>1. \A i \in Items : AbstractState(i) = abs(status[i])
                         /\ AbstractState(i)' = abs(status'[i])
    BY DEF AbstractState
  <2>2. \A i \in Items : delivered'[i] <= MaxAttempts
    BY OutboxAssumption DEF LeaseInv, CountInv, TypeOK, AttemptBudget, Held
  <2>3. ASSUME NEW i \in Items
        PROVE  \/ Delivery!Rest(i) \/ Delivery!Enqueue(i)
               \/ Delivery!Accept(i) \/ Delivery!GiveUp(i)
    <3>1. RowStep(i)
      BY NextRowStep
    <3>2. CASE status[i] \in {"SENT", "DEAD"}
      BY <2>0, <2>1, <3>1, <3>2 DEF RowStep, Delivery!Rest
    <3>3. CASE status[i] \in Waiting
      <4>1. AbstractState(i) = "queued"
            /\ AbstractState(i)' \in {"queued", "sent", "dead"}
        BY <2>0, <2>1, <3>1, <3>3 DEF RowStep, Waiting, Status
      <4>2. CASE delivered'[i] = delivered[i] + 1
        BY <2>0, <2>2, <4>1, <4>2, OutboxAssumption DEF Delivery!Accept
      <4>3. CASE delivered'[i] = delivered[i]
        <5>1. AbstractState(i)' # "sent"
          BY <2>0, <2>1, <3>1, <3>3, <4>3 DEF RowStep, Status
        <5> QED BY <4>1, <4>3, <5>1 DEF Delivery!Rest, Delivery!GiveUp
      <4> QED BY <3>1, <3>3, <4>2, <4>3 DEF RowStep
    <3>4. CASE status[i] = "NONE"
      BY <2>0, <2>1, <3>1, <3>4 DEF RowStep, Delivery!Rest, Delivery!Enqueue
    <3> QED BY <2>0, <3>2, <3>3, <3>4 DEF Status, Waiting
  <2>4. [i \in Items |-> AbstractState(i)]'
            \in [Items -> {"absent", "queued", "sent", "dead"}]
    BY <2>0, <2>1 DEF Status
  <2> QED BY <2>0, <2>3, <2>4 DEF Delivery!Next
<1> QED BY <1>1, <1>2, LeaseInvariant, PTL DEF Spec, ImplementsDelivery, Delivery!Spec
=============================================================================
