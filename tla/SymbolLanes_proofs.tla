------------------------- MODULE SymbolLanes_proofs -------------------------
(***************************************************************************)
(* Proofs about SymbolLanes, for any finite set of tasks, any symbols and  *)
(* spellings, and any lane objects.                                        *)
(*                                                                         *)
(* The refinement needs to know why a marked waiter may take the lock      *)
(* without looking at it (Handover) and why a dropped lane has no waiter   *)
(* (RegistryMatchesUse); together with who owns what they are inductive.   *)
(***************************************************************************)
EXTENDS SymbolLanes, FiniteSetTheorems, TLAPS

\* A task refers to a lane, and to a symbol, exactly during a call.
CallsOK ==
    \A t \in Tasks : /\ pc[t] = "idle" <=> lane[t] = None
                     /\ pc[t] = "idle" <=> asked[t] = None

\* Two symbols never share a lane.
LanesDistinct ==
    \A j, k \in Symbols : registry[j] # None /\ registry[j] = registry[k] => j = k

\* A lock's queue holds, once each, tasks that wait for the lane.
QueueOK ==
    \A l \in Lanes : \A i \in 1..Len(queue[l]) :
        /\ pc[queue[l][i]] = "waiting"
        /\ lane[queue[l][i]] = l
        /\ \A j \in 1..Len(queue[l]) : queue[l][i] = queue[l][j] => i = j

\* The lock waits for a marked waiter: it is free, and no other is marked.
Handover ==
    \A t \in Tasks : pc[t] = "waiting" /\ fut[t] \in {"marked", "revoked"} =>
        /\ ~locked[lane[t]]
        /\ queue[lane[t]] # <<>>
        /\ queue[lane[t]][1] = t

\* A taken lock has an owner, which is inside, and whoever is inside owns it.
OwnerOK ==
    /\ \A t \in Tasks : pc[t] = "inside" => locked[lane[t]] /\ owner[lane[t]] = t
    /\ \A l \in Lanes : locked[l] => /\ owner[l] \in Tasks
                                     /\ pc[owner[l]] = "inside"
                                     /\ lane[owner[l]] = l

LaneInv == /\ TypeOK
           /\ CallsOK
           /\ RegistryMatchesUse
           /\ LanesDistinct
           /\ QueueOK
           /\ Handover
           /\ OwnerOK

-----------------------------------------------------------------------------
\* Removing one place of a queue.
LEMMA WithoutType ==
  ASSUME NEW S, NEW q \in Seq(S), NEW i \in 1..Len(q)
  PROVE  /\ Without(q, i) \in Seq(S)
         /\ Len(Without(q, i)) = Len(q) - 1
         /\ \A j \in 1..(Len(q) - 1) :
               Without(q, i)[j] = IF j < i THEN q[j] ELSE q[j + 1]
<1>1. Len(q) - 1 \in Nat
  OBVIOUS
<1>2. \A j \in 1..(Len(q) - 1) : (IF j < i THEN q[j] ELSE q[j + 1]) \in S
  OBVIOUS
<1> QED
  BY <1>1, <1>2 DEF Without

\* Tasks that use a lane, counted.
LEMMA UsersFinite == \A l : IsFiniteSet(UsersOf(l)) /\ Cardinality(UsersOf(l)) \in Nat
<1> TAKE l
<1>1. UsersOf(l) \in SUBSET Tasks
  BY DEF UsersOf
<1> QED
  BY <1>1, FS_Subset, FS_CardinalityType, LanesAssumption

\* A user that is not the only one has company.
LEMMA NotLastUser ==
  ASSUME NEW l, NEW t \in UsersOf(l)
  PROVE  Cardinality(UsersOf(l)) = 1 <=> UsersOf(l) = {t}
<1>1. Cardinality(UsersOf(l)) = 1 <=> \E x : UsersOf(l) = {x}
  BY UsersFinite, FS_Singleton
<1> QED
  BY <1>1

LEMMA InitLanes == Init => LaneInv
<1> SUFFICES ASSUME Init PROVE LaneInv
  OBVIOUS
<1> USE LanesAssumption DEF Init
<1>1. TypeOK
  BY DEF TypeOK
<1>2. CallsOK /\ LanesDistinct /\ QueueOK /\ Handover /\ OwnerOK
  BY DEF CallsOK, LanesDistinct, QueueOK, Handover, OwnerOK
<1>3. \A l \in Lanes : UsersOf(l) = {}
  BY DEF UsersOf
<1>4. RegistryMatchesUse
  BY <1>3, FS_EmptySet DEF RegistryMatchesUse
<1> QED
  BY <1>1, <1>2, <1>4 DEF LaneInv
-----------------------------------------------------------------------------
\* A task joins a lane: the registered one, or a new object.
LEMMA CallKeepsLanes ==
  ASSUME LaneInv, NEW t \in Tasks, NEW s \in Symbols, Call(t, s)
  PROVE  LaneInv'
<1> USE LanesAssumption
<1> DEFINE k == Key(s)
<1>0. k \in Symbols
  BY DEF Key
<1>1. PICK l \in IF registry[k] = None THEN Fresh ELSE {registry[k]} :
          /\ registry' = [registry EXCEPT ![k] = l]
          /\ asked' = [asked EXCEPT ![t] = s]
          /\ lane' = [lane EXCEPT ![t] = l]
          /\ users' = [users EXCEPT ![l] = @ + 1]
          /\ \/ Free(l) /\ Enters(t, l) /\ UNCHANGED <<queue, fut>>
             \/ ~Free(l) /\ Queues(t, l) /\ UNCHANGED <<locked, owner>>
  BY DEF Call
<1> HIDE DEF k
<1>2. /\ TypeOK /\ CallsOK /\ RegistryMatchesUse /\ LanesDistinct
      /\ QueueOK /\ Handover /\ OwnerOK
  BY DEF LaneInv
<1>3. l \in Lanes /\ l # None
  BY <1>0, <1>1, <1>2 DEF TypeOK, Fresh
<1>4. pc[t] = "idle" /\ lane[t] = None /\ asked[t] = None
  BY <1>2 DEF Call, CallsOK
<1>5. registry[k] = None => /\ \A j \in Symbols : registry[j] # l
                            /\ \A u \in Tasks : lane[u] # l
  BY <1>1 DEF Fresh
<1>6. registry[k] # None => registry[k] = l
  BY <1>1
<1>7. TypeOK'
  <2>1. CASE Free(l) /\ Enters(t, l) /\ UNCHANGED <<queue, fut>>
    BY <1>0, <1>1, <1>2, <1>3, <2>1 DEF TypeOK, Enters
  <2>2. CASE ~Free(l) /\ Queues(t, l) /\ UNCHANGED <<locked, owner>>
    BY <1>0, <1>1, <1>2, <1>3, <2>2 DEF TypeOK, Queues
  <2> QED
    BY <1>1, <2>1, <2>2
<1>8. /\ \A u \in Tasks \ {t} : pc'[u] = pc[u] /\ lane'[u] = lane[u] /\ asked'[u] = asked[u]
      /\ pc'[t] \in {"inside", "waiting"} /\ lane'[t] = l /\ asked'[t] = s
  BY <1>1, <1>2 DEF TypeOK, Enters, Queues
<1>9. CallsOK'
  BY <1>2, <1>3, <1>8 DEF CallsOK
<1>10. LanesDistinct'
  BY <1>0, <1>1, <1>2, <1>5, <1>6 DEF LanesDistinct, TypeOK
<1>11. RegistryMatchesUse'
  <2>1. /\ registry'[k] = l
        /\ \A j \in Symbols \ {k} : registry'[j] = registry[j]
    BY <1>0, <1>1, <1>2 DEF TypeOK
  <2>2. ASSUME NEW j \in Symbols, registry'[j] # None
        PROVE  \E u \in Tasks : lane'[u] = registry'[j]
    <3>1. CASE j = k
      BY <3>1, <2>1, <1>8
    <3>2. CASE j # k
      <4>1. PICK u \in Tasks : lane[u] = registry[j]
        BY <2>1, <2>2, <3>2, <1>2 DEF RegistryMatchesUse
      <4>2. u # t
        BY <4>1, <1>4, <2>1, <2>2, <3>2
      <4> QED
        BY <4>1, <4>2, <1>8, <2>1, <3>2
    <3> QED
      BY <3>1, <3>2
  <2>3. ASSUME NEW u \in Tasks, asked'[u] # None
        PROVE  lane'[u] # None /\ registry'[Canonical[asked'[u]]] = lane'[u]
    <3>1. CASE u = t
      BY <3>1, <1>8, <1>3, <2>1 DEF k, Key
    <3>2. CASE u # t
      <4>1. /\ asked[u] # None /\ lane[u] # None
            /\ registry[Canonical[asked[u]]] = lane[u]
            /\ Canonical[asked[u]] \in Symbols
        BY <3>2, <2>3, <1>8, <1>2 DEF RegistryMatchesUse, TypeOK
      <4>2. registry'[Canonical[asked[u]]] = lane[u]
        BY <4>1, <2>1, <1>6
      <4> QED
        BY <4>1, <4>2, <3>2, <1>8
    <3> QED
      BY <3>1, <3>2
  <2>4. ASSUME NEW m \in Lanes PROVE users'[m] = Cardinality(UsersOf(m)')
    <3>1. CASE m = l
      <4>1. UsersOf(m)' = UsersOf(m) \cup {t}
        BY <3>1, <1>8 DEF UsersOf
      <4>2. t \notin UsersOf(m)
        BY <1>4 DEF UsersOf
      <4>3. Cardinality(UsersOf(m)') = Cardinality(UsersOf(m)) + 1
        BY <4>1, <4>2, UsersFinite, FS_AddElement
      <4> QED
        BY <4>3, <3>1, <1>1, <1>2, <1>3 DEF TypeOK, RegistryMatchesUse
    <3>2. CASE m # l
      <4>1. UsersOf(m)' = UsersOf(m)
        BY <3>2, <1>8, <1>4 DEF UsersOf
      <4> QED
        BY <4>1, <3>2, <1>1, <1>2, <1>3 DEF TypeOK, RegistryMatchesUse
    <3> QED
      BY <3>1, <3>2
  <2> QED
    BY <2>2, <2>3, <2>4 DEF RegistryMatchesUse
<1>12. /\ \A m \in Lanes : \A i \in 1..Len(queue[m]) : queue[m][i] \in Tasks \ {t}
  BY <1>2, <1>4 DEF TypeOK, QueueOK
<1>13. CASE Free(l) /\ Enters(t, l) /\ UNCHANGED <<queue, fut>>
  <2>1. QueueOK'
    BY <1>13, <1>2, <1>8, <1>12 DEF QueueOK
  <2>2. ASSUME NEW u \in Tasks, pc[u] = "waiting", fut[u] \in {"marked", "revoked"}
        PROVE  lane[u] # l
    <3> SUFFICES ASSUME lane[u] = l PROVE FALSE
      OBVIOUS
    <3>1. queue[l] # <<>> /\ queue[l][1] = u /\ queue[l] \in Seq(Tasks)
      BY <2>2, <1>2, <1>3 DEF Handover, TypeOK
    <3>2. 1 \in DOMAIN queue[l]
      BY <3>1
    <3> QED
      BY <3>1, <3>2, <2>2, <1>13 DEF Free
  <2>3. Handover'
    BY <2>2, <1>13, <1>2, <1>3, <1>8 DEF Handover, Enters, TypeOK
  <2>4. OwnerOK'
    BY <1>13, <1>2, <1>3, <1>4, <1>8 DEF OwnerOK, Enters, TypeOK, Free
  <2> QED
    BY <1>7, <1>9, <1>10, <1>11, <2>1, <2>3, <2>4 DEF LaneInv
<1>14. CASE ~Free(l) /\ Queues(t, l) /\ UNCHANGED <<locked, owner>>
  <2>1. /\ queue'[l] = Append(queue[l], t)
        /\ \A m \in Lanes \ {l} : queue'[m] = queue[m]
        /\ pc'[t] = "waiting"
        /\ queue[l] \in Seq(Tasks)
    BY <1>14, <1>2, <1>3 DEF Queues, TypeOK
  <2>2. QueueOK'
    <3> SUFFICES ASSUME NEW m \in Lanes, NEW i \in 1..Len(queue'[m])
                 PROVE  /\ pc'[queue'[m][i]] = "waiting"
                        /\ lane'[queue'[m][i]] = m
                        /\ \A j \in 1..Len(queue'[m]) :
                              queue'[m][i] = queue'[m][j] => i = j
      BY DEF QueueOK
    <3>1. CASE m # l
      BY <3>1, <2>1, <1>2, <1>8, <1>12 DEF QueueOK
    <3>2. CASE m = l
      <4>1. /\ Len(queue'[l]) = Len(queue[l]) + 1
            /\ \A j \in 1..Len(queue[l]) : queue'[l][j] = queue[l][j]
            /\ queue'[l][Len(queue[l]) + 1] = t
        BY <2>1
      <4> QED
        BY <4>1, <3>2, <2>1, <1>2, <1>3, <1>8, <1>12 DEF QueueOK
    <3> QED
      BY <3>1, <3>2
  <2>3. Handover'
    <3> SUFFICES ASSUME NEW u \in Tasks, pc'[u] = "waiting",
                        fut'[u] \in {"marked", "revoked"}
                 PROVE  /\ ~locked'[lane'[u]]
                        /\ queue'[lane'[u]] # <<>>
                        /\ queue'[lane'[u]][1] = u
      BY DEF Handover
    <3>1. u # t /\ fut'[u] = fut[u]
      BY <1>14, <1>2 DEF Queues, TypeOK
    <3>2. /\ ~locked[lane[u]] /\ queue[lane[u]] # <<>> /\ queue[lane[u]][1] = u
          /\ lane[u] \in Lanes
      BY <3>1, <1>2, <1>8 DEF Handover, TypeOK, CallsOK
    <3>3. CASE lane[u] # l
      BY <3>1, <3>2, <3>3, <2>1, <1>8, <1>14
    <3>4. CASE lane[u] = l
      <4>1. queue'[l] # <<>> /\ queue'[l][1] = queue[l][1]
        BY <3>2, <3>4, <2>1
      <4> QED
        BY <4>1, <3>1, <3>2, <3>4, <1>8, <1>14
    <3> QED
      BY <3>3, <3>4
  <2>4. OwnerOK'
    <3>1. \A u \in Tasks : pc'[u] = "inside" =>
             u # t /\ pc[u] = "inside" /\ lane'[u] = lane[u]
      BY <2>1, <1>8
    <3>2. \A m \in Lanes : locked[m] =>
             /\ owner[m] \in Tasks \ {t}
             /\ pc[owner[m]] = "inside"
             /\ lane[owner[m]] = m
      BY <1>2, <1>4 DEF OwnerOK
    <3> QED
      BY <3>1, <3>2, <1>14, <1>2, <1>8 DEF OwnerOK
  <2> QED
    BY <1>7, <1>9, <1>10, <1>11, <2>2, <2>3, <2>4 DEF LaneInv
<1> QED
  BY <1>1, <1>13, <1>14

\* A task leaves its lane, which is dropped only if nobody else uses it.
LEMMA DismissKeepsRegistry ==
  ASSUME LaneInv, NEW t \in Tasks, NEW l, pc[t] # "idle", lane[t] = l,
         Dismiss(t, l),
         locked'[l] => \E u \in Tasks \ {t} : lane[u] = l
  PROVE  /\ registry' \in [Symbols -> Lanes \cup {None}]
         /\ users' \in [Lanes -> Nat]
         /\ pc' \in [Tasks -> {"idle", "waiting", "inside"}]
         /\ asked' \in [Tasks -> Symbols \cup {None}]
         /\ lane' \in [Tasks -> Lanes \cup {None}]
         /\ CallsOK' /\ RegistryMatchesUse' /\ LanesDistinct'
         /\ \A u \in Tasks \ {t} : pc'[u] = pc[u] /\ lane'[u] = lane[u]
         /\ pc'[t] = "idle" /\ lane'[t] = None
<1> USE LanesAssumption
<1> DEFINE k == Key(asked[t])
<1>1. TypeOK /\ CallsOK /\ RegistryMatchesUse /\ LanesDistinct
  BY DEF LaneInv
<1>2. /\ asked[t] \in Symbols /\ l \in Lanes /\ l # None
      /\ k \in Symbols /\ registry[k] = l
  BY <1>1 DEF TypeOK, CallsOK, RegistryMatchesUse, Key
<1>3. /\ users' = [users EXCEPT ![l] = @ - 1]
      /\ registry' = IF users[l] = 1 /\ ~locked'[l]
                     THEN [registry EXCEPT ![k] = None] ELSE registry
      /\ pc' = [pc EXCEPT ![t] = "idle"]
      /\ lane' = [lane EXCEPT ![t] = None]
      /\ asked' = [asked EXCEPT ![t] = None]
  BY DEF Dismiss
<1> HIDE DEF k
<1>4. /\ t \in UsersOf(l) /\ users[l] = Cardinality(UsersOf(l))
      /\ users[l] = 1 <=> UsersOf(l) = {t}
  <2>1. t \in UsersOf(l)
    BY DEF UsersOf
  <2>2. users[l] = Cardinality(UsersOf(l))
    BY <1>1, <1>2 DEF RegistryMatchesUse
  <2> QED
    BY <2>1, <2>2, NotLastUser
<1>5. /\ \A u \in Tasks \ {t} : /\ pc'[u] = pc[u] /\ lane'[u] = lane[u]
                                /\ asked'[u] = asked[u]
      /\ pc'[t] = "idle" /\ lane'[t] = None /\ asked'[t] = None
  BY <1>1, <1>3 DEF TypeOK
<1>6. users[l] # 0
  BY <1>4, UsersFinite, FS_EmptySet
<1>7. users' \in [Lanes -> Nat]
  <2>1. users[l] - 1 \in Nat
    BY <1>1, <1>2, <1>6 DEF TypeOK
  <2> QED
    BY <2>1, <1>1, <1>3 DEF TypeOK
<1>8. /\ registry' \in [Symbols -> Lanes \cup {None}]
      /\ pc' \in [Tasks -> {"idle", "waiting", "inside"}]
      /\ asked' \in [Tasks -> Symbols \cup {None}]
      /\ lane' \in [Tasks -> Lanes \cup {None}]
  BY <1>1, <1>3 DEF TypeOK
<1>9. CallsOK'
  BY <1>1, <1>5 DEF CallsOK
<1>10. LanesDistinct'
  BY <1>1, <1>2, <1>3 DEF LanesDistinct, TypeOK
<1>11. \A j \in Symbols \ {k} : registry'[j] = registry[j]
  BY <1>1, <1>3 DEF TypeOK
<1>12. ASSUME NEW j \in Symbols, registry'[j] # None
       PROVE  \E u \in Tasks : lane'[u] = registry'[j]
  <2>1. registry'[j] = registry[j]
    BY <1>1, <1>3, <1>12 DEF TypeOK
  <2>2. CASE j = k
    <3>1. ~(users[l] = 1 /\ ~locked'[l])
      BY <1>1, <1>2, <1>3, <1>12, <2>2 DEF TypeOK
    <3>2. \E u \in Tasks \ {t} : lane[u] = l
      BY <3>1, <1>4 DEF UsersOf
    <3> QED
      BY <3>2, <2>1, <2>2, <1>2, <1>5
  <2>3. CASE j # k
    <3>1. PICK u \in Tasks : lane[u] = registry[j]
      BY <2>1, <1>1, <1>12 DEF RegistryMatchesUse
    <3>2. u # t
      BY <3>1, <2>1, <2>3, <1>1, <1>2, <1>12 DEF LanesDistinct
    <3> QED
      BY <3>1, <3>2, <2>1, <1>5
  <2> QED
    BY <2>2, <2>3
<1>13. ASSUME NEW u \in Tasks, asked'[u] # None
       PROVE  lane'[u] # None /\ registry'[Canonical[asked'[u]]] = lane'[u]
  <2>1. u # t /\ asked'[u] = asked[u] /\ lane'[u] = lane[u]
    BY <1>5, <1>13
  <2>2. /\ lane[u] # None /\ registry[Canonical[asked[u]]] = lane[u]
        /\ Canonical[asked[u]] \in Symbols
    BY <2>1, <1>1, <1>13 DEF RegistryMatchesUse, TypeOK
  <2>3. CASE Canonical[asked[u]] # k
    BY <2>1, <2>2, <2>3, <1>11
  <2>4. CASE Canonical[asked[u]] = k
    <3>1. u \in UsersOf(l)
      BY <2>2, <2>4, <1>2 DEF UsersOf
    <3>2. registry' = registry
      BY <3>1, <2>1, <1>3, <1>4
    <3> QED
      BY <3>2, <2>1, <2>2
  <2> QED
    BY <2>3, <2>4
<1>14. ASSUME NEW m \in Lanes PROVE users'[m] = Cardinality(UsersOf(m)')
  <2>1. CASE m = l
    <3>1. UsersOf(m)' = UsersOf(m) \ {t}
      BY <2>1, <1>2, <1>5 DEF UsersOf
    <3>2. Cardinality(UsersOf(m)') = Cardinality(UsersOf(m)) - 1
      BY <3>1, <2>1, <1>4, UsersFinite, FS_RemoveElement
    <3> QED
      BY <3>2, <2>1, <1>1, <1>2, <1>3, <1>4 DEF TypeOK
  <2>2. CASE m # l
    <3>1. UsersOf(m)' = UsersOf(m)
      BY <2>2, <1>2, <1>5 DEF UsersOf
    <3> QED
      BY <3>1, <2>2, <1>1, <1>2, <1>3 DEF TypeOK, RegistryMatchesUse
  <2> QED
    BY <2>1, <2>2
<1>15. RegistryMatchesUse'
  BY <1>12, <1>13, <1>14 DEF RegistryMatchesUse
<1> QED
  BY <1>5, <1>7, <1>8, <1>9, <1>10, <1>15

\* The owner leaves and marks the first waiter.
LEMMA ReleaseKeepsLanes ==
  ASSUME LaneInv, NEW t \in Tasks, pc[t] = "inside", Release(t, lane[t])
  PROVE  LaneInv'
<1> USE LanesAssumption
<1> DEFINE l == lane[t]
<1>1. /\ TypeOK /\ CallsOK /\ QueueOK /\ Handover /\ OwnerOK
  BY DEF LaneInv
<1>2. l \in Lanes /\ l # None /\ locked[l] /\ owner[l] = t
  BY <1>1 DEF TypeOK, CallsOK, OwnerOK
<1>3. /\ owner' = [owner EXCEPT ![l] = None]
      /\ locked' = [locked EXCEPT ![l] = FALSE]
      /\ fut' = Woken(queue[l], fut)
      /\ queue' = queue
      /\ Dismiss(t, l)
  BY DEF Release
<1> HIDE DEF l
<1>4. ~locked'[l]
  BY <1>1, <1>2, <1>3 DEF TypeOK
<1>5. l = lane[t]
  BY DEF l
<1>6. /\ registry' \in [Symbols -> Lanes \cup {None}]
      /\ users' \in [Lanes -> Nat]
      /\ pc' \in [Tasks -> {"idle", "waiting", "inside"}]
      /\ asked' \in [Tasks -> Symbols \cup {None}]
      /\ lane' \in [Tasks -> Lanes \cup {None}]
      /\ CallsOK' /\ RegistryMatchesUse' /\ LanesDistinct'
      /\ \A u \in Tasks \ {t} : pc'[u] = pc[u] /\ lane'[u] = lane[u]
      /\ pc'[t] = "idle" /\ lane'[t] = None
  BY <1>3, <1>4, <1>5, DismissKeepsRegistry
<1>7. queue[l] # <<>> => Head(queue[l]) = queue[l][1] /\ 1 \in 1..Len(queue[l])
  BY <1>1, <1>2 DEF TypeOK
<1>8. fut' \in [Tasks -> {"none", "pending", "marked", "cancelled", "revoked"}]
  BY <1>1, <1>2, <1>3, <1>7 DEF TypeOK, Woken
<1>9. TypeOK'
  BY <1>1, <1>2, <1>3, <1>6, <1>8 DEF TypeOK
<1>10. \A m \in Lanes : \A i \in 1..Len(queue[m]) : queue[m][i] \in Tasks \ {t}
  BY <1>1 DEF TypeOK, QueueOK
<1>11. QueueOK'
  BY <1>1, <1>3, <1>6, <1>10 DEF QueueOK
<1>12. Handover'
  <2> SUFFICES ASSUME NEW u \in Tasks, pc'[u] = "waiting",
                      fut'[u] \in {"marked", "revoked"}
               PROVE  /\ ~locked'[lane'[u]]
                      /\ queue'[lane'[u]] # <<>>
                      /\ queue'[lane'[u]][1] = u
    BY DEF Handover
  <2>1. u # t /\ pc[u] = "waiting" /\ lane'[u] = lane[u] /\ lane[u] \in Lanes
    BY <1>1, <1>6 DEF TypeOK, CallsOK
  <2>2. CASE fut[u] \in {"marked", "revoked"}
    BY <2>1, <2>2, <1>1, <1>2, <1>3 DEF Handover, TypeOK
  <2>3. CASE fut[u] \notin {"marked", "revoked"}
    <3>1. queue[l] # <<>> /\ Head(queue[l]) = u
      BY <2>3, <1>1, <1>2, <1>3, <1>7 DEF Woken, TypeOK
    <3>2. lane[u] = l
      BY <3>1, <1>1, <1>2, <1>7 DEF QueueOK
    <3> QED
      BY <3>1, <3>2, <2>1, <1>3, <1>4, <1>7
  <2> QED
    BY <2>2, <2>3
<1>13. OwnerOK'
  <2>1. ASSUME NEW u \in Tasks, pc'[u] = "inside"
        PROVE  locked'[lane'[u]] /\ owner'[lane'[u]] = u
    <3>1. /\ u # t /\ pc[u] = "inside" /\ lane'[u] = lane[u]
          /\ lane[u] \in Lanes
      BY <2>1, <1>1, <1>6 DEF TypeOK, CallsOK
    <3>2. locked[lane[u]] /\ owner[lane[u]] = u
      BY <3>1, <1>1 DEF OwnerOK
    <3>3. lane[u] # l
      BY <3>1, <3>2, <1>2
    <3> QED
      BY <3>1, <3>2, <3>3, <1>1, <1>3 DEF TypeOK
  <2>2. ASSUME NEW m \in Lanes, locked'[m]
        PROVE  /\ owner'[m] \in Tasks
               /\ pc'[owner'[m]] = "inside"
               /\ lane'[owner'[m]] = m
    <3>1. m # l /\ locked[m] /\ owner'[m] = owner[m]
      BY <2>2, <1>1, <1>2, <1>3, <1>4 DEF TypeOK
    <3>2. owner[m] \in Tasks /\ pc[owner[m]] = "inside" /\ lane[owner[m]] = m
      BY <3>1, <1>1 DEF OwnerOK
    <3>3. owner[m] # t
      BY <3>1, <3>2, <1>5
    <3> QED
      BY <3>1, <3>2, <3>3, <1>6
  <2> QED
    BY <2>1, <2>2 DEF OwnerOK
<1> QED
  BY <1>6, <1>9, <1>11, <1>12, <1>13 DEF LaneInv

\* What is left of a lock's queue when a waiter goes.
LEMMA QueueWithout ==
  ASSUME LaneInv, NEW t \in Tasks, pc[t] = "waiting",
         NEW i \in DOMAIN queue[lane[t]], queue[lane[t]][i] = t,
         queue' = [queue EXCEPT ![lane[t]] = Without(@, i)]
  PROVE  /\ lane[t] \in Lanes
         /\ queue' \in [Lanes -> Seq(Tasks)]
         /\ \A m \in Lanes \ {lane[t]} : queue'[m] = queue[m]
         /\ \A m \in Lanes : \A j \in 1..Len(queue'[m]) :
               /\ queue'[m][j] \in Tasks \ {t}
               /\ pc[queue'[m][j]] = "waiting"
               /\ lane[queue'[m][j]] = m
               /\ \A n \in 1..Len(queue'[m]) :
                     queue'[m][j] = queue'[m][n] => j = n
         /\ \A u \in Tasks \ {t} :
               queue[lane[t]] # <<>> /\ queue[lane[t]][1] = u =>
                  queue'[lane[t]] # <<>> /\ queue'[lane[t]][1] = u
<1> DEFINE l == lane[t]
<1> DEFINE q == queue[l]
<1>1. TypeOK /\ CallsOK /\ QueueOK
  BY DEF LaneInv
<1>2. l \in Lanes /\ q \in Seq(Tasks) /\ i \in 1..Len(q) /\ q[i] = t
  BY <1>1 DEF TypeOK, CallsOK
<1>3. queue' = [queue EXCEPT ![l] = Without(q, i)]
  OBVIOUS
<1> DEFINE r == Without(q, i)
<1>4. /\ r \in Seq(Tasks) /\ Len(r) = Len(q) - 1
      /\ \A j \in 1..(Len(q) - 1) : r[j] = IF j < i THEN q[j] ELSE q[j + 1]
  BY <1>2, WithoutType
<1>5. /\ queue'[l] = r /\ \A m \in Lanes \ {l} : queue'[m] = queue[m]
      /\ queue' \in [Lanes -> Seq(Tasks)]
  BY <1>1, <1>2, <1>3, <1>4 DEF TypeOK
<1>6. \A j, n \in 1..Len(q) : /\ pc[q[j]] = "waiting" /\ lane[q[j]] = l
                              /\ q[j] \in Tasks
                              /\ q[j] = q[n] => j = n
  BY <1>1, <1>2 DEF QueueOK
<1> HIDE DEF r, q, l
<1>7. ASSUME NEW j \in 1..Len(r)
      PROVE  /\ r[j] \in Tasks \ {t} /\ pc[r[j]] = "waiting" /\ lane[r[j]] = l
             /\ \A n \in 1..Len(r) : r[j] = r[n] => j = n
  <2>1. j \in 1..(Len(q) - 1) /\ Len(q) \in Nat
    BY <1>2, <1>4
  <2>2. \E a \in 1..Len(q) : r[j] = q[a] /\ a # i
    <3>1. CASE j < i
      BY <3>1, <2>1, <1>4, <1>2
    <3>2. CASE ~(j < i)
      <4>1. j + 1 \in 1..Len(q) /\ j + 1 # i /\ r[j] = q[j + 1]
        BY <3>2, <2>1, <1>4, <1>2
      <4> QED
        BY <4>1
    <3> QED
      BY <3>1, <3>2
  <2>3. r[j] \in Tasks \ {t} /\ pc[r[j]] = "waiting" /\ lane[r[j]] = l
    BY <2>2, <1>2, <1>6
  <2>4. ASSUME NEW n \in 1..Len(r), r[j] = r[n] PROVE j = n
    <3>1. n \in 1..(Len(q) - 1)
      BY <1>2, <1>4
    <3>2. /\ r[j] = IF j < i THEN q[j] ELSE q[j + 1]
          /\ r[n] = IF n < i THEN q[n] ELSE q[n + 1]
          /\ j \in 1..Len(q) /\ n \in 1..Len(q)
          /\ j + 1 \in 1..Len(q) /\ n + 1 \in 1..Len(q)
      BY <2>1, <3>1, <1>4
    <3> QED
      BY <3>2, <2>1, <3>1, <2>4, <1>2, <1>6
  <2> QED
    BY <2>3, <2>4
<1>8. ASSUME NEW m \in Lanes, NEW j \in 1..Len(queue'[m])
      PROVE  /\ queue'[m][j] \in Tasks \ {t}
             /\ pc[queue'[m][j]] = "waiting"
             /\ lane[queue'[m][j]] = m
             /\ \A n \in 1..Len(queue'[m]) :
                   queue'[m][j] = queue'[m][n] => j = n
  <2>1. CASE m = l
    BY <2>1, <1>5, <1>7
  <2>2. CASE m # l
    <3>1. queue'[m] = queue[m]
      BY <2>2, <1>5
    <3>2. queue[m][j] # t
      BY <3>1, <2>2, <1>1 DEF QueueOK, l
    <3> QED
      BY <3>1, <3>2, <1>1 DEF QueueOK, TypeOK
  <2> QED
    BY <2>1, <2>2
<1>9. ASSUME NEW u \in Tasks \ {t}, q # <<>>, q[1] = u
      PROVE  r # <<>> /\ r[1] = u
  <2>1. i # 1 /\ Len(q) \in Nat
    BY <1>2, <1>9
  <2>2. 1 \in 1..(Len(q) - 1) /\ 1 < i
    BY <2>1, <1>2
  <2> QED
    BY <2>2, <1>4, <1>9
<1> QED
  BY <1>2, <1>5, <1>8, <1>9 DEF l, q
-----------------------------------------------------------------------------
\* A marked waiter takes the lock.
LEMMA ResumeKeepsLanes ==
  ASSUME LaneInv, NEW t \in Tasks, Resume(t)
  PROVE  LaneInv'
<1> USE LanesAssumption
<1> DEFINE l == lane[t]
<1>1. /\ TypeOK /\ CallsOK /\ RegistryMatchesUse /\ LanesDistinct
      /\ QueueOK /\ Handover /\ OwnerOK
  BY DEF LaneInv
<1>2. PICK i \in DOMAIN queue[lane[t]] :
          /\ queue[lane[t]][i] = t
          /\ queue' = [queue EXCEPT ![lane[t]] = Without(@, i)]
  BY DEF Resume
<1>3. /\ pc[t] = "waiting" /\ fut[t] = "marked"
      /\ fut' = [fut EXCEPT ![t] = "none"]
      /\ locked' = [locked EXCEPT ![l] = TRUE]
      /\ owner' = [owner EXCEPT ![l] = t]
      /\ pc' = [pc EXCEPT ![t] = "inside"]
      /\ UNCHANGED <<registry, users, asked, lane>>
  BY DEF Resume, Enters
<1>4. /\ l \in Lanes
      /\ queue' \in [Lanes -> Seq(Tasks)]
      /\ \A m \in Lanes \ {l} : queue'[m] = queue[m]
      /\ \A m \in Lanes : \A j \in 1..Len(queue'[m]) :
            /\ queue'[m][j] \in Tasks \ {t}
            /\ pc[queue'[m][j]] = "waiting"
            /\ lane[queue'[m][j]] = m
            /\ \A n \in 1..Len(queue'[m]) :
                  queue'[m][j] = queue'[m][n] => j = n
  BY <1>2, <1>3, QueueWithout
<1>5. ~locked[l] /\ queue[l] # <<>> /\ queue[l][1] = t
  BY <1>1, <1>3 DEF Handover
<1> HIDE DEF l
<1>6. l = lane[t]
  BY DEF l
<1>7. TypeOK'
  BY <1>1, <1>3, <1>4 DEF TypeOK
<1>8. /\ \A u \in Tasks \ {t} : pc'[u] = pc[u] /\ fut'[u] = fut[u]
      /\ pc'[t] = "inside"
  BY <1>1, <1>3 DEF TypeOK
<1>9. CallsOK' /\ LanesDistinct'
  BY <1>1, <1>3, <1>8 DEF CallsOK, LanesDistinct
<1>10. RegistryMatchesUse'
  BY <1>1, <1>3 DEF RegistryMatchesUse, UsersOf
<1>11. QueueOK'
  BY <1>3, <1>4, <1>8 DEF QueueOK
<1>12. Handover'
  <2> SUFFICES ASSUME NEW u \in Tasks, pc'[u] = "waiting",
                      fut'[u] \in {"marked", "revoked"}
               PROVE  /\ ~locked'[lane'[u]]
                      /\ queue'[lane'[u]] # <<>>
                      /\ queue'[lane'[u]][1] = u
    BY DEF Handover
  <2>1. u # t /\ pc[u] = "waiting" /\ fut[u] \in {"marked", "revoked"}
    BY <1>8
  <2>2. /\ ~locked[lane[u]] /\ queue[lane[u]] # <<>> /\ queue[lane[u]][1] = u
        /\ lane[u] \in Lanes
    BY <2>1, <1>1 DEF Handover, TypeOK, CallsOK
  <2>3. lane[u] # l
    BY <2>1, <2>2, <1>5
  <2> QED
    BY <2>2, <2>3, <1>1, <1>3, <1>4 DEF TypeOK
<1>13. OwnerOK'
  BY <1>1, <1>3, <1>4, <1>5, <1>6, <1>8 DEF OwnerOK, TypeOK
<1> QED
  BY <1>7, <1>9, <1>10, <1>11, <1>12, <1>13 DEF LaneInv

\* A cancelled waiter goes and hands its mark on.
LEMMA UnwindKeepsLanes ==
  ASSUME LaneInv, NEW t \in Tasks, Unwind(t)
  PROVE  LaneInv'
<1> USE LanesAssumption
<1> DEFINE l == lane[t]
<1>1. TypeOK /\ CallsOK /\ QueueOK /\ Handover /\ OwnerOK
  BY DEF LaneInv
<1> DEFINE gone == [fut EXCEPT ![t] = "none"]
<1>2. PICK i \in DOMAIN queue[lane[t]] :
          /\ queue[lane[t]][i] = t
          /\ queue' = [queue EXCEPT ![lane[t]] = Without(queue[lane[t]], i)]
          /\ fut' = IF locked[lane[t]] THEN gone
                    ELSE Woken(Without(queue[lane[t]], i), gone)
          /\ UNCHANGED <<locked, owner>>
          /\ Dismiss(t, lane[t])
  BY DEF Unwind
<1>3. pc[t] = "waiting"
  BY DEF Unwind
<1>4. /\ l \in Lanes
      /\ queue' \in [Lanes -> Seq(Tasks)]
      /\ \A m \in Lanes \ {l} : queue'[m] = queue[m]
      /\ \A m \in Lanes : \A j \in 1..Len(queue'[m]) :
            /\ queue'[m][j] \in Tasks \ {t}
            /\ pc[queue'[m][j]] = "waiting"
            /\ lane[queue'[m][j]] = m
            /\ \A n \in 1..Len(queue'[m]) :
                  queue'[m][j] = queue'[m][n] => j = n
      /\ \A u \in Tasks \ {t} :
            queue[l] # <<>> /\ queue[l][1] = u =>
               queue'[l] # <<>> /\ queue'[l][1] = u
  BY <1>2, <1>3, QueueWithout
<1>5. queue'[l] = Without(queue[l], i)
  BY <1>1, <1>2, <1>4 DEF TypeOK
<1>6. fut' = IF locked[l] THEN gone ELSE Woken(queue'[l], gone)
  BY <1>2, <1>5
<1> HIDE DEF l
<1>7. l = lane[t] /\ locked' = locked /\ owner' = owner
  BY <1>2 DEF l
<1>8. locked'[l] => \E u \in Tasks \ {t} : lane[u] = l
  BY <1>1, <1>3, <1>4, <1>7 DEF OwnerOK
<1>9. /\ registry' \in [Symbols -> Lanes \cup {None}]
      /\ users' \in [Lanes -> Nat]
      /\ pc' \in [Tasks -> {"idle", "waiting", "inside"}]
      /\ asked' \in [Tasks -> Symbols \cup {None}]
      /\ lane' \in [Tasks -> Lanes \cup {None}]
      /\ CallsOK' /\ RegistryMatchesUse' /\ LanesDistinct'
      /\ \A u \in Tasks \ {t} : pc'[u] = pc[u] /\ lane'[u] = lane[u]
      /\ pc'[t] = "idle" /\ lane'[t] = None
  BY <1>2, <1>3, <1>7, <1>8, DismissKeepsRegistry
<1>10. /\ gone \in [Tasks -> {"none", "pending", "marked", "cancelled", "revoked"}]
       /\ \A u \in Tasks \ {t} : gone[u] = fut[u]
  BY <1>1 DEF TypeOK
<1> HIDE DEF gone
<1>11. queue'[l] # <<>> => /\ Head(queue'[l]) = queue'[l][1]
                           /\ 1 \in 1..Len(queue'[l])
  BY <1>4
<1>12. /\ fut' \in [Tasks -> {"none", "pending", "marked", "cancelled", "revoked"}]
       /\ \A u \in Tasks \ {t} : \/ fut'[u] = fut[u]
                                 \/ /\ ~locked[l] /\ queue'[l] # <<>>
                                    /\ queue'[l][1] = u
  BY <1>4, <1>6, <1>10, <1>11 DEF Woken
<1>13. TypeOK'
  BY <1>1, <1>4, <1>7, <1>9, <1>12 DEF TypeOK
<1>14. QueueOK'
  BY <1>4, <1>9 DEF QueueOK
<1>15. Handover'
  <2> SUFFICES ASSUME NEW u \in Tasks, pc'[u] = "waiting",
                      fut'[u] \in {"marked", "revoked"}
               PROVE  /\ ~locked'[lane'[u]]
                      /\ queue'[lane'[u]] # <<>>
                      /\ queue'[lane'[u]][1] = u
    BY DEF Handover
  <2>1. /\ u \in Tasks \ {t} /\ pc[u] = "waiting" /\ lane'[u] = lane[u]
        /\ lane[u] \in Lanes
    BY <1>1, <1>9 DEF TypeOK, CallsOK
  <2>2. CASE fut'[u] = fut[u]
    <3>1. ~locked[lane[u]] /\ queue[lane[u]] # <<>> /\ queue[lane[u]][1] = u
      BY <2>1, <2>2, <1>1 DEF Handover
    <3> QED
      BY <3>1, <2>1, <1>4, <1>7
  <2>3. CASE ~locked[l] /\ queue'[l] # <<>> /\ queue'[l][1] = u
    <3>1. lane[u] = l
      BY <2>3, <1>4, <1>11
    <3> QED
      BY <3>1, <2>1, <2>3, <1>7
  <2> QED
    BY <2>1, <2>2, <2>3, <1>12
<1>16. OwnerOK'
  BY <1>1, <1>3, <1>7, <1>9 DEF OwnerOK
<1> QED
  BY <1>9, <1>13, <1>14, <1>15, <1>16 DEF LaneInv

\* A waiter is cancelled.
LEMMA CancelKeepsLanes ==
  ASSUME LaneInv, NEW t \in Tasks, Cancel(t)
  PROVE  LaneInv'
<1>1. /\ TypeOK /\ CallsOK /\ RegistryMatchesUse /\ LanesDistinct
      /\ QueueOK /\ Handover /\ OwnerOK
  BY DEF LaneInv
<1>2. /\ UNCHANGED <<registry, users, owner, locked, queue, pc, asked, lane>>
      /\ \E f \in {"cancelled", "revoked"} : fut' = [fut EXCEPT ![t] = f]
      /\ fut' = [fut EXCEPT ![t] = "revoked"] => fut[t] = "marked" \/ fut[t] = "pending"
  BY <1>1 DEF Cancel, lanes, TypeOK
<1>3. TypeOK'
  BY <1>1, <1>2 DEF TypeOK
<1>4. CallsOK' /\ LanesDistinct' /\ QueueOK' /\ OwnerOK'
  BY <1>1, <1>2 DEF CallsOK, LanesDistinct, QueueOK, OwnerOK
<1>5. RegistryMatchesUse'
  BY <1>1, <1>2 DEF RegistryMatchesUse, UsersOf
<1>6. Handover'
  BY <1>1 DEF Handover, Cancel, lanes, TypeOK
<1> QED
  BY <1>3, <1>4, <1>5, <1>6 DEF LaneInv

LEMMA NextLanes == LaneInv /\ [Next]_vars => LaneInv'
<1> SUFFICES ASSUME LaneInv, [Next]_vars PROVE LaneInv'
  OBVIOUS
<1>1. ASSUME NEW t \in Tasks, NEW s \in Symbols, Call(t, s) PROVE LaneInv'
  BY <1>1, CallKeepsLanes
<1>2. ASSUME NEW t \in Tasks, Resume(t) PROVE LaneInv'
  BY <1>2, ResumeKeepsLanes
<1>3. ASSUME NEW t \in Tasks, Cancel(t) PROVE LaneInv'
  BY <1>3, CancelKeepsLanes
<1>4. ASSUME NEW t \in Tasks, Unwind(t) PROVE LaneInv'
  BY <1>4, UnwindKeepsLanes
<1>5. ASSUME NEW t \in Tasks, Leave(t) \/ Reenter(t) PROVE LaneInv'
  BY <1>5, ReleaseKeepsLanes DEF Leave, Reenter
<1>6. CASE UNCHANGED vars
  BY <1>6 DEF LaneInv, TypeOK, CallsOK, RegistryMatchesUse, UsersOf,
              LanesDistinct, QueueOK, Handover, OwnerOK, vars, lanes
<1> QED
  BY <1>1, <1>2, <1>3, <1>4, <1>5, <1>6 DEF Next

LEMMA LanesInvariant == Spec => []LaneInv
<1> QED
  BY InitLanes, NextLanes, PTL DEF Spec

\* Every variable keeps its type.
THEOREM LanesTyped == Spec => []TypeOK
  BY LanesInvariant, PTL DEF LaneInv

\* A lane is registered exactly while it is used, for every number of tasks:
\* nothing leaks, and no waiter is left on a lane that was dropped.
THEOREM RegistryIsExact == Spec => []RegistryMatchesUse
  BY LanesInvariant, PTL DEF LaneInv
-----------------------------------------------------------------------------
(***************************************************************************)
(* The refinement: Asking and Holder change as SymbolMutex says.           *)
(***************************************************************************)
\* At most one task is inside a canonical symbol.
LEMMA InsideIsUnique ==
  ASSUME LaneInv, NEW k \in Symbols, NEW t \in At("inside", k), NEW u \in At("inside", k)
  PROVE  t = u
<1>1. CallsOK /\ RegistryMatchesUse /\ OwnerOK
  BY DEF LaneInv
<1>2. /\ t \in Tasks /\ pc[t] = "inside" /\ Canonical[asked[t]] = k
      /\ u \in Tasks /\ pc[u] = "inside" /\ Canonical[asked[u]] = k
  BY DEF At
<1>3. lane[t] = registry[k] /\ lane[u] = registry[k]
  BY <1>1, <1>2 DEF CallsOK, RegistryMatchesUse
<1> QED
  BY <1>1, <1>2, <1>3 DEF OwnerOK

\* The holder of a symbol is the task inside it, if there is one.
LEMMA HolderIsInside ==
  ASSUME LaneInv, NEW k \in Symbols
  PROVE  /\ Holder[k] \in Tasks \cup {None}
         /\ \A t \in Tasks : t \in At("inside", k) <=> Holder[k] = t
<1>1. Holder[k] = IF At("inside", k) = {} THEN None
                  ELSE CHOOSE t \in At("inside", k) : TRUE
  BY DEF Holder
<1>2. \A t \in At("inside", k) : t \in Tasks
  BY DEF At
<1>3. CASE At("inside", k) = {}
  BY <1>1, <1>3, LanesAssumption
<1>4. CASE At("inside", k) # {}
  <2>1. Holder[k] \in At("inside", k)
    BY <1>1, <1>4
  <2> QED
    BY <2>1, <1>2, InsideIsUnique
<1> QED
  BY <1>3, <1>4

HolderInv ==
    \A k \in Symbols : /\ Holder[k] \in Tasks \cup {None}
                       /\ \A t \in Tasks : t \in At("inside", k) <=> Holder[k] = t

LEMMA HolderFollows == LaneInv => HolderInv
  BY HolderIsInside DEF HolderInv

\* When one task moves, only what it holds and asks for changes.
LEMMA OneTaskMoves ==
  ASSUME LaneInv, LaneInv', NEW t \in Tasks,
         \A u \in Tasks \ {t} : pc'[u] = pc[u] /\ asked'[u] = asked[u]
  PROVE  /\ Asking \in [Symbols -> SUBSET Tasks]
         /\ Asking' \in [Symbols -> SUBSET Tasks]
         /\ Holder \in [Symbols -> Tasks \cup {None}]
         /\ Holder' \in [Symbols -> Tasks \cup {None}]
         /\ \A k \in Symbols : \A u \in Tasks \ {t} :
               /\ u \in Asking'[k] <=> u \in Asking[k]
               /\ Holder'[k] = u <=> Holder[k] = u
         /\ \A k \in Symbols :
               /\ t \in Asking[k] <=> pc[t] = "waiting" /\ Canonical[asked[t]] = k
               /\ t \in Asking'[k] <=> pc'[t] = "waiting" /\ Canonical[asked'[t]] = k
               /\ Holder[k] = t <=> pc[t] = "inside" /\ Canonical[asked[t]] = k
               /\ Holder'[k] = t <=> pc'[t] = "inside" /\ Canonical[asked'[t]] = k
<1>1. HolderInv
  BY HolderFollows
<1>2. HolderInv'
  BY HolderFollows, PTL
<1>3. /\ Holder = [k \in Symbols |-> Holder[k]]
      /\ Holder' = [k \in Symbols |-> Holder'[k]]
  BY DEF Holder
<1>4. /\ Holder \in [Symbols -> Tasks \cup {None}]
      /\ Holder' \in [Symbols -> Tasks \cup {None}]
  BY <1>1, <1>2, <1>3 DEF HolderInv
<1>5. /\ Asking \in [Symbols -> SUBSET Tasks]
      /\ Asking' \in [Symbols -> SUBSET Tasks]
  BY DEF Asking, At
<1>6. \A k \in Symbols : \A u \in Tasks :
         /\ u \in Asking[k] <=> pc[u] = "waiting" /\ Canonical[asked[u]] = k
         /\ u \in Asking'[k] <=> pc'[u] = "waiting" /\ Canonical[asked'[u]] = k
         /\ u \in At("inside", k) <=> pc[u] = "inside" /\ Canonical[asked[u]] = k
         /\ u \in At("inside", k)' <=> pc'[u] = "inside" /\ Canonical[asked'[u]] = k
  BY DEF Asking, At
<1> QED
  BY <1>1, <1>2, <1>4, <1>5, <1>6 DEF HolderInv

\* A step of a task that moves within the calls of one symbol is a step of the
\* mutex, or none.
LEMMA MoveRefines ==
  ASSUME LaneInv, LaneInv', NEW t \in Tasks, NEW s \in Symbols,
         \A u \in Tasks \ {t} : pc'[u] = pc[u] /\ asked'[u] = asked[u],
         pc[t] # "idle" => asked[t] = s,
         pc'[t] # "idle" => asked'[t] = s,
         \/ pc[t] = "idle" /\ pc'[t] \in {"waiting", "inside"}
         \/ pc[t] = "waiting" /\ pc'[t] \in {"idle", "inside"}
         \/ pc[t] = "inside" /\ pc'[t] = "idle"
  PROVE  Mutex!Next
<1> DEFINE k == Canonical[s]
<1>1. k \in Symbols
  BY LanesAssumption
<1>2. /\ Asking \in [Symbols -> SUBSET Tasks]
      /\ Asking' \in [Symbols -> SUBSET Tasks]
      /\ Holder \in [Symbols -> Tasks \cup {None}]
      /\ Holder' \in [Symbols -> Tasks \cup {None}]
      /\ \A j \in Symbols : \A u \in Tasks \ {t} :
            /\ u \in Asking'[j] <=> u \in Asking[j]
            /\ Holder'[j] = u <=> Holder[j] = u
      /\ \A j \in Symbols :
            /\ t \in Asking[j] <=> pc[t] = "waiting" /\ Canonical[asked[t]] = j
            /\ t \in Asking'[j] <=> pc'[t] = "waiting" /\ Canonical[asked'[t]] = j
            /\ Holder[j] = t <=> pc[t] = "inside" /\ Canonical[asked[t]] = j
            /\ Holder'[j] = t <=> pc'[t] = "inside" /\ Canonical[asked'[t]] = j
  BY OneTaskMoves
<1>3. \A j \in Symbols :
         /\ t \in Asking[j] <=> pc[t] = "waiting" /\ k = j
         /\ t \in Asking'[j] <=> pc'[t] = "waiting" /\ k = j
         /\ Holder[j] = t <=> pc[t] = "inside" /\ k = j
         /\ Holder'[j] = t <=> pc'[t] = "inside" /\ k = j
  BY <1>2
<1> HIDE DEF k
<1>4. pc[t] # "waiting" /\ pc'[t] # "waiting" => Asking' = Asking
  <2> SUFFICES ASSUME pc[t] # "waiting", pc'[t] # "waiting" PROVE Asking' = Asking
    OBVIOUS
  <2>1. \A j \in Symbols : Asking'[j] = Asking[j]
    <3> TAKE j \in Symbols
    <3>1. \A u \in Tasks : u \in Asking'[j] <=> u \in Asking[j]
      BY <1>2, <1>3
    <3>2. Asking'[j] \subseteq Tasks /\ Asking[j] \subseteq Tasks
      BY <1>2
    <3> QED
      BY <3>1, <3>2
  <2> QED
    BY <2>1, <1>2
<1>5. pc[t] # "inside" /\ pc'[t] # "inside" => Holder' = Holder
  BY <1>2, <1>3
<1>6. pc[t] # "waiting" /\ pc'[t] = "waiting" =>
         Asking' = [Asking EXCEPT ![k] = @ \cup {t}]
  <2> SUFFICES ASSUME pc[t] # "waiting", pc'[t] = "waiting" PROVE Asking' = [Asking EXCEPT ![k] = @ \cup {t}]
    OBVIOUS
  <2>1. \A j \in Symbols : Asking'[j] = IF j = k THEN Asking[j] \cup {t} ELSE Asking[j]
    <3> TAKE j \in Symbols
    <3>1. \A u \in Tasks :
             u \in Asking'[j] <=> u \in (IF j = k THEN Asking[j] \cup {t} ELSE Asking[j])
      BY <1>2, <1>3
    <3>2. Asking'[j] \subseteq Tasks /\ Asking[j] \subseteq Tasks
      BY <1>2
    <3> QED
      BY <3>1, <3>2
  <2> QED
    BY <2>1, <1>1, <1>2
<1>7. pc'[t] # "waiting" => Asking' = [Asking EXCEPT ![k] = @ \ {t}]
  <2> SUFFICES ASSUME pc'[t] # "waiting" PROVE Asking' = [Asking EXCEPT ![k] = @ \ {t}]
    OBVIOUS
  <2>1. \A j \in Symbols : Asking'[j] = IF j = k THEN Asking[j] \ {t} ELSE Asking[j]
    <3> TAKE j \in Symbols
    <3>1. \A u \in Tasks :
             u \in Asking'[j] <=> u \in (IF j = k THEN Asking[j] \ {t} ELSE Asking[j])
      BY <1>2, <1>3
    <3>2. Asking'[j] \subseteq Tasks /\ Asking[j] \subseteq Tasks
      BY <1>2
    <3> QED
      BY <3>1, <3>2
  <2> QED
    BY <2>1, <1>1, <1>2
<1>8. pc[t] # "inside" /\ pc'[t] = "inside" =>
         Holder[k] = None /\ Holder' = [Holder EXCEPT ![k] = t]
  <2> SUFFICES ASSUME pc[t] # "inside", pc'[t] = "inside"
               PROVE  Holder[k] = None /\ Holder' = [Holder EXCEPT ![k] = t]
    OBVIOUS
  <2>1. Holder'[k] = t
    BY <1>1, <1>3
  <2>2. Holder[k] = None
    BY <2>1, <1>1, <1>2, <1>3, LanesAssumption
  <2>3. \A j \in Symbols \ {k} : Holder'[j] = Holder[j]
    BY <1>2, <1>3
  <2> QED
    BY <2>1, <2>2, <2>3, <1>1, <1>2
<1>9. pc[t] = "inside" /\ pc'[t] # "inside" =>
         Holder[k] = t /\ Holder' = [Holder EXCEPT ![k] = None]
  <2> SUFFICES ASSUME pc[t] = "inside", pc'[t] # "inside"
               PROVE  Holder[k] = t /\ Holder' = [Holder EXCEPT ![k] = None]
    OBVIOUS
  <2>1. Holder[k] = t
    BY <1>1, <1>3
  <2>2. Holder'[k] = None
    BY <2>1, <1>1, <1>2, <1>3, LanesAssumption
  <2>3. \A j \in Symbols \ {k} : Holder'[j] = Holder[j]
    BY <1>2, <1>3
  <2> QED
    BY <2>1, <2>2, <2>3, <1>1, <1>2
<1>10. CASE pc[t] = "idle" /\ pc'[t] = "waiting"
  <2>1. Mutex!Ask(t, k)
    BY <1>3, <1>5, <1>6, <1>10 DEF Mutex!Ask
  <2> QED
    BY <2>1, <1>1 DEF Mutex!Next
<1>11. CASE pc[t] \in {"idle", "waiting"} /\ pc'[t] = "inside"
  <2>1. Mutex!Enter(t, k)
    BY <1>3, <1>7, <1>8, <1>11 DEF Mutex!Enter
  <2> QED
    BY <2>1, <1>1 DEF Mutex!Next
<1>12. CASE pc[t] = "waiting" /\ pc'[t] = "idle"
  <2>1. Mutex!Withdraw(t, k)
    BY <1>1, <1>3, <1>5, <1>7, <1>12 DEF Mutex!Withdraw
  <2> QED
    BY <2>1, <1>1 DEF Mutex!Next
<1>13. CASE pc[t] = "inside" /\ pc'[t] = "idle"
  <2>1. Mutex!Leave(t, k)
    BY <1>4, <1>9, <1>13 DEF Mutex!Leave
  <2> QED
    BY <2>1, <1>1 DEF Mutex!Next
<1> QED
  BY <1>10, <1>11, <1>12, <1>13

\* The lanes implement mutual exclusion per canonical symbol, for any number
\* of tasks and symbols, however waiters are cancelled and locks handed over.
THEOREM LanesExclude == Spec => ImplementsMutex
<1> USE LanesAssumption
<1>1. Init => Mutex!Init
  <2> SUFFICES ASSUME Init PROVE Mutex!Init
    OBVIOUS
  <2>1. \A k \in Symbols : At("waiting", k) = {} /\ At("inside", k) = {}
    BY DEF Init, At
  <2> QED
    BY <2>1 DEF Mutex!Init, Asking, Holder
<1>2. LaneInv /\ LaneInv' /\ [Next]_vars => [Mutex!Next]_(Mutex!vars)
  <2> SUFFICES ASSUME LaneInv, LaneInv', [Next]_vars
               PROVE  [Mutex!Next]_(Mutex!vars)
    OBVIOUS
  <2>0. TypeOK /\ CallsOK
    BY DEF LaneInv
  <2>1. ASSUME NEW t \in Tasks, NEW s \in Symbols, Call(t, s)
        PROVE  Mutex!Next
    <3>1. /\ pc[t] = "idle"
          /\ asked' = [asked EXCEPT ![t] = s]
          /\ pc' = [pc EXCEPT ![t] = "inside"] \/ pc' = [pc EXCEPT ![t] = "waiting"]
      BY <2>1 DEF Call, Enters, Queues
    <3> QED
      BY <3>1, <2>0, MoveRefines DEF TypeOK
  <2>2. ASSUME NEW t \in Tasks, Resume(t) PROVE Mutex!Next
    <3>1. /\ pc[t] = "waiting" /\ asked' = asked /\ asked[t] \in Symbols
          /\ pc' = [pc EXCEPT ![t] = "inside"]
      BY <2>0, <2>2 DEF Resume, Enters, CallsOK, TypeOK
    <3> QED
      BY <3>1, <2>0, MoveRefines DEF TypeOK
  <2>3. ASSUME NEW t \in Tasks, Unwind(t) \/ Leave(t) \/ Reenter(t)
        PROVE  Mutex!Next
    <3>1. /\ pc[t] \in {"waiting", "inside"}
          /\ asked' = [asked EXCEPT ![t] = None] /\ asked[t] \in Symbols
          /\ pc' = [pc EXCEPT ![t] = "idle"]
      BY <2>0, <2>3 DEF Unwind, Leave, Reenter, Release, Dismiss, CallsOK, TypeOK
    <3> QED
      BY <3>1, <2>0, MoveRefines DEF TypeOK
  <2>4. ASSUME UNCHANGED <<pc, asked>> PROVE UNCHANGED Mutex!vars
    BY <2>4 DEF Mutex!vars, Asking, Holder, At
  <2> QED
    BY <2>1, <2>2, <2>3, <2>4 DEF Next, Cancel, vars
<1> QED
  BY <1>1, <1>2, LanesInvariant, PTL DEF Spec, ImplementsMutex, Mutex!Spec
=============================================================================
