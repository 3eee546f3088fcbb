---------------------------- MODULE SymbolLanes ----------------------------
(***************************************************************************)
(* app/runtime/symbol_mutation.py: SymbolMutationCoordinator, the lanes    *)
(* under which the full scan and the fast monitor read, change and save    *)
(* the event state of one symbol.  A lane is created when the first task   *)
(* asks for a symbol and dropped when the last one is done, so a task that *)
(* still waits on a dropped lane would run beside the owner of a new one.  *)
(*                                                                         *)
(* The lock of a lane is an asyncio.Lock (external): its waiters are       *)
(* futures in a queue; releasing it only marks the first of them, which    *)
(* takes the lock when its task runs again, and until then the task may be *)
(* cancelled.  A step is what a task does between two awaits.              *)
(***************************************************************************)
EXTENDS Naturals, Sequences, FiniteSets

CONSTANTS Tasks,     \* coroutines that call mutation()
          Symbols,   \* spellings of symbols, the canonical ones among them
          Canonical, \* the canonical (upper case) spelling of each
          Lanes,     \* identities of _Lane objects
          None

ASSUME LanesAssumption ==
    /\ IsFiniteSet(Tasks)
    /\ Canonical \in [Symbols -> Symbols]
    /\ None \notin Tasks \cup Lanes \cup Symbols

VARIABLES
    registry, \* _lanes: the lane of each key, None where there is none
    users,    \* users of a lane
    owner,    \* owner of a lane
    locked,   \* is the lane's lock taken?
    queue,    \* the lock's waiters, first come first
    pc,       \* "idle", "waiting" for a lane, "inside" the transition
    asked,    \* the symbol a task asked for, None when idle
    lane,     \* the lane object a task's call refers to
    fut       \* the future a waiting task sleeps on; "revoked": it was marked
              \* and then the task was cancelled

lanes == <<registry, users, owner, locked, queue>>
vars  == <<lanes, pc, asked, lane, fut>>

Init ==
    /\ registry = [k \in Symbols |-> None]
    /\ users    = [l \in Lanes |-> 0]
    /\ owner    = [l \in Lanes |-> None]
    /\ locked   = [l \in Lanes |-> FALSE]
    /\ queue    = [l \in Lanes |-> <<>>]
    /\ pc       = [t \in Tasks |-> "idle"]
    /\ asked    = [t \in Tasks |-> None]
    /\ lane     = [t \in Tasks |-> None]
    /\ fut      = [t \in Tasks |-> "none"]

-----------------------------------------------------------------------------
\* Mutant: the spelling itself is the key.
KeyAsGiven(s) == s

\* _key: spellings of one symbol share a lane.
Key(s) == Canonical[s]

\* Lane objects nobody refers to any more.
Fresh == {l \in Lanes : /\ \A k \in Symbols : registry[k] # l
                        /\ \A t \in Tasks : lane[t] # l}

\* acquire() succeeds at once: the lock is free and no live waiter is queued.
Free(l) == /\ ~locked[l]
           /\ \A i \in DOMAIN queue[l] : fut[queue[l][i]] = "cancelled"

Without(q, i) == [j \in 1..(Len(q) - 1) |-> IF j < i THEN q[j] ELSE q[j + 1]]

\* _wake_up_first: the future at the head is marked unless it is done already.
Woken(q, f) == IF q # <<>> /\ f[Head(q)] = "pending"
               THEN [f EXCEPT ![Head(q)] = "marked"] ELSE f

\* Mutant: whoever is done drops the lane, though others still wait on it.
DismissAny(t, l) ==
    /\ users' = [users EXCEPT ![l] = @ - 1]
    /\ registry' = IF ~locked'[l] THEN [registry EXCEPT ![Key(asked[t])] = None]
                   ELSE registry
    /\ pc' = [pc EXCEPT ![t] = "idle"]
    /\ lane' = [lane EXCEPT ![t] = None]
    /\ asked' = [asked EXCEPT ![t] = None]

\* Task t is done with lane l: the last user drops it.
Dismiss(t, l) ==
    /\ users' = [users EXCEPT ![l] = @ - 1]
    /\ registry' = IF users[l] = 1 /\ ~locked'[l]
                   THEN [registry EXCEPT ![Key(asked[t])] = None] ELSE registry
    /\ pc' = [pc EXCEPT ![t] = "idle"]
    /\ lane' = [lane EXCEPT ![t] = None]
    /\ asked' = [asked EXCEPT ![t] = None]

-----------------------------------------------------------------------------
\* Task t has the lock of lane l.
Enters(t, l) ==
    /\ locked' = [locked EXCEPT ![l] = TRUE]
    /\ owner' = [owner EXCEPT ![l] = t]
    /\ pc' = [pc EXCEPT ![t] = "inside"]

\* Task t is queued for the lock of lane l.
Queues(t, l) ==
    /\ queue' = [queue EXCEPT ![l] = Append(@, t)]
    /\ fut' = [fut EXCEPT ![t] = "pending"]
    /\ pc' = [pc EXCEPT ![t] = "waiting"]

\* Mutant: a task that has to wait is not counted.
CallUncounted(t, s) ==
    /\ pc[t] = "idle"
    /\ LET k == Key(s) IN
       \E l \in IF registry[k] = None THEN Fresh ELSE {registry[k]} :
          /\ registry' = [registry EXCEPT ![k] = l]
          /\ asked' = [asked EXCEPT ![t] = s]
          /\ lane' = [lane EXCEPT ![t] = l]
          /\ \/ /\ Free(l) /\ Enters(t, l) /\ UNCHANGED <<queue, fut>>
                /\ users' = [users EXCEPT ![l] = @ + 1]
             \/ ~Free(l) /\ Queues(t, l) /\ UNCHANGED <<locked, owner, users>>

\* mutation(s) up to the acquisition of the lane, or to the wait for it.  The
\* lane of a key without one is a new object: nobody else has used it.
Call(t, s) ==
    /\ pc[t] = "idle"
    /\ LET k == Key(s) IN
       \E l \in IF registry[k] = None THEN Fresh ELSE {registry[k]} :
          /\ registry' = [registry EXCEPT ![k] = l]
          /\ asked' = [asked EXCEPT ![t] = s]
          /\ lane' = [lane EXCEPT ![t] = l]
          /\ users' = [users EXCEPT ![l] = @ + 1]
          /\ \/ Free(l) /\ Enters(t, l) /\ UNCHANGED <<queue, fut>>
             \/ ~Free(l) /\ Queues(t, l) /\ UNCHANGED <<locked, owner>>

\* Mutant: nobody checks who owns the lane, so its owner queues behind itself.
ReenterWaits(t) ==
    /\ pc[t] = "inside"
    /\ users' = [users EXCEPT ![lane[t]] = @ + 1]
    /\ Queues(t, lane[t])
    /\ UNCHANGED <<registry, owner, locked, asked, lane>>

\* Release of the lock: the first waiter is marked.
Release(t, l) ==
    /\ owner' = [owner EXCEPT ![l] = None]
    /\ locked' = [locked EXCEPT ![l] = FALSE]
    /\ fut' = Woken(queue[l], fut)
    /\ Dismiss(t, l)
    /\ UNCHANGED queue

\* The transition ends: normally, with an exception or by cancellation.
Leave(t) ==
    /\ pc[t] = "inside"
    /\ Release(t, lane[t])

\* The owner asks for its own symbol again, in whatever spelling: RuntimeError
\* leaves the transition.
Reenter(t) ==
    /\ pc[t] = "inside"
    /\ owner[lane[t]] = t
    /\ Release(t, lane[t])

\* A marked waiter runs again and takes the lock, whatever its state.
Resume(t) ==
    /\ pc[t] = "waiting"
    /\ fut[t] = "marked"
    /\ \E i \in DOMAIN queue[lane[t]] :
          /\ queue[lane[t]][i] = t
          /\ queue' = [queue EXCEPT ![lane[t]] = Without(@, i)]
    /\ fut' = [fut EXCEPT ![t] = "none"]
    /\ Enters(t, lane[t])
    /\ UNCHANGED <<registry, users, asked, lane>>

\* A waiting task is cancelled: its future is, unless it was marked before, in
\* which case the task finds out when it runs again.
Cancel(t) ==
    /\ pc[t] = "waiting"
    /\ \/ fut[t] = "pending" /\ fut' = [fut EXCEPT ![t] = "cancelled"]
       \/ fut[t] = "marked" /\ fut' = [fut EXCEPT ![t] = "revoked"]
    /\ UNCHANGED <<lanes, pc, asked, lane>>

\* A cancelled waiter runs again: it leaves the queue, hands the mark on if the
\* lock is free, and is done with the lane.
Unwind(t) ==
    /\ pc[t] = "waiting"
    /\ fut[t] \in {"cancelled", "revoked"}
    /\ \E i \in DOMAIN queue[lane[t]] :
          LET l    == lane[t]
              rest == Without(queue[l], i)
              gone == [fut EXCEPT ![t] = "none"]
          IN /\ queue[l][i] = t
             /\ queue' = [queue EXCEPT ![l] = rest]
             /\ fut' = IF locked[l] THEN gone ELSE Woken(rest, gone)
             /\ UNCHANGED <<locked, owner>>
             /\ Dismiss(t, l)

Next == \E t \in Tasks :
           \/ \E s \in Symbols : Call(t, s)
           \/ Resume(t) \/ Cancel(t) \/ Unwind(t)
           \/ Leave(t) \/ Reenter(t)

Spec == Init /\ [][Next]_vars

\* The event loop runs every task that is ready, and a transition ends: its
\* awaits are HTTP requests with timeouts and Telegram sends.
Fairness == \A t \in Tasks : WF_vars(Resume(t) \/ Unwind(t) \/ Leave(t))

FairSpec == Spec /\ Fairness
-----------------------------------------------------------------------------
\* Every variable has its type.
TypeOK ==
    /\ registry \in [Symbols -> Lanes \cup {None}]
    /\ users \in [Lanes -> Nat]
    /\ owner \in [Lanes -> Tasks \cup {None}]
    /\ locked \in [Lanes -> BOOLEAN]
    /\ queue \in [Lanes -> Seq(Tasks)]
    /\ pc \in [Tasks -> {"idle", "waiting", "inside"}]
    /\ asked \in [Tasks -> Symbols \cup {None}]
    /\ lane \in [Tasks -> Lanes \cup {None}]
    /\ fut \in [Tasks -> {"none", "pending", "marked", "cancelled", "revoked"}]

\* Tasks that hold or wait for lane l.
UsersOf(l) == {t \in Tasks : lane[t] = l}

\* The registry has a lane for exactly the symbols in use, so it neither leaks
\* lanes nor drops one that a task still waits on; every task that uses a
\* symbol uses the registered lane, and its users are counted exactly.
RegistryMatchesUse ==
    /\ \A k \in Symbols :
          registry[k] # None => \E t \in Tasks : lane[t] = registry[k]
    /\ \A t \in Tasks : asked[t] # None => /\ lane[t] # None
                                           /\ registry[Canonical[asked[t]]] = lane[t]
    /\ \A l \in Lanes : users[l] = Cardinality(UsersOf(l))

\* A task that waits for a symbol gets its turn or is cancelled, whoever else
\* is cancelled meanwhile; no task waits for itself.
EventuallyAdmitted ==
    \A t \in Tasks : pc[t] = "waiting" ~> pc[t] # "waiting"

\* Tasks in state p of a call for the canonical symbol k.
At(p, k) == {t \in Tasks : pc[t] = p /\ Canonical[asked[t]] = k}

\* The lanes as the scan and the fast monitor see them.
Asking == [k \in Symbols |-> At("waiting", k)]
Holder == [k \in Symbols |-> IF At("inside", k) = {} THEN None
                             ELSE CHOOSE t \in At("inside", k) : TRUE]

Mutex == INSTANCE SymbolMutex
         WITH Keys <- Symbols, Nobody <- None,
              asking <- Asking, holder <- Holder

\* Lanes that come and go, locks that are handed over late and cancelled
\* waiters implement mutual exclusion for each canonical symbol.
ImplementsMutex == Mutex!Spec
=============================================================================
