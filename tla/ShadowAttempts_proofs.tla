----------------------- MODULE ShadowAttempts_proofs -----------------------
(***************************************************************************)
(* Proofs about ShadowAttempts, for any roots, any limit, any lengths of   *)
(* the windows and any bounds.                                             *)
(*                                                                         *)
(* Every step changes an attempt and its log in one of four ways, which    *)
(* Changed lists: not at all but for a mark in the log, by creating it, by *)
(* moving it while it is open, and by closing it.  What holds of an        *)
(* attempt and its log is proved once, about Changed; what remains is that *)
(* each action is such a change, and what an evaluation carries from one   *)
(* of its transactions to the next.                                        *)
(***************************************************************************)
EXTENDS ShadowAttempts, FiniteSetTheorems, TLAPS

\* The state the last move of a log leads to.
LastMove(l, s) == \E i \in Moves(l) : l[i].to = s /\ \A j \in Moves(l) : j <= i

\* A log that nothing has closed: only fresh states, which are never dropped.
OpenLog(l) ==
    \A i \in DOMAIN l : l[i].type # "closed" /\ (l[i].type = "state" => l[i].key = "fresh")

\* A closed attempt was closed once, unless it was created so.
ClosedLog(l) ==
    IF l[1].to \in Terminal THEN Closes(l) = {} ELSE \E i \in DOMAIN l : Closes(l) = {i}

\* A row and its log agree.
Tells(row, l) ==
    /\ row \in Attempts /\ l \in Seq(Entries) /\ l # <<>>
    /\ LastMove(l, row.state)
    /\ l[1].to \in Terminal => row.closed
    /\ IF row.closed THEN row.state \in Terminal /\ ClosedLog(l) ELSE OpenLog(l)

Agree(row, l) == IF row = None THEN l = <<>> ELSE Tells(row, l)

LogsOK == \A a \in Ids : Agree(attempts[a], log[a])

\* The limit of a root is never passed, and stays reached.
CountsOK ==
    /\ \A a \in Ids : /\ IsFiniteSet(Counted(a))
                      /\ Cardinality(Counted(a)) <= LimitOf(a)
    /\ \A a \in refused : ~Exists(a) /\ AtLimit(a)

\* The root is there, at this revision or a later one, or its write failed.
Known(r, rev) == r \in broken \/ (roots[r] # None /\ rev <= roots[r].revision)

RootsOK ==
    /\ \A a \in Ids : Exists(a) /\ a.kind # "trap" => Known(a.root, a.rev)
    /\ event # None => event.rev \in 1..MaxHigh /\ Known(event.root, event.rev)

\* What an evaluation that is between two transactions relies on.
PendingOK ==
    /\ pc = "tracking" => event \in Events
    /\ pc \in {"admitting", "settling"} =>
        /\ pending \in Plans
        /\ pending.then = "ACTIONABLE" => pending.id.kind = "trap"
        /\ pending.then = "expire" => pending.id.kind # "trap"
    /\ pc = "admitting" /\ pending.id.kind # "trap" => Known(pending.id.root, pending.id.rev)
    /\ pc = "settling" /\ pending.then = "expire" => Exists(pending.id)

AttemptsInv == TypeOK /\ LogsOK /\ CountsOK /\ RootsOK /\ PendingOK

-----------------------------------------------------------------------------
(***************************************************************************)
(* Logs.                                                                   *)
(***************************************************************************)
\* What Append does, entry by entry.
LEMMA Appended ==
  ASSUME NEW l \in Seq(Entries), NEW e \in Entries
  PROVE  /\ Append(l, e) \in Seq(Entries) /\ Append(l, e) # <<>>
         /\ Len(l) \in Nat
         /\ DOMAIN l = 1..Len(l) /\ DOMAIN Append(l, e) = 1..(Len(l) + 1)
         /\ \A i \in 1..Len(l) : Append(l, e)[i] = l[i]
         /\ Append(l, e)[Len(l) + 1] = e
         /\ l # <<>> => Append(l, e)[1] = l[1]
<1>1. Append(l, e) \in Seq(Entries) /\ Len(l) \in Nat /\ Len(Append(l, e)) = Len(l) + 1
  OBVIOUS
<1>2. DOMAIN l = 1..Len(l) /\ DOMAIN Append(l, e) = 1..(Len(l) + 1)
  BY <1>1
<1>3. /\ \A i \in 1..Len(l) : Append(l, e)[i] = l[i]
      /\ Append(l, e)[Len(l) + 1] = e
  OBVIOUS
<1>4. Append(l, e) # <<>>
  BY <1>1
<1>5. l # <<>> => 1 \in 1..Len(l)
  BY <1>1
<1> QED
  BY <1>1, <1>2, <1>3, <1>4, <1>5

LEMMA LoggedIs == \A l, e : Logged(l, e) = l \/ Logged(l, e) = Append(l, e)
BY DEF Logged

\* An entry that is no move and no close leaves what a log tells.
LEMMA MarkTells ==
  ASSUME NEW row, NEW l, Tells(row, l), NEW e \in Entries, e.type \in {"reused", "orphan"}
  PROVE  Tells(row, Logged(l, e))
<1>1. CASE Logged(l, e) = l
  BY <1>1
<1>2. CASE Logged(l, e) = Append(l, e)
  <2> DEFINE k == Append(l, e)
  <2>1. l \in Seq(Entries) /\ l # <<>>
    BY DEF Tells
  <2>2. /\ k \in Seq(Entries) /\ k # <<>> /\ k[1] = l[1]
        /\ Len(l) \in Nat /\ DOMAIN l = 1..Len(l) /\ DOMAIN k = 1..(Len(l) + 1)
        /\ \A i \in 1..Len(l) : k[i] = l[i]
        /\ k[Len(l) + 1] = e
    BY <2>1, Appended
  <2> HIDE DEF k
  <2>3. Moves(k) = Moves(l) /\ Closes(k) = Closes(l)
    BY <2>2 DEF Moves, Closes
  <2>4. LastMove(k, row.state)
    BY <2>2, <2>3 DEF Tells, LastMove, Moves
  <2>5. OpenLog(l) => OpenLog(k)
    BY <2>2 DEF OpenLog
  <2>6. ClosedLog(l) => ClosedLog(k)
    BY <2>2, <2>3 DEF ClosedLog
  <2>7. Tells(row, k)
    BY <2>2, <2>4, <2>5, <2>6 DEF Tells
  <2> QED
    BY <1>2, <2>7 DEF k
<1> QED
  BY <1>1, <1>2, LoggedIs

\* On a log that is open, no state and no close is dropped.
LEMMA OpenLogs ==
  ASSUME NEW l \in Seq(Entries), OpenLog(l), NEW e \in Entries,
         e.type = "closed" \/ (e.type = "state" /\ e.key \in {"fresh", "replaced", "reconcile"})
  PROVE  Logged(l, e) = Append(l, e)
<1>1. \A i \in DOMAIN l : ~SameKey(l[i], e)
  BY DEF OpenLog, SameKey
<1> QED
  BY <1>1 DEF Logged

\* A state is the last move, wherever it is appended.
LEMMA StateIsLast ==
  ASSUME NEW l \in Seq(Entries), NEW e \in Entries, e.type = "state"
  PROVE  LastMove(Append(l, e), e.to)
<1> DEFINE k == Append(l, e)
<1>1. Len(l) \in Nat /\ DOMAIN k = 1..(Len(l) + 1) /\ k[Len(l) + 1] = e
  BY Appended
<1> HIDE DEF k
<1>2. Len(l) + 1 \in Moves(k) /\ \A j \in Moves(k) : j <= Len(l) + 1
  BY <1>1 DEF Moves
<1>3. LastMove(k, e.to)
  BY <1>1, <1>2 DEF LastMove
<1> QED
  BY <1>3 DEF k

LEMMA OtherKeepsLast ==
  ASSUME NEW l \in Seq(Entries), NEW e \in Entries, e.type = "closed", NEW s, LastMove(l, s)
  PROVE  LastMove(Append(l, e), s)
<1> DEFINE k == Append(l, e)
<1>1. /\ Len(l) \in Nat /\ DOMAIN l = 1..Len(l) /\ DOMAIN k = 1..(Len(l) + 1)
      /\ \A i \in 1..Len(l) : k[i] = l[i]
      /\ k[Len(l) + 1] = e
  BY Appended
<1> HIDE DEF k
<1>2. Moves(k) = Moves(l)
  BY <1>1 DEF Moves
<1>3. LastMove(k, s)
  BY <1>1, <1>2 DEF LastMove, Moves
<1> QED
  BY <1>3 DEF k

\* A close ends an open log.
LEMMA CloseEnds ==
  ASSUME NEW l \in Seq(Entries), NEW e \in Entries, e.type = "closed",
         \A i \in DOMAIN l : l[i].type # "closed"
  PROVE  \E i \in DOMAIN Append(l, e) : Closes(Append(l, e)) = {i}
<1> DEFINE k == Append(l, e)
<1>1. /\ Len(l) \in Nat /\ DOMAIN l = 1..Len(l) /\ DOMAIN k = 1..(Len(l) + 1)
      /\ \A i \in 1..Len(l) : k[i] = l[i]
      /\ k[Len(l) + 1] = e
  BY Appended
<1> HIDE DEF k
<1>2. Closes(k) = {Len(l) + 1} /\ Len(l) + 1 \in DOMAIN k
  BY <1>1 DEF Closes
<1>3. \E i \in DOMAIN k : Closes(k) = {i}
  BY <1>2
<1> QED
  BY <1>3 DEF k

-----------------------------------------------------------------------------
(***************************************************************************)
(* The four ways.                                                          *)
(***************************************************************************)
Marks(l, l2) == l2 = l \/ \E e \in Entries : e.type \in {"reused", "orphan"} /\ l2 = Logged(l, e)

\* A row that is not there is created.
Created(row, l, row2, l2) ==
    /\ row = None
    /\ \E s \in States, t \in Nat, x \in Nat :
         row2 = [state |-> s, created |-> t, expires |-> x, closed |-> s \in Terminal]
    /\ \E e \in Entries : e.type = "created" /\ e.to = row2.state /\ l2 = <<e>>

\* An open row takes a state and stays open.
Moved(a, row, l, row2, l2) ==
    /\ row # None /\ ~row.closed
    /\ \E s \in States, e \in Entries :
         /\ a.kind # "trap" /\ row.state \in Terminal => s \in Terminal
         /\ row2 = [row EXCEPT !.state = s]
         /\ e.type = "state" /\ e.to = s /\ e.key = "fresh"
         /\ Marks(IF row.state = s THEN l ELSE Logged(l, e), l2)

\* An open row is closed; its log may have been marked before.
Ended(row, l, row2, l2) ==
    /\ row # None /\ ~row.closed
    /\ \E k : \E s \in Terminal, d, e \in Entries :
         /\ Marks(l, k)
         /\ row2 = [row EXCEPT !.state = s, !.closed = TRUE]
         /\ d.type = "state" /\ d.to = s /\ d.key \in {"fresh", "replaced", "reconcile"}
         /\ e.type = "closed"
         /\ \/ l2 = Logged(Logged(k, d), e)
            \/ row.state = s /\ l2 = Logged(k, e)

Changed(a, row, l, row2, l2) ==
    \/ row2 = row /\ l2 = l
    \/ row # None /\ row2 = row /\ Marks(l, l2)
    \/ Created(row, l, row2, l2)
    \/ Moved(a, row, l, row2, l2)
    \/ Ended(row, l, row2, l2)

LEMMA RowState ==
  ASSUME NEW row \in Attempts, NEW s \in States, NEW row2, row2 = [row EXCEPT !.state = s]
  PROVE  /\ row2 \in Attempts /\ row2.state = s /\ row2.closed = row.closed
         /\ row2.created = row.created /\ row2.expires = row.expires
BY DEF Attempts

LEMMA MarksTell ==
  ASSUME NEW row, NEW l, NEW l2, Tells(row, l), Marks(l, l2)
  PROVE  Tells(row, l2)
BY MarkTells DEF Marks

LEMMA CreatedAgrees ==
  ASSUME NEW row, NEW l, NEW row2, NEW l2, Created(row, l, row2, l2)
  PROVE  Tells(row2, l2)
<1>1. PICK s \in States, t \in Nat, x \in Nat :
        row2 = [state |-> s, created |-> t, expires |-> x, closed |-> s \in Terminal]
  BY DEF Created
<1>2. PICK e \in Entries : e.type = "created" /\ e.to = row2.state /\ l2 = <<e>>
  BY DEF Created
<1>3. row2.state = s /\ (row2.closed <=> s \in Terminal) /\ row2 \in Attempts
  <2>1. (s \in Terminal) \in BOOLEAN
    OBVIOUS
  <2> QED
    BY <1>1, <2>1 DEF Attempts
<1>4. l2 \in Seq(Entries) /\ l2 # <<>> /\ DOMAIN l2 = {1} /\ l2[1] = e
  BY <1>2
<1>5. Moves(l2) = {1} /\ Closes(l2) = {}
  BY <1>2, <1>4 DEF Moves, Closes
<1>6. LastMove(l2, row2.state)
  BY <1>2, <1>4, <1>5 DEF LastMove
<1>7. OpenLog(l2)
  BY <1>2, <1>4 DEF OpenLog
<1>8. row2.closed => ClosedLog(l2)
  BY <1>2, <1>3, <1>4, <1>5 DEF ClosedLog
<1> QED
  BY <1>2, <1>3, <1>4, <1>6, <1>7, <1>8 DEF Tells

LEMMA MovedAgrees ==
  ASSUME NEW a, NEW row, NEW l, NEW row2, NEW l2, Tells(row, l), Moved(a, row, l, row2, l2)
  PROVE  Tells(row2, l2)
<1>1. PICK s \in States, e \in Entries :
        /\ row2 = [row EXCEPT !.state = s]
        /\ e.type = "state" /\ e.to = s /\ e.key = "fresh"
        /\ Marks(IF row.state = s THEN l ELSE Logged(l, e), l2)
  BY DEF Moved
<1>2. row \in Attempts /\ l \in Seq(Entries) /\ l # <<>> /\ ~row.closed /\ OpenLog(l) /\ l[1].to \notin Terminal
  BY DEF Tells, Moved
<1>3. row2 \in Attempts /\ row2.state = s /\ ~row2.closed
  BY <1>1, <1>2, RowState
<1>4. CASE row.state = s
  <2>1. Tells(row2, l)
    BY <1>2, <1>3, <1>4 DEF Tells
  <2> QED
    BY <1>1, <1>4, <2>1, MarksTell
<1>5. CASE row.state # s
  <2> DEFINE k == Append(l, e)
  <2>1. Logged(l, e) = k
    BY <1>1, <1>2, OpenLogs
  <2>2. /\ k \in Seq(Entries) /\ k # <<>> /\ k[1] = l[1]
        /\ Len(l) \in Nat /\ DOMAIN l = 1..Len(l) /\ DOMAIN k = 1..(Len(l) + 1)
        /\ \A i \in 1..Len(l) : k[i] = l[i]
        /\ k[Len(l) + 1] = e
    BY <1>2, Appended
  <2>3. LastMove(k, s)
    BY <1>1, <1>2, StateIsLast
  <2> HIDE DEF k
  <2>4. OpenLog(k)
    BY <1>1, <1>2, <2>2 DEF OpenLog
  <2>5. Tells(row2, k)
    BY <1>2, <1>3, <2>2, <2>3, <2>4 DEF Tells
  <2> QED
    BY <1>1, <1>5, <2>1, <2>5, MarksTell
<1> QED
  BY <1>4, <1>5

LEMMA EndedAgrees ==
  ASSUME NEW row, NEW l, NEW row2, NEW l2, Tells(row, l), Ended(row, l, row2, l2)
  PROVE  Tells(row2, l2)
<1>0. PICK k : \E s \in Terminal, d, e \in Entries :
        /\ Marks(l, k)
        /\ row2 = [row EXCEPT !.state = s, !.closed = TRUE]
        /\ d.type = "state" /\ d.to = s /\ d.key \in {"fresh", "replaced", "reconcile"}
        /\ e.type = "closed"
        /\ \/ l2 = Logged(Logged(k, d), e)
           \/ row.state = s /\ l2 = Logged(k, e)
  BY DEF Ended
<1>1. PICK s \in Terminal, d \in Entries, e \in Entries :
        /\ Marks(l, k)
        /\ row2 = [row EXCEPT !.state = s, !.closed = TRUE]
        /\ d.type = "state" /\ d.to = s /\ d.key \in {"fresh", "replaced", "reconcile"}
        /\ e.type = "closed"
        /\ \/ l2 = Logged(Logged(k, d), e)
           \/ row.state = s /\ l2 = Logged(k, e)
  BY <1>0
<1>2. Tells(row, k) /\ ~row.closed
  BY <1>1, MarksTell DEF Ended
<1>3. /\ row \in Attempts /\ k \in Seq(Entries) /\ k # <<>> /\ OpenLog(k) /\ k[1].to \notin Terminal
      /\ LastMove(k, row.state)
  BY <1>2 DEF Tells
<1>4. s \in States
  BY DEF States
<1>5. row2 \in Attempts /\ row2.state = s /\ row2.closed
  BY <1>1, <1>3, <1>4 DEF Attempts
<1>6. ASSUME NEW m \in Seq(Entries), m # <<>>, m[1] = k[1], LastMove(m, s),
             \A i \in DOMAIN m : m[i].type # "closed", l2 = Append(m, e)
      PROVE  Tells(row2, l2)
  <2>1. l2 \in Seq(Entries) /\ l2 # <<>> /\ l2[1] = k[1]
    BY <1>6, Appended
  <2>2. LastMove(l2, s)
    BY <1>1, <1>6, OtherKeepsLast
  <2>3. \E i \in DOMAIN l2 : Closes(l2) = {i}
    BY <1>1, <1>6, CloseEnds
  <2>4. ClosedLog(l2)
    BY <1>3, <2>1, <2>3 DEF ClosedLog
  <2> QED
    BY <1>1, <1>3, <1>5, <2>1, <2>2, <2>4 DEF Tells
<1>7. CASE row.state = s /\ l2 = Logged(k, e)
  <2>1. l2 = Append(k, e)
    BY <1>1, <1>3, <1>7, OpenLogs
  <2>2. \A i \in DOMAIN k : k[i].type # "closed"
    BY <1>3 DEF OpenLog
  <2> QED
    BY <1>3, <1>6, <1>7, <2>1, <2>2
<1>8. CASE l2 = Logged(Logged(k, d), e)
  <2> DEFINE m == Append(k, d)
  <2>1. Logged(k, d) = m
    BY <1>1, <1>3, OpenLogs
  <2>2. /\ m \in Seq(Entries) /\ m # <<>> /\ m[1] = k[1]
        /\ Len(k) \in Nat /\ DOMAIN k = 1..Len(k) /\ DOMAIN m = 1..(Len(k) + 1)
        /\ \A i \in 1..Len(k) : m[i] = k[i]
        /\ m[Len(k) + 1] = d
    BY <1>3, Appended
  <2>3. LastMove(m, s)
    BY <1>1, <1>3, StateIsLast
  <2> HIDE DEF m
  <2>4. \A i \in DOMAIN m : m[i].type # "closed"
    BY <1>1, <1>3, <2>2 DEF OpenLog
  <2>5. \A i \in DOMAIN m : ~SameKey(m[i], e)
    BY <1>1, <2>4 DEF SameKey
  <2>6. l2 = Append(m, e)
    BY <1>8, <2>1, <2>5 DEF Logged
  <2> QED
    BY <1>6, <2>2, <2>3, <2>4, <2>6
<1> QED
  BY <1>1, <1>7, <1>8

LEMMA ChangedAgrees ==
  ASSUME NEW a, NEW row, NEW l, NEW row2, NEW l2, Agree(row, l), Changed(a, row, l, row2, l2)
  PROVE  Agree(row2, l2)
<1>1. CASE row2 = row /\ l2 = l
  BY <1>1 DEF Agree
<1>2. CASE row # None /\ row2 = row /\ Marks(l, l2)
  BY <1>2, MarksTell DEF Agree
<1>3. CASE Created(row, l, row2, l2)
  <2>1. Tells(row2, l2)
    BY <1>3, CreatedAgrees
  <2> QED
    BY <2>1, AttemptsAssumption DEF Agree, Tells
<1>4. CASE Moved(a, row, l, row2, l2)
  <2>1. Tells(row, l)
    BY <1>4 DEF Moved, Agree
  <2>2. Tells(row2, l2)
    BY <1>4, <2>1, MovedAgrees
  <2> QED
    BY <2>2, AttemptsAssumption DEF Agree, Tells
<1>5. CASE Ended(row, l, row2, l2)
  <2>1. Tells(row, l)
    BY <1>5 DEF Ended, Agree
  <2>2. Tells(row2, l2)
    BY <1>5, <2>1, EndedAgrees
  <2> QED
    BY <2>2, AttemptsAssumption DEF Agree, Tells
<1> QED
  BY <1>1, <1>2, <1>3, <1>4, <1>5 DEF Changed

\* What no change does: remove an attempt, move the end of its window, touch
\* a closed one, or reopen a climax attempt.
LEMMA ChangedKeeps ==
  ASSUME NEW a, NEW row, NEW l, NEW row2, NEW l2, Agree(row, l), Changed(a, row, l, row2, l2),
         row # None
  PROVE  /\ row2 # None
         /\ row2.created = row.created /\ row2.expires = row.expires
         /\ row.closed => row2 = row
         /\ a.kind # "trap" /\ row.state \in Terminal => row2.state \in Terminal
<1>1. row \in Attempts
  BY DEF Agree, Tells
<1>2. CASE row2 = row
  BY <1>2
<1>3. CASE Moved(a, row, l, row2, l2)
  <2>1. PICK s \in States : /\ a.kind # "trap" /\ row.state \in Terminal => s \in Terminal
                            /\ row2 = [row EXCEPT !.state = s]
    BY <1>3 DEF Moved
  <2>2. /\ row2 \in Attempts /\ row2.state = s
        /\ row2.created = row.created /\ row2.expires = row.expires
    BY <1>1, <2>1, RowState
  <2> QED
    BY <1>3, <2>1, <2>2, AttemptsAssumption DEF Moved
<1>4. CASE Ended(row, l, row2, l2)
  <2>1. PICK s \in Terminal : row2 = [row EXCEPT !.state = s, !.closed = TRUE]
    BY <1>4 DEF Ended
  <2>2. s \in States
    BY DEF States
  <2>3. /\ row2 \in Attempts /\ row2.state = s
        /\ row2.created = row.created /\ row2.expires = row.expires
    BY <1>1, <2>1, <2>2 DEF Attempts
  <2> QED
    BY <1>4, <2>3, AttemptsAssumption DEF Ended
<1> QED
  BY <1>2, <1>3, <1>4 DEF Changed, Created

-----------------------------------------------------------------------------
(***************************************************************************)
(* The actions as changes.                                                 *)
(***************************************************************************)
AllChanged ==
    /\ attempts' = [a \in Ids |-> attempts'[a]]
    /\ log' = [a \in Ids |-> log'[a]]
    /\ \A a \in Ids : Changed(a, attempts[a], log[a], attempts'[a], log'[a])

\* No attempt appears.
NoneCreated == \A a \in Ids : ~Exists(a) => attempts'[a] = None

LEMMA AllChangedAgree ==
  ASSUME LogsOK, AllChanged
  PROVE  /\ LogsOK'
         /\ attempts' \in [Ids -> Attempts \cup {None}]
         /\ log' \in [Ids -> Seq(Entries)]
<1>1. \A a \in Ids : Agree(attempts'[a], log'[a])
  BY ChangedAgrees DEF LogsOK, AllChanged
<1>2. \A a \in Ids : attempts'[a] \in Attempts \cup {None} /\ log'[a] \in Seq(Entries)
  <2> TAKE a \in Ids
  <2>1. <<>> \in Seq(Entries)
    OBVIOUS
  <2>2. Agree(attempts'[a], log'[a])
    BY <1>1
  <2> QED
    BY <2>1, <2>2 DEF Agree, Tells
<1>3. LogsOK'
  BY <1>1 DEF LogsOK, Agree, Tells, LastMove, OpenLog, ClosedLog, Moves, Closes
<1> QED
  BY <1>2, <1>3 DEF AllChanged

LEMMA UnchangedIsChange ==
  ASSUME TypeOK, UNCHANGED <<attempts, log>>
  PROVE  AllChanged /\ NoneCreated
BY DEF TypeOK, AllChanged, Changed, NoneCreated, Exists

\* A transaction that writes one attempt.
LEMMA WritesIsChange ==
  ASSUME TypeOK, NEW a \in Ids, NEW row, NEW l, Writes(a, row, l),
         Changed(a, attempts[a], log[a], row, l)
  PROVE  /\ AllChanged
         /\ attempts'[a] = row /\ \A b \in Ids : b # a => attempts'[b] = attempts[b]
<1>1. attempts' = [attempts EXCEPT ![a] = row] /\ log' = [log EXCEPT ![a] = l]
  BY DEF Writes
<1>2. attempts \in [Ids -> Attempts \cup {None}] /\ log \in [Ids -> Seq(Entries)]
  BY DEF TypeOK
<1>3. attempts'[a] = row /\ log'[a] = l
  BY <1>1, <1>2
<1>4. \A b \in Ids : b # a => attempts'[b] = attempts[b] /\ log'[b] = log[b]
  BY <1>1, <1>2
<1>5. attempts' = [b \in Ids |-> attempts'[b]] /\ log' = [b \in Ids |-> log'[b]]
  BY <1>1, <1>2
<1>6. \A b \in Ids : Changed(b, attempts[b], log[b], attempts'[b], log'[b])
  BY <1>3, <1>4 DEF Changed
<1> QED
  BY <1>3, <1>4, <1>5, <1>6 DEF AllChanged

\* The entries of this run.
LEMMA EntryOK ==
  ASSUME TypeOK, NEW type \in {"created", "state", "closed", "reused", "orphan"}, NEW s \in States,
         NEW key \in {"fresh", "run", "replaced", "reconcile"}
  PROVE  /\ Entry(type, s, key) \in Entries
         /\ Entry(type, s, key).type = type /\ Entry(type, s, key).to = s
         /\ Entry(type, s, key).key = key
BY DEF Entry, Entries, TypeOK

LEMMA ReuseMarks ==
  ASSUME TypeOK, NEW l, NEW s \in States
  PROVE  Marks(l, LoggedReuse(l, s))
<1> DEFINE e == Entry("reused", s, "run")
<1>1. e \in Entries /\ e.type = "reused"
  BY EntryOK
<1>2. LoggedReuse(l, s) = l \/ LoggedReuse(l, s) = Logged(l, e)
  BY DEF LoggedReuse
<1> HIDE DEF e
<1> QED
  BY <1>1, <1>2 DEF Marks

\* LoggedState with a fresh key, as Moved and Ended speak of it.
LEMMA FreshState ==
  ASSUME TypeOK, NEW l, NEW row, NEW s \in States
  PROVE  \E e \in Entries : /\ e.type = "state" /\ e.to = s /\ e.key = "fresh"
                            /\ LoggedState(l, row, s, "fresh")
                                 = IF row.state = s THEN l ELSE Logged(l, e)
<1> DEFINE e == Entry("state", s, "fresh")
<1>1. e \in Entries /\ e.type = "state" /\ e.to = s /\ e.key = "fresh"
  BY EntryOK
<1>2. LoggedState(l, row, s, "fresh") = IF row.state = s THEN l ELSE Logged(l, e)
  BY DEF LoggedState
<1> HIDE DEF e
<1> QED
  BY <1>1, <1>2

\* LoggedClose, of a log that may have been marked.
LEMMA CloseIsEnd ==
  ASSUME TypeOK, NEW row, row # None, ~row.closed, NEW l, NEW k, Marks(l, k),
         NEW s \in Terminal, NEW key \in {"fresh", "replaced", "reconcile"}
  PROVE  Ended(row, l, [row EXCEPT !.state = s, !.closed = TRUE], LoggedClose(k, s, key))
<1> DEFINE d == Entry("state", s, key)
           e == Entry("closed", s, key)
           row2 == [row EXCEPT !.state = s, !.closed = TRUE]
           l2 == LoggedClose(k, s, key)
<1>1. s \in States
  BY DEF States
<1>2. d \in Entries /\ d.type = "state" /\ d.to = s /\ d.key = key /\ e \in Entries /\ e.type = "closed"
  BY <1>1, EntryOK
<1>3. l2 = Logged(Logged(k, d), e)
  BY DEF LoggedClose
<1>4. row2 = [row EXCEPT !.state = s, !.closed = TRUE]
  OBVIOUS
<1> HIDE DEF d, e, row2, l2
<1>5. Ended(row, l, row2, l2)
  BY <1>2, <1>3, <1>4 DEF Ended
<1> QED
  BY <1>5 DEF row2, l2

\* transition_shadow_entry_attempt into a terminal state.
LEMMA FreshCloseIsEnd ==
  ASSUME TypeOK, NEW row, row # None, ~row.closed, NEW l, NEW s \in Terminal
  PROVE  Ended(row, l, [row EXCEPT !.state = s, !.closed = TRUE],
               Logged(LoggedState(l, row, s, "fresh"), Entry("closed", s, "fresh")))
<1> DEFINE e == Entry("closed", s, "fresh")
           row2 == [row EXCEPT !.state = s, !.closed = TRUE]
           l2 == Logged(LoggedState(l, row, s, "fresh"), e)
<1>1. s \in States
  BY DEF States
<1>2. e \in Entries /\ e.type = "closed"
  BY <1>1, EntryOK
<1>3. PICK d \in Entries : /\ d.type = "state" /\ d.to = s /\ d.key = "fresh"
                           /\ LoggedState(l, row, s, "fresh") = IF row.state = s THEN l ELSE Logged(l, d)
  BY <1>1, FreshState
<1>4. l2 = Logged(Logged(l, d), e) \/ (row.state = s /\ l2 = Logged(l, e))
  BY <1>3
<1>5. row2 = [row EXCEPT !.state = s, !.closed = TRUE] /\ Marks(l, l)
  BY DEF Marks
<1> HIDE DEF e, row2, l2
<1>6. Ended(row, l, row2, l2)
  BY <1>2, <1>3, <1>4, <1>5 DEF Ended
<1> QED
  BY <1>6 DEF row2, l2, e

\* A state that is not terminal, or is first reached, with or without the mark
\* of a reuse.
LEMMA FreshStateIsMove ==
  ASSUME TypeOK, NEW a, NEW row, row # None, ~row.closed, NEW l, NEW s \in States,
         a.kind # "trap" /\ row.state \in Terminal => s \in Terminal,
         NEW l2, Marks(LoggedState(l, row, s, "fresh"), l2)
  PROVE  Moved(a, row, l, [row EXCEPT !.state = s], l2)
<1> DEFINE row2 == [row EXCEPT !.state = s]
<1>1. PICK e \in Entries : /\ e.type = "state" /\ e.to = s /\ e.key = "fresh"
                           /\ LoggedState(l, row, s, "fresh") = IF row.state = s THEN l ELSE Logged(l, e)
  BY FreshState
<1>2. row2 = [row EXCEPT !.state = s]
  OBVIOUS
<1> HIDE DEF row2
<1>3. Moved(a, row, l, row2, l2)
  BY <1>1, <1>2 DEF Moved
<1> QED
  BY <1>3 DEF row2

LEMMA RowTyped ==
  ASSUME TypeOK, NEW a \in Ids, Exists(a)
  PROVE  /\ attempts[a] \in Attempts /\ attempts[a].state \in States
         /\ attempts[a].closed \in BOOLEAN /\ attempts[a].expires \in Nat
         /\ attempts[a].created \in Nat /\ log[a] \in Seq(Entries)
<1>1. attempts[a] \in Attempts /\ log[a] \in Seq(Entries)
  BY DEF TypeOK, Exists
<1> QED
  BY <1>1 DEF Attempts

LEMMA ObservesIsChange ==
  ASSUME TypeOK, NEW a \in Ids, Exists(a), NEW s \in States, NEW x, Observes(a, s, x)
  PROVE  AllChanged /\ NoneCreated
<1> DEFINE row == attempts[a]
           l2 == LoggedReuse(LoggedState(log[a], row, s, "fresh"), s)
<1>1. CASE row.closed \/ row.state \in Terminal
  BY <1>1, UnchangedIsChange DEF Observes
<1>2. CASE ~(row.closed \/ row.state \in Terminal)
  <2>1. Writes(a, [row EXCEPT !.state = s], l2)
    BY <1>2 DEF Observes
  <2>2. Marks(LoggedState(log[a], row, s, "fresh"), l2)
    BY ReuseMarks
  <2>3. Moved(a, row, log[a], [row EXCEPT !.state = s], l2)
    BY <1>2, <2>2, FreshStateIsMove DEF Exists
  <2>4. Changed(a, attempts[a], log[a], [row EXCEPT !.state = s], l2)
    BY <2>3 DEF Changed
  <2>5. AllChanged /\ \A b \in Ids : b # a => attempts'[b] = attempts[b]
    BY <2>1, <2>4, WritesIsChange
  <2> QED
    BY <2>5 DEF NoneCreated, Exists
<1> QED
  BY <1>1, <1>2

LEMMA TransitionsIsChange ==
  ASSUME TypeOK, NEW a \in Ids, NEW s \in States, a.kind # "trap" => s \in Terminal, Transitions(a, s)
  PROVE  AllChanged /\ NoneCreated
<1> DEFINE row == attempts[a]
<1>1. CASE ~Exists(a) \/ (Exists(a) /\ attempts[a].closed)
  BY <1>1, UnchangedIsChange DEF Transitions
<1>2. CASE Exists(a) /\ ~attempts[a].closed /\ s \in Terminal
  <2> DEFINE l2 == Logged(LoggedState(log[a], row, s, "fresh"), Entry("closed", s, "fresh"))
             row2 == [row EXCEPT !.state = s, !.closed = TRUE]
  <2>1. Writes(a, row2, l2)
    BY <1>2 DEF Transitions
  <2>2. Ended(row, log[a], row2, l2)
    BY <1>2, FreshCloseIsEnd DEF Exists
  <2>3. Changed(a, attempts[a], log[a], row2, l2)
    BY <2>2 DEF Changed
  <2>4. AllChanged /\ \A b \in Ids : b # a => attempts'[b] = attempts[b]
    BY <2>1, <2>3, WritesIsChange
  <2> QED
    BY <1>2, <2>4 DEF NoneCreated, Exists
<1>3. CASE Exists(a) /\ ~attempts[a].closed /\ s \notin Terminal
  <2> DEFINE l2 == LoggedState(log[a], row, s, "fresh")
             row2 == [row EXCEPT !.state = s]
  <2>1. Writes(a, row2, l2)
    BY <1>3 DEF Transitions
  <2>2. Moved(a, row, log[a], row2, l2)
    BY <1>3, FreshStateIsMove DEF Exists, Marks
  <2>3. Changed(a, attempts[a], log[a], row2, l2)
    BY <2>2 DEF Changed
  <2>4. AllChanged /\ \A b \in Ids : b # a => attempts'[b] = attempts[b]
    BY <2>1, <2>3, WritesIsChange
  <2> QED
    BY <1>3, <2>4 DEF NoneCreated, Exists
<1> QED
  BY <1>1, <1>2, <1>3

LEMMA ExpiresIsChange ==
  ASSUME TypeOK, NEW a \in Ids, Exists(a), NEW t, Expires(a, t)
  PROVE  AllChanged /\ NoneCreated
<1> DEFINE row == attempts[a]
           l2 == LoggedClose(log[a], "EXPIRED", "fresh")
           row2 == [row EXCEPT !.state = "EXPIRED", !.closed = TRUE]
<1>1. CASE row.closed \/ t < row.expires
  BY <1>1, UnchangedIsChange DEF Expires
<1>2. CASE ~(row.closed \/ t < row.expires)
  <2>1. Writes(a, row2, l2)
    BY <1>2 DEF Expires
  <2>2. Ended(row, log[a], row2, l2)
    <3>1. "EXPIRED" \in Terminal /\ "fresh" \in {"fresh", "replaced", "reconcile"} /\ Marks(log[a], log[a])
      BY DEF Terminal, Marks
    <3> QED
      BY <1>2, <3>1, CloseIsEnd DEF Exists
  <2>3. Changed(a, attempts[a], log[a], row2, l2)
    BY <2>2 DEF Changed
  <2>4. AllChanged /\ \A b \in Ids : b # a => attempts'[b] = attempts[b]
    BY <2>1, <2>3, WritesIsChange
  <2> QED
    BY <2>4 DEF NoneCreated, Exists
<1> QED
  BY <1>1, <1>2

LEMMA ReplacesIsChange ==
  ASSUME TypeOK, NEW r, Replaces(r)
  PROVE  AllChanged /\ NoneCreated
<1>1. /\ attempts' = [a \in Ids |-> IF a \in OpenOf(r)
             THEN [attempts[a] EXCEPT !.state = "ROOT_REPLACED", !.closed = TRUE]
             ELSE attempts[a]]
      /\ log' = [a \in Ids |-> IF a \in OpenOf(r)
             THEN LoggedClose(log[a], "ROOT_REPLACED", "replaced") ELSE log[a]]
  BY DEF Replaces
<1>2. ASSUME NEW a \in Ids
      PROVE  /\ Changed(a, attempts[a], log[a], attempts'[a], log'[a])
             /\ ~Exists(a) => attempts'[a] = None
  <2>1. CASE a \in OpenOf(r)
    <3> DEFINE l2 == LoggedClose(log[a], "ROOT_REPLACED", "replaced")
               row2 == [attempts[a] EXCEPT !.state = "ROOT_REPLACED", !.closed = TRUE]
    <3>1. attempts'[a] = row2 /\ log'[a] = l2 /\ Exists(a) /\ ~attempts[a].closed
      BY <1>1, <2>1 DEF OpenOf
    <3>2. /\ "ROOT_REPLACED" \in Terminal /\ "replaced" \in {"fresh", "replaced", "reconcile"}
          /\ Marks(log[a], log[a])
      BY DEF Terminal, Marks
    <3>3. Ended(attempts[a], log[a], row2, l2)
      BY <3>1, <3>2, CloseIsEnd DEF Exists
    <3> QED
      BY <3>1, <3>3 DEF Changed
  <2>2. CASE a \notin OpenOf(r)
    BY <1>1, <2>2 DEF Changed, Exists
  <2> QED
    BY <2>1, <2>2
<1>3. attempts' = [a \in Ids |-> attempts'[a]] /\ log' = [a \in Ids |-> log'[a]]
  BY <1>1
<1> QED
  BY <1>2, <1>3 DEF AllChanged, NoneCreated

LEMMA StartIsChange ==
  ASSUME TypeOK, Start
  PROVE  AllChanged /\ NoneCreated
<1> DEFINE orphan(a) == [Entry("orphan", attempts[a].state, "reconcile") EXCEPT !.run = run + 1]
           marked(a) == IF Exists(a) /\ Orphan(a) THEN Logged(log[a], orphan(a)) ELSE log[a]
<1>1. /\ attempts' = [a \in Ids |-> IF Overdue(a)
             THEN [attempts[a] EXCEPT !.state = "EXPIRED", !.closed = TRUE] ELSE attempts[a]]
      /\ log' = [a \in Ids |-> IF Overdue(a) THEN LoggedClose(marked(a), "EXPIRED", "reconcile")
                               ELSE marked(a)]
  BY DEF Start
<1>2. ASSUME NEW a \in Ids PROVE Marks(log[a], marked(a)) /\ (~Exists(a) => marked(a) = log[a])
  <2>1. CASE Exists(a) /\ Orphan(a)
    <3>1. orphan(a) \in Entries /\ orphan(a).type = "orphan"
      <4>1. attempts[a].state \in States /\ run \in Nat
        BY <2>1, RowTyped DEF TypeOK
      <4>2. orphan(a) = [type |-> "orphan", to |-> attempts[a].state, key |-> "reconcile", run |-> run + 1]
        BY DEF Entry
      <4> QED
        BY <4>1, <4>2 DEF Entries
    <3>2. marked(a) = Logged(log[a], orphan(a))
      BY <2>1
    <3> HIDE DEF orphan, marked
    <3> QED
      BY <2>1, <3>1, <3>2 DEF Marks
  <2>2. CASE ~(Exists(a) /\ Orphan(a))
    BY <2>2 DEF Marks
  <2> QED
    BY <2>1, <2>2
<1> HIDE DEF orphan, marked
<1>3. ASSUME NEW a \in Ids
      PROVE  /\ Changed(a, attempts[a], log[a], attempts'[a], log'[a])
             /\ ~Exists(a) => attempts'[a] = None
  <2>1. CASE Overdue(a)
    <3> DEFINE l2 == LoggedClose(marked(a), "EXPIRED", "reconcile")
               row2 == [attempts[a] EXCEPT !.state = "EXPIRED", !.closed = TRUE]
    <3>1. attempts'[a] = row2 /\ log'[a] = l2 /\ Exists(a) /\ ~attempts[a].closed
      BY <1>1, <2>1 DEF Overdue
    <3>2. "EXPIRED" \in Terminal /\ "reconcile" \in {"fresh", "replaced", "reconcile"}
      BY DEF Terminal
    <3>3. Ended(attempts[a], log[a], row2, l2)
      BY <1>2, <3>1, <3>2, CloseIsEnd DEF Exists
    <3> QED
      BY <3>1, <3>3 DEF Changed
  <2>2. CASE ~Overdue(a)
    BY <1>1, <1>2, <2>2 DEF Changed, Exists
  <2> QED
    BY <2>1, <2>2
<1>4. attempts' = [a \in Ids |-> attempts'[a]] /\ log' = [a \in Ids |-> log'[a]]
  BY <1>1
<1> QED
  BY <1>3, <1>4 DEF AllChanged, NoneCreated

-----------------------------------------------------------------------------
(***************************************************************************)
(* The limit.                                                              *)
(***************************************************************************)
LEMMA LimitIsNat == \A a : LimitOf(a) \in Nat /\ LimitOf(a) >= 1
BY AttemptsAssumption DEF LimitOf

\* An attempt that exists goes on counting, or not counting.
LEMMA CountsStay ==
  ASSUME LogsOK, AllChanged, NEW a \in Ids, Exists(a)
  PROVE  Exists(a)' /\ (Valid(attempts'[a]) <=> Valid(attempts[a]))
<1>1. Agree(attempts[a], log[a]) /\ Changed(a, attempts[a], log[a], attempts'[a], log'[a])
  BY DEF LogsOK, AllChanged
<1>2. /\ attempts'[a] # None
      /\ attempts'[a].created = attempts[a].created /\ attempts'[a].expires = attempts[a].expires
  BY <1>1, ChangedKeeps DEF Exists
<1> QED
  BY <1>2 DEF Exists, Valid

LEMMA CountsKept ==
  ASSUME LogsOK, CountsOK, refused \subseteq Ids, AllChanged, NoneCreated, refused' = refused
  PROVE  CountsOK'
<1>1. \A b \in Ids : /\ Exists(b)' <=> Exists(b)
                     /\ Exists(b) => (Valid(attempts'[b]) <=> Valid(attempts[b]))
  BY CountsStay DEF NoneCreated, Exists
<1>2. \A a : Counted(a)' = Counted(a)
  BY <1>1 DEF Counted, SameRoot, Exists
<1>3. \A a \in refused : ~Exists(a)'
  BY <1>1 DEF CountsOK
<1>4. \A a \in refused : AtLimit(a)'
  BY <1>2 DEF CountsOK, AtLimit, LimitOf
<1>5. \A a \in Ids : IsFiniteSet(Counted(a)') /\ Cardinality(Counted(a)') <= LimitOf(a)
  BY <1>2 DEF CountsOK
<1> QED
  BY <1>3, <1>4, <1>5 DEF CountsOK, LimitOf

\* An attempt that is created leaves room for itself.
LEMMA CountsAfterCreation ==
  ASSUME LogsOK, CountsOK, refused \subseteq Ids, AllChanged, NEW a \in Ids, ~Exists(a), ~AtLimit(a),
         \A b \in Ids : b # a => attempts'[b] = attempts[b], refused' = refused
  PROVE  CountsOK'
<1>1. ASSUME NEW b \in Ids
      PROVE  /\ Counted(b) \subseteq Counted(b)'
             /\ Counted(b)' \subseteq Counted(b) \cup {a}
             /\ a \in Counted(b)' => SameRoot(b, a)
  BY CountsStay DEF Counted, SameRoot, Exists, Valid
<1>2. a \notin refused
  BY DEF CountsOK
<1>3. ASSUME NEW b \in Ids
      PROVE  /\ IsFiniteSet(Counted(b)')
             /\ Cardinality(Counted(b)) <= Cardinality(Counted(b)')
             /\ Cardinality(Counted(b)') <= LimitOf(b)
  <2>1. IsFiniteSet(Counted(b)) /\ Cardinality(Counted(b)) \in Nat /\ Cardinality(Counted(b)) <= LimitOf(b)
    BY FS_CardinalityType DEF CountsOK
  <2>2. CASE a \notin Counted(b)'
    <3>1. Counted(b)' = Counted(b)
      BY <1>1, <2>2
    <3> QED
      BY <2>1, <3>1
  <2>3. CASE a \in Counted(b)'
    <3>1. Counted(b)' = Counted(b) \cup {a} /\ SameRoot(b, a)
      BY <1>1, <2>3
    <3>2. Counted(b) = Counted(a) /\ LimitOf(b) = LimitOf(a)
      BY <3>1 DEF Counted, SameRoot, LimitOf
    <3>3. a \notin Counted(b)
      BY DEF Counted
    <3>4. Cardinality(Counted(b)) < LimitOf(b)
      BY <2>1, <3>2, LimitIsNat DEF AtLimit
    <3>5. IsFiniteSet(Counted(b)') /\ Cardinality(Counted(b)') = Cardinality(Counted(b)) + 1
      BY <2>1, <3>1, <3>3, FS_AddElement
    <3> QED
      BY <2>1, <3>4, <3>5, LimitIsNat
  <2> QED
    BY <2>2, <2>3
<1>4. \A c \in refused : ~Exists(c)'
  BY <1>2 DEF CountsOK, Exists
<1>5. \A c \in refused : AtLimit(c)'
  <2> TAKE c \in refused
  <2>1. Cardinality(Counted(c)) >= LimitOf(c) /\ Cardinality(Counted(c)) <= Cardinality(Counted(c)')
    BY <1>3 DEF CountsOK, AtLimit
  <2>2. Cardinality(Counted(c)) \in Nat /\ Cardinality(Counted(c)') \in Nat /\ LimitOf(c) \in Nat
    BY <1>3, FS_CardinalityType, LimitIsNat DEF CountsOK
  <2> QED
    BY <2>1, <2>2 DEF AtLimit, LimitOf
<1> QED
  BY <1>3, <1>4, <1>5 DEF CountsOK, LimitOf

-----------------------------------------------------------------------------
(***************************************************************************)
(* Roots.                                                                  *)
(***************************************************************************)
RootType == [peak : 1..MaxHigh, revision : 1..MaxHigh]

LEMMA UpsertsRootOK ==
  ASSUME TypeOK, NEW r \in Roots, NEW peak \in 1..MaxHigh, NEW rev \in 0..MaxHigh, UpsertsRoot(r, peak, rev)
  PROVE  /\ roots' \in [Roots -> RootType \cup {None}]
         /\ broken' \subseteq Roots /\ faults' \in Nat
         /\ rev \in 1..MaxHigh
         /\ Known(r, rev)'
         /\ \A q \in Roots, v \in Nat : Known(q, v) => Known(q, v)'
<1>1. roots \in [Roots -> RootType \cup {None}] /\ broken \subseteq Roots /\ faults \in Nat
  BY DEF TypeOK, RootType
<1>2. CASE /\ roots' = [roots EXCEPT ![r] = RootRow(r, peak)]
           /\ rev = RootRow(r, peak).revision
           /\ UNCHANGED <<faults, broken>>
  <2>1. RootRow(r, peak).revision \in Nat \ {0} /\ RootRow(r, peak).peak \in 1..MaxHigh
        /\ RootRow(r, peak) = [peak |-> RootRow(r, peak).peak, revision |-> RootRow(r, peak).revision]
        /\ (roots[r] # None => roots[r].revision <= RootRow(r, peak).revision)
    BY <1>1 DEF RootRow, RootType
  <2>2. rev \in 1..MaxHigh
    BY <1>2, <2>1
  <2>3. RootRow(r, peak) \in RootType
    BY <1>2, <2>1, <2>2 DEF RootType
  <2>4. RootRow(r, peak) # None
    BY <2>3, AttemptsAssumption DEF RootType
  <2>5. roots'[r] = RootRow(r, peak) /\ \A q \in Roots : q # r => roots'[q] = roots[q]
    BY <1>1, <1>2
  <2>6. Known(r, rev)'
    BY <1>2, <2>2, <2>4, <2>5 DEF Known
  <2>7. ASSUME NEW q \in Roots, NEW v \in Nat, Known(q, v) PROVE Known(q, v)'
    <3>1. CASE q # r \/ q \in broken
      BY <1>2, <2>5, <2>7, <3>1 DEF Known
    <3>2. CASE q = r /\ q \notin broken
      <4>1. roots[r] # None /\ v <= roots[r].revision /\ roots[r].revision \in Nat
        BY <1>1, <2>7, <3>2 DEF Known, RootType
      <4>2. v <= RootRow(r, peak).revision
        BY <2>1, <4>1
      <4> QED
        BY <2>4, <2>5, <3>2, <4>2 DEF Known
    <3> QED
      BY <3>1, <3>2
  <2> QED
    BY <1>1, <1>2, <2>2, <2>3, <2>6, <2>7
<1>3. CASE /\ faults < MaxFaults /\ faults' = faults + 1
           /\ broken' = broken \cup {r}
           /\ rev = 1
           /\ UNCHANGED roots
  BY <1>1, <1>3, AttemptsAssumption DEF Known
<1> QED
  BY <1>2, <1>3 DEF UpsertsRoot

\* What is known of a root stays known as long as the roots are left alone.
LEMMA KnownStays == UNCHANGED <<roots, broken>> => \A q, v : Known(q, v)' = Known(q, v)
BY DEF Known

LEMMA IdFields ==
  \A a \in Ids : a.root \in Roots /\ a.rev \in Nat /\ a.kind \in Kinds
BY DEF Ids

\* Without a new attempt, what the attempts need of their roots stays.
LEMMA AttemptRootsKept ==
  ASSUME LogsOK, RootsOK, NoneCreated,
         \A q \in Roots, v \in Nat : Known(q, v) => Known(q, v)'
  PROVE  \A a \in Ids : Exists(a)' /\ a.kind # "trap" => Known(a.root, a.rev)'
BY IdFields DEF RootsOK, NoneCreated, Exists

-----------------------------------------------------------------------------
(***************************************************************************)
(* The invariant, action by action.                                        *)
(***************************************************************************)
\* The parts of the invariant that say nothing of the attempts' logs.
RestType ==
    /\ roots \in [Roots -> RootType \cup {None}]
    /\ refused \subseteq Ids
    /\ event \in Events \cup {None}
    /\ tracked \in Roots \cup {None}
    /\ pc \in {"idle", "tracking", "admitting", "settling", "down"}
    /\ pending \in Plans \cup {None}
    /\ clock \in Nat /\ run \in Nat /\ faults \in Nat /\ work \in Nat
    /\ broken \subseteq Roots

LEMMA RestOfType == TypeOK => RestType
BY DEF TypeOK, RestType, RootType

LEMMA TypeFromRest ==
  /\ RestType'
  /\ attempts' \in [Ids -> Attempts \cup {None}]
  /\ log' \in [Ids -> Seq(Entries)]
  => TypeOK'
BY DEF TypeOK, RestType, RootType

\* A step that creates no attempt and refuses none.
LEMMA StepKeeps ==
  ASSUME AttemptsInv, AllChanged, NoneCreated, refused' = refused, RestType',
         \A q \in Roots, v \in Nat : Known(q, v) => Known(q, v)',
         (event # None => event.rev \in 1..MaxHigh /\ Known(event.root, event.rev))',
         PendingOK'
  PROVE  AttemptsInv'
<1>1. LogsOK' /\ TypeOK'
  BY AllChangedAgree, TypeFromRest DEF AttemptsInv
<1>2. CountsOK'
  BY CountsKept DEF AttemptsInv, TypeOK
<1>3. RootsOK'
  BY AttemptRootsKept DEF AttemptsInv, RootsOK
<1> QED
  BY <1>1, <1>2, <1>3 DEF AttemptsInv

LEMMA EventFields ==
  ASSUME RestType, event # None
  PROVE  /\ event \in Events /\ event.root \in Roots /\ event.start \in Nat
         /\ event.high \in 1..MaxHigh /\ event.at \in Nat /\ event.rev \in Nat
         /\ event.top \in Nat /\ event.since \in Nat
BY DEF RestType, Events

\* A known revision of a root is still known if the roots were left alone.
LEMMA EventKept ==
  ASSUME RootsOK, UNCHANGED <<roots, broken>>, event' \in {event, None}
  PROVE  (event # None => event.rev \in 1..MaxHigh /\ Known(event.root, event.rev))'
BY KnownStays DEF RootsOK, Known

LEMMA ScanRootStep == ASSUME AttemptsInv, ScanRoot PROVE AttemptsInv'
<1>1. /\ work \in Nat /\ work' = work + 1 /\ pc' = "tracking"
      /\ UNCHANGED <<attempts, log, refused, tracked, pending, clock, run>>
  BY DEF ScanRoot, Works, AttemptsInv, TypeOK
<1>2. PICK e \in (IF event = None THEN {} ELSE {event}) \cup UNION {Detections(r) : r \in Roots},
           rev \in 0..MaxHigh :
           UpsertsRoot(e.root, e.high, rev) /\ event' = [e EXCEPT !.rev = rev]
  BY DEF ScanRoot
<1>3. e \in Events
  <2>1. CASE event # None /\ e = event
    BY <2>1 DEF AttemptsInv, TypeOK
  <2>2. CASE \E r \in Roots : e \in Detections(r)
    <3>1. PICK r \in Roots, t \in Nat : e = Detected(r, t)
      BY <2>2, AttemptsAssumption DEF Detections, AttemptsInv, TypeOK
    <3> QED
      BY <3>1, AttemptsAssumption DEF Detected, Events
  <2> QED
    BY <2>1, <2>2
<1>4. e.root \in Roots /\ e.high \in 1..MaxHigh
  BY <1>3 DEF Events
<1>5. /\ roots' \in [Roots -> RootType \cup {None}] /\ broken' \subseteq Roots /\ faults' \in Nat
      /\ rev \in 1..MaxHigh /\ Known(e.root, rev)'
      /\ \A q \in Roots, v \in Nat : Known(q, v) => Known(q, v)'
  BY <1>2, <1>4, UpsertsRootOK DEF AttemptsInv
<1>6. event' \in Events /\ event'.root = e.root /\ event'.rev = rev
  BY <1>2, <1>3, <1>5 DEF Events
<1>7. RestType'
  BY <1>1, <1>5, <1>6 DEF AttemptsInv, TypeOK, RestType
<1>8. (event # None => event.rev \in 1..MaxHigh /\ Known(event.root, event.rev))'
  BY <1>5, <1>6 DEF Known
<1>9. PendingOK'
  BY <1>1, <1>6 DEF PendingOK
<1> QED
  BY <1>1, <1>5, <1>7, <1>8, <1>9, UnchangedIsChange, StepKeeps DEF AttemptsInv

LEMMA TrackStep == ASSUME AttemptsInv, Track PROVE AttemptsInv'
<1>1. /\ pc = "tracking" /\ pc' = "idle" /\ tracked' \in {event.root, None}
      /\ UNCHANGED <<roots, refused, event, pending, clock, run, faults, broken, work>>
  BY DEF Track
<1>2. event \in Events /\ event.root \in Roots
  BY <1>1 DEF AttemptsInv, PendingOK, Events
<1>3. AllChanged /\ NoneCreated
  BY UnchangedIsChange, ReplacesIsChange DEF Track, AttemptsInv
<1>4. RestType'
  BY <1>1, <1>2 DEF AttemptsInv, TypeOK, RestType, RootType
<1>5. PendingOK'
  BY <1>1 DEF PendingOK
<1> QED
  BY <1>1, <1>3, <1>4, <1>5, KnownStays, EventKept, StepKeeps DEF AttemptsInv

\* Steps that are about the process and its clock.
LEMMA QuietStep ==
  ASSUME AttemptsInv, Forget \/ NewHigh \/ Crash \/ Tick
  PROVE  AttemptsInv'
<1>1. UNCHANGED <<roots, broken, attempts, log, refused>>
  BY DEF Forget, NewHigh, Crash, Tick, tables
<1>2. RestType'
  <2>1. CASE Forget
    BY <2>1 DEF Forget, tables, AttemptsInv, TypeOK, RestType, RootType
  <2>2. CASE NewHigh
    <3>1. event # None /\ event \in Events /\ event.high < MaxHigh /\ clock \in Nat
      BY <2>2 DEF NewHigh, AttemptsInv, TypeOK
    <3>2. event' = [event EXCEPT !.high = event.high + 1, !.at = clock]
      BY <2>2 DEF NewHigh
    <3>3. event.high + 1 \in 1..MaxHigh
      BY <3>1, AttemptsAssumption DEF Events
    <3>4. event' \in Events
      BY <3>1, <3>2, <3>3 DEF Events
    <3> QED
      BY <2>2, <3>4 DEF NewHigh, Works, tables, AttemptsInv, TypeOK, RestType, RootType
  <2>3. CASE Crash
    BY <2>3 DEF Crash, tables, AttemptsInv, TypeOK, RestType, RootType
  <2>4. CASE Tick
    BY <2>4 DEF Tick, tables, AttemptsInv, TypeOK, RestType, RootType
  <2> QED
    BY <2>1, <2>2, <2>3, <2>4
<1>3. (event # None => event.rev \in 1..MaxHigh /\ Known(event.root, event.rev))'
  <2>1. CASE NewHigh
    <3>1. event # None /\ event \in Events /\ event' = [event EXCEPT !.high = event.high + 1, !.at = clock]
      BY <2>1 DEF NewHigh, AttemptsInv, TypeOK
    <3>2. event'.root = event.root /\ event'.rev = event.rev
      BY <3>1 DEF Events
    <3> QED
      BY <1>1, <3>1, <3>2 DEF AttemptsInv, RootsOK, Known
  <2>2. CASE Forget \/ Crash \/ Tick
    <3>1. event' \in {event, None}
      BY <2>2 DEF Forget, Crash, Tick
    <3> QED
      BY <1>1, <3>1, EventKept DEF AttemptsInv
  <2> QED
    BY <2>1, <2>2
<1>4. PendingOK'
  BY <1>1, <1>2 DEF Forget, NewHigh, Works, Crash, Tick, AttemptsInv, PendingOK, Known, Exists
<1> QED
  BY <1>1, <1>2, <1>3, <1>4, KnownStays, UnchangedIsChange, StepKeeps DEF AttemptsInv

\* A plan that is to be admitted.
LEMMA PlanOK ==
  ASSUME NEW id \in Ids, NEW s \in States, NEW x \in Nat, clock \in Nat,
         NEW then \in {"SHADOW_ACTIONABLE", "ACTIONABLE", "expire", "nothing"},
         Plan(id, s, x, then)
  PROVE  /\ pending' \in Plans /\ pending'.id = id /\ pending'.then = then /\ pending'.state = s
BY DEF Plan, Plans

LEMMA EvaluateVolumeStep == ASSUME AttemptsInv, EvaluateVolume PROVE AttemptsInv'
<1>1. /\ event # None /\ work \in Nat /\ work' = work + 1
      /\ UNCHANGED <<attempts, log, refused, tracked, clock, run>>
      /\ pc = "idle" /\ RestType
  BY RestOfType DEF EvaluateVolume, Works, AttemptsInv, TypeOK
<1>2. PICK high \in event.high..MaxHigh, rev \in 0..MaxHigh :
      \E v \in (IF Outlived THEN {[top |-> event.top, since |-> event.since, ready |-> FALSE]}
                ELSE Advanced(high)) :
          /\ UpsertsRoot(event.root, high, rev)
          /\ event' = [event EXCEPT !.top = v.top, !.since = v.since]
          /\ IF Outlived THEN UNCHANGED <<pc, pending>>
             ELSE /\ pc' = "admitting"
                  /\ Plan([root |-> event.root, kind |-> "volume", rev |-> rev],
                          IF v.ready THEN "SHADOW_ACTIONABLE" ELSE "RETEST_IN_PROGRESS",
                          v.since + Window,
                          IF v.ready THEN "SHADOW_ACTIONABLE" ELSE "nothing")
  BY DEF EvaluateVolume
<1>3. PICK v \in (IF Outlived THEN {[top |-> event.top, since |-> event.since, ready |-> FALSE]}
                  ELSE Advanced(high)) :
          /\ UpsertsRoot(event.root, high, rev)
          /\ event' = [event EXCEPT !.top = v.top, !.since = v.since]
          /\ IF Outlived THEN UNCHANGED <<pc, pending>>
             ELSE /\ pc' = "admitting"
                  /\ Plan([root |-> event.root, kind |-> "volume", rev |-> rev],
                          IF v.ready THEN "SHADOW_ACTIONABLE" ELSE "RETEST_IN_PROGRESS",
                          v.since + Window,
                          IF v.ready THEN "SHADOW_ACTIONABLE" ELSE "nothing")
  BY <1>2
<1>4. /\ event \in Events /\ event.root \in Roots /\ event.high \in 1..MaxHigh
      /\ event.at \in Nat /\ event.rev \in Nat /\ event.top \in Nat /\ event.since \in Nat
      /\ clock \in Nat /\ high \in 1..MaxHigh
  BY <1>1, <1>2, EventFields DEF RestType
<1>5. v.top \in Nat /\ v.since \in Nat
  <2>1. CASE Outlived
    BY <1>3, <1>4, <2>1
  <2>2. CASE ~Outlived
    <3> DEFINE top   == IF event.top = 0 THEN high ELSE event.top
               since == IF event.top = 0 THEN event.at ELSE event.since
    <3>1. PICK ready \in BOOLEAN :
            v = [top |-> IF high > top THEN high ELSE top,
                 since |-> IF high > top THEN clock ELSE since,
                 ready |-> ready]
      BY <1>3, <2>2 DEF Advanced
    <3>2. top \in Nat /\ since \in Nat /\ high \in Nat
      BY <1>4
    <3> HIDE DEF top, since
    <3> QED
      BY <1>4, <3>1, <3>2
  <2> QED
    BY <2>1, <2>2
<1>6. PICK r \in Roots, n \in Nat : event.root = r /\ event.rev = n
  BY <1>4
<1>event. event' \in Events /\ event'.root = r /\ event'.rev = n
  BY <1>3, <1>4, <1>5, <1>6 DEF Events
<1>7. /\ roots' \in [Roots -> RootType \cup {None}] /\ broken' \subseteq Roots /\ faults' \in Nat
      /\ rev \in 1..MaxHigh /\ Known(r, rev)'
      /\ \A q \in Roots, w \in Nat : Known(q, w) => Known(q, w)'
  <2>1. UpsertsRoot(r, high, rev)
    BY <1>3, <1>6
  <2> QED
    BY <1>4, <2>1, UpsertsRootOK DEF AttemptsInv
<1>8. (event # None => event.rev \in 1..MaxHigh /\ Known(event.root, event.rev))'
  <2>1. n \in 1..MaxHigh /\ Known(r, n)
    BY <1>1, <1>6 DEF AttemptsInv, RootsOK
  <2>2. Known(r, n)'
    BY <1>7, <2>1
  <2> QED
    BY <1>event, <2>1, <2>2 DEF Known
<1>9. CASE Outlived
  <2>1. UNCHANGED <<pc, pending>>
    BY <1>3, <1>9
  <2>2. RestType'
    BY <1>1, <1>event, <1>7, <2>1 DEF RestType
  <2>3. PendingOK'
    BY <1>1, <2>1 DEF PendingOK
  <2> QED
    BY <1>1, <1>7, <1>8, <2>2, <2>3, UnchangedIsChange, StepKeeps DEF AttemptsInv
<1>10. CASE ~Outlived
  <2> DEFINE id == [root |-> event.root, kind |-> "volume", rev |-> rev]
             s == IF v.ready THEN "SHADOW_ACTIONABLE" ELSE "RETEST_IN_PROGRESS"
             then == IF v.ready THEN "SHADOW_ACTIONABLE" ELSE "nothing"
  <2>1. pc' = "admitting" /\ Plan(id, s, v.since + Window, then)
    BY <1>3, <1>10
  <2>2. id \in Ids /\ id.root = r /\ id.kind = "volume" /\ id.rev = rev
    BY <1>4, <1>6, <1>7 DEF Ids, Kinds
  <2>3. /\ s \in States /\ v.since + Window \in Nat
        /\ then \in {"SHADOW_ACTIONABLE", "ACTIONABLE", "expire", "nothing"}
        /\ then \notin {"ACTIONABLE", "expire"}
    BY <1>5, AttemptsAssumption DEF States, Terminal
  <2> HIDE DEF id, s, then
  <2>4. pending' \in Plans /\ pending'.id = id /\ pending'.then = then
    BY <1>4, <2>1, <2>2, <2>3, PlanOK
  <2>5. RestType'
    BY <1>1, <1>event, <1>7, <2>1, <2>4 DEF RestType
  <2>6. PendingOK'
    <3>1. pending'.id.root = r /\ pending'.id.rev = rev /\ pending'.id.kind = "volume"
      BY <2>2, <2>4
    <3>2. pending'.then \notin {"ACTIONABLE", "expire"}
      BY <2>3, <2>4
    <3>3. (pc = "admitting" /\ pending.id.kind # "trap" => Known(pending.id.root, pending.id.rev))'
      BY <1>7, <3>1 DEF Known
    <3> QED
      BY <2>1, <2>4, <3>2, <3>3 DEF PendingOK
  <2> QED
    BY <1>1, <1>7, <1>8, <2>5, <2>6, UnchangedIsChange, StepKeeps DEF AttemptsInv
<1> QED
  BY <1>9, <1>10

LEMMA EvaluateRetestStep == ASSUME AttemptsInv, EvaluateRetest PROVE AttemptsInv'
<1>1. /\ event # None /\ work' = work + 1 /\ pc' = "admitting"
      /\ UNCHANGED <<roots, attempts, log, refused, event, tracked, clock, run, faults, broken>>
      /\ RestType /\ clock \in Nat
  BY RestOfType DEF EvaluateRetest, Works, tables, AttemptsInv, TypeOK
<1> DEFINE id == [root |-> event.root, kind |-> "retest", rev |-> event.rev]
<1>2. PICK actionable \in BOOLEAN, s \in {"BREAKDOWN_PENDING", "RETEST_IN_PROGRESS"} :
        Plan(id, s, clock + Ttl, IF actionable THEN "SHADOW_ACTIONABLE" ELSE "expire")
  BY DEF EvaluateRetest
<1> DEFINE then == IF actionable THEN "SHADOW_ACTIONABLE" ELSE "expire"
<1>3. id \in Ids /\ id.root = event.root /\ id.kind = "retest" /\ id.rev = event.rev
  BY <1>1, EventFields DEF AttemptsInv, RootsOK, Ids, Kinds
<1>4. /\ s \in States /\ clock + Ttl \in Nat
      /\ then \in {"SHADOW_ACTIONABLE", "ACTIONABLE", "expire", "nothing"} /\ then # "ACTIONABLE"
  BY <1>1, AttemptsAssumption DEF States
<1>5. Plan(id, s, clock + Ttl, then)
  BY <1>2
<1> HIDE DEF id, then
<1>6. pending' \in Plans /\ pending'.id = id /\ pending'.then = then
  BY <1>1, <1>3, <1>4, <1>5, PlanOK
<1>7. RestType'
  BY <1>1, <1>6 DEF RestType, RootType
<1>8. PendingOK'
  BY <1>1, <1>3, <1>4, <1>6 DEF PendingOK, AttemptsInv, RootsOK, Known
<1> QED
  BY <1>1, <1>7, <1>8, KnownStays, EventKept, UnchangedIsChange, StepKeeps DEF AttemptsInv

LEMMA CorrelateIsChange == ASSUME AttemptsInv, Correlate PROVE AllChanged /\ NoneCreated
<1>1. UNCHANGED attempts
  BY DEF Correlate
<1>2. PICK a \in Latest(event.root), then \in {"SHADOW_ACTIONABLE", "expire"} :
        /\ log' = [log EXCEPT ![a] = Logged(log[a], Entry("reused", attempts[a].state, "run"))]
        /\ Plan(a, attempts[a].state, attempts[a].expires, then)
  BY DEF Correlate
<1>3. a \in Ids /\ Exists(a) /\ a.kind # "trap"
  BY DEF Latest, OpenOf
<1>4. attempts[a].state \in States /\ attempts[a].expires \in Nat
  BY <1>3, RowTyped DEF AttemptsInv
<1> DEFINE e == Entry("reused", attempts[a].state, "run")
<1>5. e \in Entries /\ e.type = "reused"
  BY <1>4, EntryOK DEF AttemptsInv
<1>6. log' = [log EXCEPT ![a] = Logged(log[a], e)]
  BY <1>2
<1> HIDE DEF e
<1>7. Changed(a, attempts[a], log[a], attempts'[a], Logged(log[a], e))
  BY <1>1, <1>3, <1>5 DEF Changed, Marks, Exists
<1>8. attempts \in [Ids -> Attempts \cup {None}] /\ log \in [Ids -> Seq(Entries)]
  BY DEF AttemptsInv, TypeOK
<1>9. /\ log'[a] = Logged(log[a], e) /\ \A b \in Ids : b # a => log'[b] = log[b]
      /\ log' = [b \in Ids |-> log'[b]] /\ attempts' = [b \in Ids |-> attempts'[b]]
  BY <1>1, <1>3, <1>6, <1>8
<1>10. \A b \in Ids : Changed(b, attempts[b], log[b], attempts'[b], log'[b])
  BY <1>1, <1>7, <1>9 DEF Changed
<1> QED
  BY <1>1, <1>9, <1>10 DEF AllChanged, NoneCreated, Exists

LEMMA CorrelateStep == ASSUME AttemptsInv, Correlate PROVE AttemptsInv'
<1>1. /\ event # None /\ work' = work + 1 /\ pc' = "settling"
      /\ UNCHANGED <<roots, attempts, refused, event, tracked, clock, run, faults, broken>>
      /\ RestType /\ clock \in Nat
  BY RestOfType DEF Correlate, Works, AttemptsInv, TypeOK
<1>2. PICK a \in Latest(event.root), then \in {"SHADOW_ACTIONABLE", "expire"} :
        /\ log' = [log EXCEPT ![a] = Logged(log[a], Entry("reused", attempts[a].state, "run"))]
        /\ Plan(a, attempts[a].state, attempts[a].expires, then)
  BY DEF Correlate
<1>3. a \in Ids /\ Exists(a) /\ a.kind # "trap"
  BY DEF Latest, OpenOf
<1>4. attempts[a].state \in States /\ attempts[a].expires \in Nat
  BY <1>3, RowTyped DEF AttemptsInv
<1>5. pending' \in Plans /\ pending'.id = a /\ pending'.then = then
  BY <1>1, <1>2, <1>3, <1>4, PlanOK
<1>6. AllChanged /\ NoneCreated
  BY CorrelateIsChange
<1>7. RestType'
  BY <1>1, <1>5 DEF RestType, RootType
<1>8. PendingOK'
  BY <1>1, <1>3, <1>5 DEF PendingOK, Exists
<1> QED
  BY <1>1, <1>6, <1>7, <1>8, KnownStays, EventKept, StepKeeps DEF AttemptsInv

LEMMA EvaluateTrappedStep == ASSUME AttemptsInv, EvaluateTrapped PROVE AttemptsInv'
<1>1. /\ event # None /\ work' = work + 1 /\ pc' = "admitting"
      /\ UNCHANGED <<roots, attempts, log, refused, event, tracked, clock, run, faults, broken>>
      /\ RestType /\ clock \in Nat
  BY RestOfType DEF EvaluateTrapped, Works, tables, AttemptsInv, TypeOK
<1> DEFINE a == [root |-> event.root, kind |-> "trap", rev |-> 1]
           x == event.at + Lifetime
<1>2. \E s \in {"EXPIRED", "ACTIONABLE", "RETEST_IN_PROGRESS"}, then \in {"ACTIONABLE", "nothing"} :
        Plan(a, s, x, then)
  BY DEF EvaluateTrapped
<1>3. PICK s \in {"EXPIRED", "ACTIONABLE", "RETEST_IN_PROGRESS"}, then \in {"ACTIONABLE", "nothing"} :
        Plan(a, s, x, then)
  BY <1>2
<1>4. a \in Ids /\ a.kind = "trap" /\ x \in Nat
  BY <1>1, EventFields, AttemptsAssumption DEF Ids, Kinds
<1>5. /\ s \in States /\ then \in {"SHADOW_ACTIONABLE", "ACTIONABLE", "expire", "nothing"}
      /\ then # "expire"
  BY DEF States, Terminal
<1> HIDE DEF a, x
<1>6. pending' \in Plans /\ pending'.id = a /\ pending'.then = then
  BY <1>1, <1>3, <1>4, <1>5, PlanOK
<1>7. RestType'
  BY <1>1, <1>6 DEF RestType, RootType
<1>8. PendingOK'
  BY <1>1, <1>4, <1>5, <1>6 DEF PendingOK
<1> QED
  BY <1>1, <1>7, <1>8, KnownStays, EventKept, UnchangedIsChange, StepKeeps DEF AttemptsInv

\* What is pending when an evaluation is between two of its transactions.
LEMMA PendingFields ==
  ASSUME AttemptsInv, pc \in {"admitting", "settling"}
  PROVE  /\ pending \in Plans /\ pending.id \in Ids /\ pending.state \in States
         /\ pending.expires \in Nat /\ pending.at \in Nat
BY DEF AttemptsInv, PendingOK, Plans

LEMMA SettleIsChange == ASSUME AttemptsInv, Settle PROVE AllChanged /\ NoneCreated
<1>1. pc = "settling"
  BY DEF Settle
<1>2. pending.id \in Ids
  BY <1>1, PendingFields
<1>3. CASE pending.then = "nothing" /\ UNCHANGED <<attempts, log>>
  BY <1>3, UnchangedIsChange DEF AttemptsInv
<1>4. CASE pending.then = "expire" /\ Expires(pending.id, pending.at)
  <2>1. Exists(pending.id)
    BY <1>1, <1>4 DEF AttemptsInv, PendingOK
  <2> QED
    BY <1>2, <1>4, <2>1, ExpiresIsChange DEF AttemptsInv
<1>5. CASE pending.then \in States /\ Transitions(pending.id, pending.then)
  <2>1. pending.then \in {"SHADOW_ACTIONABLE", "ACTIONABLE", "expire", "nothing"}
    BY <1>1, PendingFields DEF Plans
  <2>2. pending.id.kind # "trap" => pending.then # "ACTIONABLE"
    BY <1>1 DEF AttemptsInv, PendingOK
  <2>3. pending.id.kind # "trap" => pending.then \in Terminal
    BY <1>5, <2>1, <2>2 DEF States, Terminal
  <2> QED
    BY <1>2, <1>5, <2>3, TransitionsIsChange DEF AttemptsInv
<1> QED
  BY <1>3, <1>4, <1>5 DEF Settle

LEMMA SettleStep == ASSUME AttemptsInv, Settle PROVE AttemptsInv'
<1>1. /\ pc = "settling" /\ pc' = "idle" /\ pending' = None
      /\ UNCHANGED <<roots, refused, event, tracked, clock, run, faults, broken, work>>
      /\ RestType
  BY RestOfType DEF Settle, AttemptsInv
<1>3. AllChanged /\ NoneCreated
  BY SettleIsChange
<1>4. RestType'
  BY <1>1 DEF RestType
<1>5. PendingOK'
  BY <1>1 DEF PendingOK
<1> QED
  BY <1>1, <1>3, <1>4, <1>5, KnownStays, EventKept, StepKeeps DEF AttemptsInv

LEMMA StartStep == ASSUME AttemptsInv, Start PROVE AttemptsInv'
<1>1. /\ run' = run + 1 /\ pc' = "idle"
      /\ UNCHANGED <<roots, refused, event, tracked, pending, clock, faults, broken, work>>
      /\ RestType
  BY RestOfType DEF Start, AttemptsInv
<1>2. AllChanged /\ NoneCreated
  BY StartIsChange DEF AttemptsInv
<1>3. RestType'
  BY <1>1 DEF RestType
<1>4. PendingOK'
  BY <1>1 DEF PendingOK
<1> QED
  BY <1>1, <1>2, <1>3, <1>4, KnownStays, EventKept, StepKeeps DEF AttemptsInv

\* upsert_shadow_entry_attempt creates the attempt, which is not yet there.
LEMMA CreatesIsChange ==
  ASSUME AttemptsInv, NEW a \in Ids, ~Exists(a), NEW s \in States, NEW x \in Nat, NEW t \in Nat,
         Creates(a, s, x, t)
  PROVE  /\ AllChanged /\ refused' = refused
         /\ \A b \in Ids : b # a => attempts'[b] = attempts[b]
<1> DEFINE row == [state |-> s, created |-> t, expires |-> x, closed |-> s \in Terminal]
           e   == Entry("created", s, "fresh")
<1>1. Writes(a, row, <<e>>) /\ refused' = refused
  BY DEF Creates
<1>2. e \in Entries /\ e.type = "created" /\ e.to = s
  BY EntryOK DEF AttemptsInv
<1>3. row = [state |-> s, created |-> t, expires |-> x, closed |-> s \in Terminal] /\ row.state = s
  OBVIOUS
<1> HIDE DEF row, e
<1>4. Created(attempts[a], log[a], row, <<e>>)
  BY <1>2, <1>3 DEF Created, Exists
<1>5. Changed(a, attempts[a], log[a], row, <<e>>)
  BY <1>4 DEF Changed
<1> QED
  BY <1>1, <1>5, WritesIsChange DEF AttemptsInv

LEMMA AdmitStep == ASSUME AttemptsInv, Admit PROVE AttemptsInv'
<1>1. /\ pc = "admitting" /\ pc' \in {"settling", "idle"}
      /\ UNCHANGED <<roots, event, tracked, pending, clock, run, faults, broken, work>>
      /\ RestType
  BY RestOfType DEF Admit, AttemptsInv
<1> DEFINE a == pending.id
<1>2. PICK ok \in BOOLEAN :
        /\ Upserts(a, pending.state, pending.expires, pending.at, ok)
        /\ pc' = IF ok \/ a.kind = "trap" THEN "settling" ELSE "idle"
  BY DEF Admit
<1>3. /\ a \in Ids /\ pending.state \in States /\ pending.expires \in Nat /\ pending.at \in Nat
      /\ pending' = pending /\ pending \in Plans
  BY <1>1, PendingFields
<1>4. /\ pending.then = "ACTIONABLE" => a.kind = "trap"
      /\ pending.then = "expire" => a.kind # "trap"
      /\ a.kind # "trap" => Known(a.root, a.rev)
  BY <1>1 DEF AttemptsInv, PendingOK
<1>5. (event # None => event.rev \in 1..MaxHigh /\ Known(event.root, event.rev))'
  BY <1>1, EventKept DEF AttemptsInv
\* Whoever goes on to settle has found the attempt or created it.
<1>6. ASSUME ok => Exists(a)' PROVE PendingOK'
  <2>1. pc' = "settling" /\ pending.then = "expire" => Exists(a)'
    BY <1>2, <1>4, <1>6
  <2> QED
    BY <1>1, <1>3, <1>4, <2>1 DEF PendingOK, Exists
<1>7. RestType /\ refused' \subseteq Ids => RestType'
  BY <1>1 DEF RestType
<1>8. CASE Exists(a) /\ Observes(a, pending.state, pending.expires) /\ UNCHANGED refused
  <2>1. AllChanged /\ NoneCreated
    BY <1>3, <1>8, ObservesIsChange DEF AttemptsInv
  <2>2. Exists(a)'
    <3>1. attempts'[a] # None
      BY <1>3, <1>8, <2>1, CountsStay DEF AttemptsInv, Exists
    <3> QED
      BY <1>3, <3>1 DEF Exists
  <2>3. RestType'
    BY <1>1, <1>7, <1>8 DEF RestType
  <2> QED
    BY <1>1, <1>5, <1>6, <1>8, <2>1, <2>2, <2>3, KnownStays, StepKeeps
<1>9. CASE /\ ~Exists(a) /\ ~AtLimit(a)
           /\ Creates(a, pending.state, pending.expires, pending.at)
  <2>1. /\ AllChanged /\ refused' = refused
        /\ \A b \in Ids : b # a => attempts'[b] = attempts[b]
    BY <1>3, <1>9, CreatesIsChange
  <2>2. LogsOK' /\ attempts' \in [Ids -> Attempts \cup {None}] /\ log' \in [Ids -> Seq(Entries)]
    BY <2>1, AllChangedAgree DEF AttemptsInv
  <2>3. RestType' /\ TypeOK'
    BY <1>1, <1>7, <2>1, <2>2, TypeFromRest DEF RestType
  <2>4. CountsOK'
    BY <1>3, <1>9, <2>1, CountsAfterCreation DEF AttemptsInv, TypeOK
  <2>5. RootsOK'
    <3>1. \A b \in Ids : Exists(b)' /\ b.kind # "trap" => Known(b.root, b.rev)
      BY <1>4, <2>1 DEF AttemptsInv, RootsOK, Exists
    <3>2. \A b \in Ids : Exists(b)' /\ b.kind # "trap" => Known(b.root, b.rev)'
      BY <1>1, <3>1, KnownStays
    <3> QED
      BY <1>5, <3>2 DEF RootsOK
  <2>6. Exists(a)'
    <3>1. attempts'[a] # None
      <4> DEFINE row == [state |-> pending.state, created |-> pending.at, expires |-> pending.expires,
                         closed |-> pending.state \in Terminal]
      <4>1. attempts' = [attempts EXCEPT ![a] = row] /\ attempts \in [Ids -> Attempts \cup {None}]
        BY <1>9 DEF Creates, Writes, AttemptsInv, TypeOK
      <4>2. row \in Attempts
        <5>1. (pending.state \in Terminal) \in BOOLEAN
          OBVIOUS
        <5> QED
          BY <1>3, <5>1 DEF Attempts
      <4> HIDE DEF row
      <4> QED
        BY <1>3, <4>1, <4>2, AttemptsAssumption
    <3> QED
      BY <1>3, <3>1 DEF Exists
  <2> QED
    BY <1>6, <2>2, <2>3, <2>4, <2>5, <2>6 DEF AttemptsInv
<1>10. CASE ~Exists(a) /\ AtLimit(a) /\ ~ok /\ refused' = refused \cup {a} /\ UNCHANGED <<attempts, log>>
  <2>1. AllChanged /\ NoneCreated
    BY <1>10, UnchangedIsChange DEF AttemptsInv
  <2>2. LogsOK' /\ attempts' \in [Ids -> Attempts \cup {None}] /\ log' \in [Ids -> Seq(Entries)]
    BY <2>1, AllChangedAgree DEF AttemptsInv
  <2>3. RestType' /\ TypeOK'
    <3>1. refused' \subseteq Ids
      BY <1>1, <1>3, <1>10 DEF RestType
    <3> QED
      BY <1>1, <1>7, <2>2, <3>1, TypeFromRest
  <2>4. CountsOK'
    <3>1. \A b : Counted(b)' = Counted(b) /\ (Exists(b)' <=> Exists(b))
      BY <1>10 DEF Counted, SameRoot, Exists
    <3>2. \A b : AtLimit(b)' <=> AtLimit(b)
      BY <3>1 DEF AtLimit, LimitOf
    <3>3. \A b \in refused' : ~Exists(b) /\ AtLimit(b)
      BY <1>10 DEF AttemptsInv, CountsOK
    <3>4. \A b \in Ids : IsFiniteSet(Counted(b)') /\ Cardinality(Counted(b)') <= LimitOf(b)
      BY <3>1 DEF AttemptsInv, CountsOK
    <3>5. \A b \in refused' : ~Exists(b)' /\ AtLimit(b)'
      BY <3>1, <3>2, <3>3
    <3> QED
      BY <3>4, <3>5 DEF CountsOK, LimitOf
  <2>5. RootsOK'
    <3>1. \A b \in Ids : Exists(b)' /\ b.kind # "trap" => Known(b.root, b.rev)'
      BY <1>1, <2>1, KnownStays, AttemptRootsKept DEF AttemptsInv
    <3> QED
      BY <1>5, <3>1 DEF RootsOK
  <2> QED
    BY <1>6, <1>10, <2>2, <2>3, <2>4, <2>5 DEF AttemptsInv
<1>11. CASE ~Exists(a) /\ ~ok /\ UNCHANGED <<attempts, log, refused>>
  <2>1. AllChanged /\ NoneCreated
    BY <1>11, UnchangedIsChange DEF AttemptsInv
  <2>2. RestType'
    BY <1>1, <1>7, <1>11 DEF RestType
  <2> QED
    BY <1>1, <1>5, <1>6, <1>11, <2>1, <2>2, KnownStays, StepKeeps
<1> QED
  BY <1>2, <1>8, <1>9, <1>10, <1>11 DEF Upserts

LEMMA AdmitIsChange == ASSUME AttemptsInv, Admit PROVE AllChanged
<1> DEFINE a == pending.id
<1>1. a \in Ids /\ pending.state \in States /\ pending.expires \in Nat /\ pending.at \in Nat
  BY PendingFields DEF Admit
<1>2. \/ Exists(a) /\ Observes(a, pending.state, pending.expires)
      \/ ~Exists(a) /\ Creates(a, pending.state, pending.expires, pending.at)
      \/ UNCHANGED <<attempts, log>>
  BY DEF Admit, Upserts
<1> QED
  BY <1>1, <1>2, ObservesIsChange, CreatesIsChange, UnchangedIsChange DEF AttemptsInv

LEMMA AttemptsInit == Init => AttemptsInv
<1> SUFFICES ASSUME Init PROVE AttemptsInv
  OBVIOUS
<1>1. TypeOK
  <2>1. <<>> \in Seq(Entries)
    OBVIOUS
  <2> QED
    BY <2>1 DEF Init, TypeOK
<1>2. \A a \in Ids : ~Exists(a) /\ log[a] = <<>>
  BY DEF Init, Exists
<1>3. LogsOK
  BY <1>2 DEF LogsOK, Agree, Exists
<1>4. CountsOK
  <2>1. \A a : Counted(a) = {}
    BY <1>2 DEF Counted
  <2>2. IsFiniteSet({}) /\ Cardinality({}) = 0
    BY FS_EmptySet
  <2>3. \A a : IsFiniteSet(Counted(a)) /\ Cardinality(Counted(a)) = 0
    BY <2>1, <2>2
  <2> QED
    BY <2>3, LimitIsNat DEF CountsOK, Init
<1>5. RootsOK /\ PendingOK
  BY <1>2 DEF RootsOK, PendingOK, Init
<1> QED
  BY <1>1, <1>3, <1>4, <1>5 DEF AttemptsInv

LEMMA AttemptsNext == AttemptsInv /\ [Next]_vars => AttemptsInv'
<1> SUFFICES ASSUME AttemptsInv, [Next]_vars PROVE AttemptsInv'
  OBVIOUS
<1>1. CASE UNCHANGED vars
  <2>1. UNCHANGED <<roots, broken, attempts, log, refused, event>>
    BY <1>1 DEF vars, tables
  <2>2. RestType' /\ PendingOK'
    BY <1>1, RestOfType DEF vars, tables, AttemptsInv, RestType, PendingOK, Known, Exists
  <2> QED
    BY <2>1, <2>2, KnownStays, EventKept, UnchangedIsChange, StepKeeps DEF AttemptsInv
<1>2. CASE Next
  BY <1>2, ScanRootStep, TrackStep, QuietStep, EvaluateVolumeStep, EvaluateRetestStep, CorrelateStep,
     EvaluateTrappedStep, AdmitStep, SettleStep, StartStep DEF Next
<1> QED
  BY <1>1, <1>2

-----------------------------------------------------------------------------
(***************************************************************************)
(* The theorems.                                                           *)
(***************************************************************************)
\* What the properties below follow from: the types, each attempt and its log
\* telling the same story, the counts and roots of the attempts, and what an
\* evaluation still knows when it comes back from a transaction.
THEOREM AttemptsInvariant == Spec => []AttemptsInv
<1>1. Init => AttemptsInv
  BY AttemptsInit
<1>2. AttemptsInv /\ [Next]_vars => AttemptsInv'
  BY AttemptsNext
<1> QED
  BY <1>1, <1>2, PTL DEF Spec

\* Every variable has its type, whatever the roots, windows and limits are.
THEOREM TypeCorrect == Spec => []TypeOK
<1>1. AttemptsInv => TypeOK
  BY DEF AttemptsInv
<1> QED
  BY <1>1, AttemptsInvariant, PTL

\* upsert_shadow_entry_attempt counts before it inserts and nothing uncounts an
\* attempt: the limit of a root holds for ever, and stays shut to whom it refused.
THEOREM LimitAlwaysHolds == Spec => []LimitHolds
<1>1. AttemptsInv => LimitHolds
  BY DEF AttemptsInv, CountsOK, LimitHolds
<1> QED
  BY <1>1, AttemptsInvariant, PTL

\* _append_attempt_event drops an entry whose key is there, and yet the log of
\* an attempt always ends in its state and closes it once.
THEOREM LogAlwaysTellsState == Spec => []LogTellsState
<1>1. ASSUME AttemptsInv, NEW a \in Ids
      PROVE  IF ~Exists(a) THEN log[a] = <<>>
             ELSE /\ LastMove(log[a], attempts[a].state)
                  /\ Cardinality(Closes(log[a])) =
                         IF attempts[a].closed /\ log[a][1].to \notin Terminal THEN 1 ELSE 0
  <2>1. CASE ~Exists(a)
    BY <1>1, <2>1 DEF AttemptsInv, LogsOK, Agree, Exists
  <2>2. CASE Exists(a)
    <3>1. Tells(attempts[a], log[a])
      BY <1>1, <2>2 DEF AttemptsInv, LogsOK, Agree, Exists
    <3>2. CASE attempts[a].closed /\ log[a][1].to \notin Terminal
      <4>1. PICK i \in DOMAIN log[a] : Closes(log[a]) = {i}
        BY <3>1, <3>2 DEF Tells, ClosedLog
      <4> QED
        BY <2>2, <3>1, <3>2, <4>1, FS_Singleton DEF Tells
    <3>3. CASE attempts[a].closed /\ log[a][1].to \in Terminal
      <4>1. Closes(log[a]) = {}
        BY <3>1, <3>3 DEF Tells, ClosedLog
      <4> QED
        BY <2>2, <3>1, <3>3, <4>1, FS_EmptySet DEF Tells
    <3>4. CASE ~attempts[a].closed
      <4>1. Closes(log[a]) = {}
        BY <3>1, <3>4 DEF Tells, OpenLog, Closes
      <4> QED
        BY <2>2, <3>1, <3>4, <4>1, FS_EmptySet DEF Tells
    <3> QED
      BY <3>2, <3>3, <3>4
  <2> QED
    BY <2>1, <2>2
<1>2. AttemptsInv => LogTellsState
  BY <1>1 DEF LogTellsState, LastMove
<1> QED
  BY <1>2, AttemptsInvariant, PTL

\* A climax attempt is only admitted after the upsert of its root has returned
\* its revision, and a root never goes back: the root is there, or its write failed.
THEOREM RootComesBeforeAttempt == Spec => []RootBeforeAttempt
<1>1. AttemptsInv => RootBeforeAttempt
  BY DEF AttemptsInv, RootsOK, Known, RootBeforeAttempt
<1> QED
  BY <1>1, AttemptsInvariant, PTL

\* Every step changes every attempt, if at all, in one of the ways of Changed.
LEMMA StepsChange ==
  ASSUME AttemptsInv, Next
  PROVE  \A a \in Ids : Changed(a, attempts[a], log[a], attempts'[a], log'[a])
<1>1. TypeOK
  BY DEF AttemptsInv
<1>2. AllChanged \/ UNCHANGED <<attempts, log>>
  <2>1. CASE Track
    BY <1>1, <2>1, ReplacesIsChange DEF Track
  <2>2. CASE Correlate
    BY <2>2, CorrelateIsChange
  <2>3. CASE Admit
    BY <2>3, AdmitIsChange
  <2>4. CASE Settle
    BY <2>4, SettleIsChange
  <2>5. CASE Start
    BY <1>1, <2>5, StartIsChange
  <2>6. CASE ScanRoot \/ Forget \/ NewHigh \/ EvaluateVolume \/ EvaluateRetest \/ EvaluateTrapped \/ Crash \/ Tick
    BY <2>6 DEF ScanRoot, Forget, NewHigh, EvaluateVolume, EvaluateRetest, EvaluateTrapped, Crash, Tick, tables
  <2> QED
    BY <2>1, <2>2, <2>3, <2>4, <2>5, <2>6 DEF Next
<1> QED
  BY <1>2 DEF AllChanged, Changed

\* A late transition never touches a closed attempt, never reopens a climax
\* attempt that was terminal, and nothing moves the end of a window.
THEOREM TerminalStaysFinal == Spec => TerminalIsFinal
<1>1. ASSUME AttemptsInv, Next
      PROVE  \A a \in Ids : Exists(a) =>
               /\ attempts[a].closed => attempts'[a] = attempts[a]
               /\ a.kind # "trap" /\ attempts[a].state \in Terminal
                     => attempts'[a].state \in Terminal
               /\ attempts'[a].expires = attempts[a].expires
  <2> TAKE a \in Ids
  <2>1. Agree(attempts[a], log[a]) /\ Changed(a, attempts[a], log[a], attempts'[a], log'[a])
    BY <1>1, StepsChange DEF AttemptsInv, LogsOK
  <2> QED
    BY <2>1, ChangedKeeps DEF Exists
<1>2. ASSUME AttemptsInv, [Next]_vars
      PROVE  [\A a \in Ids : Exists(a) =>
                /\ attempts[a].closed => attempts'[a] = attempts[a]
                /\ a.kind # "trap" /\ attempts[a].state \in Terminal
                      => attempts'[a].state \in Terminal
                /\ attempts'[a].expires = attempts[a].expires]_attempts
  BY <1>1, <1>2 DEF vars, tables
<1> QED
  BY <1>2, AttemptsInvariant, PTL DEF Spec, TerminalIsFinal
=============================================================================
