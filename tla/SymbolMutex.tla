---------------------------- MODULE SymbolMutex ----------------------------
(***************************************************************************)
(* What per-symbol ownership promises: of the tasks that ask for a symbol, *)
(* whatever spelling they use, at most one is inside its transition at a   *)
(* time; tasks of different symbols do not wait for one another.           *)
(***************************************************************************)
CONSTANTS Tasks, Keys, Nobody

VARIABLES asking,   \* asking[k]: the tasks that wait for key k
          holder    \* holder[k]: the task inside a transition of k, or Nobody

vars == <<asking, holder>>

Init == /\ asking = [k \in Keys |-> {}]
        /\ holder = [k \in Keys |-> Nobody]

\* Task t asks for key k.
Ask(t, k) == /\ \A j \in Keys : t \notin asking[j] /\ holder[j] # t
             /\ asking' = [asking EXCEPT ![k] = @ \cup {t}]
             /\ UNCHANGED holder

\* Task t gives up asking: it was cancelled.
Withdraw(t, k) == /\ t \in asking[k]
                  /\ asking' = [asking EXCEPT ![k] = @ \ {t}]
                  /\ UNCHANGED holder

\* Task t enters, having asked before or finding k free.
Enter(t, k) == /\ holder[k] = Nobody
               /\ \A j \in Keys : holder[j] # t /\ (j # k => t \notin asking[j])
               /\ asking' = [asking EXCEPT ![k] = @ \ {t}]
               /\ holder' = [holder EXCEPT ![k] = t]

\* Task t leaves.
Leave(t, k) == /\ holder[k] = t
               /\ holder' = [holder EXCEPT ![k] = Nobody]
               /\ UNCHANGED asking

Next == \E t \in Tasks : \E k \in Keys :
           Ask(t, k) \/ Withdraw(t, k) \/ Enter(t, k) \/ Leave(t, k)

Spec == Init /\ [][Next]_vars
=============================================================================
