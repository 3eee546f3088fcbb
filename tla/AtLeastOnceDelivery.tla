------------------------ MODULE AtLeastOnceDelivery ------------------------
(***************************************************************************)
(* What the durable delivery outbox promises, without leases, batches,     *)
(* workers or clocks: a message is enqueued once; Telegram may accept it   *)
(* several times, but never more than MaxAttempts times; it settles as     *)
(* "sent" only when Telegram accepted it, or as "dead"; and a settled      *)
(* message is never touched again.  DeliveryOutbox implements this         *)
(* specification whenever a send finishes within its lease.                *)
(***************************************************************************)
EXTENDS Naturals

CONSTANTS Items,        \* the messages
          MaxAttempts   \* the attempts after which a delivery is given up

VARIABLES state,     \* state[i]: where message i is in its life
          accepted   \* accepted[i]: how often Telegram accepted message i

vars == <<state, accepted>>

Init == /\ state = [i \in Items |-> "absent"]
        /\ accepted = [i \in Items |-> 0]

\* Message i stays as it is.
Rest(i) == state'[i] = state[i] /\ accepted'[i] = accepted[i]

\* A signal or watch is persisted together with its outbox row.
Enqueue(i) == /\ state[i] = "absent"
              /\ state'[i] = "queued"
              /\ accepted'[i] = accepted[i]

\* Telegram accepts the message and the worker may learn it, or the answer
\* is lost and the message stays queued or is given up.
Accept(i) == /\ state[i] = "queued"
             /\ accepted[i] < MaxAttempts
             /\ accepted'[i] = accepted[i] + 1
             /\ state'[i] \in {"queued", "sent", "dead"}

\* The message is given up.
GiveUp(i) == /\ state[i] = "queued"
             /\ state'[i] = "dead"
             /\ accepted'[i] = accepted[i]

\* Messages are independent; one transaction or crash may move several.
Next == /\ state' \in [Items -> {"absent", "queued", "sent", "dead"}]
        /\ accepted' \in [Items -> Nat]
        /\ \A i \in Items : Rest(i) \/ Enqueue(i) \/ Accept(i) \/ GiveUp(i)

Spec == Init /\ [][Next]_vars
=============================================================================
