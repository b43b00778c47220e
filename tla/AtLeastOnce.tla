----------------------------- MODULE AtLeastOnce -----------------------------
(***************************************************************************)
(* What the transactional outbox promises (contract clauses 24 and 25): a  *)
(* message that was put in is delivered at least once, nothing else is     *)
(* delivered, and a message is only closed when it has been delivered.     *)
(***************************************************************************)
EXTENDS Naturals

CONSTANT Messages

VARIABLES
    wanted,         \* messages put into the outbox
    closed,         \* messages recorded as sent
    delivered       \* times a message appeared in the chat

vars == <<wanted, closed, delivered>>

Init == wanted = {} /\ closed = {} /\ delivered = [m \in Messages |-> 0]

Want(m) ==
    /\ m \notin wanted
    /\ wanted' = wanted \cup {m}
    /\ UNCHANGED <<closed, delivered>>

Deliver(m) ==
    /\ m \in wanted
    /\ delivered' = [delivered EXCEPT ![m] = @ + 1]
    /\ UNCHANGED <<wanted, closed>>

Close(m) ==
    /\ m \in wanted \ closed /\ delivered[m] > 0
    /\ closed' = closed \cup {m}
    /\ UNCHANGED <<wanted, delivered>>

Next == \E m \in Messages : Want(m) \/ Deliver(m) \/ Close(m)

Spec == Init /\ [][Next]_vars
Served == \A m \in Messages : m \in wanted ~> m \in closed

=============================================================================
