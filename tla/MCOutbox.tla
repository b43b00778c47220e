------------------------------ MODULE MCOutbox ------------------------------
(***************************************************************************)
(* Outbox with a central publisher and one that publishes only some        *)
(* messages, and the numbers of failures of each run.                      *)
(***************************************************************************)
EXTENDS Outbox

CONSTANTS m1, m2, central, targeted

TwoMessages == {m1, m2}
BothPublishers == {central, targeted}
Scopes == [p \in BothPublishers |-> IF p = central THEN {m1, m2} ELSE {m1}]

AnyFault == [f \in FaultKinds |-> IF f = "rejected" THEN 2 ELSE 1]
OnlyOverruns == [f \in FaultKinds |-> IF f = "overrun" THEN 1 ELSE 0]

=============================================================================
