--------------------------- MODULE MCCommandJobs ---------------------------
(* CommandJobs for TLC. *)
EXTENDS CommandJobs

AnyFault == [f \in FaultKinds |-> 1]

=============================================================================
