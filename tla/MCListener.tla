----------------------------- MODULE MCListener -----------------------------
(* Listener for TLC. *)
EXTENDS Listener

=============================================================================
