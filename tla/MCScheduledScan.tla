--------------------------- MODULE MCScheduledScan ---------------------------
(* ScheduledScan for TLC. *)
EXTENDS ScheduledScan

\* Scanner 1 is of another family than scanner 2.
TwoFamilies == <<"signal", "technical">>

=============================================================================
