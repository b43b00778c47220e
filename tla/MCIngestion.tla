---------------------------- MODULE MCIngestion ----------------------------
(* Ingestion for TLC. *)
EXTENDS Ingestion

CONSTANTS short, long

\* The processes ask for different numbers of bars.
Windows == [w \in Workers |-> IF w = short THEN 2 ELSE 3]

=============================================================================
