---------------------------- MODULE MCStateStore ----------------------------
(***************************************************************************)
(* StateStore on small instances, and its refinement of StateLifecycle.    *)
(***************************************************************************)
EXTENDS StateStore, TLC

Silent == {FALSE}
Always == {TRUE}
Either == {TRUE, FALSE}

\* Keys and versions are only compared for equality.
Symmetry == Permutations(Keys) \cup Permutations(Versions)
WorkerSymmetry == Symmetry \cup Permutations(Workers)

=============================================================================
