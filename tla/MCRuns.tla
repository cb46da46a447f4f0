------------------------------- MODULE MCRuns -------------------------------
(* Runs for TLC: families of three runs.                                   *)
EXTENDS Runs, TLC

Symmetry == Permutations(RunIds)
=============================================================================
