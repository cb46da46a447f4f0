--------------------------- MODULE MCTransitionTx ---------------------------
(* TransitionTx for TLC: clients race on one run.                          *)
EXTENDS TransitionTx, TLC

Symmetry == Permutations(Clients)
=============================================================================
