------------------------------ MODULE MCLeases ------------------------------
(* Leases for TLC: clients contend for one binding, owned by one of two    *)
(* runs.                                                                   *)
EXTENDS Leases, TLC

CONSTANTS b1, r1, r2

MCBindings == {b1}
MCRunIds == {r1, r2}
MCOwner == [b \in MCBindings |-> r1]
Symmetry == Permutations(Clients)
=============================================================================
