---------------------------- MODULE MCExecution ----------------------------
(* Execution for TLC.  Run r1 writes b1.  Narrow, it has a wall-clock      *)
(* budget.  Wide, it has none, and r2 is a run with a budget that owns the *)
(* read-only b2, which only an operator can start.                         *)
EXTENDS Execution, TLC

CONSTANTS r1, r2, b1, b2, Wide

MCRunIds == {r1} \cup (IF Wide THEN {r2} ELSE {})
MCBindings == {b1} \cup (IF Wide THEN {b2} ELSE {})
MCOwner == [b \in MCBindings |-> IF b = b1 THEN r1 ELSE r2]
MCWriteGrants == [r \in MCRunIds |-> IF r = r1 THEN {b1} ELSE {}]
MCWallLimit == [r \in MCRunIds |-> IF Wide /\ r = r1 THEN NoLimit ELSE 1]
Symmetry == Permutations(Executors)
=============================================================================
