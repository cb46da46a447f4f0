---------------------------- MODULE MCWorkspace ----------------------------
(* Workspace for TLC: two fields, patches that overlap, a request of two   *)
(* patches, and one that replaces the state by a value that is no object.  *)
EXTENDS Workspace, TLC

CONSTANTS f1, f2, v1, v2

MCFields == {f1, f2}
Patch(x, y) == [object |-> TRUE, fields |-> (f1 :> x) @@ (f2 :> y)]
MCRequests == {<<Patch(v1, Absent)>>, <<Patch(v2, v2)>>,
               <<Patch(Absent, v1), Patch(v2, Absent)>>,
               <<[object |-> FALSE, value |-> v1]>>}
Symmetry == Permutations(Clients)
=============================================================================
