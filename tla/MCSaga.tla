------------------------------- MODULE MCSaga -------------------------------
(* Saga for TLC: r1 wants k1; r2 wants both keys to write, which is one    *)
(* more than a run may have.                                               *)
EXTENDS Saga, TLC

CONSTANTS r1, r2, k1, k2

MCRunIds == {r1, r2}
MCKeys == {k1, k2}
MCWorktrees ==
    (r1 :> <<[key |-> k1, access |-> "write"]>>)
      @@ (r2 :> <<[key |-> k2, access |-> "write"], [key |-> k1, access |-> "write"]>>)
Symmetry == Permutations(Calls)

(* What the saga tells apart of a row: neither the epoch nor, with a Ttl   *)
(* of one, how long ago a lease ran out.                                   *)
Told(row) == <<row.owner, row.lifecycle, Live(row), row.left = NoLease>>

View ==
    <<status, movedBy, created, [k \in Keys |-> Told(binding[k])], grants, call,
      overlapped, undone, faults, others>>
=============================================================================
