----------------------------- MODULE MCHarness ------------------------------
EXTENDS Harness

CONSTANTS c1, a1, a2

(* Two events of one channel, whose authors' clocks disagree with the order*)
(* they arrive in.                                                         *)
MCEvents == 1..2
MCCreatedAt == <<2, 1>>
SameChannel == <<c1, c1>>
Slots == Permutations(Agents)
=============================================================================
