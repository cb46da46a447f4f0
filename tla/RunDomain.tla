----------------------------- MODULE RunDomain -----------------------------
(***************************************************************************)
(* The pure domain logic of a Run (coordinator/src/domain.rs): its ten     *)
(* statuses, the closed transition table and the terminal statuses.  The   *)
(* strings are the ones the code stores in runs.status.                    *)
(***************************************************************************)

RunStatus == {"draft", "provisioning", "ready", "running", "verifying",
              "paused", "blocked", "completed", "failed", "cancelled"}

(* The pairs (from, to) that can_transition_to accepts; all others are     *)
(* rejected.                                                               *)
LegalEdges ==
    ({"draft"} \X {"provisioning", "cancelled"})
      \cup ({"provisioning"} \X {"ready", "failed", "cancelled"})
      \cup ({"ready"} \X {"running", "cancelled"})
      \cup ({"running"} \X {"verifying", "paused", "blocked", "failed", "cancelled"})
      \cup ({"verifying"} \X {"completed", "running", "blocked", "failed", "cancelled"})
      \cup ({"paused", "blocked"} \X {"running", "failed", "cancelled"})

CanTransitionTo(from, to) == <<from, to>> \in LegalEdges

IsTerminal(s) == s \in {"completed", "failed", "cancelled"}
=============================================================================
