----------------------------- MODULE Reconciler -----------------------------
(***************************************************************************)
(* The reconciler (coordinator/src/reconcile.rs): sweep_once, statement by *)
(* statement.  Every statement is its own transaction, so anything may     *)
(* happen to a row between the SELECT that found it and the write.         *)
(***************************************************************************)
EXTENDS Control

VARIABLE sweep   \* the sweep in progress: its pass, the rows of the pass's
                 \* SELECT still to do, the runs pause_once has seen in this
                 \* pass, and the run it is pausing

Asleep == [pc |-> "asleep", pass |-> "leases", todo |-> {}, seen |-> {}, cur |-> NoRun]

SweepInit == sweep = Asleep

(* Mutant: the SELECT asks for leases that expire this instant.            *)
SelectExpiring ==
    /\ sweep.pc = "asleep"
    /\ sweep' = [Asleep EXCEPT
                   !.pc = "row",
                   !.todo = {b \in Bindings : /\ binding[b].lifecycle = "ready"
                                              /\ binding[b].left = 0
                                              /\ status[binding[b].owner] = "running"}]
    /\ UNCHANGED tables

(* sweep_expired_leases, the SELECT.                                       *)
SelectExpired ==
    /\ sweep.pc = "asleep"
    /\ sweep' = [Asleep EXCEPT
                   !.pc = "row",
                   !.todo = {b \in Bindings : /\ binding[b].lifecycle = "ready"
                                              /\ Expired(binding[b])
                                              /\ status[binding[b].owner] = "running"}]
    /\ UNCHANGED tables

(* pause_once(r) begins: a run already seen in this pass is passed over.   *)
PauseOnce(r, todo) ==
    sweep' = IF r \in sweep.seen
             THEN [sweep EXCEPT !.todo = todo]
             ELSE [sweep EXCEPT !.todo = todo, !.pc = "read", !.cur = r, !.seen = @ \cup {r}]

(* One row of sweep_expired_leases: UPDATE ... WHERE lifecycle = 'ready'.  *)
(* It asks no more of the row than that.                                   *)
QuarantineRow(b) ==
    /\ sweep.pc = "row" /\ sweep.pass = "leases" /\ b \in sweep.todo
    /\ binding' = [binding EXCEPT ![b] = Quarantined(@)]
    /\ PauseOnce(binding[b].owner, sweep.todo \ {b})
    /\ UNCHANGED <<status, wallLeft>>

(* One row of sweep_wall_clock.                                            *)
ExhaustedRow(r) ==
    /\ sweep.pc = "row" /\ sweep.pass = "wall" /\ r \in sweep.todo
    /\ PauseOnce(r, sweep.todo \ {r})
    /\ UNCHANGED tables

(* pause_once, its SELECT: a run that is not running is left alone.        *)
PauseRead ==
    /\ sweep.pc = "read"
    /\ sweep' = [sweep EXCEPT !.pc = IF status[sweep.cur] = "running" THEN "pause" ELSE "row"]
    /\ UNCHANGED tables

(* pause_once, its transition: a run paused meanwhile counts as done; any  *)
(* other status that cannot be paused is an error that ends the sweep,     *)
(* both passes.                                                            *)
PauseWrite ==
    /\ sweep.pc = "pause"
    /\ \/ /\ Move(sweep.cur, "paused")
          /\ sweep' = [sweep EXCEPT !.pc = "row"]
       \/ /\ ~CanTransitionTo(status[sweep.cur], "paused")
          /\ sweep' = IF status[sweep.cur] = "paused"
                      THEN [sweep EXCEPT !.pc = "row"] ELSE Asleep
          /\ UNCHANGED <<status, wallLeft>>
    /\ UNCHANGED binding

(* Mutant: a run that has lost a binding is left to the lease pass.        *)
SelectExhaustedUnseen ==
    /\ sweep.pc = "row" /\ sweep.pass = "leases" /\ sweep.todo = {}
    /\ sweep' = [Asleep EXCEPT
                   !.pc = "row", !.pass = "wall",
                   !.todo = {r \in RunIds :
                               /\ status[r] = "running" /\ Overrun(r)
                               /\ \A b \in Bindings : binding[b].owner = r
                                                       => binding[b].lifecycle = "ready"}]
    /\ UNCHANGED tables

(* The lease pass is over: sweep_wall_clock's SELECT, with a fresh set of  *)
(* seen runs.                                                              *)
SelectExhausted ==
    /\ sweep.pc = "row" /\ sweep.pass = "leases" /\ sweep.todo = {}
    /\ sweep' = [Asleep EXCEPT
                   !.pc = "row", !.pass = "wall",
                   !.todo = {r \in RunIds : status[r] = "running" /\ Overrun(r)}]
    /\ UNCHANGED tables

(* sweep_once returns; the loop waits for its next tick.                   *)
SweepDone ==
    /\ sweep.pc = "row" /\ sweep.pass = "wall" /\ sweep.todo = {}
    /\ sweep' = Asleep
    /\ UNCHANGED tables

SweepStep ==
    \/ SelectExpired \/ SelectExhausted \/ SweepDone
    \/ \E b \in Bindings : QuarantineRow(b)
    \/ \E r \in RunIds : ExhaustedRow(r)
    \/ PauseRead \/ PauseWrite

(* The coordinator dies and restarts: what was committed stays.            *)
CoordinatorCrash ==
    /\ sweep.pc # "asleep"
    /\ sweep' = Asleep
    /\ UNCHANGED tables

SweepOK ==
    sweep \in [pc : {"asleep", "row", "read", "pause"}, pass : {"leases", "wall"},
               todo : (SUBSET Bindings) \cup (SUBSET RunIds), seen : SUBSET RunIds,
               cur : RunIds \cup {NoRun}]
=============================================================================
