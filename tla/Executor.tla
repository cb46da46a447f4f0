------------------------------ MODULE Executor ------------------------------
(***************************************************************************)
(* The executor (executor/src/lib.rs, main.rs): execute_run, one client    *)
(* call or one side effect a step.  Any call may fail or the process may   *)
(* die; either way execute_run returns an error, the run is left as it is, *)
(* and the worker is idle again (Abandon).  Evidence rows are left to      *)
(* Evidence: a failed append is a failed call.                             *)
(***************************************************************************)
EXTENDS Control

CONSTANTS
    Executors,
    NoExecutor,
    LeaseTtl,      \* LEASE_TTL_SECS
    RenewEvery,    \* LEASE_RENEW_INTERVAL
    SetupBound     \* how long git worktree add takes, at most, on a prompt host

ASSUME ExecutorAssumption ==
    /\ NoExecutor \notin Executors
    /\ LeaseTtl \in Nat \ {0}
    /\ RenewEvery \in Nat
    /\ SetupBound \in Nat

VARIABLES
    exec,    \* each executor: its program counter, the run and binding it
             \* claims, the epoch it holds, the time left until it must act
             \* (renew the lease, or finish a setup step), the command's
             \* exit code, and whether its host has ever been late (history)
    lastOp   \* history: the last operation validate_op admitted on a binding

execVars == <<exec, lastOp>>

Idle == [pc |-> "idle", run |-> NoRun, binding |-> NoBinding, epoch |-> 0,
         timer |-> 0, exit |-> 0, late |-> FALSE]

(* From acquire_lease to the last fenced step: the steps that need the     *)
(* lease.                                                                  *)
LeaseSteps == {"fenceAdd", "add", "fenceRun", "spawn", "command", "fenceCapture", "capture"}

ExecInit ==
    /\ exec = [e \in Executors |-> Idle]
    /\ lastOp = [b \in Bindings |-> [client |-> NoExecutor, epoch |-> 0]]

(* list_workspace_runs / get_run: status ready and exactly one write grant,*)
(* both as read now.                                                       *)
ReadRun(e, r, b) ==
    /\ exec[e].pc = "idle"
    /\ status[r] = "ready"
    /\ WriteGrants[r] = {b}
    /\ exec' = [exec EXCEPT ![e] = [Idle EXCEPT !.pc = "claim", !.run = r, !.binding = b]]
    /\ UNCHANGED <<tables, lastOp>>

(* transition(run, "running"): takes any edge into running the table has.  *)
(* It is late when the lease that provisioning left has run out.           *)
Claim(e) ==
    /\ exec[e].pc = "claim"
    /\ Move(exec[e].run, "running")
    /\ exec' = [exec EXCEPT ![e].pc = "lease", ![e].late = @ \/ ~Live(binding[exec[e].binding])]
    /\ UNCHANGED <<binding, lastOp>>

(* Mutant: the lease is renewed under the epoch it has, not acquired.      *)
AdoptLease(e) ==
    LET b == exec[e].binding IN
    /\ exec[e].pc = "lease"
    /\ binding' = [binding EXCEPT ![b] = Renewed(@, LeaseTtl)]
    /\ exec' = [exec EXCEPT ![e].pc = "fenceAdd", ![e].epoch = binding[b].epoch,
                            ![e].timer = SetupBound]
    /\ UNCHANGED <<status, wallLeft, lastOp>>

(* acquire_lease, which hands out the next epoch.                          *)
AcquireLease(e) ==
    LET b == exec[e].binding IN
    /\ exec[e].pc = "lease"
    /\ binding[b].epoch < MaxEpoch
    /\ binding' = [binding EXCEPT ![b] = Acquired(@, LeaseTtl)]
    /\ exec' = [exec EXCEPT ![e].pc = "fenceAdd", ![e].epoch = binding[b].epoch + 1,
                            ![e].timer = SetupBound]
    /\ UNCHANGED <<status, wallLeft, lastOp>>

Admitted(e) == Admits(binding[exec[e].binding], exec[e].run, exec[e].epoch)

(* validate_op admits: the step it guards comes next.                      *)
Fence(e, from, to) ==
    /\ exec[e].pc = from
    /\ Admitted(e)
    /\ lastOp' = [lastOp EXCEPT ![exec[e].binding] = [client |-> e, epoch |-> exec[e].epoch]]
    /\ exec' = [exec EXCEPT ![e].pc = to]
    /\ UNCHANGED tables

(* fence: a denial before worktree add or the command ends execute_run;    *)
(* the run's status is not touched.                                        *)
FenceDenied(e) ==
    /\ exec[e].pc \in {"fenceAdd", "fenceRun"}
    /\ ~Admitted(e)
    /\ exec' = [exec EXCEPT ![e] = Idle]
    /\ UNCHANGED <<tables, lastOp>>

WorktreeAdd(e) ==
    /\ exec[e].pc = "add"
    /\ exec' = [exec EXCEPT ![e].pc = "fenceRun"]
    /\ UNCHANGED <<tables, lastOp>>

(* git worktree add failed: the run is moved to failed if it can be, and   *)
(* execute_run returns either way.                                         *)
WorktreeAddFails(e) ==
    /\ exec[e].pc = "add"
    /\ \/ Move(exec[e].run, "failed")
       \/ ~CanTransitionTo(status[exec[e].run], "failed") /\ UNCHANGED <<status, wallLeft>>
    /\ exec' = [exec EXCEPT ![e] = Idle]
    /\ UNCHANGED <<binding, lastOp>>

(* The command is spawned and the renewal loop sleeps its first interval.  *)
Spawn(e) ==
    /\ exec[e].pc = "spawn"
    /\ exec' = [exec EXCEPT ![e].pc = "command", ![e].timer = RenewEvery]
    /\ UNCHANGED <<tables, lastOp>>

(* renewal_loop wakes: a stale epoch is logged and the loop goes on.       *)
Renew(e) ==
    LET b == exec[e].binding IN
    /\ exec[e].pc = "command" /\ exec[e].timer = 0
    /\ binding' = IF binding[b].epoch = exec[e].epoch
                  THEN [binding EXCEPT ![b] = Renewed(@, LeaseTtl)] ELSE binding
    /\ exec' = [exec EXCEPT ![e].timer = RenewEvery]
    /\ UNCHANGED <<status, wallLeft, lastOp>>

(* The command exits; the renewal loop is aborted.                         *)
CommandExits(e, code) ==
    /\ exec[e].pc = "command"
    /\ exec' = [exec EXCEPT ![e].pc = "fenceCapture", ![e].exit = code, ![e].timer = 0]
    /\ UNCHANGED <<tables, lastOp>>

(* capture_work_product is denied: recorded, and the run's outcome still   *)
(* follows the exit code.                                                  *)
CaptureDenied(e) ==
    /\ exec[e].pc = "fenceCapture"
    /\ ~Admitted(e)
    /\ exec' = [exec EXCEPT ![e].pc = "outcome"]
    /\ UNCHANGED <<tables, lastOp>>

(* git status, add, commit and diff, succeeding or not, under that one     *)
(* check.                                                                  *)
Capture(e) ==
    /\ exec[e].pc = "capture"
    /\ exec' = [exec EXCEPT ![e].pc = "outcome"]
    /\ UNCHANGED <<tables, lastOp>>

(* Exit 0: verifying, then completed.  Otherwise failed.                   *)
Outcome(e) ==
    /\ exec[e].pc = "outcome"
    /\ IF exec[e].exit = 0
       THEN Move(exec[e].run, "verifying") /\ exec' = [exec EXCEPT ![e].pc = "complete"]
       ELSE Move(exec[e].run, "failed") /\ exec' = [exec EXCEPT ![e] = Idle]
    /\ UNCHANGED <<binding, lastOp>>

Complete(e) ==
    /\ exec[e].pc = "complete"
    /\ Move(exec[e].run, "completed")
    /\ exec' = [exec EXCEPT ![e] = Idle]
    /\ UNCHANGED <<binding, lastOp>>

(* A call is refused, its reply is lost, or the process dies.              *)
Abandon(e) ==
    /\ exec[e].pc # "idle"
    /\ exec' = [exec EXCEPT ![e] = Idle]
    /\ UNCHANGED <<tables, lastOp>>

ExecStep(e) ==
    \/ \E r \in RunIds, b \in Bindings : ReadRun(e, r, b)
    \/ Claim(e) \/ AcquireLease(e)
    \/ Fence(e, "fenceAdd", "add") \/ WorktreeAdd(e) \/ WorktreeAddFails(e)
    \/ Fence(e, "fenceRun", "spawn") \/ Spawn(e) \/ FenceDenied(e)
    \/ Renew(e) \/ \E code \in 0..1 : CommandExits(e, code)
    \/ Fence(e, "fenceCapture", "capture") \/ CaptureDenied(e) \/ Capture(e)
    \/ Outcome(e) \/ Complete(e)
    \/ Abandon(e)

(* A unit of time finds the executor late: overdue with a renewal or with  *)
(* its setup, or between its read of the run and its lease.                *)
Overdue(e) ==
    \/ exec[e].pc \in LeaseSteps /\ exec[e].timer = 0
    \/ exec[e].pc \in {"claim", "lease"}

(* Time passes for the executors' own timers.                              *)
TimersRun ==
    /\ exec' = [e \in Executors |->
                  [exec[e] EXCEPT !.timer = IF @ = 0 THEN 0 ELSE @ - 1,
                                  !.late = @ \/ Overdue(e)]]
    /\ UNCHANGED lastOp

Worker ==
    [pc : {"idle", "claim", "lease", "outcome", "complete"} \cup LeaseSteps,
     run : RunIds \cup {NoRun}, binding : Bindings \cup {NoBinding},
     epoch : Nat, timer : Nat, exit : {0, 1}, late : BOOLEAN]

ExecOK ==
    /\ exec \in [Executors -> Worker]
    /\ lastOp \in [Bindings -> [client : Executors \cup {NoExecutor}, epoch : Nat]]
=============================================================================
