----------------------------- MODULE Execution -----------------------------
(***************************************************************************)
(* Executors, the reconciler and operators on the same tables, while time  *)
(* passes: the execution phase of runs that provisioning left ready.       *)
(***************************************************************************)
EXTENDS Reconciler, Executor

CONSTANTS
    MaxOps,         \* bound on the operators' transitions
    MaxCrashes,     \* bound on the coordinator's restarts
    MaxOutOfBand,   \* bound on leases acquired by others than executors
    MaxTtl          \* longest lease, for Leases

ASSUME ExecutionAssumption ==
    /\ MaxOps \in Nat
    /\ MaxCrashes \in Nat
    /\ MaxOutOfBand \in Nat
    /\ MaxTtl \in Nat
    /\ LeaseTtl <= MaxTtl /\ ProvisionTtl <= MaxTtl

VARIABLE left   \* what remains of each bound

vars == <<tables, sweep, execVars, left>>

Init ==
    /\ TablesInit
    /\ SweepInit
    /\ ExecInit
    /\ left = [ops |-> MaxOps, crashes |-> MaxCrashes, leases |-> MaxOutOfBand]

Sweep == SweepStep /\ UNCHANGED <<execVars, left>>

Execute(e) == ExecStep(e) /\ UNCHANGED <<sweep, left>>

Operate(r, to) ==
    /\ left.ops > 0
    /\ OperatorMove(r, to)
    /\ left' = [left EXCEPT !.ops = @ - 1]
    /\ UNCHANGED <<sweep, execVars>>

TakeLease(b) ==
    /\ left.leases > 0
    /\ AcquireOutOfBand(b, LeaseTtl)
    /\ left' = [left EXCEPT !.leases = @ - 1]
    /\ UNCHANGED <<sweep, execVars>>

Crash ==
    /\ left.crashes > 0
    /\ CoordinatorCrash
    /\ left' = [left EXCEPT !.crashes = @ - 1]
    /\ UNCHANGED execVars

Tick ==
    /\ TimePasses
    /\ TimersRun
    /\ UNCHANGED <<sweep, left>>

Next ==
    \/ Sweep
    \/ \E e \in Executors : Execute(e)
    \/ \E r \in RunIds, to \in RunStatus : Operate(r, to)
    \/ \E b \in Bindings : TakeLease(b)
    \/ Crash
    \/ Tick

(* run_reconciler is an endless loop whose errors are logged, on a runtime *)
(* that polls every task, and the clock does not stop.  Nothing is assumed *)
(* of executors or operators.                                              *)
Fairness == WF_vars(Sweep) /\ WF_vars(Tick)

Spec == Init /\ [][Next]_vars /\ Fairness

-----------------------------------------------------------------------------
(* Tables, sweep and executors have their types.                           *)
TypeOK ==
    /\ TablesOK /\ SweepOK /\ ExecOK
    /\ left \in [ops : 0..MaxOps, crashes : 0..MaxCrashes, leases : 0..MaxOutOfBand]

(* The epochs the executors hold, for Leases.                              *)
HeldEpochs == [e \in Executors |-> [b \in Bindings |->
                  IF exec[e].binding = b THEN exec[e].epoch ELSE 0]]

Fencing == INSTANCE Leases WITH Clients <- Executors, NoClient <- NoExecutor,
                                held <- HeldEpochs

(* The execution phase implements the fencing protocol: all an executor,   *)
(* the sweep, an operator or a crash does to a binding is a step of        *)
(* Leases, so FencingOrder and QuarantineFinal hold of it.                 *)
ImplementsLeases == Fencing!Init /\ [][Fencing!Next]_(Fencing!vars)

(* A run with a budget that has ever run has its wall clock running,       *)
(* whoever started it.                                                     *)
BudgetArmed ==
    \A r \in RunIds :
        WallLimit[r] # NoLimit /\ status[r] \in {"running", "verifying", "paused",
                                                  "blocked", "completed"}
            => wallLeft[r] # NotStarted

(* What an executor remembers fits its place: it has a run and a binding   *)
(* from the moment it reads them, and an epoch from the moment it has the  *)
(* lease, and keeps nothing of the last run.                               *)
ClaimFits(x) ==
    /\ x.pc = "idle" => x = Idle
    /\ x.pc # "idle" => x.run \in RunIds /\ x.binding \in Bindings
    /\ x.pc \in {"claim", "lease"} => x.epoch = 0
    /\ x.pc \in LeaseSteps \cup {"outcome", "complete"} => x.epoch > 0

(* The state of the execution phase is sound: its parts have their types,  *)
(* no executor acts on what it has not been given, and no run escapes its  *)
(* budget because its clock never started.                                 *)
ExecutionInv == TypeOK /\ BudgetArmed /\ \A e \in Executors : ClaimFits(exec[e])

(* A lone executor whose host has not been late keeps its lease from the   *)
(* moment it has it to its last fenced step, whatever the sweep, a restart *)
(* of the coordinator and the operators do.                                *)
PromptKeepsLease ==
    \A e \in Executors :
        exec[e].pc \in LeaseSteps /\ ~exec[e].late => Admitted(e)

(* The bindings of runs that own no other.                                 *)
SoleBindings == {b \in Bindings : \A d \in Bindings \ {b} : Owner[d] # Owner[b]}

(* A running run whose lease has expired is moved, as reconcile.rs:6-10    *)
(* promises, and not only its binding quarantined, unless the lease is     *)
(* renewed or acquired before the sweep comes to it.  A restart of the     *)
(* coordinator between the two statements breaks the promise, and so may   *)
(* an operator who resumes a run that has another expired binding: one     *)
(* sweep pauses a run once (README).                                       *)
LeaseLossHandled ==
    \A b \in SoleBindings :
        /\ status[Owner[b]] = "running"
        /\ binding[b].lifecycle = "ready"
        /\ Expired(binding[b])
      ~> \/ status[Owner[b]] # "running"
         \/ binding[b].lifecycle = "ready" /\ ~Expired(binding[b])
         \/ left.crashes < MaxCrashes

(* A run past its wall-clock budget does not stay running, also when it    *)
(* was resumed after an earlier pause.                                     *)
WallBudgetEnforced ==
    \A r \in RunIds : status[r] = "running" /\ Overrun(r) ~> status[r] # "running"
=============================================================================
