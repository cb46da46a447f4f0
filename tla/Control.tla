------------------------------ MODULE Control ------------------------------
(***************************************************************************)
(* The tables that the executors, the reconciler and the operators share   *)
(* while provisioned runs execute: runs (status and wall-clock budget) and *)
(* worktree_bindings.  Grants are fixed here: after provisioning no code   *)
(* changes them (Saga models the part that does).                          *)
(*                                                                         *)
(* Times are kept as time left, see BindingRow.  A unit is the executor's  *)
(* renewal interval.                                                       *)
(***************************************************************************)
EXTENDS RunDomain, BindingRow

CONSTANTS
    RunIds,
    Bindings,
    NoRun, NoBinding,
    Owner,         \* owner_run_id of each binding
    WriteGrants,   \* the bindings each run holds a write grant on
    WallLimit,     \* wall_limit_secs of each run, NoLimit when NULL
    ProvisionTtl,  \* PROVISION_LEASE_TTL_SECS
    MaxEpoch       \* bound on the epochs issued on one binding

NoLimit == -3
NotStarted == -2   \* wall_started_at IS NULL

ASSUME ControlAssumption ==
    /\ NoRun \notin RunIds
    /\ NoBinding \notin Bindings
    /\ Owner \in [Bindings -> RunIds]
    /\ WriteGrants \in [RunIds -> SUBSET Bindings]
    /\ \A r \in RunIds : WallLimit[r] \in Nat \cup {NoLimit}
    /\ ProvisionTtl \in Nat \ {0}
    /\ MaxEpoch \in Nat

VARIABLES
    status,     \* runs.status
    wallLeft,   \* wall_started_at + wall_limit_secs - now()
    binding     \* worktree_bindings

tables == <<status, wallLeft, binding>>

(* What provisioning leaves: ready runs, each binding ready and on its     *)
(* first lease.                                                            *)
TablesInit ==
    /\ status = [r \in RunIds |-> "ready"]
    /\ wallLeft = [r \in RunIds |-> NotStarted]
    /\ binding = [b \in Bindings |-> Acquired(NewRow(Owner[b]), ProvisionTtl)]

(* Mutant: the wall clock starts on leaving running, not on entering it.   *)
MoveStartsLate(r, to) ==
    /\ CanTransitionTo(status[r], to)
    /\ status' = [status EXCEPT ![r] = to]
    /\ wallLeft' = [wallLeft EXCEPT
                      ![r] = IF status[r] = "running" /\ @ = NotStarted /\ WallLimit[r] # NoLimit
                             THEN WallLimit[r] ELSE @]

(* run::transition: one transaction (Runs, TransitionTx); the first entry  *)
(* into running starts the wall clock.                                     *)
Move(r, to) ==
    /\ CanTransitionTo(status[r], to)
    /\ status' = [status EXCEPT ![r] = to]
    /\ wallLeft' = [wallLeft EXCEPT
                      ![r] = IF to = "running" /\ @ = NotStarted /\ WallLimit[r] # NoLimit
                             THEN WallLimit[r] ELSE @]

Overrun(r) == wallLeft[r] = Lapsed

(* One unit of time passes for every stored timestamp.                     *)
TimePasses ==
    /\ binding' = [b \in Bindings |-> [binding[b] EXCEPT !.left = Elapse(@)]]
    /\ wallLeft' = [r \in RunIds |-> Elapse(wallLeft[r])]
    /\ status' = status

(* The operator, through POST transition: the desktop offers every legal   *)
(* edge out of the status it shows, the API takes any.                     *)
OperatorMove(r, to) == Move(r, to) /\ UNCHANGED binding

(* POST lease from anywhere else: nothing checks who asks.                 *)
AcquireOutOfBand(b, ttl) ==
    /\ binding[b].epoch < MaxEpoch
    /\ binding' = [binding EXCEPT ![b] = Acquired(@, ttl)]
    /\ UNCHANGED <<status, wallLeft>>

Row == [owner : RunIds, lifecycle : Lifecycle, epoch : Nat, left : Int]

TablesOK ==
    /\ status \in [RunIds -> RunStatus]
    /\ wallLeft \in [RunIds -> Int]
    /\ binding \in [Bindings -> Row]
=============================================================================
