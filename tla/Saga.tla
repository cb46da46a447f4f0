-------------------------------- MODULE Saga --------------------------------
(***************************************************************************)
(* The provisioning saga (coordinator/src/saga.rs): provision and its      *)
(* compensation, one statement a step.  No statement shares a transaction  *)
(* with the next, and a call may stop after any of them: the coordinator   *)
(* dies, or the HTTP client hangs up and the handler is dropped.  Calls    *)
(* for the same run may overlap (a client that retries), and others move   *)
(* the runs and lease the bindings meanwhile.                              *)
(***************************************************************************)
EXTENDS RunDomain, BindingRow, Sequences, FiniteSets

CONSTANTS
    RunIds, NoRun,
    Keys,          \* idempotency keys; a binding is named by its key
    Worktrees,     \* the worktrees of each run's ProvisionSpec, in order:
                   \* records with the fields key and access
    Calls,         \* provision calls that may be in flight at once
    Retried,       \* the runs whose clients call again while a call is under way
    Ttl,           \* PROVISION_LEASE_TTL_SECS
    MaxFaults,     \* bound on transient database errors
    MaxOthers      \* bound on the steps others than provision take on the tables

Access == {"read", "write"}

ASSUME SagaAssumption ==
    /\ NoRun \notin RunIds
    /\ Worktrees \in [RunIds -> Seq([key : Keys, access : Access])]
    /\ Retried \subseteq RunIds
    /\ Ttl \in Nat \ {0}
    /\ MaxFaults \in Nat
    /\ MaxOthers \in Nat

VARIABLES
    status,    \* runs.status
    movedBy,   \* history: who moved each run last
    created,   \* the keys that have a worktree_bindings row
    binding,   \* those rows, by idempotency key
    grants,    \* run_worktree_grants : the access of each run to each binding
    call,      \* provision calls: program counter, run, index of the worktree
               \* at hand, and the owned rows compensate has read
    overlapped,      \* history: the runs two calls have been under way for
    undone,          \* history: the runs a compensation has begun to walk back
    faults, others   \* what remains of the bounds

sagaVars == <<status, movedBy, created, binding, grants, call, overlapped, undone, faults,
              others>>

Returned == [pc |-> "returned", run |-> NoRun, i |-> 1, owned |-> {}]

SagaInit ==
    /\ status = [r \in RunIds |-> "draft"]
    /\ movedBy = [r \in RunIds |-> "none"]
    /\ created = {}
    /\ binding = [k \in Keys |-> NewRow(NoRun)]
    /\ grants = [r \in RunIds |-> [k \in Keys |-> "none"]]
    /\ call = [c \in Calls |-> Returned]
    /\ overlapped = {}
    /\ undone = {}
    /\ faults = MaxFaults
    /\ others = MaxOthers

Idle(r) == \A c \in Calls : call[c].run # r
Want(c) == Worktrees[call[c].run][call[c].i]

(* run::transition, its two outcomes.                                      *)
Moved(r, to, by) ==
    /\ CanTransitionTo(status[r], to)
    /\ status' = [status EXCEPT ![r] = to]
    /\ movedBy' = [movedBy EXCEPT ![r] = by]
Refused(r, to) == ~CanTransitionTo(status[r], to) /\ UNCHANGED <<status, movedBy>>

Goto(c, pc) == call' = [call EXCEPT ![c].pc = pc]
Return(c) == call' = [call EXCEPT ![c] = Returned]

(* provision_worktrees starts on its first worktree, or has none to do.    *)
FirstWorktree(r) == IF Worktrees[r] = <<>> THEN "finish" ELSE "create"

(* It moves on to its next worktree, or is through.                        *)
NextWorktree(c) ==
    call' = [call EXCEPT ![c].pc = IF call[c].i = Len(Worktrees[call[c].run])
                                   THEN "finish" ELSE "create",
                         ![c].i = @ + 1]

(* Mutant: a run found at provisioning is taken to be provisioned.         *)
ProvisionSkips(c, r) ==
    /\ call[c].pc = "returned"
    /\ Idle(r) \/ r \in Retried
    /\ overlapped' = overlapped \cup {x \in {r} : ~Idle(x)}
    /\ status[r] \in {"draft", "provisioning"}
    /\ call' = [call EXCEPT ![c] =
                  [Returned EXCEPT !.run = r,
                                   !.pc = IF status[r] = "draft" THEN "begin" ELSE "finish"]]
    /\ UNCHANGED <<status, movedBy, created, binding, grants, undone, faults, others>>

(* provision(spec) is called and reads the status: ready is success, a     *)
(* status outside draft and provisioning an error, both without a write.   *)
Provision(c, r) ==
    /\ call[c].pc = "returned"
    /\ Idle(r) \/ r \in Retried
    /\ overlapped' = overlapped \cup {x \in {r} : ~Idle(x)}
    /\ status[r] \in {"draft", "provisioning"}
    /\ call' = [call EXCEPT ![c] =
                  [Returned EXCEPT !.run = r,
                                   !.pc = IF status[r] = "draft" THEN "begin"
                                          ELSE FirstWorktree(r)]]
    /\ UNCHANGED <<status, movedBy, created, binding, grants, undone, faults, others>>

(* Draft -> Provisioning; a refusal is returned without compensation.      *)
Begin(c) ==
    /\ call[c].pc = "begin"
    /\ \/ /\ Moved(call[c].run, "provisioning", "provision")
          /\ Goto(c, FirstWorktree(call[c].run))
       \/ Refused(call[c].run, "provisioning") /\ Return(c)
    /\ UNCHANGED <<created, binding, grants, overlapped, undone, faults, others>>

(* Mutant: the row found under the key is not asked for its owner.         *)
CreateUnowned(c) ==
    LET k == Want(c).key IN
    /\ call[c].pc = "create"
    /\ created' = created \cup {k}
    /\ binding' = IF k \in created THEN binding
                  ELSE [binding EXCEPT ![k] = NewRow(call[c].run)]
    /\ Goto(c, "grant")
    /\ UNCHANGED <<status, movedBy, grants, overlapped, undone, faults, others>>

(* create_binding, INSERT ... ON CONFLICT DO NOTHING, then binding_owner:  *)
(* no code changes an owner, so both read the same row.  A key bound to    *)
(* another run starts compensation.                                        *)
CreateBinding(c) ==
    LET r == call[c].run
        k == Want(c).key
    IN  /\ call[c].pc = "create"
        /\ created' = created \cup {k}
        /\ binding' = IF k \in created THEN binding
                      ELSE [binding EXCEPT ![k] = NewRow(r)]
        /\ Goto(c, IF binding'[k].owner = r THEN "grant" ELSE "revoke")
        /\ UNCHANGED <<status, movedBy, grants, overlapped, undone, faults, others>>

(* Mutant: a refused grant is returned without compensation.               *)
GrantReturns(c) ==
    LET r == call[c].run
        k == Want(c).key
    IN  /\ call[c].pc = "grant"
        /\ IF Want(c).access = "write" /\ \E l \in Keys \ {k} : grants[r][l] = "write"
           THEN Return(c) /\ UNCHANGED grants
           ELSE /\ Goto(c, "leaseRead")
                /\ grants' = [grants EXCEPT ![r][k] = Want(c).access]
        /\ UNCHANGED <<status, movedBy, created, binding, overlapped, undone, faults, others>>

(* grant: an upsert, under the one_writable_per_run index.                 *)
Grant(c) ==
    LET r == call[c].run
        k == Want(c).key
    IN  /\ call[c].pc = "grant"
        /\ IF Want(c).access = "write" /\ \E l \in Keys \ {k} : grants[r][l] = "write"
           THEN Goto(c, "revoke") /\ UNCHANGED grants
           ELSE /\ Goto(c, "leaseRead")
                /\ grants' = [grants EXCEPT ![r][k] = Want(c).access]
        /\ UNCHANGED <<status, movedBy, created, binding, overlapped, undone, faults, others>>

(* ensure_lease, its SELECT.                                               *)
LeaseRead(c) ==
    /\ call[c].pc = "leaseRead"
    /\ IF Live(binding[Want(c).key]) THEN NextWorktree(c) ELSE Goto(c, "lease")
    /\ UNCHANGED <<status, movedBy, created, binding, grants, overlapped, undone, faults, others>>

(* ensure_lease, its acquire_lease.                                        *)
AcquireLease(c) ==
    /\ call[c].pc = "lease"
    /\ binding' = [binding EXCEPT ![Want(c).key] = Acquired(@, Ttl)]
    /\ NextWorktree(c)
    /\ UNCHANGED <<status, movedBy, created, grants, overlapped, undone, faults, others>>

(* Provisioning -> Ready; a refusal (somebody else has moved the run) is   *)
(* returned without compensation.                                          *)
Finish(c) ==
    /\ call[c].pc = "finish"
    /\ Moved(call[c].run, "ready", "provision") \/ Refused(call[c].run, "ready")
    /\ Return(c)
    /\ UNCHANGED <<created, binding, grants, overlapped, undone, faults, others>>

(* A statement fails: in provision_worktrees that starts compensation,     *)
(* anywhere else (either transition, compensate itself) the error goes to  *)
(* the caller and everything stays as it is.                               *)
Fault(c) ==
    /\ call[c].pc # "returned"
    /\ faults > 0
    /\ faults' = faults - 1
    /\ IF call[c].pc \in {"create", "grant", "leaseRead", "lease"}
       THEN Goto(c, "revoke") ELSE Return(c)
    /\ UNCHANGED <<status, movedBy, created, binding, grants, overlapped, undone, others>>

(* compensate: DELETE the run's grants.                                    *)
Revoke(c) ==
    /\ call[c].pc = "revoke"
    /\ grants' = [grants EXCEPT ![call[c].run] = [k \in Keys |-> "none"]]
    /\ Goto(c, "list")
    /\ UNCHANGED <<status, movedBy, created, binding, overlapped, undone, faults, others>>

(* Mutant: only the worktree at hand is walked back.                       *)
ListCurrent(c) ==
    /\ call[c].pc = "list"
    /\ call' = [call EXCEPT
                  ![c].pc = "walk",
                  ![c].owned = {<<k, binding[k].lifecycle>> :
                                  k \in {l \in created : /\ binding[l].owner = call[c].run
                                                         /\ l = Want(c).key}}]
    /\ UNCHANGED <<status, movedBy, created, binding, grants, overlapped, undone, faults, others>>

(* compensate: SELECT id, lifecycle of the run's bindings.                 *)
ListOwned(c) ==
    /\ call[c].pc = "list"
    /\ call' = [call EXCEPT
                  ![c].pc = "walk",
                  ![c].owned = {<<k, binding[k].lifecycle>> :
                                  k \in {l \in created : binding[l].owner = call[c].run}}]
    /\ UNCHANGED <<status, movedBy, created, binding, grants, overlapped, undone, faults, others>>

(* The end state of a binding, by the lifecycle it was in.                 *)
WalkedBack(lifecycle) ==
    CASE lifecycle = "provisioning" -> "removed"
      [] lifecycle = "ready" -> "quarantined"
      [] OTHER -> lifecycle

(* compensate: one UPDATE of the loop, from the lifecycle read before.     *)
WalkBack(c) ==
    /\ call[c].pc = "walk"
    /\ \E row \in call[c].owned :
          /\ binding' = [binding EXCEPT ![row[1]].lifecycle = WalkedBack(row[2])]
          /\ call' = [call EXCEPT ![c].owned = @ \ {row}]
    /\ undone' = undone \cup {call[c].run}
    /\ UNCHANGED <<status, movedBy, created, grants, overlapped, faults, others>>

(* compensate: the loop is over; current_run_status, then Failed unless it *)
(* is that already.                                                        *)
StatusRead(c) ==
    /\ call[c].pc = "walk" /\ call[c].owned = {}
    /\ IF status[call[c].run] = "failed" THEN Return(c) ELSE Goto(c, "fail")
    /\ UNCHANGED <<status, movedBy, created, binding, grants, overlapped, undone, faults, others>>

Fail(c) ==
    /\ call[c].pc = "fail"
    /\ Moved(call[c].run, "failed", "provision") \/ Refused(call[c].run, "failed")
    /\ Return(c)
    /\ UNCHANGED <<created, binding, grants, overlapped, undone, faults, others>>

(* The call stops where it is.                                             *)
Stop(c) ==
    /\ call[c].pc # "returned"
    /\ Return(c)
    /\ UNCHANGED <<status, movedBy, created, binding, grants, overlapped, undone, faults, others>>

(* Somebody else moves the run along any legal edge: an operator through   *)
(* post_transition, an executor, the reconciler.                           *)
MoveRun(r, to) ==
    /\ others > 0
    /\ others' = others - 1
    /\ Moved(r, to, "other")
    /\ UNCHANGED <<created, binding, grants, call, overlapped, undone, faults>>

(* Somebody else acquires or renews a lease on a binding, through          *)
(* post_acquire_lease and post_renew_lease or as an executor; ttl_secs may *)
(* be any integer.                                                         *)
LeaseElsewhere(k, ttl) ==
    /\ others > 0
    /\ others' = others - 1
    /\ k \in created
    /\ \/ binding' = [binding EXCEPT ![k] = Acquired(@, ttl)]
       \/ binding' = [binding EXCEPT ![k] = Renewed(@, ttl)]
    /\ UNCHANGED <<status, movedBy, created, grants, call, overlapped, undone, faults>>

(* The statuses of a run that has not been running yet.                    *)
BeforeRunning == {"draft", "provisioning", "ready"}

(* The sweep quarantines a leased binding whose run it has read as         *)
(* running; the run may have moved on and the lease been renewed since.    *)
SweepQuarantine(k) ==
    /\ k \in created
    /\ status[binding[k].owner] \notin BeforeRunning
    /\ binding[k].left # NoLease
    /\ binding' = [binding EXCEPT ![k] = Quarantined(@)]
    /\ UNCHANGED <<status, movedBy, created, grants, call, overlapped, undone, faults, others>>

Lapse ==
    /\ binding' = [k \in Keys |-> [binding[k] EXCEPT !.left = Elapse(@)]]
    /\ UNCHANGED <<status, movedBy, created, grants, call, overlapped, undone, faults, others>>

CallStep(c) ==
    \/ Begin(c) \/ CreateBinding(c) \/ Grant(c) \/ LeaseRead(c) \/ AcquireLease(c)
    \/ Finish(c) \/ Revoke(c) \/ ListOwned(c) \/ WalkBack(c) \/ StatusRead(c) \/ Fail(c)

SagaNext ==
    \/ \E c \in Calls, r \in RunIds : Provision(c, r)
    \/ \E c \in Calls : CallStep(c) \/ Fault(c) \/ Stop(c)
    \/ \E r \in RunIds, to \in RunStatus : MoveRun(r, to)
    \/ \E k \in Keys : SweepQuarantine(k) \/ \E ttl \in Lapsed..Ttl : LeaseElsewhere(k, ttl)
    \/ Lapse

SagaSpec == SagaInit /\ [][SagaNext]_sagaVars

-----------------------------------------------------------------------------
(* Tables and calls have their types.                                      *)
SagaTypeOK ==
    /\ status \in [RunIds -> RunStatus]
    /\ movedBy \in [RunIds -> {"none", "provision", "other"}]
    /\ created \in SUBSET Keys
    /\ binding \in [Keys -> [owner : RunIds \cup {NoRun}, lifecycle : Lifecycle,
                             epoch : Nat, left : Int]]
    /\ grants \in [RunIds -> [Keys -> Access \cup {"none"}]]
    /\ \A c \in Calls : call[c].pc = "returned" <=> call[c].run = NoRun
    /\ overlapped \subseteq RunIds /\ undone \subseteq RunIds
    /\ faults \in Nat /\ others \in Nat

Owned(r) == {k \in created : binding[k].owner = r}

(* A run that provision itself has brought to ready has what its spec      *)
(* asked for, after any number of stopped, failed and repeated calls made  *)
(* one at a time, whoever else leases the bindings meanwhile: every        *)
(* worktree's row is its own, granted as asked and has had a lease, and    *)
(* the row is editable unless a compensation had begun to walk the run     *)
(* back before (saga.rs:7-8 promises convergence there too; see README).   *)
ReadyIsProvisioned ==
    \A r \in RunIds \ overlapped : status[r] = "ready" /\ movedBy[r] = "provision" =>
        \A i \in 1..Len(Worktrees[r]) :
            LET w == Worktrees[r][i] IN
            /\ w.key \in Owned(r)
            /\ grants[r][w.key] = w.access
            /\ binding[w.key].left # NoLease
            /\ r \notin undone => binding[w.key].lifecycle = "ready"

(* saga.rs:24-25: "No binding this run touched is left both owned by it    *)
(* and in an editable (`ready`) state", and its grants are gone, once      *)
(* provision itself has moved the run to failed, unless two calls for it   *)
(* overlapped.                                                             *)
FailedIsWalkedBack ==
    \A r \in RunIds \ overlapped : status[r] = "failed" /\ movedBy[r] = "provision" =>
        /\ \A k \in Owned(r) : binding[k].lifecycle # "ready"
        /\ \A k \in Keys : grants[r][k] = "none"

(* A grant is held only on a binding of the run's own: no run ever gets    *)
(* access to another's worktree through a shared key.                      *)
GrantsAreOwn ==
    \A r \in RunIds, k \in Keys : grants[r][k] # "none" => k \in Owned(r)

(* What holds of provisioning however calls overlap, stop and are          *)
(* repeated: the tables keep their types and grants follow ownership.      *)
SagaInv == SagaTypeOK /\ GrantsAreOwn

(* A call that is neither stopped nor returns a failed statement's error   *)
(* settles its run: it does not leave the run at provisioning, unless      *)
(* somebody else moved it there, or two calls for it overlapped.           *)
ReturnSettles ==
    [][\A c \in Calls : LET r == call[c].run IN
          /\ CallStep(c) /\ call'[c].pc = "returned" /\ r \notin overlapped
          /\ status'[r] = "provisioning"
          => movedBy'[r] = "other"]_sagaVars
=============================================================================
