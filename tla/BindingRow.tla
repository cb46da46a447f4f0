----------------------------- MODULE BindingRow -----------------------------
(***************************************************************************)
(* One worktree_bindings row and what coordinator/src/binding.rs does to   *)
(* it.  lease_expires_at is kept as the time left until it, because the    *)
(* code only ever compares it with the current time: positive is live,     *)
(* zero is the instant of expiry, Lapsed is any time after it.             *)
(***************************************************************************)
EXTENDS Integers

NoLease == -2   \* lease_expires_at IS NULL
Lapsed == -1

Lifecycle == {"provisioning", "ready", "quarantined", "removed"}

(* The time left after one more unit of time.                              *)
Elapse(left) == IF left > Lapsed THEN left - 1 ELSE left

(* lease_expires_at > now() : validate_op and ensure_lease.                *)
Live(row) == row.left > 0

(* lease_expires_at IS NOT NULL AND lease_expires_at < now() : the sweep.  *)
Expired(row) == row.left = Lapsed

(* create_binding: a row is born ready, owned, at epoch 0, with no lease.  *)
NewRow(r) == [owner |-> r, lifecycle |-> "ready", epoch |-> 0, left |-> NoLease]

(* Mutant: a lapsed lease is taken over without a new epoch.               *)
AcquiredSameEpoch(row, ttl) ==
    IF Expired(row) THEN [row EXCEPT !.left = ttl]
    ELSE [row EXCEPT !.epoch = @ + 1, !.left = ttl]

(* acquire_lease: the epoch grows by one whatever the row's state.         *)
Acquired(row, ttl) == [row EXCEPT !.epoch = @ + 1, !.left = ttl]

(* Mutant: a renewal does not move the expiry of a live lease.             *)
RenewedIfLapsed(row, ttl) == IF Live(row) THEN row ELSE [row EXCEPT !.left = ttl]

(* renew_lease, when the presented epoch is the current one: the expiry    *)
(* moves, whether or not it has passed.                                    *)
Renewed(row, ttl) == [row EXCEPT !.left = ttl]

(* The UPDATE of reconcile.rs guarded by lifecycle = 'ready'.              *)
Quarantined(row) ==
    IF row.lifecycle = "ready" THEN [row EXCEPT !.lifecycle = "quarantined"] ELSE row

(* Mutant: any issued epoch will do.                                       *)
AdmitsOlder(row, r, epoch) ==
    row.owner = r /\ row.lifecycle = "ready" /\ row.epoch >= epoch /\ Live(row)

(* Mutant: the lifecycle is not looked at.                                 *)
AdmitsQuarantined(row, r, epoch) ==
    row.owner = r /\ row.epoch = epoch /\ Live(row)

(* validate_op: owner, lifecycle, epoch and lease, all of them.            *)
Admits(row, r, epoch) ==
    /\ row.owner = r
    /\ row.lifecycle = "ready"
    /\ row.epoch = epoch
    /\ Live(row)
=============================================================================
