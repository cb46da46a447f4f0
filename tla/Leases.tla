------------------------------- MODULE Leases -------------------------------
(***************************************************************************)
(* The fencing protocol of coordinator/src/binding.rs as its clients see   *)
(* it.  A client acquires a lease and remembers the epoch it was issued,   *)
(* renews and validates with that epoch, and may forget it (crash, give    *)
(* up) at any time.  Replies may be lost, a binding may be quarantined     *)
(* under its holder, and time passes.  lastOp is a history variable: the   *)
(* last operation validate_op admitted on each binding.                    *)
(***************************************************************************)
EXTENDS BindingRow

CONSTANTS
    Clients,     \* holders of leases: executors
    NoClient,
    Bindings,
    RunIds,
    Owner,       \* owner_run_id of each binding; no code changes it
    MaxTtl,      \* longest lease
    MaxEpoch     \* bound on the epochs issued on one binding

ASSUME LeasesAssumption ==
    /\ NoClient \notin Clients
    /\ Owner \in [Bindings -> RunIds]
    /\ MaxTtl \in Nat \ {0}
    /\ MaxEpoch \in Nat

VARIABLES
    binding,   \* the worktree_bindings rows
    held,      \* held[c][b] : the epoch c was last issued on b, 0 if none
    lastOp     \* lastOp[b]  : client and epoch of the last admitted operation

vars == <<binding, held, lastOp>>

Row == [owner : RunIds, lifecycle : Lifecycle, epoch : Nat, left : NoLease..MaxTtl]
Ttl == Lapsed..MaxTtl   \* ttl_secs is any integer: a negative one is born lapsed
Op == [client : Clients \cup {NoClient}, epoch : Nat]

(* The states provisioning leaves: ready, with or without a first lease    *)
(* that nobody present holds.                                              *)
Init ==
    /\ \/ binding = [b \in Bindings |-> NewRow(Owner[b])]
       \/ \E ttl \in Ttl :
             binding = [b \in Bindings |-> Acquired(NewRow(Owner[b]), ttl)]
    /\ held = [c \in Clients |-> [b \in Bindings |-> 0]]
    /\ lastOp = [b \in Bindings |-> [client |-> NoClient, epoch |-> 0]]

Acquire(c, b, ttl) ==
    /\ binding[b].epoch < MaxEpoch
    /\ binding' = [binding EXCEPT ![b] = Acquired(@, ttl)]
    /\ held' = [held EXCEPT ![c][b] = binding[b].epoch + 1]
    /\ UNCHANGED lastOp

(* An acquisition whose reply nobody here receives.                        *)
AcquireUnseen(b, ttl) ==
    /\ binding[b].epoch < MaxEpoch
    /\ binding' = [binding EXCEPT ![b] = Acquired(@, ttl)]
    /\ UNCHANGED <<held, lastOp>>

Renew(c, b, ttl) ==
    /\ held[c][b] # 0
    /\ held[c][b] = binding[b].epoch
    /\ binding' = [binding EXCEPT ![b] = Renewed(@, ttl)]
    /\ UNCHANGED <<held, lastOp>>

Validate(c, b, r) ==
    /\ held[c][b] # 0
    /\ Admits(binding[b], r, held[c][b])
    /\ lastOp' = [lastOp EXCEPT ![b] = [client |-> c, epoch |-> held[c][b]]]
    /\ UNCHANGED <<binding, held>>

Quarantine(b) ==
    /\ binding' = [binding EXCEPT ![b] = Quarantined(@)]
    /\ UNCHANGED <<held, lastOp>>

Forget(c, b) ==
    /\ held' = [held EXCEPT ![c][b] = 0]
    /\ UNCHANGED <<binding, lastOp>>

Tick ==
    /\ binding' = [b \in Bindings |-> [binding[b] EXCEPT !.left = Elapse(@)]]
    /\ UNCHANGED <<held, lastOp>>

Next ==
    \/ \E c \in Clients, b \in Bindings, ttl \in Ttl :
          Acquire(c, b, ttl) \/ Renew(c, b, ttl)
    \/ \E b \in Bindings, ttl \in Ttl : AcquireUnseen(b, ttl)
    \/ \E c \in Clients, b \in Bindings, r \in RunIds : Validate(c, b, r)
    \/ \E b \in Bindings : Quarantine(b)
    \/ \E c \in Clients, b \in Bindings : Forget(c, b)
    \/ Tick

Spec == Init /\ [][Next]_vars

-----------------------------------------------------------------------------
(* Rows, held epochs and the last operations have their types.             *)
TypeOK ==
    /\ binding \in [Bindings -> Row]
    /\ held \in [Clients -> [Bindings -> Nat]]
    /\ lastOp \in [Bindings -> Op]

(* No epoch is in two hands: acquire_lease never issues one twice, so the  *)
(* epoch alone tells validate_op who is asking.                            *)
EpochsUnique ==
    \A b \in Bindings, c1, c2 \in Clients :
        c1 # c2 /\ held[c1][b] # 0 => held[c1][b] # held[c2][b]

(* Nobody holds an epoch the coordinator has not issued yet.               *)
HeldIssued == \A b \in Bindings, c \in Clients : held[c][b] <= binding[b].epoch

(* The last admitted operation was made at an issued epoch; whoever holds  *)
(* that epoch now is the client that made it.                              *)
LastOpIssued ==
    \A b \in Bindings :
        /\ lastOp[b].epoch <= binding[b].epoch
        /\ \A c \in Clients : held[c][b] # 0 /\ held[c][b] = lastOp[b].epoch
                                 => lastOp[b].client = c

FencingInv == TypeOK /\ EpochsUnique /\ HeldIssued /\ LastOpIssued

(* Fencing tokens (ADR-003): on one binding the admitted operations are    *)
(* ordered by epoch, and those of one epoch come from one client: once a   *)
(* newer holder has operated, validate_op admits no older one, however     *)
(* late it wakes.                                                          *)
FencingOrder ==
    [][\A b \in Bindings : lastOp'[b] # lastOp[b] =>
          /\ lastOp'[b].epoch >= lastOp[b].epoch
          /\ lastOp'[b].epoch = lastOp[b].epoch => lastOp'[b].client = lastOp[b].client]_vars

(* A quarantined binding admits nothing more: not after a renewal, not     *)
(* after a fresh acquisition, which both still succeed on it.              *)
QuarantineFinal ==
    [][\A b \in Bindings : binding[b].lifecycle = "quarantined" =>
          /\ binding'[b].lifecycle = "quarantined"
          /\ lastOp'[b] = lastOp[b]]_vars
=============================================================================
