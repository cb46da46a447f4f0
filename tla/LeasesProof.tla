----------------------------- MODULE LeasesProof -----------------------------
(***************************************************************************)
(* Proofs about Leases, for any clients, bindings, runs and bounds.        *)
(* FencingInv is inductive as it stands: that epochs are unique needs that *)
(* nobody holds one not issued yet, and that operations are ordered needs  *)
(* both, with what is known of the last operation.                         *)
(***************************************************************************)
EXTENDS Leases, TLAPS

(* What each operation of binding.rs makes of a row is a row; the epoch    *)
(* grows with an acquisition and with nothing else.                        *)
LEMMA AcquiredRow ==
    ASSUME NEW row \in Row, NEW ttl \in Ttl
    PROVE  /\ Acquired(row, ttl) \in Row
           /\ Acquired(row, ttl).epoch = row.epoch + 1
           /\ Acquired(row, ttl).lifecycle = row.lifecycle
<1>1. row.epoch + 1 \in Nat /\ ttl \in NoLease..MaxTtl
  BY LeasesAssumption DEF Row, Ttl, Lapsed, NoLease
<1>2. Acquired(row, ttl) \in Row
  BY <1>1 DEF Row, Acquired
<1> QED
  BY <1>1, <1>2 DEF Row, Acquired

(* A renewal leaves the epoch and the lifecycle of the row alone.          *)
LEMMA RenewedRow ==
    ASSUME NEW row \in Row, NEW ttl \in Ttl
    PROVE  /\ Renewed(row, ttl) \in Row
           /\ Renewed(row, ttl).epoch = row.epoch
           /\ Renewed(row, ttl).lifecycle = row.lifecycle
BY LeasesAssumption DEF Row, Ttl, Renewed, Lapsed, NoLease

(* So does the sweep's quarantine with the epoch.                          *)
LEMMA QuarantinedRow ==
    ASSUME NEW row \in Row
    PROVE  /\ Quarantined(row) \in Row
           /\ Quarantined(row).epoch = row.epoch
           /\ row.lifecycle = "quarantined" => Quarantined(row).lifecycle = "quarantined"
BY DEF Row, Quarantined, Lifecycle

(* Time takes from the lease only.                                         *)
LEMMA ElapsedRow ==
    ASSUME NEW row \in Row
    PROVE  /\ [row EXCEPT !.left = Elapse(@)] \in Row
           /\ [row EXCEPT !.left = Elapse(@)].epoch = row.epoch
           /\ [row EXCEPT !.left = Elapse(@)].lifecycle = row.lifecycle
<1>1. Elapse(row.left) \in NoLease..MaxTtl
  BY LeasesAssumption DEF Row, Elapse, Lapsed, NoLease
<1> QED
  BY <1>1 DEF Row

(* A fresh row, and one on its first lease.                                *)
LEMMA FirstRows ==
    ASSUME NEW r \in RunIds, NEW ttl \in Ttl
    PROVE  NewRow(r) \in Row /\ Acquired(NewRow(r), ttl) \in Row
<1>1. NewRow(r) \in Row
  BY LeasesAssumption DEF NewRow, Row, Lifecycle, NoLease
<1> QED
  BY <1>1, AcquiredRow

(* The fencing invariant holds at the start.                               *)
LEMMA FencingInvInit == Init => FencingInv
<1> SUFFICES ASSUME Init PROVE FencingInv
  OBVIOUS
<1> USE DEF Init
<1>1. binding \in [Bindings -> Row]
  <2>1. Lapsed \in Ttl
    BY LeasesAssumption DEF Ttl, Lapsed
  <2>2. CASE binding = [b \in Bindings |-> NewRow(Owner[b])]
    BY <2>1, <2>2, FirstRows, LeasesAssumption
  <2>3. CASE \E ttl \in Ttl : binding = [b \in Bindings |-> Acquired(NewRow(Owner[b]), ttl)]
    BY <2>3, FirstRows, LeasesAssumption
  <2> QED
    BY <2>2, <2>3
<1>2. TypeOK
  BY <1>1 DEF TypeOK, Op
<1>3. \A b \in Bindings : binding[b].epoch \in Nat
  BY <1>1 DEF Row
<1>4. EpochsUnique
  BY DEF EpochsUnique
<1>5. HeldIssued /\ LastOpIssued
  BY <1>3 DEF HeldIssued, LastOpIssued
<1> QED
  BY <1>2, <1>4, <1>5 DEF FencingInv

(* Acquire issues an epoch above every epoch that is held or was used.     *)
LEMMA AcquireStep ==
    ASSUME FencingInv, NEW c \in Clients, NEW b \in Bindings, NEW ttl \in Ttl,
           Acquire(c, b, ttl)
    PROVE  FencingInv'
<1> USE DEF FencingInv
<1>1. /\ binding' \in [Bindings -> Row]
      /\ binding'[b].epoch = binding[b].epoch + 1
      /\ \A d \in Bindings : d # b => binding'[d] = binding[d]
  BY AcquiredRow DEF TypeOK, Acquire
<1>2. \A d \in Bindings : binding[d].epoch \in Nat
  BY DEF TypeOK, Row
<1>3. /\ held' \in [Clients -> [Bindings -> Nat]]
      /\ held'[c][b] = binding[b].epoch + 1
      /\ \A e \in Clients, d \in Bindings : <<e, d>> # <<c, b>> => held'[e][d] = held[e][d]
  BY <1>2 DEF TypeOK, Acquire
<1>4. TypeOK'
  BY <1>1, <1>3 DEF TypeOK, Acquire
<1>5. HeldIssued'
  BY <1>1, <1>2, <1>3 DEF HeldIssued, TypeOK
<1>6. EpochsUnique'
  BY <1>1, <1>2, <1>3 DEF EpochsUnique, HeldIssued, TypeOK
<1>7. LastOpIssued'
  BY <1>1, <1>2, <1>3 DEF LastOpIssued, Acquire, TypeOK, Op
<1> QED
  BY <1>4, <1>5, <1>6, <1>7

(* Every step but Acquire leaves held epochs as they are or drops them, so *)
(* the invariant needs only that no binding's epoch falls.                 *)
LEMMA OtherSteps ==
    ASSUME FencingInv, binding' \in [Bindings -> Row], lastOp' = lastOp,
           held' \in [Clients -> [Bindings -> Nat]],
           \A b \in Bindings : binding'[b].epoch >= binding[b].epoch,
           \A c \in Clients, b \in Bindings : held'[c][b] \in {held[c][b], 0}
    PROVE  FencingInv'
<1> USE DEF FencingInv
<1>1. \A b \in Bindings : binding[b].epoch \in Nat /\ binding'[b].epoch \in Nat
  BY DEF TypeOK, Row
<1>2. TypeOK'
  BY DEF TypeOK
<1>3. EpochsUnique'
  BY DEF EpochsUnique
<1>4. HeldIssued'
  BY <1>1 DEF HeldIssued, TypeOK
<1>5. LastOpIssued'
  BY <1>1 DEF LastOpIssued, TypeOK, Op
<1> QED
  BY <1>2, <1>3, <1>4, <1>5

(* The fencing invariant is inductive.                                     *)
LEMMA FencingInvNext == FencingInv /\ [Next]_vars => FencingInv'
<1> SUFFICES ASSUME FencingInv, [Next]_vars PROVE FencingInv'
  OBVIOUS
<1>0. /\ binding \in [Bindings -> Row]
      /\ held \in [Clients -> [Bindings -> Nat]]
      /\ \A b \in Bindings : binding[b].epoch \in Nat
  BY DEF FencingInv, TypeOK, Row
<1>1. ASSUME NEW c \in Clients, NEW b \in Bindings, NEW ttl \in Ttl, Acquire(c, b, ttl)
      PROVE  FencingInv'
  BY <1>1, AcquireStep
<1>2. ASSUME NEW b \in Bindings, NEW ttl \in Ttl, AcquireUnseen(b, ttl)
      PROVE  FencingInv'
  <2>1. binding' \in [Bindings -> Row] /\ \A d \in Bindings : binding'[d].epoch >= binding[d].epoch
    <3>1. Acquired(binding[b], ttl) \in Row /\ Acquired(binding[b], ttl).epoch = binding[b].epoch + 1
      BY <1>0, AcquiredRow
    <3> QED
      BY <1>0, <1>2, <3>1 DEF AcquireUnseen
  <2> QED
    BY <1>0, <1>2, <2>1, OtherSteps DEF AcquireUnseen
<1>3. ASSUME NEW c \in Clients, NEW b \in Bindings, NEW ttl \in Ttl, Renew(c, b, ttl)
      PROVE  FencingInv'
  <2>1. binding' \in [Bindings -> Row] /\ \A d \in Bindings : binding'[d].epoch >= binding[d].epoch
    <3>1. Renewed(binding[b], ttl) \in Row /\ Renewed(binding[b], ttl).epoch = binding[b].epoch
      BY <1>0, RenewedRow
    <3> QED
      BY <1>0, <1>3, <3>1 DEF Renew
  <2> QED
    BY <1>0, <1>3, <2>1, OtherSteps DEF Renew
<1>4. ASSUME NEW c \in Clients, NEW b \in Bindings, NEW r \in RunIds, Validate(c, b, r)
      PROVE  FencingInv'
  <2>1. TypeOK'
    BY <1>0, <1>4 DEF FencingInv, TypeOK, Validate, Op
  <2>2. EpochsUnique' /\ HeldIssued'
    BY <1>4 DEF FencingInv, EpochsUnique, HeldIssued, Validate
  <2>3. LastOpIssued'
    BY <1>0, <1>4 DEF FencingInv, TypeOK, EpochsUnique, HeldIssued, LastOpIssued, Validate, Op
  <2> QED
    BY <2>1, <2>2, <2>3 DEF FencingInv
<1>5. ASSUME NEW b \in Bindings, Quarantine(b)
      PROVE  FencingInv'
  <2>1. binding' \in [Bindings -> Row] /\ \A d \in Bindings : binding'[d].epoch >= binding[d].epoch
    <3>1. Quarantined(binding[b]) \in Row /\ Quarantined(binding[b]).epoch = binding[b].epoch
      BY <1>0, QuarantinedRow
    <3> QED
      BY <1>0, <1>5, <3>1 DEF Quarantine
  <2> QED
    BY <1>0, <1>5, <2>1, OtherSteps DEF Quarantine
<1>6. ASSUME NEW c \in Clients, NEW b \in Bindings, Forget(c, b)
      PROVE  FencingInv'
  <2>1. /\ held' \in [Clients -> [Bindings -> Nat]]
        /\ \A e \in Clients, d \in Bindings : held'[e][d] \in {held[e][d], 0}
    BY <1>0, <1>6 DEF Forget
  <2> QED
    BY <1>0, <1>6, <2>1, OtherSteps DEF Forget
<1>7. ASSUME Tick
      PROVE  FencingInv'
  <2>1. binding' \in [Bindings -> Row] /\ \A d \in Bindings : binding'[d].epoch >= binding[d].epoch
    <3>1. \A d \in Bindings : /\ [binding[d] EXCEPT !.left = Elapse(@)] \in Row
                             /\ [binding[d] EXCEPT !.left = Elapse(@)].epoch = binding[d].epoch
      BY <1>0, ElapsedRow
    <3>2. binding' \in [Bindings -> Row]
      BY <1>7, <3>1 DEF Tick
    <3>3. \A d \in Bindings : binding'[d].epoch = binding[d].epoch
      BY <1>7, <3>1 DEF Tick
    <3> QED
      BY <1>0, <3>2, <3>3
  <2> QED
    BY <1>0, <1>7, <2>1, OtherSteps DEF Tick
<1>8. CASE UNCHANGED vars
  BY <1>0, <1>8, OtherSteps DEF vars
<1> QED
  BY <1>1, <1>2, <1>3, <1>4, <1>5, <1>6, <1>7, <1>8 DEF Next

(* No epoch of a lease is ever in two hands, none is held before it is     *)
(* issued, and the last admitted operation is attributed to one client:    *)
(* acquire_lease and validate_op, for any number of clients and bindings.  *)
THEOREM FencingInvariant == Spec => []FencingInv
BY FencingInvInit, FencingInvNext, PTL DEF Spec

(* Operations that validate_op admits on a binding are ordered by epoch,   *)
(* and those of one epoch come from one client.                            *)
THEOREM FencingOrdered == Spec => FencingOrder
<1>1. FencingInv /\ [Next]_vars =>
        [\A b \in Bindings : lastOp'[b] # lastOp[b] =>
            /\ lastOp'[b].epoch >= lastOp[b].epoch
            /\ lastOp'[b].epoch = lastOp[b].epoch => lastOp'[b].client = lastOp[b].client]_vars
  <2> SUFFICES ASSUME FencingInv, Next, NEW d \in Bindings, lastOp'[d] # lastOp[d]
               PROVE  /\ lastOp'[d].epoch >= lastOp[d].epoch
                      /\ lastOp'[d].epoch = lastOp[d].epoch
                            => lastOp'[d].client = lastOp[d].client
    OBVIOUS
  <2>1. PICK c \in Clients, b \in Bindings, r \in RunIds : Validate(c, b, r)
    BY DEF Next, Acquire, AcquireUnseen, Renew, Quarantine, Forget, Tick
  <2>2. /\ lastOp \in [Bindings -> Op]
        /\ held \in [Clients -> [Bindings -> Nat]]
        /\ binding[d].epoch \in Nat
    BY DEF FencingInv, TypeOK, Row
  <2>3. d = b /\ lastOp'[d] = [client |-> c, epoch |-> held[c][d]]
    BY <2>1, <2>2 DEF Validate
  <2>4. held[c][d] # 0 /\ held[c][d] = binding[d].epoch
    BY <2>1, <2>3 DEF Validate, Admits
  <2>5. lastOp[d].epoch <= binding[d].epoch
    BY DEF FencingInv, LastOpIssued
  <2>6. held[c][d] = lastOp[d].epoch => lastOp[d].client = c
    BY <2>4 DEF FencingInv, LastOpIssued
  <2> QED
    BY <2>2, <2>3, <2>4, <2>5, <2>6 DEF Op
<1> QED
  BY <1>1, FencingInvariant, PTL DEF Spec, FencingOrder

(* A binding the reconciler has quarantined admits no operation any more,  *)
(* although its lease can still be renewed and acquired.                   *)
THEOREM QuarantineIsFinal == Spec => QuarantineFinal
<1>1. FencingInv /\ [Next]_vars =>
        [\A b \in Bindings : binding[b].lifecycle = "quarantined" =>
            /\ binding'[b].lifecycle = "quarantined"
            /\ lastOp'[b] = lastOp[b]]_vars
  <2> SUFFICES ASSUME FencingInv, Next, NEW d \in Bindings,
                      binding[d].lifecycle = "quarantined"
               PROVE  binding'[d].lifecycle = "quarantined" /\ lastOp'[d] = lastOp[d]
    OBVIOUS
  <2>0. /\ binding \in [Bindings -> Row]
        /\ lastOp \in [Bindings -> Op]
    BY DEF FencingInv, TypeOK
  <2>1. ASSUME NEW c \in Clients, NEW b \in Bindings, NEW ttl \in Ttl,
               Acquire(c, b, ttl) \/ Renew(c, b, ttl)
        PROVE  binding'[d].lifecycle = "quarantined" /\ lastOp'[d] = lastOp[d]
    <3>1. /\ Acquired(binding[b], ttl).lifecycle = binding[b].lifecycle
          /\ Renewed(binding[b], ttl).lifecycle = binding[b].lifecycle
      BY <2>0, AcquiredRow, RenewedRow
    <3> QED
      BY <2>0, <2>1, <3>1 DEF Acquire, Renew
  <2>2. ASSUME NEW b \in Bindings, NEW ttl \in Ttl, AcquireUnseen(b, ttl)
        PROVE  binding'[d].lifecycle = "quarantined" /\ lastOp'[d] = lastOp[d]
    <3>1. Acquired(binding[b], ttl).lifecycle = binding[b].lifecycle
      BY <2>0, AcquiredRow
    <3> QED
      BY <2>0, <2>2, <3>1 DEF AcquireUnseen
  <2>3. ASSUME NEW c \in Clients, NEW b \in Bindings, NEW r \in RunIds, Validate(c, b, r)
        PROVE  binding'[d].lifecycle = "quarantined" /\ lastOp'[d] = lastOp[d]
    BY <2>0, <2>3 DEF Validate, Admits
  <2>4. ASSUME NEW b \in Bindings, Quarantine(b)
        PROVE  binding'[d].lifecycle = "quarantined" /\ lastOp'[d] = lastOp[d]
    <3>1. Quarantined(binding[d]).lifecycle = "quarantined"
      BY <2>0, QuarantinedRow
    <3> QED
      BY <2>0, <2>4, <3>1 DEF Quarantine
  <2>5. ASSUME NEW c \in Clients, NEW b \in Bindings, Forget(c, b)
        PROVE  binding'[d].lifecycle = "quarantined" /\ lastOp'[d] = lastOp[d]
    BY <2>5 DEF Forget
  <2>6. ASSUME Tick
        PROVE  binding'[d].lifecycle = "quarantined" /\ lastOp'[d] = lastOp[d]
    <3>1. [binding[d] EXCEPT !.left = Elapse(@)].lifecycle = binding[d].lifecycle
      BY <2>0, ElapsedRow
    <3> QED
      BY <2>6, <3>1 DEF Tick
  <2> QED
    BY <2>1, <2>2, <2>3, <2>4, <2>5, <2>6 DEF Next
<1> QED
  BY <1>1, FencingInvariant, PTL DEF Spec, QuarantineFinal
=============================================================================
