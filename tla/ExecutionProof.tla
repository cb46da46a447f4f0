--------------------------- MODULE ExecutionProof ---------------------------
(***************************************************************************)
(* Proofs about Execution, for any runs, executors, worktree keys and      *)
(* bounds: its tables stay consistent, what it does to the bindings are    *)
(* steps of Leases, and a prompt executor left alone keeps its lease.  The *)
(* last one follows the executor's clock: from the claim on, the lease it  *)
(* holds ends at least RenewEvery after its next renewal, so neither the   *)
(* reconciler nor the deadline check can take the run away (PromptInv).    *)
(***************************************************************************)
EXTENDS Execution, TLAPS

(* The statuses of a run that has not run, and of one that has and may     *)
(* again.                                                                  *)
NotYetRun == {"draft", "provisioning", "ready"}
Started == {"running", "verifying", "paused", "blocked", "completed"}

(* The edges of the status table: a run enters Started only at running,    *)
(* and never returns to what it was before.                                *)
LEMMA Edges ==
    ASSUME NEW from, NEW to, CanTransitionTo(from, to)
    PROVE  /\ from \in RunStatus /\ to \in RunStatus
           /\ to \in Started /\ to # "running" => from \in Started
           /\ from \notin NotYetRun => to \notin NotYetRun
           /\ to # "ready" \/ from = "provisioning"
BY DEF CanTransitionTo, LegalEdges, RunStatus, Started, NotYetRun

(* run::transition keeps the tables typed and every budget armed.          *)
LEMMA MoveStep ==
    ASSUME TablesOK, BudgetArmed, NEW r, NEW to, Move(r, to)
    PROVE  /\ status' \in [RunIds -> RunStatus]
           /\ wallLeft' \in [RunIds -> Int]
           /\ BudgetArmed'
           /\ \A q \in RunIds : status[q] \notin NotYetRun => status'[q] \notin NotYetRun
           /\ \A q \in RunIds : status'[q] = "ready" => status[q] \in {"ready", "provisioning"}
<1>1. /\ status \in [RunIds -> RunStatus] /\ wallLeft \in [RunIds -> Int]
      /\ \A q \in RunIds : WallLimit[q] \in Int /\ (WallLimit[q] # NoLimit => WallLimit[q] # NotStarted)
  BY ControlAssumption DEF TablesOK, NoLimit, NotStarted
<1>2. /\ CanTransitionTo(status[r], to)
      /\ status' = [status EXCEPT ![r] = to]
      /\ wallLeft' = [wallLeft EXCEPT
                        ![r] = IF to = "running" /\ wallLeft[r] = NotStarted /\ WallLimit[r] # NoLimit
                               THEN WallLimit[r] ELSE wallLeft[r]]
  BY DEF Move
<1>3. /\ to \in RunStatus /\ (to \in Started /\ to # "running" => status[r] \in Started)
      /\ (status[r] \notin NotYetRun => to \notin NotYetRun)
      /\ (to = "ready" => status[r] = "provisioning")
  BY <1>2, Edges
<1>4. status' \in [RunIds -> RunStatus] /\ wallLeft' \in [RunIds -> Int]
  BY <1>1, <1>2, <1>3
<1>5. BudgetArmed'
  BY <1>1, <1>2, <1>3 DEF BudgetArmed, Started
<1> QED
  BY <1>1, <1>2, <1>3, <1>4, <1>5

(* What becomes of a row.                                                  *)
LEMMA RowSteps ==
    ASSUME NEW row \in Row, NEW ttl \in Nat
    PROVE  /\ Acquired(row, ttl) \in Row /\ Acquired(row, ttl).epoch = row.epoch + 1
           /\ Acquired(row, ttl).left = ttl /\ Acquired(row, ttl).owner = row.owner
           /\ Acquired(row, ttl).lifecycle = row.lifecycle
           /\ Renewed(row, ttl) \in Row /\ Renewed(row, ttl).epoch = row.epoch
           /\ Renewed(row, ttl).left = ttl /\ Renewed(row, ttl).owner = row.owner
           /\ Renewed(row, ttl).lifecycle = row.lifecycle
           /\ Quarantined(row) \in Row /\ Quarantined(row).epoch = row.epoch
           /\ Quarantined(row).left = row.left /\ Quarantined(row).owner = row.owner
           /\ [row EXCEPT !.left = Elapse(@)] \in Row
           /\ [row EXCEPT !.left = Elapse(@)].epoch = row.epoch
           /\ [row EXCEPT !.left = Elapse(@)].owner = row.owner
           /\ [row EXCEPT !.left = Elapse(@)].lifecycle = row.lifecycle
           /\ [row EXCEPT !.left = Elapse(@)].left = Elapse(row.left)
<1>1. row.epoch + 1 \in Nat /\ ttl \in Int /\ Elapse(row.left) \in Int
  BY DEF Row, Elapse, Lapsed
<1>2. /\ Acquired(row, ttl) \in Row /\ Acquired(row, ttl).epoch = row.epoch + 1
      /\ Acquired(row, ttl).left = ttl /\ Acquired(row, ttl).owner = row.owner
      /\ Acquired(row, ttl).lifecycle = row.lifecycle
  BY <1>1 DEF Row, Acquired
<1>3. /\ Renewed(row, ttl) \in Row /\ Renewed(row, ttl).epoch = row.epoch
      /\ Renewed(row, ttl).left = ttl /\ Renewed(row, ttl).owner = row.owner
      /\ Renewed(row, ttl).lifecycle = row.lifecycle
  BY <1>1 DEF Row, Renewed
<1>4. /\ Quarantined(row) \in Row /\ Quarantined(row).epoch = row.epoch
      /\ Quarantined(row).left = row.left /\ Quarantined(row).owner = row.owner
  BY DEF Row, Quarantined, Lifecycle
<1>5. /\ [row EXCEPT !.left = Elapse(@)] \in Row
      /\ [row EXCEPT !.left = Elapse(@)].epoch = row.epoch
      /\ [row EXCEPT !.left = Elapse(@)].owner = row.owner
      /\ [row EXCEPT !.left = Elapse(@)].lifecycle = row.lifecycle
      /\ [row EXCEPT !.left = Elapse(@)].left = Elapse(row.left)
  BY <1>1 DEF Row
<1> QED
  BY <1>2, <1>3, <1>4, <1>5

-----------------------------------------------------------------------------
(* Executor e goes on with the run and the binding it has, and no other    *)
(* executor changes.                                                       *)
GoesOn(e, pc, epoch, timer, exit, late) ==
    /\ exec' \in [Executors -> Worker]
    /\ \A f \in Executors : f # e => exec'[f] = exec[f]
    /\ exec'[e].run = exec[e].run /\ exec'[e].binding = exec[e].binding
    /\ exec'[e].pc = pc /\ exec'[e].epoch = epoch /\ exec'[e].timer = timer
    /\ exec'[e].exit = exit /\ exec'[e].late = late

(* Executor e becomes x, and no other executor changes.                    *)
Becomes(e, x) ==
    /\ exec' \in [Executors -> Worker]
    /\ exec'[e] = x
    /\ \A f \in Executors : f # e => exec'[f] = exec[f]

(* Writing a worker's record changes that worker alone.                    *)
LEMMA Put ==
    ASSUME ExecOK, NEW e \in Executors, NEW x \in Worker, exec' = [exec EXCEPT ![e] = x]
    PROVE  Becomes(e, x)
BY DEF ExecOK, Becomes

(* A worker's record is made of typed fields.                              *)
LEMMA WorkerFields ==
    ASSUME ExecOK, NEW e \in Executors
    PROVE  /\ exec \in [Executors -> Worker] /\ exec[e] \in Worker
           /\ exec[e].epoch \in Nat /\ exec[e].timer \in Nat /\ exec[e].exit \in {0, 1}
           /\ exec[e].late \in BOOLEAN
           /\ RenewEvery \in Nat /\ SetupBound \in Nat /\ LeaseTtl \in Nat
BY ExecutorAssumption DEF ExecOK, Worker

(* Two workers' records with the same fields are the same.                 *)
LEMMA WholeWorker ==
    ASSUME NEW x \in Worker, NEW y \in Worker,
           x.pc = y.pc, x.run = y.run, x.binding = y.binding, x.epoch = y.epoch,
           x.timer = y.timer, x.exit = y.exit, x.late = y.late
    PROVE  x = y
BY DEF Worker

(* A worker that has returned from execute_run remembers nothing.          *)
LEMMA IdleIsWorker == Idle \in Worker
BY DEF Idle, Worker

(* The fence admits: the guarded step comes next.                          *)
LEMMA FenceStep ==
    ASSUME ExecOK, NEW e \in Executors, NEW from, NEW to \in LeaseSteps, Fence(e, from, to)
    PROVE  GoesOn(e, to, exec[e].epoch, exec[e].timer, exec[e].exit, exec[e].late)
<1> DEFINE x == [exec[e] EXCEPT !.pc = to]
<1>1. exec' = [exec EXCEPT ![e].pc = to]
  BY DEF Fence
<1>2. exec' = [exec EXCEPT ![e] = x]
  BY <1>1, WorkerFields
<1>3. /\ x \in Worker /\ x.run = exec[e].run /\ x.binding = exec[e].binding
      /\ x.pc = to /\ x.epoch = exec[e].epoch /\ x.timer = exec[e].timer
      /\ x.exit = exec[e].exit /\ x.late = exec[e].late
  BY WorkerFields DEF Worker, LeaseSteps
<1> HIDE DEF x
<1> QED
  BY <1>2, <1>3, Put DEF GoesOn, Becomes

(* git worktree add succeeds.                                              *)
LEMMA WorktreeAddStep ==
    ASSUME ExecOK, NEW e \in Executors, WorktreeAdd(e)
    PROVE  GoesOn(e, "fenceRun", exec[e].epoch, exec[e].timer, exec[e].exit, exec[e].late)
<1> DEFINE x == [exec[e] EXCEPT !.pc = "fenceRun"]
<1>1. exec' = [exec EXCEPT ![e].pc = "fenceRun"]
  BY DEF WorktreeAdd
<1>2. exec' = [exec EXCEPT ![e] = x]
  BY <1>1, WorkerFields
<1>3. /\ x \in Worker /\ x.run = exec[e].run /\ x.binding = exec[e].binding
      /\ x.pc = "fenceRun" /\ x.epoch = exec[e].epoch /\ x.timer = exec[e].timer
      /\ x.exit = exec[e].exit /\ x.late = exec[e].late
  BY WorkerFields DEF Worker, LeaseSteps
<1> HIDE DEF x
<1> QED
  BY <1>2, <1>3, Put DEF GoesOn, Becomes

(* The command is spawned.                                                 *)
LEMMA SpawnStep ==
    ASSUME ExecOK, NEW e \in Executors, Spawn(e)
    PROVE  GoesOn(e, "command", exec[e].epoch, RenewEvery, exec[e].exit, exec[e].late)
<1> DEFINE x == [exec[e] EXCEPT !.pc = "command", !.timer = RenewEvery]
<1>1. exec' = [exec EXCEPT ![e].pc = "command", ![e].timer = RenewEvery]
  BY DEF Spawn
<1>2. exec' = [exec EXCEPT ![e] = x]
  BY <1>1, WorkerFields
<1>3. /\ x \in Worker /\ x.run = exec[e].run /\ x.binding = exec[e].binding
      /\ x.pc = "command" /\ x.epoch = exec[e].epoch /\ x.timer = RenewEvery
      /\ x.exit = exec[e].exit /\ x.late = exec[e].late
  BY WorkerFields DEF Worker, LeaseSteps
<1> HIDE DEF x
<1> QED
  BY <1>2, <1>3, Put DEF GoesOn, Becomes

(* The command exits.                                                      *)
LEMMA ExitStep ==
    ASSUME ExecOK, NEW e \in Executors, NEW code \in 0..1, CommandExits(e, code)
    PROVE  GoesOn(e, "fenceCapture", exec[e].epoch, 0, code, exec[e].late)
<1> DEFINE x == [exec[e] EXCEPT !.pc = "fenceCapture", !.exit = code, !.timer = 0]
<1>1. exec' = [exec EXCEPT ![e].pc = "fenceCapture", ![e].exit = code, ![e].timer = 0]
  BY DEF CommandExits
<1> code \in {0, 1}
  OBVIOUS
<1>2. exec' = [exec EXCEPT ![e] = x]
  BY <1>1, WorkerFields
<1>3. /\ x \in Worker /\ x.run = exec[e].run /\ x.binding = exec[e].binding
      /\ x.pc = "fenceCapture" /\ x.epoch = exec[e].epoch /\ x.timer = 0
      /\ x.exit = code /\ x.late = exec[e].late
  BY WorkerFields DEF Worker, LeaseSteps
<1> HIDE DEF x
<1> QED
  BY <1>2, <1>3, Put DEF GoesOn, Becomes

(* The capture is over, done or denied.                                    *)
LEMMA CaptureStep ==
    ASSUME ExecOK, NEW e \in Executors, CaptureDenied(e) \/ Capture(e)
    PROVE  GoesOn(e, "outcome", exec[e].epoch, exec[e].timer, exec[e].exit, exec[e].late)
<1> DEFINE x == [exec[e] EXCEPT !.pc = "outcome"]
<1>1. exec' = [exec EXCEPT ![e].pc = "outcome"]
  BY DEF CaptureDenied, Capture
<1>2. exec' = [exec EXCEPT ![e] = x]
  BY <1>1, WorkerFields
<1>3. /\ x \in Worker /\ x.run = exec[e].run /\ x.binding = exec[e].binding
      /\ x.pc = "outcome" /\ x.epoch = exec[e].epoch /\ x.timer = exec[e].timer
      /\ x.exit = exec[e].exit /\ x.late = exec[e].late
  BY WorkerFields DEF Worker, LeaseSteps
<1> HIDE DEF x
<1> QED
  BY <1>2, <1>3, Put DEF GoesOn, Becomes

(* The run is claimed.                                                     *)
LEMMA ClaimStep ==
    ASSUME ExecOK, NEW e \in Executors, Claim(e)
    PROVE  GoesOn(e, "lease", exec[e].epoch, exec[e].timer, exec[e].exit,
                  exec[e].late \/ ~Live(binding[exec[e].binding]))
<1> DEFINE l == exec[e].late \/ ~Live(binding[exec[e].binding])
           x == [exec[e] EXCEPT !.pc = "lease", !.late = l]
<1>1. exec' = [exec EXCEPT ![e].pc = "lease", ![e].late = l]
  BY DEF Claim
<1>2. l \in BOOLEAN
  OBVIOUS
<1> HIDE DEF l
<1>3. exec' = [exec EXCEPT ![e] = x]
  BY <1>1, WorkerFields
<1>4. /\ x \in Worker /\ x.run = exec[e].run /\ x.binding = exec[e].binding
      /\ x.pc = "lease" /\ x.epoch = exec[e].epoch /\ x.timer = exec[e].timer
      /\ x.exit = exec[e].exit /\ x.late = l
  BY <1>2, WorkerFields DEF Worker, LeaseSteps
<1> HIDE DEF x
<1>5. GoesOn(e, "lease", exec[e].epoch, exec[e].timer, exec[e].exit, l)
  BY <1>3, <1>4, Put DEF GoesOn, Becomes
<1> QED
  BY <1>5 DEF l

(* The lease is renewed, or found stale: the loop sleeps again.            *)
LEMMA RenewStep ==
    ASSUME ExecOK, NEW e \in Executors, Renew(e)
    PROVE  GoesOn(e, "command", exec[e].epoch, RenewEvery, exec[e].exit, exec[e].late)
<1> DEFINE x == [exec[e] EXCEPT !.timer = RenewEvery]
<1>1. exec[e].pc = "command" /\ exec' = [exec EXCEPT ![e].timer = RenewEvery]
  BY DEF Renew
<1>2. exec' = [exec EXCEPT ![e] = x]
  BY <1>1, WorkerFields
<1>3. /\ x \in Worker /\ x.run = exec[e].run /\ x.binding = exec[e].binding
      /\ x.pc = "command" /\ x.epoch = exec[e].epoch /\ x.timer = RenewEvery
      /\ x.exit = exec[e].exit /\ x.late = exec[e].late
  BY <1>1, WorkerFields DEF Worker, LeaseSteps
<1> HIDE DEF x
<1> QED
  BY <1>2, <1>3, Put DEF GoesOn, Becomes

(* The lease is acquired.                                                  *)
LEMMA AcquireStep ==
    ASSUME TablesOK, ExecOK, NEW e \in Executors, ClaimFits(exec[e]), AcquireLease(e)
    PROVE  GoesOn(e, "fenceAdd", binding[exec[e].binding].epoch + 1, SetupBound, exec[e].exit,
                  exec[e].late)
<1> DEFINE p == binding[exec[e].binding].epoch + 1
           x == [exec[e] EXCEPT !.pc = "fenceAdd", !.epoch = p, !.timer = SetupBound]
<1>1. exec[e].pc = "lease" /\ exec' = [exec EXCEPT ![e].pc = "fenceAdd", ![e].epoch = p,
                                                   ![e].timer = SetupBound]
  BY DEF AcquireLease
<1>2. exec[e].binding \in Bindings
  BY <1>1 DEF ClaimFits
<1>3. p \in Nat
  BY <1>2 DEF TablesOK, Row
<1> HIDE DEF p
<1>4. exec' = [exec EXCEPT ![e] = x]
  BY <1>1, WorkerFields
<1>5. /\ x \in Worker /\ x.run = exec[e].run /\ x.binding = exec[e].binding
      /\ x.pc = "fenceAdd" /\ x.epoch = p /\ x.timer = SetupBound
      /\ x.exit = exec[e].exit /\ x.late = exec[e].late
  BY <1>3, WorkerFields DEF Worker, LeaseSteps
<1> HIDE DEF x
<1>6. GoesOn(e, "fenceAdd", p, SetupBound, exec[e].exit, exec[e].late)
  BY <1>4, <1>5, Put DEF GoesOn, Becomes
<1> QED
  BY <1>6 DEF p

(* An executor reads a run it may execute.                                 *)
LEMMA ReadStep ==
    ASSUME ExecOK, NEW e \in Executors, NEW r \in RunIds, NEW b \in Bindings, ReadRun(e, r, b)
    PROVE  /\ exec' \in [Executors -> Worker]
           /\ \A f \in Executors : f # e => exec'[f] = exec[f]
           /\ exec'[e].pc = "claim" /\ exec'[e].run = r /\ exec'[e].binding = b
           /\ exec'[e].epoch = 0 /\ exec'[e].timer = 0 /\ exec'[e].late = FALSE
<1> DEFINE x == [Idle EXCEPT !.pc = "claim", !.run = r, !.binding = b]
<1>1. exec' = [exec EXCEPT ![e] = x]
  BY DEF ReadRun
<1>2. /\ x \in Worker /\ x.pc = "claim" /\ x.run = r /\ x.binding = b
      /\ x.epoch = 0 /\ x.timer = 0 /\ x.late = FALSE
  BY DEF Idle, Worker
<1> HIDE DEF x
<1> QED
  BY <1>1, <1>2, Put DEF Becomes

(* execute_run returns.                                                    *)
LEMMA ReturnStep ==
    ASSUME ExecOK, NEW e \in Executors,
           FenceDenied(e) \/ WorktreeAddFails(e) \/ Complete(e) \/ Abandon(e)
    PROVE  Becomes(e, Idle)
BY Put, IdleIsWorker DEF FenceDenied, WorktreeAddFails, Complete, Abandon

(* The outcome of the command is recorded.                                 *)
LEMMA OutcomeStep ==
    ASSUME ExecOK, NEW e \in Executors, Outcome(e)
    PROVE  \/ GoesOn(e, "complete", exec[e].epoch, exec[e].timer, exec[e].exit, exec[e].late)
           \/ Becomes(e, Idle)
<1> DEFINE x == [exec[e] EXCEPT !.pc = "complete"]
<1>1. exec' = [exec EXCEPT ![e].pc = "complete"] \/ exec' = [exec EXCEPT ![e] = Idle]
  BY DEF Outcome
<1>2. CASE exec' = [exec EXCEPT ![e].pc = "complete"]
  <2>1. exec' = [exec EXCEPT ![e] = x]
    BY <1>2, WorkerFields
  <2>2. /\ x \in Worker /\ x.run = exec[e].run /\ x.binding = exec[e].binding
        /\ x.pc = "complete" /\ x.epoch = exec[e].epoch /\ x.timer = exec[e].timer
        /\ x.exit = exec[e].exit /\ x.late = exec[e].late
    BY WorkerFields DEF Worker, LeaseSteps
  <2> HIDE DEF x
  <2> QED
    BY <2>1, <2>2, Put DEF GoesOn, Becomes
<1>3. CASE exec' = [exec EXCEPT ![e] = Idle]
  BY <1>3, Put, IdleIsWorker
<1> QED
  BY <1>1, <1>2, <1>3

-----------------------------------------------------------------------------
(* An executor that goes on past the lease still has what it was given.    *)
LEMMA GoesOnFits ==
    ASSUME NEW e \in Executors, ClaimFits(exec[e]), exec[e].pc # "idle",
           NEW pc, pc # "idle", NEW epoch, NEW timer, NEW exit, NEW late,
           GoesOn(e, pc, epoch, timer, exit, late),
           pc \in {"claim", "lease"} => epoch = 0,
           pc \notin {"claim", "lease"} => epoch > 0
    PROVE  ClaimFits(exec'[e])
BY DEF GoesOn, ClaimFits, LeaseSteps

(* A step of an executor leaves every executor with a record that fits     *)
(* its place.                                                              *)
LEMMA ExecStepFits ==
    ASSUME TypeOK, \A f \in Executors : ClaimFits(exec[f]), NEW e \in Executors, ExecStep(e)
    PROVE  /\ exec' \in [Executors -> Worker]
           /\ \A f \in Executors : f # e => exec'[f] = exec[f]
           /\ ClaimFits(exec'[e])
<1> USE DEF TypeOK
<1>1. ASSUME NEW r \in RunIds, NEW b \in Bindings, ReadRun(e, r, b)
      PROVE  /\ exec' \in [Executors -> Worker]
             /\ \A f \in Executors : f # e => exec'[f] = exec[f]
             /\ ClaimFits(exec'[e])
  <2>1. /\ exec' \in [Executors -> Worker]
        /\ \A f \in Executors : f # e => exec'[f] = exec[f]
        /\ exec'[e].pc = "claim" /\ exec'[e].run = r /\ exec'[e].binding = b
        /\ exec'[e].epoch = 0
    BY <1>1, ReadStep
  <2>2. ClaimFits(exec'[e])
    BY <2>1 DEF ClaimFits, LeaseSteps
  <2> QED
    BY <2>1, <2>2
<1>2. ASSUME Becomes(e, Idle)
      PROVE  /\ exec' \in [Executors -> Worker]
             /\ \A f \in Executors : f # e => exec'[f] = exec[f]
             /\ ClaimFits(exec'[e])
  BY <1>2 DEF Becomes, ClaimFits, Idle, LeaseSteps
<1>3. ASSUME NEW pc, NEW epoch, NEW timer, NEW exit, NEW late,
             GoesOn(e, pc, epoch, timer, exit, late), ClaimFits(exec'[e])
      PROVE  /\ exec' \in [Executors -> Worker]
             /\ \A f \in Executors : f # e => exec'[f] = exec[f]
             /\ ClaimFits(exec'[e])
  BY <1>3 DEF GoesOn
<1>4. CASE Claim(e)
  <2>1. exec[e].pc = "claim" /\ exec[e].epoch = 0
    BY <1>4 DEF Claim, ClaimFits
  <2> QED
    BY <1>4, <2>1, <1>3, ClaimStep, GoesOnFits
<1>5. CASE AcquireLease(e)
  <2>1. exec[e].pc = "lease" /\ exec[e].binding \in Bindings
    BY <1>5 DEF AcquireLease, ClaimFits
  <2>2. binding[exec[e].binding].epoch + 1 > 0
    BY <2>1 DEF TablesOK, Row
  <2> HIDE DEF TypeOK
  <2>3. GoesOn(e, "fenceAdd", binding[exec[e].binding].epoch + 1, SetupBound, exec[e].exit,
               exec[e].late)
    BY <1>5, AcquireStep DEF TypeOK
  <2>4. ClaimFits(exec'[e])
    BY <2>1, <2>2, <2>3, GoesOnFits
  <2> QED
    BY <2>3, <2>4, <1>3
<1>6. ASSUME exec[e].pc \in LeaseSteps \cup {"outcome"}
      PROVE  exec[e].pc # "idle" /\ exec[e].epoch > 0
  BY <1>6 DEF ClaimFits, LeaseSteps
<1>7. ASSUME NEW from \in LeaseSteps, NEW to \in LeaseSteps, Fence(e, from, to)
      PROVE  /\ exec' \in [Executors -> Worker]
             /\ \A f \in Executors : f # e => exec'[f] = exec[f]
             /\ ClaimFits(exec'[e])
  <2>1. exec[e].pc \in LeaseSteps /\ to \notin {"idle", "claim", "lease"}
    BY <1>7 DEF Fence, LeaseSteps
  <2> QED
    BY <1>3, <1>6, <1>7, <2>1, FenceStep, GoesOnFits
<1>8. CASE WorktreeAdd(e)
  <2>1. GoesOn(e, "fenceRun", exec[e].epoch, exec[e].timer, exec[e].exit, exec[e].late)
    BY <1>8, WorktreeAddStep
  <2>2. exec[e].pc # "idle" /\ exec[e].epoch > 0
    BY <1>6, <1>8 DEF WorktreeAdd, LeaseSteps
  <2>3. ClaimFits(exec'[e])
    BY <2>1, <2>2, GoesOnFits
  <2> QED
    BY <1>3, <2>1, <2>3
<1>9. CASE Spawn(e)
  <2>1. GoesOn(e, "command", exec[e].epoch, RenewEvery, exec[e].exit, exec[e].late)
    BY <1>9, SpawnStep
  <2>2. exec[e].pc # "idle" /\ exec[e].epoch > 0
    BY <1>6, <1>9 DEF Spawn, LeaseSteps
  <2>3. ClaimFits(exec'[e])
    BY <2>1, <2>2, GoesOnFits
  <2> QED
    BY <1>3, <2>1, <2>3
<1>10. CASE Renew(e)
  <2>1. GoesOn(e, "command", exec[e].epoch, RenewEvery, exec[e].exit, exec[e].late)
    BY <1>10, RenewStep
  <2>2. exec[e].pc # "idle" /\ exec[e].epoch > 0
    BY <1>6, <1>10 DEF Renew, LeaseSteps
  <2>3. ClaimFits(exec'[e])
    BY <2>1, <2>2, GoesOnFits
  <2> QED
    BY <1>3, <2>1, <2>3
<1>11. ASSUME NEW code \in 0..1, CommandExits(e, code)
       PROVE  /\ exec' \in [Executors -> Worker]
              /\ \A f \in Executors : f # e => exec'[f] = exec[f]
              /\ ClaimFits(exec'[e])
  <2>1. GoesOn(e, "fenceCapture", exec[e].epoch, 0, code, exec[e].late)
    BY <1>11, ExitStep
  <2>2. exec[e].pc # "idle" /\ exec[e].epoch > 0
    BY <1>6, <1>11 DEF CommandExits, LeaseSteps
  <2>3. ClaimFits(exec'[e])
    BY <2>1, <2>2, GoesOnFits
  <2> QED
    BY <1>3, <2>1, <2>3
<1>12. CASE CaptureDenied(e) \/ Capture(e)
  <2>1. GoesOn(e, "outcome", exec[e].epoch, exec[e].timer, exec[e].exit, exec[e].late)
    BY <1>12, CaptureStep
  <2>2. exec[e].pc # "idle" /\ exec[e].epoch > 0
    BY <1>6, <1>12 DEF CaptureDenied, Capture, LeaseSteps
  <2>3. ClaimFits(exec'[e])
    BY <2>1, <2>2, GoesOnFits
  <2> QED
    BY <1>3, <2>1, <2>3
<1>13. CASE Outcome(e)
  <2>1. exec[e].pc = "outcome"
    BY <1>13 DEF Outcome
  <2> QED
    BY <1>2, <1>3, <1>6, <1>13, <2>1, OutcomeStep, GoesOnFits
<1>14. CASE FenceDenied(e) \/ WorktreeAddFails(e) \/ Complete(e) \/ Abandon(e)
  BY <1>2, <1>14, ReturnStep
<1> QED
  BY <1>1, <1>4, <1>5, <1>7, <1>8, <1>9, <1>10, <1>11, <1>12, <1>13, <1>14
     DEF ExecStep, LeaseSteps

(* What a step of an executor does to the tables and to the last           *)
(* operations: it moves its run or leaves it, writes its own binding, and  *)
(* records itself.                                                         *)
LEMMA ExecStepTables ==
    ASSUME TypeOK, \A f \in Executors : ClaimFits(exec[f]), NEW e \in Executors, ExecStep(e)
    PROVE  /\ \/ \E to \in RunStatus : Move(exec[e].run, to)
              \/ UNCHANGED <<status, wallLeft>>
           /\ \/ UNCHANGED binding
              \/ /\ exec[e].binding \in Bindings
                 /\ \/ binding' = [binding EXCEPT ![exec[e].binding] = Acquired(@, LeaseTtl)]
                    \/ binding' = [binding EXCEPT ![exec[e].binding] = Renewed(@, LeaseTtl)]
           /\ \/ UNCHANGED lastOp
              \/ lastOp' = [lastOp EXCEPT ![exec[e].binding] =
                                           [client |-> e, epoch |-> exec[e].epoch]]
<1>1. exec[e].pc \in {"lease", "command"} => exec[e].binding \in Bindings
  BY DEF ClaimFits
<1>2. {"running", "failed", "verifying", "completed"} \subseteq RunStatus
  BY DEF RunStatus
<1>3. ASSUME NEW r \in RunIds, NEW b \in Bindings, ReadRun(e, r, b)
      PROVE  UNCHANGED <<status, wallLeft, binding, lastOp>>
  BY <1>3 DEF ReadRun, tables
<1>4. ASSUME NEW from, NEW to, Fence(e, from, to)
      PROVE  /\ UNCHANGED <<status, wallLeft, binding>>
             /\ lastOp' = [lastOp EXCEPT ![exec[e].binding] =
                                          [client |-> e, epoch |-> exec[e].epoch]]
  BY <1>4 DEF Fence, tables
<1>5. CASE Claim(e) \/ WorktreeAddFails(e) \/ Outcome(e) \/ Complete(e)
  <2>1. UNCHANGED <<binding, lastOp>>
    BY <1>5 DEF Claim, WorktreeAddFails, Outcome, Complete
  <2>2. \/ \E to \in {"running", "failed", "verifying", "completed"} : Move(exec[e].run, to)
        \/ UNCHANGED <<status, wallLeft>>
    BY <1>5 DEF Claim, WorktreeAddFails, Outcome, Complete
  <2> QED
    BY <1>2, <2>1, <2>2
<1>6. CASE AcquireLease(e)
  BY <1>1, <1>6 DEF AcquireLease
<1>7. CASE Renew(e)
  BY <1>1, <1>7 DEF Renew
<1>8. ASSUME \/ WorktreeAdd(e) \/ Spawn(e) \/ FenceDenied(e) \/ CaptureDenied(e)
             \/ Capture(e) \/ Abandon(e) \/ \E code \in 0..1 : CommandExits(e, code)
      PROVE  UNCHANGED <<status, wallLeft, binding, lastOp>>
  BY <1>8 DEF WorktreeAdd, Spawn, FenceDenied, CaptureDenied, Capture, Abandon, CommandExits, tables
<1> QED
  BY <1>3, <1>4, <1>5, <1>6, <1>7, <1>8 DEF ExecStep

-----------------------------------------------------------------------------
(* A step of the sweep keeps the sweep's record typed, pauses at most one  *)
(* run and quarantines at most one binding.                                *)
LEMMA SweepEffect ==
    ASSUME TablesOK, SweepOK, SweepStep
    PROVE  /\ SweepOK'
           /\ Move(sweep.cur, "paused") \/ UNCHANGED <<status, wallLeft>>
           /\ \/ UNCHANGED binding
              \/ \E b \in Bindings : binding' = [binding EXCEPT ![b] = Quarantined(@)]
<1> USE DEF SweepOK
<1>1. CASE SelectExpired
  BY <1>1 DEF SelectExpired, Asleep, tables
<1>2. CASE SelectExhausted
  <2> DEFINE overrun == {r \in RunIds : status[r] = "running" /\ Overrun(r)}
  <2>1. sweep' = [pc |-> "row", pass |-> "wall", todo |-> overrun, seen |-> {}, cur |-> NoRun]
    BY <1>2 DEF SelectExhausted, Asleep
  <2>2. overrun \in (SUBSET Bindings) \cup (SUBSET RunIds)
    <3>1. overrun \in SUBSET RunIds
      OBVIOUS
    <3> HIDE DEF overrun
    <3> QED
      BY <3>1
  <2>3. UNCHANGED <<status, wallLeft, binding>>
    BY <1>2 DEF SelectExhausted, tables
  <2> HIDE DEF overrun
  <2>4. SweepOK'
    BY <2>1, <2>2
  <2> QED
    BY <2>3, <2>4
<1>3. CASE SweepDone
  BY <1>3 DEF SweepDone, Asleep, tables
<1>4. ASSUME NEW r \in RunIds, NEW todo \in (SUBSET Bindings) \cup (SUBSET RunIds), PauseOnce(r, todo)
      PROVE  SweepOK'
  <2> DEFINE seen == sweep.seen \cup {r}
  <2>1. seen \in SUBSET RunIds
    OBVIOUS
  <2>2. \/ sweep' = [sweep EXCEPT !.todo = todo]
        \/ sweep' = [sweep EXCEPT !.todo = todo, !.pc = "read", !.cur = r, !.seen = seen]
    BY <1>4 DEF PauseOnce
  <2> HIDE DEF seen
  <2> QED
    BY <2>1, <2>2
<1>5. ASSUME NEW b \in Bindings, QuarantineRow(b) PROVE SweepOK'
  <2>1. binding[b].owner \in RunIds
    BY DEF TablesOK, Row
  <2>2. sweep.todo \ {b} \in (SUBSET Bindings) \cup (SUBSET RunIds)
    OBVIOUS
  <2>3. PauseOnce(binding[b].owner, sweep.todo \ {b})
    BY <1>5 DEF QuarantineRow
  <2> QED
    BY <1>4, <2>1, <2>2, <2>3
<1>6. ASSUME NEW r \in RunIds, ExhaustedRow(r) PROVE SweepOK'
  <2>1. sweep.todo \ {r} \in (SUBSET Bindings) \cup (SUBSET RunIds)
    OBVIOUS
  <2>2. PauseOnce(r, sweep.todo \ {r})
    BY <1>6 DEF ExhaustedRow
  <2> QED
    BY <1>4, <2>1, <2>2
<1>7. CASE PauseRead
  BY <1>7 DEF PauseRead, tables
<1>8. CASE PauseWrite
  BY <1>8 DEF PauseWrite, Asleep
<1>9. ASSUME NEW b \in Bindings, QuarantineRow(b)
      PROVE  /\ binding' = [binding EXCEPT ![b] = Quarantined(@)]
             /\ UNCHANGED <<status, wallLeft>>
  BY <1>9 DEF QuarantineRow
<1>10. ASSUME NEW r \in RunIds, ExhaustedRow(r) PROVE UNCHANGED <<status, wallLeft, binding>>
  BY <1>10 DEF ExhaustedRow, tables
<1> HIDE DEF SweepOK
<1> QED
  BY <1>1, <1>2, <1>3, <1>5, <1>6, <1>7, <1>8, <1>9, <1>10 DEF SweepStep

(* A unit of time for one worker: its record stays a record, its timer     *)
(* goes down, and it may turn out to be late.                              *)
LEMMA TimersStep ==
    ASSUME ExecOK, TimersRun
    PROVE  /\ exec' \in [Executors -> Worker]
           /\ \A e \in Executors :
                 /\ exec'[e].pc = exec[e].pc /\ exec'[e].run = exec[e].run
                 /\ exec'[e].binding = exec[e].binding /\ exec'[e].epoch = exec[e].epoch
                 /\ exec'[e].timer = (IF exec[e].timer = 0 THEN 0 ELSE exec[e].timer - 1)
                 /\ exec'[e].late = (exec[e].late \/ Overdue(e))
                 /\ exec[e] = Idle => exec'[e] = Idle
<1>1. ASSUME NEW e \in Executors
      PROVE  /\ exec'[e] \in Worker
             /\ exec'[e].pc = exec[e].pc /\ exec'[e].run = exec[e].run
             /\ exec'[e].binding = exec[e].binding /\ exec'[e].epoch = exec[e].epoch
             /\ exec'[e].timer = (IF exec[e].timer = 0 THEN 0 ELSE exec[e].timer - 1)
             /\ exec'[e].late = (exec[e].late \/ Overdue(e))
             /\ exec[e] = Idle => exec'[e] = Idle
  <2> DEFINE t == IF exec[e].timer = 0 THEN 0 ELSE exec[e].timer - 1
             l == exec[e].late \/ Overdue(e)
             x == [exec[e] EXCEPT !.timer = t, !.late = l]
  <2>1. exec'[e] = x
    BY DEF TimersRun
  <2>2. t \in Nat /\ l \in BOOLEAN
    BY WorkerFields
  <2>3. exec[e] = Idle => t = 0 /\ l = FALSE
    BY DEF Idle, Overdue, LeaseSteps
  <2> HIDE DEF t, l
  <2>4. /\ x \in Worker /\ x.pc = exec[e].pc /\ x.run = exec[e].run
        /\ x.binding = exec[e].binding /\ x.epoch = exec[e].epoch
        /\ x.timer = t /\ x.late = l
    BY <2>2, WorkerFields DEF Worker
  <2>5. x.exit = exec[e].exit
    BY WorkerFields DEF Worker
  <2> HIDE DEF x
  <2>6. exec'[e] \in Worker /\ (exec[e] = Idle => exec'[e] = Idle)
    <3>1. Idle.timer = 0 /\ Idle.late = FALSE
      BY DEF Idle
    <3>2. ASSUME exec[e] = Idle PROVE x = Idle
      BY <2>3, <2>4, <2>5, <3>1, <3>2, WholeWorker, IdleIsWorker
    <3> QED
      BY <2>1, <2>4, <3>2
  <2> QED
    BY <2>1, <2>4, <2>6 DEF t, l
<1>2. exec' = [e \in Executors |-> exec'[e]]
  BY DEF TimersRun
<1> QED
  BY <1>1, <1>2

(* The tables stay typed when a binding is written.                        *)
LEMMA BindingWritten ==
    ASSUME TablesOK, NEW b \in Bindings, NEW row \in Row, binding' = [binding EXCEPT ![b] = row]
    PROVE  binding' \in [Bindings -> Row]
BY DEF TablesOK

(* Initially the execution phase is sound.                                 *)
LEMMA ExecutionInvInit == Init => ExecutionInv
<1> SUFFICES ASSUME Init PROVE ExecutionInv
  OBVIOUS
<1>1. \A b \in Bindings : Acquired(NewRow(Owner[b]), ProvisionTtl) \in Row
  <2> TAKE b \in Bindings
  <2>1. NewRow(Owner[b]) \in Row
    BY ControlAssumption DEF NewRow, Row, Lifecycle, NoLease
  <2> QED
    BY <2>1, RowSteps, ControlAssumption
<1>2. TablesOK
  BY <1>1 DEF Init, TablesInit, TablesOK, RunStatus, NotStarted
<1>3. SweepOK
  BY DEF Init, SweepInit, SweepOK, Asleep
<1>4. ExecOK
  BY IdleIsWorker DEF Init, ExecInit, ExecOK
<1>5. left \in [ops : 0..MaxOps, crashes : 0..MaxCrashes, leases : 0..MaxOutOfBand]
  BY ExecutionAssumption DEF Init
<1>6. BudgetArmed
  BY DEF Init, TablesInit, BudgetArmed
<1>7. \A e \in Executors : ClaimFits(exec[e])
  BY DEF Init, ExecInit, ClaimFits, Idle, LeaseSteps
<1> QED
  BY <1>2, <1>3, <1>4, <1>5, <1>6, <1>7 DEF ExecutionInv, TypeOK

(* Every step keeps it so.                                                 *)
LEMMA ExecutionInvStep == ExecutionInv /\ [Next]_vars => ExecutionInv'
<1> SUFFICES ASSUME ExecutionInv, [Next]_vars PROVE ExecutionInv'
  OBVIOUS
<1>1. /\ TypeOK /\ TablesOK /\ SweepOK /\ ExecOK /\ BudgetArmed
      /\ \A e \in Executors : ClaimFits(exec[e])
      /\ left \in [ops : 0..MaxOps, crashes : 0..MaxCrashes, leases : 0..MaxOutOfBand]
  BY DEF ExecutionInv, TypeOK
<1>2. ASSUME UNCHANGED <<status, wallLeft>>
      PROVE  /\ status' \in [RunIds -> RunStatus] /\ wallLeft' \in [RunIds -> Int]
             /\ BudgetArmed'
  BY <1>1, <1>2 DEF TablesOK, BudgetArmed
<1>3. ASSUME UNCHANGED binding PROVE binding' \in [Bindings -> Row]
  BY <1>1, <1>3 DEF TablesOK
<1>4. ASSUME UNCHANGED execVars
      PROVE  ExecOK' /\ \A e \in Executors : ClaimFits(exec'[e])
  <2>1. exec' = exec /\ lastOp' = lastOp
    BY <1>4 DEF execVars
  <2> QED
    BY <1>1, <2>1 DEF ExecOK
<1>5. ASSUME UNCHANGED sweep PROVE SweepOK'
  BY <1>1, <1>5 DEF SweepOK
<1>6. ASSUME UNCHANGED left
      PROVE  left' \in [ops : 0..MaxOps, crashes : 0..MaxCrashes, leases : 0..MaxOutOfBand]
  BY <1>1, <1>6
<1>7. ASSUME status' \in [RunIds -> RunStatus], wallLeft' \in [RunIds -> Int], BudgetArmed',
             binding' \in [Bindings -> Row], SweepOK', ExecOK',
             \A e \in Executors : ClaimFits(exec'[e]),
             left' \in [ops : 0..MaxOps, crashes : 0..MaxCrashes, leases : 0..MaxOutOfBand]
      PROVE  ExecutionInv'
  BY <1>7 DEF ExecutionInv, TypeOK, TablesOK, ClaimFits
<1>8. \A b \in Bindings : binding[b] \in Row
  BY <1>1 DEF TablesOK
<1>9. LeaseTtl \in Nat
  BY ExecutorAssumption
<1>10. CASE Sweep
  <2>1. SweepStep /\ UNCHANGED execVars /\ UNCHANGED left
    BY <1>10 DEF Sweep
  <2>2. status' \in [RunIds -> RunStatus] /\ wallLeft' \in [RunIds -> Int] /\ BudgetArmed'
    BY <1>1, <1>2, <2>1, SweepEffect, MoveStep
  <2>3. binding' \in [Bindings -> Row]
    <3>1. CASE UNCHANGED binding
      BY <1>3, <3>1
    <3>2. ASSUME NEW b \in Bindings, binding' = [binding EXCEPT ![b] = Quarantined(@)]
          PROVE  binding' \in [Bindings -> Row]
      <4>1. Quarantined(binding[b]) \in Row
        BY <1>8, <1>9, RowSteps
      <4> QED
        BY <1>1, <3>2, <4>1, BindingWritten
    <3> QED
      BY <1>1, <2>1, <3>1, <3>2, SweepEffect
  <2>4. SweepOK'
    BY <1>1, <2>1, SweepEffect
  <2> QED
    BY <1>4, <1>6, <1>7, <2>1, <2>2, <2>3, <2>4
<1>11. ASSUME NEW e \in Executors, Execute(e) PROVE ExecutionInv'
  <2>1. ExecStep(e) /\ UNCHANGED sweep /\ UNCHANGED left
    BY <1>11 DEF Execute
  <2>2. /\ exec' \in [Executors -> Worker]
        /\ \A f \in Executors : f # e => exec'[f] = exec[f]
        /\ ClaimFits(exec'[e])
    BY <1>1, <2>1, ExecStepFits
  <2>3. \A f \in Executors : ClaimFits(exec'[f])
    BY <1>1, <2>2
  <2>4. /\ \/ \E to \in RunStatus : Move(exec[e].run, to)
           \/ UNCHANGED <<status, wallLeft>>
        /\ \/ UNCHANGED binding
           \/ /\ exec[e].binding \in Bindings
              /\ \/ binding' = [binding EXCEPT ![exec[e].binding] = Acquired(@, LeaseTtl)]
                 \/ binding' = [binding EXCEPT ![exec[e].binding] = Renewed(@, LeaseTtl)]
        /\ \/ UNCHANGED lastOp
           \/ lastOp' = [lastOp EXCEPT ![exec[e].binding] =
                                        [client |-> e, epoch |-> exec[e].epoch]]
    BY <1>1, <2>1, ExecStepTables
  <2>5. status' \in [RunIds -> RunStatus] /\ wallLeft' \in [RunIds -> Int] /\ BudgetArmed'
    BY <1>1, <1>2, <2>4, MoveStep
  <2>6. binding' \in [Bindings -> Row]
    <3>1. CASE UNCHANGED binding
      BY <1>3, <3>1
    <3>2. ASSUME exec[e].binding \in Bindings
          PROVE  /\ Acquired(binding[exec[e].binding], LeaseTtl) \in Row
                 /\ Renewed(binding[exec[e].binding], LeaseTtl) \in Row
      BY <1>8, <1>9, <3>2, RowSteps
    <3> QED
      BY <1>1, <2>4, <3>1, <3>2, BindingWritten
  <2>7. lastOp' \in [Bindings -> [client : Executors \cup {NoExecutor}, epoch : Nat]]
    <3>1. exec[e].epoch \in Nat
      BY <1>1, WorkerFields
    <3> QED
      BY <1>1, <2>4, <3>1 DEF ExecOK
  <2>8. ExecOK'
    BY <2>2, <2>7 DEF ExecOK
  <2> QED
    BY <1>5, <1>6, <1>7, <2>1, <2>3, <2>5, <2>6, <2>8
<1>12. ASSUME NEW r \in RunIds, NEW to \in RunStatus, Operate(r, to) PROVE ExecutionInv'
  <2>1. /\ Move(r, to) /\ UNCHANGED binding /\ UNCHANGED sweep /\ UNCHANGED execVars
        /\ left.ops > 0 /\ left' = [left EXCEPT !.ops = @ - 1]
    BY <1>12 DEF Operate, OperatorMove
  <2>2. left' \in [ops : 0..MaxOps, crashes : 0..MaxCrashes, leases : 0..MaxOutOfBand]
    BY <1>1, <2>1, ExecutionAssumption
  <2> QED
    BY <1>1, <1>3, <1>4, <1>5, <1>7, <2>1, <2>2, MoveStep
<1>13. ASSUME NEW b \in Bindings, TakeLease(b) PROVE ExecutionInv'
  <2>1. /\ binding' = [binding EXCEPT ![b] = Acquired(@, LeaseTtl)]
        /\ UNCHANGED <<status, wallLeft>> /\ UNCHANGED sweep /\ UNCHANGED execVars
        /\ left.leases > 0 /\ left' = [left EXCEPT !.leases = @ - 1]
    BY <1>13 DEF TakeLease, AcquireOutOfBand
  <2>2. left' \in [ops : 0..MaxOps, crashes : 0..MaxCrashes, leases : 0..MaxOutOfBand]
    BY <1>1, <2>1, ExecutionAssumption
  <2>3. binding' \in [Bindings -> Row]
    BY <1>1, <1>8, <1>9, <2>1, BindingWritten, RowSteps
  <2> QED
    BY <1>2, <1>4, <1>5, <1>7, <2>1, <2>2, <2>3
<1>14. CASE Crash
  <2>1. /\ sweep' = Asleep /\ UNCHANGED <<status, wallLeft>> /\ UNCHANGED binding
        /\ UNCHANGED execVars
        /\ left.crashes > 0 /\ left' = [left EXCEPT !.crashes = @ - 1]
    BY <1>14 DEF Crash, CoordinatorCrash, tables
  <2>2. left' \in [ops : 0..MaxOps, crashes : 0..MaxCrashes, leases : 0..MaxOutOfBand]
    BY <1>1, <2>1, ExecutionAssumption
  <2>3. SweepOK'
    BY <2>1 DEF SweepOK, Asleep
  <2> QED
    BY <1>2, <1>3, <1>4, <1>7, <2>1, <2>2, <2>3
<1>15. CASE Tick
  <2>1. /\ TimersRun /\ UNCHANGED lastOp /\ UNCHANGED sweep /\ UNCHANGED left
        /\ binding' = [b \in Bindings |-> [binding[b] EXCEPT !.left = Elapse(@)]]
        /\ wallLeft' = [r \in RunIds |-> Elapse(wallLeft[r])]
        /\ status' = status
    BY <1>15 DEF Tick, TimePasses, TimersRun
  <2>2. binding' \in [Bindings -> Row]
    BY <1>8, <1>9, <2>1, RowSteps
  <2>3. status' \in [RunIds -> RunStatus] /\ wallLeft' \in [RunIds -> Int]
    BY <1>1, <2>1 DEF TablesOK, Elapse, Lapsed
  <2>4. BudgetArmed'
    BY <1>1, <2>1 DEF TablesOK, BudgetArmed, Elapse, Lapsed, NotStarted
  <2>5. ExecOK'
    BY <1>1, <2>1, TimersStep DEF ExecOK
  <2>6. \A e \in Executors : ClaimFits(exec'[e])
    <3> TAKE e \in Executors
    <3>1. /\ exec'[e].pc = exec[e].pc /\ exec'[e].run = exec[e].run
          /\ exec'[e].binding = exec[e].binding /\ exec'[e].epoch = exec[e].epoch
          /\ exec[e] = Idle => exec'[e] = Idle
      BY <1>1, <2>1, TimersStep
    <3> QED
      BY <1>1, <3>1 DEF ClaimFits
  <2> QED
    BY <1>5, <1>6, <1>7, <2>1, <2>2, <2>3, <2>4, <2>5, <2>6
<1>16. CASE UNCHANGED vars
  <2>1. /\ UNCHANGED <<status, wallLeft>> /\ UNCHANGED binding /\ UNCHANGED sweep
        /\ UNCHANGED execVars /\ UNCHANGED left
    BY <1>16 DEF vars, tables
  <2> QED
    BY <1>2, <1>3, <1>4, <1>5, <1>6, <1>7, <2>1
<1> QED
  BY <1>10, <1>11, <1>12, <1>13, <1>14, <1>15, <1>16 DEF Next

(* The execution phase stays sound, for any number of runs, bindings and   *)
(* executors: types, clocks of started runs that run, and executors that   *)
(* act only on the run, binding and epoch they were given.                 *)
THEOREM ExecutionInvariant == Spec => []ExecutionInv
<1> QED
  BY ExecutionInvInit, ExecutionInvStep, PTL DEF Spec

-----------------------------------------------------------------------------
(* The epoch an executor holds on a binding, for Leases.                   *)
HeldBy(x, b) == IF x.binding = b THEN x.epoch ELSE 0

(* Leases writes rows with the operators of BindingRow.                    *)
LEMMA SameRows ==
    /\ \A row, ttl : Fencing!Acquired(row, ttl) = Acquired(row, ttl)
    /\ \A row, ttl : Fencing!Renewed(row, ttl) = Renewed(row, ttl)
    /\ \A row : Fencing!Quarantined(row) = Quarantined(row)
    /\ \A row, r, epoch : Fencing!Admits(row, r, epoch) = Admits(row, r, epoch)
    /\ \A n : Fencing!Elapse(n) = Elapse(n)
    /\ \A r : Fencing!NewRow(r) = NewRow(r)
BY DEF Fencing!Acquired, Acquired, Fencing!Renewed, Renewed, Fencing!Quarantined, Quarantined,
       Fencing!Admits, Admits, Fencing!Live, Live, Fencing!Elapse, Elapse, Fencing!Lapsed, Lapsed,
       Fencing!NewRow, NewRow, Fencing!NoLease, NoLease

(* The lengths of the leases of this phase are lengths Leases knows.       *)
LEMMA SameTtl == LeaseTtl \in Fencing!Ttl /\ ProvisionTtl \in Fencing!Ttl
BY ExecutorAssumption, ControlAssumption, ExecutionAssumption DEF Fencing!Ttl, Fencing!Lapsed

(* HeldEpochs, executor by executor.                                       *)
LEMMA HeldIs ==
    /\ HeldEpochs = [e \in Executors |-> [b \in Bindings |-> HeldBy(exec[e], b)]]
    /\ HeldEpochs' = [e \in Executors |-> [b \in Bindings |-> HeldBy(exec'[e], b)]]
BY DEF HeldEpochs, HeldBy

(* An executor whose step changes neither its binding nor its epoch holds  *)
(* what it held.                                                           *)
LEMMA HeldKept ==
    ASSUME NEW e \in Executors, \A f \in Executors : f # e => exec'[f] = exec[f],
           \A b \in Bindings : HeldBy(exec'[e], b) = HeldBy(exec[e], b)
    PROVE  HeldEpochs' = HeldEpochs
<1>1. \A f \in Executors, b \in Bindings : HeldBy(exec'[f], b) = HeldBy(exec[f], b)
  OBVIOUS
<1> QED
  BY <1>1, HeldIs, Zenon

(* An executor whose step changes what it holds on one binding.            *)
LEMMA HeldChanged ==
    ASSUME NEW e \in Executors, \A f \in Executors : f # e => exec'[f] = exec[f],
           NEW b \in Bindings, NEW epoch,
           \A c \in Bindings : HeldBy(exec'[e], c) = IF c = b THEN epoch ELSE HeldBy(exec[e], c)
    PROVE  HeldEpochs' = [HeldEpochs EXCEPT ![e][b] = epoch]
<1> DEFINE new == [f \in Executors |-> [c \in Bindings |->
                     IF f = e /\ c = b THEN epoch ELSE HeldBy(exec[f], c)]]
<1>1. [HeldEpochs EXCEPT ![e][b] = epoch] = new
  BY HeldIs
<1>2. \A f \in Executors, c \in Bindings :
         HeldBy(exec'[f], c) = IF f = e /\ c = b THEN epoch ELSE HeldBy(exec[f], c)
  OBVIOUS
<1>3. HeldEpochs' = new
  BY <1>2, HeldIs
<1> QED
  BY <1>1, <1>3

(* A step that leaves an executor's run, binding and epoch alone, and the  *)
(* rows and the last operations too, changes nothing in Leases.            *)
LEMMA GoesOnHolds ==
    ASSUME NEW e \in Executors, NEW pc, NEW timer, NEW exit, NEW late,
           GoesOn(e, pc, exec[e].epoch, timer, exit, late)
    PROVE  HeldEpochs' = HeldEpochs
BY HeldKept DEF GoesOn, HeldBy

(* An executor that returns forgets the epoch it held.                     *)
LEMMA ReturnForgets ==
    ASSUME NEW e \in Executors, ClaimFits(exec[e]), exec[e].pc # "idle", Becomes(e, Idle),
           UNCHANGED <<binding, lastOp>>
    PROVE  Fencing!Next
<1>1. exec[e].binding \in Bindings
  BY DEF ClaimFits
<1>2. \A c \in Bindings : HeldBy(exec'[e], c) = IF c = exec[e].binding THEN 0 ELSE HeldBy(exec[e], c)
  BY DEF Becomes, HeldBy, Idle
<1>3. HeldEpochs' = [HeldEpochs EXCEPT ![e][exec[e].binding] = 0]
  BY <1>1, <1>2, HeldChanged DEF Becomes
<1>4. Fencing!Forget(e, exec[e].binding)
  BY <1>3 DEF Fencing!Forget
<1> QED
  BY <1>1, <1>4 DEF Fencing!Next

(* What a step of an executor is in Leases.                                *)
LEMMA ExecStepLeases ==
    ASSUME TypeOK, \A f \in Executors : ClaimFits(exec[f]), NEW e \in Executors, ExecStep(e)
    PROVE  Fencing!Next \/ UNCHANGED Fencing!vars
<1>1. TablesOK /\ ExecOK /\ ClaimFits(exec[e])
  BY DEF TypeOK
<1>2. ASSUME HeldEpochs' = HeldEpochs, UNCHANGED <<binding, lastOp>>
      PROVE  UNCHANGED Fencing!vars
  BY <1>2 DEF Fencing!vars
<1>3. ASSUME NEW r \in RunIds, NEW b \in Bindings, ReadRun(e, r, b)
      PROVE  UNCHANGED Fencing!vars
  <2>1. exec[e].pc = "idle" /\ UNCHANGED <<binding, lastOp>>
    BY <1>3 DEF ReadRun, tables
  <2>2. exec[e].epoch = 0
    BY <1>1, <2>1 DEF ClaimFits, Idle
  <2>3. exec'[e].epoch = 0 /\ \A f \in Executors : f # e => exec'[f] = exec[f]
    BY <1>1, <1>3, ReadStep
  <2> QED
    BY <1>2, <2>1, <2>2, <2>3, HeldKept DEF HeldBy
<1>4. CASE Claim(e)
  BY <1>1, <1>2, <1>4, ClaimStep, GoesOnHolds DEF Claim
<1>5. CASE AcquireLease(e)
  <2> DEFINE b == exec[e].binding
  <2>1. /\ exec[e].pc = "lease" /\ binding[b].epoch < MaxEpoch /\ UNCHANGED lastOp
        /\ binding' = [binding EXCEPT ![b] = Acquired(@, LeaseTtl)]
    BY <1>5 DEF AcquireLease
  <2>2. b \in Bindings /\ exec[e].epoch = 0
    BY <1>1, <2>1 DEF ClaimFits
  <2>3. GoesOn(e, "fenceAdd", binding[b].epoch + 1, SetupBound, exec[e].exit, exec[e].late)
    BY <1>1, <1>5, AcquireStep
  <2>4. \A c \in Bindings :
           HeldBy(exec'[e], c) = IF c = b THEN binding[b].epoch + 1 ELSE HeldBy(exec[e], c)
    BY <2>2, <2>3 DEF GoesOn, HeldBy
  <2>5. HeldEpochs' = [HeldEpochs EXCEPT ![e][b] = binding[b].epoch + 1]
    <3> DEFINE p == binding[b].epoch + 1
    <3>1. \A f \in Executors : f # e => exec'[f] = exec[f]
      BY <2>3 DEF GoesOn
    <3>2. \A c \in Bindings : HeldBy(exec'[e], c) = IF c = b THEN p ELSE HeldBy(exec[e], c)
      BY <2>4
    <3> HIDE DEF p
    <3>3. HeldEpochs' = [HeldEpochs EXCEPT ![e][b] = p]
      BY <2>2, <3>1, <3>2, HeldChanged
    <3> QED
      BY <3>3 DEF p
  <2>6. Fencing!Acquire(e, b, LeaseTtl)
    BY <2>1, <2>5, SameRows DEF Fencing!Acquire
  <2>7. LeaseTtl \in Fencing!Ttl
    BY SameTtl
  <2> QED
    BY <2>2, <2>6, <2>7 DEF Fencing!Next
<1>6. ASSUME NEW from \in LeaseSteps, NEW to \in LeaseSteps, Fence(e, from, to)
      PROVE  Fencing!Next
  <2> DEFINE b == exec[e].binding
  <2>1. /\ exec[e].pc = from /\ Admits(binding[b], exec[e].run, exec[e].epoch)
        /\ lastOp' = [lastOp EXCEPT ![b] = [client |-> e, epoch |-> exec[e].epoch]]
        /\ UNCHANGED binding
    BY <1>6 DEF Fence, Admitted, tables
  <2>2. b \in Bindings /\ exec[e].run \in RunIds /\ exec[e].epoch \in Nat /\ exec[e].epoch # 0
    BY <1>1, <2>1, WorkerFields DEF ClaimFits, LeaseSteps
  <2>3. HeldEpochs[e][b] = exec[e].epoch
    BY <2>2, HeldIs DEF HeldBy
  <2>4. HeldEpochs' = HeldEpochs
    BY <1>1, <1>6, FenceStep, GoesOnHolds
  <2>5. Fencing!Validate(e, b, exec[e].run)
    BY <2>1, <2>2, <2>3, <2>4, SameRows DEF Fencing!Validate
  <2> QED
    BY <2>2, <2>5 DEF Fencing!Next
<1>7. CASE WorktreeAdd(e)
  BY <1>1, <1>2, <1>7, WorktreeAddStep, GoesOnHolds DEF WorktreeAdd, tables
<1>8. CASE Spawn(e)
  BY <1>1, <1>2, <1>8, SpawnStep, GoesOnHolds DEF Spawn, tables
<1>9. CASE Renew(e)
  <2> DEFINE b == exec[e].binding
  <2>1. /\ exec[e].pc = "command" /\ UNCHANGED lastOp
        /\ binding' = IF binding[b].epoch = exec[e].epoch
                      THEN [binding EXCEPT ![b] = Renewed(@, LeaseTtl)] ELSE binding
    BY <1>9 DEF Renew
  <2>2. b \in Bindings /\ exec[e].epoch \in Nat /\ exec[e].epoch # 0
    BY <1>1, <2>1, WorkerFields DEF ClaimFits, LeaseSteps
  <2>3. HeldEpochs[e][b] = exec[e].epoch
    BY <2>2, HeldIs DEF HeldBy
  <2>4. HeldEpochs' = HeldEpochs
    BY <1>1, <1>9, RenewStep, GoesOnHolds
  <2>5. LeaseTtl \in Fencing!Ttl
    BY SameTtl
  <2>6. CASE binding[b].epoch = exec[e].epoch
    <3>1. Fencing!Renew(e, b, LeaseTtl)
      BY <2>1, <2>2, <2>3, <2>4, <2>6, SameRows DEF Fencing!Renew
    <3> QED
      BY <2>2, <2>5, <3>1 DEF Fencing!Next
  <2>7. CASE binding[b].epoch # exec[e].epoch
    BY <1>2, <2>1, <2>4, <2>7
  <2> QED
    BY <2>6, <2>7
<1>10. ASSUME NEW code \in 0..1, CommandExits(e, code) PROVE UNCHANGED Fencing!vars
  BY <1>1, <1>2, <1>10, ExitStep, GoesOnHolds DEF CommandExits, tables
<1>11. CASE CaptureDenied(e) \/ Capture(e)
  <2>1. UNCHANGED <<binding, lastOp>>
    BY <1>11 DEF CaptureDenied, Capture, tables
  <2> QED
    BY <1>1, <1>2, <1>11, <2>1, CaptureStep, GoesOnHolds
<1>12. CASE Outcome(e)
  <2>1. exec[e].pc = "outcome" /\ UNCHANGED <<binding, lastOp>>
    BY <1>12 DEF Outcome
  <2> QED
    BY <1>1, <1>2, <1>12, <2>1, OutcomeStep, GoesOnHolds, ReturnForgets
<1>13. CASE FenceDenied(e) \/ WorktreeAddFails(e) \/ Complete(e) \/ Abandon(e)
  <2>1. exec[e].pc # "idle" /\ UNCHANGED <<binding, lastOp>>
    BY <1>13 DEF FenceDenied, WorktreeAddFails, Complete, Abandon, tables
  <2> QED
    BY <1>1, <1>13, <2>1, ReturnStep, ReturnForgets
<1> QED
  BY <1>3, <1>4, <1>5, <1>6, <1>7, <1>8, <1>9, <1>10, <1>11, <1>12, <1>13
     DEF ExecStep, LeaseSteps

(* Provisioning leaves a first lease that no executor holds.               *)
LEMMA LeasesInit == Init => Fencing!Init
<1> SUFFICES ASSUME Init PROVE Fencing!Init
  OBVIOUS
<1>1. ProvisionTtl \in Fencing!Ttl
  BY SameTtl
<1>2. HeldEpochs = [e \in Executors |-> [b \in Bindings |-> 0]]
  BY HeldIs DEF Init, ExecInit, Idle, HeldBy
<1> QED
  BY <1>1, <1>2, SameRows DEF Init, TablesInit, ExecInit, Fencing!Init

(* Every step of the execution phase is a step of Leases or none at all.   *)
LEMMA LeasesStep == ExecutionInv /\ [Next]_vars => [Fencing!Next]_(Fencing!vars)
<1> SUFFICES ASSUME ExecutionInv, [Next]_vars PROVE Fencing!Next \/ UNCHANGED Fencing!vars
  OBVIOUS
<1>1. TypeOK /\ TablesOK /\ SweepOK /\ ExecOK /\ \A e \in Executors : ClaimFits(exec[e])
  BY DEF ExecutionInv, TypeOK
<1>2. ASSUME UNCHANGED execVars PROVE HeldEpochs' = HeldEpochs /\ UNCHANGED lastOp
  <2>1. exec' = exec /\ lastOp' = lastOp
    BY <1>2 DEF execVars
  <2> QED
    BY <2>1 DEF HeldEpochs
<1>3. CASE Sweep
  <2>1. HeldEpochs' = HeldEpochs /\ UNCHANGED lastOp /\ SweepStep
    BY <1>2, <1>3 DEF Sweep
  <2>2. ASSUME NEW b \in Bindings, binding' = [binding EXCEPT ![b] = Quarantined(@)]
        PROVE  Fencing!Next
    <3>1. Fencing!Quarantine(b)
      BY <2>1, <2>2, SameRows DEF Fencing!Quarantine
    <3> QED
      BY <3>1 DEF Fencing!Next
  <2>3. ASSUME UNCHANGED binding PROVE UNCHANGED Fencing!vars
    BY <2>1, <2>3 DEF Fencing!vars
  <2> QED
    BY <1>1, <2>1, <2>2, <2>3, SweepEffect
<1>4. ASSUME NEW e \in Executors, Execute(e) PROVE Fencing!Next \/ UNCHANGED Fencing!vars
  BY <1>1, <1>4, ExecStepLeases DEF Execute
<1>5. ASSUME NEW r \in RunIds, NEW to \in RunStatus, Operate(r, to) PROVE UNCHANGED Fencing!vars
  BY <1>2, <1>5 DEF Operate, OperatorMove, Fencing!vars
<1>6. ASSUME NEW b \in Bindings, TakeLease(b) PROVE Fencing!Next
  <2>1. /\ binding[b].epoch < MaxEpoch
        /\ binding' = [binding EXCEPT ![b] = Acquired(@, LeaseTtl)]
        /\ HeldEpochs' = HeldEpochs /\ UNCHANGED lastOp
    BY <1>2, <1>6 DEF TakeLease, AcquireOutOfBand
  <2>2. LeaseTtl \in Fencing!Ttl
    BY SameTtl
  <2>3. Fencing!AcquireUnseen(b, LeaseTtl)
    BY <2>1, SameRows DEF Fencing!AcquireUnseen
  <2> QED
    BY <2>2, <2>3 DEF Fencing!Next
<1>7. CASE Crash
  BY <1>2, <1>7 DEF Crash, CoordinatorCrash, tables, Fencing!vars
<1>8. CASE Tick
  <2>1. /\ TimersRun /\ UNCHANGED lastOp
        /\ binding' = [b \in Bindings |-> [binding[b] EXCEPT !.left = Elapse(@)]]
    BY <1>8 DEF Tick, TimePasses, TimersRun
  <2>2. \A e \in Executors, b \in Bindings : HeldBy(exec'[e], b) = HeldBy(exec[e], b)
    BY <1>1, <2>1, TimersStep DEF HeldBy
  <2>3. HeldEpochs' = HeldEpochs
    BY <2>2, HeldIs, Zenon
  <2>4. Fencing!Tick
    BY <2>1, <2>3, SameRows DEF Fencing!Tick
  <2> QED
    BY <2>4 DEF Fencing!Next
<1>9. CASE UNCHANGED vars
  <2>1. UNCHANGED binding /\ UNCHANGED execVars
    BY <1>9 DEF vars, tables
  <2> QED
    BY <1>2, <2>1 DEF Fencing!vars
<1> QED
  BY <1>3, <1>4, <1>5, <1>6, <1>7, <1>8, <1>9 DEF Next

(* Whatever executors, sweep, operators and restarts do to the bindings is *)
(* a behaviour of the fencing protocol, so what LeasesProof shows of that  *)
(* protocol holds of the running system: an executor that has lost its     *)
(* lease never gets an operation admitted after its successor has.         *)
THEOREM ExecutionImplementsLeases == Spec => ImplementsLeases
<1> QED
  BY ExecutionInvariant, LeasesInit, LeasesStep, PTL DEF Spec, ImplementsLeases

-----------------------------------------------------------------------------
(* The setting in which a lease is not lost: one executor, nobody else who *)
(* acquires leases, write grants on the run's own bindings only (what      *)
(* GrantsAreOwn of Saga says provisioning leaves), and a lease longer than *)
(* the setup and one renewal interval together.                            *)
LoneExecutor ==
    /\ \A e, f \in Executors : e = f
    /\ MaxOutOfBand = 0
    /\ \A r \in RunIds, b \in Bindings : WriteGrants[r] = {b} => Owner[b] = r
    /\ SetupBound + RenewEvery < LeaseTtl

(* The sweep has quarantined the binding, or has selected it and will.     *)
Doomed(b) ==
    \/ b \in sweep.todo /\ sweep.pass = "leases"
    \/ binding[b].lifecycle # "ready"

(* What keeps the lease of an executor x on the binding's row: doomed, if  *)
(* at all, before x claims the run and then already expired; live when the *)
(* run is claimed; and then with more time left than x needs until it next *)
(* renews.                                                                 *)
Keeps(x, row, doomed) ==
    /\ row.owner = x.run
    /\ x.pc = "claim" /\ doomed => Expired(row)
    /\ x.pc = "lease" /\ ~x.late => Live(row) /\ ~doomed
    /\ x.pc \in LeaseSteps /\ ~x.late =>
         /\ ~doomed /\ row.epoch = x.epoch /\ row.left > x.timer
         /\ x.pc \in {"fenceAdd", "add", "fenceRun", "spawn"} => row.left > x.timer + RenewEvery

Kept(e) ==
    exec[e].pc # "idle" => Keeps(exec[e], binding[exec[e].binding], Doomed(exec[e].binding))

(* Nobody else has acquired a lease, a doomed binding's run has run, and   *)
(* every executor keeps its lease.                                         *)
PromptInv ==
    /\ left.leases = 0
    /\ \A b \in Bindings :
          /\ binding[b].owner = Owner[b]
          /\ Doomed(b) => status[Owner[b]] \notin NotYetRun
    /\ \A e \in Executors : Kept(e)

(* Initially nobody has acted.                                             *)
LEMMA PromptInvInit ==
    ASSUME LoneExecutor, Init PROVE PromptInv
<1>1. left.leases = 0
  BY DEF Init, LoneExecutor
<1>2. \A b \in Bindings : binding[b].owner = Owner[b] /\ binding[b].lifecycle = "ready"
  BY DEF Init, TablesInit, Acquired, NewRow
<1>3. sweep.todo = {}
  BY DEF Init, SweepInit, Asleep
<1>4. \A e \in Executors : exec[e].pc = "idle"
  BY DEF Init, ExecInit, Idle
<1> QED
  BY <1>1, <1>2, <1>3, <1>4 DEF PromptInv, Kept, Doomed

(* A step that leaves the executors alone, and of the rows only the        *)
(* lifecycle changes, keeps every lease if it dooms no binding but one     *)
(* that has expired.                                                       *)
LEMMA OthersKeep ==
    ASSUME TypeOK, \A f \in Executors : ClaimFits(exec[f]), PromptInv, UNCHANGED exec,
           \A b \in Bindings : /\ binding'[b].owner = binding[b].owner
                               /\ binding'[b].epoch = binding[b].epoch
                               /\ binding'[b].left = binding[b].left
                               /\ Doomed(b)' => Doomed(b) \/ Expired(binding[b])
    PROVE  \A e \in Executors : Kept(e)'
<1> SUFFICES ASSUME NEW e \in Executors, exec[e].pc # "idle" PROVE Kept(e)'
  BY DEF Kept
<1> PICK b \in Bindings : b = exec[e].binding
  BY DEF ClaimFits
<1>1. b \in Bindings /\ Keeps(exec[e], binding[b], Doomed(b))
  BY DEF PromptInv, Kept
<1>2. exec[e].timer \in Nat /\ binding[b].left \in Int
  BY <1>1, WorkerFields DEF TypeOK, TablesOK, Row
<1>3. /\ binding'[b].owner = binding[b].owner /\ binding'[b].epoch = binding[b].epoch
      /\ binding'[b].left = binding[b].left
      /\ Doomed(b)' => Doomed(b) \/ Expired(binding[b])
  BY <1>1
<1>4. Keeps(exec[e], binding'[b], Doomed(b)')
  BY <1>1, <1>2, <1>3 DEF Keeps, Expired, Live, Lapsed
<1> QED
  BY <1>4 DEF Kept, Keeps, Doomed

(* A step of the sweep dooms only a binding that has expired and whose run *)
(* is running, and touches no lease.                                       *)
LEMMA SweepDooms ==
    ASSUME TablesOK, SweepOK, SweepStep
    PROVE  \A b \in Bindings : /\ binding'[b].owner = binding[b].owner
                               /\ binding'[b].epoch = binding[b].epoch
                               /\ binding'[b].left = binding[b].left
                               /\ Doomed(b)' => \/ Doomed(b)
                                                \/ /\ Expired(binding[b])
                                                   /\ status[binding[b].owner] = "running"
<1> SUFFICES ASSUME NEW b \in Bindings
             PROVE  /\ binding'[b].owner = binding[b].owner
                    /\ binding'[b].epoch = binding[b].epoch
                    /\ binding'[b].left = binding[b].left
                    /\ Doomed(b)' => \/ Doomed(b)
                                     \/ /\ Expired(binding[b])
                                        /\ status[binding[b].owner] = "running"
  OBVIOUS
<1>1. ASSUME UNCHANGED binding, sweep'.todo = {} \/ sweep'.pass = "wall"
      PROVE  /\ binding'[b].owner = binding[b].owner
             /\ binding'[b].epoch = binding[b].epoch
             /\ binding'[b].left = binding[b].left
             /\ Doomed(b)' => Doomed(b)
  BY <1>1 DEF Doomed
<1>2. ASSUME UNCHANGED binding, sweep'.todo \subseteq sweep.todo, sweep'.pass = sweep.pass
      PROVE  /\ binding'[b].owner = binding[b].owner
             /\ binding'[b].epoch = binding[b].epoch
             /\ binding'[b].left = binding[b].left
             /\ Doomed(b)' => Doomed(b)
  BY <1>2 DEF Doomed
<1>3. ASSUME NEW r, NEW todo, PauseOnce(r, todo)
      PROVE  sweep'.todo = todo /\ sweep'.pass = sweep.pass
  BY <1>3 DEF PauseOnce, SweepOK
<1>4. CASE SelectExpired
  <2> DEFINE expired == {c \in Bindings : /\ binding[c].lifecycle = "ready"
                                          /\ Expired(binding[c])
                                          /\ status[binding[c].owner] = "running"}
  <2>1. sweep'.todo = expired /\ UNCHANGED binding
    BY <1>4 DEF SelectExpired, Asleep, tables
  <2> QED
    BY <2>1 DEF Doomed
<1>5. CASE SelectExhausted
  BY <1>1, <1>5 DEF SelectExhausted, Asleep, tables
<1>6. CASE SweepDone
  BY <1>1, <1>6 DEF SweepDone, Asleep, tables
<1>7. ASSUME NEW c \in Bindings, QuarantineRow(c)
      PROVE  /\ binding'[b].owner = binding[b].owner
             /\ binding'[b].epoch = binding[b].epoch
             /\ binding'[b].left = binding[b].left
             /\ Doomed(b)' => Doomed(b)
  <2>1. /\ sweep.pass = "leases" /\ c \in sweep.todo
        /\ binding' = [binding EXCEPT ![c] = Quarantined(@)]
        /\ PauseOnce(binding[c].owner, sweep.todo \ {c})
    BY <1>7 DEF QuarantineRow
  <2>2. sweep'.todo = sweep.todo \ {c} /\ sweep'.pass = sweep.pass
    BY <1>3, <2>1
  <2>3. CASE b = c
    <3>1. binding[b] \in Row /\ binding'[b] = Quarantined(binding[b]) /\ 0 \in Nat
      BY <2>1, <2>3 DEF TablesOK
    <3> QED
      BY <2>1, <2>3, <3>1, RowSteps DEF Doomed
  <2>4. CASE b # c
    <3>1. binding'[b] = binding[b]
      BY <2>1, <2>4 DEF TablesOK
    <3> QED
      BY <2>2, <3>1 DEF Doomed
  <2> QED
    BY <2>3, <2>4
<1>8. ASSUME NEW r \in RunIds, ExhaustedRow(r)
      PROVE  UNCHANGED binding /\ sweep'.todo \subseteq sweep.todo /\ sweep'.pass = sweep.pass
  BY <1>3, <1>8 DEF ExhaustedRow, tables
<1>9. CASE PauseRead
  BY <1>2, <1>9 DEF PauseRead, SweepOK, tables
<1>10. CASE PauseWrite
  BY <1>1, <1>2, <1>10 DEF PauseWrite, SweepOK, Asleep
<1> QED
  BY <1>2, <1>4, <1>5, <1>6, <1>7, <1>8, <1>9, <1>10 DEF SweepStep

(* A step of an executor dooms nothing and changes no owner.               *)
LEMMA ExecDooms ==
    ASSUME TypeOK, \A f \in Executors : ClaimFits(exec[f]), NEW e \in Executors, ExecStep(e),
           UNCHANGED sweep
    PROVE  \A b \in Bindings : /\ binding'[b].owner = binding[b].owner
                               /\ Doomed(b)' = Doomed(b)
<1> SUFFICES ASSUME NEW b \in Bindings
             PROVE  binding'[b].owner = binding[b].owner /\ Doomed(b)' = Doomed(b)
  OBVIOUS
<1>1. /\ binding'[b].owner = binding[b].owner
      /\ binding'[b].lifecycle = binding[b].lifecycle
  <2>1. CASE UNCHANGED binding
    BY <2>1
  <2>2. ASSUME exec[e].binding \in Bindings,
               \/ binding' = [binding EXCEPT ![exec[e].binding] = Acquired(@, LeaseTtl)]
               \/ binding' = [binding EXCEPT ![exec[e].binding] = Renewed(@, LeaseTtl)]
        PROVE  /\ binding'[b].owner = binding[b].owner
               /\ binding'[b].lifecycle = binding[b].lifecycle
    <3>1. binding[b] \in Row /\ binding \in [Bindings -> Row] /\ LeaseTtl \in Nat
      BY ExecutorAssumption DEF TypeOK, TablesOK
    <3>2. \/ binding'[b] = binding[b] \/ binding'[b] = Acquired(binding[b], LeaseTtl)
          \/ binding'[b] = Renewed(binding[b], LeaseTtl)
      BY <2>2, <3>1
    <3>3. /\ Acquired(binding[b], LeaseTtl).owner = binding[b].owner
          /\ Acquired(binding[b], LeaseTtl).lifecycle = binding[b].lifecycle
          /\ Renewed(binding[b], LeaseTtl).owner = binding[b].owner
          /\ Renewed(binding[b], LeaseTtl).lifecycle = binding[b].lifecycle
      BY <3>1, RowSteps
    <3> QED
      BY <3>2, <3>3
  <2> QED
    BY <2>1, <2>2, ExecStepTables
<1> QED
  BY <1>1 DEF Doomed

(* An executor that goes on, with its row as it was, keeps its lease when  *)
(* it needs it no longer than before.                                      *)
LEMMA GoesOnKeeps ==
    ASSUME TypeOK, \A f \in Executors : ClaimFits(exec[f]), PromptInv,
           NEW e \in Executors, exec[e].pc # "idle", UNCHANGED binding, UNCHANGED sweep,
           NEW pc, NEW epoch, NEW timer \in Nat, NEW exit, NEW late,
           GoesOn(e, pc, epoch, timer, exit, late),
           \A row, doomed :
               Keeps(exec[e], row, doomed) /\ row.left \in Int =>
                  /\ pc = "claim" /\ doomed => Expired(row)
                  /\ pc = "lease" /\ ~late => Live(row) /\ ~doomed
                  /\ pc \in LeaseSteps /\ ~late =>
                       /\ ~doomed /\ row.epoch = epoch /\ row.left > timer
                       /\ pc \in {"fenceAdd", "add", "fenceRun", "spawn"}
                            => row.left > timer + RenewEvery
    PROVE  Kept(e)'
<1> PICK b \in Bindings : b = exec[e].binding
  BY DEF ClaimFits
<1>1. Keeps(exec[e], binding[b], Doomed(b))
  BY DEF PromptInv, Kept
<1>2. binding[b].left \in Int
  BY DEF TypeOK, TablesOK, Row
<1>3. exec'[e].binding = b /\ exec'[e].run = exec[e].run /\ exec'[e].pc = pc
      /\ exec'[e].epoch = epoch /\ exec'[e].timer = timer /\ exec'[e].late = late
  BY DEF GoesOn
<1>4. Keeps(exec'[e], binding[b], Doomed(b))
  BY <1>1, <1>2, <1>3 DEF Keeps
<1> QED
  BY <1>3, <1>4 DEF Kept, Keeps, Doomed

(* The only executor keeps its lease through each of its own steps.        *)
LEMMA ExecKeeps ==
    ASSUME LoneExecutor, TypeOK, \A f \in Executors : ClaimFits(exec[f]), PromptInv,
           NEW e \in Executors, ExecStep(e), UNCHANGED sweep
    PROVE  Kept(e)'
<1>1. TablesOK /\ ExecOK /\ ClaimFits(exec[e]) /\ Kept(e)
  BY DEF TypeOK, PromptInv
<1>2. exec[e].timer \in Nat /\ RenewEvery \in Nat /\ SetupBound \in Nat /\ LeaseTtl \in Nat
  BY <1>1, WorkerFields
<1>3. ASSUME NEW r \in RunIds, NEW b \in Bindings, ReadRun(e, r, b) PROVE Kept(e)'
  <2>1. status[r] = "ready" /\ WriteGrants[r] = {b} /\ UNCHANGED binding
    BY <1>3 DEF ReadRun, tables
  <2>2. Owner[b] = r /\ binding[b].owner = r /\ ~Doomed(b)
    BY <2>1 DEF LoneExecutor, PromptInv, NotYetRun
  <2>3. exec'[e].pc = "claim" /\ exec'[e].run = r /\ exec'[e].binding = b
    BY <1>1, <1>3, ReadStep
  <2>4. ~Doomed(b)'
    BY <2>1, <2>2 DEF Doomed
  <2> QED
    BY <2>1, <2>2, <2>3, <2>4 DEF Kept, Keeps, Doomed, LeaseSteps
<1>4. CASE Claim(e)
  <2>1. exec[e].pc = "claim" /\ UNCHANGED binding
    BY <1>4 DEF Claim
  <2> PICK b \in Bindings : b = exec[e].binding
    BY <1>1, <2>1 DEF ClaimFits
  <2>2. binding[b].owner = exec[e].run /\ (Doomed(b) => Expired(binding[b]))
    BY <1>1, <2>1 DEF Kept, Keeps
  <2>3. /\ exec'[e].pc = "lease" /\ exec'[e].run = exec[e].run /\ exec'[e].binding = b
        /\ ~exec'[e].late => Live(binding[b])
    BY <1>1, <1>4, ClaimStep DEF GoesOn
  <2>4. Live(binding[b]) => ~Expired(binding[b])
    BY DEF Live, Expired, Lapsed
  <2> QED
    BY <2>1, <2>2, <2>3, <2>4 DEF Kept, Keeps, Doomed, LeaseSteps
<1>5. CASE AcquireLease(e)
  <2>1. exec[e].pc = "lease"
    BY <1>5 DEF AcquireLease
  <2> PICK b \in Bindings : b = exec[e].binding
    BY <1>1, <2>1 DEF ClaimFits
  <2>2. binding'[b] = Acquired(binding[b], LeaseTtl) /\ binding[b] \in Row
    BY <1>1, <1>5 DEF AcquireLease, TablesOK
  <2>3. /\ binding'[b].epoch = binding[b].epoch + 1 /\ binding'[b].left = LeaseTtl
        /\ binding'[b].owner = binding[b].owner /\ binding'[b].lifecycle = binding[b].lifecycle
    <3> DEFINE row == Acquired(binding[b], LeaseTtl)
    <3>1. /\ row.epoch = binding[b].epoch + 1 /\ row.left = LeaseTtl
          /\ row.owner = binding[b].owner /\ row.lifecycle = binding[b].lifecycle
      BY <1>2, <2>2, RowSteps
    <3> HIDE DEF row
    <3> QED
      BY <2>2, <3>1 DEF row
  <2>4. /\ exec'[e].pc = "fenceAdd" /\ exec'[e].run = exec[e].run /\ exec'[e].binding = b
        /\ exec'[e].epoch = binding[b].epoch + 1 /\ exec'[e].timer = SetupBound
        /\ exec'[e].late = exec[e].late
    BY <1>1, <1>5, AcquireStep DEF GoesOn
  <2>5. binding[b].owner = exec[e].run /\ (~exec[e].late => ~Doomed(b))
    BY <1>1, <2>1 DEF Kept, Keeps
  <2>6. Doomed(b)' = Doomed(b)
    BY <2>3 DEF Doomed
  <2>7. LeaseTtl > SetupBound /\ LeaseTtl > SetupBound + RenewEvery
    BY <1>2 DEF LoneExecutor
  <2>8. ~exec'[e].late => ~Doomed(b)'
    BY <2>4, <2>5, <2>6
  <2>9. Keeps(exec'[e], binding'[b], Doomed(b)')
    <3>1. /\ binding'[b].left > exec'[e].timer
          /\ binding'[b].left > exec'[e].timer + RenewEvery
          /\ binding'[b].epoch = exec'[e].epoch /\ binding'[b].owner = exec'[e].run
      BY <2>3, <2>4, <2>5, <2>7
    <3> QED
      BY <2>4, <2>8, <3>1 DEF Keeps
  <2> QED
    BY <2>4, <2>9 DEF Kept, Keeps, Doomed
<1>6. ASSUME NEW from, NEW to, Fence(e, from, to),
             <<from, to>> \in {<<"fenceAdd", "add">>, <<"fenceRun", "spawn">>,
                               <<"fenceCapture", "capture">>}
      PROVE  Kept(e)'
  <2>1. exec[e].pc = from /\ exec[e].pc # "idle" /\ UNCHANGED binding
    BY <1>6 DEF Fence, tables
  <2>2. GoesOn(e, to, exec[e].epoch, exec[e].timer, exec[e].exit, exec[e].late)
    BY <1>1, <1>6, FenceStep DEF LeaseSteps
  <2>3. to \in {"add", "spawn", "capture"} /\ from \in {"fenceAdd", "fenceRun", "fenceCapture"}
        /\ (to \in {"add", "spawn"} => from \in {"fenceAdd", "fenceRun"})
    BY <1>6
  <2>4. \A row, doomed :
           Keeps(exec[e], row, doomed) /\ row.left \in Int =>
              /\ to = "claim" /\ doomed => Expired(row)
              /\ to = "lease" /\ ~exec[e].late => Live(row) /\ ~doomed
              /\ to \in LeaseSteps /\ ~exec[e].late =>
                   /\ ~doomed /\ row.epoch = exec[e].epoch /\ row.left > exec[e].timer
                   /\ to \in {"fenceAdd", "add", "fenceRun", "spawn"}
                        => row.left > exec[e].timer + RenewEvery
    BY <2>1, <2>3 DEF Keeps, LeaseSteps
  <2> QED
    BY <1>2, <2>1, <2>2, <2>4, GoesOnKeeps
<1>7. CASE WorktreeAdd(e)
  <2>1. exec[e].pc = "add" /\ exec[e].pc # "idle" /\ UNCHANGED binding
    BY <1>7 DEF WorktreeAdd, tables
  <2>2. GoesOn(e, "fenceRun", exec[e].epoch, exec[e].timer, exec[e].exit, exec[e].late)
    BY <1>1, <1>7, WorktreeAddStep
  <2>3. \A row, doomed :
           Keeps(exec[e], row, doomed) /\ row.left \in Int /\ ~exec[e].late =>
              /\ ~doomed /\ row.epoch = exec[e].epoch /\ row.left > exec[e].timer
              /\ row.left > exec[e].timer + RenewEvery
    BY <2>1 DEF Keeps, LeaseSteps
  <2> QED
    BY <1>2, <2>1, <2>2, <2>3, GoesOnKeeps
<1>8. CASE Spawn(e)
  <2>1. exec[e].pc = "spawn" /\ exec[e].pc # "idle" /\ UNCHANGED binding
    BY <1>8 DEF Spawn, tables
  <2>2. GoesOn(e, "command", exec[e].epoch, RenewEvery, exec[e].exit, exec[e].late)
    BY <1>1, <1>8, SpawnStep
  <2>3. \A row, doomed :
           Keeps(exec[e], row, doomed) /\ row.left \in Int /\ ~exec[e].late =>
              ~doomed /\ row.epoch = exec[e].epoch /\ row.left > RenewEvery
    BY <1>2, <2>1 DEF Keeps, LeaseSteps
  <2> QED
    BY <1>2, <2>1, <2>2, <2>3, GoesOnKeeps
<1>9. CASE Renew(e)
  <2>1. exec[e].pc = "command"
    BY <1>9 DEF Renew
  <2> PICK b \in Bindings : b = exec[e].binding
    BY <1>1, <2>1 DEF ClaimFits
  <2>2. /\ exec'[e].pc = "command" /\ exec'[e].run = exec[e].run /\ exec'[e].binding = b
        /\ exec'[e].epoch = exec[e].epoch /\ exec'[e].timer = RenewEvery
        /\ exec'[e].late = exec[e].late
    BY <1>1, <1>9, RenewStep DEF GoesOn
  <2>3. /\ binding[b].owner = exec[e].run
        /\ ~exec[e].late => ~Doomed(b) /\ binding[b].epoch = exec[e].epoch
    BY <1>1, <2>1 DEF Kept, Keeps, LeaseSteps
  <2>4. /\ binding'[b].owner = binding[b].owner /\ binding'[b].epoch = binding[b].epoch
        /\ binding'[b].lifecycle = binding[b].lifecycle
        /\ binding[b].epoch = exec[e].epoch => binding'[b].left = LeaseTtl
    <3>1. binding[b] \in Row
      BY <1>1 DEF TablesOK
    <3>2. \/ binding[b].epoch = exec[e].epoch /\ binding'[b] = Renewed(binding[b], LeaseTtl)
          \/ binding[b].epoch # exec[e].epoch /\ binding'[b] = binding[b]
      BY <1>1, <1>9 DEF Renew, TablesOK
    <3>3. /\ Renewed(binding[b], LeaseTtl).epoch = binding[b].epoch
          /\ Renewed(binding[b], LeaseTtl).left = LeaseTtl
          /\ Renewed(binding[b], LeaseTtl).owner = binding[b].owner
          /\ Renewed(binding[b], LeaseTtl).lifecycle = binding[b].lifecycle
      BY <1>2, <3>1, RowSteps
    <3> QED
      BY <3>2, <3>3
  <2>5. Doomed(b)' = Doomed(b)
    BY <2>4 DEF Doomed
  <2>6. LeaseTtl > RenewEvery
    BY <1>2 DEF LoneExecutor
  <2>7. Keeps(exec'[e], binding'[b], Doomed(b)')
    BY <2>2, <2>3, <2>4, <2>5, <2>6 DEF Keeps
  <2> QED
    BY <2>2, <2>7 DEF Kept, Keeps, Doomed
<1>10. ASSUME NEW code \in 0..1, CommandExits(e, code) PROVE Kept(e)'
  <2>1. exec[e].pc = "command" /\ exec[e].pc # "idle" /\ UNCHANGED binding
    BY <1>10 DEF CommandExits, tables
  <2>2. GoesOn(e, "fenceCapture", exec[e].epoch, 0, code, exec[e].late)
    BY <1>1, <1>10, ExitStep
  <2>3. \A row, doomed :
           Keeps(exec[e], row, doomed) /\ row.left \in Int /\ ~exec[e].late =>
              ~doomed /\ row.epoch = exec[e].epoch /\ row.left > 0
    BY <1>2, <2>1 DEF Keeps, LeaseSteps
  <2> QED
    BY <2>1, <2>2, <2>3, GoesOnKeeps
<1>11. CASE CaptureDenied(e) \/ Capture(e)
  <2>1. exec[e].pc # "idle" /\ UNCHANGED binding
    BY <1>11 DEF CaptureDenied, Capture, tables
  <2>2. GoesOn(e, "outcome", exec[e].epoch, exec[e].timer, exec[e].exit, exec[e].late)
    BY <1>1, <1>11, CaptureStep
  <2> QED
    BY <1>2, <2>1, <2>2, GoesOnKeeps DEF LeaseSteps
<1>12. ASSUME Becomes(e, Idle) PROVE Kept(e)'
  BY <1>12 DEF Becomes, Idle, Kept
<1>13. CASE Outcome(e)
  <2>1. exec[e].pc # "idle" /\ UNCHANGED binding
    BY <1>13 DEF Outcome
  <2>2. ASSUME GoesOn(e, "complete", exec[e].epoch, exec[e].timer, exec[e].exit, exec[e].late)
        PROVE  Kept(e)'
    BY <1>2, <2>1, <2>2, GoesOnKeeps DEF LeaseSteps
  <2> QED
    BY <1>1, <1>12, <1>13, <2>2, OutcomeStep
<1>14. CASE FenceDenied(e) \/ WorktreeAddFails(e) \/ Complete(e) \/ Abandon(e)
  BY <1>1, <1>12, <1>14, ReturnStep
<1> QED
  BY <1>3, <1>4, <1>5, <1>6, <1>7, <1>8, <1>9, <1>10, <1>11, <1>13, <1>14 DEF ExecStep

(* Every step keeps the lease of the only executor.                        *)
LEMMA PromptInvStep ==
    ASSUME LoneExecutor, ExecutionInv, PromptInv, [Next]_vars
    PROVE  PromptInv'
<1>1. /\ TypeOK /\ TablesOK /\ SweepOK /\ ExecOK /\ BudgetArmed
      /\ \A e \in Executors : ClaimFits(exec[e])
      /\ left.leases = 0
      /\ \A b \in Bindings : binding[b].owner = Owner[b]
      /\ \A b \in Bindings : Doomed(b) => status[Owner[b]] \notin NotYetRun
      /\ \A e \in Executors : Kept(e)
      /\ \A b \in Bindings : Owner[b] \in RunIds
  BY ControlAssumption DEF ExecutionInv, TypeOK, PromptInv
<1>2. ASSUME left'.leases = 0, \A e \in Executors : Kept(e)',
             \A b \in Bindings : /\ binding'[b].owner = binding[b].owner
                                 /\ Doomed(b)' => Doomed(b) \/ status[Owner[b]] = "running",
             \A r \in RunIds : status[r] \notin NotYetRun => status'[r] \notin NotYetRun
      PROVE  PromptInv'
  <2>1. \A b \in Bindings : Doomed(b)' => status'[Owner[b]] \notin NotYetRun
    BY <1>1, <1>2 DEF NotYetRun
  <2> QED
    BY <1>1, <1>2, <2>1 DEF PromptInv
<1>3. ASSUME UNCHANGED <<status, wallLeft>> \/ \E r, to : Move(r, to)
      PROVE  \A r \in RunIds : status[r] \notin NotYetRun => status'[r] \notin NotYetRun
  BY <1>1, <1>3, MoveStep
<1>4. CASE Sweep
  <2>1. SweepStep /\ UNCHANGED left /\ UNCHANGED exec
    BY <1>4 DEF Sweep, execVars
  <2>2. \A b \in Bindings : /\ binding'[b].owner = binding[b].owner
                            /\ binding'[b].epoch = binding[b].epoch
                            /\ binding'[b].left = binding[b].left
                            /\ Doomed(b)' => \/ Doomed(b)
                                             \/ /\ Expired(binding[b])
                                                /\ status[Owner[b]] = "running"
    BY <1>1, <2>1, SweepDooms
  <2>3. \A e \in Executors : Kept(e)'
    BY <1>1, <2>1, <2>2, OthersKeep
  <2>4. \A r \in RunIds : status[r] \notin NotYetRun => status'[r] \notin NotYetRun
    BY <1>1, <1>3, <2>1, SweepEffect
  <2> QED
    BY <1>1, <1>2, <2>1, <2>2, <2>3, <2>4
<1>5. ASSUME NEW e \in Executors, Execute(e) PROVE PromptInv'
  <2>1. ExecStep(e) /\ UNCHANGED sweep /\ UNCHANGED left
    BY <1>5 DEF Execute
  <2>2. \A f \in Executors : Kept(f)'
    BY <1>1, <2>1, ExecKeeps DEF LoneExecutor
  <2>3. \A b \in Bindings : binding'[b].owner = binding[b].owner /\ Doomed(b)' = Doomed(b)
    BY <1>1, <2>1, ExecDooms
  <2>4. \A r \in RunIds : status[r] \notin NotYetRun => status'[r] \notin NotYetRun
    BY <1>1, <1>3, <2>1, ExecStepTables
  <2> QED
    BY <1>1, <1>2, <2>1, <2>2, <2>3, <2>4
<1>6. ASSUME UNCHANGED exec, UNCHANGED binding, sweep' = sweep \/ sweep' = Asleep
      PROVE  /\ \A e \in Executors : Kept(e)'
             /\ \A b \in Bindings : /\ binding'[b].owner = binding[b].owner
                                    /\ Doomed(b)' => Doomed(b)
  <2>1. \A b \in Bindings : Doomed(b)' => Doomed(b)
    BY <1>6 DEF Doomed, Asleep
  <2> QED
    BY <1>1, <1>6, <2>1, OthersKeep
<1>7. ASSUME NEW r \in RunIds, NEW to \in RunStatus, Operate(r, to) PROVE PromptInv'
  <2>1. /\ Move(r, to) /\ UNCHANGED binding /\ UNCHANGED sweep /\ UNCHANGED exec
        /\ left' = [left EXCEPT !.ops = @ - 1]
    BY <1>7 DEF Operate, OperatorMove, execVars
  <2>2. left'.leases = 0
    BY <1>1, <2>1 DEF TypeOK
  <2> QED
    BY <1>2, <1>3, <1>6, <2>1, <2>2
<1>8. ASSUME NEW b \in Bindings, TakeLease(b) PROVE FALSE
  BY <1>1, <1>8 DEF TakeLease
<1>9. CASE Crash
  <2>1. /\ UNCHANGED <<status, wallLeft>> /\ UNCHANGED binding /\ sweep' = Asleep
        /\ UNCHANGED exec /\ left' = [left EXCEPT !.crashes = @ - 1]
    BY <1>9 DEF Crash, CoordinatorCrash, execVars, tables
  <2>2. left'.leases = 0
    BY <1>1, <2>1 DEF TypeOK
  <2> QED
    BY <1>2, <1>3, <1>6, <2>1, <2>2
<1>10. CASE Tick
  <2>1. /\ TimersRun /\ UNCHANGED sweep /\ UNCHANGED left /\ status' = status
        /\ binding' = [b \in Bindings |-> [binding[b] EXCEPT !.left = Elapse(@)]]
    BY <1>10 DEF Tick, TimePasses
  <2>2. ASSUME NEW b \in Bindings
        PROVE  /\ binding'[b].owner = binding[b].owner /\ binding'[b].epoch = binding[b].epoch
               /\ binding'[b].left = Elapse(binding[b].left) /\ binding[b].left \in Int
               /\ Doomed(b)' = Doomed(b)
    <3>1. binding[b] \in Row /\ binding'[b] = [binding[b] EXCEPT !.left = Elapse(@)] /\ 0 \in Nat
      BY <1>1, <2>1 DEF TablesOK
    <3>2. /\ binding'[b].owner = binding[b].owner /\ binding'[b].epoch = binding[b].epoch
          /\ binding'[b].left = Elapse(binding[b].left)
          /\ binding'[b].lifecycle = binding[b].lifecycle
      BY <3>1, RowSteps
    <3> QED
      BY <2>1, <3>1, <3>2 DEF Doomed, Row
  <2>3. ASSUME NEW e \in Executors PROVE Kept(e)'
    <3> SUFFICES ASSUME exec'[e].pc # "idle" PROVE Kept(e)'
      BY DEF Kept
    <3>1. /\ exec'[e].pc = exec[e].pc /\ exec'[e].run = exec[e].run
          /\ exec'[e].binding = exec[e].binding /\ exec'[e].epoch = exec[e].epoch
          /\ exec'[e].timer = (IF exec[e].timer = 0 THEN 0 ELSE exec[e].timer - 1)
          /\ ~exec'[e].late => ~exec[e].late /\ ~Overdue(e)
      BY <1>1, <2>1, TimersStep
    <3> PICK b \in Bindings : b = exec[e].binding
      BY <1>1, <3>1 DEF ClaimFits
    <3>2. Keeps(exec[e], binding[b], Doomed(b))
      BY <1>1, <3>1 DEF Kept
    <3>3. exec[e].timer \in Nat /\ RenewEvery \in Nat
      BY <1>1, WorkerFields
    <3>4. Keeps(exec'[e], binding'[b], Doomed(b))
      BY <2>2, <3>1, <3>2, <3>3 DEF Keeps, Overdue, Elapse, Expired, Lapsed, Live
    <3> QED
      BY <2>2, <3>1, <3>4 DEF Kept, Keeps, Doomed
  <2>4. \A r \in RunIds : status[r] \notin NotYetRun => status'[r] \notin NotYetRun
    BY <2>1
  <2> QED
    BY <1>1, <1>2, <2>1, <2>2, <2>3, <2>4
<1>11. CASE UNCHANGED vars
  <2>1. /\ UNCHANGED <<status, wallLeft>> /\ UNCHANGED binding /\ UNCHANGED sweep
        /\ UNCHANGED exec /\ UNCHANGED left
    BY <1>11 DEF vars, tables, execVars
  <2> QED
    BY <1>1, <1>2, <1>3, <1>6, <2>1
<1> QED
  BY <1>4, <1>5, <1>7, <1>8, <1>9, <1>10, <1>11 DEF Next

(* The lease an executor keeps is one validate_op admits.                  *)
LEMMA PromptAdmitted ==
    ASSUME ExecutionInv, PromptInv PROVE PromptKeepsLease
<1> SUFFICES ASSUME NEW e \in Executors, exec[e].pc \in LeaseSteps, ~exec[e].late
             PROVE  Admitted(e)
  BY DEF PromptKeepsLease
<1>1. exec[e].pc # "idle"
  BY DEF LeaseSteps
<1>2. exec[e].binding \in Bindings /\ exec[e].timer \in Nat
  BY <1>1, WorkerFields DEF ExecutionInv, TypeOK, ClaimFits
<1>3. binding[exec[e].binding].left \in Int
  BY <1>2 DEF ExecutionInv, TypeOK, TablesOK, Row
<1>4. Keeps(exec[e], binding[exec[e].binding], Doomed(exec[e].binding))
  BY <1>1 DEF PromptInv, Kept
<1>5. /\ binding[exec[e].binding].owner = exec[e].run
      /\ binding[exec[e].binding].epoch = exec[e].epoch
      /\ binding[exec[e].binding].left > exec[e].timer
      /\ binding[exec[e].binding].lifecycle = "ready"
  BY <1>4 DEF Keeps, Doomed
<1> QED
  BY <1>2, <1>3, <1>5 DEF Admitted, Admits, Live

(* A lone executor whose host is never late keeps its lease to the end,    *)
(* for any lease longer than setup and renewal interval together: neither  *)
(* the sweep's stale selection, nor a restart of the coordinator, nor what *)
(* operators do to the run's status takes it away.                         *)
THEOREM PromptExecutorKeepsLease ==
    ASSUME LoneExecutor PROVE Spec => []PromptKeepsLease
<1>1. Init => PromptInv
  BY PromptInvInit
<1>2. ExecutionInv /\ PromptInv /\ [Next]_vars => PromptInv'
  BY PromptInvStep
<1>3. ExecutionInv /\ PromptInv => PromptKeepsLease
  BY PromptAdmitted
<1> QED
  BY <1>1, <1>2, <1>3, ExecutionInvariant, PTL DEF Spec
=============================================================================
