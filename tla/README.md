# Vingilot: TLA+ specifications and proofs

Vingilot is a fork of the Buzz relay and desktop application. What the fork adds
of its own is a *control plane*: a coordinator service that owns Workspaces,
Runs, worktree bindings, leases and budgets in a Postgres database, an executor
that claims a run and works in a git worktree under a lease, and desktop
surfaces that show and steer the runs. This project specifies the control plane
(`vingilot/coordinator/`) and those parts of upstream Buzz that have concurrent
state and failure handling of their own: the agent harness (`crates/buzz-acp`),
git hosting on an object store (`crates/buzz-relay/src/api/git`) and the deletion
of a community (`crates/buzz-deletion`, `crates/buzz-db/src/deletion.rs`). TLC
model-checks them, and TLAPS proves every safety property the runs check for
every value of the constants.
Paths below are relative to the repository; `coordinator/` and `executor/` stand
for `vingilot/coordinator/coordinator/` and `vingilot/coordinator/executor/`.

## 1. Inventory

### 1.1 Components

**Run state machine** (`coordinator/src/domain.rs`, `run.rs`).
State: `runs` (status, parent, wall-clock budget and its start, token total),
`run_transitions` (an audit log numbered per run). Operations: `create`,
`transition` (SELECT ... FOR UPDATE, check of the closed table, MAX(seq)+1,
INSERT, UPDATE, one transaction), `depth`, `observe_tokens`. Hard: clients race
on one run; a connection dies between statements; `depth` loops without a bound.
Right when: the log is a chain of legal edges that replays to the status, a
terminal run stays as it is, the wall clock starts once, and `depth` ends.

**Bindings, leases, fencing** (`coordinator/src/binding.rs`).
State: `worktree_bindings` (owner, lifecycle, epoch, lease expiry) and
`run_worktree_grants`. Operations: `create_binding`, `grant`, `acquire_lease`
(epoch + 1, unconditionally), `renew_lease` (same epoch), `validate_op` (owner,
lifecycle, epoch, live lease). Hard: holders stall, die, wake late; replies are
lost; the reconciler quarantines under a holder's feet. Right when: admitted
operations are ordered by epoch, one client per epoch, and a quarantined binding
admits nothing.

**Reconciler** (`coordinator/src/reconcile.rs`).
An endless loop of `sweep_once`: a lease pass (quarantine expired bindings of
running runs, pause the run) and a wall-clock pass (pause exhausted runs). Every
statement is its own transaction; an error ends the whole sweep. Hard: rows
change between SELECT and write; the coordinator restarts in the middle; a
neighbour's race aborts the sweep. Right when: no lost lease and no exceeded
budget stays unattended for ever.

**Executor** (`executor/src/lib.rs`, `main.rs`, `client.rs`).
A worker that reads a ready run, claims it, acquires the lease, and validates
before each of three side effects (worktree add, command, capture); renews every
30 s a lease of 90 s while the command runs; ends at verifying then completed, or
failed. All state it shares is the coordinator's, over HTTP. Hard: any call may
fail or its answer be lost; two workers claim one run; operators move the run
meanwhile.

**Provisioning saga** (`coordinator/src/saga.rs`).
`provision`: draft → provisioning, then per worktree create, grant, lease, then
ready; on an error `compensate`: revoke grants, walk bindings back, failed. Every
statement commits alone. Hard: it stops anywhere and is called again; two runs
ask for one idempotency key; a client retries while its first call is under way.

**Evidence** (`coordinator/src/evidence.rs`, `stream_to_evidence` in the
executor). An append-only log per run, numbered MAX(seq)+1 *without* a lock, read
in pages after a cursor. Hard: stdout and stderr append at once; a reader might
pass a number that is committed later; an append may be committed and its answer
lost.

**Workspace compare-and-swap** (`coordinator/src/workspace.rs`, `post_mutations`
and `get_workspace` in `http.rs`). One JSON document per workspace with a
revision and a hash, and an audit log of accepted mutations. Hard: racing
writers, lost answers, resends, patches that overlap or replace everything.

**Agent harness** (`crates/buzz-acp`: `queue.rs`, `lib.rs`, `pool.rs`, `acp.rs`,
`pool_lifecycle.rs`).
One main loop owns a queue of events per channel, the slots of a pool of agent
processes and their circuit breakers; it spawns a task per turn and steers
messages into running turns. State: pending, cancelled and withheld events,
in-flight deadlines, retry counts and throttles, idle slots, turns, respawns,
steer acknowledgements, the sleep and wake of a lazy pool. Operations: the arms
of the loop's `select!` (an event, a control frame, a membership change, a
result, an acknowledgement, the timers), `dispatch_pending`, the maintenance at
the top of the loop. Hard: a turn's result, its steer acknowledgements, its
deadline and the owner's cancel come in any order; every way a turn can end puts
its events somewhere else. Right when: an accepted event is in one place until
its fate, a channel has one turn, failures are retried a bounded number of times
and everything settles.

**Git hosting on the object store** (`crates/buzz-relay/src/api/git`:
`transport.rs`, `cas_publish.rs`, `manifest.rs`, `hydrate.rs`, `store.rs`, and the
announcement's part of `handlers/side_effects.rs`).
State: immutable packs and manifests, one mutable pointer per repository, the
reserved name, the newest kind:30618 event. Operations: a push (hydrate,
receive-pack in a private workspace, capture or compact the packs, PUT pack and
manifest, conditional PUT of the pointer, event, answer) and an announcement
(reserve the name, seed the pointer, emit the empty ref state, release on
failure). Hard: pushes race on several relays with nothing but the conditional
PUT between them; a handler dies while its PUT travels on; compaction replaces
packs others refer to. Right when: pushes are atomic, what is published can be
cloned, and an answer that is not an error settles the push.

**Community deletion** (`crates/buzz-deletion/src/lib.rs`,
`crates/buzz-db/src/deletion.rs`).
State: the community's deletion state and fence generation, the request's stage,
lease, retries and block, the frozen manifest and its key chunks, the serving
leases of admitted writes. Operations: the operator's submit, inventory, approve,
abort, unblock; the worker's claim and its stages from quiescing and fencing to
`retention_pending`; acquisition, release and lapse of serving leases. A worker is
a command (`run`, `drain`) that an operator starts and that ends when the queue is
empty or a stage fails; none waits for work. Hard: two
workers hold the request in turn while the first one's calls are still under way;
an abort races the fence; an admitted write outlives its relay. Right when:
nothing is deleted from a community in use, nothing is forgotten, and no claim
lasts for ever.

**Around them**: the HTTP layer (parsing, authentication, error mapping), store
and startup, the executor's HTTP client, the desktop run surfaces
(`desktop/src/features/runs`), and the rest of what is inherited from upstream
(relay and its libraries, the harness' relay client, push gateway, pairing, mesh,
CLI, SDK, mobile, web, admin). `PROJECT.json` lists each with its status.

### 1.2 How they interact

In the control plane the database is the only shared state and Postgres' row
locks the only synchronisation; all processes are clients of the coordinator's HTTP API, except
the reconciler, which is a task in the coordinator.

    desktop ──transition, mutations──▶┐
    executor ─claim, lease, validate─▶│ coordinator ──▶ Postgres: runs, run_transitions,
      └─stdout/stderr──evidence──────▶│      │           worktree_bindings, grants,
    provisioning client ──provision──▶┘      └ sweep ──▶ run_evidence, workspaces

The saga hands over to the executor at `ready`; the executor and the reconciler
meet on `runs.status` and on the binding row; operators meet both on
`runs.status`.

Of the upstream parts, the harness is one process whose loop owns all of its
state; its tasks reach it by channels only. Pushes and announcements meet in the
object store. Deletion workers, operators and the relays' admitted writes meet
in Postgres and in the object store, whose answers they do not see at once.

### 1.3 What is hard to test

`PROJECT.json` lists the hazards under `hazards`, each at its line with the
properties that would notice it going wrong. These are met by the code as well,
and no property covers them:

- the order of claims: `select_claim` picks the oldest ready run at every poll, so
  one that `execute_run` refuses before its claim starves the others
  (`executor/src/main.rs:85`), and a ready run that falls off the 200-row list is
  never claimed (`run.rs:199`); not modelled yet;
- an executor that dies between verifying and completed leaves the run at
  verifying, and no code moves it on (`executor/src/lib.rs:589`);
- between the answer of `validate_op` and the side effect it guards the lease may
  be lost (`executor/src/lib.rs:490`); the effect is on a file system no other
  component observes;
- a connection lost between the INSERT and the UPDATE of a transition
  (`run.rs:96-121`): that neither is kept is Postgres' promise, and the model,
  where the two and the COMMIT are one step, takes it as given;
- `fetch_run_detail` reads in three statements (`http.rs:707`); who acts on its
  answer is checked again;
- what the code does and section 6 lists: items 4 to 6, 8 to 10, 12 to 16,
  19 to 21, 24 to 29.

## 2. Modules

| Module | Models | State | Actions |
|---|---|---|---|
| `RunDomain` | `domain.rs` | – (the transition table) | – |
| `Runs` | `run.rs`, each operation atomic | the tables `runs`, `run_transitions` | `Create`, `Transition`, `ObserveTokens`, `Tick`; operators `ParentWalk`, `Depth` |
| `TransitionTx` | `run::transition` by statement; extends `Runs` | row locks, each client's transaction | `Begin`, `SelectForUpdate`, `NextSeq`, `Commit`, `Rollback` |
| `BindingRow` | one `worktree_bindings` row | – (operators on a row) | – |
| `Leases` | `binding.rs` as a protocol between clients | rows, epochs held, last admitted operation | `Acquire`, `AcquireUnseen`, `Renew`, `Validate`, `Quarantine`, `Forget`, `Tick` |
| `Control` | the tables of the execution phase | status, wall-clock budget, bindings | `Move`, `OperatorMove`, `AcquireOutOfBand`, `TimePasses` |
| `Reconciler` | `reconcile.rs` by statement; extends `Control` | the sweep under way | `SelectExpired`, `QuarantineRow`, `PauseRead`, `PauseWrite`, `SelectExhausted`, `ExhaustedRow`, `SweepDone`, `CoordinatorCrash` |
| `Executor` | `execute_run` by call; extends `Control` | each executor | `ReadRun` … `Complete`, `Abandon` |
| `Execution` | composes `Reconciler`, `Executor`, operators, other lease holders and time | bounds | `Sweep`, `Execute`, `Operate`, `TakeLease`, `Crash`, `Tick` |
| `Saga` | `saga.rs` by statement | tables, provision calls | `Provision`, `Begin`, `CreateBinding`, `Grant`, `LeaseRead`, `AcquireLease`, `Finish`, `Fault`, `Revoke`, `ListOwned`, `WalkBack`, `StatusRead`, `Fail`, `Stop`; of others `MoveRun`, `LeaseElsewhere`, `SweepQuarantine`; `Lapse` |
| `Evidence` | `evidence.rs` and its writers and readers | rows, writers, reader | `Allocate`, `Insert`, `Commit`, `Fails`, `Poll` |
| `Workspace` | `workspace.rs` and its clients | row, log, lock, clients | `Compose`, `EnsureWorkspace`, `SelectForUpdate`, `Write`, `Resend` |
| `EventQueue` | `queue.rs` | – (one operator per method on the queue's struct) | – |
| `Harness` | main loop, pool, steering, lazy pool; extends `EventQueue` | the queue, slots, turns, circuits, acknowledgements, lifecycle, the loop's place | one per arm: `Receive`, `OwnerControl`, `MemberRemoved`, `MemberAdded`, `HandleResult`, `SteerAck`, `WakeSucceeds`, `WakeFails`, `WakeRetry`, `IdleSleep`, `HeartbeatTick`, `TimerTick`; the phases `StartWake`, `Maintenance`, `CollectRespawns`, `DispatchBatch`, `PoolExhausted`, `DispatchDone`; the tasks `WriteSteer`, `SteerAnswer`, `TurnEnds`, `RespawnEnds`; the clocks |
| `RefStore` | what hosted refs promise (abstract) | ref map, pushes | `Ask`, `Commit`, `Leave` |
| `GitPublish` | `api/git` and announcements, by call to the store | store, PUTs under way, handlers, name row, event | `Advertise`, `Reject`, `Prepare`, `Refuse`, `PutPointer`, `StoreDecides`, `PublishRefState`, `Fail`; `StoreAnnouncement`, `PeekOwner`, `ReserveName`, `EnsurePointer`, `SeedPointer`, `RereadPointer`, `ReleaseName`, `EmitInitialRefState`, `AnnouncementFails` |
| `Deletion` | `buzz-deletion`, `deletion.rs` by transaction and store call | community, request, chunks, executors, writers, objects, deletes under way | the stages `BeginQuiescing` … `MarkRetentionPending`, `Claim`, `Verify`, `RecordRetry`, `StageNotReady`, `StageFails`, `Block`, `StopExecutor`, `GiveUp`; `Submit`, `FreezeInventory`, `Decide`, `Abort`, `Unblock`; `AcquireServing` … `ServingLapses` |
| `MC*` | the instances TLC checks | | |
| `RunsProof` (with those of `TransitionTx`), `LeasesProof`, `ExecutionProof`, `SagaProof`, `HarnessProof` (with `EventQueue`), `GitPublishProof`, `DeletionProof` | the proofs about the module of that name | | |
| `CoordinatorProof` | the proofs about `Workspace` and `Evidence` | | |

Abstract specifications and what implements them:

- `Runs` is the run table with atomic operations; `TransitionTx` implements it
  (`ImplementsRuns`, the same variables, by proof and by TLC).
- `Leases` is the fencing protocol; `Execution` implements it
  (`ImplementsLeases`, with `held` mapped to the epochs the executors carry, by
  proof and by TLC).
- `RefStore` is one ref map changed by whole pushes; `GitPublish` implements it
  (`PushesAreAtomic`, with the refs of the pointed manifest as the map, by proof
  and by TLC).

Conventions.

- *Time*. The code compares a stored timestamp with the current time and does
  nothing else with it, so `BindingRow`, `Control` and `Saga` store the time
  *left*: positive is live, 0 is the instant of expiry (neither live by `>` nor
  expired by `<`), `Lapsed` any time after. The state space is then finite
  without bounding the clock. `Runs` keeps the clock itself, because
  `wall_started_at` must be shown not to move.
- *Transactions*. A transaction is one action when nothing in it waits or is
  visible halfway; it is split by statement where an interleaving matters
  (`TransitionTx`, `Reconciler`, `Saga`, `Evidence`, `Workspace`). INSERT, UPDATE
  and COMMIT of one transaction are one action, since other sessions see them
  together; Postgres itself (row locks, the primary key, rollback when a
  connection is lost) is modelled from how the code uses it.
- *Failures*. `Abandon` is any failed call or death of an executor, `Stop` a
  dropped provision request or a death of the coordinator, `Fault` a failing
  statement (in `provision_worktrees` it starts the compensation, in either
  transition or in `compensate` itself it goes to the caller), `Crash` a coordinator restart, `Fails` a failed append that may have
  been committed, `Resend` a lost answer. In `Harness`, `TurnEnds` is every outcome
  of a prompt, a dead agent included; in `GitPublish`, `Fail` and
  `AnnouncementFails` are an error or a lost answer after which the PUT that was
  sent may still be carried out, and a PUT whose handler waits may be decided more
  than once, since the S3 client sends a failed request again (`Resent`); in `Deletion`, `StageFails` is a failing call,
  `StopExecutor` and `RelayDies` dead processes, and a delete or a PUT that was
  sent lands later all the same.
- *What is atomic in the upstream models.* An arm of the harness' loop awaits
  nothing that another arm could change, so it is one step; tasks and clocks step
  while the loop waits, since between two waits it reads nothing of theirs. The
  arms are biased, but an earlier arm may become ready after it was polled, so
  any ready arm may be the one taken. A push's work before the pointer PUT is one
  step because its workspace is private and packs and manifests are immutable. A
  deletion transaction whose last statement repeats its check is one step; where
  the check comes before a call it does not cover, `Verify` is a step of its own.
- *Data.* An `Instant` of the harness is what a method tells apart (ahead or past;
  armed or due). A digest is its content: a manifest holds its parent, the
  pointer its manifest, and the ETag is the body. A frozen chunk holds one key.
- *Mutants*. Operators under a comment `Mutant:` are deliberately wrong versions
  of the definition that follows. No specification uses them; substituted for
  that definition, each makes TLC find a violation, which shows that the
  property it is paired with in `PROJECT.json` can fail.

## 3. What TLC checks

State counts are distinct states, after symmetry and view where the `.cfg` uses them.

| Run | Instance | States | Shows |
|---|---|---|---|
| `runs` | 3 runs, logs of 2 | 90,702 | types; `DepthTerminates`: no sequence of creations makes a cycle or a dangling parent |
| `transition_tx` | 2 clients, 1 run, logs of 5 | 78,535 | `ImplementsRuns`, `AuditChain`, `WallClockFixed`, `TxInv` |
| `leases` | 3 clients, 1 binding, 2 runs, 4 epochs | 1,202 | `FencingInv`, `FencingOrder`, `QuarantineFinal` |
| `execution` | 2 executors, 1 run with budget, an operator, a foreign lease | 666,185 | `ImplementsLeases`, `ExecutionInv` (types, `BudgetArmed`) |
| `execution_live` | 1 executor, a run without a budget, one with a budget and a read-only binding, 2 operator moves, 1 restart | 392,892 | `PromptKeepsLease`; `LeaseLossHandled` (the run is moved, not only its binding quarantined, unless the coordinator restarts) and `WallBudgetEnforced`, also when a race aborts the sweep that should have acted |
| `saga` | 2 runs, 2 keys, one shared, 2 calls, 1 fault, 2 steps of others | 1.65 million | `ReadyIsProvisioned`, `FailedIsWalkedBack`, `ReturnSettles`, `SagaInv` (types, `GrantsAreOwn`) |
| `evidence` | 3 streams, 2 chunks, 1 failed append | 126,284 | `ReaderMissesNothing`, `EverythingShown`, `EvidenceInv` (types, `SeqsContiguous`, `StreamsInOrder`) |
| `workspace` | 2 clients, 2 fields, 4 requests, 3 revisions, 2 lost answers | 215,857 | `NoLostUpdate`, `AppliedOnce`, `WorkspaceInv` (types, `LogIsAChain`, `LogAddsUp`, `RejectionIsData`) |
| `harness` | 2 slots, 1 channel, 2 events, 3 bad or forced ends, queue cap 1, 1 retry | 2.6 million | `OnlyMergedLost`, `DeliveredOnce`, `RetryBudget`, `SlotsExclusive`, `HarnessInv` (types, `HeldOnce`, `OneTurnPerChannel`) |
| `harness_live` | 1 slot, 2 events, 1 bad end, queue cap and batches of 2 | 8,447 | `EventuallySettled`, `OnlyMergedLost` |
| `git_publish` | 2 pushes, 2 announcements, 2 refs, 2 commits, at most 2 packs | 895,121 | `PushesAreAtomic`, `AnswersSettle`, `NeverReinstalled`, `StoreInv` (types, `Cloneable`, `AcceptedIsCloneable`, `NoticeWasPublished`) |
| `deletion` | 2 workers, 1 admitted write, 2 keys, 2 faults, block after 2 retries | 851,395 | `DestructionIsFinal`, `NothingLeftBehind`, `FrozenStays`, `ClaimsEnd`, `DeletionInv` (types, `UnexpiredIsCurrent`) |

### Why the bounds are enough

- *Runs*: three runs are the least with a grandparent, so a cycle of length 1, 2
  or 3 could appear. A log of 5 holds draft → provisioning → ready → running →
  paused → running, the shortest second entry into running; that, and two clients
  on one run, is what `WallClockFixed` and `AuditChain` are about. Runs are
  independent of each other in `transition`, hence one run there.
- *Leases*: three clients are needed for "an older holder, a newer one, and one
  that forgot". Bindings do not interact. The proofs remove these bounds.
- *Execution*: one unit of time is the renewal interval (30 s). In
  `execution_live` the lease is 3 units and the interval 1, the code's own 90 s
  and 30 s; elsewhere the lease is shortened to 1 so that it expires often. A
  prompt host finishes `git worktree add` within `SetupBound` units. One budget
  unit is enough for the budget to run out before, during and after any other
  event, because nothing waits for it. Two runs let an error on
  one skip the other and the whole wall-clock pass; the one without a budget
  leaves the lease pass nobody else to rely on, and the one with a budget and a
  binding no executor renews is resumed after it lost that lease. Operator
  moves, restarts and foreign leases are counted down from
  `MaxOps`, `MaxCrashes`, `MaxOutOfBand`; when they are used up the rest must
  still work without them. `MaxEpoch`, which `Leases` needs to be finite, is
  never reached here.
- *Saga*: in the instance r1 wants k1 to write, and r2 both keys to write: they
  contend for k1, and r2 also meets the one-writable-binding index, with one
  worktree to walk back. (A spec without worktrees goes from provisioning straight
  to ready; the proofs cover it.) Calls for r1 may overlap (`Retried`), those for
  r2 not; `overlapped` remembers for which runs they did, `undone` which a
  compensation has begun to walk back, `movedBy` whether provision or somebody
  else moved a run last, and the properties say of which runs they speak. One
  fault falls on any statement. Two steps of others (`MaxOthers`) are, for
  instance, an operator's two edges, or an edge and a lease acquired between
  provision's check and its own acquisition; the sweep and the clock are not
  bounded. TLC's view leaves out the epochs and how long ago a lease lapsed,
  which neither the saga nor a property reads.
- *Evidence*: three streams make two losers of one collision; two chunks each
  let a stream's second chunk race another's first.
- *Workspace*: three revisions and two lost answers cover a resend that finds
  its own write, someone else's, or none; the four requests overlap on one
  field, set both, set them in two patches, and replace the whole document.
- *Harness*: channels share only the slots, so one channel, with two slots and a
  heartbeat to compete for them, has the interesting cases; two events are the
  turn's own and one that is steered, queued behind it or merged with it, and
  their authors' clocks disagree with the order they arrive in. In `harness` the
  queue holds one event, so that an arrival and a batch put back both overflow it;
  in `harness_live` it holds both, so that they are sorted, batched and merged,
  and none must be lost there either; one retry is the
  least that tells a retry from a dead letter; three faults are a cancel, a
  failure of the retry and one more. Both `multiple_event_handling` values that
  act on a running turn and both `dedup_mode`s are explored from the initial
  states. A channel's deadline passes once. Whether a pool is lazy is not a
  parameter: the lazy one goes through every state of an eager one.
- *Git*: two refs let a push see one right and one wrong old value; a chain of two
  commits has a fast-forward and a reset. The pointer starts absent, or with a
  life of four manifests whose last is at the limit of packs, so that the next
  push must compact; a repack is any division of what is reachable into packs. Two
  pushes and two announcements race pairwise in every
  order; more would be decided by the same conditional PUT. Both sets are
  symmetric. How often a PUT is sent again is not bounded. TLC's view
  (`MCGitPublish!View`) leaves out what nothing later depends on: PUTs that can no
  longer take effect, what a finished push was about, which stored objects there
  are beyond those that are needed.
- *Deletion*: one key is there from the beginning and one is put by the admitted
  write, in time or late. Two workers are a stale one and its successor. Leases
  lapse at any time, which includes every renewal that comes too late. Two faults
  are a failure and a second one while the first is being dealt with.

`CHECK_DEADLOCK FALSE` is given where a bound stops the model or the work ends
(`runs`, `transition_tx`, `saga`, `evidence`, `workspace`, `git_publish`,
`deletion`). The executions, the leases and the harness' loop never stop (a
harness that exits because all agents are dead stutters, `Exited`), and deadlock
is checked there.

### Fairness

`Execution` assumes weak fairness of `Sweep` and of `Tick`. `run_reconciler` is
an endless loop that logs errors and goes on, in a runtime that polls every
task, and a sweep that a restart has dropped starts again; restarts are bounded.
Nothing is assumed of executors, which may stall or die anywhere, nor of
operators. `Evidence` assumes weak fairness of its whole next-state relation:
streams are read to their end, each append is answered, and the reader polls on
an interval; no choice between actors is assumed to be fair, only that the
finite work goes on.

`Harness` (`LiveSpec`): the loop keeps turning (weak fairness of its phases); an
arm that is ready again and again is taken (strong fairness of results,
acknowledgements and the wake's outcome: `select!` is biased towards them, and
what waits in a channel stays); a timer that is on ticks; a turn ends, because
it has an idle and a hard timeout; throttles and open circuits pass; and a
process can be started in the end. That events arrive, that owners act or that
the pool goes to sleep is not assumed.

`Deletion` (`LiveSpec`): a command that holds a claim goes on with it, and stops
when it finds the claim gone; the store carries out the deletes it was sent; the
lease of a dead command lapses. That a command is run is not assumed, since
`run_loop` (`crates/buzz-deletion/src/lib.rs:791-838`) ends on an empty queue and
after any failure, and no command waits for work
(`crates/buzz-admin/src/deletions.rs:15-18`): an approved or failed request waits
for an operator, for ever if none comes. Hence `ClaimsEnd` is about claims and not
about requests. Operators, writers and faults owe nothing.

## 4. What is proved

All proofs are checked by TLAPS for every value of the constants that satisfies
the modules' assumptions, which TLC evaluates on the instances above. They say
that the null values are no runs, clients or bindings, that bounds are naturals,
that owners are runs and that times are in range. `GitPublish` also assumes what
git and the code guarantee of the store it starts from: object ids are finitely
many (they have a fixed width), reachability is transitive, and the repository's
life so far (`Starts`) is a history of whole manifests, each the parent of the
next. `Harness` assumes that the null values are no events, channels or turns. Four
hypotheses are not assumptions of a module but are stated in the theorems that
need them: `NilIsNothing`, `LoneExecutor`, `OneAccess` and a finite set of runs
(below).

Every inductive invariant was checked by TLC on the run of its module before it
was proved (`Ranked`, which quantifies over rankings, with the rankings of the
instance's runs).

Induction over data is done by least counterexample: the library's theorem that
`<` is well-founded on the naturals (`NatLessThanWellFounded`, `WFMin`) takes a set
where an induction theorem would take a predicate, so `Counted` says that a set of
numbers with 0 and every successor holds them all, and is used with the set of
the n for which the claim holds. Existence of a recursive function's value at every
index is shown first, in the same way (`WalksExist`, `MergesExist`).

**`RunsProof`** (`Runs`, `TransitionTx`). `RunsInv == TypeOK /\ AuditChain /\
WallClockStarted` is inductive. `AuditChain` needs the types (a sequence of edges)
and makes `Create` safe: an absent run cannot have a log, because the log would
end at its status. `WallClockStarted` compares the clock with the log and is
carried by the same step. Theorems: `RunsTyped`, `AuditIsChain`,
`WallClockFollowsLog`, `WallClockNeverMoves`, `TerminalStays`. (`TerminalIsFinal`
and `WallClockStarted` are proved only.) `DepthEnds` proves `DepthTerminates` for any
finite set of runs. Its inductive invariant `Ranked` says that the runs that exist
have ranks: 0 for a root, one more than its parent's for a child, each below the
number of runs. A new run extends the ranking because its parent exists and no
row names the new run as its parent yet, which is the foreign key's doing; nothing
changes a parent later. The walk then goes down one rank a hop (`WalkClimbs`). For
the transaction, `TxInv` says that
one past its SELECT holds the row lock alone and that what it read — the status,
hence the legality of its edge, and the next number — is still true. Then `Commit`
is a `Transition` of `Runs` (`CommitIsTransition`), every other step is one of
`Runs` or leaves it alone (`StepSimulation`), and the table's own invariant is
inherited step by step. `TxInv` is inductive only relative to `RunsInv`. Theorems:
`LockedReadsInvariant`, `TransactionsImplementRuns` (`TxSpec => Spec`),
`TransactionsAreAudited`.

**`LeasesProof`**. `FencingInv` is inductive as it stands. That no epoch is in two
hands (`EpochsUnique`) needs that none is held before it is issued
(`HeldIssued`), so that an acquisition's epoch is new; that admitted operations
are ordered needs, besides, that the last one is attributed to the client that
holds its epoch (`LastOpIssued`). All steps but `Acquire` and `Validate` only drop
held epochs or raise none, which one lemma (`OtherSteps`) covers. Theorems:
`FencingInvariant`, `FencingOrdered`, `QuarantineIsFinal`.

**`ExecutionProof`**. `ExecutionInv` is inductive: an executor's program counter
agrees with what it was given (`ClaimFits`), and every run that has run has its
budget armed, because the edges of the table enter the statuses after `running`
only through `running` (`Edges`). Each step of executors, sweep, operators and
restarts is then a step of `Leases` under the mapping of `held` to the epochs the
executors carry: `ExecutionImplementsLeases`, so `LeasesProof`'s theorems hold of
the running system. `PromptExecutorKeepsLease` is proved in the setting
`LoneExecutor`: one executor, nobody else who acquires leases, write grants on own
bindings (which `SagaProof` shows provisioning leaves), and `SetupBound + RenewEvery <
LeaseTtl`. Its invariant `PromptInv` follows the two clocks: from the claim on, the
lease has more time left than the executor's timer, by another renewal interval
during the setup, so it is live at each fenced step; and a binding the sweep has
selected or quarantined (`Doomed`) belongs to a run that has run already and to a
lease that had expired by then, so an executor that still claims that run is late.

**`SagaProof`**. `SagaInv` alone is inductive with `CallFits` (a call knows its run,
and the rows it is about to touch are that run's). The promises about runs whose
calls did not overlap need how far the only call has come (`Reached`), that a run
provision itself has settled has no call left to undo it (`Settled`), and that a
run no compensation has walked back still has its bindings editable, the sweep
touching them only once it has run (`Intact`): `list` sees every grant
revoked, `walk` holds in its list every binding that is still ready. Since a
binding's owner never changes, a step of a call disturbs only what is said of its
own run (`OwnStep`), which leaves each action one call and one run. What others do
(`MoveRun`, `LeaseElsewhere`, `SweepQuarantine`) owes the properties nothing: a run
they move is no longer one that provision brought where it is. Theorems:
`SagaInvariant`, `ReadyRunsProvisioned`, `FailedRunsWalkedBack`,
`CallsSettleTheirRuns`. `ReadyRunsProvisioned` has the hypothesis `OneAccess`: a spec
that names one key twice with two accesses is granted the last one asked
(`saga.rs` upserts), so it cannot have both.

**`CoordinatorProof`** (`Workspace`, `Evidence`). Of a workspace the code compares
revisions only. `SeenFits` is why that is enough: no client has seen a revision
beyond the row's, and one that has seen the row's revision has seen the row
itself; a write moves the revision past everything seen. That the log adds up to
the state is carried by `Contents`. `LogAddsUp` says it without replaying the log: the
last mutation that is not an object wipes what came before it, and after it each
field has the value last given to it. One more patch after all the others keeps
this (`LastWriteStep`: `MergePatch` against the place of the patch in the log), and a
request is an induction over its patches (`RequestAddsUp`), since `Write` merges them
in turn and logs them as one entry (`WriteAddsUp`). Theorems:
`WorkspaceInvariant` (the inductive invariant of the compare-and-swap),
`WorkspaceIsConsistent` (`WorkspaceInv` with all its parts), `AppliesOnce`,
`UpdatesAreNotLost`.

In the evidence log the number of an append under way is drawn without a lock, but
its row is inserted under the primary key. `OneCommits` is the consequence that
carries everything: a writer past its INSERT holds the number after the last
committed one, and no two do, since the second waits. So rows are committed in
the order of their numbers and never behind a cursor. A stream is past every
chunk of its own in the log (`StreamsAhead`), which keeps its chunks in order and
once. That a page holds as many rows as there are numbers between cursor and end
is a bijection (`PageSize`). Theorems: `EvidenceInvariant`, `ReaderSeesAll`.

**`HarnessProof`** (`Harness`, `EventQueue`). None of the harness' invariants is inductive
by itself; `Inductive` joins what they need of each other. Each event is in at most
one list, of its own channel, or in one turn (`Lists`, `Turns`, `OneTurn`), and an
accepted event is in one of them, settled or merged (`Accounted`). What is settled
stays out of queues and turns (`Final`). A steer that is anywhere (an agent's
inbox, the wire, an ack not yet handled) has its event in the side table, or the
event is settled or its channel's deadline has fired (`Steers`, `HeldBack`): so ack
and result may come in either order. A channel with failures to its account has its
retry count to match and a batch queued or in a turn, so that maintenance cannot
forget the count (`Retries`). A pool that sleeps has no agent, no turn and no
respawn, hence a wake overwrites nobody (`Asleep`).

A handler makes several calls that each break and mend some of this, so `EventInv`
takes queue, turns, acks and histories as arguments. There is one lemma for each
call, from what the method changes of one channel's lists, and `EventsStep` puts the
calls of a handler together in the code's order. `Without` and `ByCreation`, the
`retain` and the stable sort of `queue.rs`, are written by ranks (the i-th element is
the one with i - 1 before it) because that they lose and repeat nothing then follows
from counting. Theorems: `InductiveInvariant`, `HarnessInvariant`,
`NothingElseLost`, `NoneDeliveredTwice`, `RetriesBounded`, `SlotsAreExclusive`.

**`GitPublishProof`**. Every manifest ever stored is whole, published or not
(`StoreOK`): `Compose` keeps the packs of the parent or replaces them by a repack,
and either holds the closure of the new tips (`ComposeSound`). A conditional PUT in
flight is the one its push planned, against the manifest its client's beliefs
were checked with (`PutFits`), even when its handler has long given up; so the PUT
that takes effect is an atomic `Commit` of `RefStore`. Nothing the pointer has named
has the current manifest as its parent (`Chain`), so what is installed next was
never installed before. For the same reason a manifest that is superseded stays so
(`SupersededStays`): a 412 means that the parent is superseded, by somebody else or
by another copy of the same PUT, and from then on no copy can take effect, which
is what `AnswersSettle` says of a 409. Theorems: `StoreIsWhole`, `AnswersSettled`,
`PointerNeverReturns`, `PushesImplementRefStore`, under `NilIsNothing` (the null
value is neither a manifest nor a set of updates).

**`DeletionProof`**. `DeletionInv` is inductive: besides the types and
`UnexpiredIsCurrent` it says how the request's stage, the community's state and the
manifest agree (`RowsAgree`, `ManifestHolds`), what an executor, current or stale,
may rely on where it stands (`WorkerSound`), and that a delete under way was sent
for the key its executor still waits for, unless that claim is over
(`DeletesAwaited`). What is said of an executor depends on the rows and on itself
only, so a step needs two arguments: everyone stays sound under the change of the
rows, and the one that moves is sound where it arrives (`SoundStep`).
`NothingIsLeft` and `FrozenForGood` follow from what a step may
do to the manifest and the owed keys (`Effect`). Theorems: `DeletionInvariant`,
`DestructionFinal`, `NothingIsLeft`, `FrozenForGood`.

## 5. What is only model-checked

- Liveness (`LeaseLossHandled`, `WallBudgetEnforced`, `EverythingShown`,
  `EventuallySettled`, `ClaimsEnd`): the prover reasons neither about fairness nor
  about `ENABLED`.

## 6. Divergences between the code and what it says

Met while modelling; the models follow the code. Stated as properties, the first
three make TLC produce a counterexample.

Control plane:

1. `execute_run` reads the run's status and then requests a transition to running,
   which the table also accepts from verifying, paused and blocked. An executor
   delayed between the two claims a run that another is finishing or that an
   operator paused, although it "Claims `run_id` (must be `ready` + ...)"
   (`executor/src/lib.rs:435-436`).
2. Quarantine and pause are two transactions, and the lease pass selects only
   ready bindings: a restart between them leaves a running run with a quarantined
   binding for good, although "A Run whose binding is quarantined is `Paused`
   (lease loss) or `Blocked`" (`vingilot/docs/coordinator.md:65-67`).
3. When compensation stops after it quarantined a binding, the run is still at
   provisioning; the repeated call finds the row, grants, leases and goes to
   ready with it, although a resumed call "converges on the same end state"
   (`coordinator/src/saga.rs:7-8`).
4. `observe_tokens` ignores a lower total but stamps its time
   (`run.rs:393` against the comment at `run.rs:381-383`).
5. `renew_lease` revives a lapsed lease if its epoch is still current
   (`binding.rs:194-208`), while the executor's comment expects a failure ("e.g.
   the lease already lapsed", `executor/src/lib.rs:424`).
6. The sweep's UPDATE looks at the lifecycle only, not again at the expiry
   (`reconcile.rs:110-113`), so a lease renewed or acquired since the SELECT is
   quarantined alive, against "only flips rows still in the state being swept"
   (`reconcile.rs:160-162`).
7. A resume checks no lease, against "resume re-validates lease"
   (`vingilot/docs/plans/2026-08-02-coordinator-core.md:41`).
8. A denial before capture is recorded and the run still completes
   (`executor/src/lib.rs:221-230`), against "never lets the Run reach
   `completed`" (`lib.rs:8-10`); the comment at `lib.rs:208-212` wants it so.
9. The lease pass includes bindings no executor renews: a read-only binding's
   provisioning lease, one hour, pauses a healthy run (`reconcile.rs:95-101`
   against the reason given at `reconcile.rs:6-8`).
10. Overlapping provision calls for one run can leave a failed run that owns a
    ready binding, a ready run without grants, and an acquisition over a live
    lease (`saga.rs:13-14`, `24-25`); `GrantsAreOwn` holds for them too.
11. Two evidence appends that draw the same number collide and one chunk is
    dropped with a warning (`evidence.rs:77-79`, `110`; `lib.rs:416-418`); it
    "mirrors `run::transition`'s" numbering but not its lock. The order and the
    completeness of what is committed survive (`StreamsInOrder`,
    `ReaderMissesNothing`).
12. Provision's check for a live lease and its acquisition are two statements
    (`saga.rs:105`): somebody who acquires between them (`POST` lease, a repeated
    call) is fenced off at once, although a lease is acquired only "if none is
    currently active, so retries don't needlessly fence out an in-flight holder"
    (`saga.rs:13-14`). Fencing itself is right: the loser is no longer admitted.
13. A statement that fails in `compensate`, or in the transition to ready, is
    returned to the caller with the run still at provisioning (`saga.rs:169`,
    `173`, `184-219`), although `provision` "calls `compensate` itself before
    returning the error: ... and the run is transitioned to `Failed`"
    (`saga.rs:21-24`). A repeated call goes on from there, with item 3 as one of
    its ends. `ReturnSettles` is about calls without such an error.
14. `post_transition` takes any legal edge (`http.rs:886-896`), and the desktop
    offers them all (`legalNext` in `RunDetail.tsx`): an operator may mark a run
    ready that was never provisioned, or failed with its grants and editable
    bindings left. `ReadyIsProvisioned` and `FailedIsWalkedBack` are about runs
    that provision itself moved there (`movedBy`).
15. One sweep pauses a run once (`reconcile.rs:70`). A run with two expired
    bindings that is resumed between their turns loses the second and stays
    running, against `reconcile.rs:6-10`. `LeaseLossHandled` is about runs that own
    one binding.

Agent harness (`crates/buzz-acp/src`):

16. A cancelled turn's events are merged into the next batch as
    `cancelled_events`; when that batch fails or finds no agent, `requeue` and
    `requeue_preserve_timestamps` (`queue.rs:429`, `508`) put back its own events
    only, although "the original batch must survive" (`lib.rs:3817-3819`).
    `OnlyMergedLost` and `EventuallySettled` say it of every other event, and
    nothing of one that was ever merged so.
17. An overflow of `requeue` drops the back of the queue, the newest events, where
    the comment and the log say the oldest (`queue.rs:485-495`).
18. When a channel's in-flight deadline fires, the channel is released while the
    old turn may still run; its late result then completes the newer dispatch.
    `OneTurnPerChannel`, `DeliveredOnce` and `RetryBudget` hold for channels whose
    deadline never fired.
19. A pool exhaustion and a removal from the channel reset `retry_counts`, so the
    row of failures starts afresh; cancelled events that nothing joins are flushed
    without regard to the channel's throttle.

Git hosting (`crates/buzz-relay/src`):

20. A `receive-pack` that is not atomic may move some refs and report others
    rejected; the report counts as a rejection as a whole and nothing is
    published, although the comment has it that "the workspace refs were NOT
    advanced" (`api/git/transport.rs:1829-1832`). The client is told `ok` for a ref
    that did not move ("partial" in `GitPublish`); `AnswersSettle`
    asks of that answer only that nothing was or will be published.
21. After a backend error of the pointer PUT "no pointer was written"
    (`transport.rs:1949-1951`) is too sure: the PUT may have been carried out.
    `AnswersSettle` therefore says nothing of an error.
22. A manifest names its parent, so `parent_digest != committed_digest` is always
    true and no push is a no-op (`docs/git-on-object-storage.md:453-456`); the
    same fact is why the pointer never returns to an old value
    (`NeverReinstalled`).
23. A failed insert of the kind:30618 event is answered with an error, against "is
    non-fatal" (`docs/git-on-object-storage.md:463-465`).
24. The event of an older push, or the initial empty one, may be stored after a
    newer push's and shadow it, the case `handlers/side_effects.rs:2679-2685`
    guards against for re-announcements. `NoticeWasPublished` is what holds.
25. `ensure_manifest_pointer` fails when a pusher populates the pointer between
    its read and its seed, against "likewise treated as an already-present
    pointer" (`side_effects.rs:2803-2808`); a failed announcement releases a name
    row on which a sibling was accepted; and an ambiguous failure of the seed
    leaves a pointer without a row.
26. The S3 client sends a request again that failed on its way (its default; the
    code under `store.rs:509` does not switch it off), so a conditional PUT that
    landed may be answered 412. `put_pointer` takes that for a lost race and the
    client is told 409 for a push that took effect. `AnswersSettle` says what a 409
    does mean: the parent is superseded and nothing of the push lands any more.
27. `ingest_event_inner` logs a failed side effect and answers that the event was
    accepted (`handlers/ingest.rs:2979-2991`). "accepted" in `GitPublish` is the
    handler's own success, so `AcceptedIsCloneable` promises a pointer only then.

Community deletion (`crates/buzz-deletion/src/lib.rs`):

28. A write that is dropped releases its serving lease while its PUT may still
    travel (`lib.rs:140`), so a tenant key can appear after the freeze, against
    "no tenant key can appear after the freeze" (`lib.rs:1108-1111`). Such an object
    is found when absence is verified, which is retried and then blocked, but
    never deleted again. `NothingLeftBehind` allows exactly these.
29. A worker that lost its lease may stamp the chunk its successor is working on;
    the successor's own stamp then fails and blocks the request.

## 7. What is not modelled, and why

- *HTTP layer, store, startup, HTTP client*: parsing, authentication and
  transport; each state change they make is an action of a module above.
- *The order in which a worker picks runs* (`select_claim`) and the 200-row cap of
  the run list: `ReadRun` picks any eligible run, which is more than the code does
  and sound for safety; starvation is a hazard still to be modelled.
- *git and the command*: success or failure; their effects lie in a file system
  nobody else observes.
- *Evidence size limit*: the executor's chunks are below it.
- *Desktop run surfaces*: they request transitions, which `Operate` and, during
  provisioning, `Saga`'s `MoveRun` do for every legal edge; their own
  logic (stop-all, deck synchronisation, autosave) is planned.
- *In the harness*: sessions and channel affinity (which slot a batch gets is any
  idle one), shutdown and inactivity exit, the timestamps that order membership
  changes, the wording of merged prompts, the relay client and its replay.
- *In git hosting*: hook and push policy (external: any push may be rejected),
  reads other than the advertisement, garbage collection of unreferenced objects
  (there is none), name claims of other owners, and failures before the pointer
  PUT, after which the push is where it was. No property is about the name row:
  that it is kept while an announcement relies on it is not so (item 25).
- *In deletion*: the listing of storage by bucket and prefix, the digest of the
  manifest, reports and receipts, and the tables purged one by one; each is one
  call that succeeds or fails. A second request after an abort
  (`deletion.rs:580`, `migrations/0030_community_deletion_recovery.sql:24-29`) is
  not modelled: `Submit` is taken once.
- *The rest of upstream Buzz*. By lines, most of the repository is user interface,
  clients for three platforms, database queries, protocol encodings and request
  handlers that read or write once. They keep no state across steps that a model
  could say more of than the code does, so the models stay with the parts above;
  the share of the repository they cover is small for that reason.

## 8. Plan

Done: the core, in the order run table → its transaction → fencing → execution →
saga → evidence → workspace; then the harness, git publishing and community
deletion; then the proofs of section 4.

Every invariant and action property of the runs is now a theorem. Next, proving
more: what `Saga` leaves is what `Execution` starts from.

Next, extending the model: the worker's choice of runs and its starvation; the
desktop's stop-all and mutation queue; the handover from `Saga` to `Execution` as
a refinement of `Runs` and `Leases`; the harness' relay client (reconnect and
replay); the workflow engine.
