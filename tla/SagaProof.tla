------------------------------ MODULE SagaProof ------------------------------
(***************************************************************************)
(* Proofs about Saga, for any runs, keys, specs and number of calls.  The  *)
(* rows a call writes are those of its own run, whose owner never changes, *)
(* so a step of a call disturbs only what is said of that run: OwnStep is  *)
(* the frame, and each action is left with its own call and its own run.   *)
(* Of a run no two calls were ever under way for, the one call there is    *)
(* knows how far it has come (LoneFits), and a run that is ready or failed *)
(* has no call left to undo what the last one did (Settled).               *)
(***************************************************************************)
EXTENDS Saga, TLAPS

PC == {"returned", "begin", "create", "grant", "leaseRead", "lease", "finish", "revoke",
       "list", "walk", "fail"}
AtWorktree == {"create", "grant", "leaseRead", "lease"}

(* A spec that names a key twice asks for one access to it.                *)
OneAccess(r) ==
    \A i, j \in 1..Len(Worktrees[r]) :
        Worktrees[r][i].key = Worktrees[r][j].key
            => Worktrees[r][i].access = Worktrees[r][j].access

(* A call knows its run, the worktree at hand and rows of its own run.     *)
CallFits(c) ==
    /\ DOMAIN call[c] = {"pc", "run", "i", "owned"}
    /\ call[c].pc \in PC
    /\ call[c].pc = "returned" <=> call[c].run = NoRun
    /\ call[c].pc # "returned" => call[c].run \in RunIds
    /\ call[c].pc \in AtWorktree => call[c].i \in 1..Len(Worktrees[call[c].run])
    /\ call[c].pc \in AtWorktree \ {"create"} => Want(c).key \in Owned(call[c].run)
    /\ call[c].pc = "begin" => call[c].i = 1
    /\ \A row \in call[c].owned : row[1] \in Owned(call[c].run) /\ row[2] \in Lifecycle

(* Worktree i of the run's spec is provisioned.                            *)
Done(r, i) ==
    /\ Worktrees[r][i].key \in Owned(r)
    /\ grants[r][Worktrees[r][i].key] = Worktrees[r][i].access
    /\ binding[Worktrees[r][i].key].left # NoLease

Bare(r) == \A k \in Keys : grants[r][k] = "none"
WalkedAway(r) == \A k \in Owned(r) : binding[k].lifecycle # "ready"
Provisioned(r) == OneAccess(r) => \A i \in 1..Len(Worktrees[r]) : Done(r, i)

(* How far the only call for a run has come.                               *)
Reached(c, r) ==
    /\ call[c].pc = "begin" => status[r] = "draft" \/ movedBy[r] = "other"
    /\ call[c].pc \in AtWorktree => (OneAccess(r) => \A i \in 1..(call[c].i - 1) : Done(r, i))
    /\ call[c].pc = "finish" => Provisioned(r)
    /\ call[c].pc \in {"leaseRead", "lease"} => grants[r][Want(c).key] = Want(c).access
    /\ call[c].pc \in {"list", "walk", "fail"} => Bare(r)
    /\ call[c].pc = "walk" =>
           \A k \in Owned(r) : \/ binding[k].lifecycle # "ready"
                               \/ \E row \in call[c].owned : row[1] = k
    /\ call[c].pc = "fail" => WalkedAway(r)

LoneFits(c) ==
    call[c].pc # "returned" /\ call[c].run \notin overlapped =>
        /\ \A d \in Calls : call[d].run = call[c].run => d = c
        /\ Reached(c, call[c].run)

(* A run that provision has settled, its calls made one at a time.         *)
Settled(r) ==
    r \notin overlapped /\ movedBy[r] = "provision" =>
        /\ status[r] \in {"ready", "failed"} => Idle(r)
        /\ status[r] = "ready" => Provisioned(r)
        /\ status[r] = "failed" => Bare(r) /\ WalkedAway(r)

(* Until a run is running or a compensation walks it back, the rows it     *)
(* owns are editable.                                                      *)
Intact(r) ==
    status[r] \in BeforeRunning /\ r \notin undone =>
        \A k \in Owned(r) : binding[k].lifecycle = "ready"

(* The inductive invariant.                                                *)
SagaIInv ==
    /\ SagaInv
    /\ DOMAIN call = Calls
    /\ \A c \in Calls : CallFits(c) /\ LoneFits(c)
    /\ \A r \in RunIds : Settled(r) /\ Intact(r)

\* The tables start empty and no call is under way.
LEMMA SagaIInvInit == SagaInit => SagaIInv
<1> SUFFICES ASSUME SagaInit PROVE SagaIInv
  OBVIOUS
<1> USE SagaAssumption DEF SagaInit
<1>1. SagaTypeOK
  BY DEF SagaTypeOK, RunStatus, NewRow, Lifecycle, NoLease, Returned
<1>2. GrantsAreOwn
  BY DEF GrantsAreOwn
<1>4. \A c \in Calls : CallFits(c) /\ LoneFits(c)
  BY DEF CallFits, LoneFits, Returned, PC, AtWorktree
<1>5. \A r \in RunIds : Settled(r) /\ Intact(r)
  BY DEF Settled, Intact, Owned
<1> QED
  BY <1>1, <1>2, <1>4, <1>5 DEF SagaIInv, SagaInv

\* What Goto leaves of the call table: only one program counter moves.
LEMMA GotoCall ==
    ASSUME NEW c \in Calls, NEW p, DOMAIN call = Calls,
           DOMAIN call[c] = {"pc", "run", "i", "owned"}, Goto(c, p)
    PROVE  /\ DOMAIN call' = Calls
           /\ DOMAIN call'[c] = {"pc", "run", "i", "owned"}
           /\ call'[c].pc = p /\ call'[c].run = call[c].run
           /\ call'[c].i = call[c].i /\ call'[c].owned = call[c].owned
           /\ \A d \in Calls : d # c => call'[d] = call[d]
BY DEF Goto

\* A call that returns is as if it had never been made.
LEMMA ReturnCall ==
    ASSUME NEW c \in Calls, DOMAIN call = Calls, Return(c)
    PROVE  /\ DOMAIN call' = Calls
           /\ DOMAIN call'[c] = {"pc", "run", "i", "owned"}
           /\ call'[c].pc = "returned" /\ call'[c].run = NoRun
           /\ call'[c].i = 1 /\ call'[c].owned = {}
           /\ \A d \in Calls : d # c => call'[d] = call[d]
BY DEF Return, Returned

\* What NextWorktree does to the call that takes it.
LEMMA NextCall ==
    ASSUME NEW c \in Calls, DOMAIN call = Calls,
           DOMAIN call[c] = {"pc", "run", "i", "owned"}, NextWorktree(c)
    PROVE  /\ DOMAIN call' = Calls
           /\ DOMAIN call'[c] = {"pc", "run", "i", "owned"}
           /\ call'[c].pc = (IF call[c].i = Len(Worktrees[call[c].run])
                             THEN "finish" ELSE "create")
           /\ call'[c].run = call[c].run
           /\ call'[c].i = call[c].i + 1 /\ call'[c].owned = call[c].owned
           /\ \A d \in Calls : d # c => call'[d] = call[d]
BY DEF NextWorktree

(* What a call leaves alone when it works for run r: other runs, and the   *)
(* rows that other runs own.                                               *)
OnlyFor(r) ==
    /\ overlapped' = overlapped
    /\ created \subseteq created'
    /\ \A s \in RunIds \ {r} : /\ status'[s] = status[s] /\ movedBy'[s] = movedBy[s]
                               /\ grants'[s] = grants[s]
                               /\ s \in undone => s \in undone'
    /\ \A k \in created : /\ binding'[k].owner = binding[k].owner
                          /\ binding[k].owner # r => binding'[k] = binding[k]
    /\ \A k \in created' \ created : binding'[k].owner = r

\* A step for run r takes no binding from any run and gives one to r at most.
LEMMA OwnedGrows ==
    ASSUME NEW r \in RunIds, OnlyFor(r), NEW s
    PROVE  /\ Owned(s) \subseteq Owned(s)'
           /\ s # r => Owned(s)' = Owned(s)
           /\ s # r => \A k \in Owned(s) : binding'[k] = binding[k]
BY DEF OnlyFor, Owned

\* The frame: a step of call c, for run r, keeps what is said of the other
\* calls and of the other runs. A second call for r is not lone, so only its
\* own shape is at stake.
LEMMA OwnStep ==
    ASSUME SagaIInv, NEW c \in Calls, NEW r \in RunIds, call[c].run = r, OnlyFor(r),
           \A d \in Calls : d # c => call'[d] = call[d],
           call'[c].run \in {r, NoRun}
    PROVE  /\ \A d \in Calls : d # c => CallFits(d)' /\ LoneFits(d)'
           /\ \A s \in RunIds : s # r => Settled(s)' /\ Intact(s)'
<1> USE SagaAssumption
<1>a. ASSUME NEW d \in Calls, d # c
      PROVE  CallFits(d)' /\ LoneFits(d)'
  <2>0. PICK s : s = call[d].run
    OBVIOUS
  <2>1. CallFits(d) /\ LoneFits(d) /\ call'[d] = call[d]
    BY <1>a DEF SagaIInv
  <2>2. Want(d)' = Want(d)
    BY <2>1 DEF Want
  <2>3. CallFits(d)'
    BY <2>1, <2>2, OwnedGrows DEF CallFits
  <2>4. ASSUME call[d].pc # "returned", s \notin overlapped
        PROVE  /\ \A e \in Calls : call'[e].run = s => e = d
               /\ Reached(d, s)'
    <3>1. s \in RunIds /\ s # NoRun /\ (\A e \in Calls : call[e].run = s => e = d) /\ Reached(d, s)
      BY <2>0, <2>1, <2>4 DEF CallFits, LoneFits
    <3>2. s # r
      BY <1>a, <3>1
    <3>3. \A e \in Calls : call'[e].run = s => e = d
      BY <1>a, <3>1, <3>2
    <3>4. Owned(s)' = Owned(s) /\ \A k \in Owned(s) : binding'[k] = binding[k]
      BY <3>2, OwnedGrows
    <3>5. status'[s] = status[s] /\ movedBy'[s] = movedBy[s] /\ grants'[s] = grants[s]
      BY <3>1, <3>2 DEF OnlyFor
    <3>6. \A i : Done(s, i) => Done(s, i)'
      BY <3>4, <3>5 DEF Done
    <3>7. Provisioned(s) => Provisioned(s)'
      BY <3>6 DEF Provisioned
    <3>8. Bare(s)' = Bare(s) /\ (WalkedAway(s) => WalkedAway(s)')
      BY <3>4, <3>5 DEF Bare, WalkedAway
    <3>9. Reached(d, s)'
      BY <3>1, <3>4, <3>5, <3>6, <3>7, <3>8, <2>1, <2>2 DEF Reached
    <3> QED
      BY <3>3, <3>9
  <2>5. LoneFits(d)'
    BY <2>0, <2>1, <2>4 DEF LoneFits, OnlyFor
  <2> QED
    BY <2>3, <2>5
<1>b. ASSUME NEW s \in RunIds, s # r
      PROVE  Settled(s)' /\ Intact(s)'
  <2>1. Settled(s) /\ Intact(s)
    BY DEF SagaIInv
  <2>2. Owned(s)' = Owned(s) /\ \A k \in Owned(s) : binding'[k] = binding[k]
    BY <1>b, OwnedGrows
  <2>3. /\ status'[s] = status[s] /\ movedBy'[s] = movedBy[s] /\ grants'[s] = grants[s]
        /\ s \in undone => s \in undone'
    BY <1>b DEF OnlyFor
  <2>4. Idle(s) => Idle(s)'
    BY <1>b DEF Idle
  <2>5. \A i : Done(s, i) => Done(s, i)'
    BY <2>2, <2>3 DEF Done
  <2>6. Provisioned(s) => Provisioned(s)'
    BY <2>5 DEF Provisioned
  <2>7. Bare(s) /\ WalkedAway(s) => Bare(s)' /\ WalkedAway(s)'
    BY <2>2, <2>3 DEF Bare, WalkedAway
  <2>8. Settled(s)'
    BY <2>1, <2>2, <2>3, <2>4, <2>6, <2>7 DEF Settled, OnlyFor
  <2>9. Intact(s)'
    BY <2>1, <2>2, <2>3 DEF Intact
  <2> QED
    BY <2>8, <2>9
<1> QED
  BY <1>a, <1>b

(* The tables of SagaTypeOK.                                               *)
BindingRows == [owner : RunIds \cup {NoRun}, lifecycle : Lifecycle, epoch : Nat, left : Int]

TablesOK ==
    /\ status \in [RunIds -> RunStatus]
    /\ movedBy \in [RunIds -> {"none", "provision", "other"}]
    /\ created \in SUBSET Keys
    /\ binding \in [Keys -> [owner : RunIds \cup {NoRun}, lifecycle : Lifecycle,
                             epoch : Nat, left : Int]]
    /\ grants \in [RunIds -> [Keys -> Access \cup {"none"}]]
    /\ overlapped \subseteq RunIds /\ undone \subseteq RunIds
    /\ faults \in Nat /\ others \in Nat

\* The part of the type invariant that is about tables.
LEMMA TablesTyped == SagaIInv => TablesOK
BY DEF SagaIInv, SagaInv, SagaTypeOK, TablesOK

(* The rest of a call's step: its own call, its own run, the tables.       *)
LEMMA StepKeeps ==
    ASSUME SagaIInv, NEW c \in Calls, NEW r \in RunIds, call[c].run = r, OnlyFor(r),
           \A d \in Calls : d # c => call'[d] = call[d],
           call'[c].run \in {r, NoRun},
           DOMAIN call' = Calls,
           TablesOK', GrantsAreOwn',
           CallFits(c)', Settled(r)', Intact(r)',
           call'[c].pc # "returned" /\ r \notin overlapped => Reached(c, r)'
    PROVE  SagaIInv'
<1> USE SagaAssumption
<1>1. /\ \A d \in Calls : d # c => CallFits(d)' /\ LoneFits(d)'
      /\ \A s \in RunIds : s # r => Settled(s)' /\ Intact(s)'
  BY OwnStep
<1>2. LoneFits(c)'
  <2>1. ASSUME call'[c].pc # "returned", r \notin overlapped
        PROVE  \A d \in Calls : call'[d].run = r => d = c
    <3>1. CallFits(c) /\ LoneFits(c) /\ r # NoRun
      BY DEF SagaIInv
    <3> QED
      BY <2>1, <3>1 DEF CallFits, LoneFits
  <2>2. call'[c].pc # "returned" => call'[c].run = r
    BY DEF CallFits
  <2> QED
    BY <2>1, <2>2 DEF LoneFits, OnlyFor
<1>3. \A d \in Calls : CallFits(d)' /\ LoneFits(d)'
  BY <1>1, <1>2
<1>4. SagaTypeOK'
  BY <1>3 DEF TablesOK, SagaTypeOK, CallFits
<1> QED
  BY <1>1, <1>3, <1>4 DEF SagaIInv, SagaInv

(* What the invariant says of the call that takes a step.                  *)
LEMMA CallAtHand ==
    ASSUME SagaIInv, NEW c \in Calls, call[c].pc # "returned"
    PROVE  /\ call[c].run \in RunIds /\ call[c].run # NoRun
           /\ CallFits(c)
           /\ call[c].run \notin overlapped => Reached(c, call[c].run)
           /\ Settled(call[c].run) /\ Intact(call[c].run)
           /\ TablesOK /\ GrantsAreOwn
           /\ DOMAIN call = Calls /\ DOMAIN call[c] = {"pc", "run", "i", "owned"}
BY SagaAssumption, TablesTyped DEF SagaIInv, SagaInv, CallFits, LoneFits

(* Provision has not settled the run.                                      *)
Unsettled(r) == movedBy[r] = "provision" => status[r] \notin {"ready", "failed"}

(* Of such a run nothing is claimed yet.                                   *)
LEMMA NotSettled ==
    ASSUME NEW r \in RunIds, r \notin overlapped => Unsettled(r)', overlapped' = overlapped
    PROVE  Settled(r)'
BY DEF Settled, Unsettled

\* While its only call is under way, provision has not settled the run.
LEMMA UnderWay ==
    ASSUME SagaIInv, NEW c \in Calls, call[c].pc # "returned", call[c].run \notin overlapped
    PROVE  Unsettled(call[c].run)
BY CallAtHand DEF Settled, Idle, Unsettled

(* A step that leaves the lifecycles alone, or makes a new row.            *)
LEMMA IntactStays ==
    ASSUME NEW r, Intact(r), undone \subseteq undone',
           status'[r] \in BeforeRunning => status[r] \in BeforeRunning,
           \A k \in Owned(r)' : \/ k \in Owned(r) /\ binding'[k].lifecycle = binding[k].lifecycle
                                \/ binding'[k].lifecycle = "ready"
    PROVE  Intact(r)'
BY DEF Intact

(* No legal edge leads back to a status before running.                    *)
LEMMA NoWayBack ==
    ASSUME NEW from \in RunStatus, NEW to \in BeforeRunning, CanTransitionTo(from, to)
    PROVE  from \in BeforeRunning
BY DEF CanTransitionTo, LegalEdges, BeforeRunning, RunStatus

(* A call returns, after at most a change of its run's status.             *)
LEMMA ReturnStep ==
    ASSUME SagaIInv, NEW c \in Calls, call[c].pc # "returned", Return(c),
           NEW r \in RunIds, r = call[c].run,
           UNCHANGED <<created, binding, grants, overlapped, undone, others>>, faults' \in Nat,
           NEW to \in RunStatus, status' = [status EXCEPT ![r] = to],
           NEW by \in {"none", "provision", "other"}, movedBy' = [movedBy EXCEPT ![r] = by],
           Settled(r)', Intact(r)'
    PROVE  SagaIInv'
<1>1. /\ call[c].run = r /\ CallFits(c) /\ TablesOK /\ GrantsAreOwn
      /\ DOMAIN call = Calls
  BY CallAtHand
<1>2. /\ DOMAIN call' = Calls
      /\ DOMAIN call'[c] = {"pc", "run", "i", "owned"}
      /\ call'[c].pc = "returned" /\ call'[c].run = NoRun
      /\ call'[c].i = 1 /\ call'[c].owned = {}
      /\ \A d \in Calls : d # c => call'[d] = call[d]
  BY <1>1, ReturnCall
<1>3. CallFits(c)'
  BY <1>2 DEF CallFits, PC, AtWorktree
<1>4. TablesOK'
  BY <1>1 DEF TablesOK
<1>5. GrantsAreOwn'
  BY <1>1 DEF GrantsAreOwn, Owned
<1>6. OnlyFor(r)
  BY <1>1 DEF OnlyFor, TablesOK
<1> QED
  BY <1>1, <1>2, <1>3, <1>4, <1>5, <1>6, StepKeeps

(* The same, when no status changes.                                       *)
LEMMA ReturnOnly ==
    ASSUME SagaIInv, NEW c \in Calls, call[c].pc # "returned", Return(c), faults' \in Nat,
           UNCHANGED <<status, movedBy, created, binding, grants, overlapped, undone, others>>
    PROVE  SagaIInv'
<1>1. PICK r \in RunIds : r = call[c].run
  BY CallAtHand
<1>2. PICK to \in RunStatus : to = status[r]
  BY CallAtHand DEF TablesOK
<1>3. PICK by \in {"none", "provision", "other"} : by = movedBy[r]
  BY CallAtHand DEF TablesOK
<1>4. status' = [status EXCEPT ![r] = to] /\ movedBy' = [movedBy EXCEPT ![r] = by]
  BY <1>2, <1>3, CallAtHand DEF TablesOK
<1>5. Settled(r)'
  <2>1. r \notin overlapped => Unsettled(r)'
    BY <1>1, UnderWay DEF Unsettled
  <2> QED
    BY <2>1, NotSettled
<1>6. Intact(r)'
  BY <1>1, CallAtHand DEF Intact, Owned
<1> QED
  BY <1>1, <1>4, <1>5, <1>6, ReturnStep

\* provision moves the run to provisioning and starts on the first worktree,
\* or on none.
LEMMA BeginKeeps ==
    ASSUME SagaIInv, NEW c \in Calls, Begin(c)
    PROVE  SagaIInv'
<1>0. call[c].pc = "begin" /\ UNCHANGED <<created, binding, grants, overlapped, undone, faults, others>>
  BY DEF Begin
<1>1. PICK r \in RunIds : r = call[c].run
  BY <1>0, CallAtHand
<1>2. CASE Refused(call[c].run, "provisioning") /\ Return(c)
  BY <1>0, <1>2, CallAtHand, ReturnOnly DEF Refused, TablesOK
<1>3. CASE Moved(call[c].run, "provisioning", "provision") /\ Goto(c, FirstWorktree(call[c].run))
  <2>1. /\ call[c].run = r /\ CallFits(c) /\ TablesOK /\ GrantsAreOwn /\ Intact(r)
        /\ DOMAIN call = Calls /\ DOMAIN call[c] = {"pc", "run", "i", "owned"}
    BY <1>0, <1>1, CallAtHand
  <2>2. /\ status' = [status EXCEPT ![r] = "provisioning"]
        /\ movedBy' = [movedBy EXCEPT ![r] = "provision"]
        /\ CanTransitionTo(status[r], "provisioning")
    BY <1>1, <1>3 DEF Moved
  <2>3. /\ DOMAIN call' = Calls
        /\ DOMAIN call'[c] = {"pc", "run", "i", "owned"}
        /\ call'[c].pc = FirstWorktree(r) /\ call'[c].run = r
        /\ call'[c].i = call[c].i /\ call'[c].owned = call[c].owned
        /\ \A d \in Calls : d # c => call'[d] = call[d]
    BY <2>1, <1>3, GotoCall
  <2>4. OnlyFor(r)
    BY <1>0, <2>1, <2>2 DEF OnlyFor, TablesOK
  <2>5. call'[c].i = 1
    BY <1>0, <2>1, <2>3 DEF CallFits
  <2>6. Worktrees[r] # <<>> => 1 \in 1..Len(Worktrees[r])
    BY SagaAssumption
  <2>7. CallFits(c)'
    <3>1. \A row \in call'[c].owned : row[1] \in Owned(r)' /\ row[2] \in Lifecycle
      BY <2>1, <2>3, <2>4, OwnedGrows DEF CallFits
    <3> QED
      BY <2>3, <2>5, <2>6, <3>1, SagaAssumption DEF CallFits, PC, AtWorktree, FirstWorktree
  <2>8. TablesOK'
    BY <1>0, <2>1, <2>2 DEF TablesOK, RunStatus
  <2>9. GrantsAreOwn' 
    BY <1>0, <2>1 DEF GrantsAreOwn, Owned
  <2>10. status'[r] = "provisioning"
    BY <2>1, <2>2 DEF TablesOK
  <2>11. Settled(r)'
    BY <1>0, <2>10, NotSettled DEF Unsettled
  <2>13. Intact(r)'
    <3>1. status[r] \in BeforeRunning
      BY <2>1, <2>2, NoWayBack DEF TablesOK, BeforeRunning
    <3> QED
      BY <1>0, <2>1, <3>1 DEF Intact, Owned
  <2>12. Reached(c, r)'
    <3>1. Worktrees[r] = <<>> => Provisioned(r)'
      BY DEF Provisioned
    <3> QED
      BY <2>3, <2>5, <2>10, <3>1 DEF Reached, FirstWorktree, AtWorktree
  <2> QED
    BY <2>1, <2>3, <2>4, <2>7, <2>8, <2>9, <2>11, <2>12, <2>13, StepKeeps
<1> QED
  BY <1>2, <1>3 DEF Begin

(* The worktrees of a spec are what the assumption says.                   *)
LEMMA SpecTyped ==
    ASSUME NEW r \in RunIds, NEW i \in 1..Len(Worktrees[r])
    PROVE  Worktrees[r][i].key \in Keys /\ Worktrees[r][i].access \in Access
<1> DEFINE S == [key : Keys, access : Access]
<1>1. Worktrees[r] \in Seq(S)
  BY SagaAssumption
<1> HIDE DEF S
<1>2. Worktrees[r][i] \in S
  BY <1>1
<1> QED
  BY <1>2 DEF S

(* The key of the worktree at hand, which is one of its run's spec.        *)
LEMMA WantTyped ==
    ASSUME NEW c \in Calls, call[c].run \in RunIds,
           call[c].i \in 1..Len(Worktrees[call[c].run])
    PROVE  Want(c).key \in Keys /\ Want(c).access \in Access
BY SpecTyped DEF Want

\* create_binding and binding_owner: the row found or made is granted only if
\* it is the run's own.
LEMMA CreateBindingKeeps ==
    ASSUME SagaIInv, NEW c \in Calls, CreateBinding(c)
    PROVE  SagaIInv'
<1>0. call[c].pc = "create" /\ UNCHANGED <<status, movedBy, grants, overlapped, undone, faults, others>>
  BY DEF CreateBinding
<1>1. PICK r \in RunIds : r = call[c].run
  BY <1>0, CallAtHand
<1>2. /\ call[c].run = r /\ CallFits(c) /\ TablesOK /\ GrantsAreOwn /\ Intact(r)
      /\ DOMAIN call = Calls /\ DOMAIN call[c] = {"pc", "run", "i", "owned"}
      /\ r \notin overlapped => Reached(c, r)
  BY <1>0, <1>1, CallAtHand
<1>3. call[c].i \in 1..Len(Worktrees[r])
  BY <1>0, <1>2 DEF CallFits, AtWorktree
<1>4. PICK k \in Keys : k = Want(c).key
  BY <1>1, <1>3, WantTyped
<1>5. /\ created' = created \cup {k}
      /\ binding' = IF k \in created THEN binding ELSE [binding EXCEPT ![k] = NewRow(r)]
      /\ Goto(c, IF binding'[k].owner = r THEN "grant" ELSE "revoke")
  BY <1>1, <1>4 DEF CreateBinding
<1>6. /\ DOMAIN call' = Calls
      /\ DOMAIN call'[c] = {"pc", "run", "i", "owned"}
      /\ call'[c].pc = (IF binding'[k].owner = r THEN "grant" ELSE "revoke") /\ call'[c].run = r
      /\ call'[c].i = call[c].i /\ call'[c].owned = call[c].owned
      /\ \A d \in Calls : d # c => call'[d] = call[d]
  BY <1>2, <1>5, GotoCall
<1>7. /\ \A l \in Keys : (l # k \/ l \in created) => binding'[l] = binding[l]
      /\ k \notin created => binding'[k] = NewRow(r)
  BY <1>2, <1>5 DEF TablesOK
<1>8. OnlyFor(r)
  BY <1>0, <1>2, <1>5, <1>7 DEF OnlyFor, TablesOK, NewRow
<1>9. Want(c)' = Want(c)
  BY <1>2, <1>6 DEF Want
<1>10. CallFits(c)'
  <2>1. \A row \in call'[c].owned : row[1] \in Owned(r)' /\ row[2] \in Lifecycle
    BY <1>2, <1>6, <1>8, OwnedGrows DEF CallFits
  <2>2. binding'[k].owner = r => k \in Owned(r)'
    BY <1>5 DEF Owned
  <2> QED
    BY <1>3, <1>4, <1>6, <1>9, <2>1, <2>2, SagaAssumption DEF CallFits, PC, AtWorktree
<1>11. TablesOK'
  <2>1. NewRow(r) \in [owner : RunIds \cup {NoRun}, lifecycle : Lifecycle, epoch : Nat, left : Int]
    BY DEF NewRow, Lifecycle, NoLease
  <2> QED
    BY <1>0, <1>2, <1>5, <2>1 DEF TablesOK
<1>12. GrantsAreOwn'
  <2>1. \A s \in RunIds : Owned(s) \subseteq Owned(s)'
    BY <1>8, OwnedGrows
  <2> QED
    BY <1>0, <1>2, <2>1 DEF GrantsAreOwn
<1>13. Intact(r)'
  <2>1. \A l \in Owned(r)' : l \in Owned(r) \/ (l = k /\ k \notin created)
    BY <1>2, <1>5, <1>7 DEF Owned, TablesOK
  <2>2. \A l \in Owned(r) : l \in Keys /\ l \in created
    BY <1>2 DEF Owned, TablesOK
  <2> QED
    BY <1>0, <1>2, <1>7, <2>1, <2>2, IntactStays DEF NewRow
<1>14. Settled(r)'
  <2>1. r \notin overlapped => Unsettled(r)'
    BY <1>0, <1>1, UnderWay DEF Unsettled
  <2> QED
    BY <1>0, <2>1, NotSettled
<1>15. r \notin overlapped => Reached(c, r)'
  <2>1. \A i : Done(r, i) => Done(r, i)'
    BY <1>0, <1>7, <1>8, <1>2, OwnedGrows DEF Done, Owned, TablesOK
  <2> QED
    BY <1>0, <1>2, <1>6, <2>1 DEF Reached, AtWorktree
<1> QED
  BY <1>2, <1>6, <1>8, <1>10, <1>11, <1>12, <1>13, <1>14, <1>15, StepKeeps

\* grant changes the access to one key; worktrees already done keep theirs if
\* the spec asks one access per key.
LEMMA GrantKeeps ==
    ASSUME SagaIInv, NEW c \in Calls, Grant(c)
    PROVE  SagaIInv'
<1>0. call[c].pc = "grant" /\ UNCHANGED <<status, movedBy, created, binding, overlapped, undone, faults, others>>
  BY DEF Grant
<1>1. PICK r \in RunIds : r = call[c].run
  BY <1>0, CallAtHand
<1>2. /\ call[c].run = r /\ CallFits(c) /\ TablesOK /\ GrantsAreOwn /\ Intact(r)
      /\ DOMAIN call = Calls /\ DOMAIN call[c] = {"pc", "run", "i", "owned"}
      /\ r \notin overlapped => Reached(c, r)
  BY <1>0, <1>1, CallAtHand
<1>3. call[c].i \in 1..Len(Worktrees[r])
  BY <1>0, <1>2 DEF CallFits, AtWorktree
<1>4. PICK k \in Keys : k = Want(c).key
  BY <1>1, <1>3, WantTyped
<1>5. PICK p \in {"revoke", "leaseRead"} :
        /\ Goto(c, p)
        /\ p = "revoke" => grants' = grants
        /\ p = "leaseRead" => grants' = [grants EXCEPT ![r][k] = Want(c).access]
  BY <1>1, <1>4 DEF Grant
<1>6. /\ DOMAIN call' = Calls
      /\ DOMAIN call'[c] = {"pc", "run", "i", "owned"}
      /\ call'[c].pc = p /\ call'[c].run = r
      /\ call'[c].i = call[c].i /\ call'[c].owned = call[c].owned
      /\ \A d \in Calls : d # c => call'[d] = call[d]
  BY <1>2, <1>5, GotoCall
<1>7. \A s : Owned(s)' = Owned(s)
  BY <1>0 DEF Owned
<1>8. Want(c).access \in Access
  BY <1>1, <1>3, WantTyped
<1>9. /\ \A s \in RunIds, l \in Keys : (s # r \/ l # k) => grants'[s][l] = grants[s][l]
      /\ \A s \in RunIds : s # r => grants'[s] = grants[s]
      /\ p = "leaseRead" => grants'[r][k] = Want(c).access
  BY <1>2, <1>5 DEF TablesOK
<1>10. OnlyFor(r)
  BY <1>0, <1>9 DEF OnlyFor
<1>11. Want(c)' = Want(c)
  BY <1>2, <1>6 DEF Want
<1>12. k \in Owned(r)
  BY <1>0, <1>2, <1>4 DEF CallFits, AtWorktree
<1>13. CallFits(c)'
  BY <1>2, <1>3, <1>4, <1>5, <1>6, <1>7, <1>11, <1>12, SagaAssumption DEF CallFits, PC, AtWorktree
<1>14. TablesOK'
  <2>1. grants' \in [RunIds -> [Keys -> Access \cup {"none"}]]
    <3> DEFINE G == Access \cup {"none"}
               row == [grants[r] EXCEPT ![k] = Want(c).access]
    <3>1. grants \in [RunIds -> [Keys -> G]] /\ Want(c).access \in G
      BY <1>2, <1>8 DEF TablesOK
    <3> HIDE DEF G
    <3>2. row \in [Keys -> G]
      BY <3>1
    <3>3. p = "leaseRead" => grants' = [grants EXCEPT ![r] = row]
      BY <1>5
    <3> HIDE DEF row
    <3>4. grants' \in [RunIds -> [Keys -> G]]
      BY <1>5, <3>1, <3>2, <3>3
    <3> QED
      BY <3>4 DEF G
  <2> QED
    BY <1>0, <1>2, <2>1 DEF TablesOK
<1>15. GrantsAreOwn' 
  BY <1>0, <1>2, <1>5, <1>7, <1>9, <1>12 DEF GrantsAreOwn
<1>16. Settled(r)'
  <2>1. r \notin overlapped => Unsettled(r)'
    BY <1>0, <1>1, UnderWay DEF Unsettled
  <2> QED
    BY <1>0, <2>1, NotSettled
<1>18. Intact(r)'
  BY <1>0, <1>2, <1>7 DEF Intact
<1>17. r \notin overlapped => Reached(c, r)'
  <2> SUFFICES ASSUME r \notin overlapped PROVE Reached(c, r)'
    OBVIOUS
  <2>1. ASSUME OneAccess(r), NEW i \in 1..(call[c].i - 1)
        PROVE  Done(r, i)'
    <3>1. Done(r, i) /\ i \in 1..Len(Worktrees[r])
      BY <1>0, <1>2, <1>3, <2>1, SagaAssumption DEF Reached, AtWorktree
    <3>2. Worktrees[r][i].key \in Keys
      BY <3>1, SpecTyped
    <3>3. Worktrees[r][i].key = k => Worktrees[r][i].access = Want(c).access
      BY <1>2, <1>3, <1>4, <2>1, <3>1 DEF OneAccess, Want
    <3>4. grants'[r][Worktrees[r][i].key] = Worktrees[r][i].access
      BY <1>5, <1>9, <3>1, <3>2, <3>3 DEF Done
    <3> QED
      BY <1>0, <1>7, <3>1, <3>4 DEF Done
  <2> QED
    BY <1>0, <1>2, <1>4, <1>5, <1>6, <1>9, <1>11, <2>1 DEF Reached, AtWorktree
<1> QED
  BY <1>2, <1>6, <1>10, <1>13, <1>14, <1>15, <1>16, <1>17, <1>18, StepKeeps

(* Moving on to the next worktree, once the one at hand is done.           *)
LEMMA NextWorktreeKeeps ==
    ASSUME SagaIInv, NEW c \in Calls, NEW r \in RunIds, call[c].run = r,
           call[c].pc \in {"leaseRead", "lease"},
           NextWorktree(c), UNCHANGED <<status, movedBy, created, grants, overlapped, undone, faults, others>>,
           TablesOK', OnlyFor(r),
           \A k \in Keys : /\ binding'[k].owner = binding[k].owner
                           /\ binding'[k].lifecycle = binding[k].lifecycle
                           /\ binding[k].left # NoLease => binding'[k].left # NoLease,
           binding'[Want(c).key].left # NoLease
    PROVE  SagaIInv'
<1>2. /\ CallFits(c) /\ TablesOK /\ GrantsAreOwn /\ Intact(r)
      /\ DOMAIN call = Calls /\ DOMAIN call[c] = {"pc", "run", "i", "owned"}
      /\ r \notin overlapped => Reached(c, r)
  BY CallAtHand
<1>3. call[c].i \in 1..Len(Worktrees[r]) /\ Len(Worktrees[r]) \in Nat
  BY <1>2, SagaAssumption DEF CallFits, AtWorktree
<1>6. /\ DOMAIN call' = Calls
      /\ DOMAIN call'[c] = {"pc", "run", "i", "owned"}
      /\ call'[c].pc = (IF call[c].i = Len(Worktrees[r]) THEN "finish" ELSE "create")
      /\ call'[c].run = r
      /\ call'[c].i = call[c].i + 1 /\ call'[c].owned = call[c].owned
      /\ \A d \in Calls : d # c => call'[d] = call[d]
  BY <1>2, NextCall
<1>7. \A s : Owned(s)' = Owned(s)
  BY <1>2 DEF Owned, TablesOK
<1>13. CallFits(c)'
  <2>1. call'[c].pc = "create" => call'[c].i \in 1..Len(Worktrees[r])
    BY <1>3, <1>6
  <2> QED
    BY <1>2, <1>6, <1>7, <2>1, SagaAssumption DEF CallFits, PC, AtWorktree
<1>15. GrantsAreOwn'
  BY <1>2, <1>7 DEF GrantsAreOwn
<1>16. Settled(r)'
  <2>1. r \notin overlapped => Unsettled(r)'
    BY UnderWay DEF Unsettled
  <2> QED
    BY <2>1, NotSettled
<1>17. r \notin overlapped => Reached(c, r)'
  <2> SUFFICES ASSUME r \notin overlapped PROVE Reached(c, r)'
    OBVIOUS
  <2>1. ASSUME OneAccess(r), NEW i \in 1..call[c].i
        PROVE  Done(r, i)'
    <3>1. CASE i = call[c].i
      <4>1. Want(c).key \in Owned(r) /\ grants[r][Want(c).key] = Want(c).access
        BY <1>2 DEF CallFits, Reached, AtWorktree
      <4> QED
        BY <1>7, <3>1, <4>1 DEF Done, Want
    <3>2. CASE i # call[c].i
      <4>1. Done(r, i) /\ i \in 1..Len(Worktrees[r])
        BY <1>2, <1>3, <2>1, <3>2 DEF Reached, AtWorktree
      <4>2. Worktrees[r][i].key \in Keys
        BY <4>1, SpecTyped
      <4>3. binding'[Worktrees[r][i].key].left # NoLease
        BY <4>1, <4>2 DEF Done
      <4> QED
        BY <1>7, <4>1, <4>3 DEF Done
    <3> QED
      BY <3>1, <3>2
  <2>2. call'[c].pc = "finish" => Provisioned(r)'
    BY <1>6, <2>1 DEF Provisioned
  <2>3. OneAccess(r) => \A i \in 1..(call'[c].i - 1) : Done(r, i)'
    BY <1>3, <1>6, <2>1
  <2> QED
    BY <1>6, <2>2, <2>3 DEF Reached, AtWorktree
<1>18. Intact(r)'
  <2>1. \A k \in Owned(r) : k \in Keys
    BY <1>2 DEF Owned, TablesOK
  <2> QED
    BY <1>2, <1>7, <2>1, IntactStays
<1> QED
  BY <1>2, <1>6, <1>13, <1>15, <1>16, <1>17, <1>18, StepKeeps

\* ensure_lease's SELECT: a live lease means a lease was acquired, and a call
\* alone with its run finds the row as it read it.
LEMMA LeaseReadKeeps ==
    ASSUME SagaIInv, NEW c \in Calls, LeaseRead(c)
    PROVE  SagaIInv'
<1>0. call[c].pc = "leaseRead"
      /\ UNCHANGED <<status, movedBy, created, binding, grants, overlapped, undone, faults, others>>
  BY DEF LeaseRead
<1>1. PICK r \in RunIds : r = call[c].run
  BY <1>0, CallAtHand
<1>2. /\ call[c].run = r /\ CallFits(c) /\ TablesOK /\ GrantsAreOwn /\ Intact(r)
      /\ DOMAIN call = Calls /\ DOMAIN call[c] = {"pc", "run", "i", "owned"}
      /\ r \notin overlapped => Reached(c, r)
  BY <1>0, <1>1, CallAtHand
<1>3. call[c].i \in 1..Len(Worktrees[r])
  BY <1>0, <1>2 DEF CallFits, AtWorktree
<1>4. PICK k \in Keys : k = Want(c).key
  BY <1>1, <1>3, WantTyped
<1>5. TablesOK'  /\ GrantsAreOwn' /\ OnlyFor(r)
  BY <1>0, <1>2 DEF TablesOK, GrantsAreOwn, Owned, OnlyFor
<1>6. CASE Live(binding[k])
  <2>1. NextWorktree(c)
    BY <1>4, <1>6 DEF LeaseRead
  <2>2. binding[k].left # NoLease
    BY <1>2, <1>6 DEF Live, NoLease, TablesOK
  <2> QED
    BY <1>0, <1>2, <1>4, <1>5, <2>1, <2>2, NextWorktreeKeeps
<1>7. CASE ~Live(binding[k])
  <2>0. Goto(c, "lease")
    BY <1>4, <1>7 DEF LeaseRead
  <2>1. /\ DOMAIN call' = Calls
        /\ DOMAIN call'[c] = {"pc", "run", "i", "owned"}
        /\ call'[c].pc = "lease" /\ call'[c].run = r
        /\ call'[c].i = call[c].i /\ call'[c].owned = call[c].owned
        /\ \A d \in Calls : d # c => call'[d] = call[d]
    BY <1>2, <2>0, GotoCall
  <2>2. Want(c)' = Want(c)
    BY <1>2, <2>1 DEF Want
  <2>3. \A s : Owned(s)' = Owned(s)
    BY <1>0 DEF Owned
  <2>4. CallFits(c)'
    BY <1>0, <1>2, <2>1, <2>2, <2>3 DEF CallFits, PC, AtWorktree
  <2>5. Settled(r)'
    <3>1. r \notin overlapped => Unsettled(r)'
      BY <1>0, <1>1, UnderWay DEF Unsettled
    <3> QED
      BY <1>0, <3>1, NotSettled
  <2>7. Intact(r)'
    BY <1>0, <1>2, <2>3 DEF Intact
  <2>6. r \notin overlapped => Reached(c, r)'
    <3>1. \A i : Done(r, i) => Done(r, i)'
      BY <1>0, <2>3 DEF Done
    <3> QED
      BY <1>0, <1>2, <2>1, <2>2, <3>1 DEF Reached, AtWorktree
  <2> QED
    BY <1>2, <1>5, <2>1, <2>4, <2>5, <2>6, <2>7, StepKeeps
<1> QED
  BY <1>6, <1>7

(* acquire_lease on a row: the owner stays and the epoch grows.            *)
LEMMA AcquiredTyped ==
    ASSUME NEW row \in BindingRows, NEW ttl \in Int
    PROVE  /\ Acquired(row, ttl) \in BindingRows
           /\ Acquired(row, ttl).owner = row.owner
           /\ Acquired(row, ttl).lifecycle = row.lifecycle
           /\ Acquired(row, ttl).left = ttl
<1>1. row.epoch + 1 \in Nat /\ row.epoch \in Nat
  BY DEF BindingRows
<1>2. Acquired(row, ttl) \in BindingRows
  BY <1>1 DEF BindingRows, Acquired
<1> QED
  BY <1>1, <1>2 DEF BindingRows, Acquired

\* ensure_lease's acquire_lease.
LEMMA AcquireLeaseKeeps ==
    ASSUME SagaIInv, NEW c \in Calls, AcquireLease(c)
    PROVE  SagaIInv'
<1>0. /\ call[c].pc = "lease" /\ NextWorktree(c)
      /\ UNCHANGED <<status, movedBy, created, grants, overlapped, undone, faults, others>>
  BY DEF AcquireLease
<1>1. PICK r \in RunIds : r = call[c].run
  BY <1>0, CallAtHand
<1>2. /\ call[c].run = r /\ CallFits(c) /\ TablesOK
  BY <1>0, <1>1, CallAtHand
<1>3. call[c].i \in 1..Len(Worktrees[r])
  BY <1>0, <1>2 DEF CallFits, AtWorktree
<1>4. PICK k \in Keys : k = Want(c).key
  BY <1>1, <1>3, WantTyped
<1>5. binding[k].owner = r
  BY <1>0, <1>2, <1>4 DEF CallFits, AtWorktree, Owned
<1>6. /\ binding' \in [Keys -> BindingRows]
      /\ \A l \in Keys : l # k => binding'[l] = binding[l]
      /\ binding'[k].owner = binding[k].owner
      /\ binding'[k].lifecycle = binding[k].lifecycle
      /\ binding'[k].left = Ttl
  <2>1. binding' = [binding EXCEPT ![k] = Acquired(binding[k], Ttl)]
    BY <1>4 DEF AcquireLease
  <2>2. binding \in [Keys -> BindingRows] /\ binding[k] \in BindingRows
    BY <1>2 DEF TablesOK, BindingRows
  <2>3. /\ Acquired(binding[k], Ttl) \in BindingRows
        /\ Acquired(binding[k], Ttl).owner = binding[k].owner
        /\ Acquired(binding[k], Ttl).lifecycle = binding[k].lifecycle
        /\ Acquired(binding[k], Ttl).left = Ttl
    BY <2>2, AcquiredTyped, SagaAssumption
  <2> QED
    BY <2>1, <2>2, <2>3
<1>7. TablesOK'
  BY <1>0, <1>2, <1>6 DEF TablesOK, BindingRows
<1>8. binding'[k].left # NoLease
  BY <1>6, SagaAssumption DEF NoLease
<1>9. \A l \in Keys : /\ binding'[l].owner = binding[l].owner
                      /\ binding'[l].lifecycle = binding[l].lifecycle
                      /\ binding[l].left # NoLease => binding'[l].left # NoLease
  BY <1>6, <1>8
<1>10. OnlyFor(r)
  BY <1>0, <1>2, <1>5, <1>6 DEF OnlyFor, TablesOK
<1> QED
  BY <1>0, <1>2, <1>4, <1>7, <1>8, <1>9, <1>10, NextWorktreeKeeps

(* The call turns to compensation, or a step of it, without touching a     *)
(* row: a statement failed.                                                *)
LEMMA FaultCompensates ==
    ASSUME SagaIInv, NEW c \in Calls, Fault(c), call[c].pc \in AtWorktree
    PROVE  SagaIInv'
<1>0. /\ call[c].pc \in AtWorktree /\ Goto(c, "revoke") /\ faults > 0 /\ faults' = faults - 1
      /\ UNCHANGED <<status, movedBy, created, binding, grants, overlapped, undone, others>>
  BY DEF Fault, AtWorktree
<1>a. call[c].pc # "returned" /\ call[c].pc # "begin"
  BY <1>0 DEF AtWorktree
<1>1. PICK r \in RunIds : r = call[c].run
  BY <1>a, CallAtHand
<1>2. /\ call[c].run = r /\ CallFits(c) /\ TablesOK /\ GrantsAreOwn /\ Intact(r)
      /\ DOMAIN call = Calls /\ DOMAIN call[c] = {"pc", "run", "i", "owned"}
      /\ r \notin overlapped => Reached(c, r)
  BY <1>a, <1>1, CallAtHand
<1>3. /\ DOMAIN call' = Calls
      /\ DOMAIN call'[c] = {"pc", "run", "i", "owned"}
      /\ call'[c].pc = "revoke" /\ call'[c].run = r
      /\ call'[c].i = call[c].i /\ call'[c].owned = call[c].owned
      /\ \A d \in Calls : d # c => call'[d] = call[d]
  BY <1>0, <1>2, GotoCall
<1>4. GrantsAreOwn' /\ OnlyFor(r)
  BY <1>0, <1>2 DEF GrantsAreOwn, Owned, OnlyFor
<1>5. TablesOK'
  BY <1>0, <1>2 DEF TablesOK
<1>6. CallFits(c)'
  BY <1>0, <1>2, <1>3, SagaAssumption DEF CallFits, PC, AtWorktree, Owned
<1>7. Settled(r)'
  <2>1. r \notin overlapped => Unsettled(r)'
    BY <1>0, <1>a, <1>1, UnderWay DEF Unsettled
  <2> QED
    BY <1>0, <2>1, NotSettled
<1>9. Intact(r)'
  BY <1>0, <1>2 DEF Intact, Owned
<1>8. r \notin overlapped => Reached(c, r)'
  BY <1>0, <1>a, <1>2, <1>3 DEF Reached, AtWorktree
<1> QED
  BY <1>2, <1>3, <1>4, <1>5, <1>6, <1>7, <1>8, <1>9, StepKeeps

(* A statement that fails anywhere: compensation, or an error returned.    *)
LEMMA FaultKeeps ==
    ASSUME SagaIInv, NEW c \in Calls, Fault(c)
    PROVE  SagaIInv'
<1>1. CASE call[c].pc \in AtWorktree
  BY <1>1, FaultCompensates
<1>2. CASE call[c].pc \notin AtWorktree
  <2>1. /\ call[c].pc # "returned" /\ Return(c) /\ faults > 0 /\ faults' = faults - 1
        /\ UNCHANGED <<status, movedBy, created, binding, grants, overlapped, undone, others>>
    BY <1>2 DEF Fault, AtWorktree
  <2>2. faults' \in Nat
    BY <2>1, TablesTyped DEF TablesOK
  <2> QED
    BY <2>1, <2>2, ReturnOnly
<1> QED
  BY <1>1, <1>2

\* compensate deletes the run's grants.
LEMMA RevokeKeeps ==
    ASSUME SagaIInv, NEW c \in Calls, Revoke(c)
    PROVE  SagaIInv'
<1>0. /\ call[c].pc = "revoke" /\ Goto(c, "list")
      /\ UNCHANGED <<status, movedBy, created, binding, overlapped, undone, faults, others>>
  BY DEF Revoke
<1>1. PICK r \in RunIds : r = call[c].run
  BY <1>0, CallAtHand
<1>2. /\ call[c].run = r /\ CallFits(c) /\ TablesOK /\ GrantsAreOwn /\ Intact(r)
      /\ DOMAIN call = Calls /\ DOMAIN call[c] = {"pc", "run", "i", "owned"}
      /\ r \notin overlapped => Reached(c, r)
  BY <1>0, <1>1, CallAtHand
<1>3. /\ DOMAIN call' = Calls
      /\ DOMAIN call'[c] = {"pc", "run", "i", "owned"}
      /\ call'[c].pc = "list" /\ call'[c].run = r
      /\ call'[c].i = call[c].i /\ call'[c].owned = call[c].owned
      /\ \A d \in Calls : d # c => call'[d] = call[d]
  BY <1>0, <1>2, GotoCall
<1>4. grants' = [grants EXCEPT ![r] = [k \in Keys |-> "none"]]
  BY <1>1 DEF Revoke
<1>5. TablesOK'
  <2>1. [k \in Keys |-> "none"] \in [Keys -> Access \cup {"none"}]
    OBVIOUS
  <2>2. grants' \in [RunIds -> [Keys -> Access \cup {"none"}]]
    BY <1>2, <1>4, <2>1 DEF TablesOK
  <2> QED
    BY <1>0, <1>2, <2>2 DEF TablesOK
<1>6. Bare(r)' /\ \A s \in RunIds : s # r => grants'[s] = grants[s]
  BY <1>2, <1>4 DEF TablesOK, Bare
<1>7. GrantsAreOwn' /\ OnlyFor(r)
  BY <1>0, <1>2, <1>6 DEF GrantsAreOwn, Owned, OnlyFor, Bare
<1>8. CallFits(c)'
  BY <1>0, <1>2, <1>3, SagaAssumption DEF CallFits, PC, AtWorktree, Owned
<1>9. Settled(r)'
  <2>1. r \notin overlapped => Unsettled(r)'
    BY <1>0, <1>1, UnderWay DEF Unsettled
  <2> QED
    BY <1>0, <2>1, NotSettled
<1>11. Intact(r)'
  BY <1>0, <1>2 DEF Intact, Owned
<1>10. r \notin overlapped => Reached(c, r)'
  BY <1>0, <1>2, <1>3, <1>6 DEF Reached, AtWorktree
<1> QED
  BY <1>2, <1>3, <1>5, <1>7, <1>8, <1>9, <1>10, <1>11, StepKeeps

\* compensate reads every binding the run owns.
LEMMA ListOwnedKeeps ==
    ASSUME SagaIInv, NEW c \in Calls, ListOwned(c)
    PROVE  SagaIInv'
<1>0. /\ call[c].pc = "list"
      /\ UNCHANGED <<status, movedBy, created, binding, grants, overlapped, undone, faults, others>>
  BY DEF ListOwned
<1>1. PICK r \in RunIds : r = call[c].run
  BY <1>0, CallAtHand
<1>2. /\ call[c].run = r /\ CallFits(c) /\ TablesOK /\ GrantsAreOwn /\ Intact(r)
      /\ DOMAIN call = Calls /\ DOMAIN call[c] = {"pc", "run", "i", "owned"}
      /\ r \notin overlapped => Reached(c, r)
  BY <1>0, <1>1, CallAtHand
<1>3. /\ DOMAIN call' = Calls
      /\ DOMAIN call'[c] = {"pc", "run", "i", "owned"}
      /\ call'[c].pc = "walk" /\ call'[c].run = r
      /\ call'[c].i = call[c].i
      /\ call'[c].owned = {<<k, binding[k].lifecycle>> : k \in Owned(r)}
      /\ \A d \in Calls : d # c => call'[d] = call[d]
  BY <1>1, <1>2 DEF ListOwned, Owned
<1>4. TablesOK'  /\ GrantsAreOwn' /\ OnlyFor(r) /\ Owned(r)' = Owned(r)
  BY <1>0, <1>2 DEF TablesOK, GrantsAreOwn, Owned, OnlyFor
<1>5. \A k \in Owned(r) : binding[k].lifecycle \in Lifecycle
  BY <1>2 DEF TablesOK, Owned
<1>6. \A row \in call'[c].owned : row[1] \in Owned(r) /\ row[2] \in Lifecycle
  BY <1>3, <1>5
<1>7. \A k \in Owned(r) : \E row \in call'[c].owned : row[1] = k
  <2> TAKE k \in Owned(r)
  <2>1. <<k, binding[k].lifecycle>> \in call'[c].owned
    BY <1>3
  <2>2. <<k, binding[k].lifecycle>>[1] = k
    OBVIOUS
  <2> QED
    BY <2>1, <2>2
<1>8. CallFits(c)'
  BY <1>3, <1>4, <1>6, SagaAssumption DEF CallFits, PC, AtWorktree
<1>9. Settled(r)'
  <2>1. r \notin overlapped => Unsettled(r)'
    BY <1>0, <1>1, UnderWay DEF Unsettled
  <2> QED
    BY <1>0, <2>1, NotSettled
<1>11. Intact(r)'
  BY <1>0, <1>2 DEF Intact, Owned
<1>10. r \notin overlapped => Reached(c, r)'
  BY <1>0, <1>2, <1>3, <1>4, <1>7 DEF Reached, AtWorktree, Bare
<1> QED
  BY <1>2, <1>3, <1>4, <1>8, <1>9, <1>10, <1>11, StepKeeps

\* compensate writes one binding back: it is not ready afterwards, and the
\* others are as they were.
LEMMA WalkBackKeeps ==
    ASSUME SagaIInv, NEW c \in Calls, WalkBack(c)
    PROVE  SagaIInv'
<1>0. /\ call[c].pc = "walk"
      /\ undone' = undone \cup {call[c].run}
      /\ UNCHANGED <<status, movedBy, created, grants, overlapped, faults, others>>
  BY DEF WalkBack
<1>1. PICK r \in RunIds : r = call[c].run
  BY <1>0, CallAtHand
<1>2. /\ call[c].run = r /\ CallFits(c) /\ TablesOK /\ GrantsAreOwn /\ Intact(r)
      /\ DOMAIN call = Calls /\ DOMAIN call[c] = {"pc", "run", "i", "owned"}
      /\ r \notin overlapped => Reached(c, r)
  BY <1>0, <1>1, CallAtHand
<1>3. PICK row \in call[c].owned :
        /\ binding' = [binding EXCEPT ![row[1]].lifecycle = WalkedBack(row[2])]
        /\ call' = [call EXCEPT ![c].owned = @ \ {row}]
  BY DEF WalkBack
<1>4. PICK k \in Owned(r) : k = row[1]
  BY <1>2, <1>3 DEF CallFits
<1>5. k \in created /\ k \in Keys /\ binding[k].owner = r
  BY <1>2 DEF Owned, TablesOK
<1>6. PICK lc \in Lifecycle : lc = WalkedBack(row[2]) /\ lc # "ready"
  <2>1. row[2] \in Lifecycle
    BY <1>2, <1>3 DEF CallFits
  <2> QED
    BY <2>1 DEF WalkedBack, Lifecycle
<1>7. /\ DOMAIN call' = Calls
      /\ DOMAIN call'[c] = {"pc", "run", "i", "owned"}
      /\ call'[c].pc = "walk" /\ call'[c].run = r
      /\ call'[c].i = call[c].i
      /\ call'[c].owned = call[c].owned \ {row}
      /\ \A d \in Calls : d # c => call'[d] = call[d]
  BY <1>0, <1>2, <1>3
<1>8. binding' = [binding EXCEPT ![k].lifecycle = lc]
  BY <1>3, <1>4, <1>6
<1>9. /\ binding' \in [Keys -> [owner : RunIds \cup {NoRun}, lifecycle : Lifecycle,
                                epoch : Nat, left : Int]]
      /\ \A l \in Keys : /\ l # k => binding'[l] = binding[l]
                         /\ binding'[l].owner = binding[l].owner
                         /\ binding'[l].epoch = binding[l].epoch
                         /\ binding'[l].left = binding[l].left
      /\ binding'[k].lifecycle = lc
  <2> DEFINE Rows == [owner : RunIds \cup {NoRun}, lifecycle : Lifecycle, epoch : Nat, left : Int]
             row2 == [binding[k] EXCEPT !.lifecycle = lc]
  <2>1. binding \in [Keys -> Rows]
    BY <1>2 DEF TablesOK
  <2>2. binding[k] \in Rows
    BY <1>5, <2>1
  <2>3. /\ row2 \in Rows /\ row2.lifecycle = lc
        /\ row2.owner = binding[k].owner /\ row2.epoch = binding[k].epoch
        /\ row2.left = binding[k].left
    BY <2>2
  <2>4. binding' = [binding EXCEPT ![k] = row2]
    BY <1>8
  <2> HIDE DEF Rows, row2
  <2>5. binding' \in [Keys -> Rows] /\ binding'[k] = row2
        /\ \A l \in Keys : l # k => binding'[l] = binding[l]
    BY <1>5, <2>1, <2>3, <2>4
  <2> QED
    BY <2>3, <2>5 DEF Rows
<1>10. TablesOK'
  BY <1>0, <1>2, <1>9 DEF TablesOK
<1>11. \A s : Owned(s)' = Owned(s)
  BY <1>0, <1>2, <1>9 DEF Owned, TablesOK
<1>12. GrantsAreOwn'
  BY <1>0, <1>2, <1>9, <1>11 DEF GrantsAreOwn
<1>13. OnlyFor(r)
  BY <1>0, <1>2, <1>5, <1>9 DEF OnlyFor, TablesOK
<1>14. CallFits(c)'
  BY <1>2, <1>7, <1>11, SagaAssumption DEF CallFits, PC, AtWorktree
<1>15. Settled(r)'
  <2>1. r \notin overlapped => Unsettled(r)'
    BY <1>0, <1>1, UnderWay DEF Unsettled
  <2> QED
    BY <1>0, <2>1, NotSettled
<1>17. Intact(r)'
  BY <1>0, <1>1 DEF Intact
<1>16. r \notin overlapped => Reached(c, r)'
  <2> SUFFICES ASSUME r \notin overlapped PROVE Reached(c, r)'
    OBVIOUS
  <2>1. ASSUME NEW l \in Owned(r)
        PROVE  binding'[l].lifecycle # "ready" \/ \E x \in call'[c].owned : x[1] = l
    <3>1. CASE l = k
      BY <1>6, <1>9, <3>1
    <3>2. CASE l # k
      <4>1. l \in Keys
        BY <1>2 DEF Owned, TablesOK
      <4>2. binding[l].lifecycle # "ready" \/ \E x \in call[c].owned : x[1] = l
        BY <1>0, <1>2 DEF Reached
      <4> QED
        BY <1>4, <1>7, <1>9, <3>2, <4>1, <4>2
    <3> QED
      BY <3>1, <3>2
  <2> QED
    BY <1>0, <1>2, <1>7, <1>11, <2>1 DEF Reached, AtWorktree, Bare
<1> QED
  BY <1>2, <1>7, <1>10, <1>12, <1>13, <1>14, <1>15, <1>16, <1>17, StepKeeps

\* The run moves to ready when every worktree is done, or others have moved it on.
LEMMA FinishKeeps ==
    ASSUME SagaIInv, NEW c \in Calls, Finish(c)
    PROVE  SagaIInv'
<1>0. /\ call[c].pc = "finish" /\ Return(c)
      /\ UNCHANGED <<created, binding, grants, overlapped, undone, faults, others>>
  BY DEF Finish
<1>1. PICK r \in RunIds : r = call[c].run
  BY <1>0, CallAtHand
<1>2. CASE Refused(call[c].run, "ready")
  BY <1>0, <1>2, CallAtHand, ReturnOnly DEF Refused, TablesOK
<1>3. CASE Moved(call[c].run, "ready", "provision")
  <2>1. /\ call[c].run = r /\ Intact(r) /\ TablesOK /\ DOMAIN call = Calls
        /\ r \notin overlapped => Reached(c, r)
    BY <1>0, <1>1, CallAtHand
  <2>2. /\ status' = [status EXCEPT ![r] = "ready"] /\ status'[r] = "ready"
        /\ movedBy' = [movedBy EXCEPT ![r] = "provision"]
        /\ CanTransitionTo(status[r], "ready")
    BY <1>1, <1>3, <2>1 DEF Moved, TablesOK
  <2>3. /\ call'[c].run = NoRun
        /\ \A d \in Calls : d # c => call'[d] = call[d]
    BY <1>0, <2>1, ReturnCall
  <2>4. r \notin overlapped => Idle(r)'
    <3>1. LoneFits(c)
      BY DEF SagaIInv
    <3> QED
      BY <1>0, <2>1, <2>3, <3>1, SagaAssumption DEF LoneFits, Idle
  <2>5. r \notin overlapped => Provisioned(r)'
    BY <1>0, <2>1 DEF Reached, Provisioned, Done, Owned
  <2>6. Settled(r)'
    BY <1>0, <2>2, <2>4, <2>5 DEF Settled
  <2>7. Intact(r)'
    <3>1. status'[r] \in BeforeRunning => status[r] \in BeforeRunning
      BY <2>1, <2>2, NoWayBack DEF TablesOK
    <3> QED
      BY <1>0, <2>1, <3>1 DEF Intact, Owned
  <2>8. faults' \in Nat
    BY <1>0, <2>1 DEF TablesOK
  <2> QED
    BY <1>0, <1>1, <2>2, <2>6, <2>7, <2>8, ReturnStep DEF RunStatus
<1> QED
  BY <1>2, <1>3 DEF Finish

\* The run moves to failed when every binding is walked back, or others have
\* moved it on.
LEMMA FailKeeps ==
    ASSUME SagaIInv, NEW c \in Calls, Fail(c)
    PROVE  SagaIInv'
<1>0. /\ call[c].pc = "fail" /\ Return(c)
      /\ UNCHANGED <<created, binding, grants, overlapped, undone, faults, others>>
  BY DEF Fail
<1>1. PICK r \in RunIds : r = call[c].run
  BY <1>0, CallAtHand
<1>2. CASE Refused(call[c].run, "failed")
  BY <1>0, <1>2, CallAtHand, ReturnOnly DEF Refused, TablesOK
<1>3. CASE Moved(call[c].run, "failed", "provision")
  <2>1. /\ call[c].run = r /\ Intact(r) /\ TablesOK /\ DOMAIN call = Calls
        /\ r \notin overlapped => Reached(c, r)
    BY <1>0, <1>1, CallAtHand
  <2>2. /\ status' = [status EXCEPT ![r] = "failed"] /\ status'[r] = "failed"
        /\ movedBy' = [movedBy EXCEPT ![r] = "provision"]
        /\ CanTransitionTo(status[r], "failed")
    BY <1>1, <1>3, <2>1 DEF Moved, TablesOK
  <2>3. /\ call'[c].run = NoRun
        /\ \A d \in Calls : d # c => call'[d] = call[d]
    BY <1>0, <2>1, ReturnCall
  <2>4. r \notin overlapped => Idle(r)'
    <3>1. LoneFits(c)
      BY DEF SagaIInv
    <3> QED
      BY <1>0, <2>1, <2>3, <3>1, SagaAssumption DEF LoneFits, Idle
  <2>5. r \notin overlapped => Bare(r)' /\ WalkedAway(r)'
    BY <1>0, <2>1 DEF Reached, Bare, WalkedAway, Owned
  <2>6. Settled(r)'
    BY <1>0, <2>2, <2>4, <2>5 DEF Settled
  <2>7. Intact(r)'
    <3>1. status'[r] \in BeforeRunning => status[r] \in BeforeRunning
      BY <2>1, <2>2, NoWayBack DEF TablesOK
    <3> QED
      BY <1>0, <2>1, <3>1 DEF Intact, Owned
  <2>8. faults' \in Nat
    BY <1>0, <2>1 DEF TablesOK
  <2> QED
    BY <1>0, <1>1, <2>2, <2>6, <2>7, <2>8, ReturnStep DEF RunStatus
<1> QED
  BY <1>2, <1>3 DEF Fail

\* compensate's loop is over: no owned binding is left ready.
LEMMA StatusReadKeeps ==
    ASSUME SagaIInv, NEW c \in Calls, StatusRead(c)
    PROVE  SagaIInv'
<1>0. /\ call[c].pc = "walk" /\ call[c].owned = {}
      /\ UNCHANGED <<status, movedBy, created, binding, grants, overlapped, undone, faults, others>>
  BY DEF StatusRead
<1>1. PICK r \in RunIds : r = call[c].run
  BY <1>0, CallAtHand
<1>2. CASE status[call[c].run] = "failed"
  BY <1>0, <1>2, CallAtHand, ReturnOnly DEF StatusRead, TablesOK
<1>3. CASE status[call[c].run] # "failed"
  <2>2. /\ call[c].run = r /\ CallFits(c) /\ TablesOK /\ GrantsAreOwn /\ Intact(r)
        /\ DOMAIN call = Calls /\ DOMAIN call[c] = {"pc", "run", "i", "owned"}
        /\ r \notin overlapped => Reached(c, r)
    BY <1>0, <1>1, CallAtHand
  <2>3. /\ DOMAIN call' = Calls
        /\ DOMAIN call'[c] = {"pc", "run", "i", "owned"}
        /\ call'[c].pc = "fail" /\ call'[c].run = r
        /\ call'[c].i = call[c].i /\ call'[c].owned = call[c].owned
        /\ \A d \in Calls : d # c => call'[d] = call[d]
    BY <1>3, <2>2, GotoCall DEF StatusRead
  <2>4. TablesOK'  /\ GrantsAreOwn' /\ OnlyFor(r) /\ Owned(r)' = Owned(r)
    BY <1>0, <2>2 DEF TablesOK, GrantsAreOwn, Owned, OnlyFor
  <2>5. CallFits(c)'
    BY <1>0, <2>2, <2>3, <2>4, SagaAssumption DEF CallFits, PC, AtWorktree
  <2>6. Settled(r)'
    <3>1. r \notin overlapped => Unsettled(r)'
      BY <1>0, <1>1, UnderWay DEF Unsettled
    <3> QED
      BY <1>0, <3>1, NotSettled
  <2>8. Intact(r)'
    BY <1>0, <2>2 DEF Intact, Owned
  <2>7. r \notin overlapped => Reached(c, r)'
    BY <1>0, <2>2, <2>3, <2>4 DEF Reached, AtWorktree, Bare, WalkedAway
  <2> QED
    BY <2>2, <2>3, <2>4, <2>5, <2>6, <2>7, <2>8, StepKeeps
<1> QED
  BY <1>2, <1>3

\* Every statement of provision and compensate keeps the invariant.
LEMMA CallStepKeeps ==
    ASSUME SagaIInv, NEW c \in Calls, CallStep(c)
    PROVE  SagaIInv'
BY BeginKeeps, CreateBindingKeeps, GrantKeeps, LeaseReadKeeps, AcquireLeaseKeeps, FinishKeeps,
   RevokeKeeps, ListOwnedKeeps, WalkBackKeeps, StatusReadKeeps, FailKeeps DEF CallStep

\* So does a call that stops anywhere.
LEMMA StopKeeps ==
    ASSUME SagaIInv, NEW c \in Calls, Stop(c)
    PROVE  SagaIInv'
<1>1. faults \in Nat
  BY TablesTyped DEF TablesOK
<1> QED
  BY <1>1, ReturnOnly DEF Stop

\* A new call: alone with its run if no other is under way, and then nothing
\* is done yet; otherwise the run counts as overlapped.
LEMMA ProvisionKeeps ==
    ASSUME SagaIInv, NEW c \in Calls, NEW r \in RunIds, Provision(c, r)
    PROVE  SagaIInv'
<1> USE SagaAssumption
<1>0. /\ call[c].pc = "returned" /\ status[r] \in {"draft", "provisioning"}
      /\ overlapped' = overlapped \cup {x \in {r} : ~Idle(x)}
      /\ UNCHANGED <<status, movedBy, created, binding, grants, undone, faults, others>>
  BY DEF Provision
<1>1. /\ SagaInv /\ TablesOK /\ DOMAIN call = Calls
      /\ \A d \in Calls : CallFits(d) /\ LoneFits(d)
      /\ \A s \in RunIds : Settled(s) /\ Intact(s)
      /\ call[c].run = NoRun
  BY <1>0, TablesTyped DEF SagaIInv, CallFits
<1>2. /\ DOMAIN call' = Calls
      /\ DOMAIN call'[c] = {"pc", "run", "i", "owned"}
      /\ call'[c].pc = (IF status[r] = "draft" THEN "begin" ELSE FirstWorktree(r))
      /\ call'[c].run = r /\ call'[c].i = 1 /\ call'[c].owned = {}
      /\ \A d \in Calls : d # c => call'[d] = call[d]
  BY <1>1 DEF Provision, Returned
<1>3. /\ r \notin overlapped' => Idle(r)
      /\ \A s : s \notin overlapped' => s \notin overlapped
      /\ overlapped' \subseteq RunIds
  BY <1>0, <1>1 DEF TablesOK
<1>4. \A s : Owned(s)' = Owned(s)
  BY <1>0 DEF Owned
<1>5. GrantsAreOwn'
  BY <1>0, <1>1, <1>4 DEF SagaInv, GrantsAreOwn
<1>6. CallFits(c)'
  <2>1. Worktrees[r] # <<>> => 1 \in 1..Len(Worktrees[r])
    OBVIOUS
  <2> QED
    BY <1>0, <1>2, <2>1 DEF CallFits, PC, AtWorktree, FirstWorktree
<1>7. LoneFits(c)'
  <2> SUFFICES ASSUME r \notin overlapped'
               PROVE  (\A d \in Calls : call'[d].run = r => d = c) /\ Reached(c, r)'
    BY <1>2 DEF LoneFits
  <2>1. \A d \in Calls : call'[d].run = r => d = c
    BY <1>2, <1>3 DEF Idle
  <2>2. Worktrees[r] = <<>> => Provisioned(r)'
    BY DEF Provisioned
  <2>3. Reached(c, r)'
    BY <1>0, <1>2, <2>2 DEF Reached, AtWorktree, FirstWorktree
  <2> QED
    BY <2>1, <2>3
<1>8. ASSUME NEW d \in Calls, d # c
      PROVE  CallFits(d)' /\ LoneFits(d)'
  <2>1. CallFits(d) /\ LoneFits(d) /\ call'[d] = call[d]
    BY <1>1, <1>2, <1>8
  <2>2. Want(d)' = Want(d)
    BY <2>1 DEF Want
  <2>3. CallFits(d)'
    BY <1>4, <2>1, <2>2 DEF CallFits
  <2>4. PICK s : s = call[d].run
    OBVIOUS
  <2>5. ASSUME call[d].pc # "returned", s \notin overlapped'
        PROVE  (\A e \in Calls : call'[e].run = s => e = d) /\ Reached(d, s)'
    <3>1. (\A e \in Calls : call[e].run = s => e = d) /\ Reached(d, s)
      BY <1>3, <2>1, <2>4, <2>5 DEF LoneFits
    <3>2. s # r
      BY <1>3, <2>4, <2>5 DEF Idle
    <3>3. \A e \in Calls : call'[e].run = s => e = d
      BY <1>2, <3>1, <3>2
    <3>4. \A i : Done(s, i) => Done(s, i)'
      BY <1>0, <1>4 DEF Done
    <3>5. Provisioned(s) => Provisioned(s)'
      BY <3>4 DEF Provisioned
    <3>6. Reached(d, s)'
      BY <1>0, <1>4, <2>1, <2>2, <3>1, <3>4, <3>5 DEF Reached, Bare, WalkedAway
    <3> QED
      BY <3>3, <3>6
  <2>6. LoneFits(d)'
    BY <2>1, <2>4, <2>5 DEF LoneFits
  <2> QED
    BY <2>3, <2>6
<1>9. ASSUME NEW s \in RunIds PROVE Settled(s)' /\ Intact(s)'
  <2>1. Settled(s) /\ Intact(s)
    BY <1>1
  <2>2. Provisioned(s) => Provisioned(s)'
    BY <1>0, <1>4 DEF Provisioned, Done
  <2>3. Bare(s) /\ WalkedAway(s) => Bare(s)' /\ WalkedAway(s)'
    BY <1>0, <1>4 DEF Bare, WalkedAway
  <2>4. s # r => (Idle(s) => Idle(s)')
    BY <1>2 DEF Idle
  <2>5. Intact(s)'
    BY <1>0, <1>4, <2>1 DEF Intact
  <2>6. CASE s = r
    BY <1>0, <2>5, <2>6 DEF Settled
  <2>7. CASE s # r
    BY <1>0, <1>3, <2>1, <2>2, <2>3, <2>4, <2>5, <2>7 DEF Settled
  <2> QED
    BY <2>6, <2>7
<1>10. \A d \in Calls : CallFits(d)' /\ LoneFits(d)'
  BY <1>6, <1>7, <1>8
<1>11. SagaTypeOK'
  BY <1>0, <1>1, <1>3, <1>10 DEF TablesOK, SagaTypeOK, CallFits
<1> QED
  BY <1>2, <1>5, <1>9, <1>10, <1>11 DEF SagaIInv, SagaInv

(* A step outside the calls: others move runs along legal edges, lease the *)
(* rows and quarantine those of runs that have been running.               *)
LEMMA OutsideKeeps ==
    ASSUME SagaIInv, UNCHANGED <<created, grants, call, overlapped, undone>>, TablesOK',
           \A r \in RunIds : \/ status'[r] = status[r] /\ movedBy'[r] = movedBy[r]
                             \/ movedBy'[r] = "other",
           \A r \in RunIds : status'[r] \in BeforeRunning => status[r] \in BeforeRunning,
           \A k \in Keys : /\ binding'[k].owner = binding[k].owner
                           /\ binding[k].left # NoLease => binding'[k].left # NoLease
                           /\ \/ binding'[k].lifecycle = binding[k].lifecycle
                              \/ /\ status[binding[k].owner] \notin BeforeRunning
                                 /\ binding'[k].lifecycle = "quarantined"
    PROVE  SagaIInv'
<1> USE SagaAssumption
<1>1. /\ SagaInv /\ TablesOK /\ DOMAIN call = Calls
      /\ \A d \in Calls : CallFits(d) /\ LoneFits(d)
      /\ \A s \in RunIds : Settled(s) /\ Intact(s)
  BY TablesTyped DEF SagaIInv
<1>2. \A s : Owned(s)' = Owned(s) /\ Owned(s) \subseteq Keys
  BY <1>1 DEF Owned, TablesOK
<1>3. GrantsAreOwn' 
  BY <1>1, <1>2 DEF SagaInv, GrantsAreOwn
<1>4. ASSUME NEW s PROVE
        /\ \A i : Done(s, i) => Done(s, i)'
        /\ Bare(s) => Bare(s)'
        /\ WalkedAway(s) => WalkedAway(s)'
  BY <1>2 DEF Done, Bare, WalkedAway
<1>5. \A s : Provisioned(s) => Provisioned(s)'
  BY <1>4 DEF Provisioned
<1>6. ASSUME NEW d \in Calls PROVE CallFits(d)' /\ LoneFits(d)'
  <2>1. CallFits(d) /\ LoneFits(d) /\ call'[d] = call[d]
    BY <1>1
  <2>2. Want(d)' = Want(d)
    BY <2>1 DEF Want
  <2>3. CallFits(d)'
    BY <1>2, <2>1, <2>2 DEF CallFits
  <2>4. PICK s : s = call[d].run
    OBVIOUS
  <2>5. ASSUME call[d].pc # "returned", s \notin overlapped
        PROVE  Reached(d, s)'
    <3>1. Reached(d, s) /\ s \in RunIds
      BY <2>1, <2>4, <2>5 DEF LoneFits, CallFits
    <3>2. call[d].pc = "begin" => status'[s] = "draft" \/ movedBy'[s] = "other"
      BY <3>1 DEF Reached
    <3>3. call[d].pc = "walk" =>
             \A k \in Owned(s) : binding'[k].lifecycle # "ready" \/ \E row \in call[d].owned : row[1] = k
      BY <1>2, <3>1 DEF Reached
    <3> QED
      BY <1>2, <1>4, <1>5, <2>1, <2>2, <3>1, <3>2, <3>3 DEF Reached
  <2>6. LoneFits(d)'
    BY <2>1, <2>4, <2>5 DEF LoneFits
  <2> QED
    BY <2>3, <2>6
<1>7. ASSUME NEW s \in RunIds PROVE Settled(s)' /\ Intact(s)'
  <2>1. Settled(s) /\ Intact(s) /\ (Idle(s) => Idle(s)')
    BY <1>1 DEF Idle
  <2>2. Settled(s)'
    BY <1>4, <1>5, <2>1 DEF Settled
  <2>3. Intact(s)'
    BY <1>2, <2>1 DEF Intact, Owned
  <2> QED
    BY <2>2, <2>3
<1>8. SagaTypeOK'
  BY <1>6 DEF TablesOK, SagaTypeOK, CallFits
<1> QED
  BY <1>1, <1>3, <1>6, <1>7, <1>8 DEF SagaIInv, SagaInv

\* Somebody else moves the run under the feet of its call.
LEMMA MoveRunKeeps ==
    ASSUME SagaIInv, NEW r \in RunIds, NEW to \in RunStatus, MoveRun(r, to)
    PROVE  SagaIInv'
<1>1. /\ status' = [status EXCEPT ![r] = to] /\ movedBy' = [movedBy EXCEPT ![r] = "other"]
      /\ CanTransitionTo(status[r], to)
      /\ others > 0 /\ others' = others - 1
      /\ UNCHANGED <<created, binding, grants, call, overlapped, undone, faults>>
  BY DEF MoveRun, Moved
<1>2. TablesOK
  BY TablesTyped
<1>3. TablesOK'
  BY <1>1, <1>2 DEF TablesOK
<1>4. \A s \in RunIds : /\ \/ status'[s] = status[s] /\ movedBy'[s] = movedBy[s]
                           \/ movedBy'[s] = "other"
                        /\ status'[s] \in BeforeRunning => status[s] \in BeforeRunning
  BY <1>1, <1>2, NoWayBack DEF TablesOK
<1> QED
  BY <1>1, <1>3, <1>4, OutsideKeeps

(* A step outside the calls that changes rows only.                        *)
LEMMA RowsKeep ==
    ASSUME SagaIInv, UNCHANGED <<status, movedBy, created, grants, call, overlapped, undone, faults>>,
           others' \in Nat, binding' \in [Keys -> BindingRows],
           \A k \in Keys : /\ binding'[k].owner = binding[k].owner
                           /\ binding[k].left # NoLease => binding'[k].left # NoLease
                           /\ \/ binding'[k].lifecycle = binding[k].lifecycle
                              \/ /\ status[binding[k].owner] \notin BeforeRunning
                                 /\ binding'[k].lifecycle = "quarantined"
    PROVE  SagaIInv'
<1>1. TablesOK'
  BY TablesTyped DEF TablesOK, BindingRows
<1> QED
  BY <1>1, OutsideKeeps

(* One row replaced by another of the same owner.                          *)
LEMMA RowReplaced ==
    ASSUME SagaIInv, NEW k \in Keys, NEW row \in BindingRows,
           binding' = [binding EXCEPT ![k] = row], row.owner = binding[k].owner,
           row.left # NoLease \/ row.left = binding[k].left,
           \/ row.lifecycle = binding[k].lifecycle
           \/ status[binding[k].owner] \notin BeforeRunning /\ row.lifecycle = "quarantined",
           UNCHANGED <<status, movedBy, created, grants, call, overlapped, undone, faults>>,
           others' \in Nat
    PROVE  SagaIInv'
<1>1. binding \in [Keys -> BindingRows]
  BY TablesTyped DEF TablesOK, BindingRows
<1>2. /\ binding' \in [Keys -> BindingRows]
      /\ \A l \in Keys : binding'[l] = (IF l = k THEN row ELSE binding[l])
  BY <1>1
<1> QED
  BY <1>2, RowsKeep

\* Somebody else acquires or renews a lease.
LEMMA LeaseElsewhereKeeps ==
    ASSUME SagaIInv, NEW k \in Keys, NEW ttl \in Lapsed..Ttl, LeaseElsewhere(k, ttl)
    PROVE  SagaIInv'
<1>1. /\ others > 0 /\ others' = others - 1
      /\ UNCHANGED <<status, movedBy, created, grants, call, overlapped, undone, faults>>
      /\ \/ binding' = [binding EXCEPT ![k] = Acquired(binding[k], ttl)]
         \/ binding' = [binding EXCEPT ![k] = Renewed(binding[k], ttl)]
  BY DEF LeaseElsewhere
<1>2. TablesOK /\ binding[k] \in BindingRows
  BY TablesTyped DEF TablesOK, BindingRows
<1>3. others' \in Nat
  BY <1>1, <1>2 DEF TablesOK
<1>4. ttl \in Int /\ ttl # NoLease
  BY SagaAssumption DEF Lapsed, NoLease
<1>5. CASE binding' = [binding EXCEPT ![k] = Acquired(binding[k], ttl)]
  BY <1>1, <1>2, <1>3, <1>4, <1>5, AcquiredTyped, RowReplaced
<1>6. CASE binding' = [binding EXCEPT ![k] = Renewed(binding[k], ttl)]
  <2>1. /\ Renewed(binding[k], ttl) \in BindingRows
        /\ Renewed(binding[k], ttl).owner = binding[k].owner
        /\ Renewed(binding[k], ttl).lifecycle = binding[k].lifecycle
        /\ Renewed(binding[k], ttl).left = ttl
    BY <1>2, <1>4 DEF Renewed, BindingRows
  <2> QED
    BY <1>1, <1>3, <1>4, <1>6, <2>1, RowReplaced
<1> QED
  BY <1>1, <1>5, <1>6

\* The sweep quarantines a row.
LEMMA SweepQuarantineKeeps ==
    ASSUME SagaIInv, NEW k \in Keys, SweepQuarantine(k)
    PROVE  SagaIInv'
<1>1. /\ status[binding[k].owner] \notin BeforeRunning
      /\ binding' = [binding EXCEPT ![k] = Quarantined(binding[k])]
      /\ UNCHANGED <<status, movedBy, created, grants, call, overlapped, undone, faults, others>>
  BY DEF SweepQuarantine
<1>2. TablesOK /\ binding[k] \in BindingRows
  BY TablesTyped DEF TablesOK, BindingRows
<1>3. /\ Quarantined(binding[k]) \in BindingRows
      /\ Quarantined(binding[k]).owner = binding[k].owner
      /\ Quarantined(binding[k]).left = binding[k].left
      /\ Quarantined(binding[k]).lifecycle \in {binding[k].lifecycle, "quarantined"}
  BY <1>2 DEF Quarantined, BindingRows, Lifecycle
<1>4. others' \in Nat
  BY <1>1, <1>2 DEF TablesOK
<1> QED
  BY <1>1, <1>3, <1>4, RowReplaced

\* Leases run out under the feet of the calls.
LEMMA LapseKeeps ==
    ASSUME SagaIInv, Lapse
    PROVE  SagaIInv'
<1>1. /\ binding' = [k \in Keys |-> [binding[k] EXCEPT !.left = Elapse(@)]]
      /\ UNCHANGED <<status, movedBy, created, grants, call, overlapped, undone, faults, others>>
  BY DEF Lapse
<1>2. TablesOK
  BY TablesTyped
<1>3. ASSUME NEW k \in Keys
      PROVE  /\ binding'[k] \in BindingRows
             /\ binding'[k].owner = binding[k].owner
             /\ binding'[k].lifecycle = binding[k].lifecycle
             /\ binding[k].left # NoLease => binding'[k].left # NoLease
  <2>1. binding[k] \in BindingRows
    BY <1>2 DEF TablesOK, BindingRows
  <2>2. binding[k].left \in Int
    BY <2>1 DEF BindingRows
  <2>3. PICK left \in Int : left = Elapse(binding[k].left)
    BY <2>2 DEF Elapse, Lapsed
  <2>4. binding'[k] = [binding[k] EXCEPT !.left = left]
    BY <1>1, <2>3
  <2>5. binding[k].left # NoLease => left # NoLease
    BY <2>2, <2>3 DEF Elapse, Lapsed, NoLease
  <2> QED
    BY <2>1, <2>4, <2>5 DEF BindingRows
<1>4. binding' \in [Keys -> BindingRows] /\ others' \in Nat
  BY <1>1, <1>2, <1>3 DEF TablesOK
<1> QED
  BY <1>1, <1>3, <1>4, RowsKeep

\* The invariant is inductive.
LEMMA SagaIInvNext == SagaIInv /\ [SagaNext]_sagaVars => SagaIInv'
<1> SUFFICES ASSUME SagaIInv, [SagaNext]_sagaVars PROVE SagaIInv'
  OBVIOUS
<1>1. ASSUME NEW c \in Calls, NEW r \in RunIds, Provision(c, r) PROVE SagaIInv'
  BY <1>1, ProvisionKeeps
<1>2. ASSUME NEW c \in Calls, CallStep(c) \/ Fault(c) \/ Stop(c) PROVE SagaIInv'
  BY <1>2, CallStepKeeps, FaultKeeps, StopKeeps
<1>3. ASSUME NEW r \in RunIds, NEW to \in RunStatus, MoveRun(r, to) PROVE SagaIInv'
  BY <1>3, MoveRunKeeps
<1>6. ASSUME NEW k \in Keys, NEW ttl \in Lapsed..Ttl, LeaseElsewhere(k, ttl) PROVE SagaIInv'
  BY <1>6, LeaseElsewhereKeeps
<1>7. ASSUME NEW k \in Keys, SweepQuarantine(k) PROVE SagaIInv'
  BY <1>7, SweepQuarantineKeeps
<1>4. CASE Lapse
  BY <1>4, LapseKeeps
<1>5. CASE UNCHANGED sagaVars
  <2>1. TablesOK' /\ UNCHANGED <<status, movedBy, created, binding, grants, call, overlapped, undone>>
    BY <1>5, TablesTyped DEF sagaVars, TablesOK
  <2> QED
    BY <2>1, OutsideKeeps
<1> QED
  BY <1>1, <1>2, <1>3, <1>4, <1>5, <1>6, <1>7 DEF SagaNext

\* However calls overlap, stop and are repeated, the tables keep their types
\* and a run is granted only worktrees it owns (binding_owner's check,
\* saga.rs:125-131).
THEOREM SagaInvariant == SagaSpec => []SagaInv
<1>1. SagaIInv => SagaInv
  BY DEF SagaIInv
<1> QED
  BY <1>1, SagaIInvInit, SagaIInvNext, PTL DEF SagaSpec

\* A run that provision itself has brought to ready, its calls made one at a
\* time, has every worktree of its spec: owned, granted as asked, leased, and
\* editable unless a compensation had begun before; whatever others do to the
\* runs and the leases meanwhile. The spec must not ask for two accesses to one
\* key: grant is an upsert and the last one would win.
THEOREM ReadyRunsProvisioned ==
    ASSUME \A r \in RunIds : OneAccess(r)
    PROVE  SagaSpec => []ReadyIsProvisioned
<1>1. SagaIInv => ReadyIsProvisioned
  BY DEF SagaIInv, Settled, Intact, BeforeRunning, Provisioned, Done, ReadyIsProvisioned
<1> QED
  BY <1>1, SagaIInvInit, SagaIInvNext, PTL DEF SagaSpec

\* saga.rs:24-25: a run that provision itself has moved to failed, its calls
\* made one at a time, owns no editable binding and holds no grant.
THEOREM FailedRunsWalkedBack == SagaSpec => []FailedIsWalkedBack
<1>1. SagaIInv => FailedIsWalkedBack
  BY DEF SagaIInv, Settled, Bare, WalkedAway, FailedIsWalkedBack
<1> QED
  BY <1>1, SagaIInvInit, SagaIInvNext, PTL DEF SagaSpec

\* A call whose statements all succeed leaves no run at provisioning that
\* somebody else did not put there, as long as calls do not overlap:
\* transition refuses only a run that has moved on.
THEOREM CallsSettleTheirRuns == SagaSpec => ReturnSettles
<1> DEFINE A == \A c \in Calls : LET r == call[c].run IN
                   /\ CallStep(c) /\ call'[c].pc = "returned" /\ r \notin overlapped
                   /\ status'[r] = "provisioning"
                   => movedBy'[r] = "other"
<1>1. SagaIInv /\ [SagaNext]_sagaVars => A
  <2> SUFFICES ASSUME SagaIInv, NEW c \in Calls, CallStep(c), call'[c].pc = "returned",
                      call[c].run \notin overlapped, status'[call[c].run] = "provisioning"
               PROVE  movedBy'[call[c].run] = "other"
    OBVIOUS
  <2>0. call[c].pc # "returned"
    BY DEF CallStep, Begin, CreateBinding, Grant, LeaseRead, AcquireLease, Finish, Revoke,
           ListOwned, WalkBack, StatusRead, Fail
  <2>1. /\ call[c].run \in RunIds /\ TablesOK /\ Reached(c, call[c].run)
        /\ DOMAIN call = Calls /\ DOMAIN call[c] = {"pc", "run", "i", "owned"}
    BY <2>0, CallAtHand
  <2>2. \A p : Goto(c, p) => p = "returned"
    BY <2>1 DEF Goto
  <2>3. ~NextWorktree(c)
    BY <2>1, NextCall
  <2>4. CASE Begin(c)
    BY <2>1, <2>2, <2>4 DEF Begin, Refused, FirstWorktree, Reached, CanTransitionTo, LegalEdges
  <2>5. CASE Finish(c)
    BY <2>1, <2>5 DEF Finish, Moved, Refused, CanTransitionTo, LegalEdges, TablesOK
  <2>6. CASE Fail(c)
    BY <2>1, <2>6 DEF Fail, Moved, Refused, CanTransitionTo, LegalEdges, TablesOK
  <2>7. CASE StatusRead(c)
    BY <2>2, <2>7 DEF StatusRead
  <2>8. CASE CreateBinding(c) \/ Grant(c) \/ LeaseRead(c) \/ AcquireLease(c) \/ Revoke(c)
    BY <2>2, <2>3, <2>8 DEF CreateBinding, Grant, LeaseRead, AcquireLease, Revoke
  <2>9. CASE ListOwned(c) \/ WalkBack(c)
    BY <2>1, <2>9 DEF ListOwned, WalkBack
  <2> QED
    BY <2>4, <2>5, <2>6, <2>7, <2>8, <2>9 DEF CallStep
<1>2. SagaIInv /\ [SagaNext]_sagaVars => [A]_sagaVars
  BY <1>1
<1> QED
  BY <1>2, SagaIInvInit, SagaIInvNext, PTL DEF SagaSpec, ReturnSettles
=============================================================================
