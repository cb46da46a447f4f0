-------------------------------- MODULE Runs --------------------------------
(***************************************************************************)
(* What the run table promises (coordinator/src/run.rs): runs are created  *)
(* at draft, change status one legal edge at a time, log every edge in     *)
(* run_transitions, and start their wall clock on the first entry into     *)
(* running.  Each action is one committed database transaction, whatever   *)
(* the interleaving of clients; TransitionTx refines Transition to the     *)
(* statements of its transaction.                                          *)
(***************************************************************************)
EXTENDS RunDomain, Integers, Sequences, FiniteSets

CONSTANTS
    RunIds,     \* the uuids run::create may draw
    NoRun,      \* NULL in runs.parent_run_id
    MaxTime,    \* bound on the clock
    MaxSeq,     \* bound on run_transitions.seq of one run
    MaxTokens   \* bound on an observed token total

ASSUME RunsAssumption ==
    /\ NoRun \notin RunIds
    /\ MaxTime \in Nat
    /\ MaxSeq \in Nat
    /\ MaxTokens \in Nat

VARIABLES
    now,          \* the database clock
    status,       \* runs.status, "absent" before the row is inserted
    parent,       \* runs.parent_run_id
    transitions,  \* run_transitions of each run, in seq order
    wallStarted,  \* runs.wall_started_at, Never when NULL
    tokens,       \* runs.tokens_observed
    tokensAt      \* runs.tokens_observed_at, Never when NULL

vars == <<now, status, parent, transitions, wallStarted, tokens, tokensAt>>

Never == -1
Exists(r) == status[r] # "absent"

Edge == [from : RunStatus, to : RunStatus]

Init ==
    /\ now = 0
    /\ status = [r \in RunIds |-> "absent"]
    /\ parent = [r \in RunIds |-> NoRun]
    /\ transitions = [r \in RunIds |-> <<>>]
    /\ wallStarted = [r \in RunIds |-> Never]
    /\ tokens = [r \in RunIds |-> 0]
    /\ tokensAt = [r \in RunIds |-> Never]

(* Mutant: the parent is not checked, as without the foreign key.          *)
CreateUnderAny(r, p) ==
    /\ ~Exists(r)
    /\ status' = [status EXCEPT ![r] = "draft"]
    /\ parent' = [parent EXCEPT ![r] = p]
    /\ UNCHANGED <<now, transitions, wallStarted, tokens, tokensAt>>

(* Mutant: the creation is logged as an edge from a status that is none.   *)
CreateLogged(r, p) ==
    /\ ~Exists(r)
    /\ p = NoRun \/ (p \in RunIds /\ Exists(p))
    /\ status' = [status EXCEPT ![r] = "draft"]
    /\ parent' = [parent EXCEPT ![r] = p]
    /\ transitions' = [transitions EXCEPT ![r] = <<[from |-> status[r], to |-> "draft"]>>]
    /\ UNCHANGED <<now, wallStarted, tokens, tokensAt>>

(* run::create: a new row at draft; the foreign key admits only a parent   *)
(* that already exists.                                                    *)
Create(r, p) ==
    /\ ~Exists(r)
    /\ p = NoRun \/ (p \in RunIds /\ Exists(p))
    /\ status' = [status EXCEPT ![r] = "draft"]
    /\ parent' = [parent EXCEPT ![r] = p]
    /\ UNCHANGED <<now, transitions, wallStarted, tokens, tokensAt>>

(* Mutant: now() without the COALESCE.                                     *)
StartWallClockAgain(r, to, t) ==
    wallStarted' = IF to = "running" THEN [wallStarted EXCEPT ![r] = t] ELSE wallStarted

(* COALESCE(wall_started_at, now()) on entry into running; now() is the    *)
(* start of the transaction, so t lies in the past of the commit.          *)
StartWallClock(r, to, t) ==
    wallStarted' = IF to = "running" /\ wallStarted[r] = Never
                   THEN [wallStarted EXCEPT ![r] = t]
                   ELSE wallStarted

(* run::transition, its success: the edge is legal, the log grows by one   *)
(* row and the status follows, in one transaction begun at t.              *)
Transition(r, to, t) ==
    /\ Exists(r)
    /\ CanTransitionTo(status[r], to)
    /\ Len(transitions[r]) < MaxSeq
    /\ status' = [status EXCEPT ![r] = to]
    /\ transitions' = [transitions EXCEPT
                         ![r] = Append(@, [from |-> status[r], to |-> to])]
    /\ StartWallClock(r, to, t)
    /\ UNCHANGED <<now, parent, tokens, tokensAt>>

(* run::observe_tokens: GREATEST on the total, the timestamp as given.     *)
ObserveTokens(r, total, at) ==
    /\ Exists(r)
    /\ tokens' = [tokens EXCEPT ![r] = IF @ >= total THEN @ ELSE total]
    /\ tokensAt' = [tokensAt EXCEPT ![r] = at]
    /\ UNCHANGED <<now, status, parent, transitions, wallStarted>>

(* run::depth: the parent_run_id chain walked from r, one row a hop; NoRun *)
(* after the root.  As many hops as there are runs, and one more.          *)
ParentWalk(r) ==
    LET walk[n \in 0..(Cardinality(RunIds) + 1)] ==
            IF n = 0 THEN r
            ELSE IF walk[n - 1] = NoRun THEN NoRun
            ELSE parent[walk[n - 1]]
    IN  walk

Depth(r) == CHOOSE n \in 0..Cardinality(RunIds) :
                ParentWalk(r)[n] # NoRun /\ ParentWalk(r)[n + 1] = NoRun

Tick ==
    /\ now < MaxTime
    /\ now' = now + 1
    /\ UNCHANGED <<status, parent, transitions, wallStarted, tokens, tokensAt>>

Next ==
    \/ \E r \in RunIds, p \in RunIds \cup {NoRun} : Create(r, p)
    \/ \E r \in RunIds, to \in RunStatus, t \in 0..now : Transition(r, to, t)
    \/ \E r \in RunIds, total \in 0..MaxTokens, at \in 0..now :
          ObserveTokens(r, total, at)
    \/ Tick

Spec == Init /\ [][Next]_vars

-----------------------------------------------------------------------------
(* Every table holds values of its columns' types.                         *)
TypeOK ==
    /\ now \in Nat
    /\ status \in [RunIds -> RunStatus \cup {"absent"}]
    /\ parent \in [RunIds -> RunIds \cup {NoRun}]
    /\ transitions \in [RunIds -> Seq(Edge)]
    /\ wallStarted \in [RunIds -> Nat \cup {Never}]
    /\ tokens \in [RunIds -> Nat]
    /\ tokensAt \in [RunIds -> Nat \cup {Never}]

(* The log of a run is a chain of legal edges that starts at draft, joins  *)
(* end to end and ends at the run's status: run_transitions replays to     *)
(* runs.status, whoever raced to write them.                               *)
AuditChain ==
    \A r \in RunIds :
        LET h == transitions[r] IN
        /\ \A i \in 1..Len(h) : CanTransitionTo(h[i].from, h[i].to)
        /\ \A i \in 1..(Len(h) - 1) : h[i].to = h[i + 1].from
        /\ Len(h) > 0 => h[1].from = "draft" /\ h[Len(h)].to = status[r]
        /\ Len(h) = 0 => status[r] \in {"absent", "draft"}

(* The wall clock of a run has started exactly when its log enters         *)
(* running: no path into running forgets it, none outside running sets it. *)
WallClockStarted ==
    \A r \in RunIds :
        (wallStarted[r] # Never) <=>
            \E i \in 1..Len(transitions[r]) : transitions[r][i].to = "running"

(* Once started, the wall clock never moves: a pause and resume cannot     *)
(* stretch the budget.                                                     *)
WallClockFixed ==
    [][\A r \in RunIds : wallStarted[r] # Never => wallStarted'[r] = wallStarted[r]]_vars

(* A run that reached a terminal status never leaves it, and its log is    *)
(* closed.                                                                 *)
TerminalIsFinal ==
    [][\A r \in RunIds : IsTerminal(status[r]) =>
          /\ status'[r] = status[r]
          /\ transitions'[r] = transitions[r]]_vars

(* The walk of run::depth ends at a root before it can repeat a run, over  *)
(* rows that all exist (its loop has no other bound), and a child is one   *)
(* deeper than its parent.                                                 *)
DepthTerminates ==
    \A r \in RunIds : Exists(r) =>
        /\ ParentWalk(r)[Cardinality(RunIds)] = NoRun
        /\ \A n \in 0..Depth(r) : Exists(ParentWalk(r)[n])
        /\ Depth(r) = IF parent[r] = NoRun THEN 0 ELSE Depth(parent[r]) + 1
=============================================================================
