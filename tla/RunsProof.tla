------------------------------ MODULE RunsProof ------------------------------
(***************************************************************************)
(* Proofs about Runs, and about TransitionTx that implements it, for any   *)
(* set of runs, any clients and any bounds.  The log and the wall clock    *)
(* are tied together: RunsInv, the conjunction of the three invariants, is *)
(* inductive, while AuditChain and WallClockStarted each need the types.   *)
(*                                                                         *)
(* A run is created under a parent that is already there and never gets    *)
(* another, so the runs that exist can be ranked, a child one above its    *)
(* parent and none as high as there are runs: Ranked is inductive, and the *)
(* walk of run::depth goes down one rank a hop.                            *)
(*                                                                         *)
(* The statements of run::transition implement the atomic run table: while *)
(* a transaction holds the row lock, nobody else can commit to its run, so *)
(* the status it read is the status it overwrites and its seq is still the *)
(* next one; TxInv says so.  The columns' types come from RunsInv, which   *)
(* the simulation itself carries over from Runs.                           *)
(***************************************************************************)
EXTENDS TransitionTx, FiniteSetTheorems, WellFoundedInduction, TLAPS

(* Runs, their log and their wall clock are consistent.                    *)
RunsInv == TypeOK /\ AuditChain /\ WallClockStarted

(* The legal edges join statuses, and none leaves a terminal status.       *)
LEMMA EdgesOfRuns ==
    ASSUME NEW from, NEW to, CanTransitionTo(from, to)
    PROVE  from \in RunStatus /\ to \in RunStatus /\ ~IsTerminal(from)
BY DEF CanTransitionTo, LegalEdges, RunStatus, IsTerminal

(* The tables start empty.                                                 *)
LEMMA RunsInvInit == Init => RunsInv
<1> SUFFICES ASSUME Init PROVE RunsInv
  OBVIOUS
<1>1. TypeOK
  BY DEF Init, TypeOK
<1>2. \A r \in RunIds : transitions[r] = <<>> /\ status[r] = "absent" /\ wallStarted[r] = Never
  BY DEF Init
<1>3. AuditChain
  BY <1>2 DEF AuditChain
<1>4. WallClockStarted
  BY <1>2 DEF WallClockStarted
<1> QED
  BY <1>1, <1>3, <1>4 DEF RunsInv

(* What a transition does to the run it moves and to the others.           *)
LEMMA TransitionEffect ==
    ASSUME RunsInv, NEW r \in RunIds, NEW to \in RunStatus, NEW t \in 0..now,
           Transition(r, to, t)
    PROVE  /\ TypeOK'
           /\ transitions'[r] = Append(transitions[r], [from |-> status[r], to |-> to])
           /\ status'[r] = to
           /\ wallStarted'[r] = IF to = "running" /\ wallStarted[r] = Never
                                THEN t ELSE wallStarted[r]
           /\ \A d \in RunIds : d # r => /\ transitions'[d] = transitions[d]
                                         /\ status'[d] = status[d]
                                         /\ wallStarted'[d] = wallStarted[d]
<1> USE DEF RunsInv
<1>1. status[r] \in RunStatus
  BY EdgesOfRuns DEF Transition
<1>2. Append(transitions[r], [from |-> status[r], to |-> to]) \in Seq(Edge)
  <2>1. [from |-> status[r], to |-> to] \in Edge
    BY <1>1 DEF Edge
  <2>2. transitions[r] \in Seq(Edge)
    BY DEF TypeOK
  <2> HIDE DEF RunsInv
  <2> QED
    BY <2>1, <2>2
<1>3. t \in Nat
  BY DEF TypeOK
<1>4. transitions' \in [RunIds -> Seq(Edge)] /\ status' \in [RunIds -> RunStatus \cup {"absent"}]
  BY <1>2 DEF TypeOK, Transition
<1>5. wallStarted' \in [RunIds -> Nat \cup {Never}]
  BY <1>3 DEF TypeOK, Transition, StartWallClock
<1>6. TypeOK'
  BY <1>4, <1>5 DEF TypeOK, Transition
<1> QED
  BY <1>6 DEF TypeOK, Transition, StartWallClock

(* The new edge continues the chain of the log.                            *)
LEMMA TransitionKeepsChain ==
    ASSUME RunsInv, NEW r \in RunIds, NEW to \in RunStatus, NEW t \in 0..now,
           Transition(r, to, t)
    PROVE  AuditChain'
<1> DEFINE h == transitions[r]
           g == transitions'[r]
           edge == [from |-> status[r], to |-> to]
           Chain(s, st) == /\ \A i \in 1..Len(s) : CanTransitionTo(s[i].from, s[i].to)
                           /\ \A i \in 1..(Len(s) - 1) : s[i].to = s[i + 1].from
                           /\ Len(s) > 0 => s[1].from = "draft" /\ s[Len(s)].to = st
                           /\ Len(s) = 0 => st \in {"absent", "draft"}
<1>1. /\ g = Append(h, edge)
      /\ status'[r] = to
      /\ \A d \in RunIds : d # r => transitions'[d] = transitions[d] /\ status'[d] = status[d]
  BY TransitionEffect
<1>2. h \in Seq(Edge)
  BY DEF RunsInv, TypeOK
<1>3. Len(h) \in Nat /\ Len(g) = Len(h) + 1 /\ g[Len(g)] = edge
      /\ \A i \in 1..Len(h) : g[i] = h[i]
  BY <1>1, <1>2
<1>4. Chain(h, status[r])
  BY DEF RunsInv, AuditChain
<1>5. CanTransitionTo(status[r], to) /\ status[r] # "absent"
  BY DEF Transition, Exists
<1>6. \A i \in 1..Len(g) : CanTransitionTo(g[i].from, g[i].to)
  <2> SUFFICES ASSUME NEW i \in 1..Len(g) PROVE CanTransitionTo(g[i].from, g[i].to)
    OBVIOUS
  <2>1. CASE i \in 1..Len(h)
    BY <1>3, <1>4, <2>1
  <2>2. CASE i = Len(g)
    BY <1>3, <1>5, <2>2
  <2> QED
    BY <1>3, <2>1, <2>2
<1>7. \A i \in 1..(Len(g) - 1) : g[i].to = g[i + 1].from
  <2> SUFFICES ASSUME NEW i \in 1..(Len(g) - 1) PROVE g[i].to = g[i + 1].from
    OBVIOUS
  <2>1. CASE i < Len(h)
    <3>1. i \in 1..(Len(h) - 1) /\ i \in 1..Len(h) /\ i + 1 \in 1..Len(h)
      BY <1>3, <2>1
    <3> QED
      BY <1>3, <1>4, <3>1
  <2>2. CASE i = Len(h)
    <3>1. h[i].to = status[r] /\ g[i] = h[i]
      BY <1>3, <1>4, <2>2
    <3> QED
      BY <1>3, <2>2, <3>1
  <2> QED
    BY <1>3, <2>1, <2>2
<1>8. Len(g) > 0 /\ g[1].from = "draft" /\ g[Len(g)].to = to
  BY <1>3, <1>4, <1>5
<1>9. Chain(g, to)
  BY <1>3, <1>6, <1>7, <1>8
<1>10. \A d \in RunIds : Chain(transitions[d], status[d])
  BY DEF RunsInv, AuditChain
<1> HIDE DEF Chain
<1>11. \A d \in RunIds : Chain(transitions'[d], status'[d])
  BY <1>1, <1>9, <1>10
<1> QED
  BY <1>11 DEF AuditChain, Chain

(* The wall clock starts with the first edge into running.                 *)
LEMMA TransitionKeepsClock ==
    ASSUME RunsInv, NEW r \in RunIds, NEW to \in RunStatus, NEW t \in 0..now,
           Transition(r, to, t)
    PROVE  WallClockStarted'
<1> DEFINE h == transitions[r]
           g == transitions'[r]
           Ran(s) == \E i \in 1..Len(s) : s[i].to = "running"
<1>1. /\ g = Append(h, [from |-> status[r], to |-> to])
      /\ wallStarted'[r] = IF to = "running" /\ wallStarted[r] = Never
                           THEN t ELSE wallStarted[r]
      /\ \A d \in RunIds : d # r => /\ transitions'[d] = transitions[d]
                                    /\ wallStarted'[d] = wallStarted[d]
  BY TransitionEffect
<1>2. h \in Seq(Edge)
  BY DEF RunsInv, TypeOK
<1>3. Len(h) \in Nat /\ Len(g) = Len(h) + 1 /\ g[Len(g)].to = to
      /\ \A i \in 1..Len(h) : g[i] = h[i]
  BY <1>1, <1>2
<1>4. Ran(g) <=> Ran(h) \/ to = "running"
  BY <1>3
<1>5. (wallStarted[r] # Never) <=> Ran(h)
  BY DEF RunsInv, WallClockStarted
<1>6. t # Never
  BY DEF RunsInv, TypeOK, Never
<1>7. (wallStarted'[r] # Never) <=> Ran(g)
  BY <1>1, <1>4, <1>5, <1>6
<1>8. \A d \in RunIds : (wallStarted'[d] # Never) <=> Ran(transitions'[d])
  BY <1>1, <1>7 DEF RunsInv, WallClockStarted
<1> QED
  BY <1>8 DEF WallClockStarted

(* The invariant is inductive.                                             *)
LEMMA RunsInvNext == RunsInv /\ [Next]_vars => RunsInv'
<1> SUFFICES ASSUME RunsInv, [Next]_vars PROVE RunsInv'
  OBVIOUS
<1>1. ASSUME NEW r \in RunIds, NEW p \in RunIds \cup {NoRun}, Create(r, p)
      PROVE  RunsInv'
  <2>1. TypeOK'
    BY <1>1 DEF RunsInv, TypeOK, Create, RunStatus
  <2>2. Len(transitions[r]) = 0
    <3>1. transitions[r] \in Seq(Edge) /\ Len(transitions[r]) \in Nat
      BY DEF RunsInv, TypeOK
    <3>2. ASSUME Len(transitions[r]) > 0 PROVE FALSE
      <4>1. /\ Len(transitions[r]) \in 1..Len(transitions[r])
            /\ transitions[r][Len(transitions[r])] \in Edge
        BY <3>1, <3>2
      <4>2. transitions[r][Len(transitions[r])].to = "absent"
        BY <1>1, <3>2 DEF RunsInv, AuditChain, Create, Exists
      <4> QED
        BY <4>1, <4>2 DEF Edge, RunStatus
    <3> QED
      BY <3>1, <3>2
  <2>3. AuditChain'
    BY <1>1, <2>2 DEF RunsInv, TypeOK, AuditChain, Create
  <2>4. WallClockStarted'
    BY <1>1 DEF RunsInv, WallClockStarted, Create
  <2> QED
    BY <2>1, <2>3, <2>4 DEF RunsInv
<1>2. ASSUME NEW r \in RunIds, NEW to \in RunStatus, NEW t \in 0..now, Transition(r, to, t)
      PROVE  RunsInv'
  BY <1>2, TransitionEffect, TransitionKeepsChain, TransitionKeepsClock DEF RunsInv
<1>3. ASSUME NEW r \in RunIds, NEW total \in 0..MaxTokens, NEW at \in 0..now,
             ObserveTokens(r, total, at)
      PROVE  RunsInv'
  <2>1. TypeOK'
    BY <1>3, RunsAssumption DEF RunsInv, TypeOK, ObserveTokens
  <2>2. AuditChain' /\ WallClockStarted'
    BY <1>3 DEF RunsInv, AuditChain, WallClockStarted, ObserveTokens
  <2> QED
    BY <2>1, <2>2 DEF RunsInv
<1>4. CASE Tick
  <2>1. TypeOK'
    BY <1>4 DEF RunsInv, TypeOK, Tick
  <2>2. AuditChain' /\ WallClockStarted'
    BY <1>4 DEF RunsInv, AuditChain, WallClockStarted, Tick
  <2> QED
    BY <2>1, <2>2 DEF RunsInv
<1>5. CASE UNCHANGED vars
  BY <1>5 DEF RunsInv, TypeOK, AuditChain, WallClockStarted, vars
<1> QED
  BY <1>1, <1>2, <1>3, <1>4, <1>5 DEF Next

(* RunsInv holds of every behaviour.                                       *)
LEMMA RunsInvariant == Spec => []RunsInv
BY RunsInvInit, RunsInvNext, PTL DEF Spec

(* The columns of the run table keep their types.                          *)
THEOREM RunsTyped == Spec => []TypeOK
BY RunsInvariant, PTL DEF RunsInv

(* run_transitions is, for every run, a chain of legal edges from draft to *)
(* the status in runs.                                                     *)
THEOREM AuditIsChain == Spec => []AuditChain
BY RunsInvariant, PTL DEF RunsInv

(* The wall clock has started exactly when the log has entered running.    *)
THEOREM WallClockFollowsLog == Spec => []WallClockStarted
BY RunsInvariant, PTL DEF RunsInv

(* COALESCE keeps the first entry into running.                            *)
THEOREM WallClockNeverMoves == Spec => WallClockFixed
<1>1. RunsInv /\ [Next]_vars =>
        [\A r \in RunIds : wallStarted[r] # Never => wallStarted'[r] = wallStarted[r]]_vars
  <2> SUFFICES ASSUME RunsInv, Next, NEW d \in RunIds, wallStarted[d] # Never
               PROVE  wallStarted'[d] = wallStarted[d]
    OBVIOUS
  <2>1. ASSUME NEW r \in RunIds, NEW to \in RunStatus, NEW t \in 0..now, Transition(r, to, t)
        PROVE  wallStarted'[d] = wallStarted[d]
    BY <2>1, TransitionEffect
  <2> QED
    BY <2>1 DEF Next, Create, ObserveTokens, Tick
<1> QED
  BY <1>1, RunsInvariant, PTL DEF Spec, WallClockFixed

(* No edge leaves completed, failed or cancelled, and nothing else writes  *)
(* the status or the log of an existing run.                               *)
THEOREM TerminalStays == Spec => TerminalIsFinal
<1>1. RunsInv /\ [Next]_vars =>
        [\A r \in RunIds : IsTerminal(status[r]) =>
            /\ status'[r] = status[r]
            /\ transitions'[r] = transitions[r]]_vars
  <2> SUFFICES ASSUME RunsInv, Next, NEW d \in RunIds, IsTerminal(status[d])
               PROVE  status'[d] = status[d] /\ transitions'[d] = transitions[d]
    OBVIOUS
  <2>1. ASSUME NEW r \in RunIds, NEW p \in RunIds \cup {NoRun}, Create(r, p)
        PROVE  status'[d] = status[d] /\ transitions'[d] = transitions[d]
    <3>1. d # r
      BY <2>1 DEF Create, Exists, IsTerminal
    <3> QED
      BY <2>1, <3>1 DEF Create, RunsInv, TypeOK
  <2>2. ASSUME NEW r \in RunIds, NEW to \in RunStatus, NEW t \in 0..now, Transition(r, to, t)
        PROVE  status'[d] = status[d] /\ transitions'[d] = transitions[d]
    <3>1. d # r
      BY <2>2, EdgesOfRuns DEF Transition
    <3> QED
      BY <2>2, <3>1, TransitionEffect
  <2> QED
    BY <2>1, <2>2 DEF Next, ObserveTokens, Tick
<1> QED
  BY <1>1, RunsInvariant, PTL DEF Spec, TerminalIsFinal

-----------------------------------------------------------------------------
(* The parents of a run.                                                   *)

(* The runs that exist, and how many they are.                             *)
Made == {r \in RunIds : Exists(r)}
Tally == Cardinality(Made)

(* The runs that exist have depths: a root none, a child one more than its *)
(* parent, which exists, and no depth reaches the number of runs.  A run   *)
(* is created under a parent that is already there, so it is the last of   *)
(* its chain: this is what the walk's end rests on.                        *)
Ranks(g) ==
    /\ g \in [Made -> Nat]
    /\ \A r \in Made :
          /\ parent[r] = NoRun \/ parent[r] \in Made
          /\ g[r] = IF parent[r] = NoRun THEN 0 ELSE g[parent[r]] + 1
          /\ g[r] < Tally
Ranked == IsFiniteSet(Made) /\ \E g : Ranks(g)

(* Induction, for a set of numbers.                                        *)
LEMMA Counted ==
    ASSUME NEW T, 0 \in T, \A n \in Nat : n \in T => n + 1 \in T
    PROVE  Nat \subseteq T
<1> SUFFICES ASSUME Nat \ T # {} PROVE FALSE
  OBVIOUS
<1>1. PICK R : R = OpToRel(<, Nat)
  OBVIOUS
<1>2. IsWellFoundedOn(R, Nat)
  BY <1>1, NatLessThanWellFounded
<1>3. \A m, n \in Nat : m < n => <<m, n>> \in R
  BY <1>1 DEF OpToRel
<1>4. PICK n \in Nat \ T : \A m \in Nat \ T : ~(<<m, n>> \in R)
  BY <1>2, WFMin
<1>5. n - 1 \in Nat /\ n - 1 < n /\ (n - 1) + 1 = n
  OBVIOUS
<1>6. n - 1 \notin T
  BY <1>4, <1>5
<1> QED
  BY <1>3, <1>4, <1>5, <1>6

(* There is no run at first.                                               *)
LEMMA RankedInit == Init => Ranked
<1> SUFFICES ASSUME Init PROVE Ranked
  OBVIOUS
<1>1. Made = {}
  BY DEF Init, Made, Exists
<1>2. PICK g : g = [r \in Made |-> 0]
  OBVIOUS
<1>3. Ranks(g)
  BY <1>1, <1>2 DEF Ranks
<1> QED
  BY <1>1, <1>3, FS_EmptySet DEF Ranked

(* A run is created below its parent; nothing else changes a parent.       *)
LEMMA RankedNext == TypeOK /\ Ranked /\ [Next]_vars => Ranked'
<1> SUFFICES ASSUME TypeOK, Ranked, [Next]_vars PROVE Ranked'
  OBVIOUS
<1>1. PICK g : Ranks(g)
  BY DEF Ranked
<1>2. IsFiniteSet(Made) /\ Tally \in Nat
  BY FS_CardinalityType DEF Ranked, Tally
<1>3. ASSUME Made' = Made, parent' = parent PROVE Ranked'
  <2>1. Ranks(g)'
    <3>1. Tally' = Tally
      BY <1>3 DEF Tally
    <3> QED
      BY <1>1, <1>3, <3>1 DEF Ranks
  <2> QED
    BY <1>2, <1>3, <2>1 DEF Ranked
<1>4. ASSUME NEW r \in RunIds, NEW p \in RunIds \cup {NoRun}, Create(r, p) PROVE Ranked'
  <2>1. r \notin Made /\ (p = NoRun \/ p \in Made) /\ p # r
    BY <1>4, RunsAssumption DEF Create, Made
  <2>2. /\ status' = [status EXCEPT ![r] = "draft"] /\ parent' = [parent EXCEPT ![r] = p]
    BY <1>4 DEF Create
  <2>3. Made' = Made \cup {r} /\ parent'[r] = p /\ \A s \in Made : parent'[s] = parent[s]
    BY <2>1, <2>2 DEF TypeOK, Made, Exists
  <2>4. IsFiniteSet(Made') /\ Tally' = Tally + 1
    <3>1. PICK M : M = Made
      OBVIOUS
    <3>2. IsFiniteSet(M \cup {r}) /\ Cardinality(M \cup {r}) = Cardinality(M) + 1
      BY <1>2, <2>1, <3>1, FS_AddElement
    <3> QED
      BY <2>3, <3>1, <3>2 DEF Tally
  <2>5. PICK h : h = [s \in Made \cup {r} |->
                        IF s # r THEN g[s] ELSE IF p = NoRun THEN 0 ELSE g[p] + 1]
    OBVIOUS
  <2>6. /\ g \in [Made -> Nat]
        /\ \A s \in Made : /\ parent[s] = NoRun \/ parent[s] \in Made
                           /\ g[s] = IF parent[s] = NoRun THEN 0 ELSE g[parent[s]] + 1
                           /\ g[s] < Tally
    BY <1>1 DEF Ranks
  <2>7. h \in [Made \cup {r} -> Nat] /\ h[r] = (IF p = NoRun THEN 0 ELSE g[p] + 1)
        /\ \A s \in Made : h[s] = g[s]
    BY <2>1, <2>5, <2>6
  <2>8. ASSUME NEW s \in Made \cup {r}
        PROVE  /\ parent'[s] = NoRun \/ parent'[s] \in Made \cup {r}
               /\ h[s] = IF parent'[s] = NoRun THEN 0 ELSE h[parent'[s]] + 1
               /\ h[s] < Tally + 1
    <3>1. CASE s = r
      BY <1>2, <2>1, <2>3, <2>6, <2>7, <3>1
    <3>2. CASE s \in Made
      BY <1>2, <2>1, <2>3, <2>6, <2>7, <3>2
    <3> QED
      BY <3>1, <3>2
  <2>9. Ranks(h)'
    BY <2>3, <2>4, <2>7, <2>8 DEF Ranks
  <2> QED
    BY <2>4, <2>9 DEF Ranked
<1>5. ASSUME NEW r \in RunIds, NEW to \in RunStatus, NEW t \in 0..now, Transition(r, to, t)
      PROVE  Ranked'
  <2>1. to # "absent" /\ Exists(r)
    BY <1>5 DEF Transition, RunStatus
  <2>2. Made' = Made /\ parent' = parent
    BY <1>5, <2>1 DEF Transition, TypeOK, Made, Exists
  <2> QED
    BY <1>3, <2>2
<1>6. ASSUME NEW r \in RunIds, NEW total \in 0..MaxTokens, NEW at \in 0..now,
             ObserveTokens(r, total, at)
      PROVE  Ranked'
  BY <1>3, <1>6 DEF ObserveTokens, Made, Exists
<1>7. CASE Tick \/ UNCHANGED vars
  BY <1>3, <1>7 DEF Tick, vars, Made, Exists
<1> QED
  BY <1>4, <1>5, <1>6, <1>7 DEF Next

(* The recursion of ParentWalk, with its length as a parameter.            *)
Walks(f, r, n) ==
    f = [k \in 0..n |-> IF k = 0 THEN r
                        ELSE IF f[k - 1] = NoRun THEN NoRun ELSE parent[f[k - 1]]]

(* The recursion has a solution: there is a walk of any length.            *)
LEMMA WalksExist ==
    ASSUME NEW r PROVE \A n \in Nat : \E f : Walks(f, r, n)
<1> DEFINE T == {n \in Nat : \E f : Walks(f, r, n)}
           Hop(x) == IF x = NoRun THEN NoRun ELSE parent[x]
<1>1. 0 \in T
  <2>1. PICK f : f = [k \in 0..0 |-> r]
    OBVIOUS
  <2>2. Walks(f, r, 0)
    BY <2>1 DEF Walks
  <2> QED
    BY <2>2
<1>2. ASSUME NEW n \in Nat, n \in T PROVE n + 1 \in T
  <2>1. PICK f : Walks(f, r, n)
    BY <1>2
  <2>2. PICK h : h = [k \in 0..(n + 1) |-> IF k = n + 1 THEN Hop(f[n]) ELSE f[k]]
    OBVIOUS
  <2>3. \A k \in 0..n : h[k] = f[k]
    BY <2>2
  <2>4. \A k \in 0..n : f[k] = IF k = 0 THEN r ELSE Hop(f[k - 1])
    BY <2>1 DEF Walks
  <2>5. h[n + 1] = Hop(f[n])
    BY <2>2
  <2> HIDE DEF Hop
  <2>6. ASSUME NEW k \in 0..(n + 1) PROVE h[k] = IF k = 0 THEN r ELSE Hop(h[k - 1])
    <3>1. CASE k = 0
      BY <2>3, <2>4, <3>1
    <3>2. CASE k \in 1..n
      <4>1. h[k] = f[k] /\ h[k - 1] = f[k - 1] /\ f[k] = Hop(f[k - 1])
        BY <2>3, <2>4, <3>2
      <4> QED
        BY <3>2, <4>1
    <3>3. CASE k = n + 1
      <4>1. h[n] = f[n] /\ k - 1 = n /\ k # 0
        BY <2>3, <3>3
      <4> QED
        BY <2>5, <3>3, <4>1
    <3> QED
      BY <3>1, <3>2, <3>3
  <2>7. h = [k \in 0..(n + 1) |-> h[k]]
    BY <2>2
  <2>8. Walks(h, r, n + 1)
    BY <2>6, <2>7 DEF Walks, Hop
  <2> QED
    BY <2>8
<1> HIDE DEF T
<1>3. Nat \subseteq T
  BY <1>1, <1>2, Counted
<1> QED
  BY <1>3 DEF T

(* The walk from a run climbs one rank a hop and is at its root after as   *)
(* many hops as its rank says; that is its depth.                          *)
LEMMA WalkClimbs ==
    ASSUME IsFiniteSet(RunIds), TypeOK, Ranked, NEW g, Ranks(g), NEW r \in Made
    PROVE  /\ ParentWalk(r)[Cardinality(RunIds)] = NoRun
           /\ \A n \in 0..g[r] : ParentWalk(r)[n] \in Made
           /\ Depth(r) = g[r]
<1>1. PICK N : N = Cardinality(RunIds)
  OBVIOUS
<1>2. N \in Nat /\ Tally \in Nat /\ Tally <= N
  <2>1. Made \subseteq RunIds
    BY DEF Made
  <2>2. Cardinality(Made) <= Cardinality(RunIds) /\ IsFiniteSet(Made)
    BY <2>1, FS_Subset
  <2>3. Cardinality(Made) \in Nat /\ Cardinality(RunIds) \in Nat
    BY <2>2, FS_CardinalityType
  <2> QED
    BY <1>1, <2>2, <2>3 DEF Tally
<1>3. PICK f : f = ParentWalk(r)
  OBVIOUS
<1>4. /\ f[0] = r
      /\ \A k \in 1..(N + 1) : f[k] = IF f[k - 1] = NoRun THEN NoRun ELSE parent[f[k - 1]]
  <2>1. PICK L : L = N + 1 /\ L \in Nat
    BY <1>2
  <2>2. \E w : w = [k \in 0..L |-> IF k = 0 THEN r
                                   ELSE IF w[k - 1] = NoRun THEN NoRun ELSE parent[w[k - 1]]]
    <3>1. PICK w : Walks(w, r, L)
      BY <2>1, WalksExist
    <3> QED
      BY <3>1 DEF Walks
  <2>3. f = CHOOSE w : w = [k \in 0..L |-> IF k = 0 THEN r
                                   ELSE IF w[k - 1] = NoRun THEN NoRun ELSE parent[w[k - 1]]]
    BY <1>1, <1>3, <2>1 DEF ParentWalk
  <2>4. f = [k \in 0..L |-> IF k = 0 THEN r
                            ELSE IF f[k - 1] = NoRun THEN NoRun ELSE parent[f[k - 1]]]
    BY <2>2, <2>3
  <2>5. \A k \in 0..L : f[k] = IF k = 0 THEN r
                            ELSE IF f[k - 1] = NoRun THEN NoRun ELSE parent[f[k - 1]]
    BY <2>4
  <2> QED
    BY <2>1, <2>5
<1>5. /\ g \in [Made -> Nat]
      /\ \A s \in Made : /\ s # NoRun /\ (parent[s] = NoRun \/ parent[s] \in Made)
                         /\ g[s] = IF parent[s] = NoRun THEN 0 ELSE g[parent[s]] + 1
                         /\ g[s] < Tally
  BY RunsAssumption DEF Ranks, Made
<1>6. PICK D : D = g[r] /\ D \in Nat /\ D < N
  <2>1. g[r] \in Nat /\ g[r] < Tally
    BY <1>5
  <2> QED
    BY <1>2, <2>1
<1> DEFINE Climbs(n) == /\ n <= D => (f[n] \in Made /\ g[f[n]] = D - n)
                        /\ n > D => f[n] = NoRun
           T == {n \in Nat : n <= N + 1 => Climbs(n)}
<1>7. 0 \in T
  BY <1>2, <1>4, <1>6
<1>8. ASSUME NEW n \in Nat, n \in T PROVE n + 1 \in T
  <2> SUFFICES ASSUME n + 1 <= N + 1
               PROVE  /\ n + 1 <= D => (f[n + 1] \in Made /\ g[f[n + 1]] = D - (n + 1))
                      /\ n + 1 > D => f[n + 1] = NoRun
    OBVIOUS
  <2>1. n + 1 \in 1..(N + 1) /\ (n + 1) - 1 = n /\ n <= N + 1
    BY <1>2
  <2>2. f[n + 1] = IF f[n] = NoRun THEN NoRun ELSE parent[f[n]]
    BY <1>4, <2>1
  <2>3. CASE n <= D
    <3>1. PICK s \in Made : s = f[n] /\ g[s] = D - n
      BY <1>8, <2>1, <2>3
    <3>2. f[n + 1] = parent[s] /\ g[s] \in Nat
      BY <1>5, <2>2, <3>1
    <3>3. CASE parent[s] = NoRun
      BY <1>5, <1>6, <2>3, <3>1, <3>2, <3>3
    <3>4. CASE parent[s] \in Made
      <4>1. parent[s] # NoRun /\ g[parent[s]] \in Nat
        BY <1>5, <3>4
      <4>2. g[s] = g[parent[s]] + 1
        BY <1>5, <4>1
      <4> QED
        BY <1>6, <3>1, <3>2, <3>4, <4>1, <4>2
    <3> QED
      BY <1>5, <3>3, <3>4
  <2>4. CASE n > D
    BY <1>6, <1>8, <2>1, <2>2, <2>4
  <2> QED
    BY <1>6, <2>3, <2>4
<1> HIDE DEF T
<1>9. Nat \subseteq T
  BY <1>7, <1>8, Counted
<1>10. \A n \in 0..(N + 1) : /\ n <= D => f[n] \in Made
                             /\ n > D => f[n] = NoRun
  BY <1>2, <1>9 DEF T
<1>11. f[N] = NoRun /\ \A n \in 0..D : f[n] \in Made
  BY <1>2, <1>6, <1>10
<1>12. \A n \in 0..N : (f[n] # NoRun /\ f[n + 1] = NoRun) <=> n = D
  <2> SUFFICES ASSUME NEW n \in 0..N PROVE (f[n] # NoRun /\ f[n + 1] = NoRun) <=> n = D
    OBVIOUS
  <2>1. n \in 0..(N + 1) /\ n + 1 \in 0..(N + 1) /\ n \in Nat
    BY <1>2
  <2>2. n <= D => f[n] # NoRun
    BY <1>5, <1>10, <2>1
  <2>3. n + 1 <= D => f[n + 1] # NoRun
    BY <1>5, <1>10, <2>1
  <2>4. (n > D => f[n] = NoRun) /\ (n + 1 > D => f[n + 1] = NoRun)
    BY <1>10, <2>1
  <2> QED
    BY <1>6, <2>1, <2>2, <2>3, <2>4
<1>13. Depth(r) = D
  <2>1. Depth(r) = CHOOSE n \in 0..N : f[n] # NoRun /\ f[n + 1] = NoRun
    BY <1>1, <1>3 DEF Depth
  <2>2. D \in 0..N
    BY <1>2, <1>6
  <2> QED
    BY <1>12, <2>1, <2>2
<1> QED
  BY <1>1, <1>3, <1>6, <1>11, <1>13

(* run::depth, a loop with no bound of its own, ends for every run of any  *)
(* finite table: it reaches a root within as many hops as there are runs,  *)
(* over rows that exist, and a child is one deeper than its parent.        *)
THEOREM DepthEnds ==
    ASSUME IsFiniteSet(RunIds)
    PROVE  Spec => []DepthTerminates
<1>1. TypeOK /\ Ranked => DepthTerminates
  <2> SUFFICES ASSUME TypeOK, Ranked PROVE DepthTerminates
    OBVIOUS
  <2>1. PICK g : Ranks(g)
    BY DEF Ranked
  <2>2. ASSUME NEW r \in RunIds, Exists(r)
        PROVE  /\ ParentWalk(r)[Cardinality(RunIds)] = NoRun
               /\ \A n \in 0..Depth(r) : Exists(ParentWalk(r)[n])
               /\ Depth(r) = IF parent[r] = NoRun THEN 0 ELSE Depth(parent[r]) + 1
    <3>1. r \in Made
      BY <2>2 DEF Made
    <3>2. /\ ParentWalk(r)[Cardinality(RunIds)] = NoRun
          /\ \A n \in 0..g[r] : ParentWalk(r)[n] \in Made
          /\ Depth(r) = g[r]
      BY <2>1, <3>1, WalkClimbs
    <3>3. /\ parent[r] = NoRun \/ parent[r] \in Made
          /\ g[r] = IF parent[r] = NoRun THEN 0 ELSE g[parent[r]] + 1
      BY <2>1, <3>1 DEF Ranks
    <3>4. parent[r] \in Made => Depth(parent[r]) = g[parent[r]]
      BY <2>1, WalkClimbs
    <3>5. \A n \in 0..Depth(r) : Exists(ParentWalk(r)[n])
      BY <3>2 DEF Made
    <3> QED
      BY <3>2, <3>3, <3>4, <3>5
  <2> QED
    BY <2>2 DEF DepthTerminates
<1>2. Spec => []TypeOK
  BY RunsTyped
<1> QED
  BY <1>1, <1>2, RankedInit, RankedNext, PTL DEF Spec

-----------------------------------------------------------------------------
(* A client that is at its commit holds what it read.                      *)
LEMMA CommitIsTransition ==
    ASSUME TxInv, NEW c \in Clients, Commit(c)
    PROVE  /\ tx[c].run \in RunIds
           /\ tx[c].to \in RunStatus
           /\ tx[c].start \in 0..now
           /\ lock[tx[c].run] = c
           /\ Transition(tx[c].run, tx[c].to, tx[c].start)
<1>1. /\ tx[c] \in Tx
      /\ tx[c].run \in RunIds
      /\ now \in Nat
  BY DEF TxInv, TxTypeOK, TypeOK, Commit
<1>2. tx[c].to \in RunStatus /\ tx[c].start \in 0..now
  BY <1>1 DEF TxInv, LockedReadsHold, Tx
<1>3. /\ lock[tx[c].run] = c
      /\ tx[c].from = status[tx[c].run]
      /\ CanTransitionTo(tx[c].from, tx[c].to)
      /\ tx[c].seq = Len(transitions[tx[c].run]) + 1
  BY DEF TxInv, LockedReadsHold, Commit
<1>4. Exists(tx[c].run)
  BY <1>3, EdgesOfRuns DEF Exists, RunStatus
<1>5. Transition(tx[c].run, tx[c].to, tx[c].start)
  BY <1>3, <1>4 DEF Commit, Transition
<1> QED
  BY <1>1, <1>2, <1>3, <1>5

(* Every step of the transactions is a step of the table or leaves it be.  *)
LEMMA StepSimulation == TxInv /\ [TxNext]_txVars => [Next]_vars
<1> SUFFICES ASSUME TxInv, [TxNext]_txVars PROVE [Next]_vars
  OBVIOUS
<1>1. ASSUME NEW c \in Clients, Commit(c) PROVE Next
  BY <1>1, CommitIsTransition DEF Next
<1>2. CASE OtherStatement
  BY <1>2 DEF OtherStatement, Next
<1>3. ASSUME NEW c \in Clients, SelectForUpdate(c) \/ NextSeq(c) \/ Rollback(c)
      PROVE  UNCHANGED vars
  BY <1>3 DEF SelectForUpdate, NextSeq, Rollback
<1>4. ASSUME NEW c \in Clients, NEW r \in RunIds, NEW to \in RunStatus, Begin(c, r, to)
      PROVE  UNCHANGED vars
  BY <1>4 DEF Begin
<1> QED
  BY <1>1, <1>2, <1>3, <1>4 DEF TxNext, txVars

(* No client is in a transaction at the start.                             *)
LEMMA TxInvInit == TxInit => TxInv
<1> SUFFICES ASSUME TxInit PROVE TxInv
  OBVIOUS
<1>1. TypeOK /\ now = 0
  BY RunsInvInit DEF TxInit, RunsInv, Init
<1>2. NoTx \in Tx /\ NoTx.pc = "idle" /\ NoTx.start = 0
  BY DEF NoTx, Tx, RunStatus
<1>3. TxTypeOK
  BY <1>1, <1>2 DEF TxTypeOK, TxInit
<1>4. LockedReadsHold
  BY <1>1, <1>2 DEF LockedReadsHold, TxInit
<1> QED
  BY <1>3, <1>4 DEF TxInv

(* Client c goes over to transaction s and the table stays: s is true of   *)
(* the table, and the only locks to change hands are its own.              *)
ClientMove(c, s) ==
    /\ UNCHANGED vars
    /\ tx' = [tx EXCEPT ![c] = s]
    /\ lock' \in [RunIds -> Clients \cup {NoClient}]
    /\ s.pc # "idle" => s.run \in RunIds
    /\ s.start <= now
    /\ s.pc \in {"seq", "write"} =>
          /\ lock'[s.run] = c
          /\ s.from = status[s.run]
          /\ CanTransitionTo(s.from, s.to)
          /\ s.pc = "write" => s.seq = Len(transitions[s.run]) + 1
    /\ \A r \in RunIds :
          /\ lock[r] # lock'[r] => lock[r] \in {c, NoClient} /\ lock'[r] \in {c, NoClient}
          /\ lock'[r] = c => s.pc \in {"seq", "write"} /\ s.run = r

(* What the other clients have read still holds after such a step.         *)
LEMMA ClientStep ==
    ASSUME TxInv, NEW c \in Clients, NEW s \in Tx, ClientMove(c, s)
    PROVE  TxInv'
<1> USE DEF ClientMove
<1>1. /\ tx \in [Clients -> Tx]
      /\ tx'[c] = s
      /\ \A d \in Clients : d # c => tx'[d] = tx[d]
  BY DEF TxInv, TxTypeOK
<1>2. TxTypeOK'
  BY <1>1 DEF TxInv, TxTypeOK, TypeOK, vars
<1>3. \A d \in Clients : (tx[d].start <= now)'
  BY <1>1 DEF TxInv, LockedReadsHold, vars
<1>4. ASSUME NEW d \in Clients, tx'[d].pc \in {"seq", "write"}
      PROVE  /\ lock'[tx'[d].run] = d
             /\ tx'[d].from = status'[tx'[d].run]
             /\ CanTransitionTo(tx'[d].from, tx'[d].to)
             /\ tx'[d].pc = "write" => tx'[d].seq = Len(transitions'[tx'[d].run]) + 1
  <2>1. CASE d = c
    BY <1>1, <1>4, <2>1 DEF vars
  <2>2. CASE d # c
    <3>1. /\ tx[d].run \in RunIds
          /\ lock[tx[d].run] = d
          /\ tx[d].from = status[tx[d].run]
          /\ CanTransitionTo(tx[d].from, tx[d].to)
          /\ tx[d].pc = "write" => tx[d].seq = Len(transitions[tx[d].run]) + 1
      BY <1>1, <1>4, <2>2 DEF TxInv, TxTypeOK, LockedReadsHold
    <3>2. lock'[tx[d].run] = d
      BY <2>2, <3>1, ClientsAssumption
    <3> QED
      BY <1>1, <2>2, <3>1, <3>2 DEF vars
  <2> QED
    BY <2>1, <2>2
<1>5. ASSUME NEW r \in RunIds, lock'[r] # NoClient
      PROVE  tx'[lock'[r]].pc \in {"seq", "write"} /\ tx'[lock'[r]].run = r
  <2>1. CASE lock'[r] = c
    BY <1>1, <2>1
  <2>2. CASE lock'[r] # c
    <3>1. lock'[r] = lock[r] /\ lock'[r] \in Clients
      BY <1>5, <2>2
    <3> QED
      BY <1>1, <1>5, <2>2, <3>1 DEF TxInv, LockedReadsHold
  <2> QED
    BY <2>1, <2>2
<1>6. LockedReadsHold'
  BY <1>3, <1>4, <1>5 DEF LockedReadsHold
<1> QED
  BY <1>2, <1>6 DEF TxInv

(* A commit ends one transaction and moves its run, which no other         *)
(* transaction has read under the lock.                                    *)
LEMMA CommitStep ==
    ASSUME TxInv, TypeOK', NEW c \in Clients, Commit(c)
    PROVE  TxInv'
<1> DEFINE r == tx[c].run
<1>0. /\ tx \in [Clients -> Tx]
      /\ lock \in [RunIds -> Clients \cup {NoClient}]
      /\ r \in RunIds
      /\ lock[r] = c
      /\ Transition(r, tx[c].to, tx[c].start)
  BY CommitIsTransition DEF TxInv, TxTypeOK
<1>1. NoTx \in Tx /\ NoTx.pc = "idle" /\ NoTx.start = 0
  BY DEF NoTx, Tx, RunStatus
<1>2. /\ tx' = [tx EXCEPT ![c] = NoTx]
      /\ lock' = [lock EXCEPT ![r] = NoClient]
      /\ now' = now
  BY <1>0 DEF Commit, Transition
<1>3. \A d \in RunIds : d # r => status'[d] = status[d] /\ transitions'[d] = transitions[d]
  BY <1>0 DEF Transition, TxInv, TxTypeOK, TypeOK
<1>4. TxTypeOK'
  BY <1>0, <1>1, <1>2 DEF TxInv, TxTypeOK
<1>5. \A d \in Clients : (tx[d].start <= now)'
  <2>1. now \in Nat
    BY DEF TxInv, TxTypeOK, TypeOK
  <2> QED
    BY <1>0, <1>1, <1>2, <2>1 DEF TxInv, LockedReadsHold
<1>6. ASSUME NEW d \in Clients, tx'[d].pc \in {"seq", "write"}
      PROVE  /\ lock'[tx'[d].run] = d
             /\ tx'[d].from = status'[tx'[d].run]
             /\ CanTransitionTo(tx'[d].from, tx'[d].to)
             /\ tx'[d].pc = "write" => tx'[d].seq = Len(transitions'[tx'[d].run]) + 1
  <2>1. d # c /\ tx'[d] = tx[d]
    BY <1>0, <1>1, <1>2, <1>6
  <2>2. /\ tx[d].run \in RunIds
        /\ lock[tx[d].run] = d
        /\ tx[d].from = status[tx[d].run]
        /\ CanTransitionTo(tx[d].from, tx[d].to)
        /\ tx[d].pc = "write" => tx[d].seq = Len(transitions[tx[d].run]) + 1
    BY <1>6, <2>1 DEF TxInv, TxTypeOK, LockedReadsHold
  <2>3. tx[d].run # r
    BY <1>0, <2>1, <2>2
  <2> QED
    BY <1>0, <1>2, <1>3, <2>1, <2>2, <2>3
<1>7. ASSUME NEW d \in RunIds, lock'[d] # NoClient
      PROVE  tx'[lock'[d]].pc \in {"seq", "write"} /\ tx'[lock'[d]].run = d
  <2>1. d # r /\ lock'[d] = lock[d] /\ lock[d] \in Clients
    BY <1>0, <1>2, <1>7
  <2>2. tx[lock[d]].pc \in {"seq", "write"} /\ tx[lock[d]].run = d
    BY <1>7, <2>1 DEF TxInv, LockedReadsHold
  <2>3. lock[d] # c
    BY <2>1, <2>2
  <2> QED
    BY <1>0, <1>2, <2>1, <2>2, <2>3
<1>8. LockedReadsHold'
  BY <1>5, <1>6, <1>7 DEF LockedReadsHold
<1> QED
  BY <1>4, <1>8 DEF TxInv

(* The single-statement transactions touch no row that is locked: a        *)
(* creation makes a row that was not there, the others leave status and    *)
(* log alone.                                                              *)
LEMMA OtherStep ==
    ASSUME TxInv, TypeOK', OtherStatement
    PROVE  TxInv'
<1>1. /\ UNCHANGED <<lock, tx, transitions>>
      /\ now' \in Nat /\ now' >= now
      /\ \A d \in RunIds : Exists(d) => status'[d] = status[d]
  BY DEF OtherStatement, Create, ObserveTokens, Tick, TxInv, TxTypeOK, TypeOK, Exists
<1>2. TxTypeOK'
  BY <1>1 DEF TxInv, TxTypeOK
<1>3. \A d \in Clients : (tx[d].start <= now)'
  BY <1>1 DEF TxInv, TxTypeOK, LockedReadsHold, TypeOK, Tx
<1>4. \A d \in Clients : tx[d].pc \in {"seq", "write"} => Exists(tx[d].run) /\ tx[d].run \in RunIds
  BY EdgesOfRuns DEF TxInv, TxTypeOK, LockedReadsHold, Exists, RunStatus
<1>5. LockedReadsHold'
  BY <1>1, <1>3, <1>4 DEF TxInv, LockedReadsHold
<1> QED
  BY <1>2, <1>5 DEF TxInv

(* TxInv is inductive relative to RunsInv, from which the table's types    *)
(* come.                                                                   *)
LEMMA TxInvNext == TxInv /\ RunsInv /\ [TxNext]_txVars => TxInv'
<1> SUFFICES ASSUME TxInv, RunsInv, [TxNext]_txVars PROVE TxInv'
  OBVIOUS
<1>0. /\ tx \in [Clients -> Tx]
      /\ lock \in [RunIds -> Clients \cup {NoClient}]
      /\ now \in Nat
  BY DEF TxInv, TxTypeOK, TypeOK
<1>a. TypeOK'
  BY StepSimulation, RunsInvNext DEF RunsInv
<1>b. NoTx \in Tx /\ NoTx.pc = "idle" /\ NoTx.start = 0
  BY DEF NoTx, Tx, RunStatus
<1>c. \A c \in Clients, r \in RunIds :
          lock[r] = c => tx[c].pc \in {"seq", "write"} /\ tx[c].run = r
  BY ClientsAssumption DEF TxInv, LockedReadsHold
<1>1. ASSUME NEW c \in Clients, NEW r \in RunIds, NEW to \in RunStatus, Begin(c, r, to)
      PROVE  TxInv'
  <2> DEFINE s == [NoTx EXCEPT !.pc = "select", !.run = r, !.to = to, !.start = now]
  <2>1. s \in Tx /\ s.pc = "select" /\ s.run = r /\ s.start = now
    BY <1>0 DEF NoTx, Tx, RunStatus
  <2>2. \A q \in RunIds : lock[q] # c
    BY <1>1, <1>c DEF Begin
  <2>3. tx' = [tx EXCEPT ![c] = s] /\ lock' = lock /\ UNCHANGED vars
    BY <1>1 DEF Begin
  <2> HIDE DEF s
  <2>4. ClientMove(c, s)
    BY <1>0, <2>1, <2>2, <2>3 DEF ClientMove
  <2> QED
    BY <2>1, <2>4, ClientStep
<1>2. ASSUME NEW c \in Clients, SelectForUpdate(c)
      PROVE  TxInv'
  <2> DEFINE r == tx[c].run
  <2>1. r \in RunIds /\ tx[c] \in Tx /\ lock[r] = NoClient /\ UNCHANGED vars /\ tx[c].pc = "select"
    BY <1>0, <1>2 DEF SelectForUpdate, TxInv, TxTypeOK
  <2>2. \A q \in RunIds : lock[q] # c
    BY <1>c, <2>1
  <2>3. CASE Exists(r) /\ CanTransitionTo(status[r], tx[c].to)
    <3> DEFINE s == [tx[c] EXCEPT !.pc = "seq", !.from = status[r]]
    <3>1. status[r] \in RunStatus
      BY <2>3, EdgesOfRuns
    <3>2. /\ s \in Tx
          /\ s.pc = "seq" /\ s.run = r /\ s.from = status[r] /\ s.to = tx[c].to
          /\ s.start = tx[c].start
      BY <2>1, <3>1 DEF Tx
    <3>3. tx' = [tx EXCEPT ![c] = s] /\ lock' = [lock EXCEPT ![r] = c]
      BY <1>0, <1>2, <2>3 DEF SelectForUpdate
    <3>4. s.start <= now
      BY <3>2 DEF TxInv, LockedReadsHold
    <3>5. /\ lock' \in [RunIds -> Clients \cup {NoClient}]
          /\ lock'[r] = c
          /\ \A q \in RunIds : q # r => lock'[q] = lock[q]
      BY <1>0, <2>1, <3>3
    <3> HIDE DEF s
    <3>6. ClientMove(c, s)
      BY <2>1, <2>2, <2>3, <3>2, <3>3, <3>4, <3>5 DEF ClientMove
    <3> QED
      BY <3>2, <3>6, ClientStep
  <2>4. CASE ~(Exists(r) /\ CanTransitionTo(status[r], tx[c].to))
    <3>1. tx' = [tx EXCEPT ![c] = NoTx] /\ lock' = lock
      BY <1>2, <2>4 DEF SelectForUpdate
    <3>2. ClientMove(c, NoTx)
      BY <1>0, <1>b, <2>1, <2>2, <3>1 DEF ClientMove
    <3> QED
      BY <1>b, <3>2, ClientStep
  <2> QED
    BY <2>3, <2>4
<1>3. ASSUME NEW c \in Clients, NextSeq(c)
      PROVE  TxInv'
  <2> DEFINE r == tx[c].run
             s == [tx[c] EXCEPT !.pc = "write", !.seq = Len(transitions[r]) + 1]
  <2>1. r \in RunIds /\ tx[c] \in Tx /\ tx[c].pc = "seq" /\ UNCHANGED vars /\ lock' = lock
    BY <1>0, <1>3 DEF NextSeq, TxInv, TxTypeOK
  <2>2. Len(transitions[r]) + 1 \in Nat
    BY <2>1 DEF TxInv, TxTypeOK, TypeOK
  <2>3. /\ s \in Tx
        /\ s.pc = "write" /\ s.run = r /\ s.from = tx[c].from /\ s.to = tx[c].to
        /\ s.start = tx[c].start /\ s.seq = Len(transitions[r]) + 1
    BY <2>1, <2>2 DEF Tx
  <2>4. tx' = [tx EXCEPT ![c] = s]
    BY <1>0, <1>3 DEF NextSeq
  <2>5. /\ s.start <= now
        /\ lock[r] = c
        /\ s.from = status[r]
        /\ CanTransitionTo(s.from, s.to)
    BY <2>1, <2>3 DEF TxInv, LockedReadsHold
  <2> HIDE DEF s
  <2>6. ClientMove(c, s)
    BY <1>0, <1>c, <2>1, <2>3, <2>4, <2>5 DEF ClientMove
  <2> QED
    BY <2>3, <2>6, ClientStep
<1>4. ASSUME NEW c \in Clients, Commit(c)
      PROVE  TxInv'
  BY <1>4, <1>a, CommitStep
<1>5. ASSUME NEW c \in Clients, Rollback(c)
      PROVE  TxInv'
  <2>1. /\ tx' = [tx EXCEPT ![c] = NoTx]
        /\ UNCHANGED vars
        /\ lock' \in [RunIds -> Clients \cup {NoClient}]
        /\ \A r \in RunIds : lock'[r] = IF lock[r] = c THEN NoClient ELSE lock[r]
    BY <1>0, <1>5 DEF Rollback
  <2>2. ClientMove(c, NoTx)
    BY <1>0, <1>b, <2>1, ClientsAssumption DEF ClientMove
  <2> QED
    BY <1>b, <2>2, ClientStep
<1>6. CASE OtherStatement
  BY <1>6, <1>a, OtherStep
<1>7. CASE UNCHANGED txVars
  BY <1>7 DEF TxInv, TxTypeOK, TypeOK, LockedReadsHold, txVars, vars
<1> QED
  BY <1>1, <1>2, <1>3, <1>4, <1>5, <1>6, <1>7 DEF TxNext

(* While a transaction holds the row lock its reads stay true, whatever    *)
(* the other clients do between its statements.                            *)
THEOREM LockedReadsInvariant == TxSpec => [](TxInv /\ RunsInv)
<1>1. TxInit => TxInv /\ RunsInv
  BY TxInvInit, RunsInvInit DEF TxInit
<1>2. TxInv /\ RunsInv /\ [TxNext]_txVars => (TxInv /\ RunsInv)'
  BY TxInvNext, StepSimulation, RunsInvNext
<1> QED
  BY <1>1, <1>2, PTL DEF TxSpec

(* The transactions of concurrent clients implement the atomic run table:  *)
(* SELECT ... FOR UPDATE makes check, numbering and write one step.        *)
THEOREM TransactionsImplementRuns == TxSpec => ImplementsRuns
<1>1. TxInit => Init
  BY DEF TxInit
<1> QED
  BY <1>1, StepSimulation, LockedReadsInvariant, PTL DEF TxSpec, ImplementsRuns, Spec

(* So the log of concurrent clients is a chain of legal edges that replays *)
(* to the status, and the wall clock follows it.                           *)
THEOREM TransactionsAreAudited == TxSpec => [](AuditChain /\ WallClockStarted)
BY LockedReadsInvariant, PTL DEF RunsInv
=============================================================================
