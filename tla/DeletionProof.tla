---------------------------- MODULE DeletionProof ----------------------------
(***************************************************************************)
(* Proofs about Deletion, for any executors, writers, keys and bounds.     *)
(*                                                                         *)
(* DeletionInv is inductive.  What it says of an executor, WorkerSound, is *)
(* about the rows and one executor's state, so a step needs two arguments: *)
(* wherever an executor stands it stays sound under the change of the      *)
(* rows, and the one that moves is sound where it arrives (SoundStep).     *)
(* NothingLeftBehind and FrozenStays follow from it and from what a step   *)
(* may do to the manifest and the owed keys (Effect).                      *)
(***************************************************************************)
EXTENDS Deletion, WellFoundedInduction, TLAPS

\* The stages by name.
LEMMA StageSets ==
    /\ Stages = {"submitted", "inventoried", "approved", "fenced", "drained",
                 "bindings_removed", "postgres_purged", "cache_purged",
                 "logically_verified", "retention_pending", "none", "aborted"}
    /\ Runnable = {"approved", "fenced", "drained", "bindings_removed",
                   "postgres_purged", "cache_purged", "logically_verified"}
    /\ Destructive = {"drained", "bindings_removed", "postgres_purged", "cache_purged",
                      "logically_verified", "retention_pending"}
    /\ {Chain[i] : i \in 4..8} = {"fenced", "drained", "bindings_removed",
                                  "postgres_purged", "cache_purged"}
    /\ Chain[9] = "logically_verified" /\ Chain[10] = "retention_pending"
<1>1. 1..10 = {1, 2, 3, 4, 5, 6, 7, 8, 9, 10} /\ 3..9 = {3, 4, 5, 6, 7, 8, 9}
      /\ 5..10 = {5, 6, 7, 8, 9, 10} /\ 4..8 = {4, 5, 6, 7, 8}
  OBVIOUS
<1>2. /\ Chain[1] = "submitted" /\ Chain[2] = "inventoried" /\ Chain[3] = "approved"
      /\ Chain[4] = "fenced" /\ Chain[5] = "drained" /\ Chain[6] = "bindings_removed"
      /\ Chain[7] = "postgres_purged" /\ Chain[8] = "cache_purged"
      /\ Chain[9] = "logically_verified" /\ Chain[10] = "retention_pending"
  BY DEF Chain
<1> QED
  BY <1>1, <1>2 DEF Stages, Runnable, Destructive

\* A set of natural numbers has a least one.
LEMMA Least ==
    ASSUME NEW S \in SUBSET Nat, S # {}
    PROVE  \E m \in S : \A n \in S : m <= n
<1>1. PICK m \in S : \A n \in S : ~ (<<n, m>> \in OpToRel(<, Nat))
  BY NatLessThanWellFounded, WFMin
<1>2. \A n \in S : <<n, m>> \notin OpToRel(<, Nat) => ~ (n < m)
  BY DEF OpToRel
<1>3. \A n \in S : ~ (n < m)
  BY <1>1, <1>2, Zenon
<1> QED
  BY <1>3

\* The executor e moves: the others stay where they are.
Moves(e) ==
    exec' \in [Executors -> Executor] /\ \A f \in Executors : f # e => exec'[f] = exec[f]

\* The places and the state that a Goto leaves an executor with.
LEMMA GotoMoves ==
    ASSUME TypeOK, NEW e \in Executors, NEW at \in Places, Goto(e, at)
    PROVE  /\ Moves(e)
           /\ exec'[e] \in Executor
           /\ exec'[e].at = at /\ exec'[e].ok = FALSE /\ exec'[e].gen = exec[e].gen
           /\ exec'[e].no = exec[e].no /\ exec'[e].key = exec[e].key
           /\ exec'[e].seen = exec[e].seen
<1> DEFINE x == [exec[e] EXCEPT !.at = at, !.ok = FALSE]
<1>1. exec' = [exec EXCEPT ![e] = x]
  BY DEF TypeOK, Goto
<1>2. exec[e] \in Executor
  BY DEF TypeOK
<1>3. /\ x \in Executor /\ x.at = at /\ x.ok = FALSE /\ x.gen = exec[e].gen
      /\ x.no = exec[e].no /\ x.key = exec[e].key /\ x.seen = exec[e].seen
  BY <1>2 DEF Executor
<1> HIDE DEF x
<1> QED
  BY <1>1, <1>3 DEF TypeOK, Moves

\* An executor that gives up is idle, and idle is a sound place to be.
LEMMA IdleMoves ==
    ASSUME TypeOK, NEW e \in Executors, exec' = [exec EXCEPT ![e] = Idle]
    PROVE  Moves(e) /\ exec'[e] = Idle /\ Idle \in Executor
<1>1. Idle \in Executor
  BY DEF Idle, Executor, Places
<1> QED
  BY <1>1 DEF TypeOK, Moves

\* An idle executor has nothing to be wrong about.
LEMMA IdleIsSound ==
    ASSUME TypeOK PROVE WorkerSound(Idle)
  BY DEF Idle, TypeOK, Request, WorkerSound, Listing, AfterDrain, BeforeListing, Deleting

\* An executor that leaves its place did not wait for a delete there, or it
\* gives its claim up, or it has just got a new one.
Leaves(e) ==
    \/ exec'[e].at = "idle"
    \/ exec[e].at \notin {"idle", "deleting"} /\ exec'[e].gen = exec[e].gen
    \/ exec'[e].gen > request.gen

\* The stage of a request only moves on.
Onward ==
    /\ request'.gen >= request.gen
    /\ request.frozen # {} => request'.frozen # {}
    /\ request.stage \in Destructive => request'.stage \in Destructive
    /\ request.stage \notin Early => request'.stage \notin Early
    /\ request'.stage = "fenced" => request.stage \in Early \cup {"fenced"}

\* Where the request moves on and nothing else that executors rely on
\* changes, they stay sound wherever they are.
LEMMA SoundOnward ==
    ASSUME DeletionInv, Onward, request' \in Request, UNCHANGED <<chunks, objects, late>>,
           NEW x \in Executor, WorkerSound(x)
    PROVE  WorkerSound(x)'
<1>1. request.gen \in Nat /\ request'.gen \in Nat /\ x.gen \in Nat
  BY DEF DeletionInv, TypeOK, Request, Executor
<1> QED
  BY <1>1 DEF WorkerSound, Onward, Owed

\* A step after which executors that stayed are still sound, and those that
\* moved are sound and left no delete behind, keeps the invariant if it
\* keeps what ties the rows to each other.
LEMMA SoundStep ==
    ASSUME DeletionInv, TypeOK', UnexpiredIsCurrent', RowsAgree', ManifestHolds',
           request'.gen >= request.gen, deletes' = deletes,
           \A x \in Executor : WorkerSound(x) => WorkerSound(x)',
           \A f \in Executors : exec'[f] = exec[f] \/ (WorkerSound(exec[f])' /\ Leaves(f))
    PROVE  DeletionInv'
<1>1. ASSUME NEW f \in Executors PROVE WorkerSound(exec[f])'
  <2>1. CASE exec'[f] = exec[f]
    <3>1. exec[f] \in Executor /\ WorkerSound(exec[f])
      BY DEF DeletionInv, TypeOK
    <3> QED
      BY <2>1, <3>1 DEF WorkerSound
  <2> QED
    BY <2>1
<1>2. DeletesAwaited'
  <2>1. ASSUME NEW d \in deletes
        PROVE  /\ d.gen <= request'.gen
               /\ exec'[d.by].at # "idle" /\ exec'[d.by].gen = d.gen =>
                    exec'[d.by].at = "deleting" /\ exec'[d.by].key = d.key
    <3>1. /\ d.by \in Executors /\ d.gen \in Nat /\ request.gen \in Nat /\ request'.gen \in Nat
          /\ exec'[d.by].gen \in Nat
      BY DEF DeletionInv, TypeOK, Delete, Request, Executor
    <3> QED
      BY <3>1 DEF DeletionInv, DeletesAwaited, Leaves
  <2> QED
    BY <2>1 DEF DeletesAwaited
<1> QED
  BY <1>1, <1>2 DEF DeletionInv

\* A step of the request and of at most one executor, who leaves its place.
LEMMA RequestMoves ==
    ASSUME DeletionInv, Onward, request' \in Request, community' \in Community,
           RetriesBounded',
           UNCHANGED <<chunks, serving, objects, deletes, hist>>,
           faults' \in 0..MaxFaults,
           exec' \in [Executors -> Executor],
           \A f \in Executors : exec'[f] = exec[f] \/ (WorkerSound(exec[f])' /\ Leaves(f)),
           UnexpiredIsCurrent', RowsAgree', ManifestHolds'
    PROVE  DeletionInv'
<1>1. TypeOK'
  BY DEF DeletionInv, TypeOK, serving, hist
<1>2. \A x \in Executor : WorkerSound(x) => WorkerSound(x)'
  BY SoundOnward DEF hist
<1> QED
  BY <1>1, <1>2, SoundStep DEF Onward

\* A step that only moves an executor.
LEMMA ExecutorMoves ==
    ASSUME DeletionInv, NEW e \in Executors, Moves(e), WorkerSound(exec'[e]), Leaves(e),
           UNCHANGED <<community, request, chunks, serving, objects, deletes, hist>>,
           faults' \in 0..MaxFaults
    PROVE  DeletionInv'
<1>1. UnexpiredIsCurrent' /\ RowsAgree' /\ ManifestHolds'
  BY DEF DeletionInv, UnexpiredIsCurrent, Current, RowsAgree, ManifestHolds, Owed,
         serving, hist
<1>2. WorkerSound(exec[e])'
  BY DEF WorkerSound, Owed, hist
<1>3. request' \in Request /\ community' \in Community /\ Onward /\ RetriesBounded'
  BY DEF DeletionInv, TypeOK, Onward, Request, RetriesBounded
<1>4. \A f \in Executors : exec'[f] = exec[f] \/ (WorkerSound(exec[f])' /\ Leaves(f))
  BY <1>2 DEF Moves
<1>5. UNCHANGED <<chunks, serving, objects, deletes, hist>>
  OBVIOUS
<1>6. exec' \in [Executors -> Executor]
  BY DEF Moves
<1> QED
  BY <1>1, <1>3, <1>4, <1>5, <1>6, RequestMoves

---------------------------------------------------------------------------
(* Steps that only move an executor.                                       *)

\* Faults stay within their bound.
LEMMA FaultsTyped ==
    ASSUME TypeOK, Fault \/ UNCHANGED faults PROVE faults' \in 0..MaxFaults
BY BoundsAssumption DEF TypeOK, Fault

\* execute_stage dispatches on the stage it has just read: it sends an executor
\* no further than the request has come.
LEMMA NextStageStep ==
    ASSUME DeletionInv, NEW e \in Executors, NextStage(e) PROVE DeletionInv'
<1> DEFINE at == FirstStep[request.stage]
<1>1. /\ at \in Places \ {"idle", "next"}
      /\ at \notin Listing \cup {"append", "clear", "mark_drained", "stamp", "mark_removed"} \cup Deleting
      /\ at = "drain" => request.stage \notin Early
      /\ at \in AfterDrain => request.stage \in Destructive
  BY StageSets DEF NextStage, FirstStep, Places, Listing, Deleting, AfterDrain, Early
<1>2. TypeOK /\ WorkerSound(exec[e])
  BY DEF DeletionInv
<1>3. /\ Moves(e) /\ exec'[e].at = at /\ exec'[e].gen = exec[e].gen
      /\ exec'[e].key = exec[e].key /\ exec[e].at = "next"
  BY <1>1, <1>2, GotoMoves DEF NextStage
<1> HIDE DEF at
<1>4. WorkerSound(exec'[e])
  BY <1>1, <1>2, <1>3 DEF WorkerSound, BeforeListing
<1> QED
  BY <1>2, <1>3, <1>4, ExecutorMoves, FaultsTyped DEF NextStage, Leaves

\* The drain check sends an executor to the chunks, or past them when the
\* manifest is frozen.
LEMMA CheckDrainedStep ==
    ASSUME DeletionInv, NEW e \in Executors, CheckDrained(e) PROVE DeletionInv'
<1> DEFINE at == IF request.frozen = {} THEN "clear" ELSE "mark_drained"
<1>1. at \in Places /\ TypeOK /\ WorkerSound(exec[e]) /\ exec[e].at = "drain"
  BY DEF Places, DeletionInv, CheckDrained
<1>2. /\ Moves(e) /\ exec'[e].at = at /\ exec'[e].gen = exec[e].gen
      /\ exec'[e].key = exec[e].key
  BY <1>1, GotoMoves DEF CheckDrained
<1>3. WorkerSound(exec'[e])
  BY <1>1, <1>2 DEF WorkerSound, BeforeListing, Listing, AfterDrain, Deleting
<1> QED
  BY <1>1, <1>2, <1>3, ExecutorMoves, FaultsTyped DEF CheckDrained, Leaves

\* verify_lease_and_fence changes only that the check was made.
LEMMA VerifyStep ==
    ASSUME DeletionInv, NEW e \in Executors, Verify(e) PROVE DeletionInv'
<1>1. TypeOK /\ exec[e] \in Executor /\ WorkerSound(exec[e])
  BY DEF DeletionInv, TypeOK
<1>2. /\ exec' = [exec EXCEPT ![e] = [exec[e] EXCEPT !.ok = TRUE]]
      /\ exec[e].at \in {"clear", "append", "delete", "stamp"}
  BY DEF Verify
<1>3. Moves(e)
  BY <1>1, <1>2 DEF Moves, TypeOK, Executor
<1>4. /\ exec'[e].at = exec[e].at /\ exec'[e].gen = exec[e].gen /\ exec'[e].no = exec[e].no
      /\ exec'[e].key = exec[e].key /\ exec'[e].seen = exec[e].seen
  BY <1>1, <1>2 DEF TypeOK, Executor
<1>5. WorkerSound(exec'[e])
  BY <1>1, <1>4 DEF WorkerSound
<1> QED
  BY <1>1, <1>2, <1>3, <1>4, <1>5, ExecutorMoves, FaultsTyped DEF Verify, Leaves

\* verify_storage_absence moves only its executor.
LEMMA VerifyAbsenceStep ==
    ASSUME DeletionInv, NEW e \in Executors, VerifyAbsence(e) PROVE DeletionInv'
<1>1. TypeOK /\ WorkerSound(exec[e]) /\ exec[e].at = "verify_absence"
  BY DEF DeletionInv, VerifyAbsence
<1>2. /\ Moves(e) /\ exec'[e].at = "mark_verified" /\ exec'[e].gen = exec[e].gen
  BY <1>1, GotoMoves DEF VerifyAbsence, Places
<1>3. WorkerSound(exec'[e])
  BY <1>1, <1>2 DEF WorkerSound, BeforeListing, Listing, AfterDrain, Deleting
<1> QED
  BY <1>1, <1>2, <1>3, ExecutorMoves, FaultsTyped DEF VerifyAbsence, Leaves

\* An executor that dies or finds its claim gone leaves the rows alone.
LEMMA GiveUpStep ==
    ASSUME DeletionInv, NEW e \in Executors, GiveUp(e) PROVE DeletionInv'
<1>1. TypeOK /\ (Fault \/ UNCHANGED faults)
  BY DEF DeletionInv, GiveUp
<1>2. Moves(e) /\ exec'[e] = Idle
  BY <1>1, IdleMoves DEF GiveUp
<1> QED
  BY <1>1, <1>2, IdleIsSound, ExecutorMoves, FaultsTyped DEF GiveUp, Leaves, Idle

\* The next key in order: every owed key up to it has been seen then.
LEMMA ListPageStep ==
    ASSUME DeletionInv, NEW e \in Executors, ListPage(e) PROVE DeletionInv'
<1> DEFINE ahead == {k \in objects : k > exec[e].key}
           m == CHOOSE k \in ahead : \A l \in ahead : k <= l
<1>1. TypeOK /\ exec[e] \in Executor /\ WorkerSound(exec[e]) /\ exec[e].at = "list"
  BY DEF DeletionInv, TypeOK, ListPage
<1>2. ahead \subseteq Nat /\ objects \subseteq Keys /\ objects \subseteq Nat /\ exec[e].key \in Nat
  <2>1. objects \subseteq Keys
    BY <1>1 DEF TypeOK
  <2>2. objects \subseteq Nat
    BY <2>1, KeysAssumption
  <2>3. exec[e].key \in Nat
    BY <1>1, KeysAssumption DEF Executor
  <2> QED
    BY <2>1, <2>2, <2>3
<1>3. CASE ahead = {}
  <2>1. exec' = [exec EXCEPT ![e] = [exec[e] EXCEPT !.at = "freeze"]]
    BY <1>3 DEF ListPage
  <2>2. Moves(e)
    BY <1>1, <2>1 DEF Moves, TypeOK, Executor, Places
  <2>3. /\ exec'[e].at = "freeze" /\ exec'[e].gen = exec[e].gen
        /\ exec'[e].key = exec[e].key /\ exec'[e].seen = exec[e].seen
    BY <1>1, <2>1 DEF TypeOK, Executor
  <2>4. \A k \in objects : k <= exec[e].key
    BY <1>2, <1>3
  <2>5. WorkerSound(exec'[e])
    BY <1>1, <2>3, <2>4 DEF WorkerSound, BeforeListing, Listing, AfterDrain, Deleting, Owed
  <2> QED
    BY <1>1, <2>2, <2>3, <2>5, ExecutorMoves, FaultsTyped DEF ListPage, Leaves
<1>4. CASE ahead # {}
  <2>1. m \in ahead /\ \A l \in ahead : m <= l
    BY <1>2, <1>4, Least
  <2>2. m \in Keys /\ m \in Nat /\ m # 0
    BY <1>2, <2>1, KeysAssumption
  <2>9. \A l \in objects : l <= m => l <= exec[e].key \/ l = m
    <3>1. SUFFICES ASSUME NEW l \in objects, l <= m, ~ (l <= exec[e].key) PROVE l = m
      OBVIOUS
    <3>2. l \in Nat /\ l \in ahead
      BY <1>2, <3>1
    <3>3. m <= l
      BY <2>1, <3>2
    <3> HIDE DEF m
    <3> QED
      BY <2>2, <3>1, <3>2, <3>3
  <2> DEFINE x == [exec[e] EXCEPT !.at = "append", !.key = m, !.seen = @ \cup {m}]
  <2> HIDE DEF m
  <2>3. exec' = [exec EXCEPT ![e] = x]
    <3>1. exec' = [exec EXCEPT ![e].at = "append", ![e].key = m, ![e].seen = @ \cup {m}]
      BY <1>4, Zenon DEF ListPage, m
    <3> QED
      BY <1>1, <3>1 DEF TypeOK
  <2>4. /\ x \in Executor /\ x.at = "append" /\ x.gen = exec[e].gen /\ x.key = m
        /\ x.seen = exec[e].seen \cup {m}
    BY <1>1, <2>2 DEF Executor, Places
  <2> HIDE DEF x
  <2>5. Moves(e) /\ exec'[e] = x
    BY <1>1, <2>3, <2>4 DEF Moves, TypeOK
  <2>6. WorkerSound(x)
    BY <1>1, <2>2, <2>9, <2>4 DEF WorkerSound, BeforeListing, Listing, AfterDrain, Deleting, Owed
  <2> QED
    BY <1>1, <2>4, <2>5, <2>6, ExecutorMoves, FaultsTyped DEF ListPage, Leaves
<1> QED
  BY <1>3, <1>4

\* The first chunk not stamped; without one, all are.
LEMMA PickChunkStep ==
    ASSUME DeletionInv, NEW e \in Executors, PickChunk(e) PROVE DeletionInv'
<1> DEFINE pending == {c \in chunks : ~c.gone}
           m == CHOOSE c \in pending : \A d \in pending : c.no <= d.no
<1>1. TypeOK /\ exec[e] \in Executor /\ WorkerSound(exec[e]) /\ exec[e].at = "pick"
  BY DEF DeletionInv, TypeOK, PickChunk
<1>2. request.stage \in Destructive
  BY <1>1 DEF WorkerSound, AfterDrain
<1>3. CASE pending = {}
  <2>1. Moves(e) /\ exec'[e].at = "mark_removed" /\ exec'[e].gen = exec[e].gen
    BY <1>1, <1>3, GotoMoves DEF PickChunk, Places
  <2>2. WorkerSound(exec'[e])
    BY <1>1, <1>2, <1>3, <2>1 DEF WorkerSound, BeforeListing, Listing, AfterDrain, Deleting, TypeOK, Chunk
  <2> QED
    BY <1>1, <2>1, <2>2, ExecutorMoves, FaultsTyped DEF PickChunk, Leaves
<1>4. CASE pending # {}
  <2>1. \E c \in pending : \A d \in pending : c.no <= d.no
    <3>1. {c.no : c \in pending} \subseteq Nat /\ {c.no : c \in pending} # {}
      BY <1>1, <1>4 DEF TypeOK, Chunk
    <3>2. PICK n \in {c.no : c \in pending} : \A k \in {c.no : c \in pending} : n <= k
      BY <3>1, Least
    <3> QED
      BY <3>2
  <2>2. m \in pending
    BY <2>1
  <2>3. m \in Chunk /\ m.key # 0
    BY <1>1, <2>2, KeysAssumption DEF TypeOK, Chunk
  <2> DEFINE x == [exec[e] EXCEPT !.at = "delete", !.ok = FALSE, !.no = m.no, !.key = m.key]
  <2> HIDE DEF m
  <2>4. exec' = [exec EXCEPT ![e] = x]
    BY <1>1, <1>4 DEF PickChunk, TypeOK, m
  <2>5. x \in Executor /\ x.at = "delete" /\ x.gen = exec[e].gen /\ x.no = m.no /\ x.key = m.key
    BY <1>1, <2>3 DEF Executor, Chunk, Places
  <2> HIDE DEF x
  <2>6. Moves(e) /\ exec'[e] = x
    BY <1>1, <2>4, <2>5 DEF Moves, TypeOK
  <2>7. \A c \in chunks : c.no = m.no => c = m
    BY <1>1, <2>2 DEF TypeOK
  <2>8. WorkerSound(x)
    BY <1>1, <1>2, <2>3, <2>5, <2>7
       DEF WorkerSound, BeforeListing, Listing, AfterDrain, Deleting
  <2> QED
    BY <1>1, <2>5, <2>6, <2>8, ExecutorMoves, FaultsTyped DEF PickChunk, Leaves
<1> QED
  BY <1>3, <1>4

---------------------------------------------------------------------------
(* Steps that change the request without moving its stage.                 *)

\* A change of the claim, the block or the retries leaves what ties the rows
\* together.
LEMMA StageKept ==
    ASSUME DeletionInv, request' \in Request, request'.gen >= request.gen,
           request'.stage = request.stage, request'.frozen = request.frozen,
           UNCHANGED <<community, chunks, serving, objects, deletes, hist>>
    PROVE  Onward /\ UnexpiredIsCurrent' /\ RowsAgree' /\ ManifestHolds' /\ community' \in Community
<1>1. Onward
  BY DEF Onward
<1>2. UnexpiredIsCurrent' /\ RowsAgree' /\ ManifestHolds'
  BY DEF DeletionInv, UnexpiredIsCurrent, Current, RowsAgree, ManifestHolds, Owed,
         serving, hist
<1>3. community' \in Community
  BY DEF DeletionInv, TypeOK
<1> QED
  BY <1>1, <1>2, <1>3

\* An operator or the clock: no executor moves.
LEMMA RowSteps ==
    ASSUME DeletionInv, Unblock \/ BlockSetup \/ LeaseLapses PROVE DeletionInv'
<1>1. TypeOK /\ request \in Request /\ request.retries \in Nat /\ request.gen \in Nat
      /\ RetriesBounded
  BY DEF DeletionInv, TypeOK, Request
<1>2. /\ request' \in Request /\ request'.gen >= request.gen
      /\ request'.stage = request.stage /\ request'.frozen = request.frozen
      /\ RetriesBounded'
  <2>1. CASE Unblock
    <3>1. /\ request' \in Request /\ request'.gen = request.gen /\ request'.retries = 0
          /\ request'.stage = request.stage /\ request'.frozen = request.frozen
      BY <1>1, <2>1 DEF Unblock, Request
    <3> QED
      BY <1>1, <3>1, BoundsAssumption DEF RetriesBounded
  <2>2. CASE BlockSetup
    <3>1. /\ request' \in Request /\ request'.gen = request.gen /\ request'.blocked
          /\ request'.stage = request.stage /\ request'.frozen = request.frozen
          /\ request'.retries = request.retries
      BY <1>1, <2>2 DEF BlockSetup, Request
    <3> QED
      BY <1>1, <3>1 DEF RetriesBounded
  <2>3. CASE LeaseLapses
    <3>1. /\ request' \in Request /\ request'.gen = request.gen
          /\ request'.blocked = request.blocked /\ request'.retries = request.retries
          /\ request'.stage = request.stage /\ request'.frozen = request.frozen
      BY <1>1, <2>3 DEF LeaseLapses, Request
    <3> QED
      BY <1>1, <3>1 DEF RetriesBounded
  <2> QED
    BY <2>1, <2>2, <2>3
<1>3. UNCHANGED <<community, chunks, serving, objects, deletes, hist>> /\ exec' = exec
  BY DEF Unblock, BlockSetup, LeaseLapses, executors
<1>4. faults' \in 0..MaxFaults
  BY <1>1, FaultsTyped DEF Unblock, BlockSetup, LeaseLapses
<1>5. exec' \in [Executors -> Executor]
  BY <1>1, <1>3 DEF TypeOK
<1>6. UNCHANGED <<chunks, serving, objects, deletes, hist>>
  BY <1>3
<1> QED
  BY <1>2, <1>3, <1>4, <1>5, <1>6, StageKept, RequestMoves

\* Goto the idle place with the claim given back, or lost before.
LEMMA GivenBack ==
    ASSUME DeletionInv, NEW e \in Executors, exec' = [exec EXCEPT ![e] = Idle],
           request' \in Request, request'.gen = request.gen,
           request'.stage = request.stage, request'.frozen = request.frozen,
           RetriesBounded',
           UNCHANGED <<community, chunks, serving, objects, deletes, hist>>,
           Fault \/ UNCHANGED faults
    PROVE  DeletionInv'
<1>1. TypeOK /\ request.gen \in Nat
  BY DEF DeletionInv, TypeOK, Request
<1>2. Moves(e) /\ exec'[e] = Idle /\ Idle \in Executor
  BY <1>1, IdleMoves
<1>3. Onward /\ UnexpiredIsCurrent' /\ RowsAgree' /\ ManifestHolds' /\ community' \in Community
  BY <1>1, StageKept
<1>4. WorkerSound(exec[e])' /\ Leaves(e)
  <2>1. WorkerSound(Idle)'
    BY <1>1, <1>2, <1>3, IdleIsSound, SoundOnward DEF hist
  <2> QED
    BY <1>2, <2>1 DEF WorkerSound, Leaves, Idle
<1>5. \A f \in Executors : exec'[f] = exec[f] \/ (WorkerSound(exec[f])' /\ Leaves(f))
  BY <1>2, <1>4 DEF Moves
<1>6. faults' \in 0..MaxFaults /\ exec' \in [Executors -> Executor]
  BY <1>1, <1>2, FaultsTyped DEF Moves
<1>7. UNCHANGED <<chunks, serving, objects, deletes, hist>>
  OBVIOUS
<1> QED
  BY <1>3, <1>5, <1>6, <1>7, RequestMoves

\* record_retry counts up to the limit, where it blocks.
LEMMA RecordRetryStep ==
    ASSUME DeletionInv, NEW e \in Executors, RecordRetry(e), Fault \/ UNCHANGED faults
    PROVE  DeletionInv'
<1>1. /\ request \in Request /\ request.retries \in Nat /\ request.retries <= MaxRetries
      /\ request.retries # MaxRetries
  BY DEF DeletionInv, TypeOK, Request, RecordRetry, Owns, RetriesBounded
<1> DEFINE n == request.retries + 1
           full == n >= MaxRetries
           row == [request EXCEPT !.leased = FALSE, !.retries = n, !.blocked = full]
<1>2. n \in Nat /\ n <= MaxRetries /\ full \in BOOLEAN
  BY <1>1, BoundsAssumption
<1>3. request' = row
  BY DEF RecordRetry
<1>4. n = MaxRetries => full
  BY <1>1, BoundsAssumption
<1> HIDE DEF full, n
<1>5. /\ row \in Request /\ row.gen = request.gen /\ row.stage = request.stage
      /\ row.frozen = request.frozen /\ row.retries = n
      /\ row.blocked = full
  BY <1>1, <1>2 DEF Request
<1> HIDE DEF row
<1>6. RetriesBounded'
  BY <1>2, <1>3, <1>4, <1>5 DEF RetriesBounded
<1> QED
  BY <1>3, <1>5, <1>6, GivenBack DEF RecordRetry

\* A permanent error blocks the request and gives the claim back.
LEMMA BlockStep ==
    ASSUME DeletionInv, NEW e \in Executors, Block(e) PROVE DeletionInv'
<1>1. request \in Request /\ RetriesBounded
  BY DEF DeletionInv, TypeOK
<1>2. /\ request' \in Request /\ request'.gen = request.gen /\ request'.stage = request.stage
      /\ request'.frozen = request.frozen /\ request'.blocked = TRUE
      /\ request'.retries = request.retries
  BY <1>1 DEF Block, Request
<1>3. RetriesBounded'
  BY <1>1, <1>2 DEF RetriesBounded
<1> QED
  BY <1>2, <1>3, GivenBack DEF Block

\* A shutdown gives the claim back if it is still the executor's.
LEMMA StopExecutorStep ==
    ASSUME DeletionInv, NEW e \in Executors, StopExecutor(e) PROVE DeletionInv'
<1>1. request \in Request /\ RetriesBounded
  BY DEF DeletionInv, TypeOK
<1>2. /\ request' \in Request /\ request'.gen = request.gen /\ request'.stage = request.stage
      /\ request'.frozen = request.frozen /\ request'.blocked = request.blocked
      /\ request'.retries = request.retries
  BY <1>1 DEF StopExecutor, Request
<1>3. RetriesBounded'
  BY <1>1, <1>2 DEF RetriesBounded
<1> QED
  BY <1>2, <1>3, GivenBack DEF StopExecutor

\* A claim is a generation above every token in use.
LEMMA ClaimStep ==
    ASSUME DeletionInv, NEW e \in Executors, Claim(e) PROVE DeletionInv'
<1>1. TypeOK /\ request \in Request /\ request.gen \in Nat /\ RetriesBounded
  BY DEF DeletionInv, TypeOK, Request
<1>2. /\ request' \in Request /\ request'.gen = request.gen + 1 /\ request'.stage = request.stage
      /\ request'.frozen = request.frozen /\ request'.blocked = request.blocked
      /\ request'.retries = request.retries
  <2> DEFINE g == request.gen + 1
  <2>1. g \in Nat /\ request' = [request EXCEPT !.leased = TRUE, !.gen = g]
    BY <1>1 DEF Claim
  <2> HIDE DEF g
  <2>2. /\ request' \in Request /\ request'.gen = g /\ request'.stage = request.stage
        /\ request'.frozen = request.frozen /\ request'.blocked = request.blocked
        /\ request'.retries = request.retries
    BY <1>1, <2>1 DEF Request
  <2> QED
    BY <2>2 DEF g
<1> DEFINE x == [Idle EXCEPT !.at = "next", !.gen = request.gen + 1]
<1>3. x \in Executor /\ x.at = "next" /\ x.gen = request.gen + 1 /\ x.key = 0
  <2>1. Idle \in Executor /\ Idle.key = 0 /\ "next" \in Places /\ request.gen + 1 \in Nat
    BY <1>1 DEF Idle, Executor, Places
  <2> QED
    BY <2>1 DEF Executor
<1>4. exec' = [exec EXCEPT ![e] = x]
  BY DEF Claim
<1> HIDE DEF x
<1>5. Moves(e) /\ exec'[e] = x
  BY <1>1, <1>3, <1>4 DEF TypeOK, Moves
<1>6. WorkerSound(exec[e])' /\ Leaves(e)
  BY <1>1, <1>2, <1>3, <1>5
     DEF WorkerSound, Leaves, Listing, AfterDrain, Deleting
<1>7. \A f \in Executors : exec'[f] = exec[f] \/ (WorkerSound(exec[f])' /\ Leaves(f))
  BY <1>5, <1>6 DEF Moves
<1>8. faults' \in 0..MaxFaults /\ exec' \in [Executors -> Executor]
  BY <1>1, <1>5, FaultsTyped DEF Moves, Claim
<1>9. /\ UNCHANGED <<chunks, serving, objects, deletes, hist>>
      /\ UNCHANGED <<community, chunks, serving, objects, deletes, hist>>
  BY DEF Claim
<1>10. request'.gen >= request.gen /\ RetriesBounded'
  BY <1>1, <1>2 DEF RetriesBounded
<1> QED
  BY <1>2, <1>7, <1>8, <1>9, <1>10, StageKept, RequestMoves

---------------------------------------------------------------------------
(* Steps that move the stage.                                              *)

\* The operator's steps before the claim.
LEMMA DecideStep ==
    ASSUME DeletionInv, Submit \/ FreezeInventory \/ Approve PROVE DeletionInv'
<1>1. TypeOK /\ request \in Request /\ request.gen \in Nat /\ RetriesBounded
  BY DEF DeletionInv, TypeOK, Request
<1>2. PICK to \in {"submitted", "inventoried", "approved"} :
        request.stage \in Early /\ request' = [request EXCEPT !.stage = to]
  BY DEF Submit, FreezeInventory, Approve, Decide, Early
<1>3. /\ request' \in Request /\ request'.stage = to /\ request'.frozen = request.frozen
      /\ request'.gen = request.gen /\ request'.retries = request.retries
      /\ request'.blocked = request.blocked
  <2>1. to \in Stages
    BY StageSets
  <2> QED
    BY <1>1, <1>2, <2>1 DEF Request
<1>4. UNCHANGED <<community, chunks, exec, deletes, writer, live, objects, faults, destroyed, late>>
  BY DEF Submit, FreezeInventory, Approve, Decide, executors, serving, hist
<1>5. to \in Early /\ to \notin Destructive \cup {"fenced"} /\ request.stage \notin Destructive
  BY <1>2, StageSets DEF Early
<1>6. Onward
  BY <1>1, <1>2, <1>3, <1>5 DEF Onward, Early
<1>7. UnexpiredIsCurrent' /\ RowsAgree'
  BY <1>2, <1>3, <1>4, <1>5 DEF DeletionInv, UnexpiredIsCurrent, Current, RowsAgree
<1>8. ManifestHolds'
  BY <1>2, <1>3, <1>4, <1>5, StageSets DEF DeletionInv, ManifestHolds, RowsAgree, Owed
<1>9. RetriesBounded' /\ community' \in Community /\ faults' \in 0..MaxFaults
      /\ exec' \in [Executors -> Executor]
  BY <1>1, <1>3, <1>4 DEF RetriesBounded, TypeOK
<1>10. UNCHANGED <<chunks, serving, objects, deletes, hist>>
  BY <1>4 DEF serving, hist
<1> QED
  BY <1>3, <1>4, <1>6, <1>7, <1>8, <1>9, <1>10, RequestMoves

\* What an advance leaves in the row and in the executor.
LEMMA AdvanceMoves ==
    ASSUME DeletionInv, NEW e \in Executors, NEW from \in Stages, NEW to \in Stages,
           Advance(e, from, to)
    PROVE  /\ request.stage = from
           /\ from = "approved" \/ community.state \in {"fenced", "tombstone"}
           /\ request' \in Request /\ request'.stage = to /\ request'.gen = request.gen
           /\ request'.frozen = request.frozen /\ RetriesBounded'
           /\ Moves(e) /\ exec'[e].at = "next" /\ exec'[e].gen = exec[e].gen
           /\ exec'[e].key = exec[e].key
<1>1. TypeOK /\ request \in Request
  BY DEF DeletionInv, TypeOK
<1>2. /\ request' \in Request /\ request'.stage = to /\ request'.gen = request.gen
      /\ request'.frozen = request.frozen /\ request'.retries = 0
  BY <1>1 DEF Advance, Request
<1>3. RetriesBounded'
  BY <1>2, BoundsAssumption DEF RetriesBounded
<1>4. /\ Moves(e) /\ exec'[e].at = "next" /\ exec'[e].gen = exec[e].gen
      /\ exec'[e].key = exec[e].key
  BY <1>1, GotoMoves DEF Advance, Places
<1> QED
  BY <1>2, <1>3, <1>4 DEF Advance, Holds

\* The executor advances the stage and is ready for the next one.
LEMMA StageAdvances ==
    ASSUME DeletionInv, NEW e \in Executors, NEW from \in Stages, NEW to \in Stages,
           Advance(e, from, to),
           exec[e].at \notin {"idle", "deleting"},
           to \in Destructive \/ (to = "fenced" /\ from \in Early /\ exec[e].key = 0),
           UNCHANGED <<chunks, serving, objects, deletes, faults, hist>>,
           community' \in Community, UnexpiredIsCurrent', RowsAgree', ManifestHolds'
    PROVE  DeletionInv'
<1>1. TypeOK /\ request.gen \in Nat /\ WorkerSound(exec[e])
  BY DEF DeletionInv, TypeOK, Request
<1>2. /\ request.stage = from
      /\ request' \in Request /\ request'.stage = to /\ request'.gen = request.gen
      /\ request'.frozen = request.frozen /\ RetriesBounded'
      /\ Moves(e) /\ exec'[e].at = "next" /\ exec'[e].gen = exec[e].gen
      /\ exec'[e].key = exec[e].key
  BY AdvanceMoves
<1>3. Onward
  BY <1>1, <1>2, StageSets DEF Onward, Early
<1>4. WorkerSound(exec[e])' /\ Leaves(e)
  BY <1>1, <1>2, <1>3, StageSets
     DEF WorkerSound, Leaves, Listing, AfterDrain, Deleting, BeforeListing
<1>5. \A f \in Executors : exec'[f] = exec[f] \/ (WorkerSound(exec[f])' /\ Leaves(f))
  BY <1>2, <1>4 DEF Moves
<1>6. faults' \in 0..MaxFaults /\ exec' \in [Executors -> Executor]
  BY <1>1, <1>2, FaultsTyped DEF Moves
<1>7. UNCHANGED <<chunks, serving, objects, deletes, hist>>
  OBVIOUS
<1> QED
  BY <1>2, <1>3, <1>5, <1>6, <1>7, RequestMoves

\* No admitted write is left when the fence rises.
LEMMA ActivateFenceStep ==
    ASSUME DeletionInv, NEW e \in Executors, ActivateFence(e) PROVE DeletionInv'
<1>1. TypeOK /\ community \in Community /\ community.gen \in Nat /\ WorkerSound(exec[e])
  BY DEF DeletionInv, TypeOK, Community
<1>2. /\ "approved" \in Stages /\ "fenced" \in Stages /\ "approved" \in Early
      /\ "approved" \notin Destructive /\ "fenced" \notin Early \cup Destructive
  BY StageSets DEF Early
<1>3. /\ Advance(e, "approved", "fenced") /\ exec[e].at = "fence" /\ live = {}
      /\ community' = [state |-> "fenced", gen |-> community.gen + 1]
      /\ UNCHANGED <<chunks, writer, live, objects, deletes, faults, destroyed, late>>
  BY DEF ActivateFence, serving, hist
<1>4. request.stage = "approved" /\ request'.stage = "fenced" /\ request'.frozen = request.frozen
  BY <1>2, <1>3, AdvanceMoves
<1>5. community' \in Community /\ UnexpiredIsCurrent' /\ RowsAgree'
  BY <1>1, <1>2, <1>3, <1>4
     DEF Community, UnexpiredIsCurrent, RowsAgree, DeletionInv
<1>6. request'.frozen = {} /\ ManifestHolds'
  BY <1>2, <1>3, <1>4 DEF ManifestHolds, RowsAgree, DeletionInv
<1>7. exec[e].key = 0
  BY <1>1, <1>2, <1>3, <1>4 DEF WorkerSound, BeforeListing
<1>8. UNCHANGED <<chunks, serving, objects, deletes, faults, hist>>
  BY <1>3 DEF serving, hist
<1> QED
  BY <1>2, <1>3, <1>5, <1>6, <1>7, <1>8, StageAdvances

\* The frozen manifest goes with the request into the stage that deletes.
LEMMA MarkDrainedStep ==
    ASSUME DeletionInv, NEW e \in Executors, MarkDrained(e) PROVE DeletionInv'
<1>1. TypeOK /\ community \in Community /\ WorkerSound(exec[e]) /\ exec[e].at = "mark_drained"
  BY DEF DeletionInv, TypeOK, MarkDrained
<1>2. /\ "fenced" \in Stages /\ "drained" \in Stages /\ "drained" \in Destructive
      /\ "drained" \notin Early
  BY StageSets DEF Early
<1>3. /\ Advance(e, "fenced", "drained")
      /\ UNCHANGED <<community, chunks, writer, live, objects, deletes, faults, destroyed, late>>
  BY DEF MarkDrained, serving, hist
<1>4. /\ request.stage = "fenced" /\ request'.stage = "drained"
      /\ request'.frozen = request.frozen /\ request.frozen # {}
      /\ community.state \in {"fenced", "tombstone"}
  BY <1>1, <1>2, <1>3, AdvanceMoves DEF WorkerSound
<1>5. community' \in Community /\ UnexpiredIsCurrent' /\ RowsAgree'
  BY <1>1, <1>2, <1>3, <1>4
     DEF UnexpiredIsCurrent, Current, RowsAgree, DeletionInv
<1>6. ManifestHolds'
  BY <1>2, <1>3, <1>4, StageSets DEF ManifestHolds, Owed, DeletionInv
<1>7. UNCHANGED <<chunks, serving, objects, deletes, faults, hist>>
  BY <1>3 DEF serving, hist
<1> QED
  BY <1>1, <1>2, <1>3, <1>5, <1>6, <1>7, StageAdvances

\* The later stages, whose rows change no more than the stage and the tombstone.
LEMMA LateStageStep ==
    ASSUME DeletionInv, NEW e \in Executors,
           MarkBindingsRemoved(e) \/ PurgePostgres(e) \/ PurgeCache(e)
    PROVE  DeletionInv'
<1>1. TypeOK /\ community \in Community
  BY DEF DeletionInv, TypeOK
<1>2. PICK from \in {"drained", "bindings_removed", "postgres_purged"},
           to \in {"bindings_removed", "postgres_purged", "cache_purged"} :
        /\ Advance(e, from, to)
        /\ exec[e].at \in {"mark_removed", "purge", "purge_cache"}
        /\ UNCHANGED <<chunks, writer, live, objects, deletes, faults, destroyed, late>>
        /\ \/ community' = community
           \/ /\ community.state = "fenced"
              /\ community' = [community EXCEPT !.state = "tombstone"]
  BY DEF MarkBindingsRemoved, PurgePostgres, PurgeCache, serving, hist
<1>3. from \in Stages /\ to \in Stages /\ from \in Destructive /\ to \in Destructive
      /\ to \notin Early /\ from \in {Chain[i] : i \in 4..8}
  BY StageSets DEF Early
<1>4. /\ request.stage = from /\ request'.stage = to /\ request'.frozen = request.frozen
      /\ community.state \in {"fenced", "tombstone"}
  BY <1>2, <1>3, AdvanceMoves
<1>5. community' \in Community /\ community'.state \in {"fenced", "tombstone"}
  BY <1>1, <1>2, <1>4 DEF Community
<1>6. UnexpiredIsCurrent' /\ RowsAgree'
  BY <1>2, <1>3, <1>4, <1>5 DEF UnexpiredIsCurrent, Current, RowsAgree, DeletionInv
<1>7. ManifestHolds'
  BY <1>2, <1>3, <1>4 DEF ManifestHolds, Owed, DeletionInv
<1>8. UNCHANGED <<chunks, serving, objects, deletes, faults, hist>>
  BY <1>2 DEF serving, hist
<1> QED
  BY <1>2, <1>3, <1>5, <1>6, <1>7, <1>8, StageAdvances

\* Verified: the chunks may go, since nothing is stamped or picked any more.
LEMMA MarkLogicallyVerifiedStep ==
    ASSUME DeletionInv, NEW e \in Executors, MarkLogicallyVerified(e) PROVE DeletionInv'
<1>1. /\ TypeOK /\ community \in Community /\ request.gen \in Nat
      /\ WorkerSound(exec[e]) /\ exec[e].at = "mark_verified"
  BY DEF DeletionInv, TypeOK, Request, MarkLogicallyVerified
<1>2. /\ "cache_purged" \in Stages /\ "logically_verified" \in Stages \cap Destructive
      /\ "logically_verified" \notin Early /\ "cache_purged" \in Destructive
      /\ "logically_verified" \notin {Chain[i] : i \in 4..8} \cup {"fenced", "drained"}
  BY StageSets DEF Early
<1>3. /\ Advance(e, "cache_purged", "logically_verified") /\ chunks' = {}
      /\ UNCHANGED <<community, writer, live, objects, deletes, faults, destroyed, late>>
  BY DEF MarkLogicallyVerified, serving, hist
<1>4. /\ request.stage = "cache_purged" /\ request'.stage = "logically_verified"
      /\ request' \in Request /\ request'.frozen = request.frozen /\ RetriesBounded'
      /\ request'.gen = request.gen
      /\ Moves(e) /\ exec'[e].at = "next" /\ exec'[e].gen = exec[e].gen
      /\ community.state \in {"fenced", "tombstone"}
  BY <1>2, <1>3, AdvanceMoves
<1>5. TypeOK'
  BY <1>1, <1>3, <1>4 DEF TypeOK, Moves
<1>6. UnexpiredIsCurrent' /\ RowsAgree' /\ ManifestHolds'
  BY <1>2, <1>3, <1>4
     DEF UnexpiredIsCurrent, Current, RowsAgree, ManifestHolds, Owed, DeletionInv
<1>7. \A x \in Executor : WorkerSound(x) => WorkerSound(x)'
  BY <1>2, <1>3, <1>4 DEF WorkerSound, Owed
<1>8. WorkerSound(exec[e])' /\ Leaves(e)
  BY <1>1, <1>2, <1>4 DEF WorkerSound, Leaves, Listing, AfterDrain, Deleting
<1>9. \A f \in Executors : exec'[f] = exec[f] \/ (WorkerSound(exec[f])' /\ Leaves(f))
  BY <1>4, <1>8 DEF Moves
<1>10. request'.gen >= request.gen
  BY <1>1, <1>4
<1> QED
  BY <1>3, <1>5, <1>6, <1>7, <1>9, <1>10, SoundStep

\* The last stage ends the request and the claim.
LEMMA MarkRetentionPendingStep ==
    ASSUME DeletionInv, NEW e \in Executors, MarkRetentionPending(e) PROVE DeletionInv'
<1>1. /\ TypeOK /\ community \in Community /\ request \in Request /\ request.gen \in Nat
      /\ request.stage = "logically_verified" /\ community.state \in {"fenced", "tombstone"}
  BY DEF DeletionInv, TypeOK, Request, MarkRetentionPending, Holds
<1>2. /\ "retention_pending" \in Stages \cap Destructive
      /\ "retention_pending" \notin Early /\ "logically_verified" \in Destructive
      /\ "retention_pending" \notin {Chain[i] : i \in 4..8} \cup {"fenced", "drained"}
  BY StageSets DEF Early
<1>3. /\ request' \in Request /\ request'.stage = "retention_pending"
      /\ request'.frozen = request.frozen /\ request'.gen = request.gen /\ request'.retries = 0
  BY <1>1, <1>2 DEF MarkRetentionPending, Request
<1>4. Moves(e) /\ exec'[e] = Idle /\ Idle \in Executor
  BY <1>1, IdleMoves DEF MarkRetentionPending
<1>5. UNCHANGED <<community, chunks, writer, live, objects, deletes, faults, destroyed, late>>
  BY DEF MarkRetentionPending, serving, hist
<1>6. RetriesBounded'
  BY <1>3, BoundsAssumption DEF RetriesBounded
<1>7. Onward
  BY <1>1, <1>2, <1>3 DEF Onward
<1>8. UnexpiredIsCurrent' /\ RowsAgree' /\ ManifestHolds'
  BY <1>1, <1>2, <1>3, <1>5
     DEF UnexpiredIsCurrent, Current, RowsAgree, ManifestHolds, Owed, DeletionInv
<1>9. WorkerSound(exec[e])' /\ Leaves(e)
  <2>1. WorkerSound(Idle)'
    BY <1>1, <1>3, <1>4, <1>5, <1>7, IdleIsSound, SoundOnward
  <2> QED
    BY <1>4, <2>1 DEF WorkerSound, Leaves, Idle
<1>10. \A f \in Executors : exec'[f] = exec[f] \/ (WorkerSound(exec[f])' /\ Leaves(f))
  BY <1>4, <1>9 DEF Moves
<1>11. /\ UNCHANGED <<chunks, serving, objects, deletes, hist>>
       /\ exec' \in [Executors -> Executor] /\ faults' \in 0..MaxFaults /\ community' \in Community
  BY <1>1, <1>4, <1>5 DEF serving, hist, Moves, TypeOK
<1> QED
  BY <1>3, <1>6, <1>7, <1>8, <1>10, <1>11, RequestMoves

\* Quiescing keeps the generation, so the leases handed out stay good.
LEMMA BeginQuiescingStep ==
    ASSUME DeletionInv, NEW e \in Executors, BeginQuiescing(e) PROVE DeletionInv'
<1>1. /\ TypeOK /\ community \in Community /\ request \in Request /\ RetriesBounded
      /\ request.gen \in Nat /\ WorkerSound(exec[e])
      /\ exec[e].at = "quiesce" /\ request.stage = "approved"
      /\ community.state \in {"active", "quiescing"}
  BY DEF DeletionInv, TypeOK, Request, BeginQuiescing, Holds
<1>2. "approved" \notin Destructive \cup {"fenced"}
  BY StageSets
<1>3. /\ community' \in Community /\ community'.state = "quiescing"
      /\ community'.gen = community.gen
  BY <1>1 DEF BeginQuiescing, Community
<1>4. UNCHANGED <<request, chunks, writer, live, objects, deletes, faults, destroyed, late>>
  BY DEF BeginQuiescing, serving, hist
<1>5. Moves(e) /\ exec'[e].at = "fence" /\ exec'[e].gen = exec[e].gen /\ exec'[e].key = exec[e].key
  BY <1>1, GotoMoves DEF BeginQuiescing, Places
<1>6. UnexpiredIsCurrent' /\ RowsAgree' /\ ManifestHolds'
  BY <1>1, <1>2, <1>3, <1>4
     DEF UnexpiredIsCurrent, Current, RowsAgree, ManifestHolds, Owed, DeletionInv
<1>7. WorkerSound(exec[e])' /\ Leaves(e)
  BY <1>1, <1>4, <1>5 DEF WorkerSound, Leaves, Listing, AfterDrain, Deleting, BeforeListing
<1>8. \A f \in Executors : exec'[f] = exec[f] \/ (WorkerSound(exec[f])' /\ Leaves(f))
  BY <1>5, <1>7 DEF Moves
<1>9. /\ UNCHANGED <<chunks, serving, objects, deletes, hist>>
      /\ exec' \in [Executors -> Executor] /\ faults' \in 0..MaxFaults
      /\ Onward /\ request' \in Request /\ RetriesBounded'
  BY <1>1, <1>4, <1>5 DEF serving, hist, Moves, TypeOK, Onward, RetriesBounded
<1> QED
  BY <1>3, <1>6, <1>8, <1>9, RequestMoves

\* Abort gives up the fence, and with it every claim to the objects.
LEMMA AbortStep ==
    ASSUME DeletionInv, Abort PROVE DeletionInv'
<1>1. /\ TypeOK /\ request \in Request /\ request.gen \in Nat /\ community.gen \in Nat
      /\ request.stage \in {"approved", "fenced"} /\ live = {}
  BY DEF DeletionInv, TypeOK, Request, Community, Abort
<1>2. /\ "aborted" \in Stages /\ "aborted" \notin Destructive \cup Early \cup {"fenced", "drained"}
      /\ request.stage \notin Destructive /\ "aborted" \notin {Chain[i] : i \in 4..8}
  BY <1>1, StageSets DEF Early
<1>3. /\ request' \in Request /\ request'.stage = "aborted" /\ request'.retries = 0
      /\ request'.frozen = request.frozen /\ request'.gen = request.gen + 1
  <2> DEFINE g == request.gen + 1
  <2>1. /\ g \in Nat
        /\ request' = [request EXCEPT !.stage = "aborted", !.leased = FALSE,
                                      !.gen = g, !.blocked = FALSE, !.retries = 0]
    BY <1>1 DEF Abort
  <2> HIDE DEF g
  <2>2. /\ request' \in Request /\ request'.stage = "aborted" /\ request'.retries = 0
        /\ request'.frozen = request.frozen /\ request'.gen = g
    BY <1>1, <1>2, <2>1 DEF Request
  <2> QED
    BY <2>2 DEF g
<1>4. /\ UNCHANGED <<chunks, exec, deletes, writer, live, objects, faults, destroyed>>
      /\ late' = {} /\ community' = [state |-> "active", gen |-> community.gen + 1]
  BY DEF Abort, executors, serving
<1>5. TypeOK'
  <2>1. RetriesBounded'
    BY <1>3, BoundsAssumption DEF RetriesBounded
  <2>2. community' \in Community
    BY <1>1, <1>4 DEF Community
  <2> QED
    BY <1>1, <1>3, <1>4, <2>1, <2>2 DEF TypeOK
<1>6. UnexpiredIsCurrent' /\ RowsAgree' /\ ManifestHolds'
  BY <1>1, <1>2, <1>3, <1>4
     DEF UnexpiredIsCurrent, RowsAgree, ManifestHolds, DeletionInv
<1>7. \A x \in Executor : WorkerSound(x) => WorkerSound(x)'
  <2>1. \A x \in Executor : x.gen \in Nat
    BY DEF Executor
  <2> QED
    BY <1>1, <1>2, <1>3, <1>4, <2>1 DEF WorkerSound, AfterDrain, Deleting
<1>8. request'.gen >= request.gen /\ deletes' = deletes
      /\ \A f \in Executors : exec'[f] = exec[f] \/ (WorkerSound(exec[f])' /\ Leaves(f))
  BY <1>1, <1>3, <1>4
<1> QED
  BY <1>5, <1>6, <1>7, <1>8, SoundStep

---------------------------------------------------------------------------
(* Steps on the manifest, the chunks and the objects.                      *)

\* What is frozen is what was listed: the owed keys are all in it.
LEMMA FreezeManifestStep ==
    ASSUME DeletionInv, NEW e \in Executors, FreezeManifest(e) PROVE DeletionInv'
<1>1. /\ TypeOK /\ request \in Request /\ RetriesBounded /\ request.gen \in Nat
      /\ community \in Community /\ exec[e] \in Executor /\ exec[e].gen \in Nat
      /\ exec[e].seen \in SUBSET Keys
      /\ WorkerSound(exec[e]) /\ exec[e].at = "freeze" /\ request.stage = "fenced"
      /\ community.state \in {"fenced", "tombstone"}
  BY DEF DeletionInv, TypeOK, Request, Executor, FreezeManifest, Holds
<1>2. "fenced" \notin Early \cup Destructive
  BY StageSets DEF Early
<1>3. /\ request' \in Request /\ request'.stage = request.stage /\ request'.gen = request.gen
      /\ request'.frozen = {exec[e].seen} /\ request'.retries = request.retries
      /\ request'.blocked = request.blocked
  <2>1. {exec[e].seen} \in SUBSET SUBSET Keys
    BY <1>1
  <2> QED
    BY <1>1, <2>1 DEF FreezeManifest, Request
<1> DEFINE x == [Idle EXCEPT !.at = "mark_drained", !.gen = exec[e].gen]
<1>4. x \in Executor /\ x.at = "mark_drained" /\ x.gen = exec[e].gen
  <2>1. Idle \in Executor /\ "mark_drained" \in Places
    BY DEF Idle, Executor, Places
  <2> QED
    BY <1>1, <2>1 DEF Executor
<1>5. exec' = [exec EXCEPT ![e] = x]
  BY DEF FreezeManifest
<1> HIDE DEF x
<1>6. Moves(e) /\ exec'[e] = x
  BY <1>1, <1>4, <1>5 DEF TypeOK, Moves
<1>7. UNCHANGED <<community, chunks, writer, live, objects, deletes, faults, destroyed, late>>
  BY DEF FreezeManifest, serving, hist
<1>8. UnexpiredIsCurrent' /\ RowsAgree'
  BY <1>1, <1>2, <1>3, <1>7 DEF UnexpiredIsCurrent, Current, RowsAgree, DeletionInv
<1>9. ManifestHolds'
  <2>1. Owed \subseteq exec[e].seen
    BY <1>1 DEF WorkerSound, Listing
  <2>2. {c.key : c \in chunks} = exec[e].seen
    BY DEF FreezeManifest, ChunksMatch
  <2>3. UNION request'.frozen = exec[e].seen
    BY <1>3
  <2> QED
    BY <1>2, <1>3, <1>7, <2>1, <2>2, <2>3 DEF ManifestHolds, Owed, DeletionInv
<1>10. Onward /\ RetriesBounded'
  BY <1>1, <1>2, <1>3 DEF Onward, RetriesBounded
<1>11. WorkerSound(exec[e])' /\ Leaves(e)
  BY <1>1, <1>2, <1>3, <1>4, <1>6
     DEF WorkerSound, Leaves, Listing, AfterDrain, Deleting, BeforeListing
<1>12. \A f \in Executors : exec'[f] = exec[f] \/ (WorkerSound(exec[f])' /\ Leaves(f))
  BY <1>6, <1>11 DEF Moves
<1>13. /\ UNCHANGED <<chunks, serving, objects, deletes, hist>>
       /\ exec' \in [Executors -> Executor] /\ faults' \in 0..MaxFaults /\ community' \in Community
  BY <1>1, <1>6, <1>7 DEF serving, hist, Moves, TypeOK
<1> QED
  BY <1>3, <1>8, <1>9, <1>10, <1>12, <1>13, RequestMoves

\* Chunks are cleared only where no frozen manifest needs them; the listing
\* then starts from the beginning.
LEMMA ClearChunksStep ==
    ASSUME DeletionInv, NEW e \in Executors, ClearChunks(e) PROVE DeletionInv'
<1>1. TypeOK /\ WorkerSound(exec[e]) /\ exec[e].at = "clear" /\ request.gen \in Nat
  BY DEF DeletionInv, TypeOK, Request, ClearChunks
<1>2. /\ chunks' = {}
      /\ UNCHANGED <<community, request, writer, live, objects, deletes, faults, destroyed, late>>
      /\ request.frozen = {} \/ request.stage \in {"logically_verified", "retention_pending"}
  BY StageSets DEF ClearChunks, ChunksRemovable, serving, hist
<1>3. /\ Moves(e) /\ exec'[e].at = "list" /\ exec'[e].gen = exec[e].gen
      /\ exec'[e].key = exec[e].key
  BY <1>1, GotoMoves DEF ClearChunks, Places
<1>4. TypeOK'
  BY <1>1, <1>2, <1>3 DEF TypeOK, Moves, RetriesBounded
<1>5. UnexpiredIsCurrent' /\ RowsAgree' /\ ManifestHolds'
  BY <1>2, StageSets
     DEF UnexpiredIsCurrent, Current, RowsAgree, ManifestHolds, Owed, DeletionInv
<1>6. \A x \in Executor : WorkerSound(x) => WorkerSound(x)'
  BY <1>2 DEF WorkerSound, Owed
<1>7. WorkerSound(exec[e])' /\ Leaves(e)
  <2>1. \A k \in Owed : k \in Nat \ {0}
    BY <1>1, KeysAssumption DEF Owed, TypeOK
  <2>2. request.stage = "fenced" => exec[e].key = 0
    BY <1>1, StageSets DEF WorkerSound, BeforeListing
  <2> QED
    BY <1>1, <1>2, <1>3, <2>1, <2>2
       DEF WorkerSound, Leaves, Listing, AfterDrain, Deleting, BeforeListing, Owed
<1>8. \A f \in Executors : exec'[f] = exec[f] \/ (WorkerSound(exec[f])' /\ Leaves(f))
  BY <1>3, <1>7 DEF Moves
<1>9. request'.gen >= request.gen
  BY <1>1, <1>2
<1> QED
  BY <1>2, <1>4, <1>5, <1>6, <1>8, <1>9, SoundStep

\* A chunk is appended only before the freeze, when nobody deletes.
LEMMA AppendChunkStep ==
    ASSUME DeletionInv, NEW e \in Executors, AppendChunk(e) PROVE DeletionInv'
<1>1. /\ TypeOK /\ WorkerSound(exec[e]) /\ exec[e].at = "append" /\ request.gen \in Nat
      /\ exec[e] \in Executor /\ exec[e].no \in Nat
      /\ request.stage = "fenced" /\ request.frozen = {}
      /\ UNCHANGED <<community, request, writer, live, objects, deletes, faults, destroyed, late>>
  BY DEF DeletionInv, TypeOK, Request, Executor, AppendChunk, serving, hist
<1> DEFINE new == [no |-> exec[e].no, key |-> exec[e].key, gone |-> FALSE]
<1>2. chunks' = chunks \cup {new} /\ \A c \in chunks : c.no # new.no
  BY DEF AppendChunk
<1>3. new \in Chunk /\ new.gone = FALSE
  <2>1. exec[e].key \in Keys
    BY <1>1 DEF Executor, WorkerSound
  <2> QED
    BY <1>1, <2>1 DEF Chunk
<1> DEFINE n == exec[e].no + 1
           x == [exec[e] EXCEPT !.at = "list", !.ok = FALSE, !.no = n]
<1>4. n \in Nat /\ exec' = [exec EXCEPT ![e] = x]
  <2>1. n \in Nat
    BY <1>1
  <2>2. exec' = [exec EXCEPT ![e].at = "list", ![e].ok = FALSE, ![e].no = n]
    BY Zenon DEF AppendChunk
  <2> HIDE DEF n
  <2> QED
    BY <1>1, <2>1, <2>2 DEF TypeOK
<1> HIDE DEF n, new
<1>5. /\ x \in Executor /\ x.at = "list" /\ x.gen = exec[e].gen /\ x.key = exec[e].key
      /\ x.seen = exec[e].seen
  <2>1. "list" \in Places
    BY DEF Places
  <2> QED
    BY <1>1, <1>4, <2>1 DEF Executor
<1> HIDE DEF x
<1>6. Moves(e) /\ exec'[e] = x
  BY <1>1, <1>4, <1>5 DEF Moves, TypeOK
<1>7. TypeOK'
  BY <1>1, <1>2, <1>3, <1>6 DEF TypeOK, Moves, RetriesBounded
<1>8. UnexpiredIsCurrent' /\ RowsAgree' /\ ManifestHolds'
  BY <1>1, <1>2, <1>3
     DEF UnexpiredIsCurrent, Current, RowsAgree, ManifestHolds, Owed, DeletionInv
<1>9. \A y \in Executor : WorkerSound(y) => WorkerSound(y)'
  BY <1>1, StageSets DEF WorkerSound, Owed, AfterDrain, Deleting
<1>10. WorkerSound(exec[e])' /\ Leaves(e)
  BY <1>1, <1>5, <1>6, StageSets
     DEF WorkerSound, Leaves, Listing, AfterDrain, Deleting, BeforeListing, Owed
<1>11. \A f \in Executors : exec'[f] = exec[f] \/ (WorkerSound(exec[f])' /\ Leaves(f))
  BY <1>6, <1>10 DEF Moves
<1>12. request'.gen >= request.gen /\ deletes' = deletes
  BY <1>1
<1> QED
  BY <1>7, <1>8, <1>9, <1>11, <1>12, SoundStep

\* A chunk is stamped only when its key is gone.
LEMMA StampChunkStep ==
    ASSUME DeletionInv, NEW e \in Executors, StampChunk(e) PROVE DeletionInv'
<1>1. /\ TypeOK /\ WorkerSound(exec[e]) /\ exec[e].at = "stamp" /\ request.gen \in Nat
      /\ UNCHANGED <<community, request, writer, live, objects, deletes, faults, destroyed, late>>
  BY DEF DeletionInv, TypeOK, Request, StampChunk, serving, hist
<1>2. PICK c \in chunks :
        /\ c.no = exec[e].no /\ ~c.gone
        /\ chunks' = (chunks \ {c}) \cup {[c EXCEPT !.gone = TRUE]}
  BY DEF StampChunk
<1> DEFINE done == [c EXCEPT !.gone = TRUE]
<1>3. c \in Chunk /\ done \in Chunk /\ done.no = c.no /\ done.key = c.key /\ done.gone = TRUE
  BY <1>1, <1>2 DEF TypeOK, Chunk
<1>4. chunks' = (chunks \ {c}) \cup {done}
  BY <1>2
<1> HIDE DEF done
<1>5. request.stage \in Destructive /\ c.key \notin Owed
  BY <1>1, <1>2 DEF WorkerSound, AfterDrain, Deleting
<1>6. {d.key : d \in chunks'} = {d.key : d \in chunks}
  BY <1>2, <1>3, <1>4
<1>7. Moves(e) /\ exec'[e].at = "pick" /\ exec'[e].gen = exec[e].gen
  BY <1>1, GotoMoves DEF StampChunk, Places
<1>8. TypeOK'
  <2>1. chunks' \subseteq Chunk /\ \A a, b \in chunks' : a.no = b.no => a = b
    BY <1>1, <1>2, <1>3, <1>4 DEF TypeOK
  <2> QED
    BY <1>1, <1>7, <2>1 DEF TypeOK, Moves, RetriesBounded
<1>9. UnexpiredIsCurrent' /\ RowsAgree'
  BY <1>1 DEF UnexpiredIsCurrent, Current, RowsAgree, DeletionInv
<1>10. ManifestHolds'
  <2>1. Owed' = Owed
    BY <1>1 DEF Owed
  <2>2. \A d \in chunks' : d.gone => request'.stage \in Destructive /\ d.key \notin Owed'
    BY <1>1, <1>3, <1>4, <1>5, <2>1 DEF DeletionInv, ManifestHolds
  <2> QED
    BY <1>1, <1>6, <2>1, <2>2 DEF ManifestHolds, DeletionInv
<1>11. ASSUME NEW x \in Executor, WorkerSound(x) PROVE WorkerSound(x)'
  <2>1. x.at \in Deleting => \A d \in chunks' : d.no = x.no => d.key = x.key
    BY <1>2, <1>3, <1>4, <1>11 DEF WorkerSound
  <2>2. x.at = "mark_removed" => \A d \in chunks' : d.gone
    BY <1>3, <1>4, <1>11 DEF WorkerSound
  <2>3. Owed' = Owed
    BY <1>1 DEF Owed
  <2> QED
    BY <1>1, <1>11, <2>1, <2>2, <2>3 DEF WorkerSound
<1>12. WorkerSound(exec[e])' /\ Leaves(e)
  BY <1>1, <1>5, <1>7
     DEF WorkerSound, Leaves, Listing, AfterDrain, Deleting, BeforeListing
<1>13. \A f \in Executors : exec'[f] = exec[f] \/ (WorkerSound(exec[f])' /\ Leaves(f))
  BY <1>7, <1>12 DEF Moves
<1>14. request'.gen >= request.gen /\ deletes' = deletes
  BY <1>1
<1> QED
  BY <1>8, <1>9, <1>10, <1>11, <1>13, <1>14, SoundStep

\* The delete that leaves is the only one of its sender's claim.
LEMMA DeleteObjectsStep ==
    ASSUME DeletionInv, NEW e \in Executors, DeleteObjects(e) PROVE DeletionInv'
<1>1. /\ TypeOK /\ WorkerSound(exec[e]) /\ exec[e].at = "delete"
      /\ exec[e] \in Executor /\ exec[e].gen \in Nat /\ exec[e].key \in Keys
      /\ request.stage \in Destructive
      /\ UNCHANGED <<community, request, chunks, writer, live, objects, faults, destroyed, late>>
  BY DEF DeletionInv, TypeOK, Executor, DeleteObjects, serving, hist, WorkerSound,
         Deleting, AfterDrain
<1> DEFINE new == [by |-> e, gen |-> exec[e].gen, key |-> exec[e].key]
<1>2. deletes' = deletes \cup {new}
  BY DEF DeleteObjects
<1>3. new \in Delete /\ new.by = e /\ new.gen = exec[e].gen /\ new.key = exec[e].key
  BY <1>1 DEF Delete
<1> HIDE DEF new
<1>4. /\ Moves(e) /\ exec'[e].at = "deleting" /\ exec'[e].gen = exec[e].gen
      /\ exec'[e].no = exec[e].no /\ exec'[e].key = exec[e].key
  BY <1>1, GotoMoves DEF DeleteObjects, Places
<1>5. TypeOK'
  BY <1>1, <1>2, <1>3, <1>4 DEF TypeOK, Moves, RetriesBounded
<1>6. UnexpiredIsCurrent' /\ RowsAgree' /\ ManifestHolds'
  BY <1>1 DEF UnexpiredIsCurrent, Current, RowsAgree, ManifestHolds, Owed, DeletionInv
<1>7. WorkerSound(exec[e])'
  BY <1>1, <1>4
     DEF WorkerSound, Listing, AfterDrain, Deleting, BeforeListing
<1>8. \A f \in Executors : WorkerSound(exec[f])'
  BY <1>1, <1>4, <1>7 DEF Moves, WorkerSound, Owed, DeletionInv
<1>9. DeletesAwaited'
  <2>1. \A d \in deletes : d.by = e => d.gen # exec[e].gen
    BY <1>1 DEF DeletionInv, DeletesAwaited
  <2> QED
    BY <1>1, <1>2, <1>3, <1>4, <2>1
       DEF DeletionInv, DeletesAwaited, Moves, TypeOK, Delete, WorkerSound
<1> QED
  BY <1>5, <1>6, <1>8, <1>9 DEF DeletionInv

\* A delete takes effect; its sender, if it still waits, knows the key gone.
LEMMA DeleteLandsStep ==
    ASSUME DeletionInv, NEW d \in deletes, DeleteLands(d) PROVE DeletionInv'
<1>1. /\ TypeOK /\ d \in Delete /\ d.by \in Executors /\ d.gen \in Nat /\ d.key \in Keys
      /\ objects' = objects \ {d.key} /\ destroyed' = destroyed \cup {d.key}
      /\ deletes' = deletes \ {d}
      /\ UNCHANGED <<community, request, chunks, writer, live, faults, late>>
      /\ request.stage \in Destructive
  BY DEF DeletionInv, TypeOK, Delete, DeleteLands, serving, RowsAgree
<1>2. Owed' = Owed \ {d.key}
  BY <1>1 DEF Owed
<1>3. /\ exec' \in [Executors -> Executor]
      /\ \A f \in Executors :
           \/ exec'[f] = exec[f]
           \/ /\ f = d.by /\ exec[f].at = "deleting" /\ exec[f].gen = d.gen
              /\ exec'[f].at = "stamp" /\ exec'[f].gen = exec[f].gen
              /\ exec'[f].no = exec[f].no /\ exec'[f].key = exec[f].key
  <2>1. CASE exec[d.by].at = "deleting" /\ exec[d.by].gen = d.gen
    <3>1. exec[d.by] \in Executor /\ "stamp" \in Places
      BY <1>1 DEF TypeOK, Places
    <3> DEFINE x == [exec[d.by] EXCEPT !.at = "stamp"]
    <3>2. /\ x \in Executor /\ x.at = "stamp" /\ x.gen = exec[d.by].gen
          /\ x.no = exec[d.by].no /\ x.key = exec[d.by].key
      BY <3>1 DEF Executor
    <3>3. exec' = [exec EXCEPT ![d.by] = x]
      BY <2>1 DEF DeleteLands
    <3> HIDE DEF x
    <3> QED
      BY <1>1, <2>1, <3>2, <3>3 DEF TypeOK
  <2>2. CASE ~ (exec[d.by].at = "deleting" /\ exec[d.by].gen = d.gen)
    BY <1>1, <2>2 DEF DeleteLands, TypeOK
  <2> QED
    BY <2>1, <2>2
<1>4. TypeOK'
  BY <1>1, <1>3 DEF TypeOK, RetriesBounded
<1>5. UnexpiredIsCurrent' /\ RowsAgree'
  BY <1>1 DEF UnexpiredIsCurrent, Current, RowsAgree, DeletionInv
<1>6. ManifestHolds'
  BY <1>1, <1>2 DEF ManifestHolds, DeletionInv
<1>7. ASSUME NEW f \in Executors PROVE WorkerSound(exec[f])'
  <2>1. CASE exec'[f] = exec[f]
    BY <1>1, <1>2, <2>1 DEF DeletionInv, WorkerSound
  <2>2. CASE exec'[f] # exec[f]
    <3>1. exec[f].key = d.key
      BY <1>1, <1>3, <2>2 DEF DeletionInv, DeletesAwaited
    <3> QED
      BY <1>1, <1>2, <1>3, <2>2, <3>1
         DEF DeletionInv, WorkerSound, Listing, BeforeListing, Deleting, AfterDrain
  <2> QED
    BY <2>1, <2>2
<1>8. DeletesAwaited'
  <2>1. SUFFICES ASSUME NEW b \in deletes'
                 PROVE  /\ b.gen <= request'.gen
                        /\ exec'[b.by].at # "idle" /\ exec'[b.by].gen = b.gen =>
                             exec'[b.by].at = "deleting" /\ exec'[b.by].key = b.key
    BY DEF DeletesAwaited
  <2>2. b \in deletes /\ b # d /\ b \in Delete /\ b.by \in Executors
    BY <1>1 DEF TypeOK, Delete
  <2>3. CASE exec'[b.by] = exec[b.by]
    BY <1>1, <2>2, <2>3 DEF DeletionInv, DeletesAwaited
  <2>4. CASE exec'[b.by] # exec[b.by]
    <3>1. b.by = d.by /\ exec[b.by].gen = d.gen /\ exec'[b.by].gen = d.gen
      BY <1>3, <2>2, <2>4
    <3>2. b.gen = d.gen => b.key = d.key
      BY <1>3, <2>2, <2>4, <3>1 DEF DeletionInv, DeletesAwaited
    <3>3. b.gen = d.gen => b = d
      BY <1>1, <2>2, <3>1, <3>2 DEF Delete
    <3> QED
      BY <1>1, <2>2, <3>1, <3>3 DEF DeletionInv, DeletesAwaited
  <2> QED
    BY <2>3, <2>4
<1> QED
  BY <1>4, <1>5, <1>6, <1>7, <1>8 DEF DeletionInv

---------------------------------------------------------------------------
(* The serving writes.                                                     *)

\* A step of the writers: the rows and the executors stay, so only the
\* owed keys and the leases matter.
LEMMA WritersMove ==
    ASSUME DeletionInv, writer' \in [Writers -> Writer], live' \subseteq Writers,
           objects' \cup late' \subseteq Keys,
           UnexpiredIsCurrent',
           UNCHANGED <<community, request, chunks, exec, deletes, faults, destroyed>>,
           \/ Owed' \subseteq Owed
           \/ request.stage \notin Destructive \cup {"fenced"}
    PROVE  DeletionInv'
<1>1. TypeOK'
  BY DEF DeletionInv, TypeOK, RetriesBounded
<1>2. RowsAgree' /\ DeletesAwaited'
  BY DEF DeletionInv, RowsAgree, DeletesAwaited
<1>3. ManifestHolds'
  BY StageSets DEF DeletionInv, ManifestHolds, RowsAgree
<1>4. \A f \in Executors : WorkerSound(exec[f])'
  BY StageSets DEF DeletionInv, WorkerSound, AfterDrain, Deleting
<1> QED
  BY <1>1, <1>2, <1>3, <1>4 DEF DeletionInv

\* A serving lease is handed out at the community's generation.
LEMMA AcquireServingStep ==
    ASSUME DeletionInv, NEW w \in Writers, AcquireServing(w) PROVE DeletionInv'
<1>1. /\ writer \in [Writers -> Writer] /\ live \subseteq Writers /\ community.gen \in Nat
      /\ objects \cup late \subseteq Keys /\ UnexpiredIsCurrent
  BY DEF DeletionInv, TypeOK, Community
<1>2. UNCHANGED <<community, request, chunks, exec, deletes, objects, faults, destroyed, late>>
  BY DEF AcquireServing, executors, hist
<1> DEFINE x == [at |-> "leased", gen |-> community.gen, put |-> 0]
<1>3. x \in Writer /\ x.gen = community.gen
  BY <1>1 DEF Writer
<1>4. /\ community.state = "active" /\ live' = live \cup {w}
      /\ writer' = [writer EXCEPT ![w] = x]
  BY DEF AcquireServing
<1> HIDE DEF x
<1>5. writer' \in [Writers -> Writer]
  BY <1>1, <1>3, <1>4
<1>6. UnexpiredIsCurrent'
  BY <1>1, <1>2, <1>3, <1>4 DEF UnexpiredIsCurrent, Current
<1>7. Owed' = Owed
  BY <1>2 DEF Owed
<1> QED
  BY <1>1, <1>2, <1>4, <1>5, <1>6, <1>7, WritersMove

\* A writer's own step, which changes no generation and grants no lease.
LEMMA WriterMoves ==
    ASSUME DeletionInv, NEW w \in Writers, NEW x \in Writer,
           writer' = [writer EXCEPT ![w] = x], x.gen = writer[w].gen, live' \subseteq live,
           UNCHANGED <<community, request, chunks, exec, deletes, faults, destroyed>>,
           \/ UNCHANGED <<objects, late>>
           \/ /\ objects' \cup late' \subseteq Keys
              /\ Owed' \subseteq Owed \/ request.stage \notin Destructive \cup {"fenced"}
    PROVE  DeletionInv'
<1>1. /\ writer \in [Writers -> Writer] /\ live \subseteq Writers
      /\ objects \cup late \subseteq Keys /\ UnexpiredIsCurrent
  BY DEF DeletionInv, TypeOK
<1>2. writer' \in [Writers -> Writer]
  BY <1>1
<1>3. UnexpiredIsCurrent'
  BY <1>1 DEF UnexpiredIsCurrent, Current
<1>4. /\ objects' \cup late' \subseteq Keys
      /\ Owed' \subseteq Owed \/ request.stage \notin Destructive \cup {"fenced"}
  BY <1>1 DEF Owed
<1> QED
  BY <1>1, <1>2, <1>3, <1>4, WritersMove

\* A PUT that lands after the fence lands late: no lease is left then.
LEMMA PutLandsStep ==
    ASSUME DeletionInv, NEW w \in Writers, PutLands(w) PROVE DeletionInv'
<1>1. /\ writer \in [Writers -> Writer] /\ writer[w] \in Writer
      /\ objects \subseteq Keys /\ late \subseteq Keys
      /\ UnexpiredIsCurrent /\ community \in Community
  BY DEF DeletionInv, TypeOK
<1>2. writer[w].put \in Keys
  BY <1>1 DEF PutLands, Writer
<1> DEFINE to == IF writer[w].at = "putting" THEN "landed" ELSE writer[w].at
           x == [writer[w] EXCEPT !.put = 0, !.at = to]
<1>3. to \in {"idle", "leased", "putting", "landed", "done"}
  BY <1>1 DEF Writer
<1>4. writer' = [writer EXCEPT ![w] = x]
  BY <1>1 DEF PutLands
<1> HIDE DEF to
<1>5. x \in Writer /\ x.gen = writer[w].gen
  BY <1>1, <1>3 DEF Writer
<1> HIDE DEF x
<1>6. UNCHANGED <<community, request, chunks, exec, deletes, live, faults, destroyed>>
  BY DEF PutLands, executors
<1>7. /\ objects' = objects \cup {writer[w].put}
      /\ late' = IF w \in live \/ community.state \in {"active", "quiescing"} THEN late
                 ELSE late \cup {writer[w].put}
  BY DEF PutLands
<1>8. objects' \cup late' \subseteq Keys
  BY <1>1, <1>2, <1>7
<1>9. Owed' \subseteq Owed \/ request.stage \notin Destructive \cup {"fenced"}
  <2>1. CASE community.state \in {"active", "quiescing"}
    BY <2>1 DEF DeletionInv, RowsAgree
  <2>2. CASE community.state \notin {"active", "quiescing"}
    BY <1>1, <1>7, <2>2 DEF UnexpiredIsCurrent, Current, Owed
  <2> QED
    BY <2>1, <2>2
<1> QED
  BY <1>4, <1>5, <1>6, <1>8, <1>9, WriterMoves

\* The other steps of a writer put nothing into the store and grant no lease.
LEMMA OtherWriterSteps ==
    ASSUME DeletionInv, NEW w \in Writers,
           StartPut(w) \/ ReleaseServing(w) \/ RelayDies(w) \/ ServingLapses(w)
    PROVE  DeletionInv'
<1>1. writer \in [Writers -> Writer] /\ writer[w] \in Writer
  BY DEF DeletionInv, TypeOK
<1>2. /\ UNCHANGED <<community, request, chunks, exec, deletes, objects, faults, destroyed, late>>
      /\ live' \subseteq live
  BY DEF StartPut, ReleaseServing, RelayDies, ServingLapses, executors, hist
<1>3. \E x \in Writer : x.gen = writer[w].gen /\ writer' = [writer EXCEPT ![w] = x]
  <2>1. CASE StartPut(w)
    <3>1. PICK k \in Keys : writer' = [writer EXCEPT ![w].at = "putting", ![w].put = k]
      BY <2>1 DEF StartPut
    <3> DEFINE x == [writer[w] EXCEPT !.at = "putting", !.put = k]
    <3>2. x \in Writer /\ x.gen = writer[w].gen
      BY <1>1 DEF Writer
    <3>3. writer' = [writer EXCEPT ![w] = x]
      BY <1>1, <3>1
    <3> QED
      BY <3>2, <3>3
  <2>2. CASE ReleaseServing(w) \/ RelayDies(w)
    <3> DEFINE x == [writer[w] EXCEPT !.at = "done"]
    <3>1. x \in Writer /\ x.gen = writer[w].gen
      BY <1>1 DEF Writer
    <3>2. writer' = [writer EXCEPT ![w] = x]
      BY <2>2 DEF ReleaseServing, RelayDies, Writing
    <3> QED
      BY <3>1, <3>2
  <2>3. CASE ServingLapses(w)
    <3>1. writer' = [writer EXCEPT ![w] = writer[w]]
      BY <1>1, <2>3 DEF ServingLapses
    <3> QED
      BY <1>1, <3>1
  <2> QED
    BY <2>1, <2>2, <2>3
<1> QED
  BY <1>2, <1>3, WriterMoves

---------------------------------------------------------------------------
(* The theorems.                                                           *)

\* The invariant holds of a community that serves and has no request.
LEMMA DeletionInvInit == Init => DeletionInv
<1> SUFFICES ASSUME Init PROVE DeletionInv
  OBVIOUS
<1> USE DEF Init
<1>1. Idle \in Executor /\ request \in Request /\ community \in Community
  BY StageSets DEF Idle, Executor, Places, NoRequest, Request, Community
<1>2. TypeOK
  <2>1. RetriesBounded
    BY BoundsAssumption DEF RetriesBounded, NoRequest
  <2>2. \A w \in Writers : writer[w] \in Writer
    BY DEF Writer
  <2>3. exec \in [Executors -> Executor] /\ writer \in [Writers -> Writer]
    BY <1>1, <2>2
  <2>4. faults \in 0..MaxFaults
    BY BoundsAssumption
  <2> QED
    BY <1>1, <2>1, <2>3, <2>4, KeysAssumption DEF TypeOK
<1>3. RowsAgree /\ ManifestHolds /\ UnexpiredIsCurrent /\ DeletesAwaited
  BY StageSets DEF RowsAgree, ManifestHolds, UnexpiredIsCurrent, DeletesAwaited, NoRequest, Early
<1>4. \A e \in Executors : WorkerSound(exec[e])
  BY <1>2, IdleIsSound
<1> QED
  BY <1>2, <1>3, <1>4 DEF DeletionInv

\* Every step keeps the invariant.
LEMMA DeletionInvNext == DeletionInv /\ [Next]_vars => DeletionInv'
<1> SUFFICES ASSUME DeletionInv, [Next]_vars PROVE DeletionInv'
  OBVIOUS
<1>1. ASSUME NEW w \in Writers, WriterStep(w) PROVE DeletionInv'
  BY <1>1, AcquireServingStep, PutLandsStep, OtherWriterSteps DEF WriterStep
<1>2. CASE Operator
  BY <1>2, DecideStep, AbortStep, RowSteps DEF Operator
<1>3. ASSUME NEW e \in Executors, Claim(e) \/ Work(e) PROVE DeletionInv'
  <2>1. CASE StageNotReady(e)
    BY <2>1, RecordRetryStep DEF StageNotReady
  <2> QED
    BY <1>3, <2>1, ClaimStep, NextStageStep, BeginQuiescingStep, ActivateFenceStep,
       CheckDrainedStep, VerifyStep, ClearChunksStep, ListPageStep, AppendChunkStep,
       FreezeManifestStep, MarkDrainedStep, PickChunkStep, DeleteObjectsStep,
       StampChunkStep, LateStageStep, VerifyAbsenceStep, MarkLogicallyVerifiedStep,
       MarkRetentionPendingStep
       DEF Work
<1>4. ASSUME NEW e \in Executors, Trouble(e) PROVE DeletionInv'
  <2>1. CASE StageFails(e)
    BY <2>1, RecordRetryStep DEF StageFails
  <2> QED
    BY <1>4, <2>1, BlockStep, StopExecutorStep, GiveUpStep DEF Trouble
<1>5. ASSUME NEW d \in deletes, DeleteLands(d) PROVE DeletionInv'
  BY <1>5, DeleteLandsStep
<1>6. CASE LeaseLapses
  BY <1>6, RowSteps
<1>7. CASE UNCHANGED vars
  BY <1>7 DEF vars, DeletionInv, TypeOK, RetriesBounded, UnexpiredIsCurrent, Current, RowsAgree,
              ManifestHolds, WorkerSound, DeletesAwaited, Owed
<1> QED
  BY <1>1, <1>2, <1>3, <1>4, <1>5, <1>6, <1>7 DEF Next

\* Rows, leases, executors and objects agree at every moment, for any
\* number of executors, writers and keys (DeletionInv).
THEOREM DeletionInvariant == Spec => []DeletionInv
<1>1. Init => DeletionInv
  BY DeletionInvInit
<1>2. DeletionInv /\ [Next]_vars => DeletionInv'
  BY DeletionInvNext
<1> QED
  BY <1>1, <1>2, PTL DEF Spec

\* No object is deleted, and no delete is on its way, while the community
\* can still come back into use (run_guarded_external_step, abort).
THEOREM DestructionFinal == Spec => []DestructionIsFinal
<1>1. DeletionInv => DestructionIsFinal
  BY DEF DeletionInv, RowsAgree, DestructionIsFinal
<1> QED
  BY <1>1, DeletionInvariant, PTL

\* The stages at which everything owed has been deleted.
Removed == Destructive \ {"drained"}

\* What a step does to the manifest and to the owed keys: a frozen manifest
\* stays, and the stages of Removed are entered with nothing owed, after
\* which no key becomes owed.
Effect ==
    /\ request.frozen # {} => request'.frozen = request.frozen
    /\ \/ request'.stage \notin Removed
       \/ request.stage \in Removed /\ Owed' \subseteq Owed
       \/ Owed' = {}

\* A step that leaves the objects, the stage and the manifest alone has no
\* effect on what is owed.
LEMMA QuietEffect ==
    ASSUME DeletionInv, UNCHANGED <<objects, late>>,
           request' = request \/ request'.frozen = request.frozen,
           request' = request \/ request'.stage = request.stage
    PROVE  Effect
BY DEF Effect, Owed

\* A write that lands after the fence lands late.
LEMMA WriterEffect ==
    ASSUME DeletionInv, NEW w \in Writers, WriterStep(w) PROVE Effect
<1>1. CASE PutLands(w)
  <2>1. request' = request /\ community' = community
    BY <1>1 DEF PutLands
  <2>2. Owed' \subseteq Owed \/ request.stage \notin Destructive
    <3>1. CASE community.state \in {"active", "quiescing"}
      BY <3>1 DEF DeletionInv, RowsAgree
    <3>2. CASE community.state \notin {"active", "quiescing"}
      BY <1>1, <3>2 DEF DeletionInv, UnexpiredIsCurrent, Current, Owed, PutLands
    <3> QED
      BY <3>1, <3>2
  <2> QED
    BY <2>1, <2>2 DEF Effect, Removed
<1>2. CASE ~ PutLands(w)
  <2>1. UNCHANGED <<objects, late, request>>
    BY <1>2 DEF WriterStep, AcquireServing, StartPut, ReleaseServing, RelayDies, ServingLapses, hist
  <2> QED
    BY <2>1, QuietEffect
<1> QED
  BY <1>1, <1>2

\* An operator takes a request no further than to approved, or aborts it.
LEMMA OperatorEffect ==
    ASSUME DeletionInv, Operator PROVE Effect
<1>1. request \in Request
  BY DEF DeletionInv, TypeOK
<1>2. CASE Submit \/ FreezeInventory \/ Approve \/ Abort
  <2>1. request'.stage \in {"submitted", "inventoried", "approved", "aborted"}
        /\ request'.frozen = request.frozen
    BY <1>1, <1>2 DEF Submit, FreezeInventory, Approve, Abort, Decide, Request
  <2> QED
    BY <2>1, StageSets DEF Effect, Removed
<1>3. CASE Unblock \/ BlockSetup
  <2>1. /\ request'.stage = request.stage /\ request'.frozen = request.frozen
        /\ UNCHANGED <<objects, late>>
    BY <1>1, <1>3 DEF Unblock, BlockSetup, Request, hist
  <2> QED
    BY <2>1, QuietEffect
<1> QED
  BY <1>2, <1>3 DEF Operator

\* The one step that enters Removed from outside finds every chunk stamped.
LEMMA BindingsRemovedEffect ==
    ASSUME DeletionInv, NEW e \in Executors, MarkBindingsRemoved(e) PROVE Effect
<1>1. /\ Advance(e, "drained", "bindings_removed") /\ exec[e].at = "mark_removed"
      /\ UNCHANGED <<objects, late, chunks>> /\ WorkerSound(exec[e])
  BY DEF MarkBindingsRemoved, hist, DeletionInv
<1>2. request.stage = "drained" /\ request'.frozen = request.frozen
  BY <1>1, AdvanceMoves, StageSets
<1>3. \A c \in chunks : c.key \notin Owed
  BY <1>1 DEF WorkerSound, DeletionInv, ManifestHolds
<1>4. Owed \subseteq {c.key : c \in chunks}
  BY <1>2, StageSets DEF DeletionInv, ManifestHolds, RowsAgree
<1>5. Owed = {}
  BY <1>3, <1>4
<1> QED
  BY <1>1, <1>2, <1>5 DEF Effect, Owed

\* An executor freezes a manifest once, and enters Removed only through
\* mark_bindings_removed.
LEMMA ExecutorEffect ==
    ASSUME DeletionInv, NEW e \in Executors, Claim(e) \/ Work(e) \/ Trouble(e) PROVE Effect
<1>1. request \in Request
  BY DEF DeletionInv, TypeOK
<1>2. CASE MarkBindingsRemoved(e)
  BY <1>2, BindingsRemovedEffect
<1>3. CASE ActivateFence(e) \/ MarkDrained(e)
  <2>1. request'.stage \in {"fenced", "drained"} /\ request'.frozen = request.frozen
    BY <1>1, <1>3 DEF ActivateFence, MarkDrained, Advance, Request
  <2> QED
    BY <2>1, StageSets DEF Effect, Removed
<1>4. CASE PurgePostgres(e) \/ PurgeCache(e) \/ MarkLogicallyVerified(e) \/ MarkRetentionPending(e)
  <2>1. /\ request.stage \in {"bindings_removed", "postgres_purged", "cache_purged",
                              "logically_verified"}
        /\ request'.frozen = request.frozen /\ UNCHANGED <<objects, late>>
    BY <1>1, <1>4 DEF PurgePostgres, PurgeCache, MarkLogicallyVerified, MarkRetentionPending,
                      Advance, Holds, Request, hist
  <2> QED
    BY <2>1, StageSets DEF Effect, Removed, Owed
<1>5. CASE FreezeManifest(e)
  <2>1. /\ request'.stage = request.stage /\ request'.frozen = {exec[e].seen}
        /\ request.frozen \in {{}, {exec[e].seen}} /\ UNCHANGED <<objects, late>>
    BY <1>1, <1>5 DEF FreezeManifest, Request, hist
  <2> QED
    BY <2>1 DEF Effect, Owed
<1>6. CASE \/ Claim(e) \/ StageNotReady(e) \/ StageFails(e) \/ Block(e) \/ StopExecutor(e)
  <2>1. /\ request'.stage = request.stage /\ request'.frozen = request.frozen
        /\ UNCHANGED <<objects, late>>
    BY <1>1, <1>6 DEF Claim, StageNotReady, StageFails, RecordRetry, Block, StopExecutor,
                      Request, hist
  <2> QED
    BY <2>1, QuietEffect
<1>7. CASE \/ NextStage(e) \/ BeginQuiescing(e) \/ CheckDrained(e) \/ Verify(e)
           \/ ClearChunks(e) \/ ListPage(e) \/ AppendChunk(e) \/ PickChunk(e)
           \/ DeleteObjects(e) \/ StampChunk(e) \/ VerifyAbsence(e) \/ GiveUp(e)
  <2>1. UNCHANGED <<objects, late, request>>
    BY <1>7 DEF NextStage, BeginQuiescing, CheckDrained, Verify, ClearChunks, ListPage,
                AppendChunk, PickChunk, DeleteObjects, StampChunk, VerifyAbsence, GiveUp, hist
  <2> QED
    BY <2>1, QuietEffect
<1> QED
  BY <1>2, <1>3, <1>4, <1>5, <1>6, <1>7 DEF Work, Trouble

\* The effect of any step.
LEMMA NextEffect == DeletionInv /\ [Next]_vars => Effect
<1> SUFFICES ASSUME DeletionInv, [Next]_vars PROVE Effect
  OBVIOUS
<1>1. ASSUME NEW d \in deletes, DeleteLands(d) PROVE Effect
  BY <1>1 DEF DeleteLands, Effect, Owed
<1>2. CASE LeaseLapses
  <2>1. /\ request'.stage = request.stage /\ request'.frozen = request.frozen
        /\ UNCHANGED <<objects, late>>
    BY <1>2 DEF DeletionInv, TypeOK, LeaseLapses, Request, hist
  <2> QED
    BY <2>1, QuietEffect
<1>3. CASE UNCHANGED vars
  BY <1>3, QuietEffect DEF vars
<1> QED
  BY <1>1, <1>2, <1>3, WriterEffect, OperatorEffect, ExecutorEffect DEF Next

\* Once the storage bindings are reported removed, nothing of the tenant is
\* left but late writes, whatever executors, retries and crashes there were
\* (mark_bindings_removed).
THEOREM NothingIsLeft == Spec => []NothingLeftBehind
<1>1. Init => NothingLeftBehind
  BY StageSets DEF Init, NoRequest, NothingLeftBehind
<1>2. DeletionInv /\ NothingLeftBehind /\ [Next]_vars => NothingLeftBehind'
  BY NextEffect DEF Effect, NothingLeftBehind, Removed, Owed
<1> QED
  BY <1>1, <1>2, DeletionInvariant, PTL DEF Spec

\* A frozen manifest never changes, and until the deletion is verified its
\* chunks are the manifest: no stale executor clears or adds any.
THEOREM FrozenForGood == Spec => FrozenStays
<1>1. DeletionInv /\ DeletionInv' /\ [Next]_vars =>
        [request.frozen # {} =>
           /\ request'.frozen = request.frozen
           /\ request'.stage \in Destructive \ {Chain[9], Chain[10]} =>
                {c.key : c \in chunks'} = UNION request.frozen]_vars
  <2> SUFFICES ASSUME DeletionInv, DeletionInv', [Next]_vars, request.frozen # {}
               PROVE  /\ request'.frozen = request.frozen
                      /\ request'.stage \in Destructive \ {Chain[9], Chain[10]} =>
                           {c.key : c \in chunks'} = UNION request.frozen
    OBVIOUS
  <2>1. request'.frozen = request.frozen
    BY NextEffect DEF Effect
  <2> QED
    BY <2>1, StageSets DEF DeletionInv, ManifestHolds
<1> QED
  BY <1>1, DeletionInvariant, PTL DEF Spec, FrozenStays
=============================================================================
