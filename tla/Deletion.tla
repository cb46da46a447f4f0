------------------------------ MODULE Deletion ------------------------------
(***************************************************************************)
(* Deleting a community (buzz-deletion, buzz-db/deletion.rs): an approved   *)
(* request is carried through its stages by the deletion commands that      *)
(* operators run, whichever of them holds its lease, while relays that were *)
(* admitted before the community was closed finish their writes to the      *)
(* object store under serving leases.                                       *)
(*                                                                         *)
(* A transaction whose last statement repeats its check is one step.  Where *)
(* the check is only made earlier (verify_lease_and_fence before a chunk or *)
(* an object is touched) it is a step of its own, Verify.                   *)
(***************************************************************************)
EXTENDS Naturals, FiniteSets

CONSTANTS
    Executors,     \* processes running a deletion command
    Writers,       \* admitted external writes (uploads, pushes), one each
    Keys,          \* object keys under the tenant's prefixes, in listing order
    OldKeys,       \* keys there from the beginning
    MaxRetries,    \* consecutive failures at a stage that block the request
    MaxFaults      \* bound: failures, crashes, blocks and unblocks

ASSUME KeysAssumption == Keys \subseteq Nat \ {0} /\ OldKeys \subseteq Keys
ASSUME BoundsAssumption ==
    MaxRetries \in Nat \ {0} /\ MaxFaults \in Nat

VARIABLES
    community,   \* [state, gen]: communities.deletion_state and fence generation
    request,     \* its row in community_deletion_requests
    chunks,      \* its frozen key chunks: [no, key, gone]
    exec,        \* executor -> where it is and what it holds
    writer,      \* writer -> where it is, its lease's fence generation, its PUT
    live,        \* writers whose serving lease row exists and is unexpired
    objects,     \* tenant keys in the object store
    deletes,     \* object deletes on their way to the store
    faults,      \* bound: faults so far
    destroyed,   \* history: keys deleted from the store
    late         \* history: keys put after the fence by a write without a lease

executors == <<exec, deletes>>
serving   == <<writer, live>>
hist      == <<destroyed, late>>
vars == <<community, request, chunks, exec, writer, live, objects, deletes, faults,
          destroyed, late>>

---------------------------------------------------------------------------
Chain == <<"submitted", "inventoried", "approved", "fenced", "drained",
           "bindings_removed", "postgres_purged", "cache_purged",
           "logically_verified", "retention_pending">>
Stages == {Chain[i] : i \in 1..10} \cup {"none", "aborted"}

Runnable == {Chain[i] : i \in 3..9}
Terminal == {"retention_pending", "aborted"}

\* Stages from which there is no way back: objects are being deleted.
Destructive == {Chain[i] : i \in 5..10}

\* The first step of execute_stage for each stage.
FirstStep ==
    [approved |-> "quiesce", fenced |-> "drain", drained |-> "pick",
     bindings_removed |-> "purge", postgres_purged |-> "purge_cache",
     cache_purged |-> "verify_absence", logically_verified |-> "retain"]

\* frozen holds the destructive manifest once there is one.
NoRequest ==
    [stage |-> "none", blocked |-> FALSE, gen |-> 0, leased |-> FALSE,
     retries |-> 0, frozen |-> {}]
Idle == [at |-> "idle", gen |-> 0, ok |-> FALSE, no |-> 0, key |-> 0, seen |-> {}]

Init ==
    /\ community = [state |-> "active", gen |-> 0]
    /\ request = NoRequest
    /\ chunks = {}
    /\ exec = [e \in Executors |-> Idle]
    /\ writer = [w \in Writers |-> [at |-> "idle", gen |-> 0, put |-> 0]]
    /\ live = {}
    /\ objects = OldKeys
    /\ deletes = {}
    /\ faults = 0
    /\ destroyed = {} /\ late = {}

---------------------------------------------------------------------------
(* Serving writes (ServingWriteGuard).  A released, an expired and a reaped *)
(* lease are alike: there is no row that counts.                            *)

Writing(w, from, to) == writer[w].at = from /\ writer' = [writer EXCEPT ![w].at = to]

AcquireServing(w) ==
    /\ writer[w].at = "idle"
    /\ community.state = "active"
    /\ writer' = [writer EXCEPT ![w] = [at |-> "leased", gen |-> community.gen, put |-> 0]]
    /\ live' = live \cup {w}
    /\ UNCHANGED <<community, request, chunks, executors, objects, faults, hist>>

\* verify_serving_write_lease, and renewal, for a lease that is presented.
Current(w) ==
    /\ w \in live
    /\ community.state \in {"active", "quiescing"}
    /\ community.gen = writer[w].gen

\* protect: verify, and only then start the operation.
StartPut(w) ==
    /\ writer[w].at = "leased"
    /\ Current(w)
    /\ \E k \in Keys : writer' = [writer EXCEPT ![w].at = "putting", ![w].put = k]
    /\ UNCHANGED <<community, request, chunks, executors, live, objects, faults, hist>>

\* The PUT takes effect, whether or not anybody is waiting for it.
PutLands(w) ==
    /\ writer[w].put # 0
    /\ objects' = objects \cup {writer[w].put}
    /\ late' = IF w \in live \/ community.state \in {"active", "quiescing"} THEN late
               ELSE late \cup {writer[w].put}
    /\ writer' = [writer EXCEPT ![w].put = 0,
                                ![w].at = IF @ = "putting" THEN "landed" ELSE @]
    /\ UNCHANGED <<community, request, chunks, executors, live, faults, destroyed>>

\* finish, or the drop of the guard: a lost heartbeat, a lost client or an
\* error.  Both release the lease; a PUT already sent travels on.
ReleaseServing(w) ==
    /\ writer[w].at \in {"leased", "putting", "landed"}
    /\ writer' = [writer EXCEPT ![w].at = "done"]
    /\ live' = live \ {w}
    /\ UNCHANGED <<community, request, chunks, executors, objects, faults, hist>>

\* The relay dies: nothing is released, and nothing renewed.
RelayDies(w) ==
    /\ \/ Writing(w, "leased", "done") \/ Writing(w, "putting", "done")
       \/ Writing(w, "landed", "done")
    /\ UNCHANGED <<community, request, chunks, executors, live, objects, faults, hist>>

\* lease_until passes, of a dead relay or of one that stalled.
ServingLapses(w) ==
    /\ w \in live
    /\ live' = live \ {w}
    /\ UNCHANGED <<community, request, chunks, executors, writer, objects, faults, hist>>

---------------------------------------------------------------------------
(* Operators.                                                              *)

Fault == faults < MaxFaults /\ faults' = faults + 1

\* The one request of the model: what may be submitted after an abort is a
\* row of its own.
Submit ==
    /\ request.stage = "none"
    /\ community.state = "active"
    /\ request' = [request EXCEPT !.stage = "submitted"]
    /\ UNCHANGED <<community, chunks, executors, serving, objects, faults, hist>>

\* freeze_inventory and approve: the operator's two steps before any claim.
Decide(from, to) ==
    /\ request.stage = from /\ ~request.blocked
    /\ request' = [request EXCEPT !.stage = to]
    /\ UNCHANGED <<community, chunks, executors, serving, objects, faults, hist>>

FreezeInventory == Decide("submitted", "inventoried")
Approve         == Decide("inventoried", "approved")

\* Mutant of Abort: also while objects are being deleted.
AbortLater ==
    /\ request.stage \in {"approved", "fenced", "drained"}
    /\ live = {}
    /\ community' = [state |-> "active", gen |-> community.gen + 1]
    /\ request' = [request EXCEPT !.stage = "aborted", !.leased = FALSE,
                                  !.gen = @ + 1, !.blocked = FALSE, !.retries = 0]
    /\ late' = {}
    /\ UNCHANGED <<chunks, executors, serving, objects, faults, destroyed>>

\* Only before anything was deleted, and when no admitted write is left.
\* The new generations turn away every token and every lease handed out.
Abort ==
    /\ request.stage \in {"approved", "fenced"}
    /\ live = {}
    /\ community' = [state |-> "active", gen |-> community.gen + 1]
    /\ request' = [request EXCEPT !.stage = "aborted", !.leased = FALSE,
                                  !.gen = @ + 1, !.blocked = FALSE, !.retries = 0]
    /\ late' = {}
    /\ UNCHANGED <<chunks, executors, serving, objects, faults, destroyed>>

Unblock ==
    /\ Fault
    /\ request.blocked /\ ~request.leased /\ request.stage \notin Terminal
    /\ request' = [request EXCEPT !.blocked = FALSE, !.retries = 0]
    /\ UNCHANGED <<community, chunks, executors, serving, objects, hist>>

\* block_preclaim_setup, and a claim that finds the catalog changed.
BlockSetup ==
    /\ Fault
    /\ request.stage \notin Terminal \cup {"none"} /\ ~request.leased
    /\ request' = [request EXCEPT !.blocked = TRUE]
    /\ UNCHANGED <<community, chunks, executors, serving, objects, hist>>

---------------------------------------------------------------------------
(* Executors.                                                              *)

\* An operator's run or drain command claims the request, or drain goes on
\* to it.  No command waits for one.
Claim(e) ==
    /\ exec[e].at = "idle"
    /\ request.stage \in Runnable /\ ~request.blocked /\ ~request.leased
    /\ request' = [request EXCEPT !.leased = TRUE, !.gen = @ + 1]
    /\ exec' = [exec EXCEPT ![e] = [Idle EXCEPT !.at = "next", !.gen = request.gen + 1]]
    /\ UNCHANGED <<community, chunks, serving, objects, deletes, faults, hist>>

\* The row says the lease is e's, unexpired, and the request not blocked.
Owns(e) == request.leased /\ request.gen = exec[e].gen /\ ~request.blocked

\* verify_lease and verify_lease_and_fence for the given stage.
Holds(e, stage) ==
    /\ Owns(e)
    /\ request.stage = stage
    /\ stage = "approved" \/ community.state \in {"fenced", "tombstone"}

Goto(e, at) == exec' = [exec EXCEPT ![e].at = at, ![e].ok = FALSE]

\* The request is read again and the claim renewed; then its stage is run.
NextStage(e) ==
    /\ exec[e].at = "next"
    /\ Owns(e) /\ request.stage \in Runnable
    /\ Goto(e, FirstStep[request.stage])
    /\ UNCHANGED <<community, request, chunks, serving, objects, deletes, faults, hist>>

\* advance_request_tx, whose UPDATE repeats the check.
Advance(e, from, to) ==
    /\ Holds(e, from)
    /\ request' = [request EXCEPT !.stage = to, !.retries = 0]
    /\ Goto(e, "next")

BeginQuiescing(e) ==
    /\ exec[e].at = "quiesce"
    /\ Holds(e, "approved")
    /\ community.state \in {"active", "quiescing"}
    /\ community' = [community EXCEPT !.state = "quiescing"]
    /\ Goto(e, "fence")
    /\ UNCHANGED <<request, chunks, serving, objects, deletes, faults, hist>>

\* Mutant of ActivateFence: the admitted writes are not waited for.
ActivateFenceUndrained(e) ==
    /\ exec[e].at = "fence"
    /\ community.state = "quiescing"
    /\ community' = [state |-> "fenced", gen |-> community.gen + 1]
    /\ Advance(e, "approved", "fenced")
    /\ UNCHANGED <<chunks, serving, objects, deletes, faults, hist>>

ActivateFence(e) ==
    /\ exec[e].at = "fence"
    /\ live = {}
    /\ community.state = "quiescing"
    /\ community' = [state |-> "fenced", gen |-> community.gen + 1]
    /\ Advance(e, "approved", "fenced")
    /\ UNCHANGED <<chunks, serving, objects, deletes, faults, hist>>

\* Disconnect the clients; go on only when the admitted writes have drained.
CheckDrained(e) ==
    /\ exec[e].at = "drain"
    /\ Holds(e, "fenced")
    /\ live = {}
    /\ Goto(e, IF request.frozen = {} THEN "clear" ELSE "mark_drained")
    /\ UNCHANGED <<community, request, chunks, serving, objects, deletes, faults, hist>>

\* The check made before chunks and objects are touched.
Verify(e) ==
    /\ ~exec[e].ok
    /\ \/ exec[e].at \in {"clear", "append"} /\ Holds(e, "fenced")
       \/ exec[e].at \in {"delete", "stamp"} /\ Holds(e, "drained")
    /\ exec' = [exec EXCEPT ![e].ok = TRUE]
    /\ UNCHANGED <<community, request, chunks, serving, objects, deletes, faults, hist>>

\* Mutant of ChunksRemovable: no trigger on the chunks.
ChunksAlwaysRemovable == TRUE

\* clear_manifest_key_chunks; the trigger protects the chunks of a frozen
\* manifest from the moment it is frozen until the deletion is verified.
ChunksRemovable == request.frozen = {} \/ request.stage \in {Chain[9], Chain[10]}

ClearChunks(e) ==
    /\ exec[e].at = "clear" /\ exec[e].ok
    /\ ChunksRemovable
    /\ chunks' = {}
    /\ Goto(e, "list")
    /\ UNCHANGED <<community, request, serving, objects, deletes, faults, hist>>

\* Keys are listed in order, a page at a time; what appears behind the
\* continuation token is not seen.
ListPage(e) ==
    /\ exec[e].at = "list"
    /\ LET ahead == {k \in objects : k > exec[e].key} IN
       exec' = IF ahead = {} THEN [exec EXCEPT ![e].at = "freeze"]
               ELSE LET k == CHOOSE k \in ahead : \A l \in ahead : k <= l IN
                    [exec EXCEPT ![e].at = "append", ![e].key = k, ![e].seen = @ \cup {k}]
    /\ UNCHANGED <<community, request, chunks, serving, objects, deletes, faults, hist>>

\* append_manifest_key_chunk; the trigger asks for an unfrozen fenced request
\* and the primary key for a new number.
AppendChunk(e) ==
    /\ exec[e].at = "append" /\ exec[e].ok
    /\ request.stage = "fenced" /\ request.frozen = {}
    /\ \A c \in chunks : c.no # exec[e].no
    /\ chunks' = chunks \cup {[no |-> exec[e].no, key |-> exec[e].key, gone |-> FALSE]}
    /\ exec' = [exec EXCEPT ![e].at = "list", ![e].ok = FALSE, ![e].no = @ + 1]
    /\ UNCHANGED <<community, request, serving, objects, deletes, faults, hist>>

\* validate_manifest_key_chunks: the chunks are numbered from 0 without a
\* gap and hold just the keys that were listed, in that order.
ChunksMatch(e) ==
    /\ {c.no : c \in chunks} = {n \in 0..Cardinality(Keys) : n < Cardinality(chunks)}
    /\ {c.key : c \in chunks} = exec[e].seen
    /\ \A c, d \in chunks : c.no < d.no => c.key < d.key

FreezeManifest(e) ==
    /\ exec[e].at = "freeze"
    /\ Holds(e, "fenced")
    /\ ChunksMatch(e)
    /\ request.frozen \in {{}, {exec[e].seen}}
    /\ request' = [request EXCEPT !.frozen = {exec[e].seen}]
    /\ exec' = [exec EXCEPT ![e] = [Idle EXCEPT !.at = "mark_drained", !.gen = exec[e].gen]]
    /\ UNCHANGED <<community, chunks, serving, objects, deletes, faults, hist>>

MarkDrained(e) ==
    /\ exec[e].at = "mark_drained"
    /\ live = {}
    /\ Advance(e, "fenced", "drained")
    /\ UNCHANGED <<community, chunks, serving, objects, deletes, faults, hist>>

\* next_pending_manifest_chunk, which checks nothing.
PickChunk(e) ==
    /\ exec[e].at = "pick"
    /\ LET pending == {c \in chunks : ~c.gone} IN
       IF pending = {} THEN Goto(e, "mark_removed")
       ELSE LET c == CHOOSE c \in pending : \A d \in pending : c.no <= d.no IN
            exec' = [exec EXCEPT ![e].at = "delete", ![e].ok = FALSE,
                                 ![e].no = c.no, ![e].key = c.key]
    /\ UNCHANGED <<community, request, chunks, serving, objects, deletes, faults, hist>>

\* Mutant of DeleteObjects: the answer is not waited for.
DeleteObjectsUnawaited(e) ==
    /\ exec[e].at = "delete" /\ exec[e].ok
    /\ deletes' = deletes \cup {[by |-> e, gen |-> exec[e].gen, key |-> exec[e].key]}
    /\ Goto(e, "stamp")
    /\ UNCHANGED <<community, request, chunks, serving, objects, faults, hist>>

\* run_guarded_external_step: the bulk delete leaves the executor; it takes
\* effect even if the executor is gone by then.
DeleteObjects(e) ==
    /\ exec[e].at = "delete" /\ exec[e].ok
    /\ deletes' = deletes \cup {[by |-> e, gen |-> exec[e].gen, key |-> exec[e].key]}
    /\ Goto(e, "deleting")
    /\ UNCHANGED <<community, request, chunks, serving, objects, faults, hist>>

DeleteLands(d) ==
    /\ objects' = objects \ {d.key}
    /\ destroyed' = destroyed \cup {d.key}
    /\ deletes' = deletes \ {d}
    /\ exec' = IF exec[d.by].at = "deleting" /\ exec[d.by].gen = d.gen
               THEN [exec EXCEPT ![d.by].at = "stamp"] ELSE exec
    /\ UNCHANGED <<community, request, chunks, serving, faults, late>>

StampChunk(e) ==
    /\ exec[e].at = "stamp" /\ exec[e].ok
    /\ \E c \in chunks :
         /\ c.no = exec[e].no /\ ~c.gone
         /\ chunks' = (chunks \ {c}) \cup {[c EXCEPT !.gone = TRUE]}
    /\ Goto(e, "pick")
    /\ UNCHANGED <<community, request, serving, objects, deletes, faults, hist>>

MarkBindingsRemoved(e) ==
    /\ exec[e].at = "mark_removed"
    /\ Advance(e, "drained", "bindings_removed")
    /\ UNCHANGED <<community, chunks, serving, objects, deletes, faults, hist>>

\* purge_postgres: every scoped table and the tombstone in one transaction.
PurgePostgres(e) ==
    /\ exec[e].at = "purge"
    /\ community.state = "fenced"
    /\ community' = [community EXCEPT !.state = "tombstone"]
    /\ Advance(e, "bindings_removed", "postgres_purged")
    /\ UNCHANGED <<chunks, serving, objects, deletes, faults, hist>>

PurgeCache(e) ==
    /\ exec[e].at = "purge_cache"
    /\ Advance(e, "postgres_purged", "cache_purged")
    /\ UNCHANGED <<community, chunks, serving, objects, deletes, faults, hist>>

\* verify_storage_absence lists every prefix again.
VerifyAbsence(e) ==
    /\ exec[e].at = "verify_absence"
    /\ objects = {}
    /\ Goto(e, "mark_verified")
    /\ UNCHANGED <<community, request, chunks, serving, objects, deletes, faults, hist>>

\* The stage moves first, or the trigger would not let go of the chunks.
MarkLogicallyVerified(e) ==
    /\ exec[e].at = "mark_verified"
    /\ Advance(e, "cache_purged", "logically_verified")
    /\ chunks' = {}
    /\ UNCHANGED <<community, serving, objects, deletes, faults, hist>>

MarkRetentionPending(e) ==
    /\ exec[e].at = "retain"
    /\ Holds(e, "logically_verified")
    /\ request' = [request EXCEPT !.stage = "retention_pending", !.leased = FALSE,
                                  !.retries = 0]
    /\ exec' = [exec EXCEPT ![e] = Idle]
    /\ UNCHANGED <<community, chunks, serving, objects, deletes, faults, hist>>

---------------------------------------------------------------------------
(* Failure of a stage, and of an executor.                                 *)

\* record_retry: the claim is given back; at MaxRetries the request blocks.
RecordRetry(e) ==
    /\ Owns(e) /\ request.stage \in Runnable
    /\ request' = [request EXCEPT !.leased = FALSE, !.retries = @ + 1,
                                  !.blocked = (request.retries + 1 >= MaxRetries)]
    /\ exec' = [exec EXCEPT ![e] = Idle]
    /\ UNCHANGED <<community, chunks, serving, objects, deletes, hist>>

\* Mutant of StageNotReady: the executor waits for the writes to drain.
StageNotReadyWaits(e) ==
    /\ \/ exec[e].at = "verify_absence" /\ objects # {}
       \/ exec[e].at = "append" /\ \E c \in chunks : c.no = exec[e].no
    /\ RecordRetry(e)
    /\ UNCHANGED faults

\* Writes have not drained, an object is back, a chunk number is taken.
StageNotReady(e) ==
    /\ \/ exec[e].at \in {"fence", "drain"} /\ live # {}
       \/ exec[e].at = "verify_absence" /\ objects # {}
       \/ exec[e].at = "append" /\ \E c \in chunks : c.no = exec[e].no
    /\ RecordRetry(e)
    /\ UNCHANGED faults

\* Any other error of the database, the store or the cache.
StageFails(e) ==
    /\ Fault
    /\ exec[e].at \notin {"idle", "next"}
    /\ RecordRetry(e)

\* A permanent error: the chunks do not match the listing, a chunk was
\* stamped by somebody else; or, at any step, the catalog has drifted, the
\* approved inventory does not hold, a key is not the tenant's, the bucket
\* keeps versions, a row has not the state the stage left it in.
Block(e) ==
    /\ \/ exec[e].at = "freeze" /\ ~ChunksMatch(e) /\ UNCHANGED faults
       \/ /\ exec[e].at = "stamp"
          /\ \A c \in chunks : c.no = exec[e].no => c.gone
          /\ UNCHANGED faults
       \/ exec[e].at \notin {"idle", "next"} /\ Fault
    /\ Owns(e)
    /\ request' = [request EXCEPT !.leased = FALSE, !.blocked = TRUE]
    /\ exec' = [exec EXCEPT ![e] = Idle]
    /\ UNCHANGED <<community, chunks, serving, objects, deletes, hist>>

\* Shutdown: the claim, if it is still the executor's, is given back.
StopExecutor(e) ==
    /\ Fault
    /\ exec[e].at # "idle"
    /\ request' = [request EXCEPT !.leased = @ /\ request.gen # exec[e].gen]
    /\ exec' = [exec EXCEPT ![e] = Idle]
    /\ UNCHANGED <<community, chunks, serving, objects, deletes, hist>>

\* The executor dies, or finds its claim gone: a failed heartbeat drops the
\* stage, and an error under a stale token is not recorded.
GiveUp(e) ==
    /\ exec[e].at # "idle"
    /\ IF Owns(e) THEN Fault ELSE UNCHANGED faults
    /\ exec' = [exec EXCEPT ![e] = Idle]
    /\ UNCHANGED <<community, request, chunks, serving, objects, deletes, hist>>

\* lease_until passes: the executor is gone, or has not renewed in time.
LeaseLapses ==
    /\ request.leased
    /\ IF \E e \in Executors : exec[e].at # "idle" /\ exec[e].gen = request.gen
       THEN Fault ELSE UNCHANGED faults
    /\ request' = [request EXCEPT !.leased = FALSE]
    /\ UNCHANGED <<community, chunks, executors, serving, objects, hist>>

---------------------------------------------------------------------------
WriterStep(w) ==
    \/ AcquireServing(w) \/ StartPut(w) \/ PutLands(w) \/ ReleaseServing(w)
    \/ RelayDies(w) \/ ServingLapses(w)

Operator ==
    \/ Submit \/ FreezeInventory \/ Approve \/ Abort \/ Unblock \/ BlockSetup

\* What a command that holds a claim does while nothing goes wrong.
Work(e) ==
    \/ NextStage(e) \/ BeginQuiescing(e) \/ ActivateFence(e)
    \/ CheckDrained(e) \/ Verify(e) \/ ClearChunks(e) \/ ListPage(e)
    \/ AppendChunk(e) \/ FreezeManifest(e) \/ MarkDrained(e) \/ PickChunk(e)
    \/ DeleteObjects(e) \/ StampChunk(e) \/ MarkBindingsRemoved(e)
    \/ PurgePostgres(e) \/ PurgeCache(e) \/ VerifyAbsence(e)
    \/ MarkLogicallyVerified(e) \/ MarkRetentionPending(e) \/ StageNotReady(e)

Trouble(e) == StageFails(e) \/ Block(e) \/ StopExecutor(e) \/ GiveUp(e)

Next ==
    \/ \E w \in Writers : WriterStep(w)
    \/ Operator
    \/ \E e \in Executors : Claim(e) \/ Work(e) \/ Trouble(e)
    \/ \E d \in deletes : DeleteLands(d)
    \/ LeaseLapses

Spec == Init /\ [][Next]_vars

\* A process that holds a claim takes its next step, and stops when the claim
\* is gone; the store carries out the deletes it was sent; the lease of a dead
\* process runs out.  That anybody runs a command is not assumed; operators,
\* writers and faults owe nothing.
Proceeds(e) == Work(e) \/ (Block(e) /\ UNCHANGED faults) \/ (~Owns(e) /\ GiveUp(e))

Fairness ==
    /\ \A e \in Executors : WF_vars(Proceeds(e))
    /\ WF_vars(\E d \in deletes : DeleteLands(d))
    /\ WF_vars(LeaseLapses /\ UNCHANGED faults)

LiveSpec == Spec /\ Fairness

---------------------------------------------------------------------------
(* Properties.                                                             *)

Places == {"idle", "next", "quiesce", "fence", "drain", "clear", "list", "append",
           "freeze", "mark_drained", "pick", "delete", "deleting", "stamp",
           "mark_removed", "purge", "purge_cache", "verify_absence",
           "mark_verified", "retain"}

Community == [state : {"active", "quiescing", "fenced", "tombstone"}, gen : Nat]
Request   == [stage : Stages, blocked : BOOLEAN, gen : Nat, leased : BOOLEAN,
              retries : Nat, frozen : SUBSET SUBSET Keys]
Chunk     == [no : Nat, key : Keys, gone : BOOLEAN]
Executor  == [at : Places, gen : Nat, ok : BOOLEAN, no : Nat, key : Keys \cup {0},
              seen : SUBSET Keys]
Writer    == [at : {"idle", "leased", "putting", "landed", "done"}, gen : Nat,
              put : Keys \cup {0}]
Delete    == [by : Executors, gen : Nat, key : Keys]

\* A streak of retries ends in a block.
RetriesBounded ==
    request.retries <= MaxRetries /\ (request.retries = MaxRetries => request.blocked)

\* The rows have the values their columns allow: among them, a streak of
\* retries ends in a block, and no chunk number is used twice.
TypeOK ==
    /\ community \in Community
    /\ request \in Request
    /\ RetriesBounded
    /\ chunks \subseteq Chunk
    /\ \A c, d \in chunks : c.no = d.no => c = d
    /\ exec \in [Executors -> Executor]
    /\ writer \in [Writers -> Writer]
    /\ live \subseteq Writers
    /\ deletes \subseteq Delete
    /\ objects \cup destroyed \cup late \subseteq Keys
    /\ faults \in 0..MaxFaults

\* Once an object has been deleted, or a delete is on its way, there is no
\* way back to a serving community: a stale executor and an abort never
\* combine to take objects from a community that is in use (run_guarded_external_step, abort).
DestructionIsFinal ==
    destroyed # {} \/ deletes # {} =>
        request.stage \in Destructive /\ community.state \in {"fenced", "tombstone"}

\* A serving lease that has not expired is good: its community is not
\* fenced and no generation has passed it by, so an admitted write is never
\* cut off before its lease is over (begin_quiescing, fence, abort).
UnexpiredIsCurrent == \A w \in live : Current(w)

\* What is left of the objects the deletion answers for.
Owed == objects \ late

\* The stages before the fence, and an executor's steps of and after it.
Early == {"none", "submitted", "inventoried", "approved"}
BeforeListing == {"next", "quiesce", "fence", "drain", "clear"}
Listing       == {"list", "append", "freeze"}
Deleting      == {"delete", "deleting", "stamp"}
AfterDrain    == Deleting \cup
    {"pick", "mark_removed", "purge", "purge_cache", "verify_absence", "mark_verified",
     "retain"}

\* The request's stage, its fence and its manifest agree, and no delete was
\* sent before the stage that may send one.
RowsAgree ==
    /\ request.stage \in Destructive \cup {"fenced"} =>
         community.state \in {"fenced", "tombstone"}
    /\ request.stage \in Destructive => request.frozen # {}
    /\ request.frozen # {} => request.stage \notin Early
    /\ deletes # {} \/ destroyed # {} => request.stage \in Destructive

\* The frozen manifest holds every owed key until they are all deleted; the
\* chunks are the manifest until the deletion is verified; and a chunk that
\* is stamped as done owes nothing.
ManifestHolds ==
    /\ request.frozen # {} /\ request.stage \in {"fenced", "drained"} =>
         Owed \subseteq UNION request.frozen
    /\ request.frozen # {} /\ request.stage \in {Chain[i] : i \in 4..8} =>
         {c.key : c \in chunks} = UNION request.frozen
    /\ \A c \in chunks : c.gone => request.stage \in Destructive /\ c.key \notin Owed

\* An executor that stands at x, however stale, is nowhere its request has
\* not been.  If the request is still where it lists, it has seen every owed
\* key behind its token, and when it has done listing, all.  If it deletes,
\* it works on the key of the chunk it picked, which it does not stamp before
\* the key is gone.
WorkerSound(x) ==
    /\ x.gen <= request.gen
    /\ x.at \in {"drain", "clear", "mark_drained"} \cup Listing => request.stage \notin Early
    /\ x.at = "mark_drained" => request.frozen # {}
    /\ x.at \in AfterDrain => request.stage \in Destructive
    /\ x.at \in BeforeListing /\ request.stage \notin Destructive => x.key = 0
    /\ x.at \in Listing /\ request.stage = "fenced" =>
         \A k \in Owed : k <= x.key \/ x.at = "freeze" => k \in x.seen
    /\ x.at \in {"append"} \cup Deleting => x.key # 0
    /\ x.at \in Deleting => \A c \in chunks : c.no = x.no => c.key = x.key
    /\ x.at = "stamp" => x.key \notin Owed
    /\ x.at = "mark_removed" => \A c \in chunks : c.gone

\* An executor that has sent a delete waits for it: a delete sent under its
\* present claim is the one of its present key.
DeletesAwaited ==
    \A d \in deletes :
        /\ d.gen <= request.gen
        /\ exec[d.by].at # "idle" /\ exec[d.by].gen = d.gen =>
             exec[d.by].at = "deleting" /\ exec[d.by].key = d.key

\* Rows, leases, executors and the object store agree: column types, the
\* block at the retry limit, every unexpired serving lease good for its
\* community, and no executor ahead of what it has checked.
DeletionInv ==
    /\ TypeOK /\ UnexpiredIsCurrent /\ RowsAgree /\ ManifestHolds
    /\ (\A e \in Executors : WorkerSound(exec[e])) /\ DeletesAwaited

\* When the storage bindings are reported removed, nothing of the tenant is
\* left but what a write whose lease was gone put there after the fence.
NothingLeftBehind ==
    request.stage \in Destructive \ {"drained"} => objects \subseteq late

\* The manifest that was frozen does not change, and its chunks stay until
\* the deletion has been verified (COALESCE, the chunk trigger).
FrozenStays ==
    [][request.frozen # {} =>
         /\ request'.frozen = request.frozen
         /\ request'.stage \in Destructive \ {Chain[9], Chain[10]} =>
              {c.key : c \in chunks'} = UNION request.frozen]_vars

\* A claim comes to an end: while a command works on the request, or a lease
\* is left on it, there will be a moment when nobody does and it is free.  An
\* admitted write that never drains, a lost lease, a crash between two
\* statements cost an attempt, and the request can be claimed again or waits
\* for an operator (execute_claim, record_retry, stop_executor).
Busy == request.leased \/ \E e \in Executors : exec[e].at # "idle"
ClaimsEnd == Busy ~> ~Busy
=============================================================================
