----------------------------- MODULE Workspace -----------------------------
(***************************************************************************)
(* The workspace compare-and-swap (coordinator/src/workspace.rs, with      *)
(* post_mutations and get_workspace of http.rs), for one workspace and the *)
(* clients that race on it.  A client reads a snapshot, composes mutations *)
(* against its revision and posts them; an answer may be lost on the way,  *)
(* and the client then posts the same body again.                          *)
(*                                                                         *)
(* A JSON value is an object, with some of the Fields, or it is not; a     *)
(* value that is not an object is one more element of Vals, under no       *)
(* field.  SHA-256 is taken to be free of collisions: a hash is the value  *)
(* it was computed from.                                                   *)
(***************************************************************************)
EXTENDS Integers, Sequences, FiniteSets

CONSTANTS
    Clients, NoClient,
    Fields, Vals, Absent,
    Requests,      \* the mutation lists a client may post
    MaxRevision,   \* bound on the revision
    MaxLost        \* bound on the requests whose answer is lost

Object == [object : {TRUE}, fields : [Fields -> Vals \cup {Absent}]]
Scalar == [object : {FALSE}, value : Vals]
Value == Object \cup Scalar

ASSUME WorkspaceAssumption ==
    /\ NoClient \notin Clients
    /\ Absent \notin Vals
    /\ Requests \subseteq Seq(Value)
    /\ MaxRevision \in Nat
    /\ MaxLost \in Nat

VARIABLES
    row,      \* the workspaces rows: the empty set, or that of the one row
    events,   \* workspace_events, in the order of their revision
    lock,     \* the client whose transaction holds the row lock
    client,   \* each client: program counter, the snapshot it saw, the
              \* mutations it posts, and the answer it got
    applied,  \* history: how often each client's present request took effect
    lost      \* what remains of the bound

vars == <<row, events, lock, client, applied, lost>>

EmptyState == [object |-> TRUE, fields |-> [f \in Fields |-> Absent]]
StateHash(state) == <<"sha256", state>>

NewRow == [revision |-> 0, state |-> EmptyState, hash |-> StateHash(EmptyState)]
Row == [revision : Nat, state : Value, hash : {"sha256"} \X Value]

NoAnswer == [accepted |-> FALSE, revision |-> -1, hash |-> StateHash(EmptyState)]

Resting == [pc |-> "idle", seen |-> NewRow, mutations |-> <<>>, answer |-> NoAnswer]

Init ==
    /\ row = {}
    /\ events = <<>>
    /\ lock = NoClient
    /\ client = [c \in Clients |-> Resting]
    /\ applied = [c \in Clients |-> 0]
    /\ lost = MaxLost

(* Mutant: a field that is there already is kept.                          *)
MergeKeeps(base, patch) ==
    IF base.object /\ patch.object
    THEN [base EXCEPT !.fields = [f \in Fields |-> IF @[f] # Absent THEN @[f] ELSE patch.fields[f]]]
    ELSE patch

(* merge_patch: a shallow merge of two objects; anything else replaces.    *)
MergePatch(base, patch) ==
    IF base.object /\ patch.object
    THEN [base EXCEPT !.fields = [f \in Fields |->
             IF patch.fields[f] # Absent THEN patch.fields[f] ELSE @[f]]]
    ELSE patch

(* The loop over the mutations of a request.                               *)
MergeAll(base, mutations) ==
    LET merged[n \in 0..Len(mutations)] ==
            IF n = 0 THEN base ELSE MergePatch(merged[n - 1], mutations[n])
    IN merged[Len(mutations)]

(* GET workspace, and the mutations the client composes on what it saw; a  *)
(* workspace that is not there is one at revision 0.                       *)
Compose(c, mutations) ==
    /\ client[c].pc = "idle"
    /\ client' = [client EXCEPT ![c] =
                    [Resting EXCEPT !.pc = "ensure", !.mutations = mutations,
                                    !.seen = IF row = {} THEN NewRow
                                             ELSE CHOOSE x \in row : TRUE]]
    /\ applied' = [applied EXCEPT ![c] = 0]
    /\ UNCHANGED <<row, events, lock, lost>>

(* ensure_workspace: INSERT ... ON CONFLICT DO NOTHING, on its own.        *)
EnsureWorkspace(c) ==
    /\ client[c].pc = "ensure"
    /\ row' = IF row = {} THEN {NewRow} ELSE row
    /\ client' = [client EXCEPT ![c].pc = "select"]
    /\ UNCHANGED <<events, lock, applied, lost>>

(* Mutant: the expected revision is not compared.                          *)
SelectUnchecked(c) ==
    /\ client[c].pc = "select"
    /\ lock = NoClient
    /\ lock' = c
    /\ client' = [client EXCEPT ![c].pc = "write"]
    /\ UNCHANGED <<row, events, applied, lost>>

(* Mutant: any revision at or before the current one is accepted.          *)
SelectOlder(c) ==
    /\ client[c].pc = "select"
    /\ lock = NoClient
    /\ \E x \in row : x.revision >= client[c].seen.revision
    /\ lock' = c
    /\ client' = [client EXCEPT ![c].pc = "write"]
    /\ UNCHANGED <<row, events, applied, lost>>

(* apply_mutations: SELECT ... FOR UPDATE waits for the row lock; another  *)
(* revision than the expected one is answered with the current revision    *)
(* and hash.                                                               *)
SelectForUpdate(c) ==
    /\ client[c].pc = "select"
    /\ lock = NoClient
    /\ \E x \in row :
          IF x.revision = client[c].seen.revision
          THEN /\ lock' = c
               /\ client' = [client EXCEPT ![c].pc = "write"]
          ELSE /\ client' = [client EXCEPT
                               ![c].pc = "idle",
                               ![c].answer = [accepted |-> FALSE, revision |-> x.revision,
                                              hash |-> x.hash]]
               /\ UNCHANGED lock
    /\ UNCHANGED <<row, events, applied, lost>>

(* apply_mutations: UPDATE workspaces, INSERT INTO workspace_events and    *)
(* COMMIT, visible together.                                               *)
Write(c) ==
    /\ client[c].pc = "write"
    /\ \E x \in row :
          LET state == MergeAll(x.state, client[c].mutations)
              new == [revision |-> x.revision + 1, state |-> state, hash |-> StateHash(state)]
          IN  /\ x.revision < MaxRevision
              /\ row' = {new}
              /\ events' = Append(events, [revision |-> new.revision, prev |-> x.revision,
                                           mutations |-> client[c].mutations,
                                           hash |-> new.hash])
              /\ client' = [client EXCEPT
                              ![c].pc = "idle",
                              ![c].answer = [accepted |-> TRUE, revision |-> new.revision,
                                             hash |-> new.hash]]
    /\ lock' = NoClient
    /\ applied' = [applied EXCEPT ![c] = @ + 1]
    /\ UNCHANGED lost

(* The connection drops with the request at any statement: what was not    *)
(* committed is rolled back, and the client posts the same body again.     *)
Resend(c) ==
    /\ client[c].pc # "idle" \/ client[c].answer # NoAnswer
    /\ lost > 0
    /\ lost' = lost - 1
    /\ lock' = IF lock = c THEN NoClient ELSE lock
    /\ client' = [client EXCEPT ![c].pc = "ensure", ![c].answer = NoAnswer]
    /\ UNCHANGED <<row, events, applied>>

Next ==
    \E c \in Clients :
        \/ \E mutations \in Requests : Compose(c, mutations)
        \/ EnsureWorkspace(c) \/ SelectForUpdate(c) \/ Write(c) \/ Resend(c)

Spec == Init /\ [][Next]_vars

-----------------------------------------------------------------------------
(* At most one row, events, lock and clients of their types.               *)
TypeOK ==
    /\ row \in SUBSET Row /\ Cardinality(row) <= 1
    /\ lock \in Clients \cup {NoClient}
    /\ \A c \in Clients :
          /\ client[c].pc \in {"idle", "ensure", "select", "write"}
          /\ client[c].seen \in Row
          /\ lock = c <=> client[c].pc = "write"
    /\ lost \in 0..MaxLost

(* The places of the log's mutations, by revision and then by their order  *)
(* in the request, and the mutation at a place.                            *)
Places(log) == UNION {{i} \X (1..Len(log[i].mutations)) : i \in 1..Len(log)}
Before(p, r) == p[1] < r[1] \/ (p[1] = r[1] /\ p[2] < r[2])
PatchAt(log, p) == log[p[1]].mutations[p[2]]
LastOf(p, S) == p \in S /\ \A r \in S : r = p \/ Before(r, p)

(* What the mutations at some places must leave, said without replaying    *)
(* them: the last one that is not an object wipes what came before it, and *)
(* stands if nothing follows; otherwise each field has the value last      *)
(* given to it.                                                            *)
LastWrite(log, places, state) ==
    LET wipes == {p \in places : ~PatchAt(log, p).object}
        kept == {p \in places : \A w \in wipes : Before(w, p)}
        sets(f) == {p \in kept : PatchAt(log, p).fields[f] # Absent}
    IN  IF \E w \in wipes : LastOf(w, places)
        THEN \E w \in wipes : LastOf(w, places) /\ state = PatchAt(log, w)
        ELSE /\ state.object
             /\ \A f \in Fields :
                   IF sets(f) = {} THEN state.fields[f] = Absent
                   ELSE \E p \in sets(f) : /\ LastOf(p, sets(f))
                                           /\ state.fields[f] = PatchAt(log, p).fields[f]

(* The audit log is a chain: its revisions run 1, 2, ... with no gap, and  *)
(* it ends at the row's revision and hash.                                 *)
LogIsAChain ==
    \A x \in row :
        /\ x.hash = StateHash(x.state)
        /\ Len(events) = x.revision
        /\ \A i \in 1..Len(events) : events[i].revision = i /\ events[i].prev = i - 1
        /\ Len(events) > 0 => events[Len(events)].hash = x.hash

(* The log's mutations add up to the row's state, so no accepted mutation  *)
(* was overwritten unseen.                                                 *)
LogAddsUp == \A x \in row : LastWrite(events, Places(events), x.state)

(* ADR-002: a write "applies only if that revision still holds": an        *)
(* accepted mutation replaces exactly the state its author saw, however    *)
(* long ago it was composed and however often it was sent.                 *)
NoLostUpdate ==
    [][\A c \in Clients : applied'[c] > applied[c] =>
          row = {client[c].seen}]_vars

(* A request that is sent again after its answer was lost takes effect at  *)
(* most once.                                                              *)
AppliedOnce == \A c \in Clients : applied[c] <= 1

(* A rejection is data: the revision and the hash it carries were current  *)
(* together and are newer than what the client saw; a client with neither  *)
(* a lost answer nor an accepted one was not applied.                      *)
RejectionIsData ==
    \A c \in Clients : client[c].pc = "idle" /\ client[c].answer # NoAnswer =>
        LET a == client[c].answer IN
        /\ a.revision > client[c].seen.revision
        /\ a.revision <= Len(events) /\ events[a.revision].hash = a.hash
        /\ a.accepted => a.revision = client[c].seen.revision + 1 /\ applied[c] = 1
        /\ applied[c] = 0 => ~a.accepted

(* What anybody can read of a workspace is consistent: the row with its    *)
(* log, and the answers given with what was current.                       *)
WorkspaceInv == TypeOK /\ LogIsAChain /\ LogAddsUp /\ RejectionIsData
=============================================================================
