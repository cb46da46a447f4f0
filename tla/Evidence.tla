------------------------------ MODULE Evidence ------------------------------
(***************************************************************************)
(* Evidence of one run (coordinator/src/evidence.rs) as its writers and    *)
(* its readers share it.  append allocates MAX(seq) + 1 in a transaction   *)
(* that locks nothing; the primary key (run_id, seq) decides races.  The   *)
(* writers are the executor's streams (stdout, stderr), which append their *)
(* chunks one after another and skip a chunk whose append failed.  The     *)
(* reader pages with list_after, keyed by the highest seq it has.          *)
(***************************************************************************)
EXTENDS Integers, Sequences, FiniteSets, FiniteSetsExt, SequencesExt

CONSTANTS
    Writers,
    MaxChunks,    \* bound on the chunks a stream produces
    MaxFailures   \* bound on the appends the connection or the server loses

ASSUME EvidenceAssumption == MaxChunks \in Nat /\ MaxFailures \in Nat

VARIABLES
    rows,      \* committed run_evidence rows: seq, stream, number of the chunk
    writer,    \* each stream's append: program counter, chunk, allocated seq
    skipped,   \* chunks whose append failed
    cursor,    \* the reader's highest seq
    shown,     \* the rows the reader has received, in order
    failures   \* what remains of the bound

evidenceVars == <<rows, writer, skipped, cursor, shown, failures>>

Seqs == {row.seq : row \in rows}
MaxSeq == IF rows = {} THEN 0 ELSE Max(Seqs)

EvidenceInit ==
    /\ rows = {}
    /\ writer = [w \in Writers |-> [pc |-> "read", chunk |-> 1, seq |-> 0]]
    /\ skipped = {}
    /\ cursor = 0
    /\ shown = <<>>
    /\ failures = MaxFailures

(* The chunk at hand is done with, appended or not: the stream reads on.   *)
ReadOn(w) ==
    writer' = [writer EXCEPT ![w].pc = "read", ![w].chunk = @ + 1, ![w].seq = 0]

(* Mutant: a chunk whose append failed is sent again.                      *)
SkipRetries(w) ==
    /\ writer' = [writer EXCEPT ![w].pc = "read"]
    /\ skipped' = skipped

(* An append that returned an error is logged and its chunk passed over.   *)
Skip(w) ==
    /\ ReadOn(w)
    /\ skipped' = skipped \cup {<<w, writer[w].chunk>>}

(* Mutant: the numbers other appends have drawn count too, as a sequence   *)
(* object would have it.                                                   *)
AllocateDrawn(w) ==
    /\ writer[w].pc = "read"
    /\ writer[w].chunk <= MaxChunks
    /\ writer' = [writer EXCEPT
                     ![w].pc = "insert",
                     ![w].seq = Max({MaxSeq} \cup {writer[v].seq : v \in Writers}) + 1]
    /\ UNCHANGED <<rows, skipped, cursor, shown, failures>>

(* append: the run exists; SELECT COALESCE(MAX(seq), 0) + 1 over what is   *)
(* committed.                                                              *)
Allocate(w) ==
    /\ writer[w].pc = "read"
    /\ writer[w].chunk <= MaxChunks
    /\ writer' = [writer EXCEPT ![w].pc = "insert", ![w].seq = MaxSeq + 1]
    /\ UNCHANGED <<rows, skipped, cursor, shown, failures>>

(* append, its INSERT: waits for an uncommitted row with the same key, and *)
(* fails on a committed one; stream_to_evidence logs the failure and skips *)
(* the chunk.                                                              *)
Insert(w) ==
    /\ writer[w].pc = "insert"
    /\ \A v \in Writers : ~(writer[v].pc = "commit" /\ writer[v].seq = writer[w].seq)
    /\ \/ /\ writer[w].seq \in Seqs
          /\ Skip(w)
       \/ /\ writer[w].seq \notin Seqs
          /\ writer' = [writer EXCEPT ![w].pc = "commit"]
          /\ UNCHANGED skipped
    /\ UNCHANGED <<rows, cursor, shown, failures>>

AppendedRow(w) == [seq |-> writer[w].seq, stream |-> w, chunk |-> writer[w].chunk]

Commit(w) ==
    /\ writer[w].pc = "commit"
    /\ rows' = rows \cup {AppendedRow(w)}
    /\ ReadOn(w)
    /\ UNCHANGED <<skipped, cursor, shown, failures>>

(* The append returns an error: rolled back, or committed with its answer  *)
(* lost, which the stream cannot tell apart.                               *)
Fails(w) ==
    /\ writer[w].pc # "read"
    /\ failures > 0
    /\ failures' = failures - 1
    /\ \/ UNCHANGED rows
       \/ writer[w].pc = "commit" /\ rows' = rows \cup {AppendedRow(w)}
    /\ Skip(w)
    /\ UNCHANGED <<cursor, shown>>

(* ORDER BY seq: the row at place i is the one with i rows up to it.       *)
InOrder(S) ==
    [i \in 1..Cardinality(S) |->
        CHOOSE row \in S : Cardinality({x \in S : x.seq <= row.seq}) = i]

(* Mutant: the page starts one row too late.                               *)
PollLate ==
    LET new == {row \in rows : row.seq > cursor + 1} IN
    /\ new # {}
    /\ shown' = shown \o InOrder({row \in rows : row.seq > cursor})
    /\ cursor' = MaxSeq
    /\ UNCHANGED <<rows, writer, skipped, failures>>

(* list_after(cursor): the committed rows beyond it, ordered by seq.       *)
Poll ==
    LET new == {row \in rows : row.seq > cursor} IN
    /\ new # {}
    /\ shown' = shown \o InOrder(new)
    /\ cursor' = MaxSeq
    /\ UNCHANGED <<rows, writer, skipped, failures>>

EvidenceNext ==
    \/ \E w \in Writers : Allocate(w) \/ Insert(w) \/ Commit(w) \/ Fails(w)
    \/ Poll

(* Streams are read to their end and their appends answered; the reader    *)
(* polls on an interval.                                                   *)
EvidenceSpec == EvidenceInit /\ [][EvidenceNext]_evidenceVars /\ WF_evidenceVars(EvidenceNext)

-----------------------------------------------------------------------------
(* The committed rows and the writers have their types.                    *)
EvidenceTypeOK ==
    /\ rows \subseteq [seq : Nat, stream : Writers, chunk : Nat]
    /\ writer \in [Writers -> [pc : {"read", "insert", "commit"}, chunk : Nat, seq : Nat]]
    /\ skipped \subseteq Writers \X Nat
    /\ cursor \in Nat

(* The rows of a run are numbered 1, 2, ... without a gap or a repeat,     *)
(* although writers allocate concurrently and may roll back.               *)
SeqsContiguous == Seqs = 1..Cardinality(rows)

(* A reader that pages by its highest seq never misses a row: what it has  *)
(* is exactly the committed rows up to its cursor, so none is ever         *)
(* committed behind it.                                                    *)
ReaderMissesNothing ==
    /\ ToSet(shown) = {row \in rows : row.seq <= cursor}
    /\ Len(shown) = cursor

(* The chunks of one stream keep their order in the log, and none is in it *)
(* twice, although a failed append may have been committed.                *)
StreamsInOrder ==
    \A x, y \in rows : x.stream = y.stream /\ x.seq < y.seq => x.chunk < y.chunk

(* The committed log is sound: typed, numbered without a gap, and each     *)
(* stream's chunks in it in order and once.                                *)
EvidenceInv == EvidenceTypeOK /\ SeqsContiguous /\ StreamsInOrder

(* Every committed row eventually reaches the reader.                      *)
EverythingShown == \A w \in Writers, n \in 1..MaxChunks :
    (\E row \in rows : row.stream = w /\ row.chunk = n)
        ~> (\E row \in ToSet(shown) : row.stream = w /\ row.chunk = n)
=============================================================================
