---------------------------- MODULE TransitionTx ----------------------------
(***************************************************************************)
(* run::transition statement by statement (coordinator/src/run.rs), run by *)
(* concurrent clients against READ COMMITTED Postgres: the SELECT ... FOR  *)
(* UPDATE that locks the row, the check of the edge, MAX(seq) + 1, the     *)
(* INSERT under the primary key (run_id, seq), and the UPDATE that commits *)
(* with it.  A client may vanish at any statement, which rolls back.       *)
(* Shown to implement Runs.                                                *)
(***************************************************************************)
EXTENDS Runs

CONSTANTS Clients, NoClient

ASSUME ClientsAssumption == NoClient \notin Clients

VARIABLES
    lock,   \* the transaction that holds the row lock of a run
    tx      \* the transaction of each client

txVars == <<vars, lock, tx>>

Tx == [pc : {"idle", "select", "seq", "write"}, run : RunIds \cup {NoRun},
       to : RunStatus, from : RunStatus, seq : Nat, start : Nat]

NoTx == [pc |-> "idle", run |-> NoRun, to |-> "draft", from |-> "draft",
         seq |-> 0, start |-> 0]

TxInit ==
    /\ Init
    /\ lock = [r \in RunIds |-> NoClient]
    /\ tx = [c \in Clients |-> NoTx]

(* pool.begin(): now() is frozen here for the whole transaction.           *)
Begin(c, r, to) ==
    /\ tx[c].pc = "idle"
    /\ tx' = [tx EXCEPT ![c] = [NoTx EXCEPT !.pc = "select", !.run = r,
                                            !.to = to, !.start = now]]
    /\ UNCHANGED <<vars, lock>>

(* Mutant: a plain SELECT, which neither waits nor locks.                  *)
SelectUnlocked(c) ==
    LET r == tx[c].run IN
    /\ tx[c].pc = "select"
    /\ tx' = [tx EXCEPT ![c] = IF Exists(r) /\ CanTransitionTo(status[r], tx[c].to)
                               THEN [@ EXCEPT !.pc = "seq", !.from = status[r]]
                               ELSE NoTx]
    /\ UNCHANGED <<vars, lock>>

(* SELECT status ... FOR UPDATE: waits for the row lock and reads the      *)
(* committed status.  A missing row or an illegal edge returns the error   *)
(* and rolls back, leaving no trace.                                       *)
SelectForUpdate(c) ==
    LET r == tx[c].run IN
    /\ tx[c].pc = "select"
    /\ lock[r] = NoClient
    /\ IF Exists(r) /\ CanTransitionTo(status[r], tx[c].to)
       THEN /\ lock' = [lock EXCEPT ![r] = c]
            /\ tx' = [tx EXCEPT ![c].pc = "seq", ![c].from = status[r]]
       ELSE /\ lock' = lock
            /\ tx' = [tx EXCEPT ![c] = NoTx]
    /\ UNCHANGED vars

(* Mutant: MAX(seq) without the + 1.                                       *)
NextSeqTaken(c) ==
    /\ tx[c].pc = "seq"
    /\ tx' = [tx EXCEPT ![c].pc = "write", ![c].seq = Len(transitions[tx[c].run])]
    /\ UNCHANGED <<vars, lock>>

(* SELECT COALESCE(MAX(seq), 0) + 1 over the committed rows.               *)
NextSeq(c) ==
    /\ tx[c].pc = "seq"
    /\ tx' = [tx EXCEPT ![c].pc = "write",
                        ![c].seq = Len(transitions[tx[c].run]) + 1]
    /\ UNCHANGED <<vars, lock>>

(* INSERT INTO run_transitions, UPDATE runs, COMMIT: visible to the others *)
(* together.  A seq that another transaction has committed meanwhile is a  *)
(* primary key violation, which rolls back.                                *)
Commit(c) ==
    LET r == tx[c].run IN
    /\ tx[c].pc = "write"
    /\ IF tx[c].seq = Len(transitions[r]) + 1
       THEN /\ Len(transitions[r]) < MaxSeq
            /\ transitions' = [transitions EXCEPT
                                 ![r] = Append(@, [from |-> tx[c].from, to |-> tx[c].to])]
            /\ status' = [status EXCEPT ![r] = tx[c].to]
            /\ StartWallClock(r, tx[c].to, tx[c].start)
            /\ UNCHANGED <<now, parent, tokens, tokensAt>>
       ELSE UNCHANGED vars
    /\ lock' = [lock EXCEPT ![r] = IF @ = c THEN NoClient ELSE @]
    /\ tx' = [tx EXCEPT ![c] = NoTx]

(* The connection or the coordinator dies: Postgres rolls back and drops   *)
(* the lock.                                                               *)
Rollback(c) ==
    /\ tx[c].pc # "idle"
    /\ lock' = [r \in RunIds |-> IF lock[r] = c THEN NoClient ELSE lock[r]]
    /\ tx' = [tx EXCEPT ![c] = NoTx]
    /\ UNCHANGED vars

(* The statements of run.rs that are transactions of one statement.        *)
OtherStatement ==
    /\ \/ \E r \in RunIds, p \in RunIds \cup {NoRun} : Create(r, p)
       \/ \E r \in RunIds, total \in 0..MaxTokens, at \in 0..now :
             ObserveTokens(r, total, at)
       \/ Tick
    /\ UNCHANGED <<lock, tx>>

TxNext ==
    \/ \E c \in Clients, r \in RunIds, to \in RunStatus : Begin(c, r, to)
    \/ \E c \in Clients :
          SelectForUpdate(c) \/ NextSeq(c) \/ Commit(c) \/ Rollback(c)
    \/ OtherStatement

TxSpec == TxInit /\ [][TxNext]_txVars

-----------------------------------------------------------------------------
(* The clients' transactions and the locks have their types.               *)
TxTypeOK ==
    /\ TypeOK
    /\ lock \in [RunIds -> Clients \cup {NoClient}]
    /\ tx \in [Clients -> Tx]
    /\ \A c \in Clients : tx[c].pc # "idle" => tx[c].run \in RunIds

(* A transaction past its SELECT holds the lock of its run and nobody else *)
(* does; what it has read is still so: the status, the legality of its     *)
(* edge, and the next free seq.  A lock is held by such a transaction.     *)
LockedReadsHold ==
    /\ \A c \in Clients : tx[c].start <= now
    /\ \A c \in Clients : tx[c].pc \in {"seq", "write"} =>
          /\ lock[tx[c].run] = c
          /\ tx[c].from = status[tx[c].run]
          /\ CanTransitionTo(tx[c].from, tx[c].to)
          /\ tx[c].pc = "write" => tx[c].seq = Len(transitions[tx[c].run]) + 1
    /\ \A r \in RunIds : lock[r] # NoClient =>
          tx[lock[r]].pc \in {"seq", "write"} /\ tx[lock[r]].run = r

TxInv == TxTypeOK /\ LockedReadsHold

(* The transactions implement the atomic table: every committed transition *)
(* is one legal Transition of Runs, whatever the other clients do between  *)
(* its statements.                                                         *)
ImplementsRuns == Spec
=============================================================================
