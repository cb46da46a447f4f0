-------------------------- MODULE CoordinatorProof --------------------------
(***************************************************************************)
(* Two stores of the coordinator that several writers append to: the       *)
(* workspaces, changed by compare-and-swap (Workspace), and the log of     *)
(* evidence, read by a polling reader (Evidence).                          *)
(* For any number of clients, streams, requests and revisions.             *)
(*                                                                         *)
(* What a client saw of a workspace is compared with the row by its        *)
(* revision alone.  The argument is that this is enough: no client has     *)
(* seen a revision beyond the row's, and one that has seen the row's       *)
(* revision has seen the row itself (SeenFits).  A write moves the         *)
(* revision past everything seen, so the same request cannot be accepted   *)
(* again, and it merges into the state what it adds to the log, so that    *)
(* the log always adds up to the state (Contents; an induction over the    *)
(* mutations of the request).                                              *)
(*                                                                         *)
(* An append to the evidence that has inserted its row holds the number    *)
(* after the last one committed, and no two can, because the INSERT of the *)
(* second waits on the primary key of the first (OneCommits).  So rows are *)
(* committed in the order of their numbers, and never behind a reader's    *)
(* cursor.                                                                 *)
(***************************************************************************)
EXTENDS Workspace, Evidence, FiniteSetTheorems, SequenceTheorems, WellFoundedInduction,
        TLAPS

(* Each client is a record of its four fields.                             *)
Shape ==
    /\ DOMAIN client = Clients
    /\ \A c \in Clients :
          /\ DOMAIN client[c] = {"pc", "seen", "mutations", "answer"}
          /\ client[c].pc \in {"idle", "ensure", "select", "write"}
          /\ client[c].seen.revision \in Nat
          /\ client[c].answer.revision \in Int

(* There is one row at most.                                               *)
OneRow == \A x, y \in row : x = y /\ x.revision \in Nat

(* The row lock is held by the client that writes.                         *)
Locked == \A c \in Clients : lock = c <=> client[c].pc = "write"

(* What the client saw is the row, or has an older revision; a client that *)
(* has been applied saw an older one.                                      *)
SeenFits(c) ==
    /\ row = {} => client[c].seen = NewRow /\ client[c].pc \notin {"select", "write"}
    /\ \A x \in row : /\ client[c].seen.revision <= x.revision
                      /\ client[c].seen.revision = x.revision => client[c].seen = x
    /\ client[c].pc = "write" => client[c].seen \in row

(* A request that was applied saw an older revision than the row's.        *)
AppliedFits(c) ==
    /\ applied[c] \in {0, 1}
    /\ applied[c] = 1 => \E x \in row : client[c].seen.revision < x.revision

(* The log is a sequence, and empty while there is no row.                 *)
LogIsSeq == (\E S : events \in Seq(S)) /\ (row = {} => events = <<>>)

CasInv ==
    /\ Shape /\ OneRow /\ Locked /\ DOMAIN applied = Clients
    /\ \A c \in Clients : SeenFits(c) /\ AppliedFits(c)

LogInv == LogIsSeq /\ LogIsAChain /\ RejectionIsData

(* A client moves on, and no other.                                        *)
LEMMA Moved ==
    ASSUME Shape, NEW c \in Clients, NEW pc, client' = [client EXCEPT ![c].pc = pc]
    PROVE  /\ DOMAIN client' = Clients
           /\ DOMAIN client'[c] = {"pc", "seen", "mutations", "answer"}
           /\ client'[c].pc = pc /\ client'[c].answer = client[c].answer
           /\ client'[c].seen = client[c].seen
           /\ \A d \in Clients : d # c => client'[d] = client[d]
BY DEF Shape

(* A client is answered, and no other.                                     *)
LEMMA Answered ==
    ASSUME Shape, NEW c \in Clients, NEW pc, NEW answer,
           client' = [client EXCEPT ![c].pc = pc, ![c].answer = answer]
    PROVE  /\ DOMAIN client' = Clients
           /\ DOMAIN client'[c] = {"pc", "seen", "mutations", "answer"}
           /\ client'[c].pc = pc /\ client'[c].answer = answer
           /\ client'[c].seen = client[c].seen
           /\ \A d \in Clients : d # c => client'[d] = client[d]
BY DEF Shape

(* Initially nobody has seen or written anything.                          *)
LEMMA CasInit == Init => CasInv /\ LogInv
<1> SUFFICES ASSUME Init PROVE CasInv /\ LogInv
  OBVIOUS
<1>1. /\ Resting.pc = "idle" /\ Resting.seen = NewRow /\ Resting.answer = NoAnswer
      /\ DOMAIN Resting = {"pc", "seen", "mutations", "answer"}
      /\ NewRow.revision = 0 /\ NoAnswer.revision = -1
  BY DEF Resting, NewRow, NoAnswer
<1>2. \A c \in Clients : client[c] = Resting
  BY DEF Init
<1>3. Shape
  BY <1>1, <1>2 DEF Init, Shape
<1>4. OneRow /\ DOMAIN applied = Clients
  BY DEF Init, OneRow
<1>5. Locked
  BY <1>1, <1>2, WorkspaceAssumption DEF Init, Locked
<1>6. \A c \in Clients : SeenFits(c) /\ AppliedFits(c)
  BY <1>1, <1>2 DEF Init, SeenFits, AppliedFits
<1>7. LogIsSeq
  BY EmptySeq DEF Init, LogIsSeq
<1>8. LogIsAChain
  BY DEF Init, LogIsAChain
<1>9. RejectionIsData
  BY <1>1, <1>2 DEF RejectionIsData
<1> QED
  BY <1>3, <1>4, <1>5, <1>6, <1>7, <1>8, <1>9 DEF CasInv, LogInv

(* A client composes its request on a snapshot of the row.                 *)
LEMMA ComposeKeeps ==
    ASSUME CasInv, LogInv, NEW c \in Clients, NEW mutations \in Requests, Compose(c, mutations)
    PROVE  CasInv' /\ LogInv'
<1> DEFINE seen == IF row = {} THEN NewRow ELSE CHOOSE x \in row : TRUE
           new == [Resting EXCEPT !.pc = "ensure", !.mutations = mutations, !.seen = seen]
<1>1. /\ client[c].pc = "idle" /\ client' = [client EXCEPT ![c] = new]
      /\ applied' = [applied EXCEPT ![c] = 0]
      /\ row' = row /\ events' = events /\ lock' = lock
  BY DEF Compose
<1>2. /\ new.pc = "ensure" /\ new.seen = seen /\ new.answer = NoAnswer
      /\ DOMAIN new = {"pc", "seen", "mutations", "answer"}
  BY DEF Resting
<1>3. /\ row = {} => seen = NewRow
      /\ \A x \in row : seen = x
      /\ seen.revision \in Nat /\ NoAnswer.revision \in Int
  BY DEF CasInv, OneRow, NewRow, NoAnswer
<1> HIDE DEF seen, new
<1>4. /\ DOMAIN client' = Clients /\ client'[c] = new /\ DOMAIN applied' = Clients
      /\ applied'[c] = 0
      /\ \A d \in Clients : d # c => client'[d] = client[d] /\ applied'[d] = applied[d]
  BY <1>1 DEF CasInv, Shape
<1>5. Shape'
  BY <1>2, <1>3, <1>4 DEF CasInv, Shape
<1>6. OneRow'
  BY <1>1 DEF CasInv, OneRow
<1>7. Locked'
  BY <1>1, <1>2, <1>4 DEF CasInv, Locked
<1>8. ASSUME NEW d \in Clients PROVE SeenFits(d)' /\ AppliedFits(d)'
  <2>1. CASE d = c
    BY <1>1, <1>2, <1>3, <1>4, <2>1 DEF CasInv, OneRow, SeenFits, AppliedFits
  <2>2. CASE d # c
    BY <1>1, <1>4, <2>2 DEF CasInv, SeenFits, AppliedFits
  <2> QED
    BY <2>1, <2>2
<1>9. CasInv'
  BY <1>4, <1>5, <1>6, <1>7, <1>8 DEF CasInv
<1>10. LogIsSeq' /\ LogIsAChain'
  BY <1>1 DEF LogInv, LogIsSeq, LogIsAChain
<1>11. RejectionIsData'
  BY <1>1, <1>2, <1>4 DEF LogInv, RejectionIsData
<1> QED
  BY <1>9, <1>10, <1>11 DEF LogInv

(* The row is created if it is not there: at revision 0, as everybody      *)
(* believes it.                                                            *)
LEMMA EnsureKeeps ==
    ASSUME CasInv, LogInv, NEW c \in Clients, EnsureWorkspace(c)
    PROVE  CasInv' /\ LogInv'
<1>1. /\ client[c].pc = "ensure" /\ client' = [client EXCEPT ![c].pc = "select"]
      /\ row' = (IF row = {} THEN {NewRow} ELSE row)
      /\ events' = events /\ lock' = lock /\ applied' = applied
  BY DEF EnsureWorkspace
<1>2. /\ DOMAIN client' = Clients
      /\ DOMAIN client'[c] = {"pc", "seen", "mutations", "answer"}
      /\ client'[c].pc = "select" /\ client'[c].answer = client[c].answer
      /\ client'[c].seen = client[c].seen
      /\ \A d \in Clients : d # c => client'[d] = client[d]
  BY <1>1, Moved DEF CasInv
<1>3. /\ NewRow.revision = 0 /\ NewRow.hash = StateHash(NewRow.state)
      /\ row' # {} /\ (row # {} => row' = row) /\ (row = {} => row' = {NewRow})
  BY <1>1 DEF NewRow
<1>4. Shape'
  BY <1>2 DEF CasInv, Shape
<1>5. OneRow'
  BY <1>3 DEF CasInv, OneRow
<1>6. Locked'
  BY <1>1, <1>2 DEF CasInv, Locked
<1>7. ASSUME NEW d \in Clients PROVE SeenFits(d)' /\ AppliedFits(d)'
  <2>1. /\ client'[d].seen = client[d].seen
        /\ client'[d].pc = "write" => client[d].pc = "write"
    BY <1>2
  <2>2. SeenFits(d) /\ AppliedFits(d)
    BY DEF CasInv
  <2> QED
    BY <1>1, <1>3, <2>1, <2>2 DEF SeenFits, AppliedFits
<1>8. CasInv'
  BY <1>1, <1>2, <1>4, <1>5, <1>6, <1>7 DEF CasInv
<1>9. LogIsSeq'
  BY <1>1, <1>3 DEF LogInv, LogIsSeq
<1>10. LogIsAChain'
  <2>1. CASE row # {}
    BY <1>1, <1>3, <2>1 DEF LogInv, LogIsAChain
  <2>2. CASE row = {}
    <3>1. events = <<>> /\ Len(events) = 0
      BY <2>2, EmptySeq DEF LogInv, LogIsSeq
    <3> QED
      BY <1>1, <1>3, <2>2, <3>1 DEF LogIsAChain
  <2> QED
    BY <2>1, <2>2
<1>11. RejectionIsData'
  BY <1>1, <1>2 DEF LogInv, RejectionIsData
<1> QED
  BY <1>8, <1>9, <1>10, <1>11 DEF LogInv

(* apply_mutations takes the lock on the row the client saw, or answers    *)
(* with a newer one.                                                       *)
LEMMA SelectKeeps ==
    ASSUME CasInv, LogInv, NEW c \in Clients, SelectForUpdate(c)
    PROVE  CasInv' /\ LogInv'
<1>1. /\ client[c].pc = "select" /\ lock = NoClient
      /\ row' = row /\ events' = events /\ applied' = applied
  BY DEF SelectForUpdate
<1>2. PICK x \in row :
         IF x.revision = client[c].seen.revision
         THEN /\ lock' = c
              /\ client' = [client EXCEPT ![c].pc = "write"]
         ELSE /\ client' = [client EXCEPT
                              ![c].pc = "idle",
                              ![c].answer = [accepted |-> FALSE, revision |-> x.revision,
                                             hash |-> x.hash]]
              /\ UNCHANGED lock
  BY DEF SelectForUpdate
<1>3. /\ SeenFits(c) /\ Shape /\ OneRow /\ Locked /\ DOMAIN applied = Clients
      /\ \A d \in Clients : SeenFits(d) /\ AppliedFits(d)
  BY DEF CasInv
<1>4. x.revision \in Nat /\ client[c].seen.revision \in Nat
  BY <1>3 DEF OneRow, Shape
<1>5. OneRow'
  BY <1>1, <1>3 DEF OneRow
<1>6. LogIsSeq' /\ LogIsAChain'
  BY <1>1 DEF LogInv, LogIsSeq, LogIsAChain
<1>7. CASE x.revision = client[c].seen.revision
  <2>1. lock' = c /\ client' = [client EXCEPT ![c].pc = "write"]
    BY <1>2, <1>7
  <2>2. /\ DOMAIN client' = Clients
        /\ DOMAIN client'[c] = {"pc", "seen", "mutations", "answer"}
        /\ client'[c].pc = "write" /\ client'[c].answer = client[c].answer
        /\ client'[c].seen = client[c].seen
        /\ \A d \in Clients : d # c => client'[d] = client[d]
    BY <1>3, <2>1, Moved
  <2>3. client[c].seen = x
    BY <1>2, <1>3, <1>7 DEF SeenFits
  <2>4. Shape'
    BY <1>3, <2>2 DEF Shape
  <2>5. Locked'
    BY <1>1, <1>3, <2>1, <2>2, WorkspaceAssumption DEF Locked
  <2>6. ASSUME NEW d \in Clients PROVE SeenFits(d)' /\ AppliedFits(d)'
    <3>1. CASE d = c
      BY <1>1, <1>3, <2>2, <2>3, <3>1 DEF SeenFits, AppliedFits
    <3>2. CASE d # c
      BY <1>1, <1>3, <2>2, <3>2 DEF SeenFits, AppliedFits
    <3> QED
      BY <3>1, <3>2
  <2>7. RejectionIsData'
    BY <1>1, <2>2 DEF LogInv, RejectionIsData
  <2> QED
    BY <1>1, <1>3, <1>5, <1>6, <2>4, <2>5, <2>6, <2>7 DEF CasInv, LogInv
<1>8. CASE x.revision # client[c].seen.revision
  <2> DEFINE answer == [accepted |-> FALSE, revision |-> x.revision, hash |-> x.hash]
  <2>1. /\ client' = [client EXCEPT ![c].pc = "idle", ![c].answer = answer]
        /\ lock' = lock
    BY <1>2, <1>8
  <2>2. answer.revision = x.revision /\ answer.hash = x.hash /\ answer.accepted = FALSE
    OBVIOUS
  <2> HIDE DEF answer
  <2>3. /\ DOMAIN client' = Clients
        /\ DOMAIN client'[c] = {"pc", "seen", "mutations", "answer"}
        /\ client'[c].pc = "idle" /\ client'[c].answer = answer
        /\ client'[c].seen = client[c].seen
        /\ \A d \in Clients : d # c => client'[d] = client[d]
    BY <1>3, <2>1, Answered
  <2>4. Shape'
    BY <1>3, <1>4, <2>2, <2>3 DEF Shape
  <2>5. Locked'
    BY <1>1, <1>3, <2>1, <2>3 DEF Locked
  <2>6. ASSUME NEW d \in Clients PROVE SeenFits(d)' /\ AppliedFits(d)'
    <3>1. CASE d = c
      BY <1>1, <1>2, <1>3, <2>3, <3>1 DEF SeenFits, AppliedFits
    <3>2. CASE d # c
      BY <1>1, <1>3, <2>3, <3>2 DEF SeenFits, AppliedFits
    <3> QED
      BY <3>1, <3>2
  <2>7. client[c].seen.revision < x.revision
    BY <1>2, <1>3, <1>4, <1>8 DEF SeenFits
  <2>8. Len(events) = x.revision /\ events[x.revision].hash = x.hash
    BY <1>2, <1>4, <2>7 DEF LogInv, LogIsAChain
  <2>9. RejectionIsData'
    <3> SUFFICES ASSUME NEW d \in Clients, client'[d].pc = "idle", client'[d].answer # NoAnswer
                 PROVE  /\ client'[d].answer.revision > client'[d].seen.revision
                        /\ client'[d].answer.revision <= Len(events')
                        /\ events'[client'[d].answer.revision].hash = client'[d].answer.hash
                        /\ client'[d].answer.accepted =>
                              /\ client'[d].answer.revision = client'[d].seen.revision + 1
                              /\ applied'[d] = 1
                        /\ applied'[d] = 0 => ~client'[d].answer.accepted
      BY DEF RejectionIsData
    <3>1. CASE d = c
      BY <1>1, <1>4, <2>2, <2>3, <2>7, <2>8, <3>1
    <3>2. CASE d # c
      BY <1>1, <2>3, <3>2 DEF LogInv, RejectionIsData
    <3> QED
      BY <3>1, <3>2
  <2> QED
    BY <1>1, <1>3, <1>5, <1>6, <2>4, <2>5, <2>6, <2>9 DEF CasInv, LogInv
<1> QED
  BY <1>7, <1>8

(* A write moves the row past every revision anybody has seen, and extends *)
(* the log by it.                                                          *)
LEMMA WriteKeeps ==
    ASSUME CasInv, LogInv, NEW c \in Clients, Write(c)
    PROVE  CasInv' /\ LogInv'
<1>1. /\ client[c].pc = "write" /\ lock' = NoClient
      /\ applied' = [applied EXCEPT ![c] = @ + 1]
  BY DEF Write
<1>2. PICK x \in row :
         LET state == MergeAll(x.state, client[c].mutations)
             new == [revision |-> x.revision + 1, state |-> state, hash |-> StateHash(state)]
         IN  /\ row' = {new}
             /\ events' = Append(events, [revision |-> new.revision, prev |-> x.revision,
                                          mutations |-> client[c].mutations,
                                          hash |-> new.hash])
             /\ client' = [client EXCEPT
                             ![c].pc = "idle",
                             ![c].answer = [accepted |-> TRUE, revision |-> new.revision,
                                            hash |-> new.hash]]
  BY DEF Write
<1> DEFINE state == MergeAll(x.state, client[c].mutations)
           rev == x.revision + 1
           new == [revision |-> rev, state |-> state, hash |-> StateHash(state)]
           event == [revision |-> rev, prev |-> x.revision, mutations |-> client[c].mutations,
                     hash |-> StateHash(state)]
           answer == [accepted |-> TRUE, revision |-> rev, hash |-> StateHash(state)]
<1>3. /\ row' = {new} /\ events' = Append(events, event)
      /\ client' = [client EXCEPT ![c].pc = "idle", ![c].answer = answer]
  BY <1>2
<1> HIDE DEF state
<1>4. /\ SeenFits(c) /\ Shape /\ OneRow /\ Locked /\ DOMAIN applied = Clients
      /\ \A d \in Clients : SeenFits(d) /\ AppliedFits(d)
  BY DEF CasInv
<1>5. x.revision \in Nat /\ rev \in Nat /\ rev = x.revision + 1
  BY <1>4 DEF OneRow
<1>6. /\ new.revision = rev /\ new.hash = StateHash(new.state) /\ new.hash = StateHash(state)
      /\ event.revision = rev /\ event.prev = x.revision /\ event.hash = StateHash(state)
      /\ answer.accepted = TRUE /\ answer.revision = rev /\ answer.hash = StateHash(state)
  OBVIOUS
<1> HIDE DEF rev, new, event, answer
<1>7. client[c].seen = x
  BY <1>1, <1>2, <1>4 DEF SeenFits, OneRow
<1>8. /\ DOMAIN client' = Clients
      /\ DOMAIN client'[c] = {"pc", "seen", "mutations", "answer"}
      /\ client'[c].pc = "idle" /\ client'[c].answer = answer
      /\ client'[c].seen = client[c].seen
      /\ \A d \in Clients : d # c => client'[d] = client[d]
  BY <1>3, <1>4, Answered
<1>9. applied[c] = 0
  BY <1>2, <1>4, <1>5, <1>7 DEF AppliedFits, OneRow
<1>10. /\ DOMAIN applied' = Clients /\ applied'[c] = 1
       /\ \A d \in Clients : d # c => applied'[d] = applied[d]
  BY <1>1, <1>4, <1>9
<1>11. Shape'
  BY <1>4, <1>5, <1>6, <1>8 DEF Shape
<1>12. OneRow'
  BY <1>3, <1>5, <1>6 DEF OneRow
<1>13. Locked'
  <2>1. \A d \in Clients : d # c => client[d].pc # "write"
    BY <1>1, <1>4 DEF Locked
  <2> QED
    BY <1>1, <1>8, <2>1, WorkspaceAssumption DEF Locked
<1>14. ASSUME NEW d \in Clients PROVE SeenFits(d)' /\ AppliedFits(d)'
  <2>1. client'[d].seen = client[d].seen /\ client'[d].pc # "write"
    <3>1. d # c => client[d].pc # "write"
      BY <1>1, <1>4 DEF Locked
    <3> QED
      BY <1>8, <3>1
  <2>2. client[d].seen.revision \in Nat /\ client[d].seen.revision < rev
    BY <1>2, <1>4, <1>5 DEF Shape, SeenFits
  <2>3. applied'[d] \in {0, 1}
    BY <1>4, <1>10 DEF AppliedFits
  <2>4. SeenFits(d)'
    BY <1>3, <1>6, <2>1, <2>2, <1>5 DEF SeenFits
  <2>5. AppliedFits(d)'
    BY <1>3, <1>6, <2>1, <2>2, <2>3 DEF AppliedFits
  <2> QED
    BY <2>4, <2>5
<1>15. CasInv'
  BY <1>10, <1>11, <1>12, <1>13, <1>14 DEF CasInv
<1>16. PICK S : events \in Seq(S)
  BY DEF LogInv, LogIsSeq
<1>17. /\ Len(events) = x.revision
       /\ \A i \in 1..Len(events) : events[i].revision = i /\ events[i].prev = i - 1
  BY <1>2 DEF LogInv, LogIsAChain
<1>18. /\ events' \in Seq(S \cup {event})
       /\ Len(events') = rev
       /\ \A i \in 1..Len(events) : events'[i] = events[i]
       /\ events'[rev] = event
  <2>1. events \in Seq(S \cup {event})
    BY <1>16, SeqMonotonic
  <2> QED
    BY <1>3, <1>5, <1>17, <2>1, AppendProperties
<1>19. LogIsSeq'
  BY <1>3, <1>18 DEF LogIsSeq
<1>20. LogIsAChain'
  <2>1. ASSUME NEW i \in 1..Len(events')
        PROVE  events'[i].revision = i /\ events'[i].prev = i - 1
    <3>1. CASE i = rev
      BY <1>5, <1>6, <1>18, <3>1
    <3>2. CASE i # rev
      <4>1. i \in 1..Len(events)
        BY <1>5, <1>17, <1>18, <3>2
      <4> QED
        BY <1>17, <1>18, <4>1
    <3> QED
      BY <3>1, <3>2
  <2> QED
    BY <1>3, <1>6, <1>18, <2>1 DEF LogIsAChain
<1>21. RejectionIsData'
  <2> SUFFICES ASSUME NEW d \in Clients, client'[d].pc = "idle", client'[d].answer # NoAnswer
               PROVE  /\ client'[d].answer.revision > client'[d].seen.revision
                      /\ client'[d].answer.revision <= Len(events')
                      /\ events'[client'[d].answer.revision].hash = client'[d].answer.hash
                      /\ client'[d].answer.accepted =>
                            /\ client'[d].answer.revision = client'[d].seen.revision + 1
                            /\ applied'[d] = 1
                      /\ applied'[d] = 0 => ~client'[d].answer.accepted
    BY DEF RejectionIsData
  <2>1. CASE d = c
    BY <1>5, <1>6, <1>7, <1>8, <1>10, <1>18, <2>1
  <2>2. CASE d # c
    <3>1. client'[d] = client[d] /\ applied'[d] = applied[d]
      BY <1>8, <1>10, <2>2
    <3> DEFINE a == client[d].answer
    <3>2. /\ a.revision > client[d].seen.revision /\ a.revision <= Len(events)
          /\ events[a.revision].hash = a.hash
          /\ a.accepted => a.revision = client[d].seen.revision + 1 /\ applied[d] = 1
          /\ applied[d] = 0 => ~a.accepted
      BY <3>1 DEF LogInv, RejectionIsData
    <3>3. a.revision \in 1..Len(events)
      BY <1>4, <1>5, <1>17, <3>2 DEF Shape
    <3>4. events'[a.revision] = events[a.revision] /\ a.revision <= Len(events')
      BY <1>5, <1>17, <1>18, <3>3
    <3> HIDE DEF a
    <3> QED
      BY <3>1, <3>2, <3>4 DEF a
  <2> QED
    BY <2>1, <2>2
<1> QED
  BY <1>15, <1>19, <1>20, <1>21 DEF LogInv

(* A connection that drops takes its transaction with it.                  *)
LEMMA ResendKeeps ==
    ASSUME CasInv, LogInv, NEW c \in Clients, Resend(c)
    PROVE  CasInv' /\ LogInv'
<1>1. /\ lock' = (IF lock = c THEN NoClient ELSE lock)
      /\ client' = [client EXCEPT ![c].pc = "ensure", ![c].answer = NoAnswer]
      /\ row' = row /\ events' = events /\ applied' = applied
  BY DEF Resend
<1>2. /\ DOMAIN client' = Clients
      /\ DOMAIN client'[c] = {"pc", "seen", "mutations", "answer"}
      /\ client'[c].pc = "ensure" /\ client'[c].answer = NoAnswer
      /\ client'[c].seen = client[c].seen
      /\ \A d \in Clients : d # c => client'[d] = client[d]
  BY <1>1, Answered DEF CasInv
<1>3. NoAnswer.revision \in Int
  BY DEF NoAnswer
<1>4. Shape'
  BY <1>2, <1>3 DEF CasInv, Shape
<1>5. OneRow'
  BY <1>1 DEF CasInv, OneRow
<1>6. Locked'
  BY <1>1, <1>2, WorkspaceAssumption DEF CasInv, Locked
<1>7. ASSUME NEW d \in Clients PROVE SeenFits(d)' /\ AppliedFits(d)'
  <2>1. CASE d = c
    BY <1>1, <1>2, <2>1 DEF CasInv, SeenFits, AppliedFits
  <2>2. CASE d # c
    BY <1>1, <1>2, <2>2 DEF CasInv, SeenFits, AppliedFits
  <2> QED
    BY <2>1, <2>2
<1>8. CasInv'
  BY <1>1, <1>4, <1>5, <1>6, <1>7 DEF CasInv
<1>9. LogIsSeq' /\ LogIsAChain'
  BY <1>1 DEF LogInv, LogIsSeq, LogIsAChain
<1>10. RejectionIsData'
  BY <1>1, <1>2 DEF LogInv, RejectionIsData
<1> QED
  BY <1>8, <1>9, <1>10 DEF LogInv

(* Every step keeps what clients saw, the row and the log together.        *)
LEMMA CasStep == CasInv /\ LogInv /\ [Next]_vars => CasInv' /\ LogInv'
<1> SUFFICES ASSUME CasInv, LogInv, [Next]_vars PROVE CasInv' /\ LogInv'
  OBVIOUS
<1>1. CASE Next
  BY <1>1, ComposeKeeps, EnsureKeeps, SelectKeeps, WriteKeeps, ResendKeeps DEF Next
<1>2. CASE UNCHANGED vars
  <2>1. /\ row' = row /\ events' = events /\ lock' = lock /\ client' = client
        /\ applied' = applied
    BY <1>2 DEF vars
  <2>2. CasInv'
    BY <2>1 DEF CasInv, Shape, OneRow, Locked, SeenFits, AppliedFits
  <2>3. LogInv'
    BY <2>1 DEF LogInv, LogIsSeq, LogIsAChain, RejectionIsData
  <2> QED
    BY <2>2, <2>3
<1> QED
  BY <1>1, <1>2

(* ... and so it always is.                                                *)
THEOREM WorkspaceInvariant == Spec => [](CasInv /\ LogInv)
<1> QED
  BY CasInit, CasStep, PTL DEF Spec

(* A request takes effect at most once, however often it is posted.        *)
THEOREM AppliesOnce == Spec => []AppliedOnce
<1>1. CasInv /\ LogInv => AppliedOnce
  BY DEF CasInv, AppliedFits, AppliedOnce
<1> QED
  BY <1>1, WorkspaceInvariant, PTL

(* ADR-002's compare-and-swap: what an accepted request replaces is the    *)
(* row its author saw, whole, although only revisions are compared.        *)
THEOREM UpdatesAreNotLost == Spec => NoLostUpdate
<1> DEFINE Kept == \A c \in Clients : applied'[c] > applied[c] => row = {client[c].seen}
<1>1. ASSUME CasInv, LogInv, [Next]_vars PROVE Kept \/ UNCHANGED vars
  <2> SUFFICES ASSUME Next PROVE Kept
    BY <1>1
  <2> SUFFICES ASSUME NEW c \in Clients, applied'[c] > applied[c] PROVE row = {client[c].seen}
    OBVIOUS
  <2>1. applied[c] \in {0, 1} /\ DOMAIN applied = Clients
    BY <1>1 DEF CasInv, AppliedFits
  <2>2. ~(applied' = applied)
    BY <2>1
  <2>3. ASSUME NEW d \in Clients, NEW mutations, Compose(d, mutations) PROVE FALSE
    BY <2>1, <2>3 DEF Compose
  <2>4. \E d \in Clients : Write(d)
    BY <2>2, <2>3 DEF Next, EnsureWorkspace, SelectForUpdate, Resend
  <2>5. PICK d \in Clients : Write(d)
    BY <2>4
  <2>6. c = d
    BY <2>1, <2>5 DEF Write
  <2>7. client[c].pc = "write"
    BY <2>5, <2>6 DEF Write
  <2> QED
    BY <1>1, <2>7 DEF CasInv, SeenFits, OneRow
<1> QED
  BY <1>1, WorkspaceInvariant, PTL DEF Spec, NoLostUpdate

-----------------------------------------------------------------------------
(* The log adds up to the state.                                           *)

(* Induction, for a set of numbers.                                        *)
LEMMA Counted ==
    ASSUME NEW T, 0 \in T, \A n \in Nat : n \in T => n + 1 \in T
    PROVE  Nat \subseteq T
<1> SUFFICES ASSUME Nat \ T # {} PROVE FALSE
  OBVIOUS
<1>1. PICK R : R = OpToRel(<, Nat)
  OBVIOUS
<1>2. IsWellFoundedOn(R, Nat)
  BY <1>1, NatLessThanWellFounded
<1>3. \A m, n \in Nat : m < n => <<m, n>> \in R
  BY <1>1 DEF OpToRel
<1>4. PICK n \in Nat \ T : \A m \in Nat \ T : ~(<<m, n>> \in R)
  BY <1>2, WFMin
<1>5. n - 1 \in Nat /\ n - 1 < n /\ (n - 1) + 1 = n
  OBVIOUS
<1>6. n - 1 \notin T
  BY <1>4, <1>5
<1> QED
  BY <1>3, <1>4, <1>5, <1>6

(* merge_patch, of two objects and of anything else.                       *)
LEMMA Patched ==
    ASSUME NEW base \in Value, NEW patch \in Value
    PROVE  /\ MergePatch(base, patch) \in Value
           /\ ~(base.object /\ patch.object) => MergePatch(base, patch) = patch
           /\ base.object /\ patch.object =>
                /\ MergePatch(base, patch).object
                /\ \A f \in Fields : MergePatch(base, patch).fields[f] =
                      IF patch.fields[f] # Absent THEN patch.fields[f] ELSE base.fields[f]
<1>1. CASE ~(base.object /\ patch.object)
  BY <1>1 DEF MergePatch
<1>2. CASE base.object /\ patch.object
  <2>1. base \in Object /\ patch \in Object
    BY <1>2 DEF Value, Object, Scalar
  <2>2. PICK g : g = [f \in Fields |-> IF patch.fields[f] # Absent THEN patch.fields[f]
                                                                ELSE base.fields[f]]
    OBVIOUS
  <2>3. g \in [Fields -> Vals \cup {Absent}]
    BY <2>1, <2>2 DEF Object
  <2>4. MergePatch(base, patch) = [base EXCEPT !.fields = g]
    BY <1>2, <2>2 DEF MergePatch
  <2>5. [base EXCEPT !.fields = g] \in Object /\ [base EXCEPT !.fields = g].fields = g
    BY <2>1, <2>3 DEF Object
  <2>6. MergePatch(base, patch) \in Object /\ MergePatch(base, patch).object
    BY <2>4, <2>5 DEF Object
  <2> QED
    BY <1>2, <2>2, <2>4, <2>5, <2>6 DEF Value
<1> QED
  BY <1>1, <1>2

(* The loop over a request's mutations is well defined: there is a         *)
(* function that satisfies its recursion.                                  *)
Merges(g, base, mutations, n) ==
    g = [k \in 0..n |-> IF k = 0 THEN base ELSE MergePatch(g[k - 1], mutations[k])]

(* By induction on the number of mutations.                                *)
LEMMA MergesExist ==
    ASSUME NEW base, NEW mutations
    PROVE  \A n \in Nat : \E g : Merges(g, base, mutations, n)
<1> DEFINE T == {n \in Nat : \E g : Merges(g, base, mutations, n)}
<1>1. 0 \in T
  <2>1. PICK g : g = [k \in 0..0 |-> base]
    OBVIOUS
  <2>2. Merges(g, base, mutations, 0)
    BY <2>1 DEF Merges
  <2> QED
    BY <2>2
<1>2. ASSUME NEW n \in Nat, n \in T PROVE n + 1 \in T
  <2>1. PICK g : Merges(g, base, mutations, n)
    BY <1>2
  <2>2. PICK h : h = [k \in 0..(n + 1) |-> IF k = n + 1 THEN MergePatch(g[n], mutations[n + 1])
                                                       ELSE g[k]]
    OBVIOUS
  <2>3. \A k \in 0..n : h[k] = g[k]
    BY <2>2
  <2>4. \A k \in 0..n : g[k] = IF k = 0 THEN base ELSE MergePatch(g[k - 1], mutations[k])
    BY <2>1 DEF Merges
  <2>5. ASSUME NEW k \in 0..(n + 1)
        PROVE  h[k] = IF k = 0 THEN base ELSE MergePatch(h[k - 1], mutations[k])
    <3>1. CASE k = 0
      BY <2>3, <2>4, <3>1
    <3>2. CASE k \in 1..n
      <4>1. h[k] = g[k] /\ h[k - 1] = g[k - 1] /\ g[k] = MergePatch(g[k - 1], mutations[k])
        BY <2>3, <2>4, <3>2
      <4> QED
        BY <3>2, <4>1
    <3>3. CASE k = n + 1
      <4>1. h[k] = MergePatch(g[n], mutations[n + 1]) /\ h[n] = g[n] /\ k - 1 = n /\ k # 0
        BY <2>2, <2>3, <3>3
      <4> QED
        BY <3>3, <4>1
    <3> QED
      BY <3>1, <3>2, <3>3
  <2>6. h = [k \in 0..(n + 1) |-> h[k]]
    BY <2>2
  <2>7. Merges(h, base, mutations, n + 1)
    BY <2>5, <2>6 DEF Merges
  <2> QED
    BY <2>7
<1> HIDE DEF T
<1>3. Nat \subseteq T
  BY <1>1, <1>2, Counted
<1> QED
  BY <1>3 DEF T

(* ... and the loop's result is the last value of one.                     *)
LEMMA MergedBy ==
    ASSUME NEW base, NEW mutations, Len(mutations) \in Nat
    PROVE  \E g : /\ Merges(g, base, mutations, Len(mutations))
                  /\ MergeAll(base, mutations) = g[Len(mutations)]
<1>1. PICK L : L = Len(mutations)
  OBVIOUS
<1>2. \E g : g = [k \in 0..L |-> IF k = 0 THEN base ELSE MergePatch(g[k - 1], mutations[k])]
  <2>1. PICK g : Merges(g, base, mutations, L)
    BY <1>1, MergesExist
  <2> QED
    BY <2>1 DEF Merges
<1>3. PICK h : h = CHOOSE g : g = [k \in 0..L |-> IF k = 0 THEN base
                                              ELSE MergePatch(g[k - 1], mutations[k])]
  OBVIOUS
<1>4. h = [k \in 0..L |-> IF k = 0 THEN base ELSE MergePatch(h[k - 1], mutations[k])]
  BY <1>2, <1>3
<1>5. MergeAll(base, mutations) = h[L]
  BY <1>1, <1>3 DEF MergeAll
<1>6. Merges(h, base, mutations, L)
  BY <1>4 DEF Merges
<1> QED
  BY <1>1, <1>5, <1>6

(* One more mutation, after all the others.                                *)
LEMMA LastWriteStep ==
    ASSUME NEW log, NEW P, NEW p0, NEW state \in Value, NEW patch, patch = PatchAt(log, p0),
           patch \in Value, \A p \in P : PatchAt(log, p) \in Value,
           \A p \in P \cup {p0} : p[1] \in Nat /\ p[2] \in Nat,
           \A p \in P : Before(p, p0), LastWrite(log, P, state)
    PROVE  LastWrite(log, P \cup {p0}, MergePatch(state, patch))
<1>1. /\ p0 \notin P /\ \A p \in P : ~Before(p0, p) /\ p # p0
      /\ \A p, r \in P : Before(p, r) => ~Before(r, p) /\ p # r
      /\ ~Before(p0, p0)
  BY DEF Before
<1> DEFINE wipes(S) == {p \in S : ~PatchAt(log, p).object}
           kept(S) == {p \in S : \A w \in wipes(S) : Before(w, p)}
           sets(S, f) == {p \in kept(S) : PatchAt(log, p).fields[f] # Absent}
           Q == P \cup {p0}
           new == MergePatch(state, patch)
<1>2. /\ new \in Value
      /\ ~(state.object /\ patch.object) => new = patch
      /\ state.object /\ patch.object =>
           /\ new.object
           /\ \A f \in Fields : new.fields[f] =
                 IF patch.fields[f] # Absent THEN patch.fields[f] ELSE state.fields[f]
  BY Patched
<1>3. \A r : LastOf(r, Q) <=> r = p0
  BY <1>1 DEF LastOf
<1>4. IF \E w \in wipes(P) : LastOf(w, P)
      THEN \E w \in wipes(P) : LastOf(w, P) /\ state = PatchAt(log, w)
      ELSE /\ state.object
           /\ \A f \in Fields :
                 IF sets(P, f) = {} THEN state.fields[f] = Absent
                 ELSE \E p \in sets(P, f) : /\ LastOf(p, sets(P, f))
                                           /\ state.fields[f] = PatchAt(log, p).fields[f]
  BY DEF LastWrite
<1>5. SUFFICES IF \E w \in wipes(Q) : LastOf(w, Q)
               THEN \E w \in wipes(Q) : LastOf(w, Q) /\ new = PatchAt(log, w)
               ELSE /\ new.object
                    /\ \A f \in Fields :
                          IF sets(Q, f) = {} THEN new.fields[f] = Absent
                          ELSE \E p \in sets(Q, f) : /\ LastOf(p, sets(Q, f))
                                                    /\ new.fields[f] = PatchAt(log, p).fields[f]
  BY DEF LastWrite
<1> HIDE DEF new
<1>6. CASE ~patch.object
  <2>1. p0 \in wipes(Q) /\ LastOf(p0, Q) /\ new = PatchAt(log, p0)
    BY <1>2, <1>3, <1>6
  <2> QED
    BY <2>1
<1>7. CASE patch.object
  <2>1. /\ wipes(Q) = wipes(P) /\ ~\E w \in wipes(Q) : LastOf(w, Q)
    BY <1>1, <1>3, <1>7
  <2>2. p0 \in kept(Q) /\ kept(Q) = kept(P) \cup {p0}
    <3>1. \A w \in wipes(P) : Before(w, p0)
      OBVIOUS
    <3>2. p0 \in kept(Q)
      BY <2>1, <3>1
    <3>3. \A p \in P : p \in kept(Q) <=> p \in kept(P)
      BY <2>1
    <3> QED
      BY <3>2, <3>3
  <2>3. \A f : sets(Q, f) = sets(P, f) \cup {p \in {p0} : patch.fields[f] # Absent}
    BY <2>2
  <2> HIDE DEF kept
  <2>4. CASE ~state.object
    <3>1. PICK w \in wipes(P) : LastOf(w, P)
      BY <1>4, <2>4
    <3>2. kept(P) = {}
      BY <1>1, <3>1 DEF kept, LastOf
    <3>3. new = patch
      BY <1>2, <2>4
    <3>4. ASSUME NEW f \in Fields
          PROVE  IF sets(Q, f) = {} THEN new.fields[f] = Absent
                 ELSE \E p \in sets(Q, f) : /\ LastOf(p, sets(Q, f))
                                           /\ new.fields[f] = PatchAt(log, p).fields[f]
      <4>1. sets(Q, f) = {p \in {p0} : patch.fields[f] # Absent}
        BY <2>3, <3>2
      <4> HIDE DEF sets
      <4>2. CASE patch.fields[f] = Absent
        BY <3>3, <4>1, <4>2
      <4>3. CASE patch.fields[f] # Absent
        <5>1. sets(Q, f) = {p0} /\ LastOf(p0, {p0})
          BY <4>1, <4>3 DEF LastOf
        <5> QED
          BY <3>3, <5>1
      <4> QED
        BY <4>2, <4>3
    <3> QED
      BY <2>1, <3>3, <3>4, <1>7
  <2>5. CASE state.object
    <3>1. ~\E w \in wipes(P) : LastOf(w, P)
      BY <1>4, <2>5
    <3>2. new.object
      BY <1>2, <1>7, <2>5
    <3>3. ASSUME NEW f \in Fields
          PROVE  IF sets(Q, f) = {} THEN new.fields[f] = Absent
                 ELSE \E p \in sets(Q, f) : /\ LastOf(p, sets(Q, f))
                                           /\ new.fields[f] = PatchAt(log, p).fields[f]
      <4>1. /\ IF sets(P, f) = {} THEN state.fields[f] = Absent
               ELSE \E p \in sets(P, f) : /\ LastOf(p, sets(P, f))
                                         /\ state.fields[f] = PatchAt(log, p).fields[f]
            /\ new.fields[f] = IF patch.fields[f] # Absent THEN patch.fields[f]
                                                           ELSE state.fields[f]
            /\ sets(Q, f) = sets(P, f) \cup {p \in {p0} : patch.fields[f] # Absent}
            /\ sets(P, f) \subseteq P
        BY <1>2, <1>4, <1>7, <2>3, <2>5, <3>1 DEF kept
      <4> HIDE DEF sets
      <4>2. CASE patch.fields[f] = Absent
        <5>1. sets(Q, f) = sets(P, f) /\ new.fields[f] = state.fields[f]
          BY <4>1, <4>2
        <5> QED
          BY <4>1, <5>1
      <4>3. CASE patch.fields[f] # Absent
        <5>1. sets(Q, f) = sets(P, f) \cup {p0} /\ new.fields[f] = patch.fields[f]
          BY <4>1, <4>3
        <5>2. p0 \in sets(Q, f) /\ LastOf(p0, sets(Q, f))
          BY <4>1, <5>1 DEF LastOf
        <5> QED
          BY <5>1, <5>2
      <4> QED
        BY <4>2, <4>3
    <3> QED
      BY <2>1, <3>2, <3>3
  <2> QED
    BY <2>4, <2>5
<1> QED
  BY <1>6, <1>7

(* Nothing leaves the empty object.                                        *)
LEMMA LastWriteNone ==
    ASSUME NEW log
    PROVE  LastWrite(log, {}, EmptyState) /\ EmptyState \in Value
BY DEF LastWrite, EmptyState, Value, Object

(* The mutations of one more request.                                      *)
LEMMA RequestAddsUp ==
    ASSUME NEW log, NEW last \in Nat, NEW P, NEW base \in Value, NEW mutations \in Seq(Value),
           log[last].mutations = mutations,
           \A p \in P : PatchAt(log, p) \in Value /\ p[1] \in Nat /\ p[2] \in Nat /\ p[1] < last,
           LastWrite(log, P, base)
    PROVE  /\ MergeAll(base, mutations) \in Value
           /\ LastWrite(log, P \cup ({last} \X (1..Len(mutations))), MergeAll(base, mutations))
<1>1. PICK L : L = Len(mutations) /\ L \in Nat
  OBVIOUS
<1>2. \A k \in 1..L : mutations[k] \in Value
  BY <1>1
<1>3. PICK g : Merges(g, base, mutations, L) /\ MergeAll(base, mutations) = g[L]
  BY <1>1, MergedBy
<1>4. g[0] = base /\ \A k \in 1..L : g[k] = MergePatch(g[k - 1], mutations[k])
  BY <1>1, <1>3 DEF Merges
<1> DEFINE T == {n \in Nat : n <= L => /\ g[n] \in Value
                                      /\ LastWrite(log, P \cup ({last} \X (1..n)), g[n])}
<1>5. 0 \in T
  <2>1. P \cup ({last} \X (1..0)) = P
    OBVIOUS
  <2> QED
    BY <1>4, <2>1
<1>6. ASSUME NEW n \in Nat, n \in T PROVE n + 1 \in T
  <2> SUFFICES ASSUME n + 1 <= L
               PROVE  /\ g[n + 1] \in Value
                      /\ LastWrite(log, P \cup ({last} \X (1..(n + 1))), g[n + 1])
    OBVIOUS
  <2>1. PICK R, p0, patch : /\ R = P \cup ({last} \X (1..n)) /\ p0 = <<last, n + 1>>
                            /\ patch = mutations[n + 1]
    OBVIOUS
  <2>2. g[n] \in Value /\ LastWrite(log, R, g[n])
    BY <1>1, <1>6, <2>1
  <2>3. patch \in Value /\ PatchAt(log, p0) = patch
    BY <1>2, <1>1, <2>1 DEF PatchAt
  <2>4. g[n + 1] = MergePatch(g[n], patch)
    BY <1>1, <1>4, <2>1
  <2>5. \A p \in R : PatchAt(log, p) \in Value /\ p[1] \in Nat /\ p[2] \in Nat /\ Before(p, p0)
    <3> SUFFICES ASSUME NEW p \in R
                 PROVE  PatchAt(log, p) \in Value /\ p[1] \in Nat /\ p[2] \in Nat /\ Before(p, p0)
      OBVIOUS
    <3>1. CASE p \in P
      BY <2>1, <3>1 DEF Before
    <3>2. CASE p \in {last} \X (1..n)
      <4>1. p[1] = last /\ p[2] \in 1..n
        BY <3>2
      <4>2. p[2] \in 1..L /\ p[2] \in Nat /\ p[2] < n + 1
        BY <1>1, <4>1
      <4>3. PatchAt(log, p) \in Value
        BY <1>2, <4>1, <4>2 DEF PatchAt
      <4>4. Before(p, p0)
        BY <2>1, <4>1, <4>2 DEF Before
      <4> QED
        BY <4>1, <4>2, <4>3, <4>4
    <3> QED
      BY <2>1, <3>1, <3>2
  <2>6. p0[1] \in Nat /\ p0[2] \in Nat
    BY <2>1
  <2>7. LastWrite(log, R \cup {p0}, MergePatch(g[n], patch))
    BY <2>2, <2>3, <2>5, <2>6, LastWriteStep
  <2>8. R \cup {p0} = P \cup ({last} \X (1..(n + 1)))
    <3>1. 1..(n + 1) = (1..n) \cup {n + 1}
      OBVIOUS
    <3> QED
      BY <2>1, <3>1
  <2>9. MergePatch(g[n], patch) \in Value
    BY <2>2, <2>3, Patched
  <2> QED
    BY <2>4, <2>7, <2>8, <2>9
<1> HIDE DEF T
<1>7. Nat \subseteq T
  BY <1>5, <1>6, Counted
<1>8. g[L] \in Value /\ LastWrite(log, P \cup ({last} \X (1..L)), g[L])
  BY <1>1, <1>7 DEF T
<1> QED
  BY <1>1, <1>3, <1>8

(* What is stored and sent is of its type, and the log adds up.            *)
Contents ==
    /\ row \subseteq Row
    /\ \A c \in Clients : client[c].seen \in Row /\ client[c].mutations \in Seq(Value)
    /\ \A i \in 1..Len(events) : events[i].mutations \in Seq(Value)
    /\ lock \in Clients \cup {NoClient} /\ lost \in 0..MaxLost
    /\ LogAddsUp

(* It holds initially.                                                     *)
LEMMA ContentsInit == Init => Contents
<1> SUFFICES ASSUME Init PROVE Contents
  OBVIOUS
<1>1. EmptyState \in Value
  BY LastWriteNone
<1>2. NewRow \in Row
  BY <1>1 DEF NewRow, Row, StateHash
<1>3. Resting.seen = NewRow /\ Resting.mutations = <<>> /\ <<>> \in Seq(Value)
  BY EmptySeq DEF Resting
<1>4. Len(events) = 0
  BY DEF Init
<1>5. \A c \in Clients : client[c].seen \in Row /\ client[c].mutations \in Seq(Value)
  BY <1>2, <1>3 DEF Init
<1>6. row = {} /\ lock = NoClient /\ lost \in 0..MaxLost
  BY WorkspaceAssumption DEF Init
<1> QED
  BY <1>4, <1>5, <1>6 DEF Contents, LogAddsUp

(* A write adds the mutations of the client to the log and to the state.   *)
LEMMA WriteAddsUp ==
    ASSUME CasInv, LogInv, Contents, NEW c \in Clients, Write(c)
    PROVE  Contents'
<1>1. PICK x \in row :
         LET state == MergeAll(x.state, client[c].mutations)
             new == [revision |-> x.revision + 1, state |-> state, hash |-> StateHash(state)]
         IN  /\ row' = {new}
             /\ events' = Append(events, [revision |-> new.revision, prev |-> x.revision,
                                          mutations |-> client[c].mutations,
                                          hash |-> new.hash])
             /\ client' = [client EXCEPT
                             ![c].pc = "idle",
                             ![c].answer = [accepted |-> TRUE, revision |-> new.revision,
                                            hash |-> new.hash]]
  BY DEF Write
<1>2. PICK mutations, state, event :
         /\ mutations = client[c].mutations /\ state = MergeAll(x.state, mutations)
         /\ event = [revision |-> x.revision + 1, prev |-> x.revision, mutations |-> mutations,
                     hash |-> StateHash(state)]
  OBVIOUS
<1>3. /\ row' = {[revision |-> x.revision + 1, state |-> state, hash |-> StateHash(state)]}
      /\ events' = Append(events, event)
      /\ \E a : client' = [client EXCEPT ![c].pc = "idle", ![c].answer = a]
  BY <1>1, <1>2
<1>4. /\ x \in Row /\ x.state \in Value /\ x.revision \in Nat /\ mutations \in Seq(Value)
      /\ Len(mutations) \in Nat
  BY <1>2 DEF Contents, Row
<1>5. PICK S : events \in Seq(S)
  BY DEF LogInv, LogIsSeq
<1>6. PICK N, log : N = Len(events) /\ log = events' /\ N \in Nat
  BY <1>5
<1>7. /\ Len(log) = N + 1 /\ \A i \in 1..N : log[i] = events[i]
      /\ log[N + 1].mutations = mutations
  <2>1. event.mutations = mutations
    BY <1>2
  <2>2. events \in Seq(S \cup {event}) /\ event \in S \cup {event}
    BY <1>5
  <2>3. Len(log) = N + 1 /\ (\A i \in 1..N : log[i] = events[i]) /\ log[N + 1] = event
    BY <1>3, <1>6, <2>2
  <2> QED
    BY <2>1, <2>3
<1>8. PICK P : P = Places(events)
  OBVIOUS
<1>9. \A i \in 1..N : events[i].mutations \in Seq(Value)
  BY <1>6 DEF Contents
<1>10. \A p \in P : /\ p[1] \in 1..N /\ p[2] \in Nat /\ p[2] \in 1..Len(events[p[1]].mutations)
                    /\ PatchAt(events, p) = PatchAt(log, p) /\ PatchAt(log, p) \in Value
  <2> SUFFICES ASSUME NEW p \in P
               PROVE  /\ p[1] \in 1..N /\ p[2] \in Nat
                      /\ p[2] \in 1..Len(events[p[1]].mutations)
                      /\ PatchAt(events, p) = PatchAt(log, p) /\ PatchAt(log, p) \in Value
    OBVIOUS
  <2>1. p[1] \in 1..N /\ p[2] \in 1..Len(events[p[1]].mutations)
    BY <1>6, <1>8 DEF Places
  <2>2. PICK m : m = events[p[1]].mutations
    OBVIOUS
  <2>3. m \in Seq(Value) /\ p[2] \in 1..Len(m)
    BY <1>9, <2>1, <2>2
  <2>4. p[2] \in Nat /\ m[p[2]] \in Value
    BY <2>3
  <2> QED
    BY <1>7, <2>1, <2>2, <2>4 DEF PatchAt
<1>11. LastWrite(log, P, x.state)
  <2>1. LastWrite(events, P, x.state)
    BY <1>8 DEF Contents, LogAddsUp
  <2>2. {p \in P : ~PatchAt(events, p).object} = {p \in P : ~PatchAt(log, p).object}
    BY <1>10
  <2>3. \A p \in P : PatchAt(events, p) = PatchAt(log, p)
    BY <1>10
  <2> QED
    BY <2>1, <2>2, <2>3 DEF LastWrite
<1>12. /\ state \in Value
       /\ LastWrite(log, P \cup ({N + 1} \X (1..Len(mutations))), state)
  <2>1. \A p \in P : PatchAt(log, p) \in Value /\ p[1] \in Nat /\ p[2] \in Nat /\ p[1] < N + 1
    BY <1>6, <1>10
  <2>2. N + 1 \in Nat
    BY <1>6
  <2> QED
    BY <1>2, <1>4, <1>7, <1>11, <2>1, <2>2, RequestAddsUp
<1>13. Places(log) = P \cup ({N + 1} \X (1..Len(mutations)))
  <2>1. 1..(N + 1) = (1..N) \cup {N + 1}
    BY <1>6
  <2>2. ASSUME NEW p \in Places(log) PROVE p \in P \cup ({N + 1} \X (1..Len(mutations)))
    <3>1. PICK i \in 1..(N + 1) : p \in {i} \X (1..Len(log[i].mutations))
      BY <1>7 DEF Places
    <3>2. CASE i = N + 1
      BY <1>7, <3>1, <3>2
    <3>3. CASE i \in 1..N
      <4>1. p \in {i} \X (1..Len(events[i].mutations))
        BY <1>7, <3>1, <3>3
      <4> QED
        BY <1>6, <1>8, <3>3, <4>1 DEF Places
    <3> QED
      BY <2>1, <3>1, <3>2, <3>3
  <2>3. ASSUME NEW p \in P PROVE p \in Places(log)
    <3>1. PICK i \in 1..N : p \in {i} \X (1..Len(events[i].mutations))
      BY <1>6, <1>8 DEF Places
    <3>2. i \in 1..Len(log) /\ p \in {i} \X (1..Len(log[i].mutations))
      BY <1>6, <1>7, <3>1
    <3> QED
      BY <3>2 DEF Places
  <2>4. ASSUME NEW p \in {N + 1} \X (1..Len(mutations)) PROVE p \in Places(log)
    <3>1. N + 1 \in 1..Len(log) /\ p \in {N + 1} \X (1..Len(log[N + 1].mutations))
      BY <1>6, <1>7
    <3> QED
      BY <3>1 DEF Places
  <2> QED
    BY <2>2, <2>3, <2>4
<1>14. LogAddsUp'
  <2>1. \A y \in row' : y.state = state
    BY <1>3
  <2> QED
    BY <1>6, <1>12, <1>13, <2>1 DEF LogAddsUp
<1>15. row' \subseteq Row
  BY <1>3, <1>4, <1>12 DEF Row, StateHash
<1>16. \A i \in 1..Len(events') : events'[i].mutations \in Seq(Value)
  BY <1>4, <1>6, <1>7, <1>9
<1>17. \A d \in Clients : client'[d].seen = client[d].seen /\ client'[d].mutations = client[d].mutations
  BY <1>3 DEF CasInv, Shape
<1>18. lock' \in Clients \cup {NoClient} /\ lost' \in 0..MaxLost
  BY DEF Write, Contents
<1> QED
  BY <1>14, <1>15, <1>16, <1>17, <1>18 DEF Contents

(* The other steps touch neither the log nor what it adds up to.           *)
LEMMA ContentsStep == CasInv /\ LogInv /\ Contents /\ [Next]_vars => Contents'
<1> SUFFICES ASSUME CasInv, LogInv, Contents, [Next]_vars PROVE Contents'
  OBVIOUS
<1>1. EmptyState \in Value /\ LastWrite(events, {}, EmptyState)
  BY LastWriteNone
<1>2. NewRow \in Row /\ NewRow.state = EmptyState
  BY <1>1 DEF NewRow, Row, StateHash
<1>3. Shape /\ OneRow
  BY DEF CasInv
<1>4. ASSUME UNCHANGED <<row, events>>,
             \A d \in Clients : client'[d].seen \in Row /\ client'[d].mutations \in Seq(Value),
             lock' \in Clients \cup {NoClient}, lost' \in 0..MaxLost
      PROVE  Contents'
  BY <1>4 DEF Contents, LogAddsUp
<1>5. ASSUME NEW c \in Clients, NEW mutations \in Requests, Compose(c, mutations) PROVE Contents'
  <2>1. PICK s : s = IF row = {} THEN NewRow ELSE CHOOSE x \in row : TRUE
    OBVIOUS
  <2>2. s \in Row
    BY <1>2, <2>1 DEF Contents
  <2>3. PICK n : n = [Resting EXCEPT !.pc = "ensure", !.mutations = mutations, !.seen = s]
    OBVIOUS
  <2>4. n.seen = s /\ n.mutations = mutations
    BY <2>3 DEF Resting
  <2>5. client' = [client EXCEPT ![c] = n]
    BY <1>5, <2>1, <2>3 DEF Compose
  <2>6. \A d \in Clients : client'[d].seen \in Row /\ client'[d].mutations \in Seq(Value)
    BY <1>3, <2>2, <2>4, <2>5, WorkspaceAssumption DEF Contents, Shape
  <2> QED
    BY <1>4, <1>5, <2>6 DEF Compose, Contents
<1>6. ASSUME NEW c \in Clients, EnsureWorkspace(c) PROVE Contents'
  <2>1. /\ client' = [client EXCEPT ![c].pc = "select"] /\ UNCHANGED <<events, lock, lost>>
        /\ row' = IF row = {} THEN {NewRow} ELSE row
    BY <1>6 DEF EnsureWorkspace
  <2>2. \A d \in Clients : client'[d].seen = client[d].seen /\ client'[d].mutations = client[d].mutations
    BY <1>3, <2>1 DEF Shape
  <2>3. LogAddsUp'
    <3>1. CASE row = {}
      <4>1. Len(events) = 0
        BY <3>1 DEF LogInv, LogIsSeq
      <4>2. Places(events) = {}
        BY <4>1 DEF Places
      <4> QED
        BY <1>1, <1>2, <2>1, <3>1, <4>2 DEF LogAddsUp
    <3>2. CASE row # {}
      BY <2>1, <3>2 DEF LogAddsUp, Contents
    <3> QED
      BY <3>1, <3>2
  <2> QED
    BY <1>2, <2>1, <2>2, <2>3 DEF Contents
<1>7. ASSUME NEW c \in Clients, SelectForUpdate(c) PROVE Contents'
  <2>1. \/ client' = [client EXCEPT ![c].pc = "write"]
        \/ \E a : client' = [client EXCEPT ![c].pc = "idle", ![c].answer = a]
    BY <1>7 DEF SelectForUpdate
  <2>2. \A d \in Clients : client'[d].seen = client[d].seen /\ client'[d].mutations = client[d].mutations
    <3>1. CASE client' = [client EXCEPT ![c].pc = "write"]
      BY <1>3, <3>1 DEF Shape
    <3>2. CASE \E a : client' = [client EXCEPT ![c].pc = "idle", ![c].answer = a]
      BY <1>3, <3>2 DEF Shape
    <3> QED
      BY <2>1, <3>1, <3>2
  <2>3. lock' \in {c, lock} /\ UNCHANGED <<row, events, lost>>
    BY <1>7 DEF SelectForUpdate
  <2> QED
    BY <1>4, <2>2, <2>3 DEF Contents
<1>8. ASSUME NEW c \in Clients, Write(c) PROVE Contents'
  BY <1>8, WriteAddsUp
<1>9. ASSUME NEW c \in Clients, Resend(c) PROVE Contents'
  <2>1. /\ client' = [client EXCEPT ![c].pc = "ensure", ![c].answer = NoAnswer]
        /\ UNCHANGED <<row, events>> /\ lost' = lost - 1 /\ lost > 0
        /\ lock' \in {NoClient, lock}
    BY <1>9 DEF Resend
  <2>2. \A d \in Clients : client'[d].seen = client[d].seen /\ client'[d].mutations = client[d].mutations
    BY <1>3, <2>1 DEF Shape
  <2>3. lost' \in 0..MaxLost
    BY <2>1, WorkspaceAssumption DEF Contents
  <2> QED
    BY <1>4, <2>1, <2>2, <2>3 DEF Contents
<1>10. CASE UNCHANGED vars
  BY <1>4, <1>10 DEF vars, Contents
<1> QED
  BY <1>5, <1>6, <1>7, <1>8, <1>9, <1>10 DEF Next

(* What anybody reads of a workspace is consistent, for any clients,       *)
(* requests and bounds: the log is a chain that ends at the row, its       *)
(* mutations add up to the row's state, and an answer carries a revision   *)
(* and a hash that were current together.                                  *)
THEOREM WorkspaceIsConsistent == Spec => []WorkspaceInv
<1>1. CasInv /\ LogInv /\ Contents => WorkspaceInv
  <2> SUFFICES ASSUME CasInv, LogInv, Contents PROVE WorkspaceInv
    OBVIOUS
  <2>1. Cardinality(row) <= 1
    <3>1. CASE row = {}
      BY <3>1, FS_EmptySet
    <3>2. CASE row # {}
      <4>1. \E x : row = {x}
        BY <3>2 DEF CasInv, OneRow
      <4>2. Cardinality(row) = 1
        BY <4>1, FS_Singleton
      <4> QED
        BY <4>2
    <3> QED
      BY <3>1, <3>2
  <2>2. TypeOK
    BY <2>1 DEF TypeOK, CasInv, Shape, Locked, Contents
  <2> QED
    BY <2>2 DEF WorkspaceInv, LogInv, Contents
<1> QED
  BY <1>1, CasInit, ContentsInit, CasStep, ContentsStep, PTL DEF Spec

-----------------------------------------------------------------------------
(* The log of evidence.                                                    *)

EvidenceRow == [seq : Nat, stream : Writers, chunk : Nat]
Count == Cardinality(rows)

(* No number is given twice.                                               *)
SeqsUnique == \A x, y \in rows : x.seq = y.seq => x = y

(* An append under way holds a number that is taken or the next; one that  *)
(* has inserted its entry holds the next, alone.                           *)
OneCommits ==
    /\ \A w \in Writers : writer[w].pc = "insert" => writer[w].seq \in 1..(Count + 1)
    /\ \A w \in Writers : writer[w].pc = "commit" => writer[w].seq = Count + 1
    /\ \A v, w \in Writers : writer[v].pc = "commit" /\ writer[w].pc = "commit" => v = w

(* A stream is past every chunk of its that is in the log.                 *)
StreamsAhead == \A x \in rows : x.chunk < writer[x.stream].chunk

(* The reader is somewhere in the log.                                     *)
ReaderFits == cursor <= Count /\ shown \in Seq(EvidenceRow)

RowsInv == EvidenceInv /\ IsFiniteSet(rows) /\ SeqsUnique /\ OneCommits /\ StreamsAhead

(* The inductive invariant.                                                *)
EvInv == RowsInv /\ ReaderFits /\ ReaderMissesNothing

(* The highest number of the log is how many rows it has.                  *)
LEMMA MaxSeqIsCount ==
    ASSUME RowsInv
    PROVE  Count \in Nat /\ Seqs = 1..Count /\ MaxSeq = Count
<1>1. Count \in Nat /\ Seqs = 1..Count
  BY FS_CardinalityType DEF RowsInv, EvidenceInv, SeqsContiguous, Count
<1>2. CASE rows = {}
  <2>1. Cardinality(rows) = 0 /\ MaxSeq = 0
    BY <1>2, FS_EmptySet DEF MaxSeq
  <2> QED
    BY <1>1, <2>1 DEF Count
<1>3. CASE rows # {}
  <2>1. Seqs # {}
    BY <1>3 DEF Seqs
  <2>2. Count \in Seqs /\ \A y \in Seqs : Count >= y
    BY <1>1, <2>1
  <2>3. Max(Seqs) \in Seqs /\ \A y \in Seqs : Max(Seqs) >= y
    BY <2>2 DEF Max
  <2>4. Max(Seqs) = Count
    BY <1>1, <2>2, <2>3
  <2> QED
    BY <1>1, <1>3, <2>4 DEF MaxSeq
<1> QED
  BY <1>1, <1>2, <1>3

(* The log starts empty.                                                   *)
LEMMA EvInvInit == EvidenceInit => EvInv
<1> SUFFICES ASSUME EvidenceInit PROVE EvInv
  OBVIOUS
<1>1. rows = {} /\ IsFiniteSet(rows) /\ Count = 0 /\ Seqs = {}
  BY FS_EmptySet DEF EvidenceInit, Count, Seqs
<1>2. EvidenceTypeOK
  BY DEF EvidenceInit, EvidenceTypeOK
<1>3. EvidenceInv
  BY <1>1, <1>2 DEF EvidenceInv, SeqsContiguous, StreamsInOrder, Count
<1>4. RowsInv
  BY <1>1, <1>3 DEF EvidenceInit, RowsInv, SeqsUnique, OneCommits, StreamsAhead
<1>5. ReaderFits /\ ReaderMissesNothing
  BY <1>1 DEF EvidenceInit, ReaderFits, ReaderMissesNothing, ToSet
<1> QED
  BY <1>4, <1>5 DEF EvInv

(* A step that leaves the log and the reader alone disturbs only the       *)
(* appends under way.                                                      *)
LEMMA EvInvSame ==
    ASSUME EvInv, UNCHANGED <<rows, cursor, shown>>, EvidenceTypeOK', OneCommits', StreamsAhead'
    PROVE  EvInv'
BY DEF EvInv, RowsInv, EvidenceInv, SeqsContiguous, SeqsUnique, StreamsInOrder, ReaderFits,
       ReaderMissesNothing, Seqs, Count

(* What a writer looks like once it reads on.                              *)
LEMMA ReadsOn ==
    ASSUME EvidenceTypeOK, NEW w \in Writers, ReadOn(w)
    PROVE  /\ writer' \in [Writers -> [pc : {"read", "insert", "commit"}, chunk : Nat, seq : Nat]]
           /\ \A v \in Writers : v # w => writer'[v] = writer[v]
           /\ writer'[w].pc = "read" /\ writer'[w].chunk = writer[w].chunk + 1
           /\ writer[w].chunk \in Nat
<1>1. writer[w].chunk + 1 \in Nat /\ writer[w].chunk \in Nat
  BY DEF EvidenceTypeOK
<1> QED
  BY <1>1 DEF EvidenceTypeOK, ReadOn

(* An append that gives up takes nothing from the log.                     *)
LEMMA SkipKeeps ==
    ASSUME EvInv, NEW w \in Writers, Skip(w), UNCHANGED <<rows, cursor, shown>>
    PROVE  EvInv'
<1>1. EvidenceTypeOK
  BY DEF EvInv, RowsInv, EvidenceInv
<1>2. /\ writer' \in [Writers -> [pc : {"read", "insert", "commit"}, chunk : Nat, seq : Nat]]
      /\ \A v \in Writers : v # w => writer'[v] = writer[v]
      /\ writer'[w].pc = "read" /\ writer'[w].chunk = writer[w].chunk + 1
      /\ writer[w].chunk \in Nat
  BY <1>1, ReadsOn DEF Skip
<1>3. EvidenceTypeOK'
  BY <1>1, <1>2 DEF Skip, EvidenceTypeOK
<1>4. OneCommits'
  BY <1>2 DEF EvInv, RowsInv, OneCommits, Count
<1>5. StreamsAhead'
  BY <1>1, <1>2 DEF EvInv, RowsInv, StreamsAhead, EvidenceTypeOK
<1> QED
  BY <1>3, <1>4, <1>5, EvInvSame

(* An append draws the number after the last committed one.                *)
LEMMA AllocateKeeps ==
    ASSUME EvInv, NEW w \in Writers, Allocate(w)
    PROVE  EvInv'
<1>1. EvidenceTypeOK /\ RowsInv /\ Count \in Nat /\ MaxSeq = Count
  BY MaxSeqIsCount DEF EvInv, RowsInv, EvidenceInv
<1>2. /\ writer' = [writer EXCEPT ![w].pc = "insert", ![w].seq = Count + 1]
      /\ UNCHANGED <<rows, skipped, cursor, shown>>
  BY <1>1 DEF Allocate
<1>3. /\ writer' \in [Writers -> [pc : {"read", "insert", "commit"}, chunk : Nat, seq : Nat]]
      /\ \A v \in Writers : v # w => writer'[v] = writer[v]
      /\ writer'[w].pc = "insert" /\ writer'[w].seq = Count + 1
      /\ writer'[w].chunk = writer[w].chunk
  <2>1. Count + 1 \in Nat
    BY <1>1
  <2> QED
    BY <1>1, <1>2, <2>1 DEF EvidenceTypeOK
<1>4. EvidenceTypeOK'
  BY <1>1, <1>2, <1>3 DEF EvidenceTypeOK
<1>5. Count' = Count
  BY <1>2 DEF Count
<1>6. OneCommits'
  BY <1>1, <1>3, <1>5 DEF RowsInv, OneCommits
<1>7. StreamsAhead'
  BY <1>1, <1>2, <1>3 DEF RowsInv, StreamsAhead, EvidenceTypeOK
<1> QED
  BY <1>2, <1>4, <1>6, <1>7, EvInvSame

(* The INSERT of a number not yet committed is the INSERT of the next one, *)
(* and it has waited for everyone who might hold it.                       *)
LEMMA InsertKeeps ==
    ASSUME EvInv, NEW w \in Writers, Insert(w)
    PROVE  EvInv'
<1>1. EvidenceTypeOK /\ RowsInv /\ Count \in Nat /\ Seqs = 1..Count
  BY MaxSeqIsCount DEF EvInv, RowsInv, EvidenceInv
<1>2. /\ writer[w].pc = "insert"
      /\ \A v \in Writers : ~(writer[v].pc = "commit" /\ writer[v].seq = writer[w].seq)
      /\ UNCHANGED <<rows, cursor, shown>>
  BY DEF Insert
<1>3. CASE Skip(w)
  BY <1>2, <1>3, SkipKeeps
<1>4. CASE writer[w].seq \notin Seqs /\ writer' = [writer EXCEPT ![w].pc = "commit"] /\ skipped' = skipped
  <2>1. writer[w].seq = Count + 1
    BY <1>1, <1>2, <1>4 DEF RowsInv, OneCommits
  <2>2. \A v \in Writers : writer[v].pc # "commit"
    BY <1>1, <1>2, <2>1 DEF RowsInv, OneCommits
  <2>3. /\ writer' \in [Writers -> [pc : {"read", "insert", "commit"}, chunk : Nat, seq : Nat]]
        /\ \A v \in Writers : v # w => writer'[v] = writer[v]
        /\ writer'[w].pc = "commit" /\ writer'[w].seq = Count + 1
        /\ writer'[w].chunk = writer[w].chunk
    BY <1>1, <1>4, <2>1 DEF EvidenceTypeOK
  <2>4. EvidenceTypeOK'
    BY <1>1, <1>2, <1>4, <2>3 DEF EvidenceTypeOK
  <2>5. Count' = Count
    BY <1>2 DEF Count
  <2>6. OneCommits'
    BY <1>1, <2>2, <2>3, <2>5 DEF RowsInv, OneCommits
  <2>7. StreamsAhead'
    BY <1>1, <1>2, <2>3 DEF RowsInv, StreamsAhead, EvidenceTypeOK
  <2> QED
    BY <1>2, <2>4, <2>6, <2>7, EvInvSame
<1> QED
  BY <1>3, <1>4 DEF Insert

(* A committed entry is the last of the log and of its stream, and beyond    *)
(* every cursor.                                                           *)
LEMMA CommitKeeps ==
    ASSUME EvInv, NEW w \in Writers, writer[w].pc = "commit",
           rows' = rows \cup {AppendedRow(w)}, ReadOn(w), UNCHANGED <<cursor, shown>>,
           skipped' \subseteq Writers \X Nat
    PROVE  EvInv'
<1>1. EvidenceTypeOK /\ RowsInv /\ Count \in Nat /\ Seqs = 1..Count
  BY MaxSeqIsCount DEF EvInv, RowsInv, EvidenceInv
<1>2. /\ writer' \in [Writers -> [pc : {"read", "insert", "commit"}, chunk : Nat, seq : Nat]]
      /\ \A v \in Writers : v # w => writer'[v] = writer[v]
      /\ writer'[w].pc = "read" /\ writer'[w].chunk = writer[w].chunk + 1
      /\ writer[w].chunk \in Nat
  BY <1>1, ReadsOn
<1>3. PICK new \in EvidenceRow : /\ new = AppendedRow(w) /\ new.seq = Count + 1
                                 /\ new.stream = w /\ new.chunk = writer[w].chunk
  <2>1. writer[w].seq = Count + 1
    BY <1>1 DEF RowsInv, OneCommits
  <2>2. Count + 1 \in Nat /\ writer[w].chunk \in Nat
    BY <1>1, <1>2
  <2>3. AppendedRow(w) = [seq |-> Count + 1, stream |-> w, chunk |-> writer[w].chunk]
    BY <2>1 DEF AppendedRow
  <2>4. AppendedRow(w) \in EvidenceRow
    BY <2>2, <2>3 DEF EvidenceRow
  <2> QED
    BY <2>3, <2>4
<1>4. rows' = rows \cup {new}
  BY <1>3
<1>5. \A x \in rows : x \in EvidenceRow /\ x.seq \in 1..Count
  BY <1>1 DEF EvidenceTypeOK, EvidenceRow, Seqs
<1>6. new \notin rows
  BY <1>1, <1>3, <1>5
<1>7. IsFiniteSet(rows') /\ Count' = Count + 1
  BY <1>1, <1>4, <1>6, FS_AddElement DEF RowsInv, Count
<1>8. Seqs' = 1..Count'
  BY <1>1, <1>3, <1>4, <1>7 DEF Seqs
<1>9. SeqsUnique'
  BY <1>1, <1>3, <1>4, <1>5 DEF RowsInv, SeqsUnique
<1>10. StreamsInOrder'
  <2>1. \A x \in rows : x.stream = w => x.chunk < new.chunk
    BY <1>1, <1>3 DEF RowsInv, StreamsAhead
  <2>2. \A x \in rows : x.seq < Count + 1 /\ ~(Count + 1 < x.seq)
    BY <1>1, <1>5
  <2>3. ~(Count + 1 < Count + 1)
    BY <1>1
  <2> QED
    BY <1>1, <1>3, <1>4, <2>1, <2>2, <2>3 DEF RowsInv, EvidenceInv, StreamsInOrder
<1>11. EvidenceTypeOK'
  BY <1>1, <1>2, <1>3, <1>4 DEF EvidenceTypeOK, EvidenceRow
<1>12. OneCommits'
  <2>1. \A v \in Writers : writer'[v].pc # "commit"
    BY <1>1, <1>2 DEF RowsInv, OneCommits
  <2>2. \A v \in Writers : writer'[v].pc = "insert" => v # w /\ writer'[v].seq \in 1..(Count + 1)
    BY <1>1, <1>2 DEF RowsInv, OneCommits
  <2>3. \A i \in 1..(Count + 1) : i \in 1..(Count' + 1)
    BY <1>1, <1>7
  <2> QED
    BY <2>1, <2>2, <2>3 DEF OneCommits
<1>13. StreamsAhead'
  <2>1. \A x \in rows : x.chunk \in Nat /\ x.stream \in Writers
    BY <1>5 DEF EvidenceRow
  <2>2. \A x \in rows : x.chunk < writer[x.stream].chunk
    BY <1>1 DEF RowsInv, StreamsAhead
  <2>3. \A x \in rows : x.chunk < writer'[x.stream].chunk
    BY <1>2, <2>1, <2>2
  <2>4. new.chunk < writer'[new.stream].chunk
    BY <1>2, <1>3
  <2> QED
    BY <1>4, <2>3, <2>4 DEF StreamsAhead
<1>14. ReaderFits' /\ ReaderMissesNothing'
  <2>1. cursor <= Count /\ cursor \in Nat
    BY <1>1 DEF EvInv, ReaderFits, EvidenceTypeOK
  <2>2. ~(Count + 1 <= cursor) /\ cursor <= Count + 1
    BY <1>1, <2>1
  <2>3. {entry \in rows' : entry.seq <= cursor} = {entry \in rows : entry.seq <= cursor}
    BY <1>3, <1>4, <2>2
  <2> QED
    BY <1>7, <2>2, <2>3 DEF EvInv, ReaderFits, ReaderMissesNothing
<1> QED
  BY <1>7, <1>8, <1>9, <1>10, <1>11, <1>12, <1>13, <1>14
     DEF EvInv, RowsInv, EvidenceInv, SeqsContiguous, Count

(* A failed append either skipped its chunk or skipped it although it is   *)
(* in the log.                                                             *)
LEMMA FailsKeeps ==
    ASSUME EvInv, NEW w \in Writers, Fails(w)
    PROVE  EvInv'
<1>1. EvidenceTypeOK /\ writer[w].chunk \in Nat
  BY DEF EvInv, RowsInv, EvidenceInv, EvidenceTypeOK
<1>2. Skip(w) /\ ReadOn(w) /\ UNCHANGED <<cursor, shown>>
  BY DEF Fails, Skip
<1>3. skipped' \subseteq Writers \X Nat
  BY <1>1 DEF Fails, Skip, EvidenceTypeOK
<1>4. CASE rows' = rows
  BY <1>2, <1>4, SkipKeeps
<1>5. CASE writer[w].pc = "commit" /\ rows' = rows \cup {AppendedRow(w)}
  BY <1>2, <1>3, <1>5, CommitKeeps
<1> QED
  BY <1>4, <1>5 DEF Fails

(* Between two numbers of the log there are as many rows as numbers.       *)
LEMMA PageSize ==
    ASSUME RowsInv, NEW c \in Nat, NEW s \in Nat, c <= s, s <= Count
    PROVE  /\ IsFiniteSet({x \in rows : c < x.seq /\ x.seq <= s})
           /\ Cardinality({x \in rows : c < x.seq /\ x.seq <= s}) = s - c
<1> DEFINE P == {x \in rows : c < x.seq /\ x.seq <= s}
           f == [x \in P |-> x.seq]
<1>1. Count \in Nat /\ Seqs = 1..Count
  BY MaxSeqIsCount
<1>2. IsFiniteSet(P)
  BY FS_Subset DEF RowsInv
<1>3. \A x \in P : x.seq \in (c + 1)..s
  BY <1>1 DEF Seqs
<1>4. \A x, y \in P : x.seq = y.seq => x = y
  BY DEF RowsInv, SeqsUnique
<1>5. \A i \in (c + 1)..s : \E x \in P : x.seq = i
  <2> SUFFICES ASSUME NEW i \in (c + 1)..s PROVE \E x \in P : x.seq = i
    OBVIOUS
  <2>1. i \in 1..Count /\ c < i /\ i <= s
    BY <1>1
  <2>2. PICK x \in rows : x.seq = i
    BY <1>1, <2>1 DEF Seqs
  <2> QED
    BY <2>1, <2>2
<1> HIDE DEF P
<1>6. f \in Bijection(P, (c + 1)..s)
  <2>1. f \in [P -> (c + 1)..s]
    BY <1>3
  <2>2. f \in Injection(P, (c + 1)..s)
    BY <1>4, <2>1 DEF Injection, IsInjective
  <2>3. f \in Surjection(P, (c + 1)..s)
    BY <1>5, <2>1 DEF Surjection
  <2> QED
    BY <2>2, <2>3 DEF Bijection
<1>7. Cardinality((c + 1)..s) = Cardinality(P)
  BY <1>2, <1>6, FS_Bijection DEF ExistsBijection
<1>8. Cardinality((c + 1)..s) = s - c
  <2>1. c + 1 \in Int /\ s \in Int
    OBVIOUS
  <2>2. Cardinality((c + 1)..s) = IF c + 1 > s THEN 0 ELSE s - (c + 1) + 1
    BY <2>1, FS_Interval
  <2> QED
    BY <2>2
<1> QED
  BY <1>2, <1>7, <1>8 DEF P

(* The page beyond a cursor holds the rows beyond it, each once, in the    *)
(* order of their numbers.                                                 *)
LEMMA PageInOrder ==
    ASSUME RowsInv, NEW c \in Nat, c <= Count, NEW new, new = {entry \in rows : entry.seq > c}
    PROVE  /\ InOrder(new) \in Seq(EvidenceRow)
           /\ Len(InOrder(new)) = Count - c
           /\ ToSet(InOrder(new)) = new
           /\ \A i \in 1..(Count - c) : InOrder(new)[i].seq = c + i
<1>1. Count \in Nat /\ Seqs = 1..Count /\ rows \subseteq EvidenceRow
  BY MaxSeqIsCount DEF RowsInv, EvidenceInv, EvidenceTypeOK, EvidenceRow
<1>2. \A x \in rows : x.seq \in 1..Count
  BY <1>1 DEF Seqs
<1>3. Cardinality(new) = Count - c
  <2>1. new = {x \in rows : c < x.seq /\ x.seq <= Count}
    BY <1>1, <1>2
  <2>2. Count <= Count
    BY <1>1
  <2> QED
    BY <1>1, <2>1, <2>2, PageSize
<1>4. \A entry \in new : Cardinality({x \in new : x.seq <= entry.seq}) = entry.seq - c
  <2> SUFFICES ASSUME NEW entry \in new
               PROVE  Cardinality({x \in new : x.seq <= entry.seq}) = entry.seq - c
    OBVIOUS
  <2>1. entry.seq \in Nat /\ c <= entry.seq /\ entry.seq <= Count
    BY <1>1, <1>2
  <2>2. {x \in new : x.seq <= entry.seq} = {x \in rows : c < x.seq /\ x.seq <= entry.seq}
    BY <1>2, <2>1
  <2> QED
    BY <2>1, <2>2, PageSize
<1>5. \A i \in 1..(Count - c) : \E entry \in new : entry.seq = c + i
  <2> SUFFICES ASSUME NEW i \in 1..(Count - c) PROVE \E entry \in new : entry.seq = c + i
    OBVIOUS
  <2>1. c + i \in 1..Count /\ c + i > c
    BY <1>1
  <2>2. PICK x \in rows : x.seq = c + i
    BY <1>1, <2>1 DEF Seqs
  <2> QED
    BY <2>1, <2>2
<1> DEFINE page == InOrder(new)
           Place(i) == CHOOSE entry \in new : Cardinality({x \in new : x.seq <= entry.seq}) = i
<1>6. page = [i \in 1..(Count - c) |-> Place(i)]
  BY <1>3 DEF InOrder
<1>7. \A i \in 1..(Count - c) : Place(i) \in new /\ Place(i).seq = c + i
  <2> SUFFICES ASSUME NEW i \in 1..(Count - c) PROVE Place(i) \in new /\ Place(i).seq = c + i
    OBVIOUS
  <2>1. PICK entry \in new : entry.seq = c + i
    BY <1>5
  <2>2. Cardinality({x \in new : x.seq <= entry.seq}) = i
    BY <1>1, <1>4, <2>1
  <2>3. Place(i) \in new /\ Cardinality({x \in new : x.seq <= Place(i).seq}) = i
    BY <2>2
  <2>4. Place(i).seq - c = i
    BY <1>4, <2>3
  <2>5. Place(i).seq \in Nat
    BY <1>2, <2>3
  <2> QED
    BY <2>3, <2>4, <2>5
<1> HIDE DEF Place
<1>8. \A i \in 1..(Count - c) : page[i] \in new /\ page[i].seq = c + i
  BY <1>6, <1>7
<1>9. page \in Seq(EvidenceRow) /\ Len(page) = Count - c
  <2>1. Count - c \in Nat /\ new \subseteq EvidenceRow
    BY <1>1
  <2>2. page \in [1..(Count - c) -> EvidenceRow]
    BY <1>6, <1>7, <2>1
  <2> HIDE DEF page
  <2> QED
    BY <2>1, <2>2
<1>10. ToSet(page) = new
  <2>1. DOMAIN page = 1..(Count - c)
    BY <1>6
  <2>2. ASSUME NEW entry \in new PROVE \E i \in DOMAIN page : page[i] = entry
    <3>1. entry.seq \in 1..Count /\ entry.seq > c /\ entry \in rows
      BY <1>2
    <3>2. entry.seq - c \in 1..(Count - c) /\ c + (entry.seq - c) = entry.seq
      BY <1>1, <3>1
    <3>3. page[entry.seq - c] \in rows /\ page[entry.seq - c].seq = entry.seq
      BY <1>8, <3>2
    <3>4. page[entry.seq - c] = entry
      BY <3>1, <3>3 DEF RowsInv, SeqsUnique
    <3> QED
      BY <2>1, <3>2, <3>4
  <2>3. \A i \in DOMAIN page : page[i] \in new
    BY <1>8, <2>1
  <2> HIDE DEF page
  <2> QED
    BY <2>2, <2>3 DEF ToSet
<1> QED
  BY <1>8, <1>9, <1>10

(* A page appended to what the reader has shows what either holds.         *)
LEMMA ShownGrows ==
    ASSUME NEW s \in Seq(EvidenceRow), NEW t \in Seq(EvidenceRow)
    PROVE  /\ s \o t \in Seq(EvidenceRow)
           /\ Len(s \o t) = Len(s) + Len(t)
           /\ ToSet(s \o t) = ToSet(s) \cup ToSet(t)
<1>1. s \o t \in Seq(EvidenceRow) /\ Len(s \o t) = Len(s) + Len(t)
  OBVIOUS
<1>2. /\ DOMAIN s = 1..Len(s) /\ DOMAIN t = 1..Len(t)
      /\ DOMAIN (s \o t) = 1..(Len(s) + Len(t))
      /\ Len(s) \in Nat /\ Len(t) \in Nat
  OBVIOUS
<1>3. \A i \in 1..(Len(s) + Len(t)) :
         (s \o t)[i] = IF i <= Len(s) THEN s[i] ELSE t[i - Len(s)]
  OBVIOUS
<1>4. ASSUME NEW x \in ToSet(s \o t) PROVE x \in ToSet(s) \cup ToSet(t)
  <2>1. PICK i \in 1..(Len(s) + Len(t)) : x = (s \o t)[i]
    BY <1>2 DEF ToSet
  <2>2. CASE i <= Len(s)
    <3>1. i \in DOMAIN s /\ x = s[i]
      BY <1>2, <1>3, <2>1, <2>2
    <3> QED
      BY <3>1 DEF ToSet
  <2>3. CASE ~(i <= Len(s))
    <3>1. i - Len(s) \in DOMAIN t /\ x = t[i - Len(s)]
      BY <1>2, <1>3, <2>1, <2>3
    <3> QED
      BY <3>1 DEF ToSet
  <2> QED
    BY <2>2, <2>3
<1>5. ASSUME NEW x \in ToSet(s) PROVE x \in ToSet(s \o t)
  <2>1. PICK i \in 1..Len(s) : x = s[i]
    BY <1>2 DEF ToSet
  <2>2. i \in DOMAIN (s \o t) /\ x = (s \o t)[i]
    BY <1>2, <1>3, <2>1
  <2> QED
    BY <2>2 DEF ToSet
<1>6. ASSUME NEW x \in ToSet(t) PROVE x \in ToSet(s \o t)
  <2>1. PICK i \in 1..Len(t) : x = t[i]
    BY <1>2 DEF ToSet
  <2>2. /\ Len(s) + i \in 1..(Len(s) + Len(t)) /\ ~(Len(s) + i <= Len(s))
        /\ Len(s) + i - Len(s) = i
    BY <1>2
  <2>3. Len(s) + i \in DOMAIN (s \o t) /\ x = (s \o t)[Len(s) + i]
    BY <1>2, <1>3, <2>1, <2>2
  <2> QED
    BY <2>3 DEF ToSet
<1> QED
  BY <1>1, <1>4, <1>5, <1>6

(* The page brings the reader to the end of the log.                       *)
LEMMA PollKeeps ==
    ASSUME EvInv, Poll
    PROVE  EvInv'
<1> DEFINE new == {entry \in rows : entry.seq > cursor}
           old == {entry \in rows : entry.seq <= cursor}
<1>1. /\ RowsInv /\ Count \in Nat /\ Seqs = 1..Count /\ MaxSeq = Count
      /\ cursor \in Nat /\ cursor <= Count /\ shown \in Seq(EvidenceRow)
      /\ ToSet(shown) = old /\ Len(shown) = cursor
  BY MaxSeqIsCount DEF EvInv, RowsInv, EvidenceInv, EvidenceTypeOK, ReaderFits, ReaderMissesNothing
<1>2. /\ shown' = shown \o InOrder(new) /\ cursor' = Count
      /\ UNCHANGED <<rows, writer, skipped>>
  BY <1>1 DEF Poll
<1>3. InOrder(new) \in Seq(EvidenceRow) /\ Len(InOrder(new)) = Count - cursor /\ ToSet(InOrder(new)) = new
  BY <1>1, PageInOrder
<1>4. \A x \in rows : x.seq \in 1..Count
  BY <1>1 DEF Seqs
<1>5. {entry \in rows : entry.seq <= Count} = old \cup new
  BY <1>1, <1>4
<1> HIDE DEF new, old
<1>6. shown' \in Seq(EvidenceRow) /\ Len(shown') = Count /\ ToSet(shown') = old \cup new
  <2>1. /\ shown \o InOrder(new) \in Seq(EvidenceRow)
        /\ Len(shown \o InOrder(new)) = Len(shown) + Len(InOrder(new))
        /\ ToSet(shown \o InOrder(new)) = ToSet(shown) \cup ToSet(InOrder(new))
    BY <1>1, <1>3, ShownGrows
  <2> QED
    BY <1>1, <1>2, <1>3, <2>1
<1>7. ReaderMissesNothing'
  BY <1>2, <1>5, <1>6 DEF ReaderMissesNothing
<1>8. ReaderFits'
  BY <1>1, <1>2, <1>6 DEF ReaderFits, Count
<1>9. RowsInv'
  BY <1>1, <1>2 DEF RowsInv, EvidenceInv, EvidenceTypeOK, SeqsContiguous, StreamsInOrder, SeqsUnique,
                    OneCommits, StreamsAhead, Seqs, Count
<1> QED
  BY <1>7, <1>8, <1>9 DEF EvInv

(* Every step of the writers and of the reader keeps the invariant.        *)
LEMMA EvInvNext == EvInv /\ [EvidenceNext]_evidenceVars => EvInv'
<1> SUFFICES ASSUME EvInv, [EvidenceNext]_evidenceVars PROVE EvInv'
  OBVIOUS
<1>1. ASSUME NEW w \in Writers, Allocate(w) PROVE EvInv'
  BY <1>1, AllocateKeeps
<1>2. ASSUME NEW w \in Writers, Insert(w) PROVE EvInv'
  BY <1>2, InsertKeeps
<1>3. ASSUME NEW w \in Writers, Commit(w) PROVE EvInv'
  <2>1. skipped' \subseteq Writers \X Nat
    BY <1>3 DEF Commit, EvInv, RowsInv, EvidenceInv, EvidenceTypeOK
  <2> QED
    BY <1>3, <2>1, CommitKeeps DEF Commit
<1>4. ASSUME NEW w \in Writers, Fails(w) PROVE EvInv'
  BY <1>4, FailsKeeps
<1>5. CASE Poll
  BY <1>5, PollKeeps
<1>6. CASE UNCHANGED evidenceVars
  BY <1>6 DEF evidenceVars, EvInv, RowsInv, EvidenceInv, EvidenceTypeOK, SeqsContiguous, StreamsInOrder,
              SeqsUnique, OneCommits, StreamsAhead, Seqs, Count, ReaderFits, ReaderMissesNothing
<1> QED
  BY <1>1, <1>2, <1>3, <1>4, <1>5, <1>6 DEF EvidenceNext

(* The log of a run is numbered without gap or repeat and keeps each       *)
(* stream's chunks in order and once, however the appends of append() race *)
(* over MAX(seq) + 1, are rolled back, or commit with their answer skipped.   *)
THEOREM EvidenceInvariant == EvidenceSpec => []EvidenceInv
<1>1. EvInv => EvidenceInv
  BY DEF EvInv, RowsInv
<1> QED
  BY <1>1, EvInvInit, EvInvNext, PTL DEF EvidenceSpec

(* A reader that pages with list_after by its highest seq has received,    *)
(* once each, exactly the rows committed up to it: none is ever committed  *)
(* behind its cursor.                                                      *)
THEOREM ReaderSeesAll == EvidenceSpec => []ReaderMissesNothing
<1>1. EvInv => ReaderMissesNothing
  BY DEF EvInv
<1> QED
  BY <1>1, EvInvInit, EvInvNext, PTL DEF EvidenceSpec

=============================================================================
