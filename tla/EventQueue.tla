----------------------------- MODULE EventQueue -----------------------------
(***************************************************************************)
(* The per-channel event queue of the agent harness (buzz-acp/src/queue.rs)*)
(* as operators on its struct: one operator per method, so that a handler  *)
(* of the main loop is the composition of the calls it makes.  Events are  *)
(* numbered in the order they are received; CreatedAt is the time their    *)
(* author stamped on them, which a replay delivers in any order.  An       *)
(* Instant is abstracted to what a method tells apart: a retry_after that  *)
(* lies ahead is "active", one that has passed is "past"; an in-flight     *)
(* deadline is "armed" and then "due".  The framing of a merged prompt     *)
(* (cancel_reasons) is wording and left out.                               *)
(***************************************************************************)
EXTENDS Naturals, Sequences, FiniteSets, Functions, FiniteSetsExt, SequencesExt

CONSTANTS
    Channels,
    Events,        \* 1..n, by received_at
    CreatedAt,     \* [Events -> Nat]
    MaxPending,    \* MAX_PENDING_PER_CHANNEL
    MaxBatch,      \* MAX_BATCH_EVENTS
    MaxRetries     \* MAX_RETRIES

ASSUME QueueAssumption ==
    /\ Events \subseteq Nat
    /\ CreatedAt \in [Events -> Nat]
    /\ MaxPending \in Nat \ {0}
    /\ MaxBatch \in Nat \ {0}
    /\ MaxRetries \in Nat

EventSeqs == Seq(Events)

QueueType ==
    [queues: [Channels -> EventSeqs],
     inFlight: [Channels -> {"no", "armed", "due"}],
     retryAfter: [Channels -> {"none", "active", "past"}],
     retryCounts: [Channels -> 0..MaxRetries],
     cancelled: [Channels -> EventSeqs],      \* cancelled_batches
     withheld: [Channels -> EventSeqs]]       \* withheld_native_steer

NewQueue ==
    [queues |-> [c \in Channels |-> <<>>],
     inFlight |-> [c \in Channels |-> "no"],
     retryAfter |-> [c \in Channels |-> "none"],
     retryCounts |-> [c \in Channels |-> 0],
     cancelled |-> [c \in Channels |-> <<>>],
     withheld |-> [c \in Channels |-> <<>>]]

(* The elements of s at the indices K, in the order `before` puts them.    *)
Rank(K, before, k) == Cardinality({j \in K : j = k \/ <<j, k>> \in before})
Arranged(s, K, before) ==
    [i \in 1..Cardinality(K) |-> s[CHOOSE k \in K : Rank(K, before, k) = i]]

(* A retain: s without e, in the order it had.                             *)
Without(s, e) ==
    LET K == {k \in DOMAIN s : s[k] # e}
    IN Arranged(s, K, {p \in K \X K : p[1] < p[2]})

(* events.sort_by_key(created_at), which is stable.                        *)
ByCreation(s) ==
    LET K == DOMAIN s
        Created(k) == CreatedAt[s[k]]
    IN Arranged(s, K, {p \in K \X K : \/ Created(p[1]) < Created(p[2])
                                      \/ Created(p[1]) = Created(p[2]) /\ p[1] < p[2]})

(* What every push_front does about the cap: the back of the queue goes.   *)
Capped(s) == SubSeq(s, 1, Min({Len(s), MaxPending}))
Overflow(s) == ToSet(SubSeq(s, MaxPending + 1, Len(s)))

(* push, for an event that is not refused: at the cap the oldest goes.     *)
PushDrops(q, c) == IF Len(q.queues[c]) >= MaxPending THEN {Head(q.queues[c])} ELSE {}
Push(q, c, e) ==
    [q EXCEPT !.queues[c] = Append(IF Len(@) >= MaxPending THEN Tail(@) ELSE @, e)]

(* The expiry block at the head of flush_next and has_flushable_work, with *)
(* recover_withheld_for_expired_channel.                                   *)
Expired(q) == {c \in Channels : q.inFlight[c] = "due"}
ExpireDrops(q) == UNION {Overflow(q.withheld[c] \o q.queues[c]) : c \in Expired(q)}
Expire(q) ==
    [q EXCEPT
        !.inFlight = [c \in Channels |-> IF c \in Expired(q) THEN "no" ELSE @[c]],
        !.queues = [c \in Channels |->
            IF c \in Expired(q) THEN Capped(q.withheld[c] \o @[c]) ELSE @[c]],
        !.withheld = [c \in Channels |-> IF c \in Expired(q) THEN <<>> ELSE @[c]]]

(* Channels with something pending that neither a turn nor a throttle holds.*)
Flushable(q) == {c \in Channels :
    /\ q.queues[c] # <<>>
    /\ q.inFlight[c] = "no"
    /\ q.retryAfter[c] # "active"}

CancelledWaiting(q) == {c \in Channels : q.cancelled[c] # <<>> /\ q.inFlight[c] = "no"}

(* has_flushable_work, after its expiry block.                             *)
HasFlushableWork(q) == Flushable(q) # {} \/ CancelledWaiting(q) # {}

(* has_undispatched_work: also what a throttle or a pending steer holds    *)
(* back.                                                                   *)
HasUndispatchedWork(q) ==
    \E c \in Channels :
        /\ q.inFlight[c] = "no"
        /\ q.queues[c] # <<>> \/ q.cancelled[c] # <<>> \/ q.withheld[c] # <<>>

(* flush_next after its expiry block, as the set of answers it may give:   *)
(* the ready channel with the oldest head, or, when there is none, a       *)
(* channel whose cancelled batch waits (HashMap order: any).               *)
FlushNext(q) ==
    LET Oldest == {c \in Flushable(q) :
                     \A d \in Flushable(q) : Head(q.queues[c]) <= Head(q.queues[d])}
        Taken(c) == Min({MaxBatch, Len(q.queues[c])})
        Queued(c) ==
            [batch |-> [chan |-> c,
                        events |-> ByCreation(SubSeq(q.queues[c], 1, Taken(c))),
                        cancelled |-> q.cancelled[c]],
             rest |-> [q EXCEPT !.queues[c] = SubSeq(@, Taken(c) + 1, Len(@)),
                                !.inFlight[c] = "armed",
                                !.cancelled[c] = <<>>]]
        Again(c) ==
            [batch |-> [chan |-> c, events |-> q.cancelled[c], cancelled |-> <<>>],
             rest |-> [q EXCEPT !.inFlight[c] = "armed", !.cancelled[c] = <<>>]]
    IN IF Flushable(q) # {} THEN {Queued(c) : c \in Oldest}
                            ELSE {Again(c) : c \in CancelledWaiting(q)}

(* mark_complete: a channel without an active throttle starts afresh.      *)
MarkComplete(q, c) ==
    LET throttled == q.retryAfter[c] = "active" IN
    [q EXCEPT !.inFlight[c] = "no",
              !.retryAfter[c] = IF throttled THEN @ ELSE "none",
              !.retryCounts[c] = IF throttled THEN @ ELSE 0]

(* requeue: a counted failure.  The last one allowed dead-letters the      *)
(* batch; before that its events (not its cancelled ones) go back in front.*)
Exhausts(q, b) == q.retryCounts[b.chan] + 1 > MaxRetries
Requeue(q, b) ==
    IF Exhausts(q, b)
    THEN [q EXCEPT !.retryCounts[b.chan] = 0, !.retryAfter[b.chan] = "none"]
    ELSE [q EXCEPT !.retryCounts[b.chan] = @ + 1,
                   !.retryAfter[b.chan] = "active",
                   !.queues[b.chan] = Capped(b.events \o @)]

(* requeue_preserve_timestamps: no agent was free.                         *)
RequeuePreserve(q, b) == [q EXCEPT !.queues[b.chan] = Capped(b.events \o @)]
RequeueDrops(q, b) == Overflow(b.events \o q.queues[b.chan])

(* requeue_as_cancelled.                                                   *)
RequeueAsCancelled(q, b) ==
    [q EXCEPT !.cancelled[b.chan] = @ \o b.cancelled \o b.events]

(* mark_native_steer_pending, release_native_steer and remove_event.       *)
Withhold(q, c, e) ==
    IF e \in ToSet(q.queues[c])
    THEN [q EXCEPT !.queues[c] = Without(@, e), !.withheld[c] = Append(@, e)]
    ELSE q
ReleaseDrops(q, c, e) ==
    IF e \in ToSet(q.withheld[c]) THEN Overflow(<<e>> \o q.queues[c]) ELSE {}
(* Mutant: whatever became of the withheld event, it is queued.            *)
ReleaseAlways(q, c, e) ==
    [q EXCEPT !.withheld[c] = Without(@, e), !.queues[c] = Capped(<<e>> \o @)]
Release(q, c, e) ==
    IF e \in ToSet(q.withheld[c])
    THEN [q EXCEPT !.withheld[c] = Without(@, e), !.queues[c] = Capped(<<e>> \o @)]
    ELSE q
RemoveEvent(q, c, e) ==
    [q EXCEPT !.withheld[c] = Without(@, e), !.queues[c] = Without(@, e)]

(* extend_in_flight_deadline: only a channel still in flight has one.      *)
ExtendDeadline(q, c) ==
    [q EXCEPT !.inFlight[c] = IF @ = "no" THEN @ ELSE "armed"]

(* drain_channel keeps the in-flight entries.                              *)
DrainChannel(q, c) ==
    [q EXCEPT !.queues[c] = <<>>, !.retryAfter[c] = "none", !.retryCounts[c] = 0,
              !.cancelled[c] = <<>>, !.withheld[c] = <<>>]

(* compact_expired_state.                                                  *)
Compact(q) ==
    [q EXCEPT
        !.retryAfter = [c \in Channels |-> IF @[c] = "past" THEN "none" ELSE @[c]],
        !.retryCounts = [c \in Channels |->
            IF q.retryAfter[c] = "active" \/ q.queues[c] # <<>> \/ q.inFlight[c] # "no"
            THEN @[c] ELSE 0]]

(* The events the queue holds for a channel.                               *)
QueueHolds(q, c) == ToSet(q.queues[c]) \cup ToSet(q.cancelled[c]) \cup ToSet(q.withheld[c])
=============================================================================
