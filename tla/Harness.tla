------------------------------ MODULE Harness -------------------------------
(***************************************************************************)
(* The agent harness (buzz-acp): one main loop (lib.rs) that owns the      *)
(* EventQueue, the slots of the AgentPool and the circuit breakers, the    *)
(* prompt tasks it spawns (pool.rs), the steer requests into a running     *)
(* turn (acp.rs) and the lazy pool that wakes and sleeps                   *)
(* (pool_lifecycle.rs).                                                    *)
(*                                                                         *)
(* An arm of the loop's select! is one action.  dispatch_pending, which    *)
(* many arms end with, is a phase of its own, one step per batch.  Tasks   *)
(* and clocks step while the loop waits in select!: between two waits the  *)
(* loop reads nothing of theirs, so nothing is lost.  The arms are biased, *)
(* but an earlier arm may become ready after it was polled: any ready arm  *)
(* may be the one that is taken.                                           *)
(***************************************************************************)
EXTENDS EventQueue

CONSTANTS
    Agents,         \* the slots of the pool
    ChannelOf,      \* [Events -> Channels]
    Threshold,      \* CIRCUIT_BREAKER_THRESHOLD
    Handlings,      \* values of multiple_event_handling explored
    Dedups,         \* values of dedup_mode explored
    Leavable,       \* channels the agent may be removed from
    MaxFaults,      \* bound on the turns that end badly or by the owner's hand
    NoEvent, NoTask, Heartbeat

(* A turn in progress, or ended and not yet handled: what becomes of its   *)
(* batch and of its agent.                                                 *)
End(batch, agent) == [batch |-> batch, agent |-> agent]
Ends == [batch: {"none", "dead", "retry", "cancelled"}, agent: {"back", "crash"}]
Going == End("open", "busy")
TaskType ==
    [chan: Channels \cup {Heartbeat}, events: EventSeqs, cancelled: EventSeqs,
     control: {"unset", "requeue", "discard"},
     inbox: Events \cup {NoEvent}, wire: Events \cup {NoEvent},
     end: {Going} \cup Ends]

ASSUME HarnessAssumption ==
    /\ ChannelOf \in [Events -> Channels]
    /\ Threshold \in Nat \ {0}
    /\ Handlings \subseteq {"steer", "owner-interrupt"}
    /\ Dedups \subseteq {"queue", "drop"}
    /\ Leavable \subseteq Channels
    /\ MaxFaults \in Nat
    /\ NoEvent \notin Events /\ Heartbeat \notin Channels /\ NoTask \notin TaskType

VARIABLES
    handling, dedup,      \* configuration, fixed at the start
    q,                    \* the EventQueue
    idle,                 \* slots that hold an idle agent
    task,                 \* [Agents -> turn in progress]: JoinSet and task_map
    circuit,              \* [Agents -> SlotCircuit]
    acks,                 \* steer_ack_rx
    removed,              \* removed_channels
    poolReady, life,      \* pool_ready and PoolLifecycle
    wakePending,          \* lazy_wake_work_pending
    pc, ret,              \* where the main loop is; where dispatch returns
    accepted, resolved,   \* history: events taken in; events with a final fate
    merged,               \* history: events re-prompted as cancelled_events
    strikes,              \* history: counted failures in a row
    expired,              \* history: channels released by the deadline
    faults                \* what MaxFaults bounds

config == <<handling, dedup>>
pool == <<idle, task, circuit>>
lifecycle == <<poolReady, life, wakePending>>
history == <<accepted, resolved, merged, strikes, expired, faults>>
vars == <<config, q, pool, acks, removed, lifecycle, pc, ret, history>>

Turn(chan, events, cancelled) ==
    [chan |-> chan, events |-> events, cancelled |-> cancelled,
     control |-> "unset", inbox |-> NoEvent, wire |-> NoEvent, end |-> Going]
TasksOf(c) == {a \in Agents : task[a] # NoTask /\ task[a].chan = c}
Running(a) == task[a] # NoTask /\ task[a].end = Going
Batch(t) == [chan |-> t.chan, events |-> t.events, cancelled |-> t.cancelled]
HeartbeatInFlight == TasksOf(Heartbeat) # {}
RespawnInFlight == \E a \in Agents : circuit[a].respawn # "no"

Init ==
    /\ handling \in Handlings /\ dedup \in Dedups
    /\ q = NewQueue
    /\ idle = {} /\ task = [a \in Agents |-> NoTask]
    /\ circuit = [a \in Agents |-> [crashes |-> 0, open |-> "no", respawn |-> "no"]]
    /\ acks = {} /\ removed = {}
    /\ poolReady = FALSE /\ life = "listening" /\ wakePending = FALSE
    /\ pc = "top" /\ ret = "top"
    /\ accepted = {} /\ resolved = {} /\ merged = {} /\ expired = {}
    /\ strikes = [c \in Channels |-> 0] /\ faults = 0

-----------------------------------------------------------------------------
(* The queue reads the clock: an expired channel is released.              *)
Clocked ==
    /\ expired' = expired \cup Expired(q)
    /\ resolved' = resolved \cup ExpireDrops(q)

(* The top of the loop: a pool that sleeps wakes for flushable work.       *)
StartWake ==
    /\ pc = "top" /\ ~poolReady
    /\ pc' = "collect"
    /\ q' = Expire(q) /\ Clocked
    /\ wakePending' = HasFlushableWork(Expire(q))
    /\ life' = IF wakePending' /\ life \in {"listening", "retry_due"} THEN "waking" ELSE life
    /\ UNCHANGED <<config, pool, acks, removed, poolReady, ret, accepted, merged, strikes,
                   faults>>

(* Mutant: a circuit that opened never closes.                             *)
CanRefillNever(s) == s.open = "no"
(* can_refill: an open circuit must have cooled; its probe is on probation.*)
CanRefill(s) == s.open # "open"
Refilled(s) ==
    [s EXCEPT !.respawn = "running", !.open = "no",
              !.crashes = IF s.open = "cooled" THEN Threshold - 1 ELSE @]

(* slot_alive and respawn_in_flight.                                       *)
EmptySlots == {a \in Agents \ idle : task[a] = NoTask /\ circuit[a].respawn = "no"}

(* The 30-second maintenance, when it is due.                              *)
Maintenance ==
    /\ pc = "top" /\ poolReady
    /\ circuit' = [a \in Agents |->
         IF a \in EmptySlots /\ CanRefill(circuit[a]) THEN Refilled(circuit[a])
                                                      ELSE circuit[a]]
    /\ q' = Expire(Compact(q)) /\ Clocked
    /\ IF HasFlushableWork(Expire(Compact(q)))
       THEN pc' = "dispatch" /\ ret' = "collect"
       ELSE pc' = "collect" /\ UNCHANGED ret
    /\ UNCHANGED <<config, idle, task, acks, removed, lifecycle, accepted, merged,
                   strikes, faults>>

(* Every respawn result that has arrived: an agent for the slot, or, after *)
(* a failed spawn, an open circuit.  A ready pool whose maintenance is not *)
(* due comes here at once.                                                 *)
CollectRespawns ==
    LET ok == {a \in Agents : circuit[a].respawn = "ok"} IN
    /\ pc = "collect" \/ (pc = "top" /\ poolReady)
    /\ wakePending' = (wakePending /\ ~poolReady)
    /\ idle' = idle \cup ok
    /\ circuit' = [a \in Agents |->
         CASE circuit[a].respawn = "ok" -> [circuit[a] EXCEPT !.respawn = "no"]
           [] circuit[a].respawn = "failed" ->
                [crashes |-> 0, open |-> "open", respawn |-> "no"]
           [] OTHER -> circuit[a]]
    /\ IF ok # {} THEN pc' = "dispatch" /\ ret' = "select"
                  ELSE pc' = "select" /\ UNCHANGED ret
    /\ UNCHANGED <<config, q, task, acks, removed, poolReady, life, history>>

-----------------------------------------------------------------------------
(* dispatch_pending: one batch to an idle agent (sessions, which try_claim *)
(* prefers, are not modelled: any idle agent), or, with no agent left, the *)
(* batch back in front and the channel released.                           *)
DispatchBatch ==
    /\ pc = "dispatch"
    /\ Clocked
    /\ \E f \in FlushNext(Expire(q)), a \in idle :
         /\ q' = f.rest
         /\ idle' = idle \ {a}
         /\ task' = [task EXCEPT ![a] = Turn(f.batch.chan, f.batch.events, f.batch.cancelled)]
         /\ merged' = merged \cup ToSet(f.batch.cancelled)
    /\ UNCHANGED <<config, circuit, acks, removed, lifecycle, pc, ret, accepted,
                   strikes, faults>>

(* Mutant: the batch that found no agent is not put back.                  *)
PutBackForgetful(f) ==
    [queue |-> MarkComplete(f.rest, f.batch.chan), batch |-> f.batch, drops |-> {}]
PutBack(f) ==
    [queue |-> MarkComplete(RequeuePreserve(f.rest, f.batch), f.batch.chan),
     batch |-> f.batch,
     drops |-> RequeueDrops(f.rest, f.batch)]

PoolExhausted ==
    /\ pc = "dispatch" /\ idle = {}
    /\ pc' = ret /\ ret' = "top"
    /\ expired' = expired \cup Expired(q)
    /\ \E b \in {PutBack(f) : f \in FlushNext(Expire(q))} :
         /\ q' = b.queue
         /\ merged' = merged \cup ToSet(b.batch.cancelled)
         /\ resolved' = resolved \cup ExpireDrops(q) \cup b.drops
         /\ strikes' = [strikes EXCEPT ![b.batch.chan] = 0]
    /\ UNCHANGED <<config, pool, acks, removed, lifecycle, accepted, faults>>

DispatchDone ==
    /\ pc = "dispatch" /\ FlushNext(Expire(q)) = {}
    /\ pc' = ret /\ ret' = "top"
    /\ q' = Expire(q) /\ Clocked
    /\ UNCHANGED <<config, pool, acks, removed, lifecycle, accepted, merged,
                   strikes, faults>>

(* How an arm ends: with dispatch_pending, or at the top of the loop.      *)
ThenDispatch == pc' = "dispatch" /\ ret' = "top"
ThenTop == pc' = "top" /\ UNCHANGED ret

-----------------------------------------------------------------------------
(* signal_in_flight_task: the oneshot of a task of the channel is used     *)
(* once; a task that has ended no longer reads it.                         *)
Signalled(t, c, signal) ==
    IF TasksOf(c) = {} THEN {t}
    ELSE {IF t[a].control = "unset" /\ t[a].end = Going
          THEN [t EXCEPT ![a].control = signal] ELSE t : a \in TasksOf(c)}

(* Mutant: the event is left where dispatch finds it.                      *)
NativeSteerUnheld(queue, c, e) ==
    {[queue |-> queue, task |-> [task EXCEPT ![a].inbox = e]] :
        a \in {x \in TasksOf(c) : Running(x) /\ task[x].inbox = NoEvent}}
(* try_native_steer, where the running turn's inbox of one takes it.       *)
NativeSteer(queue, c, e) ==
    {[queue |-> Withhold(queue, c, e), task |-> [task EXCEPT ![a].inbox = e]] :
        a \in {x \in TasksOf(c) : Running(x) /\ task[x].inbox = NoEvent}}

(* What the mode gate makes of an event for a channel in flight.  A steer  *)
(* is refused too where the initial message has used up the receiver; an   *)
(* owner's interrupt cancels, any other author's event waits.              *)
MidTurn(queue, c, e) ==
    LET untouched == [queue |-> queue, task |-> task]
        cancel == {[queue |-> queue, task |-> t] : t \in Signalled(task, c, "requeue")}
    IN IF queue.inFlight[c] = "no" THEN {untouched}
       ELSE cancel \cup (IF handling = "steer" THEN NativeSteer(queue, c, e) ELSE {untouched})

(* The relay arm: an event that passed the filters.                        *)
Receive(e) ==
    LET c == ChannelOf[e]
        refused == dedup = "drop" /\ q.inFlight[c] # "no"
    IN /\ pc = "select"
       /\ \A d \in 1..(e - 1) : d \in accepted \cup resolved
       /\ e \notin accepted \cup resolved
       /\ IF refused
          THEN resolved' = resolved \cup {e} /\ UNCHANGED <<q, task, accepted>>
          ELSE /\ accepted' = accepted \cup {e}
               /\ resolved' = resolved \cup PushDrops(q, c)
               /\ \E m \in MidTurn(Push(q, c, e), c, e) : q' = m.queue /\ task' = m.task
       /\ IF poolReady THEN ThenDispatch ELSE ThenTop
       /\ UNCHANGED <<config, idle, circuit, acks, removed, lifecycle, merged, strikes, expired, faults>>

(* !cancel, !rotate and the observer's cancel_turn end the turn and drop   *)
(* its batch; switch_model ends it and re-prompts.                         *)
OwnerControl(c, signal) ==
    /\ pc = "select" /\ faults < MaxFaults
    /\ \E t \in Signalled(task, c, signal) : t # task /\ task' = t
    /\ faults' = faults + 1
    /\ ThenTop
    /\ UNCHANGED <<config, q, idle, circuit, acks, removed, lifecycle, accepted, resolved,
                   merged, strikes, expired>>

MemberRemoved(c) ==
    /\ pc = "select" /\ c \in Leavable \ removed
    /\ removed' = removed \cup {c}
    /\ q' = DrainChannel(q, c)
    /\ resolved' = resolved \cup QueueHolds(q, c)
    /\ strikes' = [strikes EXCEPT ![c] = 0]
    /\ ThenTop
    /\ UNCHANGED <<config, pool, acks, lifecycle, accepted, merged, expired,
                   faults>>

MemberAdded(c) ==
    /\ pc = "select" /\ c \in removed
    /\ removed' = removed \ {c}
    /\ ThenTop
    /\ UNCHANGED <<config, q, pool, acks, lifecycle, history>>
-----------------------------------------------------------------------------
(* SlotCircuit::record_crash, with the respawn task its verdict starts.    *)
(* crash_times is cleared where an open circuit is read next: here when it *)
(* opens.                                                                  *)
RecordCrash(s) ==
    CASE s.open = "cooled" -> Refilled(s)                        \* HalfOpenProbe
      [] s.open = "open" -> s                                    \* CircuitOpen
      [] s.open = "no" /\ s.crashes + 1 >= Threshold ->
            [s EXCEPT !.crashes = 0, !.open = "open"]
      [] OTHER -> [s EXCEPT !.crashes = @ + 1, !.respawn = "running"]

(* The batch is not put back: its turn used it up, or the agent has left   *)
(* the channel.                                                            *)
Over(t) == t.chan \in removed \/ t.end.batch \in {"none", "dead"}

(* Mutant: the channel is completed before its batch is put back.          *)
SettledCompleteFirst(t) ==
    LET c == t.chan
        done == MarkComplete(q, c)
        back == CASE Over(t) -> done
                  [] ~Over(t) /\ t.end.batch = "cancelled" -> RequeueAsCancelled(done, Batch(t))
                  [] OTHER -> Requeue(done, Batch(t))
    IN IF c = Heartbeat THEN q ELSE back

(* What handle_prompt_result and recover_panicked_agent do to the queue:   *)
(* the batch is put back before the channel is released.                   *)
Settled(t) ==
    LET c == t.chan
        back == CASE Over(t) -> q
                  [] ~Over(t) /\ t.end.batch = "cancelled" -> RequeueAsCancelled(q, Batch(t))
                  [] OTHER -> Requeue(q, Batch(t))
    IN IF c = Heartbeat THEN q ELSE MarkComplete(back, c)

(* A counted failure dead-letters the batch where it is not put back.      *)
DeadLettered(t) == ToSet(t.events) \cap ToSet(Settled(t).queues[t.chan]) = {}

(* The events whose fate that settles: answered, discarded by the owner,   *)
(* dead-lettered, dropped with their channel or by the cap.                *)
Fate(t) ==
    LET all == ToSet(t.events) \cup ToSet(t.cancelled) IN
    CASE Over(t) -> all
      [] ~Over(t) /\ t.end.batch = "cancelled" -> {}
      [] OTHER -> IF DeadLettered(t) THEN all ELSE RequeueDrops(q, Batch(t))

(* Failures in a row: a turn that ends any other way, or with the batch    *)
(* dead-lettered, starts the row afresh.                                   *)
Struck(t) ==
    LET row(c) == IF Over(t) \/ t.end.batch # "retry" \/ DeadLettered(t) THEN 0
                  ELSE strikes[c] + 1
    IN [c \in Channels |-> IF c = t.chan THEN row(c) ELSE strikes[c]]

(* The result and panic arms.  A crash may leave nobody to wait for.       *)
HandleResult(a) ==
    LET t == task[a]
        slot == IF t.end.agent = "crash" THEN RecordCrash(circuit[a]) ELSE circuit[a]
    IN /\ pc = "select"
       /\ t # NoTask /\ t.end # Going
       /\ q' = Settled(t)
       /\ resolved' = resolved \cup Fate(t)
       /\ strikes' = Struck(t) /\ merged' = merged \ Fate(t)
       /\ task' = [task EXCEPT ![a] = NoTask]
       /\ circuit' = [circuit EXCEPT ![a] = slot]
       /\ idle' = IF t.end.agent = "back" THEN idle \cup {a} ELSE idle
       /\ IF /\ idle' = {} /\ \A b \in Agents : task'[b] = NoTask
             /\ \A b \in Agents : circuit'[b].respawn = "no"
          THEN pc' = "exited" /\ UNCHANGED ret
          ELSE ThenDispatch
       /\ UNCHANGED <<config, acks, removed, lifecycle, accepted, expired, faults>>

(* The steer-ack arm: a steer that landed takes its event out of the       *)
(* queue, any other puts it back.                                          *)
Acked(k) ==
    LET c == ChannelOf[k.event] IN
    IF k.res = "success" THEN RemoveEvent(ExtendDeadline(q, c), c, k.event)
                         ELSE Release(q, c, k.event)

SteerAck(k) ==
    LET c == ChannelOf[k.event] IN
    /\ pc = "select" /\ k \in acks
    /\ acks' = acks \ {k}
    /\ q' = Acked(k)
    /\ resolved' = resolved \cup (IF k.res = "success" THEN {k.event}
                                  ELSE ReleaseDrops(q, c, k.event))
    /\ task' \in IF k.res = "fallback" THEN Signalled(task, c, "requeue") ELSE {task}
    /\ ThenDispatch
    /\ UNCHANGED <<config, idle, circuit, removed, lifecycle, accepted, merged, strikes, expired, faults>>

(* The wake arm: a pool with at least one agent, or a failure to retry.    *)
WakeSucceeds ==
    /\ pc = "select" /\ life = "waking"
    /\ \E slots \in (SUBSET Agents) \ {{}} : idle' = slots
    /\ poolReady' = TRUE /\ life' = "listening"
    /\ ThenDispatch
    /\ UNCHANGED <<config, q, task, circuit, acks, removed, wakePending, history>>

WakeFails ==
    /\ pc = "select" /\ life = "waking"
    /\ life' = "failed"
    /\ ThenTop
    /\ UNCHANGED <<config, q, pool, acks, removed, poolReady, wakePending, history>>

(* The retry arm, gated on the work the top of the loop saw.               *)
WakeRetry ==
    /\ pc = "select" /\ life = "retry_due" /\ wakePending
    /\ ThenTop
    /\ UNCHANGED <<config, q, pool, acks, removed, lifecycle, history>>

(* Mutant: a respawn in flight does not keep the pool awake.               *)
SleepDueUnguarded ==
    /\ poolReady /\ ~HasUndispatchedWork(q)
    /\ \A a \in Agents : task[a] = NoTask
    /\ \A c \in Channels : q.inFlight[c] = "no"
(* idle_pool_sleep_due, once the inactivity bound has passed.              *)
SleepDue ==
    /\ poolReady /\ ~HasUndispatchedWork(q)
    /\ \A a \in Agents : task[a] = NoTask
    /\ \A c \in Channels : q.inFlight[c] = "no"
    /\ ~RespawnInFlight

IdleSleep ==
    /\ pc = "select" /\ SleepDue
    /\ idle' = {} /\ poolReady' = FALSE /\ life' = "listening"
    /\ ThenTop
    /\ UNCHANGED <<config, q, task, circuit, acks, removed, wakePending, history>>

(* The heartbeat arm: queued work first, then an idle agent is prompted;   *)
(* with none idle, or a heartbeat under way, only the queue read the clock.*)
HeartbeatTick ==
    /\ pc = "select" /\ poolReady
    /\ q' = Expire(q) /\ Clocked
    /\ IF HasFlushableWork(Expire(q))
       THEN ThenDispatch /\ UNCHANGED <<idle, task>>
       ELSE /\ ThenTop
            /\ \/ /\ idle = {} \/ HeartbeatInFlight
                  /\ UNCHANGED <<idle, task>>
               \/ /\ ~HeartbeatInFlight
                  /\ \E a \in idle :
                       /\ idle' = idle \ {a}
                       /\ task' = [task EXCEPT ![a] = Turn(Heartbeat, <<>>, <<>>)]
    /\ UNCHANGED <<config, circuit, acks, removed, lifecycle, accepted, merged, strikes, faults>>

(* The presence and typing timers do nothing but turn the loop round.      *)
TimerTick ==
    /\ pc = "select" /\ ThenTop
    /\ UNCHANGED <<config, q, pool, acks, removed, lifecycle, history>>

-----------------------------------------------------------------------------
(* The turn's read loop: a steer is taken from the inbox and written, or   *)
(* cannot be; its answer comes before the turn ends, or never.             *)
WriteSteer(a) ==
    /\ pc = "select"
    /\ Running(a) /\ task[a].inbox # NoEvent /\ task[a].wire = NoEvent
    /\ \/ /\ task' = [task EXCEPT ![a].inbox = NoEvent, ![a].wire = task[a].inbox]
          /\ UNCHANGED acks
       \/ /\ task' = [task EXCEPT ![a].inbox = NoEvent]
          /\ acks' = acks \cup {[event |-> task[a].inbox, res |-> "fallback"]}
    /\ UNCHANGED <<config, q, idle, circuit, removed, lifecycle, pc, ret, history>>

SteerAnswer(a) ==
    /\ pc = "select"
    /\ Running(a) /\ task[a].wire # NoEvent
    /\ \E res \in {"success", "fallback", "release"} :
         acks' = acks \cup {[event |-> task[a].wire, res |-> res]}
    /\ task' = [task EXCEPT ![a].wire = NoEvent]
    /\ UNCHANGED <<config, q, idle, circuit, removed, lifecycle, pc, ret, history>>

(* How a turn may end, by what becomes of its batch and of its agent.      *)
(* A control signal that is read in time adds its own endings; one that    *)
(* comes too late, or before the prompt is sent, does not exclude the      *)
(* others.  Drop mode never hands a batch back.                            *)
Endings(t) ==
    IF t.chan = Heartbeat \/ dedup = "drop" THEN {End("none", "back"), End("none", "crash")}
    ELSE {End("none", "back"), End("retry", "back"), End("retry", "crash"),
          End("dead", "back"), End("dead", "crash")}
         \cup (CASE t.control = "requeue" -> {End("cancelled", "back"), End("cancelled", "crash")}
                 [] t.control = "discard" -> {End("none", "crash")}
                 [] OTHER -> {})
Bad(end) == end.agent = "crash" \/ end.batch \in {"retry", "dead"}

(* run_prompt_task returns: every steer still pending is acked neutrally.  *)
TurnEnds(a, end) ==
    /\ pc = "select"
    /\ Running(a)
    /\ end \in Endings(task[a])
    /\ Bad(end) => faults < MaxFaults
    /\ faults' = IF Bad(end) THEN faults + 1 ELSE faults
    /\ task' = [task EXCEPT ![a].end = end, ![a].inbox = NoEvent, ![a].wire = NoEvent]
    /\ acks' = acks \cup {[event |-> e, res |-> "release"] :
                             e \in {task[a].inbox, task[a].wire} \ {NoEvent}}
    /\ UNCHANGED <<config, q, idle, circuit, removed, lifecycle, pc, ret, accepted,
                   resolved, merged, strikes, expired>>

(* The background respawn; the guard reports one that panics as failed.    *)
RespawnEnds(a, r) ==
    /\ pc = "select" /\ circuit[a].respawn = "running"
    /\ circuit' = [circuit EXCEPT ![a].respawn = r]
    /\ UNCHANGED <<config, q, idle, task, acks, removed, lifecycle, pc, ret, history>>

-----------------------------------------------------------------------------
(* The clocks the loop reads.  A turn with an initial message may take two *)
(* turn budgets, more than the channel's deadline allows (bound: a channel *)
(* expires once).                                                          *)
DeadlinePasses(c) ==
    /\ pc = "select" /\ q.inFlight[c] = "armed" /\ c \notin expired
    /\ q' = [q EXCEPT !.inFlight[c] = "due"]
    /\ UNCHANGED <<config, pool, acks, removed, lifecycle, pc, ret, history>>

BackoffPasses(c) ==
    /\ pc = "select" /\ q.retryAfter[c] = "active"
    /\ q' = [q EXCEPT !.retryAfter[c] = "past"]
    /\ UNCHANGED <<config, pool, acks, removed, lifecycle, pc, ret, history>>

CircuitClock(a) ==
    /\ pc = "select"
    /\ \/ circuit[a].open = "open" /\ circuit' = [circuit EXCEPT ![a].open = "cooled"]
       \/ circuit[a].crashes > 0 /\ circuit' = [circuit EXCEPT ![a].crashes = 0]
    /\ UNCHANGED <<config, q, idle, task, acks, removed, lifecycle, pc, ret, history>>

WakeRetryDue ==
    /\ pc = "select" /\ life = "failed" /\ life' = "retry_due"
    /\ UNCHANGED <<config, q, pool, acks, removed, poolReady, wakePending, pc, ret, history>>

(* The process is gone.                                                    *)
Exited == pc = "exited" /\ UNCHANGED vars

Acks == [event: Events, res: {"success", "fallback", "release"}]

Next ==
    \/ StartWake \/ Maintenance \/ CollectRespawns
    \/ DispatchBatch \/ PoolExhausted \/ DispatchDone
    \/ \E e \in Events : Receive(e)
    \/ \E c \in Channels, s \in {"requeue", "discard"} : OwnerControl(c, s)
    \/ \E c \in Channels : MemberRemoved(c) \/ MemberAdded(c)
    \/ \E a \in Agents : HandleResult(a)
    \/ \E k \in acks : SteerAck(k)
    \/ WakeSucceeds \/ WakeFails \/ WakeRetry
    \/ IdleSleep \/ HeartbeatTick \/ TimerTick
    \/ \E a \in Agents : WriteSteer(a) \/ SteerAnswer(a)
    \/ \E a \in Agents, end \in Ends : TurnEnds(a, end)
    \/ \E a \in Agents, r \in {"ok", "failed"} : RespawnEnds(a, r)
    \/ \E c \in Channels : DeadlinePasses(c) \/ BackoffPasses(c)
    \/ \E a \in Agents : CircuitClock(a)
    \/ WakeRetryDue
    \/ Exited

Spec == Init /\ [][Next]_vars

(* The loop keeps turning, a ready arm is taken again and again (select!   *)
(* is biased towards results, and every timer that is on ticks), a turn is *)
(* bounded by its timeouts, and a process can be started in the end.       *)
Fairness ==
    /\ WF_vars(StartWake \/ CollectRespawns) /\ SF_vars(Maintenance)
    /\ WF_vars(DispatchBatch \/ PoolExhausted \/ DispatchDone)
    /\ \A a \in Agents : SF_vars(HandleResult(a))
    /\ SF_vars(\E k \in acks : SteerAck(k))
    /\ SF_vars(WakeSucceeds) /\ WF_vars(TimerTick)
    /\ \A a \in Agents : SF_vars(\E end \in Ends : TurnEnds(a, end))
    /\ \A a \in Agents : SF_vars(RespawnEnds(a, "ok"))
    /\ SF_vars(\E c \in Channels : BackoffPasses(c))
    /\ \A a \in Agents : SF_vars(CircuitClock(a))
    /\ SF_vars(WakeRetryDue)

LiveSpec == Spec /\ Fairness

-----------------------------------------------------------------------------
(* Every variable keeps its type; in particular retry_counts never passes  *)
(* MAX_RETRIES and no queue its cap.                                       *)
TypeOK ==
    /\ handling \in Handlings /\ dedup \in Dedups
    /\ q \in QueueType
    /\ \A c \in Channels : Len(q.queues[c]) <= MaxPending
    /\ idle \subseteq Agents
    /\ \A a \in Agents : task[a] = NoTask \/ task[a] \in TaskType
    /\ circuit \in [Agents -> [crashes: 0..Threshold, open: {"no", "open", "cooled"},
                               respawn: {"no", "running", "ok", "failed"}]]
    /\ acks \subseteq Acks
    /\ removed \subseteq Channels
    /\ poolReady \in BOOLEAN /\ wakePending \in BOOLEAN
    /\ life \in {"listening", "waking", "failed", "retry_due"}
    /\ pc \in {"top", "collect", "select", "dispatch", "exited"}
    /\ ret \in {"top", "collect", "select"}

(* Where an event is waiting or being worked on.                           *)
InQueue(e) == \E c \in Channels : e \in QueueHolds(q, c)
InTurn(e) == \E a \in Agents :
    task[a] # NoTask /\ e \in ToSet(task[a].events) \cup ToSet(task[a].cancelled)
Held == {e \in Events : InQueue(e) \/ InTurn(e)}

(* An accepted event is waiting, in a turn, or has met a final fate: no    *)
(* interleaving of cancels, failures, steers, expiry and sleep loses one.  *)
(* The exception is an event that a cancelled turn handed over to a merged *)
(* batch: requeue and requeue_preserve_timestamps leave cancelled_events   *)
(* behind.                                                                 *)
OnlyMergedLost == accepted \ (Held \cup resolved) \subseteq merged

(* An event is in one place only: put back, withheld, merged or in a turn, *)
(* never twice, so it is prompted once per attempt.                        *)
HeldOnce ==
    \A e \in Held :
        LET places == {<<c, 1>> : c \in {c \in Channels : e \in ToSet(q.queues[c])}}
                 \cup {<<c, 2>> : c \in {c \in Channels : e \in ToSet(q.cancelled[c])}}
                 \cup {<<c, 3>> : c \in {c \in Channels : e \in ToSet(q.withheld[c])}}
                 \cup {<<a, 4>> : a \in {a \in Agents : task[a] # NoTask
                                        /\ e \in ToSet(task[a].events)}}
                 \cup {<<a, 5>> : a \in {a \in Agents : task[a] # NoTask
                                        /\ e \in ToSet(task[a].cancelled)}}
        IN Cardinality(places) = 1

(* A channel has one turn at a time, and its in-flight mark says so, until *)
(* its deadline has ever released it.                                      *)
OneTurnPerChannel ==
    \A c \in Channels \ expired :
        /\ Cardinality(TasksOf(c)) <= 1
        /\ (TasksOf(c) # {}) = (q.inFlight[c] # "no")

(* Events, turns and slots are where the queue's marks say: types, one     *)
(* place per event, one turn per channel.                                  *)
HarnessInv == TypeOK /\ HeldOnce /\ OneTurnPerChannel

Steered == {k.event : k \in {x \in acks : x.res = "success"}}

(* What has met its fate is not prompted again: neither an event that was  *)
(* answered, dead-lettered or drained, nor a message the agent took in     *)
(* mid-turn, which waits in the side table for its ack whatever the turn's *)
(* result does first.  Only the deadline, which gives the withheld events  *)
(* of a channel back, may repeat one.                                      *)
DeliveredOnce ==
    \A e \in Steered \cup resolved :
        ChannelOf[e] \notin expired =>
            /\ ~InTurn(e)
            /\ \A c \in Channels : e \notin ToSet(q.queues[c]) \cup ToSet(q.cancelled[c])

(* A channel whose batches keep failing has one dead-lettered: there are   *)
(* never more than MAX_RETRIES failures in a row that put the batch back,  *)
(* whatever throttle, maintenance and new events do between, unless the    *)
(* channel's deadline has fired.  (A pool exhaustion or a removal from the *)
(* channel starts the row afresh, as a turn that ends otherwise does.)     *)
RetryBudget == \A c \in Channels \ expired : strikes[c] <= MaxRetries

(* A slot that is being respawned is empty, so that its agent, when it     *)
(* comes, overwrites none (return_agent), and an agent is idle or in a     *)
(* turn, not both.                                                         *)
SlotsExclusive ==
    \A a \in Agents :
        /\ circuit[a].respawn # "no" => a \notin idle /\ task[a] = NoTask
        /\ ~(a \in idle /\ task[a] # NoTask)

(* An event the harness accepted is answered or meets another final fate   *)
(* in the end, asleep or awake, throttled, withheld or put back, unless    *)
(* the process exits with all its agents dead.  An event that was ever     *)
(* re-prompted as a cancelled one is promised nothing: its batch may be    *)
(* lost, or may end well, and this does not tell which.                    *)
EventuallySettled ==
    \A e \in Events : (e \in accepted) ~> (e \in resolved \cup merged \/ pc = "exited")
=============================================================================
