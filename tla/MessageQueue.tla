---------------------------- MODULE MessageQueue ----------------------------
(***************************************************************************)
(* The MessageQueue actor of the fully asynchronous policy                 *)
(* (message_queue.py): a deque bounded by max_queue_size that sits between *)
(* the rollouter (put_sample) and the trainer (get_sample).                *)
(*                                                                         *)
(* The actor is a Ray asyncio actor: every method is a coroutine of one    *)
(* event loop and its body runs under one asyncio.Lock.  The only await    *)
(* inside a body is get_sample's condition wait, so every other method is  *)
(* one atomic step, and a blocked get_sample is a coroutine that           *)
(*   - "waiting":  sleeps on _consumer_condition,                          *)
(*   - "notified": has been woken by notify_all but has not run yet; other *)
(*                 calls, also new get_sample calls, may run before it.    *)
(*                                                                         *)
(* sent, received, lost, cleared are history variables: they record which  *)
(* message went where and influence nothing.                               *)
(***************************************************************************)
EXTENDS Naturals, Sequences, Functions

CONSTANTS
    Messages,           \* payloads; the rollouter puts each payload once
    Consumers,          \* concurrent get_sample calls
    MaxQueueSize,       \* max_queue_size
    MaxVersion          \* bound on parameter versions and validation results

ASSUME MaxQueueSizeAssumption == MaxQueueSize \in Nat \ {0}
ASSUME MaxVersionAssumption == MaxVersion \in Nat

VARIABLES
    queue, running, total_produced, total_consumed, dropped_samples,
    current_param_version, val_queue,
    getter,             \* getter[c]: where the get_sample call of c stands
    sent, received, lost, cleared

counters == <<total_produced, total_consumed, dropped_samples>>
history == <<sent, received, lost, cleared>>
vars == <<queue, running, counters, current_param_version, val_queue, getter,
          history>>

Versions == 0..MaxVersion

TypeOK ==
    /\ queue \in Seq(Messages)
    /\ running \in BOOLEAN
    /\ total_produced \in Nat
    /\ total_consumed \in Nat
    /\ dropped_samples \in Nat
    /\ current_param_version \in Versions
    /\ val_queue \in Seq(Versions)
    /\ getter \in [Consumers -> {"idle", "waiting", "notified"}]
    /\ sent \in Seq(Messages)
    /\ received \subseteq Messages
    /\ lost \subseteq Messages
    /\ cleared \in Nat

Init ==
    /\ queue = << >>
    /\ running = TRUE
    /\ total_produced = 0
    /\ total_consumed = 0
    /\ dropped_samples = 0
    /\ current_param_version = 0
    /\ val_queue = << >>
    /\ getter = [c \in Consumers |-> "idle"]
    /\ sent = << >>
    /\ received = {}
    /\ lost = {}
    /\ cleared = 0

-----------------------------------------------------------------------------
(* _consumer_condition.notify_all(): every sleeping getter is scheduled.   *)
NotifyNobody == UNCHANGED getter
NotifyAll ==
    getter' = [c \in Consumers |->
                 IF getter[c] = "waiting" THEN "notified" ELSE getter[c]]

Full == Len(queue) >= MaxQueueSize

(* What is left of the queue after making room for a new sample.           *)
RemainderWithoutNewest == SubSeq(queue, 1, Len(queue) - 1)
Remainder == Tail(queue)

(* put_sample: a full queue evicts its oldest sample, the new one is       *)
(* always accepted, and every sleeping getter is notified.                 *)
PutSample(m) ==
    /\ m \notin Range(sent)
    /\ \/ /\ ~Full
          /\ queue' = Append(queue, m)
          /\ UNCHANGED <<dropped_samples, lost>>
       \/ /\ Full
          /\ queue' = Append(Remainder, m)
          /\ dropped_samples' = dropped_samples + 1
          /\ lost' = lost \cup {Head(queue)}
    /\ total_produced' = total_produced + 1
    /\ NotifyAll
    /\ sent' = Append(sent, m)
    /\ UNCHANGED <<running, total_consumed, current_param_version, val_queue,
                   received, cleared>>

(* One sample leaves the queue towards the getter: queue.popleft().        *)
TakesNewest ==
    /\ queue' = SubSeq(queue, 1, Len(queue) - 1)
    /\ total_consumed' = total_consumed + 1
    /\ received' = received \cup {queue[Len(queue)]}
TakesUncounted ==
    /\ queue' = Tail(queue)
    /\ total_consumed' = total_consumed
    /\ received' = received \cup {Head(queue)}
TakesOldest ==
    /\ queue' = Tail(queue)
    /\ total_consumed' = total_consumed + 1
    /\ received' = received \cup {Head(queue)}

(* The part of get_sample that runs whenever the lock is (re)acquired, by  *)
(* a new call or by a woken one: take the oldest sample, or report the     *)
(* closed queue, or go (back) to sleep.                                    *)
TryGet(c) ==
    /\ \/ /\ queue # << >>
          /\ TakesOldest
          /\ getter' = [getter EXCEPT ![c] = "idle"]
       \/ /\ queue = << >>
          /\ getter' = [getter EXCEPT ![c] = IF running THEN "waiting" ELSE "idle"]
          /\ UNCHANGED <<queue, total_consumed, received>>
    /\ UNCHANGED <<running, total_produced, dropped_samples,
                   current_param_version, val_queue, sent, lost, cleared>>

GetSample(c) ==
    /\ getter[c] = "idle"
    /\ TryGet(c)

WakeUp(c) ==
    /\ getter[c] = "notified"
    /\ TryGet(c)

IncrementsParamVersion(version) ==
    /\ current_param_version' = current_param_version + 1
    /\ UNCHANGED <<queue, running, counters, val_queue, getter, history>>
UpdateParamVersion(version) ==
    /\ current_param_version' = version
    /\ UNCHANGED <<queue, running, counters, val_queue, getter, history>>

(* clear_queue: the cleared samples enter no counter.                      *)
ClearQueue ==
    /\ queue' = << >>
    /\ lost' = lost \cup Range(queue)
    /\ cleared' = cleared + Len(queue)
    /\ UNCHANGED <<running, counters, current_param_version, val_queue, getter,
                   sent, received>>

(* shutdown: nothing resets running to TRUE afterwards.                    *)
Shutdown ==
    /\ running' = FALSE
    /\ NotifyAll
    /\ UNCHANGED <<queue, counters, current_param_version, val_queue, history>>

(* put_validate / get_validate: an unbounded side queue of validation      *)
(* results (bounded here by MaxVersion entries) that never blocks.         *)
PutValidate(data) ==
    /\ Len(val_queue) < MaxVersion
    /\ val_queue' = Append(val_queue, data)
    /\ UNCHANGED <<queue, running, counters, current_param_version, getter,
                   history>>

GetValidate ==
    /\ val_queue # << >>
    /\ val_queue' = Tail(val_queue)
    /\ UNCHANGED <<queue, running, counters, current_param_version, getter,
                   history>>

Next ==
    \/ \E m \in Messages : PutSample(m)
    \/ \E c \in Consumers : GetSample(c) \/ WakeUp(c)
    \/ \E v \in Versions : UpdateParamVersion(v) \/ PutValidate(v)
    \/ ClearQueue
    \/ Shutdown
    \/ GetValidate

(* The event loop runs every scheduled coroutine.  Calls are the clients'  *)
(* choice and carry no fairness.                                           *)
Fairness == \A c \in Consumers : WF_vars(WakeUp(c))

Spec == Init /\ [][Next]_vars /\ Fairness

-----------------------------------------------------------------------------
(* The queue never exceeds max_queue_size, although put_sample never       *)
(* blocks and never refuses a sample.                                      *)
Bounded == Len(queue) <= MaxQueueSize

(* What is queued is exactly the newest Len(queue) samples ever put, in    *)
(* the order they were put: eviction, consumption, clearing and barging    *)
(* getters only ever remove from the old end.                              *)
QueueIsNewest ==
    /\ Len(queue) <= Len(sent)
    /\ \A i \in 1..Len(queue) : queue[i] = sent[Len(sent) - Len(queue) + i]

(* No lost wake-up: while there is a sample to take, or the queue is shut  *)
(* down, no get_sample call sleeps on the condition un-notified.           *)
NoLostWakeup ==
    \A c \in Consumers : getter[c] = "waiting" => queue = << >> /\ running

(* The statistics reported by get_statistics account for every sample:     *)
(* whatever the order of puts, gets, evictions and woken getters, a sample *)
(* produced is consumed, dropped or still queued, unless clear_queue, which *)
(* counts nothing, removed it.                                             *)
EverySampleCounted ==
    total_produced = total_consumed + dropped_samples + cleared + Len(queue)

(* After shutdown every pending get_sample call returns.                   *)
GettersLeaveAfterShutdown ==
    \A c \in Consumers : ~running ~> getter[c] = "idle"

(* The actor implements the lossy FIFO its clients rely on.                *)
Fifo == INSTANCE LossyFifo WITH
            Capacity <- MaxQueueSize, buffer <- queue
ImplementsLossyFifo == Fifo!FifoSpec
=============================================================================
