----------------------------- MODULE FullyAsync -----------------------------
(***************************************************************************)
(* The fully asynchronous policy: a rollouter that streams samples, the    *)
(* message queue, a trainer that consumes them, and the parameter          *)
(* synchronizer that moves weights from the trainer to the rollouter.      *)
(*                                                                         *)
(* The rollouter is one Ray asyncio actor.  Its coroutines interleave only *)
(* at awaits, so one action below is the code between two awaits:          *)
(*   "proc"     _processor_worker                                          *)
(*   "monitor"  _async_monitor_loop                                        *)
(*   "main"     _streaming_generation_main after the processor ended       *)
(*   "rpc"      pause / update_param_version / resume, called one after    *)
(*              the other by ParameterSynchronizer.sync_weights            *)
(* plus _feed_samples and one task per sample in generation.              *)
(*                                                                         *)
(* The coroutines share self.lock, an asyncio.Lock: fair, and taken        *)
(* without yielding when it is free.  `lock` lists its holder and then the *)
(* coroutines queued for it.  A coroutine whose pc ends in "Call" reaches  *)
(* `async with self.lock` next: it goes on at once if the lock is free and *)
(* else queues ("Lock") and goes on when it is the head of the list.       *)
(*                                                                         *)
(* asyncio.wait and pause() are the only places that shrink active_tasks:  *)
(* a finished task stays in it until then (`finished` counts those).       *)
(*                                                                         *)
(* A put_sample call and its reply are one step, as are the manager's      *)
(* cancel/resume broadcasts with the statement after them: nothing that    *)
(* reads the difference can run in between (the lock is held).             *)
(***************************************************************************)
EXTENDS Integers, Sequences, FiniteSets, Functions

CONSTANTS
    TotalSamples,           \* total_rollout_steps
    RequiredSamples,        \* ppo_mini_batch_size * require_batches
    TriggerSyncStep,        \* trigger_parameter_sync_step
    MaxRequiredSamples,     \* int(required * (staleness_threshold + 1) * trigger)
    ServerSlots,            \* 16 * number of rollout servers
    PendingMax,             \* maxsize of pending_queue
    PartialRollout,         \* async_training.partial_rollout
    TestFreq,               \* rollout.test_freq
    MaxFaults               \* bound on generation tasks that raise

ASSUME SizesAssumption ==
    /\ TotalSamples \in Nat \ {0}
    /\ RequiredSamples \in Nat \ {0}
    /\ TriggerSyncStep \in Nat \ {0}
    /\ MaxRequiredSamples \in Nat
    /\ MaxRequiredSamples >= RequiredSamples * TriggerSyncStep
    /\ ServerSlots \in Nat \ {0}
    /\ PendingMax \in Nat \ {0}
    /\ TestFreq \in Nat \ {0}
    /\ MaxFaults \in Nat
ASSUME PartialRolloutAssumption == PartialRollout \in BOOLEAN

VARIABLES
    (* rollouter: flags, queues, lock *)
    paused, running, monitor_loop_trigger,
    fed,                    \* samples _feed_samples has put so far
    pending_queue, cancel_queue, staleness_samples, lock,
    (* rollouter: processor coroutine *)
    proc, why, held, done_bound,
    (* rollouter: generation tasks *)
    generating,             \* samples being generated
    bounced,                \* submitted while the servers refuse work
    putting,                \* generated, put_sample under way
    finished, raised,       \* done tasks still in active_tasks; those that raised
    faults, label,
    (* rollouter: other coroutines *)
    monitor, main,
    (* parameter synchronizer and the rollouter's side of it *)
    sync, counted, servers_paused, rollout_version,
    current_version,        \* the version sync_weights was last called with
    (* message queue *)
    mq, dropped,
    (* trainer *)
    trainer, final, batch, trained, discarded, local_trigger_step, version

flagVars  == <<paused, running, monitor_loop_trigger>>
feedVars  == <<fed, pending_queue>>
procVars  == <<proc, why, held, done_bound>>
taskVars  == <<generating, bounced, putting, finished, raised, faults, label>>
otherVars == <<monitor, main>>
syncVars  == <<sync, counted, servers_paused, rollout_version, current_version>>
queueVars == <<mq, dropped>>
trainVars == <<trainer, final, batch, trained, discarded, local_trigger_step,
               version>>
vars == <<flagVars, feedVars, cancel_queue, staleness_samples, lock, procVars,
          taskVars, otherVars, syncVars, queueVars, trainVars>>

Samples == 1..TotalSamples
EndSignal == 0          \* "DONE" in pending_queue, None in the message queue
Nobody == -1            \* the processor holds no sample

SmallerOf(m, n) == IF m < n THEN m ELSE n

MaxConcurrentSamples == SmallerOf(ServerSlots, MaxRequiredSamples)
MaxQueueSize == MaxRequiredSamples
SamplesPerSync == RequiredSamples * TriggerSyncStep

Running == generating \cup bounced \cup putting
ActiveTasks == Cardinality(Running) + finished      \* len(self.active_tasks)

TypeOK ==
    /\ paused \in BOOLEAN /\ running \in BOOLEAN /\ monitor_loop_trigger \in BOOLEAN
    /\ fed \in 0..TotalSamples + 1
    /\ pending_queue \in Seq(Samples \cup {EndSignal})
    /\ cancel_queue \in Seq(Samples)
    /\ staleness_samples \in Nat
    /\ lock \in Seq({"proc", "monitor", "main", "rpc"})
    /\ proc \in {"loop", "get", "pauseLock", "drainLock", "drainWait",
                 "waitCall", "waitLock", "waitCond",
                 "submitCall", "submitLock", "submitCond", "exited", "crashed"}
    /\ why \in {"pause", "done", "limit"}
    /\ held \in Samples \cup {EndSignal, Nobody}
    /\ done_bound \in BOOLEAN
    /\ generating \subseteq Samples /\ bounced \subseteq Samples
    /\ putting \subseteq Samples
    /\ finished \in Nat /\ raised \in Nat /\ faults \in 0..MaxFaults
    /\ label \in [Samples -> Nat]
    /\ monitor \in {"sleep", "topLock", "resumeLock", "exited"}
    /\ main \in {"wait", "stopCall", "stopLock", "exited"}
    /\ sync \in {"idle", "pauseCall", "pauseLock", "pauseGather", "transfer",
                 "updateCall", "updateLock", "updateCount", "updateReport",
                 "resumeCall", "resumeLock"}
    /\ counted \in Nat
    /\ servers_paused \in BOOLEAN
    /\ rollout_version \in Nat /\ current_version \in Nat
    /\ mq \in Seq(Samples \cup {EndSignal})
    /\ dropped \subseteq Samples \cup {EndSignal}
    /\ trainer \in {"collect", "train", "closing", "waitValid", "syncing",
                    "lastValid", "done"}
    /\ final \in BOOLEAN
    /\ batch \in Seq(Samples)
    /\ trained \subseteq Samples /\ discarded \subseteq Samples
    /\ local_trigger_step \in 1..TriggerSyncStep
    /\ version \in Nat

(* What the feeder puts in places first..last of its stream.               *)
Fed(first, last) ==
    [i \in 1..(last - first + 1) |->
        IF first + i - 1 <= TotalSamples THEN first + i - 1 ELSE EndSignal]

(* After FullyAsyncTaskRunner's initial sync_weights and the first         *)
(* statements of both fit() methods; the feeder has run up to its first    *)
(* full queue and the processor is about to start.                         *)
Init ==
    /\ paused = FALSE /\ running = TRUE /\ monitor_loop_trigger = TRUE
    /\ fed = SmallerOf(PendingMax, TotalSamples + 1)
    /\ pending_queue = Fed(1, fed) /\ cancel_queue = << >>
    /\ staleness_samples = 0
    /\ lock = << >>
    /\ proc = "loop" /\ why = "pause" /\ held = Nobody /\ done_bound = FALSE
    /\ generating = {} /\ bounced = {} /\ putting = {}
    /\ finished = 0 /\ raised = 0 /\ faults = 0
    /\ label = [s \in Samples |-> 0]
    /\ monitor = "sleep" /\ main = "wait"
    /\ sync = "idle" /\ counted = 0 /\ servers_paused = FALSE
    /\ rollout_version = 0 /\ current_version = 0
    /\ mq = << >> /\ dropped = {}
    /\ trainer = "collect" /\ final = FALSE /\ batch = << >>
    /\ trained = {} /\ discarded = {}
    /\ local_trigger_step = 1 /\ version = 0

-----------------------------------------------------------------------------
(* Shared pieces.                                                          *)

(* The event loop belongs to the processor from one of its awaits to the   *)
(* next: at "loop" it goes on before any other coroutine runs.             *)
LoopIsFree == proc # "loop"

(* Coroutine c enters a critical section: from `async with` with the lock  *)
(* free, or as the one the lock was handed to.                             *)
Acquires(c, calling, queued) ==
    \/ calling /\ lock = << >>
    \/ queued /\ lock # << >> /\ Head(lock) = c

(* The lock after the section: released, or still held across an await.    *)
Released == IF lock = << >> THEN << >> ELSE Tail(lock)
Kept(c) == IF lock = << >> THEN <<c>> ELSE lock

(* `async with self.lock` by c while somebody has the lock.                *)
Queues(c) == lock # << >> /\ lock' = Append(lock, c)

PausesOneTooLate ==
    \/ Len(mq) >= MaxQueueSize
    \/ staleness_samples > MaxRequiredSamples
ShouldPauseGeneration ==
    \/ Len(mq) >= MaxQueueSize
    \/ staleness_samples >= MaxRequiredSamples

(* MessageQueue.put_sample: a full queue loses its oldest entry.           *)
PutEvictsNewest(m) ==
    IF Len(mq) >= MaxQueueSize
    THEN /\ mq' = [mq EXCEPT ![Len(mq)] = m]
         /\ dropped' = dropped \cup {mq[Len(mq)]}
    ELSE /\ mq' = Append(mq, m)
         /\ UNCHANGED dropped
PutSample(m) ==
    IF Len(mq) >= MaxQueueSize
    THEN /\ mq' = Append(Tail(mq), m)
         /\ dropped' = dropped \cup {Head(mq)}
    ELSE /\ mq' = Append(mq, m)
         /\ UNCHANGED dropped

(* condition.notify_all(): only the processor ever sleeps on the condition; *)
(* woken, it has to get the lock again.                                    *)
NotifiesNobody == proc' = proc
NotifiesPausedOnly == proc' = IF proc = "waitCond" THEN "waitCall" ELSE proc
NotifyAll ==
    proc' = CASE proc = "waitCond" -> "waitCall"
              [] proc = "submitCond" -> "submitCall"
              [] OTHER -> proc

-----------------------------------------------------------------------------
(* _feed_samples: samples in order, then "DONE".  put() only suspends on a *)
(* full queue, so whenever the feeder runs it fills the queue.             *)
FeedSamples ==
    /\ LoopIsFree
    /\ fed <= TotalSamples
    /\ Len(pending_queue) < PendingMax
    /\ LET upto == SmallerOf(TotalSamples + 1, fed + PendingMax - Len(pending_queue))
       IN  /\ pending_queue' = pending_queue \o Fed(fed + 1, upto)
           /\ fed' = upto
    /\ UNCHANGED <<flagVars, cancel_queue, staleness_samples, lock, procVars,
                   taskVars, otherVars, syncVars, queueVars, trainVars>>

-----------------------------------------------------------------------------
(* _processor_worker.                                                      *)

(* Lines 513-516 and 552-561 with the lock in hand and q left behind.      *)
WaitWhilePaused(q) ==
    /\ proc' = IF paused' THEN "waitCond" ELSE "loop"
    /\ lock' = q
    /\ UNCHANGED <<held, generating, bounced>>

ForgetsHeldSample(sample, q) ==
    /\ lock' = q
    /\ held' = Nobody
    /\ IF paused'
       THEN proc' = "loop" /\ UNCHANGED <<generating, bounced>>
       ELSE /\ proc' = "loop"
            /\ IF servers_paused
               THEN bounced' = bounced \cup {sample} /\ UNCHANGED generating
               ELSE generating' = generating \cup {sample} /\ UNCHANGED bounced
SubmitUnlessPaused(sample, q) ==
    /\ lock' = q
    /\ IF paused'
       THEN /\ proc' = "submitCond"
            /\ held' = sample
            /\ UNCHANGED <<generating, bounced>>
       ELSE /\ proc' = "loop"
            /\ held' = Nobody
            /\ IF servers_paused
               THEN bounced' = bounced \cup {sample} /\ UNCHANGED generating
               ELSE generating' = generating \cup {sample} /\ UNCHANGED bounced

(* The number of active tasks at which a draining loop goes on.            *)
EndsWithoutDraining(w) ==
    IF w = "pause" THEN 1 ELSE IF w = "limit" THEN MaxConcurrentSamples
    ELSE TotalSamples + 1
DrainLimit(w) == IF w = "limit" THEN MaxConcurrentSamples ELSE 1

(* The head of one of its three draining loops, for reason w, with sample  *)
(* in hand, n active tasks and the lock in state q: one more round, which  *)
(* awaits a task with the lock held, or on to what follows the loop.       *)
DrainLoop(w, sample, n, q) ==
    /\ why' = w
    /\ CASE n >= DrainLimit(w) ->
              /\ proc' = IF q = << >> THEN "drainWait" ELSE "drainLock"
              /\ lock' = Append(q, "proc")
              /\ held' = sample
              /\ UNCHANGED <<generating, bounced>>
         [] OTHER ->
              CASE w = "done" ->
                     /\ proc' = "exited"
                     /\ lock' = q
                     /\ held' = sample
                     /\ UNCHANGED <<generating, bounced>>
                [] w = "pause" /\ q = << >> -> WaitWhilePaused(q)
                [] w = "limit" /\ q = << >> -> SubmitUnlessPaused(sample, q)
                [] OTHER ->
                     /\ proc' = IF w = "pause" THEN "waitLock" ELSE "submitLock"
                     /\ lock' = Append(q, "proc")
                     /\ held' = sample
                     /\ UNCHANGED <<generating, bounced>>

procRest == <<flagVars, feedVars, cancel_queue, staleness_samples, putting, faults,
              label, otherVars, syncVars, queueVars, trainVars>>

(* Paused, or too much is outstanding: set `paused` under the lock, let    *)
(* the active tasks finish and sleep until the pause is over.              *)
ProcSeesPause ==
    /\ proc = "loop"
    /\ paused \/ ShouldPauseGeneration
    /\ Queues("proc")
    /\ proc' = "pauseLock"
    /\ UNCHANGED <<procRest, why, held, done_bound, generating, bounced, finished,
                   raised>>

ProcPauses ==
    /\ Acquires("proc", proc = "loop" /\ (paused \/ ShouldPauseGeneration),
                proc = "pauseLock")
    /\ paused' = TRUE
    /\ DrainLoop("pause", held, ActiveTasks, Released)
    /\ UNCHANGED <<running, monitor_loop_trigger, feedVars, cancel_queue,
                   staleness_samples, done_bound, putting, finished, raised, faults,
                   label, otherVars, syncVars, queueVars, trainVars>>

(* A draining loop gets the lock it had to queue for.  If the active tasks *)
(* are gone by then, the code falls through to `for task in done_tasks`, a *)
(* name that only an earlier wait has bound.                               *)
ProcDrainLocked ==
    /\ Acquires("proc", FALSE, proc = "drainLock")
    /\ UNCHANGED <<procRest, done_bound, finished, raised>>
    /\ CASE ActiveTasks > 0 ->
              proc' = "drainWait" /\ UNCHANGED <<why, held, lock, generating, bounced>>
         [] ActiveTasks = 0 /\ done_bound -> DrainLoop(why, held, 0, Released)
         [] OTHER ->
              /\ proc' = "crashed"
              /\ lock' = Released
              /\ UNCHANGED <<why, held, generating, bounced>>

(* asyncio.wait returns: every done task leaves active_tasks and `await    *)
(* task` re-raises what a failed one raised.                               *)
ProcDrained ==
    /\ proc = "drainWait"
    /\ finished > 0
    /\ finished' = 0 /\ raised' = 0
    /\ done_bound' = TRUE
    /\ UNCHANGED procRest
    /\ IF raised > 0
       THEN /\ proc' = "crashed"
            /\ lock' = Released
            /\ UNCHANGED <<why, held, generating, bounced>>
       ELSE DrainLoop(why, held, Cardinality(Running), Released)

ProcWoken ==
    /\ proc \in {"waitCall", "submitCall"}
    /\ Queues("proc")
    /\ proc' = IF proc = "waitCall" THEN "waitLock" ELSE "submitLock"
    /\ UNCHANGED <<procRest, why, held, done_bound, generating, bounced, finished,
                   raised>>

ProcWaits ==
    /\ Acquires("proc", proc = "waitCall", proc = "waitLock")
    /\ UNCHANGED <<procRest, why, done_bound, finished, raised>>
    /\ WaitWhilePaused(Released)

ProcSubmits ==
    /\ Acquires("proc", proc = "submitCall", proc = "submitLock")
    /\ UNCHANGED <<procRest, why, done_bound, finished, raised>>
    /\ SubmitUnlessPaused(held, Released)

(* The next sample: an interrupted one first, else a new one, which may    *)
(* have to be awaited.  Only a new one (or "DONE") counts as stale.        *)
ProcTakesCancelled ==
    /\ proc = "loop" /\ ~paused /\ ~ShouldPauseGeneration
    /\ cancel_queue # << >>
    /\ cancel_queue' = Tail(cancel_queue)
    /\ UNCHANGED <<flagVars, feedVars, staleness_samples, done_bound, putting,
                   finished, raised, faults, label, otherVars, syncVars, queueVars,
                   trainVars>>
    /\ DrainLoop("limit", Head(cancel_queue), ActiveTasks, lock)

ProcAwaitsPending ==
    /\ proc = "loop" /\ ~paused /\ ~ShouldPauseGeneration
    /\ cancel_queue = << >> /\ pending_queue = << >>
    /\ proc' = "get"
    /\ UNCHANGED <<procRest, lock, why, held, done_bound, generating, bounced,
                   finished, raised>>

ProcTakesPending ==
    /\ \/ proc = "get"
       \/ /\ proc = "loop" /\ ~paused /\ ~ShouldPauseGeneration
          /\ cancel_queue = << >>
    /\ pending_queue # << >>
    /\ pending_queue' = Tail(pending_queue)
    /\ staleness_samples' = staleness_samples + 1
    /\ UNCHANGED <<flagVars, fed, cancel_queue, done_bound, putting, finished,
                   raised, faults, label, otherVars, syncVars, queueVars, trainVars>>
    /\ DrainLoop(IF Head(pending_queue) = EndSignal THEN "done" ELSE "limit",
                 Head(pending_queue), ActiveTasks, lock)

Processor ==
    \/ ProcSeesPause \/ ProcPauses
    \/ ProcDrainLocked \/ ProcDrained \/ ProcWoken \/ ProcWaits \/ ProcSubmits
    \/ ProcTakesCancelled \/ ProcAwaitsPending \/ ProcTakesPending

-----------------------------------------------------------------------------
(* _process_single_sample_streaming, one task per sample.                  *)

(* Generation is complete: the sample is labelled with the version the     *)
(* rollouter has now and put_sample is called.                             *)
TaskGenerated(s) ==
    /\ LoopIsFree
    /\ s \in generating
    /\ generating' = generating \ {s}
    /\ putting' = putting \cup {s}
    /\ label' = [label EXCEPT ![s] = rollout_version]
    /\ UNCHANGED <<flagVars, feedVars, cancel_queue, staleness_samples, lock,
                   procVars, bounced, finished, raised, faults, otherVars,
                   syncVars, queueVars, trainVars>>

TaskPut(s) ==
    /\ s \in putting
    /\ putting' = putting \ {s}
    /\ finished' = finished + 1
    /\ PutSample(s)
    /\ UNCHANGED <<flagVars, feedVars, cancel_queue, staleness_samples, lock,
                   procVars, generating, bounced, raised, faults, label,
                   otherVars, syncVars, trainVars>>

(* Submitted while the servers refused work, but the call reached its      *)
(* server only after they had been resumed.                                *)
TaskReachesServer(s) ==
    /\ s \in bounced /\ ~servers_paused
    /\ bounced' = bounced \ {s}
    /\ generating' = generating \cup {s}
    /\ UNCHANGED <<flagVars, feedVars, cancel_queue, staleness_samples, lock,
                   procVars, putting, finished, raised, faults, label, otherVars,
                   syncVars, queueVars, trainVars>>

(* Generation was interrupted: what exists of the sample waits in          *)
(* cancel_queue to be continued.                                           *)
TaskCancelled(s) ==
    /\ LoopIsFree
    /\ s \in bounced \/ (s \in generating /\ servers_paused)
    /\ generating' = generating \ {s}
    /\ bounced' = bounced \ {s}
    /\ finished' = finished + 1
    /\ cancel_queue' = Append(cancel_queue, s)
    /\ UNCHANGED <<flagVars, feedVars, staleness_samples, lock, procVars, putting,
                   raised, faults, label, otherVars, syncVars, queueVars,
                   trainVars>>

(* Generation raised (a server died): the task ends with the exception.    *)
TaskRaised(s) ==
    /\ LoopIsFree
    /\ faults < MaxFaults
    /\ s \in generating
    /\ generating' = generating \ {s}
    /\ finished' = finished + 1
    /\ raised' = raised + 1
    /\ faults' = faults + 1
    /\ UNCHANGED <<flagVars, feedVars, cancel_queue, staleness_samples, lock,
                   procVars, bounced, putting, label, otherVars, syncVars,
                   queueVars, trainVars>>

Task(s) ==
    \/ TaskGenerated(s) \/ TaskPut(s) \/ TaskReachesServer(s)
    \/ TaskCancelled(s) \/ TaskRaised(s)

-----------------------------------------------------------------------------
(* _async_monitor_loop.  Each round takes the lock to look at `running`,   *)
(* sleeps 10 s, and ends the pause when there is no reason for one, unless *)
(* a synchronization has switched that off.  The reasons are looked at     *)
(* before the lock is taken.                                               *)
MonitorDecides == monitor_loop_trigger /\ ~ShouldPauseGeneration

(* The top of the loop, with the lock in state q.                          *)
NextRound(q) ==
    IF q = << >>
    THEN /\ lock' = << >>
         /\ monitor' = IF running THEN "sleep" ELSE "exited"
    ELSE /\ lock' = Append(q, "monitor")
         /\ monitor' = "topLock"

MonitorSkips ==
    /\ LoopIsFree
    /\ monitor = "sleep" /\ ~MonitorDecides
    /\ lock # << >> \/ ~running            \* else the round changes nothing
    /\ NextRound(lock)
    /\ UNCHANGED <<flagVars, feedVars, cancel_queue, staleness_samples, procVars,
                   taskVars, main, syncVars, queueVars, trainVars>>

MonitorQueues ==
    /\ LoopIsFree
    /\ monitor = "sleep" /\ MonitorDecides
    /\ Queues("monitor")
    /\ monitor' = "resumeLock"
    /\ UNCHANGED <<flagVars, feedVars, cancel_queue, staleness_samples, procVars,
                   taskVars, main, syncVars, queueVars, trainVars>>

MonitorResumes ==
    /\ LoopIsFree
    /\ Acquires("monitor", monitor = "sleep" /\ MonitorDecides,
                monitor = "resumeLock")
    /\ paused' = FALSE
    /\ NotifyAll
    /\ NextRound(Released)
    /\ UNCHANGED <<running, monitor_loop_trigger, feedVars, cancel_queue,
                   staleness_samples, why, held, done_bound, taskVars, main,
                   syncVars, queueVars, trainVars>>

MonitorChecksRunning ==
    /\ LoopIsFree
    /\ Acquires("monitor", FALSE, monitor = "topLock")
    /\ monitor' = IF running THEN "sleep" ELSE "exited"
    /\ lock' = Released
    /\ UNCHANGED <<flagVars, feedVars, cancel_queue, staleness_samples, procVars,
                   taskVars, main, syncVars, queueVars, trainVars>>

Monitor == MonitorSkips \/ MonitorQueues \/ MonitorResumes \/ MonitorChecksRunning

(* _streaming_generation_main once the processor has ended, whether by     *)
(* "DONE" or by an exception: send None, then clear `running`.             *)
MainSendsEnd ==
    /\ LoopIsFree
    /\ main = "wait" /\ proc \in {"exited", "crashed"}
    /\ PutSample(EndSignal)
    /\ main' = "stopCall"
    /\ UNCHANGED <<flagVars, feedVars, cancel_queue, staleness_samples, lock,
                   procVars, taskVars, monitor, syncVars, trainVars>>

MainQueues ==
    /\ LoopIsFree
    /\ main = "stopCall"
    /\ Queues("main")
    /\ main' = "stopLock"
    /\ UNCHANGED <<flagVars, feedVars, cancel_queue, staleness_samples, procVars,
                   taskVars, monitor, syncVars, queueVars, trainVars>>

MainStops ==
    /\ LoopIsFree
    /\ Acquires("main", main = "stopCall", main = "stopLock")
    /\ running' = FALSE
    /\ lock' = Released
    /\ main' = "exited"
    /\ UNCHANGED <<paused, monitor_loop_trigger, feedVars, cancel_queue,
                   staleness_samples, procVars, taskVars, monitor, syncVars,
                   queueVars, trainVars>>

Main == MainSendsEnd \/ MainQueues \/ MainStops

-----------------------------------------------------------------------------
(* ParameterSynchronizer.sync_weights and the rollouter methods it calls.  *)

RpcQueues ==
    /\ LoopIsFree
    /\ sync \in {"pauseCall", "updateCall", "resumeCall"}
    /\ Queues("rpc")
    /\ sync' = CASE sync = "pauseCall" -> "pauseLock"
                 [] sync = "updateCall" -> "updateLock"
                 [] sync = "resumeCall" -> "resumeLock"
    /\ UNCHANGED <<flagVars, feedVars, cancel_queue, staleness_samples, procVars,
                   taskVars, otherVars, counted, servers_paused, rollout_version,
                   current_version, queueVars, trainVars>>

(* pause(): the flag, and in partial mode the cancellation of everything   *)
(* in generation ...                                                       *)
CancelsWithoutRefusing == FALSE
ServersRefuse == PartialRollout

PauseBegins ==
    /\ LoopIsFree
    /\ Acquires("rpc", sync = "pauseCall", sync = "pauseLock")
    /\ paused' = TRUE
    /\ lock' = Kept("rpc")
    /\ servers_paused' = ServersRefuse
    /\ sync' = "pauseGather"
    /\ UNCHANGED <<running, monitor_loop_trigger, feedVars, cancel_queue,
                   staleness_samples, procVars, taskVars, otherVars, counted,
                   rollout_version, current_version, queueVars, trainVars>>

(* ... then, with the lock still held, every active task is awaited and    *)
(* the monitor is switched off.                                            *)
PauseEnds ==
    /\ LoopIsFree
    /\ sync = "pauseGather"
    /\ Running = {}
    /\ finished' = 0 /\ raised' = 0
    /\ monitor_loop_trigger' = FALSE
    /\ lock' = Released
    /\ sync' = "transfer"
    /\ UNCHANGED <<paused, running, feedVars, cancel_queue, staleness_samples,
                   procVars, generating, bounced, putting, faults, label,
                   otherVars, counted, servers_paused, rollout_version,
                   current_version, queueVars, trainVars>>

(* The weights have been sent; sync_weights returns to the trainer and     *)
(* leaves update_param_version (and resume after it) running.              *)
TransferEnds ==
    /\ sync = "transfer"
    /\ sync' = "updateCall"
    /\ trainer' = IF final THEN "lastValid" ELSE "collect"
    /\ UNCHANGED <<flagVars, feedVars, cancel_queue, staleness_samples, lock,
                   procVars, taskVars, otherVars, counted, servers_paused,
                   rollout_version, current_version, queueVars, final, batch, trained,
                   discarded, local_trigger_step, version>>

(* update_param_version: the two local terms of the new staleness are read *)
(* before the queue's size is awaited.                                     *)
LocalStaleness == ActiveTasks + Len(cancel_queue)

KeepsOldVersion == rollout_version
NewParamVersion == current_version

UpdateBegins ==
    /\ LoopIsFree
    /\ Acquires("rpc", sync = "updateCall", sync = "updateLock")
    /\ lock' = Kept("rpc")
    /\ rollout_version' = NewParamVersion
    /\ counted' = LocalStaleness
    /\ sync' = "updateCount"
    /\ UNCHANGED <<flagVars, feedVars, cancel_queue, staleness_samples, procVars,
                   taskVars, otherVars, servers_paused, current_version,
                   queueVars, trainVars>>

(* ... and only then written, whatever happened to it meanwhile.           *)
UpdateCounts ==
    /\ LoopIsFree
    /\ sync = "updateCount"
    /\ staleness_samples' = counted + Len(mq)
    /\ counted' = 0
    /\ sync' = "updateReport"
    /\ UNCHANGED <<flagVars, feedVars, cancel_queue, lock, procVars, taskVars,
                   otherVars, servers_paused, rollout_version,
                   current_version, queueVars, trainVars>>

(* The validation result has been put, the last await under the lock.      *)
UpdateEnds ==
    /\ LoopIsFree
    /\ sync = "updateReport"
    /\ sync' = "resumeCall"
    /\ lock' = Released
    /\ UNCHANGED <<flagVars, feedVars, cancel_queue, staleness_samples, procVars,
                   taskVars, otherVars, counted, servers_paused, rollout_version,
                   current_version, queueVars, trainVars>>

Resume ==
    /\ LoopIsFree
    /\ Acquires("rpc", sync = "resumeCall", sync = "resumeLock")
    /\ servers_paused' = FALSE
    /\ paused' = FALSE
    /\ monitor_loop_trigger' = TRUE
    /\ NotifyAll
    /\ lock' = Released
    /\ sync' = "idle"
    /\ UNCHANGED <<running, feedVars, cancel_queue, staleness_samples, why, held,
                   done_bound, taskVars, otherVars, counted, rollout_version,
                   current_version, queueVars, trainVars>>

Sync ==
    \/ RpcQueues \/ PauseBegins \/ PauseEnds \/ TransferEnds
    \/ UpdateBegins \/ UpdateCounts \/ UpdateEnds \/ Resume

-----------------------------------------------------------------------------
(* FullyAsyncTrainer.fit.                                                  *)

(* _get_samples_from_queue, one get_sample_sync per step.  None ends the   *)
(* collection, and a batch that is not full by then is thrown away.        *)
TrainerGets ==
    /\ trainer = "collect"
    /\ mq # << >>
    /\ mq' = Tail(mq)
    /\ IF Head(mq) = EndSignal
       THEN /\ batch' = << >>
            /\ discarded' = discarded \cup Range(batch)
            /\ trainer' = "closing"
       ELSE /\ batch' = Append(batch, Head(mq))
            /\ trainer' = IF Len(batch) + 1 = RequiredSamples
                          THEN "train" ELSE "collect"
            /\ UNCHANGED discarded
    /\ UNCHANGED <<flagVars, feedVars, cancel_queue, staleness_samples, lock,
                   procVars, taskVars, otherVars, syncVars, dropped, final,
                   trained, local_trigger_step, version>>

(* One training step and _trigger_parameter_sync_after_step.               *)
SyncOneStepLate == local_trigger_step > TriggerSyncStep
SyncDue == local_trigger_step >= TriggerSyncStep

TrainerTrains ==
    /\ trainer = "train"
    /\ trained' = trained \cup Range(batch)
    /\ batch' = << >>
    /\ IF ~SyncDue
       THEN /\ local_trigger_step' = local_trigger_step + 1
            /\ trainer' = "collect"
            /\ UNCHANGED version
       ELSE /\ local_trigger_step' = 1
            /\ version' = version + 1
            /\ trainer' = "waitValid"
    /\ UNCHANGED <<flagVars, feedVars, cancel_queue, staleness_samples, lock,
                   procVars, taskVars, otherVars, syncVars, queueVars, final,
                   discarded>>

(* ParameterSynchronizer.wait_last_valid, a blocking call of the trainer.  *)
LastSyncDone == sync = "idle"

(* After the loop: wait for the last update, then one more synchronization *)
(* if something was trained since, or the version was not validated.       *)
TrainerCloses ==
    /\ trainer = "closing" /\ LastSyncDone
    /\ final' = TRUE
    /\ IF version % TestFreq # 0 \/ local_trigger_step > 1
       THEN /\ version' = version + 1
            /\ local_trigger_step' = 1
            /\ trainer' = "waitValid"
       ELSE trainer' = "done" /\ UNCHANGED <<version, local_trigger_step>>
    /\ UNCHANGED <<flagVars, feedVars, cancel_queue, staleness_samples, lock,
                   procVars, taskVars, otherVars, syncVars, queueVars, batch,
                   trained, discarded>>

(* wait_last_valid, then sync_weights, whose first call is pause().        *)
TrainerSyncs ==
    /\ trainer = "waitValid" /\ LastSyncDone
    /\ trainer' = "syncing"
    /\ sync' = "pauseCall"
    /\ current_version' = version
    /\ UNCHANGED <<flagVars, feedVars, cancel_queue, staleness_samples, lock,
                   procVars, taskVars, otherVars, counted, servers_paused,
                   rollout_version, queueVars, final, batch, trained, discarded,
                   local_trigger_step, version>>

TrainerFinishes ==
    /\ trainer = "lastValid" /\ LastSyncDone
    /\ trainer' = "done"
    /\ UNCHANGED <<flagVars, feedVars, cancel_queue, staleness_samples, lock,
                   procVars, taskVars, otherVars, syncVars, queueVars, final,
                   batch, trained, discarded, local_trigger_step, version>>

Trainer == TrainerGets \/ TrainerTrains \/ TrainerCloses \/ TrainerSyncs
           \/ TrainerFinishes

-----------------------------------------------------------------------------
(* Everybody has returned.  After a crash of the processor the feeder may  *)
(* stay blocked on a full pending_queue for ever.                          *)
Terminated ==
    /\ trainer = "done" /\ main = "exited" /\ monitor = "exited" /\ Running = {}
    /\ UNCHANGED vars

Next ==
    \/ FeedSamples \/ Processor \/ Monitor \/ Main \/ Sync \/ Trainer
    \/ \E s \in Samples : Task(s)
    \/ Terminated

(* Every coroutine that can run is eventually scheduled by its event loop, *)
(* every generation task and every RPC eventually completes.               *)
Fairness ==
    /\ WF_vars(FeedSamples) /\ WF_vars(Processor) /\ WF_vars(Main)
    /\ WF_vars(Monitor) /\ SF_vars(Sync) /\ WF_vars(Trainer)
    /\ \A s \in Samples : WF_vars(Task(s))

Spec == Init /\ [][Next]_vars
FairSpec == Spec /\ Fairness

-----------------------------------------------------------------------------
(* Where the samples are.                                                  *)
Places(s) ==
    {<<"pending", i>> : i \in {j \in DOMAIN pending_queue : pending_queue[j] = s}}
      \cup {<<"cancelled", i>> : i \in {j \in DOMAIN cancel_queue : cancel_queue[j] = s}}
      \cup {<<"queued", i>> : i \in {j \in DOMAIN mq : mq[j] = s}}
      \cup {<<"batch", i>> : i \in {j \in DOMAIN batch : batch[j] = s}}
      \cup {<<place[1], 0>> : place \in
              {p \in {<<"held", {held}>>, <<"generating", generating>>,
                      <<"bounced", bounced>>, <<"putting", putting>>,
                      <<"dropped", dropped>>, <<"trained", trained>>,
                      <<"discarded", discarded>>} : s \in p[2]}}

(* Fetched from the feeder and not yet fetched by the trainer.             *)
Outstanding ==
    Running \cup Range(cancel_queue) \cup ((Range(mq) \cup {held}) \cap Samples)

-----------------------------------------------------------------------------
(* Safety.                                                                 *)

(* Every sample the feeder has handed out is in exactly one place: no      *)
(* interleaving of submissions, cancellations, pauses, evictions and       *)
(* batches duplicates one, and none but those whose generation raised is   *)
(* lost without a trace.                                                   *)
SampleInOnePlace ==
    /\ \A s \in Samples : Cardinality(Places(s)) <= IF s <= fed THEN 1 ELSE 0
    /\ Cardinality({s \in Samples : s <= fed /\ Places(s) = {}}) = faults

(* Freshness control: the samples in generation or generated, but not yet  *)
(* fetched by the trainer, exceed max_required_samples by at most the one  *)
(* the processor holds while update_param_version recounts; and the weights *)
(* that completed a sample of a batch are older than those being trained   *)
(* by less than max_required_samples / samples-per-sync versions and two   *)
(* more: the queue holds max_required_samples, one version is in training, *)
(* and a task started in the middle of a synchronization is labelled with  *)
(* the version that this one replaces.                                     *)
AgeBounded ==
    /\ Cardinality(Outstanding) <= MaxRequiredSamples + 1
    /\ \A s \in Range(batch) :
        (version - label[s] - 2) * SamplesPerSync < MaxRequiredSamples

(* After a run without failures nothing is left over but an incomplete     *)
(* last batch: every other sample was trained or evicted, none came after  *)
(* the None at which the trainer stopped.                                  *)
CleanFinish ==
    trainer = "done" /\ proc = "exited" /\ faults = 0 =>
        /\ trained \cup discarded \cup dropped = Samples
        /\ Cardinality(discarded) < RequiredSamples

(* staleness_threshold = 0 is synchronous training (README.md): a batch is *)
(* trained by the very weights that generated it ...                       *)
OnPolicy == \A s \in Range(batch) : label[s] = version

(* ... and the rollouter takes no more samples than one synchronization    *)
(* consumes (the general claim is max_required_samples), which makes the   *)
(* eviction of put_sample unnecessary.                                     *)
OutstandingCapped == Cardinality(Outstanding) <= MaxRequiredSamples /\ dropped = {}

(* Weights are only transferred while no sample is being generated: pause  *)
(* waits for the running tasks and no new one starts before resume.        *)
NoTransferWhileGenerating == sync = "transfer" => generating \cup putting = {}

(* The processor never dies on its own re-check of active_tasks.           *)
NeverCrashes == faults = 0 => proc # "crashed"

-----------------------------------------------------------------------------
(* Liveness.                                                               *)

(* The training run ends: no pause, full queue, interrupted sample or lost *)
(* wake-up leaves the trainer waiting for ever.                            *)
Finishes == <>(trainer = "done")

(* Every pause of the rollouter ends, by the monitor or by resume().       *)
RolloutRecovers == paused ~> ~paused \/ proc = "exited"

-----------------------------------------------------------------------------
(* The pipeline uses its message queue as a lossy FIFO: every sample is    *)
(* put at most once and reaches the trainer in the order it was put.       *)
Fifo == INSTANCE LossyFifo WITH
            Messages <- Samples \cup {EndSignal},
            Capacity <- MaxQueueSize,
            buffer <- mq,
            received <- trained \cup discarded \cup Range(batch)
                          \cup (IF trainer = "closing" \/ final
                                THEN {EndSignal} ELSE {}),
            lost <- dropped
ImplementsLossyFifo == Fifo!FifoSpec
=============================================================================
