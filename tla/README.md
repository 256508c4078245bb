# A verification of RLCM in TLA+

RLCM trains language models to estimate their own confidence with reinforcement
learning (on top of a vendored `verl`) and evaluates the resulting checkpoints.
Most of the code computes numbers. The parts modelled here are the ones where
*control* decides whether the result is right: actors, queues, pauses, locks,
retries, files that outlive a process.

Paths below are relative to the repository. `FA/` stands for
`verl/verl/experimental/fully_async_policy/`.

## 1. Inventory

### 1.1 Fully asynchronous policy (`FA/`)

Training and generation run at the same time on separate GPUs.

| Component | State | Operations | Talks to |
|---|---|---|---|
| Message queue (`message_queue.py`), a Ray asyncio actor | deque bounded by `max_queue_size`, `running`, counters, current version, validation side queue, one lock and one condition | `put_sample` (evicts the oldest when full), `get_sample` (sleeps on the condition), `update_param_version`, `clear_queue`, `shutdown`, `put_validate`, `get_validate` | rollouter puts, trainer gets |
| Rollouter (`fully_async_rollouter.py`), a Ray asyncio actor | `paused`, `running`, `monitor_loop_trigger`, `staleness_samples`, `pending_queue`, `cancel_queue`, `active_tasks`, one `asyncio.Lock` with a condition | feeder, processor, one task per sample, monitor, main; RPCs `pause`, `update_param_version`, `resume` | queue, servers, synchronizer |
| Servers (`vllm_rollout/`) | `paused`, and per request a cancellation event and the output so far | `generate_for_partial`, `cancel`, `resume` | agent loops, manager |
| Agent loops, worker and manager (`agent_loop/`, `../agent_loop/`) | per row the response so far, its agent state, `is_cancel` and version labels; the worker's `cancellation_event` | run the rows of a sample, interrupt them, go on with them; broadcast cancel and resume | servers, rollouter |
| Trainer (`fully_async_trainer.py`) | batch under assembly, `local_trigger_step`, `current_param_version` | fetch a batch, train, trigger a synchronization, close down | queue, synchronizer |
| Checkpoint engine (`checkpoint_engine.py`, `fsdp_workers.py`) | per rank: buckets in host memory, a device buffer, a receive buffer of two halves, a socket to a loading thread | register the weights, broadcast bucket by bucket, load | synchronizer starts it on all ranks |
| Validation (in rollouter and trainer) | the running `validate_task`, the queue's validation side queue | validate in `update_param_version` or in a task beside it, put a result, fetch one per training step | queue |
| Parameter synchronizer (`param_sync.py`) | the handle of the last asynchronous call | `sync_weights`, `wait_last_valid` | trainer calls it; it calls the rollouter |
| Task runner (`fully_async_main.py`) | the two `fit()` futures | initial synchronization, then both at once | all |

How they interact. The feeder puts samples into `pending_queue`; the processor
takes them (interrupted ones first), waits while too many run or the rollouter
is paused, and starts a task for each. A finished task puts its sample into the
message queue. The trainer collects `require_batches * ppo_mini_batch_size` of
them, trains, and after `trigger_parameter_sync_step` steps has the synchronizer
pause the rollouter, transfer weights, announce the new version (which recounts
the staleness) and resume. The rollouter also pauses *itself* when too many
samples are outstanding; a monitor polls every ten seconds and ends that pause.
After the last sample "DONE" travels through `pending_queue` and None through
the message queue, and the trainer stops at it.

With partial rollout `pause()` does not wait for generations to end: it tells every
server and the agent-loop worker to cancel, a server answers the requests it has
with what was generated so far and refuses new ones, and the sample's task, which
gathers its rows, puts the sample into `cancel_queue`. A later task goes on with the
rows that were interrupted and keeps the others.

The transfer is a collective of all actor and rollout ranks: each parameter belongs to
a bucket of one actor rank, whose owner broadcasts it; a rollout rank hands
it to its loading thread while the next one arrives in the other half of the buffer.
`update_param_version` and `resume` run on the rollouter without anybody waiting,
validate (before the next weights come, or beside generation), and send the result
to the trainer, which fetches one per step.

What is hard. Seven kinds of coroutine share the rollouter's flags, and several
hold values across an await or across the wait for the lock: the monitor's
decision to end a pause, the processor's sample in hand, the two local terms of
the recounted staleness, the emptiness of `active_tasks`. Two parties can pause
and two can resume, with different reasons. The trainer's version moves before
the rollouter's. Everything that may block (the queue's getter, the pause,
`wait_last_valid`) must be unblocked by someone. A request may reach a server after
the cancellation did, and a cancellation a request that has just ended.
Two threads share a buffer; two worker groups meet at barriers.

What makes it correct. No sample is lost, duplicated or left behind; samples
arrive in the order they were put; the trainer never sees samples older than the
staleness threshold promises; weights are not exchanged under a running
generation; nobody sleeps for ever; the run ends. An interrupted response goes on where it
stopped, and its tool calls are run like those of any other. No bucket is overwritten before it is loaded,
rollout ranks serve one announced version, and each version's validation
result is that version's and is logged.

### 1.2 Evaluation pipeline (`scripts/eval/`)

`evaluate.py` merges a checkpoint, runs up to four stages per dataset
(rollouts, budget_eval, hidden, probe), each a script with one output file, and
computes `results.json` with `natural_eval.py`. State: the merge directory, one
output and one `.<stage>.done` marker per stage, the results. Operations: a run
with options `--force`, `--dry_run`, `--skip_merge` and a choice of datasets.
Only files outlive a run, and a run may die anywhere.

What is hard: a sequence of runs with different options, interrupted anywhere,
must neither mix outputs that do not belong together nor repeat or destroy work
that is finished. What makes it correct: results from matching outputs, finished
outputs untouched, and a rerun that gets through.

### 1.3 The RLCM trainer (`verl/verl/trainer/ppo/forced_output/`)

`ForcedOutputTrainer` extends the PPO trainer: rollouts are truncated, forced to
answer, a probe is trained on hidden states and its confidence enters the
reward. State that outlives a step: actor weights, probe weights, dataloader
state, the checkpoint tracker. Hard: a crash between the several files of one
checkpoint, and the removal of older ones. Correct: a restart finds a checkpoint,
a recent one, and its actor, probe and dataloader belong together.

The reward of one step is a pipeline too: truncation points from relative or
absolute budgets, scores of several forced answers per point and of the natural
trace, a mask of unanimous groups, the probe's predictions for all samples in one
flat tensor, its margins, and the advantage. What is hard: samples have different
numbers of truncation points, some none; the mask is computed before and used after
the probe's reward. What makes it correct: each sample is rewarded from its own
positions, filtered groups teach nothing, a right trace beats a wrong one.

### 1.4 Reward loop (`verl/verl/experimental/reward_loop/`)

A worker scores the samples of a batch concurrently. `RateLimitedRewardManager` puts
each through two token buckets (requests and tokens per minute), a semaphore and a
timeout, in the event loop or in a thread pool; `disrm` posts to a reward model with
retries. State: tokens and `last_update` of each bucket, the semaphore, the busy threads.
What is hard: tasks that sleep until their tokens are there and compete when they wake,
requests larger than a bucket, threads that outlive their timeout, exceptions out of a
gather. What makes it correct: the rates are kept, places are given back exactly once,
and the batch ends.

### 1.5 The rest

Candidates, see section 6: the one-step-off policy and sequence balancing. Not planned,
because a state model would add nothing: the model definitions, kernels and Megatron
patches (numerics), the single controller and the workers (dispatch glue), launch
scripts and data conversion (stateless), the other checkpoint engines (the same double
buffer over other transports). `PROJECT.json` lists each component with its status.

## 2. Modules

| Module | Models |
|---|---|
| `LossyFifo` | abstract: a bounded FIFO that never blocks a sender and loses its oldest message when full |
| `MessageQueue` | the queue actor; implements `LossyFifo` |
| `MessageQueueProofs` | theorems about it |
| `FullyAsync` | rollouter, servers as the rollouter sees them, message queue, trainer, synchronizer and task runner together; its queue implements `LossyFifo` |
| `FullyAsyncProofs` | theorems about it |
| `EvalPipeline` | `evaluate.py` over any number of runs |
| `EvalPipelineProofs` | theorems about it |
| `ForcedOutputCheckpoint` | saving, removing and resuming the checkpoints of the RLCM trainer, with crashes |
| `ForcedOutputCheckpointProofs` | theorems about it |
| `PartialRollout` | interruption and continuation of generations: rollouter, manager, agent loops, servers |
| `PartialRolloutProofs` | theorems about it: quiet transfers, whole responses and their labels |
| `WeightServing` | abstract: the rollout ranks serve one announced version, and nothing changes while they serve |
| `WeightTransfer` | the checkpoint engine, rank by rank, thread by thread |
| `ParameterSync` | extends `WeightTransfer` by trainer, synchronizer, rollouter and validation; implements `WeightServing` |
| `ParameterSyncProofs` | theorems about it |
| `RewardLoop` | a reward worker's batch, the limiter and the reward model's retries |
| `RewardLoopProofs` | theorems about it |
| `ForcedOutputRewards` | one step of the RLCM trainer from the traces to the advantages |
| `ForcedOutputRewardsProofs` | theorems about it |
| `MC...` | the instances TLC checks; the constants are in the `.cfg` files |

Some definitions are preceded by a variant that is used by nothing (`NotifiesNobody`
before `NotifyAll`, `PauseEndsAtOnce` before `PauseEnds`, ...). Each is a mistake one
could make in that piece of code, and each has been substituted for the
definition after it to see that a property then fails: `PROJECT.json`, "mutants",
lists which one. No specification uses them.

### 2.1 MessageQueue

The actor's methods are coroutines of one event loop and run under one lock; the
only await inside a body is the condition wait of `get_sample`. So each method
is one action (`PutSample`, `GetSample`, `UpdateParamVersion`, `ClearQueue`,
`Shutdown`, `PutValidate`, `GetValidate`) and a blocked `get_sample` is
`getter[c]`: "waiting", or "notified", in which other calls may run before it
(`WakeUp`). `sent`, `received`, `lost` and `cleared` record what happened and
influence nothing. Fairness: a woken coroutine eventually runs. Calls carry none.

### 2.2 FullyAsync

Coroutines interleave only at awaits, so an action is the code between two
awaits and a program counter (`proc`, `monitor`, `main`, `sync`, `trainer`) says
where each stands.

* *The lock.* An `asyncio.Lock` is fair and is taken without yielding when free.
  `lock` lists its holder and then the queue. A pc ending in "Call" reaches
  `async with` next, one ending in "Lock" is queued. Since the decision that
  leads to the lock and the section under it are separate actions exactly when
  the lock is taken, the stale decisions of section 1.1 are all there.
* *The processor.* Its three draining loops are one operator, `DrainLoop(why,
  sample, n, q)`; `held` is the sample it has taken and not yet submitted;
  `done_bound` tells whether the local name `done_tasks` has been assigned, which
  matters at `FA/fully_async_rollouter.py:510`.
* *Tasks.* `active_tasks` keeps finished tasks until `asyncio.wait` or `pause()`
  removes them: `ActiveTasks` is the running ones plus `finished`. In partial mode
  a task interrupted by `pause()`, or started while the servers refuse work
  (`bounced`), puts its sample into `cancel_queue`.
* *The recount.* `UpdateBegins` reads `LocalStaleness`, `UpdateCounts` writes it
  after the queue's size was awaited. The version it announces is the one
  `sync_weights` was called with (`current_version`), not the trainer's at that time.
* *Left out.* Payloads, losses, statistics, validation, checkpoints. The transfer
  of weights is one step here (bucket by bucket in `ParameterSync`), and a cancellation
  too (message by message in `PartialRollout`). The feeder stops where it would block. `Init` is the
  state after the task runner's initial synchronization.

Fairness (`FairSpec`). Weak fairness of every coroutine, task and trainer step:
an event loop schedules what is ready, a generation ends (or raises), a Ray call
returns, a ten-second sleep is over. Strong fairness of `Sync`: its step at the
lock may be disabled by whoever has the lock, but the loop runs every ready
coroutine and the lock is handed over in order, so it is not overtaken for ever.

### 2.3 EvalPipeline

An output is its extent ("all", "short": ends after a record and nobody notices,
"cut": ends inside one and its readers raise) and its lineage: the run that wrote
the rollouts, then the run of each stage up to this one. The scripts compute first
and then open their output in place (`ScriptOpens`, `ScriptCloses`), so an interruption
between the two leaves an empty file or a part. `_is_done` looks at the output
only and backfills the marker. `merge` distinguishes a torn merge ("config": the
first file written, which is all a later run looks at). `Interrupt` is a kill or a
failing script at any point. Fairness: a run goes on (`Proceeds`). Starting a run is
the user's choice and has none.

### 2.4 ForcedOutputCheckpoint

On disk: for each step the actor, `data.pt` and `probe.pt` of its folder, each
missing, torn or whole, and the tracker. In the process: the step and the live
states of actor, dataloader and probe. A state is told from another by its *history*:
the number of the run in which each of its steps was made. Two states belong
together when their histories are equal; a probe that was started afresh has a
suffix of the actor's history. `Mixed` marks an actor whose shards are of two saves.

`phase` says which piece of a save is due: `EnsureCapacity`, `ActorSaved`,
`DataSaved`, `TrackerWritten`, `ProbeSaved`, in the code's order, each complete when
its action is taken. `Crash` may come at any moment and leaves what was being written
old, torn or complete. The manager's `previous_saved_paths` starts empty in each
run, so a run removes only what it has saved itself. `resume_mode` is "auto" or "disable";
`rewriting` records that a run ignored checkpoints that were there, after which its
files and theirs share folders and nothing is promised. `probe_lost` records a crash
after the tracker named a folder that had no probe yet.

Left out: the critic (saved like the actor), asynchronous saves (which write no
tracker), remote copies, `resume_path`, `save_freq <= 0` (nothing is saved). `LastStep`
stands for steps per epoch times epochs. `max_actor_ckpt_to_keep` is the variable
`max_ckpt_to_keep`, one of `KeepLimits` and the same in all runs of a behaviour; `null` is 0.
There is no fairness: nothing is said of when a crash ends.

### 2.5 PartialRollout

The rollouter appears as `phase` (of a synchronization) and `paused`; the monitor may
end the pause while the weights are exchanged, so samples are submitted then as well.
`todo` holds whoever has still to get the broadcast of `cancel` or `resume`: servers and
worker get it in any order. A row (`Trajectories`) is an agent loop with a program counter; between
"asking" and "generating" its request is on the way, as long as it likes. A server's
section under its lock awaits nothing, so it is one action, and so is what follows
`asyncio.wait`. `IsCancel` is `generation_handle not in done`, looked at when the
wait returns: a cancellation that arrives after the last token changes nothing.

A token is its turn, its position and the version of the weights; what the model says is
the constant `Script`. The single-turn loop takes a new request id in every run and
so may be sent to any server; the tool loop keeps its id and with it the
server. `HandleGenerating` looks for tool calls in the tokens of the
last call only, as the code does.

Fairness: event loops run what is ready, requests arrive, the engine goes on, and a
synchronization that has begun is carried through. There is none for `Submit`. The processor is in
`FullyAsync`, and the code does not promise that it takes an interrupted sample again: it stops once it
has seen "DONE", whatever is left in `cancel_queue` (`FA/fully_async_rollouter.py:527-539`), and at the staleness
limit it may starve (`partial_starves`). `EveryTaskEnds` therefore speaks of tasks, not of samples:
whoever is active is put into the message queue or taken back.

### 2.6 WeightTransfer, ParameterSync

`at[rank]` is where a rank's main thread is and `consumer[rank]` its loading thread; the
REQ/REP socket is `request` and `reply`, a buffer holds the parameters of one bucket in one
version (`Garbage` for what was never written). Packing is computed from the sizes of the
parameters as the code does (`Pack`, `packed`). Broadcasts are the sequence `wire`, which every
rank reads at its own pace; a barrier counts arrivals. With `overlap` a bucket goes to the
thread, without it is loaded in place.

`ParameterSync` adds the thread that drives it all (task runner, then trainer), whose `pc` is
blocked in `transfer` until the rollout ranks are done, and the rollouter's `update_param_version`
and `resume`, which run behind its back. A validation result is its label and
the versions that were loaded while it was computed. `WeightServing` hides all of it: servers may be
loaded while paused only, and resumed only with one version everywhere, the announced one.

`monitor_loop` is here too (`monitor`): it decides to end the pause when the trigger is set and there is no
reason to wait (`MonitorDecides`), and sets `paused` to false when it gets the lock
(`MonitorResumes`), be it in the middle of a transfer that has begun meanwhile. With `partial_rollout` the servers refuse
until `resume()`, so nothing is generated. Without it new samples are: `monitor = "ended"` marks that
pause, and `InService`, on which `WeightServing` is mapped, is false from there to its `resume()`. In
this one case the code does not do what `WeightServing` says, and nothing is claimed of it.
The lock is fair, so an `update_param_version` that comes after the monitor's request waits for it.

Fairness: trainer, rollouter, validation and both threads of every rank go on when they can, and so does
a monitor that waits for a free lock. Whether it decides at all depends on its sleeps and is left open.

### 2.7 RewardLoop

Time is relative: `left[s]` ticks until a task is due, `elapsed[b]` ticks since a
bucket's `last_update`, and a bucket gains one token per tick. `Tick` cannot pass a due
task. A step is the code between two awaits; a task that sleeps and one that waits
for the semaphore compete in any order. `running` are the threads that execute a reward function, also
those whose request has timed out, and those of earlier batches (`Earlier`) that still have not returned when this one
begins. The responses are decoded in the same executor, so a sync function that never returns can keep a thread from
`Decode`. `spent` is a history variable that influences nothing: the
largest amount granted in any window up to now beyond what the window brings.
Fairness: the loop runs what is due, time passes, a free thread takes what is queued. Of what is
`Outside` nothing is assumed: a reward function, a thread or a request to the reward model may never
return. What ends the wait for a reward function is its timeout. Two waits have none, and
`BatchEnds` names them: the answer of the reward model (`ClientTimeout(total=None)`), and the decoding while
calls of earlier batches have all the threads.

### 2.8 ForcedOutputRewards

One action per stage of the step (`Generate` per sample, `ComputeRewards`, `AddProbeReward`,
`ComputeAdvantage`, `NextBatch`). Rewards are integers with `Unit` for 1.0, chosen so that every
division is exact; for the means of confidences `UnitAssumption` says how fine it has to be (each confidence is a
multiple of every number of truncations a trace can have), and TLC checks it on the instance. The probe's predictions are arbitrary numbers per sample and position, laid out in one
flat sequence as the code does (`Predictions`, `Offset`). Scoring functions are outcomes ("right",
"wrong", "raises"; `Outcomes`). An advantage is the centered reward times the size of the
group: the positive factors (standard deviation, `1/(1-confidence)`) do not change the sign or
the order the properties speak of.

## 3. What is checked

State counts are distinct states. `MC...` is the module, the `.cfg` the instance.

| Run | Instance | Properties | Shows |
|---|---|---|---|
| `message_queue` | 4 samples, capacity 2, 2 getters; 112,728 states | `TypeOK`, `QueueIsNewest`, `NoLostWakeup`, `EverySampleCounted`, `GettersLeaveAfterShutdown`, `ImplementsLossyFifo` | order, accounting and wake-ups under eviction, clearing, shutdown and barging getters |
| `async_stale` | threshold 0.5: 9 samples, 2 per batch, limit 3; 2,823,174 states | `TypeOK`, `AgeBounded`, `CleanFinish`, `ImplementsLossyFifo` | the asynchronous mode is sound, whatever the interleaving: bounded age, nothing left over, one FIFO |
| `async_partial` | partial rollout: 6 samples, one server slot, limit 4, one generation may raise; 190,173 states | `SampleInOnePlace`, `NoTransferWhileGenerating`, `Finishes` | interruption, continuation and a failure lose only the failed sample; here the servers' refusal keeps transfers quiet |
| `async_synchronous` | threshold 0: 6 samples, limit 2; 2,814 states | `OnPolicy`, `OutstandingCapped`, `Finishes` | with threshold 0 the mode is what the README calls synchronous: one version per batch, no sample over the limit, no eviction; and it terminates |
| `partial_rollout` | 1 sample of 2 rows, 2 servers, both loops, response lengths 1, 3 and 6; 560,193 states | `QuietTransfer`, `ResponsesWhole`, `LabelsBound`, `EveryTaskEnds` | however requests, cancellations and resumptions cross: quiet transfers, no token lost or repeated, every tool call run that no interruption cut, honest version labels, and no task that hangs |
| `parameter_sync` | 2 actor ranks, 1 rollout rank, 3 parameters, 4 steps, with and without partial rollout; 290,786 states | `TypeOK`, `HandedOverKept`, `ResultsOfOneVersion`, `EveryResultLogged`, `ImplementsWeightServing`, `Finishes` | no bucket is overwritten before it is loaded, the servers hold the one announced version (but where the monitor ends a pause early), serial results are sound and all logged, training ends |
| `reward_loop` | 3 requests, one bucket smaller than a request, one place, two threads, up to two calls left over from earlier batches; 71,187 states | `RateKept`, `PlacesKept`, `BatchEnds` | rates and places are kept under timeouts, exceptions and oversized requests; the batch ends but for two waits without a timeout |
| `forced_rewards` | 2 prompts of 2 traces, six configurations; 360,586 states | `TruncationsSound`, `UnanimousTeachNothing`, `ProbeReadsOwnTrace`, `RightBeatsWrong` | the reward pipeline rewards what it says; with a probe of moderate weight right beats wrong |
| `eval_pipeline` | 2 datasets, 3 runs, 1 interruption; 170,203 states | `ResultsSound`, `InputsReady`, `FinishedKept`, `Completes` | caching never mixes or rewrites outputs, no stage misses its input, and a rerun over all datasets finishes |
| `forced_checkpoint` | 5 steps, saved every 2, one or two actors kept, 3 runs; 670,441 states | `ResumesTogether`, `RestartLosesLittle`, `NamedCheckpointKept` | what is trained together belongs together after any crashes; the checkpoint to resume from is there and recent, but inside a save with one actor kept |

The type invariants of `EvalPipeline`, `ForcedOutputCheckpoint`, `RewardLoop` and `PartialRollout`
are proved for all constants (section 4) and not run.

`AgeBounded` is the property the freshness control exists for. Its bound,
`(version - label - 2) * samples-per-sync < max_required_samples`, is argued so: at
the time a sample gets into the queue at most `max_required_samples` are in it, each
synchronization consumes its share of them, the version in training is one ahead of the last one
synchronized, and one version more comes from a task that is started in the middle of a
synchronization and labelled with the version which that one replaces. A bound tighter
by one version holds of runs with up to 7 samples and is not true: with 9 samples, 2 per batch
and limit 3 age 3 is reached, which is why `async_stale` has 9. The first half allows one outstanding
sample more than `max_required_samples`, the cap that `FA/README.md:139` gives: the recount in
`update_param_version` counts the tasks and both queues, but not the sample the processor
holds at that moment. With threshold 0 the cap itself holds (`OutstandingCapped`).

`LabelsBound` has a similar slack of one version: a task the monitor lets through during a
synchronization is labelled with the old version and served with the new weights.

Runs that show a disagreement between the code and what it says of itself
(`PROJECT.json`, "findings", quotes both sides):

| Run | Violated | Because |
|---|---|---|
| `processor_crash` | `NeverCrashes` | `pause()` empties `active_tasks` while the processor queues for the lock; `done_tasks` may be unbound |
| `partial_starves` | `RolloutRecovers` | bounced tasks are counted twice (done task and cancelled sample); once that reaches the limit with an empty queue, everybody waits |

`partial_starves` and `async_partial` differ in one respect: with two slots and
limit 4 the double count can reach the limit, with one slot it cannot.

### Also met while modelling

These are in the models, as the code does them, without a run of their own:

* `NoTransferWhileGenerating` does not hold of the non-partial asynchronous mode: the
  monitor decides to end a pause before it queues for the lock, and a synchronization that
  got the lock first has its pause ended (`MonitorDecides`, `MonitorResumes`; compare `FA/README.md:237`).
* Samples interrupted after the processor began to wait for "DONE" stay in
  `cancel_queue` when the run ends (`ProcAwaitsPending`; compare `FA/README.md:246`).
* A tool call that an interruption cuts in two is never run, because the parser sees the
  tokens of the last call only; the sample ends with it, without the tool's answer, as no
  uninterrupted one does (`HandleGenerating`; `FA/agent_loop/partial_tool_agent_loop.py:220`).
  `ResponsesWhole` excepts this case by the versions of the tokens (`UncutCall`); without the
  exception TLC finds it violated.
* Without partial rollout the monitor can end a pause while weights are loaded, and samples are generated meanwhile
  (`MonitorResumes`; `FA/fully_async_rollouter.py:711-715`): the exception in `ImplementsWeightServing`.
* With `parallel_validate_and_rollout`, a second validation calls `.get()` on an `asyncio.Task`
  and raises in the middle of a synchronization (`SpawnRaises`;
  `FA/fully_async_rollouter.py:285`, whose message promises to wait). `Finishes` therefore allows "failed" there.
* A non-empty output counts as finished and its marker is backfilled, so a marker
  protects nothing against a torn output (`Backfilled`; compare the repository's `README.md:97`).
* With `max_actor_ckpt_to_keep` 1 the docstring at `checkpoint_manager.py:148-149` says that "we keep the
  existing checkpoint until the new save completes successfully". What completes is the save of the actor:
  `register_checkpoint` (`:171`) then removes the folder's actor, which the tracker still names, before the new
  checkpoint has `data.pt` and the tracker. A crash in between leaves nothing that a restart would load
  (`Removed`). The instance and the proofs include this limit; `RestartLosesLittle` (`OneKept`) and
  `NamedCheckpointKept` (`Superseded`) state the exception, and without it TLC finds both violated.
* `_post_request` says "It's safer to have a timeout instead of None, which can hang indefinitely" and passes None
  (`reward_loop.py:129-130`): a reward model that stays silent holds up the batch for ever (`Post`, and the
  first exception of `BatchEnds`).
* One timed-out or failed request has other keys than the rest and makes the whole batch
  raise `KeyError` (`Aggregate`; `reward_loop.py:308`). The limiter calls itself shared globally and is shared within one process.
* "Least requests" counts all requests ever assigned to a server, not those in progress.
* The budgets are fractions of the trace's own length, not of the maximal length (`README.md:124`).
* The KL penalty comes after the mask of unanimous groups, whose samples then differ again;
  `UnanimousTeachNothing` excludes it. With `c2gspg` and without `include_natural_trace` all labels are
  zero (`Labels`; `forced_output_trainer.py:1128`), so `RightBeatsWrong` asks for the natural trace.

### Bounds

* Samples (6 or 9) give at least three synchronizations per run, the number after
  which versions, the recount and the monitor repeat; an incomplete last batch (9
  is odd); and a queue that fills up. Samples are interchangeable up to their order.
* Limits of 2 to 4 with batches of 1 or 2 let `paused` be entered from each reason
  (full queue, staleness, synchronization); slots of 1 and 2 make the
  drain for capacity happen; a `pending_queue` of 1 makes the feeder
  block as often as possible.
* The queue alone: four samples through two slots evict twice; two getters are
  the smallest number that can barge. `MaxVersion` bounds the validation queue and versions.
* Partial rollout: two rows are the least of which one is interrupted and one complete;
  two servers the least that hear of a cancellation at different times and between
  which a row can move. Length 1 cuts a response, 3 leaves room for the call but not for the tool's answer, 6 cuts nothing. Single-turn loops are interrupted up to
  twice (`MaxSyncs`), so that a continued response is interrupted again; tool loops, whose
  states are many more, once.
* Parameter synchronization: sizes of 4, 4 and 2 bytes in buckets of 4 give one actor rank two buckets and
  the other one, so that both halves of the buffer are used and one is reused; four steps with
  a synchronization every two give three versions (the initial one included) and, when
  training stops in between, the final extra one. Both transfer modes, both validation modes, with and without partial rollout.
* Reward loop: a bucket of three tokens, requests that cost two of one and four of
  the other; three requests are the least of which one sleeps off a debt while two compete.
  Both threads may be taken by
  calls of an earlier batch. With a timeout of 5 a call returns before it, exactly then, or never; three attempts are a first, a middle and a last one.
* Rewards: two traces are the smallest group, two groups the least of which one is
  unanimous; traces of 0, 2 and 4 tokens against a response length of 3 are empty, whole and clipped. The
  six configurations (`AllConfigs`) are those of the training scripts and the combinations of filter, full
  trace, absolute budgets and penalty. `Unit = 1728` makes all divisions exact, and the
  confidences are different multiples of 144 strictly between 0 and 1728, as a sigmoid's are.
* Evaluation: one interruption can damage each kind of file, a second run meets the
  damage and a third repairs or uses it. The probe dataset is one of two, so that
  both stage lists occur.
* Checkpoints: five steps with a save every two (and at the last step, and whenever the
  machine is about to expire) give three saves in a run, the least that removes something with two kept; a
  third run sees what a crash of a resumed run has left. With one kept every save removes the last one.
* Deadlock is checked except where the system stops on purpose: no further
  evaluation or training run, and `partial_starves`, whose subject is the standstill itself.

## 4. What is proved

`MessageQueueProofs`, for every set of samples and of getters, every capacity
`>= 1` and every bound on versions (`MaxQueueSizeAssumption`,
`MaxVersionAssumption`): `QueueInvariant` and from it `TypeCorrect`,
`QueueBounded`, `QueueHoldsNewest`, `WakeupsNotLost`, `SamplesCounted`, and
`Refinement`: the actor implements `LossyFifo`. The checked invariants are
together almost inductive. `QueueInv` adds `OnlySent`, that nothing is queued,
received or lost that was not put: without it the refinement could not know that a
payload new to the actor is also new to the abstract queue. The proof has one step per action
and in each one step per conjunct; facts about `Range`, `Tail` and `Append` are
lemmas, and `EvictionFacts` and its like say once what an eviction does to the
queue and to the order.

`FullyAsyncProofs`, for any number of samples, batch, queue and slot sizes, numbers of
failing tasks and frequencies (`SizesAssumption`): `Typed`, `NoSampleTwice`, `Fresh` and
`PipelineFifo` in either mode. None of the properties is inductive. `HeldInv` says what the processor has in
hand at each await. `PlaceInv` says that a sample is in at most one of queues, tasks, hand and batch,
that what the feeder has not handed out is in none, and that what is in none was lost to a
failure; `EndInv` says where the `None` of the main coroutine can be. `StaleInv` bounds what is
outstanding through the recount, with a lemma per coroutine; it needs to know who holds the lock
(`LockInv`). `LabelInv` is the argument about `AgeBounded` above in terms of positions: a sample in the
queue at position i is fetched after i more, and `LastUse` of its label is the number of
samples consumed by then at most. The rest is about one mode each:

* `TransfersInQuiet` assumes `PartialRollout`, `FinishesClean` its opposite. Without partial
  rollout the first is false (see "Also met while modelling"); with it, samples interrupted after
  the last submission stay in `cancel_queue`. `MainInv` and `ExitInv` say what is
  true once the processor has left: no task is running and the `None` is behind all they put.
* `SynchronousOnPolicy` and `SynchronousCapped` assume `MaxRequiredSamples = SamplesPerSync`,
  which is what `staleness_threshold = 0` sets. `Pace` says that the processor has taken at most one
  synchronization's worth of samples per version, `TrainedInv` that the trainer has consumed
  as many; between them nothing of an old version is left when a new one is announced.

`PartialRolloutProofs`, for any samples, rows, servers, scripts and lengths
(`SizesAssumption`, `ScriptAssumption`): `TypeCorrect` and `TransfersQuiet`. That no server generates during
a transfer is not inductive: nothing waits for the requests. `QuietInv` says why it holds all the
same: each server refuses from the moment the broadcast has reached it to the next
resumption (`ServersRefuse`), and a loop that is running belongs to an active task
(`LoopsHaveTasks`), of which none is left when the pause ends. The monitor may let new tasks in
after that; their requests are refused.

From the same assumptions, `ResponsesAreWhole` and `LabelsHold`. At any time what
a trajectory has is spread over what its loop holds, the answer on its way and the
entries at the server; `WholeInv` says that the three together are a response so far
(`Chain`), that a loop asks only in the middle of a turn and runs tools only at the end of one
(`Resumable`), that an interrupted answer can be gone on with, and, for the labels, that
the weights are at most one version ahead of the label of an active task (`VersionInv`, which needs
that a transfer begins with none). For the tool calls, `CallsInv` looks at the tokens of one turn and one version
(`Apart`, `Clear`): they come from answers without an interruption between them, so a call that is whole among them
was whole in the answer the parser saw, and a loop that went on after it ran it. What is left of a call
without an answer was cut by a synchronization or by the length. Every action is one lemma about the row it
moves; `RowKept` says once that the other rows do not care. What is about sequences is
proved for the tokens of this model (`AppendToConcat`, `ChainGrows`, `ChainPrefix`, `TruncatedFacts`).

`ParameterSyncProofs`, for any number of ranks, parameters, steps and versions:
`ResultsLogged`. One result is fetched per step and one put per synchronization, at a time of
its own. `ResultsInv` says that the labels of what was logged, what is queued and the
update in progress make up the versions announced so far, in order, and that at most one
result is behind when a step begins (two right after a synchronization), because the trainer waits for
the last update before it announces the next.

The rest of `ParameterSyncProofs` is about the weight transfer, for any number of ranks, any sizes of
parameters and either mode: `TypeCorrect`, `BucketsKept` (the double buffer), `ResultsPure` and
the refinement `ServesAnnounced`. Everything rests on `SyncInv`, whose core is `TransferInv`:

* `Local(r)`: where a rank is in the current call says what it holds in host memory (`Memory`),
  on the device (`Device`, the bucket of its last round, which it sends again in no other), in the two halves of
  the buffer (`Buffered`), whose turn it is between its two threads (`Socket`) and what its model has
  loaded so far (`Weights`). A step of another rank leaves it alone (`LocalKept`), so each action is one
  lemma about its own rank.
* `BarrierInv`: counted from the current call, whoever has left a barrier knows that all have arrived at it. This
  is why a rank that registers can reset the wire, and why no rank is still in a transfer once the rollout ranks
  have been served (`ServedIsOutside`), though nobody waits for the actor ranks.
* `WireInv`: a bucket is on the wire exactly when its owner has had its turn, with the version of this call;
  hence what a rank receives is what the owner's list says (`ReceivedIsSent`).

That a served rank has every parameter needs the packing itself: `PackedFacts` and `EveryParameterSent` say
that each parameter ends in a bucket of its rank, and `BroadcastOrder` that every bucket has a turn, those of a
round before those of the next. `packed`, and the library's `FlattenSeq`, are recursive functions over numbers; the
induction is one over a set of numbers (`Least`, `Induction`, from the library's `WFMin`), which the
provers can instantiate where an induction over a predicate is out of their reach. Around the transfer,
`ServingInv` says what was announced and loaded, `ValidationInv` what a validation may have seen, and `CountInv`
that no more results are due than versions were announced. The monitor changes none of this: where it ends a pause
`InService` stays as it was (`MonitorFacts`).

`RewardLoopProofs`, for any number of requests, any costs, also larger than a bucket, any
limits and modes (`LimitsAssumption`): `TypeCorrect`, `RatesKept`, `PlacesHold`. A request larger than its
bucket is granted at once and sleeps off its debt. `BucketInv` says that requests which sleep so
are due at least their cost apart (`Spaced`), none before the bucket is back at zero nor before what was granted
earlier is paid for by time: so whoever pays next sleeps longer than all of them.
`PlacesInv` says that whoever stands in the semaphore's queue is suspended there and stands
there once, so that a place that is handed over is taken.

`EvalPipelineProofs`, for any datasets, modes, numbers of runs and of
interruptions: `TypeCorrect` and `OutputsKept`, that no unforced step changes an output that is
there. The two steps that write a file do not look at it, so the property is not
inductive; it rests on `WriteInv`: while a script runs its output was found empty,
or the run is forced, and while it writes the file is empty (the opening
emptied it). `OneIsNext` (at most one stage is next) connects the check of one
step with the write of a later one. `InputsThere` shows that the three checks of
`evaluate.py` that would raise for a missing input (lines 246, 277, 297) never
have to, which is why the model has no action for them; its invariant `ChainInv` says that
a stage leaves the list of things to do only with an output to show. The datasets need to be numbers
(`DatasetsAssumption`) because they are processed in order.
`ResultsAreSound` shows that what is merged into the results was computed, stage by stage, from what is there
now. A forced run replaces files whose successors are still those of an earlier run, so this is false
for a while, and `LineInv` says for which files it may be: those of stages a forced run that nobody has
interrupted still has to do. `TodoInv` says that the stages to do are closed upwards, `ForceInv`
that those done by a forced run are complete, `WholeInv` that nothing is
torn or short without an interruption.

`ForcedOutputCheckpointProofs`, for any number of steps, runs and crashes, any
save frequency and any number of checkpoints kept, one included:
`TypeCorrect`, `NamedKept` and `TrainedTogether`. `SaveInv` says what each piece of a save may rely on
(`Pieces`), that no folder past the tracker has a probe (`NoProbeAhead`, so a
resumed folder's probe is the right one or none, never one of an abandoned run),
and that the newest remembered path is the tracker's (`PathsInv`, so removal of older
ones spares it, unless one is kept: then the newer actor is whole before the older goes). `NewestFacts` says once what a removal keeps; `Crash` is
proved by the piece it interrupts. `LittleIsLost`: between any two steps the disk
holds a checkpoint that can be loaded, at most `save_freq` steps old, but for the moment `OneKept` names. `Pace` follows the steps since the
last one modulo the save frequency (lemma `Remainder`), through all pieces of a save; `ProbeUntorn` says
that the probe of the folder the tracker names is never torn outside of a crash.

`ForcedOutputRewardsProofs`, for any number of prompts and rollouts, any budgets, traces and
configurations (`ConfigsAssumption`): `UnanimousGroups`, `TruncationsAsked`, `ProbeReadsOwn` and `RightWins`.

* `UnanimousGroups`. `FilterInv` says that `keep` is the set of the mixed samples as soon as the
  groups are graded, whatever the probe adds later. An unanimous group then has one label and one score
  (`OneLabel`); the rollouts of a prompt are neighbours in the batch (`Quotient`, `PlaceInGroup`), and a value that
  all of them have is their mean (`TotalOfOne`, `NothingAboveTheMean`).
* `TruncationsAsked`. `BatchInv` says that a batch is graded when it is complete and each of its
  traces has one set of answers per length. That the lengths are the right ones is about the operators alone
  (`SortedFacts`, `KeptFacts`, `RoundedType`, `TruncationLengthsFacts`): one insertion keeps a sequence in order,
  one step of the loop keeps it free of duplicates, and the rest is induction.
* `ProbeReadsOwn`. `GradedInv` says that the positions, the accuracies and the labels are what the traces say until
  the next batch. The predictions of the batch are joined in one sequence (`Joins`: after each sample it is what it was
  before, and the sample's own), so what begins at the running sum of the lengths and is as long as the sample's
  positions is the sample's own (`Splits`, `OwnPart`), however many budgets the others have. A mean is
  exact because its divisor, a number of positions, is at most the number of budgets and one (`FewPositions`:
  the positions rise strictly, so no two come from one budget), which `UnitAssumption` speaks of.
* `RightWins` has two hypotheses. `Unsaturated`: a confidence is a sigmoid, neither 0 nor 1. `Moderate`: the probe's
  weight is at most one half, unless its reward is a ranking or the advantage is that of `c2gspg`, which looks at the labels only
  (the training scripts use 0.1, and 1.0 with `c2gspg`). Beyond one half the property is
  false: a right trace that loses almost 1 from the probe falls behind a trace without a score that gains almost 1. The
  instance of `forced_rewards` meets both. With budgets of no weight the reward is the
  outcome (`OnlyNatural`, `Bare`); a margin is less than `Unit` in absolute value (`MarginBetween`), also scaled with the
  covariance, which is at most the group's size squared (`CovarianceBetween`, `ShareBetween`); so the order of right and wrong
  survives (`ProbeKeepsOrder`, `Ranked`). Two traces of a mixed group are both kept, or all are, and centering in one group keeps
  the order (`CenteredKeepsOrder`).

The induction theorems of the library take an operator, which the provers cannot instantiate. Where
an induction is needed it goes over a set of numbers instead (`UpTo`: a set that contains 0 and is closed under the
successor contains them all), and that a fold of the community modules exists at all is shown once, for a
function that stands for what it combines (`FoldExists`). This is why `Sorted` is an insertion sort
in the model: the prover does not know the definition of `SortSeq`.

Model-checked only: all liveness (`Finishes`, `GettersLeaveAfterShutdown`,
`EveryTaskEnds`, `BatchEnds`, `Completes`, and `RolloutRecovers`, which TLC refutes), beyond the
prover because of fairness. Every invariant and action property of a passing run is stated by a theorem.

## 5. Not modelled, and why it matters

* `FullyAsync`: payloads, statistics, the dataloader state saved with a checkpoint (it is
  ahead of the samples in flight, and a restart loses them, as the code says).
* `PartialRollout`: interactions and turn limits (further ways to end a row), several
  workers (each has its own event and the same protocol), the SGLang server (the same protocol), prefix
  caches. The entries a request without any token leaves behind in the server are there; they are
  overwritten or never looked at again.
* `ParameterSync`: `use_trainer_do_validate`, the path without the checkpoint engine, the wait for a resumed
  version, and `load_weights` raising in its thread, which leaves the main thread waiting for ever.
* `RewardLoop`: several workers (each has limiters of its own), the router, the other reward managers.
* `ForcedOutputRewards`: Brier and cross-entropy rewards, the margins v2 and v3,
  `train_on_forced_output`, the probe's own training, validation scoring, batch rebalancing and metrics.
* `ForcedOutputCheckpoint`: see 2.4.
* Awaits that are passed over because nothing the properties speak of can happen in them: the queue's size and the
  staleness in `UpdateCounts` (`FA/fully_async_rollouter.py:238-240`), `clear_kv_cache` in `PauseEnds` (`:751-758`). And
  that `natural_eval.py` leaves a dataset without rows at the last budget out of the results (`:127-129`, `:213-215`):
  `NaturalEval` reports every chosen dataset, and `ResultsSound` speaks of all of them.
* `EvalPipeline`: two evaluations of the same directory at the same time, which
  nothing in the code expects, and changes of a dataset or a checkpoint between runs.
* Failures other than a raising generation or reward function, and the crashes of 2.3
  and 2.4: a dead actor ends the whole job. Ray calls have no timeouts that the code handles.

## 6. Plan

What could come next, in this order:

1. The one-step-off policy: the overlap of the next generation with the current update.
2. Sequence balancing: the Karmarkar-Karp partition as recursive functions, checked against a
   reference definition over bounded inputs.
