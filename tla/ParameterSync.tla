---------------------------- MODULE ParameterSync ----------------------------
(***************************************************************************)
(* Parameter versions of the fully asynchronous policy: the trainer's      *)
(* steps, the ParameterSynchronizer, the weight transfer underneath        *)
(* (WeightTransfer), the rollouter's update_param_version with its         *)
(* validation, and the queue that brings the validation results back.      *)
(*                                                                         *)
(* One thread drives it all: the task runner makes the first               *)
(* synchronization, then the trainer's fit() makes the others; it blocks   *)
(* in sync_weights until the rollout ranks have the weights, while         *)
(* update_param_version and resume of the rollouter run behind its back.   *)
(* Samples are left to FullyAsync: here the trainer may always get a batch *)
(* or the end signal.                                                      *)
(***************************************************************************)
EXTENDS WeightTransfer

CONSTANTS
    TriggerSyncStep,    \* async_training.trigger_parameter_sync_step
    TestFreq,           \* rollout.test_freq
    ValBeforeTrain,     \* trainer.val_before_train
    ParallelModes,      \* values of async_training.parallel_validate_and_rollout
    PartialModes,       \* values of async_training.partial_rollout
    MaxSteps            \* bound on the number of training steps

ASSUME StepsAssumption ==
    /\ TriggerSyncStep \in Nat \ {0} /\ TestFreq \in Nat \ {0} /\ MaxSteps \in Nat
    /\ ValBeforeTrain \in BOOLEAN
    /\ ParallelModes \subseteq BOOLEAN /\ PartialModes \subseteq BOOLEAN

VARIABLES
    parallel, partial,  \* parallel_validate_and_rollout and partial_rollout of this run
    stage, pc,          \* the driving thread: task runner, then trainer
    steps, local_trigger_step,
    serving,            \* samples may be generated: no synchronization holds them up
    monitor,            \* of _async_monitor_loop
    rollout_version,    \* the rollouter's current_param_version
    update,             \* the last update_param_version call
    resumed,            \* the last resume() is over
    validation,         \* the validation that runs on the rollouter
    val_queue,          \* results on their way to the trainer
    logged              \* results the trainer has logged

modes == <<parallel, partial>>
trainer == <<stage, pc, steps, local_trigger_step>>
pausing == <<serving, monitor>>
rollouter == <<pausing, rollout_version, update, resumed, validation>>
results == <<val_queue, logged>>
vars == <<transferVars, modes, trainer, rollouter, results>>

NoUpdate == [state |-> "none"]
NoValidation == [state |-> "none"]
Result(v, s) == [version |-> v, seen |-> s]

\* The versions of which some rollout rank holds a parameter.
VersionsLoaded == UNION {Range(model[r]) : r \in RolloutRanks}

Init ==
    /\ TransferInit /\ actor_version = 0
    /\ parallel \in ParallelModes /\ partial \in PartialModes
    /\ stage = "boot" /\ pc = "pause"
    /\ steps = 0 /\ local_trigger_step = 1
    /\ serving = FALSE /\ monitor = "sleeping" /\ rollout_version = 0
    /\ update = NoUpdate /\ resumed = TRUE /\ validation = NoValidation
    /\ val_queue = << >> /\ logged = << >>

-----------------------------------------------------------------------------
(* The driving thread *)

\* A step that ends in no synchronization.
TrainStep ==
    /\ pc = "step" /\ steps < MaxSteps /\ local_trigger_step < TriggerSyncStep
    /\ local_trigger_step' = local_trigger_step + 1
    /\ steps' = steps + 1 /\ pc' = "log"
    /\ UNCHANGED <<transferVars, modes, stage, rollouter, results>>

NextVersionMidCount ==
    /\ actor_version' = actor_version + 1
    /\ local_trigger_step' = local_trigger_step + 1
    /\ pc' = "wait"
    /\ UNCHANGED <<overlap, calls, at, gidx, barriers, buffers, wire, threads, model>>

\* The version moves before the trainer waits for the last update.
NextVersion ==
    /\ actor_version' = actor_version + 1
    /\ local_trigger_step' = 1
    /\ pc' = "wait"
    /\ UNCHANGED <<overlap, calls, at, gidx, barriers, buffers, wire, threads, model>>

TrainAndSync ==
    /\ pc = "step" /\ steps < MaxSteps /\ local_trigger_step >= TriggerSyncStep
    /\ NextVersion
    /\ steps' = steps + 1
    /\ UNCHANGED <<modes, stage, rollouter, results>>

EndOfSamples ==
    /\ pc = "step"
    /\ stage' = "closing" /\ pc' = "settle"
    /\ UNCHANGED <<transferVars, modes, steps, local_trigger_step, rollouter, results>>

NeverWaits == TRUE

\* wait_last_valid; an exception of the update comes out here.
LastUpdateDone == update.state \in {"none", "done"} /\ resumed

WaitsUnlessSettled ==
    /\ pc \in {"wait", "settle"} /\ (pc = "wait" => LastUpdateDone)
    /\ pc' = IF pc = "wait" THEN "pause" ELSE "log"
    /\ UNCHANGED <<transferVars, modes, stage, steps, local_trigger_step, rollouter,
                   results>>

WaitLastValid ==
    /\ pc \in {"wait", "settle"} /\ LastUpdateDone
    /\ pc' = IF pc = "wait" THEN "pause" ELSE "log"
    /\ UNCHANGED <<transferVars, modes, stage, steps, local_trigger_step, rollouter,
                   results>>

WaitRaises ==
    /\ pc \in {"wait", "settle"} /\ update.state = "failed"
    /\ pc' = "failed"
    /\ UNCHANGED <<transferVars, modes, stage, steps, local_trigger_step, rollouter,
                   results>>

\* sync_weights: pause() takes the rollouter's lock, then the workers are called.
LockFree == update.state \notin {"validating", "putting"}

PauseRollouter ==
    /\ pc = "pause" /\ LockFree
    /\ serving' = FALSE
    /\ pc' = "transfer"
    /\ CallTransfer
    /\ UNCHANGED <<fixed, at, gidx, barriers, buffers, wire, threads, model,
                   modes, stage, steps, local_trigger_step, monitor, rollout_version,
                   update, resumed, validation, results>>

\* Neither update_param_version nor resume is waited for.
AnnounceVersion ==
    /\ pc = "transfer" /\ RolloutsDone
    /\ update' = [state |-> "called", version |-> actor_version,
                  validate |-> stage = "final" \/ (stage = "boot" /\ ValBeforeTrain)]
    /\ resumed' = FALSE
    /\ pc' = IF stage = "train" THEN "log" ELSE "settle"
    /\ UNCHANGED <<transferVars, modes, stage, steps, local_trigger_step, pausing,
                   rollout_version, validation, results>>

\* get_validate, called without waiting.
FetchResult ==
    IF val_queue = << >>
    THEN UNCHANGED results
    ELSE /\ logged' = Append(logged, Head(val_queue))
         /\ val_queue' = Tail(val_queue)

LogAndGoOn ==
    /\ pc = "log" /\ stage \in {"boot", "train"}
    /\ FetchResult
    /\ stage' = "train" /\ pc' = "step"
    /\ UNCHANGED <<transferVars, modes, steps, local_trigger_step, rollouter>>

LastSyncNeeded == actor_version % TestFreq # 0 \/ local_trigger_step > 1

LogAndSyncAgain ==
    /\ pc = "log" /\ stage = "closing" /\ LastSyncNeeded
    /\ FetchResult
    /\ NextVersion
    /\ stage' = "final"
    /\ UNCHANGED <<modes, steps, rollouter>>

LogAndFinish ==
    /\ pc = "log"
    /\ stage = "final" \/ (stage = "closing" /\ ~LastSyncNeeded)
    /\ FetchResult
    /\ pc' = "done"
    /\ UNCHANGED <<transferVars, modes, stage, steps, local_trigger_step, rollouter>>

Trainer ==
    \/ TrainStep \/ TrainAndSync \/ EndOfSamples \/ WaitLastValid \/ WaitRaises
    \/ PauseRollouter \/ AnnounceVersion \/ LogAndGoOn \/ LogAndSyncAgain \/ LogAndFinish

-----------------------------------------------------------------------------
(* The rollouter *)

NeedValidate ==
    \/ (update.version % TestFreq = 0 /\ update.version > 0)
    \/ update.validate

ValidationBegins ==
    validation' = [state |-> "running", version |-> update.version, seen |-> VersionsLoaded]

UpdateTo(state) == update' = [update EXCEPT !.state = state]

\* monitor_loop_trigger: cleared by pause(), set by resume().
MonitorLoopTrigger == resumed /\ pc # "transfer"

\* It finds the trigger set and no reason to pause, then waits for the lock;
\* a decision that pause() overtakes was made while pause() had the lock.
MonitorDecides ==
    /\ stage # "boot" /\ MonitorLoopTrigger /\ monitor = "sleeping"
    /\ monitor' = "decided"
    /\ UNCHANGED <<transferVars, modes, trainer, serving, rollout_version, update, resumed,
                   validation, results>>

\* paused = False, whatever has happened since.  That ends a pause too: with
\* partial rollout the servers stay cancelled until resume(), without it
\* nothing holds new samples up.
MonitorResumes ==
    /\ monitor = "decided" /\ LockFree
    /\ serving' = (serving \/ ~partial)
    /\ monitor' = IF serving' # serving THEN "ended" ELSE "sleeping"
    /\ UNCHANGED <<transferVars, modes, trainer, rollout_version, update, resumed,
                   validation, results>>

Monitor == MonitorDecides \/ MonitorResumes

\* update_param_version up to the end of its first part.  The lock is fair,
\* and the monitor asked for it before.
UpdateParamVersion ==
    /\ update.state = "called" /\ monitor # "decided"
    /\ rollout_version' = update.version
    /\ IF NeedValidate /\ ~parallel
       THEN UpdateTo("validating") /\ ValidationBegins
       ELSE /\ UpdateTo(IF NeedValidate THEN "spawning" ELSE "putting")
            /\ UNCHANGED validation
    /\ UNCHANGED <<transferVars, modes, trainer, pausing, resumed, results>>

\* _validate blocks the event loop of the rollouter.
Validated ==
    /\ update.state = "validating"
    /\ UpdateTo("putting")
    /\ UNCHANGED <<transferVars, modes, trainer, pausing, rollout_version, resumed,
                   validation, results>>

PutValidate ==
    /\ update.state = "putting"
    /\ val_queue' = Append(val_queue,
           Result(update.version, IF validation # NoValidation /\ ~parallel THEN validation.seen ELSE {}))
    /\ validation' = IF parallel THEN validation ELSE NoValidation
    /\ UpdateTo("done")
    /\ UNCHANGED <<transferVars, modes, trainer, pausing, rollout_version, resumed, logged>>

\* A second task begins only when the first is done(); otherwise .get() is
\* called on it, which asyncio.Task does not have.
SpawnValidation ==
    /\ update.state = "spawning" /\ validation = NoValidation
    /\ ValidationBegins
    /\ UpdateTo("done")
    /\ UNCHANGED <<transferVars, modes, trainer, pausing, rollout_version, resumed, results>>

SpawnRaises ==
    /\ update.state = "spawning" /\ validation # NoValidation
    /\ UpdateTo("failed")
    /\ UNCHANGED <<transferVars, modes, trainer, pausing, rollout_version, resumed,
                   validation, results>>

\* do_validate_async: the thread ends and its result is put.
TaskPutsResult ==
    /\ parallel /\ validation # NoValidation
    /\ val_queue' = Append(val_queue, Result(validation.version, validation.seen))
    /\ validation' = NoValidation
    /\ UNCHANGED <<transferVars, modes, trainer, pausing, rollout_version, update,
                   resumed, logged>>

ResumesIndependently ==
    /\ ~resumed
    /\ serving' = TRUE /\ monitor' = "sleeping" /\ resumed' = TRUE
    /\ UNCHANGED <<transferVars, modes, trainer, rollout_version, update, validation, results>>

\* resume() was given the update as an argument and so runs after it.
ResumeRollouter ==
    /\ update.state = "done" /\ ~resumed
    /\ serving' = TRUE /\ monitor' = "sleeping" /\ resumed' = TRUE
    /\ UNCHANGED <<transferVars, modes, trainer, rollout_version, update, validation, results>>

Rollouter ==
    \/ UpdateParamVersion \/ Validated \/ PutValidate \/ SpawnValidation \/ SpawnRaises
    \/ ResumeRollouter

\* A validation meanwhile sees the weights that are loaded.
Transfer(r) ==
    /\ RankStep(r)
    /\ validation' = IF validation = NoValidation THEN validation
                     ELSE [validation EXCEPT !.seen = @ \cup VersionsLoaded']
    /\ UNCHANGED <<modes, trainer, pausing, rollout_version, update, resumed, results>>

Terminated == pc \in {"done", "failed"} /\ UNCHANGED vars

Next ==
    \/ Trainer \/ Rollouter \/ Monitor \/ TaskPutsResult
    \/ (\E r \in Ranks : Transfer(r))
    \/ Terminated

Spec == Init /\ [][Next]_vars

\* The trainer and the rollouter are never idle while they can move, who
\* waits for a free lock gets it, every validation comes to an end, and so do
\* the threads of the transfer.
Fairness ==
    /\ WF_vars(Trainer) /\ WF_vars(Rollouter) /\ WF_vars(MonitorResumes)
    /\ WF_vars(TaskPutsResult)
    /\ \A r \in Ranks : WF_vars(Transfer(r) /\ MainThread(r)) /\ WF_vars(Transfer(r) /\ Consumer(r))

FairSpec == Spec /\ Fairness

-----------------------------------------------------------------------------
TypeOK ==
    /\ TransferTypeOK
    /\ parallel \in BOOLEAN /\ partial \in BOOLEAN
    /\ monitor \in {"sleeping", "decided", "ended"}
    /\ stage \in {"boot", "train", "closing", "final"}
    /\ pc \in {"pause", "transfer", "settle", "log", "step", "wait", "done", "failed"}
    /\ steps \in 0..MaxSteps /\ local_trigger_step \in 1..TriggerSyncStep
    /\ serving \in BOOLEAN /\ resumed \in BOOLEAN /\ rollout_version \in 0..actor_version
    /\ update.state \in {"none", "called", "validating", "putting", "spawning", "done", "failed"}
    /\ validation.state \in {"none", "running"}
    /\ Len(val_queue) + Len(logged) <= actor_version + 1

\* The rollout ranks never generate with a mixture of versions or with
\* weights other than the announced ones: the double-buffered transfer,
\* pause(), update_param_version and resume() together implement
\* WeightServing.  With partial rollout this is so whatever the monitor does.
\* Without it, a stale decision of the monitor ends the pause and samples are
\* generated while weights are loaded: nothing is claimed from there to the
\* resume() of that synchronization, after which all is as it should be.
InService == serving /\ monitor # "ended"

Server == INSTANCE WeightServing
    WITH Ranks <- RolloutRanks, serving <- InService, weights <- model,
         announced <- rollout_version
ImplementsWeightServing == Server!ServingSpec

\* Without parallel validation a result is that of the version it is
\* labelled with: no weights are loaded while _validate runs.
ResultsOfOneVersion ==
    ~parallel => \A i \in DOMAIN val_queue : val_queue[i].seen \subseteq {val_queue[i].version}

\* One result is fetched per step and one is put per synchronization, some
\* time later; yet without parallel validation the trainer has logged those
\* of all versions, in order, when fit() returns.
EveryResultLogged ==
    pc = "done" /\ ~parallel =>
        [i \in DOMAIN logged |-> logged[i].version] = [i \in 1..(actor_version + 1) |-> i - 1]

\* Training ends, whatever the synchronizations and validations wait for.
Finishes == <>(pc = "done" \/ (parallel /\ pc = "failed"))
=============================================================================
