------------------------- MODULE ParameterSyncProofs -------------------------
(***************************************************************************)
(* Theorems about ParameterSync and the weight transfer in it, for any     *)
(* number of ranks, parameters, steps and versions.                        *)
(*                                                                         *)
(* ResultsInv, the labels of the validation results.  Labels are dense:    *)
(* what was logged, then what is queued, then the update that is going on  *)
(* make up the versions announced so far, in order (InOrder, ControlInv).  *)
(* The trainer waits for the last update before it announces the next and  *)
(* fetches once per step, so that at most one result is behind when a step *)
(* begins, and none is once it has waited for the last update without      *)
(* making another (BehindInv).                                             *)
(*                                                                         *)
(* The buckets.  Packing keeps every parameter in some bucket of its rank, *)
(* and each bucket has its turn (EveryParameterSent).                      *)
(*                                                                         *)
(* TransferInv, the transfer.  Where a rank is says what it holds: in host *)
(* memory, on the device, in the double buffer, in its socket and in its   *)
(* model (Local); who has left a barrier knows that all have come to it    *)
(* (BarrierInv), and a bucket is on the wire once its owner has had its    *)
(* turn (WireInv).                                                         *)
(*                                                                         *)
(* SyncInv, the whole: the transfer, and around it what is announced,      *)
(* validated and logged.                                                   *)
(***************************************************************************)
EXTENDS ParameterSync, SequenceTheorems,
        WellFoundedInduction, TLAPS

\* An update whose result has not been put yet: none or one.
Pending == IF update.state \in {"called", "validating", "putting"} THEN 1 ELSE 0

\* The number of versions the rollouter has been told of.
Announced == IF pc \in {"wait", "pause", "transfer"} THEN actor_version ELSE actor_version + 1

\* Results of announced versions that the trainer has still to log.
Behind == Len(val_queue) + Pending

InOrder ==
    /\ val_queue \in Seq(Range(val_queue)) /\ logged \in Seq(Range(logged))
    /\ \A i \in 1..Len(logged) : logged[i].version = i - 1
    /\ \A i \in 1..Len(val_queue) : val_queue[i].version = Len(logged) + i - 1

UpdateInv ==
    \/ update = NoUpdate
    \/ /\ update = [state |-> update.state, version |-> Announced - 1,
                    validate |-> update.validate]
       /\ update.state \in {"called", "validating", "putting", "done"}

ControlInv ==
    /\ actor_version \in Nat
    /\ pc \in {"pause", "transfer", "settle", "log", "step", "wait", "done"}
    /\ pc = "settle" => stage \in {"boot", "closing", "final"}
    /\ pc = "step" => stage = "train"
    /\ pc \in {"wait", "pause", "transfer"} => stage \in {"boot", "train", "final"}
    /\ Len(logged) + Behind = Announced
    /\ pc \in {"pause", "transfer"} => Pending = 0

BehindInv ==
    /\ pc \in {"settle", "step", "wait", "pause", "transfer"} => Behind <= 1
    /\ pc = "log" => Behind <= 2
    /\ pc = "log" /\ stage # "train" => Pending = 0 /\ Behind <= 1
    /\ pc \in {"wait", "pause", "transfer"} /\ stage # "train" => Behind = 0
    /\ pc = "done" => Behind = 0

ResultsInv == ~parallel => InOrder /\ UpdateInv /\ ControlInv /\ BehindInv

-----------------------------------------------------------------------------
LEMMA SeqOfItsRange ==
    ASSUME NEW S, NEW q \in Seq(S) PROVE q \in Seq(Range(q))
<1>1. q \in [1..Len(q) -> Range(q)] /\ Len(q) \in Nat
  BY DEF Range
<1>2. QED
  BY <1>1, IsASeq

\* A result put in the queue with the next label.
LEMMA PutKeepsOrder ==
    ASSUME InOrder, NEW seen, logged' = logged,
           val_queue' = Append(val_queue, Result(Len(logged) + Len(val_queue), seen))
    PROVE  InOrder' /\ Len(val_queue') = Len(val_queue) + 1
<1> DEFINE x == Result(Len(logged) + Len(val_queue), seen)
<1>1. val_queue \in Seq(Range(val_queue)) /\ Len(val_queue) \in Nat /\ Len(logged) \in Nat
  BY DEF InOrder
<1>2. val_queue' \in Seq(Range(val_queue) \cup {x})
  <2>1. val_queue \in Seq(Range(val_queue) \cup {x})
    BY <1>1
  <2>2. QED
    BY <2>1
<1>3. /\ Len(val_queue') = Len(val_queue) + 1
      /\ val_queue'[Len(val_queue) + 1] = x
      /\ \A i \in 1..Len(val_queue) : val_queue'[i] = val_queue[i]
  BY <1>1
<1>4. \A i \in 1..Len(val_queue') : val_queue'[i].version = Len(logged) + i - 1
  <2>1. TAKE i \in 1..Len(val_queue')
  <2>2. i = Len(val_queue) + 1 \/ i \in 1..Len(val_queue)
    BY <1>1, <1>3
  <2>3. x.version = Len(logged) + Len(val_queue)
    BY DEF Result
  <2>4. CASE i = Len(val_queue) + 1
    BY <1>1, <1>3, <2>3, <2>4
  <2>5. CASE i \in 1..Len(val_queue)
    <3>1. val_queue[i].version = Len(logged) + i - 1
      BY <2>5 DEF InOrder
    <3>2. QED
      BY <1>3, <2>5, <3>1
  <2>6. QED
    BY <2>2, <2>4, <2>5
<1>5. val_queue' \in Seq(Range(val_queue'))
  BY <1>2, SeqOfItsRange
<1>6. QED
  BY <1>3, <1>4, <1>5 DEF InOrder

\* The trainer takes the oldest result, if there is one.
LEMMA FetchKeepsOrder ==
    ASSUME InOrder, FetchResult
    PROVE  /\ InOrder'
           /\ \/ Len(val_queue) = 0 /\ Len(val_queue') = 0 /\ Len(logged') = Len(logged)
              \/ /\ Len(val_queue) > 0
                 /\ Len(val_queue') = Len(val_queue) - 1 /\ Len(logged') = Len(logged) + 1
<1>1. /\ val_queue \in Seq(Range(val_queue)) /\ Len(val_queue) \in Nat
      /\ logged \in Seq(Range(logged)) /\ Len(logged) \in Nat
  BY DEF InOrder
<1>2. CASE val_queue = << >>
  BY <1>2 DEF FetchResult, results, InOrder
<1>3. CASE val_queue # << >>
  <2> DEFINE x == Head(val_queue)
  <2>1. logged' = Append(logged, x) /\ val_queue' = Tail(val_queue)
    BY <1>3 DEF FetchResult
  <2>2. /\ Len(val_queue) > 0 /\ x = val_queue[1]
        /\ Len(val_queue') = Len(val_queue) - 1
        /\ \A i \in 1..Len(val_queue') : val_queue'[i] = val_queue[i + 1]
        /\ val_queue' \in Seq(Range(val_queue))
    BY <1>1, <1>3, <2>1
  <2>3. logged \in Seq(Range(logged) \cup {x})
    BY <1>1
  <2>4. /\ Len(logged') = Len(logged) + 1 /\ logged'[Len(logged) + 1] = x
        /\ \A i \in 1..Len(logged) : logged'[i] = logged[i]
        /\ logged' \in Seq(Range(logged) \cup {x})
    BY <2>1, <2>3
  <2>5. x.version = Len(logged)
    BY <1>1, <2>2 DEF InOrder
  <2>6. \A i \in 1..Len(logged') : logged'[i].version = i - 1
    <3>1. TAKE i \in 1..Len(logged')
    <3>2. i = Len(logged) + 1 \/ i \in 1..Len(logged)
      BY <1>1, <2>4
    <3>3. CASE i = Len(logged) + 1
      BY <1>1, <2>4, <2>5, <3>3
    <3>4. CASE i \in 1..Len(logged)
      <4>1. logged[i].version = i - 1
        BY <3>4 DEF InOrder
      <4>2. QED
        BY <2>4, <3>4, <4>1
    <3>5. QED
      BY <3>2, <3>3, <3>4
  <2>7. \A i \in 1..Len(val_queue') : val_queue'[i].version = Len(logged') + i - 1
    <3>1. TAKE i \in 1..Len(val_queue')
    <3>2. i + 1 \in 1..Len(val_queue) /\ i \in Int
      BY <1>1, <2>2
    <3>3. val_queue'[i].version = Len(logged) + (i + 1) - 1
      BY <2>2, <3>2 DEF InOrder
    <3>4. QED
      BY <1>1, <2>4, <3>2, <3>3
  <2>8. val_queue' \in Seq(Range(val_queue')) /\ logged' \in Seq(Range(logged'))
    BY <2>2, <2>4, SeqOfItsRange
  <2>9. QED
    BY <2>2, <2>4, <2>6, <2>7, <2>8 DEF InOrder
<1>4. QED
  BY <1>2, <1>3

LEMMA Counts ==
    ASSUME InOrder
    PROVE  Len(val_queue) \in Nat /\ Len(logged) \in Nat /\ Pending \in {0, 1}
  BY DEF InOrder, Pending

\* What neither moves the driving thread nor the update nor the results.
LEMMA OthersKeep ==
    ASSUME ResultsInv, UNCHANGED <<parallel, trainer, actor_version, update, results>>
    PROVE  ResultsInv'
  BY DEF ResultsInv, InOrder, UpdateInv, ControlInv, BehindInv, Announced, Behind, Pending,
       trainer, results

\* Steps of the driving thread that leave update and results alone.
LEMMA TrainerMoves ==
    ASSUME ~parallel, InOrder, UpdateInv, ControlInv, BehindInv,
           \/ TrainStep \/ TrainAndSync \/ EndOfSamples \/ WaitLastValid \/ PauseRollouter
    PROVE  InOrder' /\ UpdateInv' /\ ControlInv' /\ BehindInv'
<1>1. /\ Len(val_queue) \in Nat /\ Len(logged) \in Nat /\ Pending \in {0, 1}
  BY Counts
<1>2. UNCHANGED <<update, val_queue, logged>>
  BY DEF TrainStep, TrainAndSync, EndOfSamples, WaitLastValid, PauseRollouter, rollouter, results
<1>3. Pending' = Pending /\ Behind' = Behind /\ InOrder'
  BY <1>2 DEF Pending, Behind, InOrder
<1>4. actor_version \in Nat
  BY DEF ControlInv
<1>5. Announced' = Announced
  BY <1>4 DEF Announced, TrainStep, TrainAndSync, NextVersion, EndOfSamples, WaitLastValid,
       PauseRollouter, transferVars, fixed
<1>6. UpdateInv'
  BY <1>2, <1>5 DEF UpdateInv
<1>7. ControlInv' /\ BehindInv'
  <2>1. CASE TrainStep
    BY <2>1, <1>1, <1>2, <1>3, <1>4, <1>5
       DEF TrainStep, ControlInv, BehindInv, Behind, transferVars, fixed
  <2>2. CASE TrainAndSync
    BY <2>2, <1>1, <1>2, <1>3, <1>4, <1>5
       DEF TrainAndSync, NextVersion, ControlInv, BehindInv, Behind
  <2>3. CASE EndOfSamples
    BY <2>3, <1>1, <1>2, <1>3, <1>4, <1>5
       DEF EndOfSamples, ControlInv, BehindInv, Behind, transferVars, fixed
  <2>4. CASE WaitLastValid
    <3>1. Pending = 0
      BY <2>4 DEF WaitLastValid, LastUpdateDone, Pending
    <3>2. QED
      BY <2>4, <3>1, <1>1, <1>2, <1>3, <1>4, <1>5
         DEF WaitLastValid, ControlInv, BehindInv, Behind, transferVars, fixed
  <2>5. CASE PauseRollouter
    BY <2>5, <1>1, <1>2, <1>3, <1>4, <1>5
       DEF PauseRollouter, ControlInv, BehindInv, Behind, fixed
  <2>6. QED
    BY <2>1, <2>2, <2>3, <2>4, <2>5
<1>8. QED
  BY <1>3, <1>6, <1>7

\* A version is announced: one more result will be due.
LEMMA AnnounceKeeps ==
    ASSUME ~parallel, InOrder, UpdateInv, ControlInv, BehindInv, AnnounceVersion
    PROVE  InOrder' /\ UpdateInv' /\ ControlInv' /\ BehindInv'
<1>1. /\ Len(val_queue) \in Nat /\ Len(logged) \in Nat /\ actor_version \in Nat
  BY Counts DEF ControlInv
<1>2. /\ UNCHANGED <<val_queue, logged, actor_version, stage>> /\ pc = "transfer"
      /\ pc' = IF stage = "train" THEN "log" ELSE "settle"
  BY DEF AnnounceVersion, transferVars, fixed, results
<1>3. Announced = actor_version /\ Announced' = actor_version + 1 /\ InOrder'
  BY <1>2 DEF Announced, InOrder
<1>4. Pending = 0 /\ Pending' = 1
  BY <1>2 DEF AnnounceVersion, ControlInv, Pending
<1>5. Behind' = Behind + 1 /\ Behind \in Nat
  BY <1>1, <1>2, <1>4 DEF Behind
<1>6. UpdateInv'
  <2>1. update'.version = Announced' - 1 /\ update'.state = "called"
    BY <1>1, <1>3 DEF AnnounceVersion
  <2>2. QED
    BY <2>1 DEF AnnounceVersion, UpdateInv
<1>7. ControlInv' /\ BehindInv'
  BY <1>1, <1>2, <1>3, <1>4, <1>5 DEF ControlInv, BehindInv
<1>8. QED
  BY <1>3, <1>6, <1>7

\* The end of a step, where one result is fetched.
LEMMA LoggingKeeps ==
    ASSUME ~parallel, InOrder, UpdateInv, ControlInv, BehindInv,
           LogAndGoOn \/ LogAndSyncAgain \/ LogAndFinish
    PROVE  InOrder' /\ UpdateInv' /\ ControlInv' /\ BehindInv'
<1>1. /\ Len(val_queue) \in Nat /\ Len(logged) \in Nat /\ Pending \in {0, 1}
      /\ actor_version \in Nat
  BY Counts DEF ControlInv
<1>2. FetchResult /\ update' = update /\ pc = "log"
  BY DEF LogAndGoOn, LogAndSyncAgain, LogAndFinish, rollouter
<1>3. Pending' = Pending
  BY <1>2 DEF Pending
<1>4. /\ InOrder'
      /\ Len(val_queue') \in Nat /\ Len(logged') \in Nat
      /\ Len(logged') + Len(val_queue') = Len(logged) + Len(val_queue)
      /\ Len(val_queue') = IF Len(val_queue) = 0 THEN 0 ELSE Len(val_queue) - 1
  BY <1>1, <1>2, FetchKeepsOrder
<1>5. Announced' = Announced /\ actor_version' \in Nat
  BY <1>1, <1>2 DEF Announced, LogAndGoOn, LogAndSyncAgain, NextVersion, LogAndFinish,
       transferVars, fixed
<1>6. UpdateInv'
  BY <1>2, <1>5 DEF UpdateInv
<1>7. ControlInv' /\ BehindInv'
  <2>1. CASE LogAndGoOn
    BY <2>1, <1>1, <1>2, <1>3, <1>4, <1>5 DEF LogAndGoOn, ControlInv, BehindInv, Behind
  <2>2. CASE LogAndSyncAgain
    <3>1. stage = "closing" /\ stage' = "final" /\ pc' = "wait"
      BY <2>2 DEF LogAndSyncAgain, NextVersion
    <3>2. Pending' = 0 /\ Len(val_queue) <= 1
      BY <1>1, <1>2, <1>3, <3>1 DEF BehindInv, Behind
    <3>3. Behind' = 0
      BY <1>1, <1>4, <3>2 DEF Behind
    <3>4. Len(logged') + Behind' = Announced'
      BY <1>1, <1>3, <1>4, <1>5, <3>2, <3>3 DEF ControlInv, Behind
    <3>5. QED
      BY <1>5, <3>1, <3>2, <3>3, <3>4 DEF ControlInv, BehindInv
  <2>3. CASE LogAndFinish
    BY <2>3, <1>1, <1>2, <1>3, <1>4, <1>5 DEF LogAndFinish, ControlInv, BehindInv, Behind
  <2>4. QED
    BY <2>1, <2>2, <2>3
<1>8. QED
  BY <1>4, <1>6, <1>7

\* The update goes on; its result is labelled with the version it announced.
LEMMA RollouterKeeps ==
    ASSUME ~parallel, InOrder, UpdateInv, ControlInv, BehindInv, Rollouter
    PROVE  InOrder' /\ UpdateInv' /\ ControlInv' /\ BehindInv'
<1>1. /\ Len(val_queue) \in Nat /\ Len(logged) \in Nat /\ Pending \in {0, 1}
      /\ actor_version \in Nat
  BY Counts DEF ControlInv
<1>2. UNCHANGED <<actor_version, pc, stage>> /\ logged' = logged
  BY DEF Rollouter, UpdateParamVersion, Validated, PutValidate, SpawnValidation, SpawnRaises,
       ResumeRollouter, transferVars, fixed, trainer, results
<1>3. Announced' = Announced /\ Announced \in Nat
  BY <1>1, <1>2 DEF Announced
<1>4. CASE UpdateParamVersion \/ Validated
  <2>1. update.state \in {"called", "validating"} /\ val_queue' = val_queue
    BY <1>4 DEF UpdateParamVersion, Validated, results
  <2>2. update' = [update EXCEPT !.state = "validating"]
          \/ update' = [update EXCEPT !.state = "putting"]
    BY <1>4 DEF UpdateParamVersion, Validated, UpdateTo
  <2>3. update = [state |-> update.state, version |-> Announced - 1,
                  validate |-> update.validate]
    BY <2>1 DEF UpdateInv, NoUpdate
  <2>4. UpdateInv' /\ update'.state \in {"validating", "putting"}
    BY <1>3, <2>2, <2>3 DEF UpdateInv
  <2>5. Pending' = Pending /\ Behind' = Behind /\ InOrder'
    BY <1>2, <2>1, <2>4 DEF Pending, Behind, InOrder
  <2>6. QED
    BY <1>2, <1>3, <2>1, <2>4, <2>5 DEF ControlInv, BehindInv
<1>5. CASE PutValidate
  <2>1. update.state = "putting"
    BY <1>5 DEF PutValidate
  <2>2. update = [state |-> update.state, version |-> Announced - 1,
                  validate |-> update.validate]
    BY <2>1 DEF UpdateInv, NoUpdate
  <2>3. Pending = 1 /\ Len(logged) + Len(val_queue) + 1 = Announced
    BY <1>1, <1>3, <2>1 DEF Pending, ControlInv, Behind
  <2>4. update.version = Len(logged) + Len(val_queue)
    <3>1. update.version = Announced - 1
      BY <2>2
    <3>2. QED
      BY <1>1, <1>3, <2>3, <3>1
  <2>5. PICK seen : val_queue' = Append(val_queue, Result(update.version, seen))
    BY <1>5 DEF PutValidate
  <2>6. InOrder' /\ Len(val_queue') = Len(val_queue) + 1
    BY <1>2, <2>4, <2>5, PutKeepsOrder
  <2>7. update' = [update EXCEPT !.state = "done"]
    BY <1>5 DEF PutValidate, UpdateTo
  <2>8. UpdateInv' /\ update'.state = "done"
    BY <1>3, <2>2, <2>7 DEF UpdateInv
  <2>9. Pending' = 0 /\ Behind' = Behind
    BY <1>1, <2>3, <2>6, <2>8 DEF Pending, Behind
  <2>10. QED
    BY <1>1, <1>2, <1>3, <2>6, <2>8, <2>9 DEF ControlInv, BehindInv
<1>6. CASE ResumeRollouter
  BY <1>2, <1>3, <1>6 DEF ResumeRollouter, results, InOrder, UpdateInv, ControlInv, BehindInv,
     Behind, Pending
<1>7. CASE SpawnValidation \/ SpawnRaises
  BY <1>7 DEF SpawnValidation, SpawnRaises, UpdateInv, NoUpdate
<1>8. QED
  BY <1>4, <1>5, <1>6, <1>7 DEF Rollouter

LEMMA RankStepKeepsVersion ==
    ASSUME NEW r \in Ranks, RankStep(r) PROVE actor_version' = actor_version
<1>1. CASE MainThread(r)
  BY <1>1 DEF MainThread, Register, Open, Broadcast, LoadInPlace, TakeReply, HandOver,
     StopThread, JoinThread, ReachLastBarrier, Close, fixed
<1>2. CASE Consumer(r)
  BY <1>2 DEF Consumer, ConsumerGreets, ConsumerStarts, ConsumerLoads, ConsumerEnds, fixed
<1>3. QED
  BY <1>1, <1>2 DEF RankStep

\* The labels of the validation results are those of the versions announced,
\* in order, and the trainer is never more than one result behind at a step.
THEOREM ResultsInvariant == Spec => []ResultsInv
<1>1. Init => ResultsInv
  <2> SUFFICES ASSUME Init PROVE InOrder /\ UpdateInv /\ ControlInv /\ BehindInv
    BY DEF ResultsInv
  <2>1. val_queue = << >> /\ logged = << >> /\ actor_version = 0 /\ pc = "pause"
        /\ update = NoUpdate /\ stage = "boot"
    BY DEF Init
  <2>2. InOrder /\ Pending = 0 /\ Len(val_queue) = 0 /\ Len(logged) = 0
    BY <2>1 DEF InOrder, Pending, NoUpdate
  <2>3. QED
    BY <2>1, <2>2 DEF UpdateInv, ControlInv, BehindInv, Behind, Announced
<1>2. ResultsInv /\ [Next]_vars => ResultsInv'
  <2> SUFFICES ASSUME ResultsInv, [Next]_vars PROVE ResultsInv'
    OBVIOUS
  <2>1. CASE Trainer
    <3> SUFFICES ASSUME ~parallel' PROVE InOrder' /\ UpdateInv' /\ ControlInv' /\ BehindInv'
      BY DEF ResultsInv
    <3>1. parallel' = parallel
      BY <2>1 DEF Trainer, TrainStep, TrainAndSync, EndOfSamples, WaitLastValid, WaitRaises,
         PauseRollouter, AnnounceVersion, LogAndGoOn, LogAndSyncAgain, LogAndFinish, modes
    <3>2. InOrder /\ UpdateInv /\ ControlInv /\ BehindInv /\ ~parallel
      BY <3>1 DEF ResultsInv
    <3>3. ~WaitRaises
      BY <3>2 DEF WaitRaises, UpdateInv, NoUpdate
    <3>4. QED
      BY <2>1, <3>2, <3>3, TrainerMoves, AnnounceKeeps, LoggingKeeps DEF Trainer
  <2>2. CASE Rollouter
    <3> SUFFICES ASSUME ~parallel' PROVE InOrder' /\ UpdateInv' /\ ControlInv' /\ BehindInv'
      BY DEF ResultsInv
    <3>1. parallel' = parallel
      BY <2>2 DEF Rollouter, UpdateParamVersion, Validated, PutValidate, SpawnValidation,
         SpawnRaises, ResumeRollouter, modes
    <3>2. QED
      BY <2>2, <3>1, RollouterKeeps DEF ResultsInv
  <2>3. CASE TaskPutsResult
    BY <2>3 DEF TaskPutsResult, ResultsInv, modes
  <2>4. ASSUME NEW r \in Ranks, Transfer(r) PROVE ResultsInv'
    <3>1. actor_version' = actor_version
      BY <2>4, RankStepKeepsVersion DEF Transfer
    <3>2. QED
      BY <2>4, <3>1, OthersKeep DEF Transfer, modes
  <2>5. CASE UNCHANGED vars
    BY <2>5, OthersKeep DEF vars, transferVars, fixed, rollouter, modes
  <2>6. CASE Monitor
    BY <2>6, OthersKeep DEF Monitor, MonitorDecides, MonitorResumes, transferVars, fixed, modes
  <2>7. QED
    BY <2>1, <2>2, <2>3, <2>4, <2>5, <2>6 DEF Next, Terminated
<1>3. QED
  BY <1>1, <1>2, PTL DEF Spec

\* EveryResultLogged, for FullyAsyncTrainer.fit without parallel validation:
\* when it returns, the results of all versions have been logged, in order.
THEOREM ResultsLogged == Spec => []EveryResultLogged
<1>1. ResultsInv => EveryResultLogged
  <2> SUFFICES ASSUME ResultsInv, pc = "done", ~parallel
               PROVE  [i \in DOMAIN logged |-> logged[i].version]
                        = [i \in 1..(actor_version + 1) |-> i - 1]
    BY DEF EveryResultLogged
  <2>1. InOrder /\ ControlInv /\ BehindInv
    BY DEF ResultsInv
  <2>2. Len(logged) = actor_version + 1
    BY <2>1, Counts DEF ControlInv, BehindInv, Announced
  <2>3. DOMAIN logged = 1..Len(logged)
    BY <2>1 DEF InOrder
  <2>4. \A i \in 1..Len(logged) : logged[i].version = i - 1
    BY <2>1 DEF InOrder
  <2>5. QED
    BY <2>2, <2>3, <2>4
<1>2. QED
  BY <1>1, ResultsInvariant, PTL

-----------------------------------------------------------------------------
(* The weight transfer.  Every rank is somewhere in the current call of    *)
(* sync_rollout_weights_by_checkpoint: what it has, by where it is         *)
(* (LocalInv), and what the ranks know of each other (BarrierInv: who has  *)
(* left a barrier knows that all have come to it; WireInv: a bucket is on  *)
(* the wire once its owner has sent it).                                   *)
Buckets == Len(Broadcasts)
Owner(i) == Broadcasts[i].src
Sent(i) == [metas |-> MetasOf(Broadcasts[i]), version |-> actor_version]

InCall(r) == calls[r] = 0 /\ at[r] # "idle"
Opened(r) == InCall(r) /\ at[r] # "registered"
Served(r) == calls[r] = 0 /\ at[r] = "idle"

BarriersOfACall == IF overlap THEN Buckets + 2 ELSE 2

\* The barriers of the current call a rank has arrived at, ...
Arrived(r) ==
    IF calls[r] # 0 THEN 0
    ELSE IF at[r] \in {"idle", "lastBarrier"} THEN BarriersOfACall
    ELSE IF at[r] = "registered" THEN 1
    ELSE IF at[r] = "barrier" THEN gidx[r] + 2
    ELSE IF overlap THEN gidx[r] + 1 ELSE 1

\* ... and those it has left, which all others have arrived at.
Left(r) ==
    IF calls[r] # 0 \/ at[r] = "registered" THEN 0
    ELSE IF at[r] = "idle" THEN BarriersOfACall
    ELSE IF overlap THEN gidx[r] + 1 ELSE 1

\* The buckets of the current call a rank has got, and those it has loaded.
Got(r) ==
    IF calls[r] # 0 \/ at[r] = "registered" THEN 0
    ELSE IF at[r] \in {"load", "reply", "barrier"} THEN gidx[r] + 1 ELSE gidx[r]
Consumed(r) == IF request[r].type = "load" THEN gidx[r] - 1 ELSE gidx[r]

Placed(r) ==
    /\ calls[r] \in {0, 1}
    /\ calls[r] = 1 => at[r] \in {"idle", "lastBarrier"}
    /\ pc # "transfer" => calls[r] = 0 /\ at[r] \in {"idle", "lastBarrier"}
    /\ at[r] \in {"load", "reply", "barrier"} => gidx[r] < Buckets
    /\ at[r] \in {"join", "lastBarrier"} => gidx[r] = Buckets
    /\ at[r] \in {"reply", "barrier", "join"} => overlap
    /\ at[r] = "load" => ~overlap
    /\ pc = "transfer" /\ Served(r) => gidx[r] = Buckets

Memory(r) ==
    pc = "transfer" /\ InCall(r) =>
        memory_buffers[r] = IF r \in ActorRanks
                            THEN [i \in DOMAIN global_buckets[r] |-> actor_version] ELSE << >>

\* The bucket of the last round the rank has taken part in, if it has one.
Device(r) ==
    pc = "transfer" /\ r \in ActorRanks /\ Opened(r) /\ Got(r) > 0 =>
        LET round == Broadcasts[Got(r)].round
        IN  round <= Len(global_buckets[r]) =>
              h2d_buffer[r] = [metas |-> global_buckets[r][round], version |-> actor_version]

Buffered(r) ==
    pc = "transfer" =>
        /\ InCall(r) /\ at[r] \in {"load", "reply", "barrier"} =>
             load_buffer[r][Half(gidx[r])] = Sent(gidx[r] + 1)
        /\ request[r].type = "load" =>
             load_buffer[r][Half(gidx[r] - 1)] = Sent(gidx[r])

\* Whose turn it is: the second thread's or the main thread's.
Asked(r) == request[r] # NoRequest /\ ~reply[r]
Answered(r) == request[r] = NoRequest /\ reply[r]
Silent(r) == request[r] = NoRequest /\ ~reply[r]

Socket(r) ==
    /\ at[r] \in {"idle", "registered", "lastBarrier"} \/ ~overlap =>
         Silent(r) /\ consumer[r] = "none"
    /\ overlap /\ at[r] \in {"broadcast", "reply"} =>
         /\ Asked(r) \/ Answered(r)
         /\ consumer[r] # "none"
         /\ Asked(r) =>
              \/ request[r] = Greeting /\ gidx[r] = 0
              \/ /\ gidx[r] > 0
                 /\ request[r] = Payload(MetasOf(Broadcasts[gidx[r]]), Half(gidx[r] - 1))
    /\ at[r] = "barrier" => Silent(r) /\ consumer[r] = "waiting"
    /\ at[r] = "join" =>
         \/ request[r] = Stop /\ ~reply[r] /\ consumer[r] = "waiting"
         \/ Answered(r) /\ consumer[r] = "none"
    /\ consumer[r] = "loading" => request[r].type = "load"

Weights(r) ==
    pc = "transfer" /\ r \in RolloutRanks /\ (Opened(r) \/ Served(r)) =>
        \A i \in 1..Consumed(r) : \A p \in Range(MetasOf(Broadcasts[i])) :
            model[r][p] = actor_version

Local(r) ==
    Placed(r) /\ Memory(r) /\ Device(r) /\ Buffered(r) /\ Socket(r) /\ Weights(r)

BarrierInv ==
    \A r, s \in Ranks :
        /\ barriers[r] - Arrived(r) = barriers[s] - Arrived(s)
        /\ Left(r) <= Arrived(s)

WireInv ==
    (\E r \in Ranks : InCall(r)) =>
        /\ \A r \in Ranks : Got(r) <= Len(wire)
        /\ \A i \in 1..Len(wire) : i <= Buckets /\ i <= Got(Owner(i))
        /\ pc = "transfer" => \A i \in 1..Len(wire) : wire[i] = Sent(i)

TransferInv ==
    /\ TransferTypeOK /\ request = [r \in Ranks |-> request[r]]
    /\ \A r \in Ranks : Local(r)
    /\ BarrierInv /\ WireInv


-----------------------------------------------------------------------------
(* Induction over the numbers, for a set of them.                          *)
LEMMA Least ==
    ASSUME NEW T, T \subseteq Nat, T # {}
    PROVE  \E m \in T : \A k \in T : m <= k
<1> DEFINE R == OpToRel(<, Nat)
<1>1. IsWellFoundedOn(R, Nat)
  BY NatLessThanWellFounded, Zenon
<1>2. \A x, y \in Nat : <<y, x>> \in R <=> y < x
  BY DEF OpToRel
<1> HIDE DEF R
<1>3. PICK x \in T : \A y \in T : ~ (<<y, x>> \in R)
  BY <1>1, WFMin
<1>4. ASSUME NEW y \in T PROVE x <= y
  <2>1. x \in Nat /\ y \in Nat /\ ~(y < x)
    BY <1>2, <1>3, <1>4
  <2> QED
    BY <2>1
<1> QED
  BY <1>4

LEMMA Induction ==
    ASSUME NEW T, 0 \in T, \A n \in Nat : n \in T => n + 1 \in T
    PROVE  Nat \subseteq T
<1> DEFINE U == Nat \ T
<1>1. SUFFICES ASSUME U # {} PROVE FALSE
  OBVIOUS
<1>2. PICK m \in U : \A k \in U : m <= k
  <2> HIDE DEF U
  <2>1. U \subseteq Nat
    BY DEF U
  <2> QED
    BY <1>1, <2>1, Least
<1>3. m \in Nat /\ m # 0 /\ m - 1 \in Nat /\ m - 1 \notin U
  BY <1>2
<1> QED
  BY <1>2, <1>3

(* FlattenSeq is the last of the partial concatenations.                   *)
LEMMA Flattened ==
    ASSUME NEW S, NEW ss \in Seq(Seq(S)), ss # << >>
    PROVE  \E F \in [0..Len(ss) -> Seq(S)] :
             /\ F[0] = << >> /\ FlattenSeq(ss) = F[Len(ss)]
             /\ \A i \in 1..Len(ss) : F[i] = F[i - 1] \o ss[i]
<1> DEFINE Q == Seq(S)
<1>0. << >> \in Q /\ \A s \in Q : << >> \o s = s
  <2>1. << >> \in Q
    BY EmptySeq
  <2>2. \A s \in Q : << >> \o s = s
    BY <2>1, ConcatEmptySeq
  <2> QED
    BY <2>1, <2>2
<1>c. \A s, t \in Q : s \o t \in Q
  BY ConcatProperties
<1> HIDE DEF Q
<1>1. Len(ss) \in Nat /\ Len(ss) # 0 /\ \A i \in 1..Len(ss) : ss[i] \in Q
  BY ElementOfSeq, LenProperties, EmptySeq DEF Q
<1> DEFINE Partial(G, n) == \A i \in 1..n : G[i] = IF i = 1 THEN ss[1] ELSE G[i - 1] \o ss[i]
           Has(n) == \E G \in [1..n -> Q] : Partial(G, n)
           T == {n \in Nat : n <= Len(ss) => Has(n)}
<1> HIDE DEF Has
<1>2. 0 \in T
  <2>1. [i \in 1..0 |-> << >>] \in [1..0 -> Q] /\ 1..0 = {}
    OBVIOUS
  <2>2. Has(0)
    BY <2>1 DEF Has
  <2> QED
    BY <2>2
<1>3. ASSUME NEW n \in Nat, n \in T PROVE n + 1 \in T
  <2>1. CASE n + 1 > Len(ss)
    BY <1>1, <2>1
  <2>2. CASE n + 1 <= Len(ss)
    <3>1. PICK G \in [1..n -> Q] : Partial(G, n)
      <4>1. Has(n)
        BY <1>1, <1>3, <2>2
      <4> QED
        BY <4>1 DEF Has
    <3> DEFINE x == IF n = 0 THEN ss[1] ELSE G[n] \o ss[n + 1]
               H == [i \in 1..(n + 1) |-> IF i = n + 1 THEN x ELSE G[i]]
    <3>2. x \in Q
      BY <1>1, <1>c, <2>2
    <3>3. H \in [1..(n + 1) -> Q]
      BY <3>2
    <3>4. ASSUME NEW i \in 1..(n + 1)
          PROVE  H[i] = IF i = 1 THEN ss[1] ELSE H[i - 1] \o ss[i]
      <4>1. CASE i = n + 1
        BY <4>1
      <4>2. CASE i # n + 1
        <5>1. i \in 1..n /\ i - 1 # n + 1 /\ (i # 1 => i - 1 \in 1..n)
          BY <4>2
        <5>2. H[i] = G[i] /\ (i # 1 => H[i - 1] = G[i - 1])
          BY <4>2, <5>1
        <5>3. G[i] = IF i = 1 THEN ss[1] ELSE G[i - 1] \o ss[i]
          BY <3>1, <5>1
        <5> HIDE DEF H
        <5> QED
          BY <5>2, <5>3
      <4> QED
        BY <4>1, <4>2
    <3> HIDE DEF H
    <3>5. Has(n + 1)
      BY <3>3, <3>4 DEF Has
    <3> QED
      BY <3>5
  <2> QED
    BY <1>1, <2>1, <2>2
<1>4. Has(Len(ss))
  <2> HIDE DEF T
  <2>1. Nat \subseteq T
    BY <1>2, <1>3, Induction
  <2> QED
    BY <1>1, <2>1 DEF T
<1> DEFINE Eq(G) == G = [i \in 1..Len(ss) |-> IF i = 1 THEN ss[i] ELSE G[i - 1] \o ss[i]]
<1>5. \E G : Eq(G)
  <2>1. PICK G \in [1..Len(ss) -> Q] : Partial(G, Len(ss))
    BY <1>4 DEF Has
  <2> DEFINE E == [i \in 1..Len(ss) |-> IF i = 1 THEN ss[i] ELSE G[i - 1] \o ss[i]]
  <2>2. \A i \in 1..Len(ss) : G[i] = E[i]
    BY <2>1
  <2>3. G = E
    BY <2>1, <2>2
  <2> QED
    BY <2>3
<1> DEFINE G == CHOOSE H : Eq(H)
<1>6. Eq(G)
  BY <1>5
<1>7. FlattenSeq(ss) = G[Len(ss)]
  BY <1>1 DEF FlattenSeq
<1> HIDE DEF G
<1>8. \A i \in 1..Len(ss) : G[i] = IF i = 1 THEN ss[i] ELSE G[i - 1] \o ss[i]
  BY <1>6
<1> HIDE DEF Eq
<1> DEFINE U == {n \in Nat : n \in 1..Len(ss) => G[n] \in Q}
<1>9. \A n \in 1..Len(ss) : G[n] \in Q
  <2>1. 0 \in U
    OBVIOUS
  <2>2. ASSUME NEW n \in Nat, n \in U PROVE n + 1 \in U
    <3>1. CASE n + 1 = 1 /\ n + 1 \in 1..Len(ss)
      BY <1>1, <1>8, <3>1
    <3>2. CASE n + 1 # 1 /\ n + 1 \in 1..Len(ss)
      <4>1. G[n] \in Q /\ ss[n + 1] \in Q /\ G[n + 1] = G[n] \o ss[n + 1]
        <5> DEFINE m == n + 1
        <5>1. n \in 1..Len(ss) /\ m \in 1..Len(ss) /\ m # 1 /\ m - 1 = n
          BY <1>1, <2>2, <3>2
        <5>2. G[n] \in Q
          BY <2>2, <5>1
        <5> HIDE DEF m
        <5>3. G[m] = G[m - 1] \o ss[m]
          BY <1>8, <5>1
        <5>4. G[m] = G[n] \o ss[m] /\ ss[m] \in Q
          BY <1>1, <5>1, <5>3
        <5> QED
          BY <5>2, <5>4 DEF m
      <4>2. G[n + 1] \in Q
        BY <1>c, <4>1
      <4> QED
        BY <4>2
    <3> QED
      BY <3>1, <3>2
  <2> HIDE DEF U
  <2>3. Nat \subseteq U
    BY <2>1, <2>2, Induction
  <2> QED
    BY <2>3 DEF U
<1> DEFINE F == [i \in 0..Len(ss) |-> IF i = 0 THEN << >> ELSE G[i]]
<1>10. F \in [0..Len(ss) -> Q]
  BY <1>0, <1>1, <1>9
<1>11. F[0] = << >> /\ FlattenSeq(ss) = F[Len(ss)]
  BY <1>1, <1>7
<1>12. ASSUME NEW i \in 1..Len(ss) PROVE F[i] = F[i - 1] \o ss[i]
  <2>1. CASE i = 1
    BY <1>0, <1>1, <1>8, <2>1
  <2>2. CASE i # 1
    <3>1. F[i] = G[i] /\ F[i - 1] = G[i - 1]
      BY <1>1, <2>2
    <3>2. G[i] = G[i - 1] \o ss[i]
      BY <1>8, <2>2
    <3> HIDE DEF F
    <3> QED
      BY <3>1, <3>2
  <2> QED
    BY <2>1, <2>2
<1> HIDE DEF F
<1> QED
  BY <1>10, <1>11, <1>12 DEF Q

LEMMA RangeConcat ==
    ASSUME NEW S, NEW s \in Seq(S), NEW t \in Seq(S)
    PROVE  s \o t \in Seq(S) /\ Range(s \o t) = Range(s) \cup Range(t)
<1> DEFINE u == s \o t
<1>1. /\ u \in Seq(S) /\ Len(u) = Len(s) + Len(t)
      /\ \A i \in 1..Len(s) + Len(t) :
           u[i] = IF i <= Len(s) THEN s[i] ELSE t[i - Len(s)]
  BY ConcatProperties
<1>2. /\ DOMAIN s = 1..Len(s) /\ DOMAIN t = 1..Len(t) /\ Len(s) \in Nat /\ Len(t) \in Nat
      /\ DOMAIN u = 1..Len(s) + Len(t)
  BY <1>1, LenProperties
<1> HIDE DEF u
<1>3. \A i \in 1..Len(s) : i \in DOMAIN u /\ u[i] = s[i]
  BY <1>1, <1>2
<1>4. ASSUME NEW i \in 1..Len(t)
      PROVE  i + Len(s) \in DOMAIN u /\ u[i + Len(s)] = t[i]
  <2>1. i + Len(s) \in 1..Len(s) + Len(t) /\ ~(i + Len(s) <= Len(s))
        /\ i + Len(s) - Len(s) = i
    BY <1>2
  <2> QED
    BY <1>1, <1>2, <2>1
<1>5. ASSUME NEW i \in DOMAIN u
      PROVE  u[i] \in Range(s) \cup Range(t)
  <2>1. CASE i <= Len(s)
    <3>1. i \in DOMAIN s /\ u[i] = s[i]
      BY <1>1, <1>2, <2>1
    <3> QED
      BY <3>1 DEF Range
  <2>2. CASE ~(i <= Len(s))
    <3>1. i - Len(s) \in DOMAIN t /\ u[i] = t[i - Len(s)]
      BY <1>1, <1>2, <2>2
    <3> QED
      BY <3>1 DEF Range
  <2> QED
    BY <2>1, <2>2
<1>6. Range(u) \subseteq Range(s) \cup Range(t)
  BY <1>5 DEF Range
<1>7. Range(s) \subseteq Range(u)
  BY <1>2, <1>3 DEF Range
<1>8. Range(t) \subseteq Range(u)
  BY <1>2, <1>4 DEF Range
<1>9. QED
  BY <1>1, <1>6, <1>7, <1>8 DEF u

LEMMA FlattenFacts ==
    ASSUME NEW S, NEW ss \in Seq(Seq(S)), ss # << >>
    PROVE  /\ FlattenSeq(ss) \in Seq(S)
           /\ \A i \in 1..Len(ss) : Range(ss[i]) \subseteq Range(FlattenSeq(ss))
<1> DEFINE Q == Seq(S)
<1>1. PICK F \in [0..Len(ss) -> Q] :
             /\ F[0] = << >> /\ FlattenSeq(ss) = F[Len(ss)]
             /\ \A i \in 1..Len(ss) : F[i] = F[i - 1] \o ss[i]
  BY Flattened
<1>2. Len(ss) \in Nat /\ \A i \in 1..Len(ss) : ss[i] \in Q
  BY ElementOfSeq, LenProperties
<1>c. \A s, t \in Q : Range(s \o t) = Range(s) \cup Range(t)
  BY RangeConcat
<1> HIDE DEF Q
<1> DEFINE T == {n \in Nat : n <= Len(ss) => \A i \in 1..n : Range(ss[i]) \subseteq Range(F[n])}
<1>3. 0 \in T
  OBVIOUS
<1>4. ASSUME NEW n \in Nat, n \in T PROVE n + 1 \in T
  <2> DEFINE m == n + 1
  <2>1. SUFFICES ASSUME m <= Len(ss), NEW i \in 1..m
                 PROVE  Range(ss[i]) \subseteq Range(F[m])
    OBVIOUS
  <2>2. m \in 1..Len(ss) /\ m - 1 = n /\ n \in 0..Len(ss) /\ n <= Len(ss)
    BY <1>2, <2>1
  <2>3. i = m \/ i \in 1..n
    BY <2>1
  <2>4. \A k \in 1..n : Range(ss[k]) \subseteq Range(F[n])
    BY <1>4, <2>2
  <2> HIDE DEF m, T
  <2>5. F[m] = F[n] \o ss[m] /\ F[n] \in Q /\ ss[m] \in Q
    BY <1>1, <1>2, <2>2
  <2>6. Range(F[m]) = Range(F[n]) \cup Range(ss[m])
    BY <1>c, <2>5
  <2> QED
    BY <2>3, <2>4, <2>6
<1>5. \A i \in 1..Len(ss) : Range(ss[i]) \subseteq Range(F[Len(ss)])
  <2> HIDE DEF T
  <2>1. Nat \subseteq T
    BY <1>3, <1>4, Induction
  <2>2. Len(ss) \in T
    BY <1>2, <2>1
  <2>3. Len(ss) <= Len(ss)
    BY <1>2
  <2> QED
    BY <2>2, <2>3 DEF T
<1>6. F[Len(ss)] \in Q
  BY <1>1, <1>2
<1> QED
  BY <1>1, <1>5, <1>6 DEF Q

-----------------------------------------------------------------------------
LEMMA AppendRange ==
    ASSUME NEW S, NEW s \in Seq(S), NEW x \in S
    PROVE  /\ Append(s, x) \in Seq(S) /\ Append(s, x) # << >>
           /\ Len(Append(s, x)) = Len(s) + 1 /\ Len(s) \in Nat
           /\ \A i \in 1..Len(s) : Append(s, x)[i] = s[i]
           /\ Append(s, x)[Len(s) + 1] = x
           /\ Range(Append(s, x)) = Range(s) \cup {x}
<1>1. /\ Append(s, x) \in Seq(S)
      /\ Len(Append(s, x)) = Len(s) + 1
      /\ \A i \in 1..Len(s) : Append(s, x)[i] = s[i]
      /\ Append(s, x)[Len(s) + 1] = x
  BY AppendProperties
<1>2. DOMAIN s = 1..Len(s) /\ DOMAIN Append(s, x) = 1..Len(s) + 1 /\ Len(s) \in Nat
  BY <1>1, LenProperties
<1>3. \A i \in 1..Len(s) + 1 : i = Len(s) + 1 \/ i \in 1..Len(s)
  BY <1>2
<1>4. Len(s) + 1 \in 1..Len(s) + 1 /\ 1..Len(s) \subseteq 1..Len(s) + 1
  BY <1>2
<1>5. Range(Append(s, x)) = Range(s) \cup {x}
  <2> DEFINE u == Append(s, x)
  <2> HIDE DEF u
  <2>1. /\ DOMAIN u = 1..Len(s) + 1 /\ \A i \in 1..Len(s) : u[i] = s[i]
        /\ u[Len(s) + 1] = x
    BY <1>1, <1>2 DEF u
  <2>2. ASSUME NEW i \in DOMAIN u PROVE u[i] \in Range(s) \cup {x}
    <3>1. CASE i = Len(s) + 1
      BY <2>1, <3>1
    <3>2. CASE i \in 1..Len(s)
      BY <1>2, <2>1, <3>2 DEF Range
    <3> QED
      BY <1>3, <2>1, <3>1, <3>2
  <2>3. Range(u) \subseteq Range(s) \cup {x}
    BY <2>2 DEF Range
  <2>4. x \in Range(u)
    BY <1>4, <2>1 DEF Range
  <2>5. Range(s) \subseteq Range(u)
    BY <1>2, <1>4, <2>1 DEF Range
  <2> QED
    BY <2>3, <2>4, <2>5 DEF u
<1>6. Append(s, x) # << >>
  <2>1. Len(Append(s, x)) # 0 /\ Len(<< >>) = 0
    BY <1>1, <1>2
  <2> QED
    BY <2>1
<1> QED
  BY <1>1, <1>2, <1>5, <1>6

(* The buckets of each rank while they are packed.                         *)
Packings == {g \in [ActorRanks -> Seq(Seq(Params))] : \A r \in ActorRanks : g[r] # << >>}
RankOf(p) == (p - 1) % ActorNum
PackedIn(g, p) == \E j \in 1..Len(g[RankOf(p)]) : p \in Range(g[RankOf(p)][j])

LEMMA ParamsFacts ==
    /\ Params = 1..Len(Bytes) /\ Len(Bytes) \in Nat
    /\ \A p \in Params : p \in Nat /\ RankOf(p) \in ActorRanks
<1>1. Params = 1..Len(Bytes) /\ Len(Bytes) \in Nat
  BY SizesAssumption, LenProperties DEF Params
<1>2. ASSUME NEW p \in Params PROVE p \in Nat /\ RankOf(p) \in ActorRanks
  <2>1. p - 1 \in Nat
    BY <1>1
  <2>2. \A n \in Nat : n % ActorNum \in 0..ActorNum - 1
    BY RanksAssumption
  <2> QED
    BY <1>1, <2>1, <2>2 DEF RankOf, ActorRanks
<1> QED
  BY <1>1, <1>2

(* A bucket is only added at the end, or grows there.                      *)
LEMMA PackFacts ==
    ASSUME NEW g \in Packings, NEW p \in Params
    PROVE  /\ Pack(g, p) \in Packings /\ PackedIn(Pack(g, p), p)
           /\ \A q \in Params : PackedIn(g, q) => PackedIn(Pack(g, p), q)
<1> DEFINE r == RankOf(p)
           b == g[r]
           S == Seq(Params)
           n == Len(b)
<1>1. r \in ActorRanks /\ g \in [ActorRanks -> Seq(S)] /\ b \in Seq(S) /\ b # << >>
  BY ParamsFacts DEF Packings
<1>2. PICK c : /\ Pack(g, p) = [g EXCEPT ![r] = c]
               /\ c = Append(b, <<p>>) \/ c = [b EXCEPT ![Len(b)] = Append(b[Len(b)], p)]
  BY DEF Pack, RankOf
<1>3. <<p>> \in S /\ p \in Range(<<p>>)
  BY DEF Range
<1>4. \A s \in S : Append(s, p) \in S /\ Range(Append(s, p)) = Range(s) \cup {p}
  BY AppendRange
<1> HIDE DEF b, S, r
<1>5. n \in Nat \ {0} /\ DOMAIN b = 1..n /\ \A j \in 1..n : b[j] \in S
  <2>1. n \in Nat /\ DOMAIN b = 1..n /\ \A j \in 1..n : b[j] \in S
    BY <1>1, LenProperties, ElementOfSeq
  <2>2. n # 0
    BY <1>1, EmptySeq
  <2> QED
    BY <2>1, <2>2
<1> HIDE DEF n
<1>6. /\ c \in Seq(S) /\ c # << >>
      /\ \E j \in 1..Len(c) : p \in Range(c[j])
      /\ \A j \in 1..n : j \in 1..Len(c) /\ Range(b[j]) \subseteq Range(c[j])
  <2>1. CASE c = Append(b, <<p>>)
    <3>1. /\ c \in Seq(S) /\ c # << >> /\ Len(c) = n + 1
          /\ \A j \in 1..n : c[j] = b[j]
          /\ c[n + 1] = <<p>>
      BY <1>1, <1>3, <2>1, AppendRange DEF n
    <3>2. \A j \in 1..n : j \in 1..Len(c)
      BY <1>5, <3>1
    <3>3. n + 1 \in 1..Len(c)
      BY <1>5, <3>1
    <3> QED
      BY <1>3, <3>1, <3>2, <3>3
  <2>2. CASE c = [b EXCEPT ![n] = Append(b[n], p)]
    <3>1. b \in [1..n -> S] /\ n \in 1..n
      BY <1>1, <1>5
    <3>2. b[n] \in S /\ Append(b[n], p) \in S
      BY <1>4, <3>1
    <3>3. c \in [1..n -> S]
      BY <2>2, <3>1, <3>2
    <3>4. c \in Seq(S) /\ Len(c) = n
      BY <1>5, <3>3
    <3>5. c # << >>
      BY <1>5, <3>4, EmptySeq
    <3>6. c[n] = Append(b[n], p)
      BY <2>2, <3>1
    <3>7. \A j \in 1..n : j # n => c[j] = b[j]
      BY <2>2, <3>1
    <3>8. p \in Range(c[n]) /\ Range(b[n]) \subseteq Range(c[n])
      BY <1>4, <3>2, <3>6
    <3> QED
      BY <3>1, <3>4, <3>5, <3>7, <3>8
  <2> QED
    BY <1>2, <2>1, <2>2 DEF n
<1>7. Pack(g, p) \in [ActorRanks -> Seq(S)] /\ Pack(g, p)[r] = c
      /\ \A s \in ActorRanks : s # r => Pack(g, p)[s] = g[s]
  BY <1>1, <1>2, <1>6
<1>8. Pack(g, p) \in Packings
  <2>1. \A s \in ActorRanks : g[s] # << >>
    BY DEF Packings
  <2>2. \A s \in ActorRanks : Pack(g, p)[s] # << >>
    BY <1>6, <1>7, <2>1
  <2> QED
    BY <1>7, <2>2 DEF Packings, S
<1>9. PackedIn(Pack(g, p), p)
  BY <1>6, <1>7 DEF PackedIn, r
<1>10. ASSUME NEW q \in Params, PackedIn(g, q) PROVE PackedIn(Pack(g, p), q)
  <2>1. CASE RankOf(q) = r
    <3>1. PICK j \in 1..n : q \in Range(b[j])
      BY <1>10, <2>1 DEF PackedIn, n, b
    <3>2. j \in 1..Len(c) /\ q \in Range(c[j])
      BY <1>6, <3>1
    <3> QED
      BY <1>7, <2>1, <3>2 DEF PackedIn
  <2>2. CASE RankOf(q) # r
    <3>1. Pack(g, p)[RankOf(q)] = g[RankOf(q)]
      BY <1>7, <2>2, ParamsFacts
    <3> QED
      BY <1>10, <3>1 DEF PackedIn
  <2> QED
    BY <2>1, <2>2
<1> QED
  BY <1>8, <1>9, <1>10

LEMMA PackedFacts ==
    /\ global_buckets \in Packings
    /\ \A p \in Params : PackedIn(global_buckets, p)
<1> DEFINE N == Len(Bytes)
           First == [rank \in ActorRanks |-> << << >> >>]
           Step(G, n) == IF n = 0 THEN First ELSE Pack(G[n - 1], n)
           Good(g, n) == g \in Packings /\ \A p \in 1..n : PackedIn(g, p)
<1>0. N \in Nat /\ Params = 1..N
  BY ParamsFacts
<1>1. First \in Packings
  <2>1. << << >> >> \in Seq(Seq(Params)) /\ << << >> >> # << >>
    BY EmptySeq
  <2> QED
    BY <2>1 DEF Packings
<1> HIDE DEF First, N
<1> DEFINE Has(n) == \E G \in [0..n -> Packings] : \A i \in 0..n : G[i] = Step(G, i)
<1> HIDE DEF Has
<1> DEFINE T == {n \in Nat : n <= N => Has(n)}
<1>2. 0 \in T
  <2> DEFINE G == [i \in 0..0 |-> First]
  <2>1. G \in [0..0 -> Packings] /\ \A i \in 0..0 : G[i] = Step(G, i)
    BY <1>1
  <2> HIDE DEF G
  <2>2. Has(0)
    BY <2>1 DEF Has
  <2> QED
    BY <2>2
<1>3. ASSUME NEW n \in Nat, n \in T PROVE n + 1 \in T
  <2>1. CASE n + 1 > N
    BY <1>0, <2>1
  <2>2. CASE n + 1 <= N
    <3>1. PICK G \in [0..n -> Packings] : \A i \in 0..n : G[i] = Step(G, i)
      <4>1. Has(n)
        BY <1>0, <1>3, <2>2
      <4> HIDE DEF Step
      <4> QED
        BY <4>1 DEF Has
    <3> DEFINE x == Pack(G[n], n + 1)
               H == [i \in 0..(n + 1) |-> IF i = n + 1 THEN x ELSE G[i]]
    <3>2. x \in Packings
      <4>1. n + 1 \in Params /\ G[n] \in Packings
        BY <1>0, <2>2
      <4> QED
        BY <4>1, PackFacts
    <3> HIDE DEF x
    <3>3. H \in [0..(n + 1) -> Packings]
      BY <3>2
    <3>4. ASSUME NEW i \in 0..(n + 1)
          PROVE  H[i] = Step(H, i)
      <4>1. CASE i = n + 1
        <5>1. H[i] = x /\ H[i - 1] = G[n] /\ i # 0
          BY <4>1
        <5> HIDE DEF H
        <5> QED
          BY <4>1, <5>1 DEF x
      <4>2. CASE i # n + 1
        <5>1. i \in 0..n /\ i - 1 # n + 1 /\ (i # 0 => i - 1 \in 0..n)
          BY <4>2
        <5>2. H[i] = G[i] /\ (i # 0 => H[i - 1] = G[i - 1])
          BY <4>2, <5>1
        <5>3. G[i] = Step(G, i)
          BY <3>1, <5>1
        <5> HIDE DEF H
        <5> QED
          BY <5>2, <5>3
      <4> QED
        BY <4>1, <4>2
    <3> HIDE DEF H, Step
    <3>5. Has(n + 1)
      BY <3>3, <3>4 DEF Has
    <3> QED
      BY <3>5
  <2> QED
    BY <1>0, <2>1, <2>2
<1>4. Has(N)
  <2> HIDE DEF T
  <2>1. Nat \subseteq T
    BY <1>2, <1>3, Induction
  <2>2. N \in T /\ N <= N
    BY <1>0, <2>1
  <2> QED
    BY <2>2 DEF T
<1> DEFINE Eq(G) == G = [n \in 0..N |-> IF n = 0 THEN First ELSE Pack(G[n - 1], n)]
<1>5. \E G : Eq(G)
  <2>1. PICK G \in [0..N -> Packings] : \A i \in 0..N : G[i] = Step(G, i)
    <3> HIDE DEF Step
    <3> QED
      BY <1>4 DEF Has
  <2> DEFINE E == [n \in 0..N |-> IF n = 0 THEN First ELSE Pack(G[n - 1], n)]
  <2>2. \A i \in 0..N : G[i] = E[i]
    BY <2>1
  <2>3. G = E
    BY <2>1, <2>2
  <2> QED
    BY <2>3
<1> DEFINE G == CHOOSE H : Eq(H)
<1>6. Eq(G)
  BY <1>5
<1>7. packed = G
  BY DEF packed, First, N
<1> HIDE DEF G
<1>8. \A n \in 0..N : G[n] = IF n = 0 THEN First ELSE Pack(G[n - 1], n)
  BY <1>6
<1> HIDE DEF Eq
<1> HIDE DEF Good
<1> DEFINE U == {n \in Nat : n <= N => Good(G[n], n)}
<1>9. 0 \in U
  <2>1. G[0] = First
    BY <1>0, <1>8
  <2>2. Good(G[0], 0)
    BY <1>1, <2>1 DEF Good
  <2> QED
    BY <2>2
<1>10. ASSUME NEW n \in Nat, n \in U PROVE n + 1 \in U
  <2> DEFINE m == n + 1
  <2>1. SUFFICES ASSUME m <= N PROVE Good(G[m], m)
    OBVIOUS
  <2>2. m \in 0..N /\ m # 0 /\ m - 1 = n /\ m \in Params /\ n <= N /\ 1..m = 1..n \cup {m}
        /\ 1..n \subseteq Params
    BY <1>0, <2>1
  <2>3. Good(G[n], n)
    BY <1>10, <2>2
  <2> HIDE DEF m
  <2>4. G[m] = Pack(G[n], m)
    BY <1>8, <2>2
  <2>5. G[n] \in Packings /\ \A p \in 1..n : PackedIn(G[n], p)
    BY <2>3 DEF Good
  <2>6. /\ G[m] \in Packings /\ PackedIn(G[m], m)
        /\ \A p \in Params : PackedIn(G[n], p) => PackedIn(G[m], p)
    BY <2>2, <2>4, <2>5, PackFacts
  <2> QED
    BY <2>2, <2>5, <2>6 DEF Good
<1>11. Good(G[N], N)
  <2> HIDE DEF U
  <2>1. Nat \subseteq U
    BY <1>9, <1>10, Induction
  <2>2. N \in U /\ N <= N
    BY <1>0, <2>1
  <2> QED
    BY <2>2 DEF U
<1> QED
  BY <1>0, <1>7, <1>11 DEF global_buckets, Good, N

-----------------------------------------------------------------------------
(* The order of the broadcasts.                                            *)
Turns == {b \in [src : ActorRanks, round : Nat \ {0}] : b.round <= Len(global_buckets[b.src])}
Sorted(s) == \A i, j \in 1..Len(s) : i <= j => s[i].round <= s[j].round

LEMMA BucketCounts ==
    /\ \A r \in ActorRanks : Len(global_buckets[r]) \in Nat \ {0}
    /\ MaxBucketsPerRank \in Nat \ {0}
    /\ \A r \in ActorRanks : Len(global_buckets[r]) <= MaxBucketsPerRank
<1> DEFINE len(r) == Len(global_buckets[r])
<1>1. ASSUME NEW r \in ActorRanks PROVE len(r) \in Nat \ {0}
  <2> DEFINE S == Seq(Params)
             b == global_buckets[r]
  <2>1. b \in Seq(S) /\ b # << >>
    BY PackedFacts DEF Packings
  <2> HIDE DEF b, S
  <2>2. Len(b) \in Nat /\ Len(b) # 0
    BY <2>1, LenProperties, EmptySeq
  <2> QED
    BY <2>2 DEF b
<1> HIDE DEF len
<1> DEFINE Bounded(n) == \E m \in Nat : \A r \in ActorRanks : r < n => len(r) <= m
<1> HIDE DEF Bounded
<1> DEFINE T == {n \in Nat : Bounded(n)}
<1>2. 0 \in T
  <2>1. Bounded(0)
    BY RanksAssumption DEF Bounded, ActorRanks
  <2> QED
    BY <2>1
<1>3. ASSUME NEW n \in Nat, n \in T PROVE n + 1 \in T
  <2>1. PICK m \in Nat : \A r \in ActorRanks : r < n => len(r) <= m
    BY <1>3 DEF Bounded
  <2>2. CASE n \in ActorRanks
    <3> DEFINE k == IF m <= len(n) THEN len(n) ELSE m
    <3>1. len(n) \in Nat
      BY <1>1, <2>2
    <3>2. k \in Nat /\ m <= k /\ len(n) <= k
      BY <3>1
    <3> HIDE DEF k
    <3>3. ASSUME NEW r \in ActorRanks, r < n + 1 PROVE len(r) <= k
      <4>1. r = n \/ r < n
        BY <3>3, RanksAssumption DEF ActorRanks
      <4>2. CASE r = n
        BY <3>2, <4>2
      <4>3. CASE r < n
        BY <1>1, <2>1, <3>2, <4>3
      <4> QED
        BY <4>1, <4>2, <4>3
    <3>4. Bounded(n + 1)
      BY <3>2, <3>3 DEF Bounded
    <3> QED
      BY <3>4
  <2>3. CASE n \notin ActorRanks
    <3>1. \A r \in ActorRanks : r < n + 1 => r < n
      BY <2>3, RanksAssumption DEF ActorRanks
    <3>2. Bounded(n + 1)
      BY <2>1, <3>1 DEF Bounded
    <3> QED
      BY <3>2
  <2> QED
    BY <2>2, <2>3
<1>4. Bounded(ActorNum)
  <2> HIDE DEF T
  <2>1. Nat \subseteq T
    BY <1>2, <1>3, Induction
  <2>2. ActorNum \in T
    BY <2>1, RanksAssumption
  <2> QED
    BY <2>2 DEF T
<1> DEFINE B == {m \in Nat : \A r \in ActorRanks : len(r) <= m}
<1>5. B # {}
  BY <1>4, RanksAssumption DEF Bounded, ActorRanks
<1>6. PICK m \in B : \A k \in B : m <= k
  <2>1. B \subseteq Nat
    OBVIOUS
  <2> HIDE DEF B
  <2> QED
    BY <1>5, <2>1, Least
<1>7. \E r \in ActorRanks : len(r) = m
  <2>1. SUFFICES ASSUME \A r \in ActorRanks : len(r) # m PROVE FALSE
    OBVIOUS
  <2>2. \A r \in ActorRanks : len(r) \in Nat /\ len(r) # 0 /\ len(r) <= m
    BY <1>1, <1>6
  <2>3. 0 \in ActorRanks
    BY RanksAssumption DEF ActorRanks
  <2>4. m - 1 \in Nat
    BY <1>6, <2>2, <2>3
  <2>5. \A r \in ActorRanks : len(r) <= m - 1
    BY <1>6, <2>1, <2>2
  <2>6. m - 1 \in B
    BY <2>4, <2>5
  <2> QED
    BY <1>6, <2>6
<1>8. \E n \in {Len(global_buckets[r]) : r \in ActorRanks} :
         \A r \in ActorRanks : Len(global_buckets[r]) <= n
  BY <1>6, <1>7 DEF len
<1>9. /\ MaxBucketsPerRank \in {Len(global_buckets[r]) : r \in ActorRanks}
      /\ \A r \in ActorRanks : Len(global_buckets[r]) <= MaxBucketsPerRank
  BY <1>8 DEF MaxBucketsPerRank
<1> QED
  BY <1>1, <1>9 DEF len

LEMMA RoundFacts ==
    ASSUME NEW i \in Nat \ {0}
    PROVE  /\ Round(i) \in Seq({b \in Turns : b.round = i})
           /\ \A b \in Turns : b.round = i => b \in Range(Round(i))
<1> DEFINE S == {b \in Turns : b.round = i}
           ss == [r \in 1..ActorNum |-> Turn(i, r - 1)]
<1>1. ASSUME NEW r \in 1..ActorNum PROVE Turn(i, r - 1) \in Seq(S)
  <2>1. r - 1 \in ActorRanks
    BY RanksAssumption DEF ActorRanks
  <2>2. CASE i > Len(global_buckets[r - 1])
    BY <2>2, EmptySeq DEF Turn
  <2>3. CASE ~(i > Len(global_buckets[r - 1]))
    <3> DEFINE b == [src |-> r - 1, round |-> i]
    <3>1. i <= Len(global_buckets[r - 1])
      BY <2>1, <2>3, BucketCounts
    <3>2. b \in S
      BY <2>1, <3>1 DEF Turns
    <3> HIDE DEF b, S
    <3>3. <<b>> \in Seq(S)
      BY <3>2
    <3> QED
      BY <2>3, <3>3 DEF Turn, b
  <2> QED
    BY <2>2, <2>3
<1>2. ss \in Seq(Seq(S)) /\ Len(ss) = ActorNum /\ ss # << >>
  <2> DEFINE Q == Seq(S)
  <2>1. ss \in [1..ActorNum -> Q]
    BY <1>1
  <2> HIDE DEF ss, Q
  <2>2. ss \in Seq(Q) /\ Len(ss) = ActorNum
    BY <2>1, RanksAssumption
  <2>3. ss # << >>
    BY <2>2, RanksAssumption, EmptySeq
  <2> QED
    BY <2>2, <2>3 DEF Q
<1>3. /\ FlattenSeq(ss) \in Seq(S)
      /\ \A r \in 1..Len(ss) : Range(ss[r]) \subseteq Range(FlattenSeq(ss))
  <2> HIDE DEF ss, S
  <2> QED
    BY <1>2, FlattenFacts
<1>4. ASSUME NEW b \in Turns, b.round = i PROVE b \in Range(Round(i))
  <2> DEFINE r == b.src + 1
  <2>1. /\ b.src \in ActorRanks /\ b = [src |-> b.src, round |-> i]
        /\ i <= Len(global_buckets[b.src])
    BY <1>4 DEF Turns
  <2>2. r \in 1..ActorNum /\ r - 1 = b.src
    BY <2>1, RanksAssumption DEF ActorRanks
  <2>3. ~(i > Len(global_buckets[b.src]))
    BY <2>1, BucketCounts
  <2>4. ss[r] = << b >>
    BY <2>1, <2>2, <2>3 DEF Turn
  <2>5. b \in Range(ss[r])
    <3>1. \A x : x \in Range(<< x >>)
      BY DEF Range
    <3> HIDE DEF ss
    <3> QED
      BY <2>4, <3>1
  <2> HIDE DEF ss
  <2>6. b \in Range(FlattenSeq(ss))
    BY <1>2, <1>3, <2>2, <2>5
  <2> QED
    BY <2>6 DEF Round, ss
<1> QED
  BY <1>3, <1>4 DEF Round

(* Every bucket is broadcast, those of a round before those of the next.   *)
LEMMA BroadcastOrder ==
    /\ Broadcasts \in Seq(Turns) /\ Turns \subseteq Range(Broadcasts)
    /\ Sorted(Broadcasts)
<1> DEFINE S == Turns
           Q == Seq(S)
           M == MaxBucketsPerRank
           ss == [i \in 1..M |-> Round(i)]
<1>1. M \in Nat \ {0}
  BY BucketCounts
<1>2. ASSUME NEW i \in 1..M
      PROVE  /\ ss[i] \in Q /\ \A b \in S : b.round = i => b \in Range(ss[i])
             /\ \A j \in 1..Len(ss[i]) : ss[i][j].round = i
  <2> DEFINE W == {b \in Turns : b.round = i}
  <2>1. Round(i) \in Seq(W) /\ \A b \in S : b.round = i => b \in Range(Round(i))
    BY <1>1, RoundFacts
  <2>2. W \subseteq S /\ \A b \in W : b.round = i
    OBVIOUS
  <2> HIDE DEF W, S
  <2>3. \A j \in 1..Len(Round(i)) : Round(i)[j] \in W
    BY <2>1, ElementOfSeq
  <2>4. Round(i) \in [1..Len(Round(i)) -> S] /\ Len(Round(i)) \in Nat
    <3>1. DOMAIN Round(i) = 1..Len(Round(i)) /\ Len(Round(i)) \in Nat
          /\ Round(i) \in [1..Len(Round(i)) -> W]
      BY <2>1, LenProperties
    <3> QED
      BY <2>2, <3>1
  <2>5. Round(i) \in Seq(S)
    BY <2>4
  <2> QED
    BY <2>1, <2>2, <2>3, <2>5
<1>3. ss \in Seq(Q) /\ Len(ss) = M /\ ss # << >>
  <2>1. ss \in [1..M -> Q]
    BY <1>2
  <2> HIDE DEF ss, Q, M
  <2>2. ss \in Seq(Q) /\ Len(ss) = M
    BY <1>1, <2>1
  <2>3. ss # << >>
    BY <1>1, <2>2, EmptySeq
  <2> QED
    BY <2>2, <2>3
<1>4. Broadcasts = FlattenSeq(ss)
  BY DEF Broadcasts
<1> HIDE DEF ss, S, M
<1>5. Broadcasts \in Q /\ \A i \in 1..M : Range(ss[i]) \subseteq Range(Broadcasts)
  BY <1>3, <1>4, FlattenFacts
<1>6. Turns \subseteq Range(Broadcasts)
  <2>1. SUFFICES ASSUME NEW b \in Turns PROVE b \in Range(Broadcasts)
    OBVIOUS
  <2>2. b.src \in ActorRanks /\ b.round \in Nat \ {0} /\ b.round <= Len(global_buckets[b.src])
    BY DEF Turns
  <2>3. b.round \in 1..M
    BY <2>2, BucketCounts DEF M
  <2>4. b \in Range(ss[b.round])
    BY <1>2, <2>3 DEF S
  <2> QED
    BY <1>5, <2>3, <2>4
<1>7. PICK F \in [0..M -> Q] :
             /\ F[0] = << >> /\ Broadcasts = F[M]
             /\ \A i \in 1..M : F[i] = F[i - 1] \o ss[i]
  BY <1>3, <1>4, Flattened
<1> DEFINE Upto(s, n) == /\ \A i \in 1..Len(s) : s[i].round <= n
                         /\ Sorted(s)
<1> HIDE DEF Upto
<1> DEFINE T == {n \in Nat : n <= M => Upto(F[n], n)}
<1>8. 0 \in T
  <2>1. Upto(<< >>, 0)
    BY DEF Upto, Sorted
  <2> QED
    BY <1>7, <2>1
<1>9. ASSUME NEW n \in Nat, n \in T PROVE n + 1 \in T
  <2> DEFINE m == n + 1
  <2>1. SUFFICES ASSUME m <= M PROVE Upto(F[m], m)
    OBVIOUS
  <2>2. m \in 1..M /\ m - 1 = n /\ n <= M /\ n <= m /\ n \in 0..M /\ m \in Nat
    BY <1>1, <2>1
  <2> DEFINE s == F[n]
             t == ss[m]
  <2>3. Upto(s, n) /\ s \in Q
    BY <1>7, <1>9, <2>2
  <2> HIDE DEF m, T
  <2>4. F[m] = s \o t /\ t \in Q /\ \A j \in 1..Len(t) : t[j].round = m
    BY <1>2, <1>7, <2>2
  <2> HIDE DEF s, t
  <2>5. /\ Len(s \o t) = Len(s) + Len(t) /\ Len(s) \in Nat /\ Len(t) \in Nat
        /\ \A i \in 1..Len(s) + Len(t) :
             (s \o t)[i] = IF i <= Len(s) THEN s[i] ELSE t[i - Len(s)]
    BY <2>3, <2>4, ConcatProperties, LenProperties
  <2>6. ASSUME NEW i \in 1..Len(s \o t)
        PROVE  \/ i \in 1..Len(s) /\ (s \o t)[i].round = s[i].round /\ s[i].round <= n
               \/ i > Len(s) /\ (s \o t)[i].round = m
    <3>1. CASE i <= Len(s)
      BY <2>3, <2>5, <3>1 DEF Upto
    <3>2. CASE ~(i <= Len(s))
      <4>1. i - Len(s) \in 1..Len(t) /\ (s \o t)[i] = t[i - Len(s)] /\ i > Len(s)
        BY <2>5, <3>2
      <4> QED
        BY <2>4, <4>1
    <3> QED
      BY <3>1, <3>2
  <2>7. \A i \in 1..Len(s) : s[i].round \in Nat
    <3>1. \A i \in 1..Len(s) : s[i] \in S
      BY <2>3, ElementOfSeq
    <3> QED
      BY <3>1 DEF S, Turns
  <2>8. ASSUME NEW i \in 1..Len(s \o t) PROVE (s \o t)[i].round <= m
    BY <2>2, <2>6, <2>7
  <2>9. ASSUME NEW i \in 1..Len(s \o t), NEW j \in 1..Len(s \o t), i <= j
        PROVE  (s \o t)[i].round <= (s \o t)[j].round
    <3>1. CASE i \in 1..Len(s) /\ j \in 1..Len(s)
      <4>1. s[i].round <= s[j].round
        BY <2>3, <2>9, <3>1 DEF Upto, Sorted
      <4>2. (s \o t)[i].round = s[i].round /\ (s \o t)[j].round = s[j].round
        BY <2>5, <2>6, <3>1
      <4> QED
        BY <4>1, <4>2
    <3>2. CASE j > Len(s)
      <4>1. (s \o t)[j].round = m
        BY <2>5, <2>6, <3>2
      <4> QED
        BY <2>8, <4>1
    <3> QED
      BY <2>5, <2>6, <2>9, <3>1, <3>2
  <2> QED
    BY <2>4, <2>8, <2>9 DEF Upto, Sorted
<1>10. Upto(F[M], M)
  <2> HIDE DEF T
  <2>1. Nat \subseteq T
    BY <1>8, <1>9, Induction
  <2>2. M \in T /\ M <= M
    BY <1>1, <2>1
  <2> QED
    BY <2>2 DEF T
<1> QED
  BY <1>5, <1>6, <1>7, <1>10 DEF Upto, S

LEMMA BroadcastFacts ==
    /\ Buckets \in Nat
    /\ \A i \in 1..Buckets :
         /\ Owner(i) \in ActorRanks /\ Broadcasts[i].src = Owner(i)
         /\ Broadcasts[i].round \in Nat \ {0}
         /\ Broadcasts[i].round \in DOMAIN global_buckets[Owner(i)]
         /\ MetasOf(Broadcasts[i]) \in Seq(Params)
         /\ MetasOf(Broadcasts[i]) = global_buckets[Owner(i)][Broadcasts[i].round]
    /\ \A i, j \in 1..Buckets : i <= j => Broadcasts[i].round <= Broadcasts[j].round
<1>1. Buckets \in Nat /\ \A i \in 1..Buckets : Broadcasts[i] \in Turns
  BY BroadcastOrder, LenProperties, ElementOfSeq DEF Buckets
<1>2. ASSUME NEW i \in 1..Buckets
      PROVE  /\ Owner(i) \in ActorRanks /\ Broadcasts[i].round \in Nat \ {0}
             /\ Broadcasts[i].round \in DOMAIN global_buckets[Owner(i)]
             /\ MetasOf(Broadcasts[i]) = global_buckets[Owner(i)][Broadcasts[i].round]
             /\ MetasOf(Broadcasts[i]) \in Seq(Params)
  <2> DEFINE b == Broadcasts[i]
             S == Seq(Params)
             g == global_buckets[b.src]
  <2>1. b.src \in ActorRanks /\ b.round \in Nat \ {0} /\ b.round <= Len(g)
    BY <1>1 DEF Turns
  <2>2. g \in Seq(S)
    BY <2>1, PackedFacts DEF Packings
  <2> HIDE DEF g, S, b
  <2>3. DOMAIN g = 1..Len(g) /\ b.round \in 1..Len(g) /\ g[b.round] \in S
    BY <2>1, <2>2, LenProperties, ElementOfSeq
  <2> QED
    BY <2>1, <2>3 DEF g, S, b, MetasOf, Owner
<1>3. \A i, j \in 1..Buckets : i <= j => Broadcasts[i].round <= Broadcasts[j].round
  BY BroadcastOrder DEF Sorted, Buckets
<1> QED
  BY <1>1, <1>2, <1>3 DEF Owner

\* No parameter of weights_info is left out, on whichever rank and in whichever
\* bucket it is packed: it is part of some broadcast.
THEOREM EveryParameterSent ==
    ASSUME NEW p \in Params
    PROVE  \E i \in 1..Buckets : p \in Range(MetasOf(Broadcasts[i]))
<1> DEFINE r == RankOf(p)
<1>1. r \in ActorRanks
  BY ParamsFacts
<1>2. PICK j \in 1..Len(global_buckets[r]) : p \in Range(global_buckets[r][j])
  BY PackedFacts DEF PackedIn
<1>3. j \in Nat \ {0} /\ j <= Len(global_buckets[r])
  BY <1>1, BucketCounts
<1> HIDE DEF r
<1> DEFINE b == [src |-> r, round |-> j]
<1>4. b \in Turns
  BY <1>1, <1>3 DEF Turns
<1>5. MetasOf(b) = global_buckets[r][j]
  BY DEF MetasOf
<1> HIDE DEF b
<1>6. b \in Range(Broadcasts) /\ DOMAIN Broadcasts = 1..Buckets
  BY <1>4, BroadcastOrder, LenProperties DEF Buckets
<1>7. PICK i \in 1..Buckets : Broadcasts[i] = b
  BY <1>6 DEF Range
<1> QED
  BY <1>2, <1>5, <1>7

LEMMA BucketTypes == global_buckets \in [ActorRanks -> Seq(Seq(Params))]
  BY PackedFacts DEF Packings


LEMMA RankTypes ==
    /\ ActorRanks \subseteq Nat /\ RolloutRanks \subseteq Nat
    /\ ActorRanks \cap RolloutRanks = {} /\ Ranks = ActorRanks \cup RolloutRanks
    /\ RolloutRanks # {}
<1>1. ActorNum \in RolloutRanks
  BY RanksAssumption DEF RolloutRanks
<1> QED
  BY <1>1, RanksAssumption DEF Ranks, ActorRanks, RolloutRanks

TransferTypes == TransferTypeOK /\ request = [r \in Ranks |-> request[r]]

\* What a step of another rank leaves alone.
SameRank(s) ==
    /\ calls'[s] = calls[s] /\ at'[s] = at[s] /\ gidx'[s] = gidx[s]
    /\ barriers'[s] = barriers[s] /\ memory_buffers'[s] = memory_buffers[s]
    /\ h2d_buffer'[s] = h2d_buffer[s] /\ load_buffer'[s] = load_buffer[s]
    /\ request'[s] = request[s] /\ reply'[s] = reply[s] /\ consumer'[s] = consumer[s]
    /\ s \in RolloutRanks => model'[s] = model[s]

LEMMA LoadedOthers ==
    ASSUME TransferTypes, NEW r \in Ranks, NEW metas, NEW half, NEW s \in RolloutRanks \ {r}
    PROVE  Loaded(r, metas, half)[s] = model[s]
  BY DEF Loaded, TransferTypes, TransferTypeOK

LEMMA OthersSame ==
    ASSUME TransferTypes, NEW r \in Ranks, RankStep(r), NEW s \in Ranks \ {r}
    PROVE  SameRank(s) /\ UNCHANGED fixed
<1>0. ASSUME s \in RolloutRanks, NEW metas, NEW half, model' = Loaded(r, metas, half)
      PROVE  model'[s] = model[s]
  BY <1>0, LoadedOthers
<1> USE DEF TransferTypes, TransferTypeOK, SameRank, fixed, buffers, threads, GoTo,
        ArriveAtBarrier
<1>1. CASE Register(r) \/ Open(r)
  BY <1>1 DEF Register, Open
<1>2. CASE Broadcast(r)
  BY <1>2 DEF Broadcast
<1>3. CASE LoadInPlace(r)
  BY <1>0, <1>3 DEF LoadInPlace
<1>4. CASE TakeReply(r) \/ HandOver(r) \/ StopThread(r)
  BY <1>4 DEF TakeReply, HandOver, StopThread
<1>5. CASE JoinThread(r) \/ ReachLastBarrier(r) \/ Close(r)
  BY <1>5 DEF JoinThread, ReachLastBarrier, Close
<1>6. CASE ConsumerGreets(r) \/ ConsumerStarts(r) \/ ConsumerEnds(r)
  BY <1>6 DEF ConsumerGreets, ConsumerStarts, ConsumerEnds
<1>7. CASE ConsumerLoads(r)
  BY <1>0, <1>7 DEF ConsumerLoads
<1> QED
  BY <1>1, <1>2, <1>3, <1>4, <1>5, <1>6, <1>7 DEF RankStep, MainThread, Consumer

LEMMA LocalKept ==
    ASSUME NEW s \in Ranks, Local(s), SameRank(s), UNCHANGED <<pc, fixed>>
    PROVE  Local(s)'
<1>1. /\ InCall(s)' <=> InCall(s)
      /\ Opened(s)' <=> Opened(s)
      /\ Served(s)' <=> Served(s)
      /\ Got(s)' = Got(s) /\ Consumed(s)' = Consumed(s)
  BY DEF SameRank, InCall, Opened, Served, Got, Consumed
<1>2. overlap' = overlap /\ actor_version' = actor_version /\ pc' = pc
  BY DEF fixed
<1>3. Placed(s)'
  BY <1>1, <1>2 DEF Local, Placed, SameRank
<1>4. Memory(s)'
  BY <1>1, <1>2 DEF Local, Memory, SameRank
<1>5. Device(s)'
  BY <1>1, <1>2 DEF Local, Device, SameRank
<1>6. Buffered(s)'
  BY <1>1, <1>2 DEF Local, Buffered, SameRank, Half, Sent
<1>7. Socket(s)'
  BY <1>2 DEF Local, Socket, SameRank, Asked, Answered, Silent, Half
<1>8. Weights(s)'
  BY <1>1, <1>2 DEF Local, Weights, SameRank
<1> QED
  BY <1>3, <1>4, <1>5, <1>6, <1>7, <1>8 DEF Local


-----------------------------------------------------------------------------
LEMMA InTransfer ==
    ASSUME TransferInv, NEW r \in Ranks, at[r] \notin {"idle", "lastBarrier"}
    PROVE  pc = "transfer" /\ calls[r] = 0 /\ InCall(r)
<1>1. Placed(r) /\ at[r] # "idle"
  BY DEF TransferInv, Local
<1> QED
  BY <1>1 DEF Placed, InCall

LEMMA HalfIsHalf ==
    ASSUME NEW g \in Nat, overlap \in BOOLEAN
    PROVE  /\ Half(g) \in {0, 1}
           /\ overlap => Half(g + 1) # Half(g)
           /\ ~overlap => Half(g) = 0
  BY DEF Half

\* What the second thread is asked to load is the bucket before.
LEMMA LoadRequest ==
    ASSUME TransferInv, NEW r \in Ranks, request[r].type = "load"
    PROVE  /\ overlap /\ at[r] \in {"broadcast", "reply"} /\ gidx[r] > 0 /\ gidx[r] - 1 \in Nat
           /\ gidx[r] \in 1..Buckets /\ ~reply[r]
           /\ request[r] = Payload(MetasOf(Broadcasts[gidx[r]]), Half(gidx[r] - 1))
           /\ request[r].metas = MetasOf(Broadcasts[gidx[r]])
           /\ request[r].half = Half(gidx[r] - 1)
<1>1. Socket(r) /\ Placed(r)
  BY DEF TransferInv, Local
<1>2. at[r] \in {"idle", "registered", "broadcast", "load", "reply", "barrier", "join",
                 "lastBarrier"} /\ gidx[r] \in 0..Buckets /\ overlap \in BOOLEAN
  BY DEF TransferInv, TransferTypeOK, Buckets
<1>3. request[r] # NoRequest /\ request[r] # Greeting /\ request[r] # Stop
  BY DEF NoRequest, Greeting, Stop
<1>4. overlap /\ at[r] \in {"broadcast", "reply"} /\ Asked(r)
  BY <1>1, <1>2, <1>3 DEF Socket, Placed, Silent, Answered
<1>5. gidx[r] > 0 /\ request[r] = Payload(MetasOf(Broadcasts[gidx[r]]), Half(gidx[r] - 1))
  BY <1>1, <1>3, <1>4 DEF Socket
<1>6. gidx[r] \in 1..Buckets /\ gidx[r] - 1 \in Nat
  <2>1. gidx[r] \in 0..Buckets /\ gidx[r] > 0 /\ Buckets \in Nat
    BY <1>2, <1>5, BroadcastFacts
  <2> QED
    BY <2>1
<1>7. /\ request[r].metas = MetasOf(Broadcasts[gidx[r]])
      /\ request[r].half = Half(gidx[r] - 1)
  BY <1>5 DEF Payload
<1> QED
  BY <1>4, <1>5, <1>6, <1>7 DEF Asked

LEMMA LoadedType ==
    ASSUME TransferTypes, NEW r \in Ranks, NEW metas, NEW half \in {0, 1}
    PROVE  Loaded(r, metas, half) \in [RolloutRanks -> [Params -> Versions]]
<1>1. load_buffer[r][half] \in Contents /\ model \in [RolloutRanks -> [Params -> Versions]]
  BY DEF TransferTypes, TransferTypeOK
<1>2. \A p : Extracted(r, metas, half, p) \in Versions
  BY <1>1 DEF Extracted, Contents, Versions
<1> QED
  BY <1>1, <1>2 DEF Loaded

LEMMA BlankIsContents == Blank \in Contents
  BY EmptySeq DEF Blank, Contents, Versions

LEMMA HostToDeviceType ==
    ASSUME TransferInv, NEW r \in Ranks, at[r] = "broadcast", gidx[r] < Buckets
    PROVE  HostToDevice(r, Broadcasts[gidx[r] + 1]) \in Contents
<1> DEFINE b == Broadcasts[gidx[r] + 1]
<1>0. /\ h2d_buffer[r] \in Contents /\ actor_version \in Nat /\ gidx[r] \in 0..Buckets
  BY DEF TransferInv, TransferTypeOK, Buckets
<1>1. gidx[r] \in Nat /\ gidx[r] + 1 \in 1..Buckets
  BY <1>0, BroadcastFacts
<1>2. b.round \in Nat \ {0}
  BY <1>1, BroadcastFacts
<1>3. Memory(r) /\ pc = "transfer" /\ InCall(r)
  BY InTransfer DEF TransferInv, Local
<1>4. ASSUME b.round <= Len(memory_buffers[r])
      PROVE  /\ global_buckets[r][b.round] \in Seq(Params)
             /\ memory_buffers[r][b.round] = actor_version
  <2>1. r \in ActorRanks /\ memory_buffers[r] = [i \in DOMAIN global_buckets[r] |-> actor_version]
    <3>1. Len(<< >>) = 0
      OBVIOUS
    <3> QED
      BY <1>2, <1>3, <1>4, <3>1 DEF Memory
  <2> DEFINE g == global_buckets[r]
             S == Seq(Params)
  <2>2. g \in Seq(S)
    BY <2>1, BucketTypes
  <2> HIDE DEF g, S
  <2>3. Len(memory_buffers[r]) = Len(g)
    BY <2>1, <2>2 DEF g
  <2>4. b.round \in DOMAIN g /\ b.round \in 1..Len(g)
    BY <1>2, <1>4, <2>2, <2>3
  <2> QED
    BY <2>1, <2>2, <2>4 DEF g, S
<1> QED
  BY <1>0, <1>4 DEF HostToDevice, Contents, Versions

Places == {"idle", "registered", "broadcast", "load", "reply", "barrier", "join",
           "lastBarrier"}

LEMMA TypesKept ==
    ASSUME TransferInv, NEW r \in Ranks, RankStep(r)
    PROVE  TransferTypes'
<1>0. /\ overlap \in BOOLEAN /\ actor_version \in Nat
      /\ calls \in [Ranks -> Nat] /\ gidx \in [Ranks -> 0..Buckets]
      /\ at \in [Ranks -> Places] /\ barriers \in [Ranks -> Nat]
      /\ memory_buffers \in [Ranks -> Seq(Nat)]
      /\ h2d_buffer \in [Ranks -> Contents]
      /\ load_buffer \in [Ranks -> [{0, 1} -> Contents]]
      /\ wire \in Seq(Contents)
      /\ consumer \in [Ranks -> {"none", "waiting", "loading"}]
      /\ reply \in [Ranks -> BOOLEAN]
      /\ model \in [RolloutRanks -> [Params -> Versions]]
      /\ request = [s \in Ranks |-> request[s]]
  BY DEF TransferInv, TransferTypeOK, Buckets, Places
<1>n. Buckets \in Nat
  BY BroadcastFacts
<1>p. Placed(r) /\ TransferTypes
  BY DEF TransferInv, Local, TransferTypes
<1>t. ASSUME UNCHANGED fixed,
             calls' \in [Ranks -> Nat], gidx' \in [Ranks -> 0..Buckets],
             at' \in [Ranks -> Places], barriers' \in [Ranks -> Nat],
             memory_buffers' \in [Ranks -> Seq(Nat)],
             h2d_buffer' \in [Ranks -> Contents],
             load_buffer' \in [Ranks -> [{0, 1} -> Contents]],
             wire' \in Seq(Contents),
             consumer' \in [Ranks -> {"none", "waiting", "loading"}],
             reply' \in [Ranks -> BOOLEAN],
             model' \in [RolloutRanks -> [Params -> Versions]],
             request' = [s \in Ranks |-> request'[s]]
      PROVE  TransferTypes'
  BY <1>0, <1>t DEF TransferTypes, TransferTypeOK, Buckets, Places, fixed
<1>g. ASSUME NEW p \in Places, GoTo(r, p)
      PROVE  at' \in [Ranks -> Places]
  BY <1>0, <1>g DEF GoTo
<1>b. ArriveAtBarrier(r) => barriers' \in [Ranks -> Nat]
  BY <1>0 DEF ArriveAtBarrier
<1>r. \A x : request' = [request EXCEPT ![r] = x] => request' = [s \in Ranks |-> request'[s]]
  BY <1>0
<1>y. \A x \in BOOLEAN : reply' = [reply EXCEPT ![r] = x] => reply' \in [Ranks -> BOOLEAN]
  BY <1>0
<1>i. gidx[r] < Buckets /\ gidx' = [gidx EXCEPT ![r] = @ + 1] => gidx' \in [Ranks -> 0..Buckets]
  BY <1>0, <1>n
<1> HIDE DEF TransferTypes
<1>1. CASE Register(r)
  <2>1. r \in ActorRanks => [i \in DOMAIN global_buckets[r] |-> actor_version] \in Seq(Nat)
    <3> DEFINE g == global_buckets[r]
               S == Seq(Params)
               m == [i \in DOMAIN g |-> actor_version]
    <3>1. r \in ActorRanks => g \in Seq(S)
      BY BucketTypes
    <3> HIDE DEF g, S
    <3>2. r \in ActorRanks => DOMAIN g = 1..Len(g) /\ Len(g) \in Nat
      BY <3>1
    <3>3. r \in ActorRanks => m \in [1..Len(g) -> Nat]
      BY <1>0, <3>2
    <3> HIDE DEF m
    <3>4. r \in ActorRanks => m \in Seq(Nat)
      BY <3>2, <3>3
    <3> QED
      BY <3>4 DEF g, m
  <2>2. memory_buffers' \in [Ranks -> Seq(Nat)]
    BY <1>0, <1>1, <2>1, EmptySeq DEF Register
  <2>3. wire' \in Seq(Contents)
    BY <1>1, EmptySeq DEF Register
  <2>4. calls' \in [Ranks -> Nat]
    BY <1>0, <1>1 DEF Register
  <2>5. at' \in [Ranks -> Places] /\ barriers' \in [Ranks -> Nat]
    BY <1>1, <1>g, <1>b DEF Register, Places
  <2>6. UNCHANGED <<fixed, gidx, h2d_buffer, load_buffer, threads, model>>
    BY <1>1 DEF Register
  <2> QED
    BY <1>0, <1>t, <2>2, <2>3, <2>4, <2>5, <2>6 DEF threads
<1>2. CASE Open(r)
  <2>1. at' \in [Ranks -> Places]
    BY <1>2, <1>g DEF Open, Places
  <2>2. /\ h2d_buffer' \in [Ranks -> Contents]
        /\ load_buffer' \in [Ranks -> [{0, 1} -> Contents]]
        /\ gidx' \in [Ranks -> 0..Buckets]
    BY <1>0, <1>n, <1>2, BlankIsContents DEF Open
  <2>3. /\ request' = [s \in Ranks |-> request'[s]]
        /\ consumer' \in [Ranks -> {"none", "waiting", "loading"}]
    BY <1>0, <1>2 DEF Open
  <2>4. UNCHANGED <<fixed, calls, barriers, memory_buffers, wire, reply, model>>
    BY <1>2 DEF Open
  <2> QED
    BY <1>0, <1>t, <2>1, <2>2, <2>3, <2>4
<1>3. CASE Broadcast(r)
  <2> DEFINE b == Broadcasts[gidx[r] + 1]
             device == HostToDevice(r, b)
             received == IF b.src = r THEN device ELSE wire[gidx[r] + 1]
  <2>1. at[r] = "broadcast" /\ gidx[r] < Buckets
    BY <1>3 DEF Broadcast, Buckets
  <2>2. device \in Contents
    BY <2>1, HostToDeviceType
  <2>3. /\ b.src # r => gidx[r] < Len(wire)
        /\ h2d_buffer' = [h2d_buffer EXCEPT ![r] = device]
        /\ load_buffer' = [load_buffer EXCEPT ![r][Half(gidx[r])] = received]
        /\ wire' = IF b.src = r THEN Append(wire, received) ELSE wire
        /\ UNCHANGED <<fixed, calls, gidx, barriers, memory_buffers, threads, model>>
    BY <1>3 DEF Broadcast
  <2>4. at' \in [Ranks -> Places]
    BY <1>3, <1>g DEF Broadcast, Places
  <2> HIDE DEF device, b
  <2>5. received \in Contents
    <3>1. gidx[r] \in Nat
      BY <1>0, <1>n
    <3>2. gidx[r] < Len(wire) => wire[gidx[r] + 1] \in Contents
      <4>1. gidx[r] < Len(wire) => gidx[r] + 1 \in 1..Len(wire)
        BY <1>0, <3>1
      <4> QED
        BY <1>0, <4>1, ElementOfSeq
    <3> QED
      BY <2>2, <2>3, <3>2
  <2> HIDE DEF received
  <2>6. wire' \in Seq(Contents)
    <3>1. Append(wire, received) \in Seq(Contents)
      BY <1>0, <2>5, AppendProperties
    <3> QED
      BY <1>0, <2>3, <3>1
  <2>7. h2d_buffer' \in [Ranks -> Contents] /\ load_buffer' \in [Ranks -> [{0, 1} -> Contents]]
    <3>1. Half(gidx[r]) \in {0, 1}
      BY <1>0, <1>n, HalfIsHalf
    <3> QED
      BY <1>0, <2>2, <2>3, <2>5, <3>1
  <2> QED
    BY <1>0, <1>t, <2>3, <2>4, <2>6, <2>7 DEF threads
<1>4. CASE LoadInPlace(r)
  <2>1. model' \in [RolloutRanks -> [Params -> Versions]]
    BY <1>p, <1>4, LoadedType DEF LoadInPlace
  <2>2. gidx' \in [Ranks -> 0..Buckets]
    BY <1>i, <1>p, <1>4 DEF LoadInPlace, Placed
  <2>3. at' \in [Ranks -> Places]
    BY <1>4, <1>g DEF LoadInPlace, Places
  <2>4. UNCHANGED <<fixed, calls, barriers, buffers, wire, threads>>
    BY <1>4 DEF LoadInPlace
  <2> QED
    BY <1>0, <1>t, <2>1, <2>2, <2>3, <2>4 DEF buffers, threads
<1>5. CASE TakeReply(r)
  <2>1. at' \in [Ranks -> Places] /\ barriers' \in [Ranks -> Nat] /\ reply' \in [Ranks -> BOOLEAN]
    BY <1>5, <1>g, <1>b, <1>y DEF TakeReply, Places
  <2> QED
    BY <1>0, <1>t, <1>5, <2>1 DEF TakeReply, buffers
<1>6. CASE HandOver(r)
  <2>1. gidx' \in [Ranks -> 0..Buckets]
    BY <1>i, <1>p, <1>6 DEF HandOver, Placed
  <2>2. at' \in [Ranks -> Places] /\ request' = [s \in Ranks |-> request'[s]]
    BY <1>6, <1>g, <1>r DEF HandOver, Places
  <2>3. UNCHANGED <<fixed, calls, barriers, buffers, wire, reply, consumer, model>>
    BY <1>6 DEF HandOver
  <2> QED
    BY <1>0, <1>t, <2>1, <2>2, <2>3 DEF buffers
<1>7. CASE StopThread(r)
  <2>1. /\ at' \in [Ranks -> Places] /\ reply' \in [Ranks -> BOOLEAN]
        /\ request' = [s \in Ranks |-> request'[s]]
    BY <1>7, <1>g, <1>r, <1>y DEF StopThread, Places
  <2> QED
    BY <1>0, <1>t, <1>7, <2>1 DEF StopThread, buffers
<1>8. CASE JoinThread(r) \/ ReachLastBarrier(r)
  <2>1. at' \in [Ranks -> Places] /\ barriers' \in [Ranks -> Nat] /\ reply' \in [Ranks -> BOOLEAN]
    <3>1. GoTo(r, "lastBarrier") /\ ArriveAtBarrier(r) /\ "lastBarrier" \in Places
      BY <1>8 DEF JoinThread, ReachLastBarrier, Places
    <3>2. reply' = [reply EXCEPT ![r] = FALSE] \/ reply' = reply
      BY <1>8 DEF JoinThread, ReachLastBarrier, threads
    <3> QED
      BY <1>0, <1>g, <1>b, <1>y, <3>1, <3>2
  <2> QED
    BY <1>0, <1>t, <1>8, <2>1 DEF JoinThread, ReachLastBarrier, buffers, threads
<1>9. CASE Close(r)
  <2>1. at' \in [Ranks -> Places]
    BY <1>9, <1>g DEF Close, Places
  <2>2. memory_buffers' \in [Ranks -> Seq(Nat)]
    BY <1>0, <1>9, EmptySeq DEF Close
  <2> QED
    BY <1>0, <1>t, <1>9, <2>1, <2>2 DEF Close, threads
<1>10. CASE ConsumerGreets(r) \/ ConsumerStarts(r) \/ ConsumerEnds(r)
  <2>1. /\ UNCHANGED <<fixed, calls, at, gidx, barriers, buffers, wire, model>>
        /\ request' = request \/ request' = [request EXCEPT ![r] = NoRequest]
        /\ reply' = reply \/ reply' = [reply EXCEPT ![r] = TRUE]
        /\ consumer' \in {consumer, [consumer EXCEPT ![r] = "loading"],
                          [consumer EXCEPT ![r] = "none"]}
    BY <1>10 DEF ConsumerGreets, ConsumerStarts, ConsumerEnds
  <2>2. /\ request' = [s \in Ranks |-> request'[s]] /\ reply' \in [Ranks -> BOOLEAN]
        /\ consumer' \in [Ranks -> {"none", "waiting", "loading"}]
    BY <1>0, <1>r, <1>y, <2>1
  <2> QED
    BY <1>0, <1>t, <2>1, <2>2 DEF buffers
<1>11. CASE ConsumerLoads(r)
  <2>1. request[r].half \in {0, 1}
    <3>1. request[r].type = "load"
      BY <1>11 DEF ConsumerLoads, TransferInv, Local, Socket
    <3> QED
      BY <1>0, <3>1, LoadRequest, HalfIsHalf
  <2>2. model' \in [RolloutRanks -> [Params -> Versions]]
    BY <1>p, <1>11, <2>1, LoadedType DEF ConsumerLoads
  <2>3. /\ request' = [s \in Ranks |-> request'[s]] /\ reply' \in [Ranks -> BOOLEAN]
        /\ consumer' \in [Ranks -> {"none", "waiting", "loading"}]
    BY <1>0, <1>r, <1>y, <1>11 DEF ConsumerLoads
  <2> QED
    BY <1>0, <1>t, <1>11, <2>2, <2>3 DEF ConsumerLoads, buffers
<1> QED
  BY <1>1, <1>2, <1>3, <1>4, <1>5, <1>6, <1>7, <1>8, <1>9, <1>10, <1>11
     DEF RankStep, MainThread, Consumer


-----------------------------------------------------------------------------
(* Barriers: who has left one knows that everybody has come to it.         *)
LEMMA BarrierStep ==
    ASSUME BarrierInv, NEW r \in Ranks,
           \A s \in Ranks : Arrived(s) \in Int /\ Left(s) \in Int /\ barriers[s] \in Int,
           Arrived(r)' \in Int, Left(r)' \in Int, barriers'[r] \in Int,
           \A s \in Ranks \ {r} : Arrived(s)' = Arrived(s) /\ Left(s)' = Left(s)
                                    /\ barriers'[s] = barriers[s],
           Arrived(r)' - barriers'[r] = Arrived(r) - barriers[r],
           Arrived(r)' >= Arrived(r), Left(r)' <= Arrived(r)',
           Left(r)' <= Left(r) \/ (EverybodyAtBarrier(r) /\ Left(r)' <= Arrived(r))
    PROVE  BarrierInv'
<1>1. ASSUME NEW s \in Ranks, NEW t \in Ranks
      PROVE  barriers'[s] - Arrived(s)' = barriers'[t] - Arrived(t)'
  <2>1. barriers'[s] - Arrived(s)' = barriers[s] - Arrived(s)
    BY <1>1
  <2>2. barriers'[t] - Arrived(t)' = barriers[t] - Arrived(t)
    BY <1>1
  <2> QED
    BY <1>1, <2>1, <2>2 DEF BarrierInv
<1>2. ASSUME NEW s \in Ranks, NEW t \in Ranks
      PROVE  Left(s)' <= Arrived(t)'
  <2>1. Left(s) <= Arrived(t) /\ Arrived(t)' >= Arrived(t)
    <3>1. Arrived(t)' >= Arrived(t)
      BY <1>2
    <3> QED
      BY <1>2, <3>1 DEF BarrierInv
  <2>2. CASE s # r \/ Left(r)' <= Left(r)
    BY <1>2, <2>1, <2>2
  <2>3. CASE s = r /\ EverybodyAtBarrier(r) /\ Left(r)' <= Arrived(r)
    <3>1. barriers[t] >= barriers[r]
      BY <1>2, <2>3 DEF EverybodyAtBarrier
    <3>2. barriers[t] - Arrived(t) = barriers[r] - Arrived(r)
      BY <1>2 DEF BarrierInv
    <3>3. Arrived(t) >= Arrived(r)
      BY <1>2, <3>1, <3>2
    <3> QED
      BY <1>2, <2>1, <2>3, <3>3
  <2> QED
    BY <2>2, <2>3
<1> QED
  BY <1>1, <1>2 DEF BarrierInv

LEMMA Numbers ==
    ASSUME TransferInv, NEW s \in Ranks
    PROVE  /\ Arrived(s) \in Nat /\ Left(s) \in Nat /\ Got(s) \in Nat /\ barriers[s] \in Nat
           /\ gidx[s] \in Nat /\ gidx[s] <= Buckets /\ calls[s] \in {0, 1} /\ at[s] \in Places
           /\ Buckets \in Nat /\ overlap \in BOOLEAN
<1>1. /\ gidx[s] \in 0..Buckets /\ barriers[s] \in Nat /\ at[s] \in Places
      /\ overlap \in BOOLEAN
  BY DEF TransferInv, TransferTypeOK, Buckets, Places
<1>2. Buckets \in Nat
  BY BroadcastFacts
<1>3. gidx[s] \in Nat /\ gidx[s] <= Buckets
  BY <1>1, <1>2
<1>4. calls[s] \in {0, 1}
  BY DEF TransferInv, Local, Placed
<1>5. BarriersOfACall \in Nat
  BY <1>1, <1>2 DEF BarriersOfACall
<1>6. Arrived(s) \in Nat
  <2>1. 0 \in Nat /\ 1 \in Nat /\ gidx[s] + 1 \in Nat /\ gidx[s] + 2 \in Nat
    BY <1>3
  <2> QED
    BY <1>5, <2>1 DEF Arrived
<1>7. Left(s) \in Nat
  BY <1>3, <1>5 DEF Left
<1>8. Got(s) \in Nat
  BY <1>3 DEF Got
<1> QED
  BY <1>1, <1>2, <1>3, <1>4, <1>6, <1>7, <1>8

LEMMA OthersCount ==
    ASSUME NEW s \in Ranks, SameRank(s), UNCHANGED fixed
    PROVE  Arrived(s)' = Arrived(s) /\ Left(s)' = Left(s) /\ Got(s)' = Got(s)
           /\ barriers'[s] = barriers[s] /\ (InCall(s)' <=> InCall(s))
  BY DEF SameRank, fixed, Arrived, Left, Got, InCall, BarriersOfACall

LEMMA BarriersKept ==
    ASSUME TransferInv, NEW r \in Ranks, RankStep(r)
    PROVE  BarrierInv'
<1>1. /\ \A s \in Ranks : Arrived(s) \in Int /\ Left(s) \in Int /\ barriers[s] \in Int
      /\ \A s \in Ranks \ {r} : Arrived(s)' = Arrived(s) /\ Left(s)' = Left(s)
                                  /\ barriers'[s] = barriers[s]
      /\ overlap' = overlap /\ BarrierInv
  <2>1. TransferTypes /\ BarrierInv
    BY DEF TransferInv, TransferTypes
  <2>2. ASSUME NEW s \in Ranks \ {r}
        PROVE  Arrived(s)' = Arrived(s) /\ Left(s)' = Left(s) /\ barriers'[s] = barriers[s]
    BY <2>1, OthersSame, OthersCount
  <2>3. UNCHANGED fixed
    BY DEF RankStep, MainThread, Consumer, Register, Open, Broadcast, LoadInPlace, TakeReply,
       HandOver, StopThread, JoinThread, ReachLastBarrier, Close, ConsumerGreets,
       ConsumerStarts, ConsumerLoads, ConsumerEnds
  <2> QED
    BY <2>1, <2>2, <2>3, Numbers DEF fixed
<1>2. /\ gidx[r] \in Nat /\ gidx[r] <= Buckets /\ calls[r] \in {0, 1}
      /\ Buckets \in Nat /\ overlap \in BOOLEAN /\ barriers[r] \in Nat
  BY Numbers
<1>3. /\ calls \in [Ranks -> Nat] /\ at \in [Ranks -> Places] /\ barriers \in [Ranks -> Nat]
      /\ gidx \in [Ranks -> 0..Buckets] /\ overlap' = overlap
  BY <1>1 DEF TransferInv, TransferTypeOK, Buckets, Places
<1>p. Placed(r)
  BY DEF TransferInv, Local
<1>4. SUFFICES /\ Arrived(r)' \in Nat /\ Left(r)' \in Nat
               /\ barriers'[r] = barriers[r] + (Arrived(r)' - Arrived(r))
               /\ Arrived(r)' >= Arrived(r) /\ Left(r)' <= Arrived(r)'
               /\ \/ Left(r)' <= Left(r)
                  \/ EverybodyAtBarrier(r) /\ Left(r)' <= Arrived(r)
  <2>1. Arrived(r) \in Nat
    BY Numbers
  <2>2. /\ Arrived(r)' \in Int /\ Left(r)' \in Int /\ barriers'[r] \in Int
        /\ Arrived(r)' - barriers'[r] = Arrived(r) - barriers[r]
    BY <1>2, <1>4, <2>1
  <2> QED
    BY <1>1, <1>4, <2>2, BarrierStep
<1> USE DEF GoTo, ArriveAtBarrier
<1>5. CASE Register(r)
  <2>1. /\ calls[r] = 1 /\ calls'[r] = 0
        /\ at[r] = "idle" /\ at'[r] = "registered" /\ barriers'[r] = barriers[r] + 1
    BY <1>3, <1>p, <1>5 DEF Register, Placed
  <2>2. Arrived(r) = 0 /\ Left(r) = 0
    BY <1>2, <2>1 DEF Arrived, Left, BarriersOfACall
  <2>3. Arrived(r)' = 1 /\ Left(r)' = 0
    BY <1>2, <2>1 DEF Arrived, Left, BarriersOfACall
  <2> QED
    BY <1>2, <2>1, <2>2, <2>3
<1>6. CASE Open(r)
  <2>1. /\ calls'[r] = calls[r] /\ calls[r] = 0 /\ overlap' = overlap
        /\ at[r] = "registered" /\ at'[r] = "broadcast"
        /\ barriers'[r] = barriers[r] /\ gidx'[r] = 0 /\ EverybodyAtBarrier(r)
    BY <1>3, <1>p, <1>6 DEF Open, Placed
  <2>2. Arrived(r) = 1 /\ Left(r) = 0
    BY <1>2, <2>1 DEF Arrived, Left, BarriersOfACall
  <2>3. Arrived(r)' = 1 /\ Left(r)' = 1
    BY <1>2, <2>1 DEF Arrived, Left, BarriersOfACall
  <2> QED
    BY <1>2, <2>1, <2>2, <2>3
<1>7. CASE Broadcast(r) /\ overlap
  <2>1. /\ calls'[r] = calls[r] /\ calls[r] = 0 /\ overlap' = overlap
        /\ at[r] = "broadcast" /\ at'[r] = "reply"
        /\ barriers'[r] = barriers[r] /\ gidx'[r] = gidx[r] /\ overlap
    BY <1>3, <1>p, <1>7 DEF Broadcast, Placed, fixed
  <2>2. Arrived(r) = gidx[r] + 1 /\ Left(r) = gidx[r] + 1
    BY <1>2, <2>1 DEF Arrived, Left, BarriersOfACall
  <2>3. Arrived(r)' = gidx[r] + 1 /\ Left(r)' = gidx[r] + 1
    BY <1>2, <2>1 DEF Arrived, Left, BarriersOfACall
  <2> QED
    BY <1>2, <2>1, <2>2, <2>3
<1>8. CASE Broadcast(r) /\ ~overlap
  <2>1. /\ calls'[r] = calls[r] /\ calls[r] = 0 /\ overlap' = overlap
        /\ at[r] = "broadcast" /\ at'[r] = "load"
        /\ barriers'[r] = barriers[r] /\ gidx'[r] = gidx[r] /\ ~overlap
    BY <1>3, <1>p, <1>8 DEF Broadcast, Placed, fixed
  <2>2. Arrived(r) = 1 /\ Left(r) = 1
    BY <1>2, <2>1 DEF Arrived, Left, BarriersOfACall
  <2>3. Arrived(r)' = 1 /\ Left(r)' = 1
    BY <1>2, <2>1 DEF Arrived, Left, BarriersOfACall
  <2> QED
    BY <1>2, <2>1, <2>2, <2>3
<1>9. CASE LoadInPlace(r)
  <2>1. /\ calls'[r] = calls[r] /\ calls[r] = 0 /\ overlap' = overlap
        /\ at[r] = "load" /\ at'[r] = "broadcast"
        /\ barriers'[r] = barriers[r] /\ gidx'[r] = gidx[r] + 1 /\ ~overlap
    BY <1>3, <1>p, <1>9 DEF LoadInPlace, Placed, fixed
  <2>2. Arrived(r) = 1 /\ Left(r) = 1
    BY <1>2, <2>1 DEF Arrived, Left, BarriersOfACall
  <2>3. Arrived(r)' = 1 /\ Left(r)' = 1
    BY <1>2, <2>1 DEF Arrived, Left, BarriersOfACall
  <2> QED
    BY <1>2, <2>1, <2>2, <2>3
<1>10. CASE TakeReply(r)
  <2>1. /\ calls'[r] = calls[r] /\ calls[r] = 0 /\ overlap' = overlap
        /\ at[r] = "reply" /\ at'[r] = "barrier"
        /\ barriers'[r] = barriers[r] + 1 /\ gidx'[r] = gidx[r] /\ overlap
    BY <1>3, <1>p, <1>10 DEF TakeReply, Placed, fixed
  <2>2. Arrived(r) = gidx[r] + 1 /\ Left(r) = gidx[r] + 1
    BY <1>2, <2>1 DEF Arrived, Left, BarriersOfACall
  <2>3. Arrived(r)' = gidx[r] + 2 /\ Left(r)' = gidx[r] + 1
    BY <1>2, <2>1 DEF Arrived, Left, BarriersOfACall
  <2> QED
    BY <1>2, <2>1, <2>2, <2>3
<1>11. CASE HandOver(r)
  <2>1. /\ calls'[r] = calls[r] /\ calls[r] = 0 /\ overlap' = overlap
        /\ at[r] = "barrier" /\ at'[r] = "broadcast"
        /\ barriers'[r] = barriers[r] /\ gidx'[r] = gidx[r] + 1 /\ overlap /\ EverybodyAtBarrier(r)
    BY <1>3, <1>p, <1>11 DEF HandOver, Placed, fixed
  <2>2. Arrived(r) = gidx[r] + 2 /\ Left(r) = gidx[r] + 1
    BY <1>2, <2>1 DEF Arrived, Left, BarriersOfACall
  <2>3. Arrived(r)' = gidx[r] + 2 /\ Left(r)' = gidx[r] + 2
    BY <1>2, <2>1 DEF Arrived, Left, BarriersOfACall
  <2> QED
    BY <1>2, <2>1, <2>2, <2>3
<1>12. CASE StopThread(r)
  <2>1. /\ calls'[r] = calls[r] /\ calls[r] = 0 /\ overlap' = overlap
        /\ at[r] = "broadcast" /\ at'[r] = "join"
        /\ barriers'[r] = barriers[r] /\ gidx'[r] = gidx[r] /\ overlap
    BY <1>3, <1>p, <1>12 DEF StopThread, Placed, fixed, AllBroadcast
  <2>2. Arrived(r) = gidx[r] + 1 /\ Left(r) = gidx[r] + 1
    BY <1>2, <2>1 DEF Arrived, Left, BarriersOfACall
  <2>3. Arrived(r)' = gidx[r] + 1 /\ Left(r)' = gidx[r] + 1
    BY <1>2, <2>1 DEF Arrived, Left, BarriersOfACall
  <2> QED
    BY <1>2, <2>1, <2>2, <2>3
<1>13. CASE JoinThread(r)
  <2>1. /\ calls'[r] = calls[r] /\ calls[r] = 0 /\ overlap' = overlap
        /\ at[r] = "join" /\ at'[r] = "lastBarrier"
        /\ barriers'[r] = barriers[r] + 1 /\ gidx'[r] = gidx[r] /\ gidx[r] = Buckets /\ overlap
    BY <1>3, <1>p, <1>13 DEF JoinThread, Placed, fixed
  <2>2. Arrived(r)' = Arrived(r) + 1 /\ Left(r)' = Left(r) /\ Left(r) = Arrived(r)
    BY <1>2, <2>1 DEF Arrived, Left, BarriersOfACall
  <2>3. Arrived(r) \in Nat
    BY Numbers
  <2> QED
    BY <1>2, <2>1, <2>2, <2>3
<1>14. CASE ReachLastBarrier(r)
  <2>1. /\ calls'[r] = calls[r] /\ calls[r] = 0 /\ overlap' = overlap
        /\ at[r] = "broadcast" /\ at'[r] = "lastBarrier"
        /\ barriers'[r] = barriers[r] + 1 /\ gidx'[r] = gidx[r] /\ ~overlap
    BY <1>3, <1>p, <1>14 DEF ReachLastBarrier, Placed, fixed, AllBroadcast
  <2>2. Arrived(r)' = Arrived(r) + 1 /\ Left(r)' = Left(r) /\ Left(r) = Arrived(r)
    BY <1>2, <2>1 DEF Arrived, Left, BarriersOfACall
  <2>3. Arrived(r) \in Nat
    BY Numbers
  <2> QED
    BY <1>2, <2>1, <2>2, <2>3
<1>15. CASE Close(r)
  <2>1. /\ at[r] = "lastBarrier" /\ at'[r] = "idle" /\ EverybodyAtBarrier(r)
        /\ calls'[r] = calls[r] /\ barriers'[r] = barriers[r] /\ overlap' = overlap
    BY <1>3, <1>15 DEF Close
  <2>2. Arrived(r) \in Nat /\ Left(r) \in Nat /\ Left(r) <= Arrived(r)
    BY <1>1, Numbers DEF BarrierInv
  <2>3. CASE calls[r] # 0
    <3>1. Arrived(r)' = Arrived(r) /\ Left(r)' = Left(r)
      BY <2>1, <2>3 DEF Arrived, Left
    <3> QED
      BY <1>2, <2>1, <2>2, <3>1
  <2>4. CASE calls[r] = 0
    <3>1. Arrived(r)' = Arrived(r) /\ Left(r)' = Arrived(r)
      BY <2>1, <2>4 DEF Arrived, Left, BarriersOfACall
    <3> QED
      BY <1>2, <2>1, <2>2, <3>1
  <2> QED
    BY <2>3, <2>4
<1>16. CASE Consumer(r)
  <2>1. UNCHANGED <<calls, at, gidx, barriers>> /\ overlap' = overlap
    BY <1>3, <1>16 DEF Consumer, ConsumerGreets, ConsumerStarts, ConsumerLoads, ConsumerEnds
  <2>2. Arrived(r)' = Arrived(r) /\ Left(r)' = Left(r)
    BY <2>1 DEF Arrived, Left, BarriersOfACall
  <2>3. Arrived(r) \in Nat /\ Left(r) \in Nat /\ Left(r) <= Arrived(r)
    BY <1>1, Numbers DEF BarrierInv
  <2> QED
    BY <1>2, <2>1, <2>2, <2>3
<1> QED
  BY <1>5, <1>6, <1>7, <1>8, <1>9, <1>10, <1>11, <1>12, <1>13, <1>14, <1>15, <1>16
     DEF RankStep, MainThread


-----------------------------------------------------------------------------
(* What a rank has after a step of its own.                                *)
LEMMA TypeFacts ==
    ASSUME TransferInv
    PROVE  /\ overlap \in BOOLEAN /\ actor_version \in Nat /\ Buckets \in Nat
           /\ calls \in [Ranks -> Nat] /\ gidx \in [Ranks -> 0..Buckets]
           /\ at \in [Ranks -> Places] /\ barriers \in [Ranks -> Nat]
           /\ memory_buffers \in [Ranks -> Seq(Nat)]
           /\ h2d_buffer \in [Ranks -> Contents]
           /\ load_buffer \in [Ranks -> [{0, 1} -> Contents]]
           /\ wire \in Seq(Contents)
           /\ consumer \in [Ranks -> {"none", "waiting", "loading"}]
           /\ reply \in [Ranks -> BOOLEAN]
           /\ model \in [RolloutRanks -> [Params -> Versions]]
           /\ request = [s \in Ranks |-> request[s]]
  BY BroadcastFacts DEF TransferInv, TransferTypeOK, Buckets, Places

LEMMA LocalParts ==
    ASSUME TransferInv, NEW r \in Ranks
    PROVE  /\ Placed(r) /\ Memory(r) /\ Device(r) /\ Buffered(r) /\ Socket(r) /\ Weights(r)
           /\ gidx[r] \in Nat /\ gidx[r] <= Buckets /\ at[r] \in Places
           /\ calls[r] \in {0, 1} /\ Buckets \in Nat /\ overlap \in BOOLEAN
  BY Numbers DEF TransferInv, Local

LEMMA RequestTypes ==
    /\ NoRequest.type # "load" /\ Greeting.type # "load" /\ Stop.type # "load"
    /\ NoRequest # Greeting /\ NoRequest # Stop /\ Greeting # Stop
    /\ \A m, h : /\ Payload(m, h).type = "load" /\ Payload(m, h) # NoRequest
                 /\ Payload(m, h) # Greeting /\ Payload(m, h) # Stop
                 /\ Payload(m, h).metas = m /\ Payload(m, h).half = h
  BY DEF NoRequest, Greeting, Stop, Payload

LEMMA RegisterLocal ==
    ASSUME TransferInv, NEW r \in Ranks, Register(r), pc' = pc
    PROVE  Local(r)'
<1>1. /\ at[r] = "idle" /\ calls[r] = 1 /\ pc = "transfer" /\ pc' = pc
      /\ at'[r] = "registered" /\ calls'[r] = 0
      /\ memory_buffers'[r] = IF r \in ActorRanks
                   THEN [i \in DOMAIN global_buckets[r] |-> actor_version] ELSE << >>
      /\ gidx' = gidx /\ request' = request /\ reply' = reply /\ consumer' = consumer
      /\ overlap' = overlap /\ actor_version' = actor_version
  BY TypeFacts, LocalParts DEF Register, GoTo, fixed, threads, Placed
<1>2. Silent(r) /\ consumer[r] = "none"
  BY <1>1, LocalParts DEF Socket
<1>3. Placed(r)'
  BY <1>1 DEF Placed, Served
<1>4. Memory(r)'
  BY <1>1 DEF Memory
<1>5. Device(r)'
  BY <1>1 DEF Device, Opened
<1>6. Buffered(r)'
  BY <1>1, <1>2, RequestTypes DEF Buffered, Silent
<1>7. Socket(r)'
  BY <1>1, <1>2 DEF Socket, Silent
<1>8. Weights(r)'
  BY <1>1 DEF Weights, Opened, Served
<1> QED
  BY <1>3, <1>4, <1>5, <1>6, <1>7, <1>8 DEF Local

LEMMA OpenLocal ==
    ASSUME TransferInv, NEW r \in Ranks, Open(r), pc' = pc
    PROVE  Local(r)'
<1>0. pc = "transfer" /\ calls[r] = 0 /\ Silent(r) /\ consumer[r] = "none"
  BY InTransfer, LocalParts DEF Open, Socket
<1>1. /\ at[r] = "registered" /\ pc' = pc
      /\ at'[r] = "broadcast" /\ calls'[r] = 0 /\ memory_buffers' = memory_buffers
      /\ gidx'[r] = 0 /\ reply' = reply
      /\ request'[r] = IF overlap THEN Greeting ELSE request[r]
      /\ consumer'[r] = IF overlap THEN "waiting" ELSE consumer[r]
      /\ overlap' = overlap /\ actor_version' = actor_version /\ overlap \in BOOLEAN
  BY <1>0, TypeFacts DEF Open, GoTo, fixed
<1>3. Placed(r)'
  BY <1>0, <1>1 DEF Placed, Served
<1>4. Memory(r)'
  BY <1>0, <1>1, LocalParts DEF Memory, InCall
<1>5. Device(r)'
  BY <1>1 DEF Device, Opened, Got
<1>6. Buffered(r)'
  BY <1>0, <1>1, RequestTypes DEF Buffered, Silent
<1>7. Socket(r)'
  <2>1. CASE overlap
    BY <1>0, <1>1, <2>1, RequestTypes DEF Socket, Silent, Asked, Answered
  <2>2. CASE ~overlap
    BY <1>0, <1>1, <2>2 DEF Socket, Silent
  <2> QED
    BY <2>1, <2>2
<1>8. Weights(r)'
  <2>1. Consumed(r)' = 0
    BY <1>0, <1>1, RequestTypes DEF Consumed, Silent
  <2> QED
    BY <2>1 DEF Weights
<1> QED
  BY <1>3, <1>4, <1>5, <1>6, <1>7, <1>8 DEF Local

(* The device buffer of an owner holds its bucket of the round, also in    *)
(* the later turns of that round.                                          *)
LEMMA DeviceHolds ==
    ASSUME TransferInv, NEW r \in ActorRanks, at[r] = "broadcast", gidx[r] < Buckets,
           Broadcasts[gidx[r] + 1].round <= Len(global_buckets[r])
    PROVE  HostToDevice(r, Broadcasts[gidx[r] + 1]) =
              [metas |-> global_buckets[r][Broadcasts[gidx[r] + 1].round],
               version |-> actor_version]
<1> DEFINE b == Broadcasts[gidx[r] + 1]
           g == global_buckets[r]
<1>0. r \in Ranks /\ pc = "transfer" /\ calls[r] = 0 /\ InCall(r)
  BY RankTypes, InTransfer
<1>1. gidx[r] \in Nat /\ gidx[r] + 1 \in 1..Buckets /\ Buckets \in Nat
  BY <1>0, LocalParts
<1>2. b.round \in Nat \ {0} /\ b.round <= Len(g)
  BY <1>1, BroadcastFacts
<1>3. memory_buffers[r] = [i \in DOMAIN g |-> actor_version]
  BY <1>0, LocalParts DEF Memory
<1>4. b.round <= Len(memory_buffers[r]) /\ memory_buffers[r][b.round] = actor_version
  <2> DEFINE S == Seq(Params)
  <2>1. g \in Seq(S)
    BY BucketTypes
  <2> HIDE DEF g, S, b
  <2>2. DOMAIN g = 1..Len(g) /\ Len(g) \in Nat
    BY <2>1
  <2>3. Len(memory_buffers[r]) = Len(g)
    BY <1>3, <2>2
  <2> QED
    BY <1>2, <1>3, <2>2, <2>3
<1>5. CASE \A i \in 1..gidx[r] : Broadcasts[i].round # b.round
  BY <1>4, <1>5 DEF HostToDevice
<1>6. CASE ~(\A i \in 1..gidx[r] : Broadcasts[i].round # b.round)
  <2>1. PICK i \in 1..gidx[r] : Broadcasts[i].round = b.round
    BY <1>6
  <2>2. gidx[r] \in 1..Buckets /\ i \in 1..Buckets /\ i <= gidx[r] /\ gidx[r] <= gidx[r] + 1
        /\ gidx[r] > 0
    BY <1>1, <2>1
  <2>3. /\ Broadcasts[i].round <= Broadcasts[gidx[r]].round
        /\ Broadcasts[gidx[r]].round <= b.round
        /\ Broadcasts[gidx[r]].round \in Nat
    BY <1>1, <2>2, BroadcastFacts
  <2>4. Broadcasts[gidx[r]].round = b.round
    BY <1>2, <2>1, <2>3
  <2>5. Got(r) = gidx[r] /\ Opened(r)
    BY <1>0 DEF Got, Opened, InCall
  <2>6. h2d_buffer[r] = [metas |-> g[b.round], version |-> actor_version]
    BY <1>0, <1>2, <2>2, <2>4, <2>5, LocalParts DEF Device
  <2>7. HostToDevice(r, b) = h2d_buffer[r]
    BY <1>6 DEF HostToDevice
  <2> QED
    BY <2>6, <2>7
<1> QED
  BY <1>5, <1>6

(* So whatever a rank gets in a turn is the owner's bucket.                *)
LEMMA ReceivedIsSent ==
    ASSUME TransferInv, NEW r \in Ranks, Broadcast(r)
    PROVE  /\ load_buffer' = [load_buffer EXCEPT ![r][Half(gidx[r])] = Sent(gidx[r] + 1)]
           /\ wire' = IF Owner(gidx[r] + 1) = r THEN Append(wire, Sent(gidx[r] + 1)) ELSE wire
           /\ Owner(gidx[r] + 1) # r => gidx[r] < Len(wire)
<1> DEFINE b == Broadcasts[gidx[r] + 1]
           device == HostToDevice(r, b)
           received == IF b.src = r THEN device ELSE wire[gidx[r] + 1]
<1>0. at[r] = "broadcast" /\ gidx[r] < Buckets
  BY DEF Broadcast, Buckets
<1>1. pc = "transfer" /\ InCall(r)
  BY <1>0, InTransfer
<1>2. gidx[r] \in Nat /\ gidx[r] + 1 \in 1..Buckets
  BY <1>0, LocalParts
<1>3. /\ b.src # r => gidx[r] < Len(wire)
      /\ load_buffer' = [load_buffer EXCEPT ![r][Half(gidx[r])] = received]
      /\ wire' = IF b.src = r THEN Append(wire, received) ELSE wire
  BY DEF Broadcast
<1>4. b.src = Owner(gidx[r] + 1) /\ b.src \in ActorRanks
      /\ b.round \in DOMAIN global_buckets[b.src] /\ MetasOf(b) = global_buckets[b.src][b.round]
  BY <1>2, BroadcastFacts
<1>5. received = Sent(gidx[r] + 1)
  <2>1. CASE b.src = r
    <3>1. b.round <= Len(global_buckets[r])
      <4> DEFINE g == global_buckets[r]
                 S == Seq(Params)
      <4>1. g \in Seq(S)
        BY <1>4, <2>1, BucketTypes
      <4> HIDE DEF g, S
      <4>2. DOMAIN g = 1..Len(g)
        BY <4>1
      <4> QED
        BY <1>4, <2>1, <4>2 DEF g
    <3>2. r \in ActorRanks
      BY <1>4, <2>1
    <3>3. device = [metas |-> global_buckets[r][b.round], version |-> actor_version]
      BY <1>0, <3>1, <3>2, DeviceHolds
    <3> QED
      BY <1>4, <2>1, <3>3 DEF Sent
  <2>2. CASE b.src # r
    <3>1. gidx[r] + 1 \in 1..Len(wire)
      <4>1. Len(wire) \in Nat
        BY TypeFacts
      <4> QED
        BY <1>2, <1>3, <2>2, <4>1
    <3>2. wire[gidx[r] + 1] = Sent(gidx[r] + 1)
      BY <1>1, <3>1 DEF TransferInv, WireInv
    <3> QED
      BY <2>2, <3>2
  <2> QED
    BY <2>1, <2>2
<1> HIDE DEF received
<1> QED
  BY <1>3, <1>4, <1>5


LEMMA BroadcastLocal ==
    ASSUME TransferInv, NEW r \in Ranks, Broadcast(r), pc' = pc
    PROVE  Local(r)'
<1>0. /\ at[r] = "broadcast" /\ gidx[r] < Buckets /\ pc = "transfer" /\ calls[r] = 0
  BY InTransfer DEF Broadcast, Buckets
<1>1. /\ pc' = pc /\ at'[r] = IF overlap THEN "reply" ELSE "load"
      /\ calls' = calls /\ gidx' = gidx /\ memory_buffers' = memory_buffers
      /\ request' = request /\ reply' = reply /\ consumer' = consumer /\ model' = model
      /\ overlap' = overlap /\ actor_version' = actor_version /\ overlap \in BOOLEAN
      /\ h2d_buffer'[r] = HostToDevice(r, Broadcasts[gidx[r] + 1])
  BY TypeFacts DEF Broadcast, GoTo, fixed, threads
<1>2. gidx[r] \in Nat /\ Half(gidx[r]) \in {0, 1} /\ Got(r)' = gidx[r] + 1
  BY <1>0, <1>1, LocalParts, HalfIsHalf DEF Got
<1>3. Placed(r)'
  BY <1>0, <1>1 DEF Placed, Served
<1>4. Memory(r)'
  BY <1>0, <1>1, LocalParts DEF Memory, InCall
<1>5. Device(r)'
  <2>1. ASSUME r \in ActorRanks,
               Broadcasts[gidx[r] + 1].round <= Len(global_buckets[r])
        PROVE  h2d_buffer'[r] =
                  [metas |-> global_buckets[r][Broadcasts[gidx[r] + 1].round],
                   version |-> actor_version]
    BY <1>0, <1>1, <2>1, DeviceHolds
  <2> QED
    BY <1>1, <1>2, <2>1 DEF Device
<1>6. Buffered(r)'
  <2>1. load_buffer'[r][Half(gidx[r])] = Sent(gidx[r] + 1)
    BY <1>2, ReceivedIsSent, TypeFacts
  <2>2. ASSUME request[r].type = "load"
        PROVE  load_buffer'[r][Half(gidx[r] - 1)] = Sent(gidx[r])
    <3>1. gidx[r] - 1 \in Nat /\ overlap
      BY <2>2, LoadRequest
    <3>2. Half(gidx[r] - 1) \in {0, 1} /\ Half(gidx[r] - 1) # Half(gidx[r])
      <4>1. gidx[r] - 1 + 1 = gidx[r]
        BY <1>2
      <4> QED
        BY <1>1, <3>1, <4>1, HalfIsHalf
    <3>3. load_buffer'[r][Half(gidx[r] - 1)] = load_buffer[r][Half(gidx[r] - 1)]
      BY <3>2, ReceivedIsSent, TypeFacts
    <3> QED
      BY <1>0, <2>2, <3>3, LocalParts DEF Buffered
  <2>3. /\ Half(gidx[r])' = Half(gidx[r]) /\ Half(gidx[r] - 1)' = Half(gidx[r] - 1)
        /\ Sent(gidx[r] + 1)' = Sent(gidx[r] + 1) /\ Sent(gidx[r])' = Sent(gidx[r])
    BY <1>1 DEF Half, Sent
  <2> QED
    BY <1>1, <2>1, <2>2, <2>3 DEF Buffered
<1>7. Socket(r)'
  <2>1. CASE overlap
    BY <1>0, <1>1, <2>1, LocalParts DEF Socket, Asked, Answered, Half
  <2>2. CASE ~overlap
    BY <1>0, <1>1, <2>2, LocalParts DEF Socket, Silent
  <2> QED
    BY <1>1, <2>1, <2>2
<1>8. Weights(r)'
  <2>1. Consumed(r)' = Consumed(r) /\ Opened(r) /\ MetasOf(Broadcasts[1]) = MetasOf(Broadcasts[1])'
    BY <1>0, <1>1 DEF Consumed, Opened, InCall
  <2> QED
    BY <1>0, <1>1, <2>1, LocalParts DEF Weights
<1> QED
  BY <1>3, <1>4, <1>5, <1>6, <1>7, <1>8 DEF Local

(* A bucket that is loaded where it was received makes its parameters those *)
(* of the actor's version and leaves the others.                           *)
LEMMA LoadedFacts ==
    ASSUME TransferInv, NEW r \in RolloutRanks, NEW metas, NEW half,
           load_buffer[r][half] = [metas |-> metas, version |-> actor_version],
           model' = Loaded(r, metas, half), NEW p \in Params
    PROVE  model'[r][p] = IF p \in Range(metas) THEN actor_version ELSE model[r][p]
<1>1. Extracted(r, metas, half, p) = actor_version
  BY DEF Extracted
<1>2. model' = [model EXCEPT ![r] = [q \in Params |->
              IF q \in Range(metas) THEN Extracted(r, metas, half, q) ELSE model[r][q]]]
  BY TypeFacts DEF Loaded
<1> QED
  BY <1>1, <1>2, TypeFacts

LEMMA LoadInPlaceLocal ==
    ASSUME TransferInv, NEW r \in Ranks, LoadInPlace(r), pc' = pc
    PROVE  Local(r)'
<1>0. /\ at[r] = "load" /\ pc = "transfer" /\ calls[r] = 0 /\ ~overlap /\ gidx[r] < Buckets
      /\ Silent(r) /\ consumer[r] = "none"
  BY InTransfer, LocalParts DEF LoadInPlace, Placed, Socket
<1>1. /\ pc' = pc /\ at'[r] = "broadcast" /\ gidx'[r] = gidx[r] + 1
      /\ calls' = calls /\ memory_buffers' = memory_buffers /\ h2d_buffer' = h2d_buffer
      /\ load_buffer' = load_buffer
      /\ request' = request /\ reply' = reply /\ consumer' = consumer
      /\ overlap' = overlap /\ actor_version' = actor_version
      /\ model' = Loaded(r, MetasOf(Broadcasts[gidx[r] + 1]), 0)
  BY TypeFacts DEF LoadInPlace, GoTo, fixed, threads, buffers
<1>2. gidx[r] \in Nat /\ Got(r)' = gidx[r] + 1 /\ Got(r) = gidx[r] + 1
  BY <1>0, <1>1, LocalParts DEF Got
<1>3. Placed(r)'
  BY <1>0, <1>1 DEF Placed, Served
<1>4. Memory(r)'
  BY <1>0, <1>1, LocalParts DEF Memory, InCall
<1>5. Device(r)'
  BY <1>0, <1>1, <1>2, LocalParts DEF Device, Opened, InCall
<1>6. Buffered(r)'
  BY <1>0, <1>1, RequestTypes DEF Buffered, Silent
<1>7. Socket(r)'
  BY <1>0, <1>1 DEF Socket, Silent
<1>8. Weights(r)'
  <2>1. /\ Consumed(r)' = gidx[r] + 1 /\ Consumed(r) = gidx[r] /\ Opened(r)
    BY <1>0, <1>1, RequestTypes DEF Consumed, Opened, InCall, Silent
  <2>2. load_buffer[r][0] = Sent(gidx[r] + 1)
    BY <1>0, LocalParts DEF Buffered, Half, InCall
  <2>3. SUFFICES ASSUME r \in RolloutRanks, NEW i \in 1..gidx[r] + 1,
                        NEW p \in Range(MetasOf(Broadcasts[i]))
                 PROVE  model'[r][p] = actor_version
    BY <1>1, <2>1 DEF Weights
  <2>4. i \in 1..Buckets
    BY <1>0, <1>2, LocalParts
  <2>5. p \in Params
    <3> DEFINE m == MetasOf(Broadcasts[i])
    <3>1. m \in Seq(Params)
      BY <2>4, BroadcastFacts
    <3> HIDE DEF m
    <3> QED
      BY <3>1 DEF Range, m
  <2>6. model'[r][p] = IF p \in Range(MetasOf(Broadcasts[gidx[r] + 1]))
                       THEN actor_version ELSE model[r][p]
    BY <1>1, <2>2, <2>3, <2>5, LoadedFacts DEF Sent
  <2>7. CASE i = gidx[r] + 1
    BY <2>3, <2>6, <2>7
  <2>8. CASE i # gidx[r] + 1
    <3>1. i \in 1..gidx[r]
      BY <1>2, <2>8
    <3>2. model[r][p] = actor_version
      BY <1>0, <2>1, <2>3, <3>1, LocalParts DEF Weights
    <3> QED
      BY <2>6, <3>2
  <2> QED
    BY <2>7, <2>8
<1> QED
  BY <1>3, <1>4, <1>5, <1>6, <1>7, <1>8 DEF Local

LEMMA TakeReplyLocal ==
    ASSUME TransferInv, NEW r \in Ranks, TakeReply(r), pc' = pc
    PROVE  Local(r)'
<1>0. /\ at[r] = "reply" /\ pc = "transfer" /\ calls[r] = 0 /\ overlap /\ gidx[r] < Buckets
      /\ reply[r]
  BY InTransfer, LocalParts DEF TakeReply, Placed
<1>s. request[r] = NoRequest /\ consumer[r] = "waiting"
  <2>1. request[r] = NoRequest /\ consumer[r] # "none"
    BY <1>0, LocalParts DEF Socket, Asked, Answered
  <2>2. consumer[r] # "loading"
    BY <2>1, LocalParts, RequestTypes DEF Socket
  <2>3. consumer[r] \in {"none", "waiting", "loading"}
    BY TypeFacts
  <2> QED
    BY <2>1, <2>2, <2>3
<1>1. /\ pc' = pc /\ at'[r] = "barrier" /\ gidx' = gidx /\ reply'[r] = FALSE
      /\ calls' = calls /\ memory_buffers' = memory_buffers /\ h2d_buffer' = h2d_buffer
      /\ load_buffer' = load_buffer
      /\ request' = request /\ consumer' = consumer /\ model' = model
      /\ overlap' = overlap /\ actor_version' = actor_version
  BY TypeFacts DEF TakeReply, GoTo, fixed, buffers
<1>2. gidx[r] \in Nat /\ Got(r)' = Got(r)
  BY <1>0, <1>1, LocalParts DEF Got
<1>3. Placed(r)'
  BY <1>0, <1>1 DEF Placed, Served
<1>4. Memory(r)'
  BY <1>0, <1>1, LocalParts DEF Memory, InCall
<1>5. Device(r)'
  BY <1>0, <1>1, <1>2, LocalParts DEF Device, Opened, InCall
<1>6. Buffered(r)'
  BY <1>0, <1>1, <1>s, LocalParts, RequestTypes DEF Buffered, InCall, Half, Sent
<1>7. Socket(r)'
  BY <1>0, <1>1, <1>s DEF Socket, Silent
<1>8. Weights(r)'
  <2>1. Consumed(r)' = Consumed(r) /\ Opened(r)
    BY <1>0, <1>1 DEF Consumed, Opened, InCall
  <2> QED
    BY <1>0, <1>1, <2>1, LocalParts DEF Weights
<1> QED
  BY <1>3, <1>4, <1>5, <1>6, <1>7, <1>8 DEF Local

LEMMA HandOverLocal ==
    ASSUME TransferInv, NEW r \in Ranks, HandOver(r), pc' = pc
    PROVE  Local(r)'
<1>0. /\ at[r] = "barrier" /\ pc = "transfer" /\ calls[r] = 0 /\ overlap /\ gidx[r] < Buckets
      /\ Silent(r) /\ consumer[r] = "waiting"
  BY InTransfer, LocalParts DEF HandOver, Placed, Socket
<1>1. /\ pc' = pc /\ at'[r] = "broadcast" /\ gidx'[r] = gidx[r] + 1 /\ reply' = reply
      /\ calls' = calls /\ memory_buffers' = memory_buffers /\ h2d_buffer' = h2d_buffer
      /\ load_buffer' = load_buffer
      /\ request'[r] = Payload(MetasOf(Broadcasts[gidx[r] + 1]), Half(gidx[r]))
      /\ consumer' = consumer /\ model' = model
      /\ overlap' = overlap /\ actor_version' = actor_version
  BY TypeFacts DEF HandOver, GoTo, fixed, buffers
<1>2. gidx[r] \in Nat /\ Got(r)' = Got(r) /\ gidx[r] + 1 - 1 = gidx[r] /\ gidx[r] + 1 > 0
  BY <1>0, <1>1, LocalParts DEF Got
<1>3. Placed(r)'
  BY <1>0, <1>1 DEF Placed, Served
<1>4. Memory(r)'
  BY <1>0, <1>1, LocalParts DEF Memory, InCall
<1>5. Device(r)'
  BY <1>0, <1>1, <1>2, LocalParts DEF Device, Opened, InCall
<1>6. Buffered(r)'
  <2>1. load_buffer[r][Half(gidx[r])] = Sent(gidx[r] + 1)
    BY <1>0, LocalParts DEF Buffered, InCall
  <2>2. Half(gidx[r] - 1)' = Half(gidx[r]) /\ Sent(gidx[r])' = Sent(gidx[r] + 1)
    BY <1>1, <1>2 DEF Half, Sent
  <2> QED
    BY <1>1, <2>1, <2>2 DEF Buffered
<1>7. Socket(r)'
  <2>1. /\ request'[r] = Payload(MetasOf(Broadcasts[gidx[r]]), Half(gidx[r] - 1))'
        /\ gidx'[r] > 0
    BY <1>1, <1>2 DEF Half, Payload, MetasOf
  <2> QED
    BY <1>0, <1>1, <2>1, RequestTypes DEF Socket, Silent, Asked
<1>8. Weights(r)'
  <2>1. Consumed(r)' = gidx[r] /\ Consumed(r) = gidx[r] /\ Opened(r)
    BY <1>0, <1>1, <1>2, RequestTypes DEF Consumed, Opened, InCall, Silent
  <2> QED
    BY <1>0, <1>1, <2>1, LocalParts DEF Weights
<1> QED
  BY <1>3, <1>4, <1>5, <1>6, <1>7, <1>8 DEF Local


LEMMA StopThreadLocal ==
    ASSUME TransferInv, NEW r \in Ranks, StopThread(r), pc' = pc
    PROVE  Local(r)'
<1>0. /\ at[r] = "broadcast" /\ pc = "transfer" /\ calls[r] = 0 /\ overlap
      /\ gidx[r] = Buckets /\ reply[r]
  BY InTransfer DEF StopThread, AllBroadcast, Buckets
<1>s. request[r] = NoRequest /\ consumer[r] = "waiting"
  <2>1. request[r] = NoRequest /\ consumer[r] # "none"
    BY <1>0, LocalParts DEF Socket, Asked, Answered
  <2>2. consumer[r] # "loading"
    BY <2>1, LocalParts, RequestTypes DEF Socket
  <2>3. consumer[r] \in {"none", "waiting", "loading"}
    BY TypeFacts
  <2> QED
    BY <2>1, <2>2, <2>3
<1>1. /\ pc' = pc /\ at'[r] = "join" /\ gidx' = gidx /\ reply'[r] = FALSE
      /\ calls' = calls /\ memory_buffers' = memory_buffers /\ h2d_buffer' = h2d_buffer
      /\ load_buffer' = load_buffer
      /\ request'[r] = Stop /\ consumer' = consumer /\ model' = model
      /\ overlap' = overlap /\ actor_version' = actor_version
  BY TypeFacts DEF StopThread, GoTo, fixed, buffers
<1>3. Placed(r)'
  BY <1>0, <1>1 DEF Placed, Served
<1>4. Memory(r)'
  BY <1>0, <1>1, LocalParts DEF Memory, InCall
<1>5. Device(r)'
  <2>1. Got(r)' = Got(r) /\ Opened(r)
    BY <1>0, <1>1 DEF Got, Opened, InCall
  <2> QED
    BY <1>0, <1>1, <2>1, LocalParts DEF Device
<1>6. Buffered(r)'
  BY <1>0, <1>1, RequestTypes DEF Buffered
<1>7. Socket(r)'
  BY <1>0, <1>s, <1>1 DEF Socket
<1>8. Weights(r)'
  <2>1. Consumed(r)' = Consumed(r) /\ Opened(r)
    BY <1>0, <1>s, <1>1, RequestTypes DEF Consumed, Opened, InCall
  <2> QED
    BY <1>0, <1>1, <2>1, LocalParts DEF Weights
<1> QED
  BY <1>3, <1>4, <1>5, <1>6, <1>7, <1>8 DEF Local

LEMMA JoinThreadLocal ==
    ASSUME TransferInv, NEW r \in Ranks, JoinThread(r), pc' = pc
    PROVE  Local(r)'
<1>0. /\ at[r] = "join" /\ pc = "transfer" /\ calls[r] = 0 /\ overlap
      /\ gidx[r] = Buckets /\ reply[r] /\ request[r] = NoRequest /\ consumer[r] = "none"
  BY InTransfer, LocalParts DEF JoinThread, Placed, Socket, Answered
<1>1. /\ pc' = pc /\ at'[r] = "lastBarrier" /\ gidx' = gidx /\ reply'[r] = FALSE
      /\ calls' = calls /\ memory_buffers' = memory_buffers /\ h2d_buffer' = h2d_buffer
      /\ load_buffer' = load_buffer
      /\ request' = request /\ consumer' = consumer /\ model' = model
      /\ overlap' = overlap /\ actor_version' = actor_version
  BY TypeFacts DEF JoinThread, GoTo, fixed, buffers
<1>3. Placed(r)'
  BY <1>0, <1>1 DEF Placed, Served
<1>4. Memory(r)'
  BY <1>0, <1>1, LocalParts DEF Memory, InCall
<1>5. Device(r)'
  <2>1. Got(r)' = Got(r) /\ Opened(r)
    BY <1>0, <1>1 DEF Got, Opened, InCall
  <2> QED
    BY <1>0, <1>1, <2>1, LocalParts DEF Device
<1>6. Buffered(r)'
  BY <1>0, <1>1, RequestTypes DEF Buffered
<1>7. Socket(r)'
  BY <1>0, <1>1, RequestTypes DEF Socket, Silent
<1>8. Weights(r)'
  <2>1. Consumed(r)' = Consumed(r) /\ Opened(r)
    BY <1>0, <1>1, RequestTypes DEF Consumed, Opened, InCall
  <2> QED
    BY <1>0, <1>1, <2>1, LocalParts DEF Weights
<1> QED
  BY <1>3, <1>4, <1>5, <1>6, <1>7, <1>8 DEF Local

LEMMA ReachLastBarrierLocal ==
    ASSUME TransferInv, NEW r \in Ranks, ReachLastBarrier(r), pc' = pc
    PROVE  Local(r)'
<1>0. /\ at[r] = "broadcast" /\ pc = "transfer" /\ calls[r] = 0 /\ ~overlap
      /\ gidx[r] = Buckets /\ Silent(r) /\ consumer[r] = "none"
  BY InTransfer, LocalParts DEF ReachLastBarrier, AllBroadcast, Buckets, Socket
<1>1. /\ pc' = pc /\ at'[r] = "lastBarrier" /\ gidx' = gidx /\ reply' = reply
      /\ calls' = calls /\ memory_buffers' = memory_buffers /\ h2d_buffer' = h2d_buffer
      /\ load_buffer' = load_buffer
      /\ request' = request /\ consumer' = consumer /\ model' = model
      /\ overlap' = overlap /\ actor_version' = actor_version
  BY TypeFacts DEF ReachLastBarrier, GoTo, fixed, buffers, threads
<1>3. Placed(r)'
  BY <1>0, <1>1 DEF Placed, Served
<1>4. Memory(r)'
  BY <1>0, <1>1, LocalParts DEF Memory, InCall
<1>5. Device(r)'
  <2>1. Got(r)' = Got(r) /\ Opened(r)
    BY <1>0, <1>1 DEF Got, Opened, InCall
  <2> QED
    BY <1>0, <1>1, <2>1, LocalParts DEF Device
<1>6. Buffered(r)'
  BY <1>0, <1>1, RequestTypes DEF Buffered, Silent
<1>7. Socket(r)'
  BY <1>0, <1>1, RequestTypes DEF Socket, Silent
<1>8. Weights(r)'
  <2>1. Consumed(r)' = Consumed(r) /\ Opened(r)
    BY <1>0, <1>1 DEF Consumed, Opened, InCall
  <2> QED
    BY <1>0, <1>1, <2>1, LocalParts DEF Weights
<1> QED
  BY <1>3, <1>4, <1>5, <1>6, <1>7, <1>8 DEF Local

LEMMA CloseLocal ==
    ASSUME TransferInv, NEW r \in Ranks, Close(r), pc' = pc
    PROVE  Local(r)'
<1>0. /\ at[r] = "lastBarrier" /\ gidx[r] = Buckets /\ Silent(r) /\ consumer[r] = "none"
  BY LocalParts DEF Close, Placed, Socket
<1>1. /\ pc' = pc /\ at'[r] = "idle" /\ gidx' = gidx /\ reply' = reply
      /\ calls' = calls /\ h2d_buffer' = h2d_buffer /\ load_buffer' = load_buffer
      /\ request' = request /\ consumer' = consumer /\ model' = model
      /\ overlap' = overlap /\ actor_version' = actor_version
  BY TypeFacts DEF Close, GoTo, fixed, threads
<1>3. Placed(r)'
  BY <1>0, <1>1, LocalParts DEF Placed, Served
<1>4. Memory(r)'
  BY <1>1 DEF Memory, InCall
<1>5. Device(r)'
  BY <1>1 DEF Device, Opened, InCall
<1>6. Buffered(r)'
  BY <1>0, <1>1, RequestTypes DEF Buffered, Silent, InCall
<1>7. Socket(r)'
  BY <1>0, <1>1, RequestTypes DEF Socket, Silent
<1>8. Weights(r)'
  <2>1. Consumed(r)' = Consumed(r) /\ (Opened(r)' \/ Served(r)' => Opened(r))
    BY <1>0, <1>1 DEF Consumed, Opened, InCall, Served
  <2> QED
    BY <1>0, <1>1, <2>1, LocalParts DEF Weights
<1> QED
  BY <1>3, <1>4, <1>5, <1>6, <1>7, <1>8 DEF Local

\* The steps of the second thread leave the place of the main thread alone.
MainStands ==
    UNCHANGED <<fixed, calls, at, gidx, barriers, buffers, wire>>

LEMMA MainPartsKept ==
    ASSUME TransferInv, NEW r \in Ranks, MainStands, pc' = pc,
           request'[r] = request[r] \/ request'[r] = NoRequest
    PROVE  Placed(r)' /\ Memory(r)' /\ Device(r)' /\ Buffered(r)'
<1>1. /\ pc' = pc /\ at' = at /\ gidx' = gidx /\ calls' = calls
      /\ memory_buffers' = memory_buffers /\ h2d_buffer' = h2d_buffer
      /\ load_buffer' = load_buffer
      /\ overlap' = overlap /\ actor_version' = actor_version
  BY DEF MainStands, fixed, buffers
<1>2. /\ Got(r)' = Got(r) /\ (Opened(r)' <=> Opened(r)) /\ (InCall(r)' <=> InCall(r))
      /\ (Served(r)' <=> Served(r)) /\ Half(gidx[r])' = Half(gidx[r])
      /\ Half(gidx[r] - 1)' = Half(gidx[r] - 1)
      /\ Sent(gidx[r] + 1)' = Sent(gidx[r] + 1) /\ Sent(gidx[r])' = Sent(gidx[r])
  BY <1>1 DEF Got, Opened, InCall, Served, Half, Sent
<1>3. Placed(r)'
  BY <1>1, <1>2, LocalParts DEF Placed
<1>4. Memory(r)'
  BY <1>1, <1>2, LocalParts DEF Memory
<1>5. Device(r)'
  BY <1>1, <1>2, LocalParts DEF Device
<1>6. Buffered(r)'
  BY <1>1, <1>2, LocalParts, RequestTypes DEF Buffered
<1> QED
  BY <1>3, <1>4, <1>5, <1>6

LEMMA ConsumerGreetsLocal ==
    ASSUME TransferInv, NEW r \in Ranks, ConsumerGreets(r), pc' = pc
    PROVE  Local(r)'
<1>0. consumer[r] = "waiting" /\ request[r] # NoRequest /\ request[r].type = "greeting"
  BY DEF ConsumerGreets, NoRequest
<1>1. /\ MainStands /\ at' = at /\ gidx' = gidx /\ overlap' = overlap
      /\ request'[r] = NoRequest /\ reply'[r] = TRUE /\ consumer' = consumer
      /\ model' = model /\ calls' = calls /\ actor_version' = actor_version
  BY TypeFacts DEF ConsumerGreets, MainStands, fixed
<1>2. overlap /\ at[r] \in {"broadcast", "reply"} /\ gidx[r] = 0
  <2>1. request[r] # Stop
    BY <1>0 DEF Stop
  <2>2. overlap /\ at[r] \in {"broadcast", "reply"} /\ Asked(r)
    BY <1>0, <2>1, LocalParts DEF Socket, Placed, Silent, Answered, Places, Asked
  <2>3. \A m, h : request[r] # Payload(m, h)
    BY <1>0 DEF Payload
  <2> QED
    BY <2>2, <2>3, LocalParts DEF Socket
<1>7. Socket(r)'
  BY <1>0, <1>1, <1>2, RequestTypes DEF Socket, Answered, Asked
<1>8. Weights(r)'
  <2>1. Consumed(r)' = Consumed(r) /\ (Opened(r)' <=> Opened(r)) /\ (Served(r)' <=> Served(r))
    BY <1>0, <1>1, RequestTypes DEF Consumed, Opened, InCall, Served
  <2> QED
    BY <1>1, <2>1, LocalParts DEF Weights
<1> QED
  BY <1>1, <1>7, <1>8, MainPartsKept DEF Local

LEMMA ConsumerStartsLocal ==
    ASSUME TransferInv, NEW r \in Ranks, ConsumerStarts(r), pc' = pc
    PROVE  Local(r)'
<1>0. consumer[r] = "waiting" /\ request[r].type = "load"
  BY DEF ConsumerStarts
<1>1. /\ MainStands /\ at' = at /\ gidx' = gidx /\ overlap' = overlap
      /\ request' = request /\ reply' = reply /\ consumer'[r] = "loading"
      /\ model' = model /\ calls' = calls /\ actor_version' = actor_version
  BY TypeFacts DEF ConsumerStarts, MainStands, fixed
<1>2. overlap /\ at[r] \in {"broadcast", "reply"}
  BY <1>0, LoadRequest
<1>7. Socket(r)'
  BY <1>0, <1>1, <1>2, LocalParts DEF Socket, Answered, Asked, Half
<1>8. Weights(r)'
  <2>1. Consumed(r)' = Consumed(r) /\ (Opened(r)' <=> Opened(r)) /\ (Served(r)' <=> Served(r))
    BY <1>1 DEF Consumed, Opened, InCall, Served
  <2> QED
    BY <1>1, <2>1, LocalParts DEF Weights
<1> QED
  BY <1>1, <1>7, <1>8, MainPartsKept DEF Local

LEMMA ConsumerLoadsLocal ==
    ASSUME TransferInv, NEW r \in Ranks, ConsumerLoads(r), pc' = pc
    PROVE  Local(r)'
<1>0. consumer[r] = "loading" /\ request[r].type = "load"
  BY LocalParts DEF ConsumerLoads, Socket
<1>1. /\ MainStands /\ at' = at /\ gidx' = gidx /\ overlap' = overlap
      /\ request'[r] = NoRequest /\ reply'[r] = TRUE /\ consumer'[r] = "waiting"
      /\ model' = Loaded(r, request[r].metas, request[r].half)
      /\ calls' = calls /\ actor_version' = actor_version
  BY TypeFacts DEF ConsumerLoads, MainStands, fixed
<1>2. /\ overlap /\ at[r] \in {"broadcast", "reply"} /\ gidx[r] \in Nat /\ gidx[r] > 0
      /\ gidx[r] \in 1..Buckets /\ gidx[r] - 1 \in Nat
      /\ request[r].metas = MetasOf(Broadcasts[gidx[r]])
      /\ request[r].half = Half(gidx[r] - 1)
  BY <1>0, LoadRequest, LocalParts
<1>3. pc = "transfer" /\ calls[r] = 0 /\ Opened(r)
  BY <1>2, InTransfer DEF Opened
<1>7. Socket(r)'
  BY <1>0, <1>1, <1>2, RequestTypes DEF Socket, Answered, Asked
<1>8. Weights(r)'
  <2>1. Consumed(r)' = gidx[r] /\ Consumed(r) = gidx[r] - 1
    BY <1>0, <1>1, RequestTypes DEF Consumed
  <2>2. load_buffer[r][Half(gidx[r] - 1)] = Sent(gidx[r])
    BY <1>0, <1>3, LocalParts DEF Buffered
  <2>3. SUFFICES ASSUME r \in RolloutRanks, NEW i \in 1..gidx[r],
                        NEW p \in Range(MetasOf(Broadcasts[i]))
                 PROVE  model'[r][p] = actor_version
    BY <1>1, <2>1 DEF Weights
  <2>4. i \in 1..Buckets
    BY <1>2, LocalParts
  <2>5. p \in Params
    <3> DEFINE m == MetasOf(Broadcasts[i])
    <3>1. m \in Seq(Params)
      BY <2>4, BroadcastFacts
    <3> HIDE DEF m
    <3> QED
      BY <3>1 DEF Range, m
  <2>6. model'[r][p] = IF p \in Range(MetasOf(Broadcasts[gidx[r]]))
                       THEN actor_version ELSE model[r][p]
    BY <1>1, <1>2, <2>2, <2>3, <2>5, LoadedFacts DEF Sent
  <2>7. CASE i = gidx[r]
    BY <2>3, <2>6, <2>7
  <2>8. CASE i # gidx[r]
    <3>1. i \in 1..(gidx[r] - 1)
      BY <1>2, <2>8
    <3>2. model[r][p] = actor_version
      BY <1>3, <2>1, <2>3, <3>1, LocalParts DEF Weights
    <3> QED
      BY <2>6, <3>2
  <2> QED
    BY <2>7, <2>8
<1> QED
  BY <1>1, <1>7, <1>8, MainPartsKept DEF Local

LEMMA ConsumerEndsLocal ==
    ASSUME TransferInv, NEW r \in Ranks, ConsumerEnds(r), pc' = pc
    PROVE  Local(r)'
<1>0. /\ consumer[r] = "waiting" /\ request[r] # NoRequest /\ request[r].type = "stop"
      /\ request[r] # Greeting
  BY DEF ConsumerEnds, NoRequest, Greeting
<1>1. /\ MainStands /\ at' = at /\ gidx' = gidx /\ overlap' = overlap
      /\ request'[r] = NoRequest /\ reply'[r] = TRUE /\ consumer'[r] = "none"
      /\ model' = model /\ calls' = calls /\ actor_version' = actor_version
  BY TypeFacts DEF ConsumerEnds, MainStands, fixed
<1>2. overlap /\ at[r] = "join"
  <2>1. \A m, h : request[r] # Payload(m, h)
    BY <1>0 DEF Payload
  <2> QED
    BY <1>0, <2>1, LocalParts DEF Socket, Placed, Silent, Answered, Places, Asked
<1>7. Socket(r)'
  BY <1>0, <1>1, <1>2, RequestTypes DEF Socket, Answered, Asked
<1>8. Weights(r)'
  <2>1. Consumed(r)' = Consumed(r) /\ (Opened(r)' <=> Opened(r)) /\ (Served(r)' <=> Served(r))
    BY <1>0, <1>1, RequestTypes DEF Consumed, Opened, InCall, Served
  <2> QED
    BY <1>1, <2>1, LocalParts DEF Weights
<1> QED
  BY <1>1, <1>7, <1>8, MainPartsKept DEF Local

LEMMA LocalStep ==
    ASSUME TransferInv, NEW r \in Ranks, RankStep(r), pc' = pc
    PROVE  \A s \in Ranks : Local(s)'
<1>1. Local(r)'
  BY RegisterLocal, OpenLocal, BroadcastLocal, LoadInPlaceLocal, TakeReplyLocal, HandOverLocal,
     StopThreadLocal, JoinThreadLocal, ReachLastBarrierLocal, CloseLocal, ConsumerGreetsLocal,
     ConsumerStartsLocal, ConsumerLoadsLocal, ConsumerEndsLocal
     DEF RankStep, MainThread, Consumer
<1>2. ASSUME NEW s \in Ranks \ {r}
      PROVE  Local(s)'
  <2>1. SameRank(s) /\ UNCHANGED fixed /\ Local(s)
    BY OthersSame DEF TransferInv, TransferTypes
  <2> QED
    BY <2>1, LocalKept
<1> QED
  BY <1>1, <1>2


-----------------------------------------------------------------------------
(* The wire.                                                               *)
LEMMA WireSame ==
    ASSUME WireInv, wire' = wire,
           \A s \in Ranks : Got(s)' = Got(s) /\ (InCall(s)' => InCall(s)),
           pc' = "transfer" => pc = "transfer" /\ actor_version' = actor_version,
           \A i \in 1..Len(wire) : Owner(i) \in Ranks
    PROVE  WireInv'
  BY DEF WireInv, Sent, Owner

\* The first rank to register finds that no other has got anything.
LEMMA RegisterWire ==
    ASSUME TransferInv, NEW r \in Ranks, Register(r), NEW s \in Ranks
    PROVE  Got(s)' = 0
<1>1. /\ calls[r] # 0 /\ calls'[r] = 0 /\ at'[r] = "registered"
  BY TypeFacts, LocalParts DEF Register, GoTo, Placed
<1>2. CASE s = r
  BY <1>1, <1>2 DEF Got
<1>3. CASE s # r
  <2>1. Left(s) <= Arrived(r) /\ Arrived(r) = 0
    BY <1>1 DEF TransferInv, BarrierInv, Arrived
  <2>2. /\ gidx[s] \in Nat /\ Buckets \in Nat /\ overlap \in BOOLEAN /\ Left(s) \in Nat
    BY Numbers
  <2>3. Left(s) = 0
    BY <2>1, <2>2
  <2>4. calls[s] # 0 \/ at[s] = "registered"
    BY <2>2, <2>3 DEF Left, BarriersOfACall
  <2>5. RankStep(r) /\ TransferTypes
    BY DEF RankStep, MainThread, TransferInv, TransferTypes
  <2>6. SameRank(s)
    BY <1>3, <2>5, OthersSame
  <2> QED
    BY <2>4, <2>6 DEF Got, SameRank
<1> QED
  BY <1>2, <1>3

LEMMA BroadcastWire ==
    ASSUME TransferInv, NEW r \in Ranks, Broadcast(r), pc' = pc
    PROVE  WireInv'
<1> DEFINE g == gidx[r] + 1
<1>1. at[r] = "broadcast" /\ gidx[r] < Buckets /\ RankStep(r) /\ TransferTypes
  BY DEF Broadcast, Buckets, RankStep, MainThread, TransferInv, TransferTypes
<1>2. InCall(r) /\ pc = "transfer" /\ calls[r] = 0
  BY <1>1, InTransfer
<1>3. /\ at'[r] \in {"reply", "load"} /\ gidx' = gidx /\ calls' = calls
      /\ actor_version' = actor_version
  BY TypeFacts DEF Broadcast, GoTo, fixed
<1>4. gidx[r] \in Nat /\ g \in 1..Buckets /\ Len(wire) \in Nat /\ wire \in Seq(Contents)
  BY <1>1, LocalParts, TypeFacts
<1>5. Got(r) = gidx[r] /\ Got(r)' = g
  BY <1>1, <1>2, <1>3 DEF Got
<1>6. ASSUME NEW s \in Ranks \ {r}
      PROVE  Got(s)' = Got(s) /\ Got(s) \in Nat
  BY <1>1, OthersSame, OthersCount, Numbers
<1>7. /\ \A s \in Ranks : Got(s) <= Len(wire)
      /\ \A i \in 1..Len(wire) : i <= Buckets /\ i <= Got(Owner(i)) /\ wire[i] = Sent(i)
  BY <1>2 DEF TransferInv, WireInv
<1>8. \A i \in 1..Buckets : Owner(i) \in Ranks
  BY BroadcastFacts, RankTypes
<1>9. \A i : Sent(i)' = Sent(i)
  BY <1>3 DEF Sent
<1>10. /\ wire' = IF Owner(g) = r THEN Append(wire, Sent(g)) ELSE wire
       /\ Owner(g) # r => gidx[r] < Len(wire)
  BY ReceivedIsSent
<1> HIDE DEF g
<1>11. CASE Owner(g) # r
  <2>1. wire' = wire /\ g <= Len(wire)
    BY <1>4, <1>10, <1>11 DEF g
  <2>2. \A s \in Ranks : Got(s)' <= Len(wire)
    BY <1>5, <1>6, <1>7, <2>1
  <2>3. ASSUME NEW i \in 1..Len(wire) PROVE i <= Got(Owner(i))'
    <3>1. i \in 1..Buckets /\ i <= Got(Owner(i)) /\ Owner(i) \in Ranks
      BY <1>4, <1>7, <1>8
    <3>2. CASE Owner(i) = r
      BY <1>4, <1>5, <3>1, <3>2 DEF g
    <3>3. CASE Owner(i) # r
      BY <1>6, <3>1, <3>3
    <3> QED
      BY <3>2, <3>3
  <2>4. \A i \in 1..Len(wire') :
           i <= Buckets /\ i <= Got(Owner(i))' /\ wire'[i] = Sent(i)'
    BY <1>7, <1>9, <2>1, <2>3
  <2>5. \A s \in Ranks : Got(s)' <= Len(wire')
    BY <2>1, <2>2
  <2> QED
    BY <2>4, <2>5 DEF WireInv, Buckets, Owner
<1>12. CASE Owner(g) = r
  <2>1. Len(wire) = gidx[r]
    <3>1. gidx[r] <= Len(wire)
      BY <1>5, <1>7
    <3>2. ~(g \in 1..Len(wire))
      BY <1>4, <1>5, <1>7, <1>12 DEF g
    <3> QED
      BY <1>4, <3>1, <3>2 DEF g
  <2>2. /\ Len(wire') = g /\ wire'[g] = Sent(g)
        /\ \A i \in 1..gidx[r] : wire'[i] = wire[i]
    <3>1. Sent(g) \in Contents
      BY <1>4, TypeFacts, BroadcastFacts DEF Sent, Contents, Versions
    <3> DEFINE x == Sent(g)
    <3> HIDE DEF x
    <3>2. wire' = Append(wire, x) /\ x \in Contents
      BY <1>10, <1>12, <3>1 DEF x
    <3>3. Len(wire') = Len(wire) + 1 /\ wire'[Len(wire) + 1] = x
          /\ \A i \in 1..Len(wire) : wire'[i] = wire[i]
      BY <1>4, <3>2, AppendProperties
    <3> QED
      BY <2>1, <3>3 DEF g, x
  <2>3. \A s \in Ranks : Got(s)' <= g
    <3>1. ASSUME NEW s \in Ranks \ {r} PROVE Got(s)' <= g
      BY <1>4, <1>6, <1>7, <2>1 DEF g
    <3> QED
      BY <1>4, <1>5, <3>1
  <2>4. ASSUME NEW i \in 1..g
        PROVE  i <= Buckets /\ i <= Got(Owner(i))' /\ wire'[i] = Sent(i)'
    <3>1. CASE i = g
      BY <1>4, <1>5, <1>9, <1>12, <2>2, <3>1
    <3>2. CASE i # g
      <4>1. i \in 1..gidx[r]
        BY <1>4, <3>2 DEF g
      <4>2. i <= Buckets /\ i <= Got(Owner(i)) /\ wire[i] = Sent(i) /\ Owner(i) \in Ranks
        BY <1>4, <1>7, <1>8, <2>1, <4>1
      <4>3. CASE Owner(i) = r
        BY <1>4, <1>5, <1>9, <2>2, <4>1, <4>2, <4>3 DEF g
      <4>4. CASE Owner(i) # r
        BY <1>6, <1>9, <2>2, <4>1, <4>2, <4>4
      <4> QED
        BY <4>3, <4>4
    <3> QED
      BY <3>1, <3>2
  <2> QED
    BY <2>2, <2>3, <2>4 DEF WireInv, Buckets, Owner
<1> QED
  BY <1>11, <1>12

LEMMA WireKept ==
    ASSUME TransferInv, NEW r \in Ranks, RankStep(r), pc' = pc
    PROVE  WireInv'
<1>1. /\ WireInv /\ TransferTypes /\ UNCHANGED fixed
  <2>1. UNCHANGED fixed
    BY DEF RankStep, MainThread, Consumer, Register, Open, Broadcast, LoadInPlace, TakeReply,
       HandOver, StopThread, JoinThread, ReachLastBarrier, Close, ConsumerGreets,
       ConsumerStarts, ConsumerLoads, ConsumerEnds
  <2> QED
    BY <2>1 DEF TransferInv, TransferTypes
<1>2. ASSUME NEW s \in Ranks \ {r}
      PROVE  Got(s)' = Got(s) /\ (InCall(s)' <=> InCall(s))
  BY <1>1, OthersSame, OthersCount
<1>3. ASSUME wire' = wire, Got(r)' = Got(r), InCall(r)' => InCall(r)
      PROVE  WireInv'
  <2>1. CASE \E s \in Ranks : InCall(s)
    <3>1. \A i \in 1..Len(wire) : i <= Buckets
      BY <1>1, <2>1 DEF WireInv
    <3>2. \A i \in 1..Len(wire) : Owner(i) \in Ranks
      <4>1. \A i \in 1..Buckets : Owner(i) \in Ranks
        BY BroadcastFacts, RankTypes
      <4>2. Buckets \in Nat /\ Len(wire) \in Nat
        BY TypeFacts
      <4> QED
        BY <3>1, <4>1, <4>2
    <3> QED
      BY <1>1, <1>2, <1>3, <3>2, WireSame DEF fixed
  <2>2. CASE ~(\E s \in Ranks : InCall(s))
    BY <1>2, <1>3, <2>2 DEF WireInv
  <2> QED
    BY <2>1, <2>2
<1>4. CASE Register(r)
  <2>1. wire' = << >> /\ Len(wire') = 0
    BY <1>4 DEF Register
  <2>2. \A s \in Ranks : Got(s)' = 0
    BY <1>4, RegisterWire
  <2>3. 1..0 = {} /\ \A s \in Ranks : Got(s)' <= Len(wire')
    BY <2>1, <2>2
  <2> QED
    BY <2>1, <2>3 DEF WireInv
<1>5. CASE Broadcast(r)
  BY <1>5, BroadcastWire
<1> USE DEF GoTo
<1>6. CASE Open(r)
  <2>1. /\ at[r] = "registered" /\ at'[r] = "broadcast" /\ gidx'[r] = 0 /\ calls' = calls
        /\ wire' = wire
    BY <1>6, TypeFacts DEF Open
  <2> QED
    BY <1>3, <2>1 DEF Got, InCall
<1>7. CASE LoadInPlace(r)
  <2>1. /\ at[r] = "load" /\ at'[r] = "broadcast" /\ gidx'[r] = gidx[r] + 1 /\ calls' = calls
        /\ wire' = wire
    BY <1>7, TypeFacts DEF LoadInPlace
  <2> QED
    BY <1>3, <2>1 DEF Got, InCall
<1>8. CASE TakeReply(r)
  <2>1. /\ at[r] = "reply" /\ at'[r] = "barrier" /\ gidx' = gidx /\ calls' = calls
        /\ wire' = wire
    BY <1>8, TypeFacts DEF TakeReply
  <2> QED
    BY <1>3, <2>1 DEF Got, InCall
<1>9. CASE HandOver(r)
  <2>1. /\ at[r] = "barrier" /\ at'[r] = "broadcast" /\ gidx'[r] = gidx[r] + 1
        /\ calls' = calls /\ wire' = wire
    BY <1>9, TypeFacts DEF HandOver
  <2> QED
    BY <1>3, <2>1 DEF Got, InCall
<1>10. CASE StopThread(r) \/ JoinThread(r) \/ ReachLastBarrier(r) \/ Close(r)
  <2>1. /\ at[r] \in {"broadcast", "join", "lastBarrier"}
        /\ at'[r] \in {"join", "lastBarrier", "idle"} /\ gidx' = gidx /\ calls' = calls
        /\ wire' = wire
    BY <1>10, TypeFacts DEF StopThread, JoinThread, ReachLastBarrier, Close, AllBroadcast
  <2> QED
    BY <1>3, <2>1 DEF Got, InCall
<1>11. CASE Consumer(r)
  <2>1. UNCHANGED <<at, gidx, calls, wire>>
    BY <1>11 DEF Consumer, ConsumerGreets, ConsumerStarts, ConsumerLoads, ConsumerEnds
  <2> QED
    BY <1>3, <2>1 DEF Got, InCall
<1> QED
  BY <1>4, <1>5, <1>6, <1>7, <1>8, <1>9, <1>10, <1>11 DEF RankStep, MainThread

LEMMA TransferStepKept ==
    ASSUME TransferInv, NEW r \in Ranks, RankStep(r), pc' = pc
    PROVE  TransferInv'
  BY TypesKept, LocalStep, BarriersKept, WireKept DEF TransferInv, TransferTypes

-----------------------------------------------------------------------------
(* The steps around the transfer.                                          *)
Outside == \A r \in Ranks : calls[r] = 0 /\ at[r] \in {"idle", "lastBarrier"}

\* What all steps but those of the ranks leave alone, up to the call.
Untouched == UNCHANGED <<overlap, at, gidx, barriers, buffers, wire, threads, model>>

LEMMA TransferOutside ==
    ASSUME TransferInv, Untouched, calls' = calls, actor_version' \in Nat, Outside,
           pc' # "transfer"
    PROVE  TransferInv'
<1>1. /\ overlap' = overlap /\ at' = at /\ gidx' = gidx /\ barriers' = barriers
      /\ memory_buffers' = memory_buffers /\ h2d_buffer' = h2d_buffer
      /\ load_buffer' = load_buffer /\ wire' = wire
      /\ request' = request /\ reply' = reply /\ consumer' = consumer /\ model' = model
  BY DEF Untouched, buffers, threads
<1>2. TransferTypeOK' /\ request' = [r \in Ranks |-> request'[r]]
  BY <1>1 DEF TransferInv, TransferTypeOK
<1>3. ASSUME NEW r \in Ranks PROVE Local(r)'
  <2>1. Placed(r)'
    BY <1>1, LocalParts DEF Placed, Outside
  <2>2. Socket(r)'
    <3>1. Socket(r) /\ at'[r] \in {"idle", "lastBarrier"} /\ Silent(r) /\ consumer[r] = "none"
      BY <1>1, LocalParts DEF Socket, Outside
    <3> QED
      BY <1>1, <3>1 DEF Socket, Silent
  <2> QED
    BY <2>1, <2>2 DEF Local, Memory, Device, Buffered, Weights
<1>4. BarrierInv'
  <2>1. \A r \in Ranks : Arrived(r)' = Arrived(r) /\ Left(r)' = Left(r)
    BY <1>1 DEF Arrived, Left, BarriersOfACall
  <2> QED
    BY <1>1, <2>1 DEF TransferInv, BarrierInv
<1>5. WireInv'
  <2>1. \A r \in Ranks : Got(r)' = Got(r) /\ (InCall(r)' <=> InCall(r))
    BY <1>1 DEF Got, InCall
  <2>2. CASE \E s \in Ranks : InCall(s)
    <3>1. \A i \in 1..Len(wire) : i <= Buckets
      BY <2>2 DEF TransferInv, WireInv
    <3>2. \A i \in 1..Len(wire) : Owner(i) \in Ranks
      <4>1. \A i \in 1..Buckets : Owner(i) \in Ranks
        BY BroadcastFacts, RankTypes
      <4>2. Buckets \in Nat /\ Len(wire) \in Nat
        BY TypeFacts
      <4> QED
        BY <3>1, <4>1, <4>2
    <3>3. WireInv
      BY DEF TransferInv
    <3> QED
      BY <1>1, <2>1, <3>2, <3>3, WireSame
  <2>3. CASE ~(\E s \in Ranks : InCall(s))
    BY <2>1, <2>3 DEF WireInv
  <2> QED
    BY <2>2, <2>3
<1> QED
  BY <1>2, <1>3, <1>4, <1>5 DEF TransferInv

LEMMA TransferUnchanged ==
    ASSUME TransferInv, UNCHANGED transferVars, pc' = pc
    PROVE  TransferInv'
<1>1. /\ overlap' = overlap /\ actor_version' = actor_version /\ calls' = calls /\ at' = at
      /\ gidx' = gidx /\ barriers' = barriers
      /\ memory_buffers' = memory_buffers /\ h2d_buffer' = h2d_buffer
      /\ load_buffer' = load_buffer /\ wire' = wire
      /\ request' = request /\ reply' = reply /\ consumer' = consumer /\ model' = model
  BY DEF transferVars, fixed, buffers, threads
<1>2. TransferTypeOK' /\ request' = [r \in Ranks |-> request'[r]]
  BY <1>1 DEF TransferInv, TransferTypeOK
<1>3. ASSUME NEW r \in Ranks PROVE Local(r)'
  <2>1. SameRank(r) /\ UNCHANGED <<pc, fixed>> /\ Local(r)
    BY <1>1 DEF SameRank, fixed, TransferInv
  <2> QED
    BY <2>1, LocalKept
<1>4. BarrierInv'
  BY <1>1 DEF TransferInv, BarrierInv, Arrived, Left, BarriersOfACall
<1>5. WireInv'
  BY <1>1 DEF TransferInv, WireInv, Got, InCall, Sent
<1> QED
  BY <1>2, <1>3, <1>4, <1>5 DEF TransferInv

LEMMA OutsideTransfer ==
    ASSUME TransferInv, pc # "transfer" PROVE Outside
  BY LocalParts DEF Outside, Placed

\* When the rollout ranks have been served, every other rank is through
\* the last barrier, or waits at it.
LEMMA ServedIsOutside ==
    ASSUME TransferInv, RolloutsDone PROVE Outside
<1>1. PICK q \in RolloutRanks : TRUE
  BY RankTypes
<1>2. q \in Ranks /\ calls[q] = 0 /\ at[q] = "idle"
  BY RankTypes DEF RolloutsDone
<1>3. Left(q) = BarriersOfACall
  BY <1>2 DEF Left
<1>4. SUFFICES ASSUME NEW s \in Ranks
               PROVE  calls[s] = 0 /\ at[s] \in {"idle", "lastBarrier"}
  BY DEF Outside
<1>5. BarriersOfACall <= Arrived(s)
  BY <1>2, <1>3 DEF TransferInv, BarrierInv
<1>6. /\ gidx[s] \in Nat /\ gidx[s] <= Buckets /\ Buckets \in Nat /\ overlap \in BOOLEAN
      /\ at[s] \in Places /\ Placed(s)
  BY LocalParts
<1>7. calls[s] = 0
  <2>1. ~(BarriersOfACall <= 0)
    BY <1>6 DEF BarriersOfACall
  <2> QED
    BY <1>5, <2>1 DEF Arrived
<1>8. at[s] # "registered"
  <2>1. ~(BarriersOfACall <= 1)
    BY <1>6 DEF BarriersOfACall
  <2> QED
    BY <1>5, <1>7, <2>1 DEF Arrived
<1>9. at[s] # "barrier"
  <2>1. at[s] = "barrier" => overlap /\ gidx[s] < Buckets
    BY <1>6 DEF Placed
  <2> QED
    BY <1>5, <1>6, <1>7, <2>1 DEF Arrived, BarriersOfACall
<1> QED
  BY <1>5, <1>6, <1>7, <1>8, <1>9 DEF Arrived, BarriersOfACall, Places

\* Between calls all ranks are level, and a call finds them so.
LEMMA PauseTransfer ==
    ASSUME TransferInv, PauseRollouter PROVE TransferInv'
<1>1. /\ pc = "pause" /\ pc' = "transfer" /\ calls' = [r \in Ranks |-> calls[r] + 1]
      /\ overlap' = overlap /\ actor_version' = actor_version /\ at' = at
      /\ gidx' = gidx /\ barriers' = barriers
      /\ memory_buffers' = memory_buffers /\ h2d_buffer' = h2d_buffer
      /\ load_buffer' = load_buffer /\ wire' = wire
      /\ request' = request /\ reply' = reply /\ consumer' = consumer /\ model' = model
  BY DEF PauseRollouter, CallTransfer, fixed, buffers, threads
<1>2. \A r \in Ranks : calls[r] = 0 /\ at[r] \in {"idle", "lastBarrier"}
  BY <1>1, OutsideTransfer DEF Outside
<1>3. \A r \in Ranks : calls'[r] = 1
  BY <1>1, <1>2
<1>4. TransferTypeOK' /\ request' = [r \in Ranks |-> request'[r]]
  <2>1. calls' \in [Ranks -> Nat]
    BY <1>1, <1>2
  <2> QED
    BY <1>1, <2>1 DEF TransferInv, TransferTypeOK
<1>5. ASSUME NEW r \in Ranks PROVE Local(r)'
  <2>1. Silent(r) /\ consumer[r] = "none"
    BY <1>2, LocalParts DEF Socket
  <2>2. Placed(r)'
    BY <1>1, <1>2, <1>3, LocalParts DEF Placed, Served
  <2>3. Buffered(r)'
    BY <1>1, <1>3, <2>1, RequestTypes DEF Buffered, InCall, Silent
  <2>4. Socket(r)'
    BY <1>1, <1>2, <2>1, RequestTypes DEF Socket, Silent
  <2>5. Memory(r)' /\ Device(r)' /\ Weights(r)'
    BY <1>3 DEF Memory, Device, Weights, InCall, Opened, Served
  <2> QED
    BY <2>2, <2>3, <2>4, <2>5 DEF Local
<1>6. BarrierInv'
  <2>1. \A r \in Ranks : Arrived(r) = BarriersOfACall /\ Arrived(r)' = 0 /\ Left(r)' = 0
    BY <1>2, <1>3 DEF Arrived, Left
  <2>2. BarriersOfACall \in Nat
    BY TypeFacts DEF BarriersOfACall
  <2>3. ASSUME NEW r \in Ranks, NEW s \in Ranks PROVE barriers[r] = barriers[s]
    <3>1. barriers[r] - BarriersOfACall = barriers[s] - BarriersOfACall
      BY <2>1 DEF TransferInv, BarrierInv
    <3>2. barriers[r] \in Nat /\ barriers[s] \in Nat
      BY TypeFacts
    <3> QED
      BY <2>2, <3>1, <3>2
  <2> QED
    BY <1>1, <2>1, <2>3 DEF BarrierInv
<1>7. WireInv'
  BY <1>3 DEF WireInv, InCall
<1> QED
  BY <1>4, <1>5, <1>6, <1>7 DEF TransferInv

LEMMA TransferBegins == Init => TransferInv
<1> SUFFICES ASSUME Init PROVE TransferInv
  OBVIOUS
<1>1. /\ overlap \in OverlapModes /\ actor_version = 0 /\ pc = "pause"
      /\ calls = [r \in Ranks |-> 0] /\ at = [r \in Ranks |-> "idle"]
      /\ gidx = [r \in Ranks |-> 0] /\ barriers = [r \in Ranks |-> 0]
      /\ memory_buffers = [r \in Ranks |-> << >>]
      /\ h2d_buffer = [r \in Ranks |-> Blank]
      /\ load_buffer = [r \in Ranks |-> [half \in {0, 1} |-> Blank]]
      /\ wire = << >> /\ request = [r \in Ranks |-> NoRequest]
      /\ reply = [r \in Ranks |-> FALSE] /\ consumer = [r \in Ranks |-> "none"]
      /\ model = [r \in RolloutRanks |-> [p \in Params |-> Garbage]]
  BY DEF Init, TransferInit
<1>2. TransferTypeOK /\ request = [r \in Ranks |-> request[r]]
  <2>1. overlap \in BOOLEAN /\ Garbage \in Versions
    BY <1>1, ModeAssumption DEF Versions
  <2>2. Len(Broadcasts) \in Nat
    BY BroadcastFacts DEF Buckets
  <2>3. memory_buffers \in [Ranks -> Seq(Nat)] /\ wire \in Seq(Contents)
    BY <1>1, EmptySeq
  <2>4. /\ calls \in [Ranks -> Nat] /\ gidx \in [Ranks -> 0..Len(Broadcasts)]
        /\ at \in [Ranks -> {"idle", "registered", "broadcast", "load", "reply", "barrier",
                             "join", "lastBarrier"}]
        /\ barriers \in [Ranks -> Nat]
    BY <1>1, <2>2
  <2>5. /\ h2d_buffer \in [Ranks -> Contents]
        /\ load_buffer \in [Ranks -> [{0, 1} -> Contents]]
    BY <1>1, BlankIsContents
  <2>6. /\ consumer \in [Ranks -> {"none", "waiting", "loading"}]
        /\ reply \in [Ranks -> BOOLEAN]
        /\ model \in [RolloutRanks -> [Params -> Versions]]
        /\ request = [r \in Ranks |-> request[r]]
    BY <1>1, <2>1
  <2> QED
    BY <1>1, <2>1, <2>3, <2>4, <2>5, <2>6 DEF TransferTypeOK
<1>3. ASSUME NEW r \in Ranks PROVE Local(r)
  <2>1. /\ calls[r] = 0 /\ at[r] = "idle" /\ request[r] = NoRequest /\ reply[r] = FALSE
        /\ consumer[r] = "none"
    BY <1>1
  <2>2. Placed(r)
    BY <1>1, <2>1 DEF Placed
  <2>3. Socket(r)
    BY <2>1, RequestTypes DEF Socket, Silent
  <2> QED
    BY <1>1, <2>2, <2>3 DEF Local, Memory, Device, Buffered, Weights
<1>4. BarrierInv
  <2>1. \A r \in Ranks : barriers[r] = 0 /\ Arrived(r) = BarriersOfACall
                         /\ Left(r) = BarriersOfACall
    BY <1>1 DEF Arrived, Left
  <2>2. BarriersOfACall \in Nat
    BY <1>1, ModeAssumption, BroadcastFacts DEF BarriersOfACall
  <2> QED
    BY <2>1, <2>2 DEF BarrierInv
<1>5. WireInv
  BY <1>1 DEF WireInv, InCall
<1> QED
  BY <1>2, <1>3, <1>4, <1>5 DEF TransferInv


-----------------------------------------------------------------------------
(* Around the transfer: the update that is going on and what it announces  *)
(* (ServingInv), the validation and its results (ValidationInv), and their *)
(* number (CountInv).                                                      *)
Updates ==
    [state : {"called", "validating", "putting", "spawning", "done", "failed"},
     version : Nat, validate : BOOLEAN]
Validations == [state : {"running"}, version : Nat, seen : SUBSET Versions]
Results == [version : Nat, seen : SUBSET Versions]

SyncTypes ==
    /\ parallel \in BOOLEAN /\ partial \in BOOLEAN
    /\ monitor \in {"sleeping", "decided", "ended"}
    /\ stage \in {"boot", "train", "closing", "final"}
    /\ pc \in {"pause", "transfer", "settle", "log", "step", "wait", "done", "failed"}
    /\ steps \in 0..MaxSteps /\ local_trigger_step \in 1..TriggerSyncStep
    /\ serving \in BOOLEAN /\ resumed \in BOOLEAN
    /\ rollout_version \in Nat /\ rollout_version <= actor_version
    /\ update \in {NoUpdate} \cup Updates
    /\ validation \in {NoValidation} \cup Validations
    /\ val_queue \in Seq(Results) /\ logged \in Seq(Results)

ServingInv ==
    /\ update = NoUpdate => pc \in {"pause", "transfer"} /\ resumed /\ ~InService
    /\ pc \in {"pause", "transfer"} => LastUpdateDone
    /\ pc = "transfer" => ~InService
    /\ resumed => update.state \in {"none", "done"}
    /\ InService => resumed
    /\ update # NoUpdate =>
         /\ update.version <= actor_version
         /\ update.state # "called" => rollout_version = update.version
         /\ pc # "transfer" =>
              \A r \in RolloutRanks, p \in Params : model[r][p] = update.version

OneVersion(result) == result.seen \subseteq {result.version}

ValidationInv ==
    ~parallel =>
        /\ validation # NoValidation =>
             /\ update.state \in {"validating", "putting"}
             /\ validation.seen \subseteq {update.version}
        /\ update.state # "spawning"
        /\ \A i \in 1..Len(val_queue) : OneVersion(val_queue[i])

\* The results that are still to be put.
Due == (IF update.state \in {"called", "validating", "putting", "spawning"} THEN 1 ELSE 0)
         + (IF parallel /\ validation # NoValidation THEN 1 ELSE 0)

CountInv == Len(val_queue) + Len(logged) + Due <= Announced

SyncInv == TransferInv /\ SyncTypes /\ ServingInv /\ ValidationInv /\ CountInv

LEMMA UpdateTypes ==
    /\ NoUpdate \notin Updates /\ NoValidation \notin Validations
    /\ NoUpdate.state = "none" /\ NoValidation.state = "none"
    /\ \A u \in Updates : u.state # "none" /\ u.version \in Nat
  BY DEF NoUpdate, NoValidation, Updates, Validations

LEMMA QueuePut ==
    ASSUME NEW q \in Seq(Results), NEW x \in Results
    PROVE  /\ Append(q, x) \in Seq(Results) /\ Len(Append(q, x)) = Len(q) + 1
           /\ (\A i \in 1..Len(q) : OneVersion(q[i])) /\ OneVersion(x) =>
                \A i \in 1..Len(Append(q, x)) : OneVersion(Append(q, x)[i])
<1> DEFINE a == Append(q, x)
<1>1. /\ a \in Seq(Results) /\ Len(a) = Len(q) + 1 /\ a[Len(q) + 1] = x /\ Len(q) \in Nat
      /\ \A i \in 1..Len(q) : a[i] = q[i]
  BY AppendProperties, LenProperties
<1> HIDE DEF a
<1>2. ASSUME \A i \in 1..Len(q) : OneVersion(q[i]), OneVersion(x), NEW i \in 1..Len(a)
      PROVE  OneVersion(a[i])
  BY <1>1, <1>2
<1> QED
  BY <1>1, <1>2 DEF a

LEMMA QueueFetch ==
    ASSUME val_queue \in Seq(Results), logged \in Seq(Results), FetchResult
    PROVE  /\ val_queue' \in Seq(Results) /\ logged' \in Seq(Results)
           /\ Len(val_queue') + Len(logged') = Len(val_queue) + Len(logged)
           /\ (\A i \in 1..Len(val_queue) : OneVersion(val_queue[i])) =>
                \A i \in 1..Len(val_queue') : OneVersion(val_queue'[i])
<1>1. CASE val_queue = << >>
  BY <1>1 DEF FetchResult, results
<1>2. CASE val_queue # << >>
  <2>1. /\ Len(val_queue) \in Nat \ {0} /\ Head(val_queue) \in Results
        /\ Tail(val_queue) \in Seq(Results) /\ Len(Tail(val_queue)) = Len(val_queue) - 1
        /\ \A i \in 1..Len(Tail(val_queue)) : Tail(val_queue)[i] = val_queue[i + 1]
    BY <1>2, HeadTailProperties, EmptySeq, LenProperties
  <2>2. val_queue' = Tail(val_queue) /\ logged' = Append(logged, Head(val_queue))
    BY <1>2 DEF FetchResult
  <2>3. logged' \in Seq(Results) /\ Len(logged') = Len(logged) + 1 /\ Len(logged) \in Nat
    BY <2>1, <2>2, AppendProperties, LenProperties
  <2>4. ASSUME \A i \in 1..Len(val_queue) : OneVersion(val_queue[i]), NEW i \in 1..Len(val_queue')
        PROVE  OneVersion(val_queue'[i])
    <3>1. i + 1 \in 1..Len(val_queue) /\ val_queue'[i] = val_queue[i + 1]
      BY <2>1, <2>2
    <3> QED
      BY <2>4, <3>1
  <2> QED
    BY <2>1, <2>2, <2>3, <2>4
<1> QED
  BY <1>1, <1>2

LEMMA LoadedVersions ==
    ASSUME TransferInv
    PROVE  /\ VersionsLoaded \subseteq Versions
           /\ \A v : (\A r \in RolloutRanks, p \in Params : model[r][p] = v) =>
                VersionsLoaded \subseteq {v}
  BY TypeFacts DEF VersionsLoaded, Range

\* No rank loads anything while no transfer is going on.
LEMMA NoLoadOutside ==
    ASSUME TransferInv, NEW r \in Ranks, RankStep(r), pc # "transfer"
    PROVE  model' = model
<1>1. calls[r] = 0 /\ at[r] \in {"idle", "lastBarrier"}
  BY OutsideTransfer DEF Outside
<1>2. consumer[r] = "none"
  BY <1>1, LocalParts DEF Socket
<1>3. ~Consumer(r)
  BY <1>2 DEF Consumer, ConsumerGreets, ConsumerStarts, ConsumerLoads, ConsumerEnds
<1>4. Close(r)
  BY <1>1, <1>3 DEF RankStep, MainThread, Register, Open, Broadcast, LoadInPlace, TakeReply,
     HandOver, StopThread, JoinThread, ReachLastBarrier, AllBroadcast
<1> QED
  BY <1>4 DEF Close

\* What a served rank has loaded is all of the actor's parameters.
LEMMA ServedHasAll ==
    ASSUME TransferInv, pc = "transfer", NEW r \in RolloutRanks, Served(r), NEW p \in Params
    PROVE  model[r][p] = actor_version
<1>1. r \in Ranks /\ gidx[r] = Buckets /\ request[r].type # "load"
  BY RankTypes, LocalParts, RequestTypes DEF Placed, Served, Socket, Silent
<1>2. PICK i \in 1..Buckets : p \in Range(MetasOf(Broadcasts[i]))
  BY EveryParameterSent
<1>3. Consumed(r) = Buckets
  BY <1>1 DEF Consumed
<1> QED
  BY <1>1, <1>2, <1>3, LocalParts DEF Weights

\* The trainer's steps that call nothing on the rollouter.
OwnStep ==
    \/ TrainStep \/ TrainAndSync \/ EndOfSamples \/ WaitLastValid \/ WaitRaises
    \/ LogAndGoOn \/ LogAndSyncAgain \/ LogAndFinish

LEMMA OwnStepFacts ==
    ASSUME SyncInv, OwnStep
    PROVE  /\ Untouched /\ UNCHANGED <<modes, rollouter, calls>>
           /\ actor_version' \in {actor_version, actor_version + 1} /\ actor_version' \in Nat
           /\ pc \notin {"pause", "transfer"} /\ pc' # "transfer"
           /\ pc' = "pause" => LastUpdateDone
           /\ Announced' >= Announced /\ Announced \in Nat /\ Announced' \in Nat
<1>0. actor_version \in Nat
  BY TypeFacts DEF SyncInv
<1>1. CASE TrainStep \/ EndOfSamples \/ WaitLastValid \/ WaitRaises
  BY <1>0, <1>1 DEF TrainStep, EndOfSamples, WaitLastValid, WaitRaises, Announced, Untouched,
     transferVars, fixed
<1>2. CASE TrainAndSync
  BY <1>0, <1>2 DEF TrainAndSync, NextVersion, Announced, Untouched
<1>3. CASE LogAndGoOn \/ LogAndFinish
  BY <1>0, <1>3 DEF LogAndGoOn, LogAndFinish, Announced, Untouched, transferVars, fixed
<1>4. CASE LogAndSyncAgain
  BY <1>0, <1>4 DEF LogAndSyncAgain, NextVersion, Announced, Untouched
<1> QED
  BY <1>1, <1>2, <1>3, <1>4 DEF OwnStep

LEMMA RollouterFacts ==
    ASSUME SyncInv, Rollouter \/ TaskPutsResult
    PROVE  UNCHANGED <<transferVars, modes, trainer>> /\ actor_version' = actor_version
           /\ pc' = pc /\ model' = model /\ Announced' = Announced
  BY DEF Rollouter, UpdateParamVersion, Validated, PutValidate, SpawnValidation, SpawnRaises,
     ResumeRollouter, TaskPutsResult, transferVars, fixed, trainer, Announced

\* The monitor moves nothing but the pause, and that only for samples of
\* which nothing is claimed.
LEMMA MonitorFacts ==
    ASSUME SyncInv, Monitor
    PROVE  /\ UNCHANGED <<transferVars, modes, trainer, rollout_version, update, resumed,
                           validation, results>>
           /\ actor_version' = actor_version /\ pc' = pc /\ model' = model
           /\ Announced' = Announced /\ (InService' <=> InService)
           /\ serving' \in BOOLEAN /\ monitor' \in {"sleeping", "decided", "ended"}
<1>1. serving \in BOOLEAN /\ partial \in BOOLEAN
  BY DEF SyncInv, SyncTypes
<1>2. /\ UNCHANGED <<transferVars, modes, trainer, rollout_version, update, resumed,
                      validation, results>>
      /\ \/ monitor = "sleeping" /\ monitor' = "decided" /\ serving' = serving
         \/ /\ monitor = "decided"
            /\ serving' = (serving \/ ~partial)
            /\ monitor' = IF serving' # serving THEN "ended" ELSE "sleeping"
  BY DEF Monitor, MonitorDecides, MonitorResumes
<1>3. InService' <=> InService
  BY <1>1, <1>2 DEF InService
<1>4. serving' \in BOOLEAN /\ monitor' \in {"sleeping", "decided", "ended"}
  BY <1>1, <1>2
<1> QED
  BY <1>2, <1>3, <1>4 DEF transferVars, fixed, trainer, Announced

LEMMA TransferFacts ==
    ASSUME SyncInv, NEW r \in Ranks, Transfer(r)
    PROVE  /\ RankStep(r) /\ TransferInv' /\ actor_version' = actor_version
           /\ UNCHANGED <<modes, trainer, pausing, rollout_version, update, resumed, results>>
           /\ pc' = pc /\ stage' = stage /\ Announced' = Announced
           /\ pc # "transfer" => model' = model
<1>1. /\ RankStep(r) /\ pc' = pc /\ stage' = stage
      /\ UNCHANGED <<modes, trainer, pausing, rollout_version, update, resumed, results>>
  BY DEF Transfer, trainer
<1>2. UNCHANGED fixed
  BY <1>1 DEF RankStep, MainThread, Consumer, Register, Open, Broadcast, LoadInPlace, TakeReply,
     HandOver, StopThread, JoinThread, ReachLastBarrier, Close, ConsumerGreets,
     ConsumerStarts, ConsumerLoads, ConsumerEnds
<1> QED
  BY <1>1, <1>2, TransferStepKept, NoLoadOutside DEF SyncInv, fixed, Announced

LEMMA TransferInvKept ==
    ASSUME SyncInv, [Next]_vars PROVE TransferInv'
<1>1. CASE OwnStep
  BY <1>1, OwnStepFacts, OutsideTransfer, TransferOutside DEF SyncInv
<1>2. CASE PauseRollouter
  BY <1>2, PauseTransfer DEF SyncInv
<1>3. CASE AnnounceVersion
  <2>1. /\ Untouched /\ calls' = calls /\ actor_version' = actor_version /\ pc' # "transfer"
        /\ RolloutsDone
    BY <1>3 DEF AnnounceVersion, transferVars, fixed, Untouched
  <2> QED
    BY <2>1, ServedIsOutside, TransferOutside, TypeFacts DEF SyncInv
<1>4. CASE Rollouter \/ TaskPutsResult
  BY <1>4, RollouterFacts, TransferUnchanged DEF SyncInv
<1>5. ASSUME NEW r \in Ranks, Transfer(r) PROVE TransferInv'
  BY <1>5, TransferFacts
<1>6. CASE UNCHANGED vars
  BY <1>6, TransferUnchanged DEF SyncInv, vars, trainer
<1>7. CASE Monitor
  BY <1>7, MonitorFacts, TransferUnchanged DEF SyncInv
<1> QED
  BY <1>1, <1>2, <1>3, <1>4, <1>5, <1>6, <1>7 DEF Next, Trainer, OwnStep, Terminated


\* What the steps of an update do to it.
LEMMA UpdateMoves ==
    ASSUME SyncInv, Rollouter \/ TaskPutsResult
    PROVE  /\ \/ update' = update
              \/ /\ update \in Updates /\ update' \in Updates
                 /\ update'.version = update.version
                 /\ update'.state # "called"
           /\ resumed' = resumed \/ (update.state = "done" /\ update' = update /\ resumed')
<1>1. update = NoUpdate => update.state = "none"
  BY UpdateTypes
<1>2. update # NoUpdate => update \in Updates
  BY DEF SyncInv, SyncTypes
<1>3. CASE UpdateParamVersion
  BY <1>1, <1>2, <1>3 DEF UpdateParamVersion, UpdateTo, Updates
<1>4. CASE Validated
  BY <1>1, <1>2, <1>4 DEF Validated, UpdateTo, Updates
<1>5. CASE PutValidate
  BY <1>1, <1>2, <1>5 DEF PutValidate, UpdateTo, Updates
<1>6. CASE SpawnValidation \/ SpawnRaises
  BY <1>1, <1>2, <1>6 DEF SpawnValidation, SpawnRaises, UpdateTo, Updates
<1>7. CASE ResumeRollouter \/ TaskPutsResult
  BY <1>7 DEF ResumeRollouter, TaskPutsResult
<1> QED
  BY <1>3, <1>4, <1>5, <1>6, <1>7 DEF Rollouter

LEMMA ServingKept ==
    ASSUME SyncInv, [Next]_vars PROVE ServingInv'
<1>0. /\ ServingInv /\ TransferInv /\ actor_version \in Nat
      /\ update \in {NoUpdate} \cup Updates
  BY TypeFacts DEF SyncInv, SyncTypes
<1>1. CASE OwnStep
  <2>1. /\ update' = update /\ resumed' = resumed /\ InService' = InService
        /\ rollout_version' = rollout_version /\ model' = model
        /\ actor_version' >= actor_version /\ actor_version' \in Nat
        /\ pc \notin {"pause", "transfer"} /\ pc' # "transfer"
        /\ pc' = "pause" => LastUpdateDone
    BY <1>0, <1>1, OwnStepFacts DEF rollouter, pausing, InService, Untouched
  <2>2. LastUpdateDone' = LastUpdateDone
    BY <2>1 DEF LastUpdateDone
  <2>3. update # NoUpdate => update.version <= actor_version'
    BY <1>0, <2>1, UpdateTypes DEF ServingInv
  <2> QED
    BY <1>0, <2>1, <2>2, <2>3 DEF ServingInv
<1>2. CASE PauseRollouter
  <2>1. /\ update' = update /\ resumed' = resumed /\ ~InService' /\ pc = "pause"
        /\ rollout_version' = rollout_version /\ model' = model /\ pc' = "transfer"
        /\ actor_version' = actor_version
    BY <1>2 DEF PauseRollouter, InService, fixed
  <2> QED
    BY <1>0, <2>1 DEF ServingInv, LastUpdateDone
<1>3. CASE AnnounceVersion
  <2>1. /\ update'.version = actor_version /\ update'.state = "called" /\ update' # NoUpdate
        /\ ~resumed' /\ InService' = InService /\ pc = "transfer" /\ pc' \in {"log", "settle"}
        /\ model' = model /\ actor_version' = actor_version
        /\ rollout_version' = rollout_version /\ RolloutsDone
    BY <1>3 DEF AnnounceVersion, transferVars, fixed, NoUpdate, pausing, InService
  <2>2. \A r \in RolloutRanks, p \in Params : model[r][p] = actor_version
    BY <1>0, <2>1, ServedHasAll DEF RolloutsDone, Served
  <2> QED
    BY <1>0, <2>1, <2>2 DEF ServingInv
<1>4. CASE Rollouter \/ TaskPutsResult
  <2>1. /\ pc' = pc /\ model' = model /\ actor_version' = actor_version
    BY <1>4, RollouterFacts
  <2>2. CASE UpdateParamVersion
    <3>1. /\ update.state = "called" /\ update \in Updates
          /\ update' \in Updates /\ update'.version = update.version
          /\ rollout_version' = update.version /\ InService' = InService /\ resumed' = resumed
      BY <1>0, <2>2, UpdateTypes DEF UpdateParamVersion, UpdateTo, Updates, pausing, InService
    <3>2. ~resumed /\ update # NoUpdate /\ update' # NoUpdate
      BY <1>0, <3>1, UpdateTypes DEF ServingInv
    <3>3. pc \notin {"pause", "transfer"}
      BY <1>0, <3>1 DEF ServingInv, LastUpdateDone
    <3> QED
      BY <1>0, <2>1, <3>1, <3>2, <3>3 DEF ServingInv
  <2>3. CASE Validated \/ PutValidate \/ SpawnValidation \/ SpawnRaises
    <3>1. /\ update.state \in {"validating", "putting", "spawning"} /\ update \in Updates
          /\ update' \in Updates /\ update'.version = update.version
          /\ update'.state # "called"
          /\ rollout_version' = rollout_version /\ InService' = InService /\ resumed' = resumed
      BY <1>0, <2>3, UpdateTypes
         DEF Validated, PutValidate, SpawnValidation, SpawnRaises, UpdateTo, Updates, pausing,
             InService
    <3>2. ~resumed /\ update # NoUpdate /\ update' # NoUpdate
      BY <1>0, <3>1, UpdateTypes DEF ServingInv
    <3>3. pc \notin {"pause", "transfer"}
      BY <1>0, <3>1 DEF ServingInv, LastUpdateDone
    <3> QED
      BY <1>0, <2>1, <3>1, <3>2, <3>3 DEF ServingInv
  <2>4. CASE ResumeRollouter
    <3>1. /\ update.state = "done" /\ ~resumed /\ resumed' = TRUE /\ InService'
          /\ update' = update /\ rollout_version' = rollout_version
      BY <2>4 DEF ResumeRollouter, InService
    <3>2. pc \notin {"pause", "transfer"} /\ update # NoUpdate
      BY <1>0, <3>1, UpdateTypes DEF ServingInv, LastUpdateDone
    <3> QED
      BY <1>0, <2>1, <3>1, <3>2 DEF ServingInv
  <2>5. CASE TaskPutsResult
    BY <1>0, <2>1, <2>5 DEF TaskPutsResult, ServingInv, LastUpdateDone, pausing, InService
  <2> QED
    BY <1>4, <2>2, <2>3, <2>4, <2>5 DEF Rollouter
<1>5. ASSUME NEW r \in Ranks, Transfer(r) PROVE ServingInv'
  <2>1. /\ update' = update /\ resumed' = resumed /\ InService' = InService /\ pc' = pc
        /\ rollout_version' = rollout_version /\ actor_version' = actor_version
        /\ pc # "transfer" => model' = model
    BY <1>5, TransferFacts DEF pausing, InService
  <2> QED
    BY <1>0, <2>1 DEF ServingInv, LastUpdateDone
<1>6. CASE UNCHANGED vars
  <2>1. /\ update' = update /\ resumed' = resumed /\ InService' = InService /\ pc' = pc
        /\ rollout_version' = rollout_version /\ actor_version' = actor_version
        /\ model' = model
    BY <1>6 DEF vars, rollouter, pausing, InService, trainer, transferVars, fixed
  <2> QED
    BY <1>0, <2>1 DEF ServingInv, LastUpdateDone
<1>7. CASE Monitor
  BY <1>0, <1>7, MonitorFacts DEF ServingInv, LastUpdateDone
<1> QED
  BY <1>1, <1>2, <1>3, <1>4, <1>5, <1>6, <1>7 DEF Next, Trainer, OwnStep, Terminated

\* Outside a transfer the rollout ranks hold what was announced.
LEMMA AnnouncedIsLoaded ==
    ASSUME SyncInv, update # NoUpdate, pc # "transfer"
    PROVE  VersionsLoaded \subseteq {update.version}
  BY LoadedVersions DEF SyncInv, ServingInv

LEMMA ValidationKept ==
    ASSUME SyncInv, [Next]_vars PROVE ValidationInv'
<1>0. /\ ValidationInv /\ ServingInv /\ TransferInv
      /\ update \in {NoUpdate} \cup Updates
      /\ validation \in {NoValidation} \cup Validations
      /\ val_queue \in Seq(Results) /\ logged \in Seq(Results) /\ parallel \in BOOLEAN
  BY DEF SyncInv, SyncTypes
<1>p. parallel' = parallel
  <2>1. CASE OwnStep
    BY <2>1, OwnStepFacts DEF modes
  <2>2. CASE Rollouter \/ Monitor \/ TaskPutsResult
    BY <2>2, RollouterFacts, MonitorFacts DEF modes
  <2>3. CASE PauseRollouter \/ AnnounceVersion \/ (\E r \in Ranks : Transfer(r))
             \/ UNCHANGED vars
    BY <2>3 DEF PauseRollouter, AnnounceVersion, Transfer, vars, modes
  <2> QED
    BY <2>1, <2>2, <2>3 DEF Next, Trainer, OwnStep, Terminated
<1> SUFFICES ASSUME ~parallel
             PROVE  /\ validation' # NoValidation =>
                         /\ update'.state \in {"validating", "putting"}
                         /\ validation'.seen \subseteq {update'.version}
                    /\ update'.state # "spawning"
                    /\ \A i \in 1..Len(val_queue') : OneVersion(val_queue'[i])
  BY <1>p DEF ValidationInv, OneVersion
<1>v. /\ validation # NoValidation => /\ update.state \in {"validating", "putting"}
                                      /\ validation.seen \subseteq {update.version}
      /\ update.state # "spawning"
      /\ \A i \in 1..Len(val_queue) : OneVersion(val_queue[i])
  BY <1>0 DEF ValidationInv
<1>1. CASE OwnStep
  <2>1. update' = update /\ validation' = validation
    BY <1>1, OwnStepFacts DEF rollouter
  <2>2. CASE LogAndGoOn \/ LogAndSyncAgain \/ LogAndFinish
    <3>1. FetchResult
      BY <2>2 DEF LogAndGoOn, LogAndSyncAgain, LogAndFinish
    <3> QED
      BY <1>0, <1>v, <2>1, <3>1, QueueFetch
  <2>3. CASE TrainStep \/ TrainAndSync \/ EndOfSamples \/ WaitLastValid \/ WaitRaises
    <3>1. val_queue' = val_queue
      BY <2>3 DEF TrainStep, TrainAndSync, EndOfSamples, WaitLastValid, WaitRaises, results
    <3> QED
      BY <1>v, <2>1, <3>1
  <2> QED
    BY <1>1, <2>2, <2>3 DEF OwnStep
<1>2. CASE PauseRollouter
  BY <1>v, <1>2 DEF PauseRollouter, results
<1>3. CASE AnnounceVersion
  <2>1. validation = NoValidation
    BY <1>0, <1>v, <1>3 DEF AnnounceVersion, ServingInv, LastUpdateDone
  <2>2. validation' = validation /\ val_queue' = val_queue /\ update'.state = "called"
    BY <1>3 DEF AnnounceVersion, results
  <2> QED
    BY <1>v, <2>1, <2>2
<1>4. CASE UpdateParamVersion
  <2>1. update \in Updates /\ update.state = "called" /\ validation = NoValidation
    BY <1>0, <1>v, <1>4, UpdateTypes DEF UpdateParamVersion
  <2>2. pc # "transfer" /\ update # NoUpdate
    BY <1>0, <2>1, UpdateTypes DEF ServingInv, LastUpdateDone
  <2>3. VersionsLoaded \subseteq {update.version}
    BY <2>2, AnnouncedIsLoaded
  <2>4. /\ val_queue' = val_queue /\ update'.version = update.version
        /\ \/ /\ update'.state = "validating"
              /\ validation' = [state |-> "running", version |-> update.version,
                                seen |-> VersionsLoaded]
           \/ update'.state = "putting" /\ validation' = validation
    BY <1>4, <2>1 DEF UpdateParamVersion, UpdateTo, Updates, ValidationBegins, results
  <2> QED
    BY <1>v, <2>1, <2>3, <2>4
<1>5. CASE Validated
  <2>1. update \in Updates
    BY <1>0, <1>5, UpdateTypes DEF Validated
  <2> QED
    BY <1>v, <1>5, <2>1 DEF Validated, UpdateTo, Updates, results
<1>6. CASE PutValidate
  <2>1. update \in Updates
    BY <1>0, <1>6, UpdateTypes DEF PutValidate
  <2> DEFINE x == Result(update.version, IF validation # NoValidation /\ ~parallel
                                         THEN validation.seen ELSE {})
  <2>2. val_queue' = Append(val_queue, x) /\ validation' = NoValidation
        /\ update'.state = "done"
    BY <1>6, <2>1 DEF PutValidate, UpdateTo, Updates
  <2>3. x \in Results /\ OneVersion(x)
    <3>1. update.version \in Nat
      BY <2>1 DEF Updates
    <3>2. validation # NoValidation => validation.seen \subseteq Versions
      BY <1>0 DEF Validations
    <3> QED
      BY <1>v, <3>1, <3>2 DEF Result, Results, OneVersion
  <2> HIDE DEF x
  <2> QED
    BY <1>0, <1>v, <2>2, <2>3, QueuePut
<1>7. CASE SpawnValidation \/ SpawnRaises \/ TaskPutsResult
  BY <1>v, <1>7 DEF SpawnValidation, SpawnRaises, TaskPutsResult
<1>8. CASE ResumeRollouter
  BY <1>v, <1>8 DEF ResumeRollouter, results
<1>9. ASSUME NEW r \in Ranks, Transfer(r)
      PROVE  /\ validation' # NoValidation =>
                    /\ update'.state \in {"validating", "putting"}
                    /\ validation'.seen \subseteq {update'.version}
             /\ update'.state # "spawning"
             /\ \A i \in 1..Len(val_queue') : OneVersion(val_queue'[i])
  <2>1. /\ update' = update /\ val_queue' = val_queue
        /\ pc # "transfer" => model' = model
    BY <1>9, TransferFacts DEF results
  <2>2. CASE validation = NoValidation
    BY <1>v, <1>9, <2>1, <2>2 DEF Transfer
  <2>3. CASE validation # NoValidation
    <3>1. pc # "transfer" /\ update # NoUpdate
      BY <1>0, <1>v, <2>3, UpdateTypes DEF ServingInv, LastUpdateDone
    <3>2. VersionsLoaded \subseteq {update.version}
      BY <3>1, AnnouncedIsLoaded
    <3>3. VersionsLoaded' = VersionsLoaded
      BY <2>1, <3>1 DEF VersionsLoaded
    <3>4. /\ validation \in Validations
          /\ validation' = [validation EXCEPT !.seen = validation.seen \cup VersionsLoaded']
      BY <1>0, <1>9, <2>3 DEF Transfer
    <3>5. validation'.seen = validation.seen \cup VersionsLoaded
      BY <3>3, <3>4 DEF Validations
    <3> QED
      BY <1>v, <2>1, <2>3, <3>2, <3>5
  <2> QED
    BY <2>2, <2>3
<1>10. CASE UNCHANGED vars
  BY <1>v, <1>10 DEF vars, rollouter, results
<1>11. CASE Monitor
  BY <1>v, <1>11, MonitorFacts DEF results
<1> QED
  BY <1>1, <1>2, <1>3, <1>4, <1>5, <1>6, <1>7, <1>8, <1>9, <1>10, <1>11
     DEF Next, Trainer, Rollouter, OwnStep, Terminated


LEMMA TypesOfSyncKept ==
    ASSUME SyncInv, [Next]_vars PROVE SyncTypes'
<1>0. /\ SyncTypes /\ ServingInv /\ TransferInv /\ actor_version \in Nat
      /\ MaxSteps \in Nat /\ TriggerSyncStep \in Nat \ {0}
  BY TypeFacts, StepsAssumption DEF SyncInv
<1>q. ASSUME UNCHANGED results
      PROVE  val_queue' \in Seq(Results) /\ logged' \in Seq(Results)
  BY <1>0, <1>q DEF SyncTypes, results
<1>r. ASSUME UNCHANGED rollouter
      PROVE  /\ serving' \in BOOLEAN /\ resumed' \in BOOLEAN /\ rollout_version' = rollout_version
             /\ monitor' \in {"sleeping", "decided", "ended"}
             /\ update' \in {NoUpdate} \cup Updates
             /\ validation' \in {NoValidation} \cup Validations
  BY <1>0, <1>r DEF SyncTypes, rollouter, pausing
<1>1. CASE OwnStep
  <2>1. /\ UNCHANGED <<modes, rollouter>> /\ actor_version' \in Nat
        /\ actor_version' >= actor_version
    BY <1>0, <1>1, OwnStepFacts
  <2>2. rollout_version <= actor_version'
    BY <1>0, <2>1 DEF SyncTypes
  <2>3. val_queue' \in Seq(Results) /\ logged' \in Seq(Results)
    <3>1. CASE LogAndGoOn \/ LogAndSyncAgain \/ LogAndFinish
      <4>1. FetchResult
        BY <3>1 DEF LogAndGoOn, LogAndSyncAgain, LogAndFinish
      <4> QED
        BY <1>0, <4>1, QueueFetch DEF SyncTypes
    <3>2. CASE TrainStep \/ TrainAndSync \/ EndOfSamples \/ WaitLastValid \/ WaitRaises
      BY <1>q, <3>2 DEF TrainStep, TrainAndSync, EndOfSamples, WaitLastValid, WaitRaises
    <3> QED
      BY <1>1, <3>1, <3>2 DEF OwnStep
  <2>4. /\ stage' \in {"boot", "train", "closing", "final"}
        /\ pc' \in {"pause", "transfer", "settle", "log", "step", "wait", "done", "failed"}
    BY <1>0, <1>1 DEF OwnStep, TrainStep, TrainAndSync, EndOfSamples, WaitLastValid,
       WaitRaises, LogAndGoOn, LogAndSyncAgain, LogAndFinish, NextVersion, SyncTypes
  <2>5. steps' \in 0..MaxSteps /\ local_trigger_step' \in 1..TriggerSyncStep
    BY <1>0, <1>1 DEF OwnStep, TrainStep, TrainAndSync, EndOfSamples, WaitLastValid,
       WaitRaises, LogAndGoOn, LogAndSyncAgain, LogAndFinish, NextVersion, SyncTypes
  <2>6. /\ parallel' \in BOOLEAN /\ partial' \in BOOLEAN
        /\ rollout_version' \in Nat /\ rollout_version' <= actor_version'
    BY <1>0, <1>r, <2>1, <2>2 DEF SyncTypes, modes
  <2> QED
    BY <1>r, <2>1, <2>3, <2>4, <2>5, <2>6 DEF SyncTypes
<1>2. CASE PauseRollouter
  BY <1>0, <1>2 DEF PauseRollouter, SyncTypes, fixed, results, modes
<1>3. CASE AnnounceVersion
  <2>1. update' \in Updates
    BY <1>0, <1>3, StepsAssumption DEF AnnounceVersion, Updates
  <2>2. /\ UNCHANGED <<transferVars, modes, stage, steps, local_trigger_step, pausing,
                       rollout_version, validation, results>>
        /\ pc' \in {"log", "settle"} /\ resumed' = FALSE
    BY <1>3 DEF AnnounceVersion
  <2> QED
    BY <1>0, <2>1, <2>2 DEF SyncTypes, transferVars, fixed, results, modes, pausing
<1>4. CASE Rollouter \/ TaskPutsResult
  <2>1. UNCHANGED <<modes, trainer>> /\ actor_version' = actor_version
    BY <1>4, RollouterFacts
  <2>2. update' \in {NoUpdate} \cup Updates
    BY <1>0, <1>4, UpdateMoves DEF SyncTypes
  <2>3. /\ serving' \in BOOLEAN /\ resumed' \in BOOLEAN /\ logged' = logged
        /\ monitor' \in {"sleeping", "decided", "ended"}
    BY <1>0, <1>4 DEF Rollouter, UpdateParamVersion, Validated, PutValidate, SpawnValidation,
       SpawnRaises, ResumeRollouter, TaskPutsResult, results, pausing, SyncTypes
  <2>4. rollout_version' \in Nat /\ rollout_version' <= actor_version
    <3>1. CASE UpdateParamVersion
      <4>1. update # NoUpdate /\ rollout_version' = update.version
        BY <3>1, UpdateTypes DEF UpdateParamVersion
      <4>2. update \in Updates
        BY <1>0, <4>1 DEF SyncTypes
      <4> QED
        BY <1>0, <4>1, <4>2, UpdateTypes DEF ServingInv
    <3>2. CASE ~UpdateParamVersion
      BY <1>0, <1>4, <3>2 DEF Rollouter, Validated, PutValidate, SpawnValidation,
         SpawnRaises, ResumeRollouter, TaskPutsResult, SyncTypes
    <3> QED
      BY <3>1, <3>2
  <2>5. validation' \in {NoValidation} \cup Validations
    <3>1. CASE ValidationBegins /\ update.state # "none"
      <4>1. update \in Updates
        BY <1>0, <3>1, UpdateTypes DEF SyncTypes
      <4> QED
        BY <1>0, <3>1, <4>1, LoadedVersions, UpdateTypes DEF ValidationBegins, Validations
    <3>2. CASE ~(ValidationBegins /\ update.state # "none")
      BY <1>0, <1>4, <3>2 DEF Rollouter, UpdateParamVersion, Validated, PutValidate,
         SpawnValidation, SpawnRaises, ResumeRollouter, TaskPutsResult, SyncTypes
    <3> QED
      BY <3>1, <3>2
  <2>6. val_queue' \in Seq(Results)
    <3>1. CASE PutValidate
      <4>1. update \in Updates
        BY <1>0, <3>1, UpdateTypes DEF PutValidate, SyncTypes
      <4> DEFINE x == Result(update.version, IF validation # NoValidation /\ ~parallel
                                             THEN validation.seen ELSE {})
      <4>2. x \in Results
        <5>1. update.version \in Nat
          BY <4>1 DEF Updates
        <5>2. validation # NoValidation => validation.seen \subseteq Versions
          BY <1>0 DEF Validations, SyncTypes
        <5> QED
          BY <5>1, <5>2 DEF Result, Results
      <4>3. val_queue' = Append(val_queue, x)
        BY <3>1 DEF PutValidate
      <4> HIDE DEF x
      <4> QED
        BY <1>0, <4>2, <4>3, QueuePut DEF SyncTypes
    <3>2. CASE TaskPutsResult
      <4> DEFINE x == Result(validation.version, validation.seen)
      <4>1. validation \in Validations
        BY <1>0, <3>2 DEF TaskPutsResult, SyncTypes
      <4>2. x \in Results /\ val_queue' = Append(val_queue, x)
        BY <3>2, <4>1 DEF TaskPutsResult, Result, Results, Validations
      <4> HIDE DEF x
      <4> QED
        BY <1>0, <4>2, QueuePut DEF SyncTypes
    <3>3. CASE UpdateParamVersion \/ Validated \/ SpawnValidation \/ SpawnRaises
               \/ ResumeRollouter
      BY <1>0, <3>3 DEF UpdateParamVersion, Validated, SpawnValidation, SpawnRaises,
         ResumeRollouter, results, SyncTypes
    <3> QED
      BY <1>4, <3>1, <3>2, <3>3 DEF Rollouter
  <2> QED
    BY <1>0, <2>1, <2>2, <2>3, <2>4, <2>5, <2>6 DEF SyncTypes, trainer, modes
<1>5. ASSUME NEW r \in Ranks, Transfer(r) PROVE SyncTypes'
  <2>1. /\ UNCHANGED <<modes, trainer, pausing, rollout_version, update, resumed, results>>
        /\ actor_version' = actor_version /\ TransferInv'
    BY <1>5, TransferFacts
  <2>2. validation' \in {NoValidation} \cup Validations
    <3>1. VersionsLoaded' \subseteq Versions
      <4>1. model' \in [RolloutRanks -> [Params -> Versions]]
        BY <2>1 DEF TransferInv, TransferTypeOK
      <4> QED
        BY <4>1 DEF VersionsLoaded, Range
    <3>2. validation' = IF validation = NoValidation THEN validation
                        ELSE [validation EXCEPT !.seen = validation.seen \cup VersionsLoaded']
      BY <1>5 DEF Transfer
    <3>3. validation # NoValidation => validation \in Validations
      BY <1>0 DEF SyncTypes
    <3>4. ASSUME validation \in Validations
          PROVE  [validation EXCEPT !.seen = validation.seen \cup VersionsLoaded']
                    \in Validations
      BY <3>1, <3>4 DEF Validations
    <3> QED
      BY <3>2, <3>3, <3>4
  <2> QED
    BY <1>0, <2>1, <2>2 DEF SyncTypes, trainer, results, modes, pausing
<1>6. CASE UNCHANGED vars
  BY <1>0, <1>6 DEF vars, SyncTypes, transferVars, fixed, trainer, rollouter, results, modes,
     pausing
<1>7. CASE Monitor
  BY <1>0, <1>7, MonitorFacts DEF SyncTypes, trainer, results, modes
<1> QED
  BY <1>1, <1>2, <1>3, <1>4, <1>5, <1>6, <1>7 DEF Next, Trainer, OwnStep, Terminated

LEMMA CountKept ==
    ASSUME SyncInv, [Next]_vars PROVE CountInv'
<1>0. /\ CountInv /\ Len(val_queue) \in Nat /\ Len(logged) \in Nat /\ Due \in Nat
      /\ actor_version \in Nat /\ Announced \in Nat
      /\ update \in {NoUpdate} \cup Updates
      /\ val_queue \in Seq(Results) /\ logged \in Seq(Results)
      /\ validation \in {NoValidation} \cup Validations
  <2>1. val_queue \in Seq(Results) /\ logged \in Seq(Results) /\ actor_version \in Nat
    BY TypeFacts DEF SyncInv, SyncTypes
  <2> QED
    BY <2>1, LenProperties DEF SyncInv, SyncTypes, Due, Announced
<1>1. CASE OwnStep
  <2>1. /\ update' = update /\ validation' = validation /\ parallel' = parallel
        /\ Announced' >= Announced /\ Announced' \in Nat
    BY <1>1, OwnStepFacts DEF rollouter, modes
  <2>2. Due' = Due
    BY <2>1 DEF Due
  <2>3. Len(val_queue') + Len(logged') = Len(val_queue) + Len(logged)
    <3>1. CASE LogAndGoOn \/ LogAndSyncAgain \/ LogAndFinish
      <4>1. FetchResult
        BY <3>1 DEF LogAndGoOn, LogAndSyncAgain, LogAndFinish
      <4> QED
        BY <1>0, <4>1, QueueFetch
    <3>2. CASE TrainStep \/ TrainAndSync \/ EndOfSamples \/ WaitLastValid \/ WaitRaises
      BY <3>2 DEF TrainStep, TrainAndSync, EndOfSamples, WaitLastValid, WaitRaises, results
    <3> QED
      BY <1>1, <3>1, <3>2 DEF OwnStep
  <2> QED
    BY <1>0, <2>1, <2>2, <2>3 DEF CountInv
<1>2. CASE PauseRollouter
  <2>1. Due' = Due /\ Announced' = Announced /\ val_queue' = val_queue /\ logged' = logged
    BY <1>2 DEF PauseRollouter, Due, Announced, fixed, results, modes
  <2> QED
    BY <1>0, <2>1 DEF CountInv
<1>3. CASE AnnounceVersion
  <2>1. update.state \in {"none", "done"}
    BY <1>3 DEF AnnounceVersion, SyncInv, ServingInv, LastUpdateDone
  <2>2. /\ validation' = validation /\ parallel' = parallel /\ update'.state = "called"
        /\ val_queue' = val_queue /\ logged' = logged
        /\ Announced = actor_version /\ Announced' = actor_version + 1
    BY <1>3 DEF AnnounceVersion, transferVars, fixed, results, Announced, modes
  <2>3. Due' = Due + 1
    BY <2>1, <2>2 DEF Due
  <2> QED
    BY <1>0, <2>2, <2>3 DEF CountInv
<1>4. CASE Rollouter \/ TaskPutsResult
  <2>1. parallel' = parallel /\ Announced' = Announced
    BY <1>4, RollouterFacts DEF modes
  <2>2. SUFFICES /\ Len(val_queue') \in Nat /\ logged' = logged /\ Due' \in Nat
                 /\ Len(val_queue') + Due' <= Len(val_queue) + Due
    BY <1>0, <2>1 DEF CountInv
  <2>3. CASE PutValidate
    <3>1. update \in Updates /\ update.state = "putting"
      BY <1>0, <2>3, UpdateTypes DEF PutValidate
    <3> DEFINE x == Result(update.version, IF validation # NoValidation /\ ~parallel
                                           THEN validation.seen ELSE {})
    <3>2. /\ val_queue' = Append(val_queue, x) /\ logged' = logged
          /\ update'.state = "done"
          /\ parallel => validation' = validation
      BY <2>3, <3>1 DEF PutValidate, UpdateTo, Updates
    <3> HIDE DEF x
    <3>3. Len(val_queue') = Len(val_queue) + 1
      BY <1>0, <3>2
    <3>4. Due' = Due - 1
      BY <2>1, <3>1, <3>2 DEF Due
    <3>5. Due' \in Nat
      BY <3>2 DEF Due
    <3> QED
      BY <1>0, <3>2, <3>3, <3>4, <3>5
  <2>4. CASE TaskPutsResult
    <3> DEFINE x == Result(validation.version, validation.seen)
    <3>1. /\ val_queue' = Append(val_queue, x) /\ logged' = logged
          /\ update' = update /\ validation' = NoValidation
          /\ parallel /\ validation # NoValidation
      BY <2>4 DEF TaskPutsResult
    <3> HIDE DEF x
    <3>2. Len(val_queue') = Len(val_queue) + 1
      BY <1>0, <3>1
    <3>3. Due' = Due - 1 /\ Due' \in Nat
      BY <2>1, <3>1 DEF Due
    <3> QED
      BY <1>0, <3>1, <3>2, <3>3
  <2>5. CASE SpawnValidation
    <3>1. update \in Updates /\ update.state = "spawning" /\ validation = NoValidation
      BY <1>0, <2>5, UpdateTypes DEF SpawnValidation
    <3>2. /\ update'.state = "done" /\ val_queue' = val_queue /\ logged' = logged
      BY <2>5, <3>1 DEF SpawnValidation, UpdateTo, Updates, results
    <3>3. Due' \in Nat /\ Due' <= Due
      BY <2>1, <3>1, <3>2 DEF Due
    <3> QED
      BY <1>0, <3>2, <3>3
  <2>6. CASE SpawnRaises \/ Validated
    <3>1. update \in Updates /\ update.state \in {"spawning", "validating"}
      BY <1>0, <2>6, UpdateTypes DEF SpawnRaises, Validated
    <3>2. /\ update'.state \in {"failed", "putting"} /\ validation' = validation
          /\ val_queue' = val_queue /\ logged' = logged
      BY <2>6, <3>1 DEF SpawnRaises, Validated, UpdateTo, Updates, results
    <3>3. Due' \in Nat /\ Due' <= Due
      BY <2>1, <3>1, <3>2 DEF Due
    <3> QED
      BY <1>0, <3>2, <3>3
  <2>7. CASE UpdateParamVersion
    <3>1. update \in Updates /\ update.state = "called"
      BY <1>0, <2>7, UpdateTypes DEF UpdateParamVersion
    <3>2. /\ update'.state \in {"validating", "putting", "spawning"}
          /\ parallel => validation' = validation
          /\ val_queue' = val_queue /\ logged' = logged
      BY <2>7, <3>1 DEF UpdateParamVersion, UpdateTo, Updates, results
    <3>3. Due' = Due
      BY <2>1, <3>1, <3>2 DEF Due
    <3> QED
      BY <1>0, <3>2, <3>3
  <2>8. CASE ResumeRollouter
    <3>1. Due' = Due /\ val_queue' = val_queue /\ logged' = logged
      BY <2>1, <2>8 DEF ResumeRollouter, Due, results
    <3> QED
      BY <1>0, <3>1
  <2> QED
    BY <1>4, <2>3, <2>4, <2>5, <2>6, <2>7, <2>8 DEF Rollouter
<1>5. ASSUME NEW r \in Ranks, Transfer(r) PROVE CountInv'
  <2>1. /\ update' = update /\ parallel' = parallel /\ val_queue' = val_queue
        /\ logged' = logged /\ Announced' = Announced
    BY <1>5, TransferFacts DEF results, modes
  <2>2. validation' # NoValidation <=> validation # NoValidation
    <3>1. CASE validation = NoValidation
      BY <1>5, <3>1 DEF Transfer
    <3>2. CASE validation # NoValidation
      <4>1. /\ validation \in Validations
            /\ validation' = [validation EXCEPT !.seen = validation.seen \cup VersionsLoaded']
        BY <1>0, <1>5, <3>2 DEF Transfer
      <4>2. validation'.state = "running"
        BY <4>1 DEF Validations
      <4> QED
        BY <3>2, <4>2, UpdateTypes
    <3> QED
      BY <3>1, <3>2
  <2>3. Due' = Due
    BY <2>1, <2>2 DEF Due
  <2> QED
    BY <1>0, <2>1, <2>3 DEF CountInv
<1>6. CASE UNCHANGED vars
  <2>1. Due' = Due /\ Announced' = Announced /\ val_queue' = val_queue /\ logged' = logged
    BY <1>6 DEF vars, rollouter, trainer, results, transferVars, fixed, Due, Announced, modes
  <2> QED
    BY <1>0, <2>1 DEF CountInv
<1>7. CASE Monitor
  <2>1. Due' = Due /\ Announced' = Announced /\ val_queue' = val_queue /\ logged' = logged
    BY <1>7, MonitorFacts DEF Due, modes, results
  <2> QED
    BY <1>0, <2>1 DEF CountInv
<1> QED
  BY <1>1, <1>2, <1>3, <1>4, <1>5, <1>6, <1>7 DEF Next, Trainer, OwnStep, Terminated

LEMMA SyncBegins == Init => SyncInv
<1> SUFFICES ASSUME Init PROVE SyncInv
  OBVIOUS
<1>1. TransferInv /\ actor_version = 0
  BY TransferBegins DEF Init
<1>2. /\ parallel \in BOOLEAN /\ partial \in BOOLEAN /\ monitor = "sleeping"
      /\ stage = "boot" /\ pc = "pause" /\ steps = 0
      /\ local_trigger_step = 1 /\ serving = FALSE /\ rollout_version = 0
      /\ update = NoUpdate /\ resumed = TRUE /\ validation = NoValidation
      /\ val_queue = << >> /\ logged = << >>
  BY StepsAssumption DEF Init
<1>3. SyncTypes
  <2>1. steps \in 0..MaxSteps /\ local_trigger_step \in 1..TriggerSyncStep
    BY <1>2, StepsAssumption
  <2>2. val_queue \in Seq(Results) /\ logged \in Seq(Results)
    BY <1>2, EmptySeq
  <2>3. /\ serving \in BOOLEAN /\ resumed \in BOOLEAN /\ parallel \in BOOLEAN
        /\ partial \in BOOLEAN /\ monitor \in {"sleeping", "decided", "ended"}
    BY <1>2
  <2>4. update \in {NoUpdate} \cup Updates /\ validation \in {NoValidation} \cup Validations
    BY <1>2
  <2>5. rollout_version \in Nat /\ rollout_version <= actor_version
    BY <1>1, <1>2
  <2> QED
    BY <1>2, <2>1, <2>2, <2>3, <2>4, <2>5 DEF SyncTypes
<1>4. ServingInv
  BY <1>2, UpdateTypes DEF ServingInv, LastUpdateDone, InService
<1>5. ValidationInv
  BY <1>2, UpdateTypes DEF ValidationInv
<1>6. CountInv
  BY <1>1, <1>2, UpdateTypes DEF CountInv, Due, Announced
<1> QED
  BY <1>1, <1>3, <1>4, <1>5, <1>6 DEF SyncInv

\* The inductive invariant of the whole: the transfer, and what is
\* announced, validated and logged around it.
THEOREM SyncInvariant == Spec => []SyncInv
<1>1. SyncInv /\ [Next]_vars => SyncInv'
  BY TransferInvKept, TypesOfSyncKept, ServingKept, ValidationKept, CountKept DEF SyncInv
<1> QED
  BY <1>1, SyncBegins, PTL DEF Spec

\* Type correctness, with the bounds on versions, steps and results: a
\* version has at most one result, so that as many as there are versions
\* are queued or logged.
THEOREM TypeCorrect == Spec => []TypeOK
<1>1. ASSUME SyncInv PROVE TypeOK
  <2>1. TransferTypeOK /\ SyncTypes /\ CountInv /\ actor_version \in Nat
    BY <1>1, TypeFacts DEF SyncInv, TransferInv
  <2>2. /\ update.state \in {"none", "called", "validating", "putting", "spawning", "done",
                             "failed"}
        /\ validation.state \in {"none", "running"}
    BY <2>1, UpdateTypes DEF SyncTypes, Updates, Validations
  <2>3. Len(val_queue) + Len(logged) <= actor_version + 1
    <3>1. Len(val_queue) \in Nat /\ Len(logged) \in Nat
      BY <2>1, LenProperties DEF SyncTypes
    <3> QED
      BY <2>1, <3>1 DEF CountInv, Due, Announced
  <2>4. rollout_version \in 0..actor_version
    BY <2>1 DEF SyncTypes
  <2> QED
    BY <2>1, <2>2, <2>3, <2>4 DEF TypeOK, SyncTypes
<1> QED
  BY <1>1, SyncInvariant, PTL

\* The double buffer: a bucket that has been handed to the second thread of
\* update_weights_from_ipc_ is untouched in its half, and of the actor's
\* version, until the thread has loaded it, however the ranks interleave
\* and however many of them and of the buckets there are.
THEOREM BucketsKept == Spec => []HandedOverKept
<1>1. ASSUME SyncInv PROVE HandedOverKept
  <2>1. SUFFICES ASSUME NEW r \in Ranks, request[r].type = "load"
                 PROVE  load_buffer[r][request[r].half] =
                           [metas |-> request[r].metas, version |-> actor_version]
    BY DEF HandedOverKept
  <2>2. TransferInv
    BY <1>1 DEF SyncInv
  <2>3. /\ at[r] \notin {"idle", "lastBarrier"}
        /\ request[r].metas = MetasOf(Broadcasts[gidx[r]])
        /\ request[r].half = Half(gidx[r] - 1)
    BY <2>1, <2>2, LoadRequest
  <2>4. pc = "transfer"
    BY <2>2, <2>3, InTransfer
  <2> QED
    BY <2>1, <2>2, <2>3, <2>4, LocalParts DEF Buffered, Sent
<1> QED
  BY <1>1, SyncInvariant, PTL

\* Without parallel validation the weights a validation sees are those of
\* the version its result is labelled with: sync_weights cannot load others
\* before the update that runs _validate is over.
THEOREM ResultsPure == Spec => []ResultsOfOneVersion
<1>1. ASSUME SyncInv PROVE ResultsOfOneVersion
  <2>1. val_queue \in Seq(Results) /\ ValidationInv
    BY <1>1 DEF SyncInv, SyncTypes
  <2>2. DOMAIN val_queue = 1..Len(val_queue)
    BY <2>1, LenProperties
  <2> QED
    BY <2>1, <2>2 DEF ValidationInv, OneVersion, ResultsOfOneVersion
<1> QED
  BY <1>1, SyncInvariant, PTL

-----------------------------------------------------------------------------
\* Every step is one of WeightServing's, or changes nothing it speaks of.
LEMMA ServingStep ==
    ASSUME SyncInv, SyncInv', [Next]_vars
    PROVE  [Server!ServingNext]_<<InService, model, rollout_version>>
<1>0. ServingInv /\ TransferInv /\ TransferInv' /\ update \in {NoUpdate} \cup Updates
  BY DEF SyncInv, SyncTypes
<1> SUFFICES ASSUME ~UNCHANGED <<InService, model, rollout_version>>
             PROVE  Server!ServingNext
  OBVIOUS
<1>1. CASE OwnStep
  BY <1>1, OwnStepFacts DEF Untouched, rollouter, pausing, InService
<1>2. CASE PauseRollouter
  <2>1. Server!Pause
    BY <1>2 DEF PauseRollouter, InService, Server!Pause
  <2> QED
    BY <2>1 DEF Server!ServingNext
<1>3. CASE AnnounceVersion
  BY <1>3 DEF AnnounceVersion, transferVars, pausing, InService
<1>4. CASE UpdateParamVersion
  <2>1. update \in Updates /\ update # NoUpdate
    BY <1>0, <1>4, UpdateTypes DEF UpdateParamVersion
  <2>2. ~InService
    BY <1>0, <1>4 DEF UpdateParamVersion, ServingInv
  <2>3. rollout_version' \in Versions /\ UNCHANGED <<InService, model>>
    BY <1>4, <2>1, UpdateTypes DEF UpdateParamVersion, transferVars, Versions, pausing,
       InService
  <2>4. Server!Announce
    BY <2>2, <2>3 DEF Server!Announce
  <2> QED
    BY <2>4 DEF Server!ServingNext
<1>5. CASE ResumeRollouter
  <2>1. /\ update.state = "done" /\ ~resumed /\ InService' = TRUE
        /\ UNCHANGED <<model, rollout_version>>
    BY <1>5 DEF ResumeRollouter, transferVars, InService
  <2>2. update # NoUpdate /\ pc # "transfer"
    BY <1>0, <2>1, UpdateTypes DEF ServingInv, LastUpdateDone
  <2>3. \A r \in RolloutRanks, p \in Params : model[r][p] = rollout_version
    BY <1>0, <2>1, <2>2 DEF ServingInv
  <2>4. Server!Resume
    BY <2>1, <2>3 DEF Server!Resume
  <2> QED
    BY <2>4 DEF Server!ServingNext
<1>6. CASE Validated \/ PutValidate \/ SpawnValidation \/ SpawnRaises \/ TaskPutsResult
  BY <1>6 DEF Validated, PutValidate, SpawnValidation, SpawnRaises, TaskPutsResult, transferVars,
     pausing, InService
<1>7. ASSUME NEW r \in Ranks, Transfer(r) PROVE Server!ServingNext
  <2>1. /\ RankStep(r) /\ UNCHANGED <<InService, rollout_version>>
        /\ pc # "transfer" => model' = model
    BY <1>7, TransferFacts DEF pausing, InService
  <2>2. pc = "transfer" /\ ~InService
    BY <1>0, <2>1 DEF ServingInv
  <2>3. model' \in [RolloutRanks -> [Params -> Versions]]
    BY <1>0 DEF TransferInv, TransferTypeOK
  <2>4. TransferTypes
    BY <1>0 DEF TransferInv, TransferTypes
  <2>5. \A s \in RolloutRanks \ {r} : model'[s] = model[s]
    BY <2>1, <2>4, OthersSame, RankTypes DEF SameRank
  <2>6. r \in RolloutRanks
    <3>1. ASSUME r \notin RolloutRanks PROVE model' = model
      <4>1. \A s \in RolloutRanks : model'[s] = model[s]
        BY <2>5, <3>1
      <4>2. model \in [RolloutRanks -> [Params -> Versions]]
        BY <1>0, TypeFacts
      <4> QED
        BY <2>3, <4>1, <4>2
    <3> QED
      BY <2>1, <3>1
  <2>7. Server!Load(r)
    BY <2>1, <2>2, <2>3, <2>5 DEF Server!Load
  <2> QED
    BY <2>6, <2>7 DEF Server!ServingNext
<1>8. CASE UNCHANGED vars
  BY <1>8 DEF vars, transferVars, rollouter, pausing, InService
<1>9. CASE Monitor
  BY <1>9, MonitorFacts DEF transferVars, InService
<1> QED
  BY <1>1, <1>2, <1>3, <1>4, <1>5, <1>6, <1>7, <1>8, <1>9
     DEF Next, Trainer, Rollouter, OwnStep, Terminated

\* The refinement: pause(), the double-buffered transfer,
\* update_param_version and resume() implement WeightServing.  While the
\* rollouter serves, every rollout rank holds the announced version of every
\* parameter: always with partial rollout, whatever the monitor decides and
\* when; without it, except in a pause that a stale decision of the monitor
\* has ended, until its resume().
THEOREM ServesAnnounced == Spec => ImplementsWeightServing
<1>1. Init => Server!ServingInit
  <2>1. ASSUME Init PROVE Server!ServingInit
    <3>1. TransferInv /\ InService = FALSE /\ rollout_version = 0
      BY <2>1, TransferBegins DEF Init, InService
    <3> QED
      BY <3>1, TypeFacts DEF Server!ServingInit, Versions
  <2> QED
    BY <2>1
<1>2. SyncInv /\ SyncInv' /\ [Next]_vars => [Server!ServingNext]_(Server!servingVars)
  BY ServingStep DEF Server!servingVars
<1> QED
  BY <1>1, <1>2, SyncInvariant, PTL DEF Spec, ImplementsWeightServing, Server!ServingSpec
=============================================================================
