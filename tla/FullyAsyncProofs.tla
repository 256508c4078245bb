-------------------------- MODULE FullyAsyncProofs --------------------------
(***************************************************************************)
(* Theorems about FullyAsync for any number of samples, any batch and      *)
(* queue sizes, any number of servers' slots and of failing tasks, in      *)
(* partial and in non-partial mode.                                        *)
(*                                                                         *)
(* Inv3 holds in every instance. Its parts: the types and what each        *)
(* program counter says of the held sample (Inv1); the fill of the         *)
(* trainer's batch, the distance between the three versions and the fill   *)
(* of the queue (BatchInv, VersionInv, QueueInv); the feeder's stream      *)
(* (FeederInv); that a sample is in one place only, one beyond the         *)
(* feeder's front in none, and as many are lost as tasks raised            *)
(* (PlaceInv); and where the None of the main coroutine can be (EndInv).   *)
(* The other parts need less of it: who holds the lock (LockInv), how much *)
(* is outstanding when staleness_samples is recounted (StaleInv), how far  *)
(* the label of a sample in the queue is behind the trainer that will get  *)
(* to it (LabelInv), what is true once the processor has ended (MainInv,   *)
(* ExitInv), how much was trained (TrainedInv).                            *)
(*                                                                         *)
(* Two proofs are about one setting of the code each. Refused and          *)
(* Untouched say what the partial and the non-partial mode never do. Pace  *)
(* and CapInv are about staleness_threshold = 0, where                     *)
(* max_required_samples is what one synchronization consumes: the          *)
(* processor has taken at most one synchronization's worth per version, so *)
(* that with the trainer's account (Budget) nothing of an older version is *)
(* left when the version changes.                                          *)
(***************************************************************************)
EXTENDS FullyAsync, TLAPS, FiniteSetTheorems, SequenceTheorems

Coroutines == {"proc", "monitor", "main", "rpc"}

(* What the processor has in hand at each of its awaits.                   *)
HeldInv ==
    /\ proc \in {"submitCall", "submitLock", "submitCond"} => held \in Samples
    /\ proc \in {"drainLock", "drainWait"} =>
         /\ why = "limit" => held \in Samples
         /\ why = "done"  => held = EndSignal
         /\ why = "pause" => held = Nobody
    /\ proc \in {"loop", "get", "pauseLock", "waitCond", "waitCall", "waitLock"} =>
         held = Nobody
    /\ proc = "exited" => held = EndSignal

(* What the assumptions on the constants say of the derived sizes.         *)
LEMMA Sizes ==
    /\ TotalSamples \in Nat /\ TotalSamples >= 1
    /\ RequiredSamples \in Nat /\ RequiredSamples >= 1
    /\ TriggerSyncStep \in Nat /\ TriggerSyncStep >= 1
    /\ MaxRequiredSamples \in Nat /\ MaxRequiredSamples >= SamplesPerSync
    /\ SamplesPerSync \in Nat /\ SamplesPerSync >= 1
    /\ MaxQueueSize = MaxRequiredSamples
    /\ MaxConcurrentSamples \in Nat /\ MaxConcurrentSamples >= 1
    /\ PendingMax \in Nat /\ PendingMax >= 1
    /\ ServerSlots \in Nat /\ MaxFaults \in Nat /\ TestFreq \in Nat
<1>1. SamplesPerSync \in Nat /\ SamplesPerSync >= 1
  <2>1. \A m, n \in Nat : m >= 1 /\ n >= 1 => m * n >= 1 /\ m * n \in Nat
    OBVIOUS
  <2>2. QED
    BY <2>1, SizesAssumption DEF SamplesPerSync
<1>2. QED
  BY <1>1, SizesAssumption
  DEF SamplesPerSync, MaxQueueSize, MaxConcurrentSamples, SmallerOf

LEMMA Ends == EndSignal \notin Samples /\ Nobody \notin Samples /\ Nobody # EndSignal
              /\ Samples \subseteq Nat /\ IsFiniteSet(Samples)
<1>1. IsFiniteSet(Samples)
  BY FS_Interval, Sizes DEF Samples
<1>2. QED
  BY <1>1, Sizes DEF EndSignal, Nobody, Samples

LEMMA AppendType ==
    ASSUME NEW S, NEW q \in Seq(S), NEW m \in S
    PROVE  /\ Append(q, m) \in Seq(S)
           /\ Append(q, m) # << >>
           /\ Len(Append(q, m)) = Len(q) + 1
           /\ Range(Append(q, m)) = Range(q) \cup {m}
           /\ q # << >> => Head(Append(q, m)) = Head(q)
           /\ q = << >> => Head(Append(q, m)) = m
<1>1. /\ Append(q, m) \in Seq(S)
      /\ Len(Append(q, m)) = Len(q) + 1
      /\ \A i \in 1..Len(q) : Append(q, m)[i] = q[i]
      /\ Append(q, m)[Len(q) + 1] = m
  BY AppendProperties
<1>2. Range(Append(q, m)) = Range(q) \cup {m}
  <2>1. DOMAIN q = 1..Len(q) /\ DOMAIN Append(q, m) = 1..Len(q) + 1 /\ Len(q) \in Nat
    BY <1>1
  <2>2. QED
    BY <1>1, <2>1 DEF Range
<1>3. QED
  BY <1>1, <1>2

LEMMA TailType ==
    ASSUME NEW S, NEW q \in Seq(S), q # << >>
    PROVE  /\ Tail(q) \in Seq(S)
           /\ Head(q) \in S
           /\ Len(q) >= 1
           /\ Len(Tail(q)) = Len(q) - 1
           /\ Range(q) = {Head(q)} \cup Range(Tail(q))
           /\ \A i \in 1..Len(Tail(q)) : Tail(q)[i] = q[i + 1]
<1>1. /\ Tail(q) \in Seq(S) /\ Head(q) \in S /\ Len(q) >= 1 /\ Len(q) \in Nat
      /\ Len(Tail(q)) = Len(q) - 1
      /\ \A i \in 1..Len(Tail(q)) : Tail(q)[i] = q[i + 1]
      /\ Head(q) = q[1]
  BY HeadTailProperties
<1>2. Range(q) = {Head(q)} \cup Range(Tail(q))
  <2>1. DOMAIN q = 1..Len(q) /\ DOMAIN Tail(q) = 1..Len(q) - 1
    BY <1>1
  <2>2. \A i \in 1..Len(q) : i = 1 \/ (i - 1 \in 1..Len(q) - 1 /\ q[i] = Tail(q)[i - 1])
    BY <1>1
  <2>3. \A i \in 1..Len(q) - 1 : i + 1 \in 1..Len(q) /\ Tail(q)[i] = q[i + 1]
    BY <1>1
  <2>4. 1 \in 1..Len(q)
    BY <1>1
  <2>5. Range(q) \subseteq {Head(q)} \cup Range(Tail(q))
    <3>1. SUFFICES ASSUME NEW i \in 1..Len(q)
                   PROVE  q[i] \in {Head(q)} \cup Range(Tail(q))
      BY <2>1 DEF Range
    <3>2. CASE i = 1
      BY <3>2, <1>1
    <3>3. CASE i - 1 \in 1..Len(q) - 1 /\ q[i] = Tail(q)[i - 1]
      BY <3>3, <2>1 DEF Range
    <3>4. QED
      BY <2>2, <3>2, <3>3
  <2>6. Head(q) \in Range(q)
    BY <1>1, <2>1, <2>4 DEF Range
  <2>7. Range(Tail(q)) \subseteq Range(q)
    BY <2>1, <2>3 DEF Range
  <2>8. QED
    BY <2>5, <2>6, <2>7
<1>3. QED
  BY <1>1, <1>2

LEMMA RangeType ==
    ASSUME NEW S, NEW q \in Seq(S)
    PROVE  /\ Range(q) \subseteq S /\ IsFiniteSet(Range(q))
           /\ Cardinality(Range(q)) <= Len(q)
           /\ DOMAIN q = 1..Len(q) /\ Len(q) \in Nat
<1>1. DOMAIN q = 1..Len(q) /\ Len(q) \in Nat /\ \A i \in 1..Len(q) : q[i] \in S
  BY ElementOfSeq
<1>2. Range(q) \subseteq S
  BY <1>1 DEF Range
<1>3. q \in Surjection(1..Len(q), Range(q))
  <2>1. q \in [1..Len(q) -> Range(q)]
    BY <1>1 DEF Range
  <2>2. \A y \in Range(q) : \E i \in 1..Len(q) : q[i] = y
    BY <1>1 DEF Range
  <2>3. QED
    BY <2>1, <2>2 DEF Surjection
<1>4. IsFiniteSet(1..Len(q)) /\ Cardinality(1..Len(q)) = Len(q)
  <2>1. Len(q) \in Int /\ 1 \in Int /\ Len(q) >= 0
    BY <1>1
  <2>2. IsFiniteSet(1..Len(q)) /\ Cardinality(1..Len(q))
            = IF 1 > Len(q) THEN 0 ELSE Len(q) - 1 + 1
    BY <2>1, FS_Interval
  <2>3. QED
    BY <2>1, <2>2
<1>5. IsFiniteSet(Range(q)) /\ Cardinality(Range(q)) <= Len(q)
  <2>1. IsFiniteSet(Range(q)) /\ Cardinality(Range(q)) <= Cardinality(1..Len(q))
    BY <1>3, <1>4, FS_Surjection, Zenon
  <2>2. QED
    BY <2>1, <1>4
<1>6. QED
  BY <1>1, <1>2, <1>5

LEMMA DrainLoopCases ==
    ASSUME NEW w \in {"pause", "done", "limit"}, NEW sample, NEW n, NEW q,
           DrainLoop(w, sample, n, q)
    PROVE
      /\ why' = w
      /\ \/ /\ proc' = IF q = << >> THEN "drainWait" ELSE "drainLock"
            /\ lock' = Append(q, "proc") /\ held' = sample
            /\ generating' = generating /\ bounced' = bounced
            /\ n >= DrainLimit(w)
         \/ /\ w = "done" /\ proc' = "exited"
            /\ lock' = q /\ held' = sample
            /\ generating' = generating /\ bounced' = bounced
            /\ ~(n >= DrainLimit(w))
         \/ /\ w = "pause" /\ q = << >>
            /\ proc' = IF paused' THEN "waitCond" ELSE "loop"
            /\ lock' = q /\ held' = held
            /\ generating' = generating /\ bounced' = bounced
         \/ /\ w = "limit" /\ q = << >> /\ paused'
            /\ proc' = "submitCond" /\ lock' = q /\ held' = sample
            /\ generating' = generating /\ bounced' = bounced
         \/ /\ w = "limit" /\ q = << >> /\ ~paused' /\ servers_paused
            /\ proc' = "loop" /\ lock' = q /\ held' = Nobody
            /\ generating' = generating /\ bounced' = bounced \cup {sample}
         \/ /\ w = "limit" /\ q = << >> /\ ~paused' /\ ~servers_paused
            /\ proc' = "loop" /\ lock' = q /\ held' = Nobody
            /\ generating' = generating \cup {sample} /\ bounced' = bounced
         \/ /\ w # "done" /\ q # << >>
            /\ proc' = IF w = "pause" THEN "waitLock" ELSE "submitLock"
            /\ lock' = Append(q, "proc") /\ held' = sample
            /\ generating' = generating /\ bounced' = bounced
<1>1. why' = w
  BY DEF DrainLoop
<1>2. CASE n >= DrainLimit(w)
  BY <1>2 DEF DrainLoop
<1>3. CASE ~(n >= DrainLimit(w)) /\ w = "done"
  BY <1>3 DEF DrainLoop
<1>4. CASE ~(n >= DrainLimit(w)) /\ w = "pause" /\ q = << >>
  BY <1>4 DEF DrainLoop, WaitWhilePaused
<1>5. CASE ~(n >= DrainLimit(w)) /\ w = "limit" /\ q = << >>
  BY <1>5 DEF DrainLoop, SubmitUnlessPaused
<1>6. CASE ~(n >= DrainLimit(w)) /\ w # "done" /\ q # << >>
  BY <1>6 DEF DrainLoop
<1>7. QED
  BY <1>1, <1>2, <1>3, <1>4, <1>5, <1>6

LEMMA LockType ==
    ASSUME NEW S, lock \in Seq(S), "proc" \in S
    PROVE  /\ Released \in Seq(S)
           /\ \A q \in Seq(S) : Append(q, "proc") \in Seq(S)
           /\ \A c \in S : Append(lock, c) \in Seq(S) /\ Kept(c) \in Seq(S)
           /\ \A c \in S : Append(Released, c) \in Seq(S)
<1>1. Released \in Seq(S)
  BY TailType DEF Released
<1>2. \A q \in Seq(S), c \in S : Append(q, c) \in Seq(S)
  BY AppendType
<1>3. << >> \in Seq(S)
  OBVIOUS
<1>4. \A c \in S : <<c>> \in Seq(S)
  OBVIOUS
<1>5. QED
  BY <1>1, <1>2, <1>3, <1>4 DEF Kept

LEMMA RunningType ==
    ASSUME TypeOK
    PROVE  /\ Running \subseteq Samples /\ IsFiniteSet(Running)
           /\ Cardinality(Running) \in Nat
           /\ ActiveTasks \in Nat /\ ActiveTasks >= finished
<1>1. Running \subseteq Samples
  BY DEF TypeOK, Running
<1>2. IsFiniteSet(Running)
  BY <1>1, Ends, FS_Subset
<1>3. Cardinality(Running) \in Nat
  BY <1>2, FS_CardinalityType
<1>4. QED
  BY <1>1, <1>2, <1>3 DEF TypeOK, ActiveTasks

(* The types, and the processor's hand: inductive by itself.               *)
Inv1 == TypeOK /\ HeldInv

LEMMA TypeInit == Init => Inv1
<1>1. ASSUME Init PROVE fed \in 0..TotalSamples + 1
  BY <1>1, Sizes DEF Init, SmallerOf
<1>2. ASSUME Init PROVE pending_queue \in Seq(Samples \cup {EndSignal})
  <2>1. fed \in Nat
    BY <1>1, <1>2, Sizes
  <2>2. pending_queue = [i \in 1..fed |-> IF i <= TotalSamples THEN i ELSE EndSignal]
    BY <1>2, <2>1 DEF Init, Fed
  <2>3. pending_queue \in [1..fed -> Samples \cup {EndSignal}]
    BY <2>2, <2>1, Sizes DEF Samples
  <2>4. QED
    BY <2>1, <2>3
<1>3. ASSUME Init PROVE TypeOK
  <2>1. label \in [Samples -> Nat] /\ local_trigger_step \in 1..TriggerSyncStep
        /\ faults \in 0..MaxFaults
    BY <1>3, Sizes DEF Init
  <2>2. cancel_queue = << >> /\ lock = << >> /\ mq = << >> /\ batch = << >>
    BY <1>3 DEF Init
  <2>3. held \in Samples \cup {EndSignal, Nobody}
    BY <1>3 DEF Init
  <2>4. fed \in 0..TotalSamples + 1 /\ pending_queue \in Seq(Samples \cup {EndSignal})
    BY <1>1, <1>2, <1>3
  <2>5. /\ cancel_queue \in Seq(Samples) /\ batch \in Seq(Samples)
        /\ lock \in Seq({"proc", "monitor", "main", "rpc"})
        /\ mq \in Seq(Samples \cup {EndSignal})
    BY <2>2, EmptySeq
  <2>6. /\ paused = FALSE /\ running = TRUE /\ monitor_loop_trigger = TRUE
        /\ staleness_samples = 0 /\ proc = "loop" /\ why = "pause" /\ done_bound = FALSE
        /\ generating = {} /\ bounced = {} /\ putting = {}
        /\ finished = 0 /\ raised = 0 /\ monitor = "sleep" /\ main = "wait"
        /\ sync = "idle" /\ counted = 0 /\ servers_paused = FALSE
        /\ rollout_version = 0 /\ current_version = 0 /\ dropped = {}
        /\ trainer = "collect" /\ final = FALSE /\ trained = {} /\ discarded = {}
        /\ version = 0
    BY <1>3 DEF Init
  <2>7. QED
    BY <2>1, <2>3, <2>4, <2>5, <2>6 DEF TypeOK
<1>4. ASSUME Init PROVE HeldInv
  BY <1>4 DEF Init, HeldInv
<1>5. QED
  BY <1>3, <1>4 DEF Inv1

LEMMA TypeFeed == Inv1 /\ FeedSamples => Inv1'
<1> SUFFICES ASSUME Inv1, FeedSamples PROVE Inv1'
  OBVIOUS
<1>1. Len(pending_queue) \in Nat /\ fed \in Nat
  BY RangeType DEF Inv1, TypeOK
<1> DEFINE upto == SmallerOf(TotalSamples + 1, fed + PendingMax - Len(pending_queue))
           new == Fed(fed + 1, upto)
<1>2. upto \in fed..TotalSamples + 1
  BY <1>1, Sizes DEF FeedSamples, SmallerOf, Inv1, TypeOK
<1>3. new \in Seq(Samples \cup {EndSignal})
  <2>1. new = [i \in 1..(upto - fed) |->
                 IF fed + i <= TotalSamples THEN fed + i ELSE EndSignal]
    BY <1>1, <1>2, Sizes DEF Fed
  <2>2. new \in [1..(upto - fed) -> Samples \cup {EndSignal}]
    BY <2>1, <1>1, <1>2, Sizes DEF Samples
  <2>3. upto - fed \in Nat
    BY <1>1, <1>2, Sizes
  <2>4. QED
    BY <2>2, <2>3
<1>4. fed' = upto /\ pending_queue' = pending_queue \o new
  BY DEF FeedSamples
<1> HIDE DEF upto, new
<1>5. pending_queue' \in Seq(Samples \cup {EndSignal})
  BY <1>3, <1>4, ConcatProperties DEF Inv1, TypeOK
<1>6. fed' \in 0..TotalSamples + 1
  BY <1>1, <1>2, <1>4, Sizes
<1>7. QED
  BY <1>5, <1>6 DEF Inv1, TypeOK, HeldInv, FeedSamples, flagVars, procVars, taskVars,
     otherVars, syncVars, queueVars, trainVars

(* The processor's part of the step, wherever it goes through a draining   *)
(* loop.                                                                   *)
LEMMA TypeDrain ==
    ASSUME Inv1, NEW w \in {"pause", "done", "limit"}, NEW sample, NEW n,
           NEW q \in Seq(Coroutines), DrainLoop(w, sample, n, q),
           w = "limit" => sample \in Samples,
           w = "done" => sample = EndSignal,
           w = "pause" => sample = Nobody /\ held = Nobody
    PROVE  /\ HeldInv'
           /\ lock' \in Seq(Coroutines)
           /\ proc' \in {"loop", "drainLock", "drainWait", "waitCond", "waitLock",
                         "submitLock", "submitCond", "exited"}
           /\ why' \in {"pause", "done", "limit"}
           /\ held' \in Samples \cup {EndSignal, Nobody}
           /\ generating' \subseteq Samples /\ bounced' \subseteq Samples
<1>1. Append(q, "proc") \in Seq(Coroutines)
  BY AppendType DEF Coroutines
<1>2. generating \subseteq Samples /\ bounced \subseteq Samples
  BY DEF Inv1, TypeOK
<1>3. /\ lock' \in Seq(Coroutines)
      /\ generating' \subseteq Samples /\ bounced' \subseteq Samples
  BY <1>1, <1>2, DrainLoopCases
<1>4. /\ proc' \in {"loop", "drainLock", "drainWait", "waitCond", "waitLock",
                    "submitLock", "submitCond", "exited"}
      /\ why' \in {"pause", "done", "limit"}
  BY DrainLoopCases
<1>5. /\ held' \in Samples \cup {EndSignal, Nobody}
      /\ proc' \in {"submitLock", "submitCond"} => held' \in Samples
  BY DrainLoopCases
<1>6. proc' \in {"drainLock", "drainWait"} =>
         /\ why' = "limit" => held' \in Samples
         /\ why' = "done"  => held' = EndSignal
         /\ why' = "pause" => held' = Nobody
  BY DrainLoopCases
<1>7. /\ proc' \in {"loop", "waitCond", "waitLock"} => held' = Nobody
      /\ proc' = "exited" => held' = EndSignal
  BY DrainLoopCases
<1>8. HeldInv'
  BY <1>4, <1>5, <1>6, <1>7 DEF HeldInv
<1>9. QED
  BY <1>3, <1>4, <1>5, <1>8

LEMMA LockTyped ==
    ASSUME Inv1
    PROVE  /\ lock \in Seq(Coroutines)
           /\ Released \in Seq(Coroutines)
           /\ \A c \in Coroutines : Append(lock, c) \in Seq(Coroutines)
           /\ \A c \in Coroutines : Kept(c) \in Seq(Coroutines)
           /\ \A c \in Coroutines : Append(Released, c) \in Seq(Coroutines)
BY LockType DEF Inv1, TypeOK, Coroutines

LEMMA TypeProc == Inv1 /\ Processor => Inv1'
<1> SUFFICES ASSUME Inv1, Processor PROVE Inv1'
  OBVIOUS
<1> USE DEF procRest, vars, flagVars, feedVars, procVars, taskVars, otherVars, syncVars,
            queueVars, trainVars
<1>1. CASE ProcSeesPause
  <2>1. lock' \in Seq(Coroutines)
    BY <1>1, LockTyped DEF ProcSeesPause, Queues, Coroutines
  <2>2. QED
    BY <1>1, <2>1 DEF ProcSeesPause, Inv1, TypeOK, HeldInv, Coroutines
<1>2. CASE ProcPauses
  <2>1. held = Nobody /\ Released \in Seq(Coroutines)
    BY <1>2, LockTyped DEF ProcPauses, Acquires, Inv1, HeldInv
  <2>2. DrainLoop("pause", held, ActiveTasks, Released)
    BY <1>2 DEF ProcPauses
  <2> HIDE DEF Inv1
  <2>3. /\ HeldInv' /\ lock' \in Seq(Coroutines)
        /\ proc' \in {"loop", "drainLock", "drainWait", "waitCond", "waitLock",
                      "submitLock", "submitCond", "exited"}
        /\ why' \in {"pause", "done", "limit"}
        /\ held' \in Samples \cup {EndSignal, Nobody}
        /\ generating' \subseteq Samples /\ bounced' \subseteq Samples
    BY <2>1, <2>2, TypeDrain
  <2>4. QED
    BY <1>2, <2>3 DEF ProcPauses, Inv1, TypeOK, Coroutines
<1>3. CASE ProcDrainLocked
  <2>1. CASE ActiveTasks > 0
    <3>1. UNCHANGED <<procRest, done_bound, finished, raised, why, held, lock,
                      generating, bounced>>
      BY <1>3, <2>1 DEF ProcDrainLocked
    <3>2. proc = "drainLock" /\ proc' = "drainWait"
      BY <1>3, <2>1 DEF ProcDrainLocked, Acquires
    <3>3. QED
      BY <3>1, <3>2 DEF Inv1, TypeOK, HeldInv
  <2>2. CASE ActiveTasks = 0 /\ done_bound
    <3>1. DrainLoop(why, held, 0, Released)
      BY <1>3, <2>2 DEF ProcDrainLocked
    <3>2. /\ why = "limit" => held \in Samples
          /\ why = "done" => held = EndSignal
          /\ why = "pause" => held = Nobody
          /\ why \in {"pause", "done", "limit"} /\ Released \in Seq(Coroutines)
      BY <1>3, LockTyped DEF ProcDrainLocked, Acquires, Inv1, HeldInv, TypeOK
    <3> HIDE DEF Inv1
    <3>3. /\ HeldInv' /\ lock' \in Seq(Coroutines)
          /\ proc' \in {"loop", "drainLock", "drainWait", "waitCond", "waitLock",
                        "submitLock", "submitCond", "exited"}
          /\ why' \in {"pause", "done", "limit"}
          /\ held' \in Samples \cup {EndSignal, Nobody}
          /\ generating' \subseteq Samples /\ bounced' \subseteq Samples
      BY <3>1, <3>2, TypeDrain
    <3>4. UNCHANGED <<procRest, done_bound, finished, raised>>
      BY <1>3 DEF ProcDrainLocked
    <3>5. QED
      BY <3>3, <3>4 DEF Inv1, TypeOK, Coroutines
  <2>3. CASE ~(ActiveTasks > 0) /\ ~(ActiveTasks = 0 /\ done_bound)
    <3>1. lock' \in Seq(Coroutines) /\ proc' = "crashed"
      BY <1>3, <2>3, LockTyped DEF ProcDrainLocked
    <3>2. UNCHANGED <<procRest, done_bound, finished, raised, why, held, generating,
                      bounced>>
      BY <1>3, <2>3 DEF ProcDrainLocked
    <3>3. QED
      BY <3>1, <3>2 DEF Inv1, TypeOK, HeldInv, Coroutines
  <2>4. QED
    BY <2>1, <2>2, <2>3
<1>4. CASE ProcDrained
  <2>1. CASE raised > 0
    <3>1. lock' \in Seq(Coroutines) /\ proc' = "crashed"
      BY <1>4, <2>1, LockTyped DEF ProcDrained
    <3>2. QED
      BY <1>4, <2>1, <3>1 DEF ProcDrained, Inv1, TypeOK, HeldInv, Coroutines
  <2>2. CASE ~(raised > 0)
    <3>1. DrainLoop(why, held, Cardinality(Running), Released)
      BY <1>4, <2>2 DEF ProcDrained
    <3>2. /\ why = "limit" => held \in Samples
          /\ why = "done" => held = EndSignal
          /\ why = "pause" => held = Nobody
          /\ why \in {"pause", "done", "limit"} /\ Released \in Seq(Coroutines)
      BY <1>4, LockTyped DEF ProcDrained, Acquires, Inv1, HeldInv, TypeOK
    <3> HIDE DEF Inv1
    <3>3. /\ HeldInv' /\ lock' \in Seq(Coroutines)
          /\ proc' \in {"loop", "drainLock", "drainWait", "waitCond", "waitLock",
                        "submitLock", "submitCond", "exited"}
          /\ why' \in {"pause", "done", "limit"}
          /\ held' \in Samples \cup {EndSignal, Nobody}
          /\ generating' \subseteq Samples /\ bounced' \subseteq Samples
      BY <3>1, <3>2, TypeDrain
    <3>4. QED
      BY <1>4, <3>3 DEF ProcDrained, Inv1, TypeOK, Coroutines
  <2>3. QED
    BY <2>1, <2>2
<1>5. CASE ProcWoken
  <2>1. lock' \in Seq(Coroutines)
    BY <1>5, LockTyped DEF ProcWoken, Queues, Coroutines
  <2>2. QED
    BY <1>5, <2>1 DEF ProcWoken, Inv1, TypeOK, HeldInv, Coroutines
<1>6. CASE ProcWaits
  <2>1. lock' \in Seq(Coroutines)
    BY <1>6, LockTyped DEF ProcWaits, WaitWhilePaused
  <2>2. QED
    BY <1>6, <2>1 DEF ProcWaits, WaitWhilePaused, Acquires, Inv1, TypeOK, HeldInv,
                      Coroutines
<1>7. CASE ProcSubmits
  <2>1. lock' \in Seq(Coroutines) /\ held \in Samples
    BY <1>7, LockTyped DEF ProcSubmits, SubmitUnlessPaused, Acquires, Inv1, HeldInv
  <2>2. QED
    BY <1>7, <2>1 DEF ProcSubmits, SubmitUnlessPaused, Inv1, TypeOK, HeldInv, Coroutines
<1>8. CASE ProcTakesCancelled
  <2>1. /\ cancel_queue \in Seq(Samples) /\ cancel_queue # << >>
        /\ Head(cancel_queue) \in Samples /\ cancel_queue' \in Seq(Samples)
    BY <1>8, TailType DEF ProcTakesCancelled, Inv1, TypeOK
  <2>2. DrainLoop("limit", Head(cancel_queue), ActiveTasks, lock)
    BY <1>8 DEF ProcTakesCancelled
  <2> HIDE DEF Inv1
  <2>3. /\ HeldInv' /\ lock' \in Seq(Coroutines)
        /\ proc' \in {"loop", "drainLock", "drainWait", "waitCond", "waitLock",
                      "submitLock", "submitCond", "exited"}
        /\ why' \in {"pause", "done", "limit"}
        /\ held' \in Samples \cup {EndSignal, Nobody}
        /\ generating' \subseteq Samples /\ bounced' \subseteq Samples
    BY <2>1, <2>2, TypeDrain, LockTyped
  <2>4. QED
    BY <1>8, <2>1, <2>3 DEF ProcTakesCancelled, Inv1, TypeOK, Coroutines
<1>9. CASE ProcAwaitsPending
  BY <1>9 DEF ProcAwaitsPending, Inv1, TypeOK, HeldInv
<1>10. CASE ProcTakesPending
  <2> DEFINE next == Head(pending_queue)
             w == IF next = EndSignal THEN "done" ELSE "limit"
  <2>1. /\ next \in Samples \cup {EndSignal}
        /\ pending_queue' \in Seq(Samples \cup {EndSignal})
    BY <1>10, TailType DEF ProcTakesPending, Inv1, TypeOK
  <2>2. DrainLoop(w, next, ActiveTasks, lock)
    BY <1>10 DEF ProcTakesPending
  <2>3. /\ w \in {"pause", "done", "limit"} /\ w # "pause"
        /\ w = "limit" => next \in Samples
        /\ w = "done" => next = EndSignal
    BY <2>1
  <2> HIDE DEF Inv1, w, next
  <2>4. /\ HeldInv' /\ lock' \in Seq(Coroutines)
        /\ proc' \in {"loop", "drainLock", "drainWait", "waitCond", "waitLock",
                      "submitLock", "submitCond", "exited"}
        /\ why' \in {"pause", "done", "limit"}
        /\ held' \in Samples \cup {EndSignal, Nobody}
        /\ generating' \subseteq Samples /\ bounced' \subseteq Samples
    BY <2>2, <2>3, TypeDrain, LockTyped
  <2>5. QED
    BY <1>10, <2>1, <2>4 DEF ProcTakesPending, Inv1, TypeOK, Coroutines
<1>11. QED
  BY <1>1, <1>2, <1>3, <1>4, <1>5, <1>6, <1>7, <1>8, <1>9, <1>10 DEF Processor

(* put_sample on a queue that can hold at least one message.               *)
LEMMA PutType ==
    ASSUME NEW S, mq \in Seq(S), NEW m \in S, PutSample(m)
    PROVE  /\ mq' \in Seq(S)
           /\ \/ /\ Len(mq) < MaxQueueSize /\ mq' = Append(mq, m) /\ dropped' = dropped
              \/ /\ Len(mq) >= MaxQueueSize /\ mq # << >> /\ Head(mq) \in S
                 /\ mq' = Append(Tail(mq), m)
                 /\ dropped' = dropped \cup {Head(mq)}
<1>1. CASE Len(mq) >= MaxQueueSize
  <2>1. Len(mq) >= 1
    BY <1>1, Sizes, RangeType
  <2>2. mq # << >>
    BY <2>1, EmptySeq
  <2>3. Tail(mq) \in Seq(S) /\ Head(mq) \in S
    BY <2>2, TailType
  <2>4. QED
    BY <1>1, <2>2, <2>3, AppendType DEF PutSample
<1>2. CASE ~(Len(mq) >= MaxQueueSize)
  <2>1. Len(mq) < MaxQueueSize
    BY <1>2, Sizes, RangeType
  <2>2. QED
    BY <1>2, <2>1, AppendType DEF PutSample
<1>3. QED
  BY <1>1, <1>2

LEMMA TypeTask == Inv1 /\ (\E s \in Samples : Task(s)) => Inv1'
<1> SUFFICES ASSUME Inv1, NEW s \in Samples, Task(s) PROVE Inv1'
  OBVIOUS
<1> USE DEF procRest, vars, flagVars, feedVars, procVars, taskVars, otherVars, syncVars,
            queueVars, trainVars
<1>1. CASE TaskGenerated(s)
  BY <1>1 DEF TaskGenerated, Inv1, TypeOK, HeldInv
<1>2. CASE TaskPut(s)
  <2>1. PutSample(s) /\ mq \in Seq(Samples \cup {EndSignal})
    BY <1>2 DEF TaskPut, Inv1, TypeOK
  <2>2. mq' \in Seq(Samples \cup {EndSignal})
    BY <2>1, PutType
  <2>3. dropped' \subseteq Samples \cup {EndSignal}
    <3>1. dropped \subseteq Samples \cup {EndSignal} /\ EndSignal \in Samples \cup {EndSignal}
          /\ \A x \in Samples : x \in Samples \cup {EndSignal}
      BY DEF Inv1, TypeOK
    <3> HIDE DEF Inv1
    <3>2. QED
      BY <2>1, <3>1, PutType
  <2>4. QED
    BY <1>2, <2>2, <2>3 DEF TaskPut, Inv1, TypeOK, HeldInv
<1>3. CASE TaskReachesServer(s)
  BY <1>3 DEF TaskReachesServer, Inv1, TypeOK, HeldInv
<1>4. CASE TaskCancelled(s)
  <2>1. cancel_queue' \in Seq(Samples)
    BY <1>4, AppendType DEF TaskCancelled, Inv1, TypeOK
  <2>2. QED
    BY <1>4, <2>1 DEF TaskCancelled, Inv1, TypeOK, HeldInv
<1>5. CASE TaskRaised(s)
  BY <1>5, Sizes DEF TaskRaised, Inv1, TypeOK, HeldInv
<1>6. QED
  BY <1>1, <1>2, <1>3, <1>4, <1>5 DEF Task

(* A coroutine other than the processor may wake the processor.            *)
LEMMA TypeNotify ==
    ASSUME Inv1, NotifyAll, held' = held, why' = why
    PROVE  /\ HeldInv'
           /\ proc' \in {"loop", "get", "pauseLock", "drainLock", "drainWait",
                         "waitCall", "waitLock", "waitCond",
                         "submitCall", "submitLock", "submitCond", "exited", "crashed"}
BY DEF Inv1, TypeOK, HeldInv, NotifyAll

LEMMA TypeMonitor == Inv1 /\ Monitor => Inv1'
<1> SUFFICES ASSUME Inv1, Monitor PROVE Inv1'
  OBVIOUS
<1> USE DEF procRest, vars, flagVars, feedVars, procVars, taskVars, otherVars, syncVars,
            queueVars, trainVars
<1>1. CASE MonitorSkips
  <2>1. lock' \in Seq(Coroutines)
    BY <1>1, LockTyped, EmptySeq DEF MonitorSkips, NextRound, Coroutines
  <2>2. monitor' \in {"sleep", "topLock", "exited"}
    BY <1>1 DEF MonitorSkips, NextRound
  <2>3. QED
    BY <1>1, <2>1, <2>2 DEF MonitorSkips, Inv1, TypeOK, HeldInv, Coroutines
<1>2. CASE MonitorQueues
  <2>1. lock' \in Seq(Coroutines)
    BY <1>2, LockTyped DEF MonitorQueues, Queues, Coroutines
  <2>2. QED
    BY <1>2, <2>1 DEF MonitorQueues, Inv1, TypeOK, HeldInv, Coroutines
<1>3. CASE MonitorResumes
  <2>1. lock' \in Seq(Coroutines)
    BY <1>3, LockTyped, EmptySeq DEF MonitorResumes, NextRound, Coroutines
  <2>2. monitor' \in {"sleep", "topLock", "exited"}
    BY <1>3 DEF MonitorResumes, NextRound
  <2>3. NotifyAll /\ held' = held /\ why' = why
    BY <1>3 DEF MonitorResumes
  <2> HIDE DEF Inv1
  <2>4. /\ HeldInv'
        /\ proc' \in {"loop", "get", "pauseLock", "drainLock", "drainWait",
                      "waitCall", "waitLock", "waitCond",
                      "submitCall", "submitLock", "submitCond", "exited", "crashed"}
    BY <2>3, TypeNotify
  <2>5. TypeOK
    BY DEF Inv1
  <2>6. TypeOK'
    <3>1. paused' \in BOOLEAN
      BY <1>3 DEF MonitorResumes
    <3>2. QED
      BY <1>3, <2>1, <2>2, <2>4, <2>5, <3>1 DEF MonitorResumes, TypeOK, Coroutines
  <2>7. QED
    BY <2>4, <2>6 DEF Inv1
<1>4. CASE MonitorChecksRunning
  <2>1. lock' \in Seq(Coroutines)
    BY <1>4, LockTyped DEF MonitorChecksRunning
  <2>2. QED
    BY <1>4, <2>1 DEF MonitorChecksRunning, Inv1, TypeOK, HeldInv, Coroutines
<1>5. QED
  BY <1>1, <1>2, <1>3, <1>4 DEF Monitor

LEMMA TypeMain == Inv1 /\ Main => Inv1'
<1> SUFFICES ASSUME Inv1, Main PROVE Inv1'
  OBVIOUS
<1> USE DEF procRest, vars, flagVars, feedVars, procVars, taskVars, otherVars, syncVars,
            queueVars, trainVars
<1>1. CASE MainSendsEnd
  <2>1. PutSample(EndSignal) /\ mq \in Seq(Samples \cup {EndSignal})
    BY <1>1 DEF MainSendsEnd, Inv1, TypeOK
  <2>2. mq' \in Seq(Samples \cup {EndSignal})
    BY <2>1, PutType
  <2>3. dropped' \subseteq Samples \cup {EndSignal}
    <3>1. dropped \subseteq Samples \cup {EndSignal} /\ EndSignal \in Samples \cup {EndSignal}
          /\ \A x \in Samples : x \in Samples \cup {EndSignal}
      BY DEF Inv1, TypeOK
    <3> HIDE DEF Inv1
    <3>2. QED
      BY <2>1, <3>1, PutType
  <2>4. QED
    BY <1>1, <2>2, <2>3 DEF MainSendsEnd, Inv1, TypeOK, HeldInv
<1>2. CASE MainQueues
  <2>1. lock' \in Seq(Coroutines)
    BY <1>2, LockTyped DEF MainQueues, Queues, Coroutines
  <2>2. QED
    BY <1>2, <2>1 DEF MainQueues, Inv1, TypeOK, HeldInv, Coroutines
<1>3. CASE MainStops
  <2>1. lock' \in Seq(Coroutines)
    BY <1>3, LockTyped DEF MainStops
  <2>2. TypeOK'
    <3>1. running' \in BOOLEAN
      BY <1>3 DEF MainStops
    <3>2. QED
      BY <1>3, <2>1, <3>1 DEF MainStops, Inv1, TypeOK, Coroutines
  <2>3. HeldInv'
    BY <1>3 DEF MainStops, Inv1, HeldInv
  <2>4. QED
    BY <2>2, <2>3 DEF Inv1
<1>4. QED
  BY <1>1, <1>2, <1>3 DEF Main

LEMMA TypeSync == Inv1 /\ Sync => Inv1'
<1> SUFFICES ASSUME Inv1, Sync PROVE Inv1'
  OBVIOUS
<1> USE DEF procRest, vars, flagVars, feedVars, procVars, taskVars, otherVars, syncVars,
            queueVars, trainVars
<1>1. CASE RpcQueues
  <2>1. lock' \in Seq(Coroutines)
    BY <1>1, LockTyped DEF RpcQueues, Queues, Coroutines
  <2>2. sync' \in {"pauseLock", "updateLock", "resumeLock"}
    BY <1>1 DEF RpcQueues
  <2>3. TypeOK'
    BY <1>1, <2>1, <2>2, SMTT(60) DEF RpcQueues, Inv1, TypeOK, Coroutines
  <2>4. HeldInv'
    BY <1>1 DEF RpcQueues, Inv1, HeldInv
  <2>5. QED
    BY <2>3, <2>4 DEF Inv1
<1>2. CASE PauseBegins
  <2>1. lock' \in Seq(Coroutines)
    BY <1>2, LockTyped DEF PauseBegins, Coroutines
  <2>2. QED
    BY <1>2, <2>1, PartialRolloutAssumption
    DEF PauseBegins, ServersRefuse, Inv1, TypeOK, HeldInv, Coroutines
<1>3. CASE PauseEnds
  <2>1. lock' \in Seq(Coroutines)
    BY <1>3, LockTyped DEF PauseEnds
  <2>2. TypeOK'
    <3>1. monitor_loop_trigger' \in BOOLEAN
      BY <1>3 DEF PauseEnds
    <3>2. QED
      BY <1>3, <2>1, <3>1 DEF PauseEnds, Inv1, TypeOK, Coroutines
  <2>3. HeldInv'
    BY <1>3 DEF PauseEnds, Inv1, HeldInv
  <2>4. QED
    BY <2>2, <2>3 DEF Inv1
<1>4. CASE TransferEnds
  BY <1>4 DEF TransferEnds, Inv1, TypeOK, HeldInv
<1>5. CASE UpdateBegins
  <2>1. lock' \in Seq(Coroutines)
    BY <1>5, LockTyped DEF UpdateBegins, Coroutines
  <2>2. LocalStaleness \in Nat
    <3>1. ActiveTasks \in Nat
      BY RunningType DEF Inv1
    <3>2. Len(cancel_queue) \in Nat
      BY RangeType DEF Inv1, TypeOK
    <3>3. QED
      BY <3>1, <3>2 DEF LocalStaleness
  <2>3. QED
    BY <1>5, <2>1, <2>2 DEF UpdateBegins, NewParamVersion, Inv1, TypeOK, HeldInv, Coroutines
<1>6. CASE UpdateCounts
  <2>1. Len(mq) \in Nat
    BY RangeType DEF Inv1, TypeOK
  <2>2. QED
    BY <1>6, <2>1 DEF UpdateCounts, Inv1, TypeOK, HeldInv
<1>7. CASE UpdateEnds
  <2>1. lock' \in Seq(Coroutines)
    BY <1>7, LockTyped DEF UpdateEnds
  <2>2. QED
    BY <1>7, <2>1 DEF UpdateEnds, Inv1, TypeOK, HeldInv, Coroutines
<1>8. CASE Resume
  <2>1. lock' \in Seq(Coroutines)
    BY <1>8, LockTyped DEF Resume
  <2>2. NotifyAll /\ held' = held /\ why' = why
    BY <1>8 DEF Resume
  <2> HIDE DEF Inv1
  <2>3. /\ HeldInv'
        /\ proc' \in {"loop", "get", "pauseLock", "drainLock", "drainWait",
                      "waitCall", "waitLock", "waitCond",
                      "submitCall", "submitLock", "submitCond", "exited", "crashed"}
    BY <2>2, TypeNotify
  <2>4. TypeOK
    BY DEF Inv1
  <2>5. TypeOK'
    <3>1. paused' \in BOOLEAN /\ monitor_loop_trigger' \in BOOLEAN
          /\ servers_paused' \in BOOLEAN
      BY <1>8 DEF Resume
    <3>2. QED
      BY <1>8, <2>1, <2>3, <2>4, <3>1 DEF Resume, TypeOK, Coroutines
  <2>6. QED
    BY <2>3, <2>5 DEF Inv1
<1>9. QED
  BY <1>1, <1>2, <1>3, <1>4, <1>5, <1>6, <1>7, <1>8 DEF Sync

LEMMA TypeTrainer == Inv1 /\ Trainer => Inv1'
<1> SUFFICES ASSUME Inv1, Trainer PROVE Inv1'
  OBVIOUS
<1> USE DEF procRest, vars, flagVars, feedVars, procVars, taskVars, otherVars, syncVars,
            queueVars, trainVars
<1>1. Range(batch) \subseteq Samples
  BY RangeType DEF Inv1, TypeOK
<1>2. CASE TrainerGets
  <2>1. /\ mq' \in Seq(Samples \cup {EndSignal}) /\ Head(mq) \in Samples \cup {EndSignal}
    BY <1>2, TailType DEF TrainerGets, Inv1, TypeOK
  <2>2. batch' \in Seq(Samples)
    <3>1. batch \in Seq(Samples)
      BY DEF Inv1, TypeOK
    <3>2. CASE Head(mq) = EndSignal
      BY <1>2, <3>2, EmptySeq DEF TrainerGets
    <3>3. CASE Head(mq) # EndSignal
      <4>1. Head(mq) \in Samples /\ batch' = Append(batch, Head(mq))
        BY <1>2, <2>1, <3>3 DEF TrainerGets
      <4>2. QED
        BY <3>1, <4>1, AppendType
    <3>4. QED
      BY <3>2, <3>3
  <2>3. discarded' \subseteq Samples /\ trainer' \in {"closing", "train", "collect"}
    BY <1>1, <1>2 DEF TrainerGets, Inv1, TypeOK
  <2>4. QED
    BY <1>2, <2>1, <2>2, <2>3 DEF TrainerGets, Inv1, TypeOK, HeldInv
<1>3. CASE TrainerTrains
  <2>1. batch' \in Seq(Samples) /\ trained' \subseteq Samples
    BY <1>1, <1>3, EmptySeq DEF TrainerTrains, Inv1, TypeOK
  <2>2. local_trigger_step' \in 1..TriggerSyncStep /\ version' \in Nat
        /\ trainer' \in {"collect", "waitValid"}
    BY <1>3, Sizes DEF TrainerTrains, SyncDue, Inv1, TypeOK
  <2>3. QED
    BY <1>3, <2>1, <2>2 DEF TrainerTrains, Inv1, TypeOK, HeldInv
<1>4. CASE TrainerCloses
  <2>1. local_trigger_step' \in 1..TriggerSyncStep /\ version' \in Nat
        /\ trainer' \in {"done", "waitValid"}
    BY <1>4, Sizes DEF TrainerCloses, Inv1, TypeOK
  <2>2. QED
    BY <1>4, <2>1 DEF TrainerCloses, Inv1, TypeOK, HeldInv
<1>5. CASE TrainerSyncs
  BY <1>5 DEF TrainerSyncs, Inv1, TypeOK, HeldInv
<1>6. CASE TrainerFinishes
  BY <1>6 DEF TrainerFinishes, Inv1, TypeOK, HeldInv
<1>7. QED
  BY <1>2, <1>3, <1>4, <1>5, <1>6 DEF Trainer

LEMMA TypeStutter == Inv1 /\ UNCHANGED vars => Inv1'
BY DEF Inv1, TypeOK, HeldInv, vars, flagVars, feedVars, procVars, taskVars, otherVars,
       syncVars, queueVars, trainVars

LEMMA TypeStep == Inv1 /\ [Next]_vars => Inv1'
BY TypeFeed, TypeProc, TypeTask, TypeMonitor, TypeMain, TypeSync, TypeTrainer, TypeStutter
DEF Next, Terminated

(* Every variable keeps its type in every reachable state: the counters of *)
(* active_tasks and of staleness never go negative, the trainer's step     *)
(* counter stays within trigger_parameter_sync_step, and only samples of   *)
(* the dataset, None and DONE travel through the queues.                   *)
THEOREM Typed == Spec => []TypeOK
<1>1. Spec => []Inv1
  BY TypeInit, TypeStep, PTL DEF Spec
<1>2. Inv1 => TypeOK
  BY DEF Inv1
<1>3. QED
  BY <1>1, <1>2, PTL

-----------------------------------------------------------------------------
(* What a step of each coroutine leaves alone.                             *)
LEMMA ProcFrame ==
    Processor => UNCHANGED <<running, monitor_loop_trigger, fed, putting, faults, label,
        monitor, main, sync, counted, servers_paused, rollout_version, current_version, mq,
        dropped, trainer, final, batch, trained, discarded, local_trigger_step, version>>
<1> USE DEF procRest, flagVars, feedVars, otherVars, syncVars, queueVars, trainVars
<1>1. ASSUME ProcSeesPause \/ ProcDrainLocked \/ ProcDrained \/ ProcWoken \/ ProcWaits
             \/ ProcSubmits \/ ProcAwaitsPending
      PROVE  UNCHANGED procRest
  BY <1>1 DEF ProcSeesPause, ProcDrainLocked, ProcDrained, ProcWoken, ProcWaits, ProcSubmits,
     ProcAwaitsPending
<1>2. CASE ProcPauses
  BY <1>2 DEF ProcPauses
<1>3. CASE ProcTakesCancelled
  BY <1>3 DEF ProcTakesCancelled
<1>4. CASE ProcTakesPending
  BY <1>4 DEF ProcTakesPending
<1>5. QED
  BY <1>1, <1>2, <1>3, <1>4 DEF Processor

LEMMA MonitorFrame ==
    Monitor =>
      /\ UNCHANGED <<running, monitor_loop_trigger, feedVars, cancel_queue, staleness_samples,
                     why, held, done_bound, taskVars, main, syncVars, queueVars, trainVars>>
      /\ proc # "loop"
      /\ proc' = proc \/ NotifyAll
BY DEF Monitor, MonitorSkips, MonitorQueues, MonitorResumes, MonitorChecksRunning, flagVars,
       procVars, LoopIsFree

LEMMA MainFrame ==
    Main =>
      /\ UNCHANGED <<paused, monitor_loop_trigger, feedVars, cancel_queue, staleness_samples,
                     procVars, taskVars, monitor, syncVars, trainVars>>
      /\ proc # "loop"
BY DEF Main, MainSendsEnd, MainQueues, MainStops, flagVars, LoopIsFree

LEMMA TaskFrame ==
    (\E s \in Samples : Task(s)) =>
       UNCHANGED <<flagVars, feedVars, staleness_samples, lock, procVars, otherVars, syncVars,
                   trainVars>>
BY DEF Task, TaskGenerated, TaskPut, TaskReachesServer, TaskCancelled, TaskRaised

LEMMA SyncFrame ==
    Sync => UNCHANGED <<running, feedVars, cancel_queue, why, held, done_bound, generating,
                        bounced, putting, faults, label, otherVars, queueVars, final, batch,
                        trained, discarded, local_trigger_step, version>>
<1> USE DEF flagVars, feedVars, procVars, taskVars, otherVars, syncVars, queueVars, trainVars
<1>1. CASE RpcQueues
  BY <1>1 DEF RpcQueues
<1>2. CASE PauseBegins
  BY <1>2 DEF PauseBegins
<1>3. CASE PauseEnds
  BY <1>3 DEF PauseEnds
<1>4. CASE TransferEnds
  BY <1>4 DEF TransferEnds
<1>5. CASE UpdateBegins
  BY <1>5 DEF UpdateBegins
<1>6. CASE UpdateCounts
  BY <1>6 DEF UpdateCounts
<1>7. CASE UpdateEnds
  BY <1>7 DEF UpdateEnds
<1>8. CASE Resume
  BY <1>8 DEF Resume
<1>9. QED
  BY <1>1, <1>2, <1>3, <1>4, <1>5, <1>6, <1>7, <1>8 DEF Sync

LEMMA TrainerFrame ==
    Trainer =>
       UNCHANGED <<flagVars, feedVars, cancel_queue, staleness_samples, lock, procVars, taskVars,
                   otherVars, counted, servers_paused, rollout_version, dropped>>
<1> USE DEF flagVars, feedVars, procVars, taskVars, otherVars, syncVars, queueVars, trainVars
<1>1. CASE TrainerGets
  BY <1>1 DEF TrainerGets
<1>2. CASE TrainerTrains
  BY <1>2 DEF TrainerTrains
<1>3. CASE TrainerCloses
  BY <1>3 DEF TrainerCloses
<1>4. CASE TrainerSyncs
  BY <1>4 DEF TrainerSyncs
<1>5. CASE TrainerFinishes
  BY <1>5 DEF TrainerFinishes
<1>6. QED
  BY <1>1, <1>2, <1>3, <1>4, <1>5 DEF Trainer

(* The processor goes on with s in hand, or has submitted it.              *)
Holds(s) == held' = s /\ generating' = generating /\ bounced' = bounced
Submits(s) ==
    /\ s \in Samples
    /\ held' = Nobody
    /\ \/ ~servers_paused /\ generating' = generating \cup {s} /\ bounced' = bounced
       \/ servers_paused /\ generating' = generating /\ bounced' = bounced \cup {s}
(* The head of the loop lets it take a sample.                             *)
MayTake == proc = "loop" /\ ~paused /\ ~ShouldPauseGeneration

(* What a step of the processor does to the samples: nothing, or it holds  *)
(* or submits the sample in hand, an interrupted one, or the feeder's      *)
(* next.                                                                   *)
LEMMA ProcEffect ==
    ASSUME Inv1, Processor
    PROVE
      \/ /\ Holds(held) /\ proc # "get"
         /\ UNCHANGED <<pending_queue, cancel_queue, staleness_samples>>
      \/ /\ Submits(held) /\ proc # "get"
         /\ UNCHANGED <<pending_queue, cancel_queue, staleness_samples>>
      \/ /\ cancel_queue # << >> /\ held = Nobody /\ MayTake
         /\ Holds(Head(cancel_queue)) \/ Submits(Head(cancel_queue))
         /\ cancel_queue' = Tail(cancel_queue)
         /\ UNCHANGED <<pending_queue, staleness_samples>>
      \/ /\ pending_queue # << >> /\ held = Nobody
         /\ proc = "get" \/ (MayTake /\ cancel_queue = << >>)
         /\ Holds(Head(pending_queue)) \/ Submits(Head(pending_queue))
         /\ pending_queue' = Tail(pending_queue)
         /\ staleness_samples' = staleness_samples + 1
         /\ UNCHANGED cancel_queue
<1> USE DEF procRest, flagVars, feedVars
<1>1. CASE ProcSeesPause
  BY <1>1 DEF ProcSeesPause, Holds
<1>2. CASE ProcPauses
  <2>1. DrainLoop("pause", held, ActiveTasks, Released) /\ proc # "get"
        /\ UNCHANGED <<pending_queue, cancel_queue, staleness_samples>>
    BY <1>2 DEF ProcPauses, Acquires
  <2>2. held' = held /\ generating' = generating /\ bounced' = bounced
    BY <2>1, DrainLoopCases
  <2>3. QED
    BY <2>1, <2>2 DEF Holds
<1>3. CASE ProcDrainLocked
  <2>1. proc = "drainLock" /\ UNCHANGED <<pending_queue, cancel_queue, staleness_samples>>
    BY <1>3 DEF ProcDrainLocked, Acquires
  <2>2. CASE ~(ActiveTasks = 0 /\ done_bound)
    BY <1>3, <2>1, <2>2 DEF ProcDrainLocked, Holds
  <2>3. CASE ActiveTasks = 0 /\ done_bound
    <3>1. DrainLoop(why, held, 0, Released)
      BY <1>3, <2>3 DEF ProcDrainLocked
    <3>2. why \in {"pause", "done", "limit"} /\ (why = "limit" => held \in Samples)
      BY <2>1 DEF Inv1, TypeOK, HeldInv
    <3>3. (held' = held /\ generating' = generating /\ bounced' = bounced) \/ Submits(held)
      BY <3>1, <3>2, DrainLoopCases DEF Submits
    <3>4. QED
      BY <2>1, <3>3 DEF Holds
  <2>4. QED
    BY <2>2, <2>3
<1>4. CASE ProcDrained
  <2>1. proc = "drainWait" /\ UNCHANGED <<pending_queue, cancel_queue, staleness_samples>>
    BY <1>4 DEF ProcDrained
  <2>2. CASE raised > 0
    BY <1>4, <2>1, <2>2 DEF ProcDrained, Holds
  <2>3. CASE ~(raised > 0)
    <3>1. DrainLoop(why, held, Cardinality(Running), Released)
      BY <1>4, <2>3 DEF ProcDrained
    <3>2. why \in {"pause", "done", "limit"} /\ (why = "limit" => held \in Samples)
      BY <2>1 DEF Inv1, TypeOK, HeldInv
    <3>3. (held' = held /\ generating' = generating /\ bounced' = bounced) \/ Submits(held)
      BY <3>1, <3>2, DrainLoopCases DEF Submits
    <3>4. QED
      BY <2>1, <3>3 DEF Holds
  <2>4. QED
    BY <2>2, <2>3
<1>5. CASE ProcWoken
  BY <1>5 DEF ProcWoken, Holds
<1>6. CASE ProcWaits
  BY <1>6 DEF ProcWaits, WaitWhilePaused, Holds, Acquires
<1>7. CASE ProcSubmits
  <2>1. held \in Samples /\ proc # "get"
    BY <1>7 DEF ProcSubmits, Acquires, Inv1, HeldInv
  <2>2. QED
    BY <1>7, <2>1 DEF ProcSubmits, SubmitUnlessPaused, Holds, Submits
<1>8. CASE ProcTakesCancelled
  <2>1. /\ cancel_queue # << >> /\ held = Nobody /\ MayTake
        /\ cancel_queue' = Tail(cancel_queue)
        /\ UNCHANGED <<pending_queue, staleness_samples>>
    BY <1>8 DEF ProcTakesCancelled, MayTake, Inv1, HeldInv
  <2>2. Head(cancel_queue) \in Samples
    BY <2>1, TailType DEF Inv1, TypeOK
  <2>3. DrainLoop("limit", Head(cancel_queue), ActiveTasks, lock)
    BY <1>8 DEF ProcTakesCancelled
  <2>4. Holds(Head(cancel_queue)) \/ Submits(Head(cancel_queue))
    BY <2>2, <2>3, DrainLoopCases DEF Holds, Submits
  <2>5. QED
    BY <2>1, <2>4
<1>9. CASE ProcAwaitsPending
  BY <1>9 DEF ProcAwaitsPending, Holds
<1>10. CASE ProcTakesPending
  <2> DEFINE next == Head(pending_queue)
             w == IF next = EndSignal THEN "done" ELSE "limit"
  <2>1. /\ pending_queue # << >> /\ held = Nobody
        /\ proc = "get" \/ (MayTake /\ cancel_queue = << >>)
        /\ pending_queue' = Tail(pending_queue)
        /\ staleness_samples' = staleness_samples + 1
        /\ UNCHANGED cancel_queue
    BY <1>10 DEF ProcTakesPending, MayTake, Inv1, HeldInv
  <2>2. next \in Samples \cup {EndSignal}
    BY <2>1, TailType DEF Inv1, TypeOK
  <2>3. DrainLoop(w, next, ActiveTasks, lock)
    BY <1>10 DEF ProcTakesPending
  <2>4. w \in {"pause", "done", "limit"} /\ w # "pause" /\ (w = "limit" => next \in Samples)
    BY <2>2
  <2> HIDE DEF next, w
  <2>5. Holds(next) \/ Submits(next)
    BY <2>3, <2>4, DrainLoopCases DEF Holds, Submits
  <2>6. QED
    BY <2>1, <2>5 DEF next
<1>11. QED
  BY <1>1, <1>2, <1>3, <1>4, <1>5, <1>6, <1>7, <1>8, <1>9, <1>10 DEF Processor

-----------------------------------------------------------------------------
(* The feeder's stream.                                                    *)
Stream(n) == IF n <= TotalSamples THEN n ELSE EndSignal
Taken == fed - Len(pending_queue)

(* pending_queue is the part of the stream from the first sample not taken *)
(* to the last one fed; DONE in hand is its end.                           *)
FeederInv ==
    /\ Len(pending_queue) <= fed
    /\ \A i \in 1..Len(pending_queue) : pending_queue[i] = Stream(Taken + i)
    /\ held = EndSignal => Taken = TotalSamples + 1

LEMMA FeederTyped ==
    ASSUME Inv1, FeederInv
    PROVE  /\ fed \in Nat /\ Len(pending_queue) \in Nat /\ fed <= TotalSamples + 1
           /\ Taken \in Nat /\ Taken <= TotalSamples + 1
<1>1. fed \in 0..TotalSamples + 1 /\ Len(pending_queue) \in Nat
  BY RangeType DEF Inv1, TypeOK
<1>2. QED
  BY <1>1, Sizes DEF FeederInv, Taken

LEMMA FeederInit == Init => FeederInv
<1> SUFFICES ASSUME Init PROVE FeederInv
  OBVIOUS
<1>1. fed \in Nat /\ held # EndSignal
  BY Sizes, Ends DEF Init, SmallerOf
<1>2. pending_queue = [i \in 1..fed |-> IF i <= TotalSamples THEN i ELSE EndSignal]
  BY <1>1 DEF Init, Fed
<1>3. Len(pending_queue) = fed
  BY <1>1, <1>2
<1>4. QED
  BY <1>1, <1>2, <1>3 DEF FeederInv, Stream, Taken

LEMMA FeederFeed == Inv1 /\ FeederInv /\ FeedSamples => FeederInv' /\ Taken' = Taken
<1> SUFFICES ASSUME Inv1, FeederInv, FeedSamples PROVE FeederInv' /\ Taken' = Taken
  OBVIOUS
<1> DEFINE upto == SmallerOf(TotalSamples + 1, fed + PendingMax - Len(pending_queue))
           new == Fed(fed + 1, upto)
<1>1. fed \in Nat /\ Len(pending_queue) \in Nat /\ pending_queue \in Seq(Samples \cup {EndSignal})
  BY FeederTyped DEF Inv1, TypeOK
<1>2. upto \in Nat /\ fed <= upto /\ upto - fed \in Nat
  BY <1>1, Sizes DEF FeedSamples, SmallerOf
<1>3. new = [i \in 1..(upto - fed) |-> Stream(fed + i)]
  BY <1>1, <1>2, Sizes DEF Fed, Stream
<1>4. fed' = upto /\ pending_queue' = pending_queue \o new /\ held' = held
  BY DEF FeedSamples, procVars
<1> HIDE DEF upto, new
<1>5. Len(new) = upto - fed /\ \A i \in 1..(upto - fed) : new[i] = Stream(fed + i)
  BY <1>2, <1>3
<1>6. new \in Seq(Samples \cup {EndSignal})
  <2>1. \A i \in 1..(upto - fed) : Stream(fed + i) \in Samples \cup {EndSignal}
    BY <1>1, <1>2, Sizes DEF Stream, Samples
  <2>2. QED
    BY <1>2, <1>3, <2>1
<1>7. /\ Len(pending_queue') = Len(pending_queue) + (upto - fed)
      /\ \A i \in 1..Len(pending_queue) + (upto - fed) : pending_queue'[i] =
            IF i <= Len(pending_queue) THEN pending_queue[i] ELSE new[i - Len(pending_queue)]
  <2> DEFINE S == Samples \cup {EndSignal}
             n == upto - fed
  <2>1. pending_queue \in Seq(S) /\ new \in Seq(S) /\ Len(new) = n
    BY <1>1, <1>5, <1>6
  <2> HIDE DEF S, n
  <2>2. /\ Len(pending_queue \o new) = Len(pending_queue) + Len(new)
        /\ \A i \in 1..Len(pending_queue) + Len(new) : (pending_queue \o new)[i] =
              IF i <= Len(pending_queue) THEN pending_queue[i]
                                         ELSE new[i - Len(pending_queue)]
    BY <2>1, ConcatProperties
  <2>3. /\ Len(pending_queue') = Len(pending_queue) + n
        /\ \A i \in 1..Len(pending_queue) + n : pending_queue'[i] =
              IF i <= Len(pending_queue) THEN pending_queue[i]
                                         ELSE new[i - Len(pending_queue)]
    BY <1>4, <2>1, <2>2
  <2>4. QED
    BY <2>3 DEF n
<1>8. Taken' = Taken
  BY <1>1, <1>2, <1>4, <1>7 DEF Taken
<1>9. \A i \in 1..Len(pending_queue') : pending_queue'[i] = Stream(Taken + i)
  <2>1. SUFFICES ASSUME NEW i \in 1..Len(pending_queue')
                 PROVE  pending_queue'[i] = Stream(Taken + i)
    OBVIOUS
  <2>2. CASE i <= Len(pending_queue)
    BY <1>1, <1>2, <1>7, <2>2 DEF FeederInv
  <2>3. CASE ~(i <= Len(pending_queue))
    <3>1. i - Len(pending_queue) \in 1..(upto - fed)
      BY <1>1, <1>2, <1>7, <2>3
    <3>2. pending_queue'[i] = Stream(fed + (i - Len(pending_queue)))
      BY <1>1, <1>2, <1>5, <1>7, <2>3, <3>1
    <3>3. fed + (i - Len(pending_queue)) = Taken + i
      BY <1>1, <1>2, <1>7, <3>1 DEF Taken
    <3>4. QED
      BY <3>2, <3>3
  <2>4. QED
    BY <2>2, <2>3
<1>10. Len(pending_queue') <= fed'
  BY <1>1, <1>2, <1>4, <1>7 DEF FeederInv
<1>11. QED
  BY <1>4, <1>8, <1>9, <1>10 DEF FeederInv

(* The processor takes what the stream has next.                           *)
LEMMA FeederTake ==
    ASSUME Inv1, FeederInv, pending_queue # << >>, pending_queue' = Tail(pending_queue),
           fed' = fed
    PROVE  /\ Taken' = Taken + 1 /\ Head(pending_queue) = Stream(Taken + 1)
           /\ Taken + 1 <= TotalSamples + 1
           /\ Len(pending_queue') <= fed'
           /\ \A i \in 1..Len(pending_queue') : pending_queue'[i] = Stream(Taken' + i)
<1>1. pending_queue \in Seq(Samples \cup {EndSignal})
  BY DEF Inv1, TypeOK
<1>2. /\ Len(pending_queue) \in Nat /\ Len(pending_queue) >= 1
      /\ Len(pending_queue') = Len(pending_queue) - 1
      /\ \A i \in 1..Len(pending_queue') : pending_queue'[i] = pending_queue[i + 1]
      /\ Head(pending_queue) = pending_queue[1]
  BY <1>1, TailType, RangeType
<1>3. fed \in Nat /\ Taken \in Nat /\ fed <= TotalSamples + 1
  BY FeederTyped
<1>4. Taken' = Taken + 1 /\ Taken + 1 <= TotalSamples + 1 /\ Len(pending_queue') <= fed'
  BY <1>2, <1>3, Sizes DEF Taken, FeederInv
<1>5. Head(pending_queue) = Stream(Taken + 1)
  BY <1>2 DEF FeederInv
<1>6. ASSUME NEW i \in 1..Len(pending_queue')
      PROVE  pending_queue'[i] = Stream(Taken' + i)
  <2>1. i + 1 \in 1..Len(pending_queue)
    BY <1>2
  <2>2. pending_queue[i + 1] = Stream(Taken + (i + 1))
    BY <2>1 DEF FeederInv
  <2>3. Taken + (i + 1) = Taken' + i
    BY <1>2, <1>3, <1>4
  <2>4. QED
    BY <1>2, <2>2, <2>3
<1>7. QED
  BY <1>4, <1>5, <1>6

LEMMA FeederStep == Inv1 /\ FeederInv /\ [Next]_vars => FeederInv'
<1> SUFFICES ASSUME Inv1, FeederInv, [Next]_vars PROVE FeederInv'
  OBVIOUS
<1>1. CASE FeedSamples
  BY <1>1, FeederFeed
<1>2. CASE Processor
  <2>1. fed' = fed
    BY <1>2, ProcFrame
  <2>2. CASE (Holds(held) \/ Submits(held)) /\ pending_queue' = pending_queue
    <3>1. held' = EndSignal => held = EndSignal
      BY <2>2, Ends DEF Holds, Submits
    <3>2. QED
      BY <2>1, <2>2, <3>1 DEF FeederInv, Taken
  <2>3. CASE /\ cancel_queue # << >> /\ pending_queue' = pending_queue
             /\ Holds(Head(cancel_queue)) \/ Submits(Head(cancel_queue))
    <3>1. Head(cancel_queue) \in Samples
      BY <2>3, TailType DEF Inv1, TypeOK
    <3>2. held' # EndSignal
      BY <2>3, <3>1, Ends DEF Holds, Submits
    <3>3. QED
      BY <2>1, <2>3, <3>2 DEF FeederInv, Taken
  <2>4. CASE /\ pending_queue # << >> /\ pending_queue' = Tail(pending_queue)
             /\ Holds(Head(pending_queue)) \/ Submits(Head(pending_queue))
    <3>1. /\ Taken' = Taken + 1 /\ Head(pending_queue) = Stream(Taken + 1)
          /\ Taken + 1 <= TotalSamples + 1
          /\ Len(pending_queue') <= fed'
          /\ \A i \in 1..Len(pending_queue') : pending_queue'[i] = Stream(Taken' + i)
      BY <2>1, <2>4, FeederTake
    <3>2. held' = EndSignal => Stream(Taken + 1) = EndSignal
      BY <2>4, <3>1, Ends DEF Holds, Submits
    <3>3. Taken \in Nat
      BY FeederTyped
    <3>4. held' = EndSignal => Taken' = TotalSamples + 1
      BY <3>1, <3>2, <3>3, Sizes DEF Stream, EndSignal
    <3>5. QED
      BY <3>1, <3>4 DEF FeederInv
  <2>5. QED
    BY <1>2, <2>2, <2>3, <2>4, ProcEffect
<1>3. CASE UNCHANGED <<feedVars, held>>
  BY <1>3 DEF FeederInv, Taken, feedVars
<1>4. QED
  <2>1. Monitor \/ Main \/ Sync \/ Trainer \/ (\E s \in Samples : Task(s)) \/ UNCHANGED vars
          => UNCHANGED <<feedVars, held>>
    BY MonitorFrame, MainFrame, SyncFrame, TrainerFrame, TaskFrame
    DEF vars, procVars, feedVars
  <2>2. QED
    BY <1>1, <1>2, <1>3, <2>1 DEF Next, Terminated

-----------------------------------------------------------------------------
(* Who holds the lock.                                                     *)
LockInv ==
    /\ sync \in {"pauseGather", "updateCount", "updateReport"} =>
          lock # << >> /\ Head(lock) = "rpc"
    /\ proc = "drainWait" => lock # << >> /\ Head(lock) = "proc"

LEMMA LockOps ==
    ASSUME Inv1
    PROVE  /\ \A c \in Coroutines, q \in Seq(Coroutines) :
                 /\ Append(q, c) # << >>
                 /\ q # << >> => Head(Append(q, c)) = Head(q)
                 /\ q = << >> => Head(Append(q, c)) = c
           /\ lock = << >> => Released = << >>
           /\ \A c \in Coroutines :
                 lock = << >> \/ Head(lock) = c => Kept(c) # << >> /\ Head(Kept(c)) = c
<1>1. \A c \in Coroutines, q \in Seq(Coroutines) :
         /\ Append(q, c) # << >>
         /\ q # << >> => Head(Append(q, c)) = Head(q)
         /\ q = << >> => Head(Append(q, c)) = c
  BY AppendType
<1>2. lock = << >> => Released = << >>
  BY DEF Released
<1>3. \A c : <<c>> # << >> /\ Head(<<c>>) = c
  OBVIOUS
<1>4. QED
  BY <1>1, <1>2, <1>3 DEF Kept

(* The synchronizer's call awaits something with the lock held.            *)
RpcHolds == sync \in {"pauseGather", "updateCount", "updateReport"}

LEMMA LockDrain ==
    ASSUME Inv1, NEW w \in {"pause", "done", "limit"}, NEW sample, NEW n,
           NEW q \in Seq(Coroutines), DrainLoop(w, sample, n, q),
           RpcHolds => q # << >> /\ Head(q) = "rpc", sync' = sync
    PROVE  LockInv'
<1>1. /\ Append(q, "proc") # << >>
      /\ q # << >> => Head(Append(q, "proc")) = Head(q)
      /\ q = << >> => Head(Append(q, "proc")) = "proc"
  BY LockOps DEF Coroutines
<1>2. RpcHolds => lock' # << >> /\ Head(lock') = "rpc"
  BY <1>1, DrainLoopCases
<1>3. proc' = "drainWait" => lock' # << >> /\ Head(lock') = "proc"
  BY <1>1, DrainLoopCases
<1>4. QED
  BY <1>2, <1>3 DEF LockInv, RpcHolds

LEMMA LockProc == Inv1 /\ LockInv /\ Processor => LockInv'
<1> SUFFICES ASSUME Inv1, LockInv, Processor PROVE LockInv'
  OBVIOUS
<1>1. sync' = sync
  BY ProcFrame
<1>2. /\ lock \in Seq(Coroutines) /\ Released \in Seq(Coroutines)
      /\ Append(lock, "proc") # << >>
      /\ lock # << >> => Head(Append(lock, "proc")) = Head(lock)
  BY LockTyped, LockOps DEF Coroutines
<1>3. RpcHolds => lock # << >> /\ Head(lock) = "rpc"
  BY DEF LockInv, RpcHolds
<1>4. CASE ProcSeesPause \/ ProcWoken
  <2>1. lock # << >> /\ lock' = Append(lock, "proc") /\ proc' # "drainWait"
    BY <1>4 DEF ProcSeesPause, ProcWoken, Queues
  <2>2. QED
    BY <1>1, <1>2, <2>1 DEF LockInv
<1>5. ASSUME NEW a, NEW b, Acquires("proc", a, b) PROVE ~RpcHolds
  BY <1>3, <1>5 DEF Acquires
<1>6. CASE ProcPauses
  <2>1. DrainLoop("pause", held, ActiveTasks, Released) /\ ~RpcHolds
    BY <1>5, <1>6 DEF ProcPauses
  <2>2. QED
    BY <1>1, <1>2, <2>1, LockDrain
<1>7. CASE ProcDrainLocked
  <2>1. ~RpcHolds /\ lock # << >> /\ Head(lock) = "proc"
    BY <1>5, <1>7 DEF ProcDrainLocked, Acquires
  <2>2. CASE ActiveTasks > 0
    BY <1>1, <1>7, <2>1, <2>2 DEF ProcDrainLocked, LockInv, RpcHolds
  <2>3. CASE ActiveTasks = 0 /\ done_bound
    <3>1. DrainLoop(why, held, 0, Released)
      BY <1>7, <2>3 DEF ProcDrainLocked
    <3>2. why \in {"pause", "done", "limit"}
      BY DEF Inv1, TypeOK
    <3>3. QED
      BY <1>1, <1>2, <2>1, <3>1, <3>2, LockDrain
  <2>4. CASE ~(ActiveTasks > 0) /\ ~(ActiveTasks = 0 /\ done_bound)
    <3>1. proc' = "crashed"
      BY <1>7, <2>4 DEF ProcDrainLocked
    <3>2. QED
      BY <1>1, <2>1, <3>1 DEF LockInv, RpcHolds
  <2>5. QED
    BY <2>2, <2>3, <2>4
<1>8. CASE ProcDrained
  <2>1. ~RpcHolds
    BY <1>3, <1>8 DEF ProcDrained, LockInv
  <2>2. CASE raised > 0
    <3>1. proc' = "crashed"
      BY <1>8, <2>2 DEF ProcDrained
    <3>2. QED
      BY <1>1, <2>1, <3>1 DEF LockInv, RpcHolds
  <2>3. CASE ~(raised > 0)
    <3>1. DrainLoop(why, held, Cardinality(Running), Released)
      BY <1>8, <2>3 DEF ProcDrained
    <3>2. why \in {"pause", "done", "limit"}
      BY DEF Inv1, TypeOK
    <3>3. QED
      BY <1>1, <1>2, <2>1, <3>1, <3>2, LockDrain
  <2>4. QED
    BY <2>2, <2>3
<1>9. CASE ProcWaits \/ ProcSubmits
  <2>1. ~RpcHolds
    BY <1>5, <1>9 DEF ProcWaits, ProcSubmits
  <2>2. proc' # "drainWait"
    BY <1>9 DEF ProcWaits, ProcSubmits, WaitWhilePaused, SubmitUnlessPaused
  <2>3. QED
    BY <1>1, <2>1, <2>2 DEF LockInv, RpcHolds
<1>10. CASE ProcTakesCancelled
  <2>1. DrainLoop("limit", Head(cancel_queue), ActiveTasks, lock)
    BY <1>10 DEF ProcTakesCancelled
  <2>2. QED
    BY <1>1, <1>2, <1>3, <2>1, LockDrain
<1>11. CASE ProcAwaitsPending
  BY <1>1, <1>11 DEF ProcAwaitsPending, LockInv
<1>12. CASE ProcTakesPending
  <2> DEFINE w == IF Head(pending_queue) = EndSignal THEN "done" ELSE "limit"
  <2>1. DrainLoop(w, Head(pending_queue), ActiveTasks, lock)
    BY <1>12 DEF ProcTakesPending
  <2>2. w \in {"pause", "done", "limit"}
    OBVIOUS
  <2> HIDE DEF w
  <2>3. QED
    BY <1>1, <1>2, <1>3, <2>1, <2>2, LockDrain
<1>13. QED
  BY <1>4, <1>6, <1>7, <1>8, <1>9, <1>10, <1>11, <1>12 DEF Processor

LEMMA LockAppend ==
    ASSUME Inv1, LockInv, NEW c \in Coroutines, lock # << >>, lock' = Append(lock, c),
           RpcHolds' => RpcHolds, proc' = "drainWait" => proc = "drainWait"
    PROVE  LockInv'
<1>1. lock' # << >> /\ Head(lock') = Head(lock)
  BY LockOps, LockTyped
<1>2. QED
  BY <1>1 DEF LockInv, RpcHolds

(* c is neither the processor nor has anybody else the lock.               *)
LEMMA LockOwner ==
    ASSUME LockInv, NEW c, c # "proc", lock = << >> \/ Head(lock) = c,
           proc' = "drainWait" => proc = "drainWait",
           RpcHolds' => lock' # << >> /\ Head(lock') = "rpc"
    PROVE  LockInv'
<1>1. proc' # "drainWait"
  BY DEF LockInv
<1>2. QED
  BY <1>1 DEF LockInv, RpcHolds

LEMMA LockMonitor == Inv1 /\ LockInv /\ Monitor => LockInv'
<1> SUFFICES ASSUME Inv1, LockInv, Monitor PROVE LockInv'
  OBVIOUS
<1>1. sync' = sync /\ (proc' = "drainWait" => proc = "drainWait")
  BY MonitorFrame DEF syncVars, NotifyAll, Inv1, TypeOK
<1>2. "monitor" \in Coroutines
  BY DEF Coroutines
<1>3. CASE lock # << >> /\ lock' = Append(lock, "monitor")
  BY <1>1, <1>2, <1>3, LockAppend DEF RpcHolds
<1>4. CASE UNCHANGED <<lock, proc>>
  BY <1>1, <1>4 DEF LockInv
<1>5. CASE MonitorResumes \/ MonitorChecksRunning
  <2>1. lock = << >> \/ Head(lock) = "monitor"
    BY <1>5 DEF MonitorResumes, MonitorChecksRunning, Acquires
  <2>2. ~RpcHolds'
    BY <1>1, <2>1 DEF LockInv, RpcHolds
  <2>3. QED
    BY <1>1, <2>1, <2>2, LockOwner
<1>6. MonitorSkips \/ MonitorQueues =>
         (lock # << >> /\ lock' = Append(lock, "monitor")) \/ UNCHANGED <<lock, proc>>
  BY DEF MonitorSkips, MonitorQueues, NextRound, Queues, procVars
<1>7. QED
  BY <1>3, <1>4, <1>5, <1>6 DEF Monitor

LEMMA LockMain == Inv1 /\ LockInv /\ Main => LockInv'
<1> SUFFICES ASSUME Inv1, LockInv, Main PROVE LockInv'
  OBVIOUS
<1>1. sync' = sync /\ proc' = proc /\ (proc' = "drainWait" => proc = "drainWait")
  BY MainFrame DEF syncVars, procVars
<1>2. "main" \in Coroutines
  BY DEF Coroutines
<1>3. CASE MainSendsEnd
  BY <1>1, <1>3 DEF MainSendsEnd, LockInv
<1>4. CASE MainQueues
  BY <1>1, <1>2, <1>4, LockAppend DEF MainQueues, Queues, RpcHolds
<1>5. CASE MainStops
  <2>1. lock = << >> \/ Head(lock) = "main"
    BY <1>5 DEF MainStops, Acquires
  <2>2. ~RpcHolds'
    BY <1>1, <2>1 DEF LockInv, RpcHolds
  <2>3. QED
    BY <1>1, <2>1, <2>2, LockOwner, Zenon
<1>6. QED
  BY <1>3, <1>4, <1>5 DEF Main

LEMMA LockSync == Inv1 /\ LockInv /\ Sync => LockInv'
<1> SUFFICES ASSUME Inv1, LockInv, Sync PROVE LockInv'
  OBVIOUS
<1>1. "rpc" \in Coroutines
  BY DEF Coroutines
<1>2. CASE RpcQueues
  BY <1>1, <1>2, LockAppend DEF RpcQueues, Queues, RpcHolds, procVars
<1>3. CASE PauseBegins \/ UpdateBegins
  <2>1. (lock = << >> \/ Head(lock) = "rpc") /\ lock' = Kept("rpc") /\ proc' = proc
    BY <1>3 DEF PauseBegins, UpdateBegins, Acquires, procVars
  <2>2. lock' # << >> /\ Head(lock') = "rpc"
    BY <1>1, <2>1, LockOps
  <2>3. QED
    BY <2>1, <2>2, LockOwner
<1>4. CASE PauseEnds \/ UpdateEnds
  <2>1. Head(lock) = "rpc" /\ proc' = proc /\ sync' \in {"transfer", "resumeCall"}
    BY <1>4 DEF PauseEnds, UpdateEnds, LockInv, procVars
  <2>2. ~RpcHolds'
    BY <2>1 DEF RpcHolds
  <2>3. QED
    BY <2>1, <2>2, LockOwner
<1>5. CASE TransferEnds
  BY <1>5 DEF TransferEnds, LockInv, procVars
<1>6. CASE UpdateCounts
  BY <1>6 DEF UpdateCounts, LockInv, procVars
<1>7. CASE Resume
  <2>1. (lock = << >> \/ Head(lock) = "rpc") /\ sync' = "idle"
        /\ (proc' = "drainWait" => proc = "drainWait")
    BY <1>7 DEF Resume, Acquires, NotifyAll
  <2>2. ~RpcHolds'
    BY <2>1 DEF RpcHolds
  <2>3. QED
    BY <2>1, <2>2, LockOwner
<1>8. QED
  BY <1>2, <1>3, <1>4, <1>5, <1>6, <1>7 DEF Sync

LEMMA LockTrainer == LockInv /\ Trainer => LockInv'
<1> SUFFICES ASSUME LockInv, Trainer PROVE LockInv'
  OBVIOUS
<1>1. lock' = lock /\ proc' = proc
  BY TrainerFrame DEF procVars
<1>2. sync' = sync \/ sync' = "pauseCall"
  BY DEF Trainer, TrainerGets, TrainerTrains, TrainerCloses, TrainerSyncs, TrainerFinishes,
         syncVars
<1>3. QED
  BY <1>1, <1>2 DEF LockInv

LEMMA LockStep == Inv1 /\ LockInv /\ [Next]_vars => LockInv'
<1> SUFFICES ASSUME Inv1, LockInv, [Next]_vars PROVE LockInv'
  OBVIOUS
<1>1. FeedSamples \/ (\E s \in Samples : Task(s)) \/ UNCHANGED vars => LockInv'
  <2>1. FeedSamples \/ (\E s \in Samples : Task(s)) \/ UNCHANGED vars
           => UNCHANGED <<lock, proc, sync>>
    BY TaskFrame DEF FeedSamples, vars, procVars, syncVars
  <2>2. QED
    BY <2>1 DEF LockInv
<1>2. QED
  BY <1>1, LockProc, LockMonitor, LockMain, LockSync, LockTrainer DEF Next, Terminated

LEMMA LockInit == Init => LockInv
BY DEF Init, LockInv

-----------------------------------------------------------------------------
(* Partial mode: the servers refuse work from pause() to resume().         *)
Refused ==
    /\ sync \in {"pauseGather", "transfer", "updateCall", "updateLock", "updateCount",
                 "updateReport", "resumeCall", "resumeLock"} => servers_paused
    /\ sync = "transfer" => generating \cup putting = {}

(* What a synchronization and the trainer do to the program counter of     *)
(* sync_weights.                                                           *)
LEMMA SyncMoves ==
    ASSUME Inv1, Sync
    PROVE
      \/ /\ RpcQueues
         /\ \/ sync = "pauseCall" /\ sync' = "pauseLock"
            \/ sync = "updateCall" /\ sync' = "updateLock"
            \/ sync = "resumeCall" /\ sync' = "resumeLock"
      \/ PauseBegins /\ sync \in {"pauseCall", "pauseLock"} /\ sync' = "pauseGather"
      \/ PauseEnds /\ sync = "pauseGather" /\ sync' = "transfer"
      \/ TransferEnds /\ sync = "transfer" /\ sync' = "updateCall"
      \/ UpdateBegins /\ sync \in {"updateCall", "updateLock"} /\ sync' = "updateCount"
      \/ UpdateCounts /\ sync = "updateCount" /\ sync' = "updateReport"
      \/ UpdateEnds /\ sync = "updateReport" /\ sync' = "resumeCall"
      \/ Resume /\ sync \in {"resumeCall", "resumeLock"} /\ sync' = "idle"
<1>1. CASE RpcQueues
  BY <1>1 DEF RpcQueues
<1>2. CASE ~RpcQueues
  BY <1>2 DEF Sync, PauseBegins, PauseEnds, TransferEnds, UpdateBegins, UpdateCounts, UpdateEnds,
     Resume, Acquires
<1>3. QED
  BY <1>1, <1>2

LEMMA TrainerMoves ==
    ASSUME Trainer
    PROVE  \/ TrainerSyncs /\ sync = "idle" /\ sync' = "pauseCall"
           \/ ~TrainerSyncs /\ sync' = sync
BY DEF Trainer, TrainerGets, TrainerTrains, TrainerCloses, TrainerSyncs, TrainerFinishes,
       syncVars, LastSyncDone

LEMMA RefusedInit == Init => Refused
BY DEF Init, Refused

LEMMA RefusedStep == PartialRollout /\ Inv1 /\ Refused /\ [Next]_vars => Refused'
<1> SUFFICES ASSUME PartialRollout, Inv1, Refused, [Next]_vars PROVE Refused'
  OBVIOUS
<1>1. CASE UNCHANGED <<sync, servers_paused, generating, putting>>
  BY <1>1 DEF Refused
<1>2. CASE Processor
  <2>1. UNCHANGED <<sync, servers_paused, putting>>
    BY <1>2, ProcFrame
  <2>2. servers_paused => generating' = generating
    BY <1>2, ProcEffect DEF Holds, Submits
  <2>3. QED
    BY <2>1, <2>2 DEF Refused
<1>3. CASE \E s \in Samples : Task(s)
  <2>1. sync' = sync /\ servers_paused' = servers_paused
    BY <1>3, TaskFrame DEF syncVars
  <2>2. servers_paused /\ generating \cup putting = {} => generating' \cup putting' = {}
    BY <1>3 DEF Task, TaskGenerated, TaskPut, TaskReachesServer, TaskCancelled, TaskRaised
  <2>3. QED
    BY <2>1, <2>2 DEF Refused
<1>4. CASE Sync
  <2>1. generating' = generating /\ putting' = putting
    BY <1>4, SyncFrame
  <2>2. CASE RpcQueues
    BY <1>4, <2>1, <2>2 DEF RpcQueues, Refused
  <2>3. CASE PauseBegins
    BY <2>1, <2>3 DEF PauseBegins, Refused, ServersRefuse
  <2>4. CASE PauseEnds
    BY <2>1, <2>4 DEF PauseEnds, Refused, Running
  <2>5. CASE TransferEnds
    BY <2>1, <2>5 DEF TransferEnds, Refused
  <2>6. CASE UpdateBegins
    BY <2>1, <2>6 DEF UpdateBegins, Refused, Acquires
  <2>7. CASE UpdateCounts
    BY <2>1, <2>7 DEF UpdateCounts, Refused
  <2>8. CASE UpdateEnds
    BY <2>1, <2>8 DEF UpdateEnds, Refused
  <2>9. CASE Resume
    BY <2>1, <2>9 DEF Resume, Refused
  <2>10. QED
    BY <1>4, <2>2, <2>3, <2>4, <2>5, <2>6, <2>7, <2>8, <2>9 DEF Sync
<1>5. CASE Trainer
  <2>1. UNCHANGED <<servers_paused, generating, putting>>
    BY <1>5, TrainerFrame DEF taskVars
  <2>2. QED
    BY <1>5, <2>1, TrainerMoves DEF Refused
<1>6. FeedSamples \/ Monitor \/ Main \/ UNCHANGED vars
         => UNCHANGED <<sync, servers_paused, generating, putting>>
  BY MonitorFrame, MainFrame DEF FeedSamples, vars, syncVars, taskVars
<1>7. QED
  BY <1>1, <1>2, <1>3, <1>4, <1>5, <1>6 DEF Next, Terminated

(* In partial mode no sample is in generation while weights are            *)
(* transferred: pause() makes the servers refuse work and waits for the    *)
(* running tasks, and whatever the processor submits before resume() only  *)
(* comes back interrupted.                                                 *)
THEOREM TransfersInQuiet ==
    ASSUME PartialRollout
    PROVE  Spec => []NoTransferWhileGenerating
<1>1. Init => Inv1 /\ Refused
  BY TypeInit, RefusedInit
<1>2. Inv1 /\ Refused /\ [Next]_vars => (Inv1 /\ Refused)'
  BY TypeStep, RefusedStep
<1>3. Inv1 /\ Refused => NoTransferWhileGenerating
  BY DEF Refused, NoTransferWhileGenerating
<1>4. QED
  BY <1>1, <1>2, <1>3, PTL DEF Spec

-----------------------------------------------------------------------------
(* How much is outstanding.                                                *)
Working == Running \cup Range(cancel_queue)

(* staleness_samples counts all that is outstanding, but for the one       *)
(* sample the processor may have in hand when it is recounted.             *)
StaleInv ==
    /\ Cardinality(Outstanding) <= staleness_samples + 1
    /\ Cardinality(Outstanding) <= MaxRequiredSamples + 1
    /\ proc = "get" => Cardinality(Outstanding) <= MaxRequiredSamples
    /\ sync = "updateCount" => Cardinality(Working) <= counted
    /\ RpcHolds => proc # "loop"

LEMMA OutstandingType ==
    ASSUME Inv1
    PROVE  /\ Outstanding \subseteq Samples /\ IsFiniteSet(Outstanding)
           /\ Cardinality(Outstanding) \in Nat
           /\ Working \subseteq Samples /\ IsFiniteSet(Working) /\ Cardinality(Working) \in Nat
<1>1. Running \subseteq Samples /\ Range(cancel_queue) \subseteq Samples
  BY RunningType, RangeType DEF Inv1, TypeOK
<1>2. Outstanding \subseteq Samples /\ Working \subseteq Samples
  BY <1>1 DEF Outstanding, Working
<1>3. QED
  BY <1>2, Ends, FS_Subset, FS_CardinalityType

(* Fewer samples.                                                          *)
LEMMA FewerSamples ==
    ASSUME NEW S \in SUBSET Samples, NEW T \in SUBSET S
    PROVE  Cardinality(T) <= Cardinality(S) /\ Cardinality(T) \in Nat /\ Cardinality(S) \in Nat
<1>1. IsFiniteSet(S)
  BY Ends, FS_Subset
<1>2. QED
  BY <1>1, FS_Subset, FS_CardinalityType

(* Cardinalities of subsets, and of sets with one element more.            *)
LEMMA OneMore ==
    ASSUME NEW S \in SUBSET Samples, NEW x, NEW T \in SUBSET (S \cup {x})
    PROVE  Cardinality(T) <= Cardinality(S) + 1 /\ Cardinality(T) \in Nat /\ Cardinality(S) \in Nat
<1>1. IsFiniteSet(S)
  BY Ends, FS_Subset
<1>2. IsFiniteSet(S \cup {x}) /\ Cardinality(S) \in Nat
      /\ (Cardinality(S \cup {x}) = Cardinality(S) \/ Cardinality(S \cup {x}) = Cardinality(S) + 1)
  BY <1>1, FS_AddElement, FS_CardinalityType
<1>3. Cardinality(T) <= Cardinality(S \cup {x}) /\ Cardinality(T) \in Nat
  BY <1>2, FS_Subset, FS_CardinalityType
<1>4. QED
  BY <1>2, <1>3

LEMMA PutRange ==
    ASSUME NEW S, mq \in Seq(S), NEW m \in S, PutSample(m)
    PROVE  Range(mq') \subseteq Range(mq) \cup {m}
<1>1. CASE mq' = Append(mq, m)
  BY <1>1, AppendType
<1>2. CASE mq # << >> /\ mq' = Append(Tail(mq), m)
  <2>1. Tail(mq) \in Seq(S) /\ Range(Tail(mq)) \subseteq Range(mq)
    BY <1>2, TailType
  <2>2. \A q \in Seq(S) : Range(Append(q, m)) = Range(q) \cup {m}
    BY AppendType
  <2>3. Range(mq') = Range(Tail(mq)) \cup {m}
    BY <1>2, <2>1, <2>2, Zenon
  <2>4. QED
    BY <2>1, <2>3
<1>3. QED
  BY <1>1, <1>2, PutType

(* Only the processor adds to what is outstanding.                         *)
LEMMA OthersFinish ==
    ASSUME Inv1, FeedSamples \/ Monitor \/ Main \/ Sync \/ Trainer \/ UNCHANGED vars
                   \/ (\E s \in Samples : Task(s))
    PROVE  Outstanding' \subseteq Outstanding /\ Working' \subseteq Working
<1>0. mq \in Seq(Samples \cup {EndSignal}) /\ EndSignal \notin Samples
  BY Ends DEF Inv1, TypeOK
<1>1. CASE FeedSamples \/ Monitor \/ Sync \/ UNCHANGED vars
  <2>1. UNCHANGED <<generating, bounced, putting, cancel_queue, mq, held>>
    BY <1>1, MonitorFrame, SyncFrame
    DEF FeedSamples, vars, taskVars, procVars, queueVars
  <2>2. QED
    BY <2>1 DEF Outstanding, Working, Running
<1>2. CASE Main
  <2>1. UNCHANGED <<generating, bounced, putting, cancel_queue, held>>
    BY <1>2, MainFrame DEF taskVars, procVars
  <2>2. Range(mq') \subseteq Range(mq) \cup {EndSignal}
    <3>1. CASE MainSendsEnd
      BY <1>0, <3>1, PutRange DEF MainSendsEnd
    <3>2. CASE MainQueues \/ MainStops
      BY <3>2 DEF MainQueues, MainStops, queueVars
    <3>3. QED
      BY <1>2, <3>1, <3>2 DEF Main
  <2>3. QED
    BY <1>0, <2>1, <2>2 DEF Outstanding, Working, Running
<1>3. CASE Trainer
  <2>1. UNCHANGED <<generating, bounced, putting, cancel_queue, held>>
    BY <1>3, TrainerFrame DEF taskVars, procVars
  <2>2. Range(mq') \subseteq Range(mq)
    <3>1. CASE TrainerGets
      BY <1>0, <3>1, TailType DEF TrainerGets
    <3>2. CASE ~TrainerGets
      BY <1>3, <3>2 DEF Trainer, TrainerTrains, TrainerCloses, TrainerSyncs, TrainerFinishes,
         queueVars
    <3>3. QED
      BY <3>1, <3>2
  <2>3. QED
    BY <2>1, <2>2 DEF Outstanding, Working, Running
<1>4. CASE \E s \in Samples : Task(s)
  <2>1. PICK s \in Samples : Task(s)
    BY <1>4
  <2>2. held' = held
    BY <1>4, TaskFrame DEF procVars
  <2>3. CASE TaskGenerated(s) \/ TaskReachesServer(s) \/ TaskRaised(s)
    <3>1. Running' \subseteq Running /\ mq' = mq /\ cancel_queue' = cancel_queue
      BY <2>3 DEF TaskGenerated, TaskReachesServer, TaskRaised, Running, queueVars
    <3>2. QED
      BY <2>2, <3>1 DEF Outstanding, Working
  <2>4. CASE TaskPut(s)
    <3>1. /\ Running' \subseteq Running /\ cancel_queue' = cancel_queue /\ s \in Running
          /\ PutSample(s)
      BY <2>4 DEF TaskPut, Running
    <3>2. Range(mq') \subseteq Range(mq) \cup {s}
      BY <1>0, <3>1, PutRange
    <3>3. QED
      BY <2>2, <3>1, <3>2 DEF Outstanding, Working
  <2>5. CASE TaskCancelled(s)
    <3>1. /\ Running' \subseteq Running /\ mq' = mq /\ s \in Running
          /\ cancel_queue' = Append(cancel_queue, s)
      BY <2>5 DEF TaskCancelled, Running, queueVars
    <3>2. Range(cancel_queue') = Range(cancel_queue) \cup {s}
      BY <3>1, AppendType DEF Inv1, TypeOK
    <3>3. QED
      BY <2>2, <3>1, <3>2 DEF Outstanding, Working
  <2>6. QED
    BY <2>1, <2>3, <2>4, <2>5 DEF Task
<1>5. QED
  BY <1>1, <1>2, <1>3, <1>4

(* The processor adds at most the sample it takes from the feeder.         *)
LEMMA ProcAdds ==
    ASSUME Inv1, Processor
    PROVE  \/ /\ Outstanding' \subseteq Outstanding
              /\ UNCHANGED <<pending_queue, staleness_samples>>
           \/ /\ pending_queue # << >>
              /\ pending_queue' = Tail(pending_queue)
              /\ Outstanding' \subseteq Outstanding \cup {Head(pending_queue)}
              /\ staleness_samples' = staleness_samples + 1
              /\ proc = "get" \/ MayTake
<1>1. mq' = mq /\ putting' = putting
  BY ProcFrame
<1>2. CASE /\ Holds(held) \/ Submits(held)
           /\ UNCHANGED <<pending_queue, cancel_queue, staleness_samples>>
  <2>1. Outstanding' \subseteq Outstanding
    BY <1>1, <1>2, Ends DEF Outstanding, Running, Holds, Submits
  <2>2. QED
    BY <1>2, <2>1
<1>3. CASE /\ cancel_queue # << >> /\ held = Nobody
           /\ Holds(Head(cancel_queue)) \/ Submits(Head(cancel_queue))
           /\ cancel_queue' = Tail(cancel_queue)
           /\ UNCHANGED <<pending_queue, staleness_samples>>
  <2>1. Range(cancel_queue) = {Head(cancel_queue)} \cup Range(cancel_queue')
        /\ Head(cancel_queue) \in Samples
    BY <1>3, TailType DEF Inv1, TypeOK
  <2>2. Outstanding' \subseteq Outstanding
    BY <1>1, <1>3, <2>1, Ends DEF Outstanding, Running, Holds, Submits
  <2>3. QED
    BY <1>3, <2>2
<1>4. CASE /\ pending_queue # << >> /\ held = Nobody
           /\ proc = "get" \/ (MayTake /\ cancel_queue = << >>)
           /\ Holds(Head(pending_queue)) \/ Submits(Head(pending_queue))
           /\ pending_queue' = Tail(pending_queue)
           /\ staleness_samples' = staleness_samples + 1
           /\ UNCHANGED cancel_queue
  <2>1. Outstanding' \subseteq Outstanding \cup {Head(pending_queue)}
    BY <1>1, <1>4, Ends DEF Outstanding, Running, Holds, Submits
  <2>2. QED
    BY <1>4, <2>1
<1>5. QED
  BY <1>2, <1>3, <1>4, ProcEffect

(* While a call of the synchronizer has the lock, the processor starts     *)
(* nothing and takes nothing from cancel_queue.                            *)
LEMMA ProcBlocked ==
    ASSUME Inv1, LockInv, RpcHolds, proc # "loop", Processor
    PROVE  /\ proc' # "loop"
           /\ UNCHANGED <<generating, bounced, cancel_queue>>
           /\ proc = "get" \/ held' = held
<1>1. lock # << >> /\ Head(lock) # "proc" /\ proc # "drainWait"
  BY DEF LockInv, RpcHolds
<1>2. ASSUME NEW a, NEW b, Acquires("proc", a, b) PROVE FALSE
  BY <1>1, <1>2 DEF Acquires
<1>3. ProcWoken \/ (ProcTakesPending /\ proc = "get")
  BY <1>1, <1>2 DEF Processor, ProcSeesPause, ProcPauses, ProcDrainLocked, ProcDrained, ProcWaits,
     ProcSubmits, ProcTakesCancelled, ProcAwaitsPending, ProcTakesPending
<1>4. CASE ProcWoken
  BY <1>4 DEF ProcWoken, procRest
<1>5. CASE ProcTakesPending /\ proc = "get"
  <2> DEFINE w == IF Head(pending_queue) = EndSignal THEN "done" ELSE "limit"
  <2>1. DrainLoop(w, Head(pending_queue), ActiveTasks, lock) /\ cancel_queue' = cancel_queue
    BY <1>5 DEF ProcTakesPending
  <2>2. w \in {"pause", "done", "limit"}
    OBVIOUS
  <2> HIDE DEF w
  <2>3. proc' # "loop" /\ UNCHANGED <<generating, bounced>>
    BY <1>1, <2>1, <2>2, DrainLoopCases
  <2>4. QED
    BY <1>5, <2>1, <2>3
<1>6. QED
  BY <1>3, <1>4, <1>5

(* The processor waits for the feeder only after looking at the limits.    *)
LEMMA ProcAwaits ==
    ASSUME Inv1, Processor
    PROVE  proc' = "get" =>
              /\ MayTake /\ pending_queue = << >>
              /\ UNCHANGED <<held, generating, bounced, pending_queue, cancel_queue,
                             staleness_samples>>
<1> SUFFICES ASSUME proc' = "get"
             PROVE  /\ MayTake /\ pending_queue = << >>
                    /\ UNCHANGED <<held, generating, bounced, pending_queue, cancel_queue,
                                   staleness_samples>>
  OBVIOUS
<1>1. ASSUME NEW w \in {"pause", "done", "limit"}, NEW s, NEW n, NEW q, DrainLoop(w, s, n, q)
      PROVE  FALSE
  BY <1>1, DrainLoopCases
<1>2. why \in {"pause", "done", "limit"}
  BY DEF Inv1, TypeOK
<1>3. ~ProcPauses /\ ~ProcDrained /\ ~ProcDrainLocked
  BY <1>1, <1>2 DEF ProcPauses, ProcDrained, ProcDrainLocked
<1>4. ~ProcTakesCancelled /\ ~ProcTakesPending
  BY <1>1 DEF ProcTakesCancelled, ProcTakesPending
<1>5. ~ProcSeesPause /\ ~ProcWoken /\ ~ProcWaits /\ ~ProcSubmits
  BY DEF ProcSeesPause, ProcWoken, ProcWaits, ProcSubmits, WaitWhilePaused, SubmitUnlessPaused
<1>6. ProcAwaitsPending
  BY <1>3, <1>4, <1>5 DEF Processor
<1>7. QED
  BY <1>6 DEF ProcAwaitsPending, MayTake, procRest, feedVars

LEMMA StaleInit == Init => StaleInv
<1> SUFFICES ASSUME Init PROVE StaleInv
  OBVIOUS
<1>1. Outstanding = {}
  BY Ends DEF Init, Outstanding, Running, Range
<1>2. Cardinality(Outstanding) = 0
  BY <1>1, FS_EmptySet
<1>3. QED
  BY <1>2, Sizes DEF Init, StaleInv, RpcHolds

LEMMA StaleProc == Inv1 /\ LockInv /\ StaleInv /\ Processor => StaleInv'
<1> SUFFICES ASSUME Inv1, LockInv, StaleInv, Processor PROVE StaleInv'
  OBVIOUS
<1> DEFINE n == Cardinality(Outstanding)
           nn == Cardinality(Outstanding')
<1>1. /\ Outstanding \subseteq Samples /\ n \in Nat /\ staleness_samples \in Nat
      /\ MaxRequiredSamples \in Nat /\ Working \subseteq Samples
  BY OutstandingType, Sizes DEF Inv1, TypeOK
<1>2. sync' = sync /\ counted' = counted /\ mq' = mq /\ putting' = putting
  BY ProcFrame
<1>3. RpcHolds => proc' # "loop" /\ Working' = Working
  <2>1. RpcHolds => proc' # "loop" /\ UNCHANGED <<generating, bounced, cancel_queue>>
    BY ProcBlocked DEF StaleInv
  <2>2. QED
    BY <1>2, <2>1 DEF Working, Running
<1>4. /\ sync' = "updateCount" => Cardinality(Working') <= counted'
      /\ RpcHolds' => proc' # "loop"
  BY <1>2, <1>3 DEF StaleInv, RpcHolds
<1>5. /\ nn <= staleness_samples' + 1 /\ nn <= MaxRequiredSamples + 1
  <2>1. CASE Outstanding' \subseteq Outstanding /\ staleness_samples' = staleness_samples
    <3>1. nn <= n /\ nn \in Nat
      BY <1>1, <2>1, FewerSamples
    <3>2. QED
      BY <1>1, <2>1, <3>1 DEF StaleInv
  <2>2. CASE /\ Outstanding' \subseteq Outstanding \cup {Head(pending_queue)}
             /\ staleness_samples' = staleness_samples + 1
             /\ proc = "get" \/ MayTake
    <3>1. nn <= n + 1 /\ nn \in Nat
      BY <1>1, <2>2, OneMore
    <3>2. n <= staleness_samples + 1 /\ n <= MaxRequiredSamples
      BY <1>1, <2>2 DEF StaleInv, MayTake, ShouldPauseGeneration
    <3>3. QED
      BY <1>1, <2>2, <3>1, <3>2
  <2>3. QED
    BY <2>1, <2>2, ProcAdds
<1>6. proc' = "get" => nn <= MaxRequiredSamples
  <2>1. SUFFICES ASSUME proc' = "get" PROVE nn <= MaxRequiredSamples
    OBVIOUS
  <2>2. MayTake /\ UNCHANGED <<held, generating, bounced, cancel_queue>>
    BY <2>1, ProcAwaits
  <2>3. Outstanding' = Outstanding
    BY <1>2, <2>2 DEF Outstanding, Running
  <2>4. n <= MaxRequiredSamples
    BY <1>1, <2>2 DEF StaleInv, MayTake, ShouldPauseGeneration
  <2>5. QED
    BY <2>3, <2>4
<1>7. QED
  BY <1>4, <1>5, <1>6 DEF StaleInv

(* update_param_version counts everything but the sample in the hand of    *)
(* the processor.                                                          *)
LEMMA CountsEnough ==
    ASSUME Inv1, StaleInv, sync = "updateCount"
    PROVE  Cardinality(Outstanding) <= counted + Len(mq) + 1
<1>1. /\ Working \subseteq Samples /\ IsFiniteSet(Working) /\ Cardinality(Working) <= counted
      /\ Cardinality(Working) \in Nat /\ counted \in Nat
  BY OutstandingType DEF StaleInv, Inv1, TypeOK
<1>2. mq \in Seq(Samples \cup {EndSignal}) /\ Len(mq) \in Nat
      /\ IsFiniteSet(Range(mq)) /\ Cardinality(Range(mq)) <= Len(mq)
  BY RangeType DEF Inv1, TypeOK
<1>3. /\ IsFiniteSet(Working \cup Range(mq))
      /\ Cardinality(Working \cup Range(mq)) <= Cardinality(Working) + Cardinality(Range(mq))
  <2>1. /\ IsFiniteSet(Working \cup Range(mq)) /\ IsFiniteSet(Working \cap Range(mq))
        /\ Cardinality(Working \cup Range(mq))
             = Cardinality(Working) + Cardinality(Range(mq)) - Cardinality(Working \cap Range(mq))
    BY <1>1, <1>2, FS_Union, FS_Intersection
  <2>2. Cardinality(Working \cap Range(mq)) \in Nat /\ Cardinality(Range(mq)) \in Nat
    BY <1>2, <2>1, FS_CardinalityType
  <2>3. QED
    BY <1>1, <2>1, <2>2
<1>4. Outstanding \subseteq (Working \cup Range(mq)) \cup {held}
  BY DEF Outstanding, Working
<1>5. /\ IsFiniteSet((Working \cup Range(mq)) \cup {held})
      /\ Cardinality((Working \cup Range(mq)) \cup {held}) <= Cardinality(Working \cup Range(mq)) + 1
      /\ Cardinality((Working \cup Range(mq)) \cup {held}) \in Nat
      /\ Cardinality(Working \cup Range(mq)) \in Nat
  <2> DEFINE W == Working \cup Range(mq)
  <2>1. IsFiniteSet(W)
    BY <1>3
  <2> HIDE DEF W
  <2>2. /\ IsFiniteSet(W \cup {held}) /\ Cardinality(W) \in Nat
        /\ Cardinality(W \cup {held}) \in Nat
        /\ Cardinality(W \cup {held}) = Cardinality(W)
             \/ Cardinality(W \cup {held}) = Cardinality(W) + 1
    BY <2>1, FS_AddElement, FS_CardinalityType
  <2>3. Cardinality(W \cup {held}) <= Cardinality(W) + 1
    BY <2>2
  <2>4. QED
    BY <2>2, <2>3 DEF W
<1>6. Cardinality(Outstanding) <= Cardinality((Working \cup Range(mq)) \cup {held})
      /\ Cardinality(Outstanding) \in Nat
  BY <1>4, <1>5, FS_Subset, FS_CardinalityType
<1>7. Cardinality(Range(mq)) \in Nat
  BY <1>2, FS_CardinalityType
<1>8. QED
  BY <1>1, <1>2, <1>3, <1>5, <1>6, <1>7

LEMMA StaleOthers ==
    ASSUME Inv1, StaleInv,
           FeedSamples \/ Monitor \/ Main \/ Sync \/ Trainer \/ UNCHANGED vars
             \/ (\E s \in Samples : Task(s))
    PROVE  StaleInv'
<1> DEFINE n == Cardinality(Outstanding)
           nn == Cardinality(Outstanding')
<1>1. /\ Outstanding \subseteq Samples /\ Working \subseteq Samples
      /\ Outstanding' \subseteq Outstanding /\ Working' \subseteq Working
  BY OutstandingType, OthersFinish
<1>2. /\ nn <= n /\ nn \in Nat /\ n \in Nat /\ staleness_samples \in Nat
      /\ Cardinality(Working') <= Cardinality(Working)
      /\ Cardinality(Working') \in Nat /\ Cardinality(Working) \in Nat
      /\ counted \in Nat
  BY <1>1, FewerSamples DEF Inv1, TypeOK
<1>3. nn <= MaxRequiredSamples + 1 /\ MaxRequiredSamples \in Nat
  BY <1>2, Sizes DEF StaleInv
<1>4. proc' = "get" => nn <= MaxRequiredSamples
  <2>1. proc' = "get" => proc = "get"
    <3>1. FeedSamples \/ Main \/ Trainer \/ UNCHANGED vars \/ (\E s \in Samples : Task(s))
             => proc' = proc
      BY MainFrame, TaskFrame, TrainerFrame DEF FeedSamples, procVars, vars
    <3>2. Monitor \/ Sync => proc' = proc \/ NotifyAll
      BY MonitorFrame DEF Sync, RpcQueues, PauseBegins, PauseEnds, TransferEnds, UpdateBegins,
         UpdateCounts, UpdateEnds, Resume, procVars
    <3>3. QED
      BY <3>1, <3>2 DEF NotifyAll
  <2>2. QED
    BY <1>2, <1>3, <2>1 DEF StaleInv
<1>5. CASE ~Sync
  <2>1. staleness_samples' = staleness_samples /\ counted' = counted
    BY <1>5, MonitorFrame, MainFrame, TaskFrame, TrainerFrame DEF FeedSamples, vars, syncVars
  <2>2. sync' = sync \/ sync' = "pauseCall"
    BY <1>5, MonitorFrame, MainFrame, TaskFrame, TrainerMoves DEF FeedSamples, vars, syncVars
  <2>3. RpcHolds => proc' # "loop"
    <3>1. proc' = "loop" => proc = "loop"
      BY <1>5, MonitorFrame, MainFrame, TaskFrame, TrainerFrame
      DEF FeedSamples, vars, procVars, NotifyAll
    <3>2. QED
      BY <3>1 DEF StaleInv
  <2>4. /\ sync' = "updateCount" => Cardinality(Working') <= counted'
        /\ RpcHolds' => proc' # "loop"
    BY <1>2, <2>1, <2>2, <2>3 DEF StaleInv, RpcHolds
  <2>5. nn <= staleness_samples' + 1
    BY <1>2, <2>1 DEF StaleInv
  <2>6. QED
    BY <1>3, <1>4, <2>4, <2>5 DEF StaleInv
<1>6. CASE Sync
  <2>1. CASE UpdateCounts
    <3>1. staleness_samples' = counted + Len(mq) /\ sync' = "updateReport" /\ proc' = proc
          /\ sync = "updateCount"
      BY <2>1 DEF UpdateCounts, procVars
    <3>2. Len(mq) \in Nat
      BY RangeType DEF Inv1, TypeOK
    <3>3. nn <= staleness_samples' + 1
      BY <1>2, <3>1, <3>2, CountsEnough
    <3>4. RpcHolds' => proc' # "loop"
      BY <3>1 DEF RpcHolds, StaleInv
    <3>5. QED
      BY <1>3, <1>4, <3>1, <3>3, <3>4 DEF StaleInv
  <2>2. CASE UpdateBegins
    <3>1. /\ counted' = ActiveTasks + Len(cancel_queue) /\ proc' = proc /\ proc # "loop"
          /\ staleness_samples' = staleness_samples
      BY <2>2 DEF UpdateBegins, LocalStaleness, procVars, LoopIsFree
    <3>2. Cardinality(Working) <= ActiveTasks + Len(cancel_queue)
          /\ ActiveTasks \in Nat /\ Len(cancel_queue) \in Nat
      <4>1. /\ IsFiniteSet(Running) /\ Cardinality(Running) \in Nat /\ finished \in Nat
            /\ IsFiniteSet(Range(cancel_queue)) /\ Len(cancel_queue) \in Nat
            /\ Cardinality(Range(cancel_queue)) <= Len(cancel_queue)
        BY RunningType, RangeType DEF Inv1, TypeOK
      <4>2. Cardinality(Range(cancel_queue)) \in Nat
        BY <4>1, FS_CardinalityType
      <4>3. /\ IsFiniteSet(Running \cap Range(cancel_queue))
            /\ Cardinality(Working) = Cardinality(Running) + Cardinality(Range(cancel_queue))
                  - Cardinality(Running \cap Range(cancel_queue))
        BY <4>1, FS_Union, FS_Intersection DEF Working
      <4>4. Cardinality(Running \cap Range(cancel_queue)) \in Nat
        BY <4>3, FS_CardinalityType
      <4>5. QED
        BY <4>1, <4>2, <4>3, <4>4 DEF ActiveTasks
    <3>3. Cardinality(Working') <= counted'
      BY <1>2, <3>1, <3>2
    <3>4. nn <= staleness_samples' + 1
      BY <1>2, <3>1 DEF StaleInv
    <3>5. QED
      BY <1>3, <1>4, <3>1, <3>3, <3>4 DEF StaleInv
  <2>3. CASE ~UpdateCounts /\ ~UpdateBegins
    <3>1. staleness_samples' = staleness_samples
      BY <1>6, <2>3 DEF Sync, RpcQueues, PauseBegins, PauseEnds, TransferEnds, UpdateEnds, Resume
    <3>2. sync' # "updateCount"
      BY <1>6, <2>3, SyncMoves
    <3>3. RpcHolds' => proc' # "loop"
      BY <1>6, <2>3, SyncMoves DEF RpcHolds, PauseBegins, LoopIsFree, procVars
    <3>4. nn <= staleness_samples' + 1
      BY <1>2, <3>1 DEF StaleInv
    <3>5. QED
      BY <1>3, <1>4, <3>2, <3>3, <3>4 DEF StaleInv
  <2>4. QED
    BY <2>1, <2>2, <2>3
<1>7. QED
  BY <1>5, <1>6

LEMMA StaleStep == Inv1 /\ LockInv /\ StaleInv /\ [Next]_vars => StaleInv'
BY StaleProc, StaleOthers DEF Next, Terminated

-----------------------------------------------------------------------------
(* The trainer's batch, and how far the versions are apart.                *)
BatchInv ==
    /\ trainer = "collect" => Len(batch) < RequiredSamples
    /\ trainer = "train" => Len(batch) = RequiredSamples
    /\ trainer \notin {"collect", "train"} => batch = << >>
    /\ trainer \notin {"collect", "train", "closing"} => local_trigger_step = 1
    /\ final => trainer \in {"waitValid", "syncing", "lastValid", "done"}

(* The version the trainer is at, the one the synchronizer was called with *)
(* and the rollouter's: one apart while a synchronization is under way,    *)
(* two when the trainer waits for the next one.                            *)
VersionInv ==
    /\ sync = "idle" =>
         /\ trainer # "syncing" /\ current_version = rollout_version
         /\ trainer = "waitValid" => version = rollout_version + 1
         /\ trainer # "waitValid" => version = rollout_version
    /\ sync \in {"pauseCall", "pauseLock", "pauseGather", "transfer"} =>
         /\ trainer = "syncing" /\ current_version = version
         /\ version = rollout_version + 1
    /\ sync \in {"updateCall", "updateLock"} =>
         /\ trainer \notin {"syncing", "done"} /\ current_version = rollout_version + 1
         /\ trainer = "waitValid" => version = rollout_version + 2
         /\ trainer # "waitValid" => version = rollout_version + 1
    /\ sync \in {"updateCount", "updateReport", "resumeCall", "resumeLock"} =>
         /\ trainer \notin {"syncing", "done"} /\ current_version = rollout_version
         /\ trainer = "waitValid" => version = rollout_version + 1
         /\ trainer # "waitValid" => version = rollout_version

QueueInv == Len(mq) <= MaxQueueSize

(* Inv1 with the trainer's batch, the versions and the queue's fill.       *)
Inv2 == Inv1 /\ BatchInv /\ VersionInv /\ QueueInv

LEMMA OthersFrame ==
    FeedSamples \/ Processor \/ Monitor \/ Main \/ (\E s \in Samples : Task(s))
       \/ UNCHANGED vars => UNCHANGED <<syncVars, trainVars>>
BY ProcFrame, MonitorFrame, MainFrame, TaskFrame DEF FeedSamples, vars, syncVars, trainVars

(* The trainer's steps one by one, with the type of the batch.             *)
LEMMA TrainerSteps ==
    ASSUME Inv1, BatchInv, Trainer
    PROVE
      \/ /\ trainer = "collect" /\ mq # << >> /\ Head(mq) = EndSignal /\ mq' = Tail(mq)
         /\ trainer' = "closing" /\ batch' = << >> /\ Len(batch) < RequiredSamples
         /\ discarded' = discarded \cup Range(batch)
         /\ UNCHANGED <<sync, current_version, final, trained, local_trigger_step, version>>
      \/ /\ trainer = "collect" /\ mq # << >> /\ Head(mq) # EndSignal /\ mq' = Tail(mq)
         /\ Head(mq) \in Samples /\ batch' = Append(batch, Head(mq))
         /\ Len(batch') = Len(batch) + 1 /\ Range(batch') = Range(batch) \cup {Head(mq)}
         /\ \/ trainer' = "train" /\ Len(batch') = RequiredSamples
            \/ trainer' = "collect" /\ Len(batch') < RequiredSamples
         /\ UNCHANGED <<sync, current_version, final, trained, discarded, local_trigger_step,
                        version>>
      \/ /\ trainer = "train" /\ batch' = << >> /\ trained' = trained \cup Range(batch)
         /\ Len(batch) = RequiredSamples
         /\ \/ /\ trainer' = "collect" /\ version' = version
               /\ local_trigger_step < TriggerSyncStep
               /\ local_trigger_step' = local_trigger_step + 1
            \/ /\ trainer' = "waitValid" /\ version' = version + 1
               /\ local_trigger_step = TriggerSyncStep /\ local_trigger_step' = 1
         /\ UNCHANGED <<sync, current_version, final, mq, discarded>>
      \/ /\ trainer = "closing" /\ sync = "idle" /\ final' /\ batch = << >>
         /\ \/ trainer' = "waitValid" /\ version' = version + 1
            \/ trainer' = "done" /\ version' = version
         /\ local_trigger_step' = 1
         /\ UNCHANGED <<sync, current_version, mq, batch, trained, discarded>>
      \/ /\ trainer = "waitValid" /\ sync = "idle" /\ trainer' = "syncing"
         /\ sync' = "pauseCall" /\ current_version' = version
         /\ UNCHANGED <<mq, final, batch, trained, discarded, local_trigger_step, version>>
      \/ /\ trainer = "lastValid" /\ sync = "idle" /\ trainer' = "done"
         /\ UNCHANGED <<sync, current_version, mq, final, batch, trained, discarded,
                        local_trigger_step, version>>
<1>1. local_trigger_step \in 1..TriggerSyncStep /\ TriggerSyncStep \in Nat
      /\ batch \in Seq(Samples) /\ mq \in Seq(Samples \cup {EndSignal})
      /\ RequiredSamples \in Nat
  BY Sizes DEF Inv1, TypeOK
<1>2. CASE TrainerGets
  <2>1. mq # << >> /\ Head(mq) \in Samples \cup {EndSignal} /\ trainer = "collect"
        /\ Len(batch) < RequiredSamples
        /\ UNCHANGED <<sync, current_version, final, trained, local_trigger_step, version>>
        /\ mq' = Tail(mq)
    BY <1>1, <1>2, TailType DEF TrainerGets, BatchInv, syncVars
  <2>2. CASE Head(mq) = EndSignal
    BY <1>2, <2>1, <2>2 DEF TrainerGets
  <2>3. CASE Head(mq) # EndSignal
    <3>1. Head(mq) \in Samples
      BY <2>1, <2>3
    <3>2. batch' = Append(batch, Head(mq)) /\ discarded' = discarded
          /\ trainer' = IF Len(batch) + 1 = RequiredSamples THEN "train" ELSE "collect"
      BY <1>2, <2>3 DEF TrainerGets
    <3>3. Len(batch') = Len(batch) + 1 /\ Range(batch') = Range(batch) \cup {Head(mq)}
          /\ Len(batch) \in Nat
      BY <1>1, <3>1, <3>2, AppendType, RangeType
    <3>4. \/ trainer' = "train" /\ Len(batch') = RequiredSamples
          \/ trainer' = "collect" /\ Len(batch') < RequiredSamples
      BY <1>1, <2>1, <3>2, <3>3
    <3>5. QED
      BY <2>1, <2>3, <3>1, <3>2, <3>3, <3>4
  <2>4. QED
    BY <2>2, <2>3
<1>3. CASE TrainerTrains
  <2>1. trainer = "train" /\ batch' = << >> /\ trained' = trained \cup Range(batch)
        /\ Len(batch) = RequiredSamples
        /\ UNCHANGED <<sync, current_version, final, mq, discarded>>
    BY <1>3 DEF TrainerTrains, syncVars, queueVars, BatchInv
  <2>2. CASE SyncDue
    BY <1>1, <1>3, <2>1, <2>2 DEF TrainerTrains, SyncDue
  <2>3. CASE ~SyncDue
    BY <1>1, <1>3, <2>1, <2>3 DEF TrainerTrains, SyncDue
  <2>4. QED
    BY <2>2, <2>3
<1>4. CASE TrainerCloses
  <2>1. trainer = "closing" /\ sync = "idle" /\ final' = TRUE /\ batch = << >>
        /\ UNCHANGED <<sync, current_version, mq, batch, trained, discarded>>
    BY <1>4 DEF TrainerCloses, LastSyncDone, syncVars, queueVars, BatchInv
  <2>2. final'
    BY <2>1
  <2>3. \/ trainer' = "waitValid" /\ version' = version + 1 /\ local_trigger_step' = 1
        \/ /\ trainer' = "done" /\ version' = version
           /\ ~(local_trigger_step > 1) /\ local_trigger_step' = local_trigger_step
    BY <1>4 DEF TrainerCloses
  <2>4. local_trigger_step' = 1
    BY <1>1, <2>3
  <2>5. QED
    BY <2>1, <2>2, <2>3, <2>4
<1>5. CASE TrainerSyncs
  BY <1>5 DEF TrainerSyncs, LastSyncDone, queueVars
<1>6. CASE TrainerFinishes
  BY <1>6 DEF TrainerFinishes, LastSyncDone, syncVars, queueVars
<1>7. QED
  BY <1>2, <1>3, <1>4, <1>5, <1>6 DEF Trainer

LEMMA BatchStep == Inv1 /\ BatchInv /\ VersionInv /\ [Next]_vars => BatchInv'
<1> SUFFICES ASSUME Inv1, BatchInv, VersionInv, [Next]_vars PROVE BatchInv'
  OBVIOUS
<1>0. RequiredSamples \in Nat /\ RequiredSamples >= 1 /\ Len(<< >>) = 0
  BY Sizes
<1>1. CASE UNCHANGED trainVars
  BY <1>1 DEF BatchInv, trainVars
<1>2. CASE Trainer
  BY <1>0, <1>2, TrainerSteps DEF BatchInv
<1>3. CASE Sync
  <2>1. UNCHANGED <<final, batch, local_trigger_step>>
    BY <1>3, SyncFrame
  <2>2. CASE TransferEnds
    <3>1. trainer = "syncing" /\ trainer' = IF final THEN "lastValid" ELSE "collect"
      BY <2>2 DEF TransferEnds, VersionInv
    <3>2. batch = << >> /\ local_trigger_step = 1
      BY <3>1 DEF BatchInv
    <3>3. QED
      BY <1>0, <2>1, <3>1, <3>2 DEF BatchInv
  <2>3. CASE ~TransferEnds
    <3>1. trainer' = trainer
      BY <1>3, <2>3 DEF Sync, RpcQueues, PauseBegins, PauseEnds, UpdateBegins, UpdateCounts,
         UpdateEnds, Resume, trainVars
    <3>2. QED
      BY <2>1, <3>1 DEF BatchInv
  <2>4. QED
    BY <2>2, <2>3
<1>4. QED
  BY <1>1, <1>2, <1>3, OthersFrame DEF Next, Terminated

LEMMA VersionStep == Inv1 /\ BatchInv /\ VersionInv /\ [Next]_vars => VersionInv'
<1> SUFFICES ASSUME Inv1, BatchInv, VersionInv, [Next]_vars PROVE VersionInv'
  OBVIOUS
<1>0. version \in Nat /\ rollout_version \in Nat /\ current_version \in Nat
  BY DEF Inv1, TypeOK
<1>1. CASE UNCHANGED <<syncVars, trainVars>>
  BY <1>1 DEF VersionInv, trainVars, syncVars
<1>2. CASE Trainer
  <2>1. rollout_version' = rollout_version
    BY <1>2, TrainerFrame
  <2>2. QED
    BY <1>0, <1>2, <2>1, TrainerSteps DEF VersionInv
<1>3. CASE Sync
  <2>1. version' = version
    BY <1>3, SyncFrame
  <2>2. CASE TransferEnds
    BY <2>1, <2>2 DEF TransferEnds, VersionInv
  <2>3. CASE UpdateBegins
    <3>1. sync \in {"updateCall", "updateLock"} /\ sync' = "updateCount"
          /\ rollout_version' = current_version /\ current_version' = current_version
          /\ trainer' = trainer
      BY <2>3 DEF UpdateBegins, Acquires, NewParamVersion, trainVars
    <3>2. QED
      BY <1>0, <2>1, <3>1 DEF VersionInv
  <2>4. CASE ~TransferEnds /\ ~UpdateBegins
    <3>1. UNCHANGED <<trainer, rollout_version, current_version>>
      BY <1>3, <2>4 DEF Sync, RpcQueues, PauseBegins, PauseEnds, UpdateCounts,
         UpdateEnds, Resume, trainVars
    <3>2. QED
      BY <1>3, <2>1, <2>4, <3>1, SyncMoves DEF VersionInv
  <2>5. QED
    BY <2>2, <2>3, <2>4
<1>4. QED
  BY <1>1, <1>2, <1>3, OthersFrame DEF Next, Terminated

(* Where m comes to stand in the message queue.                            *)
LEMMA PutLast ==
    ASSUME NEW S, mq \in Seq(S), NEW m \in S, PutSample(m), QueueInv
    PROVE  /\ mq' \in Seq(S) /\ Len(mq') \in Nat /\ Len(mq') <= MaxQueueSize /\ Len(mq') >= 1
           /\ mq'[Len(mq')] = m
           /\ \/ Len(mq') = Len(mq) + 1 /\ \A i \in 1..Len(mq') - 1 : mq'[i] = mq[i]
              \/ Len(mq') = Len(mq) /\ \A i \in 1..Len(mq') - 1 : mq'[i] = mq[i + 1]
<1>1. Len(mq) \in Nat /\ MaxQueueSize \in Nat /\ MaxQueueSize >= 1 /\ Len(mq) <= MaxQueueSize
  BY Sizes, RangeType DEF QueueInv
<1>2. \A q \in Seq(S) : /\ Append(q, m) \in Seq(S) /\ Len(Append(q, m)) = Len(q) + 1
                        /\ Append(q, m)[Len(q) + 1] = m
                        /\ \A i \in 1..Len(q) : Append(q, m)[i] = q[i]
  BY AppendProperties
<1>3. CASE mq' = Append(mq, m) /\ ~(Len(mq) >= MaxQueueSize)
  BY <1>1, <1>2, <1>3
<1>4. CASE mq # << >> /\ mq' = Append(Tail(mq), m)
  <2>1. Tail(mq) \in Seq(S) /\ Len(Tail(mq)) = Len(mq) - 1
        /\ \A i \in 1..Len(Tail(mq)) : Tail(mq)[i] = mq[i + 1]
    BY <1>4, TailType
  <2>2. /\ mq' \in Seq(S) /\ Len(mq') = Len(mq) /\ mq'[Len(mq)] = m
        /\ \A i \in 1..Len(mq) - 1 : mq'[i] = Tail(mq)[i]
    BY <1>1, <1>2, <1>4, <2>1
  <2>3. Len(mq) >= 1
    BY <1>1, <1>4, <2>1, <2>2
  <2>4. \A i \in 1..Len(mq) - 1 : mq'[i] = mq[i + 1]
    BY <1>1, <2>1, <2>2
  <2>5. QED
    BY <1>1, <2>2, <2>3, <2>4
<1>5. QED
  BY <1>1, <1>3, <1>4 DEF PutSample

LEMMA MqMoves ==
    ASSUME Inv1, [Next]_vars
    PROVE  \/ mq' = mq /\ dropped' = dropped
           \/ mq # << >> /\ mq' = Tail(mq) /\ dropped' = dropped /\ TrainerGets
           \/ PutSample(EndSignal) /\ MainSendsEnd
           \/ \E s \in Samples : PutSample(s) /\ TaskPut(s)
<1>1. CASE FeedSamples \/ Processor \/ Monitor \/ Sync \/ UNCHANGED vars
  BY <1>1, ProcFrame, MonitorFrame, SyncFrame DEF FeedSamples, queueVars, vars
<1>2. CASE Main
  BY <1>2 DEF Main, MainSendsEnd, MainQueues, MainStops, queueVars
<1>3. CASE Trainer
  BY <1>3 DEF Trainer, TrainerGets, TrainerTrains, TrainerCloses, TrainerSyncs, TrainerFinishes,
     queueVars
<1>4. CASE \E s \in Samples : Task(s)
  BY <1>4 DEF Task, TaskGenerated, TaskPut, TaskReachesServer, TaskCancelled, TaskRaised, queueVars
<1>5. QED
  BY <1>1, <1>2, <1>3, <1>4 DEF Next, Terminated

LEMMA QueueStep == Inv1 /\ QueueInv /\ [Next]_vars => QueueInv'
<1> SUFFICES ASSUME Inv1, QueueInv, [Next]_vars PROVE QueueInv'
  OBVIOUS
<1>1. mq \in Seq(Samples \cup {EndSignal}) /\ Len(mq) \in Nat
  BY RangeType DEF Inv1, TypeOK
<1>2. MaxQueueSize \in Nat /\ MaxQueueSize' = MaxQueueSize
  BY Sizes DEF MaxQueueSize
<1>3. CASE mq' = mq
  BY <1>2, <1>3 DEF QueueInv
<1>4. CASE mq # << >> /\ mq' = Tail(mq)
  <2>1. Len(mq') = Len(mq) - 1
    BY <1>1, <1>4, TailType
  <2>2. QED
    BY <1>1, <1>2, <2>1 DEF QueueInv
<1>5. CASE \E m \in Samples \cup {EndSignal} : PutSample(m)
  BY <1>1, <1>2, <1>5, PutLast DEF QueueInv
<1>6. QED
  BY <1>3, <1>4, <1>5, MqMoves

LEMMA Inv2Init == Init => Inv2
<1> SUFFICES ASSUME Init PROVE Inv2
  OBVIOUS
<1>1. Inv1
  BY TypeInit
<1>2. batch = << >> /\ mq = << >> /\ Len(<< >>) = 0
  BY DEF Init
<1>3. QED
  BY <1>1, <1>2, Sizes DEF Inv2, Init, BatchInv, VersionInv, QueueInv

LEMMA Inv2Step == Inv2 /\ [Next]_vars => Inv2'
BY TypeStep, BatchStep, VersionStep, QueueStep DEF Inv2

-----------------------------------------------------------------------------
(* How old the labels are: by then the trainer has fetched `Consumed`      *)
(* samples, and what stands at place i of the queue is the i-th after them. *)
Closed == trainer = "closing" \/ final
Consumed == version * SamplesPerSync + (local_trigger_step - 1) * RequiredSamples + Len(batch)
LastUse(s) == (label[s] + 2) * SamplesPerSync + MaxRequiredSamples

(* A completed sample carries the version of the rollouter or, if it was   *)
(* generated across an update, the one before.                             *)
PuttingFresh ==
    \A s \in putting :
       \/ label[s] = rollout_version
       \/ /\ label[s] = rollout_version - 1
          /\ sync \notin {"transfer", "updateCall", "updateLock"}
(* The trainer gets to place i of the queue after Consumed + i samples.    *)
QueueFresh ==
    \A i \in 1..Len(mq) : mq[i] # EndSignal => Consumed + i <= LastUse(mq[i])
BatchFresh ==
    \A s \in Range(batch) : version * SamplesPerSync + 1 <= LastUse(s)

(* Labels never run ahead, and as long as the trainer collects they are    *)
(* young enough for the time it will use them.                             *)
LabelInv ==
    /\ \A s \in Samples : label[s] <= rollout_version
    /\ ~Closed => PuttingFresh /\ QueueFresh /\ BatchFresh

(* The arithmetic of products the provers do not find by themselves.       *)
LEMMA Products ==
    /\ \A a, b, c \in Int : a * c \in Int /\ (a + b) * c = a * c + b * c
    /\ \A a, b, c \in Int : a <= b /\ c >= 0 => a * c <= b * c
    /\ \A a, b \in Nat : a * b \in Nat
    /\ \A a, b, c \in Int : a * (b * c) = a * b * c /\ a * b = b * a
    /\ \A c \in Int : 1 * c = c /\ 0 * c = 0 /\ 2 * c = c + c
<1>1. \A a, b, c \in Int : a * c \in Int /\ (a + b) * c = a * c + b * c
  OBVIOUS
<1>2. \A a, b, c \in Int : a <= b /\ c >= 0 => a * c <= b * c
  OBVIOUS
<1>3. \A a, b \in Nat : a * b \in Nat
  OBVIOUS
<1>4. \A a, b, c \in Int : a * (b * c) = a * b * c /\ a * b = b * a
  OBVIOUS
<1>5. \A c \in Int : 1 * c = c /\ 0 * c = 0 /\ 2 * c = c + c
  OBVIOUS
<1>6. QED
  BY <1>1, <1>2, <1>3, <1>4, <1>5

LEMMA ConsumedType ==
    ASSUME Inv1
    PROVE  /\ Consumed \in Nat /\ version * SamplesPerSync \in Nat
           /\ version * SamplesPerSync + Len(batch) <= Consumed
           /\ local_trigger_step = 1 => Consumed = version * SamplesPerSync + Len(batch)
<1>1. version \in Nat /\ local_trigger_step \in Nat /\ local_trigger_step >= 1
      /\ Len(batch) \in Nat /\ SamplesPerSync \in Nat /\ RequiredSamples \in Nat
  BY Sizes, RangeType DEF Inv1, TypeOK
<1>2. version * SamplesPerSync \in Nat
  BY <1>1, Products
<1>3. (local_trigger_step - 1) * RequiredSamples \in Nat
  <2>1. local_trigger_step - 1 \in Nat
    BY <1>1
  <2>2. QED
    BY <1>1, <2>1, Products
<1>4. local_trigger_step = 1 => (local_trigger_step - 1) * RequiredSamples = 0
  BY <1>1
<1>5. QED
  BY <1>1, <1>2, <1>3, <1>4 DEF Consumed

(* The trainer is at most one synchronization ahead of what it was given.  *)
LEMMA ConsumedBound ==
    ASSUME Inv2, ~Closed
    PROVE  /\ trainer # "waitValid" /\ trainer # "syncing"
                => Consumed <= (version + 1) * SamplesPerSync
           /\ trainer \in {"waitValid", "syncing"} => Consumed = version * SamplesPerSync
<1>1. version \in Nat /\ local_trigger_step \in Nat /\ local_trigger_step <= TriggerSyncStep
      /\ TriggerSyncStep \in Nat /\ local_trigger_step >= 1
      /\ Len(batch) \in Nat /\ SamplesPerSync \in Nat /\ RequiredSamples \in Nat
  BY Sizes, RangeType DEF Inv2, Inv1, TypeOK
<1>2. Len(batch) <= RequiredSamples /\ (trainer \in {"waitValid", "syncing"} => Len(batch) = 0)
  <2>1. Len(<< >>) = 0
    OBVIOUS
  <2>2. QED
    BY <1>1, <2>1 DEF Inv2, BatchInv
<1>3. (local_trigger_step - 1) * RequiredSamples + RequiredSamples
         = local_trigger_step * RequiredSamples
  <2>1. (local_trigger_step - 1) + 1 = local_trigger_step /\ local_trigger_step - 1 \in Int
    BY <1>1
  <2>2. QED
    BY <1>1, <2>1, Products
<1>4. local_trigger_step * RequiredSamples <= TriggerSyncStep * RequiredSamples
  BY <1>1, Products
<1>5. TriggerSyncStep * RequiredSamples = SamplesPerSync
  BY <1>1, Products DEF SamplesPerSync
<1>6. (version + 1) * SamplesPerSync = version * SamplesPerSync + SamplesPerSync
      /\ version * SamplesPerSync \in Nat
  BY <1>1, Products
<1>7. Consumed <= (version + 1) * SamplesPerSync
  <2> DEFINE a == local_trigger_step * RequiredSamples
             b == (local_trigger_step - 1) * RequiredSamples
             c == version * SamplesPerSync
  <2>1. a \in Int /\ b \in Int /\ c \in Int
    BY <1>1, Products
  <2>2. b + RequiredSamples = a /\ a <= SamplesPerSync
        /\ (version + 1) * SamplesPerSync = c + SamplesPerSync
    BY <1>3, <1>4, <1>5, <1>6
  <2>3. Consumed = c + b + Len(batch)
    BY DEF Consumed
  <2> HIDE DEF a, b, c
  <2>4. QED
    BY <1>1, <1>2, <2>1, <2>2, <2>3
<1>8. trainer \in {"waitValid", "syncing"} => Consumed = version * SamplesPerSync
  <2>1. trainer \in {"waitValid", "syncing"} => local_trigger_step = 1
    BY DEF Inv2, BatchInv
  <2>2. QED
    BY <1>1, <1>2, <1>6, <2>1, ConsumedType DEF Inv2
<1>9. QED
  BY <1>7, <1>8

(* A sample about to be put is young enough for the last place of the      *)
(* queue.                                                                  *)
LEMMA FreshEnough ==
    ASSUME Inv2, LabelInv, ~Closed, NEW s \in putting
    PROVE  Consumed + MaxQueueSize <= LastUse(s)
<1> DEFINE rv == rollout_version
           k == SamplesPerSync
<1>1. s \in Samples /\ label[s] \in Nat /\ rv \in Nat /\ version \in Nat /\ Consumed \in Nat
      /\ k \in Nat /\ MaxQueueSize = MaxRequiredSamples /\ MaxRequiredSamples \in Nat
  BY Sizes, ConsumedType DEF Inv2, Inv1, TypeOK
<1>2. sync \in {"idle", "pauseCall", "pauseLock", "pauseGather", "transfer", "updateCall",
                "updateLock", "updateCount", "updateReport", "resumeCall", "resumeLock"}
  BY DEF Inv2, Inv1, TypeOK
<1>3. \/ trainer # "waitValid" /\ trainer # "syncing" /\ version + 1 <= label[s] + 2
      \/ trainer \in {"waitValid", "syncing"} /\ version <= label[s] + 2
  <2>1. label[s] = rv \/ (label[s] = rv - 1 /\ sync \notin {"transfer", "updateCall", "updateLock"})
    BY DEF LabelInv, PuttingFresh
  <2>2. CASE sync = "idle"
    BY <1>1, <2>1, <2>2 DEF Inv2, VersionInv
  <2>3. CASE sync \in {"pauseCall", "pauseLock", "pauseGather", "transfer"}
    BY <1>1, <2>1, <2>3 DEF Inv2, VersionInv
  <2>4. CASE sync \in {"updateCall", "updateLock"}
    BY <1>1, <2>1, <2>4 DEF Inv2, VersionInv
  <2>5. CASE sync \in {"updateCount", "updateReport", "resumeCall", "resumeLock"}
    BY <1>1, <2>1, <2>5 DEF Inv2, VersionInv
  <2>6. QED
    BY <1>2, <2>2, <2>3, <2>4, <2>5
<1>4. Consumed <= (label[s] + 2) * k
  <2>1. CASE trainer # "waitValid" /\ trainer # "syncing" /\ version + 1 <= label[s] + 2
    <3>1. (version + 1) * k <= (label[s] + 2) * k /\ (version + 1) * k \in Int
      BY <1>1, <2>1, Products
    <3>2. Consumed <= (version + 1) * k
      BY <2>1, ConsumedBound
    <3>3. (label[s] + 2) * k \in Int
      BY <1>1
    <3> HIDE DEF k
    <3>4. QED
      BY <1>1, <3>1, <3>2, <3>3
  <2>2. CASE trainer \in {"waitValid", "syncing"} /\ version <= label[s] + 2
    <3>1. version * k <= (label[s] + 2) * k
      BY <1>1, <2>2, Products
    <3>2. Consumed = version * k
      BY <2>2, ConsumedBound
    <3>3. QED
      BY <3>1, <3>2
  <2>3. QED
    BY <1>3, <2>1, <2>2
<1>5. QED
  <2>1. (label[s] + 2) * k \in Int
    BY <1>1
  <2> HIDE DEF k
  <2>2. LastUse(s) = (label[s] + 2) * k + MaxRequiredSamples
    BY DEF LastUse, k
  <2>3. QED
    BY <1>1, <1>4, <2>1, <2>2

LEMMA LabelInit == Init => LabelInv
<1> SUFFICES ASSUME Init PROVE LabelInv
  OBVIOUS
<1>1. mq = << >> /\ Len(<< >>) = 0 /\ Range(batch) = {} /\ putting = {}
  BY DEF Init, Range
<1>2. \A s \in Samples : label[s] = 0 /\ rollout_version = 0
  BY DEF Init
<1>3. 1..Len(mq) = {}
  BY <1>1
<1>4. QED
  BY <1>1, <1>2, <1>3 DEF LabelInv, PuttingFresh, QueueFresh, BatchFresh

LEMMA ClosedStays == Inv2 /\ Closed /\ [Next]_vars => Closed'
<1> SUFFICES ASSUME Inv2, Closed, [Next]_vars PROVE Closed'
  OBVIOUS
<1>1. CASE UNCHANGED trainVars
  BY <1>1 DEF Closed, trainVars
<1>2. CASE Trainer
  BY <1>2, TrainerSteps DEF Closed, Inv2
<1>3. CASE Sync
  <2>1. final' = final /\ (trainer' = trainer \/ trainer = "syncing")
    BY <1>3, SyncFrame DEF Sync, RpcQueues, PauseBegins, PauseEnds, TransferEnds, UpdateBegins,
       UpdateCounts, UpdateEnds, Resume, trainVars, Inv2, VersionInv
  <2>2. QED
    BY <2>1 DEF Closed
<1>4. QED
  BY <1>1, <1>2, <1>3, OthersFrame DEF Next, Terminated

LEMMA QueueFreshPut ==
    ASSUME Inv2, QueueFresh, NEW m \in Samples \cup {EndSignal}, PutSample(m),
           m # EndSignal => Consumed + MaxQueueSize <= LastUse(m),
           UNCHANGED <<label, version, local_trigger_step, batch>>
    PROVE  QueueFresh'
<1>1. /\ mq' \in Seq(Samples \cup {EndSignal}) /\ Len(mq') \in Nat /\ Len(mq') <= MaxQueueSize
      /\ Len(mq') >= 1
      /\ mq'[Len(mq')] = m
      /\ \/ Len(mq') = Len(mq) + 1 /\ \A i \in 1..Len(mq') - 1 : mq'[i] = mq[i]
         \/ Len(mq') = Len(mq) /\ \A i \in 1..Len(mq') - 1 : mq'[i] = mq[i + 1]
  BY PutLast DEF Inv2, Inv1, TypeOK
<1>2. Consumed' = Consumed /\ Consumed \in Nat /\ MaxQueueSize \in Nat
      /\ \A s : LastUse(s)' = LastUse(s)
  BY Sizes, ConsumedType DEF Consumed, LastUse, Inv2
<1>3. \A s \in Samples : LastUse(s) \in Int
  <2>1. \A s \in Samples : label[s] + 2 \in Int /\ SamplesPerSync \in Int
        /\ MaxRequiredSamples \in Int
    BY Sizes DEF Inv2, Inv1, TypeOK
  <2>2. \A s \in Samples : (label[s] + 2) * SamplesPerSync \in Int
    BY <2>1
  <2>3. QED
    BY <2>1, <2>2 DEF LastUse
<1>4. SUFFICES ASSUME NEW i \in 1..Len(mq'), mq'[i] # EndSignal
               PROVE  Consumed + i <= LastUse(mq'[i])
  BY <1>2 DEF QueueFresh
<1>5. mq'[i] \in Samples
  BY <1>1, <1>4
<1>6. CASE i = Len(mq')
  BY <1>1, <1>2, <1>3, <1>4, <1>5, <1>6
<1>7. CASE i \in 1..Len(mq') - 1
  <2>1. CASE Len(mq') = Len(mq) + 1 /\ mq'[i] = mq[i]
    <3>1. i \in 1..Len(mq)
      BY <1>1, <1>7, <2>1
    <3>2. QED
      BY <1>4, <2>1, <3>1 DEF QueueFresh
  <2>2. CASE Len(mq') = Len(mq) /\ mq'[i] = mq[i + 1]
    <3>1. i + 1 \in 1..Len(mq)
      BY <1>1, <1>7, <2>2
    <3>2. Consumed + (i + 1) <= LastUse(mq'[i])
      BY <1>4, <2>2, <3>1 DEF QueueFresh
    <3>3. QED
      BY <1>2, <1>3, <1>5, <3>2
  <2>3. QED
    BY <1>1, <1>7, <2>1, <2>2
<1>8. QED
  BY <1>1, <1>6, <1>7

(* A later label only makes a sample fresher.                              *)
LEMMA QueueFreshLabels ==
    ASSUME Inv2, QueueFresh, Consumed' = Consumed, mq' = mq,
           \A s \in Samples : label'[s] \in Nat /\ label[s] <= label'[s]
    PROVE  QueueFresh'
<1>1. \A s \in Samples : LastUse(s) \in Int /\ LastUse(s)' \in Int /\ LastUse(s) <= LastUse(s)'
  <2>1. SUFFICES ASSUME NEW s \in Samples
                 PROVE  LastUse(s) \in Int /\ LastUse(s)' \in Int /\ LastUse(s) <= LastUse(s)'
    OBVIOUS
  <2>2. label[s] + 2 \in Int /\ label'[s] + 2 \in Int /\ label[s] + 2 <= label'[s] + 2
        /\ SamplesPerSync \in Nat /\ MaxRequiredSamples \in Nat
    BY Sizes DEF Inv2, Inv1, TypeOK
  <2> DEFINE k == SamplesPerSync
             a == (label[s] + 2) * k
             b == (label'[s] + 2) * k
  <2>3. a \in Int /\ b \in Int /\ a <= b
    BY <2>2, Products
  <2>4. LastUse(s) = a + MaxRequiredSamples /\ LastUse(s)' = b + MaxRequiredSamples
    BY DEF LastUse, SamplesPerSync
  <2> HIDE DEF a, b
  <2>5. QED
    BY <2>2, <2>3, <2>4
<1>2. SUFFICES ASSUME NEW i \in 1..Len(mq), mq[i] # EndSignal
               PROVE  Consumed + i <= LastUse(mq[i])'
  BY DEF QueueFresh
<1>3. mq[i] \in Samples /\ Consumed \in Nat /\ i \in Nat
  BY <1>2, ConsumedType DEF Inv2, Inv1, TypeOK
<1>4. Consumed + i <= LastUse(mq[i])
  BY <1>2 DEF QueueFresh
<1>5. LastUse(mq[i])' = (label'[mq[i]] + 2) * SamplesPerSync + MaxRequiredSamples
  BY DEF LastUse, SamplesPerSync
<1>6. QED
  BY <1>1, <1>3, <1>4

LEMMA BatchFreshLabels ==
    ASSUME Inv2, BatchFresh, version' = version, batch' = batch,
           \A s \in Samples : label'[s] \in Nat /\ label[s] <= label'[s]
    PROVE  BatchFresh'
<1>1. SUFFICES ASSUME NEW s \in Range(batch)
               PROVE  version * SamplesPerSync + 1 <= LastUse(s)'
  BY DEF BatchFresh, SamplesPerSync
<1>2. s \in Samples
  BY <1>1, RangeType DEF Inv2, Inv1, TypeOK
<1>3. label[s] + 2 \in Int /\ label'[s] + 2 \in Int /\ label[s] + 2 <= label'[s] + 2
      /\ SamplesPerSync \in Nat /\ MaxRequiredSamples \in Nat
  BY <1>2, Sizes DEF Inv2, Inv1, TypeOK
<1>8. version * SamplesPerSync \in Nat
  BY ConsumedType DEF Inv2
<1> DEFINE k == SamplesPerSync
           a == (label[s] + 2) * k
           b == (label'[s] + 2) * k
<1>4. a \in Int /\ b \in Int /\ a <= b
  BY <1>3, Products
<1>5. LastUse(s) = a + MaxRequiredSamples /\ LastUse(s)' = b + MaxRequiredSamples
  BY DEF LastUse, SamplesPerSync
<1>6. version * SamplesPerSync + 1 <= LastUse(s)
  BY <1>1 DEF BatchFresh
<1> HIDE DEF a, b
<1>7. QED
  BY <1>3, <1>4, <1>5, <1>6, <1>8

LEMMA LabelTask == Inv2 /\ LabelInv /\ (\E s \in Samples : Task(s)) => LabelInv'
<1> SUFFICES ASSUME Inv2, LabelInv, NEW s \in Samples, Task(s) PROVE LabelInv'
  OBVIOUS
<1>1. UNCHANGED <<sync, rollout_version, batch, version, local_trigger_step, trainer, final>>
  BY TaskFrame DEF syncVars, trainVars
<1>2. Consumed' = Consumed /\ Closed' = Closed
  BY <1>1 DEF Consumed, Closed
<1>3. label \in [Samples -> Nat] /\ rollout_version \in Nat /\ putting \subseteq Samples
  BY DEF Inv2, Inv1, TypeOK
<1>4. CASE TaskGenerated(s)
  <2>1. /\ putting' = putting \cup {s} /\ mq' = mq
        /\ label' = [label EXCEPT ![s] = rollout_version]
    BY <1>4 DEF TaskGenerated, queueVars
  <2>2. \A x \in Samples : /\ label'[x] = (IF x = s THEN rollout_version ELSE label[x])
                           /\ label[x] <= rollout_version /\ label[x] \in Nat
    BY <1>3, <2>1 DEF LabelInv
  <2>3. \A x \in Samples : label'[x] \in Nat /\ label[x] <= label'[x] /\ label'[x] <= rollout_version
    BY <1>3, <2>2
  <2>4. ~Closed => QueueFresh' /\ BatchFresh'
    BY <1>1, <1>2, <2>1, <2>3, QueueFreshLabels, BatchFreshLabels DEF LabelInv
  <2>5. ~Closed => PuttingFresh'
    BY <1>1, <1>3, <2>1, <2>2 DEF LabelInv, PuttingFresh
  <2>6. QED
    BY <1>1, <1>2, <2>3, <2>4, <2>5 DEF LabelInv
<1>5. CASE TaskPut(s)
  <2>1. /\ putting' \subseteq putting /\ s \in putting /\ PutSample(s) /\ label' = label
    BY <1>5 DEF TaskPut
  <2>2. ~Closed => QueueFresh'
    <3>1. SUFFICES ASSUME ~Closed PROVE QueueFresh'
      OBVIOUS
    <3>2. Consumed + MaxQueueSize <= LastUse(s)
      BY <2>1, <3>1, FreshEnough
    <3>3. QED
      BY <1>1, <2>1, <3>1, <3>2, QueueFreshPut DEF LabelInv
  <2>3. ~Closed => PuttingFresh' /\ BatchFresh'
    BY <1>1, <2>1 DEF LabelInv, PuttingFresh, BatchFresh, LastUse, SamplesPerSync
  <2>4. QED
    BY <1>1, <1>2, <2>1, <2>2, <2>3 DEF LabelInv
<1>6. CASE TaskReachesServer(s) \/ TaskCancelled(s) \/ TaskRaised(s)
  <2>1. UNCHANGED <<putting, mq, label>>
    BY <1>6 DEF TaskReachesServer, TaskCancelled, TaskRaised, queueVars
  <2>2. QED
    BY <1>1, <1>2, <2>1
    DEF LabelInv, PuttingFresh, QueueFresh, BatchFresh, LastUse, SamplesPerSync
<1>7. QED
  BY <1>4, <1>5, <1>6 DEF Task

LEMMA LabelSync == Inv2 /\ LabelInv /\ Sync => LabelInv'
<1> SUFFICES ASSUME Inv2, LabelInv, Sync PROVE LabelInv'
  OBVIOUS
<1>1. UNCHANGED <<putting, mq, label, batch, version, local_trigger_step, final>>
  BY SyncFrame DEF queueVars
<1>2. Consumed' = Consumed
  BY <1>1 DEF Consumed
<1>3. ~Closed' => ~Closed
  BY ClosedStays DEF Next
<1>4. ~Closed' => QueueFresh' /\ BatchFresh'
  BY <1>1, <1>2, <1>3 DEF LabelInv, QueueFresh, BatchFresh, LastUse, SamplesPerSync
<1>5. label \in [Samples -> Nat] /\ rollout_version \in Nat /\ current_version \in Nat
      /\ putting \subseteq Samples
  BY DEF Inv2, Inv1, TypeOK
<1>6. CASE UpdateBegins
  <2>1. /\ sync \in {"updateCall", "updateLock"} /\ sync' = "updateCount"
        /\ rollout_version' = rollout_version + 1
    BY <1>6 DEF UpdateBegins, Acquires, NewParamVersion, Inv2, VersionInv
  <2>2. \A s \in Samples : label'[s] <= rollout_version'
    BY <1>1, <1>5, <2>1 DEF LabelInv
  <2>3. ~Closed => PuttingFresh'
    <3>1. SUFFICES ASSUME ~Closed, NEW s \in putting
                   PROVE  label[s] = rollout_version' - 1
      BY <1>1, <2>1 DEF PuttingFresh
    <3>2. label[s] = rollout_version
      BY <2>1, <3>1 DEF LabelInv, PuttingFresh
    <3>3. QED
      BY <1>5, <2>1, <3>2
  <2>4. QED
    BY <1>3, <1>4, <2>2, <2>3 DEF LabelInv
<1>7. CASE PauseEnds
  <2>1. putting = {} /\ rollout_version' = rollout_version
    BY <1>7 DEF PauseEnds, Running
  <2>2. PuttingFresh'
    BY <1>1, <2>1 DEF PuttingFresh
  <2>3. QED
    BY <1>1, <1>3, <1>4, <2>1, <2>2 DEF LabelInv
<1>8. CASE ~UpdateBegins /\ ~PauseEnds
  <2>1. rollout_version' = rollout_version
    BY <1>8 DEF Sync, RpcQueues, PauseBegins, TransferEnds, UpdateCounts, UpdateEnds, Resume
  <2>2. sync' \in {"transfer", "updateCall", "updateLock"}
           => sync \in {"transfer", "updateCall", "updateLock"}
    BY <1>8, SyncMoves DEF Inv2
  <2>3. ~Closed => PuttingFresh'
    BY <1>1, <2>1, <2>2 DEF LabelInv, PuttingFresh
  <2>4. QED
    BY <1>1, <1>3, <1>4, <2>1, <2>3 DEF LabelInv
<1>9. QED
  BY <1>6, <1>7, <1>8

LEMMA LabelTrainer == Inv2 /\ LabelInv /\ Trainer => LabelInv'
<1> SUFFICES ASSUME Inv2, LabelInv, Trainer PROVE LabelInv'
  OBVIOUS
<1>1. UNCHANGED <<putting, label, rollout_version>>
  BY TrainerFrame DEF taskVars
<1>2. \A s \in Samples : label'[s] <= rollout_version'
  BY <1>1 DEF LabelInv
<1>3. SUFFICES ASSUME ~Closed' PROVE PuttingFresh' /\ QueueFresh' /\ BatchFresh'
  BY <1>2 DEF LabelInv
<1>4. ~Closed /\ PuttingFresh /\ QueueFresh /\ BatchFresh
  BY <1>3, ClosedStays DEF Next, LabelInv
<1>5. PuttingFresh'
  <2>1. sync' = sync \/ sync' = "pauseCall"
    BY TrainerMoves
  <2>2. QED
    BY <1>1, <1>4, <2>1 DEF PuttingFresh
<1>6. \A s : LastUse(s)' = LastUse(s)
  BY <1>1 DEF LastUse, SamplesPerSync
<1>7. Consumed \in Nat /\ version * SamplesPerSync \in Nat
      /\ version * SamplesPerSync + Len(batch) <= Consumed /\ Len(batch) \in Nat
      /\ mq \in Seq(Samples \cup {EndSignal}) /\ batch \in Seq(Samples) /\ Len(mq) \in Nat
      /\ version \in Nat /\ local_trigger_step \in Nat
  BY ConsumedType, RangeType, Sizes DEF Inv2, Inv1, TypeOK
<1>8. \A s \in Samples : LastUse(s) \in Int
  <2>1. \A s \in Samples : label[s] + 2 \in Int /\ SamplesPerSync \in Int
        /\ MaxRequiredSamples \in Int
    BY Sizes DEF Inv2, Inv1, TypeOK
  <2>2. \A s \in Samples : (label[s] + 2) * SamplesPerSync \in Int
    BY <2>1
  <2>3. QED
    BY <2>1, <2>2 DEF LastUse
<1>9. CASE /\ mq # << >> /\ Head(mq) # EndSignal /\ mq' = Tail(mq) /\ Head(mq) \in Samples
           /\ Len(batch') = Len(batch) + 1 /\ Range(batch') = Range(batch) \cup {Head(mq)}
           /\ UNCHANGED <<local_trigger_step, version>>
  <2>1. Consumed' = Consumed + 1
    <3> DEFINE a == version * SamplesPerSync
               b == (local_trigger_step - 1) * RequiredSamples
    <3>1. a \in Int /\ b \in Int
      BY <1>7, Sizes
    <3>2. Consumed = a + b + Len(batch) /\ Consumed' = a + b + Len(batch')
      BY <1>9 DEF Consumed, SamplesPerSync
    <3> HIDE DEF a, b
    <3>3. QED
      BY <1>7, <1>9, <3>1, <3>2
  <2>2. Len(mq') = Len(mq) - 1 /\ \A i \in 1..Len(mq') : mq'[i] = mq[i + 1]
    BY <1>7, <1>9, TailType
  <2>3. QueueFresh'
    <3>1. SUFFICES ASSUME NEW i \in 1..Len(mq'), mq'[i] # EndSignal
                   PROVE  (Consumed + 1) + i <= LastUse(mq'[i])
      BY <1>6, <2>1 DEF QueueFresh
    <3>2. i + 1 \in 1..Len(mq) /\ mq'[i] = mq[i + 1]
      BY <1>7, <2>2, <3>1
    <3>3. Consumed + (i + 1) <= LastUse(mq'[i])
      BY <1>4, <3>1, <3>2 DEF QueueFresh
    <3>4. QED
      BY <1>7, <3>3
  <2>4. BatchFresh'
    <3>1. SUFFICES ASSUME NEW s \in Range(batch')
                   PROVE  version * SamplesPerSync + 1 <= LastUse(s)
      BY <1>6, <1>9 DEF BatchFresh, SamplesPerSync
    <3>2. CASE s \in Range(batch)
      BY <1>4, <3>2 DEF BatchFresh
    <3>3. CASE s = Head(mq)
      <4>1. 1 \in 1..Len(mq) /\ mq[1] = Head(mq)
        BY <1>7, <1>9, HeadTailProperties
      <4>2. Consumed + 1 <= LastUse(s)
        BY <1>4, <1>9, <3>3, <4>1 DEF QueueFresh
      <4> DEFINE a == version * SamplesPerSync
      <4>3. a \in Nat /\ a <= Consumed
        BY <1>7
      <4> HIDE DEF a
      <4>4. LastUse(s) \in Int
        BY <1>8, <1>9, <3>3
      <4>5. a + 1 <= LastUse(s)
        BY <1>7, <4>2, <4>3, <4>4
      <4>6. QED
        BY <4>5 DEF a
    <3>4. QED
      BY <1>9, <3>1, <3>2, <3>3
  <2>5. QED
    BY <1>5, <2>3, <2>4
<1>10. CASE /\ trainer = "train" /\ batch' = << >> /\ Len(batch) = RequiredSamples
            /\ mq' = mq /\ (trainer' = "collect" \/ trainer' = "waitValid")
  <2>1. Consumed' = Consumed
    <3> DEFINE a == version * SamplesPerSync
               b == (local_trigger_step - 1) * RequiredSamples
    <3>1. /\ a \in Int /\ b \in Int /\ RequiredSamples \in Nat /\ SamplesPerSync \in Nat
          /\ Len(<< >>) = 0 /\ TriggerSyncStep \in Nat
      BY <1>7, Sizes
    <3>2. Consumed = a + b + RequiredSamples
      BY <1>10 DEF Consumed
    <3>3. CASE version' = version /\ local_trigger_step' = local_trigger_step + 1
      <4>1. Consumed' = a + ((local_trigger_step + 1) - 1) * RequiredSamples + 0
        BY <1>10, <3>1, <3>3 DEF Consumed, SamplesPerSync
      <4>2. (local_trigger_step + 1) - 1 = (local_trigger_step - 1) + 1
            /\ local_trigger_step - 1 \in Int
        BY <1>7
      <4>3. ((local_trigger_step - 1) + 1) * RequiredSamples = b + RequiredSamples
        BY <1>7, <3>1, <4>2, Products
      <4> HIDE DEF a, b
      <4>4. QED
        BY <3>1, <3>2, <4>1, <4>2, <4>3
    <3>4. CASE /\ version' = version + 1 /\ local_trigger_step = TriggerSyncStep
               /\ local_trigger_step' = 1
      <4>1. Consumed' = (version + 1) * SamplesPerSync + (1 - 1) * RequiredSamples + 0
        BY <1>10, <3>1, <3>4 DEF Consumed, SamplesPerSync
      <4>2. (version + 1) * SamplesPerSync = a + SamplesPerSync
        BY <1>7, <3>1, Products
      <4>3. (1 - 1) * RequiredSamples = 0
        BY <3>1
      <4>4. b + RequiredSamples = SamplesPerSync
        <5>1. (TriggerSyncStep - 1) + 1 = TriggerSyncStep /\ TriggerSyncStep - 1 \in Int
          BY <3>1
        <5>2. ((TriggerSyncStep - 1) + 1) * RequiredSamples
                 = (TriggerSyncStep - 1) * RequiredSamples + RequiredSamples
          BY <3>1, <5>1, Products
        <5>3. TriggerSyncStep * RequiredSamples = SamplesPerSync
          BY <3>1, Products DEF SamplesPerSync
        <5>4. QED
          BY <3>4, <5>1, <5>2, <5>3
      <4> HIDE DEF a, b
      <4>5. QED
        BY <3>1, <3>2, <4>1, <4>2, <4>3, <4>4
    <3>5. QED
      BY <1>10, <3>3, <3>4, TrainerSteps DEF Inv2
  <2>2. Range(batch') = {}
    BY <1>10 DEF Range
  <2>3. QED
    BY <1>4, <1>5, <1>6, <1>10, <2>1, <2>2 DEF QueueFresh, BatchFresh
<1>11. CASE UNCHANGED <<mq, batch, local_trigger_step, version>>
  BY <1>4, <1>5, <1>6, <1>11 DEF QueueFresh, BatchFresh, Consumed, SamplesPerSync
<1>12. QED
  BY <1>3, <1>9, <1>10, <1>11, TrainerSteps DEF Inv2, Closed

LEMMA LabelStep == Inv2 /\ LabelInv /\ [Next]_vars => LabelInv'
<1> SUFFICES ASSUME Inv2, LabelInv, [Next]_vars PROVE LabelInv'
  OBVIOUS
<1>1. CASE UNCHANGED <<label, putting, mq, syncVars, trainVars>>
  BY <1>1 DEF LabelInv, PuttingFresh, QueueFresh, BatchFresh, LastUse, SamplesPerSync, Consumed,
     Closed, syncVars, trainVars
<1>2. CASE Main
  <2>1. UNCHANGED <<label, putting, syncVars, trainVars>>
    BY <1>2, MainFrame DEF taskVars
  <2>2. CASE MainSendsEnd
    <3>1. PutSample(EndSignal) /\ UNCHANGED <<label, version, local_trigger_step, batch>>
      BY <2>1, <2>2 DEF MainSendsEnd, trainVars
    <3>2. QueueFresh => QueueFresh'
      BY <3>1, QueueFreshPut
    <3>3. QED
      BY <2>1, <3>2 DEF LabelInv, PuttingFresh, BatchFresh, LastUse, SamplesPerSync, Closed,
         syncVars, trainVars
  <2>3. CASE MainQueues \/ MainStops
    BY <1>1, <2>1, <2>3 DEF MainQueues, MainStops, queueVars
  <2>4. QED
    BY <1>2, <2>2, <2>3 DEF Main
<1>3. FeedSamples \/ Processor \/ Monitor \/ UNCHANGED vars
         => UNCHANGED <<label, putting, mq, syncVars, trainVars>>
  BY OthersFrame, ProcFrame, MonitorFrame DEF FeedSamples, taskVars, queueVars, vars
<1>4. QED
  BY <1>1, <1>2, <1>3, LabelTask, LabelSync, LabelTrainer DEF Next, Terminated

LEMMA AgeFromInv == Inv2 /\ StaleInv /\ LabelInv => AgeBounded
<1> SUFFICES ASSUME Inv2, StaleInv, LabelInv PROVE AgeBounded
  OBVIOUS
<1>1. Cardinality(Outstanding) <= MaxRequiredSamples + 1
  BY DEF StaleInv
<1>2. ASSUME NEW s \in Range(batch)
      PROVE  (version - label[s] - 2) * SamplesPerSync < MaxRequiredSamples
  <2>1. ~Closed
    <3>1. batch # << >>
      BY <1>2 DEF Range
    <3>2. QED
      BY <3>1 DEF Closed, Inv2, BatchInv
  <2>2. version * SamplesPerSync + 1 <= LastUse(s)
    BY <1>2, <2>1 DEF LabelInv, BatchFresh
  <2>3. s \in Samples
    BY <1>2, RangeType DEF Inv2, Inv1, TypeOK
  <2>4. label[s] \in Nat /\ version \in Nat /\ SamplesPerSync \in Nat /\ MaxRequiredSamples \in Nat
    BY <2>3, Sizes DEF Inv2, Inv1, TypeOK
  <2> DEFINE k == SamplesPerSync
             d == version - label[s] - 2
             e == label[s] + 2
  <2>5. d \in Int /\ e \in Int /\ d + e = version /\ d * k \in Int /\ e * k \in Int
    BY <2>4
  <2>6. LastUse(s) = e * k + MaxRequiredSamples
    BY DEF LastUse
  <2>7. version * k = d * k + e * k
    BY <2>4, <2>5, Products
  <2> HIDE DEF d, e, k
  <2>8. version * k + 1 <= e * k + MaxRequiredSamples
    BY <2>2, <2>6 DEF k
  <2>9. d * k < MaxRequiredSamples
    BY <2>4, <2>5, <2>7, <2>8
  <2>10. QED
    BY <2>9 DEF d, k
<1>3. QED
  BY <1>1, <1>2 DEF AgeBounded

(* Freshness control: max_required_samples + 1 bounds what is outstanding, *)
(* and with the versions it bounds how old the weights are that completed  *)
(* a sample of the trainer's batch, whatever the monitor, the pauses and   *)
(* the recount of update_param_version do in between.                      *)
THEOREM Fresh == Spec => []AgeBounded
<1> DEFINE I == Inv2 /\ LockInv /\ StaleInv /\ LabelInv
<1>1. Init => I
  BY Inv2Init, LockInit, StaleInit, LabelInit
<1>2. I /\ [Next]_vars => I'
  BY Inv2Step, LockStep, StaleStep, LabelStep DEF Inv2
<1>3. I => AgeBounded
  BY AgeFromInv
<1> HIDE DEF I
<1>4. QED
  BY <1>1, <1>2, <1>3, PTL DEF Spec

-----------------------------------------------------------------------------
(* Where every sample is.                                                  *)
Alone(x) ==
    /\ x \in Range(cancel_queue) =>
         /\ x # held /\ x \notin generating /\ x \notin bounced /\ x \notin putting
         /\ x \notin Range(mq) /\ x \notin Range(batch)
         /\ x \notin dropped /\ x \notin trained /\ x \notin discarded
    /\ x = held =>
         /\ x \notin generating /\ x \notin bounced /\ x \notin putting
         /\ x \notin Range(mq) /\ x \notin Range(batch)
         /\ x \notin dropped /\ x \notin trained /\ x \notin discarded
    /\ x \in generating =>
         /\ x \notin bounced /\ x \notin putting /\ x \notin Range(mq) /\ x \notin Range(batch)
         /\ x \notin dropped /\ x \notin trained /\ x \notin discarded
    /\ x \in bounced =>
         /\ x \notin putting /\ x \notin Range(mq) /\ x \notin Range(batch)
         /\ x \notin dropped /\ x \notin trained /\ x \notin discarded
    /\ x \in putting =>
         /\ x \notin Range(mq) /\ x \notin Range(batch)
         /\ x \notin dropped /\ x \notin trained /\ x \notin discarded
    /\ x \in Range(mq) =>
         /\ x \notin Range(batch) /\ x \notin dropped /\ x \notin trained /\ x \notin discarded
    /\ x \in Range(batch) => x \notin dropped /\ x \notin trained /\ x \notin discarded
    /\ x \in dropped => x \notin trained /\ x \notin discarded
    /\ x \in trained => x \notin discarded

Absent(x) ==
    /\ x \notin Range(cancel_queue) /\ x # held /\ x \notin generating /\ x \notin bounced
    /\ x \notin putting /\ x \notin Range(mq) /\ x \notin Range(batch)
    /\ x \notin dropped /\ x \notin trained /\ x \notin discarded

Lost == {x \in Samples : x <= Taken /\ Absent(x)}
NoDup(q) == \A i, j \in 1..Len(q) : q[i] = q[j] => i = j

PlaceInv ==
    /\ \A x \in Samples : Alone(x)
    /\ \A x \in Samples : x > Taken => Absent(x)
    /\ NoDup(cancel_queue) /\ NoDup(mq) /\ NoDup(batch)
    /\ Cardinality(Lost) = faults

(* None is put once, after the processor has ended, and the trainer        *)
(* collects until it has fetched it.                                       *)
EndInv ==
    /\ main = "wait" => EndSignal \notin Range(mq) /\ EndSignal \notin dropped /\ ~Closed
    /\ EndSignal \in Range(mq) => EndSignal \notin dropped /\ ~Closed
    /\ EndSignal \in dropped => ~Closed

LEMMA NoDupTail ==
    ASSUME NEW S, NEW q \in Seq(S), q # << >>, NoDup(q)
    PROVE  NoDup(Tail(q)) /\ Head(q) \notin Range(Tail(q))
<1>1. /\ Tail(q) \in Seq(S) /\ Len(q) \in Nat /\ Len(q) >= 1 /\ Len(Tail(q)) = Len(q) - 1
      /\ \A i \in 1..Len(Tail(q)) : Tail(q)[i] = q[i + 1]
      /\ DOMAIN Tail(q) = 1..Len(Tail(q)) /\ Head(q) = q[1]
  BY TailType, RangeType, HeadTailProperties
<1>2. ASSUME NEW i \in 1..Len(Tail(q)), NEW j \in 1..Len(Tail(q)), Tail(q)[i] = Tail(q)[j]
      PROVE  i = j
  <2>1. i + 1 \in 1..Len(q) /\ j + 1 \in 1..Len(q) /\ q[i + 1] = q[j + 1]
    BY <1>1, <1>2
  <2>2. i + 1 = j + 1
    BY <2>1 DEF NoDup
  <2>3. QED
    BY <2>2
<1>3. ASSUME NEW i \in 1..Len(Tail(q)), Head(q) = Tail(q)[i]
      PROVE  FALSE
  <2>1. i + 1 \in 1..Len(q) /\ 1 \in 1..Len(q) /\ q[i + 1] = q[1]
    BY <1>1, <1>3
  <2>2. i + 1 = 1
    BY <2>1 DEF NoDup
  <2>3. QED
    BY <2>2
<1>4. Head(q) \notin Range(Tail(q))
  BY <1>1, <1>3 DEF Range
<1>5. QED
  BY <1>2, <1>4 DEF NoDup

LEMMA NoDupAppend ==
    ASSUME NEW S, NEW q \in Seq(S), NEW m \in S, NoDup(q), m \notin Range(q)
    PROVE  NoDup(Append(q, m))
<1>1. /\ Len(q) \in Nat /\ DOMAIN q = 1..Len(q) /\ Len(Append(q, m)) = Len(q) + 1
      /\ \A i \in 1..Len(q) : Append(q, m)[i] = q[i]
      /\ Append(q, m)[Len(q) + 1] = m
  BY RangeType, AppendProperties
<1>2. \A i \in 1..Len(q) : q[i] # m
  BY <1>1 DEF Range
<1>3. SUFFICES ASSUME NEW i \in 1..Len(q) + 1, NEW j \in 1..Len(q) + 1,
                      Append(q, m)[i] = Append(q, m)[j]
               PROVE  i = j
  BY <1>1 DEF NoDup
<1>4. CASE i \in 1..Len(q) /\ j \in 1..Len(q)
  BY <1>1, <1>3, <1>4 DEF NoDup
<1>5. CASE i = Len(q) + 1 /\ j \in 1..Len(q)
  BY <1>1, <1>2, <1>3, <1>5
<1>6. CASE i \in 1..Len(q) /\ j = Len(q) + 1
  BY <1>1, <1>2, <1>3, <1>6
<1>7. CASE i = Len(q) + 1 /\ j = Len(q) + 1
  BY <1>7
<1>8. QED
  BY <1>1, <1>3, <1>4, <1>5, <1>6, <1>7

(* put_sample moves the sample into the queue and at most the oldest one   *)
(* out of it.                                                              *)
LEMMA PutPlaces ==
    ASSUME NEW S, mq \in Seq(S), NEW m \in S, PutSample(m), NoDup(mq), m \notin Range(mq)
    PROVE  /\ NoDup(mq')
           /\ \/ Range(mq') = Range(mq) \cup {m} /\ dropped' = dropped
              \/ \E h \in Range(mq) :
                    /\ Range(mq') = (Range(mq) \ {h}) \cup {m}
                    /\ dropped' = dropped \cup {h} /\ h # m
                    /\ mq # << >> /\ h = Head(mq)
<1>1. \A q \in Seq(S) : Range(Append(q, m)) = Range(q) \cup {m}
  BY AppendType
<1>2. CASE ~(Len(mq) >= MaxQueueSize)
  <2>1. mq' = Append(mq, m) /\ dropped' = dropped
    BY <1>2 DEF PutSample
  <2>2. Range(mq') = Range(mq) \cup {m}
    BY <1>1, <2>1
  <2>3. NoDup(mq')
    BY <2>1, NoDupAppend
  <2>4. QED
    BY <2>1, <2>2, <2>3
<1>3. CASE Len(mq) >= MaxQueueSize
  <2>1. mq' = Append(Tail(mq), m) /\ dropped' = dropped \cup {Head(mq)}
    BY <1>3 DEF PutSample
  <2>2. mq # << >>
    <3>1. Len(<< >>) = 0 /\ MaxQueueSize \in Nat /\ MaxQueueSize >= 1
      BY Sizes
    <3>2. QED
      BY <1>3, <3>1
  <2>3. /\ Tail(mq) \in Seq(S) /\ Range(mq) = {Head(mq)} \cup Range(Tail(mq))
        /\ NoDup(Tail(mq)) /\ Head(mq) \notin Range(Tail(mq))
    BY <2>2, TailType, NoDupTail
  <2>4. Range(mq') = Range(Tail(mq)) \cup {m}
    BY <1>1, <2>1, <2>3, Zenon
  <2>5. NoDup(mq')
    <3>1. m \notin Range(Tail(mq))
      BY <2>3
    <3>2. \A q \in Seq(S) : NoDup(q) /\ m \notin Range(q) => NoDup(Append(q, m))
      BY NoDupAppend
    <3>3. QED
      BY <2>1, <2>3, <3>1, <3>2, Zenon
  <2>6. Head(mq) \in Range(mq) /\ Head(mq) # m
    BY <2>3
  <2>7. Range(mq') = (Range(mq) \ {Head(mq)}) \cup {m}
    BY <2>3, <2>4
  <2>8. QED
    BY <2>1, <2>2, <2>5, <2>6, <2>7
<1>4. QED
  BY <1>2, <1>3

LEMMA PlaceInit == Init => PlaceInv /\ EndInv
<1> SUFFICES ASSUME Init PROVE PlaceInv /\ EndInv
  OBVIOUS
<1>1. /\ Range(cancel_queue) = {} /\ Range(mq) = {} /\ Range(batch) = {}
      /\ Len(cancel_queue) = 0 /\ Len(mq) = 0 /\ Len(batch) = 0
  BY DEF Init, Range
<1>2. \A x \in Samples : Absent(x)
  BY <1>1, Ends DEF Init, Absent
<1>3. \A x \in Samples : Alone(x)
  BY <1>2 DEF Absent, Alone
<1>4. Taken = 0
  <2>1. fed \in Nat /\ fed = SmallerOf(PendingMax, TotalSamples + 1)
    BY Sizes DEF Init, SmallerOf
  <2>2. pending_queue = [i \in 1..fed |-> IF i <= TotalSamples THEN i ELSE EndSignal]
    BY <2>1 DEF Init, Fed
  <2>3. QED
    BY <2>1, <2>2 DEF Taken
<1>5. Lost = {}
  BY <1>4 DEF Lost, Samples
<1>6. Cardinality(Lost) = faults
  BY <1>5, FS_EmptySet DEF Init
<1>7. NoDup(cancel_queue) /\ NoDup(mq) /\ NoDup(batch)
  BY <1>1 DEF NoDup
<1>8. EndInv
  BY <1>1, Ends DEF EndInv, Init, Closed
<1>9. QED
  BY <1>2, <1>3, <1>6, <1>7, <1>8 DEF PlaceInv

(* When nobody appears or disappears.                                      *)
LEMMA NobodyLost ==
    ASSUME PlaceInv, Taken' = Taken, faults' = faults,
           \A x \in Samples : Alone(x)' /\ (Absent(x)' <=> Absent(x)),
           NoDup(cancel_queue') /\ NoDup(mq') /\ NoDup(batch')
    PROVE  PlaceInv'
<1>1. Lost' = Lost
  BY DEF Lost, Samples
<1>2. QED
  BY <1>1 DEF PlaceInv, NoDup, Samples

LEMMA PlaceProc ==
    ASSUME Inv1, FeederInv, PlaceInv, Processor
    PROVE  PlaceInv'
<1>1. /\ UNCHANGED <<fed, mq, batch, putting, dropped, trained, discarded, faults>>
      /\ cancel_queue \in Seq(Samples) /\ pending_queue \in Seq(Samples \cup {EndSignal})
      /\ Nobody \notin Samples /\ EndSignal \notin Samples
  BY ProcFrame, Ends DEF Inv1, TypeOK
<1>2. CASE /\ Holds(held) /\ UNCHANGED <<pending_queue, cancel_queue>>
  BY <1>1, <1>2, NobodyLost DEF PlaceInv, Holds, Alone, Absent, Taken
<1>3. CASE /\ Submits(held) /\ UNCHANGED <<pending_queue, cancel_queue>>
  <2>1. held \in Samples /\ held' = Nobody
        /\ \/ generating' = generating \cup {held} /\ bounced' = bounced
           \/ generating' = generating /\ bounced' = bounced \cup {held}
    BY <1>3 DEF Submits
  <2>2. \A x \in Samples : Alone(x)' /\ (Absent(x)' <=> Absent(x))
    BY <1>1, <1>3, <2>1 DEF PlaceInv, Alone, Absent
  <2>3. Taken' = Taken
    BY <1>1, <1>3 DEF Taken
  <2>4. QED
    BY <1>1, <1>3, <2>2, <2>3, NobodyLost DEF PlaceInv
<1>4. CASE /\ cancel_queue # << >> /\ held = Nobody
           /\ Holds(Head(cancel_queue)) \/ Submits(Head(cancel_queue))
           /\ cancel_queue' = Tail(cancel_queue) /\ pending_queue' = pending_queue
  <2> DEFINE h == Head(cancel_queue)
  <2>1. /\ Range(cancel_queue) = {h} \cup Range(cancel_queue') /\ h \notin Range(cancel_queue')
        /\ NoDup(cancel_queue') /\ h \in Samples
    BY <1>1, <1>4, TailType, NoDupTail DEF PlaceInv
  <2>2. \/ held' = h /\ generating' = generating /\ bounced' = bounced
        \/ held' = Nobody /\ generating' = generating \cup {h} /\ bounced' = bounced
        \/ held' = Nobody /\ generating' = generating /\ bounced' = bounced \cup {h}
    BY <1>4 DEF Holds, Submits
  <2> HIDE DEF h
  <2>3. \A x \in Samples : Alone(x)' /\ (Absent(x)' <=> Absent(x))
    BY <1>1, <1>4, <2>1, <2>2 DEF PlaceInv, Alone, Absent
  <2>4. Taken' = Taken
    BY <1>1, <1>4 DEF Taken
  <2>5. QED
    BY <1>1, <2>1, <2>3, <2>4, NobodyLost DEF PlaceInv
<1>5. CASE /\ pending_queue # << >> /\ held = Nobody
           /\ Holds(Head(pending_queue)) \/ Submits(Head(pending_queue))
           /\ pending_queue' = Tail(pending_queue) /\ cancel_queue' = cancel_queue
  <2> DEFINE h == Head(pending_queue)
  <2>1. /\ Taken' = Taken + 1 /\ h = Stream(Taken + 1) /\ Taken \in Nat
    BY <1>1, <1>5, FeederTake, FeederTyped
  <2>2. \A x \in Samples : x \in Nat /\ (x = Taken + 1 <=> x = h)
    BY <2>1, Sizes DEF Stream, Samples, EndSignal
  <2>3. \/ held' = h /\ generating' = generating /\ bounced' = bounced
        \/ held' = Nobody /\ generating' = generating \cup {h} /\ bounced' = bounced
        \/ held' = Nobody /\ generating' = generating /\ bounced' = bounced \cup {h}
    BY <1>5 DEF Holds, Submits
  <2> HIDE DEF h
  <2>4. \A x \in Samples : x > Taken => Absent(x)
    BY DEF PlaceInv
  <2>5. \A x \in Samples : x = h => Absent(x)
    BY <2>1, <2>2, <2>4
  <2>6. \A x \in Samples : Alone(x)' /\ (Absent(x)' <=> Absent(x) /\ x # h)
    BY <1>1, <1>5, <2>3, <2>5 DEF PlaceInv, Alone, Absent
  <2>7. \A x \in Samples : x > Taken' => x > Taken /\ x # h
    BY <2>1, <2>2
  <2>8. Lost' = Lost
    <3>1. \A x \in Samples : (x <= Taken' /\ Absent(x)') <=> (x <= Taken /\ Absent(x))
      BY <2>1, <2>2, <2>6
    <3>2. QED
      BY <3>1 DEF Lost, Samples
  <2>9. \A x \in Samples : x > Taken' => Absent(x)'
    BY <2>4, <2>6, <2>7
  <2>10. QED
    BY <1>1, <1>5, <2>6, <2>8, <2>9 DEF PlaceInv, NoDup, Samples
<1>6. QED
  BY <1>2, <1>3, <1>4, <1>5, ProcEffect

LEMMA PlacePut ==
    ASSUME Inv1, PlaceInv, NEW s \in Samples, TaskPut(s)
    PROVE  PlaceInv'
<1>1. /\ s \in putting /\ putting' = putting \ {s} /\ PutSample(s)
      /\ UNCHANGED <<fed, pending_queue, cancel_queue, held, generating, bounced, batch, trained,
                     discarded, faults>>
      /\ mq \in Seq(Samples \cup {EndSignal})
  BY DEF TaskPut, feedVars, procVars, trainVars, Inv1, TypeOK
<1>2. s \notin Range(mq)
  BY <1>1 DEF PlaceInv, Alone
<1>3. /\ NoDup(mq')
      /\ \/ Range(mq') = Range(mq) \cup {s} /\ dropped' = dropped
         \/ \E h \in Range(mq) :
               /\ Range(mq') = (Range(mq) \ {h}) \cup {s}
               /\ dropped' = dropped \cup {h} /\ h # s
  BY <1>1, <1>2, PutPlaces DEF PlaceInv
<1>4. Taken' = Taken
  BY <1>1 DEF Taken
<1>5. \A x \in Samples : Alone(x)' /\ (Absent(x)' <=> Absent(x))
  <2>1. CASE Range(mq') = Range(mq) \cup {s} /\ dropped' = dropped
    BY <1>1, <2>1 DEF PlaceInv, Alone, Absent
  <2>2. CASE \E h \in Range(mq) :
               /\ Range(mq') = (Range(mq) \ {h}) \cup {s}
               /\ dropped' = dropped \cup {h} /\ h # s
    <3>1. PICK h \in Range(mq) :
               /\ Range(mq') = (Range(mq) \ {h}) \cup {s}
               /\ dropped' = dropped \cup {h} /\ h # s
      BY <2>2
    <3>2. QED
      BY <1>1, <3>1 DEF PlaceInv, Alone, Absent
  <2>3. QED
    BY <1>3, <2>1, <2>2
<1>6. QED
  BY <1>1, <1>3, <1>4, <1>5, NobodyLost DEF PlaceInv

LEMMA PlaceTask ==
    ASSUME Inv1, FeederInv, PlaceInv, NEW s \in Samples, Task(s)
    PROVE  PlaceInv'
<1>1. UNCHANGED <<fed, pending_queue, held, batch, trained, discarded>> /\ Taken' = Taken
  BY TaskFrame DEF feedVars, procVars, trainVars, Taken
<1>2. CASE TaskGenerated(s) \/ TaskReachesServer(s)
  <2>1. /\ UNCHANGED <<mq, dropped, cancel_queue, faults>>
        /\ \/ /\ s \in generating /\ generating' = generating \ {s}
              /\ putting' = putting \cup {s} /\ bounced' = bounced
           \/ /\ s \in bounced /\ bounced' = bounced \ {s}
              /\ generating' = generating \cup {s} /\ putting' = putting
    BY <1>2 DEF TaskGenerated, TaskReachesServer, queueVars
  <2>2. \A x \in Samples : Alone(x)' /\ (Absent(x)' <=> Absent(x))
    BY <1>1, <2>1 DEF PlaceInv, Alone, Absent
  <2>3. QED
    BY <1>1, <2>1, <2>2, NobodyLost DEF PlaceInv
<1>3. CASE TaskPut(s)
  BY <1>3, PlacePut
<1>4. CASE TaskCancelled(s)
  <2>1. /\ UNCHANGED <<mq, dropped, putting, faults>> /\ s \in generating \cup bounced
        /\ generating' = generating \ {s} /\ bounced' = bounced \ {s}
        /\ cancel_queue' = Append(cancel_queue, s) /\ cancel_queue \in Seq(Samples)
    BY <1>4 DEF TaskCancelled, queueVars, Inv1, TypeOK
  <2>2. s \notin Range(cancel_queue)
    BY <2>1 DEF PlaceInv, Alone
  <2>3. Range(cancel_queue') = Range(cancel_queue) \cup {s} /\ NoDup(cancel_queue')
    BY <2>1, <2>2, AppendType, NoDupAppend DEF PlaceInv
  <2>4. \A x \in Samples : Alone(x)' /\ (Absent(x)' <=> Absent(x))
    BY <1>1, <2>1, <2>3 DEF PlaceInv, Alone, Absent
  <2>5. QED
    BY <1>1, <2>1, <2>3, <2>4, NobodyLost DEF PlaceInv
<1>5. CASE TaskRaised(s)
  <2>1. /\ UNCHANGED <<mq, dropped, putting, bounced, cancel_queue>> /\ s \in generating
        /\ generating' = generating \ {s} /\ faults' = faults + 1
    BY <1>5 DEF TaskRaised, queueVars
  <2>2. \A x \in Samples : Alone(x)' /\ (Absent(x)' <=> Absent(x) \/ x = s)
    BY <1>1, <2>1 DEF PlaceInv, Alone, Absent
  <2>3. ~Absent(s) /\ s <= Taken
    <3>1. ~Absent(s)
      BY <2>1 DEF Absent
    <3>2. s \in Nat /\ Taken \in Nat
      BY Ends, FeederTyped
    <3>3. QED
      BY <3>1, <3>2 DEF PlaceInv
  <2>4. Lost' = Lost \cup {s} /\ s \notin Lost
    BY <1>1, <2>2, <2>3 DEF Lost, Samples
  <2>5. IsFiniteSet(Lost)
    BY Ends, FS_Subset DEF Lost
  <2>6. Cardinality(Lost') = Cardinality(Lost) + 1
    BY <2>4, <2>5, FS_AddElement
  <2>7. \A x \in Samples : x > Taken => Absent(x)'
    BY <2>2 DEF PlaceInv
  <2>8. QED
    BY <1>1, <2>1, <2>2, <2>6, <2>7 DEF PlaceInv, NoDup, Samples
<1>6. QED
  BY <1>2, <1>3, <1>4, <1>5 DEF Task

LEMMA PlaceTrainer ==
    ASSUME Inv2, PlaceInv, Trainer
    PROVE  PlaceInv'
<1>1. /\ UNCHANGED <<fed, pending_queue, cancel_queue, held, generating, bounced, putting,
                     dropped, faults>>
      /\ Taken' = Taken
      /\ mq \in Seq(Samples \cup {EndSignal}) /\ batch \in Seq(Samples)
      /\ EndSignal \notin Samples
  BY TrainerFrame, Ends DEF feedVars, procVars, taskVars, Taken, Inv2, Inv1, TypeOK
<1>2. mq # << >> => /\ Range(mq) = {Head(mq)} \cup Range(Tail(mq)) /\ NoDup(Tail(mq))
                    /\ Head(mq) \notin Range(Tail(mq))
  BY <1>1, TailType, NoDupTail DEF PlaceInv
<1>3. NoDup(<< >>) /\ Range(<< >>) = {}
  BY DEF NoDup, Range
<1>4. CASE /\ mq # << >> /\ Head(mq) = EndSignal /\ mq' = Tail(mq) /\ batch' = << >>
           /\ discarded' = discarded \cup Range(batch) /\ trained' = trained
  <2>1. \A x \in Samples : Alone(x)' /\ (Absent(x)' <=> Absent(x))
    BY <1>1, <1>2, <1>3, <1>4 DEF PlaceInv, Alone, Absent
  <2>2. QED
    BY <1>1, <1>2, <1>3, <1>4, <2>1, NobodyLost DEF PlaceInv
<1>5. CASE /\ mq # << >> /\ Head(mq) \in Samples /\ mq' = Tail(mq)
           /\ batch' = Append(batch, Head(mq)) /\ Range(batch') = Range(batch) \cup {Head(mq)}
           /\ UNCHANGED <<trained, discarded>>
  <2>1. Head(mq) \notin Range(batch)
    BY <1>2, <1>5 DEF PlaceInv, Alone
  <2>2. NoDup(batch')
    BY <1>1, <1>5, <2>1, NoDupAppend DEF PlaceInv
  <2>3. \A x \in Samples : Alone(x)' /\ (Absent(x)' <=> Absent(x))
    BY <1>1, <1>2, <1>5 DEF PlaceInv, Alone, Absent
  <2>4. QED
    BY <1>1, <1>2, <1>5, <2>2, <2>3, NobodyLost DEF PlaceInv
<1>6. CASE batch' = << >> /\ trained' = trained \cup Range(batch) /\ UNCHANGED <<mq, discarded>>
  <2>1. \A x \in Samples : Alone(x)' /\ (Absent(x)' <=> Absent(x))
    BY <1>1, <1>3, <1>6 DEF PlaceInv, Alone, Absent
  <2>2. QED
    BY <1>1, <1>3, <1>6, <2>1, NobodyLost DEF PlaceInv
<1>7. CASE UNCHANGED <<mq, batch, trained, discarded>>
  <2>1. \A x \in Samples : Alone(x)' /\ (Absent(x)' <=> Absent(x))
    BY <1>1, <1>7 DEF PlaceInv, Alone, Absent
  <2>2. QED
    BY <1>1, <1>7, <2>1, NobodyLost DEF PlaceInv
<1>8. QED
  BY <1>4, <1>5, <1>6, <1>7, TrainerSteps DEF Inv2

LEMMA PlaceMain ==
    ASSUME Inv1, PlaceInv, EndInv, Main
    PROVE  PlaceInv'
<1>1. /\ UNCHANGED <<fed, pending_queue, cancel_queue, held, generating, bounced, putting,
                     batch, trained, discarded, faults>>
      /\ Taken' = Taken /\ mq \in Seq(Samples \cup {EndSignal}) /\ EndSignal \notin Samples
  BY MainFrame, Ends DEF feedVars, procVars, taskVars, trainVars, Taken, Inv1, TypeOK
<1>2. CASE MainSendsEnd
  <2>1. PutSample(EndSignal) /\ EndSignal \notin Range(mq)
    BY <1>2 DEF MainSendsEnd, EndInv
  <2>2. /\ NoDup(mq')
        /\ \/ Range(mq') = Range(mq) \cup {EndSignal} /\ dropped' = dropped
           \/ \E h \in Range(mq) :
                 /\ Range(mq') = (Range(mq) \ {h}) \cup {EndSignal}
                 /\ dropped' = dropped \cup {h} /\ h # EndSignal
    BY <1>1, <2>1, PutPlaces DEF PlaceInv
  <2>3. \A x \in Samples : Alone(x)' /\ (Absent(x)' <=> Absent(x))
    <3>1. CASE Range(mq') = Range(mq) \cup {EndSignal} /\ dropped' = dropped
      BY <1>1, <3>1 DEF PlaceInv, Alone, Absent
    <3>2. CASE \E h \in Range(mq) :
                 /\ Range(mq') = (Range(mq) \ {h}) \cup {EndSignal}
                 /\ dropped' = dropped \cup {h} /\ h # EndSignal
      <4>1. PICK h \in Range(mq) :
                 /\ Range(mq') = (Range(mq) \ {h}) \cup {EndSignal}
                 /\ dropped' = dropped \cup {h} /\ h # EndSignal
        BY <3>2
      <4>2. QED
        BY <1>1, <4>1 DEF PlaceInv, Alone, Absent
    <3>3. QED
      BY <2>2, <3>1, <3>2
  <2>4. QED
    BY <1>1, <2>2, <2>3, NobodyLost DEF PlaceInv
<1>3. CASE MainQueues \/ MainStops
  <2>1. UNCHANGED <<mq, dropped>>
    BY <1>3 DEF MainQueues, MainStops, queueVars
  <2>2. \A x \in Samples : Alone(x)' /\ (Absent(x)' <=> Absent(x))
    BY <1>1, <2>1 DEF PlaceInv, Alone, Absent
  <2>3. QED
    BY <1>1, <2>1, <2>2, NobodyLost DEF PlaceInv
<1>4. QED
  BY <1>2, <1>3 DEF Main

LEMMA PlaceStep == Inv2 /\ FeederInv /\ PlaceInv /\ EndInv /\ [Next]_vars => PlaceInv'
<1> SUFFICES ASSUME Inv2, FeederInv, PlaceInv, EndInv, [Next]_vars PROVE PlaceInv'
  OBVIOUS
<1>1. CASE FeedSamples
  <2>1. /\ UNCHANGED <<cancel_queue, held, generating, bounced, putting, mq, dropped, batch,
                       trained, discarded, faults>>
        /\ Taken' = Taken
    BY <1>1, FeederFeed DEF FeedSamples, procVars, taskVars, queueVars, trainVars, Inv2
  <2>2. \A x \in Samples : Alone(x)' /\ (Absent(x)' <=> Absent(x))
    BY <2>1 DEF PlaceInv, Alone, Absent
  <2>3. QED
    BY <2>1, <2>2, NobodyLost DEF PlaceInv
<1>2. CASE Monitor \/ Sync \/ UNCHANGED vars
  <2>1. /\ UNCHANGED <<cancel_queue, held, generating, bounced, putting, mq, dropped, batch,
                       trained, discarded, faults>>
        /\ Taken' = Taken
    BY <1>2, MonitorFrame, SyncFrame DEF procVars, taskVars, queueVars, trainVars, feedVars, vars,
       Taken
  <2>2. \A x \in Samples : Alone(x)' /\ (Absent(x)' <=> Absent(x))
    BY <2>1 DEF PlaceInv, Alone, Absent
  <2>3. QED
    BY <2>1, <2>2, NobodyLost DEF PlaceInv
<1>3. QED
  BY <1>1, <1>2, PlaceProc, PlaceTask, PlaceTrainer, PlaceMain DEF Next, Terminated, Inv2

LEMMA MainMoves ==
    ASSUME [Next]_vars
    PROVE  main' = main \/ (Main /\ main' # "wait")
<1>1. FeedSamples \/ Processor \/ Monitor \/ Sync \/ Trainer \/ (\E s \in Samples : Task(s))
        \/ UNCHANGED vars => main' = main
  BY ProcFrame, MonitorFrame, SyncFrame, TrainerFrame, TaskFrame
  DEF FeedSamples, otherVars, vars
<1>2. Main => main' # "wait"
  BY DEF Main, MainSendsEnd, MainQueues, MainStops
<1>3. QED
  BY <1>1, <1>2 DEF Next, Terminated

LEMMA ClosedMoves ==
    ASSUME Inv2, [Next]_vars
    PROVE  Closed' = Closed \/ (TrainerGets /\ Head(mq) = EndSignal /\ ~Closed /\ Closed')
<1>1. Closed \in BOOLEAN /\ Closed' \in BOOLEAN
  BY TypeStep DEF Closed, Inv2, Inv1, TypeOK
<1>2. CASE ~Trainer
  <2>1. final' = final /\ (trainer' = trainer
                            \/ (trainer = "syncing" /\ trainer' \in {"lastValid", "collect"}))
    <3>1. CASE Sync
      BY <3>1, SyncFrame DEF Sync, RpcQueues, PauseBegins, PauseEnds, TransferEnds, UpdateBegins,
         UpdateCounts, UpdateEnds, Resume, trainVars, Inv2, VersionInv
    <3>2. CASE UNCHANGED trainVars
      BY <3>2 DEF trainVars
    <3>3. QED
      BY <1>2, <3>1, <3>2, OthersFrame DEF Next, Terminated
  <2>2. QED
    BY <1>1, <2>1 DEF Closed
<1>3. CASE Trainer
  <2>1. CASE TrainerGets /\ Head(mq) = EndSignal
    <3>1. ~Closed /\ Closed'
      BY <2>1 DEF TrainerGets, Closed, Inv2, BatchInv
    <3>2. QED
      BY <2>1, <3>1
  <2>2. CASE ~(TrainerGets /\ Head(mq) = EndSignal)
    <3>1. Closed' <=> Closed
      BY <1>3, <2>2 DEF Trainer, TrainerGets, TrainerTrains, TrainerCloses, TrainerSyncs,
         TrainerFinishes, Closed, Inv2, BatchInv
    <3>2. QED
      BY <1>1, <3>1
  <2>3. QED
    BY <2>1, <2>2
<1>4. QED
  BY <1>2, <1>3

LEMMA EndStep == Inv2 /\ PlaceInv /\ EndInv /\ [Next]_vars => EndInv'
<1> SUFFICES ASSUME Inv2, PlaceInv, EndInv, [Next]_vars PROVE EndInv'
  OBVIOUS
<1>1. mq \in Seq(Samples \cup {EndSignal}) /\ EndSignal \notin Samples
  BY Ends DEF Inv2, Inv1, TypeOK
<1>2. main' = "wait" => main = "wait"
  BY MainMoves
<1>3. CASE mq' = mq /\ dropped' = dropped /\ Closed' = Closed
  BY <1>2, <1>3 DEF EndInv
<1>4. CASE mq # << >> /\ mq' = Tail(mq) /\ dropped' = dropped /\ TrainerGets
  <2>1. Range(mq) = {Head(mq)} \cup Range(mq') /\ Head(mq) \notin Range(mq')
    BY <1>1, <1>4, TailType, NoDupTail DEF PlaceInv
  <2>2. QED
    BY <1>2, <1>4, <2>1, ClosedMoves DEF EndInv
<1>5. ASSUME NEW s \in Samples, PutSample(s), TaskPut(s)
      PROVE  EndInv'
  <2>1. s \notin Range(mq)
    BY <1>5 DEF PlaceInv, Alone, TaskPut
  <2>2. \/ Range(mq') = Range(mq) \cup {s} /\ dropped' = dropped
        \/ \E h \in Range(mq) : /\ Range(mq') = (Range(mq) \ {h}) \cup {s}
                                /\ dropped' = dropped \cup {h}
    BY <1>1, <1>5, <2>1, PutPlaces DEF PlaceInv
  <2>3. Closed' = Closed
    BY <1>5, TaskFrame DEF Task, Closed, trainVars
  <2>4. QED
    BY <1>1, <1>2, <2>2, <2>3 DEF EndInv
<1>6. CASE PutSample(EndSignal) /\ MainSendsEnd
  <2>1. main = "wait" /\ main' # "wait" /\ Closed' = Closed
    BY <1>6 DEF MainSendsEnd, Closed, trainVars
  <2>2. EndSignal \notin Range(mq) /\ EndSignal \notin dropped /\ ~Closed
    BY <2>1 DEF EndInv
  <2>3. \/ Range(mq') = Range(mq) \cup {EndSignal} /\ dropped' = dropped
        \/ \E h \in Range(mq) : /\ dropped' = dropped \cup {h} /\ h # EndSignal
    BY <1>1, <1>6, <2>2, PutPlaces DEF PlaceInv
  <2>4. QED
    BY <2>1, <2>2, <2>3 DEF EndInv
<1>7. Closed' = Closed \/ TrainerGets
  BY ClosedMoves
<1>8. CASE mq' = mq /\ dropped' = dropped
  <2>1. ~TrainerGets
    <3>1. TrainerGets => mq # << >> /\ mq' = Tail(mq)
      BY DEF TrainerGets
    <3>2. mq # << >> => Len(Tail(mq)) = Len(mq) - 1 /\ Len(mq) \in Nat
      BY <1>1, TailType, RangeType
    <3>3. QED
      BY <1>8, <3>1, <3>2
  <2>2. QED
    BY <1>3, <1>7, <1>8, <2>1
<1>9. QED
  BY <1>4, <1>5, <1>6, <1>8, MqMoves DEF Inv2

(* The inductive invariant of the samples' way through the pipeline.       *)
Inv3 == Inv2 /\ FeederInv /\ PlaceInv /\ EndInv

LEMMA Inv3Init == Init => Inv3
BY Inv2Init, FeederInit, PlaceInit DEF Inv3

LEMMA Inv3Step == Inv3 /\ [Next]_vars => Inv3'
BY Inv2Step, FeederStep, PlaceStep, EndStep DEF Inv3, Inv2

-----------------------------------------------------------------------------
(* What the trainer has received, as the refinement mapping has it.        *)
Received == trained \cup discarded \cup Range(batch)
              \cup (IF trainer = "closing" \/ final THEN {EndSignal} ELSE {})

LEMMA EndKnown ==
    ASSUME Inv2
    PROVE  EndSignal \in Received <=> Closed
<1>1. trained \subseteq Samples /\ discarded \subseteq Samples /\ Range(batch) \subseteq Samples
      /\ EndSignal \notin Samples
  BY RangeType, Ends DEF Inv2, Inv1, TypeOK
<1>2. QED
  BY <1>1 DEF Received, Closed

LEMMA FifoStep ==
    ASSUME Inv3, [Next]_vars
    PROVE  [Fifo!FifoNext]_(Fifo!fifoVars)
<1>1. /\ mq \in Seq(Samples \cup {EndSignal}) /\ Len(mq) \in Nat /\ Len(mq) <= MaxQueueSize
      /\ EndSignal \notin Samples /\ MaxQueueSize \in Nat /\ batch \in Seq(Samples)
  BY RangeType, Ends, Sizes DEF Inv3, Inv2, Inv1, TypeOK, QueueInv
<1>2. SUFFICES \/ /\ mq' = mq /\ Received' = Received /\ dropped' = dropped
               \/ Fifo!FifoNext
  BY DEF Fifo!fifoVars, Received
<1>3. ASSUME NEW m \in Samples \cup {EndSignal}, PutSample(m), Received' = Received,
             m \notin Range(mq) \cup Received \cup dropped
      PROVE  Fifo!FifoNext
  <2>1. m \notin Fifo!Known
    BY <1>3 DEF Fifo!Known, Fifo!Range, Range, Received
  <2>2. \/ /\ Len(mq) < MaxQueueSize /\ mq' = Append(mq, m) /\ dropped' = dropped
        \/ /\ Len(mq) = MaxQueueSize /\ mq' = Append(Tail(mq), m)
           /\ dropped' = dropped \cup {Head(mq)}
    BY <1>1, <1>3 DEF PutSample
  <2>3. Fifo!Send(m)
    BY <1>3, <2>1, <2>2 DEF Fifo!Send, Received
  <2>4. QED
    BY <1>3, <2>3 DEF Fifo!FifoNext
<1>4. ASSUME NEW s \in Samples, PutSample(s), TaskPut(s)
      PROVE  Fifo!FifoNext
  <2>1. Received' = Received
    BY <1>4, TaskFrame DEF Task, trainVars, Received
  <2>2. s \notin Range(mq) \cup Received \cup dropped
    BY <1>1, <1>4 DEF Inv3, PlaceInv, Alone, TaskPut, Received
  <2>3. QED
    BY <1>3, <1>4, <2>1, <2>2
<1>5. CASE PutSample(EndSignal) /\ MainSendsEnd
  <2>1. Received' = Received /\ main = "wait"
    BY <1>5 DEF MainSendsEnd, trainVars, Received
  <2>2. EndSignal \notin Range(mq) \cup Received \cup dropped
    BY <2>1, EndKnown DEF Inv3, EndInv
  <2>3. QED
    BY <1>3, <1>5, <2>1, <2>2
<1>6. CASE TrainerGets
  <2>1. mq # << >> /\ mq' = Tail(mq) /\ dropped' = dropped /\ trained' = trained
        /\ final' = final /\ trainer = "collect" /\ ~final
    BY <1>6 DEF TrainerGets, Inv3, Inv2, BatchInv
  <2>2. Received' = Received \cup {Head(mq)}
    <3>1. CASE Head(mq) = EndSignal
      <4>1. batch' = << >> /\ discarded' = discarded \cup Range(batch) /\ trainer' = "closing"
        BY <1>6, <3>1 DEF TrainerGets
      <4>2. Range(<< >>) = {}
        BY DEF Range
      <4>3. QED
        BY <2>1, <3>1, <4>1, <4>2 DEF Received
    <3>2. CASE Head(mq) # EndSignal
      <4>1. /\ batch' = Append(batch, Head(mq)) /\ discarded' = discarded
            /\ trainer' # "closing"
        BY <1>6, <3>2 DEF TrainerGets
      <4>2. Head(mq) \in Samples
        BY <1>1, <2>1, <3>2, TailType
      <4>3. Range(batch') = Range(batch) \cup {Head(mq)}
        BY <1>1, <4>1, <4>2, AppendType
      <4>4. QED
        BY <2>1, <3>2, <4>1, <4>3 DEF Received
    <3>3. QED
      BY <3>1, <3>2
  <2>3. Fifo!Receive
    BY <2>1, <2>2 DEF Fifo!Receive, Received
  <2>4. QED
    BY <2>3 DEF Fifo!FifoNext
<1>7. CASE mq' = mq /\ dropped' = dropped
  <2>1. ~TrainerGets
    <3>1. TrainerGets => mq # << >> /\ mq' = Tail(mq)
      BY DEF TrainerGets
    <3>2. mq # << >> => Len(Tail(mq)) = Len(mq) - 1 /\ Len(mq) \in Nat
      BY <1>1, TailType, RangeType
    <3>3. QED
      BY <1>7, <3>1, <3>2
  <2>2. Closed' = Closed
    BY <2>1, ClosedMoves DEF Inv3
  <2>3. trained' \cup discarded' \cup Range(batch') = trained \cup discarded \cup Range(batch)
    <3>1. CASE Trainer
      <4>1. CASE TrainerTrains
        <5>1. Range(<< >>) = {}
          BY DEF Range
        <5>2. QED
          BY <4>1, <5>1 DEF TrainerTrains
      <4>2. CASE ~TrainerTrains
        BY <2>1, <3>1, <4>2 DEF Trainer, TrainerCloses, TrainerSyncs, TrainerFinishes
      <4>3. QED
        BY <4>1, <4>2
    <3>2. CASE ~Trainer
      <4>1. UNCHANGED <<batch, trained, discarded>>
        BY <3>2, SyncFrame, OthersFrame DEF Next, Terminated, trainVars
      <4>2. QED
        BY <4>1
    <3>3. QED
      BY <3>1, <3>2
  <2>4. Received' = Received
    BY <2>2, <2>3 DEF Received, Closed
  <2>5. QED
    BY <1>2, <1>7, <2>4
<1>8. QED
  BY <1>2, <1>4, <1>5, <1>6, <1>7, MqMoves DEF Inv3, Inv2

(* The pipeline implements the lossy FIFO: every put is of a message never *)
(* put before, the trainer gets the messages in that order, and what it    *)
(* does not get was evicted as the oldest.                                 *)
THEOREM PipelineFifo == Spec => ImplementsLossyFifo
<1>1. Init => Fifo!FifoInit
  <2>1. Range(<< >>) = {}
    BY DEF Range
  <2>2. QED
    BY <2>1 DEF Init, Fifo!FifoInit
<1>2. Inv3 /\ [Next]_vars => [Fifo!FifoNext]_(Fifo!fifoVars)
  BY FifoStep
<1>3. QED
  BY <1>1, <1>2, Inv3Init, Inv3Step, PTL DEF Spec, ImplementsLossyFifo, Fifo!FifoSpec

-----------------------------------------------------------------------------
(* What Places lists.                                                      *)
InQueue(name, q, x) == {<<name, i>> : i \in {j \in DOMAIN q : q[j] = x}}

LEMMA InQueueOnce ==
    ASSUME NEW S, NEW q \in Seq(S), NEW name, NEW x
    PROVE  /\ x \notin Range(q) => InQueue(name, q, x) = {}
           /\ x \in Range(q) /\ NoDup(q) => \E e : InQueue(name, q, x) = {e}
<1>1. DOMAIN q = 1..Len(q)
  BY RangeType
<1>2. x \notin Range(q) => {j \in DOMAIN q : q[j] = x} = {}
  BY DEF Range
<1>3. x \notin Range(q) => InQueue(name, q, x) = {}
  BY <1>2 DEF InQueue
<1>4. ASSUME x \in Range(q), NoDup(q)
      PROVE  \E e : InQueue(name, q, x) = {e}
  <2>1. PICK i \in 1..Len(q) : q[i] = x
    BY <1>1, <1>4 DEF Range
  <2>2. {j \in DOMAIN q : q[j] = x} = {i}
    BY <1>1, <1>4, <2>1 DEF NoDup
  <2>3. InQueue(name, q, x) = {<<name, i>>}
    BY <2>2 DEF InQueue
  <2>4. QED
    BY <2>3
<1>5. QED
  BY <1>3, <1>4

InSets(x) ==
    {<<place[1], 0>> : place \in
        {p \in {<<"held", {held}>>, <<"generating", generating>>,
                <<"bounced", bounced>>, <<"putting", putting>>,
                <<"dropped", dropped>>, <<"trained", trained>>,
                <<"discarded", discarded>>} : x \in p[2]}}

LEMMA InSetsOnce ==
    ASSUME NEW x \in Samples, Alone(x)
    PROVE  /\ x \notin {held} \cup generating \cup bounced \cup putting \cup dropped
                         \cup trained \cup discarded => InSets(x) = {}
           /\ x \in {held} \cup generating \cup bounced \cup putting \cup dropped
                         \cup trained \cup discarded => \E e : InSets(x) = {e}
<1>1. \A e : e \in InSets(x) <=>
         \/ x = held /\ e = <<"held", 0>>
         \/ x \in generating /\ e = <<"generating", 0>>
         \/ x \in bounced /\ e = <<"bounced", 0>>
         \/ x \in putting /\ e = <<"putting", 0>>
         \/ x \in dropped /\ e = <<"dropped", 0>>
         \/ x \in trained /\ e = <<"trained", 0>>
         \/ x \in discarded /\ e = <<"discarded", 0>>
  <2> DEFINE At(place, name, S) == place[1] = name /\ place[2] = S
             ps == {<<"held", {held}>>, <<"generating", generating>>,
                    <<"bounced", bounced>>, <<"putting", putting>>,
                    <<"dropped", dropped>>, <<"trained", trained>>,
                    <<"discarded", discarded>>}
  <2>1. /\ \A p \in ps : \/ At(p, "held", {held}) \/ At(p, "generating", generating)
                          \/ At(p, "bounced", bounced) \/ At(p, "putting", putting)
                          \/ At(p, "dropped", dropped) \/ At(p, "trained", trained)
                          \/ At(p, "discarded", discarded)
        /\ \E p \in ps : At(p, "held", {held})
        /\ \E p \in ps : At(p, "generating", generating)
        /\ \E p \in ps : At(p, "bounced", bounced)
        /\ \E p \in ps : At(p, "putting", putting)
        /\ \E p \in ps : At(p, "dropped", dropped)
        /\ \E p \in ps : At(p, "trained", trained)
        /\ \E p \in ps : At(p, "discarded", discarded)
    OBVIOUS
  <2>2. \A e : e \in InSets(x) <=> \E p \in ps : x \in p[2] /\ e = <<p[1], 0>>
    BY DEF InSets
  <2> HIDE DEF ps
  <2>3. QED
    BY <2>1, <2>2
<1> HIDE DEF InSets
<1>2. CASE x = held
  <2>1. InSets(x) = {<<"held", 0>>}
    BY <1>1, <1>2 DEF Alone
  <2>2. QED
    BY <1>2, <2>1
<1>3. CASE x \in generating
  <2>1. InSets(x) = {<<"generating", 0>>}
    BY <1>1, <1>3 DEF Alone
  <2>2. QED
    BY <1>3, <2>1
<1>4. CASE x \in bounced
  <2>1. InSets(x) = {<<"bounced", 0>>}
    BY <1>1, <1>4 DEF Alone
  <2>2. QED
    BY <1>4, <2>1
<1>5. CASE x \in putting
  <2>1. InSets(x) = {<<"putting", 0>>}
    BY <1>1, <1>5 DEF Alone
  <2>2. QED
    BY <1>5, <2>1
<1>6. CASE x \in dropped
  <2>1. InSets(x) = {<<"dropped", 0>>}
    BY <1>1, <1>6 DEF Alone
  <2>2. QED
    BY <1>6, <2>1
<1>7. CASE x \in trained
  <2>1. InSets(x) = {<<"trained", 0>>}
    BY <1>1, <1>7 DEF Alone
  <2>2. QED
    BY <1>7, <2>1
<1>8. CASE x \in discarded
  <2>1. InSets(x) = {<<"discarded", 0>>}
    BY <1>1, <1>8 DEF Alone
  <2>2. QED
    BY <1>8, <2>1
<1>9. CASE x \notin {held} \cup generating \cup bounced \cup putting \cup dropped
                         \cup trained \cup discarded
  <2>1. \A e : e \notin InSets(x)
    BY <1>1, <1>9
  <2>2. InSets(x) = {}
    BY <2>1
  <2>3. QED
    BY <1>9, <2>2
<1>10. QED
  BY <1>2, <1>3, <1>4, <1>5, <1>6, <1>7, <1>8, <1>9

LEMMA PlacesAre ==
    ASSUME NEW x
    PROVE  Places(x) = InQueue("pending", pending_queue, x)
                         \cup InQueue("cancelled", cancel_queue, x)
                         \cup InQueue("queued", mq, x) \cup InQueue("batch", batch, x)
                         \cup InSets(x)
BY DEF Places, InQueue, InSets

(* The feeder's queue holds the samples after the last one taken.          *)
LEMMA PendingOnce ==
    ASSUME Inv1, FeederInv, NEW x \in Samples
    PROVE  /\ x \in Range(pending_queue) <=> Taken < x /\ x <= fed
           /\ x \in Range(pending_queue)
                 => \E e : InQueue("pending", pending_queue, x) = {e}
           /\ x \notin Range(pending_queue) => InQueue("pending", pending_queue, x) = {}
<1>1. /\ pending_queue \in Seq(Samples \cup {EndSignal}) /\ fed \in Nat /\ Taken \in Nat
      /\ DOMAIN pending_queue = 1..Len(pending_queue) /\ Len(pending_queue) \in Nat
      /\ fed = Taken + Len(pending_queue) /\ x \in Nat /\ x >= 1 /\ x <= TotalSamples
      /\ TotalSamples \in Nat
  BY FeederTyped, RangeType, Sizes DEF Inv1, TypeOK, Taken, Samples
<1>2. \A i \in 1..Len(pending_queue) : pending_queue[i] = x <=> i = x - Taken
  <2>1. SUFFICES ASSUME NEW i \in 1..Len(pending_queue)
                 PROVE  pending_queue[i] = x <=> i = x - Taken
    OBVIOUS
  <2>2. pending_queue[i] = Stream(Taken + i)
    BY DEF FeederInv
  <2>3. Stream(Taken + i) = x <=> Taken + i = x
    BY <1>1 DEF Stream, EndSignal
  <2>4. QED
    BY <1>1, <2>2, <2>3
<1>3. x \in Range(pending_queue) <=> x - Taken \in 1..Len(pending_queue)
  BY <1>1, <1>2 DEF Range
<1>4. x - Taken \in 1..Len(pending_queue) <=> Taken < x /\ x <= fed
  BY <1>1
<1>5. x \in Range(pending_queue)
         => InQueue("pending", pending_queue, x) = {<<"pending", x - Taken>>}
  <2>1. x - Taken \in 1..Len(pending_queue)
           => {j \in DOMAIN pending_queue : pending_queue[j] = x} = {x - Taken}
    BY <1>1, <1>2
  <2>2. QED
    BY <1>3, <2>1 DEF InQueue
<1>6. x \notin Range(pending_queue) => InQueue("pending", pending_queue, x) = {}
  BY <1>1, InQueueOnce
<1>7. QED
  BY <1>3, <1>4, <1>5, <1>6

LEMMA OnePlace ==
    ASSUME Inv3, NEW x \in Samples
    PROVE  /\ x > fed => Places(x) = {}
           /\ x <= fed /\ ~(x <= Taken /\ Absent(x)) => \E e : Places(x) = {e}
           /\ x <= Taken /\ Absent(x) => Places(x) = {}
<1> DEFINE Q1 == InQueue("pending", pending_queue, x)
           Q2 == InQueue("cancelled", cancel_queue, x)
           Q3 == InQueue("queued", mq, x)
           Q4 == InQueue("batch", batch, x)
           Q5 == InSets(x)
           sets == {held} \cup generating \cup bounced \cup putting \cup dropped
                         \cup trained \cup discarded
<1>1. /\ Alone(x) /\ x \in Nat /\ Taken \in Nat /\ fed \in Nat /\ Taken <= fed
      /\ x > Taken => Absent(x)
  <2>1. Taken \in Nat /\ fed \in Nat /\ x \in Nat
    BY Ends, FeederTyped DEF Inv3, Inv2
  <2>2. Taken <= fed
    BY <2>1, FeederTyped DEF Inv3, Inv2, Taken
  <2>3. QED
    BY <2>1, <2>2 DEF Inv3, PlaceInv
<1>2. Places(x) = Q1 \cup Q2 \cup Q3 \cup Q4 \cup Q5
  BY PlacesAre
<1>3. /\ cancel_queue \in Seq(Samples) /\ mq \in Seq(Samples \cup {EndSignal})
      /\ batch \in Seq(Samples) /\ NoDup(cancel_queue) /\ NoDup(mq) /\ NoDup(batch)
  BY DEF Inv3, Inv2, Inv1, TypeOK, PlaceInv
<1>4. /\ Taken < x /\ x <= fed => \E e : Q1 = {e}
      /\ ~(Taken < x /\ x <= fed) => Q1 = {}
  BY PendingOnce DEF Inv3, Inv2
<1>5. /\ x \in Range(cancel_queue) => \E e : Q2 = {e}
      /\ x \notin Range(cancel_queue) => Q2 = {}
  BY <1>3, InQueueOnce
<1>6. /\ x \in Range(mq) => \E e : Q3 = {e}
      /\ x \notin Range(mq) => Q3 = {}
  BY <1>3, InQueueOnce
<1>7. /\ x \in Range(batch) => \E e : Q4 = {e}
      /\ x \notin Range(batch) => Q4 = {}
  BY <1>3, InQueueOnce
<1>8. /\ x \in sets => \E e : Q5 = {e}
      /\ x \notin sets => Q5 = {}
  BY <1>1, InSetsOnce
<1>9. Absent(x) <=> x \notin Range(cancel_queue) /\ x \notin Range(mq) /\ x \notin Range(batch)
                    /\ x \notin sets
  BY DEF Absent
<1>10. /\ x \in Range(cancel_queue) => x \notin Range(mq) /\ x \notin Range(batch) /\ x \notin sets
       /\ x \in Range(mq) => x \notin Range(batch) /\ x \notin sets
       /\ x \in Range(batch) => x \notin sets
  BY <1>1 DEF Alone
<1> HIDE DEF Q1, Q2, Q3, Q4, Q5, sets
<1>11. CASE Absent(x)
  <2>1. Places(x) = Q1
    BY <1>2, <1>5, <1>6, <1>7, <1>8, <1>9, <1>11
  <2>2. QED
    BY <1>1, <1>4, <1>11, <2>1
<1>12. CASE ~Absent(x)
  <2>1. x <= Taken /\ x <= fed /\ Q1 = {}
    BY <1>1, <1>4, <1>12
  <2>2. CASE x \in Range(cancel_queue)
    <3>1. Places(x) = Q2
      BY <1>2, <1>6, <1>7, <1>8, <1>10, <2>1, <2>2
    <3>2. QED
      BY <1>1, <1>5, <1>12, <2>1, <2>2, <3>1
  <2>3. CASE x \in Range(mq)
    <3>1. Places(x) = Q3
      BY <1>2, <1>5, <1>7, <1>8, <1>10, <2>1, <2>3
    <3>2. QED
      BY <1>1, <1>6, <1>12, <2>1, <2>3, <3>1
  <2>4. CASE x \in Range(batch)
    <3>1. Places(x) = Q4
      BY <1>2, <1>5, <1>6, <1>8, <1>10, <2>1, <2>4
    <3>2. QED
      BY <1>1, <1>7, <1>12, <2>1, <2>4, <3>1
  <2>5. CASE x \in sets
    <3>1. Places(x) = Q5
      BY <1>2, <1>5, <1>6, <1>7, <1>10, <2>1, <2>5
    <3>2. QED
      BY <1>1, <1>8, <1>12, <2>1, <2>5, <3>1
  <2>6. QED
    BY <1>9, <1>12, <2>2, <2>3, <2>4, <2>5
<1>13. QED
  BY <1>11, <1>12

LEMMA PlacesFromInv == Inv3 => SampleInOnePlace
<1> SUFFICES ASSUME Inv3 PROVE SampleInOnePlace
  OBVIOUS
<1>1. \A x \in Samples : x \in Nat /\ fed \in Nat /\ Taken \in Nat /\ Taken <= fed
  <2>1. Taken \in Nat /\ fed \in Nat /\ Samples \subseteq Nat /\ Len(pending_queue) \in Nat
    BY Ends, FeederTyped DEF Inv3, Inv2
  <2>2. QED
    BY <2>1 DEF Taken
<1>2. Cardinality({}) = 0 /\ \A e : Cardinality({e}) = 1
  BY FS_EmptySet, FS_Singleton
<1>3. \A x \in Samples : Cardinality(Places(x)) <= IF x <= fed THEN 1 ELSE 0
  <2>1. SUFFICES ASSUME NEW x \in Samples
                 PROVE  Cardinality(Places(x)) <= IF x <= fed THEN 1 ELSE 0
    OBVIOUS
  <2>2. CASE x > fed
    BY <1>1, <1>2, <2>2, OnePlace
  <2>3. CASE ~(x > fed)
    <3>1. Places(x) = {} \/ \E e : Places(x) = {e}
      BY <1>1, <2>3, OnePlace
    <3>2. Cardinality(Places(x)) = 0 \/ Cardinality(Places(x)) = 1
      BY <1>2, <3>1
    <3>3. QED
      BY <1>1, <2>3, <3>2
  <2>4. QED
    BY <2>2, <2>3
<1>4. {x \in Samples : x <= fed /\ Places(x) = {}} = Lost
  <2>1. SUFFICES ASSUME NEW x \in Samples
                 PROVE  (x <= fed /\ Places(x) = {}) <=> (x <= Taken /\ Absent(x))
    BY DEF Lost
  <2>2. CASE x <= Taken /\ Absent(x)
    BY <1>1, <2>2, OnePlace
  <2>3. CASE ~(x <= Taken /\ Absent(x))
    <3>1. x <= fed => Places(x) # {}
      BY <2>3, OnePlace
    <3>2. QED
      BY <2>3, <3>1
  <2>4. QED
    BY <2>2, <2>3
<1>5. QED
  BY <1>3, <1>4 DEF SampleInOnePlace, Inv3, PlaceInv

(* No sample is duplicated and none is lost but by a task that raised:     *)
(* what the feeder has handed out is in exactly one place.                 *)
THEOREM NoSampleTwice == Spec => []SampleInOnePlace
<1>1. Inv3 => SampleInOnePlace
  BY PlacesFromInv
<1>2. QED
  BY <1>1, Inv3Init, Inv3Step, PTL DEF Spec

-----------------------------------------------------------------------------
(* The main coroutine waits for the processor; an incomplete batch is all  *)
(* that is ever discarded.                                                 *)
MainInv ==
    /\ main # "wait" => proc \in {"exited", "crashed"}
    /\ trainer \in {"lastValid", "done"} => final
    /\ ~Closed => discarded = {}
    /\ Cardinality(discarded) < RequiredSamples

(* A processor that left by DONE has no task running, so None is the last  *)
(* message of the queue, and once fetched nothing follows it.              *)
ExitInv ==
    proc = "exited" =>
      /\ Running = {}
      /\ EndSignal \in Range(mq) => mq[Len(mq)] = EndSignal
      /\ main # "wait" => Closed \/ EndSignal \in Range(mq)
      /\ Closed => mq = << >>

(* Non-partial mode: nothing is ever interrupted.                          *)
Untouched == ~servers_paused /\ bounced = {} /\ cancel_queue = << >>

LEMMA ProcStops == Processor => proc \notin {"exited", "crashed"}
BY DEF Processor, ProcSeesPause, ProcPauses, ProcDrainLocked, ProcDrained, ProcWoken, ProcWaits,
       ProcSubmits, ProcTakesCancelled, ProcAwaitsPending, ProcTakesPending, Acquires

LEMMA ProcStays ==
    ASSUME Inv1, [Next]_vars, ~Processor
    PROVE  proc' = proc \/ NotifyAll
<1>1. FeedSamples \/ Main \/ Trainer \/ (\E s \in Samples : Task(s)) \/ UNCHANGED vars
         => proc' = proc
  BY MainFrame, TaskFrame, TrainerFrame DEF FeedSamples, procVars, vars
<1>2. Monitor \/ Sync => proc' = proc \/ NotifyAll
  BY MonitorFrame DEF Sync, RpcQueues, PauseBegins, PauseEnds, TransferEnds, UpdateBegins,
     UpdateCounts, UpdateEnds, Resume, procVars
<1>3. QED
  BY <1>1, <1>2 DEF Next, Terminated

LEMMA MainInit == Init => MainInv /\ ExitInv /\ Untouched
<1> SUFFICES ASSUME Init PROVE MainInv /\ ExitInv /\ Untouched
  OBVIOUS
<1>1. Cardinality(discarded) = 0
  BY FS_EmptySet DEF Init
<1>2. QED
  BY <1>1, Sizes DEF Init, MainInv, ExitInv, Untouched

LEMMA MainStep == Inv2 /\ MainInv /\ [Next]_vars => MainInv'
<1> SUFFICES ASSUME Inv2, MainInv, [Next]_vars PROVE MainInv'
  OBVIOUS
<1>1. main' # "wait" => proc' \in {"exited", "crashed"}
  <2>1. CASE Processor
    <3>1. main' = main /\ proc \notin {"exited", "crashed"}
      BY <2>1, ProcFrame, ProcStops
    <3>2. QED
      BY <3>1 DEF MainInv
  <2>2. CASE ~Processor
    <3>1. main' # "wait" => proc \in {"exited", "crashed"}
      <4>1. CASE main' = main
        BY <4>1 DEF MainInv
      <4>2. CASE Main
        BY <4>2 DEF Main, MainSendsEnd, MainQueues, MainStops, MainInv, Acquires
      <4>3. QED
        BY <4>1, <4>2, MainMoves
    <3>2. QED
      BY <2>2, <3>1, ProcStays DEF NotifyAll, Inv2
  <2>3. QED
    BY <2>1, <2>2
<1>2. trainer' \in {"lastValid", "done"} => final'
  <2>1. CASE Trainer
    BY <2>1, TrainerSteps DEF MainInv, Inv2
  <2>2. CASE Sync
    BY <2>2, SyncFrame DEF Sync, RpcQueues, PauseBegins, PauseEnds, TransferEnds, UpdateBegins,
       UpdateCounts, UpdateEnds, Resume, trainVars, MainInv
  <2>3. CASE UNCHANGED trainVars
    BY <2>3 DEF trainVars, MainInv
  <2>4. QED
    BY <2>1, <2>2, <2>3, OthersFrame DEF Next, Terminated
<1>3. (~Closed' => discarded' = {}) /\ Cardinality(discarded') < RequiredSamples
  <2>1. CASE discarded' = discarded
    BY <2>1, ClosedStays DEF MainInv
  <2>2. CASE TrainerGets /\ Head(mq) = EndSignal
    <3>1. discarded' = discarded \cup Range(batch) /\ Closed' /\ ~Closed
          /\ Len(batch) < RequiredSamples
      BY <2>2 DEF TrainerGets, Closed, Inv2, BatchInv
    <3>2. discarded' = Range(batch)
      BY <3>1 DEF MainInv
    <3>3. /\ IsFiniteSet(Range(batch)) /\ Cardinality(Range(batch)) <= Len(batch)
          /\ Len(batch) \in Nat /\ RequiredSamples \in Nat
      BY RangeType, Sizes DEF Inv2, Inv1, TypeOK
    <3>4. Cardinality(Range(batch)) \in Nat
      BY <3>3, FS_CardinalityType
    <3>5. Cardinality(Range(batch)) < RequiredSamples
      BY <3>1, <3>3, <3>4
    <3>6. QED
      BY <3>1, <3>2, <3>5
  <2>3. discarded' = discarded \/ (TrainerGets /\ Head(mq) = EndSignal)
    <3>1. CASE Trainer
      BY <3>1 DEF Trainer, TrainerGets, TrainerTrains, TrainerCloses, TrainerSyncs,
         TrainerFinishes
    <3>2. CASE ~Trainer
      BY <3>2, SyncFrame, OthersFrame DEF Next, Terminated, trainVars
    <3>3. QED
      BY <3>1, <3>2
  <2>4. QED
    BY <2>1, <2>2, <2>3
<1>4. QED
  BY <1>1, <1>2, <1>3 DEF MainInv

(* The processor leaves its loop only when every task is done.             *)
LEMMA ExitsIdle ==
    ASSUME Inv1, Processor, proc' = "exited"
    PROVE  Running' = {}
<1>1. IsFiniteSet(Running) /\ Cardinality(Running) \in Nat /\ finished \in Nat
      /\ putting' = putting
  BY RunningType, ProcFrame DEF Inv1, TypeOK
<1>2. ASSUME NEW w \in {"pause", "done", "limit"}, NEW s, NEW n \in Nat, NEW q,
             DrainLoop(w, s, n, q)
      PROVE  n = 0 /\ UNCHANGED <<generating, bounced>>
  <2>1. w = "done" /\ ~(n >= DrainLimit(w)) /\ UNCHANGED <<generating, bounced>>
    BY <1>2, DrainLoopCases
  <2>2. DrainLimit(w) = 1
    BY <2>1 DEF DrainLimit
  <2>3. QED
    BY <1>2, <2>1, <2>2
<1>3. Cardinality(Running) = 0 /\ UNCHANGED <<generating, bounced>>
  <2>1. why \in {"pause", "done", "limit"} /\ ActiveTasks \in Nat
        /\ (ActiveTasks = 0 => Cardinality(Running) = 0)
    BY <1>1 DEF Inv1, TypeOK, ActiveTasks
  <2>2. CASE ProcPauses
    <3>1. DrainLoop("pause", held, ActiveTasks, Released)
      BY <2>2 DEF ProcPauses
    <3>2. QED
      BY <1>2, <2>1, <3>1
  <2>3. CASE ProcDrainLocked
    <3>1. ActiveTasks = 0 /\ DrainLoop(why, held, 0, Released)
      BY <2>1, <2>3 DEF ProcDrainLocked
    <3>2. QED
      BY <1>2, <2>1, <3>1
  <2>4. CASE ProcDrained
    <3>1. DrainLoop(why, held, Cardinality(Running), Released)
      BY <2>4 DEF ProcDrained
    <3>2. QED
      BY <1>1, <1>2, <2>1, <3>1
  <2>5. CASE ProcTakesCancelled
    <3>1. DrainLoop("limit", Head(cancel_queue), ActiveTasks, lock)
      BY <2>5 DEF ProcTakesCancelled
    <3>2. QED
      BY <1>2, <2>1, <3>1
  <2>6. CASE ProcTakesPending
    <3> DEFINE w == IF Head(pending_queue) = EndSignal THEN "done" ELSE "limit"
    <3>1. DrainLoop(w, Head(pending_queue), ActiveTasks, lock)
      BY <2>6 DEF ProcTakesPending
    <3>2. w \in {"pause", "done", "limit"}
      OBVIOUS
    <3> HIDE DEF w
    <3>3. QED
      BY <1>2, <2>1, <3>1, <3>2
  <2>7. ~ProcSeesPause /\ ~ProcWoken /\ ~ProcWaits /\ ~ProcSubmits /\ ~ProcAwaitsPending
    BY DEF ProcSeesPause, ProcWoken, ProcWaits, ProcSubmits, ProcAwaitsPending, WaitWhilePaused,
       SubmitUnlessPaused
  <2>8. QED
    BY <2>2, <2>3, <2>4, <2>5, <2>6, <2>7 DEF Processor
<1>4. Running = {}
  BY <1>1, <1>3, FS_EmptySet
<1>5. QED
  BY <1>1, <1>3, <1>4 DEF Running

LEMMA ExitStep == Inv3 /\ MainInv /\ ExitInv /\ [Next]_vars => ExitInv'
<1> SUFFICES ASSUME Inv3, MainInv, ExitInv, [Next]_vars, proc' = "exited"
             PROVE  /\ Running' = {}
                    /\ EndSignal \in Range(mq') => mq'[Len(mq')] = EndSignal
                    /\ main' # "wait" => Closed' \/ EndSignal \in Range(mq')
                    /\ Closed' => mq' = << >>
  BY DEF ExitInv
<1>1. /\ mq \in Seq(Samples \cup {EndSignal}) /\ Len(mq) \in Nat /\ NoDup(mq)
      /\ DOMAIN mq = 1..Len(mq)
  BY RangeType DEF Inv3, Inv2, Inv1, TypeOK, PlaceInv
<1>2. CASE Processor
  <2>1. proc \notin {"exited", "crashed"} /\ UNCHANGED <<main, mq>> /\ Running' = {}
        /\ Closed' = Closed
    BY <1>2, ProcStops, ProcFrame, ExitsIdle DEF Closed, Inv3, Inv2
  <2>2. main = "wait"
    BY <2>1 DEF MainInv
  <2>3. QED
    BY <2>1, <2>2 DEF Inv3, EndInv
<1>3. CASE ~Processor
  <2>1. proc = "exited"
    BY <1>3, ProcStays DEF NotifyAll, Inv3, Inv2
  <2>2. Running = {} /\ generating = {} /\ bounced = {} /\ putting = {}
    BY <2>1 DEF ExitInv, Running
  <2>3. ~(\E s \in Samples : Task(s))
    BY <2>2 DEF Task, TaskGenerated, TaskPut, TaskReachesServer, TaskCancelled, TaskRaised
  <2>4. Running' = {}
    <3>1. UNCHANGED <<generating, bounced, putting>>
      BY <1>3, <2>3, MonitorFrame, MainFrame, SyncFrame, TrainerFrame
      DEF Next, Terminated, vars, taskVars, FeedSamples
    <3>2. QED
      BY <2>2, <3>1 DEF Running
  <2>5. CASE mq' = mq /\ dropped' = dropped
    <3>1. ~TrainerGets
      <4>1. TrainerGets => mq # << >> /\ mq' = Tail(mq)
        BY DEF TrainerGets
      <4>2. mq # << >> => Len(Tail(mq)) = Len(mq) - 1 /\ Len(mq) \in Nat
        BY <1>1, TailType
      <4>3. QED
        BY <2>5, <4>1, <4>2
    <3>2. Closed' = Closed
      BY <3>1, ClosedMoves DEF Inv3
    <3>3. main' # "wait" => main # "wait"
      <4>1. ~MainSendsEnd
        <5>1. MainSendsEnd => PutSample(EndSignal) /\ main = "wait"
          BY DEF MainSendsEnd
        <5>2. PutSample(EndSignal) => EndSignal \in Range(mq')
          <6>1. ASSUME PutSample(EndSignal) PROVE EndSignal \in Range(mq')
            <7>1. /\ mq' \in Seq(Samples \cup {EndSignal}) /\ Len(mq') \in Nat /\ Len(mq') >= 1
                  /\ mq'[Len(mq')] = EndSignal
              BY <1>1, <6>1, PutLast DEF Inv3, Inv2
            <7>2. QED
              BY <7>1, RangeType DEF Range
          <6>2. QED
            BY <6>1
        <5>3. main = "wait" => EndSignal \notin Range(mq)
          BY DEF Inv3, EndInv
        <5>4. QED
          BY <2>5, <5>1, <5>2, <5>3
      <4>2. QED
        BY <4>1, MainMoves DEF Main, MainQueues, MainStops, Acquires
    <3>4. QED
      BY <2>1, <2>4, <2>5, <3>2, <3>3 DEF ExitInv
  <2>6. CASE mq # << >> /\ mq' = Tail(mq) /\ TrainerGets
    <3>1. /\ mq' \in Seq(Samples \cup {EndSignal}) /\ Len(mq') = Len(mq) - 1 /\ Len(mq) >= 1
          /\ \A i \in 1..Len(mq') : mq'[i] = mq[i + 1]
          /\ Range(mq) = {Head(mq)} \cup Range(mq') /\ Head(mq) = mq[1]
          /\ Head(mq) \notin Range(mq')
      BY <1>1, <2>6, TailType, NoDupTail, HeadTailProperties
    <3>2. EndSignal \in Range(mq) => mq[Len(mq)] = EndSignal
      BY <2>1 DEF ExitInv
    <3>3. EndSignal \in Range(mq') => mq'[Len(mq')] = EndSignal
      <4>1. EndSignal \in Range(mq') => Len(mq') >= 1
        BY <1>1, <3>1, RangeType DEF Range
      <4>2. Len(mq') >= 1 => mq'[Len(mq')] = mq[Len(mq)]
        BY <1>1, <3>1
      <4>3. QED
        BY <3>1, <3>2, <4>1, <4>2
    <3>4. main' = main
      BY <2>6, TrainerFrame DEF Trainer, otherVars
    <3>5. CASE Head(mq) = EndSignal
      <4>1. mq[1] = mq[Len(mq)]
        BY <3>1, <3>2, <3>5
      <4>2. 1 \in 1..Len(mq) /\ Len(mq) \in 1..Len(mq)
        BY <1>1, <3>1
      <4>3. Len(mq) = 1
        BY <1>1, <4>1, <4>2 DEF NoDup
      <4>4. mq' = << >>
        BY <3>1, <4>3
      <4>5. Closed'
        BY <2>6, <3>5 DEF TrainerGets, Closed
      <4>6. QED
        BY <2>4, <3>3, <4>4, <4>5
    <3>6. CASE Head(mq) # EndSignal
      <4>1. Closed' = Closed
        BY <3>6, ClosedMoves DEF Inv3
      <4>2. ~Closed
        BY <2>1, <2>6 DEF ExitInv
      <4>3. main' # "wait" => EndSignal \in Range(mq')
        BY <2>1, <3>1, <3>4, <3>6, <4>2 DEF ExitInv
      <4>4. QED
        BY <2>4, <3>3, <4>1, <4>2, <4>3
    <3>7. QED
      BY <3>5, <3>6
  <2>7. CASE PutSample(EndSignal) /\ MainSendsEnd
    <3>1. /\ mq' \in Seq(Samples \cup {EndSignal}) /\ Len(mq') \in Nat /\ Len(mq') >= 1
          /\ mq'[Len(mq')] = EndSignal
      BY <1>1, <2>7, PutLast DEF Inv3, Inv2
    <3>2. EndSignal \in Range(mq')
      BY <3>1, RangeType DEF Range
    <3>3. ~Closed /\ Closed' = Closed
      BY <2>7 DEF MainSendsEnd, Inv3, EndInv, Closed, trainVars
    <3>4. QED
      BY <2>4, <3>1, <3>2, <3>3
  <2>8. QED
    <3>1. \A s \in Samples : ~TaskPut(s)
      BY <2>3 DEF Task
    <3>2. QED
      BY <2>5, <2>6, <2>7, <3>1, MqMoves DEF Inv3, Inv2
<1>4. QED
  BY <1>2, <1>3

LEMMA UntouchedStep == ~PartialRollout /\ Inv1 /\ Untouched /\ [Next]_vars => Untouched'
<1> SUFFICES ASSUME ~PartialRollout, Inv1, Untouched, [Next]_vars PROVE Untouched'
  OBVIOUS
<1>1. CASE Processor
  <2>1. servers_paused' = servers_paused
    BY <1>1, ProcFrame
  <2>2. UNCHANGED <<bounced, cancel_queue>>
    BY <1>1, ProcEffect DEF Untouched, Holds, Submits
  <2>3. QED
    BY <2>1, <2>2 DEF Untouched
<1>2. CASE \E s \in Samples : Task(s)
  <2>1. servers_paused' = servers_paused
    BY <1>2, TaskFrame DEF syncVars
  <2>2. UNCHANGED <<bounced, cancel_queue>>
    BY <1>2 DEF Untouched, Task, TaskGenerated, TaskPut, TaskReachesServer, TaskCancelled,
       TaskRaised
  <2>3. QED
    BY <2>1, <2>2 DEF Untouched
<1>3. CASE Sync
  <2>1. UNCHANGED <<bounced, cancel_queue>>
    BY <1>3, SyncFrame
  <2>2. ~servers_paused'
    <3>1. CASE PauseBegins
      BY <3>1 DEF PauseBegins, ServersRefuse, Inv1, TypeOK
    <3>2. CASE Resume
      BY <3>2 DEF Resume
    <3>3. CASE ~PauseBegins /\ ~Resume
      <4>1. servers_paused' = servers_paused
        BY <1>3, <3>3 DEF Sync, RpcQueues, PauseEnds, TransferEnds, UpdateBegins, UpdateCounts,
           UpdateEnds
      <4>2. QED
        BY <4>1 DEF Untouched
    <3>4. QED
      BY <3>1, <3>2, <3>3
  <2>3. QED
    BY <2>1, <2>2 DEF Untouched
<1>4. CASE UNCHANGED <<servers_paused, bounced, cancel_queue>>
  BY <1>4 DEF Untouched
<1>5. FeedSamples \/ Monitor \/ Main \/ Trainer \/ UNCHANGED vars
         => UNCHANGED <<servers_paused, bounced, cancel_queue>>
  BY MonitorFrame, MainFrame, TrainerFrame DEF FeedSamples, taskVars, syncVars, vars
<1>6. QED
  BY <1>1, <1>2, <1>3, <1>4, <1>5 DEF Next, Terminated

LEMMA FinishFromInv ==
    Inv3 /\ MainInv /\ ExitInv /\ Untouched => CleanFinish
<1> SUFFICES ASSUME Inv3, MainInv, ExitInv, Untouched,
                    trainer = "done", proc = "exited", faults = 0
             PROVE  /\ trained \cup discarded \cup dropped = Samples
                    /\ Cardinality(discarded) < RequiredSamples
  BY DEF CleanFinish
<1>1. Closed /\ Running = {} /\ mq = << >> /\ batch = << >> /\ cancel_queue = << >>
  BY DEF MainInv, Closed, ExitInv, Inv3, Inv2, BatchInv, Untouched
<1>2. EndSignal \notin dropped /\ trained \subseteq Samples /\ discarded \subseteq Samples
      /\ dropped \subseteq Samples \cup {EndSignal}
  BY <1>1 DEF Inv3, EndInv, Inv2, Inv1, TypeOK
<1>3. held = EndSignal /\ Taken = TotalSamples + 1
  BY DEF Inv3, Inv2, Inv1, HeldInv, FeederInv
<1>4. Lost = {}
  <2>1. IsFiniteSet(Lost)
    BY Ends, FS_Subset DEF Lost
  <2>2. Cardinality(Lost) = 0
    BY DEF Inv3, PlaceInv
  <2>3. QED
    BY <2>1, <2>2, FS_EmptySet
<1>5. ASSUME NEW x \in Samples
      PROVE  x \in trained \cup discarded \cup dropped
  <2>1. x <= Taken
    BY <1>3, Sizes DEF Samples
  <2>2. ~Absent(x)
    BY <1>4, <2>1 DEF Lost
  <2>3. Range(<< >>) = {}
    BY DEF Range
  <2>4. x # held /\ x \notin generating /\ x \notin bounced /\ x \notin putting
    BY <1>1, <1>3, Ends DEF Running
  <2>5. QED
    BY <1>1, <2>2, <2>3, <2>4 DEF Absent
<1>6. QED
  BY <1>2, <1>5 DEF MainInv

(* A non-partial run without failures trains, discards or evicts every     *)
(* sample and discards less than one batch: the processor leaves with no   *)
(* task running, and its None is behind all they put.                      *)
THEOREM FinishesClean ==
    ASSUME ~PartialRollout
    PROVE  Spec => []CleanFinish
<1> DEFINE I == Inv3 /\ MainInv /\ ExitInv /\ Untouched
<1>1. Init => I
  BY Inv3Init, MainInit
<1>2. I /\ [Next]_vars => I'
  BY Inv3Step, MainStep, ExitStep, UntouchedStep DEF Inv3, Inv2
<1>3. I => CleanFinish
  BY FinishFromInv
<1> HIDE DEF I
<1>4. QED
  BY <1>1, <1>2, <1>3, PTL DEF Spec

-----------------------------------------------------------------------------
(* The trainer's account: what it has trained, and what was taken for that. *)
TrainedInv ==
    /\ ~Closed => Cardinality(trained) + Len(batch) = Consumed
    /\ raised <= faults

LEMMA TrainedInit == Init => TrainedInv
<1> SUFFICES ASSUME Init PROVE TrainedInv
  OBVIOUS
<1>1. Cardinality(trained) = 0 /\ Len(batch) = 0
  BY FS_EmptySet DEF Init
<1>2. 0 * SamplesPerSync = 0 /\ (1 - 1) * RequiredSamples = 0
  BY Sizes
<1>3. Consumed = 0
  BY <1>1, <1>2 DEF Consumed, Init
<1>4. QED
  BY <1>1, <1>3 DEF TrainedInv, Init

LEMMA RangeCount ==
    ASSUME NEW S, NEW q \in Seq(S), NoDup(q)
    PROVE  IsFiniteSet(Range(q)) /\ Cardinality(Range(q)) = Len(q)
<1>1. DOMAIN q = 1..Len(q) /\ Len(q) \in Nat /\ \A i \in 1..Len(q) : q[i] \in S
  BY RangeType, ElementOfSeq
<1>2. q \in Bijection(1..Len(q), Range(q))
  <2>1. q \in [1..Len(q) -> Range(q)]
    BY <1>1 DEF Range
  <2>2. \A y \in Range(q) : \E i \in 1..Len(q) : q[i] = y
    BY <1>1 DEF Range
  <2>3. \A i, j \in 1..Len(q) : q[i] = q[j] => i = j
    BY DEF NoDup
  <2>4. QED
    BY <2>1, <2>2, <2>3 DEF Bijection, Injection, Surjection, IsInjective
<1>3. IsFiniteSet(1..Len(q)) /\ Cardinality(1..Len(q)) = Len(q)
  <2>1. Len(q) \in Int /\ 1 \in Int /\ Len(q) >= 0
    BY <1>1
  <2>2. IsFiniteSet(1..Len(q)) /\ Cardinality(1..Len(q))
            = IF 1 > Len(q) THEN 0 ELSE Len(q) - 1 + 1
    BY <2>1, FS_Interval
  <2>3. QED
    BY <2>1, <2>2
<1>4. IsFiniteSet(Range(q)) /\ Cardinality(Range(q)) = Cardinality(1..Len(q))
  <2>1. ExistsBijection(1..Len(q), Range(q))
    BY <1>2 DEF ExistsBijection
  <2>2. QED
    BY <1>3, <2>1, FS_Bijection
<1>5. QED
  BY <1>3, <1>4

LEMMA DisjointSum ==
    ASSUME NEW S \in SUBSET Samples, NEW T \in SUBSET Samples, S \cap T = {}
    PROVE  /\ Cardinality(S \cup T) = Cardinality(S) + Cardinality(T)
           /\ Cardinality(S) \in Nat /\ Cardinality(T) \in Nat /\ Cardinality(S \cup T) \in Nat
<1>1. IsFiniteSet(S) /\ IsFiniteSet(T) /\ Cardinality({}) = 0
  BY Ends, FS_Subset, FS_EmptySet
<1>2. Cardinality(S) \in Nat /\ Cardinality(T) \in Nat
  BY <1>1, FS_CardinalityType
<1>3. Cardinality(S \cup T) = Cardinality(S) + Cardinality(T) - Cardinality(S \cap T)
  BY <1>1, FS_Union
<1>4. QED
  BY <1>1, <1>2, <1>3

LEMMA TrainedStep == Inv3 /\ TrainedInv /\ [Next]_vars => TrainedInv'
<1> SUFFICES ASSUME Inv3, TrainedInv, [Next]_vars PROVE TrainedInv'
  OBVIOUS
<1>0. raised \in Nat /\ faults \in Nat /\ trained \subseteq Samples /\ batch \in Seq(Samples)
      /\ Len(batch) \in Nat /\ Consumed \in Nat
  BY RangeType, ConsumedType DEF Inv3, Inv2, Inv1, TypeOK
<1>1. raised' <= faults'
  <2>1. CASE Processor
    <3>1. faults' = faults
      BY <2>1, ProcFrame
    <3>2. raised' = raised \/ raised' = 0
      BY <2>1 DEF Processor, ProcSeesPause, ProcPauses, ProcDrainLocked, ProcDrained, ProcWoken,
         ProcWaits, ProcSubmits, ProcTakesCancelled, ProcAwaitsPending, ProcTakesPending
    <3>3. QED
      BY <1>0, <3>1, <3>2 DEF TrainedInv
  <2>2. CASE \E s \in Samples : Task(s)
    <3>1. (raised' = raised /\ faults' = faults) \/ (raised' = raised + 1 /\ faults' = faults + 1)
      BY <2>2 DEF Task, TaskGenerated, TaskPut, TaskReachesServer, TaskCancelled, TaskRaised
    <3>2. QED
      BY <1>0, <3>1 DEF TrainedInv
  <2>3. CASE Sync
    <3>1. faults' = faults
      BY <2>3, SyncFrame
    <3>2. raised' = raised \/ raised' = 0
      BY <2>3 DEF Sync, RpcQueues, PauseBegins, PauseEnds, TransferEnds, UpdateBegins,
         UpdateCounts, UpdateEnds, Resume, taskVars
    <3>3. QED
      BY <1>0, <3>1, <3>2 DEF TrainedInv
  <2>4. CASE raised' = raised /\ faults' = faults
    BY <2>4 DEF TrainedInv
  <2>5. FeedSamples \/ Monitor \/ Main \/ Trainer \/ UNCHANGED vars
           => raised' = raised /\ faults' = faults
    BY MonitorFrame, MainFrame, TrainerFrame DEF FeedSamples, vars, taskVars
  <2>6. QED
    BY <2>1, <2>2, <2>3, <2>4, <2>5 DEF Next, Terminated
<1>2. ~Closed' => Cardinality(trained') + Len(batch') = Consumed'
  <2>0. SUFFICES ASSUME ~Closed' PROVE Cardinality(trained') + Len(batch') = Consumed'
    OBVIOUS
  <2>1. ~Closed /\ Cardinality(trained) + Len(batch) = Consumed
    BY <2>0, ClosedStays DEF TrainedInv, Inv3
  <2>2. CASE UNCHANGED <<batch, trained, local_trigger_step, version>>
    BY <2>1, <2>2 DEF Consumed, SamplesPerSync
  <2>3. CASE Trainer
    <3> DEFINE a == version * SamplesPerSync
               b == (local_trigger_step - 1) * RequiredSamples
    <3>1. /\ a \in Int /\ b \in Int /\ RequiredSamples \in Nat /\ SamplesPerSync \in Nat
          /\ Len(<< >>) = 0 /\ TriggerSyncStep \in Nat /\ version \in Nat
          /\ local_trigger_step \in Nat /\ Cardinality(trained) \in Nat
      <4>1. local_trigger_step \in Nat /\ version \in Nat
        BY Sizes DEF Inv3, Inv2, Inv1, TypeOK
      <4>2. Cardinality(trained) \in Nat
        BY <1>0, FewerSamples
      <4>3. QED
        BY <4>1, <4>2, Sizes
    <3>2. Consumed = a + b + Len(batch)
      BY DEF Consumed
    <3>3. Cardinality(trained) = a + b
      <4> HIDE DEF a, b
      <4>1. QED
        BY <1>0, <2>1, <3>1, <3>2
    <3>4. CASE /\ Len(batch') = Len(batch) + 1
               /\ UNCHANGED <<trained, local_trigger_step, version>>
      <4>1. Consumed' = a + b + Len(batch')
        BY <3>4 DEF Consumed, SamplesPerSync
      <4> HIDE DEF a, b
      <4>2. QED
        BY <1>0, <3>1, <3>3, <3>4, <4>1
    <3>5. CASE /\ trainer = "train" /\ batch' = << >> /\ trained' = trained \cup Range(batch)
               /\ Len(batch) = RequiredSamples
      <4>1. Cardinality(trained') = Cardinality(trained) + RequiredSamples
        <5>1. Range(batch) \subseteq Samples /\ Cardinality(Range(batch)) = RequiredSamples
          BY <1>0, <3>5, RangeType, RangeCount DEF Inv3, PlaceInv
        <5>2. trained \cap Range(batch) = {}
          BY <5>1 DEF Inv3, PlaceInv, Alone
        <5>3. QED
          BY <1>0, <3>5, <5>1, <5>2, DisjointSum
      <4>2. CASE version' = version /\ local_trigger_step' = local_trigger_step + 1
        <5>1. Consumed' = a + ((local_trigger_step + 1) - 1) * RequiredSamples + 0
          BY <3>1, <3>5, <4>2 DEF Consumed, SamplesPerSync
        <5>2. (local_trigger_step + 1) - 1 = (local_trigger_step - 1) + 1
              /\ local_trigger_step - 1 \in Int
          BY <3>1
        <5>3. ((local_trigger_step - 1) + 1) * RequiredSamples = b + RequiredSamples
          BY <3>1, <5>2, Products
        <5> HIDE DEF a, b
        <5>4. QED
          BY <3>1, <3>3, <3>5, <4>1, <5>1, <5>2, <5>3
      <4>3. CASE /\ version' = version + 1 /\ local_trigger_step = TriggerSyncStep
                 /\ local_trigger_step' = 1
        <5>1. Consumed' = (version + 1) * SamplesPerSync + (1 - 1) * RequiredSamples + 0
          BY <3>1, <3>5, <4>3 DEF Consumed, SamplesPerSync
        <5>2. (version + 1) * SamplesPerSync = a + SamplesPerSync
          BY <3>1, Products
        <5>3. (1 - 1) * RequiredSamples = 0
          BY <3>1
        <5>4. b + RequiredSamples = SamplesPerSync
          <6>1. (TriggerSyncStep - 1) + 1 = TriggerSyncStep /\ TriggerSyncStep - 1 \in Int
            BY <3>1
          <6>2. ((TriggerSyncStep - 1) + 1) * RequiredSamples
                   = (TriggerSyncStep - 1) * RequiredSamples + RequiredSamples
            BY <3>1, <6>1, Products
          <6>3. TriggerSyncStep * RequiredSamples = SamplesPerSync
            BY <3>1, Products DEF SamplesPerSync
          <6>4. QED
            BY <4>3, <6>1, <6>2, <6>3
        <5> HIDE DEF a, b
        <5>5. QED
          BY <3>1, <3>3, <3>5, <4>1, <5>1, <5>2, <5>3, <5>4
      <4>4. QED
        BY <2>3, <3>5, <4>2, <4>3, TrainerSteps DEF Inv3, Inv2
    <3>6. QED
      BY <2>0, <2>1, <2>2, <2>3, <3>4, <3>5, TrainerSteps DEF Inv3, Inv2, Closed
  <2>4. UNCHANGED <<batch, trained, local_trigger_step, version>> \/ Trainer
    BY SyncFrame, OthersFrame DEF Next, Terminated, trainVars
  <2>5. QED
    BY <2>2, <2>3, <2>4
<1>3. QED
  BY <1>1, <1>2 DEF TrainedInv

(* The account of the pipeline: what is outstanding, consumed or lost was  *)
(* taken, and was taken once.                                              *)
LEMMA Budget ==
    ASSUME Inv3, TrainedInv, ~Closed
    PROVE  /\ Cardinality(Outstanding) + Consumed + faults <= Taken
           /\ Cardinality(Outstanding) + Consumed + faults <= TotalSamples
           /\ Cardinality(Outstanding) \in Nat /\ Consumed \in Nat /\ faults \in Nat
           /\ Taken \in Nat
<1> DEFINE n == SmallerOf(Taken, TotalSamples)
           B == Range(batch)
<1>1. /\ Outstanding \subseteq Samples /\ trained \subseteq Samples /\ B \subseteq Samples
      /\ Lost \subseteq Samples /\ batch \in Seq(Samples) /\ faults \in Nat /\ Consumed \in Nat
      /\ Taken \in Nat /\ TotalSamples \in Nat /\ Samples \subseteq Nat
  <2>1. Outstanding \subseteq Samples /\ Consumed \in Nat /\ Taken \in Nat
    BY OutstandingType, ConsumedType, FeederTyped DEF Inv3, Inv2
  <2>2. trained \subseteq Samples /\ batch \in Seq(Samples) /\ faults \in Nat
    BY Sizes DEF Inv3, Inv2, Inv1, TypeOK
  <2>3. B \subseteq Samples
    BY <2>2, RangeType
  <2>4. QED
    BY <2>1, <2>2, <2>3, Sizes, Ends DEF Lost
<1>2. \A x \in Samples : Alone(x) /\ (x > Taken => Absent(x))
  BY DEF Inv3, PlaceInv
<1>3. Outstanding \cap trained = {} /\ Outstanding \cap B = {} /\ Outstanding \cap Lost = {}
  BY <1>1, <1>2 DEF Outstanding, Running, Alone, Absent, Lost
<1>4. trained \cap B = {} /\ trained \cap Lost = {} /\ B \cap Lost = {}
  BY <1>1, <1>2 DEF Alone, Absent, Lost
<1>5. Outstanding \cup trained \cup B \cup Lost \subseteq 1..n
  <2>1. SUFFICES ASSUME NEW x \in Outstanding \cup trained \cup B \cup Lost
                 PROVE  x \in 1..n
    OBVIOUS
  <2>2. x \in Samples /\ x \in Nat
    BY <1>1, <2>1
  <2>3. x <= Taken
    <3>1. CASE x \in Lost
      BY <3>1 DEF Lost
    <3>2. CASE x \notin Lost
      <4>1. ~Absent(x)
        BY <2>1, <2>2, <3>2, Ends DEF Absent, Outstanding, Running
      <4>2. QED
        BY <1>1, <1>2, <2>2, <4>1
    <3>3. QED
      BY <3>1, <3>2
  <2>4. QED
    BY <1>1, <2>2, <2>3 DEF Samples, SmallerOf
<1>6. IsFiniteSet(1..n) /\ Cardinality(1..n) = n /\ n \in Nat /\ n <= Taken /\ n <= TotalSamples
  <2>1. n \in Nat /\ n <= Taken /\ n <= TotalSamples
    BY <1>1 DEF SmallerOf
  <2> HIDE DEF n
  <2>2. n \in Int /\ 1 \in Int /\ n >= 0
    BY <2>1
  <2>3. IsFiniteSet(1..n) /\ Cardinality(1..n) = IF 1 > n THEN 0 ELSE n - 1 + 1
    BY <2>2, FS_Interval
  <2>4. QED
    BY <2>1, <2>2, <2>3
<1> HIDE DEF n, B
<1>7. /\ Cardinality(Outstanding \cup trained)
            = Cardinality(Outstanding) + Cardinality(trained)
      /\ Cardinality(Outstanding) \in Nat /\ Cardinality(trained) \in Nat
  BY <1>1, <1>3, DisjointSum
<1>8. /\ Cardinality((Outstanding \cup trained) \cup B)
            = Cardinality(Outstanding \cup trained) + Cardinality(B)
      /\ Cardinality(B) \in Nat
  <2>1. Outstanding \cup trained \subseteq Samples /\ (Outstanding \cup trained) \cap B = {}
    BY <1>1, <1>3, <1>4
  <2>2. QED
    BY <1>1, <2>1, DisjointSum
<1>9. /\ Cardinality((Outstanding \cup trained \cup B) \cup Lost)
            = Cardinality(Outstanding \cup trained \cup B) + Cardinality(Lost)
      /\ Cardinality((Outstanding \cup trained \cup B) \cup Lost) \in Nat
      /\ Cardinality(Lost) \in Nat
  <2>1. Outstanding \cup trained \cup B \subseteq Samples
        /\ (Outstanding \cup trained \cup B) \cap Lost = {}
    BY <1>1, <1>3, <1>4
  <2>2. QED
    BY <1>1, <2>1, DisjointSum
<1>10. Cardinality(Outstanding \cup trained \cup B \cup Lost) <= n
  <2>1. Cardinality(Outstanding \cup trained \cup B \cup Lost) <= Cardinality(1..n)
    BY <1>5, <1>6, FS_Subset
  <2>2. QED
    BY <1>6, <2>1
<1>11. Cardinality(Lost) = faults /\ Cardinality(B) = Len(batch)
       /\ Cardinality(trained) + Len(batch) = Consumed /\ Len(batch) \in Nat
  <2>1. Cardinality(B) = Len(batch)
    BY <1>1, RangeCount DEF Inv3, PlaceInv, B
  <2>2. QED
    BY <1>1, <2>1, RangeType DEF Inv3, PlaceInv, TrainedInv
<1>12. Cardinality(Outstanding) + Consumed + faults <= n
  BY <1>1, <1>6, <1>7, <1>8, <1>9, <1>10, <1>11
<1>13. QED
  BY <1>1, <1>6, <1>7, <1>12

-----------------------------------------------------------------------------
(* staleness_threshold = 0: one synchronization's worth of samples is      *)
(* taken per version.                                                      *)
Alive == proc \notin {"exited", "crashed"}

(* No more is taken than the synchronizations so far have asked for,       *)
(* staleness_samples is exactly what was taken for the rollouter's         *)
(* version, and everything from put_sample to the batch carries that       *)
(* version.                                                                *)
Pace ==
    /\ Taken <= (rollout_version + 1) * SamplesPerSync
    /\ \A s \in Samples :
         s \in putting \/ s \in Range(mq) \/ s \in Range(batch) => label[s] = rollout_version
    /\ Alive =>
         /\ sync # "updateCount" => staleness_samples + rollout_version * SamplesPerSync = Taken
         /\ sync = "updateCount" =>
              /\ Taken = rollout_version * SamplesPerSync
              /\ staleness_samples = SamplesPerSync /\ counted = 0
         /\ sync \in {"transfer", "updateCall", "updateLock"} => finished = 0
         /\ proc = "get" => staleness_samples < SamplesPerSync

(* What is outstanding leaves room for None when the processor is dead, or *)
(* is about to die of its own re-check of active_tasks.                    *)
CapInv ==
    /\ Cardinality(Outstanding) <= SamplesPerSync /\ dropped = {}
    /\ ~Alive \/ (proc = "drainLock" /\ ActiveTasks = 0)
         => Cardinality(Outstanding) <= SamplesPerSync - 1

(* The inductive invariant at staleness_threshold = 0.                     *)
Inv4 == Inv3 /\ MainInv /\ TrainedInv /\ (~Closed => Pace)

LEMMA AliveOpen == Inv3 /\ MainInv /\ Alive => main = "wait" /\ ~Closed
BY DEF MainInv, Alive, Inv3, EndInv

LEMMA VersionAhead ==
    ASSUME Inv2
    PROVE  /\ rollout_version <= version
           /\ sync \in {"pauseCall", "pauseLock", "pauseGather", "transfer", "updateCall",
                        "updateLock"} => rollout_version + 1 <= version
<1>1. version \in Nat /\ rollout_version \in Nat
      /\ sync \in {"idle", "pauseCall", "pauseLock", "pauseGather", "transfer", "updateCall",
                   "updateLock", "updateCount", "updateReport", "resumeCall", "resumeLock"}
  BY DEF Inv2, Inv1, TypeOK
<1>2. CASE sync = "idle"
  BY <1>1, <1>2 DEF Inv2, VersionInv
<1>3. CASE sync \in {"pauseCall", "pauseLock", "pauseGather", "transfer"}
  BY <1>1, <1>3 DEF Inv2, VersionInv
<1>4. CASE sync \in {"updateCall", "updateLock"}
  BY <1>1, <1>4 DEF Inv2, VersionInv
<1>5. CASE sync \in {"updateCount", "updateReport", "resumeCall", "resumeLock"}
  BY <1>1, <1>5 DEF Inv2, VersionInv
<1>6. QED
  BY <1>1, <1>2, <1>3, <1>4, <1>5

(* When no more was taken than the trainer has consumed, it has consumed   *)
(* everything.                                                             *)
LEMMA Exhausted ==
    ASSUME Inv3, TrainedInv, ~Closed, NEW v \in Nat, Taken <= v * SamplesPerSync, v <= version
    PROVE  /\ Cardinality(Outstanding) = 0 /\ faults = 0 /\ Taken = v * SamplesPerSync
           /\ batch = << >> /\ cancel_queue = << >> /\ Running = {}
           /\ Range(mq) \cap Samples = {}
<1> DEFINE a == v * SamplesPerSync
           b == version * SamplesPerSync
<1>1. a \in Nat /\ b \in Nat /\ a <= b /\ Taken <= a
  BY Products, Sizes DEF Inv3, Inv2, Inv1, TypeOK
<1>2. b + Len(batch) <= Consumed /\ Len(batch) \in Nat
  BY ConsumedType, RangeType DEF Inv3, Inv2, Inv1, TypeOK
<1>3. Cardinality(Outstanding) + Consumed + faults <= Taken
      /\ Cardinality(Outstanding) \in Nat /\ Consumed \in Nat /\ faults \in Nat /\ Taken \in Nat
  BY Budget
<1> HIDE DEF a, b
<1>4. Cardinality(Outstanding) = 0 /\ faults = 0 /\ Taken = a /\ Len(batch) = 0
  BY <1>1, <1>2, <1>3
<1>5. Outstanding = {}
  BY <1>4, OutstandingType, FS_EmptySet DEF Inv3, Inv2
<1>6. Running = {} /\ Range(cancel_queue) = {} /\ Range(mq) \cap Samples = {}
  BY <1>5 DEF Outstanding
<1>7. cancel_queue = << >> /\ batch = << >>
  <2>1. cancel_queue # << >> => Head(cancel_queue) \in Range(cancel_queue)
    BY TailType DEF Inv3, Inv2, Inv1, TypeOK
  <2>2. batch # << >> => Len(batch) >= 1
    BY TailType DEF Inv3, Inv2, Inv1, TypeOK
  <2>3. QED
    BY <1>4, <1>6, <2>1, <2>2
<1>8. QED
  BY <1>4, <1>6, <1>7 DEF a

LEMMA PaceTypes ==
    ASSUME Inv3
    PROVE  /\ Taken \in Nat /\ rollout_version \in Nat /\ staleness_samples \in Nat
           /\ rollout_version * SamplesPerSync \in Nat /\ SamplesPerSync \in Nat
           /\ SamplesPerSync >= 1
           /\ (rollout_version + 1) * SamplesPerSync
                 = rollout_version * SamplesPerSync + SamplesPerSync
           /\ (rollout_version + 1) * SamplesPerSync \in Nat
           /\ finished \in Nat /\ counted \in Nat /\ label \in [Samples -> Nat]
<1>1. /\ Taken \in Nat /\ rollout_version \in Nat /\ staleness_samples \in Nat
      /\ SamplesPerSync \in Nat /\ SamplesPerSync >= 1
      /\ finished \in Nat /\ counted \in Nat /\ label \in [Samples -> Nat]
  <2>1. Taken \in Nat
    BY FeederTyped DEF Inv3, Inv2
  <2>2. QED
    BY <2>1, Sizes DEF Inv3, Inv2, Inv1, TypeOK
<1>2. /\ rollout_version * SamplesPerSync \in Nat
      /\ (rollout_version + 1) * SamplesPerSync
                 = rollout_version * SamplesPerSync + SamplesPerSync
  BY <1>1, Products
<1>3. rollout_version * SamplesPerSync + SamplesPerSync \in Nat
  BY <1>1, <1>2
<1>4. QED
  BY <1>1, <1>2, <1>3

LEMMA PaceProc ==
    ASSUME MaxRequiredSamples = SamplesPerSync, Inv3, MainInv, Pace, Processor
    PROVE  Pace'
<1>1. UNCHANGED <<fed, mq, putting, label, rollout_version, sync, counted, batch>>
  BY ProcFrame
<1>2. Alive
  BY ProcStops DEF Alive
<1>3. finished' = finished \/ finished' = 0
  BY DEF Processor, ProcSeesPause, ProcPauses, ProcDrainLocked, ProcDrained, ProcWoken,
         ProcWaits, ProcSubmits, ProcTakesCancelled, ProcAwaitsPending, ProcTakesPending
<1>4. \A s \in Samples :
         s \in putting' \/ s \in Range(mq') \/ s \in Range(batch') => label'[s] = rollout_version'
  BY <1>1 DEF Pace
<1>5. proc' = "get" => staleness_samples < SamplesPerSync /\ staleness_samples' = staleness_samples
  <2>1. proc' = "get" => ~ShouldPauseGeneration /\ staleness_samples' = staleness_samples
    BY ProcAwaits DEF MayTake, Inv3, Inv2
  <2>2. ~ShouldPauseGeneration => staleness_samples < SamplesPerSync
    BY PaceTypes DEF ShouldPauseGeneration
  <2>3. QED
    BY <2>1, <2>2
<1>6. CASE UNCHANGED <<pending_queue, staleness_samples>>
  <2>1. Taken' = Taken
    BY <1>1, <1>6 DEF Taken
  <2>2. QED
    BY <1>1, <1>2, <1>3, <1>4, <1>5, <1>6, <2>1 DEF Pace, SamplesPerSync
<1>7. CASE /\ pending_queue # << >> /\ pending_queue' = Tail(pending_queue)
           /\ staleness_samples' = staleness_samples + 1 /\ (proc = "get" \/ MayTake)
  <2>1. Taken' = Taken + 1
    BY <1>1, <1>7, FeederTake DEF Inv3, Inv2
  <2>2. staleness_samples < SamplesPerSync /\ staleness_samples \in Nat
    <3>1. ~ShouldPauseGeneration => staleness_samples < SamplesPerSync
      BY PaceTypes DEF ShouldPauseGeneration
    <3>2. QED
      BY <1>2, <1>7, <3>1, PaceTypes DEF MayTake, Pace
  <2>3. sync # "updateCount"
    BY <1>2, <2>2, PaceTypes DEF Pace
  <2> DEFINE a == rollout_version * SamplesPerSync
             b == (rollout_version + 1) * SamplesPerSync
  <2>4. staleness_samples + a = Taken /\ a \in Nat /\ b = a + SamplesPerSync /\ Taken \in Nat
        /\ SamplesPerSync \in Nat
    BY <1>2, <2>3, PaceTypes DEF Pace
  <2>5. SamplesPerSync' = SamplesPerSync
    BY DEF SamplesPerSync
  <2>6. (rollout_version * SamplesPerSync)' = a /\ ((rollout_version + 1) * SamplesPerSync)' = b
    BY <1>1, <2>5
  <2> HIDE DEF a, b
  <2>7. Taken' <= b /\ staleness_samples' + a = Taken'
    BY <1>7, <2>1, <2>2, <2>4
  <2>8. proc' # "get"
    BY <1>5, <1>7, <2>2
  <2>9. sync' \in {"transfer", "updateCall", "updateLock"} => finished' = 0
    BY <1>1, <1>2, <1>3 DEF Pace
  <2>10. sync' # "updateCount"
    BY <1>1, <2>3
  <2>11. QED
    BY <1>4, <2>6, <2>7, <2>8, <2>9, <2>10 DEF Pace
<1>8. QED
  BY <1>6, <1>7, ProcAdds DEF Inv3, Inv2

(* A step that takes nothing and after which only samples with labels as   *)
(* good as before are under way.                                           *)
LEMMA PaceKept ==
    ASSUME Inv3, Pace, [Next]_vars, ~Processor, Taken' = Taken,
           UNCHANGED <<staleness_samples, rollout_version, counted>>,
           \A s \in Samples :
             s \in putting' \/ s \in Range(mq') \/ s \in Range(batch')
                => label'[s] = rollout_version,
           sync' = "updateCount" <=> sync = "updateCount",
           Alive /\ sync' \in {"transfer", "updateCall", "updateLock"} => finished' = 0
    PROVE  Pace'
<1>1. (Alive' => Alive) /\ (proc' = "get" => proc = "get")
  BY ProcStays DEF NotifyAll, Alive, Inv3, Inv2
<1>2. QED
  BY <1>1 DEF Pace, SamplesPerSync

LEMMA PaceTask ==
    ASSUME Inv4, ~Closed, NEW s \in Samples, Task(s), [Next]_vars, ~Processor
    PROVE  Pace'
<1>1. /\ UNCHANGED <<staleness_samples, rollout_version, counted, sync, batch>>
      /\ Taken' = Taken
  BY TaskFrame DEF feedVars, syncVars, trainVars, Taken
<1>3. s \in Running
  BY DEF Task, TaskGenerated, TaskPut, TaskReachesServer, TaskCancelled, TaskRaised, Running
<1>4. Pace
  BY DEF Inv4
<1>5. sync \notin {"transfer", "updateCall", "updateLock"}
  <2>1. SUFFICES ASSUME sync \in {"transfer", "updateCall", "updateLock"} PROVE FALSE
    OBVIOUS
  <2>2. rollout_version + 1 <= version /\ rollout_version + 1 \in Nat
    BY <2>1, VersionAhead, PaceTypes DEF Inv4, Inv3
  <2>3. Taken <= (rollout_version + 1) * SamplesPerSync
    BY <1>4 DEF Pace
  <2>4. Running = {}
    BY <2>2, <2>3, Exhausted DEF Inv4
  <2>5. QED
    BY <1>3, <2>4
<1>6. ASSUME NEW x \in Samples, x \in putting' \/ x \in Range(mq') \/ x \in Range(batch')
      PROVE  label'[x] = rollout_version
  <2>1. label \in [Samples -> Nat] /\ mq \in Seq(Samples \cup {EndSignal})
    BY DEF Inv4, Inv3, Inv2, Inv1, TypeOK
  <2>2. CASE TaskGenerated(s)
    BY <1>1, <1>4, <1>6, <2>1, <2>2 DEF TaskGenerated, Pace, queueVars
  <2>3. CASE TaskPut(s)
    <3>1. s \in putting /\ putting' = putting \ {s} /\ label' = label /\ PutSample(s)
      BY <2>3 DEF TaskPut
    <3>2. Range(mq') \subseteq Range(mq) \cup {s}
      BY <2>1, <3>1, PutRange
    <3>3. QED
      BY <1>1, <1>4, <1>6, <3>1, <3>2 DEF Pace
  <2>4. CASE TaskReachesServer(s) \/ TaskCancelled(s) \/ TaskRaised(s)
    BY <1>1, <1>4, <1>6, <2>4 DEF TaskReachesServer, TaskCancelled, TaskRaised, Pace, queueVars
  <2>5. QED
    BY <2>2, <2>3, <2>4 DEF Task
<1>7. QED
  BY <1>1, <1>4, <1>5, <1>6, PaceKept DEF Inv4

LEMMA PaceSync ==
    ASSUME Inv4, ~Closed, Sync, [Next]_vars, ~Processor
    PROVE  Pace'
<1>1. UNCHANGED <<fed, pending_queue, cancel_queue, putting, mq, label, batch>> /\ Taken' = Taken
  BY SyncFrame DEF feedVars, queueVars, Taken
<1>2. Pace
  BY DEF Inv4
<1>3. (Alive' => Alive) /\ (proc' = "get" => proc = "get")
  BY ProcStays DEF NotifyAll, Alive, Inv4, Inv3, Inv2
<1>4. CASE UpdateBegins
  <2>1. /\ sync \in {"updateCall", "updateLock"} /\ sync' = "updateCount"
        /\ rollout_version' = rollout_version + 1 /\ staleness_samples' = staleness_samples
        /\ counted' = ActiveTasks + Len(cancel_queue)
    BY <1>4 DEF UpdateBegins, Acquires, NewParamVersion, LocalStaleness, Inv4, Inv3, Inv2,
       VersionInv
  <2>2. /\ Cardinality(Outstanding) = 0 /\ Taken = (rollout_version + 1) * SamplesPerSync
        /\ batch = << >> /\ cancel_queue = << >> /\ Running = {} /\ Range(mq) \cap Samples = {}
    <3>1. rollout_version + 1 <= version /\ rollout_version + 1 \in Nat
      BY <2>1, VersionAhead, PaceTypes DEF Inv4, Inv3
    <3>2. Taken <= (rollout_version + 1) * SamplesPerSync
      BY <1>2 DEF Pace
    <3>3. QED
      BY <3>1, <3>2, Exhausted DEF Inv4
  <2>3. Alive => counted' = 0
    <3>1. Cardinality(Running) = 0 /\ Len(<< >>) = 0
      BY <2>2, FS_EmptySet
    <3>2. Alive => finished = 0
      BY <1>2, <2>1 DEF Pace
    <3>3. QED
      BY <2>1, <2>2, <3>1, <3>2 DEF ActiveTasks
  <2> DEFINE a == rollout_version * SamplesPerSync
             b == (rollout_version + 1) * SamplesPerSync
             c == ((rollout_version + 1) + 1) * SamplesPerSync
  <2>4. /\ a \in Nat /\ b = a + SamplesPerSync /\ SamplesPerSync \in Nat
        /\ staleness_samples \in Nat /\ c = b + SamplesPerSync /\ Taken = b
    <3>1. rollout_version + 1 \in Int /\ SamplesPerSync \in Int
      BY PaceTypes DEF Inv4
    <3>2. c = b + 1 * SamplesPerSync /\ 1 * SamplesPerSync = SamplesPerSync
      BY <3>1, Products
    <3>3. QED
      BY <2>2, <3>2, PaceTypes DEF Inv4
  <2>5. (rollout_version * SamplesPerSync)' = b /\ ((rollout_version + 1) * SamplesPerSync)' = c
    BY <2>1 DEF SamplesPerSync
  <2>6. Alive => staleness_samples + a = Taken
    BY <1>2, <2>1 DEF Pace
  <2> HIDE DEF a, b, c
  <2>7. Alive => staleness_samples = SamplesPerSync
    BY <2>4, <2>6
  <2>8. proc' # "get"
    <3>1. proc = "get" => staleness_samples < SamplesPerSync /\ Alive
      BY <1>2 DEF Pace, Alive
    <3>2. QED
      BY <1>3, <2>4, <2>7, <3>1
  <2>9. Taken' <= c /\ Taken' = b
    BY <1>1, <2>4
  <2>10. \A s \in Samples : s \notin putting' /\ s \notin Range(mq') /\ s \notin Range(batch')
    <3>1. Range(<< >>) = {}
      BY DEF Range
    <3>2. QED
      BY <1>1, <2>2, <3>1 DEF Running
  <2>11. SamplesPerSync' = SamplesPerSync
    BY DEF SamplesPerSync
  <2>12. QED
    BY <1>3, <2>1, <2>3, <2>5, <2>7, <2>8, <2>9, <2>10, <2>11 DEF Pace
<1>5. CASE UpdateCounts
  <2>1. /\ sync = "updateCount" /\ sync' = "updateReport"
        /\ staleness_samples' = counted + Len(mq) /\ UNCHANGED <<rollout_version, finished>>
    BY <1>5 DEF UpdateCounts, taskVars
  <2>2. Alive => mq = << >>
    <3>1. SUFFICES ASSUME Alive PROVE mq = << >>
      OBVIOUS
    <3>2. Taken = rollout_version * SamplesPerSync /\ rollout_version * SamplesPerSync \in Nat
      BY <1>2, <2>1, <3>1, PaceTypes DEF Pace, Inv4
    <3>3. Range(mq) \cap Samples = {}
      <4>1. rollout_version <= version /\ rollout_version \in Nat
        BY VersionAhead, PaceTypes DEF Inv4, Inv3
      <4>2. Taken <= rollout_version * SamplesPerSync
        BY <3>2
      <4>3. QED
        BY <4>1, <4>2, Exhausted DEF Inv4
    <3>4. EndSignal \notin Range(mq)
      BY <3>1, AliveOpen DEF Inv4, Inv3, EndInv
    <3>5. mq # << >> => Head(mq) \in Range(mq) /\ Head(mq) \in Samples \cup {EndSignal}
      BY TailType DEF Inv4, Inv3, Inv2, Inv1, TypeOK
    <3>6. QED
      BY <3>3, <3>4, <3>5
  <2>3. Alive => staleness_samples' = 0
    <3>1. Len(<< >>) = 0
      OBVIOUS
    <3>2. Alive => counted = 0
      BY <1>2, <2>1 DEF Pace
    <3>3. QED
      BY <2>1, <2>2, <3>1, <3>2
  <2>4. Alive => Taken = rollout_version * SamplesPerSync
    BY <1>2, <2>1 DEF Pace
  <2>5. /\ Taken' <= ((rollout_version + 1) * SamplesPerSync)'
        /\ \A s \in Samples :
             s \in putting' \/ s \in Range(mq') \/ s \in Range(batch')
                => label'[s] = rollout_version'
    BY <1>1, <1>2, <2>1 DEF Pace, SamplesPerSync
  <2>6. /\ SamplesPerSync' = SamplesPerSync /\ SamplesPerSync >= 1 /\ SamplesPerSync \in Nat
        /\ (rollout_version * SamplesPerSync)' = rollout_version * SamplesPerSync
        /\ rollout_version * SamplesPerSync \in Nat
    BY <2>1, PaceTypes DEF SamplesPerSync, Inv4
  <2>7. Alive => /\ staleness_samples' + (rollout_version * SamplesPerSync)' = Taken'
                 /\ staleness_samples' < SamplesPerSync'
    BY <1>1, <2>3, <2>4, <2>6
  <2>8. QED
    BY <1>3, <2>1, <2>5, <2>7 DEF Pace
<1>6. CASE ~UpdateBegins /\ ~UpdateCounts
  <2>1. UNCHANGED <<staleness_samples, rollout_version, counted>>
    BY <1>6 DEF Sync, RpcQueues, PauseBegins, PauseEnds, TransferEnds, UpdateEnds, Resume
  <2>2. sync' # "updateCount" /\ sync # "updateCount"
    BY <1>6, SyncMoves DEF Inv4, Inv3, Inv2
  <2>3. Alive /\ sync' \in {"transfer", "updateCall", "updateLock"} => finished' = 0
    <3>1. CASE PauseEnds
      BY <3>1 DEF PauseEnds
    <3>2. CASE ~PauseEnds
      <4>1. finished' = finished
        BY <1>6, <3>2 DEF Sync, RpcQueues, PauseBegins, TransferEnds, UpdateEnds, Resume, taskVars
      <4>2. sync' \in {"transfer", "updateCall", "updateLock"}
               => sync \in {"transfer", "updateCall", "updateLock"}
        BY <1>6, <3>2, SyncMoves DEF Inv4, Inv3, Inv2
      <4>3. QED
        BY <1>2, <4>1, <4>2 DEF Pace
    <3>3. QED
      BY <3>1, <3>2
  <2>4. \A s \in Samples :
             s \in putting' \/ s \in Range(mq') \/ s \in Range(batch')
                => label'[s] = rollout_version
    BY <1>1, <1>2 DEF Pace
  <2>5. QED
    BY <1>1, <1>2, <2>1, <2>2, <2>3, <2>4, PaceKept DEF Inv4
<1>7. QED
  BY <1>4, <1>5, <1>6

LEMMA PaceTrainer ==
    ASSUME Inv4, ~Closed, Trainer, [Next]_vars, ~Processor
    PROVE  Pace'
<1>1. /\ UNCHANGED <<putting, label, staleness_samples, rollout_version, counted, finished>>
      /\ Taken' = Taken /\ mq \in Seq(Samples \cup {EndSignal}) /\ batch \in Seq(Samples)
  BY TrainerFrame DEF taskVars, feedVars, Taken, Inv4, Inv3, Inv2, Inv1, TypeOK
<1>2. Pace
  BY DEF Inv4
<1>3. Range(mq') \subseteq Range(mq) /\ Range(batch') \subseteq Range(batch) \cup Range(mq)
  <2>1. mq # << >> => Range(mq) = {Head(mq)} \cup Range(Tail(mq))
    BY <1>1, TailType
  <2>2. Range(<< >>) = {}
    BY DEF Range
  <2>3. QED
    BY <1>1, <2>1, <2>2, TrainerSteps DEF Inv4, Inv3, Inv2
<1>4. \A s \in Samples :
             s \in putting' \/ s \in Range(mq') \/ s \in Range(batch')
                => label'[s] = rollout_version
  BY <1>1, <1>2, <1>3 DEF Pace
<1>5. sync' = sync \/ (sync = "idle" /\ sync' = "pauseCall")
  BY TrainerMoves
<1>6. Alive /\ sync' \in {"transfer", "updateCall", "updateLock"} => finished' = 0
  BY <1>1, <1>2, <1>5 DEF Pace
<1>7. QED
  BY <1>1, <1>2, <1>4, <1>5, <1>6, PaceKept DEF Inv4

LEMMA PaceOthers ==
    ASSUME Inv4, ~Closed, FeedSamples \/ Monitor \/ Main \/ UNCHANGED vars, [Next]_vars,
           ~Processor
    PROVE  Pace'
<1>1. /\ UNCHANGED <<putting, label, staleness_samples, rollout_version, counted, finished, sync,
                     batch>>
      /\ Taken' = Taken
  <2>1. CASE FeedSamples
    BY <2>1, FeederFeed DEF FeedSamples, taskVars, syncVars, trainVars, Inv4, Inv3, Inv2
  <2>2. CASE Monitor \/ Main \/ UNCHANGED vars
    BY <2>2, MonitorFrame, MainFrame DEF taskVars, syncVars, trainVars, feedVars, vars, Taken
  <2>3. QED
    BY <2>1, <2>2
<1>2. Range(mq') \subseteq Range(mq) \cup {EndSignal}
  <2>1. CASE MainSendsEnd
    BY <2>1, PutRange DEF MainSendsEnd, Inv4, Inv3, Inv2, Inv1, TypeOK
  <2>2. CASE ~MainSendsEnd
    <3>1. mq' = mq
      BY <2>2, MonitorFrame DEF FeedSamples, Main, MainQueues, MainStops, queueVars, vars
    <3>2. QED
      BY <3>1
  <2>3. QED
    BY <2>1, <2>2
<1>3. \A s \in Samples :
             s \in putting' \/ s \in Range(mq') \/ s \in Range(batch')
                => label'[s] = rollout_version
  BY <1>1, <1>2, Ends DEF Pace, Inv4
<1>4. Alive /\ sync' \in {"transfer", "updateCall", "updateLock"} => finished' = 0
  BY <1>1 DEF Pace, Inv4
<1>5. QED
  BY <1>1, <1>3, <1>4, PaceKept DEF Inv4

LEMMA Inv4Init == Init => Inv4
<1> SUFFICES ASSUME Init PROVE Inv4
  OBVIOUS
<1>1. Inv3 /\ MainInv /\ TrainedInv
  BY Inv3Init, MainInit, TrainedInit
<1>2. Taken = 0
  <2>1. fed \in Nat /\ fed = SmallerOf(PendingMax, TotalSamples + 1)
    BY Sizes DEF Init, SmallerOf
  <2>2. pending_queue = [i \in 1..fed |-> IF i <= TotalSamples THEN i ELSE EndSignal]
    BY <2>1 DEF Init, Fed
  <2>3. QED
    BY <2>1, <2>2 DEF Taken
<1>3. Range(mq) = {} /\ Range(batch) = {} /\ putting = {}
  BY DEF Init, Range
<1>4. 0 * SamplesPerSync = 0 /\ (0 + 1) * SamplesPerSync = SamplesPerSync
  BY Sizes
<1>5. Pace
  BY <1>2, <1>3, <1>4, Sizes DEF Pace, Init
<1>6. QED
  BY <1>1, <1>5 DEF Inv4

LEMMA Inv4Step == MaxRequiredSamples = SamplesPerSync /\ Inv4 /\ [Next]_vars => Inv4'
<1> SUFFICES ASSUME MaxRequiredSamples = SamplesPerSync, Inv4, [Next]_vars PROVE Inv4'
  OBVIOUS
<1>1. Inv3' /\ MainInv' /\ TrainedInv'
  BY Inv3Step, MainStep, TrainedStep DEF Inv4, Inv3
<1>2. ~Closed' => Pace'
  <2>1. SUFFICES ASSUME ~Closed' PROVE Pace'
    OBVIOUS
  <2>2. ~Closed /\ Pace
    BY <2>1, ClosedStays DEF Inv4, Inv3
  <2>3. CASE Processor
    BY <2>2, <2>3, PaceProc DEF Inv4
  <2>4. CASE ~Processor
    <3>1. CASE \E s \in Samples : Task(s)
      BY <2>2, <2>4, <3>1, PaceTask
    <3>2. QED
      BY <2>2, <2>4, <3>1, PaceSync, PaceTrainer, PaceOthers DEF Next, Terminated
  <2>5. QED
    BY <2>3, <2>4
<1>3. QED
  BY <1>1, <1>2 DEF Inv4

-----------------------------------------------------------------------------
(* Nothing more than one synchronization's worth is under way.             *)
LEMMA CapStatic ==
    Inv4 /\ ~Closed =>
      /\ Cardinality(Outstanding) <= SamplesPerSync
      /\ held = EndSignal \/ faults > 0 => Cardinality(Outstanding) <= SamplesPerSync - 1
<1> SUFFICES ASSUME Inv4, ~Closed
             PROVE  /\ Cardinality(Outstanding) <= SamplesPerSync
                    /\ held = EndSignal \/ faults > 0
                         => Cardinality(Outstanding) <= SamplesPerSync - 1
  OBVIOUS
<1> DEFINE a == rollout_version * SamplesPerSync
           b == version * SamplesPerSync
<1>1. a \in Nat /\ b \in Nat /\ a <= b
  <2>1. rollout_version \in Int /\ version \in Int /\ SamplesPerSync \in Int /\ SamplesPerSync >= 0
        /\ rollout_version <= version
    BY VersionAhead, Sizes DEF Inv4, Inv3, Inv2, Inv1, TypeOK
  <2>2. a <= b
    BY <2>1, Products
  <2>3. QED
    BY <2>2, PaceTypes, ConsumedType DEF Inv4, Inv3, Inv2
<1>2. Taken <= a + SamplesPerSync /\ SamplesPerSync \in Nat
  BY PaceTypes DEF Inv4, Pace
<1>3. b <= Consumed
  <2>1. b + Len(batch) <= Consumed /\ Len(batch) \in Nat /\ Consumed \in Nat
    BY ConsumedType DEF Inv4, Inv3, Inv2, Inv1, TypeOK
  <2>2. QED
    BY <1>1, <2>1
<1>4. /\ Cardinality(Outstanding) + Consumed + faults <= Taken
      /\ Cardinality(Outstanding) + Consumed + faults <= TotalSamples
      /\ Cardinality(Outstanding) \in Nat /\ Consumed \in Nat /\ faults \in Nat /\ Taken \in Nat
  BY Budget DEF Inv4
<1>5. held = EndSignal => Taken = TotalSamples + 1
  BY DEF Inv4, Inv3, FeederInv
<1>6. TotalSamples \in Nat
  BY Sizes
<1> HIDE DEF a, b
<1>7. QED
  BY <1>1, <1>2, <1>3, <1>4, <1>5, <1>6

LEMMA DrainsBusy ==
    ASSUME Inv1, Processor, proc' = "drainLock"
    PROVE  ActiveTasks' # 0
<1>1. Cardinality(Running) \in Nat /\ finished \in Nat
  <2>1. IsFiniteSet(Running)
    BY Ends, FS_Subset DEF Running, Inv1, TypeOK
  <2>2. QED
    BY <2>1, FS_CardinalityType DEF Inv1, TypeOK
<1>2. putting' = putting
  BY ProcFrame
<1>3. ASSUME NEW w \in {"pause", "done", "limit"}, NEW sample, NEW n \in Nat, NEW q,
             DrainLoop(w, sample, n, q)
      PROVE  n >= 1 /\ UNCHANGED <<generating, bounced>>
  <2>1. DrainLimit(w) \in Nat /\ DrainLimit(w) >= 1
    BY Sizes DEF DrainLimit
  <2>2. CASE n >= DrainLimit(w)
    BY <1>3, <2>1, <2>2 DEF DrainLoop
  <2>3. CASE ~(n >= DrainLimit(w))
    <3>1. proc' # "drainLock"
      BY <1>3, <2>3 DEF DrainLoop, WaitWhilePaused, SubmitUnlessPaused
    <3>2. QED
      BY <3>1
  <2>4. QED
    BY <2>2, <2>3
<1>4. CASE ProcPauses
  <2>1. finished' = finished /\ DrainLoop("pause", held, ActiveTasks, Released)
    BY <1>4 DEF ProcPauses
  <2>2. ActiveTasks >= 1 /\ UNCHANGED <<generating, bounced>>
    BY <1>1, <1>3, <2>1 DEF ActiveTasks
  <2>3. QED
    BY <1>1, <1>2, <2>1, <2>2 DEF ActiveTasks, Running
<1>5. CASE ProcDrainLocked
  <2>1. CASE ActiveTasks > 0
    BY <1>5, <2>1 DEF ProcDrainLocked
  <2>2. CASE ActiveTasks = 0 /\ done_bound
    <3>1. DrainLoop(why, held, 0, Released)
      BY <1>5, <2>2 DEF ProcDrainLocked
    <3>2. why \in {"pause", "done", "limit"} /\ 0 \in Nat
      BY DEF Inv1, TypeOK
    <3>3. 0 >= 1
      BY <1>3, <3>1, <3>2
    <3>4. QED
      BY <3>3
  <2>3. CASE ~(ActiveTasks > 0) /\ ~(ActiveTasks = 0 /\ done_bound)
    BY <1>5, <2>3 DEF ProcDrainLocked
  <2>4. QED
    BY <2>1, <2>2, <2>3
<1>6. CASE ProcDrained
  <2>1. finished' = 0 /\ (raised > 0 => proc' = "crashed")
        /\ (~(raised > 0) => DrainLoop(why, held, Cardinality(Running), Released))
    BY <1>6 DEF ProcDrained
  <2>2. why \in {"pause", "done", "limit"}
    BY DEF Inv1, TypeOK
  <2>3. Cardinality(Running) >= 1 /\ UNCHANGED <<generating, bounced>>
    BY <1>1, <1>3, <2>1, <2>2
  <2>4. Running' = Running
    BY <1>2, <2>3 DEF Running
  <2>5. QED
    BY <1>1, <2>1, <2>3, <2>4 DEF ActiveTasks
<1>7. CASE ProcTakesCancelled
  <2>1. finished' = finished /\ DrainLoop("limit", Head(cancel_queue), ActiveTasks, lock)
    BY <1>7 DEF ProcTakesCancelled
  <2>2. ActiveTasks >= 1 /\ UNCHANGED <<generating, bounced>>
    BY <1>1, <1>3, <2>1 DEF ActiveTasks
  <2>3. QED
    BY <1>1, <1>2, <2>1, <2>2 DEF ActiveTasks, Running
<1>8. CASE ProcTakesPending
  <2>1. /\ finished' = finished
        /\ DrainLoop(IF Head(pending_queue) = EndSignal THEN "done" ELSE "limit",
                     Head(pending_queue), ActiveTasks, lock)
    BY <1>8 DEF ProcTakesPending
  <2>2. (IF Head(pending_queue) = EndSignal THEN "done" ELSE "limit")
           \in {"pause", "done", "limit"}
    OBVIOUS
  <2>3. ActiveTasks >= 1 /\ UNCHANGED <<generating, bounced>>
    BY <1>1, <1>3, <2>1, <2>2 DEF ActiveTasks
  <2>4. QED
    BY <1>1, <1>2, <2>1, <2>3 DEF ActiveTasks, Running
<1>9. ~(ProcSeesPause \/ ProcWoken \/ ProcWaits \/ ProcSubmits \/ ProcAwaitsPending)
  BY DEF ProcSeesPause, ProcWoken, ProcWaits, ProcSubmits, ProcAwaitsPending, WaitWhilePaused,
         SubmitUnlessPaused
<1>10. QED
  BY <1>4, <1>5, <1>6, <1>7, <1>8, <1>9 DEF Processor

(* How the processor dies.                                                 *)
LEMMA ProcDies ==
    ASSUME Inv1, Processor, proc' = "crashed"
    PROVE  \/ raised > 0
           \/ /\ proc = "drainLock" /\ ActiveTasks = 0
              /\ UNCHANGED <<generating, bounced, held, cancel_queue>>
<1>1. ASSUME NEW w, NEW sample, NEW n, NEW q
      PROVE  ~DrainLoop(w, sample, n, q)
  BY DEF DrainLoop, WaitWhilePaused, SubmitUnlessPaused
<1>2. CASE ProcDrainLocked
  <2>1. ~(ActiveTasks > 0) /\ ~(ActiveTasks = 0 /\ done_bound)
    BY <1>1, <1>2 DEF ProcDrainLocked
  <2>2. /\ proc = "drainLock"
        /\ UNCHANGED <<generating, bounced, held, cancel_queue>>
    BY <1>2, <2>1 DEF ProcDrainLocked, procRest, Acquires
  <2>3. ActiveTasks = 0
    <3>1. IsFiniteSet(Running)
      BY Ends, FS_Subset DEF Running, Inv1, TypeOK
    <3>2. Cardinality(Running) \in Nat /\ finished \in Nat
      BY <3>1, FS_CardinalityType DEF Inv1, TypeOK
    <3>3. QED
      BY <2>1, <3>2 DEF ActiveTasks
  <2>4. QED
    BY <2>2, <2>3
<1>3. CASE ProcDrained
  BY <1>1, <1>3 DEF ProcDrained
<1>4. ~(ProcPauses \/ ProcTakesCancelled \/ ProcTakesPending)
  BY <1>1 DEF ProcPauses, ProcTakesCancelled, ProcTakesPending
<1>5. ~(ProcSeesPause \/ ProcWoken \/ ProcWaits \/ ProcSubmits \/ ProcAwaitsPending)
  BY DEF ProcSeesPause, ProcWoken, ProcWaits, ProcSubmits, ProcAwaitsPending, WaitWhilePaused,
         SubmitUnlessPaused
<1>6. QED
  BY <1>2, <1>3, <1>4, <1>5 DEF Processor

LEMMA CapProc ==
    ASSUME MaxRequiredSamples = SamplesPerSync, Inv4, CapInv, Processor
    PROVE  CapInv'
<1>1. Inv4'
  BY Inv4Step DEF Next
<1>2. ~Closed'
  <2>1. ~Closed
    BY AliveOpen, ProcStops DEF Alive, Inv4
  <2>2. QED
    BY <2>1, ProcFrame DEF Closed
<1>3. /\ (Cardinality(Outstanding) <= SamplesPerSync)'
      /\ (held = EndSignal \/ faults > 0 => Cardinality(Outstanding) <= SamplesPerSync - 1)'
  <2>1. Inv4' /\ (~Closed)' =>
          /\ (Cardinality(Outstanding) <= SamplesPerSync)'
          /\ (held = EndSignal \/ faults > 0 => Cardinality(Outstanding) <= SamplesPerSync - 1)'
    BY CapStatic, PTL
  <2>2. QED
    BY <1>1, <1>2, <2>1
<1>4. dropped' = {}
  BY ProcFrame DEF CapInv
<1>5. CASE proc' = "exited"
  <2>1. held' = EndSignal
    BY <1>1, <1>5 DEF Inv4, Inv3, Inv2, Inv1, HeldInv
  <2>2. QED
    BY <1>3, <1>4, <2>1 DEF CapInv
<1>6. CASE proc' = "crashed"
  <2>1. CASE raised > 0
    <3>1. faults' > 0
      BY <2>1, ProcFrame DEF Inv4, TrainedInv, Inv3, Inv2, Inv1, TypeOK
    <3>2. QED
      BY <1>3, <1>4, <3>1 DEF CapInv
  <2>2. CASE /\ proc = "drainLock" /\ ActiveTasks = 0
             /\ UNCHANGED <<generating, bounced, held, cancel_queue>>
    <3>1. Outstanding' = Outstanding
      BY <2>2, ProcFrame DEF Outstanding, Running, Samples
    <3>2. SamplesPerSync' = SamplesPerSync
      BY DEF SamplesPerSync
    <3>3. Cardinality(Outstanding) <= SamplesPerSync - 1
      BY <2>2 DEF CapInv
    <3>4. QED
      BY <1>3, <1>4, <3>1, <3>2, <3>3 DEF CapInv
  <2>3. QED
    BY <1>6, <2>1, <2>2, ProcDies DEF Inv4, Inv3, Inv2
<1>7. CASE proc' \notin {"exited", "crashed"}
  <2>1. Alive'
    BY <1>7 DEF Alive
  <2>2. proc' = "drainLock" => ActiveTasks' # 0
    BY DrainsBusy DEF Inv4, Inv3, Inv2
  <2>3. QED
    BY <1>3, <1>4, <2>1, <2>2 DEF CapInv
<1>8. QED
  BY <1>5, <1>6, <1>7

LEMMA CapDropped ==
    ASSUME MaxRequiredSamples = SamplesPerSync, Inv4, CapInv, [Next]_vars
    PROVE  dropped' = {}
<1>1. /\ mq \in Seq(Samples \cup {EndSignal}) /\ NoDup(mq) /\ Len(mq) \in Nat
      /\ MaxQueueSize = SamplesPerSync /\ SamplesPerSync \in Nat /\ dropped = {}
  BY Sizes DEF Inv4, Inv3, Inv2, Inv1, TypeOK, PlaceInv, CapInv
<1>2. IsFiniteSet(Range(mq)) /\ Cardinality(Range(mq)) = Len(mq)
      /\ Range(mq) \subseteq Samples \cup {EndSignal}
  BY <1>1, RangeCount, RangeType
<1>3. Outstanding \subseteq Samples /\ Cardinality(Outstanding) \in Nat
      /\ Cardinality(Outstanding) <= SamplesPerSync
  BY OutstandingType DEF Inv4, Inv3, Inv2, CapInv
<1>4. ~Alive => Cardinality(Outstanding) <= SamplesPerSync - 1
  BY DEF CapInv
<1>5. ASSUME NEW m, PutSample(m), Len(mq) < MaxQueueSize
      PROVE  dropped' = {}
  BY <1>1, <1>5 DEF PutSample
<1>6. CASE PutSample(EndSignal) /\ MainSendsEnd
  <2>1. ~Alive /\ EndSignal \notin Range(mq)
    BY <1>6 DEF MainSendsEnd, Alive, Inv4, Inv3, EndInv
  <2>2. Range(mq) \subseteq Outstanding
    BY <1>2, <2>1 DEF Outstanding
  <2>3. Cardinality(Range(mq)) <= Cardinality(Outstanding)
    BY <1>3, <2>2, FewerSamples
  <2>4. Len(mq) < MaxQueueSize
    BY <1>1, <1>2, <1>3, <1>4, <2>1, <2>3
  <2>5. QED
    BY <1>5, <1>6, <2>4
<1>7. ASSUME NEW s \in Samples, PutSample(s), TaskPut(s) PROVE dropped' = {}
  <2>1. s \in Outstanding /\ s \notin Range(mq) /\ s # EndSignal
    BY <1>7, Ends DEF TaskPut, Outstanding, Running, Inv4, Inv3, PlaceInv, Alone
  <2>2. Cardinality(Range(mq) \cup {s}) = Len(mq) + 1
    BY <1>2, <2>1, FS_AddElement
  <2>3. CASE EndSignal \notin Range(mq)
    <3>1. Range(mq) \cup {s} \subseteq Outstanding
      BY <1>2, <2>1, <2>3 DEF Outstanding
    <3>2. Cardinality(Range(mq) \cup {s}) <= Cardinality(Outstanding)
      BY <1>3, <3>1, FewerSamples
    <3>3. Len(mq) < MaxQueueSize
      BY <1>1, <1>3, <2>2, <3>2
    <3>4. QED
      BY <1>5, <1>7, <3>3
  <2>4. CASE EndSignal \in Range(mq)
    <3>1. ~Alive
      BY <2>4 DEF Alive, Inv4, Inv3, EndInv, MainInv
    <3> DEFINE T == (Range(mq) \cup {s}) \ {EndSignal}
    <3>2. T \subseteq Outstanding
      BY <1>2, <2>1 DEF Outstanding
    <3>3. Cardinality(T) = Len(mq)
      <4>1. IsFiniteSet(Range(mq) \cup {s}) /\ EndSignal \in Range(mq) \cup {s}
        BY <1>2, <2>4, FS_AddElement
      <4>2. Cardinality(T) = Cardinality(Range(mq) \cup {s}) - 1
        BY <4>1, FS_RemoveElement
      <4>3. QED
        BY <1>1, <2>2, <4>2
    <3>4. Cardinality(T) <= Cardinality(Outstanding)
      BY <1>3, <3>2, FewerSamples
    <3> HIDE DEF T
    <3>5. Len(mq) < MaxQueueSize
      BY <1>1, <1>3, <1>4, <3>1, <3>3, <3>4
    <3>6. QED
      BY <1>5, <1>7, <3>5
  <2>5. QED
    BY <2>3, <2>4
<1>8. QED
  BY <1>1, <1>6, <1>7, MqMoves DEF Inv4, Inv3, Inv2

LEMMA CapOthers ==
    ASSUME MaxRequiredSamples = SamplesPerSync, Inv4, CapInv, [Next]_vars, ~Processor
    PROVE  CapInv'
<1>1. SamplesPerSync' = SamplesPerSync /\ SamplesPerSync \in Nat
  BY Sizes DEF SamplesPerSync
<1>2. Cardinality(Outstanding') <= Cardinality(Outstanding)
      /\ Cardinality(Outstanding') \in Nat /\ Cardinality(Outstanding) \in Nat
  <2>1. Outstanding' \subseteq Outstanding
    BY OthersFinish DEF Next, Terminated, Inv4, Inv3, Inv2
  <2>2. QED
    BY <2>1, OutstandingType, FewerSamples DEF Inv4, Inv3, Inv2
<1>3. (Alive' <=> Alive) /\ (proc' = "drainLock" => proc = "drainLock")
  BY ProcStays DEF NotifyAll, Alive, Inv4, Inv3, Inv2
<1>4. ASSUME proc' = "drainLock", ActiveTasks' = 0
      PROVE  Cardinality(Outstanding) <= SamplesPerSync - 1
  <2>1. proc = "drainLock"
    BY <1>3, <1>4
  <2>2. CASE ActiveTasks = 0
    BY <2>1, <2>2 DEF CapInv
  <2>3. CASE PauseEnds
    <3>1. sync = "pauseGather"
      BY <2>3 DEF PauseEnds
    <3>2. Pace /\ ~Closed
      BY <2>1, AliveOpen DEF Alive, Inv4
    <3>3. rollout_version + 1 <= version /\ rollout_version + 1 \in Nat
          /\ Taken <= (rollout_version + 1) * SamplesPerSync
      BY <3>1, <3>2, VersionAhead, PaceTypes DEF Inv4, Inv3, Pace
    <3>4. Cardinality(Outstanding) = 0
      BY <3>2, <3>3, Exhausted DEF Inv4
    <3>5. QED
      BY <3>4, Sizes
  <2>4. CASE ActiveTasks # 0 /\ ~PauseEnds
    <3>1. finished \in Nat /\ Cardinality(Running') \in Nat
      <4>1. IsFiniteSet(Running)'
        <5>1. Inv1'
          BY TypeStep DEF Inv4, Inv3, Inv2
        <5>2. Running' \subseteq Samples
          BY <5>1 DEF Running, Samples, Inv1, TypeOK
        <5>3. QED
          BY <5>2, Ends, FS_Subset
      <4>2. QED
        BY <4>1, FS_CardinalityType DEF Inv4, Inv3, Inv2, Inv1, TypeOK
    <3>2. CASE \E s \in Samples : TaskGenerated(s) \/ TaskReachesServer(s)
      <4>1. Running' = Running /\ finished' = finished
        BY <3>2 DEF TaskGenerated, TaskReachesServer, Running
      <4>2. QED
        BY <1>4, <2>4, <4>1 DEF ActiveTasks
    <3>3. CASE \E s \in Samples : TaskPut(s) \/ TaskCancelled(s) \/ TaskRaised(s)
      <4>1. finished' = finished + 1
        BY <3>3 DEF TaskPut, TaskCancelled, TaskRaised
      <4>2. ActiveTasks' # 0
        BY <3>1, <4>1 DEF ActiveTasks
      <4>3. QED
        BY <1>4, <4>2
    <3>4. CASE ~(\E s \in Samples : Task(s))
      <4>1. UNCHANGED taskVars
        <5>1. CASE Sync
          BY <2>4, <5>1 DEF Sync, RpcQueues, PauseBegins, TransferEnds, UpdateBegins,
             UpdateCounts, UpdateEnds, Resume, taskVars
        <5>2. QED
          BY <3>4, <5>1, MonitorFrame, MainFrame, TrainerFrame
          DEF Next, FeedSamples, Terminated, vars
      <4>2. Running' = Running /\ finished' = finished
        BY <4>1 DEF taskVars, Running
      <4>3. QED
        BY <1>4, <2>4, <4>2 DEF ActiveTasks
    <3>5. QED
      BY <3>2, <3>3, <3>4 DEF Task
  <2>5. QED
    BY <2>2, <2>3, <2>4
<1>5. dropped' = {}
  BY CapDropped
<1>6. ~Alive => Cardinality(Outstanding) <= SamplesPerSync - 1
  BY DEF CapInv
<1>7. Cardinality(Outstanding) <= SamplesPerSync
  BY DEF CapInv
<1>8. QED
  BY <1>1, <1>2, <1>3, <1>4, <1>5, <1>6, <1>7 DEF CapInv

LEMMA CapInit == Init => CapInv
<1> SUFFICES ASSUME Init PROVE CapInv
  OBVIOUS
<1>1. Outstanding = {}
  BY Ends DEF Init, Outstanding, Running, Range
<1>2. Cardinality(Outstanding) = 0
  BY <1>1, FS_EmptySet
<1>3. QED
  BY <1>2, Sizes DEF CapInv, Alive, Init

LEMMA CapStep ==
    MaxRequiredSamples = SamplesPerSync /\ Inv4 /\ CapInv /\ [Next]_vars => CapInv'
BY CapProc, CapOthers

(* A batch is complete before the version moves, and a sample of an older  *)
(* version would have been taken before that.                              *)
LEMMA OnPolicyFromInv == Inv4 => OnPolicy
<1> SUFFICES ASSUME Inv4, NEW s \in Range(batch) PROVE label[s] = version
  BY DEF OnPolicy
<1>1. batch # << >> /\ s \in Samples
  BY RangeType DEF Range, Inv4, Inv3, Inv2, Inv1, TypeOK
<1>2. trainer \in {"collect", "train"} /\ ~Closed
  BY <1>1 DEF Inv4, Inv3, Inv2, BatchInv, Closed
<1>3. label[s] = rollout_version /\ Taken <= (rollout_version + 1) * SamplesPerSync
  BY <1>1, <1>2 DEF Inv4, Pace
<1>4. sync \notin {"updateCall", "updateLock"}
  <2>1. SUFFICES ASSUME sync \in {"updateCall", "updateLock"} PROVE FALSE
    OBVIOUS
  <2>2. rollout_version + 1 <= version /\ rollout_version + 1 \in Nat
    BY <2>1, VersionAhead, PaceTypes DEF Inv4, Inv3
  <2>3. batch = << >>
    BY <1>2, <1>3, <2>2, Exhausted DEF Inv4
  <2>4. QED
    BY <1>1, <2>3
<1>5. version = rollout_version
  BY <1>2, <1>4 DEF Inv4, Inv3, Inv2, VersionInv, Inv1, TypeOK
<1>6. QED
  BY <1>3, <1>5

(* staleness_threshold = 0 (max_required_samples is then what one          *)
(* synchronization consumes) is on-policy: every sample of a batch carries *)
(* the version that is trained.                                            *)
THEOREM SynchronousOnPolicy ==
    ASSUME MaxRequiredSamples = SamplesPerSync
    PROVE  Spec => []OnPolicy
<1>1. Inv4 /\ [Next]_vars => Inv4'
  BY Inv4Step
<1>2. QED
  BY <1>1, Inv4Init, OnPolicyFromInv, PTL DEF Spec

(* staleness_threshold = 0: no more samples are outstanding than one       *)
(* synchronization consumes, and put_sample never evicts, not even for the *)
(* None that follows a crash of the processor.                             *)
THEOREM SynchronousCapped ==
    ASSUME MaxRequiredSamples = SamplesPerSync
    PROVE  Spec => []OutstandingCapped
<1>1. Inv4 /\ [Next]_vars => Inv4'
  BY Inv4Step
<1>2. Inv4 /\ CapInv /\ [Next]_vars => CapInv'
  BY CapStep
<1>3. CapInv => OutstandingCapped
  BY DEF CapInv, OutstandingCapped
<1>4. QED
  BY <1>1, <1>2, <1>3, Inv4Init, CapInit, PTL DEF Spec
=============================================================================
