------------------------- MODULE MessageQueueProofs -------------------------
(***************************************************************************)
(* Theorems about MessageQueue for every set of payloads and of getters,   *)
(* every capacity and every bound on versions.                             *)
(*                                                                         *)
(* QueueInv is the inductive invariant.  Beside the checked invariants it  *)
(* only says that nothing reached a reader, or was lost, that was not sent *)
(* (OnlySent); the refinement of LossyFifo needs this to know that a newly *)
(* put payload is new to the abstract queue as well.                       *)
(***************************************************************************)
EXTENDS MessageQueue, SequenceTheorems, TLAPS

OnlySent == Range(queue) \cup received \cup lost \subseteq Range(sent)

QueueInv ==
    /\ TypeOK
    /\ Bounded
    /\ QueueIsNewest
    /\ NoLostWakeup
    /\ EverySampleCounted
    /\ OnlySent

-----------------------------------------------------------------------------
(* Facts about sequences, stated once.                                     *)

(* Taking the oldest entry adds nothing to a queue.                        *)
LEMMA RangeOfTail ==
    ASSUME NEW S, NEW q \in Seq(S), q # << >>
    PROVE  Range(Tail(q)) \subseteq Range(q) /\ Head(q) \in Range(q)
  <1>1. /\ Range(q) = {q[i] : i \in 1..Len(q)}
        /\ Tail(q) \in Seq(S)
        /\ Range(Tail(q)) = {Tail(q)[i] : i \in 1..Len(Tail(q))}
    BY HeadTailProperties, RangeEquality
  <1>2. Len(q) \in Nat \ {0} /\ Head(q) = q[1]
    BY EmptySeq
  <1>3. Len(Tail(q)) = Len(q) - 1
        /\ \A i \in 1..Len(Tail(q)) : Tail(q)[i] = q[i + 1]
    BY HeadTailProperties
  <1>4. \A i \in 1..Len(Tail(q)) : i + 1 \in 1..Len(q)
    BY <1>2, <1>3
  <1>5. 1 \in 1..Len(q)
    BY <1>2
  <1>6. ASSUME NEW x \in Range(Tail(q))
        PROVE  x \in Range(q)
    <2>1. PICK i \in 1..Len(Tail(q)) : x = Tail(q)[i]
      BY <1>1, Zenon
    <2>2. x = q[i + 1] /\ i + 1 \in 1..Len(q)
      BY <1>3, <1>4, <2>1
    <2> QED
      BY <1>1, <2>2, Zenon
  <1>7. Head(q) \in Range(q)
    BY <1>1, <1>2, <1>5, Zenon
  <1> QED
    BY <1>6, <1>7

(* Putting an entry adds exactly that entry.                               *)
LEMMA RangeOfAppend ==
    ASSUME NEW S, NEW q \in Seq(S), NEW m \in S
    PROVE  Range(Append(q, m)) = Range(q) \cup {m}
  <1>1. <<m>> \in Seq(S) /\ Append(q, m) = q \o <<m>>
    BY AppendIsConcat
  <1>2. Range(<<m>>) = {m}
    BY DEF Range
  <1>3. Range(q \o <<m>>) = Range(q) \cup Range(<<m>>)
    BY <1>1, RangeConcatenation, Zenon
  <1> QED
    BY <1>1, <1>2, <1>3, Zenon

(* Eviction: the oldest entry leaves and a new one enters.                 *)
LEMMA EvictionFacts ==
    ASSUME NEW S, NEW q \in Seq(S), q # << >>, NEW m \in S
    PROVE  /\ Append(Tail(q), m) \in Seq(S)
           /\ Len(q) \in Nat \ {0}
           /\ Len(Append(Tail(q), m)) = Len(q)
           /\ \A i \in 1..Len(q) - 1 : Append(Tail(q), m)[i] = q[i + 1]
           /\ Append(Tail(q), m)[Len(q)] = m
           /\ Range(Append(Tail(q), m)) = Range(Tail(q)) \cup {m}
  <1>1. PICK t \in Seq(S) :
          /\ t = Tail(q)
          /\ Len(t) = Len(q) - 1
          /\ \A i \in 1..Len(t) : t[i] = q[i + 1]
    BY HeadTailProperties
  <1>2. Len(q) \in Nat \ {0}
    BY EmptySeq
  <1>3. /\ Append(t, m) \in Seq(S)
        /\ Len(Append(t, m)) = Len(t) + 1
        /\ \A i \in 1..Len(t) : Append(t, m)[i] = t[i]
        /\ Append(t, m)[Len(t) + 1] = m
    BY AppendProperties
  <1>4. Range(Append(t, m)) = Range(t) \cup {m}
    BY RangeOfAppend
  <1>5. Len(t) + 1 = Len(q)
    BY <1>1, <1>2
  <1>6. 1..Len(t) = 1..Len(q) - 1
    BY <1>1
  <1> QED
    BY <1>1, <1>2, <1>3, <1>4, <1>5, <1>6, Zenon

-----------------------------------------------------------------------------
(* The initial state.                                                      *)
LEMMA InitQueueInv == Init => QueueInv
  BY MaxQueueSizeAssumption, MaxVersionAssumption
     DEF Init, QueueInv, TypeOK, Bounded, QueueIsNewest, NoLostWakeup,
         EverySampleCounted, OnlySent, Versions, Range

(* put_sample, with and without eviction.                                  *)
LEMMA PutSampleQueueInv ==
    ASSUME QueueInv, NEW m \in Messages, PutSample(m)
    PROVE  QueueInv'
  <1> USE DEF QueueInv, TypeOK
  <1>1. queue \in Seq(Messages) /\ sent \in Seq(Messages)
    OBVIOUS
  <1>2. sent' = Append(sent, m)
    BY DEF PutSample
  <1>3. NotifyAll
    BY DEF PutSample
  <1>4. getter' \in [Consumers -> {"idle", "notified"}]
    BY <1>3 DEF NotifyAll
  <1>5. CASE ~Full
    <2>1. queue' = Append(queue, m) /\ UNCHANGED <<dropped_samples, lost>>
      BY <1>5 DEF PutSample
    <2>2. TypeOK'
      BY <1>1, <1>2, <1>4, <2>1, AppendProperties DEF PutSample
    <2>3. Bounded'
      BY <1>1, <1>5, <2>1, AppendProperties, MaxQueueSizeAssumption DEF Full, Bounded
    <2>4. QueueIsNewest'
      BY <1>1, <1>2, <2>1, AppendProperties DEF QueueIsNewest
    <2>5. NoLostWakeup'
      BY <1>4 DEF NoLostWakeup
    <2>6. EverySampleCounted'
      <3>1. Len(queue') = Len(queue) + 1 /\ Len(queue) \in Nat
        BY <1>1, <2>1, AppendProperties
      <3>2. /\ total_produced' = total_produced + 1
            /\ UNCHANGED <<total_consumed, cleared>>
        BY DEF PutSample
      <3> QED
        BY <2>1, <3>1, <3>2 DEF EverySampleCounted
    <2>7. OnlySent'
      BY <1>1, <1>2, <2>1, RangeOfAppend DEF OnlySent, PutSample
    <2> QED
      BY <2>2, <2>3, <2>4, <2>5, <2>6, <2>7
  <1>6. CASE Full
    <2>1. /\ queue' = Append(Tail(queue), m)
          /\ dropped_samples' = dropped_samples + 1
          /\ lost' = lost \cup {Head(queue)}
      BY <1>6 DEF PutSample, Remainder
    <2>2. queue # << >>
      BY <1>1, <1>6, MaxQueueSizeAssumption DEF Full
    <2>3. /\ queue' \in Seq(Messages)
          /\ Len(queue) \in Nat \ {0}
          /\ Len(queue') = Len(queue)
          /\ \A i \in 1..Len(queue) - 1 : queue'[i] = queue[i + 1]
          /\ queue'[Len(queue)] = m
          /\ Range(queue') = Range(Tail(queue)) \cup {m}
      <3>1. PICK q \in Seq(Messages) : q = queue
        BY <1>1
      <3>2. q # << >>
        BY <2>2, <3>1
      <3>3. /\ Append(Tail(q), m) \in Seq(Messages)
            /\ Len(q) \in Nat \ {0}
            /\ Len(Append(Tail(q), m)) = Len(q)
            /\ \A i \in 1..Len(q) - 1 : Append(Tail(q), m)[i] = q[i + 1]
            /\ Append(Tail(q), m)[Len(q)] = m
            /\ Range(Append(Tail(q), m)) = Range(Tail(q)) \cup {m}
        BY <3>2, EvictionFacts
      <3> QED
        BY <2>1, <3>1, <3>3, Zenon
    <2>4. Head(queue) \in Messages
      BY <1>1, <2>2, HeadTailProperties
    <2>5. /\ total_produced' = total_produced + 1
          /\ dropped_samples' = dropped_samples + 1
          /\ UNCHANGED <<running, total_consumed, current_param_version, val_queue,
                         received, cleared>>
      BY <2>1 DEF PutSample
    <2>6. TypeOK'
      <3>1. sent' \in Seq(Messages)
        BY <1>1, <1>2, AppendProperties
      <3>2. lost' \subseteq Messages
        BY <2>1, <2>4
      <3> QED
        BY <1>4, <2>3, <2>5, <3>1, <3>2
    <2>7. Bounded'
      BY <2>3 DEF Bounded
    <2>8. QueueIsNewest'
      <3>1. /\ Len(sent) \in Nat /\ Len(queue) <= Len(sent)
            /\ Len(sent') = Len(sent) + 1
            /\ \A j \in 1..Len(sent) : sent'[j] = sent[j]
            /\ sent'[Len(sent) + 1] = m
        BY <1>1, <1>2, AppendProperties DEF QueueIsNewest
      <3>2. ASSUME NEW i \in 1..Len(queue'), i # Len(queue)
            PROVE  queue'[i] = sent'[Len(sent') - Len(queue') + i]
        <4>1. i \in 1..Len(queue) - 1 /\ i + 1 \in 1..Len(queue)
          BY <2>3, <3>2
        <4>2. queue[i + 1] = sent[Len(sent) - Len(queue) + (i + 1)]
          BY <4>1 DEF QueueIsNewest
        <4>3. Len(sent) - Len(queue) + (i + 1) \in 1..Len(sent)
          BY <2>3, <3>1, <4>1
        <4>4. Len(sent') - Len(queue') + i = Len(sent) - Len(queue) + (i + 1)
          BY <2>3, <3>1, <4>1
        <4> QED
          BY <2>3, <3>1, <4>1, <4>2, <4>3, <4>4, Zenon
      <3>3. Len(sent') - Len(queue') + Len(queue) = Len(sent) + 1
        BY <2>3, <3>1
      <3>4. queue'[Len(queue)] = sent'[Len(sent') - Len(queue') + Len(queue)]
        BY <2>3, <3>1, <3>3, Zenon
      <3>5. Len(queue') <= Len(sent')
        BY <2>3, <3>1
      <3> QED
        BY <3>2, <3>4, <3>5 DEF QueueIsNewest
    <2>9. NoLostWakeup'
      BY <1>4 DEF NoLostWakeup
    <2>10. EverySampleCounted'
      <3>1. Len(queue') = Len(queue) /\ Len(queue) \in Nat
        BY <2>3
      <3> QED
        BY <2>5, <3>1 DEF EverySampleCounted
    <2>11. OnlySent'
      <3>1. Range(sent') = Range(sent) \cup {m}
        BY <1>1, <1>2, RangeOfAppend
      <3>2. Range(Tail(queue)) \subseteq Range(queue) /\ Head(queue) \in Range(queue)
        BY <1>1, <2>2, RangeOfTail
      <3> QED
        BY <2>1, <2>3, <2>5, <3>1, <3>2 DEF OnlySent
    <2> QED
      BY <2>6, <2>7, <2>8, <2>9, <2>10, <2>11
  <1> QED
    BY <1>5, <1>6

(* get_sample, a new call or a woken one: both run TryGet.                 *)
LEMMA TryGetQueueInv ==
    ASSUME QueueInv, NEW c \in Consumers, TryGet(c)
    PROVE  QueueInv'
  <1> USE DEF QueueInv, TypeOK
  <1>1. queue \in Seq(Messages) /\ sent \in Seq(Messages)
    OBVIOUS
  <1>2. UNCHANGED <<running, total_produced, dropped_samples,
                    current_param_version, val_queue, sent, lost, cleared>>
    BY DEF TryGet
  <1>3. CASE queue # << >>
    <2>1. /\ queue' = Tail(queue)
          /\ total_consumed' = total_consumed + 1
          /\ received' = received \cup {Head(queue)}
          /\ getter' = [getter EXCEPT ![c] = "idle"]
      BY <1>3 DEF TryGet, TakesOldest
    <2>2. /\ Head(queue) \in Messages
          /\ Tail(queue) \in Seq(Messages)
          /\ Len(queue) \in Nat \ {0}
          /\ Len(Tail(queue)) = Len(queue) - 1
          /\ \A i \in 1..Len(queue) - 1 : Tail(queue)[i] = queue[i + 1]
      BY <1>1, <1>3, HeadTailProperties
    <2>3. TypeOK'
      BY <1>2, <2>1, <2>2
    <2>4. Bounded'
      BY <2>1, <2>2, MaxQueueSizeAssumption DEF Bounded
    <2>5. QueueIsNewest'
      BY <1>1, <1>2, <2>1, <2>2 DEF QueueIsNewest
    <2>6. NoLostWakeup'
      BY <1>3, <2>1 DEF NoLostWakeup
    <2>7. EverySampleCounted'
      BY <1>2, <2>1, <2>2 DEF EverySampleCounted
    <2>8. OnlySent'
      <3>1. Range(Tail(queue)) \subseteq Range(queue) /\ Head(queue) \in Range(queue)
        BY <1>1, <1>3, RangeOfTail
      <3> QED
        BY <1>2, <2>1, <3>1 DEF OnlySent
    <2> QED
      BY <2>3, <2>4, <2>5, <2>6, <2>7, <2>8
  <1>4. CASE queue = << >>
    <2>1. /\ UNCHANGED <<queue, total_consumed, received>>
          /\ getter' = [getter EXCEPT ![c] = IF running THEN "waiting" ELSE "idle"]
      BY <1>4 DEF TryGet
    <2>2. TypeOK'
      BY <1>2, <2>1
    <2>3. NoLostWakeup'
      BY <1>2, <1>4, <2>1 DEF NoLostWakeup
    <2> QED
      BY <1>2, <2>1, <2>2, <2>3
         DEF Bounded, QueueIsNewest, EverySampleCounted, OnlySent
  <1> QED
    BY <1>3, <1>4

(* clear_queue.                                                            *)
LEMMA ClearQueueQueueInv ==
    ASSUME QueueInv, ClearQueue
    PROVE  QueueInv'
  <1> USE DEF QueueInv, TypeOK
  <1>1. /\ queue \in Seq(Messages) /\ Len(queue) \in Nat
        /\ sent \in Seq(Messages) /\ Len(sent) \in Nat
    OBVIOUS
  <1>2. queue' = << >> /\ Len(queue') = 0 /\ Range(queue') = {}
    BY DEF ClearQueue, Range
  <1>3. Range(queue) \subseteq Messages
    BY <1>1, RangeEquality
  <1>4. TypeOK'
    <2>1. UNCHANGED <<running, total_produced, total_consumed, dropped_samples,
                      current_param_version, val_queue, getter, sent, received>>
      BY DEF ClearQueue, counters
    <2>2. lost' \subseteq Messages /\ cleared' \in Nat
      BY <1>1, <1>3 DEF ClearQueue
    <2> QED
      BY <1>2, <2>1, <2>2
  <1>5. Bounded'
    BY <1>2, MaxQueueSizeAssumption DEF Bounded
  <1>6. QueueIsNewest'
    BY <1>1, <1>2 DEF QueueIsNewest, ClearQueue
  <1>7. NoLostWakeup'
    BY <1>2 DEF NoLostWakeup, ClearQueue
  <1>8. EverySampleCounted'
    BY <1>1, <1>2 DEF EverySampleCounted, ClearQueue, counters
  <1>9. OnlySent'
    BY <1>2 DEF OnlySent, ClearQueue
  <1> QED
    BY <1>4, <1>5, <1>6, <1>7, <1>8, <1>9

(* shutdown: the only step that makes ~running, and it leaves nobody       *)
(* asleep.                                                                 *)
LEMMA ShutdownQueueInv ==
    ASSUME QueueInv, Shutdown
    PROVE  QueueInv'
  <1> USE DEF QueueInv, TypeOK
  <1>1. getter' \in [Consumers -> {"idle", "notified"}]
    BY DEF Shutdown, NotifyAll
  <1>2. TypeOK'
    BY <1>1 DEF Shutdown, counters, history
  <1>3. NoLostWakeup'
    BY <1>1 DEF NoLostWakeup
  <1> QED
    BY <1>2, <1>3 DEF Bounded, QueueIsNewest, EverySampleCounted, OnlySent,
                      Shutdown, counters, history

(* The side channels: versions and validation results.                     *)
LEMMA SideQueueInv ==
    ASSUME QueueInv,
           \/ \E v \in Versions : UpdateParamVersion(v) \/ PutValidate(v)
           \/ GetValidate
    PROVE  QueueInv'
  <1> USE DEF QueueInv, TypeOK
  <1>1. UNCHANGED <<queue, running, counters, getter, history>>
    BY DEF UpdateParamVersion, PutValidate, GetValidate
  <1>2. current_param_version' \in Versions
    BY DEF UpdateParamVersion, PutValidate, GetValidate
  <1>3. val_queue' \in Seq(Versions)
    <2>1. CASE GetValidate
      BY <2>1, HeadTailProperties DEF GetValidate
    <2>2. CASE \E v \in Versions : UpdateParamVersion(v)
      BY <2>2 DEF UpdateParamVersion
    <2>3. CASE \E v \in Versions : PutValidate(v)
      BY <2>3, AppendProperties DEF PutValidate
    <2> QED
      BY <2>1, <2>2, <2>3
  <1> QED
    BY <1>1, <1>2, <1>3 DEF Bounded, QueueIsNewest, NoLostWakeup,
                            EverySampleCounted, OnlySent, counters, history

(* Every step of the actor preserves the invariant.                        *)
LEMMA NextQueueInv == QueueInv /\ [Next]_vars => QueueInv'
  <1> SUFFICES ASSUME QueueInv, [Next]_vars
               PROVE  QueueInv'
    OBVIOUS
  <1>1. ASSUME NEW m \in Messages, PutSample(m)
        PROVE  QueueInv'
    BY <1>1, PutSampleQueueInv
  <1>2. ASSUME NEW c \in Consumers, GetSample(c) \/ WakeUp(c)
        PROVE  QueueInv'
    BY <1>2, TryGetQueueInv DEF GetSample, WakeUp
  <1>3. ASSUME \/ \E v \in Versions : UpdateParamVersion(v) \/ PutValidate(v)
               \/ GetValidate
        PROVE  QueueInv'
    BY <1>3, SideQueueInv
  <1>4. CASE ClearQueue
    BY <1>4, ClearQueueQueueInv
  <1>5. CASE Shutdown
    BY <1>5, ShutdownQueueInv
  <1>6. CASE UNCHANGED vars
    BY <1>6 DEF QueueInv, TypeOK, Bounded, QueueIsNewest, NoLostWakeup,
                EverySampleCounted, OnlySent, vars, counters, history
  <1> QED
    BY <1>1, <1>2, <1>3, <1>4, <1>5, <1>6 DEF Next

(* The inductive invariant holds in every behaviour of the actor.          *)
THEOREM QueueInvariant == Spec => []QueueInv
  BY InitQueueInv, NextQueueInv, PTL DEF Spec

-----------------------------------------------------------------------------
(* Types: whatever is put, got and announced, the actor's fields keep      *)
(* their types.                                                            *)
THEOREM TypeCorrect == Spec => []TypeOK
  BY QueueInvariant, PTL DEF QueueInv

(* max_queue_size is never exceeded although put_sample never refuses.     *)
THEOREM QueueBounded == Spec => []Bounded
  BY QueueInvariant, PTL DEF QueueInv

(* Whatever the order of puts, evictions, gets and clears, the queue holds *)
(* the newest samples put, in the order they were put.                     *)
THEOREM QueueHoldsNewest == Spec => []QueueIsNewest
  BY QueueInvariant, PTL DEF QueueInv

(* No number of competing get_sample calls loses a wake-up.                *)
THEOREM WakeupsNotLost == Spec => []NoLostWakeup
  BY QueueInvariant, PTL DEF QueueInv

(* The statistics account for every sample ever put.                       *)
THEOREM SamplesCounted == Spec => []EverySampleCounted
  BY QueueInvariant, PTL DEF QueueInv

-----------------------------------------------------------------------------
(* Every step of the actor is a step of the abstract queue, or invisible   *)
(* to it.                                                                  *)
LEMMA StepSimulation ==
    ASSUME QueueInv, [Next]_vars
    PROVE  [Fifo!FifoNext]_(Fifo!fifoVars)
  <1> USE DEF Fifo!fifoVars
  <1>1. /\ queue \in Seq(Messages) /\ sent \in Seq(Messages)
        /\ Len(queue) \in Nat /\ Len(queue) <= MaxQueueSize
    BY DEF QueueInv, TypeOK, Bounded
  <1>2. ASSUME NEW m \in Messages, PutSample(m)
        PROVE  Fifo!Send(m)
    <2>1. m \notin Range(queue) \cup received \cup lost
      BY <1>2 DEF PutSample, QueueInv, OnlySent
    <2>1a. m \notin Fifo!Known
      BY <2>1 DEF Fifo!Known, Fifo!Range, Range
    <2>2. Full <=> Len(queue) = MaxQueueSize
      BY <1>1, MaxQueueSizeAssumption DEF Full
    <2>3. ~Full <=> Len(queue) < MaxQueueSize
      BY <1>1, MaxQueueSizeAssumption DEF Full
    <2> QED
      BY <1>2, <2>1a, <2>2, <2>3 DEF PutSample, Remainder, Fifo!Send
  <1>3. ASSUME NEW c \in Consumers, TryGet(c)
        PROVE  Fifo!Receive \/ UNCHANGED <<queue, received, lost>>
    BY <1>3 DEF TryGet, TakesOldest, Fifo!Receive
  <1>4. CASE ClearQueue
    <2>1. Fifo!Flush
      BY <1>4 DEF ClearQueue, Fifo!Flush, Fifo!Range, Range
    <2> QED
      BY <2>1 DEF Fifo!FifoNext
  <1>5. CASE \/ Shutdown
             \/ \E v \in Versions : UpdateParamVersion(v) \/ PutValidate(v)
             \/ GetValidate
             \/ UNCHANGED vars
    BY <1>5 DEF Shutdown, UpdateParamVersion, PutValidate, GetValidate, vars,
                counters, history
  <1> QED
    BY <1>2, <1>3, <1>4, <1>5 DEF Next, GetSample, WakeUp, Fifo!FifoNext

(* The actor implements the lossy FIFO that rollouter and trainer rely on: *)
(* each payload is delivered at most once, in order, and only the oldest   *)
(* ones are ever lost.                                                     *)
THEOREM Refinement == Spec => ImplementsLossyFifo
  <1>1. Init => Fifo!FifoInit
    BY DEF Init, Fifo!FifoInit
  <1>2. QueueInv /\ [Next]_vars => [Fifo!FifoNext]_(Fifo!fifoVars)
    BY StepSimulation
  <1> QED
    BY <1>1, <1>2, QueueInvariant, PTL
       DEF Spec, ImplementsLossyFifo, Fifo!FifoSpec
=============================================================================
