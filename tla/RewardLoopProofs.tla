-------------------------- MODULE RewardLoopProofs --------------------------
(***************************************************************************)
(* Theorems about RewardLoop for any number of requests, any costs (also   *)
(* larger than a full bucket), any limits and any mode.                    *)
(*                                                                         *)
(* RateInv.  Tasks that have paid more than the bucket held and sleep off  *)
(* their debt are due at least Cost[b] apart (Spaced) and none before the  *)
(* bucket is back at zero, nor before the window's earlier grants have     *)
(* been paid for by time (BucketInv): whoever pays next sleeps longer than *)
(* all of them.                                                            *)
(*                                                                         *)
(* PlacesInv.  Who stands in the queue of the semaphore is suspended there *)
(* and stands there once, so that a place handed over is taken.            *)
(***************************************************************************)
EXTENDS RewardLoop, FiniteSetTheorems, SequenceTheorems, TLAPS

Spaced(b) ==
    \A s, t \in Samples : s # t /\ stage[s] = Paid(b) /\ stage[t] = Paid(b) =>
        left[s] - left[t] >= Cost[b] \/ left[t] - left[s] >= Cost[b]

BucketInv(b) ==
    /\ spent[b] <= Larger(MaxTokens, Cost[b])
    /\ spent[b] + Available(b) <= Larger(MaxTokens, Cost[b])
    /\ \A s \in Samples : stage[s] = Paid(b) =>
        /\ Cost[b] > MaxTokens
        /\ left[s] >= spent[b]
        /\ left[s] + tokens[b] + elapsed[b] <= 0
    /\ Spaced(b)

RateInv == TypeOK /\ \A b \in Buckets : BucketInv(b)

Inside == {s \in Samples : stage[s] \in {"entered", "call"}}

PlacesInv ==
    /\ value + Cardinality(Inside) = MaxConcurrent
    /\ waiters # << >> => value = 0
    /\ \A i \in 1..Len(waiters) : stage[waiters[i]] = "waiting"
    /\ \A i, j \in 1..Len(waiters) : i # j => waiters[i] # waiters[j]
    /\ mode = "async" => running \subseteq Samples /\ \A s \in running : stage[s] = "call"

-----------------------------------------------------------------------------
(* Types *)

LEMMA StageNames ==
    /\ \A b \in Buckets : {b, Paid(b), After(b)} \subseteq Stages
    /\ \A b, c \in Buckets : Paid(b) # c /\ After(b) # Paid(c) /\ b # Paid(c)
    /\ \A b, c \in Buckets : b # c => Paid(b) # Paid(c)
    /\ \A b \in Buckets : Paid(b) \notin {"new", "semaphore", "waiting", "entered", "call",
                                          "post", "done"}
  BY DEF Buckets, Paid, After, Stages

LEMMA AvailableIsInt ==
    ASSUME TypeOK, NEW b \in Buckets
    PROVE  Available(b) \in Int /\ Available(b) <= MaxTokens
                /\ Available(b) <= tokens[b] + elapsed[b]
  BY LimitsAssumption DEF TypeOK, BucketTypes, Available, Min

LEMMA LeaveTypes ==
    ASSUME TypeOK, NEW s \in Samples, Leave(s)
    PROVE  stage' \in [Samples -> Stages] /\ value' \in Nat /\ waiters' \in Seq(Samples)
<1>1. /\ stage \in [Samples -> Stages] /\ value \in Nat /\ waiters \in Seq(Samples)
      /\ "done" \in Stages /\ "entered" \in Stages
  BY DEF TypeOK, TaskTypes, Stages
<1>2. CASE waiters = << >>
  BY <1>1, <1>2 DEF Leave, GoTo
<1>3. CASE waiters # << >>
  <2>1. Head(waiters) \in Samples /\ Tail(waiters) \in Seq(Samples)
    BY <1>1, <1>3
  <2>2. stage' = [[stage EXCEPT ![s] = "done"] EXCEPT ![Head(waiters)] = "entered"]
    BY <1>3 DEF Leave
  <2>3. QED
    BY <1>1, <1>3, <2>1, <2>2 DEF Leave
<1>4. QED
  BY <1>2, <1>3

LEMMA BucketTypesKept ==
    ASSUME BucketTypes, UNCHANGED limiter PROVE BucketTypes'
  BY DEF BucketTypes, limiter

LEMMA GoToTypes ==
    ASSUME stage \in [Samples -> Stages], NEW s \in Samples, NEW place \in Stages,
           GoTo(s, place)
    PROVE  stage' \in [Samples -> Stages]
  BY DEF GoTo

LEMMA SleepTypes ==
    ASSUME left \in [Samples -> Int], NEW s \in Samples, NEW n \in Int, Sleep(s, n)
    PROVE  left' \in [Samples -> Int]
  BY DEF Sleep

LEMMA LimiterTypes ==
    ASSUME TypeOK, NEW s \in Samples, Limiter(s) PROVE TypeOK'
<1>1. PICK b \in Buckets : \/ AcquireLarge(s, b) \/ LargeGranted(s, b)
                           \/ Acquire(s, b) \/ AcquireLater(s, b)
  BY DEF Limiter
<1>2. Available(b) \in Int /\ Available(b) <= MaxTokens /\ Cost[b] \in Nat /\ MaxTokens \in Nat
  BY AvailableIsInt, LimitsAssumption
<1>3. {Paid(b), After(b)} \subseteq Stages
  BY StageNames
<1>4. TaskTypes'
  <2>0. TaskTypes
    BY DEF TypeOK
  <2>1. stage' \in [Samples -> Stages]
    BY <1>1, <1>3, <2>0, GoToTypes
       DEF AcquireLarge, LargeGranted, Acquire, AcquireLater, Grant, TaskTypes
  <2>2. left' \in [Samples -> Int]
    <3>1. Cost[b] - Available(b) \in Int
      BY <1>2
    <3>2. QED
      BY <1>1, <2>0, <3>1, SleepTypes
         DEF AcquireLarge, LargeGranted, Acquire, AcquireLater, TaskTypes
  <2>3. QED
    BY <1>1, <2>0, <2>1, <2>2
       DEF AcquireLarge, LargeGranted, Acquire, AcquireLater, TaskTypes, semaphore
<1>5. BucketTypes'
  <2>1. tokens' \in [Buckets -> Int] /\ elapsed' \in [Buckets -> Nat]
    BY <1>1, <1>2 DEF AcquireLarge, LargeGranted, Acquire, AcquireLater, SetTokens, TypeOK,
         BucketTypes
  <2>2. spent' \in [Buckets -> Nat]
    BY <1>1, <1>2 DEF AcquireLarge, LargeGranted, Acquire, AcquireLater, Grant, TypeOK,
         BucketTypes
  <2>3. ASSUME NEW c \in Buckets PROVE tokens'[c] + elapsed'[c] <= MaxTokens + 1
    <3>1. \/ tokens'[c] = tokens[c] /\ elapsed'[c] = elapsed[c]
          \/ c = b /\ elapsed'[c] = 0 /\ tokens'[c] \in {Available(b), Available(b) - Cost[b]}
      BY <1>1 DEF AcquireLarge, LargeGranted, Acquire, AcquireLater, SetTokens, TypeOK,
           BucketTypes
    <3>2. QED
      BY <1>2, <3>1 DEF TypeOK, BucketTypes
  <2>4. QED
    BY <2>1, <2>2, <2>3 DEF BucketTypes
<1>6. QED
  BY <1>4, <1>5 DEF TypeOK

LEMMA TickTypes ==
    ASSUME TypeOK, Tick PROVE TypeOK'
<1>1. TaskTypes'
  BY DEF Tick, Larger, TypeOK, TaskTypes, semaphore
<1>2. ASSUME NEW b \in Buckets
      PROVE  Longer(b) \in Nat /\ tokens[b] + Longer(b) <= MaxTokens + 1
                /\ Larger(spent[b] - 1, 0) \in Nat
  BY LimitsAssumption DEF TypeOK, BucketTypes, Longer, Larger, Min
<1>3. BucketTypes'
  BY <1>2 DEF Tick, TypeOK, BucketTypes
<1>4. QED
  BY <1>1, <1>3 DEF TypeOK

\* Every variable keeps its type, for any costs, limits and number of requests;
\* sleeps may be Int here, what TypeOK adds is the business of the run.
THEOREM TypeCorrect == Spec => []TypeOK
<1>1. Init => TypeOK
  BY LimitsAssumption DEF Init, TypeOK, TaskTypes, BucketTypes, Stages, Buckets
<1>2. TypeOK /\ [Next]_vars => TypeOK'
  <2> SUFFICES ASSUME TypeOK, [Next]_vars PROVE TypeOK'
    OBVIOUS
  <2> USE DEF TypeOK
  <2>0. {"rpm", "waiting", "entered", "call", "post", "done"} \subseteq Stages
    BY DEF Stages
  <2>1. ASSUME NEW s \in Samples, Work(s) \/ Outside(s), ~CallReturns(s) PROVE TypeOK'
    <3>1. CASE Decode(s) \/ Post(s) \/ PostReturns(s)
      <4>1. TaskTypes'
        <5>1. stage' \in [Samples -> Stages]
          BY <2>0, <3>1, GoToTypes DEF Decode, Post, PostReturns, TaskTypes
        <5>2. attempts' \in [Samples -> Nat]
          BY <3>1 DEF Decode, Post, PostReturns, TaskTypes
        <5>3. QED
          BY <3>1, <5>1, <5>2 DEF Decode, Post, PostReturns, TaskTypes, semaphore
      <4>2. QED
        BY <3>1, <4>1, BucketTypesKept DEF Decode, Post, PostReturns
    <3>2. CASE Limiter(s)
      BY <3>2, LimiterTypes
    <3>3. CASE EnterSemaphore(s)
      <4>1. TaskTypes'
        <5>1. stage' \in [Samples -> Stages]
          BY <2>0, <3>3, GoToTypes DEF EnterSemaphore, TaskTypes
        <5>2. value' \in Nat /\ waiters' \in Seq(Samples)
          <6>1. Append(waiters, s) \in Seq(Samples)
            BY DEF TaskTypes
          <6>2. value > 0 => value - 1 \in Nat
            BY DEF TaskTypes
          <6>3. QED
            BY <3>3, <6>1, <6>2 DEF EnterSemaphore, TaskTypes
        <5>3. QED
          BY <3>3, <5>1, <5>2 DEF EnterSemaphore, TaskTypes
      <4>2. QED
        BY <3>3, <4>1, BucketTypesKept DEF EnterSemaphore
    <3>4. CASE StartCall(s) \/ ThreadStarts(s) \/ ThreadEnds(s)
      <4>1. TaskTypes'
        <5>1. stage' \in [Samples -> Stages]
          BY <2>0, <3>4, GoToTypes DEF StartCall, ThreadStarts, ThreadEnds, TaskTypes
        <5>2. left' \in [Samples -> Int]
          BY <3>4, SleepTypes, LimitsAssumption
             DEF StartCall, ThreadStarts, ThreadEnds, TaskTypes
        <5>3. QED
          BY <3>4, <5>1, <5>2
             DEF StartCall, ThreadStarts, ThreadEnds, TaskTypes, semaphore
      <4>2. QED
        BY <3>4, <4>1, BucketTypesKept DEF StartCall, ThreadStarts, ThreadEnds
    <3>5. CASE TimesOut(s)
      <4>1. TaskTypes'
        BY <3>5, LeaveTypes DEF TimesOut, TaskTypes
      <4>2. QED
        BY <3>5, <4>1, BucketTypesKept DEF TimesOut
    <3>6. CASE PostFails(s)
      <4>1. Min(2 ^ attempts[s], 30) \in Int
        BY DEF TaskTypes, Min
      <4>2. TaskTypes'
        <5>1. stage' \in [Samples -> Stages]
          BY <2>0, <3>6, GoToTypes DEF PostFails, TaskTypes
        <5>2. left' \in [Samples -> Int]
          BY <3>6, <4>1, SleepTypes DEF PostFails, TaskTypes
        <5>3. attempts' \in [Samples -> Nat]
          BY <3>6 DEF PostFails, TaskTypes
        <5>4. QED
          BY <3>6, <5>1, <5>2, <5>3 DEF PostFails, TaskTypes, semaphore
      <4>3. QED
        BY <3>6, <4>2, BucketTypesKept DEF PostFails
    <3>7. QED
      BY <2>1, <3>1, <3>2, <3>3, <3>4, <3>5, <3>6 DEF Work, Outside
  <2>2. ASSUME NEW s \in Samples, CallReturns(s) PROVE TypeOK'
    <3>1. TaskTypes'
      <4>1. left' \in [Samples -> Int]
        BY <2>2, SleepTypes DEF CallReturns, TaskTypes
      <4>2. QED
        BY <2>2, <4>1, LeaveTypes DEF CallReturns, TaskTypes
    <3>2. QED
      BY <2>2, <3>1, BucketTypesKept DEF CallReturns
  <2>3. CASE GatherRaises \/ Aggregate
    BY <2>3 DEF GatherRaises, Aggregate, TaskTypes, BucketTypes, limiter, semaphore
  <2>4. CASE Tick
    BY <2>4, TickTypes
  <2>5. CASE UNCHANGED vars
    BY <2>5 DEF TaskTypes, BucketTypes, vars, limiter, semaphore
  <2>6. ASSUME NEW s \in Earlier, EarlierEnds(s) PROVE TypeOK'
    BY <2>6, BucketTypesKept DEF EarlierEnds, TaskTypes, semaphore
  <2>7. QED
    BY <2>1, <2>2, <2>3, <2>4, <2>5, <2>6 DEF Next, Terminated
<1>3. QED
  BY <1>1, <1>2, PTL DEF Spec

-----------------------------------------------------------------------------
(* The rate *)

\* What leaves a bucket alone: its tokens, and who sleeps off a debt in it.
Frame(b) ==
    /\ tokens'[b] = tokens[b] /\ elapsed'[b] = elapsed[b] /\ spent'[b] = spent[b]
    /\ \A s \in Samples : stage'[s] = Paid(b) => stage[s] = Paid(b) /\ left'[s] = left[s]

LEMMA FrameKeeps ==
    ASSUME NEW b \in Buckets, BucketInv(b), Frame(b)
    PROVE  BucketInv(b)'
<1>1. Available(b)' = Available(b) /\ Paid(b)' = Paid(b)
  BY DEF Frame, Available, Paid
<1>2. Spaced(b)'
  BY DEF BucketInv, Frame, Spaced
<1>3. QED
  BY <1>1, <1>2 DEF BucketInv, Frame

\* What the arithmetic of a bucket needs to know of its operands.
LEMMA Numbers ==
    ASSUME TypeOK, NEW b \in Buckets
    PROVE  /\ Cost[b] \in Nat /\ MaxTokens \in Nat /\ MaxTokens > 0
           /\ tokens[b] \in Int /\ elapsed[b] \in Nat /\ spent[b] \in Nat
           /\ \A s \in Samples : left[s] \in Int
           /\ Available(b) \in Int /\ Available(b) <= MaxTokens
           /\ Available(b) <= tokens[b] + elapsed[b]
  BY AvailableIsInt, LimitsAssumption DEF TypeOK, TaskTypes, BucketTypes

\* Whoever pays more than there is sleeps longest; its debt is the bucket's.
LEMMA PayingKeeps ==
    ASSUME TypeOK, NEW b \in Buckets, BucketInv(b), NEW s \in Samples, AcquireLarge(s, b)
    PROVE  BucketInv(b)'
<1> DEFINE wait == Cost[b] - Available(b)
<1>1. /\ Cost[b] \in Nat /\ MaxTokens \in Nat /\ Available(b) \in Int /\ wait \in Int
      /\ Available(b) <= MaxTokens /\ Available(b) <= tokens[b] + elapsed[b]
      /\ spent[b] \in Nat /\ tokens[b] \in Int /\ elapsed[b] \in Nat
      /\ \A t \in Samples : left[t] \in Int
  BY Numbers
<1>2. stage[s] = b /\ Cost[b] > MaxTokens /\ stage[s] # Paid(b)
  BY StageNames DEF AcquireLarge, Due
<1>3. tokens'[b] = -wait /\ elapsed'[b] = 0 /\ spent'[b] = spent[b]
  BY <1>1 DEF AcquireLarge, SetTokens, TypeOK, BucketTypes
<1>4. left'[s] = wait /\ \A t \in Samples : t # s => left'[t] = left[t]
  BY DEF AcquireLarge, Sleep, TypeOK, TaskTypes
<1>5. \A t \in Samples : t # s /\ stage'[t] = Paid(b) => stage[t] = Paid(b)
  BY DEF AcquireLarge, GoTo, TypeOK, TaskTypes
<1>6. Larger(MaxTokens, Cost[b]) = Cost[b]
  BY <1>1, <1>2 DEF Larger
<1>7. spent[b] + Available(b) <= Cost[b] /\ spent[b] <= Cost[b]
  BY <1>6 DEF BucketInv
<1>8. Available(b)' = -wait
  BY <1>1, <1>2, <1>3 DEF Available, Min
<1>9. \A t \in Samples : stage[t] = Paid(b) => Available(b) + left[t] <= 0
  BY <1>1 DEF BucketInv
<1>10. ASSUME NEW t \in Samples, stage'[t] = Paid(b)
       PROVE  left'[t] >= spent'[b] /\ left'[t] + tokens'[b] + elapsed'[b] <= 0
  <2>1. CASE t = s
    BY <2>1, <1>1, <1>3, <1>4, <1>7
  <2>2. CASE t # s
    <3>1. stage[t] = Paid(b) /\ left'[t] = left[t]
      BY <2>2, <1>4, <1>5, <1>10
    <3>2. left[t] >= spent[b] /\ Available(b) + left[t] <= 0
      BY <3>1, <1>9 DEF BucketInv
    <3>3. QED
      BY <3>1, <3>2, <1>1, <1>3
  <2>3. QED
    BY <2>1, <2>2
<1>11. Spaced(b)'
  <2> SUFFICES ASSUME NEW t \in Samples, NEW u \in Samples, t # u,
                      stage'[t] = Paid(b), stage'[u] = Paid(b)
               PROVE  left'[t] - left'[u] >= Cost[b] \/ left'[u] - left'[t] >= Cost[b]
    BY DEF Spaced, Paid
  <2>1. CASE t # s /\ u # s
    BY <2>1, <1>4, <1>5 DEF BucketInv, Spaced
  <2>2. CASE t = s
    BY <2>2, <1>1, <1>4, <1>5, <1>9
  <2>3. CASE u = s
    BY <2>3, <1>1, <1>4, <1>5, <1>9
  <2>4. QED
    BY <2>1, <2>2, <2>3
<1>12. /\ spent'[b] <= Larger(MaxTokens, Cost[b])
       /\ spent'[b] + Available(b)' <= Larger(MaxTokens, Cost[b])
  BY <1>1, <1>2, <1>3, <1>6, <1>7, <1>8
<1>13. QED
  BY <1>2, <1>10, <1>11, <1>12 DEF BucketInv, Paid

\* A grant after the sleep: what was granted before has been paid for.
LEMMA GrantingKeeps ==
    ASSUME TypeOK, NEW b \in Buckets, BucketInv(b), NEW s \in Samples, LargeGranted(s, b)
    PROVE  BucketInv(b)'
<1>1. /\ Cost[b] \in Nat /\ MaxTokens \in Nat /\ Available(b) \in Int
      /\ Available(b) <= tokens[b] + elapsed[b]
      /\ spent[b] \in Nat /\ tokens[b] \in Int /\ elapsed[b] \in Nat
      /\ \A t \in Samples : left[t] \in Int
  BY Numbers
<1>2. /\ tokens' = tokens /\ elapsed' = elapsed /\ left' = left
      /\ stage[s] = Paid(b) /\ left[s] = 0
  BY DEF LargeGranted, Due
<1>3. spent'[b] = spent[b] + Cost[b]
  BY DEF LargeGranted, Grant, TypeOK, BucketTypes
<1>4. \A t \in Samples : stage'[t] = Paid(b) => t # s /\ stage[t] = Paid(b)
  BY StageNames DEF LargeGranted, Grant, GoTo, TypeOK, TaskTypes
<1>5. Cost[b] > MaxTokens /\ spent[b] = 0 /\ tokens[b] + elapsed[b] <= 0
  BY <1>1, <1>2 DEF BucketInv
<1>6. /\ Larger(MaxTokens, Cost[b]) = Cost[b] /\ Available(b)' = Available(b)
      /\ Available(b) <= 0 /\ spent'[b] = Cost[b]
  BY <1>1, <1>2, <1>3, <1>5 DEF Larger, Available
<1>7. ASSUME NEW t \in Samples, stage'[t] = Paid(b)
      PROVE  left'[t] >= spent'[b] /\ left'[t] + tokens'[b] + elapsed'[b] <= 0
  <2>1. t # s /\ stage[t] = Paid(b) /\ left'[t] = left[t]
    BY <1>2, <1>4, <1>7
  <2>2. left[t] >= spent[b] /\ left[t] + tokens[b] + elapsed[b] <= 0
    BY <2>1 DEF BucketInv
  <2>3. left[s] - left[t] >= Cost[b] \/ left[t] - left[s] >= Cost[b]
    BY <2>1, <1>2 DEF BucketInv, Spaced
  <2>4. QED
    BY <2>1, <2>2, <2>3, <1>1, <1>2, <1>5, <1>6
<1>8. Spaced(b)'
  BY <1>2, <1>4 DEF BucketInv, Spaced, Paid
<1>9. /\ spent'[b] <= Larger(MaxTokens, Cost[b])
      /\ spent'[b] + Available(b)' <= Larger(MaxTokens, Cost[b])
  BY <1>1, <1>6
<1>10. QED
  BY <1>5, <1>7, <1>8, <1>9 DEF BucketInv, Paid

\* A bucket that holds a request: nobody ever sleeps off a debt in it.
LEMMA AcquiringKeeps ==
    ASSUME TypeOK, NEW b \in Buckets, BucketInv(b), NEW s \in Samples,
           Acquire(s, b) \/ AcquireLater(s, b)
    PROVE  BucketInv(b)'
<1>1. /\ Cost[b] \in Nat /\ MaxTokens \in Nat /\ spent[b] \in Nat /\ Available(b) \in Int
      /\ Available(b) <= MaxTokens /\ Cost[b] <= MaxTokens
  BY Numbers DEF Acquire, AcquireLater
<1>2. Larger(MaxTokens, Cost[b]) = MaxTokens
  BY <1>1 DEF Larger
<1>3. \A t \in Samples : stage[t] # Paid(b)
  BY <1>1 DEF BucketInv
<1>4. \A t \in Samples : stage'[t] # Paid(b)
  BY <1>3, StageNames DEF Acquire, AcquireLater, Grant, GoTo, TypeOK, TaskTypes
<1>5. elapsed'[b] = 0 /\ \/ tokens'[b] = Available(b) /\ spent'[b] = spent[b]
                         \/ /\ tokens'[b] = Available(b) - Cost[b]
                            /\ spent'[b] = spent[b] + Cost[b]
  BY DEF Acquire, AcquireLater, SetTokens, Grant, TypeOK, BucketTypes
<1>6. Available(b)' = tokens'[b]
  BY <1>1, <1>5 DEF Available, Min
<1>7. spent[b] + Available(b) <= MaxTokens /\ spent'[b] <= MaxTokens
        /\ spent'[b] + Available(b)' <= MaxTokens
  <2>1. spent[b] + Available(b) <= MaxTokens /\ spent[b] <= MaxTokens
    BY <1>2 DEF BucketInv
  <2>2. tokens'[b] = Available(b) - Cost[b] => Available(b) >= Cost[b] \/ spent'[b] = spent[b]
    BY <1>1, <1>5 DEF Acquire, AcquireLater, SetTokens, TypeOK, BucketTypes
  <2>3. QED
    BY <2>1, <2>2, <1>1, <1>5, <1>6
<1>8. QED
  BY <1>2, <1>4, <1>7 DEF BucketInv, Spaced, Paid

\* Time passes only while no payer is due; it brings every payer and every
\* window one tick nearer to zero.
LEMMA TickKeeps ==
    ASSUME TypeOK, NEW b \in Buckets, BucketInv(b), Tick
    PROVE  BucketInv(b)'
<1>1. /\ Cost[b] \in Nat /\ MaxTokens \in Nat /\ spent[b] \in Nat /\ Available(b) \in Int
      /\ tokens[b] \in Int /\ elapsed[b] \in Nat /\ \A t \in Samples : left[t] \in Int
  BY Numbers
<1>2. tokens' = tokens /\ stage' = stage
  BY DEF Tick
<1>3. elapsed'[b] = Min(elapsed[b] + 1, MaxTokens + 1 - tokens[b])
        /\ spent'[b] = Larger(spent[b] - 1, 0)
        /\ \A t \in Samples : left'[t] = Larger(left[t] - 1, 0)
  BY DEF Tick, Longer
<1>4. elapsed'[b] \in Int /\ elapsed'[b] <= elapsed[b] + 1
  BY <1>1, <1>3 DEF Min
<1>5. \/ spent[b] = 0 /\ spent'[b] = 0
      \/ spent[b] > 0 /\ spent'[b] = spent[b] - 1
  BY <1>1, <1>3 DEF Larger
<1>6. \A t \in Samples : stage[t] = Paid(b) =>
        Cost[b] > MaxTokens /\ left[t] > 0 /\ left'[t] = left[t] - 1
  <2> SUFFICES ASSUME NEW t \in Samples, stage[t] = Paid(b)
               PROVE  Cost[b] > MaxTokens /\ left[t] > 0 /\ left'[t] = left[t] - 1
    OBVIOUS
  <2>1. left[t] # 0
    BY DEF Tick, SomebodyDue, Paid, Buckets
  <2>2. left[t] >= spent[b] /\ Cost[b] > MaxTokens
    BY DEF BucketInv
  <2>3. QED
    BY <2>1, <2>2, <1>1, <1>3 DEF Larger
<1>7. Larger(MaxTokens, Cost[b]) \in Nat /\ Larger(MaxTokens, Cost[b]) >= MaxTokens
  BY <1>1 DEF Larger
<1>8. Available(b)' \in Int /\ Available(b)' <= MaxTokens /\ Available(b)' <= Available(b) + 1
  BY <1>1, <1>2, <1>4 DEF Available, Min
<1>9. /\ spent'[b] <= Larger(MaxTokens, Cost[b])
      /\ spent'[b] + Available(b)' <= Larger(MaxTokens, Cost[b])
  <2>1. spent[b] <= Larger(MaxTokens, Cost[b])
          /\ spent[b] + Available(b) <= Larger(MaxTokens, Cost[b])
    BY DEF BucketInv
  <2>2. QED
    BY <2>1, <1>1, <1>5, <1>7, <1>8
<1>10. ASSUME NEW t \in Samples, stage'[t] = Paid(b)
       PROVE  left'[t] >= spent'[b] /\ left'[t] + tokens'[b] + elapsed'[b] <= 0
  <2>1. left[t] >= spent[b] /\ left[t] + tokens[b] + elapsed[b] <= 0
          /\ left[t] > 0 /\ left'[t] = left[t] - 1
    BY <1>2, <1>6, <1>10 DEF BucketInv
  <2>2. QED
    BY <2>1, <1>1, <1>2, <1>4, <1>5
<1>11. Spaced(b)'
  <2> SUFFICES ASSUME NEW t \in Samples, NEW u \in Samples, t # u,
                      stage'[t] = Paid(b), stage'[u] = Paid(b)
               PROVE  left'[t] - left'[u] >= Cost[b] \/ left'[u] - left'[t] >= Cost[b]
    BY DEF Spaced, Paid
  <2>1. left[t] - left[u] >= Cost[b] \/ left[u] - left[t] >= Cost[b]
    BY <1>2 DEF BucketInv, Spaced
  <2>2. QED
    BY <2>1, <1>1, <1>2, <1>6
<1>12. QED
  BY <1>2, <1>6, <1>9, <1>10, <1>11 DEF BucketInv, Paid

\* A step of one task outside a bucket, and of whom it wakes.
LEMMA FrameOfMove ==
    ASSUME TypeOK, UNCHANGED limiter, NEW s \in Samples, NEW b \in Buckets,
           \A t \in Samples : t # s => left'[t] = left[t],
           \A t \in Samples : t # s => stage'[t] = stage[t] \/ stage'[t] = "entered",
           stage'[s] # Paid(b)
    PROVE  Frame(b)
  BY StageNames DEF Frame, limiter

LEMMA LeaveMoves ==
    ASSUME TypeOK, NEW s \in Samples, Leave(s)
    PROVE  /\ stage'[s] \in {"done", "entered"}
           /\ \A t \in Samples : t # s => stage'[t] = stage[t] \/ stage'[t] = "entered"
<1>1. stage \in [Samples -> Stages] /\ waiters \in Seq(Samples)
  BY DEF TypeOK, TaskTypes
<1>2. CASE waiters = << >>
  BY <1>1, <1>2 DEF Leave, GoTo
<1>3. CASE waiters # << >>
  <2>1. stage' = [[stage EXCEPT ![s] = "done"] EXCEPT ![Head(waiters)] = "entered"]
    BY <1>3 DEF Leave
  <2>2. Head(waiters) \in Samples
    BY <1>1, <1>3
  <2>3. QED
    BY <1>1, <2>1, <2>2
<1>4. QED
  BY <1>2, <1>3

LEMMA LimiterKeepsRate ==
    ASSUME TypeOK, \A b \in Buckets : BucketInv(b), NEW s \in Samples, Limiter(s)
    PROVE  \A b \in Buckets : BucketInv(b)'
<1>1. PICK b \in Buckets : \/ AcquireLarge(s, b) \/ LargeGranted(s, b)
                           \/ Acquire(s, b) \/ AcquireLater(s, b)
  BY DEF Limiter
<1>2. BucketInv(b)'
  BY <1>1, PayingKeeps, GrantingKeeps, AcquiringKeeps
<1>3. ASSUME NEW c \in Buckets, c # b PROVE BucketInv(c)'
  <2>1. tokens'[c] = tokens[c] /\ elapsed'[c] = elapsed[c] /\ spent'[c] = spent[c]
    BY <1>1, <1>3 DEF AcquireLarge, LargeGranted, Acquire, AcquireLater, SetTokens, Grant,
         TypeOK, BucketTypes
  <2>2. \A t \in Samples : t # s => left'[t] = left[t] /\ stage'[t] = stage[t]
    BY <1>1 DEF AcquireLarge, LargeGranted, Acquire, AcquireLater, Sleep, Grant, GoTo, TypeOK,
         TaskTypes
  <2>3. stage'[s] \in {b, Paid(b), After(b)}
    BY <1>1 DEF AcquireLarge, LargeGranted, Acquire, AcquireLater, Grant, GoTo, Due, TypeOK,
         TaskTypes
  <2>4. stage'[s] # Paid(c)
    BY <1>3, <2>3, StageNames
  <2>5. Frame(c)
    BY <2>1, <2>2, <2>4 DEF Frame
  <2>6. QED
    BY <2>5, FrameKeeps
<1>4. QED
  BY <1>2, <1>3

\* The rate for any number of tasks and any costs: every bucket keeps BucketInv.
THEOREM RateInvariant == Spec => []RateInv
<1>1. Init => RateInv
  <2> SUFFICES ASSUME Init PROVE \A b \in Buckets : BucketInv(b)
    BY TypeCorrect, LimitsAssumption
       DEF RateInv, Init, TypeOK, TaskTypes, BucketTypes, Stages, Buckets
  <2> TAKE b \in Buckets
  <2>1. /\ tokens[b] = MaxTokens /\ elapsed[b] = 0 /\ spent[b] = 0
        /\ Cost[b] \in Nat /\ MaxTokens \in Nat
    BY LimitsAssumption DEF Init
  <2>2. \A s \in Samples : stage[s] # Paid(b)
    BY StageNames DEF Init
  <2>3. QED
    BY <2>1, <2>2 DEF BucketInv, Spaced, Available, Min, Larger
<1>2. TypeOK /\ TypeOK' /\ RateInv /\ [Next]_vars => RateInv'
  <2> SUFFICES ASSUME TypeOK, TypeOK', \A b \in Buckets : BucketInv(b), [Next]_vars
               PROVE  \A b \in Buckets : BucketInv(b)'
    BY DEF RateInv, Buckets
  <2>1. ASSUME NEW s \in Samples, Work(s) \/ Outside(s), ~Limiter(s), NEW b \in Buckets
        PROVE  BucketInv(b)'
    <3>1. UNCHANGED limiter
      BY <2>1 DEF Work, Outside, Decode, EnterSemaphore, StartCall, ThreadStarts, TimesOut,
           ThreadEnds,
           Post, PostReturns, PostFails, CallReturns
    <3>2. \A t \in Samples : t # s => left'[t] = left[t]
      BY <2>1 DEF Work, Outside, Decode, EnterSemaphore, StartCall, ThreadStarts, TimesOut,
           ThreadEnds,
           Post, PostReturns, PostFails, CallReturns, Sleep, TypeOK, TaskTypes
    <3>3. CASE TimesOut(s) \/ CallReturns(s)
      <4>1. Leave(s)
        BY <3>3 DEF TimesOut, CallReturns
      <4>2. QED
        BY <2>1, <3>1, <3>2, <4>1, LeaveMoves, FrameOfMove, FrameKeeps, StageNames
    <3>4. CASE ~(TimesOut(s) \/ CallReturns(s))
      <4>1. \A t \in Samples : t # s => stage'[t] = stage[t]
        BY <2>1, <3>4 DEF Work, Outside, Decode, EnterSemaphore, StartCall, ThreadStarts,
             ThreadEnds,
             Post, PostReturns, PostFails, GoTo, TypeOK, TaskTypes
      <4>2. stage'[s] \in {"rpm", "waiting", "entered", "call", "post", "done"}
        BY <2>1, <3>4 DEF Work, Outside, Decode, EnterSemaphore, StartCall, ThreadStarts,
             ThreadEnds,
             Post, PostReturns, PostFails, CallQueued, GoTo, Due, TypeOK, TaskTypes
      <4>3. stage'[s] # Paid(b)
        BY <4>2, StageNames DEF Paid
      <4>4. QED
        BY <3>1, <3>2, <4>1, <4>3, FrameOfMove, FrameKeeps, <2>1
    <3>5. QED
      BY <3>3, <3>4
  <2>2. ASSUME UNCHANGED <<stage, left, limiter>>, NEW b \in Buckets PROVE BucketInv(b)'
    BY <2>2, FrameKeeps DEF Frame, limiter
  <2>3. CASE GatherRaises \/ Aggregate \/ (\E s \in Earlier : EarlierEnds(s)) \/ UNCHANGED vars
    BY <2>2, <2>3 DEF GatherRaises, Aggregate, EarlierEnds, vars
  <2>4. QED
    BY <2>1, <2>3, LimiterKeepsRate, TickKeeps DEF Next, Terminated, Work, Outside
<1>3. QED
  BY <1>1, <1>2, TypeCorrect, PTL DEF Spec

\* RateKept, for AsyncTokenBucket.acquire: no window of time is granted more
\* than it brings and one burst, however many tasks compete, and also when
\* requests cost more than a full bucket.
THEOREM RatesKept == Spec => []RateKept
<1>1. RateInv => RateKept
  BY DEF RateInv, BucketInv, RateKept
<1>2. QED
  BY <1>1, RateInvariant, PTL

-----------------------------------------------------------------------------
(* The semaphore *)

LEMMA InsideIsFinite == IsFiniteSet(Inside)
<1>1. IsFiniteSet(Samples)
  BY LimitsAssumption, FS_Interval DEF Samples
<1>2. QED
  BY <1>1, FS_Subset DEF Inside

\* A step of one task that is neither in the semaphore nor queued there.
LEMMA ElsewhereKeeps ==
    ASSUME TypeOK, PlacesInv, UNCHANGED <<mode, value, waiters>>, running' \subseteq running,
           NEW s \in Samples, NEW place \in Stages \ {"waiting", "entered", "call"},
           \/ UNCHANGED stage
           \/ stage[s] \notin {"waiting", "entered", "call"} /\ GoTo(s, place)
    PROVE  PlacesInv'
<1>1. /\ stage \in [Samples -> Stages] /\ waiters \in Seq(Samples)
      /\ mode = "async" => running \subseteq Samples
  BY DEF TypeOK, TaskTypes, PlacesInv
<1>2. \A t \in Samples : \A where \in {"waiting", "entered", "call"} :
        stage'[t] = where <=> stage[t] = where
  BY <1>1 DEF GoTo
<1>3. Inside' = Inside
  BY <1>2 DEF Inside
<1>4. \A i \in 1..Len(waiters) : stage'[waiters[i]] = "waiting"
  BY <1>1, <1>2 DEF PlacesInv
<1>5. mode = "async" => running' \subseteq Samples /\ \A t \in running' : stage'[t] = "call"
  BY <1>1, <1>2 DEF PlacesInv
<1>6. QED
  BY <1>3, <1>4, <1>5 DEF PlacesInv

\* A place is taken by the first of nobody, or the task queues up for it.
LEMMA EnteringKeeps ==
    ASSUME TypeOK, PlacesInv, NEW s \in Samples, EnterSemaphore(s)
    PROVE  PlacesInv'
<1>1. /\ stage \in [Samples -> Stages] /\ waiters \in Seq(Samples)
      /\ mode = "async" => running \subseteq Samples
      /\ value \in Nat /\ MaxConcurrent \in Nat
  BY LimitsAssumption DEF TypeOK, TaskTypes, PlacesInv
<1>2. stage[s] = "semaphore" /\ s \notin Inside /\ UNCHANGED <<mode, running>>
  BY DEF EnterSemaphore, Due, Inside
<1>3. \A t \in Samples : t # s => stage'[t] = stage[t]
  BY <1>1 DEF EnterSemaphore, GoTo
<1>4. mode' = "async" => running' \subseteq Samples /\ \A t \in running' : stage'[t] = "call"
  BY <1>1, <1>2, <1>3 DEF PlacesInv
<1>5. CASE value > 0 /\ waiters = << >>
  <2>1. value' = value - 1 /\ waiters' = << >> /\ stage'[s] = "entered"
    BY <1>1, <1>5 DEF EnterSemaphore, GoTo
  <2>2. Inside' = Inside \cup {s}
    BY <1>3, <2>1 DEF Inside
  <2>3. Cardinality(Inside') = Cardinality(Inside) + 1 /\ Cardinality(Inside) \in Nat
    BY <1>2, <2>2, InsideIsFinite, FS_AddElement, FS_CardinalityType
  <2>4. value' + Cardinality(Inside') = MaxConcurrent
    BY <1>1, <2>1, <2>3 DEF PlacesInv
  <2>5. QED
    BY <1>4, <2>1, <2>4 DEF PlacesInv
<1>6. CASE ~(value > 0 /\ waiters = << >>)
  <2>1. value' = value /\ waiters' = Append(waiters, s) /\ stage'[s] = "waiting"
    BY <1>1, <1>6 DEF EnterSemaphore, GoTo
  <2>2. Inside' = Inside
    BY <1>2, <1>3, <2>1 DEF Inside
  <2>3. value = 0
    BY <1>1, <1>6 DEF PlacesInv
  <2>4. /\ Len(waiters') = Len(waiters) + 1 /\ waiters'[Len(waiters) + 1] = s
        /\ \A i \in 1..Len(waiters) : waiters'[i] = waiters[i] /\ waiters[i] \in Samples
        /\ Len(waiters) \in Nat
    BY <1>1, <2>1
  <2>5. \A i \in 1..Len(waiters) : waiters[i] # s /\ stage'[waiters[i]] = "waiting"
    BY <1>2, <1>3, <2>4 DEF PlacesInv
  <2>6. \A i \in 1..Len(waiters') : stage'[waiters'[i]] = "waiting"
    <3>1. TAKE i \in 1..Len(waiters')
    <3>2. i = Len(waiters) + 1 \/ i \in 1..Len(waiters)
      BY <2>4
    <3>3. QED
      BY <2>1, <2>4, <2>5, <3>2
  <2>7. \A i, j \in 1..Len(waiters') : i # j => waiters'[i] # waiters'[j]
    <3>1. TAKE i, j \in 1..Len(waiters')
    <3>2. i = Len(waiters) + 1 \/ i \in 1..Len(waiters)
      BY <2>4
    <3>3. j = Len(waiters) + 1 \/ j \in 1..Len(waiters)
      BY <2>4
    <3>4. QED
      BY <2>4, <2>5, <3>2, <3>3 DEF PlacesInv
  <2>8. QED
    BY <1>4, <2>1, <2>2, <2>3, <2>6, <2>7 DEF PlacesInv
<1>7. QED
  BY <1>5, <1>6

\* The place of a call that ended goes to the first who waits, or is free again.
LEMMA LeavingKeeps ==
    ASSUME TypeOK, PlacesInv, NEW s \in Samples, stage[s] = "call", Leave(s), mode' = mode,
           running' \subseteq running, mode = "async" => s \notin running'
    PROVE  PlacesInv'
<1>1. /\ stage \in [Samples -> Stages] /\ waiters \in Seq(Samples)
      /\ mode = "async" => running \subseteq Samples
      /\ value \in Nat /\ MaxConcurrent \in Nat
  BY LimitsAssumption DEF TypeOK, TaskTypes, PlacesInv
<1>2. s \in Inside /\ IsFiniteSet(Inside) /\ Cardinality(Inside) \in Nat
  BY InsideIsFinite, FS_CardinalityType DEF Inside
<1>3. IsFiniteSet(Inside \ {s}) /\ Cardinality(Inside \ {s}) = Cardinality(Inside) - 1
  BY <1>2, FS_RemoveElement
<1>4. CASE waiters = << >>
  <2>1. /\ value' = value + 1 /\ waiters' = << >> /\ stage'[s] = "done"
        /\ \A t \in Samples : t # s => stage'[t] = stage[t]
    BY <1>1, <1>4 DEF Leave, GoTo
  <2>2. Inside' = Inside \ {s}
    BY <2>1 DEF Inside
  <2>3. value' + Cardinality(Inside') = MaxConcurrent
    BY <1>1, <1>2, <1>3, <2>1, <2>2 DEF PlacesInv
  <2>4. mode' = "async" => running' \subseteq Samples /\ \A t \in running' : stage'[t] = "call"
    BY <1>1, <2>1 DEF PlacesInv
  <2>5. QED
    BY <2>1, <2>3, <2>4 DEF PlacesInv
<1>5. CASE waiters # << >>
  <2> DEFINE first == Head(waiters)
  <2>1. /\ first = waiters[1] /\ first \in Samples /\ Len(waiters) \in Nat /\ Len(waiters) > 0
        /\ Len(Tail(waiters)) = Len(waiters) - 1
        /\ \A i \in 1..Len(waiters) - 1 : Tail(waiters)[i] = waiters[i + 1]
        /\ \A i \in 1..Len(waiters) : waiters[i] \in Samples
    BY <1>1, <1>5
  <2>2. stage[first] = "waiting" /\ first # s /\ first \notin Inside
    BY <2>1 DEF PlacesInv, Inside
  <2>3. /\ value' = value /\ waiters' = Tail(waiters)
        /\ stage' = [[stage EXCEPT ![s] = "done"] EXCEPT ![first] = "entered"]
    BY <1>5 DEF Leave
  <2>4. /\ stage'[s] = "done" /\ stage'[first] = "entered"
        /\ \A t \in Samples : t # s /\ t # first => stage'[t] = stage[t]
    BY <1>1, <2>1, <2>2, <2>3
  <2>5. Inside' = (Inside \ {s}) \cup {first}
    BY <2>1, <2>2, <2>4 DEF Inside
  <2>6. Cardinality(Inside') = Cardinality(Inside)
    <3>1. first \notin Inside \ {s}
      BY <2>2
    <3>2. Cardinality((Inside \ {s}) \cup {first}) = Cardinality(Inside \ {s}) + 1
      BY <1>3, <3>1, FS_AddElement
    <3>3. QED
      BY <1>2, <1>3, <2>5, <3>2
  <2>7. value' + Cardinality(Inside') = MaxConcurrent /\ (waiters' # << >> => value' = 0)
    BY <1>5, <2>3, <2>6 DEF PlacesInv
  <2>8. \A i \in 1..Len(waiters') :
          /\ i + 1 \in 1..Len(waiters) /\ waiters'[i] = waiters[i + 1]
          /\ waiters[i + 1] # first
    BY <2>1, <2>3 DEF PlacesInv
  <2>9. \A i \in 1..Len(waiters') : stage'[waiters'[i]] = "waiting"
    <3>1. TAKE i \in 1..Len(waiters')
    <3> DEFINE t == waiters[i + 1]
    <3>2. i + 1 \in 1..Len(waiters) /\ waiters'[i] = t /\ t # first
      BY <2>8
    <3>3. t \in Samples
      BY <2>1, <3>2
    <3>4. stage[t] = "waiting" /\ t # s
      BY <3>2 DEF PlacesInv
    <3>5. stage'[t] = stage[t]
      BY <2>4, <3>2, <3>3, <3>4
    <3>6. QED
      BY <3>2, <3>4, <3>5
  <2>10. \A i, j \in 1..Len(waiters') : i # j => waiters'[i] # waiters'[j]
    <3>1. TAKE i, j \in 1..Len(waiters')
    <3>2. i \in Int /\ j \in Int
      OBVIOUS
    <3>3. /\ i + 1 \in 1..Len(waiters) /\ waiters'[i] = waiters[i + 1]
          /\ j + 1 \in 1..Len(waiters) /\ waiters'[j] = waiters[j + 1]
      BY <2>8
    <3>4. QED
      BY <3>2, <3>3 DEF PlacesInv
  <2>11. mode' = "async" => running' \subseteq Samples /\ \A t \in running' : stage'[t] = "call"
    BY <1>1, <2>2, <2>4 DEF PlacesInv
  <2>12. QED
    BY <2>7, <2>9, <2>10, <2>11 DEF PlacesInv
<1>6. QED
  BY <1>4, <1>5

\* The semaphore for any number of tasks and places: every step of a task and
\* of the event loop keeps PlacesInv.
THEOREM PlacesInvariant == Spec => [](TypeOK /\ PlacesInv)
<1>1. Init => PlacesInv
  <2> SUFFICES ASSUME Init PROVE PlacesInv
    OBVIOUS
  <2>1. Inside = {} /\ Cardinality(Inside) = 0
    BY FS_EmptySet DEF Init, Inside
  <2>2. QED
    BY <2>1, LimitsAssumption DEF Init, PlacesInv
<1>2. TypeOK /\ PlacesInv /\ [Next]_vars => PlacesInv'
  <2> SUFFICES ASSUME TypeOK, PlacesInv, [Next]_vars PROVE PlacesInv'
    OBVIOUS
  <2>0. {"rpm", "tpm", "rpm paid", "tpm paid", "semaphore", "post", "done"}
          \subseteq Stages \ {"waiting", "entered", "call"}
    BY DEF Stages
  <2>1. ASSUME NEW s \in Samples, Decode(s) \/ Post(s) \/ PostReturns(s) \/ PostFails(s)
        PROVE  PlacesInv'
    <3>1. UNCHANGED <<mode, value, waiters, running>>
      BY <2>1 DEF Decode, Post, PostReturns, PostFails, semaphore
    <3>2. stage[s] \in {"new", "post"}
      BY <2>1 DEF Decode, Post, PostReturns, PostFails, Due
    <3>3. UNCHANGED stage \/ \E place \in {"rpm", "post", "done"} : GoTo(s, place)
      BY <2>1 DEF Decode, Post, PostReturns, PostFails
    <3>4. QED
      BY <2>0, <3>1, <3>2, <3>3, ElsewhereKeeps
  <2>2. ASSUME NEW s \in Samples, Limiter(s) PROVE PlacesInv'
    <3>1. PICK b \in Buckets : \/ AcquireLarge(s, b) \/ LargeGranted(s, b)
                               \/ Acquire(s, b) \/ AcquireLater(s, b)
      BY <2>2 DEF Limiter
    <3>2. UNCHANGED <<mode, value, waiters, running>>
      BY <3>1 DEF AcquireLarge, LargeGranted, Acquire, AcquireLater, semaphore
    <3>3. stage[s] \notin {"waiting", "entered", "call"}
      BY <3>1 DEF AcquireLarge, LargeGranted, Acquire, AcquireLater, Due, Paid, Buckets
    <3>4. UNCHANGED stage \/ GoTo(s, Paid(b)) \/ GoTo(s, After(b))
      BY <3>1 DEF AcquireLarge, LargeGranted, Acquire, AcquireLater, Grant
    <3>5. Paid(b) \in {"rpm paid", "tpm paid"} /\ After(b) \in {"tpm", "semaphore"}
      BY DEF Paid, After
    <3>6. QED
      BY <2>0, <3>2, <3>3, <3>4, <3>5, ElsewhereKeeps
  <2>3. ASSUME NEW s \in Samples, StartCall(s) PROVE PlacesInv'
    <3>1. /\ stage[s] = "entered" /\ stage'[s] = "call"
          /\ \A t \in Samples : t # s => stage'[t] = stage[t]
          /\ mode' = mode /\ value' = value /\ waiters' = waiters
          /\ running' \subseteq running \cup {s}
      BY <2>3 DEF StartCall, Due, GoTo, semaphore, TypeOK, TaskTypes
    <3>2. Inside' = Inside
      BY <3>1 DEF Inside
    <3>3. waiters \in Seq(Samples) /\ (mode = "async" => running \subseteq Samples)
      BY DEF TypeOK, TaskTypes, PlacesInv
    <3>4. \A i \in 1..Len(waiters) : stage'[waiters[i]] = "waiting"
      BY <3>1, <3>3 DEF PlacesInv
    <3>5. mode' = "async" => running' \subseteq Samples /\ \A t \in running' : stage'[t] = "call"
      BY <3>1, <3>3 DEF PlacesInv
    <3>6. QED
      BY <3>1, <3>2, <3>4, <3>5 DEF PlacesInv
  <2>4. ASSUME NEW s \in Samples, ThreadStarts(s) PROVE PlacesInv'
    <3>1. mode' = "sync" /\ UNCHANGED <<stage, value, waiters>>
      BY <2>4 DEF ThreadStarts, CallQueued, semaphore
    <3>2. Inside' = Inside
      BY <3>1 DEF Inside
    <3>3. QED
      BY <3>1, <3>2 DEF PlacesInv
  <2>5. CASE (\E s \in Samples : ThreadEnds(s)) \/ (\E s \in Earlier : EarlierEnds(s))
    <3>1. UNCHANGED <<mode, stage, value, waiters>> /\ running' \subseteq running
      BY <2>5 DEF ThreadEnds, EarlierEnds, semaphore
    <3>2. Inside' = Inside
      BY <3>1 DEF Inside
    <3>3. QED
      BY <3>1, <3>2 DEF PlacesInv
  <2>6. ASSUME NEW s \in Samples, TimesOut(s) \/ CallReturns(s) PROVE PlacesInv'
    BY <2>6, LeavingKeeps DEF TimesOut, CallReturns, Due
  <2>7. CASE GatherRaises \/ Aggregate \/ Tick \/ UNCHANGED vars
    <3>1. UNCHANGED <<mode, stage, value, waiters, running>>
      BY <2>7 DEF GatherRaises, Aggregate, Tick, vars, semaphore
    <3>2. Inside' = Inside
      BY <3>1 DEF Inside
    <3>3. QED
      BY <3>1, <3>2 DEF PlacesInv
  <2>8. QED
    BY <2>1, <2>2, <2>3, <2>4, <2>5, <2>6, <2>7, EnteringKeeps DEF Next, Work, Outside, Terminated
<1>3. QED
  BY <1>1, <1>2, TypeCorrect, PTL DEF Spec

\* PlacesKept, for RateLimitedRewardManager.run_single: places of the semaphore
\* are neither leaked nor duplicated, nobody waits while one is free, and an
\* async reward function never runs more than max_concurrent times at once.
THEOREM PlacesHold == Spec => []PlacesKept
<1>1. TypeOK /\ PlacesInv => PlacesKept
  <2> SUFFICES ASSUME TypeOK, PlacesInv PROVE PlacesKept
    OBVIOUS
  <2>1. value \in Nat /\ MaxConcurrent \in Nat
    BY LimitsAssumption DEF TypeOK, TaskTypes
  <2>2. mode = "async" => Cardinality(running) <= MaxConcurrent
    <3>1. SUFFICES ASSUME mode = "async" PROVE Cardinality(running) <= MaxConcurrent
      OBVIOUS
    <3>2. running \subseteq Inside
      BY <2>1, <3>1 DEF PlacesInv, Inside
    <3>3. /\ Cardinality(running) <= Cardinality(Inside)
          /\ Cardinality(Inside) \in Nat /\ Cardinality(running) \in Nat
      BY <3>2, InsideIsFinite, FS_Subset, FS_CardinalityType
    <3>4. QED
      BY <2>1, <3>3 DEF PlacesInv
  <2>3. QED
    BY <2>2 DEF PlacesInv, PlacesKept, Inside
<1>2. QED
  BY <1>1, PlacesInvariant, PTL
=============================================================================
