----------------------------- MODULE RewardLoop -----------------------------
(***************************************************************************)
(* A reward loop worker and the manager that gathers its results.          *)
(*                                                                         *)
(* The worker scores the samples of a batch concurrently, in one of three  *)
(* ways: with an async or a sync reward function behind the limiter of     *)
(* RateLimitedRewardManager (requests per minute, tokens per minute, a     *)
(* semaphore, a timeout), or by posting to a reward model ("disrm") with   *)
(* retries.  The event loop runs one task at a time, so a step is what     *)
(* happens between two awaits.                                             *)
(*                                                                         *)
(* Time is relative and in ticks: a bucket gains one unit of its tokens    *)
(* per tick, so that its capacity of one second's tokens is the same       *)
(* number of ticks for both buckets, and a request's cost is a number of   *)
(* ticks too.  A callback runs when it is due; only the executor that      *)
(* decodes responses, the reward functions and the reward model take       *)
(* their time, the latter two possibly for ever.                           *)
(***************************************************************************)
EXTENDS Integers, Sequences, FiniteSets

CONSTANTS
    BatchSize,
    Modes,              \* ways to score: subset of {"async", "sync", "disrm"}
    MaxTokens,          \* ticks in a second: what a full bucket holds
    Cost,               \* [rpm, tpm]: tokens of a request, 0 without that limiter
    MaxConcurrent,      \* reward_model.max_concurrent
    Timeout,            \* reward_model.timeout
    ExecutorThreads,    \* threads of the event loop's default executor
    MaxRetries,         \* max_retries of _post_request
    ScoreKeys           \* reward_extra_info of a sample that was scored

Samples == 1..BatchSize
\* Calls of earlier batches that were given up but may still have a thread.
Earlier == (BatchSize + 1)..(BatchSize + ExecutorThreads)
Buckets == {"rpm", "tpm"}

ASSUME LimitsAssumption ==
    /\ BatchSize \in Nat \ {0} /\ MaxTokens \in Nat \ {0} /\ Timeout \in Nat
    /\ MaxConcurrent \in Nat \ {0} /\ ExecutorThreads \in Nat \ {0}
    /\ MaxRetries \in Nat \ {0}
    /\ Cost \in [Buckets -> Nat] /\ Modes \subseteq {"async", "sync", "disrm"}

VARIABLES
    mode,
    stage,              \* sample -> where its task is
    left,               \* sample -> ticks until its task is due again
    tokens, elapsed,    \* bucket -> tokens, ticks since last_update
    spent,              \* history: bucket -> the most granted in any window up
                        \* to now, beyond one token per tick of that window
    value, waiters,     \* the semaphore
    running,            \* whose reward function is being executed
    attempts,           \* sample -> attempts of _post_request
    outcome,            \* sample -> "none" or how it was answered
    batch               \* compute_rm_score: "open", "returned" or "raised"

limiter == <<tokens, elapsed, spent>>
semaphore == <<value, waiters>>
vars == <<mode, stage, left, limiter, semaphore, running, attempts, outcome, batch>>

Min(a, b) == IF a < b THEN a ELSE b
Larger(a, b) == IF a > b THEN a ELSE b

Init ==
    /\ mode \in Modes
    /\ stage = [s \in Samples |-> "new"]
    /\ left = [s \in Samples |-> 0]
    /\ tokens = [b \in Buckets |-> MaxTokens] /\ elapsed = [b \in Buckets |-> 0]
    /\ spent = [b \in Buckets |-> 0]
    /\ value = MaxConcurrent /\ waiters = << >>
    /\ running \in IF mode = "sync" THEN SUBSET Earlier ELSE {{}}
    /\ attempts = [s \in Samples |-> 0]
    /\ outcome = [s \in Samples |-> "none"]
    /\ batch = "open"

GoTo(s, place) == stage' = [stage EXCEPT ![s] = place]
Due(s, place) == stage[s] = place /\ left[s] = 0

-----------------------------------------------------------------------------
(* run_single *)

ThreadFree == Cardinality(running) < ExecutorThreads

\* The response is decoded by the default executor, which sync reward
\* functions share.
Decode(s) ==
    /\ mode # "disrm" /\ stage[s] = "new"
    /\ mode = "sync" => ThreadFree
    /\ GoTo(s, "rpm")
    /\ UNCHANGED <<mode, left, limiter, semaphore, running, attempts, outcome, batch>>

After(b) == IF b = "rpm" THEN "tpm" ELSE "semaphore"
Paid(b) == IF b = "rpm" THEN "rpm paid" ELSE "tpm paid"

Available(b) == Min(MaxTokens, tokens[b] + elapsed[b])

SetTokens(b, n) ==
    /\ tokens' = [tokens EXCEPT ![b] = n]
    /\ elapsed' = [elapsed EXCEPT ![b] = 0]

Grant(s, b) ==
    /\ spent' = [spent EXCEPT ![b] = @ + Cost[b]]
    /\ GoTo(s, After(b))

Sleep(s, n) == left' = [left EXCEPT ![s] = n]

SleepsWithoutDebt(s, b) ==
    /\ Due(s, b) /\ Cost[b] > MaxTokens
    /\ SetTokens(b, Available(b) - Cost[b])
    /\ Sleep(s, Cost[b] - MaxTokens)
    /\ GoTo(s, Paid(b))
    /\ UNCHANGED <<mode, spent, semaphore, running, attempts, outcome, batch>>

\* More than the bucket ever holds: pay at once, then sleep the debt away.
AcquireLarge(s, b) ==
    /\ Due(s, b) /\ Cost[b] > MaxTokens
    /\ SetTokens(b, Available(b) - Cost[b])
    /\ Sleep(s, Cost[b] - Available(b))
    /\ GoTo(s, Paid(b))
    /\ UNCHANGED <<mode, spent, semaphore, running, attempts, outcome, batch>>

LargeGranted(s, b) ==
    /\ Due(s, Paid(b))
    /\ Grant(s, b)
    /\ UNCHANGED <<mode, left, tokens, elapsed, semaphore, running, attempts, outcome, batch>>

\* Otherwise take the tokens when they are there (none without a limiter), ...
Acquire(s, b) ==
    /\ Due(s, b) /\ Cost[b] <= MaxTokens /\ Available(b) >= Cost[b]
    /\ SetTokens(b, Available(b) - Cost[b])
    /\ Grant(s, b)
    /\ UNCHANGED <<mode, left, semaphore, running, attempts, outcome, batch>>

\* ... or sleep as long as they need, and try again.
AcquireLater(s, b) ==
    /\ Due(s, b) /\ Cost[b] <= MaxTokens /\ Available(b) < Cost[b]
    /\ SetTokens(b, Available(b))
    /\ Sleep(s, Cost[b] - Available(b))
    /\ UNCHANGED <<mode, stage, spent, semaphore, running, attempts, outcome, batch>>

Limiter(s) ==
    \E b \in Buckets :
        \/ AcquireLarge(s, b) \/ LargeGranted(s, b)
        \/ Acquire(s, b) \/ AcquireLater(s, b)

\* asyncio.Semaphore lets nobody overtake those who wait.
EnterSemaphore(s) ==
    /\ Due(s, "semaphore")
    /\ IF value > 0 /\ waiters = << >>
       THEN value' = value - 1 /\ GoTo(s, "entered") /\ UNCHANGED waiters
       ELSE waiters' = Append(waiters, s) /\ GoTo(s, "waiting") /\ UNCHANGED value
    /\ UNCHANGED <<mode, left, limiter, running, attempts, outcome, batch>>

\* The coroutine of an async function runs at once, a sync one is queued.
StartCall(s) ==
    /\ Due(s, "entered")
    /\ Sleep(s, Timeout) /\ GoTo(s, "call")
    /\ running' = IF mode = "async" THEN running \cup {s} ELSE running
    /\ UNCHANGED <<mode, limiter, semaphore, attempts, outcome, batch>>

\* The executor's queue is FIFO, and all responses were put in it at once.
Decoded == \A s \in Samples : stage[s] # "new"

CallQueued(s) == mode = "sync" /\ stage[s] = "call" /\ s \notin running

ThreadStarts(s) ==
    /\ CallQueued(s) /\ Decoded /\ ThreadFree
    /\ running' = running \cup {s}
    /\ UNCHANGED <<mode, stage, left, limiter, semaphore, attempts, outcome, batch>>

LeaveSilently(s) == value' = value + 1 /\ GoTo(s, "done") /\ UNCHANGED waiters

LeaveTwice(s) ==
    /\ value' = value + 1
    /\ IF waiters = << >>
       THEN GoTo(s, "done") /\ UNCHANGED waiters
       ELSE /\ waiters' = Tail(waiters)
            /\ stage' = [stage EXCEPT ![s] = "done", ![Head(waiters)] = "entered"]

\* Leaving the semaphore hands the place to the first who waits.
Leave(s) ==
    IF waiters = << >>
    THEN value' = value + 1 /\ GoTo(s, "done") /\ UNCHANGED waiters
    ELSE /\ waiters' = Tail(waiters)
         /\ stage' = [stage EXCEPT ![s] = "done", ![Head(waiters)] = "entered"]
         /\ UNCHANGED value

Answer(s, result) == outcome' = [outcome EXCEPT ![s] = result]

CallReturns(s) ==
    /\ stage[s] = "call" /\ s \in running
    /\ running' = running \ {s}
    /\ \E result \in {"scored", "error"} : Answer(s, result)
    /\ Sleep(s, 0) /\ Leave(s)
    /\ UNCHANGED <<mode, limiter, attempts, batch>>

\* wait_for cancels a coroutine and a call that is still queued; a thread
\* that executes the function cannot be cancelled.
TimesOut(s) ==
    /\ Due(s, "call")
    /\ running' = IF mode = "async" THEN running \ {s} ELSE running
    /\ Answer(s, "timeout")
    /\ Leave(s)
    /\ UNCHANGED <<mode, left, limiter, attempts, batch>>

ThreadEnds(s) ==
    /\ stage[s] = "done" /\ s \in running
    /\ running' = running \ {s}
    /\ UNCHANGED <<mode, stage, left, limiter, semaphore, attempts, outcome, batch>>

EarlierEnds(s) ==
    /\ s \in running
    /\ running' = running \ {s}
    /\ UNCHANGED <<mode, stage, left, limiter, semaphore, attempts, outcome, batch>>

-----------------------------------------------------------------------------
(* compute_score_disrm *)

\* ClientTimeout(total=None): the answer to a request may never come.
Post(s) ==
    /\ mode = "disrm" /\ stage[s] = "new"
    /\ GoTo(s, "post")
    /\ UNCHANGED <<mode, left, limiter, semaphore, running, attempts, outcome, batch>>

PostReturns(s) ==
    /\ Due(s, "post")
    /\ \E result \in {"scored", "refused"} : Answer(s, result)
    /\ attempts' = [attempts EXCEPT ![s] = @ + 1]
    /\ GoTo(s, "done")
    /\ UNCHANGED <<mode, left, limiter, semaphore, running, batch>>

\* A server or connection error; after the last attempt it is raised.
PostFails(s) ==
    /\ Due(s, "post")
    /\ attempts' = [attempts EXCEPT ![s] = @ + 1]
    /\ IF attempts[s] < MaxRetries - 1
       THEN Sleep(s, Min(2 ^ attempts[s], 30)) /\ UNCHANGED <<stage, outcome>>
       ELSE Answer(s, "exhausted") /\ GoTo(s, "done") /\ UNCHANGED left
    /\ UNCHANGED <<mode, limiter, semaphore, running, batch>>

Work(s) ==
    \/ Decode(s) \/ Limiter(s) \/ EnterSemaphore(s) \/ StartCall(s) \/ ThreadStarts(s)
    \/ TimesOut(s) \/ Post(s)

\* What depends on the reward functions and on the reward model.
Outside(s) == CallReturns(s) \/ ThreadEnds(s) \/ PostReturns(s) \/ PostFails(s)

-----------------------------------------------------------------------------
(* compute_score_batch and compute_rm_score *)

Raised == {"refused", "exhausted"}

Keys(s) ==
    CASE outcome[s] = "timeout" -> {"timeout", "acc"}
      [] outcome[s] = "error" -> {"error", "acc"}
      [] mode = "disrm" -> {}
      [] OTHER -> ScoreKeys

\* The first exception of a task is that of the batch.
GatherRaises ==
    /\ batch = "open" /\ \E s \in Samples : outcome[s] \in Raised
    /\ batch' = "raised"
    /\ UNCHANGED <<mode, stage, left, limiter, semaphore, running, attempts, outcome>>

\* The keys of the first sample are looked up in all of them.
Aggregate ==
    /\ batch = "open" /\ \A s \in Samples : outcome[s] \notin Raised \cup {"none"}
    /\ batch' = IF \A s \in Samples : Keys(1) \subseteq Keys(s) THEN "returned" ELSE "raised"
    /\ UNCHANGED <<mode, stage, left, limiter, semaphore, running, attempts, outcome>>

-----------------------------------------------------------------------------
\* What the event loop runs before it sleeps.
SomebodyDue ==
    \E s \in Samples :
        \/ left[s] = 0 /\ stage[s] \in {"rpm", "rpm paid", "tpm", "tpm paid", "semaphore",
                                        "entered", "call"}
        \/ CallQueued(s) /\ Decoded /\ ThreadFree

\* One tick more than fills a bucket stands for any longer time.
Longer(b) == Min(elapsed[b] + 1, MaxTokens + 1 - tokens[b])

Tick ==
    /\ ~SomebodyDue
    /\ \/ \E s \in Samples : left[s] > 0
       \/ \E b \in Buckets : tokens[b] + elapsed[b] <= MaxTokens \/ spent[b] > 0
    /\ left' = [s \in Samples |-> Larger(left[s] - 1, 0)]
    /\ elapsed' = [b \in Buckets |-> Longer(b)]
    /\ spent' = [b \in Buckets |-> Larger(spent[b] - 1, 0)]
    /\ UNCHANGED <<mode, stage, tokens, semaphore, running, attempts, outcome, batch>>

Terminated == batch # "open" /\ UNCHANGED vars

Next ==
    \/ \E s \in Samples : Work(s) \/ Outside(s)
    \/ \E s \in Earlier : EarlierEnds(s)
    \/ GatherRaises \/ Aggregate \/ Tick \/ Terminated

Spec == Init /\ [][Next]_vars

\* The event loop never stops, time passes and a free thread of the executor
\* takes what is queued.  Nothing is assumed of the outside: no call, thread
\* or request need ever come to an end.
FairSpec ==
    /\ Spec
    /\ WF_vars(GatherRaises) /\ WF_vars(Aggregate) /\ WF_vars(Tick)
    /\ \A s \in Samples : WF_vars(Work(s))

-----------------------------------------------------------------------------
Stages == {"new", "rpm", "rpm paid", "tpm", "tpm paid", "semaphore", "waiting", "entered",
           "call", "post", "done"}

TaskTypes ==
    /\ mode \in {"async", "sync", "disrm"}
    /\ stage \in [Samples -> Stages] /\ left \in [Samples -> Int]
    /\ value \in Nat /\ waiters \in Seq(Samples)
    /\ running \subseteq Samples \cup Earlier
    /\ attempts \in [Samples -> Nat]

BucketTypes ==
    /\ tokens \in [Buckets -> Int] /\ elapsed \in [Buckets -> Nat]
    /\ spent \in [Buckets -> Nat]
    /\ \A b \in Buckets : tokens[b] + elapsed[b] <= MaxTokens + 1

TypeOK == TaskTypes /\ BucketTypes

\* However many tasks compete for a bucket, wake up together and retry, and
\* also when a request costs more than the bucket holds: in no window of
\* time does AsyncTokenBucket grant more than the window brings and one
\* burst, a full bucket or a single larger request.
RateKept ==
    \A b \in Buckets : spent[b] <= Larger(MaxTokens, Cost[b])

\* Timeouts, exceptions and late calls neither leak nor duplicate a place of
\* the semaphore of run_single, and whoever waits, waits for a reason; so
\* an async reward function never runs more than max_concurrent times at
\* once.  (A sync one may: its thread outlives the timeout.)
PlacesKept ==
    LET inside == {s \in Samples : stage[s] \in {"entered", "call"}}
    IN  /\ value + Cardinality(inside) = MaxConcurrent
        /\ waiters # << >> => value = 0
        /\ mode = "async" => Cardinality(running) <= MaxConcurrent

\* compute_rm_score always comes to an end: nobody starves in the limiter, in
\* the semaphore or for a thread, and calls that never return are timed out.
\* Two waits have no timeout and are excepted: for the answer to a request to
\* the reward model, and, with a sync function, for a thread to decode the
\* responses while calls that earlier batches have given up keep them all.
BatchEnds ==
    \/ <>(batch # "open")
    \/ \E s \in Samples : <>[]Due(s, "post")
    \/ <>[](Earlier \subseteq running)
=============================================================================
