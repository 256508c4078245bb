--------------------------- MODULE WeightTransfer ---------------------------
(***************************************************************************)
(* The checkpoint engine of the fully asynchronous policy: how the         *)
(* parameters of the actor ranks reach the rollout ranks in buckets.       *)
(*                                                                         *)
(* Every rank runs sync_rollout_weights_by_checkpoint.  An actor rank      *)
(* copies its share of the parameters into buckets; then all ranks walk    *)
(* through the same list of buckets, the owner of each broadcasts it and   *)
(* the rollout ranks load it.  With Overlap each rank has a second thread  *)
(* that loads a bucket from one half of a double buffer while the main     *)
(* thread receives the next one into the other half; the two talk over a   *)
(* REQ/REP socket.                                                         *)
(*                                                                         *)
(* A parameter is its index in weights_info; its value is the version of   *)
(* the actor's weights it was copied from.  A buffer holds the parameters  *)
(* of one bucket, all of one version.                                      *)
(***************************************************************************)
EXTENDS Naturals, Sequences, SequencesExt

CONSTANTS
    ActorNum, RolloutNum,   \* ranks of the trainer and of the rollouter
    Bytes,                  \* <<size of each parameter>> of weights_info
    AlignSize,              \* _ALIGN_SIZE
    DeviceBufferSize,       \* checkpoint_engine.device_buffer_size_M
    OverlapModes,           \* values of overlap_broadcast_and_consume
    Garbage                 \* what was never written, or torn

ASSUME RanksAssumption == ActorNum \in Nat \ {0} /\ RolloutNum \in Nat \ {0}
ASSUME SizesAssumption ==
    /\ Bytes \in Seq(Nat \ {0}) /\ Bytes # << >>
    /\ AlignSize \in Nat \ {0} /\ DeviceBufferSize \in Nat
ASSUME ModeAssumption == OverlapModes \subseteq BOOLEAN /\ Garbage \notin Nat

VARIABLES
    overlap,                \* overlap_broadcast_and_consume of this run
    actor_version,          \* version of the weights in the actor workers
    calls,                  \* rank -> sync calls the rank has still to serve
    at,                     \* rank -> where its main thread is
    gidx,                   \* rank -> index of the next bucket
    barriers,               \* rank -> barriers it has arrived at
    memory_buffers,         \* rank -> versions of its buckets in host memory
    h2d_buffer,             \* rank -> contents
    load_buffer,            \* rank -> contents of the halves 0 and 1
    wire,                   \* <<contents>> broadcast so far
    request, reply,         \* rank -> what is in its socket
    consumer,               \* rank -> where its second thread is
    model                   \* rollout rank -> parameter -> loaded version

buffers == <<memory_buffers, h2d_buffer, load_buffer>>
threads == <<request, reply, consumer>>
\* What no step of a rank changes.
fixed == <<overlap, actor_version>>
transferVars == <<fixed, calls, at, gidx, barriers, buffers, wire,
                  threads, model>>

ActorRanks == 0..(ActorNum - 1)
RolloutRanks == ActorNum..(ActorNum + RolloutNum - 1)
Ranks == ActorRanks \cup RolloutRanks
Params == DOMAIN Bytes
Versions == Nat \cup {Garbage}

-----------------------------------------------------------------------------
(* The buckets, the same on every rank. *)

Aligned(p) == ((Bytes[p] + AlignSize - 1) \div AlignSize) * AlignSize

BucketSize ==
    LET sizes == {DeviceBufferSize} \cup {Aligned(p) : p \in Params}
    IN  CHOOSE s \in sizes : \A t \in sizes : t <= s

\* The parameters cache_actor_weights_to_cpu keeps on an actor rank.
Cached(rank) == {p \in Params : (p - 1) % ActorNum = rank}

SizeOf(bucket) == FoldLeft(LAMBDA size, p : size + Aligned(p), 0, bucket)

\* One parameter more: in the last bucket of its rank, or in a new one when
\* that is full.
Pack(buckets_of, p) ==
    LET rank == (p - 1) % ActorNum
        buckets == buckets_of[rank]
    IN  [buckets_of EXCEPT ![rank] =
           IF SizeOf(Last(buckets)) + Aligned(p) > BucketSize
           THEN Append(buckets, <<p>>)
           ELSE [buckets EXCEPT ![Len(buckets)] = Append(@, p)]]

\* The buckets of each rank with the first n parameters packed, ...
packed[n \in 0..Len(Bytes)] ==
    IF n = 0 THEN [rank \in ActorRanks |-> << << >> >>] ELSE Pack(packed[n - 1], n)

\* ... and with all of them.
global_buckets == packed[Len(Bytes)]

MaxBucketsPerRank ==
    CHOOSE n \in {Len(global_buckets[r]) : r \in ActorRanks} :
        \A r \in ActorRanks : Len(global_buckets[r]) <= n

\* The broadcasts: in each round the next bucket of every rank that has one.
Turn(i, rank) ==
    IF i > Len(global_buckets[rank]) THEN << >> ELSE << [src |-> rank, round |-> i] >>
Round(i) == FlattenSeq([r \in 1..ActorNum |-> Turn(i, r - 1)])
Broadcasts == FlattenSeq([i \in 1..MaxBucketsPerRank |-> Round(i)])

MetasOf(b) == global_buckets[b.src][b.round]

Contents == [metas : Seq(Params), version : Versions]
Blank == [metas |-> << >>, version |-> Garbage]

NoRequest == [type |-> "none"]
Greeting == [type |-> "greeting"]
Stop == [type |-> "stop"]
Payload(metas, half) == [type |-> "load", metas |-> metas, half |-> half]

-----------------------------------------------------------------------------
TransferInit ==
    /\ overlap \in OverlapModes
    /\ calls = [r \in Ranks |-> 0]
    /\ at = [r \in Ranks |-> "idle"]
    /\ gidx = [r \in Ranks |-> 0]
    /\ barriers = [r \in Ranks |-> 0]
    /\ memory_buffers = [r \in Ranks |-> << >>]
    /\ h2d_buffer = [r \in Ranks |-> Blank]
    /\ load_buffer = [r \in Ranks |-> [half \in {0, 1} |-> Blank]]
    /\ wire = << >>
    /\ request = [r \in Ranks |-> NoRequest]
    /\ reply = [r \in Ranks |-> FALSE]
    /\ consumer = [r \in Ranks |-> "none"]
    /\ model = [r \in RolloutRanks |-> [p \in Params |-> Garbage]]

\* The call on both worker groups, neither of which blocks.
CallTransfer == calls' = [r \in Ranks |-> calls[r] + 1]

\* What the synchronizer waits for: the rollout workers, not the actors.
RolloutsDone == \A r \in RolloutRanks : at[r] = "idle" /\ calls[r] = 0

EverybodyAtBarrier(r) == \A s \in Ranks : barriers[s] >= barriers[r]
ArriveAtBarrier(r) == barriers' = [barriers EXCEPT ![r] = @ + 1]
GoTo(r, place) == at' = [at EXCEPT ![r] = place]

\* cache_actor_weights_to_cpu and register_checkpoint.  Copying a bucket
\* raises a KeyError unless its parameters have been cached.
Register(r) ==
    /\ at[r] = "idle" /\ calls[r] > 0
    /\ r \in ActorRanks =>
           \A i \in DOMAIN global_buckets[r] : Range(global_buckets[r][i]) \subseteq Cached(r)
    /\ calls' = [calls EXCEPT ![r] = @ - 1]
    /\ memory_buffers' = [memory_buffers EXCEPT ![r] =
           IF r \in ActorRanks
           THEN [i \in DOMAIN global_buckets[r] |-> actor_version] ELSE << >>]
    /\ wire' = << >>
    /\ ArriveAtBarrier(r) /\ GoTo(r, "registered")
    /\ UNCHANGED <<fixed, gidx, h2d_buffer, load_buffer, threads, model>>

\* update_checkpoint begins: new device buffers and, with overlap, the thread.
Open(r) ==
    /\ at[r] = "registered" /\ EverybodyAtBarrier(r)
    /\ h2d_buffer' = [h2d_buffer EXCEPT ![r] = Blank]
    /\ load_buffer' = [load_buffer EXCEPT ![r] = [half \in {0, 1} |-> Blank]]
    /\ gidx' = [gidx EXCEPT ![r] = 0]
    /\ IF overlap
       THEN /\ request' = [request EXCEPT ![r] = Greeting]
            /\ consumer' = [consumer EXCEPT ![r] = "waiting"]
       ELSE UNCHANGED <<request, consumer>>
    /\ GoTo(r, "broadcast")
    /\ UNCHANGED <<fixed, calls, barriers, memory_buffers, wire, reply, model>>

HalfZero(g) == 0

Half(g) == IF overlap THEN g % 2 ELSE 0

\* Step 1 of a round: the rank's bucket of this round goes to the device.
HostToDevice(r, b) ==
    IF /\ \A i \in 1..gidx[r] : Broadcasts[i].round # b.round
       /\ b.round <= Len(memory_buffers[r])
    THEN [metas |-> global_buckets[r][b.round],
          version |-> memory_buffers[r][b.round]]
    ELSE h2d_buffer[r]

\* Step 2: the owner puts the bucket on the wire, the others wait for it.
Broadcast(r) ==
    /\ at[r] = "broadcast" /\ gidx[r] < Len(Broadcasts)
    /\ LET b == Broadcasts[gidx[r] + 1]
           device == HostToDevice(r, b)
           received == IF b.src = r THEN device ELSE wire[gidx[r] + 1]
       IN  /\ b.src # r => gidx[r] < Len(wire)
           /\ h2d_buffer' = [h2d_buffer EXCEPT ![r] = device]
           /\ load_buffer' = [load_buffer EXCEPT ![r][Half(gidx[r])] = received]
           /\ wire' = IF b.src = r THEN Append(wire, received) ELSE wire
    /\ GoTo(r, IF overlap THEN "reply" ELSE "load")
    /\ UNCHANGED <<fixed, calls, gidx, barriers, memory_buffers, threads, model>>

\* What load_weights reads: the metas say where each parameter lies, so
\* that another bucket's contents make garbage of it.
Extracted(r, metas, half, p) ==
    IF load_buffer[r][half].metas = metas THEN load_buffer[r][half].version ELSE Garbage

Loaded(r, metas, half) ==
    IF r \in RolloutRanks
    THEN [model EXCEPT ![r] = [p \in Params |->
              IF p \in Range(metas) THEN Extracted(r, metas, half, p) ELSE @[p]]]
    ELSE model

\* Without overlap the main thread loads the bucket itself.
LoadInPlace(r) ==
    /\ at[r] = "load"
    /\ model' = Loaded(r, MetasOf(Broadcasts[gidx[r] + 1]), 0)
    /\ gidx' = [gidx EXCEPT ![r] = @ + 1]
    /\ GoTo(r, "broadcast")
    /\ UNCHANGED <<fixed, calls, barriers, buffers, wire, threads>>

\* With overlap it waits until the previous bucket has been loaded, ...
TakeReply(r) ==
    /\ at[r] = "reply" /\ reply[r]
    /\ reply' = [reply EXCEPT ![r] = FALSE]
    /\ ArriveAtBarrier(r) /\ GoTo(r, "barrier")
    /\ UNCHANGED <<fixed, calls, gidx, buffers, wire, request, consumer, model>>

\* ... then until all ranks have got this one, and hands it to the thread.
HandOver(r) ==
    /\ at[r] = "barrier" /\ EverybodyAtBarrier(r)
    /\ request' = [request EXCEPT ![r] =
           Payload(MetasOf(Broadcasts[gidx[r] + 1]), Half(gidx[r]))]
    /\ gidx' = [gidx EXCEPT ![r] = @ + 1]
    /\ GoTo(r, "broadcast")
    /\ UNCHANGED <<fixed, calls, barriers, buffers, wire, reply, consumer, model>>

AllBroadcast(r) == at[r] = "broadcast" /\ gidx[r] = Len(Broadcasts)

StopThread(r) ==
    /\ overlap /\ AllBroadcast(r) /\ reply[r]
    /\ reply' = [reply EXCEPT ![r] = FALSE]
    /\ request' = [request EXCEPT ![r] = Stop]
    /\ GoTo(r, "join")
    /\ UNCHANGED <<fixed, calls, gidx, barriers, buffers, wire, consumer, model>>

JoinThread(r) ==
    /\ at[r] = "join" /\ reply[r] /\ consumer[r] = "none"
    /\ reply' = [reply EXCEPT ![r] = FALSE]
    /\ ArriveAtBarrier(r) /\ GoTo(r, "lastBarrier")
    /\ UNCHANGED <<fixed, calls, gidx, buffers, wire, request, consumer, model>>

ReachLastBarrier(r) ==
    /\ ~overlap /\ AllBroadcast(r)
    /\ ArriveAtBarrier(r) /\ GoTo(r, "lastBarrier")
    /\ UNCHANGED <<fixed, calls, gidx, buffers, wire, threads, model>>

Close(r) ==
    /\ at[r] = "lastBarrier" /\ EverybodyAtBarrier(r)
    /\ memory_buffers' = [memory_buffers EXCEPT ![r] = << >>]
    /\ GoTo(r, "idle")
    /\ UNCHANGED <<fixed, calls, gidx, barriers, h2d_buffer, load_buffer,
                   wire, threads, model>>

MainThread(r) ==
    \/ Register(r) \/ Open(r) \/ Broadcast(r) \/ LoadInPlace(r) \/ TakeReply(r)
    \/ HandOver(r) \/ StopThread(r) \/ JoinThread(r) \/ ReachLastBarrier(r) \/ Close(r)

(* update_weights_from_ipc_, the second thread *)

GreetsSilently(r) ==
    /\ consumer[r] = "waiting" /\ request[r].type = "greeting"
    /\ request' = [request EXCEPT ![r] = NoRequest]
    /\ UNCHANGED <<fixed, calls, at, gidx, barriers, buffers, wire, reply, consumer, model>>

ConsumerGreets(r) ==
    /\ consumer[r] = "waiting" /\ request[r].type = "greeting"
    /\ request' = [request EXCEPT ![r] = NoRequest]
    /\ reply' = [reply EXCEPT ![r] = TRUE]
    /\ UNCHANGED <<fixed, calls, at, gidx, barriers, buffers, wire, consumer, model>>

ConsumerStarts(r) ==
    /\ consumer[r] = "waiting" /\ request[r].type = "load"
    /\ consumer' = [consumer EXCEPT ![r] = "loading"]
    /\ UNCHANGED <<fixed, calls, at, gidx, barriers, buffers, wire, request,
                   reply, model>>

ConsumerLoads(r) ==
    /\ consumer[r] = "loading"
    /\ model' = Loaded(r, request[r].metas, request[r].half)
    /\ request' = [request EXCEPT ![r] = NoRequest]
    /\ reply' = [reply EXCEPT ![r] = TRUE]
    /\ consumer' = [consumer EXCEPT ![r] = "waiting"]
    /\ UNCHANGED <<fixed, calls, at, gidx, barriers, buffers, wire>>

ConsumerEnds(r) ==
    /\ consumer[r] = "waiting" /\ request[r].type = "stop"
    /\ request' = [request EXCEPT ![r] = NoRequest]
    /\ reply' = [reply EXCEPT ![r] = TRUE]
    /\ consumer' = [consumer EXCEPT ![r] = "none"]
    /\ UNCHANGED <<fixed, calls, at, gidx, barriers, buffers, wire, model>>

Consumer(r) ==
    ConsumerGreets(r) \/ ConsumerStarts(r) \/ ConsumerLoads(r) \/ ConsumerEnds(r)

RankStep(r) == MainThread(r) \/ Consumer(r)
TransferStep == \E r \in Ranks : RankStep(r)

\* Threads are scheduled by the operating system; broadcasts and barriers
\* complete when their ranks have come.
TransferFairness == \A r \in Ranks : WF_transferVars(MainThread(r)) /\ WF_transferVars(Consumer(r))

-----------------------------------------------------------------------------
TransferTypeOK ==
    /\ overlap \in BOOLEAN /\ actor_version \in Nat
    /\ calls \in [Ranks -> Nat] /\ gidx \in [Ranks -> 0..Len(Broadcasts)]
    /\ at \in [Ranks -> {"idle", "registered", "broadcast", "load", "reply", "barrier",
                         "join", "lastBarrier"}]
    /\ barriers \in [Ranks -> Nat]
    /\ memory_buffers \in [Ranks -> Seq(Nat)]
    /\ h2d_buffer \in [Ranks -> Contents]
    /\ load_buffer \in [Ranks -> [{0, 1} -> Contents]]
    /\ wire \in Seq(Contents)
    /\ consumer \in [Ranks -> {"none", "waiting", "loading"}]
    /\ reply \in [Ranks -> BOOLEAN]
    /\ model \in [RolloutRanks -> [Params -> Versions]]

\* A bucket handed to the second thread stays in its half of the double
\* buffer until it has been loaded, whatever the main threads of all ranks
\* do meanwhile (update_checkpoint's wait for the reply before the next
\* hand-over, and the alternation of the halves).
HandedOverKept ==
    \A r \in Ranks : request[r].type = "load" =>
        load_buffer[r][request[r].half] =
            [metas |-> request[r].metas, version |-> actor_version]
=============================================================================
