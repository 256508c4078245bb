------------------------ MODULE PartialRolloutProofs ------------------------
(***************************************************************************)
(* Theorems about PartialRollout for any number of samples, rows, servers  *)
(* and synchronizations, and whatever the model says.                      *)
(*                                                                         *)
(* QuietInv.  Nothing waits for the requests themselves: a transfer is     *)
(* quiet because every server refuses from the end of the broadcast to the *)
(* next resumption, and because a loop that runs belongs to an active      *)
(* task, none of which is left when the pause ends.                        *)
(*                                                                         *)
(* WholeInv.  What a trajectory has is spread over three places: what its  *)
(* loop holds, the answer under way to it and what the server has          *)
(* generated for it.  Put together they are a response so far at every     *)
(* step (CallInv), and what a loop holds when it is about to ask can be    *)
(* gone on with: in the middle of a turn or, before tools, at the end of   *)
(* one (RowInv).  The labels bound the versions because an active task was *)
(* submitted at most one version ago (VersionInv): a transfer begins only  *)
(* when no task is left, whatever the monitor lets through afterwards.     *)
(*                                                                         *)
(* CallsInv.  A tool loop stays with its server, so what interrupts it     *)
(* keeps that server paused until the weights are new (Shut).  The tokens  *)
(* of an answer are therefore of another turn or by a later version than   *)
(* all the loop held before (Apart), and a call by one version is in one   *)
(* answer as a whole, where the loop finds it.                             *)
(***************************************************************************)
EXTENDS PartialRollout, SequenceTheorems, TLAPS

ServersRefuse ==
    /\ phase = "cancelling" => \A r \in Servers \ todo : server_paused[r]
    /\ phase \in {"gathering", "transfer", "update"} => \A r \in Servers : server_paused[r]

LoopsHaveTasks == \A t \in Trajectories : pc[t] # "idle" => place[t[1]] = "active"

QuietInv == TypeOK /\ ServersRefuse /\ LoopsHaveTasks /\ QuietTransfer

-----------------------------------------------------------------------------
(* Types *)

LEMMA SampleOfRow ==
    ASSUME NEW t \in Trajectories PROVE t[1] \in Samples
BY DEF Trajectories

LEMMA SynchronizeTypes ==
    ASSUME TypeOK, Synchronize \/ MonitorEndsPause PROVE TypeOK'
<1>1. CASE \E r \in Servers : CancelServer(r) \/ ResumeServer(r)
  <2>1. PICK r \in Servers : CancelServer(r) \/ ResumeServer(r)
    BY <1>1
  <2>2. QED
    BY <2>1 DEF TypeOK, CancelServer, ResumeServer, samples, loops, call, requests
<1>2. CASE ~\E r \in Servers : CancelServer(r) \/ ResumeServer(r)
  BY <1>2 DEF TypeOK, Synchronize, PauseBegins, BroadcastDone, PauseEnds, TransferEnds,
     UpdateParamVersion, TellWorker, MonitorEndsPause, samples, loops, call, requests, events
<1>3. QED
  BY <1>1, <1>2

LEMMA SampleTypes ==
    ASSUME TypeOK, NEW s \in Samples, Submit(s) \/ TaskEnds(s) PROVE TypeOK'
<1>1. CASE Submit(s)
  BY <1>1 DEF TypeOK, Submit, rollouter, call, requests, events
<1>2. CASE TaskEnds(s)
  BY <1>2 DEF TypeOK, TaskEnds, PutsOrRequeues, rollouter, loops, call, requests, events
<1>3. QED
  BY <1>1, <1>2

LEMMA ReturnsTypes ==
    ASSUME TypeOK, NEW t \in Trajectories, NEW cancelled \in BOOLEAN, NEW ids,
           Returns(t, cancelled, ids)
    PROVE  /\ pc' \in [Trajectories -> {"idle", "top", "asking", "generating", "answered"}]
           /\ pc' = [pc EXCEPT ![t] = "idle"]
           /\ is_cancel' \in [Trajectories -> BOOLEAN]
           /\ version_end' \in [Trajectories -> Nat]
BY SampleOfRow DEF TypeOK, Returns

LEMMA ServerTypes ==
    ASSUME TypeOK, NEW t \in Trajectories, Serve(t) \/ ServerAnswers(t) PROVE TypeOK'
<1>1. CASE RequestArrives(t)
  BY <1>1 DEF TypeOK, RequestArrives, rollouter, samples, requests, events
<1>2. CASE GeneratesToken(t)
  BY <1>2 DEF TypeOK, GeneratesToken, rollouter, samples, loops, call, events
<1>3. CASE ServerAnswers(t)
  BY <1>3 DEF TypeOK, ServerAnswers, rollouter, samples, requests, events
<1>4. QED
  BY <1>1, <1>2, <1>3 DEF Serve

(* What the agent loop of a trajectory does to the rest of the state.      *)
LEMMA LoopFrame ==
    ASSUME TypeOK, NEW t \in Trajectories, RunLoop(t)
    PROVE  /\ TypeOK'
           /\ UNCHANGED <<rollouter, samples, requests, events>>
           /\ \E at \in {"idle", "top", "asking"} : pc' = [pc EXCEPT ![t] = at]
           /\ pc[t] \in {"top", "answered"}
<1>1. CASE Asks(t)
  BY <1>1 DEF TypeOK, Asks, rollouter, samples, requests, events
<1>2. CASE SingleTurnEnds(t)
  <2> DEFINE ids == response[t] \o reply[t].ids
  <2>1. Returns(t, reply[t].is_cancel /\ Len(ids) < response_length, ids)
    BY <1>2 DEF SingleTurnEnds
  <2>2. (reply[t].is_cancel /\ Len(ids) < response_length) \in BOOLEAN
    OBVIOUS
  <2>3. QED
    BY <1>2, <2>1, <2>2, ReturnsTypes
       DEF TypeOK, SingleTurnEnds, rollouter, samples, requests, events
<1>3. CASE LoopInterrupted(t)
  BY <1>3, ReturnsTypes DEF TypeOK, LoopInterrupted, rollouter, samples, requests, events
<1>4. CASE HandlePending(t)
  <2>1. pc = [pc EXCEPT ![t] = "top"]
    BY <1>4 DEF TypeOK, HandlePending
  <2>2. QED
    BY <1>4, <2>1
       DEF TypeOK, HandlePending, rollouter, samples, call, requests, events
<1>5. CASE HandleGenerating(t)
  <2> DEFINE ids == response[t] \o reply[t].ids
  <2>1. CASE Returns(t, FALSE, ids) /\ UNCHANGED state
    BY <1>5, <2>1, ReturnsTypes
       DEF TypeOK, HandleGenerating, rollouter, samples, requests, events
  <2>2. CASE /\ state' = [state EXCEPT ![t] =
                             IF reply[t].is_cancel THEN "generating" ELSE "tools"]
             /\ pc' = [pc EXCEPT ![t] = "top"]
             /\ UNCHANGED <<is_cancel, version_end>>
    BY <1>5, <2>2 DEF TypeOK, HandleGenerating, rollouter, samples, requests, events
  <2>3. QED
    BY <1>5, <2>1, <2>2 DEF HandleGenerating
<1>6. CASE HandleTools(t)
  <2>1. CASE Returns(t, FALSE, response[t]) /\ UNCHANGED state
    BY <1>6, <2>1, ReturnsTypes
       DEF TypeOK, HandleTools, rollouter, samples, requests, events
  <2>2. CASE state' = [state EXCEPT ![t] = "generating"] /\ UNCHANGED <<pc, is_cancel, version_end>>
    <3>1. pc = [pc EXCEPT ![t] = "top"]
      BY <1>6 DEF TypeOK, HandleTools
    <3>2. QED
      BY <1>6, <2>2, <3>1 DEF TypeOK, HandleTools, rollouter, samples, requests, events
  <2>3. QED
    BY <1>6, <2>1, <2>2 DEF HandleTools
<1>7. QED
  BY <1>1, <1>2, <1>3, <1>4, <1>5, <1>6 DEF RunLoop

(* Types: whatever is interrupted, refused and resumed, the fields keep    *)
(* their types.                                                            *)
THEOREM TypeCorrect == Spec => []TypeOK
<1>1. Init => TypeOK
  BY DEF Init, TypeOK
<1>2. TypeOK /\ [Next]_vars => TypeOK'
  <2> SUFFICES ASSUME TypeOK, [Next]_vars PROVE TypeOK'
    OBVIOUS
  <2>1. CASE Terminated \/ UNCHANGED vars
    BY <2>1 DEF Terminated, TypeOK, vars, rollouter, samples, loops, call, requests, events
  <2>2. QED
    BY <2>1, SynchronizeTypes, SampleTypes, ServerTypes, LoopFrame DEF Next
<1>3. QED
  BY <1>1, <1>2, PTL DEF Spec

-----------------------------------------------------------------------------
(* Quiet transfers *)

LEMMA SynchronizeKeepsQuiet ==
    ASSUME QuietInv, Synchronize \/ MonitorEndsPause
    PROVE  ServersRefuse' /\ LoopsHaveTasks' /\ QuietTransfer'
<1>1. TypeOK /\ ServersRefuse /\ LoopsHaveTasks /\ QuietTransfer
  BY DEF QuietInv
<1>2. UNCHANGED <<pc, place>>
  BY DEF Synchronize, MonitorEndsPause, PauseBegins, BroadcastDone, PauseEnds, TransferEnds,
     UpdateParamVersion, TellWorker, CancelServer, ResumeServer, samples, loops
<1>3. LoopsHaveTasks'
  BY <1>1, <1>2 DEF LoopsHaveTasks
<1>4. CASE PauseEnds
  <2>1. \A t \in Trajectories : pc[t] = "idle"
    BY <1>1, <1>4, SampleOfRow DEF PauseEnds, LoopsHaveTasks
  <2>2. QED
    BY <1>1, <1>2, <1>3, <1>4, <2>1 DEF PauseEnds, ServersRefuse, QuietTransfer, events
<1>5. CASE \E r \in Servers : CancelServer(r) \/ ResumeServer(r)
  <2>1. PICK r \in Servers : CancelServer(r) \/ ResumeServer(r)
    BY <1>5
  <2>2. QED
    BY <1>1, <1>2, <1>3, <2>1
       DEF CancelServer, ResumeServer, ServersRefuse, QuietTransfer, TypeOK
<1>6. CASE PauseBegins \/ BroadcastDone \/ TransferEnds \/ UpdateParamVersion \/ TellWorker
           \/ MonitorEndsPause
  BY <1>1, <1>2, <1>3, <1>6, SizesAssumption
     DEF PauseBegins, BroadcastDone, TransferEnds, UpdateParamVersion, TellWorker,
         MonitorEndsPause, ServersRefuse, QuietTransfer, events
<1>7. QED
  BY <1>4, <1>5, <1>6 DEF Synchronize

LEMMA SampleKeepsQuiet ==
    ASSUME QuietInv, NEW s \in Samples, Submit(s) \/ TaskEnds(s)
    PROVE  ServersRefuse' /\ LoopsHaveTasks' /\ QuietTransfer'
<1>1. TypeOK /\ ServersRefuse /\ LoopsHaveTasks /\ QuietTransfer
  BY DEF QuietInv
<1>2. UNCHANGED <<phase, todo, server_paused>>
  BY DEF Submit, TaskEnds, rollouter, events
<1>3. ServersRefuse'
  BY <1>1, <1>2 DEF ServersRefuse
<1>4. CASE Submit(s)
  <2>1. \A t \in RowsOf(s) : t[1] = s
    BY DEF RowsOf
  <2>2. LoopsHaveTasks'
    BY <1>1, <1>4, <2>1, SampleOfRow DEF Submit, LoopsHaveTasks, TypeOK, Fresh, Again
  <2>3. QuietTransfer'
    BY <1>1, <1>2, <1>4 DEF Submit, QuietTransfer
  <2>4. QED
    BY <1>3, <2>2, <2>3
<1>5. CASE TaskEnds(s)
  <2>1. \A t \in Trajectories : t[1] = s => t \in RowsOf(s)
    BY DEF Trajectories, RowsOf
  <2>2. pc' = pc
    BY <1>5 DEF TaskEnds, loops
  <2>3. LoopsHaveTasks'
    BY <1>1, <1>5, <2>1, <2>2, SampleOfRow DEF TaskEnds, PutsOrRequeues, LoopsHaveTasks, TypeOK
  <2>4. QED
    BY <1>1, <1>2, <1>3, <2>2, <2>3 DEF QuietTransfer
<1>6. QED
  BY <1>4, <1>5

LEMMA ServerKeepsQuiet ==
    ASSUME QuietInv, NEW t \in Trajectories, Serve(t) \/ ServerAnswers(t)
    PROVE  ServersRefuse' /\ LoopsHaveTasks' /\ QuietTransfer'
<1>1. TypeOK /\ ServersRefuse /\ LoopsHaveTasks /\ QuietTransfer
  BY DEF QuietInv
<1>2. UNCHANGED <<phase, todo, place, server_paused>>
  BY DEF Serve, RequestArrives, GeneratesToken, ServerAnswers, rollouter, samples, events
<1>3. ServersRefuse'
  BY <1>1, <1>2 DEF ServersRefuse
<1>4. CASE RequestArrives(t)
  <2>1. server[t] \in Servers
    BY <1>1 DEF TypeOK
  <2>2. phase = "transfer" => pc' = [pc EXCEPT ![t] = "answered"]
    BY <1>1, <1>4, <2>1 DEF RequestArrives, ServersRefuse
  <2>3. pc[t] = "asking" /\ pc' \in {[pc EXCEPT ![t] = "answered"], [pc EXCEPT ![t] = "generating"]}
    BY <1>4 DEF RequestArrives
  <2>4. QED
    BY <1>1, <1>2, <1>3, <2>2, <2>3 DEF LoopsHaveTasks, QuietTransfer, TypeOK
<1>5. CASE GeneratesToken(t)
  BY <1>1, <1>2, <1>3, <1>5 DEF GeneratesToken, loops, LoopsHaveTasks, QuietTransfer
<1>6. CASE ServerAnswers(t)
  BY <1>1, <1>2, <1>3, <1>6 DEF ServerAnswers, LoopsHaveTasks, QuietTransfer, TypeOK
<1>7. QED
  BY <1>4, <1>5, <1>6 DEF Serve

LEMMA LoopKeepsQuiet ==
    ASSUME QuietInv, NEW t \in Trajectories, RunLoop(t)
    PROVE  ServersRefuse' /\ LoopsHaveTasks' /\ QuietTransfer'
<1>1. TypeOK /\ ServersRefuse /\ LoopsHaveTasks /\ QuietTransfer
  BY DEF QuietInv
<1>2. /\ UNCHANGED <<phase, todo, place, server_paused>>
      /\ pc[t] \in {"top", "answered"}
  BY <1>1, LoopFrame DEF rollouter, samples, events
<1>3. PICK at \in {"idle", "top", "asking"} : pc' = [pc EXCEPT ![t] = at]
  BY <1>1, LoopFrame
<1>4. QED
  BY <1>1, <1>2, <1>3 DEF ServersRefuse, LoopsHaveTasks, QuietTransfer, TypeOK

(* The invariant behind quiet transfers.                                   *)
THEOREM QuietInvariant == Spec => []QuietInv
<1>1. Init => ServersRefuse /\ LoopsHaveTasks /\ QuietTransfer
  BY DEF Init, ServersRefuse, LoopsHaveTasks, QuietTransfer
<1>2. QuietInv /\ [Next]_vars => ServersRefuse' /\ LoopsHaveTasks' /\ QuietTransfer'
  <2> SUFFICES ASSUME QuietInv, [Next]_vars
               PROVE  ServersRefuse' /\ LoopsHaveTasks' /\ QuietTransfer'
    OBVIOUS
  <2>1. CASE Terminated \/ UNCHANGED vars
    BY <2>1 DEF Terminated, vars, rollouter, samples, loops, events, QuietInv, ServersRefuse,
       LoopsHaveTasks, QuietTransfer
  <2>2. QED
    BY <2>1, SynchronizeKeepsQuiet, SampleKeepsQuiet, ServerKeepsQuiet, LoopKeepsQuiet DEF Next
<1>3. QED
  BY <1>1, <1>2, TypeCorrect, PTL DEF Spec, QuietInv

(* No server generates while weights are exchanged, for any number of      *)
(* servers, samples and synchronizations.                                  *)
THEOREM TransfersQuiet == Spec => []QuietTransfer
BY QuietInvariant, PTL DEF QuietInv

-----------------------------------------------------------------------------
(* Responses so far *)

Token == [turn : Nat, version : Nat, pos : Nat]
SeqOfTokens == Seq(Token)

Fits(token) == token.pos <= Len(KindsOf(token.turn))

\* A response so far, by weights no younger than v.
Chain(ids, v) ==
    /\ ids \in SeqOfTokens
    /\ \A i \in 1..Len(ids) : Fits(ids[i]) /\ ids[i].version <= v
    /\ ids # << >> => ids[1].turn = 1 /\ ids[1].pos = 1
    /\ \A i \in 1..(Len(ids) - 1) :
           Follows(ids[i], ids[i + 1]) /\ ids[i].version <= ids[i + 1].version

\* The model has something left to say.
Open(ids) == ids = << >> \/ ~EndsTurn(ids)
Ended(ids) == ids # << >> /\ EndsTurn(ids)

Finished(ids) == Chain(ids, weights) /\ ids # << >> /\ Len(ids) <= response_length
                 /\ (Len(ids) = response_length \/ EndsTurn(ids))

\* What the loop has, what is in the answer and what is at the server.
Tokens(t) == (response[t] \o reply[t].ids) \o req_output[t]

CallInv(t) ==
    /\ pc[t] # "generating" => req_output[t] = << >>
    /\ pc[t] # "answered" => reply[t] = NoReply
    /\ Chain(Tokens(t), weights)

\* Tools run after a turn, everything else inside one.
Resumable(t) == IF state[t] = "tools" THEN Ended(response[t]) ELSE Open(response[t])

RowInv(t) ==
    /\ place[t[1]] = "pending" => response[t] = << >> /\ ~is_cancel[t] /\ state[t] = "pending"
    /\ (pc[t] = "idle" /\ is_cancel[t]) \/ pc[t] \in {"top", "asking", "generating"} => Resumable(t)
    /\ place[t[1]] # "pending" /\ pc[t] = "idle" /\ ~is_cancel[t] => Finished(response[t])
    /\ pc[t] \in {"asking", "generating", "answered"} \/ loop = "single" => state[t] # "tools"
    /\ pc[t] = "answered" =>
           IF reply[t].is_cancel THEN Open(response[t] \o reply[t].ids) ELSE Ended(reply[t].ids)
    /\ place[t[1]] = "put" => ~is_cancel[t]

\* The label of an active task is at most one version behind the weights.
VersionInv ==
    /\ weights = IF phase = "update" THEN version + 1 ELSE version
    /\ \A s \in Samples : place[s] = "active" =>
           /\ weights <= label[s] + 1
           /\ phase = "transfer" => weights = label[s]

LabelInv(t) ==
    /\ version_start[t] <= version
    /\ \A i \in 1..Len(Tokens(t)) : version_start[t] <= Tokens(t)[i].version
    /\ place[t[1]] # "pending" /\ pc[t] = "idle" /\ ~is_cancel[t] =>
           Last(response[t]).version <= version_end[t] + 1

DataTypes ==
    /\ loop \in Loops /\ response_length \in ResponseLengths
    /\ response \in [Trajectories -> SeqOfTokens]
    /\ req_output \in [Trajectories -> SeqOfTokens]
    /\ reply \in [Trajectories -> [ids : SeqOfTokens, is_cancel : BOOLEAN]]

WholeInv ==
    /\ DataTypes
    /\ VersionInv
    /\ \A t \in Trajectories : CallInv(t) /\ RowInv(t) /\ LabelInv(t)

-----------------------------------------------------------------------------
(* Sequences of tokens *)

LEMMA KindsNonempty ==
    ASSUME NEW turn \in Nat PROVE Len(KindsOf(turn)) \in Nat \ {0}
<1>1. CASE turn \in DOMAIN Script
  BY <1>1, ScriptAssumption DEF KindsOf
<1>2. CASE turn \notin DOMAIN Script
  BY <1>2 DEF KindsOf
<1>3. QED
  BY <1>1, <1>2

LEMMA ConcatFacts ==
    ASSUME NEW a \in SeqOfTokens, NEW b \in SeqOfTokens
    PROVE  /\ a \o b \in SeqOfTokens /\ Len(a \o b) = Len(a) + Len(b)
           /\ Len(a) \in Nat /\ Len(b) \in Nat
           /\ \A i \in 1..Len(a) : (a \o b)[i] = a[i]
           /\ \A i \in 1..Len(b) : (a \o b)[Len(a) + i] = b[i]
           /\ (a = << >>) <=> (Len(a) = 0)
BY DEF SeqOfTokens

LEMMA ConcatEmpty ==
    ASSUME NEW a \in SeqOfTokens PROVE a \o << >> = a /\ << >> \o a = a /\ << >> \in SeqOfTokens
BY ConcatEmptySeq DEF SeqOfTokens

LEMMA LastOfConcat ==
    ASSUME NEW a \in SeqOfTokens, NEW b \in SeqOfTokens, b # << >>
    PROVE  Last(a \o b) = Last(b) /\ a \o b # << >> /\ (EndsTurn(a \o b) <=> EndsTurn(b))
<1>1. Last(a \o b) = Last(b) /\ a \o b # << >>
  BY ConcatFacts DEF Last, SeqOfTokens
<1>2. QED
  BY <1>1 DEF EndsTurn

LEMMA ChainLater ==
    ASSUME NEW ids, NEW v \in Nat, NEW w \in Nat, v <= w, Chain(ids, v)
    PROVE  Chain(ids, w)
<1>1. \A i \in 1..Len(ids) : ids[i].version \in Nat /\ ids[i].version <= v
  <2>1. \A i \in 1..Len(ids) : ids[i] \in Token /\ ids[i].version <= v
    BY DEF Chain, SeqOfTokens
  <2>2. QED
    BY <2>1 DEF Token
<1>2. \A i \in 1..Len(ids) : ids[i].version <= w
  BY <1>1
<1>3. QED
  BY <1>2 DEF Chain

LEMMA LastToken ==
    ASSUME NEW ids, NEW v \in Nat, Chain(ids, v), ids # << >>
    PROVE  /\ Last(ids) = ids[Len(ids)] /\ Len(ids) \in Nat \ {0} /\ Last(ids) \in Token
           /\ Last(ids).pos <= Len(KindsOf(Last(ids).turn)) /\ Last(ids).version <= v
BY DEF Chain, Fits, Last, SeqOfTokens

\* One more token that follows.
LEMMA ChainGrows ==
    ASSUME NEW ids, NEW v \in Nat, Chain(ids, v), NEW x \in Token, Fits(x), x.version <= v,
           ids = << >> => x.turn = 1 /\ x.pos = 1,
           ids # << >> => Follows(Last(ids), x) /\ Last(ids).version <= x.version
    PROVE  Chain(Append(ids, x), v)
<1> DEFINE new == Append(ids, x)
<1>1. /\ ids \in SeqOfTokens /\ Len(ids) \in Nat /\ new \in SeqOfTokens /\ Len(new) = Len(ids) + 1
      /\ new[Len(ids) + 1] = x /\ \A i \in 1..Len(ids) : new[i] = ids[i]
  BY DEF Chain, SeqOfTokens
<1>2. \A i \in 1..Len(new) : Fits(new[i]) /\ new[i].version <= v
  BY <1>1 DEF Chain
<1>3. new[1].turn = 1 /\ new[1].pos = 1
  BY <1>1 DEF Chain, SeqOfTokens
<1>4. ASSUME NEW i \in 1..(Len(new) - 1)
      PROVE  Follows(new[i], new[i + 1]) /\ new[i].version <= new[i + 1].version
  <2>1. CASE i = Len(ids)
    BY <1>1, <2>1 DEF Last
  <2>2. CASE i < Len(ids)
    <3>1. i \in 1..(Len(ids) - 1) /\ new[i] = ids[i] /\ new[i + 1] = ids[i + 1]
      BY <1>1, <2>2
    <3>2. QED
      BY <3>1 DEF Chain
  <2>3. QED
    BY <1>1, <2>1, <2>2
<1>5. QED
  BY <1>1, <1>2, <1>3, <1>4 DEF Chain

LEMMA NextFollows ==
    ASSUME NEW ids, weights \in Nat, Chain(ids, weights), Open(ids)
    PROVE  /\ NextToken(ids) \in Token /\ Chain(Append(ids, NextToken(ids)), weights)
           /\ NextToken(ids).version = weights
<1> DEFINE x == NextToken(ids)
<1>0. /\ x.turn = LastTurn(ids) /\ x.version = weights
      /\ x.pos = IF ids = << >> \/ Last(ids).pos = 0 THEN 1 ELSE Last(ids).pos + 1
      /\ x = [turn |-> x.turn, version |-> x.version, pos |-> x.pos]
  BY DEF NextToken
<1>1. CASE ids = << >>
  <2>1. x.turn = 1 /\ x.pos = 1 /\ x \in Token
    BY <1>0, <1>1 DEF LastTurn, Token
  <2>2. Fits(x)
    BY <2>1, KindsNonempty DEF Fits
  <2>3. Chain(Append(ids, x), weights)
    <3>1. x.version <= weights /\ ~(ids # << >>)
      BY <1>0, <1>1
    <3> HIDE DEF x
    <3>2. QED
      BY <1>1, <2>1, <2>2, <3>1, ChainGrows
  <2>4. QED
    BY <1>0, <2>1, <2>3
<1>2. CASE ids # << >>
  <2> DEFINE y == Last(ids)
  <2>1. y \in Token /\ y.pos \in Nat /\ y.turn \in Nat /\ y.version \in Nat /\ y.version <= weights
        /\ y.pos <= Len(KindsOf(y.turn))
    BY <1>2, LastToken DEF Token
  <2>2. Len(KindsOf(y.turn)) \in Nat \ {0} /\ Len(KindsOf(y.turn + 1)) \in Nat \ {0}
    <3>1. y.turn \in Nat /\ y.turn + 1 \in Nat
      BY <2>1
    <3> HIDE DEF y
    <3>2. QED
      BY <3>1, KindsNonempty
  <2>3. y.pos < Len(KindsOf(y.turn))
    BY <1>2, <2>1, <2>2 DEF Open, EndsTurn
  <2>4. x.turn = IF y.pos = 0 THEN y.turn + 1 ELSE y.turn
    BY <1>0, <1>2 DEF LastTurn
  <2>5. x \in Token /\ Fits(x) /\ Follows(y, x)
    BY <1>0, <1>2, <2>1, <2>2, <2>3, <2>4 DEF Token, Fits, Follows
  <2>6. QED
    BY <1>0, <1>2, <2>1, <2>5, ChainGrows
<1>3. QED
  BY <1>1, <1>2

\* What a tool answered.
LEMMA AnswerFollows ==
    ASSUME NEW ids, NEW v \in Nat, Chain(ids, v), Ended(ids),
           NEW x, x = [turn |-> Last(ids).turn, pos |-> 0, version |-> Last(ids).version]
    PROVE  /\ x \in Token /\ Chain(Append(ids, x), v) /\ Open(Append(ids, x))
           /\ x.version = Last(ids).version
<1> DEFINE y == Last(ids)
<1>1. y \in Token /\ y.turn \in Nat /\ y.pos \in Nat /\ y.version \in Nat /\ y.version <= v
      /\ y.pos <= Len(KindsOf(y.turn)) /\ ids \in SeqOfTokens
  BY LastToken DEF Ended, Token, Chain
<1>2. Len(KindsOf(y.turn)) \in Nat \ {0}
  BY <1>1, KindsNonempty
<1>3. x \in Token /\ x.turn = y.turn /\ x.pos = 0 /\ x.version = y.version
  BY <1>1 DEF Token
<1>4. y.pos = Len(KindsOf(y.turn))
  BY <1>1, <1>2 DEF Ended, EndsTurn
<1>5. Fits(x) /\ Follows(y, x)
  BY <1>2, <1>3, <1>4 DEF Fits, Follows
<1>6. Chain(Append(ids, x), v)
  BY <1>1, <1>3, <1>5, ChainGrows DEF Ended
<1>7. Last(Append(ids, x)) = x
  BY <1>1, <1>3 DEF Last, SeqOfTokens
<1>8. QED
  BY <1>2, <1>3, <1>6, <1>7 DEF Open, EndsTurn

LEMMA TruncatedFacts ==
    ASSUME NEW ids, NEW v \in Nat, Chain(ids, v), response_length \in Nat \ {0}
    PROVE  /\ Chain(Truncated(ids), v) /\ Len(Truncated(ids)) <= response_length
           /\ Len(ids) < response_length => Truncated(ids) = ids
           /\ Len(ids) >= response_length => Len(Truncated(ids)) = response_length
           /\ Len(Truncated(ids)) <= Len(ids)
           /\ \A i \in 1..Len(Truncated(ids)) : Truncated(ids)[i] = ids[i]
<1> DEFINE n == IF Len(ids) < response_length THEN Len(ids) ELSE response_length
           cut == SubSeq(ids, 1, n)
<1>1. ids \in SeqOfTokens /\ Len(ids) \in Nat /\ n \in Nat /\ n <= Len(ids)
  BY DEF Chain, SeqOfTokens
<1>2. cut \in SeqOfTokens /\ Len(cut) = n /\ \A i \in 1..n : cut[i] = ids[i]
  BY <1>1 DEF SeqOfTokens
<1>3. Truncated(ids) = cut
  BY DEF Truncated
<1>4. n = Len(ids) => cut = ids
  <2> SUFFICES ASSUME n = Len(ids) PROVE cut = ids
    OBVIOUS
  <2>1. Len(cut) = Len(ids) /\ \A i \in 1..Len(ids) : cut[i] = ids[i]
    BY <1>2
  <2>2. QED
    BY <1>1, <1>2, <2>1, SeqEqual DEF SeqOfTokens
<1>5. Chain(cut, v)
  <2>1. \A i \in 1..(n - 1) : i \in 1..(Len(ids) - 1) /\ i + 1 \in 1..n
    BY <1>1
  <2>2. cut # << >> => ids # << >> /\ 1 \in 1..n
    BY <1>1, <1>2 DEF SeqOfTokens
  <2>3. QED
    BY <1>1, <1>2, <2>1, <2>2 DEF Chain
<1>6. QED
  BY <1>1, <1>2, <1>3, <1>4, <1>5

\* Appending to the second part of a response appends to the response.
LEMMA AppendToConcat ==
    ASSUME NEW a \in SeqOfTokens, NEW b \in SeqOfTokens, NEW x \in Token
    PROVE  /\ Append(b, x) \in SeqOfTokens
           /\ a \o Append(b, x) = Append(a \o b, x)
<1> DEFINE left == a \o Append(b, x)
           right == Append(a \o b, x)
<1>1. /\ a \o b \in SeqOfTokens /\ Len(a \o b) = Len(a) + Len(b) /\ Len(a) \in Nat /\ Len(b) \in Nat
      /\ \A i \in 1..Len(a) : (a \o b)[i] = a[i]
      /\ \A i \in 1..Len(b) : (a \o b)[Len(a) + i] = b[i]
  BY ConcatFacts
<1>2. /\ Append(b, x) \in SeqOfTokens /\ Len(Append(b, x)) = Len(b) + 1
      /\ Append(b, x)[Len(b) + 1] = x /\ \A i \in 1..Len(b) : Append(b, x)[i] = b[i]
  BY DEF SeqOfTokens
<1>3. /\ left \in SeqOfTokens /\ Len(left) = Len(a) + Len(b) + 1
      /\ \A i \in 1..Len(a) : left[i] = a[i]
      /\ \A i \in 1..(Len(b) + 1) : left[Len(a) + i] = Append(b, x)[i]
  <2> DEFINE c == Append(b, x)
  <2>1. c \in SeqOfTokens /\ Len(c) = Len(b) + 1
    BY <1>2
  <2> HIDE DEF c
  <2>2. /\ a \o c \in SeqOfTokens /\ Len(a \o c) = Len(a) + Len(c)
        /\ \A i \in 1..Len(a) : (a \o c)[i] = a[i]
        /\ \A i \in 1..Len(c) : (a \o c)[Len(a) + i] = c[i]
    BY <2>1, ConcatFacts
  <2>3. /\ Len(a \o c) = Len(a) + Len(b) + 1
        /\ \A i \in 1..(Len(b) + 1) : (a \o c)[Len(a) + i] = c[i]
    BY <1>1, <2>1, <2>2
  <2>4. QED
    BY <2>2, <2>3 DEF c
<1>4. /\ right \in SeqOfTokens /\ Len(right) = Len(a) + Len(b) + 1
      /\ right[Len(a) + Len(b) + 1] = x
      /\ \A i \in 1..(Len(a) + Len(b)) : right[i] = (a \o b)[i]
  BY <1>1 DEF SeqOfTokens
<1>5. ASSUME NEW i \in 1..Len(left) PROVE left[i] = right[i]
  <2>1. CASE i <= Len(a)
    <3>1. left[i] = a[i] /\ right[i] = (a \o b)[i] /\ (a \o b)[i] = a[i]
      BY <1>1, <1>3, <1>4, <2>1
    <3>2. QED
      BY <3>1
  <2>2. CASE i > Len(a) /\ i <= Len(a) + Len(b)
    <3> DEFINE j == i - Len(a)
    <3>1. j \in 1..Len(b) /\ j \in 1..(Len(b) + 1) /\ i = Len(a) + j
          /\ i \in 1..(Len(a) + Len(b))
      BY <1>1, <1>3, <2>2
    <3>2. left[Len(a) + j] = Append(b, x)[j] /\ Append(b, x)[j] = b[j]
      BY <1>2, <1>3, <3>1
    <3>3. right[i] = (a \o b)[i] /\ (a \o b)[Len(a) + j] = b[j]
      BY <1>1, <1>4, <3>1
    <3>4. QED
      BY <3>1, <3>2, <3>3
  <2>3. CASE i = Len(a) + Len(b) + 1
    <3>1. Len(b) + 1 \in 1..(Len(b) + 1) /\ i = Len(a) + (Len(b) + 1)
      BY <1>1, <2>3
    <3>2. left[Len(a) + (Len(b) + 1)] = x
      BY <1>2, <1>3, <3>1
    <3>3. QED
      BY <1>4, <2>3, <3>1, <3>2
  <2>4. QED
    BY <1>1, <1>3, <2>1, <2>2, <2>3
<1>6. left = right
  BY <1>3, <1>4, <1>5, SeqEqual DEF SeqOfTokens
<1>7. QED
  BY <1>2, <1>6

-----------------------------------------------------------------------------
(* The invariant, row by row *)

\* What the steps of other rows do to a row.
RowSame(t) ==
    /\ pc'[t] = pc[t] /\ state'[t] = state[t] /\ response'[t] = response[t]
    /\ is_cancel'[t] = is_cancel[t] /\ version_start'[t] = version_start[t]
    /\ version_end'[t] = version_end[t] /\ reply'[t] = reply[t]
    /\ req_output'[t] = req_output[t] /\ place'[t[1]] = place[t[1]]

AllOf(t) == CallInv(t) /\ RowInv(t) /\ LabelInv(t)

LEMMA RunTypes ==
    ASSUME DataTypes, NEW t \in Trajectories
    PROVE  /\ loop \in {"single", "tool"} /\ response_length \in Nat \ {0}
           /\ response[t] \in SeqOfTokens /\ req_output[t] \in SeqOfTokens
           /\ reply[t].ids \in SeqOfTokens /\ reply[t].is_cancel \in BOOLEAN
BY SizesAssumption DEF DataTypes

LEMMA RowKept ==
    ASSUME TypeOK, WholeInv, NEW t \in Trajectories, RowSame(t), UNCHANGED run,
           weights' \in Nat, version' \in Nat, weights <= weights', version <= version'
    PROVE  AllOf(t)'
<1>1. CallInv(t) /\ RowInv(t) /\ LabelInv(t) /\ weights \in Nat /\ version \in Nat
      /\ version_start[t] \in Nat
  BY DEF WholeInv, TypeOK
<1>2. Tokens(t)' = Tokens(t)
  BY DEF RowSame, Tokens
<1>3. CallInv(t)'
  <2>1. Chain(Tokens(t), weights')
    BY <1>1, ChainLater DEF CallInv
  <2>2. QED
    BY <1>1, <1>2, <2>1 DEF RowSame, CallInv
<1>4. RowInv(t)'
  <2>1. Finished(response[t]) => Finished(response[t])'
    <3>1. Chain(response[t], weights) => Chain(response[t], weights')
      BY <1>1, ChainLater
    <3>2. QED
      BY <3>1 DEF RowSame, Finished, run
  <2>2. Resumable(t) => Resumable(t)'
    BY DEF RowSame, Resumable
  <2>3. QED
    BY <1>1, <2>1, <2>2 DEF RowSame, RowInv, run
<1>5. LabelInv(t)'
  BY <1>1, <1>2 DEF RowSame, LabelInv
<1>6. QED
  BY <1>3, <1>4, <1>5 DEF AllOf

\* What is held, answered and at the server when no call is going on.
LEMMA TokensAtRest ==
    ASSUME DataTypes, NEW t \in Trajectories, CallInv(t)
    PROVE  /\ pc[t] \notin {"generating", "answered"} => Tokens(t) = response[t]
           /\ pc[t] = "generating" => Tokens(t) = response[t] \o req_output[t]
           /\ pc[t] = "answered" => Tokens(t) = response[t] \o reply[t].ids
<1>1. /\ response[t] \in SeqOfTokens /\ req_output[t] \in SeqOfTokens
      /\ reply[t].ids \in SeqOfTokens
  BY RunTypes
<1>2. response[t] \o reply[t].ids \in SeqOfTokens
  BY <1>1, ConcatFacts
<1>3. pc[t] # "answered" => response[t] \o reply[t].ids = response[t]
  <2>1. pc[t] # "answered" => reply[t].ids = << >>
    BY DEF CallInv, NoReply
  <2>2. QED
    BY <1>1, <2>1, ConcatEmpty
<1>4. pc[t] # "generating" => Tokens(t) = response[t] \o reply[t].ids
  BY <1>2, ConcatEmpty DEF CallInv, Tokens
<1>5. QED
  BY <1>3, <1>4 DEF Tokens

LEMMA ArrivalKeeps ==
    ASSUME TypeOK, WholeInv, NEW t \in Trajectories, RequestArrives(t)
    PROVE  AllOf(t)' /\ DataTypes'
<1>1. DataTypes /\ CallInv(t) /\ RowInv(t) /\ LabelInv(t)
  BY DEF WholeInv
<1>2. /\ UNCHANGED <<run, weights, version, response, state, is_cancel, version_start,
                     version_end, place>>
      /\ pc[t] = "asking"
      /\ pc \in [Trajectories -> {"idle", "top", "asking", "generating", "answered"}]
  BY DEF RequestArrives, rollouter, samples, TypeOK
<1>3. /\ Tokens(t) = response[t] /\ response[t] \in SeqOfTokens /\ Open(response[t])
      /\ response[t] \o << >> = response[t]
  BY <1>1, <1>2, TokensAtRest, RunTypes, ConcatEmpty DEF RowInv, Resumable
<1>4. CASE server_paused[server[t]]
  <2>1. /\ reply' = [reply EXCEPT ![t] = [ids |-> << >>, is_cancel |-> TRUE]]
        /\ pc' = [pc EXCEPT ![t] = "answered"] /\ req_output' = req_output
    BY <1>4 DEF RequestArrives, requests
  <2>2. DataTypes'
    BY <1>1, <1>2, <2>1, ConcatEmpty DEF DataTypes, run
  <2>3. reply'[t] = [ids |-> << >>, is_cancel |-> TRUE] /\ pc'[t] = "answered"
    BY <1>1, <1>2, <2>1 DEF DataTypes
  <2>4. Tokens(t)' = Tokens(t)
    <3>1. req_output[t] = << >>
      BY <1>1, <1>2 DEF CallInv
    <3>2. reply'[t].ids = << >> /\ req_output'[t] = << >> /\ response'[t] = response[t]
      BY <1>2, <2>1, <2>3, <3>1
    <3>3. Tokens(t)' = (response[t] \o << >>) \o << >>
      BY <3>2 DEF Tokens
    <3>4. QED
      BY <1>3, <3>3
  <2>5. CallInv(t)'
    BY <1>1, <1>2, <2>1, <2>3, <2>4 DEF CallInv
  <2>6. RowInv(t)'
    BY <1>1, <1>2, <1>3, <2>3 DEF RowInv, run
  <2>7. QED
    BY <1>1, <1>2, <2>2, <2>3, <2>4, <2>5, <2>6 DEF LabelInv, AllOf
<1>5. CASE ~server_paused[server[t]]
  <2>1. /\ req_output' = [req_output EXCEPT ![t] = << >>]
        /\ pc' = [pc EXCEPT ![t] = "generating"] /\ reply' = reply
    BY <1>5 DEF RequestArrives
  <2>2. DataTypes'
    BY <1>1, <1>2, <2>1, ConcatEmpty DEF DataTypes, run
  <2>3. req_output'[t] = << >> /\ req_output[t] = << >> /\ pc'[t] = "generating"
    BY <1>1, <1>2, <2>1 DEF DataTypes, CallInv
  <2>4. Tokens(t)' = Tokens(t)
    BY <1>2, <2>1, <2>3 DEF Tokens
  <2>5. CallInv(t)'
    BY <1>1, <1>2, <2>1, <2>3, <2>4 DEF CallInv
  <2>6. RowInv(t)'
    BY <1>1, <1>2, <2>3 DEF RowInv, Resumable, run
  <2>7. QED
    BY <1>1, <1>2, <2>2, <2>3, <2>4, <2>5, <2>6 DEF LabelInv, AllOf
<1>6. QED
  BY <1>4, <1>5

LEMMA TokenKeeps ==
    ASSUME TypeOK, WholeInv, NEW t \in Trajectories, GeneratesToken(t)
    PROVE  AllOf(t)' /\ DataTypes'
<1> DEFINE before == response[t] \o req_output[t]
           x == NextToken(before)
<1>1. DataTypes /\ CallInv(t) /\ RowInv(t) /\ LabelInv(t) /\ weights \in Nat /\ version \in Nat
      /\ version <= weights /\ version_start[t] \in Nat
  BY DEF WholeInv, TypeOK, VersionInv
<1>2. /\ UNCHANGED <<run, weights, version, response, state, is_cancel, version_start,
                     version_end, place, pc, reply>>
      /\ pc[t] = "generating" /\ ~GenerationEnded(t)
  BY DEF GeneratesToken, rollouter, samples, loops, call
<1>3. /\ reply[t].ids = << >> /\ response[t] \in SeqOfTokens /\ req_output[t] \in SeqOfTokens
      /\ response[t] \o reply[t].ids = response[t]
  <2>1. reply[t].ids = << >>
    BY <1>1, <1>2 DEF CallInv, NoReply
  <2>2. response[t] \in SeqOfTokens /\ req_output[t] \in SeqOfTokens
    BY <1>1, RunTypes
  <2>3. QED
    BY <2>1, <2>2, ConcatEmpty
<1>4. Tokens(t) = before /\ Chain(before, weights) /\ before \in SeqOfTokens
  BY <1>1, <1>2, TokensAtRest DEF CallInv, Chain
<1>5. Open(before)
  <2>1. CASE req_output[t] = << >>
    BY <1>1, <1>2, <1>3, <2>1, ConcatEmpty DEF RowInv, Resumable
  <2>2. CASE req_output[t] # << >>
    BY <1>2, <1>3, <2>2, LastOfConcat DEF GenerationEnded, Open
  <2>3. QED
    BY <2>1, <2>2
<1>6. x \in Token /\ Chain(Append(before, x), weights) /\ x.version = weights
  <2> HIDE DEF before
  <2>1. QED
    BY <1>1, <1>4, <1>5, NextFollows
<1>7. req_output' = [req_output EXCEPT ![t] = Append(@, x)]
  BY <1>3 DEF GeneratesToken
<1> HIDE DEF x
<1>8. /\ Append(req_output[t], x) \in SeqOfTokens
      /\ response[t] \o Append(req_output[t], x) = Append(before, x)
  BY <1>3, <1>6, AppendToConcat
<1>9. DataTypes' /\ req_output'[t] = Append(req_output[t], x)
  BY <1>1, <1>2, <1>7, <1>8 DEF DataTypes, run
<1>10. Tokens(t)' = Append(before, x)
  BY <1>2, <1>3, <1>8, <1>9 DEF Tokens
<1>11. CallInv(t)'
  BY <1>1, <1>2, <1>6, <1>10 DEF CallInv
<1>12. RowInv(t)'
  BY <1>1, <1>2 DEF RowInv, Resumable, run
<1>13. LabelInv(t)'
  <2>1. \A i \in 1..Len(Append(before, x)) : version_start[t] <= Append(before, x)[i].version
    <3>0. before \in SeqOfTokens /\ x \in Token
      BY <1>4, <1>6
    <3> HIDE DEF before
    <3>1. /\ Len(before) \in Nat /\ Len(Append(before, x)) = Len(before) + 1
          /\ Append(before, x)[Len(before) + 1] = x
          /\ \A i \in 1..Len(before) : Append(before, x)[i] = before[i]
      BY <3>0 DEF SeqOfTokens
    <3>2. \A i \in 1..Len(before) : version_start[t] <= before[i].version
      BY <1>1, <1>4 DEF LabelInv
    <3>3. version_start[t] <= x.version
      BY <1>1, <1>6 DEF LabelInv
    <3>4. QED
      BY <3>1, <3>2, <3>3
  <2>2. QED
    BY <1>1, <1>2, <1>10, <2>1 DEF LabelInv
<1>14. QED
  BY <1>9, <1>11, <1>12, <1>13 DEF AllOf

LEMMA AnswerKeeps ==
    ASSUME TypeOK, WholeInv, NEW t \in Trajectories, ServerAnswers(t)
    PROVE  AllOf(t)' /\ DataTypes'
<1>1. DataTypes /\ CallInv(t) /\ RowInv(t) /\ LabelInv(t)
  BY DEF WholeInv
<1>2. /\ UNCHANGED <<run, weights, version, response, state, is_cancel, version_start,
                     version_end, place>>
      /\ pc[t] = "generating" /\ pc' = [pc EXCEPT ![t] = "answered"]
      /\ reply' = [reply EXCEPT ![t] = [ids |-> req_output[t], is_cancel |-> ~GenerationEnded(t)]]
      /\ pc \in [Trajectories -> {"idle", "top", "asking", "generating", "answered"}]
  BY DEF ServerAnswers, IsCancel, rollouter, samples, TypeOK
<1>3. /\ response[t] \in SeqOfTokens /\ req_output[t] \in SeqOfTokens
      /\ response[t] \o req_output[t] \in SeqOfTokens /\ << >> \in SeqOfTokens
  BY <1>1, RunTypes, ConcatFacts, ConcatEmpty
<1>4. req_output' \in [Trajectories -> SeqOfTokens] /\ req_output'[t] = << >>
  BY <1>1, <1>3 DEF ServerAnswers, requests, DataTypes
<1>5. /\ pc'[t] = "answered" /\ reply'[t].ids = req_output[t]
      /\ reply'[t].is_cancel = ~GenerationEnded(t)
  BY <1>1, <1>2 DEF DataTypes
<1>6. DataTypes'
  <2>1. (~GenerationEnded(t)) \in BOOLEAN
    BY DEF GenerationEnded
  <2>2. [ids |-> req_output[t], is_cancel |-> ~GenerationEnded(t)]
           \in [ids : SeqOfTokens, is_cancel : BOOLEAN]
    BY <1>3, <2>1
  <2>3. QED
    BY <1>1, <1>2, <1>4, <2>2 DEF DataTypes, run
<1>7. Tokens(t)' = Tokens(t) /\ Tokens(t) = response[t] \o req_output[t]
  BY <1>1, <1>2, <1>3, <1>4, <1>5, TokensAtRest, ConcatEmpty DEF Tokens
<1>8. CallInv(t)'
  BY <1>1, <1>2, <1>4, <1>5, <1>7 DEF CallInv
<1>9. IF reply'[t].is_cancel THEN Open(response[t] \o req_output[t]) ELSE Ended(req_output[t])
  <2>1. CASE GenerationEnded(t)
    BY <1>5, <2>1 DEF GenerationEnded, Ended
  <2>2. CASE req_output[t] = << >>
    <3>1. Open(response[t]) /\ response[t] \o req_output[t] = response[t]
      BY <1>1, <1>2, <1>3, <2>2, ConcatEmpty DEF RowInv, Resumable
    <3>2. QED
      BY <1>5, <2>2, <3>1 DEF GenerationEnded
  <2>3. CASE req_output[t] # << >> /\ ~EndsTurn(req_output[t])
    BY <1>3, <1>5, <2>3, LastOfConcat DEF GenerationEnded, Open
  <2>4. QED
    BY <2>1, <2>2, <2>3 DEF GenerationEnded
<1>10. RowInv(t)'
  BY <1>1, <1>2, <1>5, <1>9 DEF RowInv, run
<1>11. QED
  BY <1>1, <1>2, <1>5, <1>6, <1>7, <1>8, <1>10 DEF LabelInv, AllOf

-----------------------------------------------------------------------------
(* The agent loops *)

\* A loop returns what it has: to go on with, or finished.
LEMMA ReturnsKeeps ==
    ASSUME TypeOK, WholeInv, LoopsHaveTasks, NEW t \in Trajectories,
           pc[t] \in {"top", "answered"}, NEW cancelled \in BOOLEAN, NEW ids, ids = Tokens(t),
           cancelled => IF state[t] = "tools" THEN Ended(ids) ELSE Open(ids),
           ~cancelled => ids # << >> /\ (Len(ids) >= response_length \/ EndsTurn(ids)),
           Returns(t, cancelled, ids),
           UNCHANGED <<run, weights, version, place, label, state, version_start, req_output>>
    PROVE  AllOf(t)' /\ DataTypes'
<1> DEFINE kept == IF cancelled THEN ids ELSE Truncated(ids)
<1>1. /\ DataTypes /\ CallInv(t) /\ RowInv(t) /\ LabelInv(t) /\ VersionInv
      /\ weights \in Nat /\ version \in Nat /\ version_start[t] \in Nat
      /\ t[1] \in Samples /\ label[t[1]] \in Nat
  BY SampleOfRow DEF WholeInv, TypeOK
<1>2. place[t[1]] = "active" /\ weights <= label[t[1]] + 1
  BY <1>1 DEF LoopsHaveTasks, VersionInv
<1>3. /\ response_length \in Nat \ {0} /\ Chain(ids, weights)
      /\ ids \in SeqOfTokens /\ Len(ids) \in Nat
  <2>1. response_length \in Nat \ {0} /\ Chain(ids, weights)
    BY <1>1, RunTypes DEF CallInv
  <2>2. ids \in SeqOfTokens
    BY <2>1 DEF Chain
  <2>3. Len(ids) \in Nat
    BY <2>2 DEF SeqOfTokens
  <2>4. QED
    BY <2>1, <2>2, <2>3
<1>4. LET cut == Truncated(ids)
       IN  /\ Chain(cut, weights) /\ Len(cut) <= response_length
           /\ Len(ids) < response_length => cut = ids
           /\ Len(ids) >= response_length => Len(cut) = response_length
           /\ Len(cut) <= Len(ids) /\ \A i \in 1..Len(cut) : cut[i] = ids[i]
  BY <1>1, <1>3, TruncatedFacts
<1>5. /\ Chain(kept, weights) /\ Len(kept) <= Len(ids)
      /\ \A i \in 1..Len(kept) : kept[i] = ids[i]
  BY <1>3, <1>4
<1>6. ~cancelled => Finished(kept)
  <2> SUFFICES ASSUME ~cancelled PROVE Finished(kept)
    OBVIOUS
  <2>1. /\ kept = Truncated(ids) /\ Len(kept) <= response_length
        /\ Len(ids) < response_length => kept = ids
        /\ Len(ids) >= response_length => Len(kept) = response_length
    BY <1>4
  <2>2. ids # << >> /\ (Len(ids) >= response_length \/ EndsTurn(ids))
    OBVIOUS
  <2>3. kept # << >>
    <3>1. CASE Len(ids) < response_length
      BY <2>1, <2>2, <3>1
    <3>2. CASE Len(ids) >= response_length
      BY <1>3, <2>1, <3>2
    <3>3. QED
      BY <1>3, <3>1, <3>2
  <2>4. Len(kept) = response_length \/ EndsTurn(kept)
    BY <1>3, <2>1, <2>2
  <2>5. QED
    BY <1>5, <2>1, <2>3, <2>4 DEF Finished
<1>7. kept \in SeqOfTokens
  BY <1>5 DEF Chain
<1>8. /\ response'[t] = kept /\ pc'[t] = "idle" /\ is_cancel'[t] = cancelled
      /\ reply'[t] = NoReply /\ version_end'[t] = label[t[1]]
      /\ response' = [response EXCEPT ![t] = kept] /\ reply' = [reply EXCEPT ![t] = NoReply]
  BY <1>1 DEF Returns, TypeOK, DataTypes
<1>9. UNCHANGED <<run, loop, response_length, weights, version, place, label, state,
                  version_start, req_output>>
  BY DEF run
<1> HIDE DEF kept
<1>10. NoReply \in [ids : SeqOfTokens, is_cancel : BOOLEAN]
  BY ConcatEmpty, <1>7 DEF NoReply
<1>11. DataTypes'
  BY <1>1, <1>7, <1>8, <1>9, <1>10 DEF DataTypes
<1>12. Tokens(t)' = kept
  <2>1. req_output'[t] = << >> /\ reply'[t].ids = << >>
    BY <1>1, <1>8, <1>9 DEF CallInv, NoReply
  <2>2. Tokens(t)' = (kept \o << >>) \o << >>
    BY <1>8, <2>1 DEF Tokens
  <2>3. QED
    BY <1>7, <2>2, ConcatEmpty
<1>13. CallInv(t)'
  <2>1. req_output'[t] = << >> /\ reply'[t] = NoReply
    BY <1>1, <1>8, <1>9 DEF CallInv
  <2>2. QED
    BY <1>5, <1>9, <1>12, <2>1 DEF CallInv
<1>14. RowInv(t)'
  <2>1. ~cancelled => Finished(response[t])'
    BY <1>6, <1>8, <1>9 DEF Finished
  <2>2. cancelled => Resumable(t)'
    BY <1>8, <1>9 DEF Resumable, kept
  <2>3. QED
    BY <1>1, <1>2, <1>8, <1>9, <2>1, <2>2 DEF RowInv
<1>15. LabelInv(t)'
  <2>1. \A i \in 1..Len(kept) : version_start[t] <= kept[i].version
    <3>1. Len(kept) \in Nat
      BY <1>7 DEF SeqOfTokens
    <3>2. \A i \in 1..Len(ids) : version_start[t] <= ids[i].version
      BY <1>1 DEF LabelInv
    <3>3. QED
      BY <1>3, <1>5, <3>1, <3>2
  <2>2. ~cancelled => Last(kept).version <= label[t[1]] + 1
    <3> SUFFICES ASSUME ~cancelled PROVE Last(kept).version <= label[t[1]] + 1
      OBVIOUS
    <3>1. kept # << >>
      BY <1>6 DEF Finished
    <3>2. Last(kept) \in Token /\ Last(kept).version <= weights
      BY <1>1, <1>5, <3>1, LastToken
    <3>3. Last(kept).version \in Nat
      BY <3>2 DEF Token
    <3>4. QED
      BY <1>1, <1>2, <3>2, <3>3
  <2>3. QED
    BY <1>1, <1>8, <1>9, <1>12, <2>1, <2>2 DEF LabelInv
<1>16. QED
  BY <1>11, <1>13, <1>14, <1>15 DEF AllOf

LEMMA AskKeeps ==
    ASSUME TypeOK, WholeInv, NEW t \in Trajectories, Asks(t)
    PROVE  AllOf(t)' /\ DataTypes'
<1>1. DataTypes /\ CallInv(t) /\ RowInv(t) /\ LabelInv(t) /\ loop \in {"single", "tool"}
  BY RunTypes DEF WholeInv
<1>2. /\ UNCHANGED <<run, loop, response_length, weights, version, response, state, is_cancel,
                     version_start, version_end, place, reply, req_output>>
      /\ pc[t] = "top" /\ pc'[t] = "asking" /\ (loop = "tool" => state[t] = "generating")
  BY DEF Asks, rollouter, samples, requests, run, TypeOK
<1>3. DataTypes'
  BY <1>1, <1>2 DEF DataTypes
<1>4. Tokens(t)' = Tokens(t)
  BY <1>2 DEF Tokens
<1>5. CallInv(t)'
  BY <1>1, <1>2, <1>4 DEF CallInv
<1>6. RowInv(t)'
  BY <1>1, <1>2 DEF RowInv, Resumable
<1>7. LabelInv(t)'
  BY <1>1, <1>2, <1>4 DEF LabelInv
<1>8. QED
  BY <1>3, <1>5, <1>6, <1>7 DEF AllOf

LEMMA PendingKeeps ==
    ASSUME TypeOK, WholeInv, LoopsHaveTasks, NEW t \in Trajectories, HandlePending(t)
    PROVE  AllOf(t)' /\ DataTypes'
<1>1. DataTypes /\ CallInv(t) /\ RowInv(t) /\ LabelInv(t)
  BY DEF WholeInv
<1>2. /\ UNCHANGED <<run, loop, response_length, weights, version, response, pc, is_cancel,
                     version_start, version_end, place, reply, req_output>>
      /\ pc[t] = "top" /\ state[t] = "pending" /\ state'[t] = "generating"
      /\ place[t[1]] = "active"
  BY DEF HandlePending, rollouter, samples, requests, call, run, TypeOK, LoopsHaveTasks
<1>3. DataTypes'
  BY <1>1, <1>2 DEF DataTypes
<1>4. Tokens(t)' = Tokens(t)
  BY <1>2 DEF Tokens
<1>5. CallInv(t)'
  BY <1>1, <1>2, <1>4 DEF CallInv
<1>6. RowInv(t)'
  BY <1>1, <1>2 DEF RowInv, Resumable
<1>7. LabelInv(t)'
  BY <1>1, <1>2, <1>4 DEF LabelInv
<1>8. QED
  BY <1>3, <1>5, <1>6, <1>7 DEF AllOf

LEMMA InterruptionKeeps ==
    ASSUME TypeOK, WholeInv, LoopsHaveTasks, NEW t \in Trajectories, LoopInterrupted(t)
    PROVE  AllOf(t)' /\ DataTypes'
<1>1. DataTypes /\ CallInv(t) /\ RowInv(t)
  BY DEF WholeInv
<1>2. /\ UNCHANGED <<run, weights, version, place, label, state, version_start, req_output>>
      /\ pc[t] = "top" /\ Returns(t, TRUE, response[t])
  BY DEF LoopInterrupted, rollouter, samples, requests
<1>3. response[t] = Tokens(t)
  BY <1>1, <1>2, TokensAtRest
<1>4. IF state[t] = "tools" THEN Ended(response[t]) ELSE Open(response[t])
  BY <1>1, <1>2 DEF RowInv, Resumable
<1>5. QED
  BY <1>2, <1>3, <1>4, ReturnsKeeps

\* What a loop has when it has been answered.
LEMMA Answered ==
    ASSUME WholeInv, NEW t \in Trajectories, pc[t] = "answered",
           NEW ids, ids = response[t] \o reply[t].ids
    PROVE  /\ ids = Tokens(t) /\ Chain(ids, weights) /\ state[t] # "tools"
           /\ response_length \in Nat \ {0} /\ Len(ids) \in Nat
           /\ IF reply[t].is_cancel THEN Open(ids) ELSE Ended(ids)
           /\ ids # << >> \/ Len(ids) < response_length
<1>1. DataTypes /\ CallInv(t) /\ RowInv(t)
  BY DEF WholeInv
<1>2. ids = Tokens(t) /\ Chain(ids, weights) /\ state[t] # "tools"
  BY <1>1, TokensAtRest DEF CallInv, RowInv
<1>3. /\ response_length \in Nat \ {0} /\ response[t] \in SeqOfTokens
      /\ reply[t].ids \in SeqOfTokens
      /\ ids \in SeqOfTokens /\ Len(ids) \in Nat
  BY <1>1, <1>2, RunTypes DEF Chain, SeqOfTokens
<1>4. IF reply[t].is_cancel THEN Open(ids) ELSE Ended(reply[t].ids)
  BY <1>1 DEF RowInv
<1>5. Ended(reply[t].ids) => Ended(ids)
  BY <1>3, LastOfConcat DEF Ended
<1>6. ids # << >> \/ Len(ids) < response_length
  <2> SUFFICES ASSUME ids = << >> PROVE Len(ids) < response_length
    OBVIOUS
  <2>1. Len(ids) = 0
    OBVIOUS
  <2>2. QED
    BY <1>3, <2>1
<1>7. QED
  BY <1>2, <1>3, <1>4, <1>5, <1>6

LEMMA SingleTurnKeeps ==
    ASSUME TypeOK, WholeInv, LoopsHaveTasks, NEW t \in Trajectories, SingleTurnEnds(t)
    PROVE  AllOf(t)' /\ DataTypes'
<1> DEFINE ids == response[t] \o reply[t].ids
           cancelled == reply[t].is_cancel /\ Len(ids) < response_length
<1>1. /\ UNCHANGED <<run, weights, version, place, label, state, version_start, req_output>>
      /\ pc[t] = "answered" /\ Returns(t, cancelled, ids)
  BY DEF SingleTurnEnds, rollouter, samples, requests
<1>2. /\ ids = Tokens(t) /\ state[t] # "tools" /\ response_length \in Nat /\ Len(ids) \in Nat
      /\ IF reply[t].is_cancel THEN Open(ids) ELSE Ended(ids)
      /\ ids # << >> \/ Len(ids) < response_length
  BY <1>1, Answered
<1> HIDE DEF ids
<1>3. cancelled => IF state[t] = "tools" THEN Ended(ids) ELSE Open(ids)
  BY <1>2
<1>4. ~cancelled => ids # << >> /\ (Len(ids) >= response_length \/ EndsTurn(ids))
  BY <1>2 DEF Ended
<1>5. cancelled \in BOOLEAN
  OBVIOUS
<1> HIDE DEF cancelled
<1>6. QED
  BY <1>1, <1>2, <1>3, <1>4, <1>5, ReturnsKeeps

\* A loop goes on with one token more or as many as it has been told.
LEMMA GoesOn ==
    ASSUME TypeOK, WholeInv, LoopsHaveTasks, NEW t \in Trajectories,
           pc[t] \in {"top", "answered"}, loop = "tool", Chain(response'[t], weights),
           \A i \in 1..Len(response'[t]) : version_start[t] <= response'[t][i].version,
           IF state'[t] = "tools" THEN Ended(response'[t]) ELSE Open(response'[t]),
           UNCHANGED <<run, weights, version, place, version_start, req_output>>,
           response' \in [Trajectories -> SeqOfTokens], pc'[t] = "top", reply'[t] = NoReply,
           reply' \in [Trajectories -> [ids : SeqOfTokens, is_cancel : BOOLEAN]]
    PROVE  AllOf(t)' /\ DataTypes'
<1>1. /\ DataTypes /\ CallInv(t) /\ RowInv(t) /\ LabelInv(t) /\ t[1] \in Samples
      /\ place[t[1]] = "active" /\ response'[t] \in SeqOfTokens
  BY SampleOfRow DEF WholeInv, LoopsHaveTasks, Chain
<1>2. /\ UNCHANGED <<loop, response_length>>
      /\ req_output'[t] = << >> /\ reply'[t].ids = << >>
  BY <1>1 DEF CallInv, run, NoReply
<1>3. DataTypes'
  BY <1>1, <1>2 DEF DataTypes
<1>4. Tokens(t)' = response'[t]
  <2>1. Tokens(t)' = (response'[t] \o << >>) \o << >>
    BY <1>2 DEF Tokens
  <2>2. QED
    BY <1>1, <2>1, ConcatEmpty
<1>5. CallInv(t)'
  BY <1>2, <1>4 DEF CallInv
<1>6. RowInv(t)'
  BY <1>1, <1>2 DEF RowInv, Resumable
<1>7. LabelInv(t)'
  BY <1>1, <1>4 DEF LabelInv
<1>8. QED
  BY <1>3, <1>5, <1>6, <1>7 DEF AllOf

LEMMA GeneratingKeeps ==
    ASSUME TypeOK, WholeInv, LoopsHaveTasks, NEW t \in Trajectories, HandleGenerating(t)
    PROVE  AllOf(t)' /\ DataTypes'
<1> DEFINE ids == response[t] \o reply[t].ids
           full == Len(ids) >= response_length
           ends == full \/ (~reply[t].is_cancel /\ ~HasToolCall(reply[t].ids))
           at == IF reply[t].is_cancel THEN "generating" ELSE "tools"
<1>1. /\ UNCHANGED <<run, weights, version, place, label, version_start, req_output>>
      /\ pc[t] = "answered" /\ loop = "tool"
  BY DEF HandleGenerating, rollouter, samples, requests
<1>2. /\ ids = Tokens(t) /\ Chain(ids, weights) /\ state[t] # "tools"
      /\ response_length \in Nat /\ Len(ids) \in Nat
      /\ IF reply[t].is_cancel THEN Open(ids) ELSE Ended(ids)
      /\ ids # << >> \/ Len(ids) < response_length
  BY <1>1, Answered
<1>3. ends => Returns(t, FALSE, ids) /\ UNCHANGED state
  BY DEF HandleGenerating
<1>4. ~ends => /\ response' = [response EXCEPT ![t] = ids]
               /\ state' = [state EXCEPT ![t] = at]
               /\ pc' = [pc EXCEPT ![t] = "top"] /\ reply' = [reply EXCEPT ![t] = NoReply]
  BY DEF HandleGenerating
<1> HIDE DEF ids
<1>5. CASE ends
  <2>1. ids # << >> /\ (Len(ids) >= response_length \/ EndsTurn(ids))
    BY <1>2, <1>5 DEF Ended
  <2>2. FALSE \in BOOLEAN
    OBVIOUS
  <2> HIDE DEF ends
  <2>3. QED
    BY <1>1, <1>2, <1>3, <1>5, <2>1, <2>2, ReturnsKeeps
<1>6. CASE ~ends
  <2>1. IF at = "tools" THEN Ended(ids) ELSE Open(ids)
    BY <1>2
  <2> HIDE DEF ends, at
  <2>2. DataTypes /\ \A i \in 1..Len(ids) : version_start[t] <= ids[i].version
    BY <1>2 DEF WholeInv, LabelInv
  <2>3. NoReply \in [ids : SeqOfTokens, is_cancel : BOOLEAN]
    <3>1. << >> \in SeqOfTokens
      BY DEF SeqOfTokens
    <3>2. QED
      BY <3>1 DEF NoReply
  <2>4. reply' = [reply EXCEPT ![t] = NoReply] /\ pc' = [pc EXCEPT ![t] = "top"]
        /\ response' = [response EXCEPT ![t] = ids] /\ state' = [state EXCEPT ![t] = at]
    BY <1>4, <1>6
  <2>5. /\ reply' \in [Trajectories -> [ids : SeqOfTokens, is_cancel : BOOLEAN]]
        /\ reply'[t] = NoReply
    BY <2>2, <2>3, <2>4 DEF DataTypes
  <2>6. pc'[t] = "top" /\ state'[t] = at
    BY <2>4 DEF TypeOK
  <2>7. response' \in [Trajectories -> SeqOfTokens] /\ response'[t] = ids
    BY <1>2, <2>2, <2>4 DEF DataTypes, Chain
  <2>8. QED
    BY <1>1, <1>2, <2>1, <2>2, <2>5, <2>6, <2>7, GoesOn
<1>7. QED
  BY <1>5, <1>6

LEMMA ToolsKeep ==
    ASSUME TypeOK, WholeInv, LoopsHaveTasks, NEW t \in Trajectories, HandleTools(t)
    PROVE  AllOf(t)' /\ DataTypes'
<1> DEFINE ids == response[t]
           x == [turn |-> Last(ids).turn, pos |-> 0, version |-> Last(ids).version]
           full == Len(ids) + 1 >= response_length
<1>1. /\ UNCHANGED <<run, weights, version, place, label, version_start, req_output>>
      /\ pc[t] = "top" /\ loop = "tool" /\ state[t] = "tools"
  BY DEF HandleTools, rollouter, samples, requests
<1>2. /\ DataTypes /\ CallInv(t) /\ RowInv(t) /\ LabelInv(t) /\ weights \in Nat
      /\ version_start[t] \in Nat
  BY DEF WholeInv, TypeOK
<1>3. ids = Tokens(t) /\ Chain(ids, weights) /\ Ended(ids)
  <2>1. ids = Tokens(t)
    BY <1>1, <1>2, TokensAtRest
  <2>2. QED
    BY <1>1, <1>2, <2>1 DEF CallInv, RowInv, Resumable
<1>4. full => Returns(t, FALSE, ids) /\ UNCHANGED state
  BY DEF HandleTools
<1>5. ~full => /\ response' = [response EXCEPT ![t] = Append(ids, x)]
               /\ state' = [state EXCEPT ![t] = "generating"] /\ UNCHANGED <<pc, reply>>
  <2>1. response[t] = ids
    OBVIOUS
  <2>2. QED
    BY <1>2 DEF HandleTools, DataTypes
<1> HIDE DEF ids, x
<1>6. CASE full
  <2> HIDE DEF full
  <2>1. ids # << >> /\ EndsTurn(ids) /\ FALSE \in BOOLEAN
    BY <1>3 DEF Ended
  <2>2. QED
    BY <1>1, <1>3, <1>4, <1>6, <2>1, ReturnsKeeps
<1>7. CASE ~full
  <2> HIDE DEF full
  <2>1. /\ x \in Token /\ Chain(Append(ids, x), weights) /\ Open(Append(ids, x))
        /\ x.version = Last(ids).version
    BY <1>2, <1>3, AnswerFollows DEF x
  <2>2. \A i \in 1..Len(Append(ids, x)) : version_start[t] <= Append(ids, x)[i].version
    <3>1. ids \in SeqOfTokens /\ Last(ids) = ids[Len(ids)] /\ Len(ids) \in Nat \ {0}
      BY <1>2, <1>3, LastToken DEF Ended, Chain
    <3>2. /\ Len(Append(ids, x)) = Len(ids) + 1
          /\ Append(ids, x)[Len(ids) + 1] = x
          /\ \A i \in 1..Len(ids) : Append(ids, x)[i] = ids[i]
      BY <2>1, <3>1 DEF SeqOfTokens
    <3>3. \A i \in 1..Len(ids) : version_start[t] <= ids[i].version
      BY <1>2, <1>3 DEF LabelInv
    <3>4. version_start[t] <= x.version
      BY <2>1, <3>1, <3>3
    <3>5. QED
      BY <3>1, <3>2, <3>3, <3>4
  <2>3. /\ reply' \in [Trajectories -> [ids : SeqOfTokens, is_cancel : BOOLEAN]]
        /\ reply'[t] = NoReply /\ pc'[t] = "top"
    BY <1>1, <1>2, <1>5, <1>7 DEF DataTypes, CallInv
  <2> DEFINE new == Append(ids, x)
  <2>4. /\ Chain(new, weights) /\ Open(new) /\ response' = [response EXCEPT ![t] = new]
        /\ \A i \in 1..Len(new) : version_start[t] <= new[i].version
        /\ state' = [state EXCEPT ![t] = "generating"]
    BY <1>5, <1>7, <2>1, <2>2
  <2> HIDE DEF new
  <2>5. response' \in [Trajectories -> SeqOfTokens] /\ response'[t] = new
    BY <1>2, <2>4 DEF DataTypes, Chain
  <2>6. state'[t] = "generating"
    <3>1. state \in [Trajectories -> {"pending", "generating", "tools"}]
      BY DEF TypeOK
    <3>2. QED
      BY <2>4, <3>1
  <2>7. QED
    BY <1>1, <2>3, <2>4, <2>5, <2>6, GoesOn
<1>8. QED
  BY <1>6, <1>7

LEMMA RowSteps ==
    ASSUME TypeOK, WholeInv, LoopsHaveTasks, NEW t \in Trajectories,
           Serve(t) \/ ServerAnswers(t) \/ RunLoop(t)
    PROVE  AllOf(t)' /\ DataTypes'
BY ArrivalKeeps, TokenKeeps, AnswerKeeps, AskKeeps, SingleTurnKeeps, InterruptionKeeps,
   PendingKeeps, GeneratingKeeps, ToolsKeep DEF Serve, RunLoop

\* A row's steps leave the other rows alone.
LEMMA OthersSame ==
    ASSUME TypeOK, DataTypes, NEW t \in Trajectories, NEW u \in Trajectories, u # t,
           Serve(t) \/ ServerAnswers(t) \/ RunLoop(t)
    PROVE  RowSame(u)
<1>1. CASE Serve(t) \/ ServerAnswers(t)
  BY <1>1 DEF Serve, RequestArrives, GeneratesToken, ServerAnswers, RowSame, TypeOK, DataTypes,
     rollouter, samples, loops, call, requests
<1>2. ASSUME NEW c, NEW ids, Returns(t, c, ids)
      PROVE  /\ pc'[u] = pc[u] /\ response'[u] = response[u] /\ is_cancel'[u] = is_cancel[u]
             /\ version_end'[u] = version_end[u] /\ reply'[u] = reply[u]
  BY <1>2 DEF Returns, TypeOK, DataTypes
<1>3. CASE Asks(t) \/ HandlePending(t)
  BY <1>3 DEF Asks, HandlePending, RowSame, TypeOK, samples, requests, call
<1>4. CASE SingleTurnEnds(t) \/ LoopInterrupted(t)
  BY <1>2, <1>4 DEF SingleTurnEnds, LoopInterrupted, RowSame, samples, requests
<1>5. CASE HandleGenerating(t)
  <2>1. UNCHANGED <<version_start, req_output, place>>
    BY <1>5 DEF HandleGenerating, samples, requests
  <2>2. CASE Returns(t, FALSE, response[t] \o reply[t].ids) /\ UNCHANGED state
    BY <1>2, <2>1, <2>2 DEF RowSame
  <2>3. CASE ~(Returns(t, FALSE, response[t] \o reply[t].ids) /\ UNCHANGED state)
    <3>1. /\ response' = [response EXCEPT ![t] = response[t] \o reply[t].ids]
          /\ state' = [state EXCEPT ![t] = IF reply[t].is_cancel THEN "generating" ELSE "tools"]
          /\ pc' = [pc EXCEPT ![t] = "top"] /\ reply' = [reply EXCEPT ![t] = NoReply]
          /\ UNCHANGED <<is_cancel, version_end>>
      BY <1>5, <2>3 DEF HandleGenerating
    <3>2. QED
      BY <2>1, <3>1 DEF RowSame, TypeOK, DataTypes
  <2>4. QED
    BY <2>2, <2>3
<1>6. CASE HandleTools(t)
  <2>1. UNCHANGED <<version_start, req_output, place>>
    BY <1>6 DEF HandleTools, samples, requests
  <2>2. CASE Returns(t, FALSE, response[t]) /\ UNCHANGED state
    BY <1>2, <2>1, <2>2 DEF RowSame
  <2>3. CASE ~(Returns(t, FALSE, response[t]) /\ UNCHANGED state)
    BY <1>6, <2>1, <2>3 DEF HandleTools, RowSame, TypeOK, DataTypes
  <2>4. QED
    BY <2>2, <2>3
<1>7. QED
  BY <1>1, <1>3, <1>4, <1>5, <1>6 DEF RunLoop

LEMMA RowStepsKeep ==
    ASSUME TypeOK, WholeInv, LoopsHaveTasks, NEW t \in Trajectories,
           Serve(t) \/ ServerAnswers(t) \/ RunLoop(t)
    PROVE  WholeInv'
<1>1. UNCHANGED <<run, weights, version, phase, place, label>>
  <2>1. CASE RunLoop(t)
    <3>1. UNCHANGED <<rollouter, samples>>
      BY <2>1, LoopFrame
    <3>2. UNCHANGED run
      BY <2>1 DEF RunLoop, Asks, SingleTurnEnds, LoopInterrupted, HandlePending,
         HandleGenerating, HandleTools
    <3>3. QED
      BY <3>1, <3>2 DEF rollouter, samples
  <2>2. CASE Serve(t) \/ ServerAnswers(t)
    BY <2>2 DEF Serve, RequestArrives, GeneratesToken, ServerAnswers, rollouter, samples
  <2>3. QED
    BY <2>1, <2>2
<1>2. DataTypes' /\ AllOf(t)'
  BY RowSteps
<1>3. ASSUME NEW u \in Trajectories, u # t PROVE AllOf(u)'
  <2>1. RowSame(u)
    BY <1>3, OthersSame DEF WholeInv
  <2>2. weights' \in Nat /\ version' \in Nat /\ weights <= weights' /\ version <= version'
    BY <1>1 DEF TypeOK
  <2>3. QED
    BY <1>1, <2>1, <2>2, RowKept
<1>4. VersionInv'
  BY <1>1 DEF WholeInv, VersionInv
<1>5. QED
  BY <1>2, <1>3, <1>4 DEF WholeInv, AllOf

-----------------------------------------------------------------------------
(* Samples and synchronizations *)

LEMMA RowOfSample ==
    ASSUME NEW t \in Trajectories, NEW s \in Samples
    PROVE  t[1] = s <=> t \in RowsOf(s)
BY DEF Trajectories, RowsOf

LEMMA SubmitKeeps ==
    ASSUME TypeOK, WholeInv, LoopsHaveTasks, NEW s \in Samples, Submit(s)
    PROVE  WholeInv'
<1>1. /\ UNCHANGED <<run, weights, version, phase, response, state, is_cancel, version_end,
                     reply, req_output>>
      /\ place[s] \in {"pending", "cancelled"}
      /\ place' = [place EXCEPT ![s] = "active"] /\ label' = [label EXCEPT ![s] = version]
      /\ LockFree
  BY DEF Submit, rollouter, call, requests
<1>2. /\ pc' = [t \in Trajectories |-> IF t \in Fresh(s) \cup Again(s) THEN "top" ELSE pc[t]]
      /\ version_start' = [t \in Trajectories |->
             IF t \in Fresh(s) THEN version ELSE version_start[t]]
  BY DEF Submit, StartLabelled
<1>3. DataTypes /\ VersionInv /\ weights \in Nat /\ version \in Nat
  BY DEF WholeInv, TypeOK
<1>4. DataTypes'
  BY <1>1, <1>3 DEF DataTypes, run
<1>5. VersionInv'
  BY <1>1, <1>3 DEF VersionInv, TypeOK
<1>6. ASSUME NEW t \in Trajectories PROVE AllOf(t)'
  <2>1. CallInv(t) /\ RowInv(t) /\ LabelInv(t) /\ t[1] \in Samples
    BY SampleOfRow DEF WholeInv
  <2>2. CASE t[1] # s
    <3>1. t \notin Fresh(s) /\ t \notin Again(s)
      BY <2>2, RowOfSample DEF Fresh, Again
    <3>2. RowSame(t)
      BY <1>1, <1>2, <2>2, <3>1 DEF RowSame, TypeOK
    <3>3. QED
      BY <1>1, <1>3, <3>2, RowKept
  <2>3. CASE t[1] = s
    <3>1. t \in RowsOf(s) /\ place'[s] = "active" /\ pc[t] = "idle"
      BY <1>1, <2>1, <2>3, RowOfSample DEF TypeOK, LoopsHaveTasks
    <3>2. t \in Fresh(s) <=> place[s] = "pending"
      BY <3>1 DEF Fresh
    <3>3. t \in Again(s) <=> is_cancel[t]
      BY <3>1 DEF Again
    <3>4. Tokens(t)' = Tokens(t) /\ (Finished(response[t]) => Finished(response[t])')
          /\ (Resumable(t) => Resumable(t)')
      BY <1>1 DEF Tokens, Finished, Resumable, run
    <3>5. CallInv(t)'
      BY <1>1, <1>2, <2>1, <3>1, <3>4 DEF CallInv
    <3>6. CASE place[s] = "pending"
      <4>1. response[t] = << >> /\ ~is_cancel[t] /\ state[t] = "pending"
        BY <2>1, <2>3, <3>6 DEF RowInv
      <4>2. Tokens(t) = << >>
        BY <1>3, <2>1, <3>1, <4>1, TokensAtRest
      <4>3. pc'[t] = "top" /\ version_start'[t] = version
        BY <1>2, <3>2, <3>6
      <4>4. RowInv(t)'
        BY <1>1, <2>1, <2>3, <3>1, <4>1, <4>3 DEF RowInv, Resumable, Open, run
      <4>5. LabelInv(t)'
        BY <1>1, <1>3, <3>4, <4>2, <4>3 DEF LabelInv
      <4>6. QED
        BY <3>5, <4>4, <4>5 DEF AllOf
    <3>7. CASE place[s] # "pending"
      <4>1. /\ version_start'[t] = version_start[t]
            /\ pc'[t] = IF is_cancel[t] THEN "top" ELSE "idle"
        BY <1>2, <3>1, <3>2, <3>3, <3>7
      <4>2. RowInv(t)'
        BY <1>1, <2>1, <2>3, <3>1, <3>4, <3>7, <4>1 DEF RowInv, run
      <4>3. LabelInv(t)'
        BY <1>1, <2>1, <2>3, <3>1, <3>4, <3>7, <4>1 DEF LabelInv
      <4>4. QED
        BY <3>5, <4>2, <4>3 DEF AllOf
    <3>8. QED
      BY <3>6, <3>7
  <2>4. QED
    BY <2>2, <2>3
<1>7. QED
  BY <1>4, <1>5, <1>6 DEF WholeInv, AllOf

LEMMA TaskEndKeeps ==
    ASSUME TypeOK, WholeInv, LoopsHaveTasks, NEW s \in Samples, TaskEnds(s)
    PROVE  WholeInv'
<1>1. /\ UNCHANGED <<run, weights, version, phase, label, pc, response, state, is_cancel,
                     version_start, version_end, reply, req_output>>
      /\ place[s] = "active" /\ \A t \in RowsOf(s) : pc[t] = "idle"
      /\ place' = [place EXCEPT
             ![s] = IF \E t \in RowsOf(s) : is_cancel[t] THEN "cancelled" ELSE "put"]
  BY DEF TaskEnds, PutsOrRequeues, rollouter, loops, call, requests
<1>2. DataTypes /\ VersionInv /\ weights \in Nat /\ version \in Nat
  BY DEF WholeInv, TypeOK
<1>3. DataTypes'
  BY <1>1, <1>2 DEF DataTypes, run
<1>4. VersionInv'
  BY <1>1, <1>2 DEF VersionInv, TypeOK
<1>5. ASSUME NEW t \in Trajectories PROVE AllOf(t)'
  <2>1. CallInv(t) /\ RowInv(t) /\ LabelInv(t) /\ t[1] \in Samples
    BY SampleOfRow DEF WholeInv
  <2>2. CASE t[1] # s
    <3>1. RowSame(t)
      BY <1>1, <2>2 DEF RowSame, TypeOK
    <3>2. QED
      BY <1>1, <1>2, <3>1, RowKept
  <2>3. CASE t[1] = s
    <3>1. t \in RowsOf(s) /\ pc[t] = "idle" /\ place[t[1]] = "active"
          /\ place'[t[1]] \in {"cancelled", "put"}
          /\ (place'[t[1]] = "put" => ~is_cancel[t])
      BY <1>1, <2>1, <2>3, RowOfSample DEF TypeOK
    <3>2. Tokens(t)' = Tokens(t) /\ (Finished(response[t]) => Finished(response[t])')
          /\ (Resumable(t) => Resumable(t)')
      BY <1>1 DEF Tokens, Finished, Resumable, run
    <3>3. CallInv(t)'
      BY <1>1, <2>1, <3>2 DEF CallInv
    <3>4. RowInv(t)'
      BY <1>1, <2>1, <3>1, <3>2 DEF RowInv, run
    <3>5. LabelInv(t)'
      BY <1>1, <2>1, <3>1, <3>2 DEF LabelInv
    <3>6. QED
      BY <3>3, <3>4, <3>5 DEF AllOf
  <2>4. QED
    BY <2>2, <2>3
<1>6. QED
  BY <1>3, <1>4, <1>5 DEF WholeInv, AllOf

LEMMA SynchronizeKeeps ==
    ASSUME TypeOK, WholeInv, Synchronize \/ MonitorEndsPause PROVE WholeInv'
<1>1. UNCHANGED <<run, place, label, pc, response, state, is_cancel, version_start, version_end,
                  reply, req_output>>
  BY DEF Synchronize, MonitorEndsPause, PauseBegins, BroadcastDone, PauseEnds, TransferEnds,
     UpdateParamVersion, TellWorker, CancelServer, ResumeServer, samples, loops, call, requests
<1>2. DataTypes /\ VersionInv /\ weights \in Nat /\ version \in Nat
  BY DEF WholeInv, TypeOK
<1>3. /\ VersionInv' /\ weights' \in Nat /\ version' \in Nat
      /\ weights <= weights' /\ version <= version'
  <2>1. CASE PauseBegins \/ BroadcastDone \/ MonitorEndsPause \/ TellWorker
             \/ \E r \in Servers : CancelServer(r) \/ ResumeServer(r)
    <3>1. UNCHANGED <<weights, version>> /\ (phase' = phase
             \/ (phase # "update" /\ phase' \notin {"transfer", "update"}))
      BY <2>1 DEF PauseBegins, BroadcastDone, MonitorEndsPause, TellWorker, CancelServer,
         ResumeServer
    <3>2. QED
      BY <1>1, <1>2, <3>1 DEF VersionInv
  <2>2. CASE PauseEnds
    BY <1>1, <1>2, <2>2 DEF PauseEnds, VersionInv
  <2>3. CASE TransferEnds
    BY <1>1, <1>2, <2>3 DEF TransferEnds, VersionInv, TypeOK
  <2>4. CASE UpdateParamVersion
    BY <1>1, <1>2, <2>4 DEF UpdateParamVersion, VersionInv
  <2>5. QED
    BY <2>1, <2>2, <2>3, <2>4 DEF Synchronize
<1>4. DataTypes'
  BY <1>1, <1>2 DEF DataTypes, run
<1>5. ASSUME NEW t \in Trajectories PROVE AllOf(t)'
  <2>1. RowSame(t)
    BY <1>1 DEF RowSame
  <2>2. QED
    BY <1>1, <1>3, <2>1, RowKept
<1>6. QED
  BY <1>3, <1>4, <1>5 DEF WholeInv, AllOf

LEMMA InitWhole ==
    ASSUME Init PROVE WholeInv
<1>1. /\ DataTypes /\ weights = 0 /\ version = 0 /\ phase = "serving"
      /\ \A s \in Samples : place[s] = "pending"
  <2>1. << >> \in SeqOfTokens
    BY DEF SeqOfTokens
  <2>2. NoReply \in [ids : SeqOfTokens, is_cancel : BOOLEAN]
    BY <2>1 DEF NoReply
  <2>3. QED
    BY <2>1, <2>2 DEF Init, DataTypes
<1>2. VersionInv
  BY <1>1 DEF VersionInv
<1>3. ASSUME NEW t \in Trajectories PROVE CallInv(t) /\ RowInv(t) /\ LabelInv(t)
  <2>1. /\ response[t] = << >> /\ req_output[t] = << >> /\ reply[t] = NoReply /\ pc[t] = "idle"
        /\ ~is_cancel[t] /\ state[t] = "pending" /\ version_start[t] = 0
        /\ place[t[1]] = "pending"
    BY SampleOfRow DEF Init
  <2>2. << >> \o << >> = << >> /\ << >> \in SeqOfTokens
    BY ConcatEmpty DEF SeqOfTokens
  <2>3. Tokens(t) = << >>
    BY <2>1, <2>2 DEF Tokens, NoReply
  <2>4. Chain(<< >>, weights)
    BY <2>2 DEF Chain
  <2>5. CallInv(t)
    BY <2>1, <2>3, <2>4 DEF CallInv
  <2>6. RowInv(t)
    BY <2>1 DEF RowInv
  <2>7. LabelInv(t)
    BY <1>1, <2>1, <2>3 DEF LabelInv
  <2>8. QED
    BY <2>5, <2>6, <2>7
<1>4. QED
  BY <1>1, <1>2, <1>3 DEF WholeInv

(* The invariant behind whole responses and their labels.                  *)
THEOREM WholeInvariant == Spec => []WholeInv
<1>1. Init => WholeInv
  BY InitWhole
<1>2. QuietInv /\ WholeInv /\ [Next]_vars => WholeInv'
  <2> SUFFICES ASSUME QuietInv, WholeInv, [Next]_vars PROVE WholeInv'
    OBVIOUS
  <2>1. TypeOK /\ LoopsHaveTasks
    BY DEF QuietInv
  <2>2. CASE Terminated \/ UNCHANGED vars
    <3>1. UNCHANGED <<run, weights, version, phase, place, label, pc, response, state, is_cancel,
                      version_start, version_end, reply, req_output>>
      BY <2>2 DEF Terminated, vars, rollouter, samples, loops, call, requests
    <3>2. DataTypes' /\ VersionInv'
      BY <3>1 DEF WholeInv, DataTypes, VersionInv, run
    <3>3. ASSUME NEW t \in Trajectories PROVE AllOf(t)'
      <4>1. RowSame(t)
        BY <3>1 DEF RowSame
      <4>2. weights' \in Nat /\ version' \in Nat /\ weights <= weights' /\ version <= version'
        BY <2>1, <3>1 DEF TypeOK
      <4>3. QED
        BY <2>1, <3>1, <4>1, <4>2, RowKept
    <3>4. QED
      BY <3>2, <3>3 DEF WholeInv, AllOf
  <2>3. QED
    BY <2>1, <2>2, SynchronizeKeeps, SubmitKeeps, TaskEndKeeps, RowStepsKeep DEF Next
<1>3. QED
  BY <1>1, <1>2, QuietInvariant, PTL DEF Spec

-----------------------------------------------------------------------------
(* Tool calls that are not cut *)

\* A server that stays paused until the weights are new.
Shut(r) == server_paused[r] /\ phase \in {"cancelling", "gathering", "transfer"}

UpTo(ids) == \A k \in 1..Len(ids) : ids[k].turn <= LastTurn(ids)

\* Nothing of the turn to go on with is by version v.
Clear(ids, v) ==
    \A k \in 1..Len(ids) : ids[k].pos > 0 => ids[k].turn < LastTurn(ids) \/ ids[k].version < v

\* The tokens of b go on with the turn of a, by a later version.
Apart(a, b) ==
    \A j \in 1..Len(b) :
        /\ b[j].pos > 0 /\ b[j].turn = LastTurn(a)
        /\ \A k \in 1..Len(a) :
               a[k].pos > 0 => a[k].turn < b[j].turn \/ a[k].version < b[j].version

CallsInv(t) ==
    /\ pc[t] # "idle" \/ is_cancel[t] => UpTo(response[t])
    /\ pc[t] = "generating" =>
           /\ Apart(response[t], req_output[t]) /\ Clear(response[t], weights)
           /\ cancel_event[t] = "set" => Shut(server[t])
    /\ pc[t] = "answered" =>
           /\ Apart(response[t], reply[t].ids)
           /\ reply[t].is_cancel =>
                  Shut(server[t]) \/ Clear(response[t] \o reply[t].ids, weights)
    /\ pc[t] \in {"top", "asking"} \/ (pc[t] = "idle" /\ is_cancel[t]) =>
           state[t] = "tools" \/ Shut(server[t]) \/ Clear(response[t], weights)
    /\ place[t[1]] # "pending" /\ pc[t] = "idle" /\ ~is_cancel[t] => CallsRun(response[t])

AllCalls == loop = "tool" => \A t \in Trajectories : CallsInv(t)

LEMMA TokenTypes ==
    ASSUME NEW ids \in SeqOfTokens
    PROVE  /\ Len(ids) \in Nat
           /\ \A k \in 1..Len(ids) :
                  ids[k].turn \in Nat /\ ids[k].pos \in Nat /\ ids[k].version \in Nat
           /\ ids # << >> => Len(ids) \in 1..Len(ids) /\ Last(ids) = ids[Len(ids)]
           /\ LastTurn(ids) \in Nat
<1>1. Len(ids) \in Nat /\ \A k \in 1..Len(ids) : ids[k] \in Token
  BY DEF SeqOfTokens
<1>2. \A k \in 1..Len(ids) : ids[k].turn \in Nat /\ ids[k].pos \in Nat /\ ids[k].version \in Nat
  BY <1>1 DEF Token
<1>3. ids # << >> => Len(ids) \in 1..Len(ids) /\ Last(ids) = ids[Len(ids)]
  BY DEF SeqOfTokens, Last
<1>4. LastTurn(ids) \in Nat
  BY <1>2, <1>3 DEF LastTurn
<1>5. QED
  BY <1>1, <1>2, <1>3, <1>4

LEMMA ClearLater ==
    ASSUME NEW ids, NEW v \in Nat, Chain(ids, v) PROVE Clear(ids, v + 1)
<1>1. ids \in SeqOfTokens /\ \A k \in 1..Len(ids) : ids[k].version <= v
  BY DEF Chain
<1>2. \A k \in 1..Len(ids) : ids[k].version \in Nat
  BY <1>1, TokenTypes
<1>3. QED
  BY <1>1, <1>2 DEF Clear

LEMMA ApartJoins ==
    ASSUME NEW a \in SeqOfTokens, NEW b \in SeqOfTokens, UpTo(a), Apart(a, b)
    PROVE  LastTurn(a \o b) = LastTurn(a) /\ UpTo(a \o b)
<1>1. CASE b = << >>
  BY <1>1, ConcatEmpty
<1>2. CASE b # << >>
  <2> DEFINE c == a \o b
  <2>1. /\ Len(c) = Len(a) + Len(b) /\ Len(a) \in Nat /\ Len(b) \in Nat
        /\ \A i \in 1..Len(a) : c[i] = a[i]
        /\ \A i \in 1..Len(b) : c[Len(a) + i] = b[i]
    BY ConcatFacts
  <2>2. Last(c) = Last(b) /\ c # << >>
    BY <1>2, LastOfConcat
  <2>3. Last(b).pos > 0 /\ Last(b).turn = LastTurn(a) /\ Last(b).pos \in Nat
    BY <1>2, TokenTypes DEF Apart
  <2> HIDE DEF c
  <2>4. LastTurn(c) = LastTurn(a)
    BY <2>2, <2>3 DEF LastTurn
  <2>5. ASSUME NEW k \in 1..Len(c) PROVE c[k].turn <= LastTurn(c)
    <3>1. CASE k <= Len(a)
      BY <2>1, <2>4, <3>1 DEF UpTo
    <3>2. CASE k > Len(a)
      <4>1. k - Len(a) \in 1..Len(b) /\ k = Len(a) + (k - Len(a))
        BY <2>1, <3>2
      <4>2. c[k] = b[k - Len(a)]
        BY <2>1, <4>1
      <4>3. c[k].turn = LastTurn(a) /\ LastTurn(a) \in Nat
        BY <4>1, <4>2, TokenTypes DEF Apart
      <4>4. QED
        BY <2>4, <4>3
    <3>3. QED
      BY <2>1, <3>1, <3>2
  <2>6. QED
    BY <2>4, <2>5 DEF UpTo, c
<1>3. QED
  BY <1>1, <1>2

\* A call that no synchronization cut is in the last answer as a whole.
LEMMA CallInAnswer ==
    ASSUME NEW a \in SeqOfTokens, NEW b \in SeqOfTokens, b # << >>, Apart(a, b),
           UncutCall(a \o b)
    PROVE  HasToolCall(b)
<1> DEFINE c == a \o b
<1>1. /\ Len(c) = Len(a) + Len(b) /\ Len(a) \in Nat /\ Len(b) \in Nat /\ c \in SeqOfTokens
      /\ \A i \in 1..Len(a) : c[i] = a[i]
      /\ \A i \in 1..Len(b) : c[Len(a) + i] = b[i]
  BY ConcatFacts
<1>2. Last(c) = Last(b) /\ Last(b) = b[Len(b)] /\ Len(b) \in 1..Len(b)
  BY LastOfConcat, TokenTypes
<1>3. DOMAIN c = 1..Len(c) /\ DOMAIN b = 1..Len(b)
  BY <1>1 DEF SeqOfTokens
<1>4. PICK i \in DOMAIN c, j \in DOMAIN c :
          /\ i < j /\ c[i].turn = Last(c).turn
          /\ c[i].version = Last(c).version /\ c[i].pos > 0 /\ c[j].pos > 0
          /\ Kind(c[i]) = "open" /\ Kind(c[j]) = "close"
  BY DEF UncutCall
<1> HIDE DEF c
<1>5. i > Len(a)
  <2> SUFFICES ASSUME i <= Len(a) PROVE FALSE
    BY <1>1, <1>3, <1>4
  <2>1. i \in 1..Len(a) /\ c[i] = a[i]
    BY <1>1, <1>3, <1>4
  <2>2. a[i].turn < b[Len(b)].turn \/ a[i].version < b[Len(b)].version
    BY <1>2, <1>4, <2>1 DEF Apart
  <2>3. a[i].turn \in Nat /\ a[i].version \in Nat /\ b[Len(b)].turn \in Nat
        /\ b[Len(b)].version \in Nat
    BY <1>2, <2>1, TokenTypes
  <2>4. QED
    BY <1>2, <1>4, <2>1, <2>2, <2>3
<1>6. /\ i - Len(a) \in 1..Len(b) /\ j - Len(a) \in 1..Len(b) /\ i - Len(a) < j - Len(a)
      /\ i = Len(a) + (i - Len(a)) /\ j = Len(a) + (j - Len(a))
  <2>1. i \in 1..(Len(a) + Len(b)) /\ j \in 1..(Len(a) + Len(b))
    BY <1>1, <1>3
  <2>2. Len(a) \in Nat /\ Len(b) \in Nat /\ i < j /\ i > Len(a)
    BY <1>1, <1>4, <1>5
  <2>3. QED
    BY <2>1, <2>2
<1>7. c[i] = b[i - Len(a)] /\ c[j] = b[j - Len(a)]
  BY <1>1, <1>6
<1>8. QED
  BY <1>3, <1>4, <1>6, <1>7 DEF HasToolCall

LEMMA ApartGrows ==
    ASSUME NEW a \in SeqOfTokens, NEW b \in SeqOfTokens, NEW v, Apart(a, b), Clear(a, v),
           NEW x \in Token, x.pos > 0, x.turn = LastTurn(a), x.version = v
    PROVE  Apart(a, Append(b, x))
<1> DEFINE new == Append(b, x)
<1>1. /\ Len(b) \in Nat /\ Len(new) = Len(b) + 1 /\ new[Len(b) + 1] = x
      /\ \A i \in 1..Len(b) : new[i] = b[i]
  BY DEF SeqOfTokens
<1>2. ASSUME NEW j \in 1..Len(new)
      PROVE  /\ new[j].pos > 0 /\ new[j].turn = LastTurn(a)
             /\ \A k \in 1..Len(a) :
                    a[k].pos > 0 => a[k].turn < new[j].turn \/ a[k].version < new[j].version
  <2>1. CASE j \in 1..Len(b)
    BY <1>1, <2>1 DEF Apart
  <2>2. CASE j = Len(b) + 1
    BY <1>1, <2>2 DEF Clear
  <2>3. QED
    BY <1>1, <2>1, <2>2
<1>3. QED
  BY <1>2 DEF Apart

\* What a tool answered begins a turn.
LEMMA AnswerClears ==
    ASSUME NEW a \in SeqOfTokens, Ended(a), UpTo(a), NEW v,
           NEW x \in Token, x.pos = 0, x.turn = Last(a).turn
    PROVE  UpTo(Append(a, x)) /\ Clear(Append(a, x), v)
<1> DEFINE new == Append(a, x)
<1>1. /\ Len(a) \in Nat /\ Len(new) = Len(a) + 1 /\ new[Len(a) + 1] = x /\ new # << >>
      /\ \A i \in 1..Len(a) : new[i] = a[i]
  BY DEF SeqOfTokens
<1>2. /\ \A k \in 1..Len(a) : a[k].turn \in Nat
      /\ Last(a).turn \in Nat /\ Last(a).pos \in Nat
  BY TokenTypes DEF Ended
<1>3. Last(a).pos > 0
  <2> DEFINE turn == Last(a).turn
  <2>1. Last(a).pos >= Len(KindsOf(turn)) /\ turn \in Nat
    BY <1>2 DEF Ended, EndsTurn
  <2> HIDE DEF turn
  <2>2. Len(KindsOf(turn)) \in Nat \ {0}
    BY <2>1, KindsNonempty
  <2>3. QED
    BY <1>2, <2>1, <2>2
<1>4. LastTurn(a) = Last(a).turn
  BY <1>3 DEF LastTurn, Ended
<1>5. Last(new) = x
  BY <1>1 DEF Last
<1> HIDE DEF new
<1>6. LastTurn(new) = Last(a).turn + 1
  BY <1>1, <1>5 DEF LastTurn
<1>7. ASSUME NEW k \in 1..Len(new)
      PROVE  new[k].turn <= LastTurn(new) /\ (new[k].pos > 0 => new[k].turn < LastTurn(new))
  <2>1. CASE k \in 1..Len(a)
    <3>1. new[k] = a[k] /\ a[k].turn <= Last(a).turn
      BY <1>1, <1>4, <2>1 DEF UpTo
    <3>2. QED
      BY <1>2, <1>6, <2>1, <3>1
  <2>2. CASE k = Len(a) + 1
    BY <1>1, <1>2, <1>6, <2>2
  <2>3. QED
    BY <1>1, <2>1, <2>2
<1>8. QED
  BY <1>7 DEF UpTo, Clear, new

\* What the steps of other rows and most of the synchronization leave alone.
LEMMA CallsKept ==
    ASSUME NEW t \in Trajectories, CallsInv(t), RowSame(t), UNCHANGED <<run, weights>>,
           server'[t] = server[t], pc[t] = "generating" => cancel_event'[t] = cancel_event[t],
           Shut(server[t]) => Shut(server[t])'
    PROVE  CallsInv(t)'
BY DEF CallsInv, RowSame, run, UpTo, Clear, Apart, CallsRun, UncutCall

LEMMA ServerCalls ==
    ASSUME TypeOK, WholeInv, loop = "tool", NEW t \in Trajectories, CallsInv(t),
           Serve(t) \/ ServerAnswers(t)
    PROVE  CallsInv(t)'
<1>1. DataTypes /\ CallInv(t) /\ RowInv(t) /\ weights \in Nat
  BY DEF WholeInv, TypeOK
<1>2. /\ UNCHANGED <<run, weights, phase, server_paused, response, state, is_cancel, place, server>>
      /\ response[t] \in SeqOfTokens /\ req_output[t] \in SeqOfTokens
      /\ reply[t].ids \in SeqOfTokens /\ server[t] \in Servers
  BY <1>1, RunTypes DEF Serve, RequestArrives, GeneratesToken, ServerAnswers, rollouter,
     samples, loops, call, events, TypeOK
<1>3. CASE RequestArrives(t)
  <2>1. /\ pc[t] = "asking" /\ state[t] # "tools"
        /\ UpTo(response[t]) /\ (Shut(server[t]) \/ Clear(response[t], weights))
    BY <1>1, <1>3 DEF RequestArrives, CallsInv, RowInv
  <2>2. CASE server_paused[server[t]]
    <3>1. pc'[t] = "answered" /\ reply'[t].ids = << >>
      BY <1>1, <1>3, <2>2 DEF RequestArrives, DataTypes, TypeOK
    <3>2. response[t] \o << >> = response[t] /\ Apart(response[t], << >>)
      BY <1>2, ConcatEmpty DEF Apart
    <3>3. QED
      BY <1>2, <2>1, <3>1, <3>2 DEF CallsInv, UpTo, Clear, Apart, Shut
  <2>3. CASE ~server_paused[server[t]]
    <3>1. /\ pc'[t] = "generating" /\ req_output'[t] = << >> /\ cancel_event'[t] = "clear"
      BY <1>1, <1>3, <2>3 DEF RequestArrives, DataTypes, TypeOK
    <3>2. Apart(response[t], << >>) /\ Clear(response[t], weights)
      BY <2>1, <2>3 DEF Apart, Shut
    <3>3. QED
      BY <1>2, <2>1, <3>1, <3>2 DEF CallsInv, UpTo, Clear, Apart
  <2>4. QED
    BY <2>2, <2>3
<1>4. CASE GeneratesToken(t)
  <2> DEFINE before == response[t] \o req_output[t]
             x == NextToken(before)
  <2>1. /\ pc[t] = "generating" /\ UNCHANGED <<pc, reply, cancel_event>>
        /\ ~GenerationEnded(t)
        /\ req_output' = [req_output EXCEPT ![t] = Append(@, NextToken(response[t] \o @))]
    BY <1>4 DEF GeneratesToken, loops, call
  <2>2. req_output'[t] = Append(req_output[t], x)
    BY <1>1, <2>1 DEF DataTypes
  <2>3. /\ Apart(response[t], req_output[t]) /\ Clear(response[t], weights)
        /\ UpTo(response[t])
    BY <2>1 DEF CallsInv
  <2>4. Tokens(t) = before /\ Chain(before, weights) /\ LastTurn(before) = LastTurn(response[t])
    BY <1>1, <1>2, <2>1, <2>3, TokensAtRest, ApartJoins DEF CallInv
  <2>5. Open(before)
    <3>1. CASE req_output[t] = << >>
      BY <1>1, <1>2, <2>1, <3>1, ConcatEmpty DEF RowInv, Resumable
    <3>2. CASE req_output[t] # << >>
      BY <1>2, <2>1, <3>2, LastOfConcat DEF GenerationEnded, Open
    <3>3. QED
      BY <3>1, <3>2
  <2>6. before \in SeqOfTokens
    BY <2>4 DEF Chain
  <2>7. x \in Token /\ x.version = weights /\ x.turn = LastTurn(before) /\ x.pos > 0
    <3> HIDE DEF before
    <3>1. x \in Token /\ x.version = weights
      BY <1>1, <2>4, <2>5, NextFollows
    <3>2. x.turn = LastTurn(before)
          /\ x.pos = IF before = << >> \/ Last(before).pos = 0 THEN 1 ELSE Last(before).pos + 1
      BY DEF NextToken
    <3>3. before # << >> => Last(before).pos \in Nat
      BY <2>6, TokenTypes
    <3>4. QED
      BY <3>1, <3>2, <3>3
  <2> HIDE DEF x
  <2>8. Apart(response[t], Append(req_output[t], x))
    BY <1>2, <2>3, <2>4, <2>7, ApartGrows
  <2>9. QED
    BY <1>2, <2>1, <2>2, <2>3, <2>8 DEF CallsInv, UpTo, Clear, Apart, Shut
<1>5. CASE ServerAnswers(t)
  <2>1. /\ pc[t] = "generating" /\ pc'[t] = "answered" /\ reply'[t].ids = req_output[t]
        /\ (reply'[t].is_cancel => cancel_event[t] = "set")
    BY <1>1, <1>5 DEF ServerAnswers, IsCancel, DataTypes, TypeOK
  <2>2. QED
    BY <1>2, <2>1 DEF CallsInv, UpTo, Clear, Apart, Shut
<1>6. QED
  BY <1>3, <1>4, <1>5 DEF Serve

\* A tool loop returns what it holds, interrupted or finished.
LEMMA ReturnCalls ==
    ASSUME TypeOK, WholeInv, LoopsHaveTasks, loop = "tool", NEW t \in Trajectories,
           NEW cancelled \in BOOLEAN, NEW ids, Chain(ids, weights),
           pc[t] \in {"top", "answered"}, Returns(t, cancelled, ids),
           UNCHANGED <<run, weights, phase, server_paused, state, server>>,
           cancelled => UpTo(ids) /\ (state[t] = "tools" \/ Shut(server[t]) \/ Clear(ids, weights)),
           ~cancelled => Len(ids) + 1 >= response_length \/ ~UncutCall(ids)
    PROVE  CallsInv(t)'
<1>1. DataTypes /\ response_length \in Nat \ {0}
  BY RunTypes DEF WholeInv
<1>2. /\ pc'[t] = "idle" /\ is_cancel'[t] = cancelled
      /\ response'[t] = IF cancelled THEN ids ELSE Truncated(ids)
  BY <1>1 DEF Returns, DataTypes, TypeOK
<1>3. UNCHANGED <<loop, response_length>>
  BY DEF run
<1>4. CASE cancelled
  BY <1>2, <1>4 DEF CallsInv, UpTo, Clear, Shut
<1>5. CASE ~cancelled
  <2> DEFINE cut == Truncated(ids)
  <2>1. /\ Len(ids) < response_length => cut = ids
        /\ Len(ids) >= response_length => Len(cut) = response_length
        /\ Len(ids) \in Nat
    <3>1. ids \in SeqOfTokens /\ weights \in Nat
      BY DEF Chain, TypeOK
    <3>2. Len(ids) \in Nat
      BY <3>1 DEF SeqOfTokens
    <3>3. /\ Len(ids) < response_length => Truncated(ids) = ids
          /\ Len(ids) >= response_length => Len(Truncated(ids)) = response_length
      BY <1>1, <3>1, TruncatedFacts
    <3>4. QED
      BY <3>2, <3>3
  <2> HIDE DEF cut
  <2>2. UncutCall(cut) => Len(cut) + 1 >= response_length
    BY <1>1, <1>5, <2>1
  <2>3. response'[t] = cut
    BY <1>2, <1>5 DEF cut
  <2>4. CallsRun(response[t])'
    BY <1>3, <2>2, <2>3 DEF CallsRun, UncutCall
  <2>5. QED
    BY <1>2, <1>5, <2>4 DEF CallsInv
<1>6. QED
  BY <1>4, <1>5

LEMMA LoopCalls ==
    ASSUME TypeOK, WholeInv, LoopsHaveTasks, loop = "tool", NEW t \in Trajectories, CallsInv(t),
           RunLoop(t)
    PROVE  CallsInv(t)'
<1>1. DataTypes /\ CallInv(t) /\ RowInv(t) /\ weights \in Nat
  BY DEF WholeInv, TypeOK
<1>2. /\ UNCHANGED <<run, loop, response_length, weights, phase, server_paused, place>>
      /\ response[t] \in SeqOfTokens /\ reply[t].ids \in SeqOfTokens
  <2>1. UNCHANGED <<rollouter, samples, events>>
    BY LoopFrame
  <2>2. UNCHANGED run
    BY DEF RunLoop, Asks, SingleTurnEnds, LoopInterrupted, HandlePending, HandleGenerating,
       HandleTools
  <2>3. QED
    BY <1>1, <2>1, <2>2, RunTypes DEF rollouter, samples, events, run
<1>3. CASE Asks(t)
  <2>1. server'[t] = server[t]
    BY <1>3 DEF Asks, TypeOK
  <2>2. /\ pc[t] = "top" /\ pc'[t] = "asking" /\ UNCHANGED <<state, response, is_cancel>>
    BY <1>3 DEF Asks, TypeOK
  <2>3. QED
    BY <1>2, <2>1, <2>2 DEF CallsInv, UpTo, Clear, Shut
<1>4. CASE LoopInterrupted(t)
  <2>1. /\ pc[t] = "top" /\ Returns(t, TRUE, response[t]) /\ UNCHANGED <<state, server>>
    BY <1>4 DEF LoopInterrupted
  <2>2. Chain(response[t], weights)
    BY <1>1, <2>1, TokensAtRest DEF CallInv
  <2>3. /\ UpTo(response[t])
        /\ state[t] = "tools" \/ Shut(server[t]) \/ Clear(response[t], weights)
    BY <2>1 DEF CallsInv
  <2>4. QED
    BY <1>2, <2>1, <2>2, <2>3, ReturnCalls
<1>5. CASE HandlePending(t)
  <2>1. /\ pc[t] = "top" /\ state[t] = "pending" /\ UNCHANGED <<pc, response, is_cancel, server>>
    BY <1>5 DEF HandlePending, call
  <2>2. QED
    BY <1>2, <2>1 DEF CallsInv, UpTo, Clear, Shut
<1>6. CASE HandleGenerating(t)
  <2> DEFINE ids == response[t] \o reply[t].ids
             full == Len(ids) >= response_length
             ends == full \/ (~reply[t].is_cancel /\ ~HasToolCall(reply[t].ids))
             at == IF reply[t].is_cancel THEN "generating" ELSE "tools"
  <2>1. pc[t] = "answered" /\ UNCHANGED server
    BY <1>6 DEF HandleGenerating
  <2>2. /\ UpTo(response[t]) /\ Apart(response[t], reply[t].ids)
        /\ reply[t].is_cancel => Shut(server[t]) \/ Clear(ids, weights)
    BY <2>1 DEF CallsInv
  <2>3. Chain(ids, weights) /\ UpTo(ids) /\ response_length \in Nat /\ Len(ids) \in Nat
    BY <1>2, <2>1, <2>2, Answered, ApartJoins
  <2>4. ~reply[t].is_cancel => reply[t].ids # << >>
    BY <1>1, <2>1 DEF RowInv, Ended
  <2>5. ~reply[t].is_cancel /\ UncutCall(ids) => HasToolCall(reply[t].ids)
    BY <1>2, <2>2, <2>4, CallInAnswer
  <2>6. CASE ends
    <3>1. Returns(t, FALSE, ids) /\ UNCHANGED state
      BY <1>6, <2>6 DEF HandleGenerating
    <3>2. Len(ids) + 1 >= response_length \/ ~UncutCall(ids)
      <4>1. full => Len(ids) + 1 >= response_length
        <5> HIDE DEF ids
        <5>1. QED
          BY <2>3
      <4> HIDE DEF ids
      <4>2. QED
        BY <2>5, <2>6, <4>1
    <3> HIDE DEF ids
    <3>3. FALSE \in BOOLEAN
      OBVIOUS
    <3>4. QED
      BY <1>2, <2>1, <2>3, <3>1, <3>2, <3>3, ReturnCalls
  <2>7. CASE ~ends
    <3>1. /\ response' = [response EXCEPT ![t] = ids]
          /\ state' = [state EXCEPT ![t] = at]
          /\ pc' = [pc EXCEPT ![t] = "top"] /\ UNCHANGED is_cancel
      BY <1>6, <2>7 DEF HandleGenerating
    <3>2. response'[t] = ids
      BY <1>1, <3>1 DEF DataTypes
    <3>3. pc'[t] = "top" /\ state'[t] = at
      BY <3>1 DEF TypeOK
    <3>4. state'[t] = "tools" \/ Shut(server[t]) \/ Clear(ids, weights)
      BY <2>2, <3>3
    <3> HIDE DEF ids
    <3>5. QED
      BY <1>2, <2>1, <2>3, <3>2, <3>3, <3>4 DEF CallsInv, UpTo, Clear, Shut
  <2>8. QED
    BY <2>6, <2>7
<1>7. CASE HandleTools(t)
  <2> DEFINE ids == response[t]
             x == [turn |-> Last(ids).turn, pos |-> 0, version |-> Last(ids).version]
             full == Len(ids) + 1 >= response_length
  <2>1. pc[t] = "top" /\ state[t] = "tools" /\ UNCHANGED server
    BY <1>7 DEF HandleTools
  <2>2. Chain(ids, weights) /\ Ended(ids) /\ UpTo(ids)
    BY <1>1, <2>1, TokensAtRest DEF CallInv, RowInv, Resumable, CallsInv
  <2>3. CASE full
    <3>1. Returns(t, FALSE, ids) /\ UNCHANGED state /\ FALSE \in BOOLEAN
      BY <1>7, <2>3 DEF HandleTools
    <3>2. QED
      BY <1>2, <2>1, <2>2, <2>3, <3>1, ReturnCalls
  <2>4. CASE ~full
    <3>1. /\ response' = [response EXCEPT ![t] = Append(ids, x)]
          /\ state' = [state EXCEPT ![t] = "generating"] /\ UNCHANGED <<pc, is_cancel>>
      BY <1>1, <1>7, <2>4 DEF HandleTools, DataTypes
    <3>2. response'[t] = Append(ids, x)
      BY <1>1, <3>1 DEF DataTypes
    <3> HIDE DEF ids, x
    <3>3. x \in Token
      BY <1>1, <2>2, AnswerFollows DEF x
    <3>4. UpTo(Append(ids, x)) /\ Clear(Append(ids, x), weights)
      <4>1. x.pos = 0 /\ x.turn = Last(ids).turn
        BY DEF x
      <4>2. ids \in SeqOfTokens
        BY <2>2 DEF Chain
      <4>3. QED
        BY <2>2, <3>3, <4>1, <4>2, AnswerClears
    <3> DEFINE new == Append(ids, x)
    <3>5. UpTo(new) /\ Clear(new, weights) /\ response'[t] = new
      BY <3>2, <3>4
    <3> HIDE DEF new
    <3>6. QED
      BY <1>2, <2>1, <3>1, <3>5 DEF CallsInv, UpTo, Clear, Shut
  <2>5. QED
    BY <2>3, <2>4
<1>8. CASE SingleTurnEnds(t)
  BY <1>8 DEF SingleTurnEnds
<1>9. QED
  BY <1>3, <1>4, <1>5, <1>6, <1>7, <1>8 DEF RunLoop

LEMMA SampleCalls ==
    ASSUME TypeOK, WholeInv, LoopsHaveTasks, loop = "tool", NEW t \in Trajectories, CallsInv(t),
           NEW s \in Samples, Submit(s) \/ TaskEnds(s)
    PROVE  CallsInv(t)'
<1>1. /\ UNCHANGED <<run, loop, response_length, weights, phase, server_paused, response, state,
                     is_cancel, server, reply, req_output, cancel_event>>
      /\ RowInv(t) /\ t[1] \in Samples
  BY SampleOfRow DEF Submit, TaskEnds, WholeInv, rollouter, loops, call, requests, events, run
<1>2. \A r \in Servers : Shut(r)' = Shut(r)
  BY <1>1 DEF Shut
<1>3. CASE Submit(s)
  <2>1. /\ pc' = [u \in Trajectories |-> IF u \in Fresh(s) \cup Again(s) THEN "top" ELSE pc[u]]
        /\ place' = [place EXCEPT ![s] = "active"] /\ place[s] # "active"
    BY <1>3 DEF Submit
  <2>2. CASE t \in Fresh(s) \cup Again(s)
    <3>1. pc'[t] = "top"
      BY <2>1, <2>2
    <3>2. t[1] = s
      BY <2>2, RowOfSample DEF Fresh, Again
    <3>3. pc[t] = "idle"
      BY <2>1, <3>2 DEF LoopsHaveTasks
    <3>4. CASE is_cancel[t]
      BY <1>1, <3>1, <3>3, <3>4 DEF CallsInv, UpTo, Clear, Shut
    <3>5. CASE ~is_cancel[t]
      <4>1. place[s] = "pending"
        BY <2>2, <3>5 DEF Fresh, Again
      <4>2. response[t] = << >>
        BY <1>1, <3>2, <4>1 DEF RowInv
      <4>3. QED
        BY <1>1, <3>1, <4>2 DEF CallsInv, UpTo, Clear
    <3>6. QED
      BY <3>4, <3>5
  <2>3. CASE t \notin Fresh(s) \cup Again(s)
    <3>1. pc'[t] = pc[t]
      BY <2>1, <2>3
    <3>2. place'[t[1]] = place[t[1]] \/ (t[1] = s /\ place[s] # "pending")
      <4>1. t[1] = s => place[s] # "pending"
        BY <2>3, RowOfSample DEF Fresh
      <4>2. QED
        BY <1>1, <2>1, <4>1 DEF TypeOK
    <3>3. QED
      BY <1>1, <3>1, <3>2 DEF CallsInv, UpTo, Clear, Apart, Shut, CallsRun, UncutCall
  <2>4. QED
    BY <2>2, <2>3
<1>4. CASE TaskEnds(s)
  <2>1. pc' = pc /\ (place'[t[1]] = place[t[1]] \/ place[t[1]] = "active")
    BY <1>1, <1>4 DEF TaskEnds, PutsOrRequeues, loops, TypeOK
  <2>2. QED
    BY <1>1, <2>1 DEF CallsInv, UpTo, Clear, Apart, Shut, CallsRun, UncutCall
<1>5. QED
  BY <1>3, <1>4

LEMMA SynchronizeCalls ==
    ASSUME QuietInv, WholeInv, loop = "tool", NEW t \in Trajectories, CallsInv(t),
           Synchronize \/ MonitorEndsPause
    PROVE  CallsInv(t)'
<1>1. /\ UNCHANGED <<run, place, pc, response, state, is_cancel, version_start, version_end,
                     reply, req_output, server>>
      /\ TypeOK /\ QuietTransfer /\ CallInv(t) /\ DataTypes /\ weights \in Nat
  BY DEF Synchronize, MonitorEndsPause, PauseBegins, BroadcastDone, PauseEnds, TransferEnds,
     UpdateParamVersion, TellWorker, CancelServer, ResumeServer, samples, loops, call, requests,
     QuietInv, WholeInv, TypeOK
<1>2. RowSame(t)
  BY <1>1 DEF RowSame
<1>3. CASE TransferEnds
  <2>1. weights' = weights + 1 /\ phase = "transfer" /\ pc[t] # "generating"
    BY <1>1, <1>3 DEF TransferEnds, QuietTransfer
  <2>2. /\ Tokens(t) = response[t] \o reply[t].ids \/ pc[t] # "answered"
        /\ Tokens(t) = response[t] \/ pc[t] = "answered"
    BY <1>1, <2>1, TokensAtRest
  <2>3. Clear(Tokens(t), weights + 1)
    BY <1>1, ClearLater DEF CallInv
  <2> DEFINE ids == response[t] \o reply[t].ids
  <2>4. /\ pc[t] = "answered" => Clear(ids, weights')
        /\ pc[t] # "answered" => Clear(response[t], weights')
    BY <2>1, <2>2, <2>3
  <2> HIDE DEF ids
  <2>5. /\ pc[t] = "answered" => Clear(ids, weights)'
        /\ pc[t] # "answered" => Clear(response[t], weights)'
    BY <1>1, <2>4 DEF Clear, ids
  <2>6. QED
    BY <1>1, <2>1, <2>5 DEF CallsInv, UpTo, Apart, CallsRun, UncutCall, run, ids
<1>4. CASE \E r \in Servers : CancelServer(r)
  <2>1. PICK r \in Servers : CancelServer(r)
    BY <1>4
  <2>2. /\ UNCHANGED <<weights, phase>> /\ phase = "cancelling"
        /\ server_paused' = [server_paused EXCEPT ![r] = TRUE]
        /\ cancel_event'[t] = IF server[t] = r /\ cancel_event[t] # "none"
                              THEN "set" ELSE cancel_event[t]
    BY <2>1 DEF CancelServer
  <2>3. /\ Shut(server[t]) => Shut(server[t])'
        /\ cancel_event'[t] # cancel_event[t] => Shut(server[t])'
    BY <1>1, <2>2 DEF Shut, TypeOK
  <2>4. QED
    BY <1>1, <2>2, <2>3 DEF CallsInv, UpTo, Clear, Apart, CallsRun, UncutCall, run
<1>5. CASE ~TransferEnds /\ ~\E r \in Servers : CancelServer(r)
  <2>1. /\ UNCHANGED <<weights, cancel_event>>
        /\ Shut(server[t]) => Shut(server[t])'
    <3>1. CASE \E r \in Servers : ResumeServer(r)
      BY <3>1 DEF ResumeServer, Shut, requests
    <3>2. CASE PauseBegins \/ BroadcastDone \/ PauseEnds \/ UpdateParamVersion \/ TellWorker
               \/ MonitorEndsPause
      BY <1>1, <3>2 DEF PauseBegins, BroadcastDone, PauseEnds, UpdateParamVersion, TellWorker,
         MonitorEndsPause, Shut, requests, events
    <3>3. QED
      BY <1>5, <3>1, <3>2 DEF Synchronize
  <2>2. QED
    BY <1>1, <1>2, <2>1, CallsKept
<1>6. QED
  BY <1>3, <1>4, <1>5

(* The invariant behind tool calls that are run.                           *)
THEOREM CallsInvariant == Spec => []AllCalls
<1>1. Init => AllCalls
  <2> SUFFICES ASSUME Init, NEW t \in Trajectories PROVE CallsInv(t)
    BY DEF AllCalls
  <2>1. pc[t] = "idle" /\ ~is_cancel[t] /\ place[t[1]] = "pending"
    BY SampleOfRow DEF Init
  <2>2. QED
    BY <2>1 DEF CallsInv
<1>2. QuietInv /\ WholeInv /\ AllCalls /\ [Next]_vars => AllCalls'
  <2> SUFFICES ASSUME QuietInv, WholeInv, AllCalls, [Next]_vars, loop' = "tool",
                      NEW t \in Trajectories
               PROVE  CallsInv(t)'
    BY DEF AllCalls
  <2>1. TypeOK /\ LoopsHaveTasks /\ DataTypes
    BY DEF QuietInv, WholeInv
  <2>2. UNCHANGED run
    BY DEF Next, vars, Terminated, Synchronize, MonitorEndsPause, PauseBegins, BroadcastDone,
       PauseEnds, TransferEnds, UpdateParamVersion, TellWorker, CancelServer, ResumeServer,
       Submit, TaskEnds, Serve, RequestArrives, GeneratesToken, ServerAnswers, RunLoop, Asks,
       SingleTurnEnds, LoopInterrupted, HandlePending, HandleGenerating, HandleTools
  <2>3. loop = "tool" /\ CallsInv(t)
    BY <2>2 DEF AllCalls, run
  <2>4. CASE Terminated \/ UNCHANGED vars
    <3>1. RowSame(t) /\ UNCHANGED <<run, weights, server, cancel_event, server_paused, phase>>
      BY <2>4 DEF Terminated, vars, rollouter, samples, loops, call, requests, events, RowSame
    <3>2. Shut(server[t]) => Shut(server[t])'
      BY <3>1 DEF Shut
    <3>3. QED
      BY <2>3, <3>1, <3>2, CallsKept
  <2>5. ASSUME NEW u \in Trajectories, Serve(u) \/ ServerAnswers(u) \/ RunLoop(u)
        PROVE  CallsInv(t)'
    <3>1. CASE u = t
      BY <2>1, <2>3, <2>5, <3>1, ServerCalls, LoopCalls
    <3>2. CASE u # t
      <4>1. RowSame(t)
        BY <2>1, <2>5, <3>2, OthersSame
      <4>2. UNCHANGED <<weights, phase, server_paused>> /\ server'[t] = server[t]
            /\ cancel_event'[t] = cancel_event[t]
        <5>1. CASE Serve(u) \/ ServerAnswers(u)
          <6>1. cancel_event \in [Trajectories -> {"none", "clear", "set"}]
            BY <2>1 DEF TypeOK
          <6>2. UNCHANGED <<weights, phase, server_paused, server>>
            BY <5>1 DEF Serve, RequestArrives, GeneratesToken, ServerAnswers, rollouter, events,
               call
          <6>3. cancel_event'[t] = cancel_event[t]
            BY <3>2, <5>1, <6>1 DEF Serve, RequestArrives, GeneratesToken, ServerAnswers,
               requests
          <6>4. QED
            BY <6>2, <6>3
        <5>2. CASE RunLoop(u)
          <6>1. UNCHANGED <<rollouter, requests, events>>
            BY <2>1, <5>2, LoopFrame
          <6>2. server'[t] = server[t]
            BY <2>1, <3>2, <5>2 DEF RunLoop, Asks, SingleTurnEnds, LoopInterrupted,
               HandlePending, HandleGenerating, HandleTools, call, TypeOK
          <6>3. QED
            BY <6>1, <6>2 DEF rollouter, requests, events
        <5>3. QED
          BY <2>5, <5>1, <5>2
      <4>3. Shut(server[t]) => Shut(server[t])'
        BY <4>2 DEF Shut
      <4>4. QED
        BY <2>2, <2>3, <4>1, <4>2, <4>3, CallsKept
    <3>3. QED
      BY <3>1, <3>2
  <2>6. ASSUME NEW s \in Samples, Submit(s) \/ TaskEnds(s) PROVE CallsInv(t)'
    BY <2>1, <2>3, <2>6, SampleCalls
  <2>7. CASE Synchronize \/ MonitorEndsPause
    BY <2>3, <2>7, SynchronizeCalls
  <2>8. QED
    BY <2>4, <2>5, <2>6, <2>7 DEF Next
<1>3. QED
  BY <1>1, <1>2, QuietInvariant, WholeInvariant, PTL DEF Spec

\* What is left of a response is one as well.
LEMMA ChainPrefix ==
    ASSUME NEW a \in SeqOfTokens, NEW b \in SeqOfTokens, NEW v, Chain(a \o b, v)
    PROVE  Chain(a, v)
<1> DEFINE c == a \o b
<1>1. /\ Len(a) \in Nat /\ Len(b) \in Nat /\ Len(c) = Len(a) + Len(b)
      /\ \A i \in 1..Len(a) : c[i] = a[i]
      /\ (a = << >>) <=> (Len(a) = 0)
  BY ConcatFacts
<1>2. /\ \A i \in 1..Len(c) : Fits(c[i]) /\ c[i].version <= v
      /\ c # << >> => c[1].turn = 1 /\ c[1].pos = 1
      /\ \A i \in 1..(Len(c) - 1) :
             Follows(c[i], c[i + 1]) /\ c[i].version <= c[i + 1].version
  BY DEF Chain
<1>3. c = << >> => Len(c) = 0
  OBVIOUS
<1> HIDE DEF c
<1>4. \A i \in 1..Len(a) : Fits(a[i]) /\ a[i].version <= v
  BY <1>1, <1>2
<1>5. a # << >> => a[1].turn = 1 /\ a[1].pos = 1
  BY <1>1, <1>2, <1>3
<1>6. \A i \in 1..(Len(a) - 1) :
          Follows(a[i], a[i + 1]) /\ a[i].version <= a[i + 1].version
  <2> TAKE i \in 1..(Len(a) - 1)
  <2>1. i \in 1..Len(a) /\ i + 1 \in 1..Len(a) /\ i \in 1..(Len(c) - 1)
    BY <1>1
  <2>2. c[i] = a[i] /\ c[i + 1] = a[i + 1]
    BY <1>1, <2>1
  <2>3. QED
    BY <1>2, <2>1, <2>2
<1>7. QED
  BY <1>4, <1>5, <1>6 DEF Chain

(* No token of a response is missing, repeated or out of order, and a      *)
(* delivered one is finished, its tool calls run but for one that a        *)
(* synchronization cut, for any number of servers, rows, interruptions and *)
(* synchronizations and whatever the model says.                           *)
THEOREM ResponsesAreWhole == Spec => []ResponsesWhole
<1>1. QuietInv /\ WholeInv /\ AllCalls => ResponsesWhole
  <2> SUFFICES ASSUME QuietInv, WholeInv, AllCalls, NEW t \in Trajectories
               PROVE  LET ids == response[t]
                      IN  /\ ids # << >> => ids[1].turn = 1 /\ ids[1].pos = 1
                          /\ \A i \in 1..(Len(ids) - 1) :
                                 Follows(ids[i], ids[i + 1])
                                 /\ ids[i].version <= ids[i + 1].version
                          /\ place[t[1]] = "put" =>
                                 /\ ids # << >> /\ Len(ids) <= response_length
                                 /\ Len(ids) = response_length \/ EndsTurn(ids)
                                 /\ CallsRun(ids)
    BY DEF ResponsesWhole
  <2>1. DataTypes /\ Chain(Tokens(t), weights) /\ RowInv(t)
    BY DEF WholeInv, CallInv
  <2>2. Chain(response[t], weights)
    <3>1. /\ response[t] \in SeqOfTokens /\ reply[t].ids \in SeqOfTokens
          /\ req_output[t] \in SeqOfTokens
      BY <2>1, RunTypes
    <3>2. response[t] \o reply[t].ids \in SeqOfTokens
      BY <3>1, ConcatFacts
    <3>3. Chain(response[t] \o reply[t].ids, weights)
      BY <2>1, <3>1, <3>2, ChainPrefix DEF Tokens
    <3>4. QED
      BY <3>1, <3>3, ChainPrefix
  <2>3. place[t[1]] = "put" => Finished(response[t])
    BY <2>1 DEF RowInv, QuietInv, LoopsHaveTasks
  <2>4. place[t[1]] = "put" => CallsRun(response[t])
    BY <2>1 DEF AllCalls, CallsInv, CallsRun, RowInv, QuietInv, LoopsHaveTasks
  <2>5. QED
    BY <2>2, <2>3, <2>4 DEF Chain, Finished
<1>2. QED
  BY <1>1, QuietInvariant, WholeInvariant, CallsInvariant, PTL

(* The labels of a sample bound the versions of its tokens.                *)
THEOREM LabelsHold == Spec => []LabelsBound
<1>1. QuietInv /\ WholeInv => LabelsBound
  <2> SUFFICES ASSUME QuietInv, WholeInv, NEW t \in Trajectories, place[t[1]] = "put"
               PROVE  /\ version_start[t] <= response[t][1].version
                      /\ Last(response[t]).version <= version_end[t] + 1
    BY DEF LabelsBound
  <2>1. DataTypes /\ CallInv(t) /\ RowInv(t) /\ LabelInv(t)
    BY DEF WholeInv
  <2>2. pc[t] = "idle" /\ ~is_cancel[t]
    BY <2>1 DEF RowInv, QuietInv, LoopsHaveTasks
  <2>3. Tokens(t) = response[t] /\ Finished(response[t])
    BY <2>1, <2>2, TokensAtRest DEF RowInv
  <2>4. 1 \in 1..Len(response[t])
    <3>1. response[t] # << >> /\ response[t] \in SeqOfTokens
      BY <2>3 DEF Finished, Chain
    <3>2. QED
      BY <3>1 DEF SeqOfTokens
  <2>5. QED
    BY <2>1, <2>2, <2>3, <2>4 DEF LabelInv
<1>2. QED
  BY <1>1, QuietInvariant, WholeInvariant, PTL
=============================================================================
