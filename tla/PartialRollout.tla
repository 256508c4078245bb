--------------------------- MODULE PartialRollout ---------------------------
(***************************************************************************)
(* Partial rollout: generations that a parameter synchronization           *)
(* interrupts and that go on afterwards.  From the top: the rollouter's    *)
(* pause() and resume(), the manager's broadcasts to the servers and to    *)
(* the agent loop worker, the agent loops (PartialSingleTurnAgentLoop or   *)
(* AsyncPartialToolAgentLoop) of a sample's rows, and the server's         *)
(* generate_for_partial, cancel and resume.                                *)
(*                                                                         *)
(* The server's lock never makes anybody wait: no section under it awaits. *)
(* A request or a reply may be on its way for any time.  A trajectory asks *)
(* any server: the least-requests choice depends on all requests so far.   *)
(* A token is its turn, its position in the turn and the version of the    *)
(* weights that generated it; position 0 is what a tool answered.          *)
(***************************************************************************)
EXTENDS Naturals, Sequences, SequencesExt

CONSTANTS
    NumSamples, Rows,   \* rollout samples, and rows of each (rollout.n)
    Servers,
    Loops,              \* agent loops: subset of {"single", "tool"}
    Script,             \* turn -> <<kinds of its tokens>>, what the model says
    ResponseLengths,    \* values of rollout.response_length
    MaxSyncs            \* loop -> bound on the number of synchronizations

Samples == 1..NumSamples
Trajectories == Samples \X (1..Rows)
Worker == "worker"
Kinds == {"text", "open", "close"}

ASSUME SizesAssumption ==
    /\ NumSamples \in Nat \ {0} /\ Rows \in Nat \ {0} /\ MaxSyncs \in [Loops -> Nat]
    /\ Servers # {} /\ Worker \notin Servers
    /\ Loops \subseteq {"single", "tool"} /\ ResponseLengths \subseteq Nat \ {0}
ASSUME ScriptAssumption ==
    /\ Script \in Seq(Seq(Kinds)) /\ Script # << >>
    /\ \A i \in DOMAIN Script : Script[i] # << >>

VARIABLES
    loop, response_length,      \* of this run
    paused, phase,              \* the rollouter, and where pause/sync/resume is
    todo,                       \* who has still to get the broadcast
    version, weights, syncs,    \* current_param_version, weights of the servers
    place, label,               \* sample -> its queue, version at submission
    pc,                         \* trajectory -> where its agent loop is
    state,                      \* trajectory -> AgentState
    response,                   \* trajectory -> tokens after the prompt
    is_cancel,                  \* trajectory -> flag of its last output
    version_start, version_end, \* trajectory -> param_version_start and _end
    server, reply,              \* trajectory -> whom it asked, the answer
    server_paused, cancellation_event,
    cancel_event, req_output    \* trajectory -> entries of its server

run == <<loop, response_length>>
rollouter == <<paused, phase, todo, version, weights, syncs>>
samples == <<place, label>>
loops == <<pc, state, response, is_cancel, version_start, version_end>>
call == <<server, reply>>
requests == <<cancel_event, req_output>>
events == <<server_paused, cancellation_event>>
vars == <<run, rollouter, samples, loops, call, requests, events>>

NoReply == [ids |-> << >>, is_cancel |-> FALSE]
RowsOf(s) == {s} \X (1..Rows)

Init ==
    /\ loop \in Loops /\ response_length \in ResponseLengths
    /\ paused = FALSE /\ phase = "serving" /\ todo = {}
    /\ version = 0 /\ weights = 0 /\ syncs = 0
    /\ place = [s \in Samples |-> "pending"] /\ label = [s \in Samples |-> 0]
    /\ pc = [t \in Trajectories |-> "idle"]
    /\ state = [t \in Trajectories |-> "pending"]
    /\ response = [t \in Trajectories |-> << >>]
    /\ is_cancel = [t \in Trajectories |-> FALSE]
    /\ version_start = [t \in Trajectories |-> 0] /\ version_end = [t \in Trajectories |-> 0]
    /\ server \in [Trajectories -> Servers]
    /\ loop = "single" => server = [t \in Trajectories |-> CHOOSE r \in Servers : TRUE]
    /\ reply = [t \in Trajectories |-> NoReply]
    /\ server_paused = [r \in Servers |-> FALSE] /\ cancellation_event = FALSE
    /\ cancel_event = [t \in Trajectories |-> "none"]
    /\ req_output = [t \in Trajectories |-> << >>]

-----------------------------------------------------------------------------
(* What the model says. *)

KindsOf(turn) == IF turn \in DOMAIN Script THEN Script[turn] ELSE <<"text">>

LastTurn(ids) ==
    CASE ids = << >> -> 1
      [] ids # << >> /\ Last(ids).pos = 0 -> Last(ids).turn + 1
      [] OTHER -> Last(ids).turn

NextToken(ids) ==
    [turn |-> LastTurn(ids), version |-> weights,
     pos |-> IF ids = << >> \/ Last(ids).pos = 0 THEN 1 ELSE Last(ids).pos + 1]

EndsTurn(ids) == Last(ids).pos >= Len(KindsOf(Last(ids).turn))

Kind(token) == KindsOf(token.turn)[token.pos]

\* extract_tool_calls: an opening and a later closing marker.
HasToolCall(ids) ==
    \E i, j \in DOMAIN ids :
        i < j /\ ids[i].pos > 0 /\ ids[j].pos > 0
              /\ Kind(ids[i]) = "open" /\ Kind(ids[j]) = "close"

Truncated(ids) == SubSeq(ids, 1, IF Len(ids) < response_length THEN Len(ids) ELSE response_length)

-----------------------------------------------------------------------------
(* The rollouter *)

LockFree == phase \notin {"cancelling", "gathering", "resuming"}

\* Rows that start afresh, and rows to be gone on with.
Fresh(s) == {t \in RowsOf(s) : place[s] = "pending"}
Again(s) == {t \in RowsOf(s) : is_cancel[t]}

LabelsAgain(s) == Fresh(s) \cup Again(s)
StartLabelled(s) == Fresh(s)

\* A task for the sample; rows whose output is complete are not run again.
Submit(s) ==
    /\ ~paused /\ LockFree /\ place[s] \in {"pending", "cancelled"}
    /\ place' = [place EXCEPT ![s] = "active"]
    /\ label' = [label EXCEPT ![s] = version]
    /\ pc' = [t \in Trajectories |-> IF t \in Fresh(s) \cup Again(s) THEN "top" ELSE pc[t]]
    /\ version_start' = [t \in Trajectories |->
           IF t \in StartLabelled(s) THEN version ELSE version_start[t]]
    /\ UNCHANGED <<run, rollouter, state, response, is_cancel, version_end, call, requests,
                   events>>

\* generate_sequences_no_post: any interrupted row interrupts the sample.
PutsOrRequeues(s) ==
    place' = [place EXCEPT ![s] = IF \E t \in RowsOf(s) : is_cancel[t] THEN "cancelled" ELSE "put"]

TaskEnds(s) ==
    /\ place[s] = "active" /\ \A t \in RowsOf(s) : pc[t] = "idle"
    /\ PutsOrRequeues(s)
    /\ UNCHANGED <<run, rollouter, label, loops, call, requests, events>>

PauseBegins ==
    /\ phase = "serving" /\ syncs < MaxSyncs[loop]
    /\ paused' = TRUE /\ syncs' = syncs + 1
    /\ phase' = "cancelling" /\ todo' = Servers \cup {Worker}
    /\ UNCHANGED <<run, version, weights, samples, loops, call, requests, events>>

BroadcastDone ==
    /\ phase \in {"cancelling", "resuming"} /\ todo = {}
    /\ phase' = IF phase = "cancelling" THEN "gathering" ELSE "serving"
    /\ paused' = (phase = "cancelling")
    /\ UNCHANGED <<run, todo, version, weights, syncs, samples, loops, call, requests, events>>

PauseEndsAtOnce ==
    /\ phase = "gathering"
    /\ phase' = "transfer"
    /\ UNCHANGED <<run, paused, todo, version, weights, syncs, samples, loops, call, requests,
                   events>>

PauseEnds ==
    /\ phase = "gathering" /\ \A s \in Samples : place[s] # "active"
    /\ phase' = "transfer"
    /\ UNCHANGED <<run, paused, todo, version, weights, syncs, samples, loops, call, requests,
                   events>>

\* The monitor had decided before the pause and gets the lock after it.
MonitorEndsPause ==
    /\ paused /\ phase \in {"transfer", "update"}
    /\ paused' = FALSE
    /\ UNCHANGED <<run, phase, todo, version, weights, syncs, samples, loops, call, requests,
                   events>>

TransferEnds ==
    /\ phase = "transfer"
    /\ weights' = weights + 1 /\ phase' = "update"
    /\ UNCHANGED <<run, paused, todo, version, syncs, samples, loops, call, requests, events>>

UpdateParamVersion ==
    /\ phase = "update"
    /\ version' = weights
    /\ phase' = "resuming" /\ todo' = Servers \cup {Worker}
    /\ UNCHANGED <<run, paused, weights, syncs, samples, loops, call, requests, events>>

-----------------------------------------------------------------------------
(* The broadcasts of the manager *)

\* cancel() of a server wakes every request it has an event of.
CancelServer(r) ==
    /\ phase = "cancelling" /\ r \in todo
    /\ todo' = todo \ {r}
    /\ server_paused' = [server_paused EXCEPT ![r] = TRUE]
    /\ cancel_event' = [t \in Trajectories |->
           IF server[t] = r /\ cancel_event[t] # "none" THEN "set" ELSE cancel_event[t]]
    /\ UNCHANGED <<run, paused, phase, version, weights, syncs, samples, loops, call,
                   req_output, cancellation_event>>

LeavesPaused(r) ==
    /\ phase = "resuming" /\ r \in todo
    /\ todo' = todo \ {r}
    /\ UNCHANGED <<run, paused, phase, version, weights, syncs, samples, loops, call, requests,
                   events>>

ResumeServer(r) ==
    /\ phase = "resuming" /\ r \in todo
    /\ todo' = todo \ {r}
    /\ server_paused' = [server_paused EXCEPT ![r] = FALSE]
    /\ UNCHANGED <<run, paused, phase, version, weights, syncs, samples, loops, call, requests,
                   cancellation_event>>

\* cancel_agent_loops and resume_agent_loops.
TellWorker ==
    /\ phase \in {"cancelling", "resuming"} /\ Worker \in todo
    /\ todo' = todo \ {Worker}
    /\ cancellation_event' = (phase = "cancelling")
    /\ UNCHANGED <<run, paused, phase, version, weights, syncs, samples, loops, call, requests,
                   server_paused>>

-----------------------------------------------------------------------------
(* generate_for_partial *)

\* A refused request leaves no entries.
RequestArrives(t) ==
    /\ pc[t] = "asking"
    /\ IF server_paused[server[t]]
       THEN /\ reply' = [reply EXCEPT ![t] = [ids |-> << >>, is_cancel |-> TRUE]]
            /\ pc' = [pc EXCEPT ![t] = "answered"]
            /\ UNCHANGED requests
       ELSE /\ req_output' = [req_output EXCEPT ![t] = << >>]
            /\ cancel_event' = [cancel_event EXCEPT ![t] = "clear"]
            /\ pc' = [pc EXCEPT ![t] = "generating"]
            /\ UNCHANGED reply
    /\ UNCHANGED <<run, rollouter, samples, state, response, is_cancel, version_start,
                   version_end, server, events>>

GenerationEnded(t) == req_output[t] # << >> /\ EndsTurn(req_output[t])

\* _generate_step: the engine goes on until it is cancelled or the turn ends.
GeneratesToken(t) ==
    /\ pc[t] = "generating" /\ ~GenerationEnded(t)
    /\ req_output' = [req_output EXCEPT ![t] = Append(@, NextToken(response[t] \o @))]
    /\ UNCHANGED <<run, rollouter, samples, loops, call, cancel_event, events>>

FlagOfEvent(t) == cancel_event[t] = "set"

\* Cancelled only if the generation was not over by then as well.
IsCancel(t) == ~GenerationEnded(t)

\* A request without any token leaves its entries behind.
ServerAnswers(t) ==
    /\ pc[t] = "generating" /\ (GenerationEnded(t) \/ cancel_event[t] = "set")
    /\ reply' = [reply EXCEPT ![t] = [ids |-> req_output[t], is_cancel |-> IsCancel(t)]]
    /\ pc' = [pc EXCEPT ![t] = "answered"]
    /\ IF req_output[t] = << >>
       THEN UNCHANGED requests
       ELSE /\ cancel_event' = [cancel_event EXCEPT ![t] = "none"]
            /\ req_output' = [req_output EXCEPT ![t] = << >>]
    /\ UNCHANGED <<run, rollouter, samples, state, response, is_cancel, version_start,
                   version_end, server, events>>

-----------------------------------------------------------------------------
(* The agent loops *)

\* The loop returns its output to the sample's task.
Returns(t, cancelled, ids) ==
    /\ pc' = [pc EXCEPT ![t] = "idle"]
    /\ is_cancel' = [is_cancel EXCEPT ![t] = cancelled]
    /\ response' = [response EXCEPT ![t] = IF cancelled THEN ids ELSE Truncated(ids)]
    /\ version_end' = [version_end EXCEPT ![t] = label[t[1]]]
    /\ reply' = [reply EXCEPT ![t] = NoReply]

\* A tool loop keeps its request id and with it the server (sticky session).
Asks(t) ==
    /\ pc[t] = "top"
    /\ loop = "tool" => ~cancellation_event /\ state[t] = "generating"
    /\ pc' = [pc EXCEPT ![t] = "asking"]
    /\ \E r \in Servers :
           /\ loop = "tool" => r = server[t]
           /\ server' = [server EXCEPT ![t] = r]
    /\ UNCHANGED <<run, rollouter, samples, state, response, is_cancel, version_start,
                   version_end, reply, requests, events>>

\* PartialSingleTurnAgentLoop.run after the call.
SingleTurnEnds(t) ==
    /\ loop = "single" /\ pc[t] = "answered"
    /\ LET ids == response[t] \o reply[t].ids
       IN  Returns(t, reply[t].is_cancel /\ Len(ids) < response_length, ids)
    /\ UNCHANGED <<run, rollouter, samples, state, version_start, server, requests, events>>

\* _run_state_machine looks at the event before every state.
LoopInterrupted(t) ==
    /\ loop = "tool" /\ pc[t] = "top" /\ cancellation_event
    /\ Returns(t, TRUE, response[t])
    /\ UNCHANGED <<run, rollouter, samples, state, version_start, server, requests, events>>

HandlePending(t) ==
    /\ loop = "tool" /\ pc[t] = "top" /\ ~cancellation_event /\ state[t] = "pending"
    /\ state' = [state EXCEPT ![t] = "generating"]
    /\ UNCHANGED <<run, rollouter, samples, pc, response, is_cancel, version_start, version_end,
                   call, requests, events>>

\* _handle_generating_state_partial after the call.  Tool calls are looked
\* for in the tokens of this call only.
HandleGenerating(t) ==
    /\ loop = "tool" /\ pc[t] = "answered"
    /\ LET ids == response[t] \o reply[t].ids
           full == Len(ids) >= response_length
       IN  IF full \/ (~reply[t].is_cancel /\ ~HasToolCall(reply[t].ids))
           THEN Returns(t, FALSE, ids) /\ UNCHANGED state
           ELSE /\ response' = [response EXCEPT ![t] = ids]
                /\ state' = [state EXCEPT ![t] =
                       IF reply[t].is_cancel THEN "generating" ELSE "tools"]
                /\ pc' = [pc EXCEPT ![t] = "top"]
                /\ reply' = [reply EXCEPT ![t] = NoReply]
                /\ UNCHANGED <<is_cancel, version_end>>
    /\ UNCHANGED <<run, rollouter, samples, version_start, server, requests, events>>

\* _handle_processing_tools_state: the answer is appended if it fits.
HandleTools(t) ==
    /\ loop = "tool" /\ pc[t] = "top" /\ ~cancellation_event /\ state[t] = "tools"
    /\ IF Len(response[t]) + 1 >= response_length
       THEN Returns(t, FALSE, response[t]) /\ UNCHANGED state
       ELSE /\ response' = [response EXCEPT ![t] =
                   Append(@, [turn |-> Last(@).turn, pos |-> 0, version |-> Last(@).version])]
            /\ state' = [state EXCEPT ![t] = "generating"]
            /\ UNCHANGED <<pc, is_cancel, version_end, reply>>
    /\ UNCHANGED <<run, rollouter, samples, version_start, server, requests, events>>

-----------------------------------------------------------------------------
Synchronize ==
    \/ PauseBegins \/ BroadcastDone \/ PauseEnds \/ TransferEnds \/ UpdateParamVersion
    \/ TellWorker \/ \E r \in Servers : CancelServer(r) \/ ResumeServer(r)

Serve(t) == RequestArrives(t) \/ GeneratesToken(t)

RunLoop(t) ==
    \/ Asks(t) \/ SingleTurnEnds(t) \/ LoopInterrupted(t) \/ HandlePending(t)
    \/ HandleGenerating(t) \/ HandleTools(t)

Terminated == (\A s \in Samples : place[s] = "put") /\ phase = "serving" /\ UNCHANGED vars

Next ==
    \/ Synchronize \/ MonitorEndsPause
    \/ \E s \in Samples : Submit(s) \/ TaskEnds(s)
    \/ \E t \in Trajectories : Serve(t) \/ ServerAnswers(t) \/ RunLoop(t)
    \/ Terminated

Spec == Init /\ [][Next]_vars

\* Event loops run what is ready, requests arrive, the engine goes on, and
\* a synchronization that has begun is carried through.  Nothing is assumed
\* of Submit: the processor is not in the module, and it may stop with
\* interrupted samples left over.
Fairness ==
    /\ WF_vars(Synchronize /\ phase # "serving")
    /\ \A s \in Samples : WF_vars(TaskEnds(s))
    /\ \A t \in Trajectories :
           WF_vars(Serve(t)) /\ WF_vars(ServerAnswers(t)) /\ WF_vars(RunLoop(t))

FairSpec == Spec /\ Fairness

-----------------------------------------------------------------------------
TypeOK ==
    /\ phase \in {"serving", "cancelling", "gathering", "transfer", "update", "resuming"}
    /\ todo \subseteq Servers \cup {Worker} /\ weights \in Nat /\ version \in Nat
    /\ place \in [Samples -> {"pending", "active", "cancelled", "put"}]
    /\ label \in [Samples -> Nat]
    /\ pc \in [Trajectories -> {"idle", "top", "asking", "generating", "answered"}]
    /\ state \in [Trajectories -> {"pending", "generating", "tools"}]
    /\ is_cancel \in [Trajectories -> BOOLEAN]
    /\ version_start \in [Trajectories -> Nat] /\ version_end \in [Trajectories -> Nat]
    /\ server \in [Trajectories -> Servers] /\ server_paused \in [Servers -> BOOLEAN]
    /\ cancel_event \in [Trajectories -> {"none", "clear", "set"}]

\* While weights are exchanged no server generates, although requests may
\* arrive late, loops ask again as soon as they are interrupted, and the
\* monitor may have sent new samples meanwhile.
QuietTransfer ==
    phase = "transfer" => \A t \in Trajectories : pc[t] # "generating"

Follows(a, b) ==
    \/ b.turn = a.turn /\ b.pos = a.pos + 1 /\ b.pos <= Len(KindsOf(a.turn))
    \/ b.turn = a.turn /\ b.pos = 0 /\ a.pos = Len(KindsOf(a.turn))
    \/ b.turn = a.turn + 1 /\ b.pos = 1 /\ a.pos = 0

\* A tool call of the last turn, generated by one version as a whole.
UncutCall(ids) ==
    \E i, j \in DOMAIN ids :
        /\ i < j /\ ids[i].turn = Last(ids).turn /\ ids[j].turn = Last(ids).turn
        /\ ids[i].version = Last(ids).version /\ ids[i].pos > 0 /\ ids[j].pos > 0
        /\ Kind(ids[i]) = "open" /\ Kind(ids[j]) = "close"

\* The tool loop ends with a call that was not run only for want of length.
CallsRun(ids) == loop = "tool" /\ UncutCall(ids) => Len(ids) + 1 >= response_length

\* However often a response was interrupted, refused and continued, also by
\* another server, no token of it is missing, repeated or out of order, and
\* its versions never go back.  A finished one has come to the end of a turn
\* or to its length, and its tool calls have been run, but for one that a
\* synchronization cut: the loop looks for calls in the last answer of the
\* server alone, so a call whose markers are in two answers is never run and
\* the response ends without the tool's answer, as no uninterrupted one does.
ResponsesWhole ==
    \A t \in Trajectories :
        LET ids == response[t]
        IN  /\ ids # << >> => ids[1].turn = 1 /\ ids[1].pos = 1
            /\ \A i \in 1..(Len(ids) - 1) :
                   Follows(ids[i], ids[i + 1]) /\ ids[i].version <= ids[i + 1].version
            /\ place[t[1]] = "put" =>
                   /\ ids # << >> /\ Len(ids) <= response_length
                   /\ Len(ids) = response_length \/ EndsTurn(ids)
                   /\ CallsRun(ids)

\* The staleness statistics of the trainer read the labels: the first token
\* is not older than param_version_start, and the last at most one version
\* younger than param_version_end (a sample the monitor let through during
\* a synchronization).
LabelsBound ==
    \A t \in Trajectories : place[t[1]] = "put" =>
        /\ version_start[t] <= response[t][1].version
        /\ Last(response[t]).version <= version_end[t] + 1

\* A task ends, with its sample delivered or interrupted, wherever its rows
\* are when a synchronization comes: asking, refused, generating, answered or
\* between two calls.  The gather of a pause waits for nothing else.
EveryTaskEnds == \A s \in Samples : place[s] = "active" ~> place[s] # "active"
=============================================================================
