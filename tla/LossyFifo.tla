----------------------------- MODULE LossyFifo -----------------------------
(***************************************************************************)
(* What a user of the rollouter/trainer message queue may rely on: a FIFO  *)
(* buffer of bounded capacity that never blocks a sender.  When it is full *)
(* the OLDEST message gives way.  Every message is received at most once,  *)
(* and what is lost was lost before anything newer than it was received.   *)
(*                                                                         *)
(* Both the queue actor (MessageQueue) and the composed training pipeline  *)
(* (FullyAsync) are shown to implement this specification.                 *)
(***************************************************************************)
EXTENDS Naturals, Sequences, Functions

CONSTANTS
    Messages,       \* everything that may ever be sent, each at most once
    Capacity        \* max_queue_size

VARIABLES
    buffer,         \* messages sent and neither received nor lost, oldest first
    received,       \* messages handed to a receiver
    lost            \* messages evicted by a newer one, or flushed

fifoVars == <<buffer, received, lost>>

Known == Range(buffer) \cup received \cup lost

FifoInit ==
    /\ buffer = << >>
    /\ received = {}
    /\ lost = {}

Send(m) ==
    /\ m \notin Known
    /\ \/ /\ Len(buffer) < Capacity
          /\ buffer' = Append(buffer, m)
          /\ UNCHANGED lost
       \/ /\ Len(buffer) = Capacity
          /\ buffer' = Append(Tail(buffer), m)
          /\ lost' = lost \cup {Head(buffer)}
    /\ UNCHANGED received

Receive ==
    /\ buffer # << >>
    /\ buffer' = Tail(buffer)
    /\ received' = received \cup {Head(buffer)}
    /\ UNCHANGED lost

Flush ==
    /\ buffer' = << >>
    /\ lost' = lost \cup Range(buffer)
    /\ UNCHANGED received

FifoNext ==
    \/ \E m \in Messages : Send(m)
    \/ Receive
    \/ Flush

FifoSpec == FifoInit /\ [][FifoNext]_fifoVars
=============================================================================
