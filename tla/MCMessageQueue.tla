--------------------------- MODULE MCMessageQueue ---------------------------
(* A TLC instance of MessageQueue: four payloads through a queue of two    *)
(* slots, so that eviction happens twice, and two competing getters.       *)
EXTENDS MessageQueue
=============================================================================
