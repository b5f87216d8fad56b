-------------------------- MODULE MCConversationMemory --------------------------
(* ConversationMemory for TLC, and what its own error says. *)
EXTENDS ConversationMemory

CONSTANTS q1, q2, q3, q4

\* What the ConversationBusyError of conversation_memory.py:34 says, "A second request
\* cannot append while a conversation turn is running": when a request is turned away
\* there is a turn running.
BusyMeansRunning ==
  [][\A r \in Requests : pc[r] # "busy" /\ pc'[r] = "busy" =>
       \E s \in Requests : pc[s] \in Claimed]_vars
================================================================================
