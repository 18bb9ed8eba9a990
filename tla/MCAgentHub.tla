------------------------------ MODULE MCAgentHub ------------------------------
(* Instances of AgentHub for TLC.                                            *)
EXTENDS AgentHub

CONSTANTS a1, c1, c2, c3, q1, q2

OneAgent == [c \in Conns |-> a1]
=============================================================================
