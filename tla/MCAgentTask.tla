----------------------------- MODULE MCAgentTask ------------------------------
(* Instance of AgentTask for TLC *)
EXTENDS AgentTask, TLC

Symmetry == Permutations(Tasks) \cup Permutations(Calls)
================================================================================
