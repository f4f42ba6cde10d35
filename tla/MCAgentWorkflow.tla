---------------------------- MODULE MCAgentWorkflow ----------------------------
(* Instances of AgentWorkflow for TLC. *)
EXTENDS AgentWorkflow, TLC

AgentSymmetry == Permutations(Threads)
=============================================================================
