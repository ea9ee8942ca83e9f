----------------------------- MODULE MCAgentRun -----------------------------
(* Instances of AgentRun for TLC. *)
EXTENDS AgentRun, TLC

Symmetry == Permutations(Callers) \cup Permutations(Msgs)
=============================================================================
