---------------------------- MODULE MCAgentWorks ----------------------------
(* Instances of AgentWorks for TLC.  The Agents are interchangeable.       *)
EXTENDS AgentWorks, TLC

AgentSymmetry == Permutations(Agents)
=============================================================================
