----------------------------- MODULE MCAgentCycle -----------------------------
(* The agents' cycles on the small instances. *)
EXTENDS AgentCycle, AgentInstances
=============================================================================
