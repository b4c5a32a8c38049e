--------------------------- MODULE MCAgentServices ---------------------------
(* The agent's services on a short chain. *)
EXTENDS AgentServices, ServiceInstances
=============================================================================
