---------------------------- MODULE MCAgentSystem ----------------------------
(* Small instances of the agent with its clients.                           *)
EXTENDS AgentSystem
=============================================================================
