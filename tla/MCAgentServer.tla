---------------------------- MODULE MCAgentServer ----------------------------
(* Small instances of the agent with an arbitrary environment.              *)
EXTENDS AgentServer, TLC

\* Connections are interchangeable.
Symmetry == Permutations(Conns)
=============================================================================
