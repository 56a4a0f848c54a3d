----------------------------- MODULE MCAgentNode -----------------------------
(* Two sessions; see Agent.cfg. *)
EXTENDS AgentNode
=============================================================================
