---------------------------- MODULE MCAgentNode ----------------------------
(* One joiner and two controllers; one flow; a UDP and a TCP listener.     *)
EXTENDS AgentNode
=============================================================================
