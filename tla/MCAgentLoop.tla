----------------------------- MODULE MCAgentLoop ----------------------------
(* Small instance of AgentLoop.                                            *)
EXTENDS AgentLoop
=============================================================================
