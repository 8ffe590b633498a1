-------------------------- MODULE MCAgentRuntime ---------------------------
(***************************************************************************)
(* AgentRuntime for TLC: its constants are numbers, given in the .cfg.     *)
(***************************************************************************)
EXTENDS AgentRuntime
=============================================================================
