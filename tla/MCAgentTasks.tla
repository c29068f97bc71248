---------------------------- MODULE MCAgentTasks ----------------------------
(***************************************************************************)
(* Instances of AgentTasks for TLC.  One task and two transfers: a second  *)
(* transfer is a second payment of the task.                               *)
(***************************************************************************)
EXTENDS AgentTasks
=============================================================================
