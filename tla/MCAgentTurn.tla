---------------------------- MODULE MCAgentTurn ----------------------------
(* AgentTurn on a small instance: every limit of the loop is cut down.      *)
EXTENDS AgentTurn

=============================================================================
