---------------------------- MODULE MCAgentLoop ----------------------------
(***************************************************************************)
(* Three follow-ups: g lacks an input, f is a step the adapter synthesis   *)
(* may add as well; sessions of three iterations.                          *)
(***************************************************************************)
EXTENDS AgentLoop

CONSTANTS f, g, h
=============================================================================
