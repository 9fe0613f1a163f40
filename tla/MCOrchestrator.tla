--------------------------- MODULE MCOrchestrator ---------------------------
(* Model-checking instances of Orchestrator.  The main one has two        *)
(* agents, so that a broadcast has a recipient and a skipped sender, three *)
(* messages, two schedule calls and two Start() calls (one Stop/Start      *)
(* cycle).                                                                 *)
EXTENDS Orchestrator

CONSTANTS a1, a2, a3

MCAgentOrder == <<a1, a2>>

(* Three agents, for the larger instance of the channel refinement.       *)
MCAgentOrder3 == <<a1, a2, a3>>

(* One agent, for the runs about a single agent's lifecycle. *)
MCAgentOrder1 == <<a1>>
=============================================================================
