--------------------------- MODULE MCOrchestrator ---------------------------
(* A small instance of Orchestrator for TLC: MCWebhook's. *)
EXTENDS Orchestrator, MCWebhook
=============================================================================
