--------------------------- MODULE MCOrchestrator ---------------------------
(***************************************************************************)
(* Model checking of Orchestrator: up to three sub-tasks.                  *)
(***************************************************************************)
EXTENDS Orchestrator
=============================================================================
