------------------------- MODULE MCAutomationStore -------------------------
(* A gateway and an evolve command on one job id, one-shot and deleted by  *)
(* its run, whose payload takes two values and its schedule one.           *)
EXTENDS AutomationStore

CONSTANTS gateway, evolve, j1, daily, note, call
=============================================================================
