------------------------- MODULE MCAutomationTimer -------------------------
(* One-shots and a recurring job in the file, and one that a command adds. *)
EXTENDS AutomationTimer

CONSTANTS remind, report, alarm
=============================================================================
