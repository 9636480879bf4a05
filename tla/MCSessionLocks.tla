--------------------------- MODULE MCSessionLocks ---------------------------
(* Instance of SessionLocks for TLC.                                        *)
EXTENDS SessionLocks
=============================================================================
