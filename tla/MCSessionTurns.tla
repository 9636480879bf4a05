--------------------------- MODULE MCSessionTurns ---------------------------
(* Instances of SessionTurns for TLC.  Deliveries and inputs are            *)
(* interchangeable; the reduction is used in the safety runs only.          *)
EXTENDS SessionTurns, TLC

Symmetry == Permutations(Tasks) \cup Permutations(Inputs)
=============================================================================
