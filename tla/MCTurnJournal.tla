--------------------------- MODULE MCTurnJournal ---------------------------
(* Instance of TurnJournal for TLC.  Every property checked on it is a      *)
(* safety property, symmetric in the input ids.                             *)
EXTENDS TurnJournal, TLC

Symmetry == Permutations(Inputs)
=============================================================================
