---------------------------- MODULE MCJournalLog ----------------------------
(* Instance of JournalLog for TLC.  Input ids and operation ids are only    *)
(* compared, so permuting them changes nothing; the refinement is a safety  *)
(* property, for which the reduction is sound.                              *)
EXTENDS JournalLog, TLC

Symmetry == Permutations(Inputs) \cup Permutations(Ops)
=============================================================================
