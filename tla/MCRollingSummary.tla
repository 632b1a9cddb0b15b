-------------------------- MODULE MCRollingSummary --------------------------
(* Small instances of RollingSummary. *)
EXTENDS RollingSummary, TLC

AnyTask == Permutations(Task)
=============================================================================
