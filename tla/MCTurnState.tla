---------------------------- MODULE MCTurnState ----------------------------
(* Small instances of TurnState. *)
EXTENDS TurnState, TLC

\* Nothing tells one tool call from another but being the same.
Symmetry == Permutations(Key)
=============================================================================
