------------------------------ MODULE MCQuota ------------------------------
(* Small instances of Quota. *)
EXTENDS Quota, TLC

\* The requests are interchangeable.
Symmetry == Permutations(Request)
=============================================================================
