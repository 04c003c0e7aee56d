---------------------------- MODULE MCMergeIngest ----------------------------
(* Small instances of MergeIngest for TLC. *)
EXTENDS MergeIngest, TLC

Symmetry == Permutations(Runs) \cup Permutations(Keys)
=============================================================================
