--------------------------- MODULE MCAppendIngest ---------------------------
(* Small instances of AppendIngest for TLC. *)
EXTENDS AppendIngest, FiniteSets, TLC

Symmetry == Permutations(Runs) \cup Permutations(Keys)

\* Bound: where a lock was lost, the run that lost it and one more.
TwoRunsOverlap == faults > MaxFaults => Cardinality({r \in Runs : pc[r] # "new"}) <= 2
=============================================================================
