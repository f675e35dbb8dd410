----------------------------- MODULE MCTableCommit -----------------------------
(* TableCommit for TLC: partitions are interchangeable, and so are committers  *)
(* with callbacks and committers without.                                      *)
EXTENDS CommitRefinement, TLC

Symmetry == Permutations(Callbacks) \cup Permutations(Committers \ Callbacks) \cup Permutations(Partitions)

================================================================================
