--------------------------- MODULE MCSnapshotManager ---------------------------
(* SnapshotManager for TLC: the writers are interchangeable. *)
EXTENDS SnapshotManager, TLC

Symmetry == Permutations(Writers)

================================================================================
