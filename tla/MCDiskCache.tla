------------------------------ MODULE MCDiskCache ------------------------------
(* DiskCache for TLC: blocks of the same size, interchangeable tasks. *)
EXTENDS DiskCache, TLC

MCSize == [k \in Keys |-> 1]

Symmetry == Permutations(Tasks)

================================================================================
