------------------------------ MODULE MCBlockCache -----------------------------
(* BlockCache for TLC.  One file: of one block, written again with the same size  *)
(* and deleted, or written again with another size; or of two blocks that do not  *)
(* fit the store together, written again with a longer second one.                *)
EXTENDS BlockCache, TLC

CONSTANT p1

\* Three histories of the file: versions 0 to 2, 4 and 5, 7 and 8.
MCLength == (0 :> 2) @@ (1 :> 2) @@ (2 :> 0) @@ (4 :> 2) @@ (5 :> 1) @@ (7 :> 3) @@ (8 :> 4)

\* A rename of another file onto this one.
MCMoves == {<<{}, {p1}>>}

Symmetry == Permutations(Mutators)

================================================================================
