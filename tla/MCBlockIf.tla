----------------------------- MODULE MCBlockIf ------------------------------
(* Small instances of BlockIf for TLC: extents that can follow one another, *)
(* overlap, be empty, and end at the same offset.                           *)
EXTENDS BlockIf

MCOffsets == 0 .. 2
MCLens    == {0, 1, 2}
MCOffMax  == 9

Symmetry == Permutations(Reqs)
=============================================================================
