---------------------------- MODULE MCFileCursor ----------------------------
(* A file of up to three clusters of two bytes.                            *)
EXTENDS FileCursor, TLC

Symmetry == Permutations(Values)
=============================================================================
