--------------------------- MODULE MCClusterAlloc ---------------------------
(* Two or three files on a table of three or four clusters.                *)
EXTENDS ClusterAlloc, TLC

Symmetry == Permutations(Files)
=============================================================================
