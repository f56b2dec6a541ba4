----------------------------- MODULE MCFileSys -----------------------------
(* FileSys for TLC: three sectors beside the reserved ones.                *)
EXTENDS FileSys, TLC

Symmetry == Permutations(Name) \cup Permutations(File)
=============================================================================
