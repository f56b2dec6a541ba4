----------------------------- MODULE MCInodeIO -----------------------------
(* InodeIO for TLC: a file that ends in the middle of its third sector.    *)
EXTENDS InodeIO

DataDef(i) == i
=============================================================================
