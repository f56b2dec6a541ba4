------------------------------- MODULE MCIntq -------------------------------
(* Intq for TLC: a ring of three cells, which holds two bytes.             *)
EXTENDS Intq
=============================================================================
