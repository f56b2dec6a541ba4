----------------------------- MODULE MCConsole ------------------------------
(* Console for TLC: two printing threads and a reader, two bytes to tell   *)
(* apart, a transmit queue of two places and an input queue of one.        *)
EXTENDS Console
=============================================================================
