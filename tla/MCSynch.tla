------------------------------- MODULE MCSynch -------------------------------
(* Synch for TLC.  Main, the idle thread and two more threads compete for  *)
(* one lock, one semaphore and the tid lock; the device also ups the       *)
(* semaphore.                                                              *)
EXTENDS Synch, TLC

Symmetry == Permutations(Page)
=============================================================================
