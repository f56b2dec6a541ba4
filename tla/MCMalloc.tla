------------------------------ MODULE MCMalloc ------------------------------
(* Malloc for TLC: two threads and two pages of 14 bytes.  Descriptors of  *)
(* 3-byte blocks (two to an arena) and of 6-byte blocks (one).  11 bytes   *)
(* take both pages; 30 ask for three, one more than there are; 61 and an   *)
(* arena header wrap around at 64; for 48 the rounding up to pages does.   *)
(* 5 * 16 wraps to 16 and passes calloc()'s test.                          *)
EXTENDS Malloc, TLC

Sizes == {0, 3, 11, 30, 48, 61}
CallocArgs == {<<2, 3>>, <<5, 16>>}
Symmetry == Permutations(Thread)
=============================================================================
