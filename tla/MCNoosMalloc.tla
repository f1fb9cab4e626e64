---------------------------- MODULE MCNoosMalloc ----------------------------
(***************************************************************************)
(* NoosMalloc on a small heap.  The unit is a 4-byte word, so the source's *)
(* constants on the 32-bit target are MALLOC_ALIGN = 2, HEADER = 2 and     *)
(* MIN_CHUNK = 4.                                                          *)
(***************************************************************************)
EXTENDS NoosMalloc, TLC

Symmetry == Permutations(Threads)
=============================================================================
