----------------------------- MODULE MCVforkHeap -----------------------------
(***************************************************************************)
(* VforkHeap on three small pages, in words of four bytes: ALIGN, LONG and *)
(* HDR are those of the 32-bit target, pages, pools and struct mset are    *)
(* scaled down together.                                                   *)
(***************************************************************************)
EXTENDS VforkHeap
===============================================================================
