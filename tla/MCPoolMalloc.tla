---------------------------- MODULE MCPoolMalloc ----------------------------
(***************************************************************************)
(* PoolMalloc on a few small pages.  The unit is a 4-byte word, so ALIGN,  *)
(* LONG, HDR and LARGE_HDR are those of the 32-bit target; pages, pools,   *)
(* struct mset and the thresholds are scaled down together.                *)
(***************************************************************************)
EXTENDS PoolSizes, TLC

\* The kernel of the device, and one that can resize no mapping.
Able  == {"mmap", "grow", "shrink"}
Fixed == {"mmap"}

AbleOrFixed == {Able, Fixed}
=============================================================================
