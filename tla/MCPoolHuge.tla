----------------------------- MODULE MCPoolHuge -----------------------------
(***************************************************************************)
(* PoolMalloc for a program that asks for next to all the bytes there are. *)
(***************************************************************************)
EXTENDS PoolMalloc

AbleAlways == {{"mmap", "grow", "shrink"}}
=============================================================================
