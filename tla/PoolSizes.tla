------------------------------ MODULE PoolSizes ------------------------------
(***************************************************************************)
(* PoolMalloc for a program whose requests are never near as big as half   *)
(* of all the bytes there are: what malloc(), realloc() and                *)
(* alloc_aligned() add to a size still is a positive long.                 *)
(***************************************************************************)
EXTENDS PoolMalloc

ASSUME SizesAssumption ==
    \A n \in Sizes : \A a \in Alignments \cup {0} :
        n + Extra(a) + LARGE_HDR + PGSIZE <= WORD \div 2
=============================================================================
