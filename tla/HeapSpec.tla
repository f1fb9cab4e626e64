------------------------------- MODULE HeapSpec -------------------------------
(***************************************************************************)
(* What a C heap promises the program that calls it, and nothing about how *)
(* the promise is kept.  A live pointer owns an extent: the bytes asked    *)
(* for (asked) and the bytes that may be used (room, what                  *)
(* malloc_usable_size returns).  Extents of different pointers never meet, *)
(* an operation changes the extent of the one pointer it is about, and a   *)
(* pointer dies only when it is released.                                  *)
(*                                                                         *)
(* Both allocators of the repository are shown to implement this           *)
(* specification: NoosMalloc (noos/malloc.c) and PoolMalloc (malloc.c).    *)
(***************************************************************************)
EXTENDS Integers

VARIABLE live   \* the live pointers, each with its extent

(***************************************************************************)
(* The extent of p holds what was asked for and meets no other.            *)
(***************************************************************************)
Placed(extents, p) ==
    /\ 0 <= extents[p].asked
    /\ extents[p].asked <= extents[p].room
    /\ \A q \in DOMAIN extents \ {p} :
          \/ p + extents[p].room <= q
          \/ q + extents[q].room <= p

(***************************************************************************)
(* Pointers other than those of S keep the extents they have.              *)
(***************************************************************************)
KeepsAllBut(S) ==
    /\ DOMAIN live \ S = DOMAIN live' \ S
    /\ \A q \in DOMAIN live \ S : live'[q] = live[q]

Init == live = [p \in {} |-> [asked |-> 0, room |-> 0]]

(***************************************************************************)
(* malloc, calloc, memalign, and the first half of a realloc that moves.   *)
(***************************************************************************)
Allocate(p) ==
    /\ p \notin DOMAIN live
    /\ p \in DOMAIN live'
    /\ KeepsAllBut({p})
    /\ Placed(live', p)

(***************************************************************************)
(* free, and the last half of a realloc that moves.                        *)
(***************************************************************************)
Release(p) ==
    /\ p \in DOMAIN live
    /\ p \notin DOMAIN live'
    /\ KeepsAllBut({p})

(***************************************************************************)
(* realloc where the block stands.                                         *)
(***************************************************************************)
Resize(p) ==
    /\ p \in DOMAIN live
    /\ p \in DOMAIN live'
    /\ KeepsAllBut({p})
    /\ Placed(live', p)

(***************************************************************************)
(* realloc to another place, for an allocator no other thread can watch    *)
(* between taking the new block and releasing the old one.                 *)
(***************************************************************************)
Move(p, q) ==
    /\ p \in DOMAIN live
    /\ p \notin DOMAIN live'
    /\ q \notin DOMAIN live
    /\ q \in DOMAIN live'
    /\ KeepsAllBut({p, q})
    /\ Placed(live', q)

Next ==
    \/ \E p \in DOMAIN live' : Allocate(p)
    \/ \E p \in DOMAIN live : Release(p) \/ Resize(p)
    \/ \E p \in DOMAIN live, q \in DOMAIN live' : Move(p, q)

Spec == Init /\ [][Next]_live

-------------------------------------------------------------------------------

(***************************************************************************)
(* No two live extents share a byte.                                       *)
(***************************************************************************)
ExtentsApart == \A p \in DOMAIN live : Placed(live, p)

===============================================================================
