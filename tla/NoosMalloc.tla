------------------------------ MODULE NoosMalloc ------------------------------
(***************************************************************************)
(* The allocator of the no-OS build, noos/malloc.c: one heap grown through *)
(* _sbrk, a free list kept sorted by address, first fit, and neighbours    *)
(* merged on free.                                                         *)
(*                                                                         *)
(* __malloc_lock and __malloc_unlock bracket every change of the free      *)
(* list, so each bracketed section is one action here.  A realloc that has *)
(* to move its block is three such sections with other threads free to run *)
(* between them: the failed attempt to resize in place, malloc, free.      *)
(* Their interleavings are what the variable moves is for.                 *)
(*                                                                         *)
(* Addresses and sizes are natural numbers of one unit.  The unit is the   *)
(* model's choice; MALLOC_ALIGN, HEADER and MIN_CHUNK are the source's     *)
(* values in that unit.                                                    *)
(***************************************************************************)
EXTENDS Integers

CONSTANTS
    Threads,        \* who may be in the middle of a realloc
    Sizes,          \* the byte counts asked for
    Alignments,     \* what memalign is called with; MALLOC_ALIGN is malloc
    ForeignMoves,   \* how far other users of _sbrk push the break
    MALLOC_ALIGN,   \* alignment of every payload
    HEADER,         \* the two words before the payload
    MIN_CHUNK,      \* the smallest chunk: header and list link, rounded up
    SIZE_MAX,       \* the largest size_t
    HEAP_START,     \* where the break is before the first call
    HEAP_END        \* _sbrk fails beyond this address

ASSUME NoosMallocAssumption ==
    /\ MALLOC_ALIGN \in Nat \ {0}
    /\ HEADER \in Nat \ {0}
    /\ HEADER % MALLOC_ALIGN = 0          \* the _Static_assert of the source
    /\ MIN_CHUNK \in Nat
    /\ MIN_CHUNK > HEADER
    /\ MIN_CHUNK % MALLOC_ALIGN = 0
    /\ SIZE_MAX \in Nat
    /\ HEAP_START \in Nat
    /\ HEAP_END \in Nat
    /\ HEAP_START <= HEAP_END
    /\ Sizes \subseteq Nat
    /\ MALLOC_ALIGN \in Alignments
    /\ \A a \in Alignments : a \in Nat \ {0} /\ a % MALLOC_ALIGN = 0
    /\ ForeignMoves \subseteq Nat \ {0}

VARIABLES
    heap,       \* the chunks: heap.size maps the address of each to its size
                \* word, heap.free is the set of those on the free list (the
                \* list is sorted, so the set determines it)
    brk,        \* the break, sbrk(0)
    blocks,     \* the live pointers: the chunk each is in and the bytes asked
    moves,      \* thread -> the realloc it is moving a block for, or Idle
    outside     \* history: units below the break that were never the heap's

vars == <<heap, brk, blocks, moves, outside>>

NULL == 0
Idle == [p |-> NULL, n |-> 0, q |-> NULL]

-------------------------------------------------------------------------------
(***************************************************************************)
(* Arithmetic of sizes and addresses.                                      *)
(***************************************************************************)

\* ROUND_UP and the (-brk) & (MALLOC_ALIGN - 1) of heap_grow: how far n is
\* from the next multiple of a.
PadTo(n, a) == (-n) % a
RoundUp(n, a) == n + PadTo(n, a)

\* chunk_size_for: 0 stands for "cannot be represented".
ChunkSizeFor(n) ==
    IF n > SIZE_MAX \div 2
      THEN 0
      ELSE LET size == RoundUp(n + HEADER, MALLOC_ALIGN)
           IN  IF size < MIN_CHUNK THEN MIN_CHUNK ELSE size

ChunkEnd(h, c) == c + h.size[c]

-------------------------------------------------------------------------------
(***************************************************************************)
(* The free list.  Next and Before are where the walk of release() stops.  *)
(***************************************************************************)

IsNext(h, x, c) ==
    x \in h.free /\ c < x /\ \A y \in h.free : c < y => x <= y

IsBefore(h, x, c) ==
    x \in h.free /\ x < c /\ \A y \in h.free : y < c => y <= x

NextMerged(h, c) == {x \in h.free : IsNext(h, x, c) /\ ChunkEnd(h, c) = x}
BeforeMerged(h, c) == {x \in h.free : IsBefore(h, x, c) /\ ChunkEnd(h, x) = c}

\* Fault: the chunk is linked in, its neighbours are left as they are.
ReleaseUnmerged(h, c) == [h EXCEPT !.free = @ \cup {c}]

\* Fault: the following chunk's bytes are added but it stays on the list.
ReleaseKeepsNext(h, c) ==
    LET next == NextMerged(h, c)
        size == h.size[c] + (IF next = {} THEN 0 ELSE h.size[ChunkEnd(h, c)])
    IN  [size |-> [h.size EXCEPT ![c] = size], free |-> h.free \cup {c}]

\* release(): put chunk c on the list, merged with the neighbours that are
\* free.  The early return of a chunk that is on the list already is for
\* callers that free twice; no caller here does.
Release(h, c) ==
    LET next   == NextMerged(h, c)
        before == BeforeMerged(h, c)
        end    == IF next = {} THEN ChunkEnd(h, c)
                               ELSE ChunkEnd(h, ChunkEnd(h, c))
        start  == IF before = {} THEN c ELSE CHOOSE x \in before : TRUE
        merged == next \cup (IF before = {} THEN {} ELSE {c})
    IN  [size |-> [x \in DOMAIN h.size \ merged |->
                      IF x = start THEN end - start ELSE h.size[x]],
         free |-> (h.free \ next) \cup {start}]

\* Cut chunk c of heap h into a front of `size` and a chunk after it.
Split(h, c, size) ==
    [h EXCEPT !.size = [x \in DOMAIN h.size \cup {c + size} |->
                           CASE x = c        -> size
                             [] x = c + size -> h.size[c] - size
                             [] OTHER        -> h.size[x]]]

\* Fault: what is left is cut off even when it is nothing at all.
TrimToNothing(h, c, size) == Release(Split(h, c, size), c + size)

\* Fault: what is left is cut off and nobody keeps it.
TrimDrops(h, c, size) == [h EXCEPT !.size[c] = size]

\* trim(): give back what chunk c has beyond `size`, if that is a chunk.
Trim(h, c, size) ==
    IF h.size[c] - size < MIN_CHUNK
      THEN h
      ELSE Release(Split(h, c, size), c + size)

-------------------------------------------------------------------------------
(***************************************************************************)
(* Taking a chunk: the locked section of malloc().                         *)
(***************************************************************************)

Fits(c, size) == c \in heap.free /\ heap.size[c] >= size
FirstFit(c, size) == Fits(c, size) /\ \A x \in heap.free : Fits(x, size) => c <= x
NoneFits(size) == \A x \in heap.free : ~Fits(x, size)

SbrkSucceeds(n) == brk + n <= HEAP_END

\* The highest free chunk, if it ends right at the break.
TopAtBreak(c) ==
    /\ c \in heap.free
    /\ \A x \in heap.free : x <= c
    /\ ChunkEnd(heap, c) = brk

\* First fit; a remainder that is a chunk takes the chunk's place.
TakeFit(c, size) ==
    /\ FirstFit(c, size)
    /\ IF heap.size[c] - size >= MIN_CHUNK
         THEN LET h == Split(heap, c, size)
              IN  heap' = [h EXCEPT !.free = (@ \ {c}) \cup {c + size}]
         ELSE heap' = [heap EXCEPT !.free = @ \ {c}]
    /\ UNCHANGED <<brk, outside>>

\* Fault: the chunk handed out is not unlinked from the list.
TakeTopStillListed(c, size) ==
    /\ NoneFits(size)
    /\ TopAtBreak(c)
    /\ SbrkSucceeds(size - heap.size[c])
    /\ heap' = [heap EXCEPT !.size[c] = size]
    /\ brk' = brk + (size - heap.size[c])
    /\ UNCHANGED outside

\* heap_grow(), the last free chunk extended.
TakeTop(c, size) ==
    /\ NoneFits(size)
    /\ TopAtBreak(c)
    /\ SbrkSucceeds(size - heap.size[c])
    /\ heap' = [size |-> [heap.size EXCEPT ![c] = size], free |-> heap.free \ {c}]
    /\ brk' = brk + (size - heap.size[c])
    /\ UNCHANGED outside

\* What heap_grow() asks for beyond the chunk, to align it.
BrkPad == PadTo(brk, MALLOC_ALIGN)

\* heap_grow(), a chunk of its own past the break.
TakeBreak(c, size) ==
    /\ NoneFits(size)
    /\ \A x \in heap.free : ~TopAtBreak(x)
    /\ SbrkSucceeds(BrkPad + size)
    /\ c = brk + BrkPad
    /\ heap' = [heap EXCEPT !.size = [x \in DOMAIN heap.size \cup {c} |->
                                         IF x = c THEN size ELSE heap.size[x]]]
    /\ brk' = brk + BrkPad + size
    /\ outside' = outside \cup (brk .. c - 1)

Candidates == heap.free \cup {brk + BrkPad}

Take(c, size) == TakeFit(c, size) \/ TakeTop(c, size) \/ TakeBreak(c, size)

\* malloc() returns NULL for a request of this many bytes.
CannotTake(size) ==
    \/ size = 0
    \/ /\ NoneFits(size)
       /\ \A x \in heap.free : TopAtBreak(x) => ~SbrkSucceeds(size - heap.size[x])
       /\ (\A x \in heap.free : ~TopAtBreak(x)) => ~SbrkSucceeds(BrkPad + size)

WithBlock(p, c, n) ==
    [x \in DOMAIN blocks \cup {p} |->
        IF x = p THEN [chunk |-> c, asked |-> n] ELSE blocks[x]]
WithoutBlock(p) == [x \in DOMAIN blocks \ {p} |-> blocks[x]]

Moving(p) == \E t \in Threads : moves[t].p = p \/ moves[t].q = p

-------------------------------------------------------------------------------
(***************************************************************************)
(* The operations.                                                         *)
(***************************************************************************)

Init ==
    /\ heap = [size |-> [c \in {} |-> 0], free |-> {}]
    /\ brk = HEAP_START
    /\ blocks = [p \in {} |-> [chunk |-> 0, asked |-> 0]]
    /\ moves = [t \in Threads |-> Idle]
    /\ outside = {}

\* Fault: memalign asks for room for the worst misalignment of another rule.
MemalignShort(a, n) ==
    LET size == ChunkSizeFor(n)
    IN  /\ size # 0
        /\ \E c \in Candidates :
              /\ Take(c, size)
              /\ blocks' = WithBlock(RoundUp(c + HEADER, a), c, n)
        /\ UNCHANGED moves

\* malloc(n) when a is MALLOC_ALIGN, memalign(a, n) when it is more: ask for
\* enough to align inside, and hand out the first aligned address.  Whether
\* the offset word before it is 0 is whether it is the chunk's own payload.
Memalign(a, n) ==
    LET size == ChunkSizeFor(n + a - MALLOC_ALIGN)
    IN  /\ size # 0
        /\ \E c \in Candidates :
              /\ Take(c, size)
              /\ blocks' = WithBlock(RoundUp(c + HEADER, a), c, n)
        /\ UNCHANGED moves

\* free(p), of a block no realloc is at work on.
Free(p) ==
    /\ ~Moving(p)
    /\ heap' = Release(heap, blocks[p].chunk)
    /\ blocks' = WithoutBlock(p)
    /\ UNCHANGED <<brk, moves, outside>>

(***************************************************************************)
(* realloc(p, n).  The locked section resizes the chunk where it stands if *)
(* it can: it is long enough, or the chunk after it is free and makes it   *)
(* so, or it is the last thing before the break and the break moves.       *)
(***************************************************************************)

IsPlain(p) == p = blocks[p].chunk + HEADER

\* Chunk c with the free chunk right after it taken in.
Absorbed(c) ==
    LET f == ChunkEnd(heap, c)
    IN  [size |-> [x \in DOMAIN heap.size \ {f} |->
                      IF x = c THEN heap.size[c] + heap.size[f] ELSE heap.size[x]],
         free |-> heap.free \ {f}]

CanAbsorb(c, size) ==
    /\ ChunkEnd(heap, c) \in heap.free
    /\ heap.size[c] + heap.size[ChunkEnd(heap, c)] >= size

\* Fault: any chunk after the last free one is taken to end at the break.
CanExtendAnywhere(c, size) ==
    /\ \A f \in heap.free : f < ChunkEnd(heap, c)
    /\ SbrkSucceeds(size - heap.size[c])

CanExtend(c, size) ==
    /\ \A f \in heap.free : f < ChunkEnd(heap, c)
    /\ ChunkEnd(heap, c) = brk
    /\ SbrkSucceeds(size - heap.size[c])

Resized(p, n) == blocks' = [blocks EXCEPT ![p].asked = n]

\* The chunk is long enough as it is; the excess is given back.
ReallocShrink(p, n) ==
    LET c == blocks[p].chunk
        size == ChunkSizeFor(n)
    IN  /\ ~Moving(p) /\ IsPlain(p) /\ n # 0 /\ size # 0
        /\ heap.size[c] >= size
        /\ heap' = Trim(heap, c, size)
        /\ Resized(p, n)
        /\ UNCHANGED <<brk, moves, outside>>

ReallocAbsorb(p, n) ==
    LET c == blocks[p].chunk
        size == ChunkSizeFor(n)
    IN  /\ ~Moving(p) /\ IsPlain(p) /\ n # 0 /\ size # 0
        /\ heap.size[c] < size
        /\ CanAbsorb(c, size)
        /\ heap' = Trim(Absorbed(c), c, size)
        /\ Resized(p, n)
        /\ UNCHANGED <<brk, moves, outside>>

ReallocExtend(p, n) ==
    LET c == blocks[p].chunk
        size == ChunkSizeFor(n)
    IN  /\ ~Moving(p) /\ IsPlain(p) /\ n # 0 /\ size # 0
        /\ heap.size[c] < size
        /\ CanExtend(c, size)
        /\ heap' = [heap EXCEPT !.size[c] = size]
        /\ brk' = brk + (size - heap.size[c])
        /\ Resized(p, n)
        /\ UNCHANGED <<moves, outside>>

\* Fault: the old block is given back before the new one is asked for.
ReallocFreesFirst(t, p, n) ==
    LET c == blocks[p].chunk
        size == ChunkSizeFor(n)
    IN  /\ moves[t] = Idle
        /\ ~Moving(p) /\ n # 0 /\ size # 0
        /\ heap' = Release(heap, c)
        /\ blocks' = WithoutBlock(p)
        /\ moves' = [moves EXCEPT ![t] = [p |-> p, n |-> n, q |-> NULL]]
        /\ UNCHANGED <<brk, outside>>

\* Neither helps, or the block came from memalign: unlock and go on to move.
ReallocMustMove(t, p, n) ==
    LET c == blocks[p].chunk
        size == ChunkSizeFor(n)
    IN  /\ moves[t] = Idle
        /\ ~Moving(p) /\ n # 0 /\ size # 0
        /\ IsPlain(p) =>
              /\ heap.size[c] < size
              /\ ~CanAbsorb(c, size)
              /\ ~CanExtend(c, size)
        /\ moves' = [moves EXCEPT ![t] = [p |-> p, n |-> n, q |-> NULL]]
        /\ UNCHANGED <<heap, brk, blocks, outside>>

Copying(t) == moves[t].p # NULL /\ moves[t].q # NULL
Asking(t) == moves[t].p # NULL /\ moves[t].q = NULL

\* The malloc(n) of a moving realloc; what follows copies into q.
ReallocAllocate(t) ==
    LET n == moves[t].n
    IN  /\ Asking(t)
        /\ \E c \in Candidates :
              /\ ChunkSizeFor(n) # 0
              /\ Take(c, ChunkSizeFor(n))
              /\ blocks' = WithBlock(c + HEADER, c, n)
              /\ moves' = [moves EXCEPT ![t].q = c + HEADER]

\* That malloc(n) returns NULL, and so does realloc: p stays as it was.
ReallocGivesUp(t) ==
    /\ Asking(t)
    /\ CannotTake(ChunkSizeFor(moves[t].n))
    /\ moves' = [moves EXCEPT ![t] = Idle]
    /\ UNCHANGED <<heap, brk, blocks, outside>>

\* The free(p) of a moving realloc, which then returns q.
ReallocRelease(t) ==
    /\ Copying(t)
    /\ heap' = Release(heap, blocks[moves[t].p].chunk)
    /\ blocks' = WithoutBlock(moves[t].p)
    /\ moves' = [moves EXCEPT ![t] = Idle]
    /\ UNCHANGED <<brk, outside>>

\* _sbrk is the embedding program's, which may use it for more than this heap.
ForeignSbrk(n) ==
    /\ SbrkSucceeds(n)
    /\ brk' = brk + n
    /\ outside' = outside \cup (brk .. brk + n - 1)
    /\ UNCHANGED <<heap, blocks, moves>>

Next ==
    \/ \E a \in Alignments, n \in Sizes : Memalign(a, n)
    \/ \E p \in DOMAIN blocks : Free(p)
    \/ \E p \in DOMAIN blocks, n \in Sizes : ReallocShrink(p, n)
    \/ \E p \in DOMAIN blocks, n \in Sizes : ReallocAbsorb(p, n)
    \/ \E p \in DOMAIN blocks, n \in Sizes : ReallocExtend(p, n)
    \/ \E t \in Threads, p \in DOMAIN blocks, n \in Sizes : ReallocMustMove(t, p, n)
    \/ \E t \in Threads : ReallocAllocate(t)
    \/ \E t \in Threads : ReallocGivesUp(t)
    \/ \E t \in Threads : ReallocRelease(t)
    \/ \E n \in ForeignMoves : ForeignSbrk(n)

Spec == Init /\ [][Next]_vars

-------------------------------------------------------------------------------
(***************************************************************************)
(* Properties.                                                             *)
(***************************************************************************)

Chunks == DOMAIN heap.size
Used == Chunks \ heap.free
Room(p) == ChunkEnd(heap, blocks[p].chunk) - p

\* The state is made of the values the code's variables can hold.
TypeOK ==
    /\ heap = [size |-> heap.size, free |-> heap.free]
    /\ heap.size = [c \in Chunks |-> heap.size[c]]
    /\ Chunks \subseteq Nat
    /\ \A c \in Chunks : heap.size[c] \in Nat \ {0}
    /\ heap.free \subseteq Chunks
    /\ brk \in Nat
    /\ blocks = [p \in DOMAIN blocks |-> blocks[p]]
    /\ DOMAIN blocks \subseteq Nat \ {NULL}
    /\ \A p \in DOMAIN blocks : blocks[p] \in [chunk : Nat, asked : Nat]
    /\ moves \in [Threads -> [p : Nat, n : Nat, q : Nat]]

\* No two chunks share a byte, whether free or in use, and none reaches past
\* the break: split, merge, trim and growth keep the size words consistent
\* with each other (release, trim, heap_grow, the absorb of realloc).
ChunksApart ==
    /\ \A c, d \in Chunks : c < d => ChunkEnd(heap, c) <= d
    /\ \A c \in Chunks : ChunkEnd(heap, c) <= brk

\* A free chunk never ends where another begins: "neighbours merged on free
\* so the list stays short" holds after every operation, also after a trim
\* next to a free chunk and after an extension of the break.
Coalesced == \A c, d \in heap.free : ChunkEnd(heap, c) # d

\* The chunks off the free list are those of the live blocks, one each: no
\* chunk is on the list while a caller owns it, and none is lost to both.
OneOwner ==
    /\ \A p \in DOMAIN blocks : blocks[p].chunk \in Used
    /\ \A p, q \in DOMAIN blocks : blocks[p].chunk = blocks[q].chunk => p = q
    /\ \A c \in Used : \E p \in DOMAIN blocks : blocks[p].chunk = c

\* What was asked for lies between the header of the block's chunk and the
\* chunk's end, also where memalign moved the pointer up and where realloc
\* cut or stretched the chunk since.
BlocksFit ==
    \A p \in DOMAIN blocks :
        /\ blocks[p].chunk + HEADER <= p
        /\ blocks[p].asked <= Room(p)

\* "Every block is 8-byte aligned", and so is every chunk, whatever the break
\* was when the heap or another user of _sbrk moved it.
AllAligned ==
    /\ \A p \in DOMAIN blocks : p % MALLOC_ALIGN = 0
    /\ \A c \in Chunks : c % MALLOC_ALIGN = 0 /\ heap.size[c] % MALLOC_ALIGN = 0

\* Every unit between the first break and the present one is in exactly one
\* chunk or was never the heap's: no operation loses memory.
Tiled ==
    \A u \in HEAP_START .. brk - 1 :
        u \in outside <=> \A c \in Chunks : ~(c <= u /\ u < ChunkEnd(heap, c))

\* While realloc is between its critical sections the block it copies from,
\* and the one it copies into, are live, the second is the one asked for, and
\* no other realloc is at work on either, whatever other threads do meanwhile.
MovesPinned ==
    /\ \A t \in Threads : /\ moves[t].p # NULL => moves[t].p \in DOMAIN blocks
                          /\ moves[t].q # NULL => moves[t].p # NULL
    /\ \A t \in Threads : Copying(t) =>
          /\ moves[t].q \in DOMAIN blocks
          /\ moves[t].q # moves[t].p
          /\ blocks[moves[t].q].asked = moves[t].n
    /\ \A t, u \in Threads : t # u =>
          {moves[t].p, moves[t].q} \cap {moves[u].p, moves[u].q} \subseteq {NULL}

(***************************************************************************)
(* The heap implements HeapSpec: the extents are those of the live blocks. *)
(***************************************************************************)
Extents == [p \in DOMAIN blocks |-> [asked |-> blocks[p].asked, room |-> Room(p)]]

Heap == INSTANCE HeapSpec WITH live <- Extents

\* Every step of the heap is one HeapSpec allows: an operation changes the
\* extent of the one block it is about, and puts a new or a longer extent
\* clear of all others.
ImplementsHeapSpec == Heap!Spec

===============================================================================
