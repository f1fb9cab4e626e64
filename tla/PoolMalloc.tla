------------------------------ MODULE PoolMalloc ------------------------------
(***************************************************************************)
(* The allocator of the hosted build, malloc.c: small blocks are bumped    *)
(* out of pools, each with a free list of its own; large ones are mappings *)
(* of their own; freed mappings are parked for reuse.  A pool that has run *)
(* out of bump room is grown in place, or retired and replaced; a retired  *)
(* pool is still searched, and made current again when it can serve what   *)
(* the current one cannot.                                                 *)
(*                                                                         *)
(* The allocator takes no lock (a process has one thread), so a call is    *)
(* one action, and every way through malloc() is an action of its own.     *)
(* What the program between the calls does is free to choose, and so is    *)
(* the kernel: each call is made under one of the kernels of Kernels,      *)
(* which says what mmap and mremap grant.  The vfork window, in which      *)
(* several of these paths are closed, is in VforkHeap.                     *)
(*                                                                         *)
(* Addresses, offsets and sizes are natural numbers of one unit, page 0 is *)
(* never mapped.  A constant with the name of one of the source's is that  *)
(* constant in this unit.  A size is a size_t, of which there are WORD; an *)
(* int and a long are as wide, as on the 32-bit target, and hold the upper *)
(* half of them as negative numbers.                                       *)
(***************************************************************************)
EXTENDS Integers, Sequences, FiniteSets

CONSTANTS
    Sizes,              \* the byte counts asked for
    Alignments,         \* what memalign is called with; ALIGN is malloc
    Kernels,            \* what the kernel may grant during a call: sets of
                        \* "mmap", "grow" (mremap up), "shrink" (mremap down)
    MaxBlocks,          \* bound: the program holds no more blocks than this
    ALIGN,              \* the alignment malloc promises: 8 bytes
    LONG,               \* sizeof(long) and sizeof(void *)
    HDR,                \* sizeof(struct mhdr)
    MSET,               \* sizeof(struct mset)
    LARGE_HDR,
    PGSIZE,
    MAP_END,            \* the kernel has the pages in PGSIZE .. MAP_END - 1
    WORD,               \* SIZE_MAX + 1
    MSETLEN_MIN, MSETLEN_MAX,
    MSETMAX_MIN, MSETMAX_CAP,
    LARGE_PER_CLASS,
    RETIRED_FIT_MIN,
    LARGE_CACHE_SLOTS, LARGE_CACHE_MAX_BYTES

ASSUME PoolMallocAssumption ==
    /\ WORD \in Nat /\ WORD > 4 * PGSIZE
    /\ \A n \in Sizes : n \in Nat /\ n < WORD
    /\ \A a \in Alignments : a \in Nat /\ a >= ALIGN /\ a % ALIGN = 0
    /\ \A k \in Kernels : k \subseteq {"mmap", "grow", "shrink"}
    /\ MaxBlocks \in Nat
    /\ \A n \in {ALIGN, LONG, HDR, MSET, LARGE_HDR, PGSIZE, RETIRED_FIT_MIN} :
          n \in Nat \ {0}
    /\ \A n \in {HDR, MSET, LARGE_HDR, PGSIZE} : n % ALIGN = 0
    /\ LARGE_HDR = 2 * HDR
    /\ LONG <= ALIGN
    /\ LARGE_HDR < PGSIZE
    /\ RETIRED_FIT_MIN >= 2 * HDR
    /\ MSETLEN_MIN \in Nat /\ MSETLEN_MIN > 0
    /\ MSETLEN_MAX \in {MSETLEN_MIN * (2^i) : i \in 0 .. 8}
    /\ MSETMAX_MIN \in Nat /\ MSETMAX_CAP \in Nat /\ MSETMAX_MIN <= MSETMAX_CAP
    /\ LARGE_PER_CLASS \in Nat \ {0}
    /\ LARGE_CACHE_SLOTS \in Nat /\ LARGE_CACHE_MAX_BYTES \in Nat
    /\ MAP_END \in Nat

VARIABLES
    heap,       \* what the allocator and the kernel keep, see Init
    blocks      \* the header in front of each pointer malloc() handed out, or
                \* alloc_aligned() made of one: moff, size, and the word below
                \* them (a mapping's length, an aligned block's raw pointer)

vars == <<heap, blocks>>

NULL == 0
LARGE_MOFF == -1
ALIGNED_MOFF == -2

Larger(x, y) == IF x > y THEN x ELSE y
Smaller(x, y) == IF x < y THEN x ELSE y
Least(S) == CHOOSE x \in S : \A y \in S : x <= y
Greatest(S) == CHOOSE x \in S : \A y \in S : x >= y
RoundUp(n, a) == n + ((-n) % a)

\* The size_t of x assigned to a long or an int, for an x that is no further
\* above WORD than that.
Long(x) == IF x < WORD \div 2 THEN x ELSE x - WORD
Without(f, S) == [x \in DOMAIN f \ S |-> f[x]]
With(f, x, v) == [y \in DOMAIN f \cup {x} |-> IF y = x THEN v ELSE f[y]]
SetPool(h, b, m) == [h EXCEPT !.pools[b] = m]

-------------------------------------------------------------------------------
(***************************************************************************)
(* The kernel.  A mapping is the set of its pages: munmap frees the run of *)
(* pages it is told, whatever was mapped, and mmap takes the lowest run of *)
(* free pages that is long enough.                                         *)
(***************************************************************************)

Memory == {a \in PGSIZE .. MAP_END - 1 : a % PGSIZE = 0}
Pages(base, len) == {a \in base .. base + len - 1 : a % PGSIZE = 0}

FreeRun(h, base, len) ==
    Pages(base, len) \subseteq Memory \ h.mapped

Munmap(h, base, len) == [h EXCEPT !.mapped = @ \ Pages(base, len)]

\* mmap: what the caller gets, NULL for MAP_FAILED.  There are no mappings of
\* no bytes, nor of half the addresses.
Mmap(h, len, k) ==
    LET runs == {b \in Memory : FreeRun(h, b, len)}
        got  == "mmap" \in k /\ len > 0 /\ runs # {}
        base == IF got THEN Least(runs) ELSE NULL
    IN  [heap |-> IF got THEN [h EXCEPT !.mapped = @ \cup Pages(base, len)] ELSE h,
         base |-> base,
         len  |-> len]

GrantsGrowth(h, base, old, new, k) ==
    "grow" \in k /\ new > 0 /\ FreeRun(h, base + old, new - old)

Mremap(h, base, old, new) ==
    [h EXCEPT !.mapped = (@ \ Pages(base, old)) \cup Pages(base, new)]

-------------------------------------------------------------------------------
(***************************************************************************)
(* The mapping cache.                                                      *)
(***************************************************************************)

Slots == 1 .. LARGE_CACHE_SLOTS
Empty == [base |-> NULL, mapped |-> 0]
Parked(h) == {i \in Slots : h.cache[i].base # NULL}

ParkedPages(h) == UNION {Pages(h.cache[i].base, h.cache[i].mapped) : i \in Parked(h)}

\* Fault: the slots are emptied, the mappings in them stay mapped.
ReleaseParkedLeaks(h) == [h EXCEPT !.cache = [i \in Slots |-> Empty], !.bytes = 0]

\* release_parked()
ReleaseParked(h) ==
    [h EXCEPT !.mapped = @ \ ParkedPages(h),
              !.cache = [i \in Slots |-> Empty],
              !.bytes = 0]

Suits(h, total) ==
    {i \in Parked(h) : total <= h.cache[i].mapped /\ h.cache[i].mapped <= 2 * total}

\* The smallest that suits, the first of equals.
BestParked(h, suits) ==
    CHOOSE i \in suits : \A j \in suits \ {i} :
        \/ h.cache[i].mapped < h.cache[j].mapped
        \/ h.cache[i].mapped = h.cache[j].mapped /\ i < j

Unpark(h, i) ==
    [heap |-> [h EXCEPT !.cache[i] = Empty, !.bytes = h.bytes - h.cache[i].mapped],
     base |-> h.cache[i].base,
     len  |-> h.cache[i].mapped]

\* cache_map(): a parked mapping that suits; a fresh one otherwise, and then
\* nothing stays parked.
CacheMap(h, total, k) ==
    IF Suits(h, total) # {}
      THEN Unpark(h, BestParked(h, Suits(h, total)))
      ELSE Mmap(ReleaseParked(h), total, k)

\* cache_unmap()
CacheUnmap(h, base, total) ==
    IF h.bytes + total <= LARGE_CACHE_MAX_BYTES /\ Parked(h) # Slots
      THEN [h EXCEPT !.cache[Least(Slots \ Parked(h))] = [base |-> base, mapped |-> total],
                     !.bytes = h.bytes + total]
      ELSE Munmap(h, base, total)

-------------------------------------------------------------------------------
(***************************************************************************)
(* The class: how big a pool may get, and from what size on a request is a *)
(* mapping of its own.                                                     *)
(***************************************************************************)

\* widen_pool_class()
Widened(h) == IF h.class < MSETLEN_MAX THEN [h EXCEPT !.class = 2 * @] ELSE h

\* cur_msetmax()
CurMsetMax(h) == Larger(MSETMAX_MIN, Smaller(MSETMAX_CAP, h.class \div 2))

HeaderSpillsPage(n) ==
    LET rem == (n + LARGE_HDR) % PGSIZE
    IN  n < MSETMAX_CAP /\ rem # 0 /\ rem <= LARGE_HDR

IsLarge(h, n) == n >= CurMsetMax(h) /\ ~HeaderSpillsPage(n)

\* The bytes of a mapping for n, unless the sum is more than a long holds.
LargeTotal(n) == Long(RoundUp(n + LARGE_HDR, PGSIZE))
AllocSize(n) == RoundUp(n + HDR, ALIGN)

\* What mk_pool() is asked for: the block, the pool header, the page skip.
Want(n) == AllocSize(n) + MSET + ALIGN

-------------------------------------------------------------------------------
(***************************************************************************)
(* A pool's free list.  It is sorted by address, so pools[b].free maps the *)
(* offset of each free block to its size; next_big chains the big ones in  *)
(* the same order, so pools[b].big is the set of those on the chain.       *)
(***************************************************************************)

IsBig(size) == size >= RETIRED_FIT_MIN

\* The blocks the walk of freelist_insert() stops between, NULL for none, and
\* the last big one it saw before the first of them.
PrevOf(free, off) ==
    IF \E x \in DOMAIN free : x < off THEN Greatest({x \in DOMAIN free : x < off}) ELSE NULL
CurOf(free, off) ==
    IF \E x \in DOMAIN free : x > off THEN Least({x \in DOMAIN free : x > off}) ELSE NULL
BigBefore(free, prev) ==
    IF \E x \in DOMAIN free : x < prev /\ IsBig(free[x])
      THEN Greatest({x \in DOMAIN free : x < prev /\ IsBig(free[x])}) ELSE NULL

JoinsPrev(free, off, prev) == prev # NULL /\ prev + free[prev] = off
JoinsCur(off, size, cur) == cur # NULL /\ off + size = cur

\* The list with the block in it, merged with the neighbours it touches.
Inserted(free, off, size, prev, cur) ==
    LET start == IF JoinsPrev(free, off, prev) THEN prev ELSE off
        end   == IF JoinsCur(off, size, cur) THEN cur + free[cur] ELSE off + size
    IN  With(Without(free, {x \in DOMAIN free : start <= x /\ x < end}), start, end - start)

\* pool_trim_end(): a retired pool's free block that reaches its end gives its
\* whole pages back, if the kernel agrees, but for the two words of its node.
Trimmed(m, start, keep) ==
    [m EXCEPT !.len = keep,
              !.size = Smaller(m.size, keep),
              !.free = [m.free EXCEPT ![start] = keep - start]]

TrimEnd(h, b, start, k) ==
    LET m    == h.pools[b]
        keep == RoundUp(start + HDR, PGSIZE)
    IN  IF /\ b # h.pool
           /\ start + m.free[start] = m.len
           /\ m.free[start] >= PGSIZE
           /\ keep < m.len
           /\ "shrink" \in k
          THEN SetPool(Mremap(h, b, m.len, keep), b, Trimmed(m, start, keep))
          ELSE h

\* Fault: the bound is not raised for a block that grew past it.
ChainedKeepsMax(h, b, start, upTo, after) ==
    LET m == h.pools[b]
    IN  IF b = h.pool
          THEN h
          ELSE SetPool(h, b, [m EXCEPT
                  !.big = {x \in m.big : x <= upTo \/ x > after}
                          \cup (IF IsBig(m.free[start]) THEN {start} ELSE {})])

\* The chain of a retired pool is cut after `upTo` and taken up again after
\* `after`, with the new block between if it is big; max_free covers it.  Both
\* are read of retired pools only, and set when one retires: a pool that is
\* not retired has them empty here, whatever is left in the code's.
Chained(h, b, start, upTo, after) ==
    LET m == h.pools[b]
    IN  IF b = h.pool
          THEN h
          ELSE SetPool(h, b, [m EXCEPT
                  !.big = {x \in m.big : x <= upTo \/ x > after}
                          \cup (IF IsBig(m.free[start]) THEN {start} ELSE {}),
                  !.max = Larger(m.max, m.free[start])])

Unchained(h, b) == SetPool(h, b, [h.pools[b] EXCEPT !.big = {}, !.max = 0])

\* freelist_insert(): what precedes the block on the chain is what the walk
\* saw last, what follows is what that one's link says; a block that grew out
\* of its neighbour takes that one's place.
Insert(h, b, off, size, prev, cur, before, k) ==
    LET m      == h.pools[b]
        free   == m.free
        joins  == JoinsPrev(free, off, prev)
        linked == IF prev # NULL /\ IsBig(free[prev]) THEN prev ELSE before
        after  == IF JoinsCur(off, size, cur) /\ IsBig(free[cur]) THEN cur ELSE linked
        listed == SetPool(h, b, [m EXCEPT !.free = Inserted(free, off, size, prev, cur)])
        start  == IF joins THEN prev ELSE off
    IN  Chained(TrimEnd(listed, b, start, k), b, start,
                IF joins THEN before ELSE linked, after)

FreelistInsert(h, b, off, size, k) ==
    LET free == h.pools[b].free
    IN  Insert(h, b, off, size, PrevOf(free, off), CurOf(free, off),
               BigBefore(free, PrevOf(free, off)), k)

\* Fault: only the size is looked at.
BlockFitsBySize(b, off, size, alloc) == size >= alloc

\* block_fits(): big enough, and its user pointer is not page-aligned.
BlockFits(b, off, size, alloc) ==
    size >= alloc /\ (b + off + HDR) % PGSIZE # 0

Fitting(h, b, alloc) ==
    {x \in DOMAIN h.pools[b].free : BlockFits(b, x, h.pools[b].free[x], alloc)}

\* Fault: a block is only unlinked when it is split.
TakeBlockStillListed(free, off, alloc) ==
    IF free[off] - alloc >= 2 * HDR
      THEN With(Without(free, {off}), off + alloc, free[off] - alloc)
      ELSE free

\* take_block(): what the request leaves of the block stays, if it is enough
\* for a block of its own.
TakeBlock(free, off, alloc) ==
    IF free[off] - alloc >= 2 * HDR
      THEN With(Without(free, {off}), off + alloc, free[off] - alloc)
      ELSE Without(free, {off})

\* freelist_take(), and the caller's refs++: the first block that fits.
FreelistTake(h, b, alloc) ==
    LET m == h.pools[b]
    IN  SetPool(h, b, [m EXCEPT !.free = TakeBlock(m.free, Least(Fitting(h, b, alloc)), alloc),
                                !.refs = m.refs + 1])

-------------------------------------------------------------------------------
(***************************************************************************)
(* Retired pools.                                                          *)
(***************************************************************************)

\* retire(): the current pool goes on the retired list.  Its bump room goes
\* on its free list, before anything is chained, and then all that is big.
WithTail(h, b, len, tail, k) ==
    IF len - tail >= 2 * HDR THEN FreelistInsert(h, b, tail, len - tail, k) ELSE h

Listed(h, b) ==
    LET m == h.pools[b]
    IN  [SetPool(h, b, [m EXCEPT !.big = {x \in DOMAIN m.free : IsBig(m.free[x])}])
            EXCEPT !.old = <<b>> \o h.old]

\* Fault: the bump room goes on the free list, the bump pointer stays.
RetireKeepsBump(h, k) ==
    LET b == h.pool
        m == h.pools[b]
    IN  Listed(WithTail(SetPool(h, b, [m EXCEPT !.max = m.len]),
                        b, m.len, RoundUp(m.size, ALIGN), k), b)

Retire(h, k) ==
    LET b == h.pool
        m == h.pools[b]
    IN  Listed(WithTail(SetPool(h, b, [m EXCEPT !.size = m.len, !.max = m.len]),
                        b, m.len, RoundUp(m.size, ALIGN), k), b)

NoBlocks == [x \in {} |-> 0]
Fresh(len) == [len |-> len, size |-> MSET, refs |-> 0, free |-> NoBlocks,
               big |-> {}, max |-> 0]

\* A drained pool from its start again.
Rewound(h, b) == SetPool(h, b, Fresh(h.pools[b].len))

\* A drained pool becomes the spare.  mk_pool() rewinds a spare that it takes;
\* nothing reads one before that, so it is rewound here at once.
Spared(h, b) == [Rewound(h, b) EXCEPT !.pool1 = b]

OldPools(h) == {h.old[i] : i \in DOMAIN h.old}

\* A pool, which is on the list once, taken off it.
Unlisted(old, b) ==
    LET at == CHOOSE i \in DOMAIN old : old[i] = b
    IN  [i \in 1 .. Len(old) - 1 |-> old[IF i < at THEN i ELSE i + 1]]

\* The current pool has drained: it becomes the spare, or its mapping goes.
Unmapped(h, b) ==
    [CacheUnmap(h, b, h.pools[b].len) EXCEPT !.pools = Without(h.pools, {b})]

SetAside(h, k) ==
    CASE h.pools[h.pool].refs > 0 -> Retire(h, k)
      [] h.pools[h.pool].refs = 0 /\ h.pool1 = NULL -> Spared(h, h.pool)
      [] OTHER -> Unmapped(h, h.pool)

\* mk_pool() does the same, but keeps the larger of two spares.
SetAsideKeepingLarger(h, k) ==
    IF /\ h.pools[h.pool].refs = 0
       /\ h.pool1 # NULL
       /\ h.pools[h.pool].len > h.pools[h.pool1].len
      THEN Spared(Unmapped(h, h.pool1), h.pool)
      ELSE SetAside(h, k)

\* old_pool_take(): the retired pools whose bound does not rule them out and
\* whose list has a fit; the first of them becomes the current pool.
Promotable(h, alloc) ==
    {i \in DOMAIN h.old : /\ h.pools[h.old[i]].max >= alloc
                          /\ Fitting(h, h.old[i], alloc) # {}}

Promoted(h, b, alloc, k) ==
    [SetAside(Unchained([FreelistTake(h, b, alloc) EXCEPT !.old = Unlisted(h.old, b)], b), k)
        EXCEPT !.pool = b]

\* old_pool_best_fit(): what the walk of the chains can choose from, and the
\* order it chooses by.  An exact fit ends the walk.
ChainPlaces(h) ==
    {<<i, x>> : i \in DOMAIN h.old, x \in UNION {h.pools[b].big : b \in OldPools(h)}}

ChainFits(h, alloc) ==
    {c \in ChainPlaces(h) :
        LET m == h.pools[h.old[c[1]]]
        IN  /\ c[2] \in m.big
            /\ m.max >= alloc
            /\ BlockFits(h.old[c[1]], c[2], m.free[c[2]], alloc)}

SizeOf(h, c) == h.pools[h.old[c[1]]].free[c[2]]

IsChosen(h, c, alloc) ==
    \A d \in ChainFits(h, alloc) \ {c} :
        \/ SizeOf(h, c) < SizeOf(h, d)
        \/ /\ SizeOf(h, c) = SizeOf(h, d)
           /\ c[1] < d[1] \/ (c[1] = d[1] /\ c[2] < d[2])

\* A pool whose chain was walked to the end has its bound made exact.
Measured(h, alloc) ==
    LET exact  == {c[1] : c \in {d \in ChainFits(h, alloc) : SizeOf(h, d) = alloc}}
        walked == {h.old[i] : i \in {j \in DOMAIN h.old :
                      /\ h.pools[h.old[j]].max >= alloc
                      /\ \A e \in exact : j < e}}
    IN  [h EXCEPT !.pools = [b \in DOMAIN h.pools |->
            IF b \in walked
              THEN LET m == h.pools[b]
                   IN  [m EXCEPT !.max = Greatest({RETIRED_FIT_MIN - 1}
                                                  \cup {m.free[x] : x \in m.big})]
              ELSE h.pools[b]]]

\* ... and the block taken leaves the chain, its remainder takes its place.
Unchain(h, b, off, alloc) ==
    LET m    == h.pools[b]
        rest == m.free[off] - alloc
    IN  SetPool(h, b, [m EXCEPT
            !.free = TakeBlock(m.free, off, alloc),
            !.big  = (m.big \ {off}) \cup (IF IsBig(rest) THEN {off + alloc} ELSE {}),
            !.refs = m.refs + 1])

-------------------------------------------------------------------------------
(***************************************************************************)
(* The current pool.                                                       *)
(***************************************************************************)

\* The two ways mk_pool() has of making a pool once there is none.
SpareFits(h, want) == h.pool1 # NULL /\ h.pools[h.pool1].len >= want

TakeSpare(h) == [h EXCEPT !.pool = h.pool1, !.pool1 = NULL]

WithNewPool(c) ==
    IF c.base = NULL
      THEN c.heap
      ELSE [c.heap EXCEPT !.pools = With(c.heap.pools, c.base, Fresh(c.len)), !.pool = c.base]

Rewindable(h, want) == h.pools[h.pool].refs = 0 /\ h.pools[h.pool].len >= want

\* mk_pool(), without a current pool and with one to replace, which widens the
\* class if it takes a mapping.  The pool is NULL afterwards if none was to be had.
FirstPool(h, want, k) ==
    IF SpareFits(h, want)
      THEN TakeSpare(h)
      ELSE WithNewPool(CacheMap(h, RoundUp(want, PGSIZE), k))

Replacing(h, want, k) ==
    IF SpareFits(h, want) \/ FirstPool(h, want, k).pool = NULL
      THEN FirstPool(h, want, k)
      ELSE Widened(FirstPool(h, want, k))

NextPool(h, want, k) ==
    IF Rewindable(h, want)
      THEN Rewound(h, h.pool)
      ELSE Replacing([SetAsideKeepingLarger(h, k) EXCEPT !.pool = NULL], want, k)

\* pool_grow(): a page at least, in place, up to the largest pool.
GrownLen(m, need) ==
    IF m.len + PGSIZE < need THEN RoundUp(need, PGSIZE) ELSE m.len + PGSIZE

CanGrow(h, need, k) ==
    LET m == h.pools[h.pool]
        len == GrownLen(m, need)
    IN  len <= MSETLEN_MAX /\ GrantsGrowth(h, h.pool, m.len, len, k)

Classes == {MSETLEN_MIN * (2^i) : i \in 0 .. 8} \cap 1 .. MSETLEN_MAX

PoolGrow(h, need) ==
    LET m == h.pools[h.pool]
        len == GrownLen(m, need)
    IN  [SetPool(Mremap(h, h.pool, m.len, len), h.pool, [m EXCEPT !.len = len]) EXCEPT
            !.class = IF h.class >= len THEN h.class
                      ELSE Least({x \in Classes : x >= len \/ x = MSETLEN_MAX})]

\* Where the bump pointer is once it has skipped an offset whose user pointer
\* would be page-aligned.
Skip(b, size) == IF (b + size + HDR) % PGSIZE = 0 THEN size + LONG ELSE size

BumpOffset(h) == Skip(h.pool, h.pools[h.pool].size)

HasBumpRoom(h, alloc) == BumpOffset(h) + alloc <= h.pools[h.pool].len

Bump(h, alloc) ==
    LET m == h.pools[h.pool]
    IN  SetPool(h, h.pool, [m EXCEPT !.size = Skip(h.pool, BumpOffset(h) + alloc),
                                     !.refs = m.refs + 1])

-------------------------------------------------------------------------------
(***************************************************************************)
(* Calls.  A request is a malloc(n) that one of the entry points makes: its *)
(* own; realloc's, to move the block `old` to; alloc_aligned's, which gets  *)
(* room for the shift, for a header and for the pointer below it.           *)
(***************************************************************************)

IsMapping(p) == blocks[p].moff = LARGE_MOFF
IsAligned(p) == blocks[p].moff = ALIGNED_MOFF
IsPooled(p)  == blocks[p].moff >= 0

\* The pointers the program holds: not those an aligned block was cut from.
Raws == {blocks[p].word : p \in {q \in DOMAIN blocks : IsAligned(q)}}
Held == DOMAIN blocks \ Raws

\* shrink(): what the block needs if it stays a mapping, or moves to a pool.
NeededBy(n) == IF n >= CurMsetMax(heap) THEN LargeTotal(n) ELSE n + HDR
SparesPage(p, n) == blocks[p].word - NeededBy(n) >= PGSIZE

ShrinksInPlace(p, n, k) ==
    /\ Long(n) <= blocks[p].size
    /\ n >= CurMsetMax(heap)
    /\ SparesPage(p, n)
    /\ "shrink" \in k /\ LargeTotal(n) > 0

FitsMapping(p, n) == Long(n) > blocks[p].size /\ Long(n) + LARGE_HDR <= blocks[p].word

GrowsInPlace(p, n, k) ==
    /\ Long(n) + LARGE_HDR > blocks[p].word
    /\ GrantsGrowth(heap, p - LARGE_HDR, blocks[p].word, LargeTotal(n), k)

\* realloc(p, n) has to move the block.
MustMove(p, n, k) ==
    \/ /\ IsMapping(p) /\ Long(n) <= blocks[p].size
       /\ SparesPage(p, n) /\ ~ShrinksInPlace(p, n, k)
    \/ /\ IsMapping(p) /\ Long(n) > blocks[p].size
       /\ ~FitsMapping(p, n) /\ ~GrowsInPlace(p, n, k)
    \/ ~IsMapping(p) /\ Long(n) > blocks[p].size

\* What alloc_aligned() asks for on top.
\* Fault: no room is asked for what alloc_aligned() puts below the block.
ExtraForShift(a) == a

Extra(a) == a + HDR + LONG

Request(n, a, old) ==
    [n |-> IF a = ALIGN THEN n ELSE n + Extra(a), asked |-> n, align |-> a, old |-> old]

Asks ==
    IF Cardinality(Held) < MaxBlocks
      THEN {Request(n, ALIGN, NULL) : n \in Sizes}
           \cup {r \in {Request(n, a, NULL) : n \in Sizes \ {0}, a \in Alignments \ {ALIGN}} :
                    r.n < WORD}
      ELSE {}

Requests(k) ==
    Asks \cup {Request(pn[2], ALIGN, pn[1]) :
                     pn \in {x \in Held \X (Sizes \ {0}) : MustMove(x[1], x[2], k)}}

\* Where alloc_aligned() moves the user pointer to.
UserPointer(raw, a) == RoundUp(raw + LONG + HDR, a)

\* The headers after malloc() has returned m for request r, its header being hd.
Handed(r, m, hd) ==
    LET made == With(blocks, m, hd)
    IN  IF r.align = ALIGN
          THEN made
          ELSE With(made, UserPointer(m, r.align),
                    [moff |-> ALIGNED_MOFF, size |-> Long(r.asked), word |-> m])

\* free() of the header hd behind the pointer m malloc() had returned: park or
\* unmap a mapping; in a pool, the last block of a retired pool drains it and
\* any other block goes on the pool's free list.
Drained(h, b) ==
    IF h.pool1 # NULL THEN Unmapped(h, b) ELSE Spared(h, b)

Unreferenced(h, b) == SetPool(h, b, [h.pools[b] EXCEPT !.refs = h.pools[b].refs - 1])

\* Fault: a pool that drains is not taken off the retired list.
FreedPooledStillListed(h, b, hd, k) ==
    IF h.pools[b].refs = 1 /\ b # h.pool
      THEN Drained(Unreferenced(h, b), b)
      ELSE FreelistInsert(Unreferenced(h, b), b, hd.moff, AllocSize(hd.size), k)

FreedPooled(h, b, hd, k) ==
    IF h.pools[b].refs = 1 /\ b # h.pool
      THEN Drained([Unreferenced(h, b) EXCEPT !.old = Unlisted(h.old, b)], b)
      ELSE FreelistInsert(Unreferenced(h, b), b, hd.moff, AllocSize(hd.size), k)

RawOf(p) == IF IsAligned(p) THEN blocks[p].word ELSE p

Freed(h, p, k) ==
    LET m == RawOf(p)
        hd == blocks[m]
    IN  IF hd.moff = LARGE_MOFF
          THEN CacheUnmap(h, m - LARGE_HDR, hd.word)
          ELSE FreedPooled(h, m - HDR - hd.moff, hd, k)

\* The call ends: malloc() left heap h and returned m, whose header is hd; a
\* realloc then copies and frees the old block.
Returns(r, h, m, hd, k) ==
    LET headers == Handed(r, m, hd)
    IN  IF r.old = NULL
          THEN heap' = h /\ blocks' = headers
          ELSE heap' = Freed(h, r.old, k) /\ blocks' = Without(headers, {r.old, RawOf(r.old)})

ReturnsPooled(r, h, b, off, k) ==
    Returns(r, h, b + off + HDR, [moff |-> off, size |-> r.n, word |-> 0], k)

-------------------------------------------------------------------------------
(***************************************************************************)
(* The ways through malloc(), in the order it tries them.                  *)
(***************************************************************************)

Init ==
    /\ heap = [mapped |-> {},                             \* the kernel's pages
               cache  |-> [i \in Slots |-> Empty],        \* large_cache
               bytes  |-> 0,                              \* large_cache_bytes
               class  |-> MSETLEN_MIN,                    \* pool_len_next
               large  |-> 0,            \* large_allocs, modulo LARGE_PER_CLASS
               pools  |-> [b \in {} |-> Fresh(0)],        \* the struct msets
               pool   |-> NULL,
               pool1  |-> NULL,
               old    |-> <<>>]                           \* old_pools
    /\ blocks = [p \in {} |-> [moff |-> 0, size |-> 0, word |-> 0]]

\* The heap once there is a pool, and once the retired ones have been walked.
Started(r, k) == IF heap.pool = NULL THEN FirstPool(heap, Want(r.n), k) ELSE heap

Walk(h, alloc) == IF h.pool # NULL /\ IsBig(alloc) THEN Measured(h, alloc) ELSE h
Walked(r, k) == Walk(Started(r, k), AllocSize(r.n))

\* How far malloc() has come without a block, with heap h.
FromPool(r, h) == ~IsLarge(heap, r.n) /\ h.pool # NULL
NoneRetired(r, h) ==
    FromPool(r, h) /\ (IsBig(AllocSize(r.n)) => ChainFits(h, AllocSize(r.n)) = {})
NoneListed(r, h) == NoneRetired(r, h) /\ Fitting(h, h.pool, AllocSize(r.n)) = {}
OutOfRoom(r, h) == NoneListed(r, h) /\ ~HasBumpRoom(h, AllocSize(r.n))
NonePromotable(r, h) == OutOfRoom(r, h) /\ Promotable(h, AllocSize(r.n)) = {}
Needed(r, h) == BumpOffset(h) + AllocSize(r.n) + ALIGN

\* c is what cache_map() says.
Counted(h) == [h EXCEPT !.large = (@ + 1) % LARGE_PER_CLASS]
WidenedEvery(h) == IF h.large = 0 THEN Widened(h) ELSE h

MallocLarge(r, c, k) ==
    /\ IsLarge(heap, r.n)
    /\ c.base # NULL
    /\ Returns(r, WidenedEvery(Counted(c.heap)), c.base + LARGE_HDR,
               [moff |-> LARGE_MOFF, size |-> Long(r.n), word |-> c.len], k)

\* In what follows h is the heap when malloc() gets there.
MallocRetired(r, h, k) ==
    /\ FromPool(r, h)
    /\ IsBig(AllocSize(r.n))
    /\ \E c \in ChainFits(h, AllocSize(r.n)) :
          /\ IsChosen(h, c, AllocSize(r.n))
          /\ ReturnsPooled(r, Unchain(Measured(h, AllocSize(r.n)), h.old[c[1]], c[2],
                                      AllocSize(r.n)),
                           h.old[c[1]], c[2], k)

MallocListed(r, h, k) ==
    /\ NoneRetired(r, h)
    /\ Fitting(h, h.pool, AllocSize(r.n)) # {}
    /\ ReturnsPooled(r, FreelistTake(h, h.pool, AllocSize(r.n)), h.pool,
                     Least(Fitting(h, h.pool, AllocSize(r.n))), k)

\* malloc()'s last part: the block is bumped off the end of the current pool.
Bumps(r, h, k) == ReturnsPooled(r, Bump(h, AllocSize(r.n)), h.pool, BumpOffset(h), k)

MallocBump(r, h, k) ==
    /\ NoneListed(r, h)
    /\ HasBumpRoom(h, AllocSize(r.n))
    /\ Bumps(r, h, k)

\* old_pool_take(): the first retired pool that can serve it becomes current.
MallocPromote(r, h, k) ==
    /\ OutOfRoom(r, h)
    /\ \E i \in Promotable(h, AllocSize(r.n)) :
          /\ \A j \in Promotable(h, AllocSize(r.n)) : i <= j
          /\ ReturnsPooled(r, Promoted(h, h.old[i], AllocSize(r.n), k), h.old[i],
                           Least(Fitting(h, h.old[i], AllocSize(r.n))), k)

MallocGrow(r, h, k) ==
    /\ NonePromotable(r, h)
    /\ CanGrow(h, Needed(r, h), k)
    /\ Bumps(r, PoolGrow(h, Needed(r, h)), k)

\* next is what mk_pool() makes of h.
MallocReplace(r, h, next, k) ==
    /\ NonePromotable(r, h)
    /\ ~CanGrow(h, Needed(r, h), k)
    /\ next.pool # NULL
    /\ Bumps(r, next, k)

\* malloc() returns NULL, and so does the call it was for; what it did to the
\* heap on the way stays done.
LargeFails(r, c) ==
    /\ IsLarge(heap, r.n)
    /\ c.base = NULL
    /\ heap' = c.heap
    /\ UNCHANGED blocks

FirstPoolFails(r, h) ==
    /\ ~IsLarge(heap, r.n)
    /\ h.pool = NULL
    /\ heap' = h
    /\ UNCHANGED blocks

ReplaceFails(r, h, next, k) ==
    /\ NonePromotable(r, h)
    /\ ~CanGrow(h, Needed(r, h), k)
    /\ next.pool = NULL
    /\ heap' = next
    /\ UNCHANGED blocks

-------------------------------------------------------------------------------
(***************************************************************************)
(* free, and the ways through realloc() that leave the block where it is.  *)
(***************************************************************************)

\* The header of a block that stays where it is.
Resized(p, n, word) == [moff |-> blocks[p].moff, size |-> Long(n), word |-> word]

Free(p, k) ==
    /\ heap' = Freed(heap, p, k)
    /\ blocks' = Without(blocks, {p, RawOf(p)})

\* shrink() of a mapping, the pages after it given back.
ShrinkMapping(p, n, k) ==
    /\ IsMapping(p)
    /\ ShrinksInPlace(p, n, k)
    /\ heap' = Mremap(heap, p - LARGE_HDR, blocks[p].word, LargeTotal(n))
    /\ blocks' = [blocks EXCEPT ![p] = Resized(p, n, LargeTotal(n))]

\* shrink() of a pool block, its tail put on the pool's free list if it is
\* enough for a block; otherwise nothing changes, not even the header.
ShrinkPooled(p, n, k) ==
    LET off == blocks[p].moff
        tail == AllocSize(blocks[p].size) - AllocSize(Long(n))
    IN  /\ IsPooled(p)
        /\ Long(n) <= blocks[p].size
        /\ tail >= 2 * HDR
        /\ heap' = FreelistInsert(heap, p - HDR - off, off + AllocSize(Long(n)), tail, k)
        /\ blocks' = [blocks EXCEPT ![p] = Resized(p, n, blocks[p].word)]

\* shrink() of an aligned block is a matter of its own header only.
ShrinkAligned(p, n) ==
    /\ IsAligned(p)
    /\ Long(n) < blocks[p].size
    /\ blocks' = [blocks EXCEPT ![p] = Resized(p, n, blocks[p].word)]
    /\ UNCHANGED heap

\* realloc() of a mapping that is long enough already.
GrowInMapping(p, n) ==
    /\ IsMapping(p)
    /\ FitsMapping(p, n)
    /\ blocks' = [blocks EXCEPT ![p] = Resized(p, n, blocks[p].word)]
    /\ UNCHANGED heap

GrowMapping(p, n, k) ==
    /\ IsMapping(p)
    /\ Long(n) > blocks[p].size
    /\ GrowsInPlace(p, n, k)
    /\ heap' = Mremap(heap, p - LARGE_HDR, blocks[p].word, LargeTotal(n))
    /\ blocks' = [blocks EXCEPT ![p] = Resized(p, n, LargeTotal(n))]

Next ==
    \/ \E k \in Kernels : \E r \in Requests(k) :
          MallocLarge(r, CacheMap(heap, LargeTotal(r.n), k), k)
    \/ \E k \in Kernels : \E r \in Requests(k) : MallocRetired(r, Started(r, k), k)
    \/ \E k \in Kernels : \E r \in Requests(k) : MallocListed(r, Walked(r, k), k)
    \/ \E k \in Kernels : \E r \in Requests(k) : MallocBump(r, Walked(r, k), k)
    \/ \E k \in Kernels : \E r \in Requests(k) : MallocPromote(r, Walked(r, k), k)
    \/ \E k \in Kernels : \E r \in Requests(k) : MallocGrow(r, Walked(r, k), k)
    \/ \E k \in Kernels : \E r \in Requests(k) :
          MallocReplace(r, Walked(r, k), NextPool(Walked(r, k), Want(r.n), k), k)
    \/ \E k \in Kernels : \E r \in Requests(k) : LargeFails(r, CacheMap(heap, LargeTotal(r.n), k))
    \/ \E k \in Kernels : \E r \in Requests(k) : FirstPoolFails(r, Started(r, k))
    \/ \E k \in Kernels : \E r \in Requests(k) :
          ReplaceFails(r, Walked(r, k), NextPool(Walked(r, k), Want(r.n), k), k)
    \/ \E k \in Kernels, p \in Held : Free(p, k)
    \/ \E k \in Kernels, p \in Held, n \in Sizes \ {0} : ShrinkMapping(p, n, k)
    \/ \E k \in Kernels, p \in Held, n \in Sizes \ {0} : ShrinkPooled(p, n, k)
    \/ \E p \in Held, n \in Sizes \ {0} : ShrinkAligned(p, n)
    \/ \E p \in Held, n \in Sizes \ {0} : GrowInMapping(p, n)
    \/ \E k \in Kernels, p \in Held, n \in Sizes \ {0} : GrowMapping(p, n, k)

Spec == Init /\ [][Next]_vars

-------------------------------------------------------------------------------
(***************************************************************************)
(* Properties.                                                             *)
(***************************************************************************)

PoolsInUse == ({heap.pool, heap.pool1} \ {NULL}) \cup OldPools(heap)
Serving == ({heap.pool} \ {NULL}) \cup OldPools(heap)

\* The blocks live in pool b: those whose header's offset leads back to it.
PoolOf(p) == p - HDR - blocks[p].moff
LiveIn(b) == {p \in DOMAIN blocks : IsPooled(p) /\ PoolOf(p) = b}

\* Where the live and the free blocks of pool b lie.
Extents(b) ==
    {<<blocks[p].moff, AllocSize(blocks[p].size)>> : p \in LiveIn(b)}
    \cup {<<x, heap.pools[b].free[x]>> : x \in DOMAIN heap.pools[b].free}

\* Within a pool, between its header and the bump pointer, no two of the live
\* and the free blocks share a byte and no two free blocks touch; none reaches
\* past the bump pointer, which is where the next one will come from, nor that
\* past the pool's end.  Every way of taking, splitting, merging, retiring and
\* trimming has to agree on the sizes for this.
BlocksApart ==
    \A b \in Serving :
        LET m == heap.pools[b]
        IN  /\ m.size <= m.len
            /\ \A x \in DOMAIN m.free : x + m.free[x] \notin DOMAIN m.free
            /\ \A x \in DOMAIN m.free : \A p \in LiveIn(b) : x # blocks[p].moff
            /\ \A e \in Extents(b) :
                  /\ MSET <= e[1]
                  /\ e[1] + e[2] <= m.size
                  /\ \A f \in Extents(b) \ {e} : e[1] + e[2] <= f[1] \/ f[1] + f[2] <= e[1]

\* Everything that owns pages: where they start and how many bytes they are.
Owners ==
    {<<b, heap.pools[b].len>> : b \in PoolsInUse}
    \cup {<<p - LARGE_HDR, blocks[p].word>> : p \in {q \in DOMAIN blocks : IsMapping(q)}}
    \cup {<<heap.cache[i].base, heap.cache[i].mapped>> : i \in Parked(heap)}

OwnerCount ==
    Cardinality(PoolsInUse) + Cardinality(Parked(heap))
    + Cardinality({q \in DOMAIN blocks : IsMapping(q)})

\* The bytes in all the slots, added up; an empty one has none.
ParkedBytes(cache) ==
    LET upTo[i \in 0 .. LARGE_CACHE_SLOTS] ==
            IF i = 0 THEN 0 ELSE upTo[i - 1] + cache[i].mapped
    IN  upTo[LARGE_CACHE_SLOTS]

\* The pages the process has are those of its pools, of its large blocks and
\* of the parked mappings, and no page is of two of them: no path unmaps what
\* is in use, hands out what is parked, or loses a mapping.  large_cache_bytes
\* says what is parked, which stays within its bound.
PagesOwned ==
    /\ heap.mapped = UNION {Pages(o[1], o[2]) : o \in Owners}
    /\ Cardinality(Owners) = OwnerCount
    /\ \A o \in Owners : \A q \in Owners \ {o} : Pages(o[1], o[2]) \cap Pages(q[1], q[2]) = {}
    /\ heap.bytes = ParkedBytes(heap.cache)
    /\ heap.bytes <= LARGE_CACHE_MAX_BYTES

\* A pool counts its live blocks, each is in a pool that is in use, a pool is
\* on the retired list once and only while it has some (free() would never
\* look at it again otherwise), and the spare has none.
RefsExact ==
    /\ \A p \in DOMAIN blocks : IsPooled(p) => PoolOf(p) \in PoolsInUse
    /\ \A b \in PoolsInUse : heap.pools[b].refs = Cardinality(LiveIn(b))
    /\ \A b \in OldPools(heap) : heap.pools[b].refs > 0
    /\ heap.pool1 # NULL => heap.pools[heap.pool1].refs = 0
    /\ Cardinality(PoolsInUse) = Len(heap.old) + Cardinality({heap.pool, heap.pool1} \ {NULL})

\* "malloc must never hand back a block that overruns its mapping": a large
\* block fits behind the header of its mapping.  A size that reads as negative
\* is one of more than half of all the bytes there are.
NoneOverruns ==
    \A p \in DOMAIN blocks :
        IsMapping(p) => blocks[p].size \in 0 .. blocks[p].word - LARGE_HDR

\* Every large block fits its mapping, every aligned block the one it was cut
\* from, its header and the word below included, through every realloc that
\* leaves it where it is.
BlocksFit ==
    /\ NoneOverruns
    /\ \A p \in DOMAIN blocks : IsAligned(p) =>
          LET raw == blocks[p].word
          IN  /\ raw \in DOMAIN blocks /\ ~IsAligned(raw)
              /\ raw + LONG + HDR <= p
              /\ p + blocks[p].size <= raw + blocks[raw].size

\* "malloc must never hand back" a page-aligned pointer from a pool, however
\* the pool was grown, trimmed or promoted in the meantime.
NeverPageAligned == \A p \in DOMAIN blocks : IsPooled(p) => p % PGSIZE # 0

\* The fits among all free blocks of the retired pools.
AllFits(alloc) ==
    {c \in (DOMAIN heap.old) \X UNION {DOMAIN heap.pools[b].free : b \in OldPools(heap)} :
        LET m == heap.pools[heap.old[c[1]]]
        IN  /\ c[2] \in DOMAIN m.free
            /\ BlockFits(heap.old[c[1]], c[2], m.free[c[2]], alloc)}

\* What old_pool_best_fit chooses by way of max_free and the chain of big
\* blocks is what a walk of the whole free lists of the retired pools would:
\* "it picks the same block a walk of the whole list would".
BestFitAgrees ==
    \A n \in Sizes : IsBig(AllocSize(n)) =>
        LET all == AllFits(AllocSize(n))
        IN  ChainFits(heap, AllocSize(n)) = all

(***************************************************************************)
(* The pool heap implements HeapSpec: the extents are those of the blocks  *)
(* the program holds, with the room malloc_usable_size reports.            *)
(***************************************************************************)
HeldExtents == [p \in Held |-> [asked |-> blocks[p].size, room |-> blocks[p].size]]

Heap == INSTANCE HeapSpec WITH live <- HeldExtents

\* Every call is one HeapSpec allows: it changes the extent of the one block
\* it is about, a moving realloc replaces that block by the new one, a failed
\* one changes none, and a new or longer extent is clear of all others.
ImplementsHeapSpec == Heap!Spec

-------------------------------------------------------------------------------
(***************************************************************************)
(* What the source says of itself and the code does not keep.              *)
(***************************************************************************)

\* "malloc promises 8-byte alignment", and memalign what it is asked for.
AllAligned == \A p \in Held : p % ALIGN = 0

===============================================================================
