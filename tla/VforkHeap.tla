------------------------------ MODULE VforkHeap ------------------------------
(***************************************************************************)
(* The heap of malloc.c across a vfork.  The child runs on the parent's    *)
(* memory until it execs or exits; _vfork_process() saves the roots of the *)
(* heap before and puts them back after (__malloc_vfork_save, _restore),   *)
(* and in between in_vfork_window closes the paths that would give the     *)
(* child a mapping of the parent's.                                        *)
(*                                                                         *)
(* What is put back are the roots; the links and sizes of the free blocks  *)
(* are in the pools themselves.  So the free list is here what it is in    *)
(* the code: a head in struct mset and nodes in memory, a node lying over  *)
(* the header of the block it was.                                         *)
(*                                                                         *)
(* This is the part of the allocator for blocks below RETIRED_FIT_MIN,     *)
(* under a kernel that resizes no mapping and with no room in the mapping  *)
(* cache: PoolMalloc has the rest.  The child frees only what it allocated *)
(* itself, as vfork demands.  One vfork is followed to its end.            *)
(*                                                                         *)
(* The library itself holds a block too, the buffer of stderr (stdio.c):   *)
(* it is allocated by the first write, in the parent or in the child, and  *)
(* the restore leaves its address alone.                                   *)
(***************************************************************************)
EXTENDS Integers, Sequences, FiniteSets

CONSTANTS
    Sizes,              \* the byte counts asked for
    MaxBlocks,          \* bound: the programs hold no more blocks than this
    STDERR_BUFSIZ,
    ALIGN, LONG, HDR, MSET,
    PGSIZE,
    MAP_END,            \* the kernel has the pages in PGSIZE .. MAP_END - 1
    MSETLEN_MIN, MSETLEN_MAX

\* Pools are doubled, from the least to the largest.
Doublings == {1, 2, 4, 8, 16, 32, 64, 128, 256}

ASSUME VforkHeapAssumption ==
    /\ Sizes \subseteq Nat /\ {MaxBlocks, STDERR_BUFSIZ} \subseteq Nat
    /\ \A n \in {ALIGN, LONG, HDR, MSET, PGSIZE, MSETLEN_MIN} : n \in Nat \ {0}
    /\ HDR % ALIGN = 0 /\ MSET % ALIGN = 0 /\ PGSIZE % ALIGN = 0
    /\ LONG <= ALIGN /\ HDR < PGSIZE
    /\ MSETLEN_MIN % PGSIZE = 0 /\ MSETLEN_MAX \in {MSETLEN_MIN * k : k \in Doublings}
    /\ MAP_END \in Nat

VARIABLES
    heap,       \* the roots, the pools and the kernel's pages, see Init
    word,       \* memory: the two words the allocator last wrote at an address,
                \* a node's next and block_size or a header's moff and size
    blocks,     \* pointer -> who holds it, and how many bytes they asked for
    saved,      \* what __malloc_vfork_save() put aside
    running,    \* "parent", "child" in the window, "resumed" after it
    obuf        \* the buffer of stderr

vars == <<heap, word, blocks, saved, running, obuf>>

NULL == 0
RoundUp(n, a) == n + ((-n) % a)
Least(S) == CHOOSE x \in S : \A y \in S : x <= y
Greatest(S) == CHOOSE x \in S : \A y \in S : x >= y
Without(f, S) == [x \in DOMAIN f \ S |-> f[x]]
With(f, x, v) == [y \in DOMAIN f \cup {x} |-> IF y = x THEN v ELSE f[y]]

Lazy == -1        \* STDIO_OBUF_LAZY: no buffer yet

AllocSize(n) == RoundUp(n + HDR, ALIGN)
Want(n) == AllocSize(n) + MSET + ALIGN
InWindow == running = "child"

-------------------------------------------------------------------------------
(***************************************************************************)
(* The kernel: pages, the lowest free run first.                           *)
(***************************************************************************)

Memory == {a \in PGSIZE .. MAP_END - 1 : a % PGSIZE = 0}
Pages(base, len) == {a \in base .. base + len - 1 : a % PGSIZE = 0}

FreeRuns(h, len) == {b \in Memory : Pages(b, len) \subseteq Memory \ h.mapped}

Munmap(h, b) ==
    [h EXCEPT !.mapped = @ \ Pages(b, h.pools[b].len), !.pools = Without(@, {b})]

-------------------------------------------------------------------------------
(***************************************************************************)
(* The free list in memory.                                                *)
(***************************************************************************)

\* Where a walk along the links comes to, one after the other; it stands still
\* where there is no link to follow.
Follow(next, x) == IF x \in DOMAIN next THEN next[x] ELSE NULL

Walk(next, head) ==
    LET at[i \in 0 .. Cardinality(DOMAIN next)] ==
          IF i = 0 THEN head ELSE Follow(next, at[i - 1])
    IN  at

\* The nodes it meets.
Met(next, head) == {Walk(next, head)[i] : i \in DOMAIN Walk(next, head)} \cap DOMAIN next

Links(f) == [x \in DOMAIN f |-> f[x].next]

NodesOf(h, w, b) == Met(Links(w), h.pools[b].freelist)

Before(nodes, a) == IF \E x \in nodes : x < a THEN Greatest({x \in nodes : x < a}) ELSE NULL
After(nodes, a) == IF \E x \in nodes : x > a THEN Least({x \in nodes : x > a}) ELSE NULL

\* freelist_insert(): the memory with block `a` linked in between prev and cur,
\* and merged with them where they touch.
Linked(w, a, size, prev, cur) ==
    LET joinsCur  == cur # NULL /\ a + size = cur
        joinsPrev == prev # NULL /\ prev + w[prev].size = a
        next      == IF joinsCur THEN w[cur].next ELSE cur
        all       == IF joinsCur THEN size + w[cur].size ELSE size
    IN  IF joinsPrev
          THEN [With(w, a, [next |-> next, size |-> all]) EXCEPT
                  ![prev] = [next |-> next, size |-> @.size + all]]
          ELSE IF prev = NULL
                 THEN With(w, a, [next |-> next, size |-> all])
                 ELSE [With(w, a, [next |-> next, size |-> all]) EXCEPT ![prev].next = a]

\* An operation leaves a heap and the memory; a step is made of one or more.
State(h, w) == [heap |-> h, word |-> w]

FreelistInsert(h, w, b, a, size) ==
    LET prev == Before(NodesOf(h, w, b), a)
    IN  State(IF prev = NULL THEN [h EXCEPT !.pools[b].freelist = a] ELSE h,
              Linked(w, a, size, prev, After(NodesOf(h, w, b), a)))

BlockFits(w, a, alloc) == w[a].size >= alloc /\ (a + HDR) % PGSIZE # 0

Fitting(h, w, b, alloc) == {a \in NodesOf(h, w, b) : BlockFits(w, a, alloc)}

\* take_block() of the block at `a`, and the header malloc() then writes there.
TakeBlock(h, w, b, a, n) ==
    LET alloc == AllocSize(n)
        rest  == w[a].size - alloc
        prev  == Before(NodesOf(h, w, b), a)
        split == rest >= 2 * HDR
        link  == IF split THEN a + alloc ELSE w[a].next
        kept  == IF split THEN With(w, link, [next |-> w[a].next, size |-> rest]) ELSE w
        past  == IF prev = NULL THEN kept ELSE [kept EXCEPT ![prev].next = link]
    IN  State([h EXCEPT !.pools[b].refs = @ + 1,
                        !.pools[b].freelist = IF prev = NULL THEN link ELSE @],
              [past EXCEPT ![a] = [next |-> a - b, size |-> n]])

-------------------------------------------------------------------------------
(***************************************************************************)
(* Pools.                                                                  *)
(***************************************************************************)

\* The retired pools, first to last, and nothing behind them.
OldPools(h) == Walk(Links(h.pools), h.old)
Retired(h) == Met(Links(h.pools), h.old)

\* The pools blocks are taken from.
Serving(h) == ({h.pool} \ {NULL}) \cup Retired(h)

\* Fault: the bump pointer stays where it was.
RetireKeepsBump(h, w, b) ==
    LET m    == h.pools[b]
        tail == RoundUp(m.size, ALIGN)
        full == [h EXCEPT !.pools[b].next = h.old, !.old = b]
    IN  IF m.len - tail >= 2 * HDR
          THEN FreelistInsert(full, w, b, b + tail, m.len - tail)
          ELSE State(full, w)

\* retire(): onto the list of old pools, what the bump pointer had left onto
\* the free list.
Retire(h, w, b) ==
    LET m    == h.pools[b]
        tail == RoundUp(m.size, ALIGN)
        full == [h EXCEPT !.pools[b].size = m.len, !.pools[b].next = h.old, !.old = b]
    IN  IF m.len - tail >= 2 * HDR
          THEN FreelistInsert(full, w, b, b + tail, m.len - tail)
          ELSE State(full, w)

\* The current pool is put aside: retired, kept as the spare, or unmapped.
SetAside(h, w, b) ==
    CASE h.pools[b].refs > 0 -> Retire(h, w, b)
      [] h.pools[b].refs = 0 /\ h.pool1 = NULL -> State([h EXCEPT !.pool1 = b], w)
      [] OTHER -> State(Munmap(h, b), w)

\* ... by mk_pool(), which keeps the larger of two spares.
Replaced(h, w, b) ==
    IF /\ h.pools[b].refs = 0
       /\ h.pool1 # NULL
       /\ h.pools[b].len > h.pools[h.pool1].len
      THEN State([Munmap(h, h.pool1) EXCEPT !.pool1 = b], w)
      ELSE SetAside(h, w, b)

Emptied(m) == [m EXCEPT !.size = MSET, !.refs = 0, !.freelist = NULL]

\* pool_len_for(), the length of a pool that cannot grow.
PoolLenFor(h, want) ==
    LET longer == {n \in {h.class * k : k \in Doublings} : n >= want /\ n <= MSETLEN_MAX}
    IN  IF longer = {} THEN RoundUp(want, PGSIZE) ELSE Least(longer)

NewLen(h, want) == IF InWindow THEN PoolLenFor(h, want) ELSE RoundUp(want, PGSIZE)

Widened(h) == IF h.class < MSETLEN_MAX THEN [h EXCEPT !.class = 2 * @] ELSE h

\* The rest of mk_pool(), once there is no current pool: the spare, or a new
\* mapping, or none.
Provided(h, want) ==
    LET runs == FreeRuns(h, NewLen(h, want))
        b    == Least(runs)
    IN  IF h.pool1 # NULL /\ h.pools[h.pool1].len >= want
          THEN [h EXCEPT !.pool = h.pool1, !.pool1 = NULL, !.pools[h.pool1] = Emptied(@)]
          ELSE IF runs = {}
                 THEN [h EXCEPT !.pool = NULL]
                 ELSE [h EXCEPT !.mapped = @ \cup Pages(b, NewLen(h, want)),
                                !.pool = b,
                                !.pools = With(@, b, [len |-> NewLen(h, want), size |-> MSET,
                                                      refs |-> 0, freelist |-> NULL,
                                                      next |-> NULL])]

MkPool(h, w, want) ==
    IF h.pool = NULL
      THEN State(Provided(h, want), w)
      ELSE IF h.pools[h.pool].refs = 0 /\ h.pools[h.pool].len >= want
             THEN State([h EXCEPT !.pools[h.pool] = Emptied(@)], w)
             ELSE LET s == Replaced(h, w, h.pool)
                      g == Provided([s.heap EXCEPT !.pool = NULL], want)
                  IN  State(IF g.pool # NULL /\ g.mapped # s.heap.mapped
                              THEN Widened(g) ELSE g, s.word)

Skip(a) == IF (a + HDR) % PGSIZE = 0 THEN a + LONG ELSE a

HasBumpRoom(h, n) ==
    Skip(h.pool + h.pools[h.pool].size) + AllocSize(n) <= h.pool + h.pools[h.pool].len

\* The next block of the current pool, and its header.
Bump(h, w, n) ==
    LET a == Skip(h.pool + h.pools[h.pool].size)
    IN  State([h EXCEPT !.pools[h.pool].refs = @ + 1,
                        !.pools[h.pool].size = Skip(a + AllocSize(n)) - h.pool],
              With(w, a, [next |-> a - h.pool, size |-> n]))

\* Fault: a child may promote a retired pool, as the parent may.
PromotableAnytime(h, w, alloc) ==
    {i \in DOMAIN OldPools(h) : OldPools(h)[i] \in Retired(h) /\ Fitting(h, w, OldPools(h)[i], alloc) # {}}

\* old_pool_take() finds nothing in the window: "a child that promoted one of
\* the parent's old pools would have it unmapped out from under" its blocks.
Promotable(h, w, alloc) ==
    IF InWindow THEN {}
    ELSE {i \in DOMAIN OldPools(h) :
             OldPools(h)[i] \in Retired(h) /\ Fitting(h, w, OldPools(h)[i], alloc) # {}}

\* A pool taken off the retired list.
Unlisted(h, b) ==
    [h EXCEPT !.old = IF @ = b THEN h.pools[b].next ELSE @,
              !.pools = [x \in DOMAIN @ |->
                  IF @[x].next = b /\ x \in Retired(h)
                    THEN [@[x] EXCEPT !.next = h.pools[b].next] ELSE @[x]]]

Promoted(h, w, b, n) ==
    LET t == TakeBlock(h, w, b, Least(Fitting(h, w, b, AllocSize(n))), n)
        s == SetAside(Unlisted(t.heap, b), t.word, h.pool)
    IN  State([s.heap EXCEPT !.pool = b], s.word)

-------------------------------------------------------------------------------
(***************************************************************************)
(* The calls.                                                              *)
(***************************************************************************)

Init ==
    /\ heap = [mapped |-> {}, pools |-> [b \in {} |-> NULL],
               pool |-> NULL, pool1 |-> NULL, old |-> NULL, class |-> MSETLEN_MIN]
    /\ word = [a \in {} |-> NULL]
    /\ blocks = [p \in {} |-> NULL]
    /\ saved = [pool |-> NULL, pool1 |-> NULL, old |-> NULL, size |-> 0, refs |-> 0,
                freelist |-> NULL]
    /\ running = "parent"
    /\ obuf = Lazy

\* Memory as far as anyone can still read it: the headers of the blocks held,
\* the lists, and what the saved list head leads to.
Reachable(h, w, held, head) ==
    {p - HDR : p \in held}
    \cup UNION {NodesOf(h, w, b) : b \in Serving(h) \cap DOMAIN h.pools}
    \cup Met(Links(w), head)

Kept(h, w, held, head) ==
    [a \in {x \in DOMAIN w \cap Reachable(h, w, held, head) :
              (x - (x % PGSIZE)) \in h.mapped} |-> w[a]]

\* Whoever runs asks for n bytes: the program, while there is room in the
\* bound, or stdio_lazy_obuf() at the first write to stderr.
Asks(n, user) ==
    /\ running # "resumed"
    /\ IF user = "program"
       THEN n \in Sizes /\ Cardinality(DOMAIN blocks \ {obuf}) < MaxBlocks
       ELSE n = STDERR_BUFSIZ /\ obuf = Lazy

\* What malloc() gives is the program's, or stderr's; without memory that has
\* no buffer from then on.
Gives(p, user) == obuf' = IF user = "program" THEN obuf ELSE p

\* malloc() returns the block whose header is at a.
Returns(s, a, n, user) ==
    /\ heap' = s.heap
    /\ blocks' = With(blocks, a + HDR, [owner |-> running, size |-> n])
    /\ word' = Kept(heap', s.word, DOMAIN blocks', saved.freelist)
    /\ Gives(a + HDR, user)
    /\ UNCHANGED <<saved, running>>

\* malloc() from the free list of the current pool.
MallocListed(n, user) ==
    /\ Asks(n, user) /\ heap.pool # NULL
    /\ Fitting(heap, word, heap.pool, AllocSize(n)) # {}
    /\ LET a == Least(Fitting(heap, word, heap.pool, AllocSize(n)))
       IN  Returns(TakeBlock(heap, word, heap.pool, a, n), a, n, user)

NotListed(n, user) ==
    /\ Asks(n, user) /\ heap.pool # NULL
    /\ Fitting(heap, word, heap.pool, AllocSize(n)) = {}

\* ... from its bump room.
MallocBump(n, user) ==
    /\ NotListed(n, user)
    /\ HasBumpRoom(heap, n)
    /\ Returns(Bump(heap, word, n), Skip(heap.pool + heap.pools[heap.pool].size), n, user)

\* ... from a retired pool, which becomes the current one.
MallocPromote(n, user) ==
    /\ NotListed(n, user)
    /\ ~HasBumpRoom(heap, n)
    /\ Promotable(heap, word, AllocSize(n)) # {}
    /\ LET b == OldPools(heap)[Least(Promotable(heap, word, AllocSize(n)))]
       IN  Returns(Promoted(heap, word, b, n), Least(Fitting(heap, word, b, AllocSize(n))), n, user)

\* ... from a pool mk_pool() provides, or there is none.
MallocNewPool(n, user) ==
    /\ Asks(n, user)
    /\ heap.pool # NULL => /\ NotListed(n, user)
                           /\ ~HasBumpRoom(heap, n)
                           /\ Promotable(heap, word, AllocSize(n)) = {}
    /\ LET s == MkPool(heap, word, Want(n))
       IN  IF s.heap.pool = NULL
             THEN /\ heap' = s.heap
                  /\ word' = Kept(heap', s.word, DOMAIN blocks, saved.freelist)
                  /\ Gives(NULL, user)
                  /\ UNCHANGED <<blocks, saved, running>>
             ELSE Returns(Bump(s.heap, s.word, n),
                          Skip(s.heap.pool + s.heap.pools[s.heap.pool].size), n, user)

\* free(): the header leads to the pool; one that drains becomes the spare or
\* goes, unless it is the current one.
Freed(h, w, a) ==
    LET b    == a - w[a].next
        left == [h EXCEPT !.pools[b].refs = @ - 1]
    IN  IF left.pools[b].refs = 0 /\ b # h.pool
          THEN State(IF h.pool1 = NULL THEN [Unlisted(left, b) EXCEPT !.pool1 = b]
                                       ELSE Munmap(Unlisted(left, b), b), w)
          ELSE FreelistInsert(left, w, b, a, AllocSize(w[a].size))

Free(p) ==
    /\ blocks[p].owner = running /\ p # obuf
    /\ heap' = Freed(heap, word, p - HDR).heap
    /\ blocks' = Without(blocks, {p})
    /\ word' = Kept(heap', Freed(heap, word, p - HDR).word, DOMAIN blocks', saved.freelist)
    /\ UNCHANGED <<saved, running, obuf>>

-------------------------------------------------------------------------------
(***************************************************************************)
(* The window.                                                             *)
(***************************************************************************)

Trimmed(h) == IF h.pool1 = NULL THEN h ELSE [Munmap(h, h.pool1) EXCEPT !.pool1 = NULL]

\* __stdio_vfork_prepare() does for stderr what its first write does, where
\* that has not been: stderr is not lazy any more when the child begins.
Prepared == obuf # Lazy

\* __malloc_vfork_save(), and the child runs.
Vfork ==
    /\ running = "parent" /\ Prepared
    /\ running' = "child"
    /\ heap' = Trimmed(heap)
    /\ word' = Kept(heap', word, DOMAIN blocks, NULL)
    /\ saved' = [pool |-> heap.pool, pool1 |-> NULL, old |-> heap.old,
                 size     |-> IF heap.pool = NULL THEN 0 ELSE heap.pools[heap.pool].size,
                 refs     |-> IF heap.pool = NULL THEN 0 ELSE heap.pools[heap.pool].refs,
                 freelist |-> IF heap.pool = NULL THEN NULL ELSE heap.pools[heap.pool].freelist]
    /\ UNCHANGED <<blocks, obuf>>

Orphaned(h, b) == b # NULL /\ b # saved.pool /\ b # saved.pool1

\* Fault: the count of live blocks stays the child's.
WoundBackButRefs(m) == [m EXCEPT !.size = saved.size, !.freelist = saved.freelist]

\* The scalars of the parent's current pool as they were.
WoundBack(m) == [m EXCEPT !.size = saved.size, !.refs = saved.refs, !.freelist = saved.freelist]

\* __malloc_vfork_restore() when the child has gone, with all it held.  A parent's
\* pool that was empty may have gone too, drained and unmapped: what the restore writes
\* to it then goes where nothing of this heap is.
Resume ==
    /\ running = "child"
    /\ running' = "resumed"
    /\ LET one == IF Orphaned(heap, heap.pool) THEN Munmap(heap, heap.pool) ELSE heap
           two == IF Orphaned(heap, heap.pool1) THEN Munmap(one, heap.pool1) ELSE one
       IN  heap' = [two EXCEPT
              !.pool = saved.pool, !.pool1 = saved.pool1, !.old = saved.old,
              !.pools = [b \in DOMAIN @ |-> IF b = saved.pool THEN WoundBack(@[b]) ELSE @[b]]]
    /\ blocks' = [p \in {q \in DOMAIN blocks : blocks[q].owner = "parent"} |-> blocks[p]]
    /\ word' = Kept(heap', word, DOMAIN blocks', NULL)
    /\ UNCHANGED <<saved, obuf>>

Calls == (Sizes \X {"program"}) \cup {<<STDERR_BUFSIZ, "stderr">>}

Next ==
    \/ \E c \in Calls : MallocListed(c[1], c[2])
    \/ \E c \in Calls : MallocBump(c[1], c[2])
    \/ \E c \in Calls : MallocPromote(c[1], c[2])
    \/ \E c \in Calls : MallocNewPool(c[1], c[2])
    \/ \E p \in DOMAIN blocks : Free(p)
    \/ Vfork
    \/ Resume

Spec == Init /\ [][Next]_vars

-------------------------------------------------------------------------------
(***************************************************************************)
(* Properties.                                                             *)
(***************************************************************************)

PoolOf(p) == p - HDR - word[p - HDR].next
LiveIn(b) == {p \in DOMAIN blocks : PoolOf(p) = b}

\* Where the live and the free blocks of pool b lie.
Extents(b) ==
    {<<p - HDR, AllocSize(blocks[p].size)>> : p \in LiveIn(b)}
    \cup {<<a, word[a].size>> : a \in NodesOf(heap, word, b)}

\* A pool's pages are mapped, its list is sorted and ends, and the list and the
\* live blocks lie below the bump pointer without an overlap.
SoundPool(b) ==
    LET m == heap.pools[b]
        nodes == NodesOf(heap, word, b)
    IN  /\ Pages(b, m.len) \subseteq heap.mapped /\ m.size <= m.len
        /\ m.freelist \in nodes \cup {NULL}
        /\ \A a \in nodes : word[a].next # NULL =>
              word[a].next \in nodes /\ a + word[a].size < word[a].next
        /\ LiveIn(b) \cap {a + HDR : a \in nodes} = {}
        /\ \A e \in Extents(b) :
              /\ b + MSET <= e[1] /\ e[1] + e[2] <= b + m.size
              /\ \A f \in Extents(b) \ {e} : e[1] + e[2] <= f[1] \/ f[1] + f[2] <= e[1]

Sound ==
    \A b \in Serving(heap) :
        /\ b \in DOMAIN heap.pools
        /\ SoundPool(b)

\* While parent and child share the heap, neither is handed memory that is the
\* other's or on a list: the links in memory say what the roots assume.
SoundWhileShared == running # "resumed" => Sound

\* What the parent held at the vfork it holds afterwards, mapped and with its
\* header as it was, whatever pools the child retired, replaced or gave back
\* and whichever the restore unmaps; and what stderr is buffered in is held by
\* the parent, whoever wrote to it first.
ParentBlocksKept ==
    /\ \A p \in DOMAIN blocks : blocks[p].owner = "parent" =>
          /\ p - HDR \in DOMAIN word
          /\ word[p - HDR].size = blocks[p].size
          /\ PoolOf(p) \in DOMAIN heap.pools
          /\ p + blocks[p].size <= PoolOf(p) + heap.pools[PoolOf(p)].len
    /\ running = "resumed" => obuf \in DOMAIN blocks \cup {NULL}

\* Back in the parent, its current pool counts the blocks the parent has in
\* it, and will not bump into one of them.
ResumedCounts ==
    running = "resumed" /\ heap.pool \in DOMAIN heap.pools =>
        /\ heap.pools[heap.pool].refs = Cardinality(LiveIn(heap.pool))
        /\ \A p \in LiveIn(heap.pool) :
              p - HDR + AllocSize(blocks[p].size) <= heap.pool + heap.pools[heap.pool].size

(***************************************************************************)
(* What the source says of itself and the code does not keep.              *)
(***************************************************************************)

\* "vfork save/restore -- prevents child from corrupting parent's pool state":
\* the parent's pools are sound again once it has its roots back.
SoundAfterwards == running = "resumed" => Sound
===============================================================================
