-------------------------- MODULE PoolMallocProofs --------------------------
(***************************************************************************)
(* The safety properties of PoolMalloc, for every value of its constants   *)
(* that PoolSizes allows, and that it implements HeapSpec.                 *)
(*                                                                         *)
(* First what each operation on the heap preserves, whatever the program   *)
(* holds: the parts, a pool's free list, the kernel's pages and who owns   *)
(* them, the cache of parked mappings; then the heap, described relative   *)
(* to what is outside it, the live blocks of each pool, used, and the      *)
(* spans of the large blocks, F.  Between two steps of one operation a     *)
(* pool may be on no list at all, so the pools that are current, spare and *)
(* dangling are given apart from the fields that name them.                *)
(*                                                                         *)
(* Then the program.  The inductive invariant says that the headers of its *)
(* blocks are in order and that the heap is sound for what they say is     *)
(* live: the blocks in each pool, UsedOf, and the mappings, MappedBy.      *)
(***************************************************************************)
EXTENDS PoolSizes, NumberFacts, FiniteSetTheorems, TLAPS

-------------------------------------------------------------------------------
(***************************************************************************)
(* Numbers.                                                                *)
(***************************************************************************)

LEMMA ConstantsAre ==
    /\ ALIGN \in Nat \ {0} /\ LONG \in Nat \ {0} /\ HDR \in Nat \ {0}
    /\ MSET \in Nat \ {0} /\ LARGE_HDR \in Nat \ {0} /\ PGSIZE \in Nat \ {0}
    /\ RETIRED_FIT_MIN \in Nat \ {0}
    /\ MAP_END \in Nat
    /\ LARGE_CACHE_SLOTS \in Nat /\ LARGE_CACHE_MAX_BYTES \in Nat
    /\ LONG <= ALIGN /\ ALIGN <= HDR
    /\ LARGE_HDR = HDR + HDR
    /\ LARGE_HDR < PGSIZE
    /\ RETIRED_FIT_MIN >= HDR + HDR
    /\ HDR % ALIGN = 0
  <1>1. /\ ALIGN \in Nat \ {0} /\ LONG \in Nat \ {0} /\ HDR \in Nat \ {0}
        /\ MSET \in Nat \ {0} /\ LARGE_HDR \in Nat \ {0} /\ PGSIZE \in Nat \ {0}
        /\ RETIRED_FIT_MIN \in Nat \ {0}
        /\ HDR % ALIGN = 0
    BY PoolMallocAssumption
  <1>2. HDR >= ALIGN
    BY <1>1, AtLeastAsBig
  <1>3. 2 * HDR = HDR + HDR
    BY <1>1
  <1> QED  BY <1>1, <1>2, <1>3, PoolMallocAssumption

\* A finite set with one member more.
LEMMA MemberMore ==
    ASSUME NEW S, IsFiniteSet(S), NEW x, x \notin S, NEW T, T = S \cup {x}
    PROVE  IsFiniteSet(T) /\ Cardinality(T) = Cardinality(S) + 1
  BY FS_AddElement, Zenon

LEMMA LeastIs ==
    ASSUME NEW S, S \subseteq Nat, S # {}
    PROVE  Least(S) \in S /\ \A y \in S : Least(S) <= y
  BY LeastOf DEF Least

LEMMA GreatestIs ==
    ASSUME NEW S, S \subseteq Nat, S # {}, NEW n \in Nat, \A x \in S : x <= n
    PROVE  Greatest(S) \in S /\ \A y \in S : Greatest(S) >= y
  BY GreatestOf DEF Greatest

LEMMA RoundUpIs ==
    ASSUME NEW x \in Nat, NEW a \in Nat \ {0}
    PROVE  /\ RoundUp(x, a) \in Nat
           /\ x <= RoundUp(x, a)
           /\ RoundUp(x, a) < x + a
           /\ RoundUp(x, a) % a = 0
  BY PaddingReaches DEF RoundUp

\* What a pool spends on a block of n bytes.
LEMMA AllocSizeIs ==
    ASSUME NEW n \in Nat
    PROVE  /\ AllocSize(n) \in Nat \ {0}
           /\ n + HDR <= AllocSize(n)
           /\ AllocSize(n) < n + HDR + ALIGN
           /\ AllocSize(n) % ALIGN = 0
  <1>1. n + HDR \in Nat /\ ALIGN \in Nat \ {0} /\ HDR \in Nat \ {0}
    BY ConstantsAre
  <1>2. /\ AllocSize(n) \in Nat
        /\ n + HDR <= AllocSize(n)
        /\ AllocSize(n) < n + HDR + ALIGN
        /\ AllocSize(n) % ALIGN = 0
    BY <1>1, RoundUpIs, Zenon DEF AllocSize
  <1> QED  BY <1>1, <1>2

\* ... which is no less for more.
LEMMA AllocSizeGrows ==
    ASSUME NEW m \in Nat, NEW n \in Nat, m <= n
    PROVE  AllocSize(m) <= AllocSize(n)
  <1> DEFINE a == AllocSize(m)
             b == AllocSize(n)
  <1>1. /\ a \in Nat /\ a < m + HDR + ALIGN /\ a % ALIGN = 0
        /\ b \in Nat /\ n + HDR <= b /\ b % ALIGN = 0
    BY AllocSizeIs
  <1> HIDE DEF a, b
  <1>2. SUFFICES ASSUME a > b  PROVE FALSE
    BY <1>1 DEF a, b
  <1>3. a - b \in Nat \ {0} /\ (a - b) % ALIGN = 0
    BY <1>1, <1>2, ConstantsAre, MultiplesAdd
  <1>4. a - b >= ALIGN
    BY <1>3, ConstantsAre, AtLeastAsBig
  <1> QED  BY <1>1, <1>4, ConstantsAre

-------------------------------------------------------------------------------
(***************************************************************************)
(* A pool's blocks.  The free and the used ones, each a function from the  *)
(* offset of a block to its size, lie between the pool's header and `end`  *)
(* and apart from each other, and no two free ones touch.                  *)
(***************************************************************************)
Tiled(free, used, end) ==
    /\ DOMAIN free \subseteq Nat /\ DOMAIN used \subseteq Nat
    /\ \A x \in DOMAIN free : free[x] \in Nat \ {0} /\ MSET <= x /\ x + free[x] <= end
    /\ \A x \in DOMAIN used : used[x] \in Nat \ {0} /\ MSET <= x /\ x + used[x] <= end
    /\ \A x, y \in DOMAIN free : x < y => x + free[x] < y
    /\ \A x, y \in DOMAIN used : x < y => x + used[x] <= y
    /\ \A x \in DOMAIN free, y \in DOMAIN used : x + free[x] <= y \/ y + used[y] <= x

\* There is room for a block of `size` bytes at `off`.
Clear(free, used, off, size) ==
    /\ \A x \in DOMAIN free : x + free[x] <= off \/ off + size <= x
    /\ \A x \in DOMAIN used : x + used[x] <= off \/ off + size <= x

BigOf(free) == {x \in DOMAIN free : IsBig(free[x])}

LEMMA PrevIs ==
    ASSUME NEW free, NEW used, NEW end \in Nat, Tiled(free, used, end), NEW off \in Nat
    PROVE  /\ PrevOf(free, off) \in Nat
           /\ PrevOf(free, off) # NULL =>
                 PrevOf(free, off) \in DOMAIN free /\ PrevOf(free, off) < off
           /\ \A x \in DOMAIN free : x < off =>
                 PrevOf(free, off) # NULL /\ x <= PrevOf(free, off)
  <1> DEFINE S == {x \in DOMAIN free : x < off}
  <1>1. CASE S = {}
    <2>1. PrevOf(free, off) = NULL
      BY <1>1 DEF PrevOf
    <2> QED  BY <1>1, <2>1 DEF NULL
  <1>2. CASE S # {}
    <2>1. S \subseteq Nat /\ \A x \in S : x <= off
      BY DEF Tiled
    <2>2. Greatest(S) \in S /\ \A y \in S : Greatest(S) >= y
      BY <1>2, <2>1, GreatestIs, Zenon
    <2>3. PrevOf(free, off) = Greatest(S)
      BY <1>2 DEF PrevOf
    <2> DEFINE g == Greatest(S)
    <2> HIDE DEF g
    <2>4. g \in Nat /\ g \in DOMAIN free /\ g < off /\ MSET <= g
          /\ \A y \in DOMAIN free : y < off => y <= g
      BY <2>2 DEF g, Tiled
    <2>5. g # NULL
      BY <2>4, ConstantsAre DEF NULL
    <2> QED  BY <2>3, <2>4, <2>5 DEF g
  <1> QED  BY <1>1, <1>2

LEMMA CurIs ==
    ASSUME NEW free, NEW used, NEW end \in Nat, Tiled(free, used, end), NEW off \in Nat
    PROVE  /\ CurOf(free, off) \in Nat
           /\ CurOf(free, off) # NULL =>
                 CurOf(free, off) \in DOMAIN free /\ CurOf(free, off) > off
           /\ \A x \in DOMAIN free : x > off =>
                 CurOf(free, off) # NULL /\ x >= CurOf(free, off)
  <1> DEFINE S == {x \in DOMAIN free : x > off}
  <1>1. CASE S = {}
    <2>1. CurOf(free, off) = NULL
      BY <1>1 DEF CurOf
    <2> QED  BY <1>1, <2>1 DEF NULL
  <1>2. CASE S # {}
    <2>1. S \subseteq Nat
      BY DEF Tiled
    <2>2. Least(S) \in S /\ \A y \in S : Least(S) <= y
      BY <1>2, <2>1, LeastIs, Zenon
    <2>3. CurOf(free, off) = Least(S)
      BY <1>2 DEF CurOf
    <2> DEFINE g == Least(S)
    <2> HIDE DEF g
    <2>4. g \in Nat /\ g \in DOMAIN free /\ g > off
          /\ \A y \in DOMAIN free : y > off => y >= g
      BY <2>2 DEF g, Tiled
    <2>5. g # NULL
      BY <2>4 DEF NULL
    <2> QED  BY <2>3, <2>4, <2>5 DEF g
  <1> QED  BY <1>1, <1>2

LEMMA BigBeforeIs ==
    ASSUME NEW free, NEW used, NEW end \in Nat, Tiled(free, used, end), NEW prev \in Nat
    PROVE  /\ BigBefore(free, prev) \in Nat
           /\ BigBefore(free, prev) # NULL =>
                 BigBefore(free, prev) \in BigOf(free) /\ BigBefore(free, prev) < prev
           /\ \A x \in BigOf(free) : x < prev =>
                 BigBefore(free, prev) # NULL /\ x <= BigBefore(free, prev)
  <1> DEFINE S == {x \in DOMAIN free : x < prev /\ IsBig(free[x])}
  <1>1. CASE S = {}
    <2>1. BigBefore(free, prev) = NULL
      BY <1>1 DEF BigBefore
    <2> QED  BY <1>1, <2>1 DEF NULL, BigOf
  <1>2. CASE S # {}
    <2>1. S \subseteq Nat /\ \A x \in S : x <= prev
      BY DEF Tiled
    <2>2. Greatest(S) \in S /\ \A y \in S : Greatest(S) >= y
      BY <1>2, <2>1, GreatestIs, Zenon
    <2>3. BigBefore(free, prev) = Greatest(S)
      BY <1>2 DEF BigBefore
    <2> DEFINE g == Greatest(S)
    <2> HIDE DEF g
    <2>4. g \in Nat /\ g \in DOMAIN free /\ IsBig(free[g]) /\ g < prev /\ MSET <= g
          /\ \A y \in DOMAIN free : y < prev /\ IsBig(free[y]) => y <= g
      BY <2>2 DEF g, Tiled
    <2>5. g # NULL
      BY <2>4, ConstantsAre DEF NULL
    <2> QED  BY <2>3, <2>4, <2>5 DEF g, BigOf
  <1> QED  BY <1>1, <1>2

(***************************************************************************)
(* A block put on the free list, merged with the neighbours it touches.    *)
(***************************************************************************)
LEMMA InsertedIs ==
    ASSUME NEW free, NEW used, NEW end \in Nat, Tiled(free, used, end),
           NEW off \in Nat, NEW size \in Nat \ {0}, MSET <= off, off + size <= end,
           Clear(free, used, off, size),
           NEW prev, prev = PrevOf(free, off),
           NEW cur, cur = CurOf(free, off),
           NEW start, start = IF JoinsPrev(free, off, prev) THEN prev ELSE off,
           NEW new, new = Inserted(free, off, size, prev, cur)
    PROVE  /\ new = [x \in DOMAIN new |-> new[x]]
           /\ start \in DOMAIN new /\ start \in Nat /\ MSET <= start
           /\ \A x \in DOMAIN new \ {start} : x \in DOMAIN free /\ new[x] = free[x]
           /\ \A x \in DOMAIN free : x \in DOMAIN new \/ (x = cur /\ JoinsCur(off, size, cur))
           /\ JoinsCur(off, size, cur) => cur \notin DOMAIN new
           /\ Tiled(new, used, end)
  <1> DEFINE last == IF JoinsCur(off, size, cur) THEN cur + free[cur] ELSE off + size
             gone == {x \in DOMAIN free : start <= x /\ x < last}
  <1>1. /\ prev \in Nat
        /\ prev # NULL => prev \in DOMAIN free /\ prev < off
        /\ \A x \in DOMAIN free : x < off => prev # NULL /\ x <= prev
    BY PrevIs
  <1>2. /\ cur \in Nat
        /\ cur # NULL => cur \in DOMAIN free /\ cur > off
        /\ \A x \in DOMAIN free : x > off => cur # NULL /\ x >= cur
    BY CurIs
  <1>3. new = With(Without(free, gone), start, last - start)
    BY DEF Inserted
  <1>4. /\ DOMAIN new = (DOMAIN free \ gone) \cup {start}
        /\ new = [x \in DOMAIN new |-> new[x]]
        /\ new[start] = last - start
        /\ \A x \in DOMAIN new \ {start} : new[x] = free[x]
    <2> DEFINE kept == Without(free, gone)
    <2>1. DOMAIN kept = DOMAIN free \ gone /\ \A x \in DOMAIN free \ gone : kept[x] = free[x]
      BY DEF Without
    <2> HIDE DEF gone, last, kept
    <2>2. /\ new = [x \in DOMAIN new |-> new[x]]
          /\ DOMAIN new = DOMAIN kept \cup {start}
          /\ new[start] = last - start
          /\ \A x \in DOMAIN kept \ {start} : new[x] = kept[x]
      BY <1>3 DEF With, kept
    <2> QED  BY <2>1, <2>2
  <1>5. /\ start \in Nat /\ MSET <= start /\ start <= off
        /\ last \in Nat /\ off + size <= last /\ last <= end
    BY <1>1, <1>2, ConstantsAre DEF JoinsPrev, JoinsCur, Tiled
  \* Every other free block is before or behind the merged one.
  <1>6. \A x \in DOMAIN free \ gone : x # start => x + free[x] < start \/ last < x
    <2> SUFFICES ASSUME NEW x \in DOMAIN free, x \notin gone, x # start
                 PROVE  x + free[x] < start \/ last < x
      OBVIOUS
    <2>1. x < start \/ last <= x
      BY <1>5 DEF Tiled
    <2>2. CASE x < start
      <3>1. CASE JoinsPrev(free, off, prev)
        BY <2>2, <3>1, <1>1 DEF Tiled, JoinsPrev
      <3>2. CASE ~JoinsPrev(free, off, prev)
        <4>1. start = off /\ x <= prev /\ prev # NULL
          BY <2>2, <3>2, <1>1
        <4>2. prev + free[prev] < off
          BY <4>1, <3>2, <1>1 DEF JoinsPrev, Tiled, Clear
        <4> QED  BY <4>1, <4>2, <1>1 DEF Tiled
      <3> QED  BY <3>1, <3>2
    <2>3. CASE last <= x
      <3>1. cur # NULL /\ x >= cur
        BY <2>3, <1>5, <1>2 DEF Tiled
      <3>2. CASE JoinsCur(off, size, cur)
        <4>1. x # cur
          BY <2>3, <3>2, <1>2 DEF Tiled
        <4> QED  BY <2>3, <3>1, <3>2, <4>1, <1>2 DEF Tiled
      <3>3. CASE ~JoinsCur(off, size, cur)
        <4>1. off + size < cur
          BY <3>1, <3>3, <1>2 DEF JoinsCur, Tiled, Clear
        <4> QED  BY <3>1, <3>3, <4>1, <1>2 DEF Tiled
      <3> QED  BY <3>2, <3>3
    <2> QED  BY <2>1, <2>2, <2>3
  \* No used block is in it.
  <1>7. \A y \in DOMAIN used : y + used[y] <= start \/ last <= y
    <2> TAKE y \in DOMAIN used
    <2>1. y + used[y] <= off \/ off + size <= y
      BY DEF Clear
    <2>2. CASE y + used[y] <= off
      BY <2>2, <1>1 DEF JoinsPrev, Tiled
    <2>3. CASE off + size <= y
      BY <2>3, <1>2 DEF JoinsCur, Tiled
    <2> QED  BY <2>1, <2>2, <2>3
  <1>8. /\ \A x \in DOMAIN free : x \in DOMAIN new \/ (x = cur /\ JoinsCur(off, size, cur))
        /\ JoinsCur(off, size, cur) => cur \notin DOMAIN new
    <2>1. ASSUME NEW x \in DOMAIN free, x \notin DOMAIN new
          PROVE  x = cur /\ JoinsCur(off, size, cur)
      <3>1. start <= x /\ x < last /\ x # start
        BY <2>1, <1>4
      <3>2. x >= off
        <4>1. CASE JoinsPrev(free, off, prev)
          BY <3>1, <4>1, <1>1 DEF Tiled
        <4> QED  BY <3>1, <4>1
      <3>3. x > off /\ off + size <= x
        BY <3>2, <1>5 DEF Clear, Tiled
      <3>4. cur # NULL /\ x >= cur
        BY <3>3, <1>2
      <3>5. JoinsCur(off, size, cur)
        BY <3>1, <3>3 DEF Tiled
      <3>6. ~ (x > cur)
        BY <3>1, <3>4, <3>5, <1>2 DEF Tiled
      <3> QED  BY <3>4, <3>5, <3>6, <1>2 DEF Tiled
    <2>2. ASSUME JoinsCur(off, size, cur)  PROVE cur \notin DOMAIN new
      <3>1. cur \in gone /\ cur # start
        BY <2>2, <1>2, <1>5 DEF JoinsCur, Tiled
      <3> QED  BY <3>1, <1>4
    <2> QED  BY <2>1, <2>2
  <1>9. Tiled(new, used, end)
    <2>1. /\ DOMAIN new \subseteq Nat
          /\ \A x \in DOMAIN new : new[x] \in Nat \ {0} /\ MSET <= x /\ x + new[x] <= end
      BY <1>4, <1>5 DEF Tiled
    <2>2. \A x, y \in DOMAIN new : x < y => x + new[x] < y
      <3> SUFFICES ASSUME NEW x \in DOMAIN new, NEW y \in DOMAIN new, x < y
                   PROVE  x + new[x] < y
        OBVIOUS
      <3> HIDE DEF gone, last
      <3>1. CASE x = start
        <4>1. y \in DOMAIN free \ gone /\ y # start
          BY <1>4, <3>1, <2>1
        <4>2. free[y] \in Nat /\ y \in Nat
          BY <4>1 DEF Tiled
        <4> QED  BY <1>4, <1>5, <1>6, <3>1, <4>1, <4>2
      <3>2. CASE y = start
        BY <1>4, <1>5, <1>6, <3>2, <2>1
      <3>3. CASE x # start /\ y # start
        BY <1>4, <3>3 DEF Tiled
      <3> QED  BY <3>1, <3>2, <3>3
    <2>3. \A x \in DOMAIN new, y \in DOMAIN used : x + new[x] <= y \/ y + used[y] <= x
      <3> SUFFICES ASSUME NEW x \in DOMAIN new, NEW y \in DOMAIN used
                   PROVE  x + new[x] <= y \/ y + used[y] <= x
        OBVIOUS
      <3> HIDE DEF gone, last
      <3>1. CASE x = start
        BY <1>4, <1>5, <1>7, <3>1
      <3>2. CASE x # start
        BY <1>4, <3>2 DEF Tiled
      <3> QED  BY <3>1, <3>2
    <2> HIDE DEF gone, last
    <2> QED  BY <2>1, <2>2, <2>3 DEF Tiled
  <1> HIDE DEF gone, last
  <1> QED  BY <1>4, <1>5, <1>8, <1>9

(***************************************************************************)
(* A block cut from a free one: what is left of that is on the list if it  *)
(* is enough for a block.                                                  *)
(***************************************************************************)
LEMMA TakenIs ==
    ASSUME NEW free, NEW used, NEW end \in Nat, Tiled(free, used, end),
           NEW off \in DOMAIN free, NEW alloc \in Nat \ {0}, alloc <= free[off],
           NEW new, new = TakeBlock(free, off, alloc)
    PROVE  /\ new = [x \in DOMAIN new |-> new[x]]
           /\ off \notin DOMAIN new
           /\ \A x \in DOMAIN new \ {off + alloc} : x \in DOMAIN free /\ new[x] = free[x]
           /\ DOMAIN free \ {off} \subseteq DOMAIN new
           /\ off + alloc \in DOMAIN new =>
                 /\ new[off + alloc] = free[off] - alloc
                 /\ free[off] - alloc >= 2 * HDR
           /\ free[off] - alloc >= 2 * HDR => off + alloc \in DOMAIN new
           /\ Tiled(new, With(used, off, alloc), end)
  <1> DEFINE rest == free[off] - alloc
             kept == Without(free, {off})
  <1>1. /\ DOMAIN kept = DOMAIN free \ {off}
        /\ kept = [x \in DOMAIN kept |-> kept[x]]
        /\ \A x \in DOMAIN free \ {off} : kept[x] = free[x]
    BY DEF Without
  <1>2. /\ off \in Nat /\ free[off] \in Nat /\ rest \in Nat /\ MSET <= off
        /\ off + free[off] <= end /\ off + alloc \in Nat
    BY DEF Tiled
  <1>3. new = IF rest >= 2 * HDR THEN With(kept, off + alloc, rest) ELSE kept
    BY DEF TakeBlock
  <1>4. off + alloc \notin DOMAIN kept
    BY <1>1, <1>2 DEF Tiled
  <1> HIDE DEF rest, kept
  <1>5. CASE ~ (rest >= 2 * HDR)
    <2>1. new = kept
      BY <1>3, <1>5
    <2>2. Tiled(new, With(used, off, alloc), end)
      <3>1. /\ DOMAIN With(used, off, alloc) = DOMAIN used \cup {off}
            /\ With(used, off, alloc)[off] = alloc
            /\ \A y \in DOMAIN used \ {off} : With(used, off, alloc)[y] = used[y]
        BY DEF With
      <3> DEFINE w == With(used, off, alloc)
      <3> HIDE DEF w
      <3>2. /\ DOMAIN w = DOMAIN used \cup {off}
            /\ w[off] = alloc
            /\ \A y \in DOMAIN used : y # off /\ w[y] = used[y]
        BY <3>1 DEF w, Tiled
      <3>3. Tiled(kept, w, end)
        BY <3>2, <1>1, <1>2 DEF Tiled
      <3> QED  BY <3>3, <2>1 DEF w
    <2> QED  BY <2>1, <2>2, <1>1, <1>4, <1>5 DEF rest
  <1>6. CASE rest >= 2 * HDR
    <2>1. /\ new = [x \in DOMAIN new |-> new[x]]
          /\ DOMAIN new = DOMAIN kept \cup {off + alloc}
          /\ new[off + alloc] = rest
          /\ \A y \in DOMAIN kept \ {off + alloc} : new[y] = kept[y]
      BY <1>3, <1>6 DEF With
    <2>2. /\ DOMAIN With(used, off, alloc) = DOMAIN used \cup {off}
          /\ With(used, off, alloc)[off] = alloc
          /\ \A y \in DOMAIN used \ {off} : With(used, off, alloc)[y] = used[y]
      BY DEF With
    <2>3. /\ rest \in Nat \ {0} /\ off + alloc + rest = off + free[off] /\ off + alloc # off
      BY <1>2, <1>6, ConstantsAre DEF rest
    <2> DEFINE w == With(used, off, alloc)
    <2> HIDE DEF w
    <2>4. /\ DOMAIN w = DOMAIN used \cup {off}
          /\ w[off] = alloc
          /\ \A y \in DOMAIN used : y # off /\ w[y] = used[y]
      BY <2>2 DEF w, Tiled
    <2>5. \A x \in DOMAIN new :
             \/ x = off + alloc
             \/ x \in DOMAIN free /\ x # off /\ x # off + alloc /\ new[x] = free[x]
      BY <2>1, <1>1, <1>4
    <2>6. /\ DOMAIN new \subseteq Nat
          /\ \A x \in DOMAIN new : new[x] \in Nat \ {0} /\ MSET <= x /\ x + new[x] <= end
      <3> SUFFICES ASSUME NEW x \in DOMAIN new
                   PROVE  x \in Nat /\ new[x] \in Nat \ {0} /\ MSET <= x /\ x + new[x] <= end
        OBVIOUS
      <3>1. CASE x = off + alloc
        BY <3>1, <2>1, <2>3, <1>2, ConstantsAre
      <3>2. CASE x # off + alloc
        BY <3>2, <2>5 DEF Tiled
      <3> QED  BY <3>1, <3>2
    <2>7. /\ DOMAIN w \subseteq Nat
          /\ \A x \in DOMAIN w : w[x] \in Nat \ {0} /\ MSET <= x /\ x + w[x] <= end
      BY <2>4, <1>2 DEF Tiled
    <2>8. \A x, y \in DOMAIN new : x < y => x + new[x] < y
      BY <2>1, <2>3, <2>5, <1>2 DEF Tiled
    <2>9. \A x, y \in DOMAIN w : x < y => x + w[x] <= y
      BY <2>4, <1>2 DEF Tiled
    <2>10. \A x \in DOMAIN new, y \in DOMAIN w : x + new[x] <= y \/ y + w[y] <= x
      BY <2>1, <2>3, <2>4, <2>5, <1>2 DEF Tiled
    <2>11. Tiled(new, w, end)
      BY <2>6, <2>7, <2>8, <2>9, <2>10 DEF Tiled
    <2>12. off \notin DOMAIN new
      BY <2>3, <2>5
    <2> QED  BY <2>1, <2>3, <2>5, <2>11, <2>12, <1>1, <1>6 DEF w, rest
  <1> QED  BY <1>5, <1>6

(***************************************************************************)
(* The chain of big blocks after an insertion: cut after what the walk saw *)
(* last before the block, taken up again behind it.  list is the free list *)
(* when the chain is set, the new block perhaps trimmed.                   *)
(***************************************************************************)
LEMMA ChainIs ==
    ASSUME NEW free, NEW used, NEW end \in Nat, Tiled(free, used, end),
           NEW off \in Nat, NEW size \in Nat \ {0}, MSET <= off, off + size <= end,
           Clear(free, used, off, size),
           NEW prev, prev = PrevOf(free, off),
           NEW cur, cur = CurOf(free, off),
           NEW before, before = BigBefore(free, prev),
           NEW start, start = IF JoinsPrev(free, off, prev) THEN prev ELSE off,
           NEW new, new = Inserted(free, off, size, prev, cur),
           NEW linked, linked = IF prev # NULL /\ IsBig(free[prev]) THEN prev ELSE before,
           NEW after, after = IF JoinsCur(off, size, cur) /\ IsBig(free[cur]) THEN cur ELSE linked,
           NEW upTo, upTo = IF JoinsPrev(free, off, prev) THEN before ELSE linked,
           NEW list, DOMAIN list = DOMAIN new, \A x \in DOMAIN new \ {start} : list[x] = new[x]
    PROVE  {x \in BigOf(free) : x <= upTo \/ x > after}
              \cup (IF IsBig(list[start]) THEN {start} ELSE {}) = BigOf(list)
  <1>1. /\ prev \in Nat
        /\ prev # NULL => prev \in DOMAIN free /\ prev < off
        /\ \A x \in DOMAIN free : x < off => prev # NULL /\ x <= prev
    BY PrevIs
  <1>2. /\ cur \in Nat
        /\ cur # NULL => cur \in DOMAIN free /\ cur > off
        /\ \A x \in DOMAIN free : x > off => cur # NULL /\ x >= cur
    BY CurIs
  <1>3. /\ before \in Nat
        /\ before # NULL => before \in BigOf(free) /\ before < prev
        /\ \A x \in BigOf(free) : x < prev => before # NULL /\ x <= before
    BY <1>1, BigBeforeIs
  <1>4. /\ start \in DOMAIN new /\ start \in Nat
        /\ \A x \in DOMAIN new \ {start} : x \in DOMAIN free /\ new[x] = free[x]
        /\ \A x \in DOMAIN free : x \in DOMAIN new \/ (x = cur /\ JoinsCur(off, size, cur))
        /\ JoinsCur(off, size, cur) => cur \notin DOMAIN new
    BY InsertedIs
  <1>5. DOMAIN free \subseteq Nat /\ \A x \in DOMAIN free : x # off /\ x >= MSET
    BY DEF Tiled, Clear
  <1>6. MSET \in Nat \ {0}
    BY ConstantsAre
  <1>7. \A x \in DOMAIN free : x # start => (x < off => x <= prev /\ prev # NULL)
    BY <1>1
  <1>8. ASSUME NEW x \in BigOf(free), x # start, x <= upTo \/ x > after
        PROVE  x \in BigOf(list)
    <2>1. x \in DOMAIN free /\ IsBig(free[x])
      BY <1>8 DEF BigOf
    <2>2. ~ (x = cur /\ JoinsCur(off, size, cur))
      <3>1. SUFFICES ASSUME x = cur, JoinsCur(off, size, cur)  PROVE FALSE
        OBVIOUS
      <3>2. cur # NULL /\ cur > off /\ after = cur
        BY <3>1, <2>1, <1>2 DEF JoinsCur
      <3>3. upTo <= off
        BY <1>1, <1>3 DEF NULL
      <3> QED  BY <3>1, <3>2, <3>3, <1>8, <1>1, <1>2, <1>3
    <2> QED  BY <2>1, <2>2, <1>4, <1>8 DEF BigOf
  <1>9. ASSUME NEW x \in BigOf(list), x # start
        PROVE  x \in BigOf(free) /\ (x <= upTo \/ x > after)
    <2>1. x \in DOMAIN free /\ IsBig(free[x]) /\ x \in DOMAIN new
      BY <1>9, <1>4 DEF BigOf
    <2>2. x \in BigOf(free)
      BY <2>1 DEF BigOf
    <2>3. CASE x < off
      <3>1. prev # NULL /\ x <= prev
        BY <2>1, <2>3, <1>1
      <3>2. CASE x = prev
        BY <3>1, <3>2, <2>1, <2>2, <1>9, <1>1
      <3>3. CASE x < prev
        BY <3>1, <3>3, <2>2, <1>1, <1>3, <1>5
      <3> QED  BY <3>1, <3>2, <3>3, <2>2, <2>1, <1>1, <1>5
    <2>4. CASE x > off
      <3>1. cur # NULL /\ x >= cur
        BY <2>1, <2>4, <1>2
      <3>2. linked <= off /\ linked \in Nat
        BY <1>1, <1>3 DEF NULL
      <3>3. JoinsCur(off, size, cur) => x # cur
        BY <2>1, <1>4
      <3> QED  BY <3>1, <3>2, <3>3, <2>2, <2>1, <2>4, <1>2, <1>5
    <2> QED  BY <2>1, <2>3, <2>4, <1>5
  <1>10. start \in BigOf(list) <=> IsBig(list[start])
    BY <1>4 DEF BigOf
  \* The block that grew out of prev is on the chain for what it is now.
  <1>11. start \in BigOf(free) /\ (start <= upTo \/ start > after) => FALSE
    <2> SUFFICES ASSUME start \in BigOf(free), start <= upTo \/ start > after  PROVE FALSE
      OBVIOUS
    <2>1. start \in DOMAIN free /\ IsBig(free[start]) /\ start # off
      BY <1>5 DEF BigOf
    <2>2. start = prev /\ prev # NULL /\ upTo = before /\ linked = prev
      BY <2>1 DEF JoinsPrev
    <2>3. before < prev
      BY <2>2, <1>1, <1>3 DEF NULL
    <2>4. after >= prev
      BY <2>2, <1>1, <1>2 DEF JoinsCur
    <2> QED  BY <2>2, <2>3, <2>4, <1>1, <1>2, <1>3
  <1> HIDE DEF BigOf
  <1> QED  BY <1>8, <1>9, <1>10, <1>11

(***************************************************************************)
(* The whole pages a retired pool's last free block gives back.            *)
(***************************************************************************)
LEMMA TrimmedIs ==
    ASSUME NEW free, NEW used, NEW end \in Nat, Tiled(free, used, end),
           NEW start \in DOMAIN free, start + free[start] = end,
           NEW keep, keep = RoundUp(start + HDR, PGSIZE), keep < end
    PROVE  /\ keep \in Nat \ {0} /\ keep % PGSIZE = 0
           /\ start + HDR <= keep
           /\ keep - start < free[start]
           /\ Tiled([free EXCEPT ![start] = keep - start], used, keep)
  <1> DEFINE cut == [free EXCEPT ![start] = keep - start]
  <1>1. start \in Nat /\ free[start] \in Nat /\ MSET <= start
    BY DEF Tiled
  <1>2. start + HDR \in Nat /\ HDR \in Nat \ {0} /\ PGSIZE \in Nat \ {0} /\ MSET \in Nat
    BY <1>1, ConstantsAre
  <1>3. keep \in Nat /\ keep % PGSIZE = 0 /\ start + HDR <= keep
    BY <1>2, RoundUpIs
  <1>4. keep - start \in Nat \ {0} /\ keep \in Nat \ {0} /\ keep - start < free[start]
    BY <1>1, <1>2, <1>3
  <1>5. /\ DOMAIN cut = DOMAIN free
        /\ cut[start] = keep - start
        /\ \A x \in DOMAIN free \ {start} : cut[x] = free[x]
    OBVIOUS
  <1> HIDE DEF cut
  <1>6. \A x \in DOMAIN free \ {start} : x < start
    <2> TAKE x \in DOMAIN free \ {start}
    <2>1. ~ (start < x)
      BY DEF Tiled
    <2> QED  BY <2>1, <1>1 DEF Tiled
  <1>7. \A y \in DOMAIN used : y + used[y] <= start
    BY <1>1 DEF Tiled
  <1>8. /\ DOMAIN cut \subseteq Nat
        /\ \A x \in DOMAIN cut : cut[x] \in Nat \ {0} /\ MSET <= x /\ x + cut[x] <= keep
    <2> SUFFICES ASSUME NEW x \in DOMAIN cut
                 PROVE  x \in Nat /\ cut[x] \in Nat \ {0} /\ MSET <= x /\ x + cut[x] <= keep
      OBVIOUS
    <2>1. CASE x = start
      BY <2>1, <1>1, <1>2, <1>3, <1>4, <1>5
    <2>2. CASE x # start
      <3>1. x \in DOMAIN free /\ x < start /\ cut[x] = free[x]
        BY <2>2, <1>5, <1>6
      <3>2. x + free[x] < start
        BY <3>1 DEF Tiled
      <3> QED  BY <3>1, <3>2, <1>1, <1>2, <1>3 DEF Tiled
    <2> QED  BY <2>1, <2>2
  <1>9. \A x, y \in DOMAIN cut : x < y => x + cut[x] < y
    <2> SUFFICES ASSUME NEW x \in DOMAIN cut, NEW y \in DOMAIN cut, x < y
                 PROVE  x + cut[x] < y
      OBVIOUS
    <2>1. x # start
      BY <1>5, <1>6, <1>1 DEF Tiled
    <2> QED  BY <2>1, <1>5 DEF Tiled
  <1>10. \A x \in DOMAIN cut, y \in DOMAIN used : x + cut[x] <= y \/ y + used[y] <= x
    <2> SUFFICES ASSUME NEW x \in DOMAIN cut, NEW y \in DOMAIN used
                 PROVE  x + cut[x] <= y \/ y + used[y] <= x
      OBVIOUS
    <2>1. CASE x = start
      BY <2>1, <1>7
    <2>2. CASE x # start
      BY <2>2, <1>5 DEF Tiled
    <2> QED  BY <2>1, <2>2
  <1>11. \A y \in DOMAIN used : y + used[y] <= keep
    BY <1>7, <1>1, <1>2, <1>3 DEF Tiled
  <1>12. Tiled(cut, used, keep)
    BY <1>8, <1>9, <1>10, <1>11 DEF Tiled
  <1> QED  BY <1>3, <1>4, <1>12 DEF cut

-------------------------------------------------------------------------------
(***************************************************************************)
(* Who owns the pages.  O is a set of spans, pairs of a base and a length: *)
(* whole pages, apart from each other, and together all that is mapped.    *)
(***************************************************************************)
IsSpan(o) ==
    /\ o = <<o[1], o[2]>>
    /\ o[1] \in Nat /\ o[1] % PGSIZE = 0 /\ PGSIZE <= o[1]
    /\ o[2] \in Nat \ {0} /\ o[2] % PGSIZE = 0

SpansApart(o, q) == o[1] + o[2] <= q[1] \/ q[1] + q[2] <= o[1]

Owned(mapped, O) ==
    /\ \A o \in O : IsSpan(o)
    /\ \A o, q \in O : o # q => SpansApart(o, q)
    /\ mapped = UNION {Pages(o[1], o[2]) : o \in O}

LEMMA PagesAre ==
    ASSUME NEW base \in Nat, NEW len \in Nat
    PROVE  \A a : a \in Pages(base, len) <=>
                     a \in Nat /\ base <= a /\ a < base + len /\ a % PGSIZE = 0
  BY DEF Pages

LEMMA OwnedHas ==
    ASSUME NEW mapped, NEW O, Owned(mapped, O), NEW o \in O
    PROVE  Pages(o[1], o[2]) \subseteq mapped /\ o[1] \in Pages(o[1], o[2])
  <1>1. Pages(o[1], o[2]) \subseteq mapped
    BY DEF Owned
  <1>2. o[1] \in Pages(o[1], o[2])
    BY PagesAre DEF Owned, IsSpan
  <1> QED  BY <1>1, <1>2

LEMMA OwnedAdd ==
    ASSUME NEW mapped, NEW O, Owned(mapped, O), NEW o, IsSpan(o),
           Pages(o[1], o[2]) \cap mapped = {}
    PROVE  /\ o \notin O
           /\ \A q \in O : SpansApart(o, q)
           /\ Owned(mapped \cup Pages(o[1], o[2]), O \cup {o})
  <1>1. /\ o[1] \in Nat /\ o[2] \in Nat /\ o[1] < o[1] + o[2]
        /\ o[1] % PGSIZE = 0
    BY DEF IsSpan
  <1>2. ASSUME NEW q \in O  PROVE SpansApart(o, q)
    <2>1. /\ q[1] \in Nat /\ q[2] \in Nat /\ q[1] % PGSIZE = 0
          /\ Pages(q[1], q[2]) \subseteq mapped /\ q[1] \in mapped
      BY OwnedHas DEF Owned, IsSpan
    <2>2. q[1] \notin Pages(o[1], o[2])
      BY <2>1
    <2>3. q[1] < o[1] \/ o[1] + o[2] <= q[1]
      BY <2>1, <2>2, <1>1, PagesAre
    <2>4. o[1] \in Pages(o[1], o[2])
      BY <1>1, PagesAre
    <2>5. o[1] \notin Pages(q[1], q[2])
      BY <2>1, <2>4
    <2>6. o[1] < q[1] \/ q[1] + q[2] <= o[1]
      BY <2>1, <2>5, <1>1, PagesAre
    <2> QED  BY <2>1, <2>3, <2>6, <1>1 DEF SpansApart
  <1>3. o \notin O
    <2>1. o[1] \in Pages(o[1], o[2])
      BY <1>1, PagesAre
    <2> QED  BY <2>1, OwnedHas
  <1>4. UNION {Pages(q[1], q[2]) : q \in O \cup {o}} = mapped \cup Pages(o[1], o[2])
    BY DEF Owned
  <1>5. \A p, q \in O \cup {o} : p # q => SpansApart(p, q)
    BY <1>2 DEF Owned, SpansApart
  <1> QED  BY <1>2, <1>3, <1>4, <1>5 DEF Owned

LEMMA OwnedRemove ==
    ASSUME NEW mapped, NEW O, Owned(mapped, O), NEW o \in O
    PROVE  Owned(mapped \ Pages(o[1], o[2]), O \ {o})
  <1>1. ASSUME NEW q \in O, q # o  PROVE Pages(q[1], q[2]) \cap Pages(o[1], o[2]) = {}
    <2>1. /\ SpansApart(o, q)
          /\ o[1] \in Nat /\ o[2] \in Nat /\ q[1] \in Nat /\ q[2] \in Nat
      BY <1>1 DEF Owned, IsSpan
    <2>2. SUFFICES ASSUME NEW a \in Pages(q[1], q[2]), a \in Pages(o[1], o[2])  PROVE FALSE
      OBVIOUS
    <2>3. a \in Nat /\ q[1] <= a /\ a < q[1] + q[2] /\ o[1] <= a /\ a < o[1] + o[2]
      BY <2>1, <2>2, PagesAre
    <2> QED  BY <2>1, <2>3 DEF SpansApart
  <1> DEFINE P(q) == Pages(q[1], q[2])
  <1>2. \A q \in O : q # o => P(q) \cap P(o) = {}
    BY <1>1
  <1>3. mapped = UNION {P(q) : q \in O}
    BY DEF Owned
  <1> HIDE DEF P
  <1>4. mapped \ P(o) = UNION {P(q) : q \in O \ {o}}
    BY <1>2, <1>3
  <1> QED  BY <1>4 DEF Owned, P

\* mremap() in place: the pages of the longer span are its own or free.
LEMMA OwnedResize ==
    ASSUME NEW mapped, NEW O, Owned(mapped, O), NEW base \in Nat, NEW old \in Nat,
           <<base, old>> \in O,
           NEW len \in Nat \ {0}, len % PGSIZE = 0,
           len > old => Pages(base + old, len - old) \cap mapped = {}
    PROVE  LET q == <<base, len>>
               rest == O \ {<<base, old>>}
           IN  /\ Owned((mapped \ Pages(base, old)) \cup Pages(base, len), rest \cup {q})
               /\ q \notin rest
               /\ \A s \in rest : SpansApart(q, s)
  <1> DEFINE o == <<base, old>>
             q == <<base, len>>
             rest == O \ {o}
             left == mapped \ Pages(base, old)
  <1>1. Owned(left, rest)
    BY OwnedRemove
  <1>2. IsSpan(o) /\ IsSpan(q)
    BY DEF Owned, IsSpan
  <1>3. Pages(base, len) \cap left = {}
    <2>1. SUFFICES ASSUME NEW a \in Pages(base, len), a \in left  PROVE FALSE
      OBVIOUS
    <2>2. a \in Nat /\ base <= a /\ a < base + len /\ a % PGSIZE = 0
      BY PagesAre
    <2>3. a \notin Pages(base, old) /\ a \in mapped
      BY <2>1
    <2>4. base + old <= a
      BY <2>2, <2>3, PagesAre
    <2>5. len > old /\ base + old \in Nat /\ len - old \in Nat
      BY <2>2, <2>4
    <2>6. a \in Pages(base + old, len - old)
      BY <2>2, <2>4, <2>5, PagesAre
    <2> QED  BY <2>3, <2>5, <2>6
  <1>4. q[1] = base /\ q[2] = len
    OBVIOUS
  <1> HIDE DEF q, rest, left
  <1>5. /\ Owned(left \cup Pages(base, len), rest \cup {q})
        /\ q \notin rest
        /\ \A s \in rest : SpansApart(q, s)
    BY <1>1, <1>2, <1>3, <1>4, OwnedAdd
  <1> QED  BY <1>5 DEF q, rest, left, o

(***************************************************************************)
(* The heap as a record, and its pools.                                    *)
(***************************************************************************)
IsFcn(f) == f = [x \in DOMAIN f |-> f[x]]

HeapFields == {"mapped", "cache", "bytes", "class", "large", "pools", "pool", "pool1", "old"}
IsHeap(h) == IsFcn(h) /\ DOMAIN h = HeapFields

PoolFields == {"len", "size", "refs", "free", "big", "max"}
IsPool(m) == IsFcn(m) /\ DOMAIN m = PoolFields

\* Two heaps that have the same pools, listed alike, in the same class.
SamePools(g, h) ==
    /\ g.pools = h.pools /\ g.pool = h.pool /\ g.pool1 = h.pool1 /\ g.old = h.old
    /\ g.class = h.class /\ g.large = h.large

\* mmap(): a free run of pages, taken.
LEMMA MmapIs ==
    ASSUME NEW h, IsHeap(h), NEW len \in Nat \ {0}, len % PGSIZE = 0,
           NEW k, NEW c, c = Mmap(h, len, k)
    PROVE  \/ c.base = NULL /\ c.heap = h
           \/ /\ IsSpan(<<c.base, len>>)
              /\ c.len = len
              /\ c.base # NULL
              /\ Pages(c.base, len) \cap h.mapped = {}
              /\ IsHeap(c.heap) /\ SamePools(c.heap, h)
              /\ c.heap.mapped = h.mapped \cup Pages(c.base, len)
              /\ c.heap.cache = h.cache /\ c.heap.bytes = h.bytes
  <1> DEFINE runs == {b \in Memory : FreeRun(h, b, len)}
             got  == "mmap" \in k /\ len > 0 /\ runs # {}
             base == IF got THEN Least(runs) ELSE NULL
  <1>1. c = [heap |-> IF got THEN [h EXCEPT !.mapped = h.mapped \cup Pages(base, len)] ELSE h,
             base |-> base, len |-> len]
    BY DEF Mmap
  <1>2. /\ c.heap = IF got THEN [h EXCEPT !.mapped = h.mapped \cup Pages(base, len)] ELSE h
        /\ c.base = base /\ c.len = len
    BY <1>1
  <1>3. CASE ~got
    BY <1>2, <1>3
  <1>4. CASE got
    <2>1. runs \subseteq Nat /\ runs # {}
      BY <1>4, ConstantsAre DEF Memory
    <2>2. base \in runs
      BY <1>4, <2>1, LeastIs
    <2>3. base \in Memory /\ FreeRun(h, base, len)
      BY <2>2
    <2>4. base \in Nat /\ base % PGSIZE = 0 /\ PGSIZE <= base
      BY <2>3, ConstantsAre DEF Memory
    <2>5. IsSpan(<<base, len>>)
      BY <2>4 DEF IsSpan
    <2>6. Pages(base, len) \cap h.mapped = {}
      BY <2>3 DEF FreeRun
    <2>7. base # NULL
      BY <2>4, ConstantsAre DEF NULL
    <2> HIDE DEF base, runs
    <2>8. c.heap = [h EXCEPT !.mapped = h.mapped \cup Pages(base, len)]
      BY <1>2, <1>4
    <2>9. /\ IsHeap(c.heap) /\ SamePools(c.heap, h)
          /\ c.heap.mapped = h.mapped \cup Pages(base, len)
          /\ c.heap.cache = h.cache /\ c.heap.bytes = h.bytes
      BY <2>8 DEF IsHeap, IsFcn, HeapFields, SamePools
    <2> QED  BY <1>2, <2>5, <2>6, <2>7, <2>9
  <1> QED  BY <1>3, <1>4

LEMMA OwnedRemoveAll ==
    ASSUME NEW mapped, NEW S, NEW T, Owned(mapped, S \cup T), S \cap T = {}
    PROVE  Owned(mapped \ UNION {Pages(o[1], o[2]) : o \in T}, S)
  <1> DEFINE P(q) == Pages(q[1], q[2])
  <1>1. ASSUME NEW q \in S, NEW o \in T  PROVE P(q) \cap P(o) = {}
    <2>1. /\ q # o
          /\ SpansApart(o, q)
          /\ o[1] \in Nat /\ o[2] \in Nat /\ q[1] \in Nat /\ q[2] \in Nat
      BY DEF Owned, IsSpan
    <2>2. SUFFICES ASSUME NEW a \in Pages(q[1], q[2]), a \in Pages(o[1], o[2])  PROVE FALSE
      OBVIOUS
    <2>3. a \in Nat /\ q[1] <= a /\ a < q[1] + q[2] /\ o[1] <= a /\ a < o[1] + o[2]
      BY <2>1, <2>2, PagesAre
    <2> QED  BY <2>1, <2>3 DEF SpansApart
  <1>2. mapped = UNION {P(q) : q \in S \cup T}
    BY DEF Owned
  <1> HIDE DEF P
  <1>3. mapped \ UNION {P(o) : o \in T} = UNION {P(q) : q \in S}
    BY <1>1, <1>2
  <1> QED  BY <1>3 DEF Owned, P

-------------------------------------------------------------------------------
(***************************************************************************)
(* The bytes that are parked.                                              *)
(***************************************************************************)

\* What the first n slots have, added up.
SumsTo(cache, f, n) ==
    f = [i \in 0 .. n |-> IF i = 0 THEN 0 ELSE f[i - 1] + cache[i].mapped]

LEMMA SumsExist ==
    ASSUME NEW cache
    PROVE  \A n \in Nat : \E f : SumsTo(cache, f, n)
  <1> DEFINE T == {n \in Nat : \E f : SumsTo(cache, f, n)}
  <1>1. 0 \in T
    <2> DEFINE f == [i \in 0 .. 0 |-> 0]
    <2>1. SumsTo(cache, f, 0)
      BY DEF SumsTo
    <2> QED  BY <2>1
  <1>2. ASSUME NEW n \in Nat, n \in T  PROVE n + 1 \in T
    <2>1. PICK f : SumsTo(cache, f, n)
      BY <1>2
    <2> DEFINE g == [i \in 0 .. n + 1 |-> IF i = n + 1 THEN f[n] + cache[n + 1].mapped ELSE f[i]]
    <2>2. \A i \in 0 .. n : f[i] = IF i = 0 THEN 0 ELSE f[i - 1] + cache[i].mapped
      BY <2>1 DEF SumsTo
    <2>3. \A i \in 0 .. n + 1 : g[i] = IF i = 0 THEN 0 ELSE g[i - 1] + cache[i].mapped
      <3> TAKE i \in 0 .. n + 1
      <3>1. CASE i = n + 1
        BY <3>1
      <3>2. CASE i # n + 1
        <4>1. i \in 0 .. n /\ g[i] = f[i] /\ (i # 0 => g[i - 1] = f[i - 1])
          BY <3>2
        <4> QED  BY <4>1, <2>2
      <3> QED  BY <3>1, <3>2
    <2>4. g = [i \in 0 .. n + 1 |-> g[i]]
      OBVIOUS
    <2> HIDE DEF g
    <2>5. SumsTo(cache, g, n + 1)
      BY <2>3, <2>4 DEF SumsTo
    <2> QED  BY <2>5
  <1> HIDE DEF T
  <1>3. Nat \subseteq T
    BY <1>1, <1>2, Induct
  <1> QED  BY <1>3 DEF T

LEMMA ParkedBytesIs ==
    ASSUME NEW cache
    PROVE  \E f : SumsTo(cache, f, LARGE_CACHE_SLOTS) /\ ParkedBytes(cache) = f[LARGE_CACHE_SLOTS]
  <1> DEFINE f == CHOOSE f : f = [i \in 0 .. LARGE_CACHE_SLOTS |->
                                     IF i = 0 THEN 0 ELSE f[i - 1] + cache[i].mapped]
  <1>1. \E g : SumsTo(cache, g, LARGE_CACHE_SLOTS)
    BY SumsExist, ConstantsAre
  <1>2. SumsTo(cache, f, LARGE_CACHE_SLOTS)
    BY <1>1 DEF SumsTo
  <1>3. ParkedBytes(cache) = f[LARGE_CACHE_SLOTS]
    BY DEF ParkedBytes
  <1> HIDE DEF f
  <1> QED  BY <1>2, <1>3

LEMMA NothingParked ==
    ASSUME NEW cache, \A i \in Slots : cache[i].mapped = 0
    PROVE  ParkedBytes(cache) = 0
  <1>1. PICK f : /\ SumsTo(cache, f, LARGE_CACHE_SLOTS)
                 /\ ParkedBytes(cache) = f[LARGE_CACHE_SLOTS]
    BY ParkedBytesIs
  <1>2. \A i \in 0 .. LARGE_CACHE_SLOTS :
           f[i] = IF i = 0 THEN 0 ELSE f[i - 1] + cache[i].mapped
    BY <1>1 DEF SumsTo
  <1> DEFINE T == {n \in Nat : n <= LARGE_CACHE_SLOTS => f[n] = 0}
  <1>3. 0 \in T
    BY <1>2, ConstantsAre
  <1>4. ASSUME NEW n \in Nat, n \in T  PROVE n + 1 \in T
    <2>1. SUFFICES ASSUME n + 1 <= LARGE_CACHE_SLOTS  PROVE f[n + 1] = 0
      OBVIOUS
    <2>2. f[n] = 0 /\ n + 1 \in Slots /\ n + 1 \in 0 .. LARGE_CACHE_SLOTS
      BY <1>4, <2>1, ConstantsAre DEF Slots
    <2>3. f[n + 1] = f[(n + 1) - 1] + cache[n + 1].mapped
      BY <1>2, <2>2
    <2>4. (n + 1) - 1 = n /\ cache[n + 1].mapped = 0
      BY <2>2
    <2> QED  BY <2>2, <2>3, <2>4
  <1> HIDE DEF T
  <1>5. Nat \subseteq T
    BY <1>3, <1>4, Induct
  <1> QED  BY <1>1, <1>5, ConstantsAre DEF T

LEMMA SlotChanged ==
    ASSUME NEW cache, NEW next, NEW i \in Slots,
           \A j \in Slots : cache[j].mapped \in Nat /\ next[j].mapped \in Nat,
           \A j \in Slots : j # i => next[j] = cache[j]
    PROVE  ParkedBytes(next) = ParkedBytes(cache) - cache[i].mapped + next[i].mapped
  <1> DEFINE N == LARGE_CACHE_SLOTS
             d == next[i].mapped - cache[i].mapped
  <1>1. PICK f : SumsTo(cache, f, N) /\ ParkedBytes(cache) = f[N]
    BY ParkedBytesIs
  <1>2. PICK g : SumsTo(next, g, N) /\ ParkedBytes(next) = g[N]
    BY ParkedBytesIs
  <1>3. /\ \A j \in 0 .. N : f[j] = IF j = 0 THEN 0 ELSE f[j - 1] + cache[j].mapped
        /\ \A j \in 0 .. N : g[j] = IF j = 0 THEN 0 ELSE g[j - 1] + next[j].mapped
    BY <1>1, <1>2 DEF SumsTo
  <1>4. N \in Nat /\ i \in 1 .. N /\ d \in Int /\ Slots = 1 .. N
    BY ConstantsAre DEF Slots
  <1> DEFINE T == {n \in Nat : n <= N => /\ f[n] \in Int /\ g[n] \in Int
                                         /\ g[n] = f[n] + (IF n < i THEN 0 ELSE d)}
  <1>5. 0 \in T
    <2>1. 0 \in 0 .. N
      BY <1>4
    <2>2. f[0] = 0 /\ g[0] = 0
      BY <2>1, <1>3
    <2> QED  BY <2>2, <1>4
  <1>6. ASSUME NEW n \in Nat, n \in T  PROVE n + 1 \in T
    <2> SUFFICES ASSUME n + 1 <= N
                 PROVE  /\ f[n + 1] \in Int /\ g[n + 1] \in Int
                        /\ g[n + 1] = f[n + 1] + (IF n + 1 < i THEN 0 ELSE d)
      OBVIOUS
    <2>1. /\ f[n] \in Int /\ g[n] \in Int /\ g[n] = f[n] + (IF n < i THEN 0 ELSE d)
      BY <1>6, <1>4
    <2> DEFINE u == n + 1
    <2>2. u \in 0 .. N /\ u \in Slots /\ u # 0 /\ u - 1 = n
      BY <1>4
    <2>3. (n < i <=> u <= i) /\ (u < i <=> u <= i /\ u # i)
      BY <1>4
    <2> HIDE DEF u
    <2>4. /\ f[u] = f[n] + cache[u].mapped /\ g[u] = g[n] + next[u].mapped
          /\ cache[u].mapped \in Nat /\ next[u].mapped \in Nat
          /\ u # i => next[u] = cache[u]
      BY <1>3, <2>2
    <2> DEFINE fn == f[n]
               gn == g[n]
               fu == f[u]
               gu == g[u]
               mine == cache[u].mapped
               its == next[u].mapped
    <2>5. /\ u = i => d = its - mine
          /\ u # i => its = mine
      BY <2>4
    <2>6. fu = fn + mine /\ gu = gn + its /\ mine \in Nat /\ its \in Nat
      BY <2>4
    <2>7. fn \in Int /\ gn \in Int /\ (n < i => gn = fn) /\ (~(n < i) => gn = fn + d)
      BY <2>1, <1>4
    <2>8. d \in Int /\ u \in Nat /\ i \in Nat
      BY <1>4, <2>2
    <2> HIDE DEF d, fn, gn, fu, gu, mine, its
    <2>9. fu \in Int /\ gu \in Int
      BY <2>6, <2>7
    <2>10. u < i => gu = fu
      BY <2>3, <2>5, <2>6, <2>7, <2>8
    <2>11. u = i => gu = fu + d
      BY <2>3, <2>5, <2>6, <2>7, <2>8
    <2>12. ~(u < i) /\ u # i => gu = fu + d
      BY <2>3, <2>5, <2>6, <2>7, <2>8
    <2> QED  BY <2>9, <2>10, <2>11, <2>12 DEF u, fu, gu
  <1> HIDE DEF T
  <1>7. Nat \subseteq T
    BY <1>5, <1>6, Induct
  <1>8. f[N] \in Int /\ g[N] = f[N] + d
    BY <1>4, <1>7 DEF T
  <1>9. cache[i].mapped \in Nat /\ next[i].mapped \in Nat
    BY <1>4
  <1> QED  BY <1>1, <1>2, <1>8, <1>9

-------------------------------------------------------------------------------
(***************************************************************************)
(* The mapping cache.  S is what is owned outside it; the two together own *)
(* all that is mapped, and no span is in both or parked twice.             *)
(***************************************************************************)
ParkedSpans(h) == {<<h.cache[i].base, h.cache[i].mapped>> : i \in Parked(h)}

SlotsAre(cache) ==
    /\ IsFcn(cache) /\ DOMAIN cache = Slots
    /\ \A i \in Slots : /\ cache[i].base \in Nat /\ cache[i].mapped \in Nat
                        /\ cache[i].base = NULL => cache[i].mapped = 0

CacheOwns(h, S) ==
    /\ SlotsAre(h.cache)
    /\ \A i, j \in Parked(h) : i # j => h.cache[i].base # h.cache[j].base
    /\ S \cap ParkedSpans(h) = {}
    /\ Owned(h.mapped, S \cup ParkedSpans(h))
    /\ h.bytes = ParkedBytes(h.cache)
    /\ h.bytes <= LARGE_CACHE_MAX_BYTES

LEMMA SlotsSumUp ==
    ASSUME NEW cache, SlotsAre(cache)
    PROVE  ParkedBytes(cache) \in Int
  <1>1. PICK f : /\ SumsTo(cache, f, LARGE_CACHE_SLOTS)
                 /\ ParkedBytes(cache) = f[LARGE_CACHE_SLOTS]
    BY ParkedBytesIs
  <1>2. \A i \in 0 .. LARGE_CACHE_SLOTS :
           f[i] = IF i = 0 THEN 0 ELSE f[i - 1] + cache[i].mapped
    BY <1>1 DEF SumsTo
  <1> DEFINE T == {n \in Nat : n <= LARGE_CACHE_SLOTS => f[n] \in Int}
  <1>3. 0 \in T
    BY <1>2, ConstantsAre
  <1>4. ASSUME NEW n \in Nat, n \in T  PROVE n + 1 \in T
    <2>1. SUFFICES ASSUME n + 1 <= LARGE_CACHE_SLOTS  PROVE f[n + 1] \in Int
      OBVIOUS
    <2>2. f[n] \in Int /\ n + 1 \in Slots /\ n + 1 \in 0 .. LARGE_CACHE_SLOTS
      BY <1>4, <2>1, ConstantsAre DEF Slots
    <2>3. f[n + 1] = f[(n + 1) - 1] + cache[n + 1].mapped
      BY <1>2, <2>2
    <2>4. (n + 1) - 1 = n /\ cache[n + 1].mapped \in Nat
      BY <2>2 DEF SlotsAre
    <2> QED  BY <2>2, <2>3, <2>4
  <1> HIDE DEF T
  <1>5. Nat \subseteq T
    BY <1>3, <1>4, Induct
  <1> QED  BY <1>1, <1>5, ConstantsAre DEF T

LEMMA ReleaseParkedOwns ==
    ASSUME NEW h, IsHeap(h), NEW S, CacheOwns(h, S)
    PROVE  LET g == ReleaseParked(h)
           IN  /\ IsHeap(g) /\ SamePools(g, h)
               /\ CacheOwns(g, S)
               /\ ParkedSpans(g) = {}
               /\ g.mapped \subseteq h.mapped
  <1> DEFINE g == ReleaseParked(h)
             cache == [i \in Slots |-> Empty]
             mapped == h.mapped \ ParkedPages(h)
  <1>1. g = [h EXCEPT !.mapped = mapped, !.cache = cache, !.bytes = 0]
    BY DEF ReleaseParked
  <1> HIDE DEF g, cache, mapped
  <1>2. /\ IsHeap(g) /\ SamePools(g, h)
        /\ g.mapped = mapped /\ g.cache = cache /\ g.bytes = 0
    BY <1>1 DEF IsHeap, IsFcn, HeapFields, SamePools
  <1>3. /\ IsFcn(cache) /\ DOMAIN cache = Slots
        /\ \A i \in Slots : cache[i].base = 0 /\ cache[i].mapped = 0
    BY DEF cache, Empty, NULL, IsFcn
  <1>4. SlotsAre(cache)
    BY <1>3 DEF SlotsAre
  <1>5. Parked(g) = {}
    BY <1>2, <1>3 DEF Parked, NULL
  <1>6. ParkedSpans(g) = {}
    BY <1>5 DEF ParkedSpans
  <1>7. ParkedBytes(cache) = 0
    BY <1>3, NothingParked
  <1>8. ParkedPages(h) = UNION {Pages(o[1], o[2]) : o \in ParkedSpans(h)}
    <2> DEFINE P(o) == Pages(o[1], o[2])
               s(i) == <<h.cache[i].base, h.cache[i].mapped>>
    <2>1. \A i : P(s(i)) = Pages(h.cache[i].base, h.cache[i].mapped)
      OBVIOUS
    <2>2. ParkedPages(h) = UNION {P(s(i)) : i \in Parked(h)}
      BY <2>1 DEF ParkedPages
    <2>3. ParkedSpans(h) = {s(i) : i \in Parked(h)}
      BY DEF ParkedSpans
    <2> HIDE DEF P, s
    <2>4. UNION {P(s(i)) : i \in Parked(h)} = UNION {P(o) : o \in {s(i) : i \in Parked(h)}}
      OBVIOUS
    <2> QED  BY <2>2, <2>3, <2>4 DEF P
  <1>9. Owned(mapped, S)
    BY <1>8, OwnedRemoveAll DEF CacheOwns, mapped
  <1>10. CacheOwns(g, S)
    BY <1>2, <1>4, <1>5, <1>6, <1>7, <1>9, ConstantsAre DEF CacheOwns
  <1> QED  BY <1>2, <1>6, <1>10 DEF g, mapped

LEMMA UnparkOwns ==
    ASSUME NEW h, IsHeap(h), NEW S, CacheOwns(h, S), NEW i \in Parked(h),
           NEW c, c = Unpark(h, i)
    PROVE  /\ IsHeap(c.heap) /\ SamePools(c.heap, h)
           /\ c.base = h.cache[i].base /\ c.len = h.cache[i].mapped
           /\ c.base # NULL
           /\ IsSpan(<<c.base, c.len>>) /\ <<c.base, c.len>> \notin S
           /\ \A q \in S : SpansApart(<<c.base, c.len>>, q)
           /\ CacheOwns(c.heap, S \cup {<<c.base, c.len>>})
  <1> DEFINE o == <<h.cache[i].base, h.cache[i].mapped>>
             g == [h EXCEPT !.cache[i] = Empty, !.bytes = h.bytes - h.cache[i].mapped]
             next == [h.cache EXCEPT ![i] = Empty]
  <1>1. c.heap = g /\ c.base = h.cache[i].base /\ c.len = h.cache[i].mapped
    BY DEF Unpark
  <1>2. i \in Slots /\ h.cache[i].base # NULL
    BY DEF Parked
  <1>3. /\ IsHeap(g) /\ SamePools(g, h)
        /\ g.mapped = h.mapped /\ g.cache = next /\ g.bytes = h.bytes - h.cache[i].mapped
    BY DEF IsHeap, IsFcn, HeapFields, SamePools
  <1>4. /\ IsFcn(next) /\ DOMAIN next = Slots
        /\ next[i].base = 0 /\ next[i].mapped = 0
        /\ \A j \in Slots \ {i} : next[j] = h.cache[j]
    BY <1>2 DEF CacheOwns, SlotsAre, IsFcn, Empty, NULL
  <1> HIDE DEF g, next
  <1>5. SlotsAre(next)
    BY <1>4 DEF CacheOwns, SlotsAre
  <1>6. Parked(g) = Parked(h) \ {i}
    BY <1>2, <1>3, <1>4 DEF Parked, NULL
  <1>7. ParkedSpans(g) = ParkedSpans(h) \ {o} /\ o \in ParkedSpans(h)
    <2>1. \A j \in Parked(h) \ {i} : h.cache[j].base # h.cache[i].base
      BY DEF CacheOwns
    <2>2. \A j \in Parked(h) \ {i} : g.cache[j] = h.cache[j]
      BY <1>3, <1>4 DEF Parked
    <2> QED  BY <1>6, <2>1, <2>2 DEF ParkedSpans
  <1>8. ParkedBytes(next) = g.bytes /\ g.bytes <= LARGE_CACHE_MAX_BYTES
    <2>1. \A j \in Slots : h.cache[j].mapped \in Nat /\ next[j].mapped \in Nat
      BY <1>5 DEF CacheOwns, SlotsAre
    <2>2. ParkedBytes(next) = ParkedBytes(h.cache) - h.cache[i].mapped + next[i].mapped
      <3> DEFINE old == h.cache
      <3>1. /\ \A j \in Slots : old[j].mapped \in Nat /\ next[j].mapped \in Nat
            /\ \A j \in Slots : j # i => next[j] = old[j]
        BY <1>4, <2>1
      <3> HIDE DEF old
      <3>2. ParkedBytes(next) = ParkedBytes(old) - old[i].mapped + next[i].mapped
        BY <1>2, <3>1, SlotChanged
      <3> QED  BY <3>2 DEF old
    <2>3. ParkedBytes(h.cache) \in Int
      BY SlotsSumUp DEF CacheOwns
    <2>4. h.cache[i].mapped \in Nat
      BY <1>2, <2>1
    <2> QED  BY <1>3, <1>4, <2>2, <2>3, <2>4, ConstantsAre DEF CacheOwns
  <1>9. /\ IsSpan(o) /\ o \notin S
        /\ \A q \in S : SpansApart(o, q)
    BY <1>7 DEF CacheOwns, Owned
  <1>10. (S \cup {o}) \cup ParkedSpans(g) = S \cup ParkedSpans(h)
    BY <1>7
  <1>11. (S \cup {o}) \cap ParkedSpans(g) = {}
    BY <1>7 DEF CacheOwns
  <1>12. \A j, l \in Parked(g) : j # l => g.cache[j].base # g.cache[l].base
    <2>1. \A j \in Parked(g) : g.cache[j] = h.cache[j]
      BY <1>3, <1>4, <1>6 DEF Parked
    <2> QED  BY <2>1, <1>6 DEF CacheOwns
  <1>13. CacheOwns(g, S \cup {o})
    BY <1>3, <1>5, <1>8, <1>10, <1>11, <1>12 DEF CacheOwns
  <1> HIDE DEF o
  <1> QED  BY <1>1, <1>2, <1>3, <1>9, <1>13 DEF o

\* c is what cache_map() made of h: a span of at least total bytes that nobody
\* owned is the caller's now, or nothing was to be had.
Maps(c, h, S, total, o) ==
    /\ IsHeap(c.heap) /\ SamePools(c.heap, h)
    /\ c.base = NULL => CacheOwns(c.heap, S)
    /\ c.base # NULL => /\ IsSpan(o) /\ o \notin S
                        /\ total <= c.len
                        /\ \A q \in S : SpansApart(o, q)
                        /\ CacheOwns(c.heap, S \cup {o})

LEMMA CacheMapOwns ==
    ASSUME NEW h, IsHeap(h), NEW S, CacheOwns(h, S),
           NEW total \in Nat \ {0}, total % PGSIZE = 0, NEW k,
           NEW c, c = CacheMap(h, total, k), NEW o, o = <<c.base, c.len>>
    PROVE  Maps(c, h, S, total, o)
  <1> SUFFICES /\ IsHeap(c.heap) /\ SamePools(c.heap, h)
               /\ c.base = NULL => CacheOwns(c.heap, S)
               /\ c.base # NULL => /\ IsSpan(o) /\ o \notin S
                                   /\ total <= c.len
                                   /\ \A q \in S : SpansApart(o, q)
                                   /\ CacheOwns(c.heap, S \cup {o})
    BY DEF Maps
  <1>1. CASE Suits(h, total) # {}
    <2> DEFINE best == BestParked(h, Suits(h, total))
               before(i, j) == \/ h.cache[i].mapped < h.cache[j].mapped
                               \/ h.cache[i].mapped = h.cache[j].mapped /\ i < j
    <2>1. best \in Suits(h, total)
      <3>1. Suits(h, total) \subseteq Slots /\ Slots \subseteq Nat
        BY DEF Suits, Parked, Slots
      <3> DEFINE U == {h.cache[i].mapped : i \in Suits(h, total)}
                 n == Least(U)
                 V == {i \in Suits(h, total) : h.cache[i].mapped = n}
                 b == Least(V)
      <3>2. U \subseteq Nat /\ U # {}
        BY <1>1, <3>1 DEF CacheOwns, SlotsAre
      <3>3. n \in U /\ \A u \in U : n <= u
        BY <3>2, LeastIs, Zenon
      <3>4. n \in Nat
        BY <3>2, <3>3
      <3> HIDE DEF n
      <3>5. V \subseteq Nat /\ V # {}
        BY <3>1, <3>3
      <3>6. b \in V /\ \A v \in V : b <= v
        BY <3>5, LeastIs, Zenon
      <3>7. b \in Suits(h, total) /\ h.cache[b].mapped = n
        BY <3>6
      <3> HIDE DEF b
      <3>8. ASSUME NEW j \in Suits(h, total) \ {b}  PROVE before(b, j)
        <4>1. h.cache[j].mapped \in Nat /\ n <= h.cache[j].mapped /\ j \in Nat /\ b \in Nat
          BY <3>1, <3>3, <3>7 DEF CacheOwns, SlotsAre
        <4>2. h.cache[j].mapped = n => b <= j
          BY <3>6
        <4> QED  BY <4>1, <4>2, <3>7, <3>4
      <3> QED  BY <3>7, <3>8 DEF BestParked
    <2>2. c = Unpark(h, best)
      BY <1>1 DEF CacheMap
    <2>3. best \in Parked(h) /\ total <= h.cache[best].mapped
      BY <2>1 DEF Suits
    <2> HIDE DEF best
    <2> QED  BY <2>2, <2>3, UnparkOwns
  <1>2. CASE Suits(h, total) = {}
    <2> DEFINE g == ReleaseParked(h)
    <2>1. c = Mmap(g, total, k)
      BY <1>2 DEF CacheMap
    <2>2. /\ IsHeap(g) /\ SamePools(g, h) /\ CacheOwns(g, S) /\ ParkedSpans(g) = {}
      BY ReleaseParkedOwns
    <2>3. Owned(g.mapped, S)
      BY <2>2 DEF CacheOwns
    <2> HIDE DEF g
    <2>4. \/ c.base = NULL /\ c.heap = g
          \/ /\ IsSpan(<<c.base, total>>)
             /\ c.len = total
             /\ c.base # NULL
             /\ Pages(c.base, total) \cap g.mapped = {}
             /\ IsHeap(c.heap) /\ SamePools(c.heap, g)
             /\ c.heap.mapped = g.mapped \cup Pages(c.base, total)
             /\ c.heap.cache = g.cache /\ c.heap.bytes = g.bytes
      BY <2>1, <2>2, MmapIs
    <2>5. CASE c.base = NULL /\ c.heap = g
      BY <2>5, <2>2
    <2>6. CASE /\ IsSpan(<<c.base, total>>)
               /\ c.len = total
               /\ c.base # NULL
               /\ Pages(c.base, total) \cap g.mapped = {}
               /\ IsHeap(c.heap) /\ SamePools(c.heap, g)
               /\ c.heap.mapped = g.mapped \cup Pages(c.base, total)
               /\ c.heap.cache = g.cache /\ c.heap.bytes = g.bytes
      <3> DEFINE f == c.heap
                 q == <<c.base, total>>
      <3>1. /\ IsHeap(f) /\ SamePools(f, h)
            /\ f.mapped = g.mapped \cup Pages(c.base, total)
            /\ f.cache = g.cache /\ f.bytes = g.bytes
        BY <2>2, <2>6 DEF SamePools
      <3>2. Parked(f) = Parked(g) /\ ParkedSpans(f) = ParkedSpans(g)
        BY <3>1 DEF Parked, ParkedSpans
      <3>3. q[1] = c.base /\ q[2] = total /\ IsSpan(q)
        BY <2>6
      <3> HIDE DEF q, f
      <3>4. /\ q \notin S
            /\ \A s \in S : SpansApart(q, s)
            /\ Owned(g.mapped \cup Pages(c.base, total), S \cup {q})
        BY <2>3, <2>6, <3>3, OwnedAdd
      <3>5. CacheOwns(f, S \cup {q})
        BY <2>2, <3>1, <3>2, <3>4 DEF CacheOwns
      <3>6. IsSpan(q) /\ o = q /\ total <= c.len /\ c.base # NULL
        BY <2>6 DEF q
      <3> QED  BY <3>1, <3>4, <3>5, <3>6 DEF f
    <2> QED  BY <2>4, <2>5, <2>6
  <1> QED  BY <1>1, <1>2

\* cache_unmap(): what the caller owned is parked, or nobody's.
LEMMA CacheUnmapOwns ==
    ASSUME NEW h, IsHeap(h), NEW S, CacheOwns(h, S),
           NEW base \in Nat, NEW total \in Nat, <<base, total>> \in S,
           NEW g, g = CacheUnmap(h, base, total)
    PROVE  /\ IsHeap(g) /\ SamePools(g, h)
           /\ CacheOwns(g, S \ {<<base, total>>})
  <1> DEFINE o == <<base, total>>
             room == h.bytes + total <= LARGE_CACHE_MAX_BYTES /\ Parked(h) # Slots
  <1>1. IsSpan(o) /\ total \in Nat \ {0} /\ base # NULL
    BY ConstantsAre DEF CacheOwns, Owned, IsSpan, NULL
  <1>2. CASE room
    <2> DEFINE i == Least(Slots \ Parked(h))
               e == [base |-> base, mapped |-> total]
               next == [h.cache EXCEPT ![i] = e]
    <2>1. i \in Slots \ Parked(h)
      <3>1. Slots \ Parked(h) \subseteq Nat /\ Slots \ Parked(h) # {}
        BY <1>2 DEF Slots, Parked
      <3> QED  BY <3>1, LeastIs
    <2>2. g = [h EXCEPT !.cache[i] = e, !.bytes = h.bytes + total]
      BY <1>2 DEF CacheUnmap
    <2> HIDE DEF i, e
    <2>3. /\ IsHeap(g) /\ SamePools(g, h)
          /\ g.mapped = h.mapped /\ g.cache = next /\ g.bytes = h.bytes + total
      BY <2>2 DEF IsHeap, IsFcn, HeapFields, SamePools
    <2>4. e.base = base /\ e.mapped = total
      BY DEF e
    <2>5. /\ IsFcn(next) /\ DOMAIN next = Slots
          /\ next[i] = e
          /\ \A j \in Slots \ {i} : next[j] = h.cache[j]
      BY <2>1 DEF CacheOwns, SlotsAre, IsFcn
    <2> HIDE DEF next
    <2>6. SlotsAre(next)
      BY <1>1, <2>4, <2>5 DEF CacheOwns, SlotsAre
    <2>7. Parked(g) = Parked(h) \cup {i}
      BY <1>1, <2>1, <2>3, <2>4, <2>5 DEF Parked
    <2>8. ParkedSpans(g) = ParkedSpans(h) \cup {o}
      <3>1. \A j \in Parked(h) : g.cache[j] = h.cache[j]
        BY <2>1, <2>3, <2>5 DEF Parked
      <3>2. <<g.cache[i].base, g.cache[i].mapped>> = o
        BY <2>3, <2>4, <2>5
      <3> QED  BY <2>7, <3>1, <3>2 DEF ParkedSpans
    <2>9. ParkedBytes(next) = g.bytes
      <3>1. \A j \in Slots : h.cache[j].mapped \in Nat /\ next[j].mapped \in Nat
        BY <2>6 DEF CacheOwns, SlotsAre
      <3>2. ParkedBytes(next) = ParkedBytes(h.cache) - h.cache[i].mapped + next[i].mapped
        BY <2>1, <2>5, <3>1, SlotChanged
      <3>3. h.cache[i].mapped = 0
        BY <2>1 DEF Parked, CacheOwns, SlotsAre
      <3>4. ParkedBytes(h.cache) \in Int
        BY SlotsSumUp DEF CacheOwns
      <3> QED  BY <2>3, <2>4, <2>5, <3>2, <3>3, <3>4 DEF CacheOwns
    <2>10. \A q \in ParkedSpans(h) : q[1] # base
      <3>1. \A q \in ParkedSpans(h) : q # o
        BY DEF CacheOwns
      <3>2. \A q \in ParkedSpans(h) : SpansApart(o, q) /\ IsSpan(q)
        BY <3>1 DEF CacheOwns, Owned
      <3>3. o[1] = base /\ o[2] = total
        OBVIOUS
      <3> HIDE DEF o
      <3> QED  BY <1>1, <3>2, <3>3 DEF SpansApart, IsSpan
    <2>11. \A j, l \in Parked(g) : j # l => g.cache[j].base # g.cache[l].base
      <3>1. \A j \in Parked(h) : g.cache[j] = h.cache[j] /\ h.cache[j].base # base
        <4>1. \A j \in Parked(h) : <<h.cache[j].base, h.cache[j].mapped>> \in ParkedSpans(h)
          BY DEF ParkedSpans
        <4> QED  BY <4>1, <2>1, <2>3, <2>5, <2>10 DEF Parked
      <3>2. g.cache[i].base = base
        BY <2>3, <2>4, <2>5
      <3> QED  BY <2>7, <3>1, <3>2 DEF CacheOwns
    <2>12. (S \ {o}) \cup ParkedSpans(g) = S \cup ParkedSpans(h)
      BY <2>8
    <2>13. (S \ {o}) \cap ParkedSpans(g) = {}
      BY <2>8 DEF CacheOwns
    <2> HIDE DEF o
    <2>14. CacheOwns(g, S \ {o})
      BY <2>3, <2>6, <2>9, <2>11, <2>12, <2>13, <1>2 DEF CacheOwns
    <2> QED  BY <2>3, <2>14 DEF o
  <1>3. CASE ~room
    <2>1. g = [h EXCEPT !.mapped = h.mapped \ Pages(base, total)]
      BY <1>3 DEF CacheUnmap, Munmap
    <2>2. /\ IsHeap(g) /\ SamePools(g, h)
          /\ g.mapped = h.mapped \ Pages(base, total) /\ g.cache = h.cache /\ g.bytes = h.bytes
      BY <2>1 DEF IsHeap, IsFcn, HeapFields, SamePools
    <2>3. Parked(g) = Parked(h) /\ ParkedSpans(g) = ParkedSpans(h)
      BY <2>2 DEF Parked, ParkedSpans
    <2>4. o[1] = base /\ o[2] = total
      OBVIOUS
    <2> HIDE DEF o
    <2>5. Owned(h.mapped \ Pages(o[1], o[2]), (S \cup ParkedSpans(h)) \ {o})
      BY OwnedRemove DEF CacheOwns, o
    <2>6. (S \ {o}) \cup ParkedSpans(h) = (S \cup ParkedSpans(h)) \ {o}
      BY DEF CacheOwns, o
    <2>7. CacheOwns(g, S \ {o})
      BY <2>2, <2>3, <2>4, <2>5, <2>6 DEF CacheOwns
    <2> QED  BY <2>2, <2>7 DEF o
  <1> QED  BY <1>2, <1>3

\* mremap() of a span that is owned outside the cache.
LEMMA RemapOwns ==
    ASSUME NEW h, NEW S, CacheOwns(h, S),
           NEW base \in Nat, NEW old \in Nat, <<base, old>> \in S,
           NEW len \in Nat \ {0}, len % PGSIZE = 0,
           len > old => Pages(base + old, len - old) \cap h.mapped = {},
           NEW g, g.cache = h.cache, g.bytes = h.bytes,
           g.mapped = (h.mapped \ Pages(base, old)) \cup Pages(base, len)
    PROVE  /\ <<base, len>> \notin S \ {<<base, old>>}
           /\ CacheOwns(g, (S \ {<<base, old>>}) \cup {<<base, len>>})
  <1> DEFINE o == <<base, old>>
             q == <<base, len>>
             O == S \cup ParkedSpans(h)
  <1>1. Parked(g) = Parked(h) /\ ParkedSpans(g) = ParkedSpans(h)
    BY DEF Parked, ParkedSpans
  <1>2. Owned(h.mapped, O) /\ o \in O
    BY DEF CacheOwns
  <1> HIDE DEF O
  <1>3. /\ Owned(g.mapped, (O \ {o}) \cup {q})
        /\ q \notin O \ {o}
    BY <1>2, OwnedResize
  <1> HIDE DEF o, q
  <1>4. o \notin ParkedSpans(h)
    BY DEF CacheOwns, o
  <1>5. ((S \ {o}) \cup {q}) \cup ParkedSpans(g) = (O \ {o}) \cup {q}
    BY <1>1, <1>4 DEF O
  <1>6. ((S \ {o}) \cup {q}) \cap ParkedSpans(g) = {}
    BY <1>1, <1>3, <1>4 DEF O, CacheOwns
  <1>7. CacheOwns(g, (S \ {o}) \cup {q})
    BY <1>1, <1>3, <1>5, <1>6 DEF CacheOwns
  <1> QED  BY <1>3, <1>7 DEF o, q, O

-------------------------------------------------------------------------------
(***************************************************************************)
(* The heap.                                                               *)
(***************************************************************************)
PoolSpans(h) == {<<b, h.pools[b].len>> : b \in DOMAIN h.pools}

\* Nobody owns a page but the pools, the owners of F and the cache.
PoolsOwn(h, F) ==
    /\ CacheOwns(h, PoolSpans(h) \cup F)
    /\ PoolSpans(h) \cap F = {}

\* Pool b, with these blocks live in it.
PoolSound(b, m, used) ==
    /\ IsPool(m)
    /\ m.len \in Nat /\ m.size \in Nat /\ m.max \in Nat
    /\ MSET <= m.size /\ m.size <= m.len
    /\ Tiled(m.free, used, m.size)
    /\ IsFiniteSet(DOMAIN used) /\ m.refs = Cardinality(DOMAIN used)
    /\ \A x \in DOMAIN used : (b + x + HDR) % PGSIZE # 0

\* What the walk of the retired pools relies on.
RetiredSound(m) ==
    /\ m.refs > 0
    /\ m.big = BigOf(m.free)
    /\ \A x \in DOMAIN m.free : m.free[x] <= m.max

\* A sequence with no member twice.
Once(s) == \A i, j \in DOMAIN s : i # j => s[i] # s[j]

\* Every pool is the current one, the spare one, one of the retired ones, on
\* the list once, or one of those of D.
Lists(h, cur, spare, D) ==
    /\ h.old \in Seq(Nat)
    /\ Once(h.old)
    /\ cur \notin OldPools(h) /\ spare \notin OldPools(h)
    /\ cur = spare => cur = NULL
    /\ D \cap ({cur, spare} \cup OldPools(h)) = {}
    /\ DOMAIN h.pools = (({cur, spare} \ {NULL}) \cup OldPools(h)) \cup D

PoolsSound(h, used) ==
    /\ IsFcn(h.pools)
    /\ \A b \in DOMAIN h.pools : PoolSound(b, h.pools[b], used[b])
    /\ \A b \in Nat \ DOMAIN h.pools : DOMAIN used[b] = {}

Good(h, cur, spare, D, F, used) ==
    /\ IsHeap(h)
    /\ PoolsOwn(h, F)
    /\ Lists(h, cur, spare, D)
    /\ PoolsSound(h, used)
    /\ \A b \in OldPools(h) : RetiredSound(h.pools[b])
    /\ spare # NULL => h.pools[spare].size = MSET

\* The heap between two calls.
Sound(h, F, used) == Good(h, h.pool, h.pool1, {}, F, used)

-------------------------------------------------------------------------------
(***************************************************************************)
(* What changes a heap a little.                                           *)
(***************************************************************************)

\* g is h but for its pools and its pages.
SameLists(g, h) ==
    /\ g.pool = h.pool /\ g.pool1 = h.pool1 /\ g.old = h.old

SameCache(g, h) ==
    /\ g.mapped = h.mapped /\ g.cache = h.cache /\ g.bytes = h.bytes

\* ... and only pool b of them is another.
OnlyPool(g, h, b) ==
    /\ IsHeap(g) /\ SameLists(g, h)
    /\ IsFcn(g.pools) /\ DOMAIN g.pools = DOMAIN h.pools
    /\ \A c \in DOMAIN h.pools \ {b} : g.pools[c] = h.pools[c]

LEMMA SetPoolIs ==
    ASSUME NEW h, IsHeap(h), IsFcn(h.pools), NEW b \in DOMAIN h.pools, NEW m,
           NEW g, g = SetPool(h, b, m)
    PROVE  OnlyPool(g, h, b) /\ SameCache(g, h) /\ g.pools[b] = m
  BY DEF SetPool, OnlyPool, SameLists, SameCache, IsHeap, IsFcn, HeapFields

\* A pool has as many live blocks as it counts, and between them there is none.
LEMMA PoolBounds ==
    ASSUME NEW b, NEW m, NEW used, PoolSound(b, m, used)
    PROVE  /\ DOMAIN used \subseteq Nat
           /\ DOMAIN m.free \subseteq Nat
           /\ m.refs \in Nat
           /\ m.refs = 0 => DOMAIN used = {}
           /\ \A x \in DOMAIN m.free :
                 m.free[x] \in Nat \ {0} /\ MSET <= x /\ x + m.free[x] <= m.len
  <1>1. m.refs \in Nat /\ (m.refs = 0 => DOMAIN used = {})
    BY FS_CardinalityType, FS_EmptySet DEF PoolSound
  <1>2. /\ DOMAIN used \subseteq Nat /\ DOMAIN m.free \subseteq Nat
        /\ \A x \in DOMAIN m.free : /\ m.free[x] \in Nat \ {0} /\ MSET <= x
                                    /\ x + m.free[x] <= m.size /\ x \in Nat
    BY DEF PoolSound, Tiled
  <1>3. m.size \in Nat /\ m.len \in Nat /\ m.size <= m.len
    BY DEF PoolSound
  <1> QED  BY <1>1, <1>2, <1>3

\* The pools' spans do not depend on what else there is.
LEMMA SameSpansOwn ==
    ASSUME NEW h, NEW F, PoolsOwn(h, F), NEW g, SameCache(g, h),
           DOMAIN g.pools = DOMAIN h.pools,
           \A c \in DOMAIN h.pools : g.pools[c].len = h.pools[c].len
    PROVE  PoolsOwn(g, F)
  <1>1. PoolSpans(g) = PoolSpans(h)
    BY DEF PoolSpans
  <1>2. Parked(g) = Parked(h) /\ ParkedSpans(g) = ParkedSpans(h)
    BY DEF SameCache, Parked, ParkedSpans
  <1> QED  BY <1>1, <1>2 DEF PoolsOwn, CacheOwns, SameCache

\* A pool's base is a page's, and its length whole pages.
LEMMA PoolSpanIs ==
    ASSUME NEW h, NEW cur, NEW spare, NEW D, NEW F, NEW used,
           Good(h, cur, spare, D, F, used), NEW b \in DOMAIN h.pools
    PROVE  /\ <<b, h.pools[b].len>> \in PoolSpans(h)
           /\ IsSpan(<<b, h.pools[b].len>>)
           /\ b \in Nat /\ b # NULL /\ PGSIZE <= b /\ b % PGSIZE = 0
           /\ h.pools[b].len \in Nat \ {0} /\ h.pools[b].len % PGSIZE = 0
  <1> DEFINE o == <<b, h.pools[b].len>>
  <1>1. o \in PoolSpans(h)
    BY DEF PoolSpans
  <1>2. IsSpan(o)
    BY <1>1 DEF Good, PoolsOwn, CacheOwns, Owned
  <1>3. o[1] = b /\ o[2] = h.pools[b].len
    OBVIOUS
  <1>4. /\ b \in Nat /\ PGSIZE <= b /\ b % PGSIZE = 0
        /\ h.pools[b].len \in Nat \ {0} /\ h.pools[b].len % PGSIZE = 0
    BY <1>2, <1>3 DEF IsSpan
  <1> QED  BY <1>1, <1>2, <1>4, ConstantsAre DEF NULL

(***************************************************************************)
(* The pools may be rewritten as long as each is sound, the retired ones   *)
(* for the walks and the spare one as new.                                 *)
(***************************************************************************)
LEMMA PoolsRewritten ==
    ASSUME NEW h, NEW cur, NEW spare, NEW D, NEW F, NEW used,
           Good(h, cur, spare, D, F, used),
           NEW g, IsHeap(g), g.old = h.old, IsFcn(g.pools), DOMAIN g.pools = DOMAIN h.pools,
           PoolsOwn(g, F),
           NEW next, \A b \in Nat \ DOMAIN h.pools : DOMAIN next[b] = {},
           \A b \in DOMAIN h.pools : PoolSound(b, g.pools[b], next[b]),
           \A b \in OldPools(h) : RetiredSound(g.pools[b]),
           spare # NULL => g.pools[spare].size = MSET
    PROVE  Good(g, cur, spare, D, F, next)
  <1>1. OldPools(g) = OldPools(h)
    BY DEF OldPools
  <1> QED  BY <1>1 DEF Good, Lists, PoolsSound

\* ... above all if only one of them is another.
LEMMA PoolRewritten ==
    ASSUME NEW h, NEW cur, NEW spare, NEW D, NEW F, NEW used,
           Good(h, cur, spare, D, F, used),
           NEW b \in DOMAIN h.pools, b # spare,
           NEW g, OnlyPool(g, h, b), PoolsOwn(g, F),
           NEW next, \A c \in Nat \ {b} : next[c] = used[c],
           PoolSound(b, g.pools[b], next[b]),
           b \in OldPools(h) => RetiredSound(g.pools[b])
    PROVE  Good(g, cur, spare, D, F, next)
  <1>1. /\ IsHeap(g) /\ g.old = h.old /\ IsFcn(g.pools) /\ DOMAIN g.pools = DOMAIN h.pools
        /\ \A c \in DOMAIN h.pools \ {b} : g.pools[c] = h.pools[c]
    BY DEF OnlyPool, SameLists
  <1>2. \A c \in DOMAIN h.pools : c \in Nat
    BY PoolSpanIs
  <1>3. \A c \in Nat \ DOMAIN h.pools : DOMAIN next[c] = {}
    BY DEF Good, PoolsSound
  <1>4. \A c \in DOMAIN h.pools : PoolSound(c, g.pools[c], next[c])
    BY <1>1, <1>2 DEF Good, PoolsSound
  <1>5. OldPools(h) \subseteq DOMAIN h.pools /\ (spare # NULL => spare \in DOMAIN h.pools)
    BY DEF Good, Lists
  <1>6. \A c \in OldPools(h) : RetiredSound(g.pools[c])
    BY <1>1, <1>5 DEF Good
  <1>7. spare # NULL => g.pools[spare].size = MSET
    BY <1>1, <1>5 DEF Good
  <1> QED  BY <1>1, <1>3, <1>4, <1>6, <1>7, PoolsRewritten

\* A pool's mapping resized in place.
LEMMA RemappedOwns ==
    ASSUME NEW h, NEW F, PoolsOwn(h, F), NEW b \in DOMAIN h.pools,
           NEW old, old = h.pools[b].len, b \in Nat, old \in Nat,
           NEW len \in Nat \ {0}, len % PGSIZE = 0,
           len > old => Pages(b + old, len - old) \cap h.mapped = {},
           NEW g, g.cache = h.cache, g.bytes = h.bytes,
           g.mapped = (h.mapped \ Pages(b, old)) \cup Pages(b, len),
           DOMAIN g.pools = DOMAIN h.pools, g.pools[b].len = len,
           \A c \in DOMAIN h.pools \ {b} : g.pools[c].len = h.pools[c].len
    PROVE  PoolsOwn(g, F)
  <1> DEFINE o == <<b, old>>
             q == <<b, len>>
             S == PoolSpans(h) \cup F
  <1>1. o \in PoolSpans(h) /\ o \in S /\ CacheOwns(h, S)
    BY DEF PoolsOwn, PoolSpans
  <1>2. /\ q \notin S \ {o}
        /\ CacheOwns(g, (S \ {o}) \cup {q})
    <2> HIDE DEF S
    <2> QED  BY <1>1, RemapOwns
  <1>3. PoolSpans(g) = (PoolSpans(h) \ {o}) \cup {q}
    BY DEF PoolSpans
  <1> HIDE DEF o, q
  <1>4. o \notin F
    BY <1>1 DEF PoolsOwn
  <1>5. PoolSpans(g) \cup F = (S \ {o}) \cup {q}
    BY <1>3, <1>4
  <1>6. PoolSpans(g) \cap F = {}
    BY <1>2, <1>3, <1>4 DEF PoolsOwn
  <1> QED  BY <1>2, <1>5, <1>6 DEF PoolsOwn

(***************************************************************************)
(* pool_trim_end().                                                        *)
(***************************************************************************)
LEMMA TrimEndIs ==
    ASSUME NEW h, NEW F, IsHeap(h), IsFcn(h.pools), PoolsOwn(h, F),
           NEW b \in DOMAIN h.pools, b \in Nat, NEW used, PoolSound(b, h.pools[b], used),
           NEW start \in DOMAIN h.pools[b].free, NEW k,
           NEW g, g = TrimEnd(h, b, start, k)
    PROVE  /\ OnlyPool(g, h, b)
           /\ PoolsOwn(g, F)
           /\ PoolSound(b, g.pools[b], used)
           /\ DOMAIN g.pools[b].free = DOMAIN h.pools[b].free
           /\ \A x \in DOMAIN h.pools[b].free \ {start} :
                 g.pools[b].free[x] = h.pools[b].free[x]
           /\ g.pools[b].free[start] <= h.pools[b].free[start]
           /\ g.pools[b].big = h.pools[b].big /\ g.pools[b].max = h.pools[b].max
           /\ g.pools[b].refs = h.pools[b].refs
           /\ b = h.pool => g = h
  <1> DEFINE m == h.pools[b]
             keep == RoundUp(start + HDR, PGSIZE)
             trims == /\ b # h.pool
                      /\ start + m.free[start] = m.len
                      /\ m.free[start] >= PGSIZE
                      /\ keep < m.len
                      /\ "shrink" \in k
  <1>1. /\ start \in Nat /\ m.free[start] \in Nat /\ m.len \in Nat /\ m.size \in Nat
        /\ start + m.free[start] <= m.size /\ m.size <= m.len
        /\ Tiled(m.free, used, m.size) /\ IsPool(m) /\ m.max \in Nat
    BY DEF PoolSound, Tiled
  <1>2. CASE ~trims
    <2>1. g = h
      BY <1>2 DEF TrimEnd
    <2> QED  BY <2>1, <1>1 DEF OnlyPool, SameLists
  <1>3. CASE trims
    <2> DEFINE t == Trimmed(m, start, keep)
               r == Mremap(h, b, m.len, keep)
    <2>1. g = SetPool(r, b, t)
      BY <1>3 DEF TrimEnd
    <2>2. m.size = m.len /\ b # h.pool /\ keep < m.size /\ start + m.free[start] = m.size
      BY <1>1, <1>3
    <2> HIDE DEF keep
    <2>3. /\ keep \in Nat \ {0} /\ keep % PGSIZE = 0
          /\ start + HDR <= keep
          /\ keep - start < m.free[start]
          /\ Tiled([m.free EXCEPT ![start] = keep - start], used, keep)
      <3> HIDE DEF m
      <3>1. start \in DOMAIN m.free
        BY DEF m
      <3> QED  BY <1>1, <2>2, <3>1, TrimmedIs DEF keep
    <2>4. /\ IsPool(t) /\ t.len = keep /\ t.size = Smaller(m.size, keep)
          /\ t.free = [m.free EXCEPT ![start] = keep - start]
          /\ t.big = m.big /\ t.max = m.max /\ t.refs = m.refs
      BY <1>1 DEF Trimmed, IsPool, IsFcn, PoolFields
    <2>5. t.size = keep
      BY <2>2, <2>3, <2>4, <1>1 DEF Smaller
    <2>6. /\ IsHeap(r) /\ SameLists(r, h) /\ r.pools = h.pools
          /\ r.cache = h.cache /\ r.bytes = h.bytes
          /\ r.mapped = (h.mapped \ Pages(b, m.len)) \cup Pages(b, keep)
      BY DEF Mremap, IsHeap, IsFcn, HeapFields, SameLists
    <2> HIDE DEF r, t
    <2>7. OnlyPool(g, r, b) /\ SameCache(g, r) /\ g.pools[b] = t
      BY <2>1, <2>6, SetPoolIs
    <2>8. OnlyPool(g, h, b)
      BY <2>6, <2>7 DEF OnlyPool, SameLists
    <2>9. PoolsOwn(g, F)
      <3>1. /\ g.cache = h.cache /\ g.bytes = h.bytes
            /\ g.mapped = (h.mapped \ Pages(b, m.len)) \cup Pages(b, keep)
            /\ DOMAIN g.pools = DOMAIN h.pools /\ g.pools[b].len = keep
            /\ \A c \in DOMAIN h.pools \ {b} : g.pools[c].len = h.pools[c].len
        BY <2>4, <2>6, <2>7, <2>8 DEF OnlyPool, SameCache
      <3>2. ~ (keep > m.len)
        BY <1>1, <2>2, <2>3
      <3> QED  BY <3>1, <3>2, <1>1, <2>3, RemappedOwns
    <2>10. start + HDR \in Nat /\ MSET <= keep
      BY <1>1, <2>3, ConstantsAre DEF Tiled
    <2>11. PoolSound(b, t, used)
      <3>1. t.size \in Nat /\ t.len \in Nat /\ t.max \in Nat /\ MSET <= t.size /\ t.size <= t.len
        BY <2>3, <2>4, <2>5, <2>10, <1>1
      <3>2. Tiled(t.free, used, t.size)
        BY <2>3, <2>4, <2>5
      <3>3. t.refs = Cardinality(DOMAIN used)
        BY <2>4 DEF PoolSound
      <3> QED  BY <3>1, <3>2, <3>3, <2>4 DEF PoolSound
    <2>12. /\ DOMAIN t.free = DOMAIN m.free
           /\ \A x \in DOMAIN m.free \ {start} : t.free[x] = m.free[x]
           /\ t.free[start] = keep - start
      BY <2>4
    <2>13. t.free[start] <= m.free[start]
      BY <2>12, <2>3, <1>1
    <2> QED  BY <2>2, <2>4, <2>7, <2>8, <2>9, <2>11, <2>12, <2>13
  <1> QED  BY <1>2, <1>3

(***************************************************************************)
(* freelist_insert(), of a block between the pool's blocks.                *)
(***************************************************************************)
LEMMA FreelistInsertIs ==
    ASSUME NEW h, NEW cur, NEW spare, NEW D, NEW F, NEW used,
           Good(h, cur, spare, D, F, used),
           NEW b \in DOMAIN h.pools, b # spare, b \in OldPools(h) <=> b # h.pool,
           NEW off \in Nat, NEW size \in Nat \ {0},
           MSET <= off, off + size <= h.pools[b].size,
           Clear(h.pools[b].free, used[b], off, size), NEW k,
           NEW g, g = FreelistInsert(h, b, off, size, k)
    PROVE  /\ Good(g, cur, spare, D, F, used)
           /\ OnlyPool(g, h, b)
           /\ g.pools[b].refs = h.pools[b].refs
           /\ b = h.pool => /\ g.pools[b].max = h.pools[b].max
                            /\ g.pools[b].len = h.pools[b].len
                            /\ g.pools[b].size = h.pools[b].size
  <1> DEFINE m == h.pools[b]
             free == m.free
             prev == PrevOf(free, off)
             cr == CurOf(free, off)
             before == BigBefore(free, prev)
             joins  == JoinsPrev(free, off, prev)
             linked == IF prev # NULL /\ IsBig(free[prev]) THEN prev ELSE before
             after  == IF JoinsCur(off, size, cr) /\ IsBig(free[cr]) THEN cr ELSE linked
             new == Inserted(free, off, size, prev, cr)
             n == [m EXCEPT !.free = new]
             listed == SetPool(h, b, n)
             start  == IF joins THEN prev ELSE off
             upTo == IF joins THEN before ELSE linked
             t == TrimEnd(listed, b, start, k)
  <1>1. g = Chained(t, b, start, upTo, after)
    BY DEF FreelistInsert, Insert
  <1>2. /\ IsHeap(h) /\ IsFcn(h.pools) /\ PoolsOwn(h, F) /\ PoolSound(b, m, used[b])
        /\ b \in Nat
    BY PoolSpanIs DEF Good, PoolsSound
  <1>3. /\ IsPool(m) /\ Tiled(free, used[b], m.size) /\ m.size \in Nat /\ m.max \in Nat
        /\ m.len \in Nat
    BY <1>2 DEF PoolSound
  <1> HIDE DEF m
  <1>4. /\ start \in DOMAIN new /\ start \in Nat
        /\ \A x \in DOMAIN new \ {start} : x \in DOMAIN free /\ new[x] = free[x]
        /\ Tiled(new, used[b], m.size)
    <2> HIDE DEF free
    <2> QED  BY <1>3, InsertedIs DEF free, m
  <1>5. \A list : DOMAIN list = DOMAIN new /\ (\A x \in DOMAIN new \ {start} : list[x] = new[x])
           => {x \in BigOf(free) : x <= upTo \/ x > after}
                 \cup (IF IsBig(list[start]) THEN {start} ELSE {}) = BigOf(list)
    <2> HIDE DEF free
    <2> QED  BY <1>3, ChainIs DEF free, m
  <1> HIDE DEF prev, cr, before, joins, linked, after, new, start, upTo
  <1>6. /\ IsPool(n) /\ n.free = new /\ n.len = m.len /\ n.size = m.size /\ n.refs = m.refs
        /\ n.big = m.big /\ n.max = m.max
    BY <1>3 DEF IsPool, IsFcn, PoolFields
  <1> HIDE DEF n
  <1>7. OnlyPool(listed, h, b) /\ SameCache(listed, h) /\ listed.pools[b] = n
    BY <1>2, SetPoolIs
  <1>8. PoolSound(b, n, used[b])
    BY <1>2, <1>4, <1>6 DEF PoolSound
  <1> HIDE DEF listed
  <1>9. PoolsOwn(listed, F)
    <2>1. /\ DOMAIN listed.pools = DOMAIN h.pools
          /\ \A c \in DOMAIN h.pools : listed.pools[c].len = h.pools[c].len
      BY <1>6, <1>7 DEF OnlyPool, m
    <2> QED  BY <1>2, <1>7, <2>1, SameSpansOwn
  <1>10. /\ OnlyPool(t, listed, b)
         /\ PoolsOwn(t, F)
         /\ PoolSound(b, t.pools[b], used[b])
         /\ DOMAIN t.pools[b].free = DOMAIN new
         /\ \A x \in DOMAIN new \ {start} : t.pools[b].free[x] = new[x]
         /\ t.pools[b].free[start] <= new[start]
         /\ t.pools[b].big = m.big /\ t.pools[b].max = m.max /\ t.pools[b].refs = m.refs
         /\ b = listed.pool => t = listed
    <2>1. /\ IsHeap(listed) /\ IsFcn(listed.pools) /\ b \in DOMAIN listed.pools
          /\ listed.pools[b] = n /\ start \in DOMAIN listed.pools[b].free
      BY <1>4, <1>6, <1>7 DEF OnlyPool
    <2> QED  BY <1>2, <1>6, <1>8, <1>9, <2>1, TrimEndIs
  <1> HIDE DEF t
  <1>11. OnlyPool(t, h, b) /\ t.pool = h.pool /\ listed.pool = h.pool
    BY <1>7, <1>10 DEF OnlyPool, SameLists
  <1>12. CASE b = h.pool
    <2>1. g = t /\ t = listed
      BY <1>1, <1>10, <1>11, <1>12 DEF Chained
    <2>2. Good(g, cur, spare, D, F, used)
      BY <1>10, <1>11, <1>12, <2>1, PoolRewritten
    <2> QED  BY <2>1, <2>2, <1>6, <1>7, <1>11 DEF m
  <1>13. CASE b # h.pool
    <2> DEFINE mt == t.pools[b]
               big == {x \in mt.big : x <= upTo \/ x > after}
                          \cup (IF IsBig(mt.free[start]) THEN {start} ELSE {})
               c == [mt EXCEPT !.big = big, !.max = Larger(mt.max, mt.free[start])]
    <2>1. g = SetPool(t, b, c)
      BY <1>1, <1>11, <1>13 DEF Chained
    <2>2. RetiredSound(m)
      BY <1>13 DEF Good, m
    <2> HIDE DEF mt
    <2>3. big = BigOf(mt.free)
      BY <1>5, <1>10, <2>2 DEF RetiredSound, mt
    <2>4. mt.free[start] \in Nat /\ mt.max \in Nat /\ IsPool(mt)
      BY <1>4, <1>10 DEF PoolSound, Tiled, mt
    <2> HIDE DEF big
    <2>5. /\ IsPool(c) /\ c.big = big /\ c.max = Larger(mt.max, mt.free[start])
          /\ c.free = mt.free /\ c.len = mt.len /\ c.size = mt.size /\ c.refs = mt.refs
      BY <2>4 DEF IsPool, IsFcn, PoolFields
    <2> HIDE DEF c
    <2>6. c.max \in Nat /\ mt.max <= c.max /\ mt.free[start] <= c.max
      BY <2>4, <2>5 DEF Larger
    <2>7. PoolSound(b, c, used[b])
      BY <1>10, <2>5, <2>6 DEF PoolSound, mt
    <2>8. RetiredSound(c)
      <3>1. ASSUME NEW x \in DOMAIN c.free, x # start  PROVE c.free[x] <= c.max
        <4>1. x \in DOMAIN free /\ c.free[x] = free[x]
          BY <1>4, <1>10, <2>5, <3>1 DEF mt
        <4>2. free[x] <= m.max /\ free[x] \in Nat
          BY <2>2, <4>1, <1>3 DEF RetiredSound, Tiled
        <4> QED  BY <4>1, <4>2, <2>4, <2>6, <1>10 DEF mt
      <3>2. c.refs > 0 /\ c.big = BigOf(c.free)
        BY <2>2, <2>3, <2>5, <1>10 DEF RetiredSound, mt
      <3> QED  BY <3>1, <3>2, <2>5, <2>6 DEF RetiredSound
    <2>9. OnlyPool(g, t, b) /\ SameCache(g, t) /\ g.pools[b] = c
      BY <2>1, <1>11, SetPoolIs DEF OnlyPool
    <2>10. OnlyPool(g, h, b)
      BY <2>9, <1>11 DEF OnlyPool, SameLists
    <2>11. PoolsOwn(g, F)
      <3>1. /\ DOMAIN g.pools = DOMAIN t.pools
            /\ \A d \in DOMAIN t.pools : g.pools[d].len = t.pools[d].len
        BY <2>5, <2>9 DEF OnlyPool, mt
      <3> QED  BY <1>10, <2>9, <3>1, SameSpansOwn
    <2>12. Good(g, cur, spare, D, F, used)
      BY <2>7, <2>8, <2>9, <2>10, <2>11, PoolRewritten
    <2> QED  BY <2>5, <2>9, <2>10, <2>12, <1>10, <1>13 DEF mt, m
  <1> QED  BY <1>12, <1>13

-------------------------------------------------------------------------------
(***************************************************************************)
(* A block taken, or given up, changes what is live in its pool by one.    *)
(***************************************************************************)
LEMMA OneMore ==
    ASSUME NEW used, IsFiniteSet(DOMAIN used), NEW off, off \notin DOMAIN used, NEW size,
           NEW next, next = With(used, off, size)
    PROVE  /\ DOMAIN next = DOMAIN used \cup {off}
           /\ next[off] = size
           /\ \A x \in DOMAIN used : next[x] = used[x]
           /\ IsFiniteSet(DOMAIN next)
           /\ Cardinality(DOMAIN next) = Cardinality(DOMAIN used) + 1
  <1>1. /\ DOMAIN next = DOMAIN used \cup {off}
        /\ next[off] = size
        /\ \A x \in DOMAIN used : next[x] = used[x]
    BY DEF With
  <1> DEFINE S == DOMAIN used
             T == DOMAIN next
  <1>2. IsFiniteSet(S) /\ off \notin S /\ T = S \cup {off}
    BY <1>1
  <1> HIDE DEF S, T
  <1>3. IsFiniteSet(T) /\ Cardinality(T) = Cardinality(S) + 1
    BY <1>2, MemberMore
  <1> QED  BY <1>1, <1>3 DEF S, T

LEMMA TakenSound ==
    ASSUME NEW b \in Nat, NEW m, NEW used, PoolSound(b, m, used),
           NEW off \in DOMAIN m.free, NEW alloc \in Nat \ {0},
           BlockFits(b, off, m.free[off], alloc),
           NEW t, IsPool(t), t.free = TakeBlock(m.free, off, alloc),
           t.len = m.len, t.size = m.size, t.max \in Nat, t.refs = m.refs + 1,
           NEW next, next = With(used, off, alloc)
    PROVE  /\ PoolSound(b, t, next)
           /\ off \in Nat /\ off \notin DOMAIN used /\ MSET <= off /\ off + alloc <= m.size
           /\ m.free[off] \in Nat /\ alloc <= m.free[off]
           /\ off \notin DOMAIN t.free
           /\ DOMAIN m.free \ {off} \subseteq DOMAIN t.free
           /\ \A x \in DOMAIN t.free \ {off + alloc} : x \in DOMAIN m.free /\ t.free[x] = m.free[x]
           /\ off + alloc \in DOMAIN t.free => t.free[off + alloc] = m.free[off] - alloc
           /\ m.free[off] - alloc >= 2 * HDR => off + alloc \in DOMAIN t.free
  <1>1. /\ Tiled(m.free, used, m.size) /\ m.size \in Nat
        /\ alloc <= m.free[off] /\ (b + off + HDR) % PGSIZE # 0
    BY DEF PoolSound, BlockFits
  <1>2. /\ off \in Nat /\ off \notin DOMAIN used /\ MSET <= off /\ off + alloc <= m.size
        /\ m.free[off] \in Nat
    BY <1>1, ConstantsAre DEF Tiled
  <1>3. /\ off \notin DOMAIN t.free
        /\ DOMAIN m.free \ {off} \subseteq DOMAIN t.free
        /\ \A x \in DOMAIN t.free \ {off + alloc} : x \in DOMAIN m.free /\ t.free[x] = m.free[x]
        /\ off + alloc \in DOMAIN t.free => t.free[off + alloc] = m.free[off] - alloc
        /\ m.free[off] - alloc >= 2 * HDR => off + alloc \in DOMAIN t.free
        /\ Tiled(t.free, next, m.size)
    BY <1>1, TakenIs
  <1>4. /\ DOMAIN next = DOMAIN used \cup {off}
        /\ IsFiniteSet(DOMAIN next)
        /\ Cardinality(DOMAIN next) = Cardinality(DOMAIN used) + 1
    BY <1>2, OneMore DEF PoolSound
  <1>5. \A x \in DOMAIN next : (b + x + HDR) % PGSIZE # 0
    BY <1>1, <1>4 DEF PoolSound
  <1>6. PoolSound(b, t, next)
    BY <1>3, <1>4, <1>5 DEF PoolSound
  <1> QED  BY <1>1, <1>2, <1>3, <1>6

\* The first block that fits, if any does.
LEMMA LeastFitting ==
    ASSUME NEW h, NEW b, NEW used, PoolSound(b, h.pools[b], used), NEW alloc,
           Fitting(h, b, alloc) # {}, NEW off, off = Least(Fitting(h, b, alloc))
    PROVE  off \in DOMAIN h.pools[b].free /\ BlockFits(b, off, h.pools[b].free[off], alloc)
  <1>1. Fitting(h, b, alloc) \subseteq Nat
    BY PoolBounds DEF Fitting
  <1>2. off \in Fitting(h, b, alloc)
    BY <1>1, LeastIs
  <1> QED  BY <1>2 DEF Fitting

(***************************************************************************)
(* freelist_take().                                                        *)
(***************************************************************************)
LEMMA FreelistTakeIs ==
    ASSUME NEW h, NEW cur, NEW spare, NEW D, NEW F, NEW used,
           Good(h, cur, spare, D, F, used),
           NEW b \in DOMAIN h.pools, NEW alloc \in Nat \ {0},
           Fitting(h, b, alloc) # {}, NEW off, off = Least(Fitting(h, b, alloc)),
           NEW next, next[b] = With(used[b], off, alloc),
           NEW g, g = FreelistTake(h, b, alloc)
    PROVE  /\ OnlyPool(g, h, b) /\ SameCache(g, h)
           /\ PoolSound(b, g.pools[b], next[b])
           /\ g.pools[b].len = h.pools[b].len
           /\ g.pools[b].refs = h.pools[b].refs + 1
           /\ off \in Nat /\ off \notin DOMAIN used[b]
  <1> DEFINE m == h.pools[b]
             t == [m EXCEPT !.free = TakeBlock(m.free, off, alloc), !.refs = m.refs + 1]
  <1>1. /\ IsHeap(h) /\ IsFcn(h.pools) /\ PoolSound(b, m, used[b]) /\ b \in Nat
    BY PoolSpanIs DEF Good, PoolsSound
  <1>2. g = SetPool(h, b, t)
    BY DEF FreelistTake
  <1>3. IsPool(m) /\ m.max \in Nat
    BY <1>1 DEF PoolSound
  <1>4. off \in DOMAIN m.free /\ BlockFits(b, off, m.free[off], alloc)
    BY <1>1, LeastFitting
  <1> HIDE DEF m
  <1>5. /\ IsPool(t) /\ t.free = TakeBlock(m.free, off, alloc) /\ t.len = m.len
        /\ t.size = m.size /\ t.max = m.max /\ t.refs = m.refs + 1
    BY <1>3 DEF IsPool, IsFcn, PoolFields
  <1> HIDE DEF t
  <1>6. PoolSound(b, t, next[b]) /\ off \in Nat /\ off \notin DOMAIN used[b]
    BY <1>1, <1>3, <1>4, <1>5, TakenSound
  <1>7. OnlyPool(g, h, b) /\ SameCache(g, h) /\ g.pools[b] = t
    BY <1>1, <1>2, SetPoolIs
  <1> QED  BY <1>5, <1>6, <1>7 DEF m

LEMMA SameLensOwn ==
    ASSUME NEW h, NEW F, PoolsOwn(h, F), NEW b, NEW g, OnlyPool(g, h, b), SameCache(g, h),
           g.pools[b].len = h.pools[b].len
    PROVE  PoolsOwn(g, F)
  <1>1. /\ DOMAIN g.pools = DOMAIN h.pools
        /\ \A c \in DOMAIN h.pools : g.pools[c].len = h.pools[c].len
    BY DEF OnlyPool
  <1> QED  BY <1>1, SameSpansOwn

(***************************************************************************)
(* What old_pool_best_fit() takes from a retired pool.                     *)
(***************************************************************************)
LEMMA UnchainIs ==
    ASSUME NEW h, NEW cur, NEW spare, NEW D, NEW F, NEW used,
           Good(h, cur, spare, D, F, used),
           NEW b \in OldPools(h), NEW alloc \in Nat \ {0}, NEW off \in h.pools[b].big,
           BlockFits(b, off, h.pools[b].free[off], alloc),
           NEW next, next[b] = With(used[b], off, alloc),
           \A c \in Nat \ {b} : next[c] = used[c],
           NEW g, g = Unchain(h, b, off, alloc)
    PROVE  /\ Good(g, cur, spare, D, F, next)
           /\ SameLists(g, h)
           /\ b \in DOMAIN h.pools /\ off \in Nat /\ off \notin DOMAIN used[b]
  <1> DEFINE m == h.pools[b]
             rest == m.free[off] - alloc
             big == (m.big \ {off}) \cup (IF IsBig(rest) THEN {off + alloc} ELSE {})
             t == [m EXCEPT !.free = TakeBlock(m.free, off, alloc),
                            !.big = big, !.refs = m.refs + 1]
  <1>1. b \in DOMAIN h.pools /\ b # spare
    BY DEF Good, Lists
  <1>2. /\ IsHeap(h) /\ IsFcn(h.pools) /\ PoolSound(b, m, used[b]) /\ b \in Nat
        /\ RetiredSound(m) /\ PoolsOwn(h, F)
    BY <1>1, PoolSpanIs DEF Good, PoolsSound
  <1>3. g = SetPool(h, b, t)
    BY DEF Unchain
  <1>4. IsPool(m) /\ m.max \in Nat /\ Tiled(m.free, used[b], m.size)
    BY <1>2 DEF PoolSound
  <1>5. off \in DOMAIN m.free /\ BlockFits(b, off, m.free[off], alloc) /\ m.big = BigOf(m.free)
    BY <1>2 DEF RetiredSound, BigOf
  <1> HIDE DEF m, big
  <1>6. /\ IsPool(t) /\ t.free = TakeBlock(m.free, off, alloc) /\ t.len = m.len
        /\ t.size = m.size /\ t.max = m.max /\ t.refs = m.refs + 1 /\ t.big = big
    BY <1>4 DEF IsPool, IsFcn, PoolFields
  <1> HIDE DEF t
  <1>7. /\ PoolSound(b, t, next[b]) /\ off \in Nat /\ off \notin DOMAIN used[b]
        /\ m.free[off] \in Nat /\ alloc <= m.free[off]
        /\ off \notin DOMAIN t.free
        /\ DOMAIN m.free \ {off} \subseteq DOMAIN t.free
        /\ \A x \in DOMAIN t.free \ {off + alloc} : x \in DOMAIN m.free /\ t.free[x] = m.free[x]
        /\ off + alloc \in DOMAIN t.free => t.free[off + alloc] = rest
        /\ rest >= 2 * HDR => off + alloc \in DOMAIN t.free
    <2>1. t.max \in Nat
      BY <1>4, <1>6
    <2> QED  BY <1>2, <1>5, <1>6, <2>1, TakenSound
  <1>8. off + alloc \notin DOMAIN m.free
    BY <1>4, <1>5, <1>7 DEF Tiled
  <1>9. rest \in Nat /\ (IsBig(rest) => off + alloc \in DOMAIN t.free)
    <2>1. rest \in Nat
      BY <1>7
    <2>2. 2 * HDR \in Nat /\ 2 * HDR = HDR + HDR
      BY ConstantsAre
    <2> HIDE DEF rest
    <2> QED  BY <1>7, <2>1, <2>2, ConstantsAre DEF IsBig
  <1>10. RetiredSound(t)
    <2>1. t.refs > 0
      BY <1>2, <1>6, PoolBounds
    <2>2. t.big = BigOf(t.free)
      <3> HIDE DEF rest
      <3>1. \A x \in DOMAIN t.free : x # off + alloc =>
               (x \in BigOf(t.free) <=> x \in BigOf(m.free) /\ x # off)
        BY <1>7 DEF BigOf
      <3>2. \A x \in BigOf(m.free) : x # off => x \in DOMAIN t.free /\ x # off + alloc
        BY <1>7, <1>8 DEF BigOf
      <3>3. off + alloc \in BigOf(t.free) <=> IsBig(rest)
        BY <1>7, <1>9 DEF BigOf
      <3>4. off + alloc # off
        BY <1>7
      <3>5. BigOf(t.free) \subseteq DOMAIN t.free
        BY DEF BigOf
      <3>6. off + alloc \notin m.big
        BY <1>5, <1>8 DEF BigOf
      <3>7. ASSUME NEW x \in t.big  PROVE x \in BigOf(t.free)
        <4>1. CASE x = off + alloc
          BY <3>3, <3>6, <3>7, <1>6, <4>1 DEF big
        <4>2. CASE x # off + alloc
          BY <3>1, <3>2, <3>7, <1>5, <1>6, <4>2 DEF big
        <4> QED  BY <4>1, <4>2
      <3>8. ASSUME NEW x \in BigOf(t.free)  PROVE x \in t.big
        <4>1. CASE x = off + alloc
          BY <3>3, <1>6, <3>8, <4>1 DEF big
        <4>2. CASE x # off + alloc
          BY <3>1, <3>5, <3>8, <1>5, <1>6, <4>2 DEF big
        <4> QED  BY <4>1, <4>2
      <3> QED  BY <3>7, <3>8
    <2>3. ASSUME NEW x \in DOMAIN t.free  PROVE t.free[x] <= t.max
      <3>1. m.free[off] <= m.max
        BY <1>2, <1>5 DEF RetiredSound, m
      <3>2. CASE x = off + alloc
        BY <2>3, <3>1, <3>2, <1>4, <1>6, <1>7
      <3>3. CASE x # off + alloc
        BY <2>3, <3>3, <1>2, <1>6, <1>7 DEF RetiredSound, m
      <3> QED  BY <3>2, <3>3
    <2> QED  BY <2>1, <2>2, <2>3 DEF RetiredSound
  <1>11. OnlyPool(g, h, b) /\ SameCache(g, h) /\ g.pools[b] = t
    BY <1>1, <1>2, <1>3, SetPoolIs
  <1>12. PoolsOwn(g, F)
    BY <1>2, <1>6, <1>11, SameLensOwn DEF m
  <1>13. Good(g, cur, spare, D, F, next)
    BY <1>1, <1>7, <1>10, <1>11, <1>12, PoolRewritten
  <1> QED  BY <1>1, <1>7, <1>11, <1>13 DEF OnlyPool

(***************************************************************************)
(* The walk of the chains makes the bounds exact.                          *)
(***************************************************************************)
LEMMA MeasuredIs ==
    ASSUME NEW h, NEW cur, NEW spare, NEW D, NEW F, NEW used,
           Good(h, cur, spare, D, F, used), NEW alloc,
           NEW g, g = Measured(h, alloc)
    PROVE  /\ Good(g, cur, spare, D, F, used)
           /\ SameLists(g, h) /\ SameCache(g, h)
           /\ DOMAIN g.pools = DOMAIN h.pools
           /\ \A b \in DOMAIN h.pools : /\ g.pools[b].free = h.pools[b].free
                                        /\ g.pools[b].big = h.pools[b].big
                                        /\ g.pools[b].len = h.pools[b].len
                                        /\ g.pools[b].size = h.pools[b].size
                                        /\ g.pools[b].refs = h.pools[b].refs
  <1> DEFINE exact  == {c[1] : c \in {d \in ChainFits(h, alloc) : SizeOf(h, d) = alloc}}
             walked == {h.old[i] : i \in {j \in DOMAIN h.old :
                           /\ h.pools[h.old[j]].max >= alloc
                           /\ \A e \in exact : j < e}}
             bound(m) == Greatest({RETIRED_FIT_MIN - 1} \cup {m.free[x] : x \in m.big})
             pools == [b \in DOMAIN h.pools |->
                          IF b \in walked
                            THEN [h.pools[b] EXCEPT !.max = bound(h.pools[b])]
                            ELSE h.pools[b]]
  <1>1. g = [h EXCEPT !.pools = pools]
    BY DEF Measured
  <1>2. walked \subseteq OldPools(h)
    BY DEF OldPools
  <1> HIDE DEF walked, bound
  <1>3. /\ IsHeap(g) /\ SameLists(g, h) /\ SameCache(g, h) /\ g.pools = pools
        /\ DOMAIN pools = DOMAIN h.pools /\ IsFcn(pools)
    BY <1>1 DEF Good, IsHeap, IsFcn, HeapFields, SameLists, SameCache
  <1>4. OldPools(h) \subseteq DOMAIN h.pools
    BY DEF Good, Lists
  <1>5. ASSUME NEW b \in DOMAIN h.pools
        PROVE  /\ PoolSound(b, pools[b], used[b])
               /\ b \in OldPools(h) => RetiredSound(pools[b])
               /\ pools[b].free = h.pools[b].free
               /\ pools[b].big = h.pools[b].big
               /\ pools[b].len = h.pools[b].len
               /\ pools[b].size = h.pools[b].size
               /\ pools[b].refs = h.pools[b].refs
    <2> DEFINE m == h.pools[b]
               t == [m EXCEPT !.max = bound(m)]
    <2>1. PoolSound(b, m, used[b]) /\ IsPool(m)
      BY DEF Good, PoolsSound, PoolSound
    <2>2. CASE b \notin walked
      <3>1. pools[b] = m
        BY <2>2
      <3> QED  BY <3>1, <2>1 DEF Good
    <2>3. CASE b \in walked
      <3>1. pools[b] = t
        BY <2>3
      <3>2. b \in OldPools(h) /\ RetiredSound(m)
        BY <2>3, <1>2 DEF Good
      <3> HIDE DEF m
      <3> DEFINE S == {RETIRED_FIT_MIN - 1} \cup {m.free[x] : x \in m.big}
                 top == RETIRED_FIT_MIN + m.max
      <3>3. RETIRED_FIT_MIN - 1 \in Nat /\ m.max \in Nat /\ top \in Nat
        BY <2>1, ConstantsAre DEF PoolSound
      <3>4. \A x \in m.big : m.free[x] \in Nat /\ m.free[x] <= m.max
        BY <2>1, <3>2 DEF RetiredSound, BigOf, PoolSound, Tiled
      <3>5. S \subseteq Nat /\ S # {} /\ \A s \in S : s <= top
        BY <3>3, <3>4, ConstantsAre
      <3>6. bound(m) \in S /\ \A s \in S : bound(m) >= s
        <4> HIDE DEF S, top
        <4>1. Greatest(S) \in S /\ \A s \in S : Greatest(S) >= s
          BY <3>3, <3>5, GreatestIs
        <4> QED  BY <4>1 DEF bound, S
      <3> DEFINE v == bound(m)
      <3>7. v \in Nat /\ v >= RETIRED_FIT_MIN - 1 /\ \A x \in m.big : m.free[x] <= v
        BY <3>5, <3>6, <3>4, ConstantsAre
      <3> HIDE DEF v, S
      <3>8. /\ IsPool(t) /\ t.max = v /\ t.free = m.free /\ t.big = m.big /\ t.len = m.len
            /\ t.size = m.size /\ t.refs = m.refs
        BY <2>1 DEF IsPool, IsFcn, PoolFields, v
      <3> HIDE DEF t
      <3>9. PoolSound(b, t, used[b])
        BY <2>1, <3>7, <3>8 DEF PoolSound
      <3>10. \A x \in DOMAIN m.free : m.free[x] <= v
        <4> TAKE x \in DOMAIN m.free
        <4>1. CASE x \in m.big
          BY <4>1, <3>7
        <4>2. CASE x \notin m.big
          <5>1. ~ (m.free[x] >= RETIRED_FIT_MIN) /\ m.free[x] \in Nat
            BY <4>2, <3>2, <2>1 DEF RetiredSound, BigOf, IsBig, PoolSound, Tiled
          <5> QED  BY <5>1, <3>7, ConstantsAre
        <4> QED  BY <4>1, <4>2
      <3>11. RetiredSound(t)
        BY <3>2, <3>8, <3>10 DEF RetiredSound
      <3> QED  BY <3>1, <3>8, <3>9, <3>11 DEF m
    <2> QED  BY <2>2, <2>3
  <1> HIDE DEF pools
  <1>6. PoolsOwn(g, F)
    BY <1>3, <1>5, SameSpansOwn DEF Good
  <1>7. Good(g, cur, spare, D, F, used)
    <2>1. \A b \in Nat \ DOMAIN h.pools : DOMAIN used[b] = {}
      BY DEF Good, PoolsSound
    <2>2. \A b \in DOMAIN h.pools : PoolSound(b, g.pools[b], used[b])
      BY <1>3, <1>5
    <2>3. \A b \in OldPools(h) : RetiredSound(g.pools[b])
      BY <1>3, <1>4, <1>5
    <2>4. spare # NULL => g.pools[spare].size = MSET
      BY <1>3, <1>5 DEF Good, Lists
    <2>5. /\ IsHeap(g) /\ g.old = h.old /\ IsFcn(g.pools) /\ DOMAIN g.pools = DOMAIN h.pools
      BY <1>3 DEF SameLists
    <2> QED  BY <1>6, <2>1, <2>2, <2>3, <2>4, <2>5, PoolsRewritten
  <1> QED  BY <1>3, <1>5, <1>7

(***************************************************************************)
(* A block is bumped off the end of the current pool.                      *)
(***************************************************************************)

LEMMA WholePages ==
    ASSUME NEW x \in Int, NEW y \in Int, x % PGSIZE = 0, y % PGSIZE = 0
    PROVE  (x + y) % PGSIZE = 0 /\ (x - y) % PGSIZE = 0
  BY ConstantsAre, MultiplesAdd, Zenon

\* After a page's worth of skipping, the user pointer is not a page's start.
LEMMA SkipIs ==
    ASSUME NEW b \in Nat, b % PGSIZE = 0, NEW size \in Nat, NEW off, off = Skip(b, size)
    PROVE  /\ off \in Nat /\ size <= off
           /\ (b + off + HDR) % PGSIZE # 0
           /\ \A len \in Nat : len % PGSIZE = 0 /\ size <= len => off <= len
           /\ off <= size + LONG
  <1>1. /\ HDR \in Nat \ {0} /\ LONG \in Nat \ {0} /\ PGSIZE \in Nat \ {0}
        /\ LONG <= HDR /\ HDR < PGSIZE
    BY ConstantsAre
  <1> DEFINE e == b + size + HDR
  <1>2. e \in Nat
    BY <1>1
  <1>3. CASE e % PGSIZE = 0
    <2>1. off = size + LONG
      BY <1>3 DEF Skip
    <2>2. ((b + off + HDR) % PGSIZE) # 0
      <3>1. SUFFICES ASSUME (b + off + HDR) % PGSIZE = 0  PROVE FALSE
        OBVIOUS
      <3>2. b + off + HDR = e + LONG
        BY <2>1, <1>1
      <3> HIDE DEF e
      <3> DEFINE z == e + LONG
      <3>3. (z - e) % PGSIZE = 0
        <4>1. z \in Int /\ z % PGSIZE = 0
          BY <3>1, <3>2, <1>1, <1>2
        <4> HIDE DEF z
        <4> HIDE DEF e
        <4>2. e \in Int
          BY <1>2
        <4> QED  BY <4>1, <4>2, <1>3, WholePages, Zenon
      <3>4. (e + LONG) - e = LONG
        BY <1>1, <1>2
      <3>5. LONG % PGSIZE = 0
        BY <3>3, <3>4
      <3>6. LONG >= PGSIZE
        BY <3>5, <1>1, AtLeastAsBig
      <3> QED  BY <3>6, <1>1
    <2>3. ASSUME NEW len \in Nat, len % PGSIZE = 0, size <= len  PROVE off <= len
      <3> DEFINE d == e - b
      <3>1. (d - len) % PGSIZE = 0
        <4>1. d % PGSIZE = 0 /\ d \in Int
          <5> HIDE DEF e
          <5>1. e \in Int /\ b \in Int
            BY <1>2
          <5>2. (e - b) % PGSIZE = 0
            BY <5>1, <1>3, WholePages, Zenon
          <5> QED  BY <5>1, <5>2
        <4> HIDE DEF d
        <4>2. len \in Int
          OBVIOUS
        <4> QED  BY <4>1, <4>2, <2>3, WholePages, Zenon
      <3>2. (e - b) - len = size + HDR - len
        BY <1>1
      <3>3. CASE size + HDR <= len
        BY <3>3, <2>1, <1>1
      <3>4. CASE size + HDR > len
        <4>1. size + HDR - len \in Nat \ {0} /\ (size + HDR - len) % PGSIZE = 0
          BY <3>1, <3>2, <3>4, <1>1
        <4>2. size + HDR - len >= PGSIZE
          BY <4>1, <1>1, AtLeastAsBig
        <4> QED  BY <4>2, <2>3, <1>1
      <3> QED  BY <3>3, <3>4, <1>1
    <2> QED  BY <2>1, <2>2, <2>3, <1>1
  <1>4. CASE e % PGSIZE # 0
    <2>1. off = size
      BY <1>4 DEF Skip
    <2> QED  BY <2>1, <1>1, <1>4
  <1> QED  BY <1>3, <1>4

LEMMA TiledHigher ==
    ASSUME NEW free, NEW used, NEW end \in Nat, Tiled(free, used, end),
           NEW more \in Nat, end <= more
    PROVE  Tiled(free, used, more)
  BY DEF Tiled

LEMMA BumpIs ==
    ASSUME NEW h, NEW cur, NEW spare, NEW D, NEW F, NEW used,
           Good(h, cur, spare, D, F, used), cur # NULL, cur = h.pool,
           NEW alloc \in Nat \ {0}, HasBumpRoom(h, alloc),
           NEW b, b = h.pool, NEW off, off = BumpOffset(h),
           NEW next, next[b] = With(used[b], off, alloc),
           \A c \in Nat \ {b} : next[c] = used[c],
           NEW g, g = Bump(h, alloc)
    PROVE  /\ Good(g, cur, spare, D, F, next)
           /\ SameLists(g, h)
           /\ b \in DOMAIN h.pools /\ off \in Nat /\ off \notin DOMAIN used[b]
  <1> DEFINE m == h.pools[b]
             size == Skip(b, off + alloc)
             t == [m EXCEPT !.size = size, !.refs = m.refs + 1]
  <1>1. b \in DOMAIN h.pools /\ b # spare /\ b \notin OldPools(h)
    BY DEF Good, Lists
  <1>2. /\ IsHeap(h) /\ IsFcn(h.pools) /\ PoolSound(b, m, used[b]) /\ PoolsOwn(h, F)
        /\ b \in Nat /\ b % PGSIZE = 0 /\ m.len % PGSIZE = 0
    BY <1>1, PoolSpanIs DEF Good, PoolsSound
  <1>3. /\ IsPool(m) /\ m.max \in Nat /\ Tiled(m.free, used[b], m.size)
        /\ m.size \in Nat /\ m.len \in Nat /\ MSET <= m.size
    BY <1>2 DEF PoolSound
  <1>4. g = SetPool(h, b, t)
    BY DEF Bump
  <1>5. off = Skip(b, m.size) /\ off + alloc <= m.len
    BY DEF BumpOffset, HasBumpRoom
  <1> HIDE DEF m
  <1>6. off \in Nat /\ m.size <= off /\ (b + off + HDR) % PGSIZE # 0
    BY <1>2, <1>3, <1>5, SkipIs
  <1>7. size \in Nat /\ off + alloc <= size /\ size <= m.len
    BY <1>2, <1>3, <1>5, <1>6, SkipIs
  <1> HIDE DEF size
  <1>8. /\ IsPool(t) /\ t.free = m.free /\ t.len = m.len
        /\ t.size = size /\ t.max = m.max /\ t.refs = m.refs + 1
    BY <1>3 DEF IsPool, IsFcn, PoolFields
  <1> HIDE DEF t
  <1>9. off \notin DOMAIN used[b]
    BY <1>3, <1>6 DEF Tiled
  <1>10. /\ DOMAIN next[b] = DOMAIN used[b] \cup {off}
         /\ next[b][off] = alloc
         /\ \A x \in DOMAIN used[b] : next[b][x] = used[b][x]
         /\ IsFiniteSet(DOMAIN next[b])
         /\ Cardinality(DOMAIN next[b]) = Cardinality(DOMAIN used[b]) + 1
    <2>1. next[b] = With(used[b], off, alloc) /\ IsFiniteSet(DOMAIN used[b])
      BY <1>2 DEF PoolSound
    <2> DEFINE u == used[b]
               n == next[b]
    <2>2. n = With(u, off, alloc) /\ IsFiniteSet(DOMAIN u) /\ off \notin DOMAIN u
      BY <2>1, <1>9
    <2> HIDE DEF u, n
    <2>3. /\ DOMAIN n = DOMAIN u \cup {off}
          /\ n[off] = alloc
          /\ \A x \in DOMAIN u : n[x] = u[x]
          /\ IsFiniteSet(DOMAIN n)
          /\ Cardinality(DOMAIN n) = Cardinality(DOMAIN u) + 1
      <3>1. DOMAIN n = DOMAIN u \cup {off} /\ n[off] = alloc /\ \A x \in DOMAIN u : n[x] = u[x]
        BY <2>2 DEF With
      <3> DEFINE S == DOMAIN u
                 T == DOMAIN n
      <3>2. IsFiniteSet(S) /\ off \notin S /\ T = S \cup {off}
        BY <2>2, <3>1
      <3> HIDE DEF S, T
      <3>3. IsFiniteSet(T) /\ Cardinality(T) = Cardinality(S) + 1
        BY <3>2, MemberMore
      <3> QED  BY <3>1, <3>3 DEF S, T
    <2> QED  BY <2>3 DEF u, n
  <1>11. Tiled(m.free, next[b], size)
    <2>1. Tiled(m.free, used[b], size)
      BY <1>3, <1>6, <1>7, TiledHigher
    <2>2. \A x \in DOMAIN m.free : x + m.free[x] <= off
      BY <1>3, <1>6 DEF Tiled
    <2>3. \A x \in DOMAIN used[b] : x + used[b][x] <= off
      BY <1>3, <1>6 DEF Tiled
    <2>4. MSET <= off
      BY <1>3, <1>6, ConstantsAre
    <2> QED  BY <2>1, <2>2, <2>3, <2>4, <1>6, <1>7, <1>10 DEF Tiled
  <1>12. PoolSound(b, t, next[b])
    <2>1. \A x \in DOMAIN next[b] : (b + x + HDR) % PGSIZE # 0
      BY <1>2, <1>6, <1>10 DEF PoolSound
    <2>2. MSET <= t.size /\ t.size <= t.len
      BY <1>3, <1>6, <1>7, <1>8, ConstantsAre
    <2> QED  BY <2>1, <2>2, <1>2, <1>3, <1>7, <1>8, <1>10, <1>11 DEF PoolSound
  <1>13. OnlyPool(g, h, b) /\ SameCache(g, h) /\ g.pools[b] = t
    BY <1>1, <1>2, <1>4, SetPoolIs
  <1>14. PoolsOwn(g, F)
    BY <1>2, <1>8, <1>13, SameLensOwn DEF m
  <1>15. Good(g, cur, spare, D, F, next)
    BY <1>1, <1>12, <1>13, <1>14, PoolRewritten
  <1> QED  BY <1>1, <1>6, <1>9, <1>13, <1>15 DEF OnlyPool

-------------------------------------------------------------------------------
(***************************************************************************)
(* A block given up.                                                       *)
(***************************************************************************)
LacksOne(next, used, off) ==
    DOMAIN next = DOMAIN used \ {off} /\ \A x \in DOMAIN next : next[x] = used[x]

LEMMA OneLess ==
    ASSUME NEW b, NEW m, NEW used, PoolSound(b, m, used), NEW off \in DOMAIN used,
           NEW next, LacksOne(next, used, off),
           NEW t, IsPool(t), t.free = m.free, t.len = m.len, t.size = m.size, t.max = m.max,
           t.refs = m.refs - 1
    PROVE  /\ PoolSound(b, t, next)
           /\ m.refs \in Nat \ {0}
           /\ off \in Nat /\ used[off] \in Nat \ {0}
           /\ MSET <= off /\ off + used[off] <= m.size
           /\ Clear(m.free, next, off, used[off])
  <1>1. IsPool(m) /\ Tiled(m.free, used, m.size) /\ m.size \in Nat
    BY DEF PoolSound
  <1>3. /\ IsFiniteSet(DOMAIN used \ {off})
        /\ Cardinality(DOMAIN used \ {off}) = Cardinality(DOMAIN used) - 1
        /\ Cardinality(DOMAIN used) \in Nat \ {0}
    <2>1. IsFiniteSet(DOMAIN used)
      BY DEF PoolSound
    <2>2. Cardinality(DOMAIN used) \in Nat /\ (Cardinality(DOMAIN used) = 0 => DOMAIN used = {})
      BY <2>1, FS_CardinalityType, FS_EmptySet
    <2>3. /\ IsFiniteSet(DOMAIN used \ {off})
          /\ Cardinality(DOMAIN used \ {off}) = Cardinality(DOMAIN used) - 1
      BY <2>1, FS_RemoveElement
    <2> QED  BY <2>2, <2>3
  <1>4. Tiled(m.free, next, m.size)
    BY <1>1 DEF Tiled, LacksOne
  <1>5. PoolSound(b, t, next)
    BY <1>3, <1>4 DEF PoolSound, LacksOne
  <1>6. /\ off \in Nat /\ used[off] \in Nat \ {0}
        /\ MSET <= off /\ off + used[off] <= m.size
        /\ Clear(m.free, next, off, used[off])
    BY <1>1 DEF Tiled, Clear, LacksOne
  <1>7. m.refs \in Nat \ {0}
    BY <1>3 DEF PoolSound
  <1> QED  BY <1>5, <1>6, <1>7

LEMMA UnreferencedIs ==
    ASSUME NEW h, NEW cur, NEW spare, NEW D, NEW F, NEW used,
           Good(h, cur, spare, D, F, used),
           NEW b \in DOMAIN h.pools, NEW off \in DOMAIN used[b],
           NEW next, LacksOne(next[b], used[b], off),
           NEW g, g = Unreferenced(h, b)
    PROVE  /\ OnlyPool(g, h, b) /\ PoolsOwn(g, F)
           /\ PoolSound(b, g.pools[b], next[b])
           /\ g.pools[b].free = h.pools[b].free /\ g.pools[b].big = h.pools[b].big
           /\ g.pools[b].len = h.pools[b].len /\ g.pools[b].size = h.pools[b].size
           /\ g.pools[b].max = h.pools[b].max /\ g.pools[b].refs = h.pools[b].refs - 1
           /\ h.pools[b].refs \in Nat \ {0}
  <1> DEFINE m == h.pools[b]
             t == [m EXCEPT !.refs = m.refs - 1]
  <1>1. /\ IsHeap(h) /\ IsFcn(h.pools) /\ PoolSound(b, m, used[b]) /\ PoolsOwn(h, F)
    BY DEF Good, PoolsSound
  <1>2. g = SetPool(h, b, t)
    BY DEF Unreferenced
  <1> HIDE DEF m
  <1>3. /\ PoolSound(b, t, next[b])
        /\ t.free = m.free /\ t.big = m.big /\ t.len = m.len /\ t.size = m.size
        /\ t.max = m.max /\ t.refs = m.refs - 1
        /\ m.refs \in Nat \ {0}
    <2>1. /\ t.free = m.free /\ t.big = m.big /\ t.len = m.len /\ t.size = m.size
          /\ t.max = m.max /\ t.refs = m.refs - 1 /\ IsPool(t)
      BY <1>1 DEF PoolSound, IsPool, IsFcn, PoolFields
    <2> HIDE DEF t
    <2>2. PoolSound(b, t, next[b]) /\ m.refs \in Nat \ {0}
      BY <1>1, <2>1, OneLess
    <2> QED  BY <2>1, <2>2
  <1> HIDE DEF t
  <1>4. OnlyPool(g, h, b) /\ SameCache(g, h) /\ g.pools[b] = t
    BY <1>1, <1>2, SetPoolIs
  <1>5. PoolsOwn(g, F)
    BY <1>1, <1>3, <1>4, SameLensOwn DEF m
  <1> QED  BY <1>3, <1>4, <1>5 DEF m

(***************************************************************************)
(* A pool taken off the list of the retired ones.                          *)
(***************************************************************************)
Members(s) == {s[i] : i \in DOMAIN s}

LEMMA UnlistedIs ==
    ASSUME NEW old \in Seq(Nat), Once(old), NEW b \in Members(old),
           NEW u, u = Unlisted(old, b)
    PROVE  u \in Seq(Nat) /\ Once(u) /\ Members(u) = Members(old) \ {b}
  <1> DEFINE at == CHOOSE i \in DOMAIN old : old[i] = b
             n == Len(old)
             from(i) == IF i < at THEN i ELSE i + 1
  <1>1. at \in DOMAIN old /\ old[at] = b
    BY DEF Members
  <1>2. n \in Nat /\ DOMAIN old = 1 .. n /\ \A i \in 1 .. n : old[i] \in Nat
    OBVIOUS
  <1>3. u = [i \in 1 .. n - 1 |-> old[IF i < at THEN i ELSE i + 1]]
    BY DEF Unlisted
  <1> HIDE DEF at, n
  <1>4. n >= 1 /\ n - 1 \in Nat /\ at \in 1 .. n
    BY <1>1, <1>2
  <1>5. /\ DOMAIN u = 1 .. n - 1
        /\ \A i \in 1 .. n - 1 : u[i] = old[from(i)] /\ from(i) \in 1 .. n /\ from(i) # at
    BY <1>2, <1>3, <1>4
  <1>6. u \in Seq(Nat)
    <2>1. \A i \in 1 .. n - 1 : u[i] \in Nat
      BY <1>2, <1>5
    <2>2. u \in [1 .. n - 1 -> Nat]
      BY <1>3, <2>1
    <2> QED  BY <1>4, <2>2
  <1>7. Once(u)
    <2>1. \A i, j \in 1 .. n - 1 : i # j => from(i) # from(j)
      BY <1>4
    <2> HIDE DEF from
    <2> QED  BY <1>2, <1>5, <2>1 DEF Once
  <1>8. ASSUME NEW c \in Members(u)  PROVE c \in Members(old) \ {b}
    <2>1. PICK i \in 1 .. n - 1 : u[i] = c
      BY <1>5, <1>8 DEF Members
    <2>2. c = old[from(i)] /\ from(i) \in 1 .. n /\ from(i) # at
      BY <1>5, <2>1
    <2> HIDE DEF from
    <2> QED  BY <1>1, <1>2, <2>2 DEF Once, Members
  <1>9. ASSUME NEW c \in Members(old) \ {b}  PROVE c \in Members(u)
    <2>1. PICK i \in 1 .. n : old[i] = c /\ i # at
      BY <1>1, <1>2, <1>9 DEF Members
    <2>2. CASE i < at
      <3>1. i \in 1 .. n - 1 /\ from(i) = i
        BY <2>2, <1>2, <1>4
      <3> QED  BY <3>1, <1>5, <2>1 DEF Members
    <2>3. CASE i > at
      <3>1. i - 1 \in 1 .. n - 1 /\ from(i - 1) = i
        BY <2>3, <1>2, <1>4
      <3>2. u[i - 1] = c /\ i - 1 \in DOMAIN u
        BY <3>1, <1>5, <2>1
      <3> QED  BY <3>2 DEF Members
    <2> QED  BY <2>1, <2>2, <2>3, <1>4
  <1> QED  BY <1>6, <1>7, <1>8, <1>9

-------------------------------------------------------------------------------
(***************************************************************************)
(* Pools that change lists.                                                *)
(***************************************************************************)

\* Which pool is current is a matter of one field.
LEMMA FieldsOnly ==
    ASSUME NEW h, NEW cur, NEW spare, NEW D, NEW F, NEW used,
           Good(h, cur, spare, D, F, used),
           NEW g, IsHeap(g), SameCache(g, h), g.pools = h.pools, g.old = h.old
    PROVE  Good(g, cur, spare, D, F, used)
  <1>1. OldPools(g) = OldPools(h)
    BY DEF OldPools
  <1>2. PoolsOwn(g, F)
    BY SameSpansOwn DEF Good
  <1> QED  BY <1>1, <1>2 DEF Good, Lists, PoolsSound

LEMMA CurrentDangles ==
    ASSUME NEW h, NEW cur, NEW spare, NEW D, NEW F, NEW used,
           Good(h, cur, spare, D, F, used), cur # NULL
    PROVE  Good(h, NULL, spare, D \cup {cur}, F, used) /\ cur \in DOMAIN h.pools
  <1>1. NULL \notin DOMAIN h.pools
    BY PoolSpanIs
  <1> QED  BY <1>1 DEF Good, Lists

LEMMA SpareDangles ==
    ASSUME NEW h, NEW cur, NEW spare, NEW D, NEW F, NEW used,
           Good(h, cur, spare, D, F, used), spare # NULL
    PROVE  Good(h, cur, NULL, D \cup {spare}, F, used) /\ spare \in DOMAIN h.pools
  <1>1. NULL \notin DOMAIN h.pools
    BY PoolSpanIs
  <1> QED  BY <1>1 DEF Good, Lists

LEMMA DanglingIsCurrent ==
    ASSUME NEW h, NEW spare, NEW D, NEW F, NEW used,
           Good(h, NULL, spare, D, F, used), NEW b \in D
    PROVE  Good(h, b, spare, D \ {b}, F, used)
  <1>1. NULL \notin DOMAIN h.pools
    BY PoolSpanIs
  <1> QED  BY <1>1 DEF Good, Lists

LEMMA SpareIsCurrent ==
    ASSUME NEW h, NEW spare, NEW D, NEW F, NEW used,
           Good(h, NULL, spare, D, F, used)
    PROVE  Good(h, spare, NULL, D, F, used)
  <1>1. NULL \notin DOMAIN h.pools
    BY PoolSpanIs
  <1> QED  BY <1>1 DEF Good, Lists

LEMMA RetiredDangles ==
    ASSUME NEW h, NEW cur, NEW spare, NEW D, NEW F, NEW used,
           Good(h, cur, spare, D, F, used), NEW b \in OldPools(h),
           NEW g, IsHeap(g), SameCache(g, h), g.pools = h.pools, g.old = Unlisted(h.old, b)
    PROVE  Good(g, cur, spare, D \cup {b}, F, used) /\ b \in DOMAIN h.pools
  <1>1. NULL \notin DOMAIN h.pools
    BY PoolSpanIs
  <1>2. /\ g.old \in Seq(Nat)
        /\ Once(g.old)
        /\ OldPools(g) = OldPools(h) \ {b}
    <2>1. OldPools(g) = Members(g.old) /\ OldPools(h) = Members(h.old)
      BY DEF OldPools, Members
    <2>2. h.old \in Seq(Nat) /\ Once(h.old)
      BY DEF Good, Lists
    <2> QED  BY <2>1, <2>2, UnlistedIs
  <1>3. PoolsOwn(g, F)
    BY SameSpansOwn DEF Good
  <1> QED  BY <1>1, <1>2, <1>3 DEF Good, Lists, PoolsSound

(***************************************************************************)
(* A drained pool becomes the spare, or its mapping goes.                  *)
(***************************************************************************)
LEMMA FreshSound ==
    ASSUME NEW b, NEW len \in Nat, MSET <= len, NEW used, DOMAIN used = {}
    PROVE  PoolSound(b, Fresh(len), used)
  <1>1. /\ IsPool(Fresh(len)) /\ Fresh(len).len = len /\ Fresh(len).size = MSET
        /\ Fresh(len).refs = 0 /\ Fresh(len).free = NoBlocks /\ Fresh(len).max = 0
    BY DEF Fresh, IsPool, IsFcn, PoolFields
  <1>2. IsFiniteSet(DOMAIN used) /\ Cardinality(DOMAIN used) = 0
    BY FS_EmptySet
  <1>3. Tiled(NoBlocks, used, MSET)
    BY DEF NoBlocks, Tiled
  <1> QED  BY <1>1, <1>2, <1>3, ConstantsAre DEF PoolSound

LEMMA RewoundIs ==
    ASSUME NEW h, NEW cur, NEW spare, NEW D, NEW F, NEW used,
           Good(h, cur, spare, D, F, used),
           NEW b \in DOMAIN h.pools, b \notin OldPools(h), h.pools[b].refs = 0,
           NEW g, g = Rewound(h, b)
    PROVE  /\ Good(g, cur, spare, D, F, used)
           /\ OnlyPool(g, h, b)
           /\ g.pools[b].size = MSET /\ g.pools[b].len = h.pools[b].len
  <1> DEFINE t == Fresh(h.pools[b].len)
  <1>1. /\ IsHeap(h) /\ IsFcn(h.pools) /\ PoolSound(b, h.pools[b], used[b]) /\ PoolsOwn(h, F)
    BY DEF Good, PoolsSound
  <1>2. DOMAIN used[b] = {}
    BY <1>1, PoolBounds
  <1>3. h.pools[b].len \in Nat /\ MSET <= h.pools[b].len
    BY <1>1, ConstantsAre DEF PoolSound
  <1>4. PoolSound(b, t, used[b])
    BY <1>2, <1>3, FreshSound
  <1>5. t.size = MSET /\ t.len = h.pools[b].len
    BY DEF Fresh
  <1> HIDE DEF t
  <1>6. OnlyPool(g, h, b) /\ SameCache(g, h) /\ g.pools[b] = t
    BY <1>1, SetPoolIs DEF Rewound, t
  <1>7. PoolsOwn(g, F)
    BY <1>1, <1>5, <1>6, SameLensOwn
  <1>8. Good(g, cur, spare, D, F, used)
    <2>1. \A c \in DOMAIN h.pools : PoolSound(c, g.pools[c], used[c])
      BY <1>4, <1>6 DEF OnlyPool, Good, PoolsSound
    <2>2. \A c \in OldPools(h) : RetiredSound(g.pools[c])
      BY <1>6 DEF OnlyPool, Good, Lists
    <2>3. spare # NULL => g.pools[spare].size = MSET
      BY <1>5, <1>6 DEF OnlyPool, Good, Lists
    <2>4. /\ IsHeap(g) /\ g.old = h.old /\ IsFcn(g.pools) /\ DOMAIN g.pools = DOMAIN h.pools
      BY <1>6 DEF OnlyPool, SameLists
    <2>5. \A c \in Nat \ DOMAIN h.pools : DOMAIN used[c] = {}
      BY DEF Good, PoolsSound
    <2> QED  BY <1>7, <2>1, <2>2, <2>3, <2>4, <2>5, PoolsRewritten
  <1> QED  BY <1>5, <1>6, <1>8

LEMMA SparedIs ==
    ASSUME NEW h, NEW cur, NEW D, NEW F, NEW used,
           Good(h, cur, NULL, D, F, used), NEW b \in D, h.pools[b].refs = 0,
           NEW g, g = Spared(h, b), NEW E, E = D \ {b}
    PROVE  /\ Good(g, cur, b, E, F, used)
           /\ g.pool = h.pool /\ g.pool1 = b
  <1> DEFINE r == Rewound(h, b)
  <1>1. b \in DOMAIN h.pools /\ b \notin OldPools(h) /\ b # cur
    BY DEF Good, Lists
  <1>2. /\ Good(r, cur, NULL, D, F, used)
        /\ OnlyPool(r, h, b)
        /\ r.pools[b].size = MSET
    BY <1>1, RewoundIs
  <1>3. g = [r EXCEPT !.pool1 = b]
    BY DEF Spared
  <1>4. b # NULL
    BY <1>1, PoolSpanIs
  <1> HIDE DEF r
  <1>5. IsHeap(r) /\ r.pool = h.pool
    BY <1>2 DEF OnlyPool, SameLists
  <1>6. /\ IsHeap(g) /\ g.pools = r.pools /\ g.old = r.old /\ SameCache(g, r)
        /\ g.pool = h.pool /\ g.pool1 = b
    BY <1>3, <1>5 DEF IsHeap, IsFcn, HeapFields, SameCache
  <1>7. Good(g, cur, NULL, D, F, used)
    BY <1>2, <1>6, FieldsOnly
  <1>8. Good(g, cur, b, D \ {b}, F, used)
    BY <1>1, <1>2, <1>4, <1>6, <1>7 DEF Good, Lists
  <1> QED  BY <1>6, <1>8

LEMMA UnmappedIs ==
    ASSUME NEW h, NEW cur, NEW spare, NEW D, NEW F, NEW used,
           Good(h, cur, spare, D, F, used), NEW b \in D, h.pools[b].refs = 0,
           NEW g, g = Unmapped(h, b), NEW E, E = D \ {b}
    PROVE  /\ Good(g, cur, spare, E, F, used)
           /\ g.pool = h.pool /\ g.pool1 = h.pool1 /\ g.old = h.old
           /\ \A c : c \in DOMAIN g.pools <=> c \in DOMAIN h.pools /\ c # b
           /\ \A c \in DOMAIN g.pools : g.pools[c] = h.pools[c]
  <1> DEFINE len == h.pools[b].len
             o == <<b, len>>
             u == CacheUnmap(h, b, len)
             S == PoolSpans(h) \cup F
             pools == Without(h.pools, {b})
  <1>1. b \in DOMAIN h.pools /\ b \notin OldPools(h) /\ b # cur /\ b # spare
    <2>1. NULL \notin DOMAIN h.pools
      BY PoolSpanIs
    <2> QED  BY <2>1 DEF Good, Lists
  <1>2. b \in Nat /\ len \in Nat /\ o \in PoolSpans(h) /\ o \notin F
    BY <1>1, PoolSpanIs DEF Good, PoolsOwn
  <1> HIDE DEF len
  <1>3. /\ IsHeap(u) /\ SamePools(u, h)
        /\ CacheOwns(u, S \ {o})
    <2> HIDE DEF S
    <2>1. IsHeap(h) /\ CacheOwns(h, S) /\ o \in S
      BY <1>2 DEF Good, PoolsOwn, S
    <2> QED  BY <2>1, <1>2, CacheUnmapOwns
  <1>4. g = [u EXCEPT !.pools = pools]
    BY DEF Unmapped, len
  <1> HIDE DEF u
  <1>5. /\ IsFcn(pools) /\ DOMAIN pools = DOMAIN h.pools \ {b}
        /\ \A c \in DOMAIN pools : pools[c] = h.pools[c]
    BY DEF Without, IsFcn
  <1> HIDE DEF pools
  <1>6. /\ IsHeap(g) /\ g.pools = pools /\ g.pool = h.pool /\ g.pool1 = h.pool1
        /\ g.old = h.old /\ SameCache(g, u)
    BY <1>3, <1>4 DEF IsHeap, IsFcn, HeapFields, SamePools, SameCache
  <1>7. PoolsOwn(g, F)
    <2>1. PoolSpans(g) = PoolSpans(h) \ {o}
      BY <1>5, <1>6 DEF PoolSpans, len
    <2> HIDE DEF o
    <2>2. PoolSpans(g) \cup F = S \ {o}
      BY <2>1, <1>2
    <2>3. Parked(g) = Parked(u) /\ ParkedSpans(g) = ParkedSpans(u)
      BY <1>6 DEF SameCache, Parked, ParkedSpans
    <2>4. CacheOwns(g, S \ {o})
      BY <1>3, <1>6, <2>3 DEF CacheOwns, SameCache
    <2>5. PoolSpans(g) \cap F = {}
      BY <2>1 DEF Good, PoolsOwn
    <2> QED  BY <2>2, <2>4, <2>5 DEF PoolsOwn
  <1>8. OldPools(g) = OldPools(h)
    BY <1>6 DEF OldPools
  <1>9. Lists(g, cur, spare, D \ {b})
    BY <1>1, <1>5, <1>6, <1>8 DEF Good, Lists
  <1>10. PoolsSound(g, used)
    <2>1. DOMAIN used[b] = {}
      BY <1>1, PoolBounds DEF Good, PoolsSound
    <2> QED  BY <2>1, <1>5, <1>6 DEF Good, PoolsSound
  <1>11. \A c \in OldPools(g) : RetiredSound(g.pools[c])
    BY <1>1, <1>5, <1>6, <1>8 DEF Good, Lists
  <1>12. spare # NULL => g.pools[spare].size = MSET
    BY <1>1, <1>5, <1>6 DEF Good, Lists
  <1> QED  BY <1>5, <1>6, <1>7, <1>9, <1>10, <1>11, <1>12 DEF Good

(***************************************************************************)
(* retire().                                                               *)
(***************************************************************************)
LEMMA PrependedIs ==
    ASSUME NEW old \in Seq(Nat), Once(old), NEW b \in Nat, b \notin Members(old),
           NEW u, u = <<b>> \o old
    PROVE  /\ u \in Seq(Nat) /\ Once(u)
           /\ \A c : c \in Members(u) <=> c = b \/ c \in Members(old)
  <1> DEFINE n == Len(old)
  <1>1. n \in Nat /\ DOMAIN old = 1 .. n /\ \A i \in 1 .. n : old[i] \in Nat
    OBVIOUS
  <1>2. u \in Seq(Nat) /\ Len(u) = n + 1 /\ DOMAIN u = 1 .. n + 1
    OBVIOUS
  <1>3. u[1] = b /\ \A i \in 1 .. n : u[i + 1] = old[i]
    OBVIOUS
  <1> HIDE DEF n
  <1>4. \A i \in 1 .. n + 1 : i # 1 => i - 1 \in 1 .. n /\ u[i] = old[i - 1]
    <2> SUFFICES ASSUME NEW i \in 1 .. n + 1, i # 1
                 PROVE  i - 1 \in 1 .. n /\ u[i] = old[i - 1]
      OBVIOUS
    <2> DEFINE j == i - 1
    <2>1. j \in 1 .. n /\ j + 1 = i
      BY <1>1
    <2> HIDE DEF j
    <2>2. u[j + 1] = old[j]
      BY <2>1, <1>3
    <2> QED  BY <2>1, <2>2 DEF j
  <1>5. Once(u)
    <2> SUFFICES ASSUME NEW i \in 1 .. n + 1, NEW j \in 1 .. n + 1, i # j
                 PROVE  u[i] # u[j]
      BY <1>2 DEF Once
    <2>1. CASE i = 1
      <3>1. j # 1 /\ j - 1 \in DOMAIN old /\ u[j] = old[j - 1]
        BY <2>1, <1>1, <1>4
      <3> QED  BY <3>1, <2>1, <1>3 DEF Members
    <2>2. CASE j = 1
      <3>1. i # 1 /\ i - 1 \in DOMAIN old /\ u[i] = old[i - 1]
        BY <2>2, <1>1, <1>4
      <3> QED  BY <3>1, <2>2, <1>3 DEF Members
    <2>3. CASE i # 1 /\ j # 1
      <3>1. /\ i - 1 \in DOMAIN old /\ u[i] = old[i - 1]
            /\ j - 1 \in DOMAIN old /\ u[j] = old[j - 1]
            /\ i - 1 # j - 1
        BY <2>3, <1>1, <1>4
      <3> QED  BY <3>1 DEF Once
    <2> QED  BY <2>1, <2>2, <2>3
  <1>6. ASSUME NEW c \in Members(u)  PROVE c \in Members(old) \cup {b}
    <2>1. PICK i \in 1 .. n + 1 : u[i] = c
      BY <1>2, <1>6 DEF Members
    <2> QED  BY <2>1, <1>1, <1>3, <1>4 DEF Members
  <1>7. ASSUME NEW c \in Members(old) \cup {b}  PROVE c \in Members(u)
    <2>1. CASE c = b
      <3>1. 1 \in DOMAIN u /\ u[1] = c
        BY <2>1, <1>1, <1>2, <1>3
      <3> QED  BY <3>1 DEF Members
    <2>2. CASE c \in Members(old)
      <3>1. PICK i \in 1 .. n : old[i] = c
        BY <2>2, <1>1 DEF Members
      <3>2. i + 1 \in DOMAIN u /\ u[i + 1] = c
        BY <3>1, <1>1, <1>2, <1>3
      <3> QED  BY <3>2 DEF Members
    <2> QED  BY <1>7, <2>1, <2>2
  <1> QED  BY <1>2, <1>5, <1>6, <1>7

LEMMA ListedIs ==
    ASSUME NEW h, NEW cur, NEW spare, NEW D, NEW F, NEW used,
           Good(h, cur, spare, D, F, used), NEW b \in D, h.pools[b].refs > 0,
           \A x \in DOMAIN h.pools[b].free : h.pools[b].free[x] <= h.pools[b].max,
           NEW g, g = Listed(h, b)
    PROVE  /\ Good(g, cur, spare, D \ {b}, F, used)
           /\ g.pool = h.pool /\ g.pool1 = h.pool1
  <1> DEFINE m == h.pools[b]
             t == [m EXCEPT !.big = {x \in DOMAIN m.free : IsBig(m.free[x])}]
             r == SetPool(h, b, t)
  <1>1. b \in DOMAIN h.pools /\ b \notin OldPools(h) /\ b # cur /\ b # spare
    <2>1. NULL \notin DOMAIN h.pools
      BY PoolSpanIs
    <2> QED  BY <2>1 DEF Good, Lists
  <1>2. /\ IsHeap(h) /\ IsFcn(h.pools) /\ PoolSound(b, m, used[b]) /\ PoolsOwn(h, F)
        /\ b \in Nat
    BY <1>1, PoolSpanIs DEF Good, PoolsSound
  <1>3. g = [r EXCEPT !.old = <<b>> \o h.old]
    BY DEF Listed
  <1> HIDE DEF m
  <1>4. /\ IsPool(t) /\ t.big = BigOf(m.free) /\ t.free = m.free /\ t.len = m.len
        /\ t.size = m.size /\ t.max = m.max /\ t.refs = m.refs
    BY <1>2 DEF PoolSound, IsPool, IsFcn, PoolFields, BigOf
  <1> HIDE DEF t
  <1>5. PoolSound(b, t, used[b])
    BY <1>2, <1>4 DEF PoolSound
  <1>6. RetiredSound(t)
    BY <1>4 DEF RetiredSound, m
  <1>7. OnlyPool(r, h, b) /\ SameCache(r, h) /\ r.pools[b] = t
    BY <1>1, <1>2, SetPoolIs
  <1> HIDE DEF r
  <1>8. PoolsOwn(r, F)
    BY <1>2, <1>4, <1>7, SameLensOwn DEF m
  <1>9. Good(r, cur, spare, D, F, used)
    BY <1>1, <1>5, <1>7, <1>8, PoolRewritten
  <1>10. /\ IsHeap(g) /\ g.pools = r.pools /\ SameCache(g, r)
         /\ g.pool = h.pool /\ g.pool1 = h.pool1 /\ g.old = <<b>> \o h.old
    BY <1>3, <1>7 DEF OnlyPool, SameLists, IsHeap, IsFcn, HeapFields, SameCache
  <1>11. g.old \in Seq(Nat) /\ Once(g.old) /\ OldPools(g) = OldPools(h) \cup {b}
    <2>1. OldPools(g) = Members(g.old) /\ OldPools(h) = Members(h.old)
      BY DEF OldPools, Members
    <2>2. h.old \in Seq(Nat) /\ Once(h.old)
      BY DEF Good, Lists
    <2> DEFINE old == h.old
               u == g.old
    <2>3. old \in Seq(Nat) /\ Once(old) /\ b \in Nat /\ b \notin Members(old) /\ u = <<b>> \o old
      BY <2>1, <2>2, <1>1, <1>2, <1>10
    <2> HIDE DEF old, u
    <2>4. /\ u \in Seq(Nat) /\ Once(u)
          /\ \A c : c \in Members(u) <=> c = b \/ c \in Members(old)
      BY <2>3, PrependedIs
    <2> QED  BY <2>1, <2>4 DEF old, u
  <1>12. OldPools(r) = OldPools(h)
    BY <1>7 DEF OnlyPool, SameLists, OldPools
  <1>13. PoolsOwn(g, F)
    BY <1>8, <1>10, SameSpansOwn
  <1>14. Lists(g, cur, spare, D \ {b})
    BY <1>1, <1>9, <1>10, <1>11, <1>12 DEF Good, Lists
  <1>15. /\ PoolsSound(g, used)
         /\ \A c \in OldPools(g) : RetiredSound(g.pools[c])
         /\ spare # NULL => g.pools[spare].size = MSET
    BY <1>6, <1>7, <1>9, <1>10, <1>11, <1>12 DEF Good, PoolsSound
  <1> QED  BY <1>10, <1>13, <1>14, <1>15 DEF Good

LEMMA RetireIs ==
    ASSUME NEW h, NEW spare, NEW D, NEW F, NEW used,
           Good(h, h.pool, spare, D, F, used), h.pool # NULL, h.pools[h.pool].refs > 0,
           NEW k, NEW g, g = Retire(h, k)
    PROVE  /\ Good(g, NULL, spare, D, F, used)
           /\ g.pool = h.pool /\ g.pool1 = h.pool1
  <1> DEFINE b == h.pool
             m == h.pools[b]
             tail == RoundUp(m.size, ALIGN)
             t == [m EXCEPT !.size = m.len, !.max = m.len]
             r == SetPool(h, b, t)
             w == WithTail(r, b, m.len, tail, k)
  <1>1. b \in DOMAIN h.pools /\ b # spare /\ b \notin OldPools(h) /\ b \notin D
    BY DEF Good, Lists
  <1>2. /\ IsHeap(h) /\ IsFcn(h.pools) /\ PoolSound(b, m, used[b]) /\ PoolsOwn(h, F)
        /\ b \in Nat
    BY <1>1, PoolSpanIs DEF Good, PoolsSound
  <1>3. g = Listed(w, b)
    BY DEF Retire
  <1>4. m.refs > 0
    OBVIOUS
  <1> HIDE DEF m
  <1>5. /\ IsPool(m) /\ Tiled(m.free, used[b], m.size) /\ m.size \in Nat /\ m.len \in Nat
        /\ MSET <= m.size /\ m.size <= m.len
    BY <1>2 DEF PoolSound
  <1>6. /\ IsPool(t) /\ t.free = m.free /\ t.len = m.len
        /\ t.size = m.len /\ t.max = m.len /\ t.refs = m.refs
    BY <1>5 DEF IsPool, IsFcn, PoolFields
  <1> HIDE DEF t
  <1>7. PoolSound(b, t, used[b])
    <2>1. Tiled(m.free, used[b], m.len)
      BY <1>5, TiledHigher
    <2>2. MSET <= m.len
      BY <1>5, ConstantsAre
    <2> QED  BY <2>1, <2>2, <1>2, <1>5, <1>6 DEF PoolSound
  <1>8. OnlyPool(r, h, b) /\ SameCache(r, h) /\ r.pools[b] = t
    BY <1>1, <1>2, SetPoolIs
  <1> HIDE DEF r, b
  <1>9. PoolsOwn(r, F)
    BY <1>2, <1>6, <1>8, SameLensOwn DEF m
  <1>10. Good(r, b, spare, D, F, used)
    BY <1>1, <1>7, <1>8, <1>9, PoolRewritten DEF b
  <1>11. /\ Good(w, b, spare, D, F, used)
         /\ OnlyPool(w, r, b)
         /\ w.pools[b].refs = m.refs /\ w.pools[b].max = m.len /\ w.pools[b].size = m.len
    <2>1. CASE m.len - tail >= 2 * HDR
      <3>1. w = FreelistInsert(r, b, tail, m.len - tail, k)
        BY <2>1 DEF WithTail
      <3>2. tail \in Nat /\ m.size <= tail
        BY <1>5, ConstantsAre, RoundUpIs
      <3> HIDE DEF tail, w
      <3>3. m.len - tail \in Nat \ {0} /\ MSET <= tail /\ tail + (m.len - tail) <= m.len
        BY <2>1, <3>2, <1>5, ConstantsAre
      <3>4. Clear(m.free, used[b], tail, m.len - tail)
        BY <3>2, <1>5 DEF Clear, Tiled
      <3>5. /\ b \in DOMAIN r.pools /\ b # spare /\ b \notin OldPools(r) /\ b = r.pool
        BY <1>1, <1>8 DEF OnlyPool, SameLists, OldPools, b
      <3>6. /\ MSET <= tail /\ tail + (m.len - tail) <= r.pools[b].size
            /\ Clear(r.pools[b].free, used[b], tail, m.len - tail)
        BY <3>3, <3>4, <1>6, <1>8
      <3>7. /\ Good(w, b, spare, D, F, used)
            /\ OnlyPool(w, r, b)
            /\ w.pools[b].refs = r.pools[b].refs
            /\ w.pools[b].max = r.pools[b].max
            /\ w.pools[b].size = r.pools[b].size
        BY <1>10, <3>1, <3>2, <3>3, <3>5, <3>6, FreelistInsertIs
      <3> QED  BY <3>7, <1>6, <1>8
    <2>2. CASE ~ (m.len - tail >= 2 * HDR)
      <3>1. w = r
        BY <2>2 DEF WithTail
      <3> QED  BY <3>1, <1>6, <1>8, <1>10 DEF OnlyPool, SameLists
    <2> QED  BY <2>1, <2>2
  <1> HIDE DEF w
  <1>12. w.pool = h.pool /\ w.pool1 = h.pool1
    BY <1>8, <1>11 DEF OnlyPool, SameLists
  <1>13. b # NULL
    BY DEF b
  <1>14. Good(w, NULL, spare, D \cup {b}, F, used) /\ b \in DOMAIN w.pools
    BY <1>11, <1>13, CurrentDangles
  <1>15. \A x \in DOMAIN w.pools[b].free : w.pools[b].free[x] <= w.pools[b].max
    <2>1. PoolSound(b, w.pools[b], used[b])
      BY <1>14 DEF Good, PoolsSound
    <2> QED  BY <2>1, <1>5, <1>11 DEF PoolSound, Tiled
  <1>16. /\ Good(g, NULL, spare, (D \cup {b}) \ {b}, F, used)
         /\ g.pool = w.pool /\ g.pool1 = w.pool1
    <2>1. b \in D \cup {b} /\ w.pools[b].refs > 0
      BY <1>4, <1>11
    <2> HIDE DEF tail
    <2> QED  BY <2>1, <1>3, <1>14, <1>15, ListedIs
  <1>17. (D \cup {b}) \ {b} = D
    BY <1>1
  <1> QED  BY <1>12, <1>16, <1>17

(***************************************************************************)
(* The current pool is set aside, by old_pool_take() or by mk_pool().      *)
(***************************************************************************)
LEMMA SetAsideIs ==
    ASSUME NEW h, NEW D, NEW F, NEW used,
           Good(h, h.pool, h.pool1, D, F, used), h.pool # NULL,
           NEW k, NEW g, g = SetAside(h, k)
    PROVE  Good(g, NULL, g.pool1, D, F, used)
  <1> DEFINE b == h.pool
  <1>1. b \in DOMAIN h.pools /\ b \notin D
    BY DEF Good, Lists
  <1>2. h.pools[b].refs \in Nat
    BY <1>1, PoolBounds DEF Good, PoolsSound
  <1> DEFINE E == D \cup {b}
  <1>3. Good(h, NULL, h.pool1, E, F, used)
    BY CurrentDangles
  <1>4. D = E \ {b} /\ b \in E
    BY <1>1
  <1> HIDE DEF E
  <1>5. CASE h.pools[b].refs > 0
    <2>1. g = Retire(h, k)
      BY <1>5, <1>2 DEF SetAside
    <2> QED  BY <2>1, <1>5, RetireIs
  <1>6. CASE h.pools[b].refs = 0 /\ h.pool1 = NULL
    <2>1. g = Spared(h, b)
      BY <1>6, <1>2 DEF SetAside
    <2>2. Good(h, NULL, NULL, E, F, used) /\ h.pools[b].refs = 0
      BY <1>3, <1>6
    <2> HIDE DEF b
    <2> QED  BY <2>1, <2>2, <1>4, SparedIs
  <1>7. CASE h.pools[b].refs = 0 /\ h.pool1 # NULL
    <2>1. g = Unmapped(h, b)
      BY <1>7, <1>2 DEF SetAside
    <2> DEFINE s == h.pool1
    <2>2. h.pools[b].refs = 0 /\ Good(h, NULL, s, E, F, used)
      BY <1>3, <1>7
    <2> HIDE DEF b, s
    <2>3. Good(g, NULL, s, D, F, used) /\ g.pool1 = h.pool1
      BY <2>1, <2>2, <1>4, UnmappedIs
    <2> QED  BY <2>3 DEF s
  <1> QED  BY <1>2, <1>5, <1>6, <1>7

LEMMA SetAsideKeepingLargerIs ==
    ASSUME NEW h, NEW F, NEW used, Sound(h, F, used), h.pool # NULL,
           NEW k, NEW g, g = SetAsideKeepingLarger(h, k)
    PROVE  Good(g, NULL, g.pool1, {}, F, used)
  <1> DEFINE b == h.pool
             s == h.pool1
  <1>1. Good(h, b, s, {}, F, used) /\ b # NULL
    BY DEF Sound
  <1>2. CASE h.pools[b].refs = 0 /\ s # NULL /\ h.pools[b].len > h.pools[s].len
    <2> DEFINE u == Unmapped(h, s)
    <2>1. g = Spared(u, b)
      BY <1>2 DEF SetAsideKeepingLarger
    <2> HIDE DEF b, s
    <2>2. Good(h, NULL, s, {b}, F, used) /\ b \in DOMAIN h.pools
      <3>1. Good(h, NULL, s, {} \cup {b}, F, used) /\ b \in DOMAIN h.pools
        BY <1>1, CurrentDangles
      <3>2. {} \cup {b} = {b}
        OBVIOUS
      <3> QED  BY <3>1, <3>2
    <2>3. Good(h, NULL, NULL, {b} \cup {s}, F, used) /\ s \in DOMAIN h.pools
      BY <1>2, <2>2, SpareDangles
    <2>4. b # s
      BY <1>1 DEF Good, Lists
    <2>5. h.pools[s].refs = 0
      <3>1. h.pools[s].size = MSET /\ PoolSound(s, h.pools[s], used[s])
        BY <1>1, <1>2, <2>3 DEF Good, PoolsSound
      <3>2. DOMAIN used[s] = {}
        BY <3>1, ConstantsAre DEF PoolSound, Tiled
      <3> QED  BY <3>1, <3>2, FS_EmptySet DEF PoolSound
    <2> DEFINE two == {b} \cup {s}
               one == {b}
               none == {}
    <2>6. /\ Good(h, NULL, NULL, two, F, used) /\ s \in two /\ one = two \ {s}
          /\ u = Unmapped(h, s)
          /\ b \in one /\ none = one \ {b}
      BY <2>3, <2>4
    <2> HIDE DEF u, two, one, none
    <2>7. /\ Good(u, NULL, NULL, one, F, used)
          /\ \A c : c \in DOMAIN u.pools <=> c \in DOMAIN h.pools /\ c # s
          /\ \A c \in DOMAIN u.pools : u.pools[c] = h.pools[c]
      BY <2>5, <2>6, UnmappedIs
    <2>8. u.pools[b].refs = 0
      BY <1>2, <2>2, <2>4, <2>7
    <2>9. Good(g, NULL, b, none, F, used) /\ g.pool1 = b
      BY <2>1, <2>6, <2>7, <2>8, SparedIs
    <2> QED  BY <2>9 DEF none
  <1>3. CASE ~ (h.pools[b].refs = 0 /\ s # NULL /\ h.pools[b].len > h.pools[s].len)
    <2>1. g = SetAside(h, k)
      BY <1>3 DEF SetAsideKeepingLarger
    <2> QED  BY <2>1, <1>1, SetAsideIs
  <1> QED  BY <1>2, <1>3

(***************************************************************************)
(* old_pool_take(): a retired pool serves a request and becomes current.   *)
(***************************************************************************)
LEMMA PromotedIs ==
    ASSUME NEW h, NEW F, NEW used, Sound(h, F, used), h.pool # NULL,
           NEW b \in OldPools(h), NEW alloc \in Nat \ {0},
           Fitting(h, b, alloc) # {}, NEW off, off = Least(Fitting(h, b, alloc)),
           NEW next, next[b] = With(used[b], off, alloc),
           \A c \in Nat \ {b} : next[c] = used[c],
           NEW k, NEW g, g = Promoted(h, b, alloc, k)
    PROVE  /\ Sound(g, F, next)
           /\ b \in DOMAIN h.pools /\ off \in Nat /\ off \notin DOMAIN used[b]
  <1> DEFINE u == [h EXCEPT !.old = Unlisted(h.old, b)]
             t == FreelistTake(h, b, alloc)
             l == [t EXCEPT !.old = Unlisted(h.old, b)]
             m == [l.pools[b] EXCEPT !.big = {}, !.max = 0]
             r == SetPool(l, b, m)
             s == SetAside(r, k)
  <1>1. g = [s EXCEPT !.pool = b]
    BY DEF Promoted, Unchained
  <1>2. b \in DOMAIN h.pools /\ b # h.pool1 /\ b # h.pool /\ Good(h, h.pool, h.pool1, {}, F, used)
    BY DEF Sound, Good, Lists
  <1>3. /\ IsHeap(u) /\ SameCache(u, h) /\ u.pools = h.pools /\ u.old = Unlisted(h.old, b)
        /\ u.pool = h.pool /\ u.pool1 = h.pool1
    BY <1>2 DEF Good, IsHeap, IsFcn, HeapFields, SameCache
  <1> HIDE DEF u
  <1>4. Good(u, h.pool, h.pool1, {b}, F, used)
    <2>1. Good(u, h.pool, h.pool1, {} \cup {b}, F, used)
      BY <1>2, <1>3, RetiredDangles
    <2>2. {} \cup {b} = {b}
      OBVIOUS
    <2> QED  BY <2>1, <2>2
  <1>5. /\ OnlyPool(t, h, b) /\ SameCache(t, h)
        /\ PoolSound(b, t.pools[b], next[b])
        /\ t.pools[b].len = h.pools[b].len
        /\ off \in Nat /\ off \notin DOMAIN used[b]
    BY <1>2, FreelistTakeIs
  <1> HIDE DEF t
  <1>6. /\ IsHeap(l) /\ SameCache(l, t) /\ l.pools = t.pools /\ l.old = u.old
        /\ l.pool = h.pool /\ l.pool1 = h.pool1
    BY <1>3, <1>5 DEF OnlyPool, SameLists, IsHeap, IsFcn, HeapFields, SameCache
  <1> HIDE DEF l
  <1>7. PoolSound(b, m, next[b]) /\ m.len = h.pools[b].len
    <2> DEFINE n == l.pools[b]
    <2>1. PoolSound(b, n, next[b]) /\ n.len = h.pools[b].len
      BY <1>5, <1>6
    <2> HIDE DEF n
    <2>2. /\ IsPool(m) /\ m.free = n.free /\ m.len = n.len /\ m.size = n.size
          /\ m.max = 0 /\ m.refs = n.refs
      BY <2>1 DEF PoolSound, IsPool, IsFcn, PoolFields, n
    <2> HIDE DEF m
    <2> QED  BY <2>1, <2>2 DEF PoolSound
  <1> HIDE DEF m
  <1>8. OnlyPool(r, l, b) /\ SameCache(r, l) /\ r.pools[b] = m
    BY <1>2, <1>5, <1>6, SetPoolIs DEF OnlyPool
  <1> HIDE DEF r
  <1>9. OnlyPool(r, u, b) /\ SameCache(r, u)
    BY <1>3, <1>5, <1>6, <1>8 DEF OnlyPool, SameLists, SameCache
  <1>10. Good(r, h.pool, h.pool1, {b}, F, next)
    <2>1. PoolsOwn(r, F)
      BY <1>3, <1>4, <1>7, <1>8, <1>9, SameLensOwn DEF Good
    <2>2. b \in DOMAIN u.pools /\ b # h.pool1 /\ b \notin OldPools(u)
      BY <1>2, <1>3, <1>4 DEF Good, Lists
    <2>3. PoolSound(b, r.pools[b], next[b])
      BY <1>7, <1>8
    <2> QED  BY <2>1, <2>2, <2>3, <1>4, <1>9, PoolRewritten
  <1>11. r.pool = h.pool /\ r.pool1 = h.pool1
    BY <1>6, <1>8 DEF OnlyPool, SameLists
  <1>12. Good(s, NULL, s.pool1, {b}, F, next)
    BY <1>10, <1>11, SetAsideIs
  <1> HIDE DEF s
  <1>13. Good(s, b, s.pool1, {}, F, next)
    <2>1. b \in {b} /\ {b} \ {b} = {}
      OBVIOUS
    <2>2. Good(s, b, s.pool1, {b} \ {b}, F, next)
      BY <2>1, <1>12, DanglingIsCurrent
    <2> QED  BY <2>1, <2>2
  <1>14. /\ IsHeap(g) /\ g.pools = s.pools /\ g.old = s.old /\ SameCache(g, s)
         /\ g.pool = b /\ g.pool1 = s.pool1
    BY <1>1, <1>13 DEF Good, IsHeap, IsFcn, HeapFields, SameCache
  <1>15. Sound(g, F, next)
    BY <1>13, <1>14, FieldsOnly DEF Sound
  <1> QED  BY <1>2, <1>5, <1>15

(***************************************************************************)
(* mk_pool().                                                              *)
(***************************************************************************)
RoomFor(h, want) ==
    h.pool # NULL => h.pools[h.pool].size = MSET /\ want <= h.pools[h.pool].len

LEMMA FirstPoolIs ==
    ASSUME NEW h, NEW F, NEW used, Good(h, NULL, h.pool1, {}, F, used), h.pool = NULL,
           NEW want \in Nat \ {0}, MSET <= want, NEW k,
           NEW g, g = FirstPool(h, want, k)
    PROVE  Sound(g, F, used) /\ RoomFor(g, want)
  <1>1. CASE SpareFits(h, want)
    <2>1. g = [h EXCEPT !.pool = h.pool1, !.pool1 = NULL]
      BY <1>1 DEF FirstPool, TakeSpare
    <2>2. /\ IsHeap(g) /\ g.pools = h.pools /\ g.old = h.old /\ SameCache(g, h)
          /\ g.pool = h.pool1 /\ g.pool1 = NULL
      BY <2>1 DEF Good, IsHeap, IsFcn, HeapFields, SameCache
    <2>3. Good(h, h.pool1, NULL, {}, F, used)
      BY SpareIsCurrent
    <2>4. Good(g, h.pool1, NULL, {}, F, used)
      BY <2>2, <2>3, FieldsOnly
    <2>5. RoomFor(g, want)
      <3>1. h.pools[h.pool1].size = MSET /\ h.pools[h.pool1].len >= want /\ h.pool1 \in DOMAIN h.pools
        BY <1>1 DEF SpareFits, Good, Lists
      <3>2. h.pools[h.pool1].len \in Nat
        BY <3>1, PoolSpanIs
      <3> QED  BY <3>1, <3>2, <2>2 DEF RoomFor
    <2> QED  BY <2>2, <2>4, <2>5 DEF Sound
  <1>2. CASE ~SpareFits(h, want)
    <2> DEFINE total == RoundUp(want, PGSIZE)
    <2>2. total \in Nat \ {0} /\ want <= total /\ total % PGSIZE = 0
      <3>1. want \in Nat /\ PGSIZE \in Nat \ {0}
        BY ConstantsAre
      <3>2. total \in Nat /\ want <= total /\ total % PGSIZE = 0
        BY <3>1, RoundUpIs
      <3> HIDE DEF total
      <3> QED  BY <3>2
    <2> DEFINE c == CacheMap(h, total, k)
               S == PoolSpans(h) \cup F
               o == <<c.base, c.len>>
               e == Fresh(c.len)
    <2>1. g = IF c.base = NULL
                THEN c.heap
                ELSE [c.heap EXCEPT !.pools = With(c.heap.pools, c.base, e), !.pool = c.base]
      BY <1>2 DEF FirstPool, WithNewPool
    <2>3. IsHeap(h) /\ CacheOwns(h, S)
      BY DEF Good, PoolsOwn
    <2> HIDE DEF total, S
    <2>4. /\ IsHeap(c.heap) /\ SamePools(c.heap, h)
          /\ c.base = NULL => CacheOwns(c.heap, S)
          /\ c.base # NULL => /\ IsSpan(o) /\ o \notin S
                              /\ total <= c.len
                              /\ \A q \in S : SpansApart(o, q)
                              /\ CacheOwns(c.heap, S \cup {o})
      <3>1. c = CacheMap(h, total, k) /\ o = <<c.base, c.len>>
        OBVIOUS
      <3> HIDE DEF c, o
      <3>2. Maps(c, h, S, total, o)
        BY <3>1, <2>2, <2>3, CacheMapOwns
      <3> QED  BY <3>2 DEF Maps
    <2>5. o[1] = c.base /\ o[2] = c.len
      OBVIOUS
    <2> DEFINE f == c.heap
               base == c.base
               len == c.len
    <2>6. /\ IsHeap(f) /\ f.pools = h.pools /\ f.pool = NULL /\ f.pool1 = h.pool1 /\ f.old = h.old
      BY <2>4 DEF SamePools
    <2>7. OldPools(f) = OldPools(h) /\ PoolSpans(f) = PoolSpans(h)
      BY <2>6 DEF OldPools, PoolSpans
    <2> HIDE DEF c, e
    <2>8. CASE c.base = NULL
      <3>1. g = f
        BY <2>1, <2>8
      <3>2. PoolsOwn(f, F)
        BY <2>4, <2>7, <2>8 DEF PoolsOwn, S, Good
      <3>3. Good(f, NULL, f.pool1, {}, F, used)
        BY <3>2, <2>6, <2>7 DEF Good, Lists, PoolsSound
      <3> HIDE DEF f
      <3> QED  BY <3>1, <3>3, <2>6 DEF Sound, RoomFor
    <2>9. CASE c.base # NULL
      <3> DEFINE pools == With(f.pools, base, e)
      <3>1. g = [f EXCEPT !.pools = pools, !.pool = base]
        BY <2>1, <2>9
      <3>2. /\ IsSpan(o) /\ o \notin S /\ total <= len
            /\ \A q \in S : SpansApart(o, q)
            /\ CacheOwns(f, S \cup {o})
            /\ base \in Nat /\ len \in Nat \ {0} /\ base # NULL
        BY <2>4, <2>5, <2>9 DEF IsSpan
      <3> HIDE DEF f, base, len
      <3>3. base \notin DOMAIN h.pools
        <4>1. SUFFICES ASSUME base \in DOMAIN h.pools  PROVE FALSE
          OBVIOUS
        <4> DEFINE q == <<base, h.pools[base].len>>
        <4>2. q \in S /\ h.pools[base].len \in Nat \ {0}
          BY <4>1, PoolSpanIs DEF S
        <4>3. q[1] = base /\ q[2] = h.pools[base].len /\ SpansApart(o, q)
          BY <3>2, <4>2
        <4> HIDE DEF q, o
        <4>4. o[1] = base /\ o[2] = len
          BY <2>5 DEF base, len
        <4> QED  BY <3>2, <4>2, <4>3, <4>4 DEF SpansApart
      <3>4. /\ IsFcn(pools) /\ DOMAIN pools = DOMAIN h.pools \cup {base}
            /\ pools[base] = e
            /\ \A d \in DOMAIN h.pools : pools[d] = h.pools[d]
        BY <2>6, <3>3 DEF With, IsFcn
      <3> HIDE DEF pools
      <3>5. /\ IsHeap(g) /\ g.pools = pools /\ g.pool = base /\ g.pool1 = h.pool1
            /\ g.old = h.old /\ SameCache(g, f)
        BY <2>6, <3>1 DEF IsHeap, IsFcn, HeapFields, SameCache
      <3>6. e.len = len /\ e.size = MSET
        BY DEF e, Fresh, len
      <3>7. PoolsOwn(g, F)
        <4>1. PoolSpans(g) = PoolSpans(h) \cup {o}
          BY <3>3, <3>4, <3>5, <3>6 DEF PoolSpans, base, len
        <4> HIDE DEF o
        <4>2. PoolSpans(g) \cup F = S \cup {o}
          BY <4>1 DEF S
        <4>3. Parked(g) = Parked(f) /\ ParkedSpans(g) = ParkedSpans(f)
          BY <3>5 DEF SameCache, Parked, ParkedSpans
        <4>4. CacheOwns(g, S \cup {o})
          BY <3>2, <3>5, <4>3 DEF CacheOwns, SameCache
        <4>5. PoolSpans(g) \cap F = {}
          BY <3>2, <4>1 DEF S, Good, PoolsOwn
        <4> QED  BY <4>2, <4>4, <4>5 DEF PoolsOwn
      <3>8. OldPools(g) = OldPools(h)
        BY <3>5 DEF OldPools
      <3>9. Lists(g, base, h.pool1, {})
        <4>1. NULL \notin DOMAIN h.pools
          BY PoolSpanIs
        <4> QED  BY <4>1, <3>2, <3>3, <3>4, <3>5, <3>8 DEF Good, Lists
      <3>10. PoolsSound(g, used)
        <4>1. DOMAIN used[base] = {}
          BY <3>2, <3>3 DEF Good, PoolsSound
        <4>2. MSET <= len
          BY <2>2, <3>2, ConstantsAre
        <4>3. PoolSound(base, e, used[base])
          BY <3>2, <4>1, <4>2, FreshSound DEF e, len
        <4> QED  BY <4>3, <3>4, <3>5 DEF Good, PoolsSound
      <3>11. \A d \in OldPools(g) : RetiredSound(g.pools[d])
        BY <3>4, <3>5, <3>8 DEF Good, Lists
      <3>12. h.pool1 # NULL => g.pools[h.pool1].size = MSET
        BY <3>4, <3>5 DEF Good, Lists
      <3>13. RoomFor(g, want)
        BY <2>2, <3>2, <3>4, <3>5, <3>6 DEF RoomFor
      <3> QED  BY <3>5, <3>7, <3>9, <3>10, <3>11, <3>12, <3>13 DEF Sound, Good
    <2> QED  BY <2>8, <2>9
  <1> QED  BY <1>1, <1>2

\* Nothing but counters is another.
LEMMA CountersOnly ==
    ASSUME NEW h, NEW F, NEW used, Sound(h, F, used),
           NEW g, IsHeap(g), SameCache(g, h), SameLists(g, h), g.pools = h.pools
    PROVE  Sound(g, F, used)
  BY FieldsOnly DEF Sound, SameLists

LEMMA WidenedIs ==
    ASSUME NEW h, IsHeap(h), NEW g, g = Widened(h)
    PROVE  IsHeap(g) /\ SameCache(g, h) /\ SameLists(g, h) /\ g.pools = h.pools
  BY DEF Widened, SameCache, SameLists, IsHeap, IsFcn, HeapFields

LEMMA NextPoolIs ==
    ASSUME NEW h, NEW F, NEW used, Sound(h, F, used), h.pool # NULL,
           NEW want \in Nat \ {0}, MSET <= want, NEW k,
           NEW g, g = NextPool(h, want, k)
    PROVE  Sound(g, F, used) /\ RoomFor(g, want)
  <1>1. Good(h, h.pool, h.pool1, {}, F, used)
    BY DEF Sound
  <1>2. h.pool \in DOMAIN h.pools /\ h.pool \notin OldPools(h)
    BY <1>1, CurrentDangles DEF Good, Lists
  <1>3. CASE Rewindable(h, want)
    <2>1. g = Rewound(h, h.pool) /\ h.pools[h.pool].refs = 0 /\ h.pools[h.pool].len >= want
      BY <1>3 DEF NextPool, Rewindable
    <2>2. /\ Good(g, h.pool, h.pool1, {}, F, used)
          /\ OnlyPool(g, h, h.pool)
          /\ g.pools[h.pool].size = MSET /\ g.pools[h.pool].len = h.pools[h.pool].len
      BY <1>1, <1>2, <2>1, RewoundIs
    <2>3. h.pools[h.pool].len \in Nat
      BY <1>1, <1>2, PoolSpanIs
    <2> QED  BY <2>1, <2>2, <2>3 DEF OnlyPool, SameLists, Sound, RoomFor
  <1>4. CASE ~Rewindable(h, want)
    <2> DEFINE s == SetAsideKeepingLarger(h, k)
               t == [s EXCEPT !.pool = NULL]
               f == FirstPool(t, want, k)
    <2>1. g = f \/ g = Widened(f)
      BY <1>4 DEF NextPool, Replacing
    <2>2. Good(s, NULL, s.pool1, {}, F, used)
      BY SetAsideKeepingLargerIs
    <2> HIDE DEF s
    <2>3. /\ IsHeap(t) /\ SameCache(t, s) /\ t.pools = s.pools /\ t.old = s.old
          /\ t.pool = NULL /\ t.pool1 = s.pool1
      BY <2>2 DEF Good, IsHeap, IsFcn, HeapFields, SameCache
    <2> HIDE DEF t
    <2>4. Good(t, NULL, t.pool1, {}, F, used)
      BY <2>2, <2>3, FieldsOnly
    <2>5. Sound(f, F, used) /\ RoomFor(f, want)
      BY <2>3, <2>4, FirstPoolIs
    <2> HIDE DEF f
    <2>6. CASE g = f
      BY <2>5, <2>6
    <2>7. CASE g = Widened(f)
      <3>1. IsHeap(g) /\ SameCache(g, f) /\ SameLists(g, f) /\ g.pools = f.pools
        BY <2>5, <2>7, WidenedIs DEF Sound, Good
      <3> QED  BY <2>5, <3>1, CountersOnly DEF RoomFor, SameLists
    <2> QED  BY <2>1, <2>6, <2>7
  <1> QED  BY <1>3, <1>4

(***************************************************************************)
(* pool_grow().                                                            *)
(***************************************************************************)
LEMMA PoolGrowIs ==
    ASSUME NEW h, NEW F, NEW used, Sound(h, F, used), h.pool # NULL,
           NEW need \in Nat, NEW k, CanGrow(h, need, k),
           NEW g, g = PoolGrow(h, need)
    PROVE  /\ Sound(g, F, used)
           /\ g.pool = h.pool /\ h.pool \in DOMAIN h.pools
           /\ g.pools[h.pool].size = h.pools[h.pool].size
           /\ need <= g.pools[h.pool].len
  <1> DEFINE b == h.pool
             m == h.pools[b]
             len == GrownLen(m, need)
             n == [m EXCEPT !.len = len]
             r == Mremap(h, b, m.len, len)
             p == SetPool(r, b, n)
  <1>1. /\ Good(h, b, h.pool1, {}, F, used) /\ b \in DOMAIN h.pools
        /\ b \notin OldPools(h) /\ b # h.pool1
    BY CurrentDangles DEF Sound, Good, Lists
  <1>2. b \in Nat /\ m.len \in Nat /\ m.len % PGSIZE = 0
    BY <1>1, PoolSpanIs
  <1>3. PoolSound(b, m, used[b]) /\ IsHeap(h) /\ IsFcn(h.pools) /\ PoolsOwn(h, F)
    BY <1>1 DEF Good, PoolsSound
  <1> DEFINE c == IF h.class >= len THEN h.class
                  ELSE Least({x \in Classes : x >= len \/ x = MSETLEN_MAX})
  <1>4. g = [p EXCEPT !.class = c]
    BY DEF PoolGrow
  <1> HIDE DEF c
  <1>5. GrantsGrowth(h, b, m.len, len, k)
    BY DEF CanGrow
  <1> HIDE DEF b, m
  <1>6. len \in Nat /\ len > m.len /\ len % PGSIZE = 0 /\ need <= len
    <2>0. PGSIZE \in Nat \ {0} /\ PGSIZE % PGSIZE = 0
      BY ConstantsAre
    <2>1. CASE m.len + PGSIZE < need
      <3>1. /\ RoundUp(need, PGSIZE) \in Nat /\ need <= RoundUp(need, PGSIZE)
            /\ RoundUp(need, PGSIZE) % PGSIZE = 0
        BY <2>0, RoundUpIs
      <3>2. len = RoundUp(need, PGSIZE)
        BY <2>1 DEF GrownLen
      <3> HIDE DEF len
      <3>3. len > m.len
        BY <3>1, <3>2, <2>0, <2>1, <1>2
      <3> QED  BY <3>1, <3>2, <3>3
    <2>2. CASE ~(m.len + PGSIZE < need)
      <3>1. len = m.len + PGSIZE
        BY <2>2 DEF GrownLen
      <3> HIDE DEF len
      <3>2. (m.len + PGSIZE) % PGSIZE = 0
        <4>1. m.len \in Int /\ PGSIZE \in Int
          BY <1>2, <2>0
        <4> QED  BY <4>1, <2>0, <1>2, WholePages, Zenon
      <3> QED  BY <3>1, <3>2, <2>0, <2>2, <1>2
    <2> QED  BY <2>1, <2>2
  <1> HIDE DEF len
  <1>7. Pages(b + m.len, len - m.len) \cap h.mapped = {}
    BY <1>5 DEF GrantsGrowth, FreeRun
  <1>8. /\ IsPool(n) /\ n.len = len /\ n.size = m.size /\ n.refs = m.refs /\ n.free = m.free
        /\ n.max = m.max
    BY <1>3 DEF PoolSound, IsPool, IsFcn, PoolFields
  <1>9. /\ IsHeap(r) /\ SameLists(r, h) /\ r.pools = h.pools
        /\ r.cache = h.cache /\ r.bytes = h.bytes
        /\ r.mapped = (h.mapped \ Pages(b, m.len)) \cup Pages(b, len)
    BY <1>3 DEF Mremap, IsHeap, IsFcn, HeapFields, SameLists
  <1> HIDE DEF r, n
  <1>10. OnlyPool(p, r, b) /\ SameCache(p, r) /\ p.pools[b] = n
    BY <1>1, <1>3, <1>9, SetPoolIs
  <1>11. OnlyPool(p, h, b)
    BY <1>9, <1>10 DEF OnlyPool, SameLists
  <1> HIDE DEF p
  <1>12. PoolsOwn(p, F)
    <2>1. /\ p.cache = h.cache /\ p.bytes = h.bytes
          /\ p.mapped = (h.mapped \ Pages(b, m.len)) \cup Pages(b, len)
          /\ DOMAIN p.pools = DOMAIN h.pools /\ p.pools[b].len = len
          /\ \A x \in DOMAIN h.pools \ {b} : p.pools[x].len = h.pools[x].len
      BY <1>8, <1>9, <1>10, <1>11 DEF OnlyPool, SameCache
    <2>2. m.len = h.pools[b].len /\ len \in Nat \ {0}
      BY <1>2, <1>6 DEF m
    <2> QED  BY <2>1, <2>2, <1>1, <1>2, <1>3, <1>6, <1>7, RemappedOwns
  <1>13. PoolSound(b, n, used[b])
    BY <1>2, <1>3, <1>6, <1>8 DEF PoolSound
  <1>14. Good(p, b, h.pool1, {}, F, used)
    BY <1>1, <1>10, <1>11, <1>12, <1>13, PoolRewritten
  <1>15. /\ IsHeap(g) /\ SameCache(g, p) /\ g.pools = p.pools /\ g.old = p.old
         /\ g.pool = p.pool /\ g.pool1 = p.pool1
    BY <1>4, <1>11 DEF OnlyPool, IsHeap, IsFcn, HeapFields, SameCache
  <1>16. p.pool = b /\ p.pool1 = h.pool1
    BY <1>11 DEF OnlyPool, SameLists, b
  <1>17. Good(g, b, h.pool1, {}, F, used)
    BY <1>14, <1>15, FieldsOnly
  <1> QED  BY <1>1, <1>6, <1>8, <1>10, <1>15, <1>16, <1>17 DEF Sound, b, m

\* A pool as new, or grown for it, has room for the block it was wanted for.
LEMMA NewPoolHasRoom ==
    ASSUME NEW h, NEW F, NEW used, Sound(h, F, used), h.pool # NULL,
           NEW n \in Nat, RoomFor(h, Want(n))
    PROVE  HasBumpRoom(h, AllocSize(n))
  <1> DEFINE b == h.pool
             len == h.pools[b].len
             alloc == AllocSize(n)
             off == BumpOffset(h)
  <1>1. b \in DOMAIN h.pools /\ Good(h, b, h.pool1, {}, F, used)
    BY CurrentDangles DEF Sound
  <1>2. b \in Nat /\ b % PGSIZE = 0 /\ len \in Nat
    BY <1>1, PoolSpanIs
  <1>3. h.pools[b].size = MSET /\ alloc + MSET + ALIGN <= len
    BY DEF RoomFor, Want
  <1>4. MSET \in Nat /\ ALIGN \in Nat /\ LONG \in Nat /\ LONG <= ALIGN
    BY ConstantsAre
  <1>5. alloc \in Nat
    BY AllocSizeIs
  <1>6. off = Skip(b, MSET)
    BY <1>3 DEF BumpOffset
  <1> HIDE DEF b, len, alloc, off
  <1>7. off \in Nat /\ off <= MSET + LONG
    BY <1>2, <1>4, <1>6, SkipIs
  <1>8. off + alloc <= len
    BY <1>2, <1>3, <1>4, <1>5, <1>7
  <1> QED  BY <1>8 DEF HasBumpRoom, off, alloc, len, b

LEMMA GrownPoolHasRoom ==
    ASSUME NEW h, NEW F, NEW used, Sound(h, F, used), h.pool # NULL,
           NEW n \in Nat, NEW need, need = BumpOffset(h) + AllocSize(n) + ALIGN,
           NEW k, CanGrow(h, need, k),
           NEW g, g = PoolGrow(h, need)
    PROVE  Sound(g, F, used) /\ g.pool = h.pool /\ HasBumpRoom(g, AllocSize(n))
  <1> DEFINE b == h.pool
             alloc == AllocSize(n)
             off == BumpOffset(h)
  <1>1. b \in DOMAIN h.pools /\ Good(h, b, h.pool1, {}, F, used)
    BY CurrentDangles DEF Sound
  <1>2. b \in Nat /\ b % PGSIZE = 0 /\ h.pools[b].size \in Nat
    BY <1>1, PoolSpanIs DEF Good, PoolsSound, PoolSound
  <1>3. alloc \in Nat /\ ALIGN \in Nat
    BY AllocSizeIs, ConstantsAre
  <1>4. off = Skip(b, h.pools[b].size)
    BY DEF BumpOffset
  <1>5. off \in Nat
    BY <1>2, <1>4, SkipIs
  <1>6. need \in Nat
    BY <1>3, <1>5
  <1>7. /\ Sound(g, F, used) /\ g.pool = b
        /\ g.pools[b].size = h.pools[b].size /\ need <= g.pools[b].len
    BY <1>6, PoolGrowIs
  <1>8. g.pools[b].len \in Nat
    BY <1>1, <1>7, CurrentDangles, PoolSpanIs DEF Sound
  <1>9. BumpOffset(g) = off
    BY <1>4, <1>7 DEF BumpOffset
  <1>10. need = off + alloc + ALIGN
    OBVIOUS
  <1> HIDE DEF off, alloc, b
  <1>11. off + alloc <= g.pools[b].len
    BY <1>3, <1>5, <1>7, <1>8, <1>10
  <1> QED  BY <1>7, <1>9, <1>11 DEF HasBumpRoom, alloc, b

(***************************************************************************)
(* free() of a block in a pool.                                            *)
(***************************************************************************)
LEMMA FreedPooledIs ==
    ASSUME NEW h, NEW F, NEW used, Sound(h, F, used),
           NEW b \in DOMAIN h.pools, NEW hd, hd.moff \in DOMAIN used[b],
           used[b][hd.moff] = AllocSize(hd.size),
           NEW next, LacksOne(next[b], used[b], hd.moff),
           \A c \in Nat \ {b} : next[c] = used[c],
           NEW k, NEW g, g = FreedPooled(h, b, hd, k)
    PROVE  Sound(g, F, next)
  <1> DEFINE u == Unreferenced(h, b)
             off == hd.moff
             size == AllocSize(hd.size)
  <1>1. Good(h, h.pool, h.pool1, {}, F, used)
    BY DEF Sound
  <1>2. /\ OnlyPool(u, h, b) /\ PoolsOwn(u, F)
        /\ PoolSound(b, u.pools[b], next[b])
        /\ u.pools[b].free = h.pools[b].free /\ u.pools[b].big = h.pools[b].big
        /\ u.pools[b].len = h.pools[b].len /\ u.pools[b].size = h.pools[b].size
        /\ u.pools[b].max = h.pools[b].max /\ u.pools[b].refs = h.pools[b].refs - 1
        /\ h.pools[b].refs \in Nat \ {0}
    <2>1. off \in DOMAIN used[b]
      OBVIOUS
    <2> QED  BY <1>1, <2>1, UnreferencedIs
  <1> HIDE DEF u
  <1>3. IsHeap(u) /\ u.pool = h.pool /\ u.pool1 = h.pool1 /\ u.old = h.old /\ OldPools(u) = OldPools(h)
    BY <1>2 DEF OnlyPool, SameLists, OldPools
  <1>4. b # h.pool1
    <2>1. SUFFICES ASSUME b = h.pool1  PROVE FALSE
      OBVIOUS
    <2>2. h.pools[b].size = MSET /\ b # NULL /\ b \in Nat
      BY <1>1, <2>1, PoolSpanIs DEF Good
    <2>3. PoolSound(b, h.pools[b], used[b])
      BY <1>1 DEF Good, PoolsSound
    <2>4. /\ off \in Nat /\ used[b][off] \in Nat \ {0} /\ MSET <= off
          /\ off + used[b][off] <= h.pools[b].size
      BY <2>3 DEF PoolSound, Tiled
    <2> QED  BY <2>2, <2>4, ConstantsAre
  <1>5. CASE h.pools[b].refs = 1 /\ b # h.pool
    <2> DEFINE w == [h EXCEPT !.old = Unlisted(h.old, b)]
               v == [u EXCEPT !.old = Unlisted(h.old, b)]
    <2>1. g = Drained(v, b)
      BY <1>5 DEF FreedPooled, u
    <2>2. b \in OldPools(h)
      BY <1>1, <1>4, <1>5 DEF Good, Lists
    <2>3. /\ IsHeap(w) /\ SameCache(w, h) /\ w.pools = h.pools /\ w.old = Unlisted(h.old, b)
          /\ w.pool = h.pool /\ w.pool1 = h.pool1
      BY <1>1 DEF Good, IsHeap, IsFcn, HeapFields, SameCache
    <2>4. /\ IsHeap(v) /\ SameCache(v, u) /\ v.pools = u.pools /\ v.old = Unlisted(h.old, b)
          /\ v.pool = h.pool /\ v.pool1 = h.pool1
      BY <1>3 DEF IsHeap, IsFcn, HeapFields, SameCache
    <2> HIDE DEF w, v
    <2> DEFINE one == {} \cup {b}
               none == {}
    <2>5. Good(w, h.pool, h.pool1, one, F, used) /\ b \in one /\ none = one \ {b}
      <3>1. Good(w, h.pool, h.pool1, {} \cup {b}, F, used)
        BY <1>1, <2>2, <2>3, RetiredDangles
      <3> QED  BY <3>1
    <2> HIDE DEF one, none
    <2>6. OnlyPool(v, w, b)
      BY <1>2, <2>3, <2>4 DEF OnlyPool, SameLists
    <2>7. PoolsOwn(v, F)
      <3>1. DOMAIN v.pools = DOMAIN u.pools /\ \A c \in DOMAIN u.pools : v.pools[c].len = u.pools[c].len
        BY <2>4
      <3> QED  BY <1>2, <2>4, <3>1, SameSpansOwn
    <2>8. b \notin OldPools(w) /\ b \in DOMAIN w.pools
      BY <2>3, <2>5 DEF Good, Lists
    <2>9. Good(v, h.pool, h.pool1, one, F, next)
      <3>1. PoolSound(b, v.pools[b], next[b])
        BY <1>2, <2>4
      <3> QED  BY <1>4, <2>5, <2>6, <2>7, <2>8, <3>1, PoolRewritten
    <2>10. v.pools[b].refs = 0
      BY <1>2, <1>5, <2>4
    <2>12. CASE h.pool1 # NULL
      <3>1. g = Unmapped(v, b)
        BY <2>1, <2>4, <2>12 DEF Drained
      <3> DEFINE cur == h.pool
                 s == h.pool1
      <3>2. Good(v, cur, s, one, F, next)
        BY <2>9
      <3> HIDE DEF cur, s
      <3>3. /\ Good(g, cur, s, none, F, next)
            /\ g.pool = v.pool /\ g.pool1 = v.pool1
        BY <3>1, <3>2, <2>5, <2>10, UnmappedIs
      <3> QED  BY <3>3, <2>4 DEF Sound, none, cur, s
    <2>13. CASE h.pool1 = NULL
      <3>1. g = Spared(v, b)
        BY <2>1, <2>4, <2>13 DEF Drained
      <3>2. Good(v, h.pool, NULL, one, F, next)
        BY <2>9, <2>13
      <3>3. /\ Good(g, h.pool, b, none, F, next)
            /\ g.pool = v.pool /\ g.pool1 = b
        BY <3>1, <3>2, <2>5, <2>10, SparedIs
      <3> QED  BY <3>3, <2>4 DEF Sound, none
    <2> QED  BY <2>12, <2>13
  <1>6. CASE ~(h.pools[b].refs = 1 /\ b # h.pool)
    <2>1. g = FreelistInsert(u, b, off, size, k)
      BY <1>6 DEF FreedPooled, u
    <2>2. b \in OldPools(h) => RetiredSound(u.pools[b])
      <3>1. SUFFICES ASSUME b \in OldPools(h)  PROVE RetiredSound(u.pools[b])
        OBVIOUS
      <3>2. b # h.pool /\ RetiredSound(h.pools[b])
        BY <1>1, <3>1 DEF Good, Lists
      <3>3. u.pools[b].refs > 0
        BY <1>2, <1>6, <3>2
      <3> QED  BY <1>2, <3>2, <3>3 DEF RetiredSound
    <2>3. Good(u, h.pool, h.pool1, {}, F, next)
      BY <1>1, <1>2, <1>4, <2>2, PoolRewritten
    <2>4. b \in OldPools(u) <=> b # u.pool
      BY <1>1, <1>3, <1>4 DEF Good, Lists
    <2>5. /\ off \in Nat /\ size \in Nat \ {0} /\ MSET <= off /\ off + size <= u.pools[b].size
          /\ Clear(u.pools[b].free, next[b], off, size)
      <3>1. PoolSound(b, h.pools[b], used[b]) /\ IsPool(u.pools[b]) /\ off \in DOMAIN used[b]
        BY <1>1, <1>2 DEF Good, PoolsSound, PoolSound
      <3>2. /\ off \in Nat /\ used[b][off] \in Nat \ {0}
            /\ MSET <= off /\ off + used[b][off] <= h.pools[b].size
            /\ Clear(h.pools[b].free, next[b], off, used[b][off])
        BY <3>1, <1>2, OneLess
      <3> QED  BY <3>2, <1>2
    <2>6. b \in DOMAIN u.pools
      BY <1>2 DEF OnlyPool
    <2> HIDE DEF off, size
    <2>7. Good(g, h.pool, h.pool1, {}, F, next) /\ OnlyPool(g, u, b)
      BY <2>1, <2>3, <2>4, <2>5, <2>6, <1>4, FreelistInsertIs
    <2> QED  BY <2>7, <1>3 DEF OnlyPool, SameLists, Sound
  <1> QED  BY <1>5, <1>6

(***************************************************************************)
(* A part of a live block goes on the free list.                           *)
(***************************************************************************)
\* The block at off is shorter, the others are what they were.
Shortens(next, used, off, size) ==
    /\ DOMAIN next = DOMAIN used /\ next[off] = size
    /\ \A x \in DOMAIN used \ {off} : next[x] = used[x]

LEMMA ShortenedIs ==
    ASSUME NEW b, NEW m, NEW used, PoolSound(b, m, used), NEW off \in DOMAIN used,
           NEW size \in Nat \ {0}, NEW tail \in Nat \ {0}, used[off] = size + tail,
           NEW next, Shortens(next, used, off, size)
    PROVE  /\ PoolSound(b, m, next)
           /\ off \in Nat /\ MSET <= off + size
           /\ off + size + tail <= m.size
           /\ Clear(m.free, next, off + size, tail)
  <1> DEFINE free == m.free
             end == m.size
  <1>1. /\ Tiled(free, used, end) /\ end \in Nat /\ MSET \in Nat
    BY ConstantsAre DEF PoolSound
  <1>2. /\ DOMAIN free \subseteq Nat /\ DOMAIN used \subseteq Nat
        /\ \A x \in DOMAIN free : free[x] \in Nat \ {0} /\ MSET <= x /\ x + free[x] <= end
        /\ \A x \in DOMAIN used : used[x] \in Nat \ {0} /\ MSET <= x /\ x + used[x] <= end
        /\ \A x, y \in DOMAIN free : x < y => x + free[x] < y
        /\ \A x, y \in DOMAIN used : x < y => x + used[x] <= y
        /\ \A x \in DOMAIN free, y \in DOMAIN used : x + free[x] <= y \/ y + used[y] <= x
    BY <1>1 DEF Tiled
  <1>3. /\ DOMAIN next = DOMAIN used /\ next[off] = size
        /\ \A x \in DOMAIN used \ {off} : next[x] = used[x]
    BY DEF Shortens
  <1> HIDE DEF free, end
  <1>4. \A x \in DOMAIN next : /\ x \in DOMAIN used /\ next[x] \in Nat \ {0}
                               /\ next[x] <= used[x]
    BY <1>2, <1>3
  <1>5. Tiled(free, next, end)
    <2>1. \A x \in DOMAIN next : next[x] \in Nat \ {0} /\ MSET <= x /\ x + next[x] <= end
      BY <1>1, <1>2, <1>4
    <2>2. \A x, y \in DOMAIN next : x < y => x + next[x] <= y
      BY <1>2, <1>4
    <2>3. \A x \in DOMAIN free, y \in DOMAIN next : x + free[x] <= y \/ y + next[y] <= x
      BY <1>2, <1>4
    <2> QED  BY <1>2, <1>3, <2>1, <2>2, <2>3 DEF Tiled
  <1>6. off \in Nat /\ MSET <= off + size /\ off + size + tail <= end
    BY <1>1, <1>2
  <1>7. Clear(free, next, off + size, tail)
    <2>1. \A x \in DOMAIN free : x + free[x] <= off + size \/ off + size + tail <= x
      BY <1>1, <1>2
    <2>2. \A x \in DOMAIN next : x + next[x] <= off + size \/ off + size + tail <= x
      BY <1>1, <1>2, <1>3
    <2> QED  BY <2>1, <2>2 DEF Clear
  <1>8. \A x \in DOMAIN next : (b + x + HDR) % PGSIZE # 0
    BY <1>3 DEF PoolSound
  <1> QED  BY <1>3, <1>5, <1>6, <1>7, <1>8 DEF PoolSound, free, end

LEMMA TailFreedIs ==
    ASSUME NEW h, NEW F, NEW used, Sound(h, F, used),
           NEW b \in DOMAIN h.pools, NEW off \in DOMAIN used[b],
           NEW size \in Nat \ {0}, NEW tail \in Nat \ {0}, used[b][off] = size + tail,
           NEW next, Shortens(next[b], used[b], off, size),
           \A c \in Nat \ {b} : next[c] = used[c],
           NEW k, NEW g, g = FreelistInsert(h, b, off + size, tail, k)
    PROVE  Sound(g, F, next)
  <1>1. /\ Good(h, h.pool, h.pool1, {}, F, used) /\ PoolSound(b, h.pools[b], used[b])
        /\ IsHeap(h) /\ IsFcn(h.pools) /\ PoolsOwn(h, F)
    BY DEF Sound, Good, PoolsSound
  <1>2. /\ PoolSound(b, h.pools[b], next[b])
        /\ off \in Nat /\ MSET <= off + size
        /\ off + size + tail <= h.pools[b].size
        /\ Clear(h.pools[b].free, next[b], off + size, tail)
    BY <1>1, ShortenedIs
  <1>3. b # h.pool1
    <2>1. SUFFICES ASSUME b = h.pool1  PROVE FALSE
      OBVIOUS
    <2>2. h.pools[b].size = MSET /\ b # NULL
      BY <1>1, <2>1, PoolSpanIs DEF Good
    <2>3. MSET <= off
      BY <1>1 DEF PoolSound, Tiled
    <2> QED  BY <1>2, <2>2, <2>3, ConstantsAre
  <1>4. OnlyPool(h, h, b)
    BY <1>1 DEF OnlyPool, SameLists
  <1>5. Good(h, h.pool, h.pool1, {}, F, next)
    <2>1. b \in OldPools(h) => RetiredSound(h.pools[b])
      BY <1>1 DEF Good
    <2> QED  BY <1>1, <1>2, <1>3, <1>4, <2>1, PoolRewritten
  <1>6. b \in OldPools(h) <=> b # h.pool
    BY <1>1, <1>3 DEF Good, Lists
  <1>7. off + size \in Nat
    BY <1>2
  <1>8. Good(g, h.pool, h.pool1, {}, F, next) /\ OnlyPool(g, h, b)
    BY <1>2, <1>3, <1>5, <1>6, <1>7, FreelistInsertIs
  <1> QED  BY <1>8 DEF OnlyPool, SameLists, Sound

(***************************************************************************)
(* Mappings of large blocks.                                               *)
(***************************************************************************)
LEMMA OwnersOnly ==
    ASSUME NEW h, NEW F, NEW used, Sound(h, F, used),
           NEW g, IsHeap(g), SameLists(g, h), g.pools = h.pools, NEW G, PoolsOwn(g, G)
    PROVE  Sound(g, G, used)
  <1>1. OldPools(g) = OldPools(h)
    BY DEF SameLists, OldPools
  <1> QED  BY <1>1 DEF Sound, Good, Lists, PoolsSound, SameLists

LEMMA MappedIs ==
    ASSUME NEW h, NEW F, NEW used, Sound(h, F, used),
           NEW total \in Nat \ {0}, total % PGSIZE = 0, NEW k,
           NEW c, c = CacheMap(h, total, k), NEW o, o = <<c.base, c.len>>,
           NEW G, G = F \cup {o}
    PROVE  /\ c.base = NULL => Sound(c.heap, F, used)
           /\ c.base # NULL => /\ IsSpan(o) /\ o \notin F /\ total <= c.len
                               /\ Sound(c.heap, G, used)
  <1> DEFINE S == PoolSpans(h) \cup F
             g == c.heap
  <1>1. IsHeap(h) /\ CacheOwns(h, S) /\ PoolSpans(h) \cap F = {}
    BY DEF Sound, Good, PoolsOwn
  <1> HIDE DEF S
  <1>2. /\ IsHeap(g) /\ SamePools(g, h)
        /\ c.base = NULL => CacheOwns(g, S)
        /\ c.base # NULL => /\ IsSpan(o) /\ o \notin S
                            /\ total <= c.len
                            /\ \A q \in S : SpansApart(o, q)
                            /\ CacheOwns(g, S \cup {o})
    <2> HIDE DEF g
    <2>1. IsHeap(h) /\ CacheOwns(h, S) /\ total \in Nat \ {0} /\ total % PGSIZE = 0
      BY <1>1
    <2>2. Maps(c, h, S, total, o)
      BY <2>1, CacheMapOwns
    <2> QED  BY <2>2 DEF Maps, g
  <1> HIDE DEF g
  <1>3. g.pools = h.pools /\ SameLists(g, h) /\ PoolSpans(g) = PoolSpans(h)
    BY <1>2 DEF SamePools, SameLists, PoolSpans
  <1>4. c.base = NULL => Sound(g, F, used)
    <2>1. SUFFICES ASSUME c.base = NULL  PROVE Sound(g, F, used)
      OBVIOUS
    <2>2. PoolsOwn(g, F)
      BY <1>1, <1>2, <1>3, <2>1 DEF PoolsOwn, S
    <2> QED  BY <1>2, <1>3, <2>2, OwnersOnly
  <1>5. c.base # NULL => o \notin F /\ Sound(g, F \cup {o}, used)
    <2>1. SUFFICES ASSUME c.base # NULL  PROVE o \notin F /\ Sound(g, F \cup {o}, used)
      OBVIOUS
    <2>2. o \notin F /\ o \notin PoolSpans(h)
      BY <1>2, <2>1 DEF S
    <2>3. S \cup {o} = PoolSpans(g) \cup (F \cup {o})
      BY <1>3 DEF S
    <2>4. PoolsOwn(g, F \cup {o})
      BY <1>1, <1>2, <1>3, <2>1, <2>2, <2>3 DEF PoolsOwn
    <2> QED  BY <1>2, <1>3, <2>2, <2>4, OwnersOnly
  <1> QED  BY <1>2, <1>4, <1>5 DEF g

LEMMA UnmappingIs ==
    ASSUME NEW h, NEW F, NEW used, Sound(h, F, used),
           NEW base \in Nat, NEW total \in Nat, <<base, total>> \in F,
           NEW g, g = CacheUnmap(h, base, total)
    PROVE  Sound(g, F \ {<<base, total>>}, used)
  <1> DEFINE S == PoolSpans(h) \cup F
             o == <<base, total>>
  <1>1. IsHeap(h) /\ CacheOwns(h, S) /\ PoolSpans(h) \cap F = {} /\ o \in S
    BY DEF Sound, Good, PoolsOwn
  <1> HIDE DEF S
  <1>2. /\ IsHeap(g) /\ SamePools(g, h) /\ CacheOwns(g, S \ {o})
    BY <1>1, CacheUnmapOwns
  <1> HIDE DEF o
  <1>3. g.pools = h.pools /\ SameLists(g, h) /\ PoolSpans(g) = PoolSpans(h)
    BY <1>2 DEF SamePools, SameLists, PoolSpans
  <1>4. S \ {o} = PoolSpans(g) \cup (F \ {o})
    BY <1>1, <1>3 DEF S, o
  <1>5. PoolsOwn(g, F \ {o})
    BY <1>1, <1>2, <1>3, <1>4 DEF PoolsOwn
  <1> QED  BY <1>2, <1>3, <1>5, OwnersOnly DEF o

LEMMA MappingResizedIs ==
    ASSUME NEW h, NEW F, NEW used, Sound(h, F, used),
           NEW base \in Nat, NEW old \in Nat, <<base, old>> \in F,
           NEW len \in Nat \ {0}, len % PGSIZE = 0,
           len > old => Pages(base + old, len - old) \cap h.mapped = {},
           NEW g, g = Mremap(h, base, old, len),
           NEW G, G = (F \ {<<base, old>>}) \cup {<<base, len>>}
    PROVE  Sound(g, G, used)
  <1> DEFINE S == PoolSpans(h) \cup F
             o == <<base, old>>
             q == <<base, len>>
  <1>1. IsHeap(h) /\ CacheOwns(h, S) /\ PoolSpans(h) \cap F = {} /\ o \in S /\ o \in F
    BY DEF Sound, Good, PoolsOwn
  <1>2. /\ IsHeap(g) /\ SameLists(g, h) /\ g.pools = h.pools
        /\ g.cache = h.cache /\ g.bytes = h.bytes
        /\ g.mapped = (h.mapped \ Pages(base, old)) \cup Pages(base, len)
    BY <1>1 DEF Mremap, IsHeap, IsFcn, HeapFields, SameLists
  <1> HIDE DEF S
  <1>3. q \notin S \ {o} /\ CacheOwns(g, (S \ {o}) \cup {q})
    <2>1. CacheOwns(h, S) /\ <<base, old>> \in S
      BY <1>1
    <2>2. /\ g.cache = h.cache /\ g.bytes = h.bytes
          /\ g.mapped = (h.mapped \ Pages(base, old)) \cup Pages(base, len)
      BY <1>2
    <2>3. /\ <<base, len>> \notin S \ {<<base, old>>}
          /\ CacheOwns(g, (S \ {<<base, old>>}) \cup {<<base, len>>})
      BY <2>1, <2>2, RemapOwns
    <2> QED  BY <2>3
  <1>4. PoolSpans(g) = PoolSpans(h)
    BY <1>2 DEF PoolSpans
  <1> HIDE DEF o, q
  <1>5. (S \ {o}) \cup {q} = PoolSpans(g) \cup ((F \ {o}) \cup {q})
    BY <1>1, <1>4 DEF S
  <1>6. PoolSpans(g) \cap ((F \ {o}) \cup {q}) = {}
    BY <1>1, <1>3, <1>4 DEF S
  <1>7. PoolsOwn(g, (F \ {o}) \cup {q})
    BY <1>3, <1>5, <1>6 DEF PoolsOwn
  <1> QED  BY <1>2, <1>7, OwnersOnly DEF o, q

-------------------------------------------------------------------------------
(***************************************************************************)
(* The program.                                                            *)
(***************************************************************************)

\* The live blocks of each pool, by the offset their headers have.
UsedOf(bl) ==
    [b \in Nat |->
        [x \in {y \in Nat : b + y + HDR \in DOMAIN bl /\ bl[b + y + HDR].moff = y} |->
            AllocSize(bl[b + x + HDR].size)]]

\* The mappings of the large blocks.
MappedBy(bl) ==
    {<<p - LARGE_HDR, bl[p].word>> : p \in {q \in DOMAIN bl : bl[q].moff = LARGE_MOFF}}

IsHeader(hd) ==
    /\ hd.moff \in Nat \cup {LARGE_MOFF, ALIGNED_MOFF}
    /\ hd.size \in Nat /\ hd.word \in Nat

\* Where the header is, and that its block fits what it was cut from.
InOrder(bl, p) ==
    LET hd == bl[p]
    IN  /\ hd.moff >= 0 => p - HDR - hd.moff \in Nat
        /\ hd.moff = LARGE_MOFF => LARGE_HDR <= p /\ hd.size + LARGE_HDR <= hd.word
        /\ hd.moff = ALIGNED_MOFF =>
              /\ hd.word \in DOMAIN bl
              /\ bl[hd.word].moff # ALIGNED_MOFF
              /\ hd.word + LONG + HDR <= p
              /\ p + hd.size <= hd.word + bl[hd.word].size

\* No two aligned blocks are cut from the same one.
OneEach(bl) ==
    \A p, q \in DOMAIN bl :
        bl[p].moff = ALIGNED_MOFF /\ bl[q].moff = ALIGNED_MOFF /\ p # q
            => bl[p].word # bl[q].word

Headers(bl) ==
    /\ IsFcn(bl) /\ DOMAIN bl \subseteq Nat /\ IsFiniteSet(DOMAIN bl)
    /\ \A p \in DOMAIN bl : IsHeader(bl[p]) /\ InOrder(bl, p)
    /\ OneEach(bl)

Agree(h, bl) == Headers(bl) /\ Sound(h, MappedBy(bl), UsedOf(bl))

Inv == Agree(heap, blocks)

-------------------------------------------------------------------------------
(***************************************************************************)
(* Where the blocks are: no two of them share a byte.                      *)
(***************************************************************************)

LEMMA PlaceIs ==
    ASSUME NEW h, NEW F, NEW used, Sound(h, F, used),
           NEW b \in Nat, NEW x \in DOMAIN used[b]
    PROVE  /\ b \in DOMAIN h.pools /\ h.pools[b].len \in Nat
           /\ x \in Nat /\ used[b][x] \in Nat \ {0}
           /\ MSET <= x /\ x + used[b][x] <= h.pools[b].len
           /\ (b + x + HDR) % PGSIZE # 0
  <1>1. b \in DOMAIN h.pools
    BY DEF Sound, Good, PoolsSound
  <1>2. PoolSound(b, h.pools[b], used[b])
    BY <1>1 DEF Sound, Good, PoolsSound
  <1> QED  BY <1>1, <1>2 DEF PoolSound, Tiled

LEMMA PoolAndSpanApart ==
    ASSUME NEW h, NEW F, NEW used, Sound(h, F, used),
           NEW b \in DOMAIN h.pools, NEW o \in F
    PROVE  IsSpan(o) /\ (b + h.pools[b].len <= o[1] \/ o[1] + o[2] <= b)
  <1> DEFINE q == <<b, h.pools[b].len>>
  <1>1. q \in PoolSpans(h) /\ o \notin PoolSpans(h)
    BY DEF Sound, Good, PoolsOwn, PoolSpans
  <1>2. q[1] = b /\ q[2] = h.pools[b].len
    OBVIOUS
  <1> HIDE DEF q
  <1>3. SpansApart(q, o) /\ IsSpan(o)
    BY <1>1 DEF Sound, Good, PoolsOwn, CacheOwns, Owned
  <1> QED  BY <1>2, <1>3 DEF SpansApart

LEMMA PoolsApart ==
    ASSUME NEW h, NEW F, NEW used, Sound(h, F, used),
           NEW b \in DOMAIN h.pools, NEW c \in DOMAIN h.pools, b # c
    PROVE  b + h.pools[b].len <= c \/ c + h.pools[c].len <= b
  <1> DEFINE q == <<b, h.pools[b].len>>
             r == <<c, h.pools[c].len>>
  <1>1. q \in PoolSpans(h) /\ r \in PoolSpans(h) /\ q # r
    BY DEF PoolSpans
  <1>2. q[1] = b /\ q[2] = h.pools[b].len /\ r[1] = c /\ r[2] = h.pools[c].len
    OBVIOUS
  <1> HIDE DEF q, r
  <1>3. SpansApart(q, r)
    BY <1>1 DEF Sound, Good, PoolsOwn, CacheOwns, Owned
  <1> QED  BY <1>2, <1>3 DEF SpansApart

LEMMA SpansOfBlocksApart ==
    ASSUME NEW h, NEW F, NEW used, Sound(h, F, used),
           NEW o \in F, NEW q \in F, o # q
    PROVE  SpansApart(o, q)
  BY DEF Sound, Good, PoolsOwn, CacheOwns, Owned

LEMMA PlacesApart ==
    ASSUME NEW h, NEW F, NEW used, Sound(h, F, used),
           NEW b \in Nat, NEW x \in DOMAIN used[b],
           NEW c \in Nat, NEW y \in DOMAIN used[c], b # c \/ x # y
    PROVE  b + x + used[b][x] <= c + y \/ c + y + used[c][y] <= b + x
  <1>1. /\ b \in DOMAIN h.pools /\ h.pools[b].len \in Nat
        /\ x \in Nat /\ used[b][x] \in Nat \ {0} /\ x + used[b][x] <= h.pools[b].len
    BY PlaceIs
  <1>2. /\ c \in DOMAIN h.pools /\ h.pools[c].len \in Nat
        /\ y \in Nat /\ used[c][y] \in Nat \ {0} /\ y + used[c][y] <= h.pools[c].len
    BY PlaceIs
  <1>3. CASE b = c
    <2>1. Tiled(h.pools[b].free, used[b], h.pools[b].size)
      BY <1>1 DEF Sound, Good, PoolsSound, PoolSound
    <2>2. x + used[b][x] <= y \/ y + used[b][y] <= x
      BY <1>1, <1>2, <1>3, <2>1 DEF Tiled
    <2> QED  BY <1>1, <1>2, <1>3, <2>2
  <1>4. CASE b # c
    <2>1. b + h.pools[b].len <= c \/ c + h.pools[c].len <= b
      BY <1>1, <1>2, <1>4, PoolsApart
    <2> QED  BY <1>1, <1>2, <2>1
  <1> QED  BY <1>3, <1>4

LEMMA PlaceAndSpanApart ==
    ASSUME NEW h, NEW F, NEW used, Sound(h, F, used),
           NEW b \in Nat, NEW x \in DOMAIN used[b], NEW o \in F
    PROVE  b + x + used[b][x] <= o[1] \/ o[1] + o[2] <= b + x
  <1>1. /\ b \in DOMAIN h.pools /\ h.pools[b].len \in Nat
        /\ x \in Nat /\ used[b][x] \in Nat \ {0} /\ x + used[b][x] <= h.pools[b].len
    BY PlaceIs
  <1>2. o[1] \in Nat /\ o[2] \in Nat /\ (b + h.pools[b].len <= o[1] \/ o[1] + o[2] <= b)
    BY <1>1, PoolAndSpanApart DEF IsSpan
  <1> QED  BY <1>1, <1>2

(***************************************************************************)
(* The bytes a block has, its header's included, if it is not an aligned   *)
(* one.  A user pointer is past the header and not past the end.           *)
(***************************************************************************)
Low(bl, p) == IF bl[p].moff = LARGE_MOFF THEN p - LARGE_HDR ELSE p - HDR
Room(bl, p) == IF bl[p].moff = LARGE_MOFF THEN bl[p].word ELSE AllocSize(bl[p].size)

LEMMA PooledIs ==
    ASSUME NEW bl, Headers(bl), NEW p \in DOMAIN bl, bl[p].moff >= 0,
           NEW b, b = p - HDR - bl[p].moff
    PROVE  /\ b \in Nat /\ bl[p].moff \in Nat /\ p = b + bl[p].moff + HDR
           /\ bl[p].moff \in DOMAIN UsedOf(bl)[b]
           /\ UsedOf(bl)[b][bl[p].moff] = AllocSize(bl[p].size)
  <1>1. bl[p].moff \in Nat
    BY DEF Headers, IsHeader, LARGE_MOFF, ALIGNED_MOFF
  <1>2. b \in Nat /\ p \in Nat /\ HDR \in Nat
    BY ConstantsAre DEF Headers, InOrder
  <1>3. p = b + bl[p].moff + HDR
    BY <1>1, <1>2
  <1> QED  BY <1>1, <1>2, <1>3 DEF UsedOf

LEMMA LowIs ==
    ASSUME NEW bl, Headers(bl), NEW p \in DOMAIN bl, bl[p].moff # ALIGNED_MOFF
    PROVE  /\ p \in Nat /\ bl[p].size \in Nat
           /\ Low(bl, p) \in Nat /\ Room(bl, p) \in Nat
           /\ Low(bl, p) + HDR <= p
           /\ p + bl[p].size <= Low(bl, p) + Room(bl, p)
  <1>1. /\ p \in Nat /\ bl[p].size \in Nat /\ bl[p].word \in Nat
        /\ bl[p].moff \in Nat \cup {LARGE_MOFF}
        /\ HDR \in Nat /\ LARGE_HDR \in Nat /\ LARGE_HDR = HDR + HDR
    BY ConstantsAre DEF Headers, IsHeader
  <1>2. CASE bl[p].moff = LARGE_MOFF
    BY <1>1, <1>2 DEF Low, Room, Headers, InOrder
  <1>3. CASE bl[p].moff \in Nat
    <2>1. bl[p].moff # LARGE_MOFF
      BY <1>3 DEF LARGE_MOFF
    <2>2. AllocSize(bl[p].size) \in Nat /\ bl[p].size + HDR <= AllocSize(bl[p].size)
      BY <1>1, AllocSizeIs
    <2>3. p - HDR - bl[p].moff \in Nat
      BY <1>3 DEF Headers, InOrder
    <2>4. Low(bl, p) = p - HDR /\ Room(bl, p) = AllocSize(bl[p].size)
      BY <2>1 DEF Low, Room
    <2> QED  BY <1>1, <1>3, <2>2, <2>3, <2>4
  <1> QED  BY <1>1, <1>2, <1>3

LEMMA BlocksShareNothing ==
    ASSUME NEW h, NEW bl, Agree(h, bl), NEW p \in DOMAIN bl, NEW q \in DOMAIN bl, p # q,
           bl[p].moff # ALIGNED_MOFF, bl[q].moff # ALIGNED_MOFF
    PROVE  Low(bl, p) + Room(bl, p) <= Low(bl, q) \/ Low(bl, q) + Room(bl, q) <= Low(bl, p)
  <1> DEFINE F == MappedBy(bl)
             used == UsedOf(bl)
             o == <<p - LARGE_HDR, bl[p].word>>
             t == <<q - LARGE_HDR, bl[q].word>>
             b == p - HDR - bl[p].moff
             c == q - HDR - bl[q].moff
             x == bl[p].moff
             y == bl[q].moff
  <1>1. Headers(bl) /\ Sound(h, F, used)
    BY DEF Agree
  <1>2. /\ p \in Nat /\ q \in Nat /\ x \in Nat \cup {LARGE_MOFF} /\ y \in Nat \cup {LARGE_MOFF}
        /\ HDR \in Nat /\ LARGE_HDR \in Nat
    BY <1>1, ConstantsAre DEF Headers, IsHeader
  <1>3. ASSUME x = LARGE_MOFF
        PROVE  o \in F /\ o[1] = p - LARGE_HDR /\ o[2] = bl[p].word
               /\ Low(bl, p) = o[1] /\ Room(bl, p) = o[2]
    BY <1>3 DEF MappedBy, Low, Room
  <1>4. ASSUME y = LARGE_MOFF
        PROVE  t \in F /\ t[1] = q - LARGE_HDR /\ t[2] = bl[q].word
               /\ Low(bl, q) = t[1] /\ Room(bl, q) = t[2]
    BY <1>4 DEF MappedBy, Low, Room
  <1>5. ASSUME x \in Nat
        PROVE  /\ b \in Nat /\ x \in DOMAIN used[b] /\ p = b + x + HDR
               /\ Low(bl, p) = b + x /\ Room(bl, p) = used[b][x]
    <2>1. x >= 0 /\ x # LARGE_MOFF
      BY <1>5 DEF LARGE_MOFF
    <2>2. b \in Nat /\ p = b + x + HDR /\ x \in DOMAIN used[b] /\ used[b][x] = AllocSize(bl[p].size)
      BY <1>1, <2>1, PooledIs
    <2>3. Low(bl, p) = p - HDR /\ Room(bl, p) = AllocSize(bl[p].size)
      BY <2>1 DEF Low, Room
    <2> HIDE DEF b, x, used
    <2> QED  BY <1>2, <1>5, <2>2, <2>3
  <1>6. ASSUME y \in Nat
        PROVE  /\ c \in Nat /\ y \in DOMAIN used[c] /\ q = c + y + HDR
               /\ Low(bl, q) = c + y /\ Room(bl, q) = used[c][y]
    <2>1. y >= 0 /\ y # LARGE_MOFF
      BY <1>6 DEF LARGE_MOFF
    <2>2. c \in Nat /\ q = c + y + HDR /\ y \in DOMAIN used[c] /\ used[c][y] = AllocSize(bl[q].size)
      BY <1>1, <2>1, PooledIs
    <2>3. Low(bl, q) = q - HDR /\ Room(bl, q) = AllocSize(bl[q].size)
      BY <2>1 DEF Low, Room
    <2> HIDE DEF c, y, used
    <2> QED  BY <1>2, <1>6, <2>2, <2>3
  <1> HIDE DEF F, used, o, t, b, c, x, y
  <1>7. CASE x = LARGE_MOFF /\ y = LARGE_MOFF
    <2>1. o # t
      BY <1>2, <1>3, <1>4, <1>7
    <2>2. SpansApart(o, t)
      BY <1>1, <1>3, <1>4, <1>7, <2>1, SpansOfBlocksApart
    <2> QED  BY <1>3, <1>4, <1>7, <2>2 DEF SpansApart
  <1>8. CASE x = LARGE_MOFF /\ y \in Nat
    BY <1>1, <1>3, <1>6, <1>8, PlaceAndSpanApart
  <1>9. CASE x \in Nat /\ y = LARGE_MOFF
    BY <1>1, <1>4, <1>5, <1>9, PlaceAndSpanApart
  <1>10. CASE x \in Nat /\ y \in Nat
    <2>1. b # c \/ x # y
      BY <1>5, <1>6, <1>10
    <2> QED  BY <1>1, <1>5, <1>6, <1>10, <2>1, PlacesApart
  <1> QED  BY <1>2, <1>7, <1>8, <1>9, <1>10

(***************************************************************************)
(* The block that malloc() returned to make block p: p itself, unless p is *)
(* aligned.                                                                *)
(***************************************************************************)
Home(bl, p) == IF bl[p].moff = ALIGNED_MOFF THEN bl[p].word ELSE p

LEMMA HomeIs ==
    ASSUME NEW bl, Headers(bl), NEW p \in DOMAIN bl, NEW r, r = Home(bl, p)
    PROVE  /\ r \in DOMAIN bl /\ bl[r].moff # ALIGNED_MOFF
           /\ p \in Nat /\ Low(bl, r) \in Nat /\ Room(bl, r) \in Nat
           /\ Low(bl, r) + HDR <= p /\ p <= Low(bl, r) + Room(bl, r)
  <1>1. p \in Nat /\ bl[p].size \in Nat /\ IsHeader(bl[p]) /\ InOrder(bl, p)
    BY DEF Headers, IsHeader
  <1>2. CASE bl[p].moff # ALIGNED_MOFF
    <2>1. r = p
      BY <1>2 DEF Home
    <2>2. /\ Low(bl, p) \in Nat /\ Room(bl, p) \in Nat /\ Low(bl, p) + HDR <= p
          /\ p + bl[p].size <= Low(bl, p) + Room(bl, p)
      BY <1>2, LowIs
    <2> QED  BY <1>1, <1>2, <2>1, <2>2
  <1>3. CASE bl[p].moff = ALIGNED_MOFF
    <2>1. /\ r = bl[p].word /\ r \in DOMAIN bl /\ bl[r].moff # ALIGNED_MOFF
          /\ r + LONG + HDR <= p /\ p + bl[p].size <= r + bl[r].size
      BY <1>1, <1>3 DEF Home, InOrder
    <2>2. /\ r \in Nat /\ bl[r].size \in Nat
          /\ Low(bl, r) \in Nat /\ Room(bl, r) \in Nat /\ Low(bl, r) + HDR <= r
          /\ r + bl[r].size <= Low(bl, r) + Room(bl, r)
      BY <2>1, LowIs
    <2>3. LONG \in Nat /\ HDR \in Nat
      BY ConstantsAre
    <2> QED  BY <1>1, <2>1, <2>2, <2>3
  <1> QED  BY <1>2, <1>3

\* There is no block where bytes are that no block has.
LEMMA NobodyThere ==
    ASSUME NEW bl, Headers(bl), NEW low \in Nat, NEW room \in Nat,
           \A r \in DOMAIN bl : bl[r].moff # ALIGNED_MOFF =>
               low + room <= Low(bl, r) \/ Low(bl, r) + Room(bl, r) <= low,
           NEW p \in Nat, low + HDR <= p, p <= low + room
    PROVE  p \notin DOMAIN bl
  <1>1. SUFFICES ASSUME p \in DOMAIN bl  PROVE FALSE
    OBVIOUS
  <1> DEFINE r == Home(bl, p)
  <1>2. /\ r \in DOMAIN bl /\ bl[r].moff # ALIGNED_MOFF
        /\ Low(bl, r) \in Nat /\ Room(bl, r) \in Nat
        /\ Low(bl, r) + HDR <= p /\ p <= Low(bl, r) + Room(bl, r)
    BY <1>1, HomeIs
  <1> HIDE DEF r
  <1>3. low + room <= Low(bl, r) \/ Low(bl, r) + Room(bl, r) <= low
    BY <1>2
  <1>4. HDR \in Nat \ {0}
    BY ConstantsAre
  <1> QED  BY <1>2, <1>3, <1>4

\* made is bl and the header hd of block m.
Adds(made, bl, m, hd) ==
    /\ DOMAIN made = DOMAIN bl \cup {m}
    /\ made[m] = hd
    /\ \A p \in DOMAIN bl : made[p] = bl[p]

StandsAt(hd, m) ==
    /\ hd.moff # ALIGNED_MOFF
    /\ hd.moff >= 0 => m - HDR - hd.moff \in Nat
    /\ hd.moff = LARGE_MOFF => LARGE_HDR <= m /\ hd.size + LARGE_HDR <= hd.word

\* A block nobody had, with a header of its own, that is not an aligned one.
LEMMA HeaderAdded ==
    ASSUME NEW bl, Headers(bl), NEW m \in Nat, m \notin DOMAIN bl,
           NEW hd, IsHeader(hd), StandsAt(hd, m),
           NEW made, made = With(bl, m, hd)
    PROVE  Headers(made) /\ Adds(made, bl, m, hd)
  <1>1. /\ IsFcn(made) /\ DOMAIN made = DOMAIN bl \cup {m} /\ made[m] = hd
        /\ \A p \in DOMAIN bl : made[p] = bl[p]
    BY DEF With, IsFcn
  <1>2. DOMAIN made \subseteq Nat /\ IsFiniteSet(DOMAIN made)
    BY <1>1, FS_AddElement DEF Headers
  <1>3. ASSUME NEW p \in DOMAIN made  PROVE IsHeader(made[p]) /\ InOrder(made, p)
    <2>1. CASE p = m
      BY <1>1, <2>1 DEF InOrder, StandsAt
    <2>2. CASE p # m
      <3>1. p \in DOMAIN bl /\ made[p] = bl[p] /\ IsHeader(bl[p]) /\ InOrder(bl, p)
        BY <1>1, <2>2 DEF Headers
      <3> QED  BY <1>1, <3>1 DEF InOrder
    <2> QED  BY <2>1, <2>2
  <1>4. OneEach(made)
    BY <1>1 DEF Headers, OneEach, StandsAt
  <1> QED  BY <1>1, <1>2, <1>3, <1>4 DEF Headers, Adds

\* The live blocks, one of them new.
Plus(used, b, off, size) ==
    [c \in Nat |-> IF c = b THEN With(used[c], off, size) ELSE used[c]]

LEMMA PlusIs ==
    ASSUME NEW used, NEW b \in Nat, NEW off, NEW size, NEW next, next = Plus(used, b, off, size)
    PROVE  next[b] = With(used[b], off, size) /\ \A c \in Nat : c # b => next[c] = used[c]
  BY DEF Plus

LEMMA PooledAdded ==
    ASSUME NEW bl, Headers(bl), NEW b \in Nat, NEW off \in Nat, NEW n \in Nat,
           off \notin DOMAIN UsedOf(bl)[b],
           NEW g, Sound(g, MappedBy(bl), Plus(UsedOf(bl), b, off, AllocSize(n))),
           NEW m, m = b + off + HDR,
           NEW hd, hd.moff = off, hd.size = n, hd.word = 0,
           NEW made, made = With(bl, m, hd)
    PROVE  /\ Agree(g, made)
           /\ m \notin DOMAIN bl
           /\ Adds(made, bl, m, hd)
  <1> DEFINE F == MappedBy(bl)
             used == UsedOf(bl)
             size == AllocSize(n)
             next == Plus(used, b, off, size)
             low == b + off
  <1>1. /\ HDR \in Nat /\ m \in Nat /\ low \in Nat /\ size \in Nat \ {0} /\ n + HDR <= size
        /\ m = low + HDR
    BY ConstantsAre, AllocSizeIs
  <1>2. hd.moff = off /\ hd.size = n /\ hd.word = 0
    OBVIOUS
  <1> HIDE DEF size
  <1>3. next[b] = With(used[b], off, size) /\ \A c \in Nat \ {b} : next[c] = used[c]
    BY PlusIs
  <1> HIDE DEF next
  <1>4. /\ DOMAIN next[b] = DOMAIN used[b] \cup {off} /\ next[b][off] = size
        /\ \A x \in DOMAIN used[b] : next[b][x] = used[b][x]
    BY <1>3 DEF With
  <1>5. Sound(g, F, next)
    BY DEF next, size
  <1>6. ASSUME NEW r \in DOMAIN bl, bl[r].moff # ALIGNED_MOFF
        PROVE  low + size <= Low(bl, r) \/ Low(bl, r) + Room(bl, r) <= low
    <2>1. bl[r].moff \in Nat \cup {LARGE_MOFF} /\ r \in Nat
      BY <1>6 DEF Headers, IsHeader
    <2>2. CASE bl[r].moff = LARGE_MOFF
      <3> DEFINE o == <<r - LARGE_HDR, bl[r].word>>
      <3>1. o \in F
        BY <2>2 DEF MappedBy
      <3>2. o[1] = Low(bl, r) /\ o[2] = Room(bl, r)
        BY <2>2 DEF Low, Room
      <3> HIDE DEF o, F
      <3>3. off \in DOMAIN next[b]
        BY <1>4
      <3>4. b + off + next[b][off] <= o[1] \/ o[1] + o[2] <= b + off
        BY <1>5, <3>1, <3>3, PlaceAndSpanApart
      <3> QED  BY <1>4, <3>2, <3>4
    <2>3. CASE bl[r].moff \in Nat
      <3> DEFINE y == bl[r].moff
                 c == r - HDR - y
      <3>1. y >= 0 /\ y # LARGE_MOFF
        BY <2>3 DEF LARGE_MOFF
      <3>2. c \in Nat /\ r = c + y + HDR /\ y \in DOMAIN used[c] /\ used[c][y] = AllocSize(bl[r].size)
        BY <3>1, PooledIs
      <3>3. Low(bl, r) = r - HDR /\ Room(bl, r) = AllocSize(bl[r].size)
        BY <3>1 DEF Low, Room
      <3> HIDE DEF c, y, used
      <3>4. Low(bl, r) = c + y
        BY <3>2, <3>3, <1>1, <2>1, <2>3 DEF y
      <3>5. y \in DOMAIN next[c] /\ next[c][y] = used[c][y] /\ (b # c \/ off # y)
        BY <1>3, <1>4, <3>2 DEF used
      <3>6. off \in DOMAIN next[b]
        BY <1>4
      <3>7. b + off + next[b][off] <= c + y \/ c + y + next[c][y] <= b + off
        BY <1>5, <3>2, <3>5, <3>6, PlacesApart
      <3> QED  BY <1>4, <3>2, <3>3, <3>4, <3>5, <3>7
    <2> QED  BY <2>1, <2>2, <2>3
  <1>7. m \notin DOMAIN bl
    <2>1. low + HDR <= m /\ m <= low + size
      BY <1>1
    <2> HIDE DEF low
    <2> QED  BY <1>1, <1>6, <2>1, NobodyThere
  <1>8. /\ IsHeader(hd) /\ hd.moff # ALIGNED_MOFF /\ hd.moff # LARGE_MOFF
        /\ m - HDR - hd.moff \in Nat
    BY <1>1, <1>2 DEF IsHeader, ALIGNED_MOFF, LARGE_MOFF
  <1>9. /\ Headers(made)
        /\ DOMAIN made = DOMAIN bl \cup {m}
        /\ made[m] = hd
        /\ \A p \in DOMAIN bl : made[p] = bl[p]
    <2>1. StandsAt(hd, m)
      BY <1>8 DEF StandsAt
    <2>2. made = With(bl, m, hd) /\ m \in Nat
      BY <1>1
    <2>3. Headers(made) /\ Adds(made, bl, m, hd)
      BY <1>7, <1>8, <2>1, <2>2, HeaderAdded
    <2> QED  BY <2>3 DEF Adds
  <1>10. MappedBy(made) = F
    BY <1>7, <1>8, <1>9 DEF MappedBy
  <1>11. UsedOf(made) = next
    <2>1. ASSUME NEW c \in Nat  PROVE UsedOf(made)[c] = next[c]
      <3> DEFINE at(f) == {y \in Nat : c + y + HDR \in DOMAIN f /\ f[c + y + HDR].moff = y}
      <3>1. /\ UsedOf(made)[c] = [x \in at(made) |-> AllocSize(made[c + x + HDR].size)]
            /\ used[c] = [x \in at(bl) |-> AllocSize(bl[c + x + HDR].size)]
        BY DEF UsedOf
      <3>2. at(made) = IF c = b THEN at(bl) \cup {off} ELSE at(bl)
        BY <1>1, <1>2, <1>7, <1>9
      <3>3. \A x \in at(bl) : made[c + x + HDR] = bl[c + x + HDR]
        BY <1>9
      <3>4. CASE c = b
        <4>1. next[c] = With(used[c], off, size)
          BY <1>3, <3>4
        <4>2. made[c + off + HDR] = hd /\ off \notin at(bl)
          BY <1>1, <1>7, <1>9, <3>4
        <4> HIDE DEF at, used
        <4>3. DOMAIN UsedOf(made)[c] = at(bl) \cup {off} /\ DOMAIN used[c] = at(bl)
          BY <3>1, <3>2, <3>4
        <4>4. \A x \in at(bl) : UsedOf(made)[c][x] = used[c][x]
          BY <3>1, <3>2, <3>3, <3>4
        <4>5. UsedOf(made)[c][off] = size
          BY <3>1, <3>2, <3>4, <4>2, <1>2 DEF size
        <4>6. UsedOf(made)[c] = [x \in at(bl) \cup {off} |-> UsedOf(made)[c][x]]
          BY <3>1, <4>3
        <4> HIDE DEF size
        <4> QED  BY <4>1, <4>2, <4>3, <4>4, <4>5, <4>6 DEF With
      <3>5. CASE c # b
        BY <1>3, <3>1, <3>2, <3>3, <3>5
      <3> QED  BY <3>4, <3>5
    <2>2. IsFcn(next) /\ DOMAIN next = Nat /\ IsFcn(UsedOf(made)) /\ DOMAIN UsedOf(made) = Nat
      BY DEF next, Plus, UsedOf, IsFcn
    <2> QED  BY <2>1, <2>2 DEF IsFcn
  <1> QED  BY <1>5, <1>7, <1>9, <1>10, <1>11 DEF Agree, Adds

\* Blocks come to the pools if headers with an offset do.
LEMMA SameUsed ==
    ASSUME NEW bl, DOMAIN bl \subseteq Nat, NEW new, DOMAIN new \subseteq Nat,
           \A p \in DOMAIN bl : bl[p].moff >= 0 => p \in DOMAIN new /\ new[p] = bl[p],
           \A p \in DOMAIN new : new[p].moff >= 0 => p \in DOMAIN bl /\ new[p] = bl[p]
    PROVE  UsedOf(new) = UsedOf(bl)
  <1>1. ASSUME NEW c \in Nat  PROVE UsedOf(new)[c] = UsedOf(bl)[c]
    <2> DEFINE at(f) == {y \in Nat : c + y + HDR \in DOMAIN f /\ f[c + y + HDR].moff = y}
    <2>1. /\ UsedOf(new)[c] = [x \in at(new) |-> AllocSize(new[c + x + HDR].size)]
          /\ UsedOf(bl)[c] = [x \in at(bl) |-> AllocSize(bl[c + x + HDR].size)]
      BY DEF UsedOf
    <2>2. at(new) = at(bl) /\ \A x \in at(bl) : new[c + x + HDR] = bl[c + x + HDR]
      OBVIOUS
    <2> HIDE DEF at
    <2> QED  BY <2>1, <2>2
  <1>2. /\ IsFcn(UsedOf(new)) /\ DOMAIN UsedOf(new) = Nat
        /\ IsFcn(UsedOf(bl)) /\ DOMAIN UsedOf(bl) = Nat
    BY DEF UsedOf, IsFcn
  <1> QED  BY <1>1, <1>2 DEF IsFcn

LEMMA MappingAdded ==
    ASSUME NEW bl, Headers(bl), NEW o, IsSpan(o), o \notin MappedBy(bl),
           NEW g, Sound(g, MappedBy(bl) \cup {o}, UsedOf(bl)),
           NEW n \in Nat, n + LARGE_HDR <= o[2],
           NEW m, m = o[1] + LARGE_HDR,
           NEW hd, hd.moff = LARGE_MOFF, hd.size = n, hd.word = o[2],
           NEW made, made = With(bl, m, hd)
    PROVE  /\ Agree(g, made)
           /\ m \notin DOMAIN bl
           /\ Adds(made, bl, m, hd)
  <1> DEFINE F == MappedBy(bl)
             used == UsedOf(bl)
             low == o[1]
             room == o[2]
  <1>1. /\ o = <<low, room>> /\ low \in Nat /\ room \in Nat
        /\ HDR \in Nat /\ LARGE_HDR \in Nat /\ LARGE_HDR = HDR + HDR
        /\ m \in Nat /\ m = low + LARGE_HDR
    BY ConstantsAre DEF IsSpan
  <1>2. hd.moff = LARGE_MOFF /\ hd.size = n /\ hd.word = room
    OBVIOUS
  <1>3. Sound(g, F \cup {o}, used) /\ o \notin F
    OBVIOUS
  <1>4. ASSUME NEW r \in DOMAIN bl, bl[r].moff # ALIGNED_MOFF
        PROVE  low + room <= Low(bl, r) \/ Low(bl, r) + Room(bl, r) <= low
    <2>1. bl[r].moff \in Nat \cup {LARGE_MOFF} /\ r \in Nat
      BY <1>4 DEF Headers, IsHeader
    <2>2. CASE bl[r].moff = LARGE_MOFF
      <3> DEFINE q == <<r - LARGE_HDR, bl[r].word>>
      <3>1. q \in F
        BY <2>2 DEF MappedBy
      <3>2. q[1] = Low(bl, r) /\ q[2] = Room(bl, r)
        BY <2>2 DEF Low, Room
      <3> HIDE DEF q, F, used
      <3>3. SpansApart(o, q)
        BY <1>3, <3>1, SpansOfBlocksApart
      <3> QED  BY <3>2, <3>3 DEF SpansApart
    <2>3. CASE bl[r].moff \in Nat
      <3> DEFINE y == bl[r].moff
                 c == r - HDR - y
      <3>1. y >= 0 /\ y # LARGE_MOFF
        BY <2>3 DEF LARGE_MOFF
      <3>2. c \in Nat /\ r = c + y + HDR /\ y \in DOMAIN used[c] /\ used[c][y] = AllocSize(bl[r].size)
        BY <3>1, PooledIs
      <3>3. Low(bl, r) = r - HDR /\ Room(bl, r) = AllocSize(bl[r].size)
        BY <3>1 DEF Low, Room
      <3> HIDE DEF c, y, used, F
      <3>4. Low(bl, r) = c + y
        BY <3>2, <3>3, <1>1, <2>1, <2>3 DEF y
      <3>5. c + y + used[c][y] <= o[1] \/ o[1] + o[2] <= c + y
        <4>1. o \in F \cup {o}
          OBVIOUS
        <4> QED  BY <1>3, <3>2, <4>1, PlaceAndSpanApart
      <3> QED  BY <3>2, <3>3, <3>4, <3>5
    <2> QED  BY <2>1, <2>2, <2>3
  <1> HIDE DEF low, room
  <1>5. m \notin DOMAIN bl
    <2>1. low + HDR <= m /\ m <= low + room
      BY <1>1 DEF room
    <2> QED  BY <1>1, <1>4, <2>1, NobodyThere
  <1>6. /\ IsHeader(hd) /\ hd.moff # ALIGNED_MOFF /\ ~(hd.moff >= 0)
        /\ LARGE_HDR <= m /\ hd.size + LARGE_HDR <= hd.word
    BY <1>1, <1>2 DEF IsHeader, ALIGNED_MOFF, LARGE_MOFF, room
  <1>7. /\ Headers(made)
        /\ DOMAIN made = DOMAIN bl \cup {m}
        /\ made[m] = hd
        /\ \A p \in DOMAIN bl : made[p] = bl[p]
    <2>1. StandsAt(hd, m)
      BY <1>6 DEF StandsAt
    <2>2. made = With(bl, m, hd) /\ m \in Nat
      BY <1>1
    <2>3. Headers(made) /\ Adds(made, bl, m, hd)
      BY <1>5, <1>6, <2>1, <2>2, HeaderAdded
    <2> QED  BY <2>3 DEF Adds
  <1>8. MappedBy(made) = F \cup {o}
    <2>1. o = <<m - LARGE_HDR, made[m].word>>
      BY <1>1, <1>2, <1>7
    <2> HIDE DEF F
    <2>2. MappedBy(made) = MappedBy(bl) \cup {<<m - LARGE_HDR, made[m].word>>}
      BY <1>2, <1>5, <1>7 DEF MappedBy
    <2> QED  BY <2>1, <2>2 DEF F
  <1>9. UsedOf(made) = used
    <2>1. DOMAIN bl \subseteq Nat /\ DOMAIN made \subseteq Nat
      BY <1>7 DEF Headers
    <2>2. \A p \in DOMAIN made : made[p].moff >= 0 => p \in DOMAIN bl /\ made[p] = bl[p]
      BY <1>6, <1>7
    <2> QED  BY <1>7, <2>1, <2>2, SameUsed
  <1> QED  BY <1>3, <1>5, <1>7, <1>8, <1>9 DEF Agree, Adds

LEMMA AlignedAdded ==
    ASSUME NEW g, NEW bl, Agree(g, bl), NEW m \in DOMAIN bl, bl[m].moff # ALIGNED_MOFF,
           \A p \in DOMAIN bl : bl[p].moff = ALIGNED_MOFF => bl[p].word # m,
           NEW up \in Nat, NEW asked \in Nat,
           m + LONG + HDR <= up, up + asked <= m + bl[m].size,
           NEW hd, hd.moff = ALIGNED_MOFF, hd.size = asked, hd.word = m,
           NEW made, made = With(bl, up, hd)
    PROVE  /\ Agree(g, made)
           /\ up \notin DOMAIN bl
           /\ Adds(made, bl, up, hd)
  <1>1. Headers(bl) /\ Sound(g, MappedBy(bl), UsedOf(bl))
    BY DEF Agree
  <1>2. /\ m \in Nat /\ bl[m].size \in Nat /\ HDR \in Nat \ {0} /\ LONG \in Nat \ {0}
        /\ Low(bl, m) \in Nat /\ Room(bl, m) \in Nat
        /\ Low(bl, m) + HDR <= m /\ m + bl[m].size <= Low(bl, m) + Room(bl, m)
    BY <1>1, LowIs, ConstantsAre
  <1>3. hd.moff = ALIGNED_MOFF /\ hd.size = asked /\ hd.word = m
    OBVIOUS
  <1>4. up \notin DOMAIN bl
    <2>1. SUFFICES ASSUME up \in DOMAIN bl  PROVE FALSE
      OBVIOUS
    <2> DEFINE r == Home(bl, up)
    <2>2. /\ r \in DOMAIN bl /\ bl[r].moff # ALIGNED_MOFF
          /\ Low(bl, r) \in Nat /\ Room(bl, r) \in Nat
          /\ Low(bl, r) + HDR <= up /\ up <= Low(bl, r) + Room(bl, r)
      BY <1>1, <2>1, HomeIs
    <2>3. up # m
      BY <1>2
    <2>4. r # m
      BY <2>1, <2>3 DEF Home
    <2> HIDE DEF r
    <2>5. Low(bl, m) + Room(bl, m) <= Low(bl, r) \/ Low(bl, r) + Room(bl, r) <= Low(bl, m)
      BY <2>2, <2>4, BlocksShareNothing
    <2> QED  BY <1>2, <2>2, <2>5
  <1>5. /\ IsFcn(made) /\ DOMAIN made = DOMAIN bl \cup {up} /\ made[up] = hd
        /\ \A p \in DOMAIN bl : made[p] = bl[p]
    BY <1>4 DEF With, IsFcn
  <1>6. Headers(made)
    <2>1. DOMAIN made \subseteq Nat /\ IsFiniteSet(DOMAIN made)
      BY <1>1, <1>5, FS_AddElement DEF Headers
    <2>2. ASSUME NEW p \in DOMAIN made  PROVE IsHeader(made[p]) /\ InOrder(made, p)
      <3>1. CASE p = up
        <4>1. IsHeader(hd) /\ ~(hd.moff >= 0) /\ hd.moff # LARGE_MOFF
          BY <1>2, <1>3 DEF IsHeader, ALIGNED_MOFF, LARGE_MOFF
        <4>2. /\ made[p] = hd /\ m \in DOMAIN made /\ made[m] = bl[m]
          BY <1>5, <3>1
        <4> QED  BY <1>3, <3>1, <4>1, <4>2 DEF InOrder
      <3>2. CASE p # up
        <4>1. p \in DOMAIN bl /\ made[p] = bl[p] /\ IsHeader(bl[p]) /\ InOrder(bl, p)
          BY <1>1, <1>5, <3>2 DEF Headers
        <4> QED  BY <1>5, <4>1 DEF InOrder
      <3> QED  BY <3>1, <3>2
    <2>3. OneEach(made)
      <3>1. ASSUME NEW p \in DOMAIN made, NEW q \in DOMAIN made,
                   made[p].moff = ALIGNED_MOFF, made[q].moff = ALIGNED_MOFF, p # q
            PROVE  made[p].word # made[q].word
        <4>1. CASE p = up
          BY <1>3, <1>5, <3>1, <4>1
        <4>2. CASE q = up
          BY <1>3, <1>5, <3>1, <4>2
        <4>3. CASE p # up /\ q # up
          BY <1>1, <1>5, <3>1, <4>3 DEF Headers, OneEach
        <4> QED  BY <4>1, <4>2, <4>3
      <3> QED  BY <3>1 DEF OneEach
    <2> QED  BY <1>5, <2>1, <2>2, <2>3 DEF Headers
  <1>7. ~(hd.moff >= 0) /\ hd.moff # LARGE_MOFF
    BY <1>3 DEF ALIGNED_MOFF, LARGE_MOFF
  <1>8. MappedBy(made) = MappedBy(bl)
    BY <1>4, <1>5, <1>7 DEF MappedBy
  <1>9. UsedOf(made) = UsedOf(bl)
    <2>1. DOMAIN bl \subseteq Nat /\ DOMAIN made \subseteq Nat
      BY <1>1, <1>6 DEF Headers
    <2>2. \A p \in DOMAIN made : made[p].moff >= 0 => p \in DOMAIN bl /\ made[p] = bl[p]
      BY <1>5, <1>7
    <2> QED  BY <1>5, <2>1, <2>2, SameUsed
  <1> QED  BY <1>1, <1>4, <1>5, <1>6, <1>8, <1>9 DEF Agree, Adds

(***************************************************************************)
(* A block goes, and the one it was cut from with it.                      *)
(***************************************************************************)
\* new is bl without the blocks of S.
Drops(new, bl, S) ==
    /\ DOMAIN new = DOMAIN bl \ S
    /\ \A q \in DOMAIN new : new[q] = bl[q]

\* Nothing that stays is cut from what goes.
Severable(bl, S) ==
    \A q \in DOMAIN bl \ S : bl[q].moff = ALIGNED_MOFF => bl[q].word \notin S

LEMMA HeadersLess ==
    ASSUME NEW bl, Headers(bl), NEW S, Severable(bl, S),
           NEW new, new = Without(bl, S)
    PROVE  Headers(new) /\ Drops(new, bl, S)
  <1>1. /\ IsFcn(new) /\ DOMAIN new = DOMAIN bl \ S
        /\ \A q \in DOMAIN new : new[q] = bl[q]
    BY DEF Without, IsFcn
  <1>2. DOMAIN new \subseteq Nat /\ IsFiniteSet(DOMAIN new)
    BY <1>1, FS_Subset DEF Headers
  <1>3. ASSUME NEW q \in DOMAIN new  PROVE IsHeader(new[q]) /\ InOrder(new, q)
    <2>1. /\ q \in DOMAIN bl \ S /\ new[q] = bl[q] /\ IsHeader(bl[q]) /\ InOrder(bl, q)
      BY <1>1 DEF Headers
    <2>2. bl[q].moff = ALIGNED_MOFF =>
              /\ bl[q].word \in DOMAIN bl /\ bl[q].word \notin S
              /\ new[bl[q].word] = bl[bl[q].word]
      BY <1>1, <2>1 DEF InOrder, Severable
    <2> QED  BY <1>1, <2>1, <2>2 DEF InOrder
  <1>4. OneEach(new)
    BY <1>1 DEF Headers, OneEach
  <1> QED  BY <1>1, <1>2, <1>3, <1>4 DEF Headers, Drops

FreedBy(g, h, bl, r, k) ==
    IF bl[r].moff = LARGE_MOFF
      THEN g = CacheUnmap(h, r - LARGE_HDR, bl[r].word)
      ELSE g = FreedPooled(h, r - HDR - bl[r].moff, bl[r], k)

\* The live blocks of the pool at c are those that say they lie there.
LiesAt(bl, c, x) == x \in Nat /\ c + x + HDR \in DOMAIN bl /\ bl[c + x + HDR].moff = x

UsedIs(u, bl, c) ==
    /\ u = [x \in DOMAIN u |-> u[x]]
    /\ \A x : x \in DOMAIN u <=> LiesAt(bl, c, x)
    /\ \A x \in DOMAIN u : u[x] = AllocSize(bl[c + x + HDR].size)

LEMMA UsedAt ==
    ASSUME NEW bl, NEW c \in Nat, NEW u, u = UsedOf(bl)[c]
    PROVE  UsedIs(u, bl, c)
  <1> DEFINE at == {y \in Nat : c + y + HDR \in DOMAIN bl /\ bl[c + y + HDR].moff = y}
  <1>1. u = [x \in at |-> AllocSize(bl[c + x + HDR].size)]
    BY DEF UsedOf
  <1>2. \A x : x \in at <=> LiesAt(bl, c, x)
    BY DEF LiesAt
  <1> HIDE DEF at
  <1>3. DOMAIN u = at /\ u = [x \in DOMAIN u |-> u[x]]
    BY <1>1
  <1>4. \A x \in at : u[x] = AllocSize(bl[c + x + HDR].size)
    BY <1>1
  <1> QED  BY <1>2, <1>3, <1>4 DEF UsedIs

LEMMA BlockFreed ==
    ASSUME NEW h, NEW bl, Agree(h, bl), NEW p \in DOMAIN bl, NEW r, r = Home(bl, p),
           NEW S, S = {p, r}, Severable(bl, S),
           NEW k, NEW g, FreedBy(g, h, bl, r, k),
           NEW new, new = Without(bl, S)
    PROVE  Agree(g, new)
  <1> DEFINE F == MappedBy(bl)
             used == UsedOf(bl)
             hd == bl[r]
  <1>1. Headers(bl) /\ Sound(h, F, used)
    BY DEF Agree
  <1>2. /\ r \in DOMAIN bl /\ hd.moff # ALIGNED_MOFF
        /\ r = p \/ bl[p].moff = ALIGNED_MOFF
    BY <1>1, HomeIs DEF Home
  <1>3. /\ Headers(new) /\ DOMAIN new = DOMAIN bl \ {p, r}
        /\ \A q \in DOMAIN new : new[q] = bl[q]
    <2>1. Headers(new) /\ Drops(new, bl, S)
      BY <1>1, HeadersLess
    <2> QED  BY <2>1 DEF Drops
  <1>4. /\ r \in Nat /\ hd.size \in Nat /\ hd.word \in Nat /\ hd.moff \in Nat \cup {LARGE_MOFF}
        /\ LARGE_HDR \in Nat /\ DOMAIN bl \subseteq Nat /\ DOMAIN new \subseteq Nat
    BY <1>1, <1>2, <1>3, ConstantsAre DEF Headers, IsHeader
  <1>5. bl[p].moff = ALIGNED_MOFF => bl[p].moff # LARGE_MOFF /\ ~(bl[p].moff >= 0)
    BY DEF ALIGNED_MOFF, LARGE_MOFF
  <1>6. CASE hd.moff = LARGE_MOFF
    <2> DEFINE base == r - LARGE_HDR
               total == hd.word
               o == <<base, total>>
    <2>1. base \in Nat /\ total \in Nat /\ g = CacheUnmap(h, base, total)
      BY <1>1, <1>2, <1>4, <1>6 DEF Headers, InOrder, FreedBy
    <2>2. o \in F
      BY <1>2, <1>6 DEF MappedBy
    <2>3. Sound(g, F \ {o}, used)
      <3> HIDE DEF base, total, F, used
      <3> QED  BY <1>1, <2>1, <2>2, UnmappingIs
    <2>4. MappedBy(new) = F \ {o}
      <3>1. ASSUME NEW e \in MappedBy(new)  PROVE e \in F /\ e # o
        <4>1. PICK q \in DOMAIN new : new[q].moff = LARGE_MOFF /\ e = <<q - LARGE_HDR, new[q].word>>
          BY DEF MappedBy
        <4>2. q \in DOMAIN bl /\ q # r /\ new[q] = bl[q] /\ q \in Nat
          BY <1>3, <1>4
        <4>3. e \in F
          BY <4>1, <4>2 DEF MappedBy
        <4>4. q - LARGE_HDR # base
          BY <1>4, <4>2
        <4> QED  BY <4>1, <4>3, <4>4
      <3>2. ASSUME NEW q \in DOMAIN bl, bl[q].moff = LARGE_MOFF, <<q - LARGE_HDR, bl[q].word>> # o
            PROVE  q \in DOMAIN new /\ new[q] = bl[q]
        BY <1>2, <1>3, <1>5, <3>2
      <3>4. ASSUME NEW e \in F \ {o}  PROVE e \in MappedBy(new)
        <4>1. PICK q \in DOMAIN bl : bl[q].moff = LARGE_MOFF /\ e = <<q - LARGE_HDR, bl[q].word>>
          BY DEF MappedBy
        <4>2. q \in DOMAIN new /\ new[q] = bl[q]
          BY <3>2, <4>1
        <4> QED  BY <4>1, <4>2 DEF MappedBy
      <3> QED  BY <3>1, <3>4
    <2>5. UsedOf(new) = used
      <3>1. \A q \in DOMAIN bl : bl[q].moff >= 0 => q \in DOMAIN new /\ new[q] = bl[q]
        BY <1>2, <1>3, <1>5, <1>6 DEF LARGE_MOFF
      <3>2. \A q \in DOMAIN new : new[q].moff >= 0 => q \in DOMAIN bl /\ new[q] = bl[q]
        BY <1>3
      <3> QED  BY <1>4, <3>1, <3>2, SameUsed
    <2> QED  BY <1>3, <2>3, <2>4, <2>5 DEF Agree
  <1>7. CASE hd.moff \in Nat
    <2> DEFINE off == hd.moff
               b == r - HDR - off
               next == UsedOf(new)
    <2>1. off >= 0 /\ off # LARGE_MOFF
      BY <1>7 DEF LARGE_MOFF
    <2>2. /\ b \in Nat /\ off \in Nat /\ r = b + off + HDR
          /\ off \in DOMAIN used[b] /\ used[b][off] = AllocSize(hd.size)
      BY <1>1, <1>2, <2>1, PooledIs
    <2>3. g = FreedPooled(h, b, hd, k)
      BY <2>1 DEF FreedBy
    <2>4. MappedBy(new) = F
      <3>1. \A q \in DOMAIN bl : bl[q].moff = LARGE_MOFF => q \in DOMAIN new
        BY <1>2, <1>3, <1>5, <2>1
      <3> HIDE DEF off, b, next, hd
      <3>2. ASSUME NEW e \in MappedBy(new)  PROVE e \in F
        <4>1. PICK q \in DOMAIN new : new[q].moff = LARGE_MOFF /\ e = <<q - LARGE_HDR, new[q].word>>
          BY DEF MappedBy
        <4>2. q \in DOMAIN bl /\ new[q] = bl[q]
          BY <1>3
        <4> QED  BY <4>1, <4>2 DEF MappedBy
      <3>3. ASSUME NEW e \in F  PROVE e \in MappedBy(new)
        <4>1. PICK q \in DOMAIN bl : bl[q].moff = LARGE_MOFF /\ e = <<q - LARGE_HDR, bl[q].word>>
          BY DEF MappedBy
        <4>2. q \in DOMAIN new /\ new[q] = bl[q]
          BY <1>3, <3>1, <4>1
        <4> QED  BY <4>1, <4>2 DEF MappedBy
      <3> QED  BY <3>2, <3>3
    <2>5. HDR \in Nat
      BY ConstantsAre
    <2>6. ASSUME NEW c \in Nat
          PROVE  /\ c = b => LacksOne(next[c], used[c], off)
                 /\ c # b => next[c] = used[c]
      <3> DEFINE u == used[c]
                 v == next[c]
      <3>1. u = UsedOf(bl)[c] /\ v = UsedOf(new)[c]
        OBVIOUS
      <3> HIDE DEF b, used, next, u, v, off
      <3>2. /\ u = [x \in DOMAIN u |-> u[x]]
            /\ \A x : x \in DOMAIN u <=> LiesAt(bl, c, x)
            /\ \A x \in DOMAIN u : u[x] = AllocSize(bl[c + x + HDR].size)
        <4>1. UsedIs(u, bl, c)
          BY <3>1, UsedAt
        <4> QED  BY <4>1 DEF UsedIs
      <3>3. /\ v = [x \in DOMAIN v |-> v[x]]
            /\ \A x : x \in DOMAIN v <=> LiesAt(new, c, x)
            /\ \A x \in DOMAIN v : v[x] = AllocSize(new[c + x + HDR].size)
        <4>1. UsedIs(v, new, c)
          BY <3>1, UsedAt
        <4> QED  BY <4>1 DEF UsedIs
      <3>4. ASSUME NEW x
            PROVE  LiesAt(new, c, x) <=> LiesAt(bl, c, x) /\ ~(c = b /\ x = off)
        <4> DEFINE y == c + x + HDR
        <4>1. /\ LiesAt(bl, c, x) <=> x \in Nat /\ y \in DOMAIN bl /\ bl[y].moff = x
              /\ LiesAt(new, c, x) <=> x \in Nat /\ y \in DOMAIN new /\ new[y].moff = x
          BY DEF LiesAt
        <4>2. x \in Nat => (y = r /\ x = off <=> c = b /\ x = off)
          BY <2>2, <2>5
        <4>3. bl[y].moff = x /\ x \in Nat => r = p \/ y # p
          BY <1>2, <1>5
        <4>4. bl[r].moff = off
          BY DEF off
        <4> HIDE DEF y, hd
        <4> QED  BY <1>3, <4>1, <4>2, <4>3, <4>4
      <3>5. ASSUME NEW x \in DOMAIN v  PROVE v[x] = u[x]
        <4>1. LiesAt(new, c, x) /\ LiesAt(bl, c, x)
          BY <3>3, <3>4
        <4>2. new[c + x + HDR] = bl[c + x + HDR]
          BY <1>3, <4>1 DEF LiesAt
        <4>3. x \in DOMAIN u
          BY <3>2, <4>1
        <4>4. v[x] = AllocSize(new[c + x + HDR].size) /\ u[x] = AllocSize(bl[c + x + HDR].size)
          BY <3>2, <3>3, <4>3
        <4> QED  BY <4>2, <4>4
      <3>6. \A x : x \in DOMAIN v <=> x \in DOMAIN u /\ ~(c = b /\ x = off)
        BY <3>2, <3>3, <3>4
      <3>7. c = b => LacksOne(v, u, off)
        BY <3>5, <3>6 DEF LacksOne
      <3>8. c # b => v = u
        <4>1. SUFFICES ASSUME c # b  PROVE v = u
          OBVIOUS
        <4>2. DOMAIN v = DOMAIN u
          BY <3>6, <4>1
        <4> QED  BY <3>2, <3>3, <3>5, <4>2, Zenon
      <3> QED  BY <3>7, <3>8 DEF u, v
    <2>7. Sound(g, F, next)
      <3> HIDE DEF b, used, next, F, hd
      <3>1. LacksOne(next[b], used[b], hd.moff) /\ \A c \in Nat \ {b} : next[c] = used[c]
        BY <2>2, <2>6 DEF off
      <3>2. hd.moff \in DOMAIN used[b] /\ used[b][hd.moff] = AllocSize(hd.size)
        BY <2>2 DEF off
      <3>3. b \in DOMAIN h.pools
        BY <1>1, <2>2, PlaceIs
      <3> QED  BY <1>1, <2>3, <3>1, <3>2, <3>3, FreedPooledIs
    <2> QED  BY <1>3, <2>4, <2>7 DEF Agree
  <1> QED  BY <1>4, <1>6, <1>7

-------------------------------------------------------------------------------
(***************************************************************************)
(* The end of a call that has got a block from malloc().                   *)
(***************************************************************************)
LEMMA AlignmentsAre ==
    /\ \A n \in Sizes : n \in Nat
    /\ \A a \in Alignments : a \in Nat /\ a >= ALIGN
  BY PoolMallocAssumption

\* What is asked for stays far from half of all the bytes there are.
IsSize(n) == n \in Nat /\ n + LARGE_HDR + PGSIZE <= WORD \div 2

LEMMA LongIs ==
    ASSUME NEW n \in Nat, n + LARGE_HDR + PGSIZE <= WORD \div 2
    PROVE  Long(n) = n
  <1>1. WORD \div 2 \in Int /\ LARGE_HDR \in Nat \ {0} /\ PGSIZE \in Nat \ {0}
    BY ConstantsAre, PoolMallocAssumption
  <1>2. n < WORD \div 2
    BY <1>1
  <1> QED  BY <1>2 DEF Long

LEMMA SizesAre ==
    ASSUME NEW n \in Sizes
    PROVE  /\ IsSize(n) /\ Long(n) = n
           /\ \A a \in Alignments : IsSize(n + (a + HDR + LONG))
  <1>1. /\ n \in Nat /\ HDR \in Nat /\ LONG \in Nat /\ LARGE_HDR \in Nat /\ PGSIZE \in Nat
        /\ WORD \div 2 \in Int
    BY ConstantsAre, PoolMallocAssumption
  <1>2. \A a \in Alignments \cup {0} : n + (a + HDR + LONG) + LARGE_HDR + PGSIZE <= WORD \div 2
    BY SizesAssumption DEF Extra
  <1>3. n + (0 + HDR + LONG) + LARGE_HDR + PGSIZE <= WORD \div 2
    BY <1>2
  <1>4. IsSize(n)
    BY <1>1, <1>3 DEF IsSize
  <1>5. \A a \in Alignments : IsSize(n + (a + HDR + LONG))
    BY <1>1, <1>2, AlignmentsAre DEF IsSize
  <1> QED  BY <1>1, <1>4, <1>5, LongIs DEF IsSize

LEMMA RequestIs ==
    ASSUME NEW k, NEW r \in Requests(k)
    PROVE  /\ r.n \in Nat /\ r.asked \in Nat /\ IsSize(r.n) /\ Long(r.asked) = r.asked
           /\ r.align = ALIGN => r.n = r.asked
           /\ r.align # ALIGN => /\ r.align \in Nat \ {0}
                                 /\ r.n = r.asked + (r.align + HDR + LONG)
           /\ \/ r.old = NULL
              \/ r.old \in Held /\ r.align = ALIGN /\ MustMove(r.old, r.n, k)
  <1>1. /\ \A n \in Sizes : n \in Nat
        /\ \A a \in Alignments : a \in Nat \ {0}
        /\ HDR \in Nat /\ LONG \in Nat
    BY AlignmentsAre, ConstantsAre
  <1>2. CASE r \in Asks
    <2>1. \/ \E n \in Sizes : r = Request(n, ALIGN, NULL)
          \/ \E n \in Sizes, a \in Alignments : a # ALIGN /\ r = Request(n, a, NULL)
      BY <1>2 DEF Asks
    <2>2. ASSUME NEW n \in Sizes, r = Request(n, ALIGN, NULL)
          PROVE  r.n = n /\ r.asked = n /\ r.align = ALIGN /\ r.old = NULL
      BY <2>2 DEF Request
    <2>3. ASSUME NEW n \in Sizes, NEW a \in Alignments, a # ALIGN, r = Request(n, a, NULL)
          PROVE  r.n = n + (a + HDR + LONG) /\ r.asked = n /\ r.align = a /\ r.old = NULL
      BY <2>3 DEF Request, Extra
    <2>4. ASSUME NEW n \in Sizes, r = Request(n, ALIGN, NULL)
          PROVE  IsSize(r.n) /\ Long(r.asked) = r.asked
      BY <2>2, <2>4, SizesAre
    <2>5. ASSUME NEW n \in Sizes, NEW a \in Alignments, a # ALIGN, r = Request(n, a, NULL)
          PROVE  IsSize(r.n) /\ Long(r.asked) = r.asked
      BY <2>3, <2>5, SizesAre
    <2> QED  BY <1>1, <2>1, <2>2, <2>3, <2>4, <2>5
  <1>3. CASE r \notin Asks
    <2>1. PICK pn \in Held \X (Sizes \ {0}) :
              MustMove(pn[1], pn[2], k) /\ r = Request(pn[2], ALIGN, pn[1])
      BY <1>3 DEF Requests
    <2>2. r.n = pn[2] /\ r.asked = pn[2] /\ r.align = ALIGN /\ r.old = pn[1]
      BY <2>1 DEF Request
    <2>3. IsSize(r.n) /\ Long(r.asked) = r.asked
      BY <2>1, <2>2, SizesAre
    <2> QED  BY <1>1, <2>1, <2>2, <2>3
  <1> QED  BY <1>2, <1>3

\* What malloc() returned, and the heap it left.
Made(h, m, hd) ==
    /\ Agree(h, With(blocks, m, hd))
    /\ m \notin DOMAIN blocks
    /\ hd.moff # ALIGNED_MOFF

LEMMA MadeIs ==
    ASSUME Headers(blocks), NEW h, NEW m, NEW hd, Made(h, m, hd),
           NEW made, made = With(blocks, m, hd)
    PROVE  /\ Headers(made) /\ Adds(made, blocks, m, hd) /\ m \in Nat
           /\ \A p \in DOMAIN made : made[p].moff = ALIGNED_MOFF => made[p].word # m
  <1>1. Headers(made)
    BY DEF Made, Agree
  <1>2. /\ DOMAIN made = DOMAIN blocks \cup {m} /\ made[m] = hd
        /\ \A p \in DOMAIN blocks : made[p] = blocks[p]
    BY DEF Made, With
  <1>3. ASSUME NEW p \in DOMAIN made, made[p].moff = ALIGNED_MOFF  PROVE made[p].word # m
    <2>1. p \in DOMAIN blocks /\ made[p] = blocks[p]
      BY <1>2, <1>3 DEF Made
    <2>2. blocks[p].word \in DOMAIN blocks
      BY <1>3, <2>1 DEF Headers, InOrder
    <2> QED  BY <2>1, <2>2 DEF Made
  <1> QED  BY <1>1, <1>2, <1>3 DEF Headers, Adds

LEMMA HandedIs ==
    ASSUME Headers(blocks), NEW h, NEW m, NEW hd, Made(h, m, hd),
           NEW k, NEW r \in Requests(k), hd.size = r.n,
           NEW headers, headers = Handed(r, m, hd), NEW up, up = UserPointer(m, r.align)
    PROVE  /\ Agree(h, headers)
           /\ r.align = ALIGN => headers = With(blocks, m, hd)
           /\ r.align # ALIGN =>
                 /\ up \notin DOMAIN With(blocks, m, hd)
                 /\ Adds(headers, With(blocks, m, hd), up, headers[up])
                 /\ headers[up].moff = ALIGNED_MOFF /\ headers[up].word = m
                 /\ headers[up].size = r.asked
  <1> DEFINE made == With(blocks, m, hd)
  <1>1. /\ Headers(made) /\ m \in Nat /\ m \in DOMAIN made /\ made[m] = hd
        /\ \A p \in DOMAIN made : made[p].moff = ALIGNED_MOFF => made[p].word # m
    <2>1. made = With(blocks, m, hd)
      OBVIOUS
    <2> HIDE DEF made
    <2>2. /\ Headers(made) /\ Adds(made, blocks, m, hd) /\ m \in Nat
          /\ \A p \in DOMAIN made : made[p].moff = ALIGNED_MOFF => made[p].word # m
      BY <2>1, MadeIs
    <2> QED  BY <2>2 DEF Adds
  <1>2. Agree(h, made) /\ hd.moff # ALIGNED_MOFF
    BY DEF Made
  <1>3. CASE r.align = ALIGN
    <2>1. headers = made
      BY <1>3 DEF Handed
    <2> QED  BY <1>2, <1>3, <2>1
  <1>4. CASE r.align # ALIGN
    <2> DEFINE a == r.align
               x == m + LONG + HDR
               al == [moff |-> ALIGNED_MOFF, size |-> r.asked, word |-> m]
    <2>1. headers = With(made, up, al)
      <3>1. Long(r.asked) = r.asked
        BY RequestIs
      <3> QED  BY <1>4, <3>1 DEF Handed
    <2>2. al.moff = ALIGNED_MOFF /\ al.size = r.asked /\ al.word = m
      OBVIOUS
    <2>3. /\ a \in Nat \ {0} /\ r.asked \in Nat /\ hd.size = r.asked + (a + HDR + LONG)
          /\ x \in Nat
      BY <1>1, <1>4, RequestIs, ConstantsAre
    <2> HIDE DEF al, made
    <2>4. up \in Nat /\ x <= up /\ up < x + a
      <3>1. up = RoundUp(x, a)
        BY DEF UserPointer
      <3> HIDE DEF x, a
      <3> QED  BY <2>3, <3>1, RoundUpIs
    <2>5. up + r.asked <= m + made[m].size /\ m + LONG + HDR <= up
      BY <1>1, <2>3, <2>4, ConstantsAre
    <2>6. m \in DOMAIN made /\ made[m].moff # ALIGNED_MOFF
      BY <1>1, <1>2
    <2>7. /\ Agree(h, headers)
          /\ up \notin DOMAIN made
          /\ Adds(headers, made, up, al)
      <3>1. \A p \in DOMAIN made : made[p].moff = ALIGNED_MOFF => made[p].word # m
        BY <1>1
      <3> HIDE DEF a, x
      <3> QED  BY <1>2, <2>1, <2>2, <2>3, <2>4, <2>5, <2>6, <3>1, AlignedAdded
    <2>8. headers[up] = al
      BY <2>7 DEF Adds
    <2> QED  BY <1>4, <2>2, <2>7, <2>8 DEF made
  <1> QED  BY <1>3, <1>4

\* What the program holds, nothing is cut from.
LEMMA HeldIs ==
    ASSUME NEW p \in Held
    PROVE  p \in DOMAIN blocks
           /\ \A q \in DOMAIN blocks : blocks[q].moff = ALIGNED_MOFF => blocks[q].word # p
  BY DEF Held, Raws, IsAligned

LEMMA FreedIs ==
    ASSUME Headers(blocks), NEW h, NEW bl, Agree(h, bl), NEW p \in Held,
           DOMAIN blocks \subseteq DOMAIN bl, \A q \in DOMAIN blocks : bl[q] = blocks[q],
           \A q \in DOMAIN bl \ DOMAIN blocks : bl[q].moff # ALIGNED_MOFF,
           NEW k, NEW new, new = Without(bl, {p, RawOf(p)})
    PROVE  Agree(Freed(h, p, k), new)
  <1> DEFINE r == RawOf(p)
             S == {p, r}
             g == Freed(h, p, k)
  <1>1. /\ p \in DOMAIN blocks /\ p \in DOMAIN bl /\ bl[p] = blocks[p]
        /\ \A q \in DOMAIN blocks : blocks[q].moff = ALIGNED_MOFF => blocks[q].word # p
    BY HeldIs
  <1>2. r = Home(bl, p) /\ r = Home(blocks, p)
    BY <1>1 DEF RawOf, IsAligned, Home
  <1>3. r \in DOMAIN blocks /\ blocks[r].moff # ALIGNED_MOFF /\ bl[r] = blocks[r]
    BY <1>1, <1>2, HomeIs
  <1>4. Severable(bl, S)
    <2>1. ASSUME NEW q \in DOMAIN bl, q # p, bl[q].moff = ALIGNED_MOFF
          PROVE  bl[q].word # p /\ bl[q].word # r
      <3>1. q \in DOMAIN blocks /\ bl[q] = blocks[q]
        BY <2>1
      <3>2. bl[q].word # p
        BY <1>1, <2>1, <3>1
      <3>3. CASE blocks[p].moff = ALIGNED_MOFF
        <4>1. r = blocks[p].word
          BY <1>2, <3>3 DEF Home
        <4> QED  BY <1>1, <2>1, <3>1, <3>2, <3>3, <4>1 DEF Headers, OneEach
      <3>4. CASE blocks[p].moff # ALIGNED_MOFF
        BY <1>2, <3>2, <3>4 DEF Home
      <3> QED  BY <3>2, <3>3, <3>4
    <2> HIDE DEF r
    <2> QED  BY <2>1 DEF Severable
  <1>5. FreedBy(g, h, bl, r, k)
    BY <1>3 DEF Freed, FreedBy
  <1>6. new = Without(bl, S) /\ S = {p, r}
    OBVIOUS
  <1> HIDE DEF r, g, S
  <1>7. Agree(g, new)
    BY <1>1, <1>2, <1>4, <1>5, <1>6, BlockFreed
  <1> QED  BY <1>7 DEF g

LEMMA InvPrimed == Inv' <=> Agree(heap', blocks')
  BY DEF Inv, Agree, Headers, Sound, Good, OneEach, InOrder, IsHeader, UsedOf, MappedBy,
         IsHeap, PoolsOwn, Lists, PoolsSound, RetiredSound, PoolSound

\* The call for r ends with a block that malloc() returned, and the heap it left.
Served(r, k) ==
    \E h, m, hd : Made(h, m, hd) /\ hd.size = r.n /\ Returns(r, h, m, hd, k)

LEMMA ReturnsKeep ==
    ASSUME Headers(blocks), NEW h, NEW m, NEW hd, Made(h, m, hd),
           NEW k, NEW r \in Requests(k), hd.size = r.n,
           Returns(r, h, m, hd, k)
    PROVE  Inv'
  <1> DEFINE headers == Handed(r, m, hd)
  <1>1. Agree(h, headers) /\ (r.align = ALIGN => headers = With(blocks, m, hd))
    <2>1. headers = Handed(r, m, hd)
      OBVIOUS
    <2> HIDE DEF headers
    <2> QED  BY <2>1, HandedIs
  <1>2. Inv' <=> Agree(heap', blocks')
    BY InvPrimed
  <1>3. CASE r.old = NULL
    <2>1. heap' = h /\ blocks' = headers
      BY <1>3 DEF Returns
    <2> QED  BY <1>1, <1>2, <2>1
  <1>4. CASE r.old # NULL
    <2>1. heap' = Freed(h, r.old, k) /\ blocks' = Without(headers, {r.old, RawOf(r.old)})
      BY <1>4 DEF Returns
    <2>2. r.old \in Held /\ headers = With(blocks, m, hd)
      BY <1>1, <1>4, RequestIs
    <2>3. /\ DOMAIN headers = DOMAIN blocks \cup {m} /\ headers[m] = hd
          /\ \A p \in DOMAIN blocks : headers[p] = blocks[p]
      <3>1. headers = With(blocks, m, hd)
        BY <2>2
      <3> HIDE DEF headers
      <3>2. Adds(headers, blocks, m, hd)
        BY <3>1, MadeIs
      <3> QED  BY <3>2 DEF Adds
    <2>4. \A q \in DOMAIN headers \ DOMAIN blocks : headers[q].moff # ALIGNED_MOFF
      BY <2>3 DEF Made
    <2> HIDE DEF headers
    <2>5. Agree(Freed(h, r.old, k), Without(headers, {r.old, RawOf(r.old)}))
      BY <1>1, <2>2, <2>3, <2>4, FreedIs
    <2> QED  BY <1>2, <2>1, <2>5
  <1> QED  BY <1>3, <1>4

\* A call that got its block from a pool.
LEMMA PooledServes ==
    ASSUME Headers(blocks), NEW k, NEW r \in Requests(k),
           NEW b \in Nat, NEW off \in Nat, off \notin DOMAIN UsedOf(blocks)[b],
           NEW g, Sound(g, MappedBy(blocks), Plus(UsedOf(blocks), b, off, AllocSize(r.n))),
           ReturnsPooled(r, g, b, off, k)
    PROVE  Served(r, k)
  <1> DEFINE m == b + off + HDR
             hd == [moff |-> off, size |-> r.n, word |-> 0]
             made == With(blocks, m, hd)
  <1>1. r.n \in Nat
    BY RequestIs
  <1>2. Returns(r, g, m, hd, k)
    BY DEF ReturnsPooled
  <1>3. hd.moff = off /\ hd.size = r.n /\ hd.word = 0
    OBVIOUS
  <1>4. m = b + off + HDR /\ made = With(blocks, m, hd)
    OBVIOUS
  <1> HIDE DEF m, hd, made
  <1>5. Agree(g, made) /\ m \notin DOMAIN blocks
    BY <1>1, <1>3, <1>4, PooledAdded
  <1>6. Made(g, m, hd)
    BY <1>3, <1>4, <1>5 DEF Made, ALIGNED_MOFF
  <1> QED  BY <1>2, <1>3, <1>6 DEF Served

-------------------------------------------------------------------------------
(***************************************************************************)
(* The ways through malloc().                                              *)
(***************************************************************************)

\* The heap is sound for what the program holds.
Ready(h) == Sound(h, MappedBy(blocks), UsedOf(blocks))

LEMMA InvIs == Inv <=> Headers(blocks) /\ Ready(heap)
  BY DEF Inv, Agree, Ready

LEMMA WantIs ==
    ASSUME NEW n \in Nat
    PROVE  Want(n) \in Nat \ {0} /\ MSET <= Want(n) /\ AllocSize(n) \in Nat \ {0}
  BY AllocSizeIs, ConstantsAre DEF Want

LEMMA StartedIs ==
    ASSUME Inv, NEW k, NEW r \in Requests(k), NEW h, h = Started(r, k)
    PROVE  Ready(h)
  <1>1. r.n \in Nat /\ Want(r.n) \in Nat \ {0} /\ MSET <= Want(r.n)
    BY RequestIs, WantIs
  <1>2. CASE heap.pool = NULL
    <2>1. Good(heap, NULL, heap.pool1, {}, MappedBy(blocks), UsedOf(blocks))
      BY <1>2, InvIs DEF Ready, Sound
    <2>2. h = FirstPool(heap, Want(r.n), k)
      BY <1>2 DEF Started
    <2> QED  BY <1>1, <1>2, <2>1, <2>2, FirstPoolIs DEF Ready
  <1>3. CASE heap.pool # NULL
    BY <1>3, InvIs DEF Started
  <1> QED  BY <1>2, <1>3

LEMMA MeasuredReady ==
    ASSUME NEW h, Ready(h), NEW alloc, NEW g, g = Measured(h, alloc)
    PROVE  Ready(g) /\ SameLists(g, h)
           /\ \A b \in DOMAIN h.pools : /\ g.pools[b].free = h.pools[b].free
                                        /\ g.pools[b].big = h.pools[b].big
  <1> DEFINE F == MappedBy(blocks)
             used == UsedOf(blocks)
  <1>1. Good(h, h.pool, h.pool1, {}, F, used)
    BY DEF Ready, Sound
  <1> HIDE DEF F, used
  <1>2. /\ Good(g, h.pool, h.pool1, {}, F, used) /\ SameLists(g, h)
        /\ \A b \in DOMAIN h.pools : /\ g.pools[b].free = h.pools[b].free
                                     /\ g.pools[b].big = h.pools[b].big
    BY <1>1, MeasuredIs
  <1> QED  BY <1>2 DEF Ready, Sound, SameLists, F, used

LEMMA WalkedIs ==
    ASSUME Inv, NEW k, NEW r \in Requests(k), NEW h, h = Walked(r, k)
    PROVE  Ready(h)
  <1> DEFINE s == Started(r, k)
  <1>1. s = Started(r, k)
    OBVIOUS
  <1>2. h = Walk(s, AllocSize(r.n))
    BY DEF Walked
  <1> HIDE DEF s
  <1>3. Ready(s)
    BY <1>1, StartedIs
  <1> QED  BY <1>2, <1>3, MeasuredReady DEF Walk

LEMMA LargeTotalIs ==
    ASSUME NEW n, IsSize(n)
    PROVE  /\ LargeTotal(n) \in Nat \ {0} /\ LargeTotal(n) % PGSIZE = 0
           /\ n + LARGE_HDR <= LargeTotal(n)
  <1> DEFINE total == RoundUp(n + LARGE_HDR, PGSIZE)
  <1>1. /\ n \in Nat /\ n + LARGE_HDR \in Nat /\ PGSIZE \in Nat \ {0} /\ LARGE_HDR \in Nat \ {0}
        /\ n + LARGE_HDR + PGSIZE <= WORD \div 2
    BY ConstantsAre DEF IsSize
  <1>2. /\ total \in Nat /\ n + LARGE_HDR <= total /\ total < n + LARGE_HDR + PGSIZE
        /\ total % PGSIZE = 0
    BY <1>1, RoundUpIs, Zenon
  <1>3. LargeTotal(n) = Long(total)
    BY DEF LargeTotal
  <1> HIDE DEF total
  <1>4. WORD \div 2 \in Int
    BY PoolMallocAssumption
  <1>5. total < WORD \div 2
    BY <1>1, <1>2, <1>4
  <1>6. Long(total) = total
    BY <1>5 DEF Long
  <1> QED  BY <1>1, <1>2, <1>3, <1>6

LEMMA LargeServes ==
    ASSUME Inv, NEW k, NEW r \in Requests(k), NEW c,
           c = CacheMap(heap, LargeTotal(r.n), k), MallocLarge(r, c, k)
    PROVE  Served(r, k)
  <1> DEFINE F == MappedBy(blocks)
             used == UsedOf(blocks)
             o == <<c.base, c.len>>
             m == c.base + LARGE_HDR
             hd == [moff |-> LARGE_MOFF, size |-> Long(r.n), word |-> c.len]
             h == c.heap
             n == Counted(h)
             g == WidenedEvery(n)
             made == With(blocks, m, hd)
             G == F \cup {o}
  <1>1. Headers(blocks) /\ Sound(heap, F, used)
    BY InvIs DEF Ready
  <1>2. r.n \in Nat /\ LargeTotal(r.n) \in Nat \ {0} /\ LargeTotal(r.n) % PGSIZE = 0
        /\ r.n + LARGE_HDR <= LargeTotal(r.n)
    BY RequestIs, LargeTotalIs
  <1>3. c.base # NULL /\ Returns(r, g, m, hd, k)
    BY DEF MallocLarge
  <1>4. IsSpan(o) /\ o \notin F /\ LargeTotal(r.n) <= c.len /\ Sound(h, G, used)
    <2> DEFINE total == LargeTotal(r.n)
    <2>1. /\ o = <<c.base, c.len>>
          /\ c = CacheMap(heap, total, k)
          /\ G = F \cup {o}
      OBVIOUS
    <2>2. Sound(heap, F, used) /\ total \in Nat \ {0} /\ total % PGSIZE = 0 /\ c.base # NULL
      BY <1>1, <1>2, <1>3
    <2> HIDE DEF o, F, used, G, total
    <2>3. c.base # NULL => /\ IsSpan(o) /\ o \notin F /\ total <= c.len
                           /\ Sound(c.heap, G, used)
      <3>1. \A x, y : x = <<c.base, c.len>> /\ y = F \cup {x}
                         => (c.base # NULL => IsSpan(x) /\ x \notin F /\ total <= c.len
                                               /\ Sound(c.heap, y, used))
        BY <2>1, <2>2, MappedIs
      <3> QED  BY <2>1, <3>1
    <2> QED  BY <2>2, <2>3 DEF total
  <1>5. o[1] = c.base /\ o[2] = c.len
    OBVIOUS
  <1>6. Sound(g, G, used)
    <2>1. IsHeap(h)
      BY <1>4 DEF Sound, Good
    <2>2. n = [h EXCEPT !.large = (@ + 1) % LARGE_PER_CLASS]
      BY DEF Counted
    <2>3. g = n \/ g = Widened(n)
      BY DEF WidenedEvery
    <2> HIDE DEF h, n, g, o, F, used, G
    <2>4. IsHeap(n) /\ SameCache(n, h) /\ SameLists(n, h) /\ n.pools = h.pools
      BY <2>1, <2>2 DEF SameCache, SameLists, IsHeap, IsFcn, HeapFields
    <2>5. IsHeap(g) /\ SameCache(g, n) /\ SameLists(g, n) /\ g.pools = n.pools
      BY <2>3, <2>4, WidenedIs DEF SameCache, SameLists
    <2>6. SameCache(g, h) /\ SameLists(g, h) /\ g.pools = h.pools
      BY <2>4, <2>5 DEF SameCache, SameLists
    <2> QED  BY <1>4, <2>5, <2>6, CountersOnly
  <1>7. hd.moff = LARGE_MOFF /\ hd.size = r.n /\ hd.word = o[2] /\ m = o[1] + LARGE_HDR
    <2>1. Long(r.n) = r.n
      BY RequestIs, LongIs DEF IsSize
    <2> QED  BY <2>1
  <1>8. r.n + LARGE_HDR <= o[2]
    BY <1>2, <1>4, <1>5, ConstantsAre DEF IsSpan
  <1>9. made = With(blocks, m, hd)
    OBVIOUS
  <1> HIDE DEF o, m, hd, g, h, n, made
  <1>10. Agree(g, made) /\ m \notin DOMAIN blocks
    BY <1>1, <1>2, <1>4, <1>6, <1>7, <1>8, <1>9, MappingAdded
  <1>11. Made(g, m, hd)
    BY <1>7, <1>9, <1>10 DEF Made, LARGE_MOFF, ALIGNED_MOFF
  <1> QED  BY <1>3, <1>7, <1>11 DEF Served

\* A retired pool's chain gives what it chooses, of the pool and the block.
LEMMA ChainFitIs ==
    ASSUME NEW h, NEW F, NEW used, Sound(h, F, used), NEW alloc, NEW c \in ChainFits(h, alloc),
           NEW b, b = h.old[c[1]], NEW off, off = c[2]
    PROVE  /\ b \in OldPools(h) /\ b \in DOMAIN h.pools /\ b \in Nat
           /\ off \in h.pools[b].big
           /\ BlockFits(b, off, h.pools[b].free[off], alloc)
  <1>1. PICK i \in DOMAIN h.old, x \in UNION {h.pools[q].big : q \in OldPools(h)} : c = <<i, x>>
    <2>1. c \in ChainPlaces(h)
      BY Zenon DEF ChainFits
    <2> QED  BY ONLY <2>1 DEF ChainPlaces
  <1>2. b = h.old[i] /\ off = x
    <2>1. c[1] = i /\ c[2] = x
      BY <1>1
    <2> QED  BY <2>1
  <1>3. /\ off \in h.pools[b].big
        /\ BlockFits(b, off, h.pools[b].free[off], alloc)
    <2>1. /\ c[2] \in h.pools[h.old[c[1]]].big
          /\ BlockFits(h.old[c[1]], c[2], h.pools[h.old[c[1]]].free[c[2]], alloc)
      BY Zenon DEF ChainFits
    <2> QED  BY ONLY <2>1, b = h.old[c[1]], off = c[2]
  <1>4. b \in OldPools(h)
    BY <1>1, <1>2 DEF OldPools
  <1>5. h.old \in Seq(Nat) /\ OldPools(h) \subseteq DOMAIN h.pools
    <2>1. Lists(h, h.pool, h.pool1, {})
      BY Zenon DEF Sound, Good
    <2> QED  BY <2>1 DEF Lists
  <1> QED  BY <1>1, <1>2, <1>3, <1>4, <1>5

LEMMA RetiredServes ==
    ASSUME Inv, NEW k, NEW r \in Requests(k), NEW h, h = Started(r, k), MallocRetired(r, h, k)
    PROVE  Served(r, k)
  <1> DEFINE F == MappedBy(blocks)
             used == UsedOf(blocks)
             alloc == AllocSize(r.n)
             s == Measured(h, alloc)
  <1>1. Headers(blocks) /\ Sound(h, F, used)
    BY InvIs, StartedIs DEF Ready
  <1>2. alloc \in Nat \ {0}
    BY RequestIs, WantIs
  <1>3. PICK c \in ChainFits(h, alloc) :
            ReturnsPooled(r, Unchain(s, h.old[c[1]], c[2], alloc), h.old[c[1]], c[2], k)
    BY DEF MallocRetired
  <1> DEFINE b == h.old[c[1]]
             off == c[2]
             next == Plus(used, b, off, alloc)
             g == Unchain(s, b, off, alloc)
  <1>4. ReturnsPooled(r, g, b, off, k)
    BY <1>3
  <1>5. Sound(s, F, used) /\ SameLists(s, h)
        /\ \A q \in DOMAIN h.pools : /\ s.pools[q].free = h.pools[q].free
                                     /\ s.pools[q].big = h.pools[q].big
    <2>1. s = Measured(h, alloc) /\ Ready(h)
      BY <1>1 DEF Ready
    <2> HIDE DEF s, alloc
    <2> QED  BY <2>1, MeasuredReady DEF Ready
  <1>6. s = Measured(h, alloc) /\ b = h.old[c[1]] /\ off = c[2]
        /\ next = Plus(used, b, off, alloc) /\ g = Unchain(s, b, off, alloc)
    OBVIOUS
  <1> HIDE DEF F, used, s, b, off, next, g, alloc
  <1>7. /\ b \in OldPools(h) /\ b \in DOMAIN h.pools /\ b \in Nat
        /\ off \in h.pools[b].big
        /\ BlockFits(b, off, h.pools[b].free[off], alloc)
    <2>1. Sound(h, F, used) /\ b = h.old[c[1]] /\ off = c[2]
      BY <1>1, <1>6
    <2>2. c \in ChainFits(h, alloc)
      OBVIOUS
    <2> QED  BY ONLY <2>1, <2>2, ChainFitIs
  <1>8. /\ b \in OldPools(s) /\ off \in s.pools[b].big
        /\ BlockFits(b, off, s.pools[b].free[off], alloc)
    <2>1. OldPools(s) = OldPools(h)
      BY <1>5 DEF SameLists, OldPools
    <2> QED  BY <1>5, <1>7, <2>1
  <1>9. next[b] = With(used[b], off, alloc) /\ \A q \in Nat \ {b} : next[q] = used[q]
    <2>1. b \in Nat /\ next = Plus(used, b, off, alloc)
      BY <1>6, <1>7
    <2>2. next[b] = With(used[b], off, alloc) /\ \A q \in Nat : q # b => next[q] = used[q]
      BY <2>1, PlusIs
    <2> QED  BY <2>2
  <1>10. /\ Good(g, s.pool, s.pool1, {}, F, next) /\ SameLists(g, s)
         /\ off \in Nat /\ off \notin DOMAIN used[b]
    <2>1. Good(s, s.pool, s.pool1, {}, F, used)
      BY <1>5 DEF Sound
    <2>2. g = Unchain(s, b, off, alloc)
      BY <1>6
    <2> QED  BY ONLY <1>2, <1>8, <1>9, <2>1, <2>2, UnchainIs
  <1>11. Sound(g, F, next)
    BY <1>10 DEF Sound, SameLists
  <1> QED  BY <1>1, <1>4, <1>6, <1>7, <1>10, <1>11, PooledServes DEF F, used, alloc

LEMMA ListedServes ==
    ASSUME Inv, NEW k, NEW r \in Requests(k), NEW h, h = Walked(r, k), MallocListed(r, h, k)
    PROVE  Served(r, k)
  <1> DEFINE F == MappedBy(blocks)
             used == UsedOf(blocks)
             alloc == AllocSize(r.n)
             b == h.pool
             off == Least(Fitting(h, b, alloc))
             next == Plus(used, b, off, alloc)
             g == FreelistTake(h, b, alloc)
  <1>1. Headers(blocks) /\ Sound(h, F, used)
    BY InvIs, WalkedIs DEF Ready
  <1>2. alloc \in Nat \ {0}
    BY RequestIs, WantIs
  <1>3. h.pool # NULL /\ Fitting(h, b, alloc) # {} /\ ReturnsPooled(r, g, b, off, k)
    BY DEF MallocListed, NoneRetired, FromPool
  <1>4. off = Least(Fitting(h, b, alloc)) /\ b = h.pool
        /\ next = Plus(used, b, off, alloc) /\ g = FreelistTake(h, b, alloc)
    OBVIOUS
  <1> HIDE DEF F, used, b, off, next, g, alloc
  <1>5. Good(h, h.pool, h.pool1, {}, F, used)
    BY <1>1 DEF Sound
  <1>6. b \in DOMAIN h.pools /\ b # h.pool1 /\ b \notin OldPools(h) /\ b \in Nat
    <2>1. b \in DOMAIN h.pools /\ b # h.pool1 /\ b \notin OldPools(h)
      BY <1>3, <1>4, <1>5 DEF Good, Lists
    <2> QED  BY <1>5, <2>1, PoolSpanIs
  <1>7. next[b] = With(used[b], off, alloc) /\ \A c \in Nat \ {b} : next[c] = used[c]
    BY <1>4, <1>6, PlusIs
  <1>8. /\ OnlyPool(g, h, b) /\ SameCache(g, h)
        /\ PoolSound(b, g.pools[b], next[b])
        /\ g.pools[b].len = h.pools[b].len
        /\ off \in Nat /\ off \notin DOMAIN used[b]
    BY <1>2, <1>3, <1>4, <1>5, <1>6, <1>7, FreelistTakeIs
  <1>9. PoolsOwn(g, F)
    BY <1>5, <1>8, SameLensOwn DEF Good
  <1>10. Good(g, h.pool, h.pool1, {}, F, next)
    BY <1>5, <1>6, <1>7, <1>8, <1>9, PoolRewritten
  <1>11. Sound(g, F, next)
    BY <1>8, <1>10 DEF Sound, OnlyPool, SameLists
  <1> QED  BY <1>1, <1>3, <1>4, <1>6, <1>8, <1>11, PooledServes DEF F, used, alloc

\* The end of every path that bumps: h is the heap it bumps.
LEMMA BumpsServe ==
    ASSUME Headers(blocks), NEW k, NEW r \in Requests(k), NEW h, Ready(h), h.pool # NULL,
           HasBumpRoom(h, AllocSize(r.n)),
           NEW b, b = h.pool, NEW off, off = BumpOffset(h),
           ReturnsPooled(r, Bump(h, AllocSize(r.n)), b, off, k)
    PROVE  Served(r, k)
  <1> DEFINE F == MappedBy(blocks)
             used == UsedOf(blocks)
             alloc == AllocSize(r.n)
             next == Plus(used, b, off, alloc)
             g == Bump(h, alloc)
  <1>1. Good(h, h.pool, h.pool1, {}, F, used)
    BY DEF Ready, Sound
  <1>2. alloc \in Nat \ {0}
    BY RequestIs, WantIs
  <1>3. HasBumpRoom(h, alloc) /\ next = Plus(used, b, off, alloc) /\ g = Bump(h, alloc)
        /\ ReturnsPooled(r, g, b, off, k)
    OBVIOUS
  <1> HIDE DEF F, used, next, g, alloc
  <1>4. b \in DOMAIN h.pools /\ b \in Nat
    <2>1. b \in DOMAIN h.pools
      BY <1>1 DEF Good, Lists
    <2> QED  BY <1>1, <2>1, PoolSpanIs
  <1>5. next[b] = With(used[b], off, alloc) /\ \A c \in Nat \ {b} : next[c] = used[c]
    BY <1>3, <1>4, PlusIs
  <1>6. /\ Good(g, h.pool, h.pool1, {}, F, next) /\ SameLists(g, h)
        /\ off \in Nat /\ off \notin DOMAIN used[b]
    BY <1>1, <1>2, <1>3, <1>5, BumpIs
  <1>7. Sound(g, F, next)
    BY <1>6 DEF Sound, SameLists
  <1> QED  BY <1>3, <1>4, <1>6, <1>7, PooledServes DEF F, used, alloc

LEMMA BumpServes ==
    ASSUME Inv, NEW k, NEW r \in Requests(k), NEW h, h = Walked(r, k), MallocBump(r, h, k)
    PROVE  Served(r, k)
  <1>1. Headers(blocks) /\ Ready(h)
    BY InvIs, WalkedIs
  <1>2. /\ h.pool # NULL /\ HasBumpRoom(h, AllocSize(r.n))
        /\ ReturnsPooled(r, Bump(h, AllocSize(r.n)), h.pool, BumpOffset(h), k)
    BY DEF MallocBump, Bumps, NoneListed, NoneRetired, FromPool
  <1> QED  BY <1>1, <1>2, BumpsServe

LEMMA PromoteServes ==
    ASSUME Inv, NEW k, NEW r \in Requests(k), NEW h, h = Walked(r, k), MallocPromote(r, h, k)
    PROVE  Served(r, k)
  <1> DEFINE F == MappedBy(blocks)
             used == UsedOf(blocks)
             alloc == AllocSize(r.n)
  <1>1. Headers(blocks) /\ Sound(h, F, used) /\ h.pool # NULL
    BY InvIs, WalkedIs DEF Ready, MallocPromote, OutOfRoom, NoneListed, NoneRetired, FromPool
  <1>2. alloc \in Nat \ {0}
    BY RequestIs, WantIs
  <1>3. PICK i \in Promotable(h, alloc) :
            ReturnsPooled(r, Promoted(h, h.old[i], alloc, k), h.old[i],
                          Least(Fitting(h, h.old[i], alloc)), k)
    BY DEF MallocPromote
  <1> DEFINE b == h.old[i]
             off == Least(Fitting(h, b, alloc))
             next == Plus(used, b, off, alloc)
             g == Promoted(h, b, alloc, k)
  <1>4. ReturnsPooled(r, g, b, off, k)
    BY <1>3
  <1>5. b \in OldPools(h) /\ Fitting(h, b, alloc) # {} /\ b \in Nat
    <2>1. i \in DOMAIN h.old /\ h.old \in Seq(Nat)
      BY <1>1 DEF Promotable, Sound, Good, Lists
    <2> QED  BY <2>1 DEF Promotable, OldPools
  <1>6. off = Least(Fitting(h, b, alloc)) /\ next = Plus(used, b, off, alloc)
        /\ g = Promoted(h, b, alloc, k)
    OBVIOUS
  <1> HIDE DEF F, used, b, off, next, g, alloc
  <1>7. next[b] = With(used[b], off, alloc) /\ \A c \in Nat \ {b} : next[c] = used[c]
    BY <1>5, <1>6, PlusIs
  <1>8. Sound(g, F, next) /\ off \in Nat /\ off \notin DOMAIN used[b]
    BY <1>1, <1>2, <1>5, <1>6, <1>7, PromotedIs
  <1> QED  BY <1>1, <1>4, <1>5, <1>6, <1>8, PooledServes DEF F, used, alloc

LEMMA GrowServes ==
    ASSUME Inv, NEW k, NEW r \in Requests(k), NEW h, h = Walked(r, k), MallocGrow(r, h, k)
    PROVE  Served(r, k)
  <1> DEFINE need == Needed(r, h)
             g == PoolGrow(h, need)
  <1>1. Headers(blocks) /\ Ready(h) /\ h.pool # NULL
    BY InvIs, WalkedIs DEF MallocGrow, NonePromotable, OutOfRoom, NoneListed, NoneRetired, FromPool
  <1>2. CanGrow(h, need, k) /\ Bumps(r, g, k)
    BY DEF MallocGrow
  <1>3. r.n \in Nat
    BY RequestIs
  <1>4. need = BumpOffset(h) + AllocSize(r.n) + ALIGN /\ g = PoolGrow(h, need)
    BY DEF Needed
  <1> HIDE DEF need, g
  <1>5. Ready(g) /\ g.pool = h.pool /\ HasBumpRoom(g, AllocSize(r.n))
    <2> DEFINE F == MappedBy(blocks)
               used == UsedOf(blocks)
    <2>1. Sound(h, F, used)
      BY <1>1 DEF Ready
    <2> HIDE DEF F, used
    <2>2. Sound(g, F, used) /\ g.pool = h.pool /\ HasBumpRoom(g, AllocSize(r.n))
      BY <1>1, <1>2, <1>3, <1>4, <2>1, GrownPoolHasRoom
    <2> QED  BY <2>2 DEF Ready, F, used
  <1> QED  BY <1>1, <1>2, <1>5, BumpsServe DEF Bumps

LEMMA NextPoolReady ==
    ASSUME NEW h, Ready(h), h.pool # NULL, NEW n \in Nat, NEW k,
           NEW next, next = NextPool(h, Want(n), k)
    PROVE  Ready(next) /\ (next.pool # NULL => HasBumpRoom(next, AllocSize(n)))
  <1> DEFINE F == MappedBy(blocks)
             used == UsedOf(blocks)
             want == Want(n)
  <1>1. Sound(h, F, used) /\ want \in Nat \ {0} /\ MSET <= want /\ want = Want(n)
        /\ next = NextPool(h, want, k)
    BY WantIs DEF Ready
  <1> HIDE DEF F, used, want
  <1>2. Sound(next, F, used) /\ RoomFor(next, want)
    BY <1>1, NextPoolIs
  <1>3. next.pool # NULL => HasBumpRoom(next, AllocSize(n))
    BY <1>1, <1>2, NewPoolHasRoom
  <1> QED  BY <1>2, <1>3 DEF Ready, F, used

LEMMA ReplaceServes ==
    ASSUME Inv, NEW k, NEW r \in Requests(k), NEW h, h = Walked(r, k),
           NEW next, next = NextPool(h, Want(r.n), k), MallocReplace(r, h, next, k)
    PROVE  Served(r, k)
  <1>1. Headers(blocks) /\ Ready(h) /\ h.pool # NULL /\ r.n \in Nat
    BY InvIs, WalkedIs, RequestIs
       DEF MallocReplace, NonePromotable, OutOfRoom, NoneListed, NoneRetired, FromPool
  <1>2. next.pool # NULL /\ Bumps(r, next, k)
    BY DEF MallocReplace
  <1>3. Ready(next) /\ HasBumpRoom(next, AllocSize(r.n))
    BY <1>1, <1>2, NextPoolReady
  <1> QED  BY <1>1, <1>2, <1>3, BumpsServe DEF Bumps

LEMMA FailsKeep ==
    ASSUME Headers(blocks), NEW h, Ready(h), heap' = h, UNCHANGED blocks
    PROVE  Inv'
  BY InvPrimed DEF Agree, Ready

LEMMA LargeFailsKeeps ==
    ASSUME Inv, NEW k, NEW r \in Requests(k), NEW c,
           c = CacheMap(heap, LargeTotal(r.n), k), LargeFails(r, c)
    PROVE  Inv'
  <1> DEFINE F == MappedBy(blocks)
             used == UsedOf(blocks)
             total == LargeTotal(r.n)
             o == <<c.base, c.len>>
             G == F \cup {o}
  <1>1. Headers(blocks) /\ Sound(heap, F, used)
    BY InvIs DEF Ready
  <1>2. total \in Nat \ {0} /\ total % PGSIZE = 0
    BY RequestIs, LargeTotalIs
  <1>3. c.base = NULL /\ heap' = c.heap /\ UNCHANGED blocks
    BY DEF LargeFails
  <1>4. c = CacheMap(heap, total, k) /\ o = <<c.base, c.len>> /\ G = F \cup {o}
    OBVIOUS
  <1> HIDE DEF F, used, total, o, G
  <1>5. Sound(c.heap, F, used)
    BY <1>1, <1>2, <1>3, <1>4, MappedIs
  <1> QED  BY <1>1, <1>3, <1>5, FailsKeep DEF Ready, F, used

LEMMA FirstPoolFailsKeeps ==
    ASSUME Inv, NEW k, NEW r \in Requests(k), NEW h, h = Started(r, k), FirstPoolFails(r, h)
    PROVE  Inv'
  BY InvIs, StartedIs, FailsKeep DEF FirstPoolFails

LEMMA ReplaceFailsKeeps ==
    ASSUME Inv, NEW k, NEW r \in Requests(k), NEW h, h = Walked(r, k),
           NEW next, next = NextPool(h, Want(r.n), k), ReplaceFails(r, h, next, k)
    PROVE  Inv'
  <1>1. Headers(blocks) /\ Ready(h) /\ h.pool # NULL /\ r.n \in Nat
    BY InvIs, WalkedIs, RequestIs
       DEF ReplaceFails, NonePromotable, OutOfRoom, NoneListed, NoneRetired, FromPool
  <1>2. heap' = next /\ UNCHANGED blocks
    BY DEF ReplaceFails
  <1>3. Ready(next)
    BY <1>1, NextPoolReady
  <1> QED  BY <1>1, <1>2, <1>3, FailsKeep

-------------------------------------------------------------------------------
(***************************************************************************)
(* free(), and realloc() that leaves the block where it is.                *)
(***************************************************************************)

LEMMA FreeKeeps ==
    ASSUME Inv, NEW k, NEW p \in Held, Free(p, k)
    PROVE  Inv'
  <1> DEFINE new == Without(blocks, {p, RawOf(p)})
  <1>1. Headers(blocks) /\ Agree(heap, blocks)
    BY DEF Inv, Agree
  <1>2. heap' = Freed(heap, p, k) /\ blocks' = new /\ new = Without(blocks, {p, RawOf(p)})
    BY DEF Free
  <1> HIDE DEF new
  <1>3. Agree(Freed(heap, p, k), new)
    BY <1>1, <1>2, FreedIs
  <1> QED  BY <1>2, <1>3, InvPrimed

\* new is bl but for the header of p.
Changes(new, bl, p, hd) ==
    /\ DOMAIN new = DOMAIN bl
    /\ new[p] = hd
    /\ \A q \in DOMAIN bl : q # p => new[q] = bl[q]

\* What a header may become when its block stays: one for no more bytes, or
\* one for as many as its mapping holds.
MayBecome(old, hd) ==
    /\ hd.moff = old.moff
    /\ IF old.moff = LARGE_MOFF
         THEN hd.size + LARGE_HDR <= hd.word
         ELSE hd.size <= old.size /\ hd.word = old.word

LEMMA HeaderChanged ==
    ASSUME NEW bl, Headers(bl), NEW p \in DOMAIN bl, NEW hd, IsHeader(hd), MayBecome(bl[p], hd),
           \A q \in DOMAIN bl : bl[q].moff = ALIGNED_MOFF => bl[q].word # p,
           NEW new, new = [bl EXCEPT ![p] = hd]
    PROVE  Headers(new) /\ Changes(new, bl, p, hd)
  <1>1. /\ IsFcn(new) /\ DOMAIN new = DOMAIN bl /\ new[p] = hd
        /\ \A q \in DOMAIN bl : q # p => new[q] = bl[q]
    BY DEF IsFcn
  <1>2. ASSUME NEW q \in DOMAIN new  PROVE IsHeader(new[q]) /\ InOrder(new, q)
    <2>1. q \in DOMAIN bl /\ IsHeader(bl[q]) /\ InOrder(bl, q) /\ q \in Nat
      BY <1>1 DEF Headers
    <2>2. bl[q].moff = ALIGNED_MOFF =>
              bl[q].word \in DOMAIN bl /\ new[bl[q].word] = bl[bl[q].word]
      BY <1>1, <2>1 DEF InOrder
    <2>3. CASE q # p
      <3>1. new[q] = bl[q]
        BY <1>1, <2>1, <2>3
      <3> QED  BY <1>1, <2>1, <2>2, <3>1 DEF InOrder
    <2>4. CASE q = p
      <3>1. new[q] = hd /\ hd.moff = bl[q].moff
        BY <1>1, <2>4 DEF MayBecome
      <3>2. CASE bl[q].moff = LARGE_MOFF
        BY <2>1, <2>4, <3>1, <3>2 DEF InOrder, MayBecome, LARGE_MOFF, ALIGNED_MOFF
      <3>3. CASE bl[q].moff = ALIGNED_MOFF
        <4>1. /\ hd.word = bl[q].word /\ hd.size <= bl[q].size
              /\ hd.size \in Nat /\ bl[q].size \in Nat /\ bl[q].word \in Nat
              /\ bl[bl[q].word].size \in Nat
          BY <2>1, <2>2, <2>4, <3>3 DEF MayBecome, LARGE_MOFF, ALIGNED_MOFF, IsHeader, Headers
        <4>2. /\ bl[q].word \in DOMAIN bl
              /\ bl[bl[q].word].moff # ALIGNED_MOFF
              /\ bl[q].word + LONG + HDR <= q
              /\ q + hd.size <= bl[q].word + bl[bl[q].word].size
          BY <2>1, <3>3, <4>1 DEF InOrder
        <4>3. ~(hd.moff >= 0) /\ hd.moff # LARGE_MOFF
          BY <3>1, <3>3 DEF LARGE_MOFF, ALIGNED_MOFF
        <4> QED  BY <1>1, <2>2, <3>1, <3>3, <4>1, <4>2, <4>3 DEF InOrder
      <3>4. CASE bl[q].moff # LARGE_MOFF /\ bl[q].moff # ALIGNED_MOFF
        BY <2>1, <3>1, <3>4 DEF InOrder
      <3> QED  BY <3>1, <3>2, <3>3, <3>4
    <2> QED  BY <2>3, <2>4
  <1>3. OneEach(new)
    <2>1. ASSUME NEW q \in DOMAIN bl, bl[q].moff = ALIGNED_MOFF
          PROVE  new[q].word = bl[q].word
      BY <1>1, <2>1 DEF MayBecome, LARGE_MOFF, ALIGNED_MOFF
    <2>2. ASSUME NEW q \in DOMAIN bl  PROVE new[q].moff = bl[q].moff
      BY <1>1 DEF MayBecome
    <2>3. OneEach(bl)
      BY DEF Headers
    <2> QED  BY <1>1, <2>1, <2>2, <2>3 DEF OneEach
  <1> QED  BY <1>1, <1>2, <1>3 DEF Headers, Changes

\* The header of a mapping: the same mapping, or another length of it.
LEMMA MappingChanged ==
    ASSUME NEW h, NEW bl, Headers(bl), NEW p \in DOMAIN bl, bl[p].moff = LARGE_MOFF,
           \A q \in DOMAIN bl : bl[q].moff = ALIGNED_MOFF => bl[q].word # p,
           NEW n \in Nat, NEW len \in Nat, n + LARGE_HDR <= len,
           NEW hd, hd.moff = LARGE_MOFF, hd.size = n, hd.word = len,
           NEW base, base = p - LARGE_HDR, NEW old, old = bl[p].word,
           NEW G, G = (MappedBy(bl) \ {<<base, old>>}) \cup {<<base, len>>},
           Sound(h, G, UsedOf(bl)),
           NEW new, new = [bl EXCEPT ![p] = hd]
    PROVE  Agree(h, new)
  <1>1. IsHeader(hd) /\ MayBecome(bl[p], hd)
    BY DEF IsHeader, MayBecome
  <1>2. Headers(new) /\ Changes(new, bl, p, hd)
    BY <1>1, HeaderChanged, Zenon
  <1>3. /\ DOMAIN new = DOMAIN bl /\ new[p] = hd
        /\ \A q \in DOMAIN bl : q # p => new[q] = bl[q]
    BY <1>2 DEF Changes
  <1>4. DOMAIN bl \subseteq Nat /\ LARGE_HDR \in Nat
    BY ConstantsAre DEF Headers
  <1>5. MappedBy(new) = G
    <2>1. ASSUME NEW e \in MappedBy(new)  PROVE e \in G
      <3>1. PICK q \in DOMAIN new : new[q].moff = LARGE_MOFF /\ e = <<q - LARGE_HDR, new[q].word>>
        BY DEF MappedBy
      <3>2. CASE q = p
        BY <1>3, <3>1, <3>2
      <3>3. CASE q # p
        <4>1. q \in DOMAIN bl /\ new[q] = bl[q] /\ q - LARGE_HDR # base
          BY <1>3, <1>4, <3>1, <3>3
        <4>2. e \in MappedBy(bl) /\ e # <<base, old>>
          BY <3>1, <4>1 DEF MappedBy
        <4> QED  BY <4>2
      <3> QED  BY <3>2, <3>3
    <2>2. ASSUME NEW e \in G  PROVE e \in MappedBy(new)
      <3>1. CASE e = <<base, len>>
        BY <1>3, <3>1 DEF MappedBy
      <3>2. CASE e # <<base, len>>
        <4>1. e \in MappedBy(bl) /\ e # <<base, old>>
          BY <3>2
        <4>2. PICK q \in DOMAIN bl : bl[q].moff = LARGE_MOFF /\ e = <<q - LARGE_HDR, bl[q].word>>
          BY <4>1 DEF MappedBy
        <4>3. q # p
          BY <4>1, <4>2
        <4>4. q \in DOMAIN new /\ new[q] = bl[q]
          BY <1>3, <4>3
        <4> QED  BY <4>2, <4>4 DEF MappedBy
      <3> QED  BY <3>1, <3>2
    <2> QED  BY <2>1, <2>2
  <1>6. UsedOf(new) = UsedOf(bl)
    <2>1. ~(LARGE_MOFF >= 0)
      BY DEF LARGE_MOFF
    <2>2. DOMAIN new \subseteq Nat
      BY <1>3, <1>4
    <2>3. \A q \in DOMAIN bl : bl[q].moff >= 0 => q \in DOMAIN new /\ new[q] = bl[q]
      BY <1>3, <2>1
    <2>4. \A q \in DOMAIN new : new[q].moff >= 0 => q \in DOMAIN bl /\ new[q] = bl[q]
      BY <1>3, <2>1
    <2> QED  BY <1>4, <2>2, <2>3, <2>4, SameUsed
  <1> QED  BY <1>2, <1>5, <1>6 DEF Agree

LEMMA MappingIs ==
    ASSUME Inv, NEW p \in Held, IsMapping(p),
           NEW base, base = p - LARGE_HDR, NEW old, old = blocks[p].word
    PROVE  /\ p \in DOMAIN blocks /\ blocks[p].moff = LARGE_MOFF
           /\ \A q \in DOMAIN blocks : blocks[q].moff = ALIGNED_MOFF => blocks[q].word # p
           /\ blocks[p].size \in Nat /\ base \in Nat /\ old \in Nat
           /\ <<base, old>> \in MappedBy(blocks)
  <1>1. /\ p \in DOMAIN blocks /\ blocks[p].moff = LARGE_MOFF
        /\ \A q \in DOMAIN blocks : blocks[q].moff = ALIGNED_MOFF => blocks[q].word # p
    BY HeldIs DEF IsMapping
  <1>2. IsHeader(blocks[p]) /\ InOrder(blocks, p) /\ p \in Nat
    BY <1>1, InvIs DEF Headers
  <1>3. base \in Nat
    BY <1>1, <1>2, ConstantsAre DEF InOrder
  <1>4. <<base, old>> \in MappedBy(blocks)
    BY <1>1 DEF MappedBy
  <1> QED  BY <1>1, <1>2, <1>3, <1>4 DEF IsHeader

LEMMA ResizedMappingKeeps ==
    ASSUME Inv, NEW p \in Held, IsMapping(p), NEW n \in Sizes,
           NEW base, base = p - LARGE_HDR, NEW old, old = blocks[p].word,
           NEW len, len = LargeTotal(n),
           len > old => Pages(base + old, len - old) \cap heap.mapped = {},
           heap' = Mremap(heap, base, old, len),
           blocks' = [blocks EXCEPT ![p] = Resized(p, n, len)]
    PROVE  Inv'
  <1> DEFINE F == MappedBy(blocks)
             used == UsedOf(blocks)
             G == (F \ {<<base, old>>}) \cup {<<base, len>>}
             g == Mremap(heap, base, old, len)
             hd == Resized(p, n, len)
             new == [blocks EXCEPT ![p] = hd]
  <1>1. Headers(blocks) /\ Sound(heap, F, used)
    BY InvIs DEF Ready
  <1>2. /\ p \in DOMAIN blocks /\ blocks[p].moff = LARGE_MOFF
        /\ \A q \in DOMAIN blocks : blocks[q].moff = ALIGNED_MOFF => blocks[q].word # p
        /\ base \in Nat /\ old \in Nat /\ <<base, old>> \in F
    BY MappingIs
  <1>3. len \in Nat \ {0} /\ len % PGSIZE = 0 /\ n + LARGE_HDR <= len /\ n \in Nat
    BY SizesAre, LargeTotalIs DEF IsSize
  <1>4. hd.moff = LARGE_MOFF /\ hd.size = n /\ hd.word = len
    BY <1>2, SizesAre DEF Resized
  <1>5. /\ G = (F \ {<<base, old>>}) \cup {<<base, len>>} /\ g = Mremap(heap, base, old, len)
        /\ new = [blocks EXCEPT ![p] = hd] /\ heap' = g /\ blocks' = new
    OBVIOUS
  <1> HIDE DEF g, hd, new
  <1>6. Sound(g, G, used)
    <2> HIDE DEF F, used, G
    <2> QED  BY <1>1, <1>2, <1>3, <1>5, MappingResizedIs
  <1>7. Agree(g, new)
    <2> HIDE DEF G
    <2>1. len \in Nat
      BY <1>3
    <2> QED  BY <1>1, <1>2, <1>3, <1>4, <1>5, <1>6, <2>1, MappingChanged DEF F, used
  <1> QED  BY <1>5, <1>7, InvPrimed

LEMMA ShrinkMappingKeeps ==
    ASSUME Inv, NEW k, NEW p \in Held, NEW n \in Sizes \ {0}, ShrinkMapping(p, n, k)
    PROVE  Inv'
  <1> DEFINE base == p - LARGE_HDR
             old == blocks[p].word
             len == LargeTotal(n)
  <1>1. n \in Nat /\ n \in Sizes
    BY AlignmentsAre
  <1>2. IsMapping(p) /\ n >= CurMsetMax(heap) /\ SparesPage(p, n)
        /\ heap' = Mremap(heap, base, old, len)
        /\ blocks' = [blocks EXCEPT ![p] = Resized(p, n, len)]
    BY DEF ShrinkMapping, ShrinksInPlace
  <1>3. ~(len > old)
    <2>1. old - len >= PGSIZE
      BY <1>2 DEF SparesPage, NeededBy
    <2>2. old \in Nat /\ len \in Nat
      BY <1>1, <1>2, MappingIs, SizesAre, LargeTotalIs
    <2> HIDE DEF old, len
    <2> QED  BY <2>1, <2>2, ConstantsAre
  <1> QED  BY <1>1, <1>2, <1>3, ResizedMappingKeeps

LEMMA GrowMappingKeeps ==
    ASSUME Inv, NEW k, NEW p \in Held, NEW n \in Sizes \ {0}, GrowMapping(p, n, k)
    PROVE  Inv'
  <1> DEFINE base == p - LARGE_HDR
             old == blocks[p].word
             len == LargeTotal(n)
  <1>1. n \in Sizes
    OBVIOUS
  <1>2. IsMapping(p) /\ GrantsGrowth(heap, base, old, len, k)
        /\ heap' = Mremap(heap, base, old, len)
        /\ blocks' = [blocks EXCEPT ![p] = Resized(p, n, len)]
    BY DEF GrowMapping, GrowsInPlace
  <1>3. Pages(base + old, len - old) \cap heap.mapped = {}
    BY <1>2 DEF GrantsGrowth, FreeRun
  <1> QED  BY <1>1, <1>2, <1>3, ResizedMappingKeeps

LEMMA GrowInMappingKeeps ==
    ASSUME Inv, NEW p \in Held, NEW n \in Sizes \ {0}, GrowInMapping(p, n)
    PROVE  Inv'
  <1> DEFINE F == MappedBy(blocks)
             used == UsedOf(blocks)
             base == p - LARGE_HDR
             old == blocks[p].word
             G == (F \ {<<base, old>>}) \cup {<<base, old>>}
             hd == Resized(p, n, old)
             new == [blocks EXCEPT ![p] = hd]
  <1>1. Headers(blocks) /\ Sound(heap, F, used) /\ n \in Nat
    BY InvIs, AlignmentsAre DEF Ready
  <1>2. IsMapping(p) /\ n + LARGE_HDR <= old /\ blocks' = new /\ heap' = heap
    BY SizesAre DEF GrowInMapping, FitsMapping
  <1>3. /\ p \in DOMAIN blocks /\ blocks[p].moff = LARGE_MOFF
        /\ \A q \in DOMAIN blocks : blocks[q].moff = ALIGNED_MOFF => blocks[q].word # p
        /\ old \in Nat /\ <<base, old>> \in F
    BY <1>2, MappingIs
  <1>4. hd.moff = LARGE_MOFF /\ hd.size = n /\ hd.word = old
    BY <1>3, SizesAre DEF Resized
  <1>5. G = F
    <2> HIDE DEF F
    <2> QED  BY <1>3
  <1>6. /\ base = p - LARGE_HDR /\ old = blocks[p].word /\ new = [blocks EXCEPT ![p] = hd]
        /\ G = (F \ {<<base, old>>}) \cup {<<base, old>>}
    OBVIOUS
  <1>7. Agree(heap, new)
    <2> HIDE DEF G, base, old, hd, new
    <2> QED  BY <1>1, <1>2, <1>3, <1>4, <1>5, <1>6, MappingChanged DEF F, used
  <1> QED  BY <1>2, <1>7, InvPrimed

\* There are the mappings there were if their headers are what they were.
LEMMA SameMapped ==
    ASSUME NEW bl, NEW new, DOMAIN new = DOMAIN bl,
           \A q \in DOMAIN bl : new[q].moff = bl[q].moff,
           \A q \in DOMAIN bl : bl[q].moff = LARGE_MOFF => new[q] = bl[q]
    PROVE  MappedBy(new) = MappedBy(bl)
  <1>1. ASSUME NEW e \in MappedBy(new)  PROVE e \in MappedBy(bl)
    <2>1. PICK q \in DOMAIN new : new[q].moff = LARGE_MOFF /\ e = <<q - LARGE_HDR, new[q].word>>
      BY DEF MappedBy
    <2> QED  BY <2>1 DEF MappedBy
  <1>2. ASSUME NEW e \in MappedBy(bl)  PROVE e \in MappedBy(new)
    <2>1. PICK q \in DOMAIN bl : bl[q].moff = LARGE_MOFF /\ e = <<q - LARGE_HDR, bl[q].word>>
      BY DEF MappedBy
    <2> QED  BY <2>1 DEF MappedBy
  <1> QED  BY <1>1, <1>2

LEMMA ShrinkAlignedKeeps ==
    ASSUME Inv, NEW p \in Held, NEW n \in Sizes \ {0}, ShrinkAligned(p, n)
    PROVE  Inv'
  <1> DEFINE hd == Resized(p, n, blocks[p].word)
             new == [blocks EXCEPT ![p] = hd]
  <1>1. Headers(blocks) /\ Sound(heap, MappedBy(blocks), UsedOf(blocks)) /\ n \in Nat
    BY InvIs, AlignmentsAre DEF Ready
  <1>2. /\ blocks[p].moff = ALIGNED_MOFF /\ n < blocks[p].size
        /\ blocks' = new /\ heap' = heap
    BY SizesAre DEF ShrinkAligned, IsAligned
  <1>3. /\ p \in DOMAIN blocks
        /\ \A q \in DOMAIN blocks : blocks[q].moff = ALIGNED_MOFF => blocks[q].word # p
    BY HeldIs
  <1>4. IsHeader(blocks[p])
    BY <1>1, <1>3 DEF Headers
  <1>5. hd.moff = ALIGNED_MOFF /\ hd.size = n /\ hd.word = blocks[p].word
    BY <1>2, SizesAre DEF Resized
  <1>6. IsHeader(hd) /\ MayBecome(blocks[p], hd)
    BY <1>1, <1>2, <1>4, <1>5 DEF IsHeader, MayBecome, LARGE_MOFF, ALIGNED_MOFF
  <1>7. new = [blocks EXCEPT ![p] = hd]
    OBVIOUS
  <1> HIDE DEF hd, new
  <1>8. Headers(new) /\ Changes(new, blocks, p, hd)
    BY <1>1, <1>3, <1>6, <1>7, HeaderChanged
  <1>9. /\ DOMAIN new = DOMAIN blocks /\ new[p].moff = blocks[p].moff
        /\ \A q \in DOMAIN blocks : q # p => new[q] = blocks[q]
    BY <1>2, <1>5, <1>8 DEF Changes
  <1>10. ~(ALIGNED_MOFF >= 0) /\ ALIGNED_MOFF # LARGE_MOFF
    BY DEF ALIGNED_MOFF, LARGE_MOFF
  <1>11. MappedBy(new) = MappedBy(blocks)
    BY <1>2, <1>9, <1>10, SameMapped
  <1>12. UsedOf(new) = UsedOf(blocks)
    <2>1. DOMAIN blocks \subseteq Nat /\ DOMAIN new \subseteq Nat
      BY <1>1, <1>9 DEF Headers
    <2>2. /\ \A q \in DOMAIN blocks : blocks[q].moff >= 0 => q \in DOMAIN new /\ new[q] = blocks[q]
          /\ \A q \in DOMAIN new : new[q].moff >= 0 => q \in DOMAIN blocks /\ new[q] = blocks[q]
      BY <1>2, <1>9, <1>10
    <2> QED  BY <2>1, <2>2, SameUsed
  <1>13. Agree(heap, new)
    BY <1>1, <1>8, <1>11, <1>12 DEF Agree
  <1> QED  BY <1>2, <1>13, InvPrimed

LEMMA UsedShortened ==
    ASSUME NEW bl, Headers(bl), NEW p \in DOMAIN bl, bl[p].moff >= 0,
           NEW off, off = bl[p].moff, NEW b, b = p - HDR - off,
           NEW hd, hd.moff = off, NEW size, size = AllocSize(hd.size),
           NEW new, Changes(new, bl, p, hd),
           NEW used, used = UsedOf(bl), NEW next, next = UsedOf(new)
    PROVE  /\ Shortens(next[b], used[b], off, size)
           /\ \A c \in Nat : c # b => next[c] = used[c]
  <1>1. /\ b \in Nat /\ off \in Nat /\ p = b + off + HDR /\ off \in DOMAIN used[b]
    BY PooledIs
  <1>2. /\ DOMAIN new = DOMAIN bl /\ new[p] = hd
        /\ \A q \in DOMAIN bl : q # p => new[q] = bl[q]
    BY DEF Changes
  <1>3. \A q \in DOMAIN bl : new[q].moff = bl[q].moff
    BY <1>2
  <1>4. HDR \in Nat
    BY ConstantsAre
  <1>5. ASSUME NEW c \in Nat
        PROVE  /\ DOMAIN next[c] = DOMAIN used[c]
               /\ next[c] = [x \in DOMAIN next[c] |-> next[c][x]]
               /\ used[c] = [x \in DOMAIN used[c] |-> used[c][x]]
               /\ \A x \in DOMAIN used[c] : c # b \/ x # off => next[c][x] = used[c][x]
               /\ c = b => next[c][off] = size
    <2> DEFINE u == used[c]
               v == next[c]
    <2>1. u = UsedOf(bl)[c] /\ v = UsedOf(new)[c]
      OBVIOUS
    <2> HIDE DEF u, v
    <2>2. UsedIs(u, bl, c) /\ UsedIs(v, new, c)
      BY <2>1, UsedAt
    <2>3. \A x : LiesAt(new, c, x) <=> LiesAt(bl, c, x)
      BY <1>2, <1>3 DEF LiesAt
    <2>4. DOMAIN v = DOMAIN u
      BY <2>2, <2>3 DEF UsedIs
    <2>5. ASSUME NEW x \in DOMAIN u
          PROVE  /\ v[x] = AllocSize(new[c + x + HDR].size)
                 /\ u[x] = AllocSize(bl[c + x + HDR].size)
                 /\ x \in Nat /\ c + x + HDR \in DOMAIN bl
      BY <2>2, <2>4 DEF UsedIs, LiesAt
    <2>6. ASSUME NEW x \in DOMAIN u, c # b \/ x # off  PROVE v[x] = u[x]
      <3>1. c + x + HDR # p
        <4>1. bl[c + x + HDR].moff = x
          BY <2>2 DEF UsedIs, LiesAt
        <4> QED  BY <1>1, <1>4, <2>5, <2>6, <4>1
      <3>2. new[c + x + HDR] = bl[c + x + HDR]
        BY <1>2, <2>5, <3>1
      <3> QED  BY <2>5, <3>2
    <2>7. ASSUME NEW x \in DOMAIN u, c = b, x = off  PROVE v[x] = size
      <3>1. new[c + x + HDR] = hd
        BY <1>1, <1>2, <2>7
      <3> QED  BY <2>5, <3>1
    <2>8. c = b => off \in DOMAIN u
      BY <1>1 DEF u
    <2> QED  BY <2>2, <2>4, <2>6, <2>7, <2>8 DEF u, v, UsedIs
  <1>6. Shortens(next[b], used[b], off, size)
    BY <1>1, <1>5 DEF Shortens
  <1>7. ASSUME NEW c \in Nat, c # b  PROVE next[c] = used[c]
    <2>1. /\ DOMAIN next[c] = DOMAIN used[c]
          /\ next[c] = [x \in DOMAIN next[c] |-> next[c][x]]
          /\ used[c] = [x \in DOMAIN used[c] |-> used[c][x]]
          /\ \A x \in DOMAIN used[c] : next[c][x] = used[c][x]
      BY <1>5, <1>7
    <2> QED  BY <2>1, Zenon
  <1> QED  BY <1>6, <1>7

LEMMA ShrinkPooledKeeps ==
    ASSUME Inv, NEW k, NEW p \in Held, NEW n \in Sizes \ {0}, ShrinkPooled(p, n, k)
    PROVE  Inv'
  <1> DEFINE off == blocks[p].moff
             b == p - HDR - off
             old == AllocSize(blocks[p].size)
             size == AllocSize(n)
             tail == old - size
             hd == Resized(p, n, blocks[p].word)
             new == [blocks EXCEPT ![p] = hd]
             g == FreelistInsert(heap, b, off + size, tail, k)
             F == MappedBy(blocks)
             used == UsedOf(blocks)
             next == UsedOf(new)
  <1>1. Headers(blocks) /\ Sound(heap, F, used) /\ n \in Nat
    BY InvIs, AlignmentsAre DEF Ready
  <1>2. /\ off >= 0 /\ n <= blocks[p].size /\ tail >= 2 * HDR
        /\ heap' = g /\ blocks' = new
    <2>1. Long(n) = n
      BY SizesAre
    <2> QED  BY <2>1 DEF ShrinkPooled, IsPooled
  <1>3. /\ p \in DOMAIN blocks
        /\ \A q \in DOMAIN blocks : blocks[q].moff = ALIGNED_MOFF => blocks[q].word # p
    BY HeldIs
  <1>4. IsHeader(blocks[p])
    BY <1>1, <1>3 DEF Headers
  <1>5. hd.moff = off /\ hd.size = n /\ hd.word = blocks[p].word
    BY SizesAre DEF Resized
  <1>6. off # LARGE_MOFF
    BY <1>2 DEF LARGE_MOFF
  <1>7. IsHeader(hd) /\ MayBecome(blocks[p], hd)
    BY <1>1, <1>2, <1>4, <1>5, <1>6 DEF IsHeader, MayBecome
  <1>8. /\ size \in Nat \ {0} /\ tail \in Nat \ {0} /\ old = size + tail
    <2>1. size \in Nat \ {0} /\ old \in Nat \ {0} /\ HDR \in Nat \ {0}
      BY <1>1, <1>4, AllocSizeIs, ConstantsAre DEF IsHeader
    <2> HIDE DEF size, old
    <2>2. old - size >= HDR + HDR
      BY <1>2, <2>1
    <2> QED  BY <2>1, <2>2
  <1>9. /\ b \in Nat /\ off \in Nat /\ off \in DOMAIN used[b] /\ used[b][off] = old
    BY <1>1, <1>2, <1>3, PooledIs
  <1>10. /\ new = [blocks EXCEPT ![p] = hd] /\ next = UsedOf(new) /\ used = UsedOf(blocks)
         /\ off = blocks[p].moff /\ b = p - HDR - off /\ size = AllocSize(hd.size)
         /\ g = FreelistInsert(heap, b, off + size, tail, k)
    BY <1>5
  <1> HIDE DEF off, b, old, size, tail, hd, new, g, used, next
  <1>11. Headers(new) /\ Changes(new, blocks, p, hd)
    BY <1>1, <1>3, <1>7, <1>10, HeaderChanged
  <1>12. /\ Shortens(next[b], used[b], off, size)
         /\ \A c \in Nat \ {b} : next[c] = used[c]
    <2>1. Headers(blocks) /\ p \in DOMAIN blocks /\ blocks[p].moff >= 0
      BY <1>1, <1>2, <1>3, <1>10
    <2>2. /\ off = blocks[p].moff /\ b = p - HDR - off /\ hd.moff = off /\ size = AllocSize(hd.size)
          /\ Changes(new, blocks, p, hd) /\ used = UsedOf(blocks) /\ next = UsedOf(new)
      BY <1>5, <1>10, <1>11
    <2> QED  BY <2>1, <2>2, UsedShortened
  <1>13. Sound(g, F, next)
    <2>1. b \in DOMAIN heap.pools
      BY <1>1, <1>9, PlaceIs
    <2> HIDE DEF F
    <2>2. used[b][off] = size + tail
      BY <1>8, <1>9
    <2>3. g = FreelistInsert(heap, b, off + size, tail, k)
      BY <1>10
    <2> QED  BY <1>1, <1>8, <1>9, <1>12, <2>1, <2>2, <2>3, TailFreedIs, Zenon
  <1>14. MappedBy(new) = F
    <2>1. DOMAIN new = DOMAIN blocks /\ \A q \in DOMAIN blocks : new[q].moff = blocks[q].moff
      BY <1>5, <1>10, <1>11 DEF Changes
    <2>2. \A q \in DOMAIN blocks : blocks[q].moff = LARGE_MOFF => new[q] = blocks[q]
      BY <1>6, <1>10, <1>11 DEF Changes
    <2> QED  BY <2>1, <2>2, SameMapped
  <1>15. Agree(g, new)
    BY <1>11, <1>13, <1>14 DEF Agree, next
  <1> QED  BY <1>2, <1>15, InvPrimed

-------------------------------------------------------------------------------
(***************************************************************************)
(* The invariant.                                                          *)
(***************************************************************************)
LEMMA InitIs == Init => Inv
  <1> SUFFICES ASSUME Init  PROVE Inv
    OBVIOUS
  <1>1. /\ IsHeap(heap)
        /\ heap.mapped = {} /\ heap.cache = [i \in Slots |-> Empty] /\ heap.bytes = 0
        /\ heap.pool = NULL /\ heap.pool1 = NULL /\ heap.old = <<>>
        /\ IsFcn(heap.pools) /\ DOMAIN heap.pools = {}
    BY DEF Init, IsHeap, IsFcn, HeapFields
  <1>2. IsFcn(blocks) /\ DOMAIN blocks = {}
    BY DEF Init, IsFcn
  <1>3. Headers(blocks)
    BY <1>2, FS_EmptySet DEF Headers, OneEach
  <1> DEFINE F == MappedBy(blocks)
             used == UsedOf(blocks)
  <1>4. F = {} /\ \A b \in Nat : DOMAIN used[b] = {}
    BY <1>2 DEF MappedBy, UsedOf
  <1> HIDE DEF F, used
  <1>5. \A i \in Slots : heap.cache[i].base = NULL /\ heap.cache[i].mapped = 0
    BY <1>1 DEF Empty
  <1>6. PoolSpans(heap) = {} /\ ParkedSpans(heap) = {}
    BY <1>1, <1>5 DEF PoolSpans, ParkedSpans, Parked
  <1>7. Owned(heap.mapped, {})
    BY <1>1 DEF Owned
  <1>8. SlotsAre(heap.cache)
    <2>1. IsFcn(heap.cache) /\ DOMAIN heap.cache = Slots
      BY <1>1 DEF IsFcn
    <2> QED  BY <1>5, <2>1 DEF SlotsAre, NULL
  <1>9. PoolsOwn(heap, F)
    <2>1. heap.bytes = ParkedBytes(heap.cache) /\ heap.bytes <= LARGE_CACHE_MAX_BYTES
      BY <1>1, <1>5, NothingParked, ConstantsAre
    <2>2. Parked(heap) = {}
      BY <1>5 DEF Parked
    <2> QED  BY <1>4, <1>6, <1>7, <1>8, <2>1, <2>2 DEF PoolsOwn, CacheOwns
  <1>10. Lists(heap, heap.pool, heap.pool1, {})
    <2>1. heap.old \in Seq(Nat) /\ DOMAIN heap.old = {}
      BY <1>1
    <2> QED  BY <1>1, <2>1 DEF Lists, Once, OldPools
  <1>11. PoolsSound(heap, used)
    BY <1>1, <1>4 DEF PoolsSound
  <1>12. OldPools(heap) = {}
    BY <1>1 DEF OldPools
  <1>13. Sound(heap, F, used)
    BY <1>1, <1>9, <1>10, <1>11, <1>12 DEF Sound, Good
  <1> QED  BY <1>3, <1>13, InvIs DEF Ready, F, used

LEMMA ServedKeeps ==
    ASSUME Inv, NEW k, NEW r \in Requests(k), Served(r, k)
    PROVE  Inv'
  BY InvIs, ReturnsKeep DEF Served

LEMMA NextKeeps == Inv /\ [Next]_vars => Inv'
  <1> SUFFICES ASSUME Inv, [Next]_vars  PROVE Inv'
    OBVIOUS
  <1>1. ASSUME NEW k \in Kernels, NEW r \in Requests(k),
               MallocLarge(r, CacheMap(heap, LargeTotal(r.n), k), k)
        PROVE  Inv'
    BY <1>1, LargeServes, ServedKeeps
  <1>2. ASSUME NEW k \in Kernels, NEW r \in Requests(k), MallocRetired(r, Started(r, k), k)
        PROVE  Inv'
    BY <1>2, RetiredServes, ServedKeeps
  <1>3. ASSUME NEW k \in Kernels, NEW r \in Requests(k), MallocListed(r, Walked(r, k), k)
        PROVE  Inv'
    BY <1>3, ListedServes, ServedKeeps
  <1>4. ASSUME NEW k \in Kernels, NEW r \in Requests(k), MallocBump(r, Walked(r, k), k)
        PROVE  Inv'
    BY <1>4, BumpServes, ServedKeeps
  <1>5. ASSUME NEW k \in Kernels, NEW r \in Requests(k), MallocPromote(r, Walked(r, k), k)
        PROVE  Inv'
    BY <1>5, PromoteServes, ServedKeeps
  <1>6. ASSUME NEW k \in Kernels, NEW r \in Requests(k), MallocGrow(r, Walked(r, k), k)
        PROVE  Inv'
    BY <1>6, GrowServes, ServedKeeps
  <1>7. ASSUME NEW k \in Kernels, NEW r \in Requests(k),
               MallocReplace(r, Walked(r, k), NextPool(Walked(r, k), Want(r.n), k), k)
        PROVE  Inv'
    BY <1>7, ReplaceServes, ServedKeeps
  <1>8. ASSUME NEW k \in Kernels, NEW r \in Requests(k),
               LargeFails(r, CacheMap(heap, LargeTotal(r.n), k))
        PROVE  Inv'
    BY <1>8, LargeFailsKeeps
  <1>9. ASSUME NEW k \in Kernels, NEW r \in Requests(k), FirstPoolFails(r, Started(r, k))
        PROVE  Inv'
    BY <1>9, FirstPoolFailsKeeps
  <1>10. ASSUME NEW k \in Kernels, NEW r \in Requests(k),
                ReplaceFails(r, Walked(r, k), NextPool(Walked(r, k), Want(r.n), k), k)
         PROVE  Inv'
    BY <1>10, ReplaceFailsKeeps
  <1>11. ASSUME NEW k \in Kernels, NEW p \in Held, Free(p, k)  PROVE Inv'
    BY <1>11, FreeKeeps
  <1>12. ASSUME NEW k \in Kernels, NEW p \in Held, NEW n \in Sizes \ {0}, ShrinkMapping(p, n, k)
         PROVE  Inv'
    BY <1>12, ShrinkMappingKeeps
  <1>13. ASSUME NEW k \in Kernels, NEW p \in Held, NEW n \in Sizes \ {0}, ShrinkPooled(p, n, k)
         PROVE  Inv'
    BY <1>13, ShrinkPooledKeeps
  <1>14. ASSUME NEW p \in Held, NEW n \in Sizes \ {0}, ShrinkAligned(p, n)  PROVE Inv'
    BY <1>14, ShrinkAlignedKeeps
  <1>15. ASSUME NEW p \in Held, NEW n \in Sizes \ {0}, GrowInMapping(p, n)  PROVE Inv'
    BY <1>15, GrowInMappingKeeps
  <1>16. ASSUME NEW k \in Kernels, NEW p \in Held, NEW n \in Sizes \ {0}, GrowMapping(p, n, k)
         PROVE  Inv'
    BY <1>16, GrowMappingKeeps
  <1>17. ASSUME UNCHANGED vars  PROVE Inv'
    BY <1>17, InvPrimed DEF vars, Inv
  <1> QED  BY <1>1, <1>2, <1>3, <1>4, <1>5, <1>6, <1>7, <1>8, <1>9, <1>10, <1>11, <1>12,
              <1>13, <1>14, <1>15, <1>16, <1>17 DEF Next

\* The headers of the blocks are always in order, and the heap is sound for
\* what they say is live, whichever way each malloc(), free() and realloc()
\* went and whatever the kernel refused.
THEOREM Invariance == Spec => []Inv
  <1>1. Init => Inv
    BY InitIs
  <1>2. Inv /\ [Next]_vars => Inv'
    BY NextKeeps
  <1> QED  BY <1>1, <1>2, PTL DEF Spec

-------------------------------------------------------------------------------
(***************************************************************************)
(* What it implies.                                                        *)
(***************************************************************************)

\* A large block fits its mapping, an aligned block the one it was cut from,
\* in every state, as long as no size comes near half of all the bytes there
\* are: the sum malloc() rounds up to pages wraps for one that does.
THEOREM BlocksAlwaysFit == Spec => []BlocksFit
  <1>1. Inv => BlocksFit
    <2> SUFFICES ASSUME Inv  PROVE BlocksFit
      OBVIOUS
    <2>1. ASSUME NEW p \in DOMAIN blocks  PROVE IsHeader(blocks[p]) /\ InOrder(blocks, p)
      BY InvIs DEF Headers
    <2>2. NoneOverruns
      <3>1. ASSUME NEW p \in DOMAIN blocks, IsMapping(p)
            PROVE  blocks[p].size \in 0 .. blocks[p].word - LARGE_HDR
        <4>1. /\ blocks[p].size \in Nat /\ blocks[p].word \in Nat
              /\ blocks[p].size + LARGE_HDR <= blocks[p].word
          BY <2>1, <3>1 DEF IsHeader, InOrder, IsMapping
        <4> QED  BY <4>1, ConstantsAre
      <3> QED  BY <3>1 DEF NoneOverruns
    <2>3. ASSUME NEW p \in DOMAIN blocks, IsAligned(p)
          PROVE  LET raw == blocks[p].word
                 IN  /\ raw \in DOMAIN blocks /\ ~IsAligned(raw)
                     /\ raw + LONG + HDR <= p
                     /\ p + blocks[p].size <= raw + blocks[raw].size
      BY <2>1, <2>3 DEF InOrder, IsAligned
    <2> QED  BY <2>2, <2>3 DEF BlocksFit
  <1> QED  BY <1>1, Invariance, PTL

LEMMA LivePlaceIs ==
    ASSUME Inv, NEW p \in DOMAIN blocks, IsPooled(p), NEW b, b = PoolOf(p),
           NEW off, off = blocks[p].moff
    PROVE  /\ b \in Nat /\ off \in Nat /\ p = b + off + HDR
           /\ off \in DOMAIN UsedOf(blocks)[b]
           /\ UsedOf(blocks)[b][off] = AllocSize(blocks[p].size)
           /\ b \in DOMAIN heap.pools
           /\ p % PGSIZE # 0
  <1>1. Headers(blocks) /\ Sound(heap, MappedBy(blocks), UsedOf(blocks))
    BY InvIs DEF Ready
  <1>2. b = p - HDR - blocks[p].moff /\ blocks[p].moff >= 0
    BY DEF PoolOf, IsPooled
  <1>3. /\ b \in Nat /\ off \in Nat /\ p = b + off + HDR
        /\ off \in DOMAIN UsedOf(blocks)[b]
        /\ UsedOf(blocks)[b][off] = AllocSize(blocks[p].size)
    BY <1>1, <1>2, PooledIs
  <1> DEFINE F == MappedBy(blocks)
             used == UsedOf(blocks)
  <1>4. Sound(heap, F, used) /\ off \in DOMAIN used[b]
    BY <1>1, <1>3
  <1> HIDE DEF F, used
  <1>5. b \in DOMAIN heap.pools /\ (b + off + HDR) % PGSIZE # 0
    BY <1>3, <1>4, PlaceIs
  <1> QED  BY <1>3, <1>5

\* No pool's block has a user pointer that is page-aligned, in any state.
THEOREM NothingPageAligned == Spec => []NeverPageAligned
  <1>1. Inv => NeverPageAligned
    BY LivePlaceIs DEF NeverPageAligned
  <1> QED  BY <1>1, Invariance, PTL

\* The chains of big blocks and the bounds of the retired pools lead
\* old_pool_best_fit to the fits a walk of all their blocks would find.
THEOREM BestFitAlwaysAgrees == Spec => []BestFitAgrees
  <1>1. ASSUME Inv, NEW n \in Sizes, IsBig(AllocSize(n))
        PROVE  ChainFits(heap, AllocSize(n)) = AllFits(AllocSize(n))
    <2> DEFINE alloc == AllocSize(n)
    <2>1. alloc \in Nat /\ alloc >= RETIRED_FIT_MIN
      BY <1>1, AlignmentsAre, AllocSizeIs DEF IsBig
    <2> HIDE DEF alloc
    <2>2. ASSUME NEW b \in OldPools(heap)
          PROVE  LET m == heap.pools[b]
                 IN  /\ m.max \in Nat /\ m.big \subseteq DOMAIN m.free
                     /\ \A x \in DOMAIN m.free :
                           /\ m.free[x] \in Nat
                           /\ m.free[x] <= m.max
                           /\ m.free[x] >= RETIRED_FIT_MIN => x \in m.big
      <3>1. Sound(heap, MappedBy(blocks), UsedOf(blocks))
        BY <1>1, InvIs DEF Ready
      <3>2. RetiredSound(heap.pools[b]) /\ b \in DOMAIN heap.pools
        BY <2>2, <3>1 DEF Sound, Good, Lists
      <3>3. PoolSound(b, heap.pools[b], UsedOf(blocks)[b])
        BY <3>1, <3>2 DEF Sound, Good, PoolsSound
      <3>4. \A x \in DOMAIN heap.pools[b].free : heap.pools[b].free[x] \in Nat
        BY <3>3, PoolBounds
      <3> QED  BY <3>2, <3>3, <3>4 DEF RetiredSound, PoolSound, BigOf, IsBig
    <2>3. \A i \in DOMAIN heap.old : heap.old[i] \in OldPools(heap)
      BY DEF OldPools
    <2>4. ASSUME NEW c \in ChainFits(heap, alloc)  PROVE c \in AllFits(alloc)
      <3>1. PICK i \in DOMAIN heap.old, x \in UNION {heap.pools[b].big : b \in OldPools(heap)} :
                c = <<i, x>>
        BY DEF ChainFits, ChainPlaces
      <3>2. x \in heap.pools[heap.old[i]].big
            /\ BlockFits(heap.old[i], x, heap.pools[heap.old[i]].free[x], alloc)
        BY <3>1 DEF ChainFits
      <3>3. x \in DOMAIN heap.pools[heap.old[i]].free
        BY <2>2, <2>3, <3>1, <3>2
      <3> QED  BY <2>3, <3>1, <3>2, <3>3 DEF AllFits
    <2>5. ASSUME NEW c \in AllFits(alloc)  PROVE c \in ChainFits(heap, alloc)
      <3>1. PICK i \in DOMAIN heap.old,
                 x \in UNION {DOMAIN heap.pools[b].free : b \in OldPools(heap)} : c = <<i, x>>
        BY DEF AllFits
      <3>2. x \in DOMAIN heap.pools[heap.old[i]].free
            /\ BlockFits(heap.old[i], x, heap.pools[heap.old[i]].free[x], alloc)
        BY <3>1 DEF AllFits
      <3>3. heap.pools[heap.old[i]].free[x] >= alloc
        BY <3>2 DEF BlockFits
      <3>4. x \in heap.pools[heap.old[i]].big /\ heap.pools[heap.old[i]].max >= alloc
        BY <2>1, <2>2, <2>3, <3>1, <3>2, <3>3, ConstantsAre
      <3> QED  BY <2>3, <3>1, <3>2, <3>4 DEF ChainFits, ChainPlaces
    <2> QED  BY <2>4, <2>5 DEF alloc
  <1>2. Inv => BestFitAgrees
    BY <1>1 DEF BestFitAgrees
  <1> QED  BY <1>2, Invariance, PTL

\* The blocks of a pool that serves, live and free, lie between its header and
\* its bump pointer and apart from each other, in every state.
THEOREM BlocksAlwaysApart == Spec => []BlocksApart
  <1>1. ASSUME Inv, NEW b \in Serving
        PROVE  LET m == heap.pools[b]
               IN  /\ m.size <= m.len
                   /\ \A x \in DOMAIN m.free : x + m.free[x] \notin DOMAIN m.free
                   /\ \A x \in DOMAIN m.free : \A p \in LiveIn(b) : x # blocks[p].moff
                   /\ \A e \in Extents(b) :
                         /\ MSET <= e[1]
                         /\ e[1] + e[2] <= m.size
                         /\ \A f \in Extents(b) \ {e} :
                               e[1] + e[2] <= f[1] \/ f[1] + f[2] <= e[1]
    <2> DEFINE used == UsedOf(blocks)[b]
               free == heap.pools[b].free
               size == heap.pools[b].size
    <2>1. Sound(heap, MappedBy(blocks), UsedOf(blocks))
      BY <1>1, InvIs DEF Ready
    <2>2. b \in DOMAIN heap.pools
      BY <2>1 DEF Serving, Sound, Good, Lists
    <2>3. PoolSound(b, heap.pools[b], used)
      BY <2>1, <2>2 DEF Sound, Good, PoolsSound
    <2>4. Tiled(free, used, size) /\ size <= heap.pools[b].len /\ size \in Nat
      BY <2>3 DEF PoolSound
    <2>5. ASSUME NEW p \in LiveIn(b)
          PROVE  /\ blocks[p].moff \in DOMAIN used
                 /\ AllocSize(blocks[p].size) = used[blocks[p].moff]
      BY <1>1, LivePlaceIs DEF LiveIn
    <2> HIDE DEF used, free, size
    <2>6. ASSUME NEW e \in Extents(b)
          PROVE  \/ e[1] \in DOMAIN used /\ e = <<e[1], used[e[1]]>>
                 \/ e[1] \in DOMAIN free /\ e = <<e[1], free[e[1]]>>
      <3>1. CASE \E p \in LiveIn(b) : e = <<blocks[p].moff, AllocSize(blocks[p].size)>>
        BY <2>5, <3>1
      <3>2. CASE \E x \in DOMAIN free : e = <<x, free[x]>>
        BY <3>2
      <3> QED  BY <3>1, <3>2 DEF Extents, free
    <2>7. \A x \in DOMAIN free : x + free[x] \notin DOMAIN free
      BY <2>4 DEF Tiled
    <2>8. \A x \in DOMAIN free : x \notin DOMAIN used
      BY <2>4 DEF Tiled
    <2>9. ASSUME NEW e \in Extents(b)
          PROVE  MSET <= e[1] /\ e[1] + e[2] <= size
      BY <2>4, <2>6 DEF Tiled
    <2>10. ASSUME NEW e \in Extents(b), NEW f \in Extents(b), e # f
           PROVE  e[1] + e[2] <= f[1] \/ f[1] + f[2] <= e[1]
      <3>1. CASE e[1] \in DOMAIN used /\ e = <<e[1], used[e[1]]>>
                 /\ f[1] \in DOMAIN used /\ f = <<f[1], used[f[1]]>>
        BY <2>4, <2>10, <3>1 DEF Tiled
      <3>2. CASE e[1] \in DOMAIN used /\ e = <<e[1], used[e[1]]>>
                 /\ f[1] \in DOMAIN free /\ f = <<f[1], free[f[1]]>>
        BY <2>4, <3>2 DEF Tiled
      <3>3. CASE e[1] \in DOMAIN free /\ e = <<e[1], free[e[1]]>>
                 /\ f[1] \in DOMAIN used /\ f = <<f[1], used[f[1]]>>
        BY <2>4, <3>3 DEF Tiled
      <3>4. CASE e[1] \in DOMAIN free /\ e = <<e[1], free[e[1]]>>
                 /\ f[1] \in DOMAIN free /\ f = <<f[1], free[f[1]]>>
        BY <2>4, <2>10, <3>4 DEF Tiled
      <3> QED  BY <2>6, <3>1, <3>2, <3>3, <3>4
    <2> QED  BY <2>4, <2>5, <2>7, <2>8, <2>9, <2>10 DEF free, size
  <1>2. Inv => BlocksApart
    BY <1>1 DEF BlocksApart
  <1> QED  BY <1>2, Invariance, PTL

\* A set has as many members as another if f pairs them off.
LEMMA SameCount ==
    ASSUME NEW S, IsFiniteSet(S), NEW T, NEW f \in [S -> T],
           \A x, y \in S : f[x] = f[y] => x = y,
           \A t \in T : \E x \in S : f[x] = t
    PROVE  IsFiniteSet(T) /\ Cardinality(T) = Cardinality(S)
  <1>1. f \in Surjection(S, T)
    BY DEF Surjection
  <1>2. f \in Injection(S, T)
    BY DEF Injection, IsInjective
  <1> QED  BY <1>1, <1>2, FS_Surjection

LEMMA PoolsAre ==
    ASSUME Inv
    PROVE  /\ PoolsInUse = DOMAIN heap.pools
           /\ IsFiniteSet(PoolsInUse)
           /\ Cardinality(PoolsInUse)
                = Len(heap.old) + Cardinality({heap.pool, heap.pool1} \ {NULL})
  <1> DEFINE old == heap.old
             two == {heap.pool, heap.pool1} \ {NULL}
             f == [i \in 1 .. Len(old) |-> old[i]]
  <1>1. Lists(heap, heap.pool, heap.pool1, {})
    BY InvIs DEF Ready, Sound, Good
  <1>2. PoolsInUse = DOMAIN heap.pools
    BY <1>1 DEF PoolsInUse, Lists
  <1>3. old \in Seq(Nat) /\ DOMAIN old = 1 .. Len(old) /\ Len(old) \in Nat
    BY <1>1 DEF Lists
  <1>4. IsFiniteSet(1 .. Len(old)) /\ Cardinality(1 .. Len(old)) = Len(old)
    BY <1>3, FS_Interval
  <1>5. IsFiniteSet(OldPools(heap)) /\ Cardinality(OldPools(heap)) = Len(old)
    <2>1. f \in [1 .. Len(old) -> OldPools(heap)]
      BY <1>3 DEF OldPools
    <2>2. \A i, j \in 1 .. Len(old) : f[i] = f[j] => i = j
      BY <1>1, <1>3 DEF Lists, Once
    <2>3. \A b \in OldPools(heap) : \E i \in 1 .. Len(old) : f[i] = b
      BY <1>3 DEF OldPools
    <2> HIDE DEF f
    <2> QED  BY <1>4, <2>1, <2>2, <2>3, SameCount
  <1>6. IsFiniteSet(two)
    <2>1. IsFiniteSet({heap.pool}) /\ IsFiniteSet({heap.pool1})
      BY FS_Singleton
    <2>2. IsFiniteSet({heap.pool} \cup {heap.pool1})
      BY <2>1, FS_Union
    <2>3. two \subseteq {heap.pool} \cup {heap.pool1}
      OBVIOUS
    <2> HIDE DEF two
    <2> QED  BY <2>2, <2>3, FS_Subset
  <1>7. two \cap OldPools(heap) = {}
    BY <1>1 DEF Lists
  <1>8. PoolsInUse = two \cup OldPools(heap)
    BY DEF PoolsInUse
  <1> HIDE DEF two, old
  <1>9. /\ IsFiniteSet(two \cup OldPools(heap))
        /\ Cardinality(two \cup OldPools(heap))
             = Cardinality(two) + Cardinality(OldPools(heap)) - Cardinality({})
    BY <1>5, <1>6, <1>7, FS_Union
  <1>10. Cardinality(two) \in Nat
    BY <1>6, FS_CardinalityType
  <1> QED  BY <1>2, <1>3, <1>5, <1>8, <1>9, <1>10, FS_EmptySet DEF two, old

LEMMA LiveInIs ==
    ASSUME Inv, NEW b \in DOMAIN heap.pools
    PROVE  heap.pools[b].refs = Cardinality(LiveIn(b))
  <1> DEFINE used == UsedOf(blocks)[b]
             S == LiveIn(b)
             f == [p \in S |-> blocks[p].moff]
  <1>1. Headers(blocks) /\ Sound(heap, MappedBy(blocks), UsedOf(blocks))
    BY InvIs DEF Ready
  <1>2. heap.pools[b].refs = Cardinality(DOMAIN used)
    BY <1>1 DEF Sound, Good, PoolsSound, PoolSound
  <1>3. b \in Nat
    BY <1>1, PoolSpanIs DEF Sound
  <1>4. IsFiniteSet(S)
    BY <1>1, FS_Subset DEF LiveIn, Headers
  <1>5. ASSUME NEW p \in S
        PROVE  blocks[p].moff \in DOMAIN used /\ p = b + blocks[p].moff + HDR
    BY LivePlaceIs DEF LiveIn
  <1>6. ASSUME NEW x \in DOMAIN used  PROVE \E p \in S : blocks[p].moff = x
    <2>1. x \in Nat /\ b + x + HDR \in DOMAIN blocks /\ blocks[b + x + HDR].moff = x
      BY <1>3 DEF UsedOf
    <2>2. HDR \in Nat
      BY ConstantsAre
    <2>3. b + x + HDR \in S
      BY <1>3, <2>1, <2>2 DEF LiveIn, IsPooled, PoolOf
    <2> QED  BY <2>1, <2>3
  <1> HIDE DEF used, S
  <1>7. f \in [S -> DOMAIN used]
    BY <1>5
  <1>8. \A p, q \in S : f[p] = f[q] => p = q
    BY <1>5
  <1>9. \A x \in DOMAIN used : \E p \in S : f[p] = x
    BY <1>6
  <1> HIDE DEF f
  <1>10. Cardinality(DOMAIN used) = Cardinality(S)
    BY <1>4, <1>7, <1>8, <1>9, SameCount
  <1> QED  BY <1>2, <1>10 DEF S

\* A pool counts its live blocks, each of them is in a pool that is in use,
\* the retired list has each retired pool once and while it has some, and the
\* spare pool has none, in every state.
THEOREM RefsAlwaysExact == Spec => []RefsExact
  <1>1. ASSUME Inv  PROVE RefsExact
    <2> DEFINE used == UsedOf(blocks)
    <2>1. Sound(heap, MappedBy(blocks), used)
      BY <1>1, InvIs DEF Ready
    <2>2. \A p \in DOMAIN blocks : IsPooled(p) => PoolOf(p) \in PoolsInUse
      BY <1>1, LivePlaceIs, PoolsAre
    <2>3. \A b \in PoolsInUse : heap.pools[b].refs = Cardinality(LiveIn(b))
      BY <1>1, LiveInIs, PoolsAre
    <2>4. \A b \in OldPools(heap) : heap.pools[b].refs > 0
      BY <2>1 DEF Sound, Good, RetiredSound
    <2>5. heap.pool1 # NULL => heap.pools[heap.pool1].refs = 0
      <3>1. SUFFICES ASSUME heap.pool1 # NULL  PROVE heap.pools[heap.pool1].refs = 0
        OBVIOUS
      <3> DEFINE b == heap.pool1
      <3>2. b \in DOMAIN heap.pools /\ heap.pools[b].size = MSET
        BY <2>1, <3>1 DEF Sound, Good, Lists
      <3>3. PoolSound(b, heap.pools[b], used[b])
        BY <2>1, <3>2 DEF Sound, Good, PoolsSound
      <3> HIDE DEF used, b
      <3>4. DOMAIN used[b] = {}
        BY <3>2, <3>3, ConstantsAre DEF PoolSound, Tiled
      <3> QED  BY <3>3, <3>4, FS_EmptySet DEF PoolSound, b
    <2> QED  BY <1>1, <2>2, <2>3, <2>4, <2>5, PoolsAre DEF RefsExact
  <1> QED  BY <1>1, Invariance, PTL

\* The pages the process has are those of its pools, its large blocks and the
\* parked mappings, no page is of two of them, and large_cache_bytes is what
\* is parked, in every state.
THEOREM PagesAlwaysOwned == Spec => []PagesOwned
  <1>1. ASSUME Inv  PROVE PagesOwned
    <2> DEFINE P == PoolSpans(heap)
               F == MappedBy(blocks)
               K == ParkedSpans(heap)
               large == {q \in DOMAIN blocks : IsMapping(q)}
    <2>1. Headers(blocks) /\ Sound(heap, F, UsedOf(blocks))
      BY <1>1, InvIs DEF Ready
    <2>2. CacheOwns(heap, P \cup F) /\ P \cap F = {}
      BY <2>1 DEF Sound, Good, PoolsOwn
    <2>3. PoolsInUse = DOMAIN heap.pools /\ IsFiniteSet(PoolsInUse)
      BY <1>1, PoolsAre
    <2>4. Owners = P \cup F \cup K
      BY <2>3 DEF Owners, PoolSpans, MappedBy, ParkedSpans, IsMapping
    <2>5. Owned(heap.mapped, P \cup F \cup K) /\ (P \cup F) \cap K = {}
      BY <2>2 DEF CacheOwns
    <2>6. IsFiniteSet(P) /\ Cardinality(P) = Cardinality(PoolsInUse)
      <3> DEFINE f == [b \in PoolsInUse |-> <<b, heap.pools[b].len>>]
      <3>1. f \in [PoolsInUse -> P]
        BY <2>3 DEF PoolSpans
      <3>2. \A b, c \in PoolsInUse : f[b] = f[c] => b = c
        OBVIOUS
      <3>3. \A o \in P : \E b \in PoolsInUse : f[b] = o
        BY <2>3 DEF PoolSpans
      <3> HIDE DEF f, P
      <3> QED  BY <2>3, <3>1, <3>2, <3>3, SameCount
    <2>7. IsFiniteSet(F) /\ Cardinality(F) = Cardinality(large)
      <3> DEFINE f == [q \in large |-> <<q - LARGE_HDR, blocks[q].word>>]
      <3>1. IsFiniteSet(large)
        BY <2>1, FS_Subset DEF Headers
      <3>2. f \in [large -> F]
        BY DEF MappedBy, IsMapping
      <3>3. large \subseteq Nat /\ LARGE_HDR \in Nat
        BY <2>1, ConstantsAre DEF Headers
      <3>4. \A q, r \in large : f[q] = f[r] => q = r
        <4> HIDE DEF large
        <4> QED  BY <3>3
      <3>5. \A o \in F : \E q \in large : f[q] = o
        BY DEF MappedBy, IsMapping
      <3> HIDE DEF f, F, large
      <3> QED  BY <3>1, <3>2, <3>4, <3>5, SameCount
    <2>8. IsFiniteSet(K) /\ Cardinality(K) = Cardinality(Parked(heap))
                         /\ IsFiniteSet(Parked(heap))
      <3> DEFINE S == Parked(heap)
                 f == [i \in S |-> <<heap.cache[i].base, heap.cache[i].mapped>>]
      <3>1. IsFiniteSet(S)
        <4>1. IsFiniteSet(Slots)
          BY FS_Interval, ConstantsAre DEF Slots
        <4> QED  BY <4>1, FS_Subset DEF Parked
      <3>2. f \in [S -> K] /\ \A o \in K : \E i \in S : f[i] = o
        BY DEF ParkedSpans
      <3>3. \A i, j \in S : f[i] = f[j] => i = j
        BY <2>2 DEF CacheOwns
      <3> HIDE DEF f, K, S
      <3>4. IsFiniteSet(K) /\ Cardinality(K) = Cardinality(S)
        BY <3>1, <3>2, <3>3, SameCount
      <3> QED  BY <3>1, <3>4 DEF S
    <2> HIDE DEF P, F, K
    <2>9. Cardinality(Owners) = OwnerCount
      <3>1. IsFiniteSet(P \cup F) /\ Cardinality(P \cup F) = Cardinality(P) + Cardinality(F)
        <4>1. Cardinality(P) + Cardinality(F) - 0 = Cardinality(P) + Cardinality(F)
          BY <2>6, <2>7, FS_CardinalityType
        <4> QED  BY <2>2, <2>6, <2>7, <4>1, FS_Union, FS_EmptySet
      <3>2. Cardinality((P \cup F) \cup K) = Cardinality(P \cup F) + Cardinality(K)
        <4> DEFINE G == P \cup F
        <4>1. IsFiniteSet(G) /\ G \cap K = {}
          BY <2>5, <3>1
        <4> HIDE DEF G
        <4>2. Cardinality(G) + Cardinality(K) - 0 = Cardinality(G) + Cardinality(K)
          BY <2>8, <4>1, FS_CardinalityType
        <4>3. Cardinality(G \cup K) = Cardinality(G) + Cardinality(K)
          BY <2>8, <4>1, <4>2, FS_Union, FS_EmptySet
        <4> QED  BY <4>3 DEF G
      <3>3. /\ Cardinality(P) \in Nat /\ Cardinality(F) \in Nat /\ Cardinality(K) \in Nat
        BY <2>6, <2>7, <2>8, FS_CardinalityType
      <3> QED  BY <2>4, <2>6, <2>7, <2>8, <3>1, <3>2, <3>3 DEF OwnerCount
    <2>10. \A o \in Owners : IsSpan(o)
      BY <2>4, <2>5 DEF Owned
    <2>11. ASSUME NEW o \in Owners, NEW q \in Owners \ {o}
           PROVE  Pages(o[1], o[2]) \cap Pages(q[1], q[2]) = {}
      <3>1. SpansApart(o, q) /\ IsSpan(o) /\ IsSpan(q)
        BY <2>4, <2>5, <2>10 DEF Owned
      <3> QED  BY <3>1, PagesAre DEF SpansApart, IsSpan
    <2> QED  BY <2>2, <2>4, <2>5, <2>9, <2>11 DEF PagesOwned, Owned, CacheOwns
  <1> QED  BY <1>1, Invariance, PTL

-------------------------------------------------------------------------------
(***************************************************************************)
(* The pool heap implements HeapSpec.                                      *)
(***************************************************************************)

\* The program holds p: nothing is cut from it.
HeldIn(bl, p) ==
    /\ p \in DOMAIN bl
    /\ \A q \in DOMAIN bl : bl[q].moff = ALIGNED_MOFF => bl[q].word # p

LEMMA HeldExtentsAre ==
    /\ \A p : p \in DOMAIN HeldExtents <=> HeldIn(blocks, p)
    /\ \A p \in DOMAIN HeldExtents :
          HeldExtents[p].asked = blocks[p].size /\ HeldExtents[p].room = blocks[p].size
  BY DEF HeldExtents, Held, Raws, IsAligned, HeldIn

LEMMA HeldExtentsNext ==
    /\ \A p : p \in DOMAIN HeldExtents' <=> HeldIn(blocks', p)
    /\ \A p \in DOMAIN HeldExtents' :
          HeldExtents'[p].asked = blocks'[p].size /\ HeldExtents'[p].room = blocks'[p].size
  BY DEF HeldExtents, Held, Raws, IsAligned, HeldIn

LEMMA HeldIsIn ==
    \A p : p \in Held <=> HeldIn(blocks, p)
  BY DEF Held, Raws, IsAligned, HeldIn

\* The blocks the program holds share no byte, whatever they were cut from.
LEMMA HeldApart ==
    ASSUME NEW h, NEW bl, Agree(h, bl), NEW p, HeldIn(bl, p), NEW q, HeldIn(bl, q), p # q
    PROVE  /\ bl[p].size \in Nat /\ bl[q].size \in Nat
           /\ p + bl[p].size <= q \/ q + bl[q].size <= p
  <1>1. Headers(bl) /\ p \in DOMAIN bl /\ q \in DOMAIN bl
    BY DEF Agree, HeldIn
  <1> DEFINE r == Home(bl, p)
             s == Home(bl, q)
  <1>2. /\ r \in DOMAIN bl /\ bl[r].moff # ALIGNED_MOFF
        /\ p \in Nat /\ Low(bl, r) \in Nat /\ Room(bl, r) \in Nat /\ Low(bl, r) + HDR <= p
    BY <1>1, HomeIs
  <1>3. /\ s \in DOMAIN bl /\ bl[s].moff # ALIGNED_MOFF
        /\ q \in Nat /\ Low(bl, s) \in Nat /\ Room(bl, s) \in Nat /\ Low(bl, s) + HDR <= q
    BY <1>1, HomeIs
  <1>4. ASSUME NEW x \in DOMAIN bl, NEW t, t = Home(bl, x)
        PROVE  bl[x].size \in Nat /\ x + bl[x].size <= Low(bl, t) + Room(bl, t)
    <2>1. x \in Nat /\ bl[x].size \in Nat /\ InOrder(bl, x)
      BY <1>1 DEF Headers, IsHeader
    <2>2. t \in DOMAIN bl /\ bl[t].moff # ALIGNED_MOFF
      BY <1>1, <1>4, HomeIs
    <2>3. /\ t \in Nat /\ bl[t].size \in Nat
          /\ Low(bl, t) \in Nat /\ Room(bl, t) \in Nat
          /\ t + bl[t].size <= Low(bl, t) + Room(bl, t)
      BY <1>1, <2>2, LowIs
    <2>4. CASE bl[x].moff = ALIGNED_MOFF
      <3>1. t = bl[x].word /\ x + bl[x].size <= t + bl[t].size
        BY <1>4, <2>1, <2>4 DEF Home, InOrder
      <3> QED  BY <2>1, <2>3, <3>1
    <2>5. CASE bl[x].moff # ALIGNED_MOFF
      <3>1. t = x
        BY <1>4, <2>5 DEF Home
      <3> QED  BY <2>1, <2>3, <3>1
    <2> QED  BY <2>4, <2>5
  <1>5. r # s
    <2>1. SUFFICES ASSUME r = s  PROVE FALSE
      OBVIOUS
    <2>2. CASE bl[p].moff = ALIGNED_MOFF /\ bl[q].moff = ALIGNED_MOFF
      BY <1>1, <2>1, <2>2 DEF Home, Headers, OneEach
    <2>3. CASE bl[p].moff # ALIGNED_MOFF /\ bl[q].moff = ALIGNED_MOFF
      BY <1>1, <2>1, <2>3 DEF Home, HeldIn
    <2>4. CASE bl[p].moff = ALIGNED_MOFF /\ bl[q].moff # ALIGNED_MOFF
      BY <1>1, <2>1, <2>4 DEF Home, HeldIn
    <2>5. CASE bl[p].moff # ALIGNED_MOFF /\ bl[q].moff # ALIGNED_MOFF
      BY <2>1, <2>5 DEF Home
    <2> QED  BY <2>2, <2>3, <2>4, <2>5
  <1>6. /\ bl[p].size \in Nat /\ p + bl[p].size <= Low(bl, r) + Room(bl, r)
        /\ bl[q].size \in Nat /\ q + bl[q].size <= Low(bl, s) + Room(bl, s)
    BY <1>1, <1>4
  <1> HIDE DEF r, s
  <1>7. Low(bl, r) + Room(bl, r) <= Low(bl, s) \/ Low(bl, s) + Room(bl, s) <= Low(bl, r)
    BY <1>2, <1>3, <1>5, BlocksShareNothing
  <1>8. HDR \in Nat
    BY ConstantsAre
  <1> QED  BY <1>2, <1>3, <1>6, <1>7, <1>8

LEMMA HeldPlaced ==
    ASSUME Inv', NEW p, HeldIn(blocks', p)
    PROVE  Heap!Placed(HeldExtents', p)
  <1>1. Agree(heap', blocks')
    BY InvPrimed
  <1>2. blocks'[p].size \in Nat
    BY <1>1 DEF Agree, Headers, IsHeader, HeldIn
  <1>3. ASSUME NEW q, HeldIn(blocks', q), p # q
        PROVE  p + blocks'[p].size <= q \/ q + blocks'[q].size <= p
    BY <1>1, <1>3, HeldApart
  <1> QED  BY <1>2, <1>3, HeldExtentsNext DEF Heap!Placed

\* The blocks held before and after are the same, but for those of S.
OthersHeld(S) ==
    \A q : q \notin S =>
        /\ HeldIn(blocks', q) <=> HeldIn(blocks, q)
        /\ HeldIn(blocks, q) => blocks'[q].size = blocks[q].size

LEMMA OthersKept ==
    ASSUME NEW S, OthersHeld(S)
    PROVE  Heap!KeepsAllBut(S)
  <1>1. \A q \in DOMAIN HeldExtents' : q \notin S => HeldExtents'[q] = HeldExtents[q]
    BY DEF OthersHeld, HeldExtents, Held, Raws, IsAligned, HeldIn
  <1> QED  BY <1>1, HeldExtentsAre, HeldExtentsNext DEF OthersHeld, Heap!KeepsAllBut

LEMMA MadeHeld ==
    ASSUME Headers(blocks), NEW h, NEW m, NEW hd, Made(h, m, hd),
           NEW made, made = With(blocks, m, hd)
    PROVE  /\ HeldIn(made, m) /\ ~HeldIn(blocks, m)
           /\ \A q : q # m => /\ HeldIn(made, q) <=> HeldIn(blocks, q)
                              /\ HeldIn(blocks, q) => made[q] = blocks[q]
  <1>1. /\ DOMAIN made = DOMAIN blocks \cup {m} /\ made[m] = hd
        /\ \A p \in DOMAIN blocks : made[p] = blocks[p]
        /\ \A p \in DOMAIN made : made[p].moff = ALIGNED_MOFF => made[p].word # m
    <2>1. /\ Adds(made, blocks, m, hd)
          /\ \A p \in DOMAIN made : made[p].moff = ALIGNED_MOFF => made[p].word # m
      BY MadeIs
    <2> QED  BY <2>1 DEF Adds
  <1>2. m \notin DOMAIN blocks /\ hd.moff # ALIGNED_MOFF
    BY DEF Made
  <1> QED  BY <1>1, <1>2 DEF HeldIn

LEMMA ReleasedHeld ==
    ASSUME NEW bl, Headers(bl), NEW p, HeldIn(bl, p), NEW r, r = Home(bl, p),
           NEW new, new = Without(bl, {p, r})
    PROVE  /\ ~HeldIn(new, p)
           /\ \A q : q # p => /\ HeldIn(new, q) <=> HeldIn(bl, q)
                              /\ HeldIn(bl, q) => new[q] = bl[q]
  <1>1. DOMAIN new = DOMAIN bl \ {p, r} /\ \A q \in DOMAIN new : new[q] = bl[q]
    BY DEF Without
  <1>2. p \in DOMAIN bl /\ r \in DOMAIN bl /\ bl[r].moff # ALIGNED_MOFF
    BY HomeIs DEF HeldIn
  <1>3. r = p \/ (bl[p].moff = ALIGNED_MOFF /\ bl[p].word = r)
    BY DEF Home
  <1>4. ~HeldIn(new, p)
    BY <1>1 DEF HeldIn
  <1>5. ASSUME NEW q, q # p, HeldIn(new, q)  PROVE HeldIn(bl, q)
    <2>1. q \in DOMAIN bl /\ q # r
      BY <1>1, <1>5 DEF HeldIn
    <2>2. ASSUME NEW x \in DOMAIN bl, bl[x].moff = ALIGNED_MOFF  PROVE bl[x].word # q
      <3>1. CASE x \in DOMAIN new
        BY <1>1, <1>5, <2>2, <3>1 DEF HeldIn
      <3>2. CASE x = p
        BY <1>2, <1>3, <2>1, <2>2, <3>2
      <3>3. CASE x = r
        BY <1>2, <2>2, <3>3
      <3> QED  BY <1>1, <3>1, <3>2, <3>3
    <2> QED  BY <2>1, <2>2 DEF HeldIn
  <1>6. ASSUME NEW q, q # p, HeldIn(bl, q)  PROVE HeldIn(new, q) /\ new[q] = bl[q]
    <2>1. q # r
      BY <1>2, <1>3, <1>6 DEF HeldIn
    <2> QED  BY <1>1, <1>6, <2>1 DEF HeldIn
  <1> QED  BY <1>4, <1>5, <1>6

LEMMA AllocatesStep ==
    ASSUME Inv', NEW p, ~HeldIn(blocks, p), HeldIn(blocks', p), OthersHeld({p})
    PROVE  Heap!Next
  <1>1. Heap!KeepsAllBut({p}) /\ Heap!Placed(HeldExtents', p)
    BY OthersKept, HeldPlaced
  <1>2. p \notin DOMAIN HeldExtents /\ p \in DOMAIN HeldExtents'
    BY HeldExtentsAre, HeldExtentsNext
  <1> QED  BY <1>1, <1>2 DEF Heap!Next, Heap!Allocate, Heap!KeepsAllBut, Heap!Placed

LEMMA ReleasesStep ==
    ASSUME NEW p, HeldIn(blocks, p), ~HeldIn(blocks', p), OthersHeld({p})
    PROVE  Heap!Next
  <1>1. Heap!KeepsAllBut({p})
    BY OthersKept
  <1>2. p \in DOMAIN HeldExtents /\ p \notin DOMAIN HeldExtents'
    BY HeldExtentsAre, HeldExtentsNext
  <1> QED  BY <1>1, <1>2 DEF Heap!Next, Heap!Release, Heap!KeepsAllBut

LEMMA ResizesStep ==
    ASSUME Inv', NEW p, HeldIn(blocks, p), HeldIn(blocks', p), OthersHeld({p})
    PROVE  Heap!Next
  <1>1. Heap!KeepsAllBut({p}) /\ Heap!Placed(HeldExtents', p)
    BY OthersKept, HeldPlaced
  <1>2. p \in DOMAIN HeldExtents /\ p \in DOMAIN HeldExtents'
    BY HeldExtentsAre, HeldExtentsNext
  <1> QED  BY <1>1, <1>2 DEF Heap!Next, Heap!Resize, Heap!KeepsAllBut, Heap!Placed

LEMMA MovesStep ==
    ASSUME Inv', NEW p, HeldIn(blocks, p), ~HeldIn(blocks', p),
           NEW q, ~HeldIn(blocks, q), HeldIn(blocks', q), OthersHeld({p, q})
    PROVE  Heap!Next
  <1>1. Heap!KeepsAllBut({p, q}) /\ Heap!Placed(HeldExtents', q)
    BY OthersKept, HeldPlaced
  <1>2. /\ p \in DOMAIN HeldExtents /\ p \notin DOMAIN HeldExtents'
        /\ q \notin DOMAIN HeldExtents /\ q \in DOMAIN HeldExtents'
    BY HeldExtentsAre, HeldExtentsNext
  <1> QED  BY <1>1, <1>2 DEF Heap!Next, Heap!Move, Heap!KeepsAllBut, Heap!Placed

LEMMA ServedRefines ==
    ASSUME Inv, Inv', NEW k, NEW r \in Requests(k), Served(r, k)
    PROVE  Heap!Next
  <1>1. PICK h, m, hd : Made(h, m, hd) /\ hd.size = r.n /\ Returns(r, h, m, hd, k)
    BY DEF Served
  <1> DEFINE made == With(blocks, m, hd)
             headers == Handed(r, m, hd)
             up == UserPointer(m, r.align)
  <1>2. Headers(blocks)
    BY InvIs
  <1>3. /\ HeldIn(made, m) /\ ~HeldIn(blocks, m)
        /\ \A q : q # m => /\ HeldIn(made, q) <=> HeldIn(blocks, q)
                           /\ HeldIn(blocks, q) => made[q] = blocks[q]
    <2>1. made = With(blocks, m, hd)
      OBVIOUS
    <2> HIDE DEF made
    <2> QED  BY <1>1, <1>2, <2>1, MadeHeld
  <1>4. /\ r.align = ALIGN => headers = made
        /\ r.align # ALIGN =>
              /\ up \notin DOMAIN made
              /\ Adds(headers, made, up, headers[up])
              /\ headers[up].moff = ALIGNED_MOFF /\ headers[up].word = m
    <2>1. headers = Handed(r, m, hd) /\ up = UserPointer(m, r.align)
      OBVIOUS
    <2> HIDE DEF headers, up
    <2> QED  BY <1>1, <1>2, <2>1, HandedIs
  <1>5. m \in DOMAIN made /\ m \notin DOMAIN blocks /\ Headers(made)
        /\ \A q \in DOMAIN blocks : q \in DOMAIN made
    BY <1>1 DEF With, Made, Agree
  <1>6. /\ r.old = NULL => blocks' = headers
        /\ r.old # NULL => blocks' = Without(headers, {r.old, RawOf(r.old)})
    BY <1>1 DEF Returns
  <1> HIDE DEF made, headers, up
  <1>7. CASE r.old = NULL /\ r.align = ALIGN
    <2>1. blocks' = made
      BY <1>4, <1>6, <1>7
    <2>2. OthersHeld({m})
      BY <1>3, <2>1 DEF OthersHeld
    <2> QED  BY <1>3, <2>1, <2>2, AllocatesStep
  <1>8. CASE r.old = NULL /\ r.align # ALIGN
    <2>1. /\ blocks' = headers
          /\ up \notin DOMAIN made
          /\ DOMAIN headers = DOMAIN made \cup {up}
          /\ \A q \in DOMAIN made : headers[q] = made[q]
          /\ headers[up].moff = ALIGNED_MOFF /\ headers[up].word = m
      BY <1>4, <1>6, <1>8 DEF Adds
    <2>2. ~HeldIn(headers, m)
      BY <2>1 DEF HeldIn
    <2>3. HeldIn(headers, up)
      <3>1. ASSUME NEW q \in DOMAIN made, made[q].moff = ALIGNED_MOFF
            PROVE  made[q].word \in DOMAIN made
        BY <1>5, <3>1 DEF Headers, InOrder
      <3> QED  BY <1>5, <2>1, <3>1 DEF HeldIn
    <2>4. ~HeldIn(blocks, up)
      BY <1>5, <2>1 DEF HeldIn
    <2>5. ASSUME NEW q, q # up, q # m
          PROVE  /\ HeldIn(headers, q) <=> HeldIn(made, q)
                 /\ HeldIn(made, q) => headers[q] = made[q]
      BY <2>1, <2>5 DEF HeldIn
    <2>6. OthersHeld({up})
      BY <1>3, <2>1, <2>2, <2>5 DEF OthersHeld
    <2> QED  BY <2>1, <2>3, <2>4, <2>6, AllocatesStep
  <1>9. CASE r.old # NULL
    <2> DEFINE p == r.old
               raw == RawOf(p)
    <2>1. p \in Held /\ headers = made
      BY <1>4, <1>9, RequestIs
    <2>2. HeldIn(blocks, p) /\ p # m /\ p \in DOMAIN blocks
      BY <1>3, <2>1, HeldIsIn DEF HeldIn
    <2>3. HeldIn(made, p) /\ made[p] = blocks[p]
      BY <1>3, <2>2
    <2>4. raw = Home(made, p) /\ blocks' = Without(made, {p, raw})
      BY <1>6, <1>9, <2>1, <2>3 DEF RawOf, IsAligned, Home
    <2> HIDE DEF p, raw
    <2>5. /\ ~HeldIn(blocks', p)
          /\ \A q : q # p => /\ HeldIn(blocks', q) <=> HeldIn(made, q)
                             /\ HeldIn(made, q) => blocks'[q] = made[q]
      BY <1>5, <2>3, <2>4, ReleasedHeld
    <2>6. OthersHeld({p, m})
      BY <1>3, <2>5 DEF OthersHeld
    <2>7. HeldIn(blocks', m)
      BY <1>3, <2>2, <2>5
    <2> QED  BY <1>3, <2>2, <2>5, <2>6, <2>7, MovesStep
  <1> QED  BY <1>7, <1>8, <1>9

LEMMA FreeRefines ==
    ASSUME Inv, NEW k, NEW p \in Held, Free(p, k)
    PROVE  Heap!Next
  <1>1. HeldIn(blocks, p) /\ p \in DOMAIN blocks
    BY HeldIsIn DEF HeldIn
  <1>2. RawOf(p) = Home(blocks, p) /\ blocks' = Without(blocks, {p, RawOf(p)})
    BY DEF RawOf, IsAligned, Home, Free
  <1>3. /\ ~HeldIn(blocks', p)
        /\ \A q : q # p => /\ HeldIn(blocks', q) <=> HeldIn(blocks, q)
                           /\ HeldIn(blocks, q) => blocks'[q] = blocks[q]
    BY <1>1, <1>2, InvIs, ReleasedHeld
  <1>4. OthersHeld({p})
    BY <1>3 DEF OthersHeld
  <1> QED  BY <1>1, <1>3, <1>4, ReleasesStep

\* A block keeps its place, its header changes; an aligned block is cut from
\* the block it was cut from before.
LEMMA ResizedRefines ==
    ASSUME Inv, Inv', NEW p \in Held, NEW n, NEW word,
           blocks' = [blocks EXCEPT ![p] = Resized(p, n, word)],
           IsAligned(p) => word = blocks[p].word
    PROVE  Heap!Next
  <1>1. HeldIn(blocks, p) /\ p \in DOMAIN blocks
    BY HeldIsIn DEF HeldIn
  <1>2. /\ blocks'[p].moff = blocks[p].moff
        /\ blocks'[p].moff = ALIGNED_MOFF => blocks'[p].word = blocks[p].word
    BY <1>1 DEF Resized, IsAligned
  <1>3. DOMAIN blocks' = DOMAIN blocks /\ \A q \in DOMAIN blocks : q # p => blocks'[q] = blocks[q]
    OBVIOUS
  <1>4. \A q \in DOMAIN blocks :
          /\ blocks'[q].moff = blocks[q].moff
          /\ blocks'[q].moff = ALIGNED_MOFF => blocks'[q].word = blocks[q].word
    BY <1>2, <1>3
  <1>5. \A q : HeldIn(blocks', q) <=> HeldIn(blocks, q)
    BY <1>3, <1>4 DEF HeldIn
  <1>6. OthersHeld({p})
    BY <1>3, <1>5 DEF OthersHeld, HeldIn
  <1> QED  BY <1>1, <1>5, <1>6, ResizesStep

LEMMA ShrinkMappingRefines ==
    ASSUME Inv, Inv', NEW k, NEW p \in Held, NEW n, ShrinkMapping(p, n, k)
    PROVE  Heap!Next
  <1>1. blocks' = [blocks EXCEPT ![p] = Resized(p, n, LargeTotal(n))] /\ ~IsAligned(p)
    BY DEF ShrinkMapping, IsMapping, IsAligned, LARGE_MOFF, ALIGNED_MOFF
  <1> QED  BY <1>1, ResizedRefines

LEMMA GrowMappingRefines ==
    ASSUME Inv, Inv', NEW k, NEW p \in Held, NEW n, GrowMapping(p, n, k)
    PROVE  Heap!Next
  <1>1. blocks' = [blocks EXCEPT ![p] = Resized(p, n, LargeTotal(n))] /\ ~IsAligned(p)
    BY DEF GrowMapping, IsMapping, IsAligned, LARGE_MOFF, ALIGNED_MOFF
  <1> QED  BY <1>1, ResizedRefines

LEMMA SameWordRefines ==
    ASSUME Inv, Inv', NEW p \in Held, NEW n,
           blocks' = [blocks EXCEPT ![p] = Resized(p, n, blocks[p].word)]
    PROVE  Heap!Next
  BY ResizedRefines

\* A call that fails hands nothing out and takes nothing back.
LEMMA HeldUnchanged == ASSUME UNCHANGED blocks  PROVE UNCHANGED HeldExtents
  BY DEF HeldExtents, Held, Raws, IsAligned

LEMMA InitRefines == Init => Heap!Init
  <1> SUFFICES ASSUME Init  PROVE Heap!Init
    OBVIOUS
  <1>1. DOMAIN blocks = {}
    BY DEF Init
  <1>2. Held = {}
    BY <1>1 DEF Held
  <1> QED  BY <1>2 DEF Heap!Init, HeldExtents

LEMMA NextRefines == Inv /\ Inv' /\ [Next]_vars => [Heap!Next]_HeldExtents
  <1> SUFFICES ASSUME Inv, Inv', [Next]_vars, ~(UNCHANGED HeldExtents)
               PROVE  Heap!Next
    OBVIOUS
  <1>1. ASSUME NEW k \in Kernels, NEW r \in Requests(k),
               MallocLarge(r, CacheMap(heap, LargeTotal(r.n), k), k)
        PROVE  Heap!Next
    BY <1>1, LargeServes, ServedRefines
  <1>2. ASSUME NEW k \in Kernels, NEW r \in Requests(k), MallocRetired(r, Started(r, k), k)
        PROVE  Heap!Next
    BY <1>2, RetiredServes, ServedRefines
  <1>3. ASSUME NEW k \in Kernels, NEW r \in Requests(k), MallocListed(r, Walked(r, k), k)
        PROVE  Heap!Next
    BY <1>3, ListedServes, ServedRefines
  <1>4. ASSUME NEW k \in Kernels, NEW r \in Requests(k), MallocBump(r, Walked(r, k), k)
        PROVE  Heap!Next
    BY <1>4, BumpServes, ServedRefines
  <1>5. ASSUME NEW k \in Kernels, NEW r \in Requests(k), MallocPromote(r, Walked(r, k), k)
        PROVE  Heap!Next
    BY <1>5, PromoteServes, ServedRefines
  <1>6. ASSUME NEW k \in Kernels, NEW r \in Requests(k), MallocGrow(r, Walked(r, k), k)
        PROVE  Heap!Next
    BY <1>6, GrowServes, ServedRefines
  <1>7. ASSUME NEW k \in Kernels, NEW r \in Requests(k),
               MallocReplace(r, Walked(r, k), NextPool(Walked(r, k), Want(r.n), k), k)
        PROVE  Heap!Next
    BY <1>7, ReplaceServes, ServedRefines
  <1>8. ASSUME NEW k \in Kernels, NEW r \in Requests(k),
               LargeFails(r, CacheMap(heap, LargeTotal(r.n), k))
        PROVE  UNCHANGED HeldExtents
    BY <1>8, HeldUnchanged DEF LargeFails
  <1>9. ASSUME NEW k \in Kernels, NEW r \in Requests(k), FirstPoolFails(r, Started(r, k))
        PROVE  UNCHANGED HeldExtents
    BY <1>9, HeldUnchanged DEF FirstPoolFails
  <1>10. ASSUME NEW k \in Kernels, NEW r \in Requests(k),
                ReplaceFails(r, Walked(r, k), NextPool(Walked(r, k), Want(r.n), k), k)
         PROVE  UNCHANGED HeldExtents
    BY <1>10, HeldUnchanged DEF ReplaceFails
  <1>11. ASSUME NEW k \in Kernels, NEW p \in Held, Free(p, k)  PROVE Heap!Next
    BY <1>11, FreeRefines
  <1>12. ASSUME NEW k \in Kernels, NEW p \in Held, NEW n \in Sizes \ {0}, ShrinkMapping(p, n, k)
         PROVE  Heap!Next
    BY <1>12, ShrinkMappingRefines
  <1>13. ASSUME NEW k \in Kernels, NEW p \in Held, NEW n \in Sizes \ {0}, ShrinkPooled(p, n, k)
         PROVE  Heap!Next
    BY <1>13, SameWordRefines DEF ShrinkPooled
  <1>14. ASSUME NEW p \in Held, NEW n \in Sizes \ {0}, ShrinkAligned(p, n)  PROVE Heap!Next
    BY <1>14, SameWordRefines DEF ShrinkAligned
  <1>15. ASSUME NEW p \in Held, NEW n \in Sizes \ {0}, GrowInMapping(p, n)  PROVE Heap!Next
    BY <1>15, SameWordRefines DEF GrowInMapping
  <1>16. ASSUME NEW k \in Kernels, NEW p \in Held, NEW n \in Sizes \ {0}, GrowMapping(p, n, k)
         PROVE  Heap!Next
    BY <1>16, GrowMappingRefines
  <1>17. ASSUME UNCHANGED vars  PROVE UNCHANGED HeldExtents
    BY <1>17, HeldUnchanged DEF vars
  <1> QED  BY <1>1, <1>2, <1>3, <1>4, <1>5, <1>6, <1>7, <1>8, <1>9, <1>10, <1>11, <1>12,
              <1>13, <1>14, <1>15, <1>16, <1>17 DEF Next

\* malloc.c keeps what a heap promises its callers: a call changes the extent
\* of the one block it is about, a moving realloc() replaces it by the new one,
\* a failed call changes none, and what is handed out meets no other extent.
THEOREM ImplementsAHeap == Spec => ImplementsHeapSpec
  <1>1. Inv /\ Inv' /\ [Next]_vars => [Heap!Next]_HeldExtents
    BY NextRefines
  <1>2. Init => Heap!Init
    BY InitRefines
  <1> QED  BY <1>1, <1>2, Invariance, PTL DEF Spec, ImplementsHeapSpec, Heap!Spec

===============================================================================
