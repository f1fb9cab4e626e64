-------------------------- MODULE NoosMallocProofs --------------------------
(***************************************************************************)
(* Proofs about NoosMalloc for every heap size, request size, alignment    *)
(* and set of threads.                                                     *)
(***************************************************************************)
EXTENDS NoosMalloc, NumberFacts, TLAPS

(***************************************************************************)
(* A heap value in order: the facts of TypeOK and ChunksApart about heap h *)
(* below break b, and those of Coalesced.                                  *)
(***************************************************************************)
WellFormed(h, b) ==
    /\ h = [size |-> h.size, free |-> h.free]
    /\ h.size = [c \in DOMAIN h.size |-> h.size[c]]
    /\ DOMAIN h.size \subseteq Nat
    /\ \A c \in DOMAIN h.size : h.size[c] \in Nat \ {0}
    /\ h.free \subseteq DOMAIN h.size
    /\ \A c, d \in DOMAIN h.size : c < d => c + h.size[c] <= d
    /\ \A c \in DOMAIN h.size : c + h.size[c] <= b

Merged(h) == \A c, d \in h.free : c + h.size[c] # d

Aligned(h) ==
    \A c \in DOMAIN h.size : c % MALLOC_ALIGN = 0 /\ h.size[c] % MALLOC_ALIGN = 0

UsedOf(h) == DOMAIN h.size \ h.free

(***************************************************************************)
(* The walk of release() finds a neighbour exactly when one touches.       *)
(***************************************************************************)
LEMMA NextMergedIs ==
    ASSUME NEW h, NEW b \in Nat, WellFormed(h, b),
           NEW c \in DOMAIN h.size
    PROVE  NextMerged(h, c) = h.free \cap {c + h.size[c]}
  BY DEF NextMerged, IsNext, ChunkEnd, WellFormed

LEMMA BeforeMergedIs ==
    ASSUME NEW h, NEW b \in Nat, WellFormed(h, b),
           NEW c \in DOMAIN h.size
    PROVE  BeforeMerged(h, c) = {x \in h.free : x + h.size[x] = c}
  <1>1. ASSUME NEW x \in h.free, x + h.size[x] = c
        PROVE  IsBefore(h, x, c)
    <2>1. x < c
      BY <1>1 DEF WellFormed
    <2>2. ASSUME NEW y \in h.free, y < c  PROVE  y <= x
      BY <1>1, <2>2 DEF WellFormed
    <2> QED  BY <2>1, <2>2 DEF IsBefore
  <1> QED  BY <1>1 DEF BeforeMerged, ChunkEnd

(***************************************************************************)
(* What release() does to a heap in order: it stays in order and merged,   *)
(* and of the chunks in use only the released one is gone.                 *)
(***************************************************************************)
LEMMA ReleaseKeeps ==
    ASSUME NEW h, NEW b \in Nat, WellFormed(h, b),
           NEW c \in DOMAIN h.size, c \notin h.free
    PROVE  /\ WellFormed(Release(h, c), b)
           /\ Merged(h) => Merged(Release(h, c))
           /\ Aligned(h) => Aligned(Release(h, c))
           /\ UsedOf(Release(h, c)) = UsedOf(h) \ {c}
           /\ \A d \in UsedOf(h) \ {c} : Release(h, c).size[d] = h.size[d]
  <1> DEFINE n == c + h.size[c]
             next == h.free \cap {n}
             before == {x \in h.free : x + h.size[x] = c}
             end == IF next = {} THEN n ELSE n + h.size[n]
             start == IF before = {} THEN c ELSE CHOOSE x \in before : TRUE
             merged == next \cup (IF before = {} THEN {} ELSE {c})
             r == Release(h, c)
  <1>1. /\ r = [size |-> [x \in DOMAIN h.size \ merged |->
                             IF x = start THEN end - start ELSE h.size[x]],
                free |-> (h.free \ next) \cup {start}]
    <2>1. NextMerged(h, c) = next
      BY NextMergedIs
    <2>2. BeforeMerged(h, c) = before
      BY BeforeMergedIs
    <2>3. ChunkEnd(h, c) = n /\ ChunkEnd(h, n) = n + h.size[n]
      BY DEF ChunkEnd
    <2> HIDE DEF next, before, n
    <2> QED  BY <2>1, <2>2, <2>3 DEF Release
  <1>2. /\ r.size = [x \in DOMAIN h.size \ merged |->
                          IF x = start THEN end - start ELSE h.size[x]]
        /\ r.free = (h.free \ next) \cup {start}
        /\ DOMAIN r.size = DOMAIN h.size \ merged
    BY <1>1
  <1>3. /\ start \in DOMAIN h.size
        /\ start \in Nat
        /\ before # {} => start \in before
        /\ start <= c
        /\ start \notin merged
    BY DEF WellFormed
  <1>4. /\ c \in Nat
        /\ n \in Nat
        /\ end \in Nat
        /\ c < n
        /\ n <= end
        /\ end <= b
        /\ next # {} => n \in h.free /\ n \in DOMAIN h.size
    BY DEF WellFormed
  <1> HIDE DEF start, end, r
  <1>5. \A x \in DOMAIN r.size :
           r.size[x] = IF x = start THEN end - start ELSE h.size[x]
    BY <1>2
  \* Nothing that remains lies strictly inside the merged chunk.
  <1>6. \A x \in DOMAIN r.size \ {start} : x + h.size[x] <= start \/ end <= x
    <2> SUFFICES ASSUME NEW x \in DOMAIN h.size \ merged, x # start
                 PROVE  x + h.size[x] <= start \/ end <= x
      BY <1>2
    <2>1. CASE x < start
      <3>1. x + h.size[x] <= start
        BY <2>1, <1>3 DEF WellFormed
      <3> QED  BY <3>1
    <2>2. CASE start < x
      <3>1. c < x
        <4>1. CASE before = {}
          BY <4>1, <2>2 DEF start
        <4>2. CASE before # {}
          <5>1. start + h.size[start] = c /\ x # c
            BY <4>2, <1>3
          <5>2. start + h.size[start] <= x
            BY <2>2, <1>3 DEF WellFormed
          <5> QED  BY <5>1, <5>2, <1>3, <1>4 DEF WellFormed
        <4> QED  BY <4>1, <4>2
      <3>2. n <= x
        BY <3>1, <1>4 DEF WellFormed
      <3>3. CASE next = {}
        BY <3>2, <3>3 DEF end
      <3>4. CASE next # {}
        <4>1. n < x
          BY <3>2, <3>4, <1>4 DEF WellFormed
        <4>2. n + h.size[n] <= x
          BY <4>1, <3>4, <1>4 DEF WellFormed
        <4> QED  BY <4>2, <3>4 DEF end
      <3> QED  BY <3>3, <3>4
    <2> QED  BY <2>1, <2>2, <1>3 DEF WellFormed
  <1>7. WellFormed(r, b)
    <2>1. r = [size |-> r.size, free |-> r.free]
      BY <1>1, <1>2
    <2>2. r.size = [x \in DOMAIN r.size |-> r.size[x]]
      BY <1>2
    <2>3. DOMAIN r.size \subseteq Nat
      BY <1>2 DEF WellFormed
    <2>4. \A x \in DOMAIN r.size : r.size[x] \in Nat \ {0}
      BY <1>2, <1>5, <1>3, <1>4 DEF WellFormed
    <2>5. r.free \subseteq DOMAIN r.size
      BY <1>2, <1>3 DEF WellFormed
    <2>6. \A x, y \in DOMAIN r.size : x < y => x + r.size[x] <= y
      <3> SUFFICES ASSUME NEW x \in DOMAIN r.size, NEW y \in DOMAIN r.size, x < y
                   PROVE  x + r.size[x] <= y
        OBVIOUS
      <3>1. CASE x = start
        <4>1. y + h.size[y] > start
          BY <3>1, <1>2 DEF WellFormed
        <4>2. end <= y
          BY <1>6, <3>1, <4>1, <1>2 DEF WellFormed
        <4> QED  BY <4>2, <3>1, <1>5, <1>3, <1>4
      <3>2. CASE x # start
        BY <3>2, <1>5, <1>2 DEF WellFormed
      <3> QED  BY <3>1, <3>2
    <2>7. \A x \in DOMAIN r.size : x + r.size[x] <= b
      BY <1>2, <1>3, <1>4, <1>5 DEF WellFormed
    <2> QED  BY <2>1, <2>2, <2>3, <2>4, <2>5, <2>6, <2>7 DEF WellFormed
  <1>8. ASSUME Merged(h)  PROVE  Merged(r)
    <2> SUFFICES ASSUME NEW x \in r.free, NEW y \in r.free, x + r.size[x] = y
                 PROVE  FALSE
      BY DEF Merged
    <2>1. x \in DOMAIN r.size /\ y \in DOMAIN r.size
      BY <1>7 DEF WellFormed
    <2>2. CASE x = start
      <3>1. end = y
        BY <2>2, <2>1, <1>5, <1>3, <1>4
      <3>2. y \in h.free \ next
        BY <3>1, <1>2, <1>3, <1>4
      <3>3. CASE next = {}
        BY <3>1, <3>2, <3>3 DEF end
      <3>4. CASE next # {}
        BY <3>1, <3>2, <3>4, <1>4, <1>8 DEF end, Merged
      <3> QED  BY <3>3, <3>4
    <2>3. CASE x # start
      <3>1. x \in h.free /\ r.size[x] = h.size[x]
        BY <2>3, <2>1, <1>2, <1>5
      <3>2. CASE y # start
        BY <3>1, <3>2, <1>2, <1>8 DEF Merged
      <3>3. CASE y = start
        <4>1. CASE before = {}
          BY <4>1, <3>1, <3>3 DEF start
        <4>2. CASE before # {}
          BY <4>2, <3>1, <3>3, <1>3, <1>8 DEF Merged
        <4> QED  BY <4>1, <4>2
      <3> QED  BY <3>2, <3>3
    <2> QED  BY <2>2, <2>3
  <1>9. UsedOf(r) = UsedOf(h) \ {c}
    BY <1>2, <1>3, <1>4 DEF UsedOf, WellFormed, start
  <1>10. \A d \in UsedOf(h) \ {c} : r.size[d] = h.size[d]
    <2> SUFFICES ASSUME NEW d \in UsedOf(h), d # c  PROVE  r.size[d] = h.size[d]
      OBVIOUS
    <2>1. d \in DOMAIN r.size
      BY <1>9 DEF UsedOf
    <2>2. d # start
      BY <1>3 DEF UsedOf, start
    <2> QED  BY <2>1, <2>2, <1>5
  <1>11. ASSUME Aligned(h)  PROVE  Aligned(r)
    <2>1. MALLOC_ALIGN \in Nat \ {0}
      BY NoosMallocAssumption
    <2>2. n % MALLOC_ALIGN = 0
      BY <1>11, <2>1, MultiplesAdd DEF Aligned, WellFormed
    <2>3. end % MALLOC_ALIGN = 0
      <3>1. CASE next = {}
        BY <3>1, <2>2 DEF end
      <3>2. CASE next # {}
        <4>1. n \in DOMAIN h.size
          BY <3>2, <1>4
        <4>2. h.size[n] % MALLOC_ALIGN = 0 /\ h.size[n] \in Int
          BY <4>1, <1>11 DEF Aligned, WellFormed
        <4>3. (n + h.size[n]) % MALLOC_ALIGN = 0
          <5> HIDE DEF n
          <5> QED  BY <4>2, <2>1, <2>2, <1>4, MultiplesAdd
        <4> QED  BY <4>3, <3>2 DEF end
      <3> QED  BY <3>1, <3>2
    <2>4. start % MALLOC_ALIGN = 0
      BY <1>11, <1>3 DEF Aligned
    <2>5. (end - start) % MALLOC_ALIGN = 0
      <3>1. end \in Int /\ start \in Int
        BY <1>3, <1>4
      <3> QED  BY <3>1, <2>1, <2>3, <2>4, MultiplesAdd
    <2> QED  BY <1>2, <1>5, <1>11, <2>5 DEF Aligned
  <1> QED  BY <1>7, <1>8, <1>9, <1>10, <1>11 DEF r

(***************************************************************************)
(* Cutting a chunk in two leaves the heap in order; the free chunks stay.  *)
(***************************************************************************)
LEMMA SplitKeeps ==
    ASSUME NEW h, NEW b \in Nat, WellFormed(h, b),
           NEW c \in DOMAIN h.size,
           NEW s \in Nat \ {0}, s < h.size[c]
    PROVE  LET r == Split(h, c, s)
           IN  /\ WellFormed(r, b)
               /\ c + s \notin DOMAIN h.size
               /\ DOMAIN r.size = DOMAIN h.size \cup {c + s}
               /\ r.free = h.free
               /\ r.size[c] = s
               /\ r.size[c + s] = h.size[c] - s
               /\ \A d \in DOMAIN h.size \ {c} : r.size[d] = h.size[d]
               /\ (Aligned(h) /\ s % MALLOC_ALIGN = 0) => Aligned(r)
  <1> DEFINE r == Split(h, c, s)
  <1>1. c \in Nat /\ c + s \in Nat /\ c < c + s /\ h.size[c] - s \in Nat \ {0}
    BY DEF WellFormed
  <1>2. c + s \notin DOMAIN h.size
    BY <1>1 DEF WellFormed
  <1>3. /\ r = [size |-> r.size, free |-> r.free]
        /\ r.free = h.free
        /\ r.size = [x \in DOMAIN h.size \cup {c + s} |->
                       CASE x = c     -> s
                         [] x = c + s -> h.size[c] - s
                         [] OTHER     -> h.size[x]]
    <2>1. h = [size |-> h.size, free |-> h.free]
      BY DEF WellFormed
    <2>2. r = [h EXCEPT !.size = [x \in DOMAIN h.size \cup {c + s} |->
                                     CASE x = c     -> s
                                       [] x = c + s -> h.size[c] - s
                                       [] OTHER     -> h.size[x]]]
      BY DEF Split
    <2> HIDE DEF r
    <2> QED  BY <2>1, <2>2
  <1> HIDE DEF r
  <1>4. DOMAIN r.size = DOMAIN h.size \cup {c + s}
    BY <1>3
  <1>5. r.size[c] = s
    BY <1>1, <1>3
  <1>6. r.size[c + s] = h.size[c] - s
    BY <1>3, <1>4, <1>1
  <1>7. \A d \in DOMAIN h.size \ {c} : r.size[d] = h.size[d]
    BY <1>3, <1>4, <1>2
  <1>8. WellFormed(r, b)
    <2>1. \A x \in DOMAIN r.size : r.size[x] \in Nat \ {0}
      BY <1>1, <1>4, <1>5, <1>6, <1>7 DEF WellFormed
    <2>2. \A x, y \in DOMAIN r.size : x < y => x + r.size[x] <= y
      <3> SUFFICES ASSUME NEW x \in DOMAIN r.size, NEW y \in DOMAIN r.size, x < y
                   PROVE  x + r.size[x] <= y
        OBVIOUS
      <3>1. CASE x = c
        BY <3>1, <1>1, <1>4, <1>5 DEF WellFormed
      <3>2. CASE x = c + s
        BY <3>2, <1>1, <1>4, <1>6 DEF WellFormed
      <3>3. CASE x # c /\ x # c + s
        <4>1. x \in DOMAIN h.size \ {c} /\ r.size[x] = h.size[x]
          BY <3>3, <1>4, <1>7
        <4>2. CASE y = c + s
          BY <4>1, <4>2, <1>1, <1>2 DEF WellFormed
        <4>3. CASE y # c + s
          BY <4>1, <4>3, <1>4 DEF WellFormed
        <4> QED  BY <4>2, <4>3
      <3> QED  BY <3>1, <3>2, <3>3
    <2>3. \A x \in DOMAIN r.size : x + r.size[x] <= b
      BY <1>1, <1>4, <1>5, <1>6, <1>7 DEF WellFormed
    <2>4. r.free \subseteq DOMAIN r.size /\ DOMAIN r.size \subseteq Nat
      BY <1>1, <1>3, <1>4 DEF WellFormed
    <2>5. r.size = [x \in DOMAIN r.size |-> r.size[x]]
      BY <1>3
    <2> QED  BY <2>1, <2>2, <2>3, <2>4, <2>5, <1>3 DEF WellFormed
  <1>9. ASSUME Aligned(h), s % MALLOC_ALIGN = 0  PROVE  Aligned(r)
    <2>1. MALLOC_ALIGN \in Nat \ {0}
      BY NoosMallocAssumption
    <2>2. c % MALLOC_ALIGN = 0 /\ h.size[c] % MALLOC_ALIGN = 0 /\ h.size[c] \in Int
      BY <1>9 DEF Aligned, WellFormed
    <2>3. (c + s) % MALLOC_ALIGN = 0 /\ (h.size[c] - s) % MALLOC_ALIGN = 0
      BY <2>1, <2>2, <1>1, <1>9, MultiplesAdd
    <2> QED  BY <2>2, <2>3, <1>4, <1>5, <1>6, <1>7, <1>9 DEF Aligned
  <1> QED  BY <1>2, <1>3, <1>4, <1>5, <1>6, <1>7, <1>8, <1>9 DEF r

(***************************************************************************)
(* Everything the operations keep of the heap, and what an operation that  *)
(* changes only chunk c may do to the chunks in use.                       *)
(***************************************************************************)
InOrder(h, b) == WellFormed(h, b) /\ Merged(h) /\ Aligned(h)

KeepsUsedBut(h, r, c) ==
    \A d \in UsedOf(h) \ {c} : r.size[d] = h.size[d]

(***************************************************************************)
(* trim() keeps the chunk, at least as long as it was told.                *)
(***************************************************************************)
LEMMA TrimKeeps ==
    ASSUME NEW h, NEW b \in Nat, InOrder(h, b),
           NEW c \in UsedOf(h),
           NEW s \in Nat \ {0}, s <= h.size[c], s % MALLOC_ALIGN = 0
    PROVE  LET r == Trim(h, c, s)
           IN  /\ InOrder(r, b)
               /\ UsedOf(r) = UsedOf(h)
               /\ r.size[c] \in Nat
               /\ r.size[c] >= s
               /\ KeepsUsedBut(h, r, c)
  <1>1. c \in DOMAIN h.size /\ c \notin h.free /\ c \in Nat /\ h.size[c] \in Nat
    BY DEF UsedOf, InOrder, WellFormed
  <1>2. MIN_CHUNK \in Nat \ {0}
    BY NoosMallocAssumption
  <1>3. CASE h.size[c] - s < MIN_CHUNK
    BY <1>1, <1>3 DEF Trim, KeepsUsedBut
  <1>4. CASE ~(h.size[c] - s < MIN_CHUNK)
    <2> DEFINE m == Split(h, c, s)
               r == Release(m, c + s)
    <2>1. Trim(h, c, s) = r
      BY <1>4 DEF Trim
    <2>2. s < h.size[c]
      BY <1>1, <1>2, <1>4
    <2>3. /\ WellFormed(m, b)
          /\ Aligned(m)
          /\ c + s \notin DOMAIN h.size
          /\ DOMAIN m.size = DOMAIN h.size \cup {c + s}
          /\ m.free = h.free
          /\ m.size[c] = s
          /\ \A d \in DOMAIN h.size \ {c} : m.size[d] = h.size[d]
      BY <1>1, <2>2, SplitKeeps DEF InOrder
    <2>4. Merged(m)
      BY <1>1, <2>3 DEF InOrder, Merged, WellFormed
    <2>5. c + s \in DOMAIN m.size /\ c + s \notin m.free
      BY <2>3 DEF InOrder, WellFormed
    <2> HIDE DEF m
    <2>6. /\ InOrder(r, b)
          /\ UsedOf(r) = UsedOf(m) \ {c + s}
          /\ \A d \in UsedOf(m) \ {c + s} : r.size[d] = m.size[d]
      BY <2>3, <2>4, <2>5, ReleaseKeeps DEF InOrder
    <2> HIDE DEF r
    <2>7. UsedOf(m) \ {c + s} = UsedOf(h)
      BY <2>3 DEF UsedOf
    <2>8. r.size[c] = s
      BY <2>3, <2>6, <2>7
    <2>9. KeepsUsedBut(h, r, c)
      BY <2>3, <2>6, <2>7 DEF KeepsUsedBut, UsedOf
    <2> QED  BY <2>1, <2>6, <2>7, <2>8, <2>9
  <1> QED  BY <1>3, <1>4

(***************************************************************************)
(* Taking a chunk: it was not in use, it is now, it is long enough, and    *)
(* the other chunks in use are as they were.                               *)
(***************************************************************************)
Took(c, s) ==
    /\ InOrder(heap', brk')
    /\ brk' \in Nat
    /\ c \notin UsedOf(heap)
    /\ UsedOf(heap') = UsedOf(heap) \cup {c}
    /\ heap'.size[c] >= s
    /\ KeepsUsedBut(heap, heap', c)

LEMMA TakeFitKeeps ==
    ASSUME InOrder(heap, brk), brk \in Nat,
           NEW c, NEW s \in Nat \ {0}, s % MALLOC_ALIGN = 0, TakeFit(c, s)
    PROVE  Took(c, s)
  <1>1. /\ c \in heap.free /\ c \in DOMAIN heap.size /\ c \in Nat
        /\ heap.size[c] \in Nat /\ heap.size[c] >= s
        /\ brk' = brk
    BY DEF TakeFit, FirstFit, Fits, InOrder, WellFormed
  <1>2. MIN_CHUNK \in Nat \ {0}
    BY NoosMallocAssumption
  <1>3. heap = [size |-> heap.size, free |-> heap.free]
    BY DEF InOrder, WellFormed
  <1>4. CASE heap.size[c] - s >= MIN_CHUNK
    <2> DEFINE m == Split(heap, c, s)
    <2>1. heap' = [m EXCEPT !.free = (@ \ {c}) \cup {c + s}]
      BY <1>4 DEF TakeFit
    <2>2. s < heap.size[c]
      BY <1>1, <1>2, <1>4
    <2>3. /\ WellFormed(m, brk)
          /\ Aligned(m)
          /\ c + s \notin DOMAIN heap.size
          /\ DOMAIN m.size = DOMAIN heap.size \cup {c + s}
          /\ m.free = heap.free
          /\ m.size[c] = s
          /\ m.size[c + s] = heap.size[c] - s
          /\ \A d \in DOMAIN heap.size \ {c} : m.size[d] = heap.size[d]
      BY <1>1, <2>2, SplitKeeps DEF InOrder
    <2> HIDE DEF m
    <2>4. /\ heap' = [size |-> m.size, free |-> (m.free \ {c}) \cup {c + s}]
          /\ heap'.size = m.size
          /\ heap'.free = (m.free \ {c}) \cup {c + s}
      <3>1. m = [size |-> m.size, free |-> m.free]
        BY <2>3 DEF WellFormed
      <3> QED  BY <3>1, <2>1
    <2>5. WellFormed(heap', brk')
      BY <2>3, <2>4, <1>1 DEF WellFormed
    <2>6. Aligned(heap')
      BY <2>3, <2>4 DEF Aligned
    <2>7. Merged(heap')
      <3> SUFFICES ASSUME NEW x \in heap'.free, NEW y \in heap'.free,
                          x + heap'.size[x] = y
                   PROVE  FALSE
        BY DEF Merged
      <3>1. x \in DOMAIN m.size /\ y \in DOMAIN m.size
        BY <2>4, <2>3 DEF WellFormed
      <3>2. CASE x = c + s
        <4>1. c + heap.size[c] = y
          BY <3>2, <2>3, <2>4, <1>1
        <4>2. y \in heap.free
          BY <3>2, <4>1, <2>3, <2>4, <1>1, <2>2
        <4> QED  BY <4>1, <4>2, <1>1 DEF InOrder, Merged
      <3>3. CASE x # c + s
        <4>1. x \in heap.free /\ heap'.size[x] = heap.size[x]
          BY <3>3, <2>3, <2>4, <1>1 DEF InOrder, WellFormed
        <4>2. CASE y = c + s
          <5>1. x < c \/ c < x
            BY <4>1, <3>3, <2>4, <2>3, <1>1 DEF InOrder, WellFormed
          <5> QED  BY <5>1, <4>1, <4>2, <1>1 DEF InOrder, WellFormed
        <4>3. CASE y # c + s
          BY <4>1, <4>3, <2>3, <2>4 DEF InOrder, Merged
        <4> QED  BY <4>2, <4>3
      <3> QED  BY <3>2, <3>3
    <2>8. UsedOf(heap') = UsedOf(heap) \cup {c} /\ c \notin UsedOf(heap)
      BY <2>3, <2>4, <1>1, <2>2 DEF UsedOf
    <2>9. KeepsUsedBut(heap, heap', c)
      BY <2>3, <2>4 DEF KeepsUsedBut, UsedOf
    <2>10. heap'.size[c] >= s
      BY <2>3, <2>4
    <2> QED  BY <2>5, <2>6, <2>7, <2>8, <2>9, <2>10, <1>1 DEF Took, InOrder
  <1>5. CASE ~(heap.size[c] - s >= MIN_CHUNK)
    <2>1. heap' = [heap EXCEPT !.free = @ \ {c}]
      BY <1>5 DEF TakeFit
    <2>2. heap' = [size |-> heap.size, free |-> heap.free \ {c}]
      BY <2>1, <1>3
    <2>3. heap'.size = heap.size /\ heap'.free = heap.free \ {c}
      BY <2>2
    <2>4. InOrder(heap', brk')
      BY <2>2, <2>3, <1>1 DEF InOrder, WellFormed, Merged, Aligned
    <2>5. UsedOf(heap') = UsedOf(heap) \cup {c} /\ c \notin UsedOf(heap)
      BY <2>3, <1>1 DEF UsedOf
    <2>6. KeepsUsedBut(heap, heap', c)
      BY <2>3 DEF KeepsUsedBut
    <2>7. heap'.size[c] >= s
      BY <2>3, <1>1
    <2> QED  BY <2>4, <2>5, <2>6, <2>7, <1>1 DEF Took
  <1> QED  BY <1>4, <1>5

LEMMA TakeTopKeeps ==
    ASSUME InOrder(heap, brk), brk \in Nat,
           NEW c, NEW s \in Nat \ {0}, s % MALLOC_ALIGN = 0, TakeTop(c, s)
    PROVE  Took(c, s)
  <1>1. /\ c \in heap.free /\ c \in DOMAIN heap.size /\ c \in Nat
        /\ heap.size[c] \in Nat /\ heap.size[c] < s
        /\ c + heap.size[c] = brk
        /\ brk' = brk + (s - heap.size[c])
        /\ brk' \in Nat /\ brk < brk' /\ c + s = brk'
    BY DEF TakeTop, TopAtBreak, NoneFits, Fits, ChunkEnd, InOrder, WellFormed
  <1>2. /\ heap' = [size |-> [heap.size EXCEPT ![c] = s], free |-> heap.free \ {c}]
        /\ heap'.size = [heap.size EXCEPT ![c] = s]
        /\ heap'.free = heap.free \ {c}
        /\ heap' = [size |-> heap'.size, free |-> heap'.free]
    BY DEF TakeTop
  <1>3. /\ DOMAIN heap'.size = DOMAIN heap.size
        /\ heap'.size[c] = s
        /\ \A d \in DOMAIN heap.size \ {c} : heap'.size[d] = heap.size[d]
        /\ heap'.size = [d \in DOMAIN heap'.size |-> heap'.size[d]]
    BY <1>1, <1>2 DEF InOrder, WellFormed
  \* The last chunk ends at the break, so every other one ends before it.
  <1>4. \A d \in DOMAIN heap.size \ {c} : d + heap.size[d] <= c
    BY <1>1 DEF InOrder, WellFormed
  <1>5. WellFormed(heap', brk')
    <2>1. \A d \in DOMAIN heap'.size : heap'.size[d] \in Nat \ {0}
      BY <1>1, <1>3 DEF InOrder, WellFormed
    <2>2. \A d, e \in DOMAIN heap'.size : d < e => d + heap'.size[d] <= e
      BY <1>1, <1>3, <1>4 DEF InOrder, WellFormed
    <2>3. \A d \in DOMAIN heap'.size : d + heap'.size[d] <= brk'
      BY <1>1, <1>3, <1>4 DEF InOrder, WellFormed
    <2> QED  BY <1>2, <1>3, <2>1, <2>2, <2>3 DEF InOrder, WellFormed
  <1>6. Merged(heap')
    BY <1>1, <1>2, <1>3 DEF InOrder, WellFormed, Merged
  <1>7. Aligned(heap')
    BY <1>3 DEF InOrder, Aligned
  <1>8. UsedOf(heap') = UsedOf(heap) \cup {c} /\ c \notin UsedOf(heap)
    BY <1>1, <1>2, <1>3 DEF UsedOf
  <1>9. KeepsUsedBut(heap, heap', c)
    BY <1>3 DEF KeepsUsedBut, UsedOf
  <1>10. heap'.size[c] >= s
    BY <1>3
  <1> QED  BY <1>1, <1>5, <1>6, <1>7, <1>8, <1>9, <1>10 DEF Took, InOrder

LEMMA TakeBreakKeeps ==
    ASSUME InOrder(heap, brk), brk \in Nat,
           NEW c, NEW s \in Nat \ {0}, s % MALLOC_ALIGN = 0, TakeBreak(c, s)
    PROVE  Took(c, s)
  <1>1. /\ c = brk + BrkPad
        /\ brk' = brk + BrkPad + s
        /\ heap' = [heap EXCEPT !.size = [x \in DOMAIN heap.size \cup {c} |->
                                             IF x = c THEN s ELSE heap.size[x]]]
    BY DEF TakeBreak
  <1>2. MALLOC_ALIGN \in Nat \ {0}
    BY NoosMallocAssumption
  <1>3. BrkPad \in Nat /\ (brk + BrkPad) % MALLOC_ALIGN = 0
    BY <1>2, PaddingReaches DEF BrkPad, PadTo
  <1>4. c \in Nat /\ brk <= c /\ brk' \in Nat /\ brk' = c + s /\ c % MALLOC_ALIGN = 0
    BY <1>1, <1>3
  <1>5. c \notin DOMAIN heap.size
    BY <1>4 DEF InOrder, WellFormed
  <1>6. /\ heap' = [size |-> heap'.size, free |-> heap'.free]
        /\ heap'.free = heap.free
        /\ heap'.size = [x \in DOMAIN heap.size \cup {c} |->
                            IF x = c THEN s ELSE heap.size[x]]
    <2>1. heap = [size |-> heap.size, free |-> heap.free]
      BY DEF InOrder, WellFormed
    <2> QED  BY <2>1, <1>1
  <1>7. /\ DOMAIN heap'.size = DOMAIN heap.size \cup {c}
        /\ heap'.size[c] = s
        /\ \A d \in DOMAIN heap.size : heap'.size[d] = heap.size[d]
        /\ heap'.size = [d \in DOMAIN heap'.size |-> heap'.size[d]]
    BY <1>5, <1>6
  <1>8. WellFormed(heap', brk')
    <2>1. \A d \in DOMAIN heap'.size : heap'.size[d] \in Nat \ {0}
      BY <1>7 DEF InOrder, WellFormed
    <2>2. \A d \in DOMAIN heap.size : d + heap.size[d] <= c
      BY <1>4 DEF InOrder, WellFormed
    <2>3. \A d, e \in DOMAIN heap'.size : d < e => d + heap'.size[d] <= e
      BY <1>4, <1>7, <2>2 DEF InOrder, WellFormed
    <2>4. \A d \in DOMAIN heap'.size : d + heap'.size[d] <= brk'
      BY <1>4, <1>7, <2>2 DEF InOrder, WellFormed
    <2> QED  BY <1>4, <1>6, <1>7, <2>1, <2>3, <2>4 DEF InOrder, WellFormed
  <1>9. Merged(heap')
    BY <1>6, <1>7 DEF InOrder, WellFormed, Merged
  <1>10. Aligned(heap')
    BY <1>4, <1>7 DEF InOrder, Aligned
  <1>11. UsedOf(heap') = UsedOf(heap) \cup {c} /\ c \notin UsedOf(heap)
    BY <1>5, <1>6, <1>7 DEF UsedOf, InOrder, WellFormed
  <1>12. KeepsUsedBut(heap, heap', c)
    BY <1>7 DEF KeepsUsedBut, UsedOf
  <1>13. heap'.size[c] >= s
    BY <1>7
  <1> QED  BY <1>4, <1>8, <1>9, <1>10, <1>11, <1>12, <1>13 DEF Took, InOrder

LEMMA TakeKeeps ==
    ASSUME InOrder(heap, brk), brk \in Nat,
           NEW c, NEW s \in Nat \ {0}, s % MALLOC_ALIGN = 0, Take(c, s)
    PROVE  Took(c, s)
  BY TakeFitKeeps, TakeTopKeeps, TakeBreakKeeps DEF Take

(***************************************************************************)
(* A chunk size that is not the error value has room for the header and    *)
(* what was asked for, and keeps what follows aligned.                     *)
(***************************************************************************)
LEMMA ChunkSizeForIs ==
    ASSUME NEW n \in Nat, ChunkSizeFor(n) # 0
    PROVE  /\ ChunkSizeFor(n) \in Nat \ {0}
           /\ ChunkSizeFor(n) % MALLOC_ALIGN = 0
           /\ ChunkSizeFor(n) >= n + HEADER
  <1>1. /\ MALLOC_ALIGN \in Nat \ {0} /\ HEADER \in Nat \ {0}
        /\ MIN_CHUNK \in Nat /\ MIN_CHUNK % MALLOC_ALIGN = 0
    BY NoosMallocAssumption
  <1> DEFINE s == RoundUp(n + HEADER, MALLOC_ALIGN)
  <1>2. s \in Nat /\ s >= n + HEADER /\ s % MALLOC_ALIGN = 0
    <2>1. n + HEADER \in Nat
      BY <1>1
    <2> DEFINE x == n + HEADER
    <2> HIDE DEF x
    <2>2. x \in Nat
      BY <2>1 DEF x
    <2>3. RoundUp(x, MALLOC_ALIGN) \in Nat /\ RoundUp(x, MALLOC_ALIGN) >= x
          /\ RoundUp(x, MALLOC_ALIGN) % MALLOC_ALIGN = 0
      BY <2>2, <1>1, PaddingReaches DEF RoundUp, PadTo
    <2> QED  BY <2>3 DEF x
  <1> HIDE DEF s
  <1>3. ChunkSizeFor(n) = IF s < MIN_CHUNK THEN MIN_CHUNK ELSE s
    BY DEF ChunkSizeFor, s
  <1> QED  BY <1>1, <1>2, <1>3

(***************************************************************************)
(* The blocks bl and the chunks in use of heap h: one each, the pointer    *)
(* and what was asked for inside the chunk, past the header.               *)
(***************************************************************************)
BlocksOK(h, bl) ==
    /\ bl = [p \in DOMAIN bl |-> bl[p]]
    /\ DOMAIN bl \subseteq Nat \ {NULL}
    /\ \A p \in DOMAIN bl : bl[p] \in [chunk : Nat, asked : Nat]
    /\ \A p \in DOMAIN bl : bl[p].chunk \in UsedOf(h)
    /\ \A p, q \in DOMAIN bl : bl[p].chunk = bl[q].chunk => p = q
    /\ \A c \in UsedOf(h) : \E p \in DOMAIN bl : bl[p].chunk = c
    /\ \A p \in DOMAIN bl : /\ bl[p].chunk + HEADER <= p
                             /\ p + bl[p].asked <= bl[p].chunk + h.size[bl[p].chunk]
                             /\ p % MALLOC_ALIGN = 0

LEMMA HeaderIs == HEADER \in Nat \ {0} /\ MALLOC_ALIGN \in Nat \ {0}
                  /\ HEADER % MALLOC_ALIGN = 0
  BY NoosMallocAssumption

LEMMA AddBlock ==
    ASSUME InOrder(heap, brk), brk \in Nat, BlocksOK(heap, blocks),
           NEW c, NEW s \in Nat, Took(c, s),
           NEW p \in Nat, NEW n \in Nat,
           c + HEADER <= p, p + n <= c + s, p % MALLOC_ALIGN = 0
    PROVE  p \notin DOMAIN blocks /\ BlocksOK(heap', WithBlock(p, c, n))
  <1>1. /\ c \in UsedOf(heap') /\ c \notin UsedOf(heap) /\ c \in Nat
        /\ heap'.size[c] \in Nat /\ heap'.size[c] >= s
        /\ UsedOf(heap') = UsedOf(heap) \cup {c}
        /\ \A d \in UsedOf(heap) : heap'.size[d] = heap.size[d]
    BY DEF Took, InOrder, WellFormed, UsedOf, KeepsUsedBut
  <1>2. ASSUME NEW q \in DOMAIN blocks  PROVE  q # p
    <2> DEFINE d == blocks[q].chunk
    <2>1. /\ d \in UsedOf(heap) /\ d \in UsedOf(heap') /\ d \in Nat /\ d # c
          /\ heap'.size[d] \in Nat
          /\ q \in Nat /\ d + HEADER <= q /\ q <= d + heap'.size[d]
      BY <1>1 DEF BlocksOK, InOrder, WellFormed, UsedOf
    <2>2. (d < c => d + heap'.size[d] <= c) /\ (c < d => c + heap'.size[c] <= d)
      BY <1>1, <2>1 DEF Took, InOrder, WellFormed, UsedOf
    <2> HIDE DEF d
    <2> QED  BY <1>1, <2>1, <2>2, HeaderIs
  <1> DEFINE bl == WithBlock(p, c, n)
  <1>3. /\ bl = [x \in DOMAIN bl |-> bl[x]]
        /\ DOMAIN bl = DOMAIN blocks \cup {p}
        /\ bl[p] = [chunk |-> c, asked |-> n]
        /\ \A q \in DOMAIN blocks : bl[q] = blocks[q]
    BY <1>2 DEF WithBlock
  <1> HIDE DEF bl
  <1>4. p # NULL
    BY <1>1, HeaderIs DEF NULL
  <1>5. \A q \in DOMAIN bl : bl[q] \in [chunk : Nat, asked : Nat]
    BY <1>1, <1>3 DEF BlocksOK
  <1>6. \A q \in DOMAIN bl : bl[q].chunk \in UsedOf(heap')
    BY <1>1, <1>3 DEF BlocksOK
  <1>7. \A q, r \in DOMAIN bl : bl[q].chunk = bl[r].chunk => q = r
    BY <1>1, <1>3 DEF BlocksOK
  <1>8. \A d \in UsedOf(heap') : \E q \in DOMAIN bl : bl[q].chunk = d
    BY <1>1, <1>3 DEF BlocksOK
  <1>9. ASSUME NEW q \in DOMAIN bl
        PROVE  /\ bl[q].chunk + HEADER <= q
               /\ q + bl[q].asked <= bl[q].chunk + heap'.size[bl[q].chunk]
               /\ q % MALLOC_ALIGN = 0
    <2>1. CASE q = p
      BY <2>1, <1>1, <1>3
    <2>2. CASE q # p
      BY <2>2, <1>1, <1>3 DEF BlocksOK
    <2> QED  BY <2>1, <2>2
  <1>10. DOMAIN bl \subseteq Nat \ {NULL}
    BY <1>3, <1>4 DEF BlocksOK
  <1>11. BlocksOK(heap', bl)
    BY <1>3, <1>5, <1>6, <1>7, <1>8, <1>9, <1>10 DEF BlocksOK
  <1> QED  BY <1>2, <1>11 DEF bl

LEMMA DropBlock ==
    ASSUME InOrder(heap, brk), brk \in Nat, BlocksOK(heap, blocks),
           NEW p \in DOMAIN blocks
    PROVE  LET h == Release(heap, blocks[p].chunk)
           IN  /\ InOrder(h, brk)
               /\ BlocksOK(h, WithoutBlock(p))
               /\ KeepsUsedBut(heap, h, blocks[p].chunk)
  <1> DEFINE c == blocks[p].chunk
             h == Release(heap, c)
             bl == WithoutBlock(p)
  <1>1. c \in DOMAIN heap.size /\ c \notin heap.free /\ c \in UsedOf(heap)
    BY DEF BlocksOK, UsedOf
  <1>2. /\ InOrder(h, brk)
        /\ UsedOf(h) = UsedOf(heap) \ {c}
        /\ \A d \in UsedOf(heap) \ {c} : h.size[d] = heap.size[d]
    <2> HIDE DEF c
    <2> QED  BY <1>1, ReleaseKeeps DEF InOrder
  <1> HIDE DEF h
  <1>3. /\ bl = [x \in DOMAIN bl |-> bl[x]]
        /\ DOMAIN bl = DOMAIN blocks \ {p}
        /\ \A q \in DOMAIN bl : bl[q] = blocks[q]
    BY DEF WithoutBlock
  <1> HIDE DEF bl
  <1>4. \A q \in DOMAIN bl : blocks[q].chunk # c
    BY <1>3 DEF BlocksOK
  <1>5. \A q \in DOMAIN bl : bl[q].chunk \in UsedOf(h)
    BY <1>2, <1>3, <1>4 DEF BlocksOK
  <1>6. \A d \in UsedOf(h) : \E q \in DOMAIN bl : bl[q].chunk = d
    BY <1>2, <1>3 DEF BlocksOK
  <1>7. \A q \in DOMAIN bl : h.size[bl[q].chunk] = heap.size[blocks[q].chunk]
    BY <1>2, <1>3, <1>4 DEF BlocksOK
  <1>8. BlocksOK(h, bl)
    BY <1>3, <1>5, <1>6, <1>7 DEF BlocksOK
  <1> QED  BY <1>2, <1>8 DEF h, bl, KeepsUsedBut

LEMMA ResizeBlock ==
    ASSUME InOrder(heap, brk), BlocksOK(heap, blocks),
           NEW p \in DOMAIN blocks, NEW n \in Nat, NEW h,
           UsedOf(h) = UsedOf(heap),
           KeepsUsedBut(heap, h, blocks[p].chunk),
           h.size[blocks[p].chunk] \in Nat,
           p + n <= blocks[p].chunk + h.size[blocks[p].chunk]
    PROVE  BlocksOK(h, [blocks EXCEPT ![p].asked = n])
  <1> DEFINE bl == [blocks EXCEPT ![p].asked = n]
  <1>1. /\ bl = [x \in DOMAIN bl |-> bl[x]]
        /\ DOMAIN bl = DOMAIN blocks
        /\ bl[p] = [blocks[p] EXCEPT !.asked = n]
        /\ \A q \in DOMAIN blocks \ {p} : bl[q] = blocks[q]
    BY DEF BlocksOK
  <1> HIDE DEF bl
  <1>2. /\ bl[p] \in [chunk : Nat, asked : Nat]
        /\ bl[p].chunk = blocks[p].chunk
        /\ bl[p].asked = n
    BY <1>1 DEF BlocksOK
  <1>3. \A q \in DOMAIN blocks : bl[q].chunk = blocks[q].chunk
    BY <1>1, <1>2
  <1>4. ASSUME NEW q \in DOMAIN bl
        PROVE  /\ bl[q].chunk + HEADER <= q
               /\ q + bl[q].asked <= bl[q].chunk + h.size[bl[q].chunk]
               /\ q % MALLOC_ALIGN = 0
    <2>1. CASE q = p
      BY <2>1, <1>2 DEF BlocksOK
    <2>2. CASE q # p
      <3>1. blocks[q].chunk \in UsedOf(heap) \ {blocks[p].chunk}
        BY <2>2, <1>1 DEF BlocksOK
      <3>2. h.size[blocks[q].chunk] = heap.size[blocks[q].chunk]
        BY <3>1 DEF KeepsUsedBut
      <3> QED  BY <2>2, <3>2, <1>1 DEF BlocksOK
    <2> QED  BY <2>1, <2>2
  <1>5. \A q \in DOMAIN bl : bl[q] \in [chunk : Nat, asked : Nat]
    BY <1>1, <1>2 DEF BlocksOK
  <1>6. BlocksOK(h, bl)
    BY <1>1, <1>3, <1>4, <1>5 DEF BlocksOK
  <1> QED  BY <1>6 DEF bl

-------------------------------------------------------------------------------
(***************************************************************************)
(* The inductive invariant.                                                *)
(***************************************************************************)
Inv ==
    /\ brk \in Nat
    /\ InOrder(heap, brk)
    /\ BlocksOK(heap, blocks)
    /\ moves \in [Threads -> [p : Nat, n : Nat, q : Nat]]
    /\ MovesPinned

LEMMA InvInit == Init => Inv
  <1> SUFFICES ASSUME Init  PROVE  Inv
    OBVIOUS
  <1>1. brk \in Nat
    BY NoosMallocAssumption DEF Init
  <1>2. /\ heap = [size |-> [c \in {} |-> 0], free |-> {}]
        /\ heap.size = [c \in {} |-> 0] /\ heap.free = {}
        /\ DOMAIN heap.size = {}
    BY DEF Init
  <1>3. InOrder(heap, brk)
    BY <1>2 DEF InOrder, WellFormed, Merged, Aligned
  <1>4. DOMAIN blocks = {} /\ UsedOf(heap) = {} /\ blocks = [p \in DOMAIN blocks |-> blocks[p]]
    BY <1>2 DEF Init, UsedOf
  <1>5. BlocksOK(heap, blocks)
    BY <1>4 DEF BlocksOK
  <1>6. moves \in [Threads -> [p : Nat, n : Nat, q : Nat]] /\ MovesPinned
    BY DEF Init, Idle, NULL, MovesPinned, Copying
  <1> QED  BY <1>1, <1>3, <1>5, <1>6 DEF Inv

(***************************************************************************)
(* A pinned move stays pinned while other blocks come and go.              *)
(***************************************************************************)
LEMMA PinnedWhileOthersChange ==
    ASSUME Inv, UNCHANGED moves,
           \A p \in DOMAIN blocks :
              Moving(p) => p \in DOMAIN blocks' /\ blocks'[p] = blocks[p]
    PROVE  moves' \in [Threads -> [p : Nat, n : Nat, q : Nat]] /\ MovesPinned'
  <1>1. \A t \in Threads : moves'[t] = moves[t]
    OBVIOUS
  <1>2. \A t \in Threads : moves[t].p # NULL =>
           moves[t].p \in DOMAIN blocks /\ Moving(moves[t].p)
    BY DEF Inv, MovesPinned, Moving
  <1>3. \A t \in Threads : Copying(t) =>
           /\ moves[t].q \in DOMAIN blocks /\ Moving(moves[t].q)
           /\ blocks'[moves[t].q] = blocks[moves[t].q]
    BY DEF Inv, MovesPinned, Moving
  <1>4. \A t \in Threads : Copying(t)' = Copying(t)
    BY DEF Copying
  <1> QED  BY <1>1, <1>2, <1>3, <1>4 DEF Inv, MovesPinned

LEMMA MemalignStep ==
    ASSUME Inv, NEW a \in Alignments, NEW n \in Sizes, Memalign(a, n)
    PROVE  /\ Inv'
           /\ \E c \in Nat, s \in Nat, p \in Nat : 
                 p \notin DOMAIN blocks /\ Took(c, s) /\ blocks' = WithBlock(p, c, n)
  <1> DEFINE m == n + a - MALLOC_ALIGN
             s == ChunkSizeFor(m)
  <1>1. /\ a \in Nat \ {0} /\ a % MALLOC_ALIGN = 0 /\ MALLOC_ALIGN \in Nat \ {0}
        /\ n \in Nat
    BY NoosMallocAssumption
  <1>2. \A x \in Int : x % MALLOC_ALIGN = 0 => (-x) % a <= a - MALLOC_ALIGN
    <2> TAKE x \in Int
    <2> HAVE x % MALLOC_ALIGN = 0
    <2> QED  BY <1>1, PaddingInSteps, Zenon
  <1>3. m \in Nat
    <2>1. 0 % MALLOC_ALIGN = 0
      BY <1>1
    <2>2. (-0) % a <= a - MALLOC_ALIGN
      BY <2>1, <1>2
    <2>3. (-0) % a \in Nat
      BY <1>1, PaddingReaches
    <2> QED  BY <2>2, <2>3, <1>1
  <1>4. s \in Nat \ {0} /\ s % MALLOC_ALIGN = 0 /\ s >= m + HEADER
    <2> HIDE DEF m
    <2>1. ChunkSizeFor(m) # 0
      BY DEF Memalign, m
    <2> QED  BY <2>1, <1>3, ChunkSizeForIs
  <1>5. PICK c \in Candidates :
           Take(c, s) /\ blocks' = WithBlock(RoundUp(c + HEADER, a), c, n)
    BY DEF Memalign
  <1> HIDE DEF s
  <1>6. Took(c, s)
    BY <1>4, <1>5, TakeKeeps DEF Inv
  <1>7. c \in Nat /\ c % MALLOC_ALIGN = 0
    BY <1>6 DEF Took, InOrder, WellFormed, Aligned, UsedOf
  <1> DEFINE x == c + HEADER
             p == RoundUp(x, a)
  <1>8. x \in Nat /\ x % MALLOC_ALIGN = 0
    <2>1. c \in Int /\ HEADER \in Int
      BY <1>7, HeaderIs
    <2>2. (c + HEADER) % MALLOC_ALIGN = 0
      BY <2>1, <1>7, HeaderIs, MultiplesAdd, Zenon
    <2> QED  BY <2>2, <1>7, HeaderIs
  <1>9. p \in Nat /\ x <= p /\ p + n <= c + s /\ p % MALLOC_ALIGN = 0
    <2> HIDE DEF x
    <2>0. x \in Int
      BY <1>8
    <2>1. (-x) % a \in Nat /\ (-x) % a <= a - MALLOC_ALIGN /\ (x + ((-x) % a)) % a = 0
      BY <2>0, <1>8, <1>2, <1>1, PaddingReaches, Zenon
    <2>2. p = x + ((-x) % a)
      BY DEF RoundUp, PadTo
    <2>3. p \in Nat /\ x <= p /\ p % a = 0 /\ p <= x + a - MALLOC_ALIGN
      BY <2>1, <2>2, <1>8, <1>1
    <2> HIDE DEF p
    <2>4. p % MALLOC_ALIGN = 0
      <3>1. p \in Int
        BY <2>3
      <3> QED  BY <3>1, <2>3, <1>1, MultiplesChain, Zenon
    <2>5. p + n <= c + s
      BY <2>3, <1>1, <1>4, <1>7, HeaderIs DEF x
    <2> QED  BY <2>3, <2>4, <2>5
  <1> HIDE DEF p
  <1>10. p \notin DOMAIN blocks /\ BlocksOK(heap', WithBlock(p, c, n))
    BY <1>1, <1>4, <1>6, <1>9, AddBlock DEF Inv, x
  <1>11. blocks' = WithBlock(p, c, n)
    BY <1>5 DEF p, x
  <1>12. moves' \in [Threads -> [p : Nat, n : Nat, q : Nat]] /\ MovesPinned'
    <2>1. \A y \in DOMAIN blocks : y \in DOMAIN blocks' /\ blocks'[y] = blocks[y]
      BY <1>10, <1>11 DEF WithBlock
    <2>2. UNCHANGED moves
      BY DEF Memalign
    <2> QED  BY <2>1, <2>2, PinnedWhileOthersChange
  <1>13. Inv'
    BY <1>6, <1>10, <1>11, <1>12 DEF Inv, Took
  <1> QED  BY <1>4, <1>6, <1>7, <1>9, <1>10, <1>11, <1>13

LEMMA FreeStep ==
    ASSUME Inv, NEW p \in DOMAIN blocks, Free(p)
    PROVE  Inv'
  <1>1. /\ ~Moving(p)
        /\ heap' = Release(heap, blocks[p].chunk)
        /\ blocks' = WithoutBlock(p)
        /\ UNCHANGED <<brk, moves>>
    BY DEF Free
  <1>2. InOrder(heap', brk') /\ BlocksOK(heap', blocks')
    BY <1>1, DropBlock DEF Inv
  <1>3. moves' \in [Threads -> [p : Nat, n : Nat, q : Nat]] /\ MovesPinned'
    BY <1>1, PinnedWhileOthersChange DEF WithoutBlock
  <1> QED  BY <1>1, <1>2, <1>3 DEF Inv

(***************************************************************************)
(* What the three ways of resizing a block in place have in common.        *)
(***************************************************************************)
ResizesInPlace(p, n) ==
    /\ ~Moving(p)
    /\ brk' \in Nat
    /\ InOrder(heap', brk')
    /\ KeepsUsedBut(heap, heap', blocks[p].chunk)
    /\ BlocksOK(heap', blocks')
    /\ blocks' = [blocks EXCEPT ![p].asked = n]
    /\ UNCHANGED moves

\* It is enough that the chunk in use stays the one it was and long enough.
LEMMA ResizeInPlace ==
    ASSUME Inv, NEW p \in DOMAIN blocks, NEW n \in Nat,
           ~Moving(p), IsPlain(p), ChunkSizeFor(n) # 0,
           brk' \in Nat, InOrder(heap', brk'),
           UsedOf(heap') = UsedOf(heap),
           KeepsUsedBut(heap, heap', blocks[p].chunk),
           heap'.size[blocks[p].chunk] \in Nat,
           heap'.size[blocks[p].chunk] >= ChunkSizeFor(n),
           blocks' = [blocks EXCEPT ![p].asked = n],
           UNCHANGED moves
    PROVE  Inv' /\ ResizesInPlace(p, n)
  <1> DEFINE c == blocks[p].chunk
  <1>1. c \in Nat /\ p = c + HEADER
    BY DEF Inv, BlocksOK, IsPlain
  <1>2. p + n <= c + heap'.size[c]
    BY <1>1, ChunkSizeForIs, HeaderIs
  <1>3. BlocksOK(heap', blocks')
    BY <1>2, ResizeBlock DEF Inv
  <1>4. moves' \in [Threads -> [p : Nat, n : Nat, q : Nat]] /\ MovesPinned'
    BY PinnedWhileOthersChange DEF Inv, BlocksOK
  <1> QED  BY <1>3, <1>4 DEF Inv, ResizesInPlace

LEMMA ReallocShrinkStep ==
    ASSUME Inv, NEW p \in DOMAIN blocks, NEW n \in Sizes, ReallocShrink(p, n)
    PROVE  Inv' /\ ResizesInPlace(p, n)
  <1> DEFINE c == blocks[p].chunk
             s == ChunkSizeFor(n)
  <1>1. n \in Nat /\ c \in UsedOf(heap)
    BY NoosMallocAssumption DEF Inv, BlocksOK
  <1>2. /\ ~Moving(p) /\ IsPlain(p) /\ s # 0
        /\ heap.size[c] >= s
        /\ heap' = Trim(heap, c, s)
        /\ blocks' = [blocks EXCEPT ![p].asked = n]
        /\ UNCHANGED <<brk, moves>>
    BY DEF ReallocShrink, Resized
  <1>3. s \in Nat \ {0} /\ s % MALLOC_ALIGN = 0 /\ s <= heap.size[c]
    BY <1>1, <1>2, ChunkSizeForIs DEF Inv, InOrder, WellFormed, UsedOf
  <1>4. /\ InOrder(heap', brk)
        /\ UsedOf(heap') = UsedOf(heap)
        /\ heap'.size[c] \in Nat /\ heap'.size[c] >= s
        /\ KeepsUsedBut(heap, heap', c)
    <2> HIDE DEF s, c
    <2> QED  BY <1>1, <1>2, <1>3, TrimKeeps DEF Inv
  <1> QED  BY <1>1, <1>2, <1>4, ResizeInPlace DEF Inv

(***************************************************************************)
(* A chunk with the free one after it taken in is one chunk in order.      *)
(***************************************************************************)
LEMMA AbsorbedInOrder ==
    ASSUME NEW b \in Nat, WellFormed(heap, b),
           NEW c \in DOMAIN heap.size, c \notin heap.free, ChunkEnd(heap, c) \in heap.free
    PROVE  /\ WellFormed(Absorbed(c), b)
           /\ c \in DOMAIN Absorbed(c).size /\ c \notin Absorbed(c).free
           /\ Absorbed(c).size[c] = heap.size[c] + heap.size[ChunkEnd(heap, c)]
  <1> DEFINE f == c + heap.size[c]
             h == Absorbed(c)
  <1>1. /\ f = ChunkEnd(heap, c) /\ f \in DOMAIN heap.size /\ c \in Nat /\ f \in Nat /\ c < f
        /\ heap.size[c] \in Nat \ {0} /\ heap.size[f] \in Nat \ {0}
    BY DEF WellFormed, ChunkEnd
  <1>2. /\ h = [size |-> h.size, free |-> h.free]
        /\ h.free = heap.free \ {f}
        /\ h.size = [x \in DOMAIN heap.size \ {f} |->
                       IF x = c THEN heap.size[c] + heap.size[f] ELSE heap.size[x]]
    BY DEF Absorbed, ChunkEnd
  <1> HIDE DEF h
  <1>3. /\ DOMAIN h.size = DOMAIN heap.size \ {f}
        /\ h.size[c] = heap.size[c] + heap.size[f]
        /\ \A d \in DOMAIN h.size \ {c} : h.size[d] = heap.size[d]
        /\ h.size = [x \in DOMAIN h.size |-> h.size[x]]
    BY <1>1, <1>2
  <1>4. \A x \in DOMAIN h.size : h.size[x] \in Nat \ {0}
    BY <1>1, <1>3 DEF WellFormed
  <1>5. ASSUME NEW x \in DOMAIN h.size, NEW y \in DOMAIN h.size, x < y
        PROVE  x + h.size[x] <= y
    <2>1. CASE x = c
      <3>1. c < y /\ y # f /\ y \in DOMAIN heap.size
        BY <2>1, <1>3, <1>5
      <3>2. f <= y
        BY <3>1 DEF WellFormed
      <3>3. f + heap.size[f] <= y
        BY <3>1, <3>2, <1>1 DEF WellFormed
      <3> QED  BY <3>3, <2>1, <1>1, <1>3
    <2>2. CASE x # c
      BY <2>2, <1>3, <1>5 DEF WellFormed
    <2> QED  BY <2>1, <2>2
  <1>6. \A x \in DOMAIN h.size : x + h.size[x] <= b
    <2>1. f + heap.size[f] <= b
      BY <1>1 DEF WellFormed
    <2> QED  BY <2>1, <1>1, <1>3 DEF WellFormed
  <1>7. h.free \subseteq DOMAIN h.size /\ DOMAIN h.size \subseteq Nat
    BY <1>2, <1>3 DEF WellFormed
  <1>8. WellFormed(h, b)
    BY <1>2, <1>3, <1>4, <1>5, <1>6, <1>7 DEF WellFormed
  <1> QED  BY <1>1, <1>2, <1>3, <1>8 DEF h

LEMMA ReallocAbsorbStep ==
    ASSUME Inv, NEW p \in DOMAIN blocks, NEW n \in Sizes, ReallocAbsorb(p, n)
    PROVE  Inv' /\ ResizesInPlace(p, n)
  <1> DEFINE c == blocks[p].chunk
             s == ChunkSizeFor(n)
             f == c + heap.size[c]
             h == Absorbed(c)
  <1>1. /\ n \in Nat /\ c \in UsedOf(heap) /\ c \in DOMAIN heap.size /\ c \notin heap.free
        /\ c \in Nat /\ heap.size[c] \in Nat \ {0}
    BY NoosMallocAssumption DEF Inv, BlocksOK, UsedOf, InOrder, WellFormed
  <1>2. /\ ~Moving(p) /\ IsPlain(p) /\ s # 0
        /\ f \in heap.free
        /\ heap.size[c] + heap.size[f] >= s
        /\ heap' = Trim(h, c, s)
        /\ blocks' = [blocks EXCEPT ![p].asked = n]
        /\ UNCHANGED <<brk, moves>>
    BY DEF ReallocAbsorb, Resized, CanAbsorb, ChunkEnd
  <1>3. /\ f \in DOMAIN heap.size /\ f \in Nat /\ c < f /\ heap.size[f] \in Nat \ {0}
        /\ f + heap.size[f] = c + (heap.size[c] + heap.size[f])
    BY <1>1, <1>2 DEF Inv, InOrder, WellFormed
  <1>4. /\ h = [size |-> h.size, free |-> h.free]
        /\ h.free = heap.free \ {f}
        /\ h.size = [x \in DOMAIN heap.size \ {f} |->
                       IF x = c THEN heap.size[c] + heap.size[f] ELSE heap.size[x]]
    BY DEF Absorbed, ChunkEnd
  <1> HIDE DEF h
  <1>5. /\ DOMAIN h.size = DOMAIN heap.size \ {f}
        /\ h.size[c] = heap.size[c] + heap.size[f]
        /\ \A d \in DOMAIN h.size \ {c} : h.size[d] = heap.size[d]
        /\ h.size = [x \in DOMAIN h.size |-> h.size[x]]
    <2> HIDE DEF c, f
    <2>1. c \in DOMAIN heap.size \ {f}
      BY <1>1, <1>3
    <2>2. h.size = [x \in DOMAIN heap.size \ {f} |->
                      IF x = c THEN heap.size[c] + heap.size[f] ELSE heap.size[x]]
      BY <1>4
    <2> QED  BY ONLY <2>1, <2>2
  <1>6. WellFormed(h, brk)
    <2>1. ChunkEnd(heap, c) \in heap.free
      BY <1>2 DEF ChunkEnd
    <2> QED  BY <2>1, <1>1, AbsorbedInOrder DEF h, Inv, InOrder
  <1>7. Merged(h)
    <2>1. Merged(heap) /\ WellFormed(heap, brk)
      BY DEF Inv, InOrder
    <2>2. h.free = heap.free \ {f}
      BY <1>4
    <2> HIDE DEF c, f
    <2> QED  BY ONLY <2>1, <2>2, <1>1, <1>3, <1>5 DEF WellFormed, Merged
  <1>8. Aligned(h)
    <2>1. /\ heap.size[c] % MALLOC_ALIGN = 0 /\ heap.size[f] % MALLOC_ALIGN = 0
          /\ heap.size[c] \in Int /\ heap.size[f] \in Int
      BY <1>1, <1>3 DEF Inv, InOrder, Aligned
    <2>2. (heap.size[c] + heap.size[f]) % MALLOC_ALIGN = 0
      BY <2>1, HeaderIs, MultiplesAdd
    <2> QED  BY <2>2, <1>5 DEF Inv, InOrder, Aligned
  <1>9. UsedOf(h) = UsedOf(heap) /\ KeepsUsedBut(heap, h, c)
    BY <1>2, <1>4, <1>5 DEF UsedOf, KeepsUsedBut
  <1>10. s \in Nat \ {0} /\ s % MALLOC_ALIGN = 0 /\ s <= h.size[c]
    BY <1>1, <1>2, <1>3, <1>5, ChunkSizeForIs
  <1>11. /\ InOrder(heap', brk)
         /\ UsedOf(heap') = UsedOf(h)
         /\ heap'.size[c] \in Nat /\ heap'.size[c] >= s
         /\ KeepsUsedBut(h, heap', c)
    <2> HIDE DEF s, c
    <2>1. InOrder(h, brk) /\ c \in UsedOf(h)
      BY <1>1, <1>6, <1>7, <1>8, <1>9 DEF InOrder
    <2> QED  BY <2>1, <1>2, <1>10, TrimKeeps DEF Inv
  <1>12. KeepsUsedBut(heap, heap', c)
    BY <1>9, <1>11 DEF KeepsUsedBut
  <1> QED  BY <1>1, <1>2, <1>9, <1>11, <1>12, ResizeInPlace DEF Inv

LEMMA ReallocExtendStep ==
    ASSUME Inv, NEW p \in DOMAIN blocks, NEW n \in Sizes, ReallocExtend(p, n)
    PROVE  Inv' /\ ResizesInPlace(p, n)
  <1> DEFINE c == blocks[p].chunk
             s == ChunkSizeFor(n)
  <1>1. /\ n \in Nat /\ c \in UsedOf(heap) /\ c \in DOMAIN heap.size /\ c \notin heap.free
        /\ c \in Nat /\ heap.size[c] \in Nat \ {0}
    BY NoosMallocAssumption DEF Inv, BlocksOK, UsedOf, InOrder, WellFormed
  <1>2. /\ ~Moving(p) /\ IsPlain(p) /\ s # 0
        /\ heap.size[c] < s
        /\ c + heap.size[c] = brk
        /\ heap' = [heap EXCEPT !.size[c] = s]
        /\ brk' = brk + (s - heap.size[c])
        /\ blocks' = [blocks EXCEPT ![p].asked = n]
        /\ UNCHANGED moves
    BY DEF ReallocExtend, Resized, CanExtend, ChunkEnd
  <1>3. s \in Nat \ {0} /\ s % MALLOC_ALIGN = 0
    BY <1>1, <1>2, ChunkSizeForIs
  <1> HIDE DEF s, c
  <1>4. brk' \in Nat /\ brk < brk' /\ c + s = brk'
    BY <1>1, <1>2, <1>3 DEF Inv
  <1>5. /\ heap' = [size |-> heap'.size, free |-> heap'.free]
        /\ heap'.free = heap.free
        /\ heap'.size = [heap.size EXCEPT ![c] = s]
    <2>1. heap = [size |-> heap.size, free |-> heap.free]
      BY DEF Inv, InOrder, WellFormed
    <2> QED  BY <2>1, <1>2
  <1>6. /\ DOMAIN heap'.size = DOMAIN heap.size
        /\ heap'.size[c] = s
        /\ \A d \in DOMAIN heap.size \ {c} : heap'.size[d] = heap.size[d]
        /\ heap'.size = [d \in DOMAIN heap'.size |-> heap'.size[d]]
    BY <1>1, <1>5 DEF Inv, InOrder, WellFormed
  <1>7. \A d \in DOMAIN heap.size \ {c} : d + heap.size[d] <= c
    <2> TAKE d \in DOMAIN heap.size \ {c}
    <2>1. d \in Nat /\ heap.size[d] \in Nat \ {0} /\ d + heap.size[d] <= brk
      BY DEF Inv, InOrder, WellFormed
    <2>2. ~(c < d)
      <3>1. c < d => c + heap.size[c] <= d
        BY <1>1 DEF Inv, InOrder, WellFormed
      <3> QED  BY <3>1, <2>1, <1>1, <1>2 DEF Inv
    <2>3. d < c
      BY <2>1, <2>2, <1>1
    <2> QED  BY <2>3, <1>1 DEF Inv, InOrder, WellFormed
  <1>8. WellFormed(heap', brk')
    <2>1. \A d \in DOMAIN heap'.size : heap'.size[d] \in Nat \ {0}
      BY <1>3, <1>6 DEF Inv, InOrder, WellFormed
    <2>2. \A d, e \in DOMAIN heap'.size : d < e => d + heap'.size[d] <= e
      BY <1>1, <1>6, <1>7 DEF Inv, InOrder, WellFormed
    <2>3. \A d \in DOMAIN heap'.size : d + heap'.size[d] <= brk'
      BY <1>1, <1>3, <1>4, <1>6, <1>7 DEF Inv, InOrder, WellFormed
    <2> QED  BY <1>5, <1>6, <2>1, <2>2, <2>3 DEF Inv, InOrder, WellFormed
  <1>9. Merged(heap')
    BY <1>1, <1>5, <1>6 DEF Inv, InOrder, WellFormed, Merged
  <1>10. Aligned(heap')
    BY <1>3, <1>6 DEF Inv, InOrder, Aligned
  <1>11. UsedOf(heap') = UsedOf(heap) /\ KeepsUsedBut(heap, heap', c)
    BY <1>5, <1>6 DEF UsedOf, KeepsUsedBut
  <1>12. InOrder(heap', brk') /\ heap'.size[c] \in Nat /\ heap'.size[c] >= s
    BY <1>3, <1>6, <1>8, <1>9, <1>10 DEF InOrder
  <1> QED  BY <1>1, <1>2, <1>4, <1>11, <1>12, ResizeInPlace DEF c, s

(***************************************************************************)
(* The three critical sections of a realloc that moves.                    *)
(***************************************************************************)
LEMMA ReallocMustMoveStep ==
    ASSUME Inv, NEW t \in Threads, NEW p \in DOMAIN blocks, NEW n \in Sizes,
           ReallocMustMove(t, p, n)
    PROVE  Inv' /\ UNCHANGED <<heap, blocks>>
  <1>1. /\ moves[t] = Idle /\ ~Moving(p)
        /\ moves' = [moves EXCEPT ![t] = [p |-> p, n |-> n, q |-> NULL]]
        /\ UNCHANGED <<heap, brk, blocks>>
    BY DEF ReallocMustMove
  <1>2. n \in Nat /\ p \in Nat /\ p # NULL
    BY NoosMallocAssumption DEF Inv, BlocksOK
  <1>3. moves' \in [Threads -> [p : Nat, n : Nat, q : Nat]]
    BY <1>1, <1>2 DEF Inv, NULL
  <1>4. /\ moves'[t] = [p |-> p, n |-> n, q |-> NULL]
        /\ \A u \in Threads \ {t} : moves'[u] = moves[u]
    BY <1>1 DEF Inv
  <1>5. \A u \in Threads : moves'[u].p # NULL => moves'[u].p \in DOMAIN blocks'
    BY <1>1, <1>4 DEF Inv, MovesPinned
  <1>6. \A u \in Threads : Copying(u)' =>
           /\ u # t
           /\ Copying(u)
    BY <1>4 DEF Copying
  <1>7. \A u, v \in Threads : u # v =>
          {moves'[u].p, moves'[u].q} \cap {moves'[v].p, moves'[v].q} \subseteq {NULL}
    <2> TAKE u, v \in Threads
    <2> HAVE u # v
    <2>1. CASE u = t
      BY <2>1, <1>1, <1>4 DEF Moving
    <2>2. CASE v = t
      BY <2>2, <1>1, <1>4 DEF Moving
    <2>3. CASE u # t /\ v # t
      BY <2>3, <1>4 DEF Inv, MovesPinned
    <2> QED  BY <2>1, <2>2, <2>3
  <1>8. MovesPinned'
    BY <1>1, <1>4, <1>5, <1>6, <1>7 DEF Inv, MovesPinned
  <1> QED  BY <1>1, <1>3, <1>8 DEF Inv

LEMMA ReallocAllocateStep ==
    ASSUME Inv, NEW t \in Threads, ReallocAllocate(t)
    PROVE  /\ Inv'
           /\ \E c \in Nat, s \in Nat, p \in Nat :
                 /\ p \notin DOMAIN blocks /\ Took(c, s)
                 /\ blocks' = WithBlock(p, c, moves[t].n)
  <1> DEFINE n == moves[t].n
             s == ChunkSizeFor(n)
  <1>1. PICK c \in Candidates :
           /\ s # 0
           /\ Take(c, s)
           /\ blocks' = WithBlock(c + HEADER, c, n)
           /\ moves' = [moves EXCEPT ![t].q = c + HEADER]
    BY DEF ReallocAllocate
  <1>2. Asking(t) /\ n \in Nat
    BY DEF ReallocAllocate, Inv
  <1>3. s \in Nat \ {0} /\ s % MALLOC_ALIGN = 0 /\ s >= n + HEADER
    <2> HIDE DEF n
    <2> QED  BY <1>1, <1>2, ChunkSizeForIs
  <1> HIDE DEF s
  <1>4. Took(c, s)
    BY <1>1, <1>3, TakeKeeps DEF Inv
  <1>5. c \in Nat /\ c % MALLOC_ALIGN = 0
    BY <1>4 DEF Took, InOrder, WellFormed, Aligned, UsedOf
  <1> DEFINE q == c + HEADER
  <1>6. q \in Nat /\ q % MALLOC_ALIGN = 0 /\ q # NULL /\ q + n <= c + s
    <2>1. c \in Int /\ HEADER \in Int
      BY <1>5, HeaderIs
    <2>2. (c + HEADER) % MALLOC_ALIGN = 0
      BY <2>1, <1>5, HeaderIs, MultiplesAdd, Zenon
    <2> QED  BY <2>2, <1>2, <1>3, <1>5, HeaderIs DEF NULL
  <1>7. q \notin DOMAIN blocks /\ BlocksOK(heap', WithBlock(q, c, n))
    BY <1>2, <1>3, <1>4, <1>6, AddBlock DEF Inv
  <1> HIDE DEF q
  <1>8. /\ moves'[t].p = moves[t].p /\ moves'[t].n = n /\ moves'[t].q = q
        /\ \A u \in Threads \ {t} : moves'[u] = moves[u]
        /\ moves' \in [Threads -> [p : Nat, n : Nat, q : Nat]]
    BY <1>1, <1>6 DEF Inv, q
  <1>9. /\ blocks' = WithBlock(q, c, n)
        /\ q \in DOMAIN blocks' /\ blocks'[q].asked = n
        /\ \A y \in DOMAIN blocks : y \in DOMAIN blocks' /\ blocks'[y] = blocks[y]
    BY <1>1, <1>7 DEF WithBlock, q
  <1>10. MovesPinned'
    <2>1. \A u \in Threads : moves'[u].p # NULL => moves'[u].p \in DOMAIN blocks'
      BY <1>8, <1>9 DEF Inv, MovesPinned
    <2>2. ASSUME NEW u \in Threads, Copying(u)'
          PROVE  /\ moves'[u].q \in DOMAIN blocks'
                 /\ moves'[u].q # moves'[u].p
                 /\ blocks'[moves'[u].q].asked = moves'[u].n
      <3>1. CASE u = t
        BY <3>1, <1>2, <1>7, <1>8, <1>9 DEF Inv, MovesPinned, Asking
      <3>2. CASE u # t
        BY <3>2, <2>2, <1>8, <1>9 DEF Inv, MovesPinned, Copying
      <3> QED  BY <3>1, <3>2
    <2>3. \A u \in Threads : q # moves[u].p /\ (u # t => q # moves[u].q)
      <3> TAKE u \in Threads
      <3>1. q # moves[u].p
        BY <1>6, <1>7 DEF Inv, MovesPinned
      <3>2. ASSUME u # t  PROVE  q # moves[u].q
        <4>1. CASE Copying(u)
          BY <4>1, <1>7 DEF Inv, MovesPinned
        <4>2. CASE moves[u].q = NULL
          BY <4>2, <1>6
        <4>3. CASE moves[u].q # NULL /\ moves[u].p = NULL
          BY <4>3 DEF Inv, MovesPinned
        <4> QED  BY <4>1, <4>2, <4>3 DEF Copying
      <3> QED  BY <3>1, <3>2
    <2>4. \A u, v \in Threads : u # v =>
            {moves'[u].p, moves'[u].q} \cap {moves'[v].p, moves'[v].q} \subseteq {NULL}
      <3> TAKE u, v \in Threads
      <3> HAVE u # v
      <3>1. CASE u = t
        BY <3>1, <2>3, <1>8 DEF Inv, MovesPinned
      <3>2. CASE v = t
        BY <3>2, <2>3, <1>8 DEF Inv, MovesPinned
      <3>3. CASE u # t /\ v # t
        BY <3>3, <1>8 DEF Inv, MovesPinned
      <3> QED  BY <3>1, <3>2, <3>3
    <2>5. \A u \in Threads : moves'[u].q # NULL => moves'[u].p # NULL
      BY <1>2, <1>8 DEF Inv, MovesPinned, Asking
    <2> QED  BY <2>1, <2>2, <2>4, <2>5 DEF MovesPinned
  <1>11. Inv'
    BY <1>4, <1>7, <1>8, <1>9, <1>10 DEF Inv, Took
  <1> QED  BY <1>3, <1>4, <1>5, <1>6, <1>7, <1>9, <1>11

LEMMA ReallocGivesUpStep ==
    ASSUME Inv, NEW t \in Threads, ReallocGivesUp(t)
    PROVE  Inv' /\ UNCHANGED <<heap, blocks>>
  <1>1. UNCHANGED <<heap, brk, blocks>> /\ moves' = [moves EXCEPT ![t] = Idle]
    BY DEF ReallocGivesUp
  <1>2. /\ moves'[t] = [p |-> NULL, n |-> 0, q |-> NULL]
        /\ \A u \in Threads \ {t} : moves'[u] = moves[u]
        /\ moves' \in [Threads -> [p : Nat, n : Nat, q : Nat]]
    BY <1>1 DEF Inv, Idle, NULL
  <1>3. MovesPinned'
    BY <1>1, <1>2 DEF Inv, MovesPinned, Copying
  <1> QED  BY <1>1, <1>2, <1>3 DEF Inv

LEMMA ReallocReleaseStep ==
    ASSUME Inv, NEW t \in Threads, ReallocRelease(t)
    PROVE  /\ Inv'
           /\ moves[t].p \in DOMAIN blocks
           /\ heap' = Release(heap, blocks[moves[t].p].chunk)
           /\ blocks' = WithoutBlock(moves[t].p)
  <1> DEFINE p == moves[t].p
  <1>1. /\ Copying(t)
        /\ heap' = Release(heap, blocks[p].chunk)
        /\ blocks' = WithoutBlock(p)
        /\ moves' = [moves EXCEPT ![t] = Idle]
        /\ UNCHANGED brk
    BY DEF ReallocRelease
  <1>2. p \in DOMAIN blocks /\ p # NULL
    BY <1>1 DEF Inv, MovesPinned, Copying
  <1>3. InOrder(heap', brk') /\ BlocksOK(heap', blocks')
    <2> HIDE DEF p
    <2> QED  BY <1>1, <1>2, DropBlock DEF Inv
  <1>4. /\ moves'[t] = [p |-> NULL, n |-> 0, q |-> NULL]
        /\ \A u \in Threads \ {t} : moves'[u] = moves[u]
        /\ moves' \in [Threads -> [p : Nat, n : Nat, q : Nat]]
    BY <1>1 DEF Inv, Idle, NULL
  \* No other thread is at work on the block that goes.
  <1>5. \A u \in Threads \ {t} : moves[u].p # p /\ moves[u].q # p
    BY <1>2 DEF Inv, MovesPinned
  <1>6. /\ \A y \in DOMAIN blocks \ {p} : y \in DOMAIN blocks' /\ blocks'[y] = blocks[y]
    BY <1>1 DEF WithoutBlock
  <1>7. MovesPinned'
    <2>1. ASSUME NEW u \in Threads
          PROVE  /\ moves'[u].p # NULL => moves'[u].p \in DOMAIN blocks'
                 /\ moves'[u].q # NULL => moves'[u].p # NULL
      BY <1>4, <1>5, <1>6 DEF Inv, MovesPinned
    <2>2. ASSUME NEW u \in Threads, Copying(u)'
          PROVE  /\ moves'[u].q \in DOMAIN blocks'
                 /\ moves'[u].q # moves'[u].p
                 /\ blocks'[moves'[u].q].asked = moves'[u].n
      BY <2>2, <1>4, <1>5, <1>6 DEF Inv, MovesPinned, Copying
    <2>3. \A u, v \in Threads : u # v =>
            {moves'[u].p, moves'[u].q} \cap {moves'[v].p, moves'[v].q} \subseteq {NULL}
      BY <1>4 DEF Inv, MovesPinned
    <2> QED  BY <2>1, <2>2, <2>3 DEF MovesPinned
  <1> QED  BY <1>1, <1>2, <1>3, <1>4, <1>7 DEF Inv

LEMMA ForeignSbrkStep ==
    ASSUME Inv, NEW n \in ForeignMoves, ForeignSbrk(n)
    PROVE  Inv' /\ UNCHANGED <<heap, blocks>>
  <1>1. UNCHANGED <<heap, blocks, moves>> /\ brk' = brk + n
    BY DEF ForeignSbrk
  <1>2. n \in Nat
    BY NoosMallocAssumption
  <1>3. brk' \in Nat /\ brk <= brk'
    BY <1>1, <1>2 DEF Inv
  <1>4. InOrder(heap', brk')
    BY <1>1, <1>3 DEF Inv, InOrder, WellFormed, Merged, Aligned
  <1>5. MovesPinned'
    BY <1>1 DEF Inv, MovesPinned, Copying
  <1> QED  BY <1>1, <1>3, <1>4, <1>5 DEF Inv

LEMMA InvNext == Inv /\ [Next]_vars => Inv'
  <1> SUFFICES ASSUME Inv, [Next]_vars  PROVE  Inv'
    OBVIOUS
  <1>1. ASSUME NEW a \in Alignments, NEW n \in Sizes, Memalign(a, n)  PROVE  Inv'
    BY <1>1, MemalignStep
  <1>2. ASSUME NEW p \in DOMAIN blocks, Free(p)  PROVE  Inv'
    BY <1>2, FreeStep
  <1>3. ASSUME NEW p \in DOMAIN blocks, NEW n \in Sizes, ReallocShrink(p, n)  PROVE  Inv'
    BY <1>3, ReallocShrinkStep
  <1>4. ASSUME NEW p \in DOMAIN blocks, NEW n \in Sizes, ReallocAbsorb(p, n)  PROVE  Inv'
    BY <1>4, ReallocAbsorbStep
  <1>5. ASSUME NEW p \in DOMAIN blocks, NEW n \in Sizes, ReallocExtend(p, n)  PROVE  Inv'
    BY <1>5, ReallocExtendStep
  <1>6. ASSUME NEW t \in Threads, NEW p \in DOMAIN blocks, NEW n \in Sizes,
               ReallocMustMove(t, p, n)
        PROVE  Inv'
    BY <1>6, ReallocMustMoveStep
  <1>7. ASSUME NEW t \in Threads, ReallocAllocate(t)  PROVE  Inv'
    BY <1>7, ReallocAllocateStep
  <1>8. ASSUME NEW t \in Threads, ReallocGivesUp(t)  PROVE  Inv'
    BY <1>8, ReallocGivesUpStep
  <1>9. ASSUME NEW t \in Threads, ReallocRelease(t)  PROVE  Inv'
    BY <1>9, ReallocReleaseStep
  <1>10. ASSUME NEW n \in ForeignMoves, ForeignSbrk(n)  PROVE  Inv'
    BY <1>10, ForeignSbrkStep
  <1>11. CASE UNCHANGED vars
    BY <1>11 DEF vars, Inv, MovesPinned, Copying
  <1> QED  BY <1>1, <1>2, <1>3, <1>4, <1>5, <1>6, <1>7, <1>8, <1>9, <1>10, <1>11 DEF Next

(***************************************************************************)
(* The properties the runs check, for every value of the constants.        *)
(***************************************************************************)
LEMMA InvImplies ==
    Inv => /\ TypeOK /\ ChunksApart /\ Coalesced
           /\ OneOwner /\ BlocksFit /\ AllAligned /\ MovesPinned
  <1> SUFFICES ASSUME Inv
               PROVE  /\ TypeOK /\ ChunksApart /\ Coalesced
                      /\ OneOwner /\ BlocksFit /\ AllAligned /\ MovesPinned
    OBVIOUS
  <1>1. TypeOK
    BY DEF Inv, InOrder, WellFormed, BlocksOK, TypeOK, Chunks
  <1>2. ChunksApart
    BY DEF Inv, InOrder, WellFormed, ChunksApart, Chunks, ChunkEnd
  <1>3. Coalesced
    BY DEF Inv, InOrder, Merged, Coalesced, ChunkEnd
  <1>4. OneOwner
    BY DEF Inv, BlocksOK, UsedOf, OneOwner, Used, Chunks
  <1>5. BlocksFit
    BY HeaderIs DEF Inv, InOrder, WellFormed, BlocksOK, UsedOf, BlocksFit, Room, ChunkEnd
  <1>6. AllAligned
    BY DEF Inv, InOrder, BlocksOK, Aligned, AllAligned, Chunks
  <1>7. MovesPinned
    BY DEF Inv
  <1> QED  BY <1>1, <1>2, <1>3, <1>4, <1>5, <1>6, <1>7

LEMMA InvAlways == Spec => []Inv
  BY InvInit, InvNext, PTL DEF Spec

\* The values stay in their types.
THEOREM TypeCorrect == Spec => []TypeOK
  BY InvAlways, InvImplies, PTL

\* No two chunks share a byte and none reaches past the break.
THEOREM NoOverlap == Spec => []ChunksApart
  BY InvAlways, InvImplies, PTL

\* No two free chunks touch: every operation merges what it frees.
THEOREM AlwaysCoalesced == Spec => []Coalesced
  BY InvAlways, InvImplies, PTL

\* Chunks off the free list and live blocks correspond one to one.
THEOREM Ownership == Spec => []OneOwner
  BY InvAlways, InvImplies, PTL

\* What a caller asked for is inside its chunk, past the header, and every
\* pointer is aligned, for every break the heap may start from.
THEOREM PayloadsFit == Spec => [](BlocksFit /\ AllAligned)
  BY InvAlways, InvImplies, PTL

\* A realloc that moves keeps both of its blocks while it is unlocked.
THEOREM MovesStayPinned == Spec => []MovesPinned
  BY InvAlways, InvImplies, PTL

-------------------------------------------------------------------------------
(***************************************************************************)
(* Refinement: each step is one HeapSpec allows on the blocks' extents.    *)
(***************************************************************************)
LEMMA ExtentsAre ==
    /\ DOMAIN Extents = DOMAIN blocks
    /\ \A p \in DOMAIN blocks :
          Extents[p] = [asked |-> blocks[p].asked,
                        room |-> (blocks[p].chunk + heap.size[blocks[p].chunk]) - p]
  <1>1. \A p : Room(p) = (blocks[p].chunk + heap.size[blocks[p].chunk]) - p
    BY DEF Room, ChunkEnd
  <1>2. Extents = [p \in DOMAIN blocks |-> [asked |-> blocks[p].asked, room |-> Room(p)]]
    BY DEF Extents
  <1> QED  BY <1>1, <1>2

LEMMA ExtentsPlaced == Inv => \A p \in DOMAIN blocks : Heap!Placed(Extents, p)
  <1> SUFFICES ASSUME Inv, NEW p \in DOMAIN blocks
               PROVE  Heap!Placed(Extents, p)
    OBVIOUS
  <1> DEFINE c == blocks[p].chunk
  <1>1. /\ c \in DOMAIN heap.size /\ c \in Nat /\ heap.size[c] \in Nat
        /\ p \in Nat /\ blocks[p].asked \in Nat
        /\ p + blocks[p].asked <= c + heap.size[c] /\ c + HEADER <= p
    BY DEF Inv, InOrder, WellFormed, BlocksOK, UsedOf
  <1>2. Extents[p].asked = blocks[p].asked /\ Extents[p].room = (c + heap.size[c]) - p
    BY ExtentsAre
  <1>3. 0 <= Extents[p].asked /\ Extents[p].asked <= Extents[p].room
    <2> HIDE DEF c
    <2> QED  BY <1>1, <1>2
  <1>4. ASSUME NEW q \in DOMAIN Extents \ {p}
        PROVE  p + Extents[p].room <= q \/ q + Extents[q].room <= p
    <2> DEFINE d == blocks[q].chunk
    <2>1. q \in DOMAIN blocks /\ q # p
      BY ExtentsAre
    <2>2. /\ d \in DOMAIN heap.size /\ d \in Nat /\ heap.size[d] \in Nat
          /\ q \in Nat /\ d + HEADER <= q /\ d # c
      BY <2>1 DEF Inv, InOrder, WellFormed, BlocksOK, UsedOf
    <2>3. Extents[q].room = (d + heap.size[d]) - q
      BY <2>1, ExtentsAre
    <2>4. (c < d => c + heap.size[c] <= d) /\ (d < c => d + heap.size[d] <= c)
      BY <1>1, <2>2 DEF Inv, InOrder, WellFormed
    <2> HIDE DEF c, d
    <2>5. CASE c < d
      <3>1. p + Extents[p].room <= d
        BY <2>4, <2>5, <1>1, <1>2
      <3> QED  BY <3>1, <2>2, <1>1, <1>2, HeaderIs
    <2>6. CASE d < c
      <3>1. q + Extents[q].room <= c
        BY <2>2, <2>3, <2>4, <2>6, <1>1
      <3> QED  BY <3>1, <2>2, <2>3, <1>1, HeaderIs
    <2> QED  BY <2>2, <2>5, <2>6, <1>1
  <1> QED  BY <1>3, <1>4 DEF Heap!Placed

LEMMA ExtentsPlacedNext == (Inv => \A p \in DOMAIN blocks : Heap!Placed(Extents, p))'
  BY ExtentsPlaced, PTL

LEMMA ExtentKept ==
    ASSUME NEW p \in DOMAIN blocks, p \in DOMAIN blocks', blocks'[p] = blocks[p],
           heap'.size[blocks[p].chunk] = heap.size[blocks[p].chunk]
    PROVE  Extents'[p] = Extents[p]
  BY DEF Extents, Room, ChunkEnd

LEMMA AllocationRefines ==
    ASSUME Inv, Inv', NEW c \in Nat, NEW s \in Nat, NEW p \in Nat, NEW n,
           p \notin DOMAIN blocks, Took(c, s), blocks' = WithBlock(p, c, n)
    PROVE  Heap!Next
  <1>1. /\ DOMAIN blocks' = DOMAIN blocks \cup {p}
        /\ \A q \in DOMAIN blocks : blocks'[q] = blocks[q]
    BY DEF WithBlock
  <1>2. \A q \in DOMAIN blocks : Extents'[q] = Extents[q]
    <2> TAKE q \in DOMAIN blocks
    <2>1. blocks[q].chunk \in UsedOf(heap) \ {c}
      BY DEF Inv, BlocksOK, Took
    <2>2. heap'.size[blocks[q].chunk] = heap.size[blocks[q].chunk]
      BY <2>1 DEF Took, KeepsUsedBut
    <2> QED  BY <2>2, <1>1, ExtentKept
  <1>3. DOMAIN Extents = DOMAIN blocks /\ DOMAIN Extents' = DOMAIN blocks'
    BY DEF Extents
  <1>4. Heap!Placed(Extents, p)'
    BY <1>1, ExtentsPlacedNext
  <1>5. Heap!Allocate(p)
    BY <1>1, <1>2, <1>3, <1>4 DEF Heap!Allocate, Heap!KeepsAllBut, Heap!Placed
  <1> QED  BY <1>1, <1>3, <1>5 DEF Heap!Next

LEMMA ReleaseRefines ==
    ASSUME Inv, NEW p \in DOMAIN blocks,
           heap' = Release(heap, blocks[p].chunk), blocks' = WithoutBlock(p)
    PROVE  Heap!Next
  <1> DEFINE c == blocks[p].chunk
  <1>1. /\ DOMAIN blocks' = DOMAIN blocks \ {p}
        /\ \A q \in DOMAIN blocks \ {p} : blocks'[q] = blocks[q]
    BY DEF WithoutBlock
  <1>2. KeepsUsedBut(heap, heap', c)
    BY DropBlock DEF Inv
  <1>3. \A q \in DOMAIN blocks \ {p} : Extents'[q] = Extents[q]
    <2> TAKE q \in DOMAIN blocks \ {p}
    <2>1. blocks[q].chunk \in UsedOf(heap) \ {c}
      BY DEF Inv, BlocksOK
    <2>2. heap'.size[blocks[q].chunk] = heap.size[blocks[q].chunk]
      BY <2>1, <1>2 DEF KeepsUsedBut
    <2> QED  BY <2>2, <1>1, ExtentKept
  <1>4. DOMAIN Extents = DOMAIN blocks /\ DOMAIN Extents' = DOMAIN blocks'
    BY DEF Extents
  <1>5. Heap!Release(p)
    BY <1>1, <1>3, <1>4 DEF Heap!Release, Heap!KeepsAllBut
  <1> QED  BY <1>4, <1>5 DEF Heap!Next

LEMMA ResizeRefines ==
    ASSUME Inv, Inv', NEW p \in DOMAIN blocks, NEW n, ResizesInPlace(p, n)
    PROVE  Heap!Next
  <1> DEFINE c == blocks[p].chunk
  <1>1. /\ DOMAIN blocks' = DOMAIN blocks
        /\ \A q \in DOMAIN blocks \ {p} : blocks'[q] = blocks[q]
    BY DEF ResizesInPlace
  <1>2. \A q \in DOMAIN blocks \ {p} : Extents'[q] = Extents[q]
    <2> TAKE q \in DOMAIN blocks \ {p}
    <2>1. blocks[q].chunk \in UsedOf(heap) \ {c}
      BY DEF Inv, BlocksOK
    <2>2. heap'.size[blocks[q].chunk] = heap.size[blocks[q].chunk]
      BY <2>1 DEF ResizesInPlace, KeepsUsedBut
    <2> QED  BY <2>2, <1>1, ExtentKept
  <1>3. DOMAIN Extents = DOMAIN blocks /\ DOMAIN Extents' = DOMAIN blocks'
    BY DEF Extents
  <1>4. Heap!Placed(Extents, p)'
    BY <1>1, ExtentsPlacedNext
  <1>5. Heap!Resize(p)
    BY <1>1, <1>2, <1>3, <1>4 DEF Heap!Resize, Heap!KeepsAllBut, Heap!Placed
  <1> QED  BY <1>3, <1>5 DEF Heap!Next

LEMMA ExtentsUnchanged ==
    ASSUME UNCHANGED <<heap, blocks>>
    PROVE  UNCHANGED Extents
  BY DEF Extents, Room, ChunkEnd

LEMMA InitRefines == Init => Heap!Init
  BY DEF Init, Heap!Init, Extents

LEMMA NextRefines == Inv /\ Inv' /\ [Next]_vars => [Heap!Next]_Extents
  <1> SUFFICES ASSUME Inv, Inv', [Next]_vars  PROVE  Heap!Next \/ UNCHANGED Extents
    OBVIOUS
  <1>1. ASSUME NEW a \in Alignments, NEW n \in Sizes, Memalign(a, n)  PROVE  Heap!Next
    <2>1. PICK c \in Nat, s \in Nat, p \in Nat :
             p \notin DOMAIN blocks /\ Took(c, s) /\ blocks' = WithBlock(p, c, n)
      BY <1>1, MemalignStep
    <2> QED  BY <2>1, AllocationRefines
  <1>2. ASSUME NEW p \in DOMAIN blocks, Free(p)  PROVE  Heap!Next
    BY <1>2, ReleaseRefines DEF Free
  <1>3. ASSUME NEW p \in DOMAIN blocks, NEW n \in Sizes, ReallocShrink(p, n)  PROVE  Heap!Next
    BY <1>3, ReallocShrinkStep, ResizeRefines
  <1>4. ASSUME NEW p \in DOMAIN blocks, NEW n \in Sizes, ReallocAbsorb(p, n)  PROVE  Heap!Next
    BY <1>4, ReallocAbsorbStep, ResizeRefines
  <1>5. ASSUME NEW p \in DOMAIN blocks, NEW n \in Sizes, ReallocExtend(p, n)  PROVE  Heap!Next
    BY <1>5, ReallocExtendStep, ResizeRefines
  <1>6. ASSUME NEW t \in Threads, NEW p \in DOMAIN blocks, NEW n \in Sizes,
               ReallocMustMove(t, p, n)
        PROVE  UNCHANGED Extents
    BY <1>6, ReallocMustMoveStep, ExtentsUnchanged
  <1>7. ASSUME NEW t \in Threads, ReallocAllocate(t)  PROVE  Heap!Next
    <2>1. PICK c \in Nat, s \in Nat, p \in Nat :
             /\ p \notin DOMAIN blocks /\ Took(c, s)
             /\ blocks' = WithBlock(p, c, moves[t].n)
      BY <1>7, ReallocAllocateStep
    <2> QED  BY <2>1, AllocationRefines
  <1>8. ASSUME NEW t \in Threads, ReallocGivesUp(t)  PROVE  UNCHANGED Extents
    BY <1>8, ReallocGivesUpStep, ExtentsUnchanged
  <1>9. ASSUME NEW t \in Threads, ReallocRelease(t)  PROVE  Heap!Next
    BY <1>9, ReallocReleaseStep, ReleaseRefines
  <1>10. ASSUME NEW n \in ForeignMoves, ForeignSbrk(n)  PROVE  UNCHANGED Extents
    BY <1>10, ForeignSbrkStep, ExtentsUnchanged
  <1>11. CASE UNCHANGED vars
    BY <1>11, ExtentsUnchanged DEF vars
  <1> QED  BY <1>1, <1>2, <1>3, <1>4, <1>5, <1>6, <1>7, <1>8, <1>9, <1>10, <1>11 DEF Next

\* noos/malloc.c keeps what a heap promises its callers.
THEOREM Refinement == Spec => ImplementsHeapSpec
  <1>1. Inv /\ Inv' /\ [Next]_vars => [Heap!Next]_Extents
    BY NextRefines
  <1>2. Init => Heap!Init
    BY InitRefines
  <1> QED  BY <1>1, <1>2, InvAlways, PTL DEF Spec, ImplementsHeapSpec, Heap!Spec

-------------------------------------------------------------------------------
(***************************************************************************)
(* No operation of NoosMalloc loses memory: what lies below the break is   *)
(* in a chunk or was never the heap's, for every heap, request and number  *)
(* of threads.  That no unit is in two chunks is NoOverlap already.        *)
(***************************************************************************)
Covers(h, u) == \E c \in DOMAIN h.size : c <= u /\ u < c + h.size[c]

SameCover(h, r) == \A u \in Nat : Covers(r, u) <=> Covers(h, u)

(***************************************************************************)
(* The operations on a heap value move the borders of its chunks only.     *)
(***************************************************************************)
LEMMA ReleaseCovers ==
    ASSUME NEW h, NEW b \in Nat, WellFormed(h, b),
           NEW c \in DOMAIN h.size, c \notin h.free
    PROVE  SameCover(h, Release(h, c))
  <1> DEFINE n == c + h.size[c]
             next == h.free \cap {n}
             before == {x \in h.free : x + h.size[x] = c}
             end == IF next = {} THEN n ELSE n + h.size[n]
             start == IF before = {} THEN c ELSE CHOOSE x \in before : TRUE
             merged == next \cup (IF before = {} THEN {} ELSE {c})
             r == Release(h, c)
  <1>1. r = [size |-> [x \in DOMAIN h.size \ merged |->
                          IF x = start THEN end - start ELSE h.size[x]],
             free |-> (h.free \ next) \cup {start}]
    <2>1. NextMerged(h, c) = next
      BY NextMergedIs
    <2>2. BeforeMerged(h, c) = before
      BY BeforeMergedIs
    <2>3. ChunkEnd(h, c) = n /\ ChunkEnd(h, n) = n + h.size[n]
      BY DEF ChunkEnd
    <2> HIDE DEF next, before, n
    <2> QED  BY <2>1, <2>2, <2>3 DEF Release
  <1>2. /\ DOMAIN r.size = DOMAIN h.size \ merged
        /\ r.size = [x \in DOMAIN h.size \ merged |-> IF x = start THEN end - start ELSE h.size[x]]
    BY <1>1
  <1>3. /\ start \in DOMAIN h.size /\ start \in Nat /\ start <= c /\ start \notin merged
        /\ before = {} => start = c
        /\ before # {} => start + h.size[start] = c
    BY DEF WellFormed
  <1>4. /\ c \in Nat /\ n \in Nat /\ end \in Nat /\ c < n /\ n <= end
        /\ next = {} => end = n
        /\ next # {} => n \in DOMAIN h.size /\ end = n + h.size[n] /\ h.size[n] \in Nat
    BY DEF WellFormed
  <1>5. merged \subseteq {n, c} /\ (n \in merged => next # {})
    BY <1>4
  <1> HIDE DEF start, end, r, next, before, merged
  <1>6. /\ start \in DOMAIN r.size /\ r.size[start] = end - start
        /\ \A x \in DOMAIN r.size \ {start} : x \in DOMAIN h.size /\ r.size[x] = h.size[x]
    BY <1>2, <1>3
  <1>7. ASSUME NEW u \in Nat, start <= u, u < end
        PROVE  Covers(h, u)
    <2>1. CASE u < c
      BY <2>1, <1>3, <1>4, <1>7 DEF Covers
    <2>2. CASE c <= u /\ u < n
      BY <2>2, <1>4 DEF Covers
    <2>3. CASE n <= u
      BY <2>3, <1>4, <1>7 DEF Covers
    <2> QED  BY <2>1, <2>2, <2>3, <1>4
  <1>8. ASSUME NEW u \in Nat, Covers(r, u)  PROVE  Covers(h, u)
    <2>1. PICK x \in DOMAIN r.size : x <= u /\ u < x + r.size[x]
      BY <1>8 DEF Covers
    <2>2. CASE x = start
      BY <2>1, <2>2, <1>3, <1>4, <1>6, <1>7
    <2>3. CASE x # start
      BY <2>1, <2>3, <1>6 DEF Covers
    <2> QED  BY <2>2, <2>3
  <1>9. ASSUME NEW u \in Nat, Covers(h, u)  PROVE  Covers(r, u)
    <2>1. PICK x \in DOMAIN h.size : x <= u /\ u < x + h.size[x]
      BY <1>9 DEF Covers
    <2>2. x \in Nat /\ h.size[x] \in Nat
      BY DEF WellFormed
    <2>3. CASE x \in merged \/ x = start
      <3>1. start <= x /\ x + h.size[x] <= end
        <4>1. CASE x = start
          BY <4>1, <1>3, <1>4, <2>2
        <4>2. CASE x = c
          BY <4>2, <1>3, <1>4, <2>2
        <4>3. CASE x = n /\ x \in merged
          BY <4>3, <1>3, <1>4, <1>5, <2>2
        <4> QED  BY <2>3, <1>5, <4>1, <4>2, <4>3
      <3>2. u < start + r.size[start]
        BY <2>1, <2>2, <3>1, <1>3, <1>4, <1>6
      <3>3. start <= u
        BY <2>1, <2>2, <3>1, <1>3
      <3> QED  BY <3>2, <3>3, <1>6 DEF Covers
    <2>4. CASE x \notin merged /\ x # start
      <3>1. x \in DOMAIN r.size /\ r.size[x] = h.size[x]
        BY <2>4, <1>2
      <3> QED  BY <2>1, <3>1 DEF Covers
    <2> QED  BY <2>3, <2>4
  <1> QED  BY <1>8, <1>9 DEF SameCover, r

LEMMA SplitCovers ==
    ASSUME NEW h, NEW b \in Nat, WellFormed(h, b),
           NEW c \in DOMAIN h.size,
           NEW s \in Nat \ {0}, s < h.size[c]
    PROVE  SameCover(h, Split(h, c, s))
  <1> DEFINE r == Split(h, c, s)
  <1>1. /\ c + s \notin DOMAIN h.size
        /\ DOMAIN r.size = DOMAIN h.size \cup {c + s}
        /\ r.size[c] = s
        /\ r.size[c + s] = h.size[c] - s
        /\ \A d \in DOMAIN h.size \ {c} : r.size[d] = h.size[d]
    BY SplitKeeps
  <1>2. c \in Nat /\ h.size[c] \in Nat
    BY DEF WellFormed
  <1> HIDE DEF r
  <1>3. ASSUME NEW u \in Nat, Covers(r, u)  PROVE  Covers(h, u)
    <2>1. PICK x \in DOMAIN r.size : x <= u /\ u < x + r.size[x]
      BY <1>3 DEF Covers
    <2>2. CASE x = c \/ x = c + s
      <3>1. c <= u /\ u < c + h.size[c]
        BY <2>1, <2>2, <1>1, <1>2
      <3> QED  BY <3>1 DEF Covers
    <2>3. CASE x # c /\ x # c + s
      BY <2>1, <2>3, <1>1 DEF Covers
    <2> QED  BY <2>2, <2>3
  <1>4. ASSUME NEW u \in Nat, Covers(h, u)  PROVE  Covers(r, u)
    <2>1. PICK x \in DOMAIN h.size : x <= u /\ u < x + h.size[x]
      BY <1>4 DEF Covers
    <2>2. CASE x = c /\ u < c + s
      BY <2>1, <2>2, <1>1, <1>2 DEF Covers
    <2>3. CASE x = c /\ ~(u < c + s)
      <3>1. c + s <= u /\ u < (c + s) + r.size[c + s] /\ c + s \in DOMAIN r.size
        BY <2>1, <2>3, <1>1, <1>2
      <3> QED  BY <3>1 DEF Covers
    <2>4. CASE x # c
      BY <2>1, <2>4, <1>1 DEF Covers
    <2> QED  BY <2>2, <2>3, <2>4
  <1> QED  BY <1>3, <1>4 DEF SameCover, r

LEMMA TrimCovers ==
    ASSUME NEW h, NEW b \in Nat, WellFormed(h, b),
           NEW c \in DOMAIN h.size, c \notin h.free,
           NEW s \in Nat \ {0}, s <= h.size[c]
    PROVE  SameCover(h, Trim(h, c, s))
  <1>1. CASE h.size[c] - s < MIN_CHUNK
    BY <1>1 DEF Trim, SameCover
  <1>2. CASE ~(h.size[c] - s < MIN_CHUNK)
    <2> DEFINE m == Split(h, c, s)
    <2>1. MIN_CHUNK \in Nat \ {0} /\ h.size[c] \in Nat
      BY NoosMallocAssumption DEF WellFormed
    <2>2. s < h.size[c]
      BY <1>2, <2>1
    <2>3. Trim(h, c, s) = Release(m, c + s)
      BY <1>2 DEF Trim
    <2>4. /\ WellFormed(m, b) /\ c + s \notin DOMAIN h.size
          /\ DOMAIN m.size = DOMAIN h.size \cup {c + s} /\ m.free = h.free
      BY <2>2, SplitKeeps
    <2>5. SameCover(h, m)
      BY <2>2, SplitCovers
    <2>6. c + s \in DOMAIN m.size /\ c + s \notin m.free
      BY <2>4 DEF WellFormed
    <2> HIDE DEF m
    <2>7. SameCover(m, Release(m, c + s))
      BY <2>4, <2>6, ReleaseCovers
    <2> QED  BY <2>3, <2>5, <2>7 DEF SameCover
  <1> QED  BY <1>1, <1>2

LEMMA AbsorbedCovers ==
    ASSUME NEW b \in Nat, WellFormed(heap, b),
           NEW c \in DOMAIN heap.size, ChunkEnd(heap, c) \in heap.free
    PROVE  SameCover(heap, Absorbed(c))
  <1> DEFINE f == c + heap.size[c]
             r == Absorbed(c)
  <1>1. /\ f \in DOMAIN heap.size /\ c \in Nat /\ f \in Nat /\ c < f
        /\ heap.size[c] \in Nat /\ heap.size[f] \in Nat
    BY DEF WellFormed, ChunkEnd
  <1>2. r = [size |-> [x \in DOMAIN heap.size \ {f} |->
                          IF x = c THEN heap.size[c] + heap.size[f] ELSE heap.size[x]],
             free |-> heap.free \ {f}]
    BY DEF Absorbed, ChunkEnd
  <1>3. /\ DOMAIN r.size = DOMAIN heap.size \ {f}
        /\ r.size[c] = heap.size[c] + heap.size[f]
        /\ \A x \in DOMAIN r.size \ {c} : r.size[x] = heap.size[x]
    <2> HIDE DEF r, f
    <2> QED  BY <1>1, <1>2
  <1> HIDE DEF r
  <1>4. ASSUME NEW u \in Nat, Covers(r, u)  PROVE  Covers(heap, u)
    <2>1. PICK x \in DOMAIN r.size : x <= u /\ u < x + r.size[x]
      BY <1>4 DEF Covers
    <2>2. CASE x = c /\ u < f
      BY <2>1, <2>2 DEF Covers
    <2>3. CASE x = c /\ ~(u < f)
      <3>1. f <= u /\ u < f + heap.size[f]
        BY <2>1, <2>3, <1>1, <1>3
      <3> QED  BY <3>1, <1>1 DEF Covers
    <2>4. CASE x # c
      BY <2>1, <2>4, <1>3 DEF Covers
    <2> QED  BY <2>2, <2>3, <2>4
  <1>5. ASSUME NEW u \in Nat, Covers(heap, u)  PROVE  Covers(r, u)
    <2>1. PICK x \in DOMAIN heap.size : x <= u /\ u < x + heap.size[x]
      BY <1>5 DEF Covers
    <2>2. CASE x = c \/ x = f
      <3>1. c <= u /\ u < c + r.size[c] /\ c \in DOMAIN r.size
        BY <2>1, <2>2, <1>1, <1>3
      <3> QED  BY <3>1 DEF Covers
    <2>3. CASE x # c /\ x # f
      BY <2>1, <2>3, <1>3 DEF Covers
    <2> QED  BY <2>2, <2>3
  <1> QED  BY <1>4, <1>5 DEF SameCover, r

(***************************************************************************)
(* Tiled, with what it takes to keep it when the break moves: nothing      *)
(* counts as another's that is not below the break yet.                    *)
(***************************************************************************)
Tiling ==
    /\ \A u \in outside : u \in Nat /\ u < brk
    /\ \A u \in HEAP_START .. brk - 1 : u \in outside <=> ~Covers(heap, u)

\* What a step may do: leave all that is below the break as it was, and have
\* each unit the break moves over in a chunk or outside.
TilesOn ==
    /\ \A u \in outside' : u \in Nat /\ u < brk'
    /\ \A u \in Nat : u < brk =>
          (Covers(heap', u) <=> Covers(heap, u)) /\ (u \in outside' <=> u \in outside)
    /\ \A u \in brk .. brk' - 1 : u \in outside' <=> ~Covers(heap', u)

LEMMA RangeIs ==
    ASSUME NEW a \in Nat, NEW b \in Nat
    PROVE  \A u : u \in a .. b - 1 <=> u \in Nat /\ a <= u /\ u < b
  OBVIOUS

LEMMA TilesOnKeeps ==
    ASSUME Inv, Inv', Tiling, TilesOn
    PROVE  Tiling'
  <1>1. brk \in Nat /\ brk' \in Nat /\ HEAP_START \in Nat
    BY NoosMallocAssumption DEF Inv
  <1>2. ASSUME NEW u \in Nat, HEAP_START <= u, u < brk'
        PROVE  u \in outside' <=> ~Covers(heap', u)
    <2>1. CASE u < brk
      <3>1. u \in HEAP_START .. brk - 1
        BY <2>1, <1>1, <1>2
      <3>2. /\ Covers(heap', u) <=> Covers(heap, u)
            /\ u \in outside' <=> u \in outside
        BY <2>1 DEF TilesOn
      <3> QED  BY <3>1, <3>2 DEF Tiling
    <2>2. CASE ~(u < brk)
      <3>1. u \in brk .. brk' - 1
        <4>1. brk <= u
          BY <2>2, <1>1
        <4> QED  BY <4>1, <1>1, <1>2, RangeIs, Zenon
      <3> QED  BY <3>1 DEF TilesOn
    <2> QED  BY <2>1, <2>2
  <1>3. \A u \in HEAP_START .. brk' - 1 : u \in Nat /\ HEAP_START <= u /\ u < brk'
    BY <1>1, RangeIs, Zenon
  <1>4. \A u \in HEAP_START .. brk' - 1 : u \in outside' <=> ~Covers(heap', u)
    BY <1>2, <1>3
  <1> QED  BY <1>4 DEF Tiling, TilesOn, Covers

\* Most steps leave the break and what is covered.
LEMMA CoverKept ==
    ASSUME Inv, Tiling, UNCHANGED <<brk, outside>>, SameCover(heap, heap')
    PROVE  TilesOn
  <1>1. brk \in Nat
    BY DEF Inv
  <1> QED  BY <1>1 DEF TilesOn, Tiling, SameCover

\* A chunk that ends at the break grows with it.
LEMMA CoverGrows ==
    ASSUME Inv, Tiling, NEW c \in DOMAIN heap.size, NEW s \in Nat,
           c + heap.size[c] = brk, heap.size[c] <= s,
           heap'.size = [heap.size EXCEPT ![c] = s],
           brk' = brk + (s - heap.size[c]), UNCHANGED outside
    PROVE  TilesOn
  <1>1. /\ brk \in Nat /\ c \in Nat /\ heap.size[c] \in Nat /\ c + s = brk' /\ brk <= brk'
        /\ heap.size = [x \in DOMAIN heap.size |-> heap.size[x]]
    BY DEF Inv, InOrder, WellFormed
  <1>2. /\ DOMAIN heap'.size = DOMAIN heap.size /\ heap'.size[c] = s
        /\ \A x \in DOMAIN heap.size \ {c} : heap'.size[x] = heap.size[x]
    BY <1>1
  <1>3. ASSUME NEW u \in Nat, u < brk  PROVE  Covers(heap', u) <=> Covers(heap, u)
    <2>1. ASSUME NEW x \in DOMAIN heap.size
          PROVE  (x <= u /\ u < x + heap'.size[x]) <=> (x <= u /\ u < x + heap.size[x])
      <3>1. CASE x = c
        BY <3>1, <1>1, <1>2, <1>3
      <3>2. CASE x # c
        BY <3>2, <1>2
      <3> QED  BY <3>1, <3>2
    <2> QED  BY <2>1, <1>2 DEF Covers
  <1>4. ASSUME NEW u \in brk .. brk' - 1  PROVE  u \notin outside' /\ Covers(heap', u)
    <2>1. c <= u /\ u < c + heap'.size[c]
      BY <1>1, <1>2
    <2>2. ~(u < brk)
      BY <1>1
    <2> QED  BY <2>1, <2>2, <1>2 DEF Covers, Tiling
  <1>5. \A u \in outside' : u \in Nat /\ u < brk'
    BY <1>1 DEF Tiling
  <1> QED  BY <1>3, <1>4, <1>5 DEF TilesOn

LEMMA TakeFitTiles ==
    ASSUME Inv, Tiling, NEW c, NEW s \in Nat \ {0}, TakeFit(c, s)
    PROVE  TilesOn
  <1>1. /\ c \in DOMAIN heap.size /\ c \in Nat /\ heap.size[c] \in Nat /\ heap.size[c] >= s
        /\ MIN_CHUNK \in Nat \ {0} /\ UNCHANGED <<brk, outside>>
        /\ WellFormed(heap, brk) /\ brk \in Nat
        /\ heap = [size |-> heap.size, free |-> heap.free]
    BY NoosMallocAssumption DEF TakeFit, FirstFit, Fits, Inv, InOrder, WellFormed
  <1>2. CASE heap.size[c] - s >= MIN_CHUNK
    <2> DEFINE m == Split(heap, c, s)
    <2>1. heap' = [m EXCEPT !.free = (@ \ {c}) \cup {c + s}]
      BY <1>2 DEF TakeFit
    <2>2. WellFormed(m, brk) /\ SameCover(heap, m)
      BY <1>1, <1>2, SplitKeeps, SplitCovers
    <2> HIDE DEF m
    <2>3. heap'.size = m.size
      <3>1. m = [size |-> m.size, free |-> m.free]
        BY <2>2 DEF WellFormed
      <3> QED  BY <2>1, <3>1
    <2>4. SameCover(heap, heap')
      BY <2>2, <2>3 DEF SameCover, Covers
    <2> QED  BY <1>1, <2>4, CoverKept
  <1>3. CASE ~(heap.size[c] - s >= MIN_CHUNK)
    <2>1. heap' = [heap EXCEPT !.free = @ \ {c}]
      BY <1>3 DEF TakeFit
    <2>2. heap'.size = heap.size
      BY <2>1, <1>1
    <2>3. SameCover(heap, heap')
      BY <2>2 DEF SameCover, Covers
    <2> QED  BY <1>1, <2>3, CoverKept
  <1> QED  BY <1>2, <1>3

LEMMA TakeTopTiles ==
    ASSUME Inv, Tiling, NEW c, NEW s \in Nat \ {0}, TakeTop(c, s)
    PROVE  TilesOn
  <1>1. /\ c \in DOMAIN heap.size /\ heap.size[c] < s /\ heap.size[c] \in Nat
        /\ c + heap.size[c] = brk
        /\ heap' = [size |-> [heap.size EXCEPT ![c] = s], free |-> heap.free \ {c}]
        /\ brk' = brk + (s - heap.size[c]) /\ UNCHANGED outside
    BY DEF TakeTop, TopAtBreak, NoneFits, Fits, ChunkEnd, Inv, InOrder, WellFormed
  <1>2. heap'.size = [heap.size EXCEPT ![c] = s]
    BY <1>1
  <1> QED  BY <1>1, <1>2, CoverGrows

\* A chunk of its own: what the alignment skips is nobody's.
LEMMA TakeBreakTiles ==
    ASSUME Inv, Tiling, NEW c, NEW s \in Nat \ {0}, TakeBreak(c, s)
    PROVE  TilesOn
  <1>1. /\ c = brk + BrkPad
        /\ brk' = brk + BrkPad + s
        /\ heap' = [heap EXCEPT !.size = [x \in DOMAIN heap.size \cup {c} |->
                                             IF x = c THEN s ELSE heap.size[x]]]
        /\ outside' = outside \cup (brk .. c - 1)
    BY DEF TakeBreak
  <1>2. BrkPad \in Nat /\ brk \in Nat
    BY HeaderIs, PaddingReaches DEF BrkPad, PadTo, Inv
  <1>3. c \in Nat /\ brk <= c /\ brk' = c + s /\ brk' \in Nat
    BY <1>1, <1>2
  <1>4. c \notin DOMAIN heap.size
    BY <1>3 DEF Inv, InOrder, WellFormed
  <1>5. heap'.size = [x \in DOMAIN heap.size \cup {c} |-> IF x = c THEN s ELSE heap.size[x]]
    <2>1. heap = [size |-> heap.size, free |-> heap.free]
      BY DEF Inv, InOrder, WellFormed
    <2> QED  BY <2>1, <1>1
  <1>6. /\ DOMAIN heap'.size = DOMAIN heap.size \cup {c} /\ heap'.size[c] = s
        /\ \A x \in DOMAIN heap.size : heap'.size[x] = heap.size[x]
    BY <1>4, <1>5
  <1>7. ASSUME NEW u \in Nat
        PROVE  Covers(heap', u) <=> Covers(heap, u) \/ (c <= u /\ u < c + s)
    BY <1>6 DEF Covers
  <1>8. ASSUME NEW u \in Nat, Covers(heap, u)  PROVE  u < brk
    <2>1. PICK x \in DOMAIN heap.size : x <= u /\ u < x + heap.size[x]
      BY <1>8 DEF Covers
    <2>2. x + heap.size[x] <= brk /\ x \in Nat /\ heap.size[x] \in Nat
      BY DEF Inv, InOrder, WellFormed
    <2> QED  BY <2>1, <2>2, <1>2
  <1>9. ASSUME NEW u \in Nat, u < brk
        PROVE  (Covers(heap', u) <=> Covers(heap, u)) /\ (u \in outside' <=> u \in outside)
    <2>1. ~(c <= u) /\ u \notin brk .. c - 1
      BY <1>2, <1>3, <1>9
    <2>2. u \in outside' <=> u \in outside
      BY <2>1, <1>1
    <2>3. Covers(heap', u) <=> Covers(heap, u)
      BY <2>1, <1>7
    <2> QED  BY <2>2, <2>3
  <1>10. ASSUME NEW u \in brk .. brk' - 1  PROVE  u \in outside' <=> ~Covers(heap', u)
    <2>1. u \in Nat /\ ~(u < brk) /\ u < c + s
      BY <1>2, <1>3
    <2>2. u \notin outside /\ ~Covers(heap, u)
      BY <2>1, <1>8 DEF Tiling
    <2>3. u \in outside' <=> u < c
      BY <2>1, <2>2, <1>1, <1>2, <1>3
    <2> QED  BY <2>1, <2>2, <2>3, <1>3, <1>7
  <1>11. \A u \in outside' : u \in Nat /\ u < brk'
    BY <1>1, <1>2, <1>3 DEF Tiling
  <1> QED  BY <1>9, <1>10, <1>11 DEF TilesOn

LEMMA TakeTiles ==
    ASSUME Inv, Tiling, NEW c, NEW s \in Nat \ {0}, Take(c, s)
    PROVE  TilesOn
  BY TakeFitTiles, TakeTopTiles, TakeBreakTiles DEF Take

(***************************************************************************)
(* Each operation, by what it does to the heap.                            *)
(***************************************************************************)
LEMMA MemalignTiles ==
    ASSUME Inv, Tiling, NEW a \in Alignments, NEW n \in Sizes, Memalign(a, n)
    PROVE  TilesOn
  <1> DEFINE m == n + a - MALLOC_ALIGN
             s == ChunkSizeFor(m)
  <1>1. /\ a \in Nat \ {0} /\ a % MALLOC_ALIGN = 0 /\ MALLOC_ALIGN \in Nat \ {0}
        /\ n \in Nat
    BY NoosMallocAssumption
  <1>2. m \in Nat
    <2>1. 0 % MALLOC_ALIGN = 0
      BY <1>1
    <2>2. 0 \in Int /\ a \in Nat \ {0}
      BY <1>1
    <2>3. (-0) % a <= a - MALLOC_ALIGN
      BY <2>1, <2>2, <1>1, PaddingInSteps, Zenon
    <2>4. (-0) % a \in Nat
      BY <1>1, PaddingReaches
    <2> QED  BY <2>3, <2>4, <1>1
  <1>3. s \in Nat \ {0}
    <2> HIDE DEF m
    <2>1. ChunkSizeFor(m) # 0
      BY DEF Memalign, m
    <2> QED  BY <2>1, <1>2, ChunkSizeForIs
  <1>4. PICK c \in Candidates : Take(c, s)
    BY DEF Memalign
  <1> HIDE DEF s
  <1> QED  BY <1>3, <1>4, TakeTiles

LEMMA ReallocAllocateTiles ==
    ASSUME Inv, Tiling, NEW t \in Threads, ReallocAllocate(t)
    PROVE  TilesOn
  <1> DEFINE n == moves[t].n
             s == ChunkSizeFor(n)
  <1>1. PICK c \in Candidates : s # 0 /\ Take(c, s)
    BY DEF ReallocAllocate
  <1>2. n \in Nat
    BY DEF Inv
  <1>3. s \in Nat \ {0}
    <2> HIDE DEF n
    <2> QED  BY <1>1, <1>2, ChunkSizeForIs
  <1> HIDE DEF s
  <1> QED  BY <1>1, <1>3, TakeTiles

\* Giving a chunk back, by free() or at the end of a realloc that moved.
LEMMA ReleaseTiles ==
    ASSUME Inv, Tiling, NEW p \in DOMAIN blocks,
           heap' = Release(heap, blocks[p].chunk), UNCHANGED <<brk, outside>>
    PROVE  TilesOn
  <1> DEFINE c == blocks[p].chunk
  <1>1. /\ brk \in Nat /\ WellFormed(heap, brk)
        /\ c \in DOMAIN heap.size /\ c \notin heap.free
    BY DEF Inv, InOrder, BlocksOK, UsedOf
  <1> HIDE DEF c
  <1>2. SameCover(heap, Release(heap, c))
    BY <1>1, ReleaseCovers
  <1>3. SameCover(heap, heap')
    BY <1>2 DEF c
  <1> QED  BY <1>3, CoverKept

LEMMA ReallocShrinkTiles ==
    ASSUME Inv, Tiling, NEW p \in DOMAIN blocks, NEW n \in Sizes, ReallocShrink(p, n)
    PROVE  TilesOn
  <1> DEFINE c == blocks[p].chunk
             s == ChunkSizeFor(n)
  <1>1. /\ n \in Nat /\ brk \in Nat /\ WellFormed(heap, brk)
        /\ c \in DOMAIN heap.size /\ c \notin heap.free
    BY NoosMallocAssumption DEF Inv, InOrder, BlocksOK, UsedOf
  <1>2. /\ s # 0 /\ heap.size[c] >= s /\ heap' = Trim(heap, c, s)
        /\ UNCHANGED <<brk, outside>>
    BY DEF ReallocShrink
  <1>3. s \in Nat \ {0} /\ s <= heap.size[c]
    BY <1>1, <1>2, ChunkSizeForIs DEF WellFormed
  <1> HIDE DEF c, s
  <1>4. SameCover(heap, heap')
    BY <1>1, <1>2, <1>3, TrimCovers
  <1> QED  BY <1>2, <1>4, CoverKept

LEMMA ReallocExtendTiles ==
    ASSUME Inv, Tiling, NEW p \in DOMAIN blocks, NEW n \in Sizes, ReallocExtend(p, n)
    PROVE  TilesOn
  <1> DEFINE c == blocks[p].chunk
             s == ChunkSizeFor(n)
  <1>1. /\ n \in Nat /\ WellFormed(heap, brk) /\ c \in DOMAIN heap.size
    BY NoosMallocAssumption DEF Inv, InOrder, BlocksOK, UsedOf
  <1>2. /\ s # 0 /\ heap.size[c] < s /\ c + heap.size[c] = brk
        /\ heap' = [heap EXCEPT !.size[c] = s]
        /\ brk' = brk + (s - heap.size[c]) /\ UNCHANGED outside
    BY DEF ReallocExtend, CanExtend, ChunkEnd
  <1>3. s \in Nat \ {0} /\ heap.size[c] \in Nat /\ heap.size[c] <= s
    BY <1>1, <1>2, ChunkSizeForIs DEF WellFormed
  <1> HIDE DEF c, s
  <1>4. heap'.size = [heap.size EXCEPT ![c] = s]
    <2>1. heap = [size |-> heap.size, free |-> heap.free]
      BY <1>1 DEF WellFormed
    <2> QED  BY <2>1, <1>2
  <1> QED  BY <1>1, <1>2, <1>3, <1>4, CoverGrows

LEMMA ForeignSbrkTiles ==
    ASSUME Inv, Tiling, NEW n \in ForeignMoves, ForeignSbrk(n)
    PROVE  TilesOn
  <1>1. /\ heap' = heap /\ brk' = brk + n /\ outside' = outside \cup (brk .. brk + n - 1)
        /\ n \in Nat /\ brk \in Nat
    BY NoosMallocAssumption DEF ForeignSbrk, Inv
  <1>2. ASSUME NEW u \in Nat, Covers(heap, u)  PROVE  u < brk
    <2>1. PICK x \in DOMAIN heap.size : x <= u /\ u < x + heap.size[x]
      BY <1>2 DEF Covers
    <2>2. x + heap.size[x] <= brk /\ x \in Nat /\ heap.size[x] \in Nat
      BY DEF Inv, InOrder, WellFormed
    <2> QED  BY <2>1, <2>2, <1>1
  <1>3. ASSUME NEW u \in Nat, u < brk
        PROVE  (Covers(heap', u) <=> Covers(heap, u)) /\ (u \in outside' <=> u \in outside)
    <2>1. u \notin brk .. brk + n - 1
      BY <1>1, <1>3
    <2> QED  BY <2>1, <1>1
  <1>4. ASSUME NEW u \in brk .. brk' - 1  PROVE  u \in outside' <=> ~Covers(heap', u)
    <2>1. u \in Nat /\ ~(u < brk) /\ u \in brk .. brk + n - 1
      BY <1>1
    <2> QED  BY <2>1, <1>1, <1>2
  <1>5. \A u \in outside' : u \in Nat /\ u < brk'
    BY <1>1 DEF Tiling
  <1> QED  BY <1>3, <1>4, <1>5 DEF TilesOn

LEMMA ReallocAbsorbTiles ==
    ASSUME Inv, Tiling, NEW p \in DOMAIN blocks, NEW n \in Sizes, ReallocAbsorb(p, n)
    PROVE  TilesOn
  <1> DEFINE c == blocks[p].chunk
             s == ChunkSizeFor(n)
             f == ChunkEnd(heap, c)
             h == Absorbed(c)
  <1>1. /\ n \in Nat /\ brk \in Nat /\ WellFormed(heap, brk)
        /\ c \in DOMAIN heap.size /\ c \notin heap.free
    BY NoosMallocAssumption DEF Inv, InOrder, BlocksOK, UsedOf
  <1>2. /\ s # 0 /\ f \in heap.free /\ heap.size[c] + heap.size[f] >= s
        /\ heap' = Trim(h, c, s) /\ UNCHANGED <<brk, outside>>
    BY DEF ReallocAbsorb, CanAbsorb
  <1>3. s \in Nat \ {0}
    BY <1>1, <1>2, ChunkSizeForIs
  <1> HIDE DEF c, s
  <1>4. SameCover(heap, h)
    BY <1>1, <1>2, AbsorbedCovers
  <1>5. /\ WellFormed(h, brk) /\ c \in DOMAIN h.size /\ c \notin h.free
        /\ h.size[c] = heap.size[c] + heap.size[f]
    BY <1>1, <1>2, AbsorbedInOrder
  <1> HIDE DEF h, f
  <1>6. s <= h.size[c]
    BY <1>1, <1>2, <1>3, <1>5 DEF WellFormed
  <1>7. SameCover(h, heap')
    BY <1>1, <1>2, <1>3, <1>5, <1>6, TrimCovers
  <1>8. SameCover(heap, heap')
    BY <1>4, <1>7 DEF SameCover
  <1> QED  BY <1>2, <1>8, CoverKept

-------------------------------------------------------------------------------
LEMMA TilingInit == Init => Tiling
  BY NoosMallocAssumption DEF Init, Tiling

LEMMA TilingNext == Inv /\ Inv' /\ Tiling /\ [Next]_vars => Tiling'
  <1> SUFFICES ASSUME Inv, Inv', Tiling, [Next]_vars  PROVE  Tiling'
    OBVIOUS
  <1>1. ASSUME NEW a \in Alignments, NEW n \in Sizes, Memalign(a, n)  PROVE  TilesOn
    BY <1>1, MemalignTiles
  <1>2. ASSUME NEW p \in DOMAIN blocks, Free(p)  PROVE  TilesOn
    BY <1>2, ReleaseTiles DEF Free
  <1>3. ASSUME NEW p \in DOMAIN blocks, NEW n \in Sizes, ReallocShrink(p, n)  PROVE  TilesOn
    BY <1>3, ReallocShrinkTiles
  <1>4. ASSUME NEW p \in DOMAIN blocks, NEW n \in Sizes, ReallocAbsorb(p, n)  PROVE  TilesOn
    BY <1>4, ReallocAbsorbTiles
  <1>5. ASSUME NEW p \in DOMAIN blocks, NEW n \in Sizes, ReallocExtend(p, n)  PROVE  TilesOn
    BY <1>5, ReallocExtendTiles
  <1>6. ASSUME UNCHANGED <<heap, brk, outside>>  PROVE  TilesOn
    <2>1. SameCover(heap, heap')
      BY <1>6 DEF SameCover
    <2> QED  BY <2>1, <1>6, CoverKept
  <1>7. ASSUME NEW t \in Threads, NEW p \in DOMAIN blocks, NEW n \in Sizes,
               ReallocMustMove(t, p, n)
        PROVE  TilesOn
    BY <1>6, <1>7 DEF ReallocMustMove
  <1>8. ASSUME NEW t \in Threads, ReallocAllocate(t)  PROVE  TilesOn
    BY <1>8, ReallocAllocateTiles
  <1>9. ASSUME NEW t \in Threads, ReallocGivesUp(t)  PROVE  TilesOn
    BY <1>6, <1>9 DEF ReallocGivesUp
  <1>10. ASSUME NEW t \in Threads, ReallocRelease(t)  PROVE  TilesOn
    <2>1. moves[t].p \in DOMAIN blocks /\ heap' = Release(heap, blocks[moves[t].p].chunk)
      BY <1>10, ReallocReleaseStep
    <2>2. UNCHANGED <<brk, outside>>
      BY <1>10 DEF ReallocRelease
    <2> QED  BY <2>1, <2>2, ReleaseTiles
  <1>11. ASSUME NEW n \in ForeignMoves, ForeignSbrk(n)  PROVE  TilesOn
    BY <1>11, ForeignSbrkTiles
  <1>12. ASSUME UNCHANGED vars  PROVE  TilesOn
    BY <1>6, <1>12 DEF vars
  <1>13. TilesOn
    BY <1>1, <1>2, <1>3, <1>4, <1>5, <1>7, <1>8, <1>9, <1>10, <1>11, <1>12 DEF Next
  <1> QED  BY <1>13, TilesOnKeeps

LEMMA TilingImplies == Tiling => Tiled
  BY DEF Tiling, Tiled, Covers, Chunks, ChunkEnd

\* No operation loses memory: every unit the break has passed is in a chunk,
\* or was another's or skipped for alignment, in every execution.
THEOREM NothingLost == Spec => []Tiled
  <1>1. Init => Tiling
    BY TilingInit
  <1>2. Inv /\ Inv' /\ Tiling /\ [Next]_vars => Tiling'
    BY TilingNext
  <1>3. Tiling => Tiled
    BY TilingImplies
  <1> QED  BY <1>1, <1>2, <1>3, InvAlways, PTL DEF Spec
===============================================================================
