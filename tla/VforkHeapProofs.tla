-------------------------- MODULE VforkHeapProofs --------------------------
(***************************************************************************)
(* Proofs about VforkHeap, for every size of page, pool and header: while  *)
(* parent and child share the heap the lists in memory are what the roots  *)
(* assume, and the parent finds every block it held.                       *)
(*                                                                         *)
(* First the parts: a walk along links meets what it should, a sorted list *)
(* in memory is relinked by an insertion or a removal and stays one, and   *)
(* the kernel's pages.  Then the heap, described relative to what is       *)
(* outside it, the set L of the headers of the blocks held; and the pools  *)
(* that blocks may lie in are given apart from the fields that name them,  *)
(* R those on the retired list and D those besides, because between two    *)
(* steps of one operation a pool may be on no list at all.                 *)
(***************************************************************************)
EXTENDS VforkHeap, NumberFacts, FiniteSetTheorems, TLAPS

-------------------------------------------------------------------------------
(***************************************************************************)
(* Numbers.                                                                *)
(***************************************************************************)

\* What the assumption comes to.
LEMMA ConstantsAre ==
    /\ ALIGN \in Nat \ {0} /\ LONG \in Nat \ {0} /\ HDR \in Nat \ {0}
    /\ MSET \in Nat \ {0} /\ PGSIZE \in Nat \ {0} /\ MSETLEN_MIN \in Nat \ {0}
    /\ MAP_END \in Nat /\ MSETLEN_MAX \in Nat
    /\ LONG <= ALIGN /\ ALIGN <= HDR /\ HDR < PGSIZE
    /\ PGSIZE % ALIGN = 0 /\ MSETLEN_MIN % PGSIZE = 0
    /\ STDERR_BUFSIZ \in Nat /\ Sizes \subseteq Nat
  <1>1. /\ ALIGN \in Nat \ {0} /\ LONG \in Nat \ {0} /\ HDR \in Nat \ {0}
        /\ MSET \in Nat \ {0} /\ PGSIZE \in Nat \ {0} /\ MSETLEN_MIN \in Nat \ {0}
        /\ HDR % ALIGN = 0
    BY VforkHeapAssumption
  <1>2. HDR >= ALIGN
    BY <1>1, AtLeastAsBig
  <1>3. MSETLEN_MAX \in Nat
    <2>1. PICK k \in Doublings : MSETLEN_MAX = MSETLEN_MIN * k
      BY VforkHeapAssumption
    <2>2. k \in Nat
      BY DEF Doublings
    <2> QED  BY <1>1, <2>1, <2>2
  <1> QED  BY <1>1, <1>2, <1>3, VforkHeapAssumption

LEMMA WholePages ==
    ASSUME NEW x \in Int, NEW y \in Int, x % PGSIZE = 0, y % PGSIZE = 0
    PROVE  (x + y) % PGSIZE = 0 /\ (x - y) % PGSIZE = 0
  BY ConstantsAre, MultiplesAdd, Zenon

\* A finite set with one member more, or one less.
LEMMA MemberMore ==
    ASSUME NEW S, IsFiniteSet(S), NEW x, x \notin S, NEW T, T = S \cup {x}
    PROVE  IsFiniteSet(T) /\ Cardinality(T) = Cardinality(S) + 1
  BY FS_AddElement, Zenon

LEMMA MemberLess ==
    ASSUME NEW S, IsFiniteSet(S), NEW x \in S, NEW T, T = S \ {x}
    PROVE  /\ IsFiniteSet(T) /\ Cardinality(T) = Cardinality(S) - 1
           /\ Cardinality(S) \in Nat \ {0}
  <1>1. Cardinality(S) \in Nat /\ (Cardinality(S) = 0 => S = {})
    BY FS_CardinalityType, FS_EmptySet
  <1>2. IsFiniteSet(T) /\ Cardinality(T) = Cardinality(S) - 1
    BY FS_RemoveElement
  <1> QED  BY <1>1, <1>2

LEMMA NoMembers ==
    ASSUME NEW S, IsFiniteSet(S), Cardinality(S) = 0
    PROVE  S = {}
  BY FS_EmptySet

LEMMA LeastIs ==
    ASSUME NEW S, S \subseteq Nat, S # {}
    PROVE  Least(S) \in S /\ \A y \in S : Least(S) <= y
  BY LeastOf DEF Least

LEMMA GreatestIs ==
    ASSUME NEW S, S \subseteq Nat, S # {}, NEW n \in Nat, \A x \in S : x <= n
    PROVE  Greatest(S) \in S /\ \A y \in S : Greatest(S) >= y
  BY GreatestOf DEF Greatest

LEMMA RoundUpIs ==
    ASSUME NEW x \in Nat, NEW a \in Nat \ {0}
    PROVE  /\ RoundUp(x, a) \in Nat
           /\ x <= RoundUp(x, a)
           /\ RoundUp(x, a) < x + a
           /\ RoundUp(x, a) % a = 0
  BY PaddingReaches DEF RoundUp

\* What a pool spends on a block of n bytes.
LEMMA AllocSizeIs ==
    ASSUME NEW n \in Nat
    PROVE  /\ AllocSize(n) \in Nat \ {0}
           /\ n + HDR <= AllocSize(n)
  <1>1. n + HDR \in Nat /\ ALIGN \in Nat \ {0} /\ HDR \in Nat \ {0}
    BY ConstantsAre
  <1>2. AllocSize(n) \in Nat /\ n + HDR <= AllocSize(n)
    BY <1>1, RoundUpIs, Zenon DEF AllocSize
  <1> QED  BY <1>1, <1>2

\* The bump pointer rounded up is still inside the pool.
LEMMA TailIs ==
    ASSUME NEW size \in Nat, NEW len \in Nat, size <= len, len % PGSIZE = 0
    PROVE  RoundUp(size, ALIGN) \in Nat /\ size <= RoundUp(size, ALIGN)
  BY ConstantsAre, RoundUpIs

\* A block at the bump pointer does not begin where its bytes would begin a page.
LEMMA SkipIs ==
    ASSUME NEW x \in Nat
    PROVE  /\ Skip(x) \in Nat /\ x <= Skip(x) /\ Skip(x) <= x + LONG
           /\ \A end \in Nat : end % PGSIZE = 0 /\ x <= end => Skip(x) <= end
  <1>1. /\ HDR \in Nat \ {0} /\ LONG \in Nat \ {0} /\ PGSIZE \in Nat \ {0}
        /\ LONG <= HDR /\ HDR < PGSIZE
    BY ConstantsAre
  <1>2. CASE (x + HDR) % PGSIZE = 0
    <2>1. Skip(x) = x + LONG
      BY <1>2 DEF Skip
    <2>2. ASSUME NEW end \in Nat, end % PGSIZE = 0, x <= end  PROVE Skip(x) <= end
      <3> DEFINE e == x + HDR
      <3>1. e \in Int /\ e % PGSIZE = 0
        BY <1>1, <1>2
      <3> HIDE DEF e
      <3>2. (e - end) % PGSIZE = 0
        BY <3>1, <2>2, WholePages
      <3>3. CASE e <= end
        BY <3>3, <2>1, <1>1 DEF e
      <3>4. CASE e > end
        <4>1. e - end \in Nat \ {0}
          BY <3>4, <3>1
        <4>2. e - end >= PGSIZE
          BY <4>1, <3>2, <1>1, AtLeastAsBig
        <4> QED  BY <4>2, <2>2, <1>1 DEF e
      <3> QED  BY <3>3, <3>4, <3>1
    <2> QED  BY <2>1, <2>2, <1>1
  <1>3. CASE (x + HDR) % PGSIZE # 0
    BY <1>1, <1>3 DEF Skip
  <1> QED  BY <1>2, <1>3

-------------------------------------------------------------------------------
(***************************************************************************)
(* Walks.  A set is chained when a walk from `head` meets all of it and    *)
(* ends: no link leads out of it or back, and each member is the head or   *)
(* the link of another.                                                    *)
(***************************************************************************)
Chained(next, head, S) ==
    /\ S \subseteq DOMAIN next /\ NULL \notin S
    /\ head \in S \cup {NULL}
    /\ \A x \in S : next[x] \in S \cup {NULL}
    /\ \A x \in S : x = head \/ \E y \in S : next[y] = x
    /\ \E k \in [S -> Nat] : \A x \in S : next[x] \in S => k[x] < k[next[x]]

Steps(f, next, head, n) ==
    f = [i \in 0 .. n |-> IF i = 0 THEN head ELSE Follow(next, f[i - 1])]

LEMMA StepsExist ==
    ASSUME NEW next, NEW head, NEW n \in Nat
    PROVE  \E f : Steps(f, next, head, n)
  <1> DEFINE T == {m \in Nat : \E f : Steps(f, next, head, m)}
             At(f, i) == IF i = 0 THEN head ELSE Follow(next, f[i - 1])
  <1>1. 0 \in T
    <2> DEFINE f == [i \in 0 .. 0 |-> head]
    <2>1. f = [i \in 0 .. 0 |-> At(f, i)]
      OBVIOUS
    <2> QED  BY <2>1 DEF Steps
  <1>2. ASSUME NEW m \in Nat, m \in T  PROVE m + 1 \in T
    <2>1. PICK f : Steps(f, next, head, m)
      BY <1>2
    <2> DEFINE g == [i \in 0 .. m + 1 |-> IF i = m + 1 THEN At(f, i) ELSE f[i]]
    <2>2. ASSUME NEW i \in 0 .. m + 1  PROVE g[i] = At(g, i)
      <3>1. i # 0 => i - 1 \in 0 .. m /\ i - 1 \in 0 .. m + 1 /\ i - 1 # m + 1
        OBVIOUS
      <3>2. i # 0 => g[i - 1] = f[i - 1]
        BY <3>1
      <3>3. At(g, i) = At(f, i)
        BY <3>2
      <3>4. i # m + 1 => i \in 0 .. m
        OBVIOUS
      <3>5. \A j \in 0 .. m : f[j] = At(f, j)
        BY <2>1 DEF Steps
      <3>6. g[i] = At(f, i)
        BY <3>4, <3>5
      <3> QED  BY <3>3, <3>6
    <2>3. g = [i \in 0 .. m + 1 |-> g[i]]
      OBVIOUS
    <2> HIDE DEF g
    <2>4. g = [i \in 0 .. m + 1 |-> At(g, i)]
      BY <2>2, <2>3
    <2>5. Steps(g, next, head, m + 1)
      BY <2>4 DEF Steps
    <2> QED  BY <2>5
  <1>3. n \in T
    BY <1>1, <1>2, Induct
  <1> QED  BY <1>3

LEMMA WalkSteps ==
    ASSUME NEW next, NEW head, IsFiniteSet(DOMAIN next),
           NEW n, n = Cardinality(DOMAIN next), NEW f, f = Walk(next, head)
    PROVE  /\ n \in Nat
           /\ DOMAIN f = 0 .. n
           /\ f[0] = head
           /\ \A i \in 0 .. n : i # 0 => f[i] = Follow(next, f[i - 1])
  <1>1. n \in Nat
    BY FS_CardinalityType
  <1>2. f = CHOOSE g : Steps(g, next, head, n)
    BY DEF Walk, Steps
  <1>3. Steps(f, next, head, n)
    BY <1>1, <1>2, StepsExist
  <1>4. f[0] = head /\ \A i \in 0 .. n : i # 0 => f[i] = Follow(next, f[i - 1])
    BY <1>1, <1>3 DEF Steps
  <1> QED  BY <1>1, <1>3, <1>4 DEF Steps

\* A walk along links that come round nowhere meets what they lead to.
LEMMA WalkIs ==
    ASSUME NEW next, NEW head, NEW S, IsFiniteSet(DOMAIN next), NULL \notin DOMAIN next,
           Chained(next, head, S)
    PROVE  /\ Met(next, head) = S
           /\ DOMAIN Walk(next, head) \subseteq Nat
           /\ \A i \in DOMAIN Walk(next, head) : Walk(next, head)[i] \in S \cup {NULL}
           /\ \A x \in S : \E i \in DOMAIN Walk(next, head) : Walk(next, head)[i] = x
  <1> DEFINE f == Walk(next, head)
             n == Cardinality(DOMAIN next)
  <1>1. /\ n \in Nat /\ DOMAIN f = 0 .. n /\ f[0] = head
        /\ \A i \in 0 .. n : i # 0 => f[i] = Follow(next, f[i - 1])
    BY WalkSteps
  <1> HIDE DEF f
  <1>2. /\ \A x \in S : Follow(next, x) = next[x] /\ next[x] \in S \cup {NULL}
        /\ Follow(next, NULL) = NULL
        /\ NULL \notin S /\ head \in S \cup {NULL} /\ S \subseteq DOMAIN next
        /\ \A x \in S : x = head \/ \E y \in S : next[y] = x
    BY DEF Chained, Follow
  <1>3. PICK k \in [S -> Nat] : \A x \in S : next[x] \in S => k[x] < k[next[x]]
    BY DEF Chained
  <1>4. IsFiniteSet(S) /\ Cardinality(S) <= n /\ Cardinality(S) \in Nat
    BY <1>2, FS_Subset, FS_CardinalityType
  <1> HIDE DEF n
  <1>5. \A i \in 0 .. n : i # 0 => i - 1 \in 0 .. n
    BY <1>1
  <1>6. \A i \in 0 .. n : f[i] \in S \cup {NULL}
    <2> DEFINE T == {i \in Nat : i <= n => f[i] \in S \cup {NULL}}
    <2>1. 0 \in T
      BY <1>1, <1>2
    <2>2. ASSUME NEW i \in Nat, i \in T  PROVE i + 1 \in T
      <3>1. CASE i + 1 <= n
        <4>1. i + 1 \in 0 .. n /\ i + 1 # 0 /\ (i + 1) - 1 = i /\ i <= n
          BY <3>1, <1>1
        <4>2. f[i + 1] = Follow(next, f[i])
          BY <4>1, <1>1
        <4>3. f[i] \in S \cup {NULL}
          BY <4>1, <2>2
        <4> QED  BY <4>2, <4>3, <1>2
      <3> QED  BY <3>1
    <2>3. Nat \subseteq T
      BY <2>1, <2>2, Induct
    <2> QED  BY <2>3, <1>1
  <1>7. \A j \in 0 .. n : \A i \in 0 .. n : i < j /\ f[j] \in S => f[i] \in S /\ k[f[i]] < k[f[j]]
    <2> DEFINE T == {j \in Nat : j <= n => \A i \in 0 .. n :
                        i < j /\ f[j] \in S => f[i] \in S /\ k[f[i]] < k[f[j]]}
    <2>1. 0 \in T
      OBVIOUS
    <2>2. ASSUME NEW j \in Nat, j \in T  PROVE j + 1 \in T
      <3> SUFFICES ASSUME j + 1 <= n, NEW i \in 0 .. n, i < j + 1, f[j + 1] \in S
                   PROVE  f[i] \in S /\ k[f[i]] < k[f[j + 1]]
        OBVIOUS
      <3>1. j + 1 \in 0 .. n /\ j + 1 # 0 /\ (j + 1) - 1 = j /\ j <= n /\ j \in 0 .. n
        BY <1>1
      <3>2. f[j + 1] = Follow(next, f[j])
        BY <3>1, <1>1
      <3>3. f[j] \in S
        BY <3>1, <3>2, <1>2, <1>6
      <3>4. k[f[j]] < k[f[j + 1]]
        BY <3>2, <3>3, <1>2, <1>3
      <3>5. CASE i = j
        BY <3>3, <3>4, <3>5
      <3>6. CASE i < j
        <4>1. f[i] \in S /\ k[f[i]] < k[f[j]]
          BY <2>2, <3>1, <3>3, <3>6
        <4>2. k[f[i]] \in Nat /\ k[f[j]] \in Nat /\ k[f[j + 1]] \in Nat
          BY <4>1, <3>3, <1>3
        <4> QED  BY <4>1, <4>2, <3>4
      <3> QED  BY <3>5, <3>6
    <2>3. Nat \subseteq T
      BY <2>1, <2>2, Induct
    <2> QED  BY <2>3, <1>1
  <1>8. f[n] \notin S
    <2>1. SUFFICES ASSUME f[n] \in S  PROVE FALSE
      OBVIOUS
    <2>2. n \in 0 .. n
      BY <1>1
    <2>3. \A i \in 0 .. n : f[i] \in S
      BY <2>1, <2>2, <1>7
    <2>4. \A i, j \in 0 .. n : i # j => f[i] # f[j]
      <3>1. \A i, j \in 0 .. n : i < j => f[i] # f[j]
        BY <1>7, <2>3, <1>3
      <3> QED  BY <3>1, <1>1
    <2> DEFINE I == 0 .. n
               g == [i \in I |-> f[i]]
    <2>5. g \in Injection(I, S)
      BY <2>3, <2>4 DEF Injection, IsInjective
    <2>6. IsFiniteSet(I) /\ Cardinality(I) = n + 1
      BY <1>1, FS_Interval
    <2> HIDE DEF I, g
    <2>7. Cardinality(I) <= Cardinality(S)
      BY <2>5, <1>4, FS_Injection
    <2> QED  BY <2>6, <2>7, <1>1, <1>4
  <1>9. \A x \in S : \E i \in 0 .. n : f[i] = x
    <2> DEFINE M == {x \in S : \A i \in 0 .. n : f[i] # x}
               K == {k[x] : x \in M}
    <2>1. SUFFICES ASSUME M # {}  PROVE FALSE
      OBVIOUS
    <2>2. K \subseteq Nat /\ K # {}
      BY <2>1, <1>3
    <2>3. PICK r \in K : \A q \in K : r <= q
      BY <2>2, LeastOf
    <2>4. PICK x \in M : k[x] = r
      BY <2>3
    <2>5. x \in S /\ x # head
      BY <2>4, <1>1
    <2>6. PICK y \in S : next[y] = x
      BY <2>5, <1>2
    <2>7. k[y] < k[x] /\ k[y] \in Nat /\ k[x] \in Nat
      BY <2>5, <2>6, <1>3
    <2>8. y \notin M
      BY <2>3, <2>4, <2>7
    <2>9. PICK i \in 0 .. n : f[i] = y
      BY <2>8
    <2>10. i # n
      BY <2>9, <1>8
    <2>11. i + 1 \in 0 .. n /\ i + 1 # 0 /\ (i + 1) - 1 = i
      BY <2>10, <1>1
    <2>12. f[i + 1] = x
      BY <2>11, <2>9, <2>6, <1>1, <1>2
    <2> QED  BY <2>4, <2>11, <2>12
  <1>10. Met(next, head) = S
    BY <1>1, <1>2, <1>6, <1>9 DEF Met, f
  <1>11. /\ DOMAIN f \subseteq Nat
         /\ \A i \in DOMAIN f : f[i] \in S \cup {NULL}
         /\ \A x \in S : \E i \in DOMAIN f : f[i] = x
    <2>1. DOMAIN f = 0 .. n /\ 0 .. n \subseteq Nat
      BY <1>1
    <2>2. \A i \in DOMAIN f : f[i] \in S \cup {NULL}
      BY <2>1, <1>6
    <2>3. \A x \in S : \E i \in DOMAIN f : f[i] = x
      BY <2>1, <1>9
    <2> QED  BY <2>1, <2>2, <2>3
  <1> QED  BY <1>10, <1>11 DEF f

-------------------------------------------------------------------------------
(***************************************************************************)
(* Lists of free blocks: nodes in the order of their addresses.            *)
(***************************************************************************)

\* n is the member of S that comes next after x, NULL if none does.
NextIs(S, x, n) ==
    IF n = NULL THEN \A y \in S : y <= x
    ELSE n \in S /\ x < n /\ \A y \in S : x < y => n <= y

\* ... and p the one that comes before it.
PrevIs(S, x, p) ==
    IF p = NULL THEN \A y \in S : y >= x
    ELSE p \in S /\ p < x /\ \A y \in S : y < x => y <= p

Sorted(w, head, S) ==
    /\ S \subseteq DOMAIN w
    /\ NextIs(S, NULL, head)
    /\ \A x \in S : NextIs(S, x, w[x].next)

Words == [next : Nat, size : Nat]

IsMemory(w) ==
    /\ w \in [DOMAIN w -> Words]
    /\ DOMAIN w \subseteq Nat \ {NULL}
    /\ IsFiniteSet(DOMAIN w)

LEMMA AfterIs ==
    ASSUME NEW S, S \subseteq Nat \ {NULL}, NEW x \in Nat
    PROVE  NextIs(S, x, After(S, x)) /\ After(S, x) \in Nat
  <1> DEFINE T == {y \in S : y > x}
  <1>1. CASE T = {}
    BY <1>1 DEF After, NextIs, NULL
  <1>2. CASE T # {}
    <2>1. Least(T) \in T /\ \A y \in T : Least(T) <= y
      BY <1>2, LeastIs
    <2>2. After(S, x) = Least(T)
      BY <1>2 DEF After
    <2> QED  BY <2>1, <2>2 DEF NextIs
  <1> QED  BY <1>1, <1>2

LEMMA BeforeIs ==
    ASSUME NEW S, S \subseteq Nat \ {NULL}, NEW x \in Nat
    PROVE  PrevIs(S, x, Before(S, x)) /\ Before(S, x) \in Nat
  <1> DEFINE T == {y \in S : y < x}
  <1>1. CASE T = {}
    BY <1>1 DEF Before, PrevIs, NULL
  <1>2. CASE T # {}
    <2>1. Greatest(T) \in T /\ \A y \in T : Greatest(T) >= y
      <3>1. T \subseteq Nat
        OBVIOUS
      <3>2. \A y \in T : y <= x
        OBVIOUS
      <3> HIDE DEF T
      <3> QED  BY <3>1, <3>2, <1>2, GreatestIs
    <2>2. Before(S, x) = Greatest(T)
      BY <1>2 DEF Before
    <2> QED  BY <2>1, <2>2 DEF PrevIs
  <1> QED  BY <1>1, <1>2

\* A walk along a sorted list meets its nodes.
LEMMA SortedIs ==
    ASSUME NEW w, IsMemory(w), NEW head, NEW S, Sorted(w, head, S)
    PROVE  Met(Links(w), head) = S
  <1> DEFINE next == Links(w)
             k == [x \in S |-> x]
  <1>1. /\ DOMAIN next = DOMAIN w /\ \A x \in DOMAIN w : next[x] = w[x].next
        /\ S \subseteq Nat \ {NULL} /\ S \subseteq DOMAIN w
        /\ IsFiniteSet(DOMAIN w) /\ NULL \notin DOMAIN w
        /\ \A x \in S : w[x].next \in Nat
    BY DEF Links, IsMemory, Sorted, Words
  <1> HIDE DEF next
  <1>2. k \in [S -> Nat] /\ \A x \in S : next[x] \in S => k[x] < k[next[x]]
    <2>1. \A x \in S : next[x] \in S => x < next[x]
      BY <1>1 DEF Sorted, NextIs
    <2> QED  BY <2>1, <1>1
  <1>3. ASSUME NEW x \in S  PROVE x = head \/ \E y \in S : next[y] = x
    <2>1. PrevIs(S, x, Before(S, x))
      BY <1>1, BeforeIs
    <2>2. CASE Before(S, x) = NULL
      <3>1. \A y \in S : y >= x
        BY <2>1, <2>2 DEF PrevIs
      <3>2. NextIs(S, NULL, head)
        BY DEF Sorted
      <3>3. x \in Nat /\ x > 0
        BY <1>1 DEF NULL
      <3>4. head # NULL
        BY <3>2, <3>3 DEF NextIs, NULL
      <3>5. head \in S /\ head <= x /\ x <= head /\ head \in Nat
        BY <3>1, <3>2, <3>3, <3>4, <1>1 DEF NextIs, NULL
      <3> QED  BY <3>3, <3>5
    <2>3. CASE Before(S, x) # NULL
      <3> DEFINE y == Before(S, x)
      <3>1. y \in S /\ y < x /\ \A z \in S : z < x => z <= y
        BY <2>1, <2>3 DEF PrevIs
      <3> HIDE DEF y
      <3>2. NextIs(S, y, next[y])
        BY <3>1, <1>1 DEF Sorted
      <3>3. next[y] = x
        BY <3>1, <3>2, <1>1 DEF NextIs
      <3> QED  BY <3>1, <3>3
    <2> QED  BY <2>2, <2>3
  <1>4. Chained(next, head, S)
    <2>1. head \in S \cup {NULL} /\ \A x \in S : next[x] \in S \cup {NULL}
      BY <1>1 DEF Sorted, NextIs
    <2> HIDE DEF k
    <2>2. \E q \in [S -> Nat] : \A x \in S : next[x] \in S => q[x] < q[next[x]]
      BY <1>2
    <2> QED  BY <2>1, <2>2, <1>1, <1>3 DEF Chained
  <1> QED  BY <1>1, <1>4, WalkIs DEF next

(***************************************************************************)
(* A pool's blocks.  The free ones, S, and the used ones, A, lie between   *)
(* lo and hi and apart from each other, and no two free ones touch.        *)
(***************************************************************************)
Length(w, a) == AllocSize(w[a].size)

Laid(w, lo, hi, S, A) ==
    /\ S \cup A \subseteq DOMAIN w
    /\ \A x \in S : w[x].size # 0 /\ lo <= x /\ x + w[x].size <= hi
    /\ \A x \in A : lo <= x /\ x + Length(w, x) <= hi
    /\ \A x, y \in S : x < y => x + w[x].size < y
    /\ \A x, y \in A : x < y => x + Length(w, x) <= y
    /\ \A x \in S, y \in A : x + w[x].size <= y \/ y + Length(w, y) <= x

\* There is room for a block of `size` bytes at a.
Clear(w, S, A, a, size) ==
    /\ \A x \in S : x + w[x].size <= a \/ a + size <= x
    /\ \A x \in A : x + Length(w, x) <= a \/ a + size <= x

\* Memory as it was, but for one node or some.
Outside(w, lo, hi) == {x \in DOMAIN w : x < lo \/ x >= hi}
SameWords(v, w, X) == \A x \in X : x \in DOMAIN v /\ v[x] = w[x]

LEMMA LengthIs ==
    ASSUME NEW w, IsMemory(w), NEW x \in DOMAIN w
    PROVE  /\ Length(w, x) \in Nat \ {0} /\ w[x].size \in Nat /\ w[x].next \in Nat
           /\ x \in Nat \ {NULL} /\ x \in Nat /\ x # NULL
           /\ \A v : v[x] = w[x] => Length(v, x) = Length(w, x)
  BY AllocSizeIs DEF IsMemory, Words, Length

\* v is w with r at a.
Stored(v, w, a, r) ==
    /\ DOMAIN v = DOMAIN w \cup {a}
    /\ v[a] = r
    /\ \A x \in DOMAIN w \ {a} : v[x] = w[x]

LEMMA WithIs ==
    ASSUME NEW w, IsMemory(w), NEW a \in Nat \ {NULL}, NEW r \in Words,
           NEW v, v = With(w, a, r)
    PROVE  IsMemory(v) /\ Stored(v, w, a, r)
  <1>1. Stored(v, w, a, r) /\ v = [x \in DOMAIN v |-> v[x]]
    BY DEF With, Stored
  <1>2. IsFiniteSet(DOMAIN v)
    BY <1>1, FS_AddElement DEF IsMemory, Stored
  <1> QED  BY <1>1, <1>2 DEF IsMemory, Stored

LEMMA SetWordIs ==
    ASSUME NEW w, IsMemory(w), NEW a \in DOMAIN w, NEW r \in Words,
           NEW v, v = [w EXCEPT ![a] = r]
    PROVE  IsMemory(v) /\ Stored(v, w, a, r)
  BY DEF IsMemory, Stored

JoinsCur(a, size, cur) == cur # NULL /\ a + size = cur
JoinsPrev(w, a, prev) == prev # NULL /\ prev + w[prev].size = a

Relinked(v, w, a, prev, next, all) ==
    /\ DOMAIN v = DOMAIN w \cup {a}
    /\ \A x \in DOMAIN w \ {a, prev} : v[x] = w[x]
    /\ ~ JoinsPrev(w, a, prev) => v[a].next = next /\ v[a].size = all
    /\ JoinsPrev(w, a, prev) => v[prev].next = next /\ v[prev].size = w[prev].size + all
    /\ ~ JoinsPrev(w, a, prev) /\ prev # NULL => v[prev].next = a /\ v[prev].size = w[prev].size

\* freelist_insert() changes the words of the block and of the node before it.
LEMMA LinkedWords ==
    ASSUME NEW w, IsMemory(w), NEW a \in Nat \ {NULL}, NEW size \in Nat \ {0},
           NEW prev \in DOMAIN w \cup {NULL}, prev # a,
           NEW cur \in DOMAIN w \cup {NULL},
           NEW next, next = IF JoinsCur(a, size, cur) THEN w[cur].next ELSE cur,
           NEW all, all = IF JoinsCur(a, size, cur) THEN size + w[cur].size ELSE size,
           NEW v, v = Linked(w, a, size, prev, cur)
    PROVE  /\ IsMemory(v)
           /\ next \in Nat /\ all \in Nat /\ all >= size
           /\ Relinked(v, w, a, prev, next, all)
  <1> DEFINE r == [next |-> next, size |-> all]
             base == With(w, a, r)
  <1>1. next \in Nat /\ all \in Nat /\ all >= size
    <2>1. cur # NULL => cur \in DOMAIN w /\ w[cur].next \in Nat /\ w[cur].size \in Nat
      BY LengthIs
    <2>2. cur \in Nat
      BY DEF IsMemory, NULL
    <2> QED  BY <2>1, <2>2 DEF JoinsCur
  <1>2. r \in Words /\ r.next = next /\ r.size = all
    BY <1>1 DEF Words
  <1> HIDE DEF r
  <1>3. IsMemory(base) /\ Stored(base, w, a, r)
    BY <1>2, WithIs
  <1>4. v = IF JoinsPrev(w, a, prev) THEN [base EXCEPT ![prev] = [next |-> next, size |-> base[prev].size + all]]
            ELSE IF prev = NULL THEN base
            ELSE [base EXCEPT ![prev].next = a]
    BY DEF Linked, JoinsCur, JoinsPrev, r
  <1> HIDE DEF base
  <1>5. prev # NULL => /\ prev \in DOMAIN base /\ base[prev] = w[prev]
                       /\ w[prev].size \in Nat /\ w[prev] \in Words
    BY <1>3, LengthIs DEF IsMemory, Stored
  <1>6. CASE JoinsPrev(w, a, prev)
    <2>0. prev # NULL /\ prev \in DOMAIN base
      BY <1>5, <1>6 DEF JoinsPrev
    <2> DEFINE q == [next |-> next, size |-> w[prev].size + all]
    <2>1. q \in Words /\ q.next = next /\ q.size = w[prev].size + all
      <3>1. w[prev].size + all \in Nat
        BY <1>1, <1>5, <2>0
      <3> QED  BY <3>1, <1>1 DEF Words
    <2>2. v = [base EXCEPT ![prev] = q]
      BY <1>4, <1>5, <1>6, <2>0
    <2> HIDE DEF q
    <2>3. IsMemory(v) /\ Stored(v, base, prev, q)
      BY <2>0, <2>1, <2>2, <1>3, SetWordIs
    <2> QED  BY <2>0, <2>1, <2>3, <1>1, <1>3, <1>5, <1>6 DEF Stored, Relinked
  <1>7. CASE ~ JoinsPrev(w, a, prev) /\ prev = NULL
    BY <1>1, <1>2, <1>3, <1>4, <1>7 DEF Stored, Relinked
  <1>8. CASE ~ JoinsPrev(w, a, prev) /\ prev # NULL
    <2> DEFINE q == [w[prev] EXCEPT !.next = a]
    <2>1. q \in Words /\ q.next = a /\ q.size = w[prev].size
      BY <1>5, <1>8 DEF Words
    <2>2. v = [base EXCEPT ![prev] = q]
      BY <1>4, <1>5, <1>8
    <2> HIDE DEF q
    <2>3. IsMemory(v) /\ Stored(v, base, prev, q)
      BY <2>1, <2>2, <1>3, <1>5, <1>8, SetWordIs
    <2> QED  BY <2>1, <2>3, <1>1, <1>2, <1>3, <1>5, <1>8 DEF Stored, Relinked
  <1> QED  BY <1>6, <1>7, <1>8

\* A list that is in order, and one that is again after a step on memory.
Ordered(w, head, S, lo, hi, A) ==
    /\ IsMemory(w) /\ head \in Nat /\ lo \in Nat /\ hi \in Nat
    /\ Sorted(w, head, S) /\ Laid(w, lo, hi, S, A)

Reordered(v, w, top, lo, hi, A, B) ==
    /\ IsMemory(v) /\ top \in Nat
    /\ SameWords(v, w, A) /\ SameWords(v, w, Outside(w, lo, hi))
    /\ \E T : Sorted(v, top, T) /\ Laid(v, lo, hi, T, B)

\* freelist_insert() of a block that lies clear of the others.
LEMMA LinkedIs ==
    ASSUME NEW w, NEW head, NEW S, NEW lo, NEW hi, NEW A, Ordered(w, head, S, lo, hi, A),
           NEW a \in Nat \ {NULL}, NEW size \in Nat \ {0}, lo <= a, a + size <= hi,
           a \notin A, Clear(w, S, A, a, size),
           NEW v, v = Linked(w, a, size, Before(S, a), After(S, a)),
           NEW top, top = IF Before(S, a) = NULL THEN a ELSE head
    PROVE  Reordered(v, w, top, lo, hi, A, A)
  <1> DEFINE prev == Before(S, a)
             cur == After(S, a)
  <1>a. /\ prev = Before(S, a) /\ cur = After(S, a) /\ v = Linked(w, a, size, prev, cur)
        /\ top = IF prev = NULL THEN a ELSE head
    OBVIOUS
  <1> HIDE DEF prev, cur
  <1>b. /\ IsMemory(w) /\ head \in Nat /\ lo \in Nat /\ hi \in Nat
        /\ Sorted(w, head, S) /\ Laid(w, lo, hi, S, A)
    BY DEF Ordered
  <1> USE <1>a, <1>b
  <1> DEFINE next == IF JoinsCur(a, size, cur) THEN w[cur].next ELSE cur
             all == IF JoinsCur(a, size, cur) THEN size + w[cur].size ELSE size
             start == IF JoinsPrev(w, a, prev) THEN prev ELSE a
             gone == IF JoinsCur(a, size, cur) THEN cur ELSE NULL
             T == (S \cup {start}) \ {gone}
             last == a + all
  <1>0. /\ next = IF JoinsCur(a, size, cur) THEN w[cur].next ELSE cur
        /\ all = IF JoinsCur(a, size, cur) THEN size + w[cur].size ELSE size
    OBVIOUS
  <1> HIDE DEF next, all
  <1>1. /\ S \subseteq Nat \ {NULL} /\ S \subseteq DOMAIN w
        /\ a \in Nat /\ a > 0 /\ NULL = 0
        /\ \A x \in S : /\ x \in Nat /\ x > 0 /\ w[x].size \in Nat \ {0} /\ w[x].next \in Nat
                        /\ lo <= x /\ x + w[x].size <= hi
        /\ \A x, y \in S : x < y => x + w[x].size < y
    BY LengthIs DEF IsMemory, Laid, NULL
  <1>2. a \notin S
    BY <1>1 DEF Clear
  <1>3. PrevIs(S, a, prev) /\ NextIs(S, a, cur) /\ prev \in Nat /\ cur \in Nat
    BY <1>1, BeforeIs, AfterIs
  <1>4. /\ prev # NULL => prev \in S /\ prev < a
        /\ \A x \in S : x < a => prev # NULL /\ x <= prev
        /\ cur # NULL => cur \in S /\ a < cur
        /\ \A x \in S : a < x => cur # NULL /\ cur <= x
    BY <1>1, <1>2, <1>3 DEF PrevIs, NextIs
  <1>5. /\ prev \in DOMAIN w \cup {NULL} /\ prev # a /\ cur \in DOMAIN w \cup {NULL}
    BY <1>1, <1>3, <1>4
  <1>6. IsMemory(v) /\ next \in Nat /\ all \in Nat /\ all >= size /\ Relinked(v, w, a, prev, next, all)
    BY <1>0, <1>5, LinkedWords
  <1>22. /\ DOMAIN v = DOMAIN w \cup {a}
         /\ \A x \in DOMAIN w \ {a, prev} : v[x] = w[x]
         /\ ~ JoinsPrev(w, a, prev) => v[a].next = next /\ v[a].size = all
         /\ JoinsPrev(w, a, prev) => v[prev].next = next /\ v[prev].size = w[prev].size + all
         /\ ~ JoinsPrev(w, a, prev) /\ prev # NULL => v[prev].next = a /\ v[prev].size = w[prev].size
    BY <1>6 DEF Relinked
  <1>7. /\ JoinsCur(a, size, cur) => cur # NULL /\ a + size = cur /\ next = w[cur].next
                                     /\ all = size + w[cur].size /\ gone = cur
        /\ ~ JoinsCur(a, size, cur) => next = cur /\ all = size /\ gone = NULL
                                       /\ (cur # NULL => a + size # cur)
        /\ JoinsPrev(w, a, prev) => prev # NULL /\ prev + w[prev].size = a /\ start = prev
        /\ ~ JoinsPrev(w, a, prev) => start = a /\ (prev # NULL => prev + w[prev].size # a)
    BY <1>0 DEF JoinsCur, JoinsPrev
  <1> HIDE DEF start, gone
  <1>8. /\ start \in Nat /\ start > 0 /\ start <= a /\ lo <= start
        /\ last \in Nat /\ last <= hi /\ a + size <= last
        /\ start \in T /\ start # gone
    <2>1. start \in Nat /\ start > 0 /\ start <= a /\ lo <= start /\ start # gone
      BY <1>1, <1>4, <1>7
    <2>2. last \in Nat /\ last <= hi /\ a + size <= last
      BY <1>1, <1>4, <1>6, <1>22, <1>7
    <2> QED  BY <2>1, <2>2
  <1>9. /\ v[start].next = next /\ v[start].size = last - start
        /\ \A x \in T : x # start => x \in S /\ x # a /\ v[x].size = w[x].size
        /\ \A x \in T : x # start /\ x # prev => v[x] = w[x]
    <2>1. v[start].next = next /\ v[start].size = last - start
      BY <1>1, <1>4, <1>6, <1>22, <1>7
    <2>2. \A x \in T : x # start => x \in S /\ x # a
      BY <1>2
    <2>3. \A x \in T : x # start /\ x # prev => v[x] = w[x]
      BY <2>2, <1>1, <1>6, <1>22
    <2>4. prev \in T /\ prev # start => v[prev].size = w[prev].size
      BY <2>2, <1>1, <1>6, <1>22, <1>7
    <2> QED  BY <2>1, <2>2, <2>3, <2>4
  \* The other nodes are before the merged block or behind it.
  <1>10. \A x \in T : x # start => \/ x < a /\ x < start /\ x + w[x].size < start
                                   \/ x > a /\ last < x /\ (gone # NULL => gone < x)
    <2> SUFFICES ASSUME NEW x \in T, x # start
                 PROVE  \/ x < a /\ x < start /\ x + w[x].size < start
                        \/ x > a /\ last < x /\ (gone # NULL => gone < x)
      OBVIOUS
    <2>1. x \in S /\ x # a /\ x # gone /\ x \in Nat /\ w[x].size \in Nat
      BY <1>1, <1>9
    <2>2. CASE x < a
      <3>1. prev # NULL /\ x <= prev /\ prev \in S /\ prev \in Nat /\ w[prev].size \in Nat
        BY <2>1, <2>2, <1>1, <1>4
      <3>2. CASE JoinsPrev(w, a, prev)
        BY <3>1, <3>2, <2>1, <2>2, <1>1, <1>7
      <3>3. CASE ~ JoinsPrev(w, a, prev)
        <4>1. prev + w[prev].size < a
          BY <3>1, <3>3, <1>4, <1>7 DEF Clear
        <4> QED  BY <4>1, <3>1, <3>3, <2>1, <2>2, <1>1, <1>7
      <3> QED  BY <3>2, <3>3
    <2>3. CASE x > a
      <3>1. cur # NULL /\ cur <= x /\ cur \in S /\ cur \in Nat /\ w[cur].size \in Nat
        BY <2>1, <2>3, <1>1, <1>4
      <3>2. CASE JoinsCur(a, size, cur)
        <4>1. cur < x /\ cur + w[cur].size < x
          BY <3>1, <3>2, <2>1, <1>1, <1>7
        <4> QED  BY <4>1, <3>1, <3>2, <2>1, <2>3, <1>7
      <3>3. CASE ~ JoinsCur(a, size, cur)
        <4>1. a + size < cur
          BY <3>1, <3>3, <1>4, <1>7 DEF Clear
        <4> QED  BY <4>1, <3>1, <3>3, <2>1, <2>3, <1>7
      <3> QED  BY <3>2, <3>3
    <2> QED  BY <2>1, <2>2, <2>3
  <1>11. T \subseteq Nat \ {NULL} /\ T \subseteq DOMAIN v
    BY <1>1, <1>4, <1>22, <1>7, <1>8
  \* Every member of S from a on is in T, but for the one merged; so is every one before prev.
  <1>12. \A x \in S : x # gone => x \in T
    OBVIOUS
  <1> HIDE DEF T
  <1>13. NextIs(T, start, next)
    <2>1. CASE next = NULL
      <3>1. \A x \in T : ~ (x > a)
        <4> SUFFICES ASSUME NEW x \in T, x > a  PROVE FALSE
          OBVIOUS
        <4>1. x # start /\ x \in S /\ (gone # NULL => gone < x) /\ cur # NULL
          BY <1>4, <1>8, <1>9, <1>10, <1>11
        <4>2. JoinsCur(a, size, cur) /\ cur \in S /\ cur < x
          BY <4>1, <2>1, <1>4, <1>7
        <4>3. NextIs(S, cur, NULL)
          BY <4>2, <2>1, <1>7 DEF Sorted
        <4> QED  BY <4>1, <4>2, <4>3, <1>1 DEF NextIs
      <3> QED  BY <3>1, <2>1, <1>8, <1>10, <1>11 DEF NextIs
    <2>2. CASE next # NULL
      <3>1. next \in S /\ next > a /\ next # gone /\ \A x \in S : x > a /\ x # gone => next <= x
        <4>1. CASE JoinsCur(a, size, cur)
          <5>1. NextIs(S, cur, next) /\ cur \in S /\ cur > a /\ gone = cur
            BY <4>1, <1>4, <1>7 DEF Sorted
          <5>2. next \in S /\ cur < next /\ \A x \in S : cur < x => next <= x
            BY <5>1, <2>2 DEF NextIs
          <5> QED  BY <5>1, <5>2, <1>1, <1>4
        <4>2. CASE ~ JoinsCur(a, size, cur)
          BY <4>2, <2>2, <1>1, <1>4, <1>7
        <4> QED  BY <4>1, <4>2
      <3>2. next \in T /\ start < next
        BY <3>1, <1>1, <1>8, <1>12
      <3>3. \A x \in T : start < x => next <= x
        <4> SUFFICES ASSUME NEW x \in T, start < x  PROVE next <= x
          OBVIOUS
        <4>1. x # start /\ x \in S /\ x > a /\ x # gone
          BY <1>8, <1>9, <1>10, <1>11
        <4> QED  BY <4>1, <3>1
      <3> QED  BY <3>2, <3>3, <2>2 DEF NextIs
    <2> QED  BY <2>1, <2>2
  <1>14. ASSUME NEW x \in T, x # start, x > a  PROVE NextIs(T, x, v[x].next)
    <2>1. x \in S /\ x # prev /\ v[x] = w[x] /\ x \in Nat /\ w[x].next \in Nat
      BY <1>14, <1>1, <1>4, <1>9
    <2>2. NextIs(S, x, w[x].next)
      BY <2>1 DEF Sorted
    <2>3. \A y \in S : y > x => y # gone
      BY <1>14, <1>1, <1>10, <1>11, <1>7
    <2>4. \A y \in T : y > x => y \in S
      BY <1>14, <1>8, <1>9, <1>11
    <2>5. CASE w[x].next = NULL
      BY <2>5, <2>1, <2>2, <2>4, <1>11 DEF NextIs
    <2>6. CASE w[x].next # NULL
      BY <2>6, <2>1, <2>2, <2>3, <2>4, <1>11, <1>12 DEF NextIs
    <2> QED  BY <2>5, <2>6
  <1>15. ASSUME NEW x \in T, x < start  PROVE NextIs(T, x, v[x].next)
    <2>1. x \in S /\ x < a /\ x \in Nat /\ prev # NULL /\ x <= prev /\ prev \in S /\ prev < a
      BY <1>15, <1>1, <1>4, <1>8, <1>9, <1>11
    <2>2. CASE x = prev
      <3>1. ~ JoinsPrev(w, a, prev) /\ start = a /\ v[x].next = a
        BY <2>1, <2>2, <1>15, <1>6, <1>22, <1>7, <1>8
      <3>2. \A y \in T : x < y => a <= y
        <4> SUFFICES ASSUME NEW y \in T, x < y, y # start  PROVE a <= y
          BY <3>1, <1>1
        <4>1. y \in S /\ y # a
          BY <1>9
        <4>2. ~ (y < a)
          BY <4>1, <2>1, <2>2, <1>1, <1>4
        <4> QED  BY <4>1, <4>2, <1>1
      <3> QED  BY <3>1, <3>2, <2>1, <1>1, <1>8 DEF NextIs
    <2>3. CASE x # prev
      <3>1. v[x] = w[x] /\ x < prev /\ w[x].next \in Nat
        BY <2>1, <2>3, <1>15, <1>1, <1>8, <1>9
      <3>2. NextIs(S, x, w[x].next)
        BY <2>1 DEF Sorted
      <3>3. w[x].next \in S /\ x < w[x].next /\ w[x].next <= prev /\ \A y \in S : x < y => w[x].next <= y
        BY <3>1, <3>2, <2>1, <1>1 DEF NextIs
      <3>4. w[x].next \in T
        <4>1. w[x].next # gone
          BY <3>3, <3>1, <2>1, <1>1, <1>4, <1>7
        <4> QED  BY <4>1, <3>3, <1>12
      <3>5. \A y \in T : x < y => w[x].next <= y
        <4> SUFFICES ASSUME NEW y \in T, x < y  PROVE w[x].next <= y
          OBVIOUS
        <4>1. CASE y = start
          BY <4>1, <3>1, <3>3, <2>1, <1>1, <1>7
        <4>2. CASE y # start
          BY <4>2, <3>3, <1>9
        <4> QED  BY <4>1, <4>2
      <3> QED  BY <3>1, <3>3, <3>4, <3>5, <1>1 DEF NextIs
    <2> QED  BY <2>2, <2>3
  <1>16. NextIs(T, NULL, top) /\ top \in Nat
    <2>1. CASE prev = NULL
      <3>1. top = a /\ start = a
        BY <2>1, <1>7
      <3>2. \A y \in T : a <= y
        BY <3>1, <2>1, <1>1, <1>4, <1>8, <1>9, <1>10, <1>11
      <3> QED  BY <3>1, <3>2, <1>1, <1>8 DEF NextIs
    <2>2. CASE prev # NULL
      <3>1. top = head /\ prev \in S /\ prev < a
        BY <2>2, <1>4
      <3>2. NextIs(S, NULL, head)
        BY DEF Sorted
      <3>3. head \in S /\ head > 0 /\ head <= prev /\ \A y \in S : head <= y
        BY <3>1, <3>2, <1>1 DEF NextIs
      <3>4. head # gone
        BY <3>1, <3>3, <1>1, <1>4, <1>7
      <3>5. \A y \in T : head <= y
        <4> SUFFICES ASSUME NEW y \in T  PROVE head <= y
          OBVIOUS
        <4>1. CASE y = start
          BY <4>1, <3>1, <3>3, <1>1, <1>7
        <4>2. CASE y # start
          BY <4>2, <3>3, <1>9
        <4> QED  BY <4>1, <4>2
      <3> QED  BY <3>1, <3>3, <3>4, <3>5, <1>1, <1>12 DEF NextIs
    <2> QED  BY <2>1, <2>2
  <1>17. Sorted(v, top, T)
    <2>1. ASSUME NEW x \in T  PROVE NextIs(T, x, v[x].next)
      <3>1. CASE x = start
        BY <3>1, <1>9, <1>13
      <3>2. CASE x < start
        BY <3>2, <1>15
      <3>3. CASE x # start /\ x > a
        BY <3>3, <1>14
      <3> QED  BY <3>1, <3>2, <3>3, <1>10
    <2> QED  BY <2>1, <1>11, <1>16 DEF Sorted
  <1>18. /\ A \subseteq DOMAIN v
         /\ \A y \in A : /\ Length(v, y) = Length(w, y) /\ Length(w, y) \in Nat /\ y \in Nat
                         /\ y \in DOMAIN w /\ y # a /\ y \notin S
    <2>1. A \subseteq DOMAIN w
      BY DEF Laid
    <2>2. \A y \in A : y \notin S
      <3> SUFFICES ASSUME NEW y \in A, y \in S  PROVE FALSE
        OBVIOUS
      <3>1. y + w[y].size <= y \/ y + Length(w, y) <= y
        BY DEF Laid
      <3>2. w[y].size \in Nat \ {0} /\ Length(w, y) \in Nat \ {0} /\ y \in Nat
        BY <1>1, <2>1, LengthIs
      <3> QED  BY <3>1, <3>2
    <2>3. \A y \in A : y # a /\ v[y] = w[y]
      <3>1. \A y \in A : y # a /\ y # NULL /\ y \in DOMAIN w
        BY <2>1 DEF IsMemory
      <3>2. \A y \in A : y # prev
        BY <3>1, <2>2, <1>4
      <3> QED  BY <3>1, <3>2, <1>22
    <2>4. \A y \in A : Length(v, y) = Length(w, y) /\ Length(w, y) \in Nat /\ y \in Nat
      BY <2>1, <2>3, LengthIs
    <2> QED  BY <2>1, <2>2, <2>3, <2>4, <1>6, <1>22
  <1>19. \A y \in A : y + Length(w, y) <= start \/ last <= y
    <2> SUFFICES ASSUME NEW y \in A  PROVE y + Length(w, y) <= start \/ last <= y
      OBVIOUS
    <2>1. y + Length(w, y) <= a \/ a + size <= y
      BY DEF Clear
    <2>2. CASE y + Length(w, y) <= a
      <3>1. CASE JoinsPrev(w, a, prev)
        <4>1. prev + w[prev].size <= y \/ y + Length(w, y) <= prev
          BY <3>1, <1>4, <1>7 DEF Laid
        <4>2. Length(w, y) # 0
          BY <1>18, LengthIs
        <4> QED  BY <4>1, <4>2, <3>1, <2>2, <1>7, <1>18
      <3> QED  BY <3>1, <2>2, <1>7
    <2>3. CASE a + size <= y
      <3>1. CASE JoinsCur(a, size, cur)
        <4>1. cur + w[cur].size <= y \/ y + Length(w, y) <= cur
          BY <3>1, <1>4, <1>7 DEF Laid
        <4>2. Length(w, y) # 0
          BY <1>18, LengthIs
        <4> QED  BY <4>1, <4>2, <3>1, <2>3, <1>1, <1>4, <1>7, <1>18
      <3> QED  BY <3>1, <2>3, <1>7
    <2> QED  BY <2>1, <2>2, <2>3
  <1>20. Laid(v, lo, hi, T, A)
    <2>1. \A x \in T : x # start => w[x].size \in Nat \ {0} /\ lo <= x /\ x + w[x].size <= hi /\ x \in Nat
      BY <1>1, <1>9
    <2>2. \A x \in T : v[x].size # 0 /\ lo <= x /\ x + v[x].size <= hi
      <3> SUFFICES ASSUME NEW x \in T  PROVE v[x].size # 0 /\ lo <= x /\ x + v[x].size <= hi
        OBVIOUS
      <3>1. CASE x = start
        BY <3>1, <1>8, <1>9
      <3>2. CASE x # start
        BY <3>2, <2>1, <1>9
      <3> QED  BY <3>1, <3>2
    <2>3. \A x, y \in T : x < y => x + v[x].size < y
      <3> SUFFICES ASSUME NEW x \in T, NEW y \in T, x < y  PROVE x + v[x].size < y
        OBVIOUS
      <3>1. CASE x = start
        BY <3>1, <2>1, <1>8, <1>9, <1>10, <1>11
      <3>2. CASE y = start
        BY <3>2, <2>1, <1>8, <1>9, <1>10, <1>11
      <3>3. CASE x # start /\ y # start
        BY <3>3, <1>1, <1>9
      <3> QED  BY <3>1, <3>2, <3>3
    <2>4. \A x \in T, y \in A : x + v[x].size <= y \/ y + Length(v, y) <= x
      <3> SUFFICES ASSUME NEW x \in T, NEW y \in A  PROVE x + v[x].size <= y \/ y + Length(v, y) <= x
        OBVIOUS
      <3>1. CASE x = start
        BY <3>1, <1>8, <1>9, <1>18, <1>19
      <3>2. CASE x # start
        BY <3>2, <1>9, <1>18 DEF Laid
      <3> QED  BY <3>1, <3>2
    <2>5. \A x \in A : lo <= x /\ x + Length(v, x) <= hi
      BY <1>18 DEF Laid
    <2>6. \A x, y \in A : x < y => x + Length(v, x) <= y
      BY <1>18 DEF Laid
    <2> QED  BY <2>2, <2>3, <2>4, <2>5, <2>6, <1>11, <1>18 DEF Laid
  <1>21. SameWords(v, w, A) /\ SameWords(v, w, Outside(w, lo, hi))
    <2>1. \A x \in DOMAIN w : x # NULL /\ (x # a /\ x \notin S => x \in DOMAIN v /\ v[x] = w[x])
      BY <1>4, <1>22 DEF IsMemory
    <2>2. \A x \in Outside(w, lo, hi) : x \in DOMAIN w /\ x # a /\ x \notin S
      BY <1>1 DEF Outside
    <2> QED  BY <2>1, <2>2, <1>18 DEF SameWords
  <1>23. \E U : Sorted(v, top, U) /\ Laid(v, lo, hi, U, A)
    BY <1>16, <1>17, <1>20
  <1> QED  BY <1>6, <1>16, <1>21, <1>23 DEF Reordered

(***************************************************************************)
(* take_block() changes the words of the block, of the node before it, and *)
(* of the node that what is left of the block makes.                       *)
(***************************************************************************)
Header(a, b, n) == [next |-> a - b, size |-> n]

Taken(v, w, a, prev, r, link, rest) ==
    /\ v[a] = r
    /\ DOMAIN w \subseteq DOMAIN v
    /\ \A x \in DOMAIN w \ {a, prev, link} : v[x] = w[x]
    /\ prev # NULL => v[prev].next = link /\ v[prev].size = w[prev].size
    /\ rest >= 2 * HDR => link \in DOMAIN v /\ v[link].next = w[a].next /\ v[link].size = rest
    /\ ~ (rest >= 2 * HDR) /\ link \in DOMAIN w /\ link # prev => v[link] = w[link]

LEMMA TakenWords ==
    ASSUME NEW w, IsMemory(w), NEW a \in DOMAIN w, NEW h, NEW b \in Nat, b <= a, NEW n \in Nat,
           NEW alloc, alloc = AllocSize(n), alloc <= w[a].size,
           NEW rest, rest = w[a].size - alloc,
           NEW prev \in DOMAIN w \cup {NULL}, prev # a, prev = Before(NodesOf(h, w, b), a),
           NEW link, link = IF rest >= 2 * HDR THEN a + alloc ELSE w[a].next,
           link # prev \/ prev = NULL, link # a,
           NEW v, v = TakeBlock(h, w, b, a, n).word
    PROVE  IsMemory(v) /\ Taken(v, w, a, prev, Header(a, b, n), link, rest)
  <1> DEFINE q == [next |-> w[a].next, size |-> rest]
             kept == IF rest >= 2 * HDR THEN With(w, link, q) ELSE w
             past == IF prev = NULL THEN kept ELSE [kept EXCEPT ![prev].next = link]
             r == Header(a, b, n)
  <1>1. /\ alloc \in Nat \ {0} /\ rest \in Nat /\ a \in Nat \ {NULL} /\ w[a].next \in Nat
        /\ w[a].size \in Nat /\ NULL = 0
    BY AllocSizeIs, LengthIs DEF NULL
  <1>2. q \in Words /\ q.next = w[a].next /\ q.size = rest /\ r \in Words
    BY <1>1 DEF Words, Header
  <1> HIDE DEF q
  <1>3. link \in Nat /\ (rest >= 2 * HDR => link # NULL)
    BY <1>1
  <1>4. /\ IsMemory(kept)
        /\ rest >= 2 * HDR => Stored(kept, w, link, q)
        /\ ~ (rest >= 2 * HDR) => kept = w
    <2>1. CASE rest >= 2 * HDR
      <3>1. kept = With(w, link, q)
        BY <2>1
      <3> HIDE DEF kept
      <3> QED  BY <3>1, <2>1, <1>2, <1>3, WithIs
    <2>2. CASE ~ (rest >= 2 * HDR)
      BY <2>2
    <2> QED  BY <2>1, <2>2
  <1>5. v = [past EXCEPT ![a] = r]
    BY DEF TakeBlock, State, q, Header
  <1>6. past = IF prev = NULL THEN kept ELSE [kept EXCEPT ![prev].next = link]
    OBVIOUS
  <1> HIDE DEF kept, past, r
  <1>7. prev # NULL => prev \in DOMAIN kept /\ kept[prev] = w[prev] /\ w[prev] \in Words
    BY <1>4 DEF Stored, IsMemory
  <1> DEFINE s == [w[prev] EXCEPT !.next = link]
  <1>8. prev # NULL => s \in Words /\ s.next = link /\ s.size = w[prev].size
    BY <1>3, <1>7 DEF Words
  <1>9. prev # NULL => past = [kept EXCEPT ![prev] = s]
    BY <1>6, <1>7
  <1> HIDE DEF s
  <1>10. /\ IsMemory(past)
         /\ prev # NULL => Stored(past, kept, prev, s)
         /\ prev = NULL => past = kept
    BY <1>4, <1>6, <1>7, <1>8, <1>9, SetWordIs
  <1>11. a \in DOMAIN past
    BY <1>4, <1>10 DEF Stored
  <1>12. IsMemory(v) /\ Stored(v, past, a, r)
    BY <1>2, <1>5, <1>10, <1>11, SetWordIs
  <1>13. Taken(v, w, a, prev, r, link, rest)
    <2>1. v[a] = r /\ DOMAIN w \subseteq DOMAIN v
      BY <1>4, <1>10, <1>12 DEF Stored
    <2>2. \A x \in DOMAIN w \ {a, prev, link} : v[x] = w[x]
      BY <1>4, <1>10, <1>12 DEF Stored
    <2>3. prev # NULL => v[prev] = s
      BY <1>7, <1>10, <1>12 DEF Stored
    <2>4. rest >= 2 * HDR => link \in DOMAIN v /\ v[link] = q
      BY <1>3, <1>4, <1>10, <1>12 DEF Stored
    <2>5. ~ (rest >= 2 * HDR) /\ link \in DOMAIN w /\ link # prev => v[link] = w[link]
      BY <1>4, <1>10, <1>12 DEF Stored
    <2> QED  BY <2>1, <2>2, <2>3, <2>4, <2>5, <1>2, <1>8 DEF Taken
  <1> QED  BY <1>12, <1>13 DEF r

TakenLink(w, a, n) ==
    IF w[a].size - AllocSize(n) >= 2 * HDR THEN a + AllocSize(n) ELSE w[a].next

TakenTo(v, w, a, b, n, top, lo, hi, A) ==
    /\ Reordered(v, w, top, lo, hi, A, A \cup {a})
    /\ a \notin A /\ a \in DOMAIN v /\ v[a] = Header(a, b, n)

\* take_block() leaves a list in order, and the block it takes off it.
LEMMA TakenIs ==
    ASSUME NEW w, NEW head, NEW S, NEW lo, NEW hi, NEW A, Ordered(w, head, S, lo, hi, A),
           NEW a \in S, NEW h, NEW b \in Nat, b <= lo, NodesOf(h, w, b) = S, NEW n \in Nat,
           AllocSize(n) <= w[a].size,
           NEW top, top = IF Before(S, a) = NULL THEN TakenLink(w, a, n) ELSE head,
           NEW v, v = TakeBlock(h, w, b, a, n).word
    PROVE  TakenTo(v, w, a, b, n, top, lo, hi, A)
  <1> DEFINE alloc == AllocSize(n)
             prev == Before(S, a)
             link == TakenLink(w, a, n)
  <1>a. /\ alloc = AllocSize(n) /\ prev = Before(S, a) /\ alloc <= w[a].size
        /\ link = IF w[a].size - alloc >= 2 * HDR THEN a + alloc ELSE w[a].next
        /\ top = IF prev = NULL THEN link ELSE head
    BY DEF TakenLink
  <1> HIDE DEF alloc, prev, link
  <1>b. /\ IsMemory(w) /\ head \in Nat /\ lo \in Nat /\ hi \in Nat
        /\ Sorted(w, head, S) /\ Laid(w, lo, hi, S, A)
    BY DEF Ordered
  <1> USE <1>a, <1>b
  <1> DEFINE rest == w[a].size - alloc
             split == rest >= 2 * HDR
             T == IF split THEN (S \ {a}) \cup {link} ELSE S \ {a}
  <1>0. \A x : x \in T <=> (x \in S /\ x # a) \/ (split /\ x = link)
    OBVIOUS
  <1> HIDE DEF T
  <1>1. /\ S \subseteq Nat \ {NULL} /\ S \subseteq DOMAIN w /\ NULL = 0
        /\ \A x \in S : /\ x \in Nat /\ x > 0 /\ w[x].size \in Nat \ {0} /\ w[x].next \in Nat
                        /\ lo <= x /\ x + w[x].size <= hi
        /\ \A x, y \in S : x < y => x + w[x].size < y
    BY <1>b, LengthIs DEF IsMemory, Laid, NULL
  <1>2. /\ alloc \in Nat \ {0} /\ rest \in Nat /\ HDR \in Nat \ {0} /\ a \in Nat /\ a > 0
        /\ a + w[a].size <= hi /\ lo <= a /\ rest < w[a].size /\ a + alloc + rest = a + w[a].size
        /\ a + alloc \in Nat /\ b <= a
    BY <1>1, AllocSizeIs, ConstantsAre
  <1>3. PrevIs(S, a, prev) /\ prev \in Nat
    BY <1>1, <1>2, BeforeIs
  <1>4. /\ prev # NULL => prev \in S /\ prev < a /\ prev + w[prev].size < a
        /\ \A x \in S : x < a => prev # NULL /\ x <= prev
    BY <1>1, <1>2, <1>3 DEF PrevIs
  <1>5. NextIs(S, a, w[a].next)
    BY DEF Sorted
  <1>6. /\ w[a].next # NULL => w[a].next \in S /\ a < w[a].next
        /\ \A x \in S : a < x => w[a].next # NULL /\ w[a].next <= x
        /\ w[a].next \in Nat
    BY <1>1, <1>2, <1>5 DEF NextIs
  <1>7. link \in Nat /\ link # a /\ (split => link = a + alloc) /\ (~ split => link = w[a].next)
    BY <1>1, <1>2, <1>6
  <1>8. link # prev \/ prev = NULL
    BY <1>2, <1>4, <1>6, <1>7
  <1>9. IsMemory(v) /\ Taken(v, w, a, prev, Header(a, b, n), link, rest)
    <2>1. rest = w[a].size - alloc
      OBVIOUS
    <2>2. link = IF rest >= 2 * HDR THEN a + alloc ELSE w[a].next
      OBVIOUS
    <2> HIDE DEF rest
    <2>3. a \in DOMAIN w /\ prev \in DOMAIN w \cup {NULL} /\ prev # a
      <3>1. CASE prev = NULL
        BY <3>1, <1>1, <1>2
      <3>2. CASE prev # NULL
        <4>1. prev \in S /\ prev < a
          BY <3>2, <1>4
        <4> QED  BY <4>1, <1>1, <1>2
      <3> QED  BY <3>1, <3>2
    <2>4. prev = Before(NodesOf(h, w, b), a)
      OBVIOUS
    <2> QED  BY <2>1, <2>2, <2>3, <2>4, <1>2, <1>7, <1>8, TakenWords
  <1>10. /\ v[a] = Header(a, b, n)
         /\ DOMAIN w \subseteq DOMAIN v
         /\ \A x \in DOMAIN w \ {a, prev, link} : v[x] = w[x]
         /\ prev # NULL => v[prev].next = link /\ v[prev].size = w[prev].size
         /\ split => link \in DOMAIN v /\ v[link].next = w[a].next /\ v[link].size = rest
         /\ ~ split /\ link \in DOMAIN w /\ link # prev => v[link] = w[link]
    BY <1>9 DEF Taken
  <1> HIDE DEF rest
  <1>11. split => /\ link = a + alloc /\ link # NULL /\ a < link /\ rest # 0
                  /\ link + rest = a + w[a].size
                  /\ \A x \in S : x < link => x <= a
                  /\ \A x \in S : a < x => link + rest < x
    BY <1>1, <1>2, <1>7
  \* What the words of the nodes that stay say.
  <1>12. \A x \in S : x # a /\ x # prev => v[x] = w[x] /\ x \in T
    <2> SUFFICES ASSUME NEW x \in S, x # a, x # prev  PROVE v[x] = w[x] /\ x \in T
      OBVIOUS
    <2>1. split => x # link
      BY <1>1, <1>2, <1>11
    <2> QED  BY <2>1, <1>0, <1>1, <1>7, <1>10
  <1>13. prev # NULL => prev \in T /\ v[prev].next = link /\ v[prev].size = w[prev].size
    BY <1>0, <1>2, <1>4, <1>10
  <1>14. \A x \in T : (split /\ x = link) \/ (x \in S /\ x # a /\ v[x].size = w[x].size)
    <2>1. \A x \in S : x # a => v[x].size = w[x].size
      BY <1>1, <1>12, <1>13
    <2> SUFFICES ASSUME NEW x \in T, ~ (split /\ x = link)
                 PROVE  x \in S /\ x # a /\ v[x].size = w[x].size
      OBVIOUS
    <2>2. x \in S /\ x # a
      BY <1>0
    <2> QED  BY <2>1, <2>2
  <1>15. T \subseteq Nat \ {NULL} /\ T \subseteq DOMAIN v /\ (split => link \in T) /\ a \notin T
    <2>1. \A x \in T : x \in Nat \ {NULL} /\ x \in DOMAIN v
      <3> SUFFICES ASSUME NEW x \in T  PROVE x \in Nat \ {NULL} /\ x \in DOMAIN v
        OBVIOUS
      <3>1. CASE split /\ x = link
        BY <3>1, <1>7, <1>10, <1>11
      <3>2. CASE x \in S
        BY <3>2, <1>1, <1>10
      <3> QED  BY <3>1, <3>2, <1>0
    <2>2. split => link \in T
      BY <1>0
    <2>3. a \notin T
      BY <1>0, <1>7
    <2> QED  BY <2>1, <2>2, <2>3
  <1>16. \A x \in S : x # a => x \in T
    BY <1>0
  \* Whoever had the block next has what comes in its place.
  <1>17. ASSUME NEW x \in Nat, x < a, \A y \in S : x < y => a <= y
         PROVE  NextIs(T, x, link)
    <2>1. CASE split
      <3>1. \A y \in T : x < y => link <= y
        BY <2>1, <1>1, <1>2, <1>11, <1>14, <1>15, <1>17
      <3>2. x < link
        BY <2>1, <1>2, <1>11, <1>17
      <3> QED  BY <2>1, <3>1, <3>2, <1>11, <1>15 DEF NextIs
    <2>2. CASE ~ split
      <3>1. \A y \in T : x < y => y \in S /\ a < y
        <4> SUFFICES ASSUME NEW y \in T, x < y  PROVE y \in S /\ a < y
          OBVIOUS
        <4>1. y \in S /\ y # a /\ y \in Nat
          BY <2>2, <1>0, <1>1
        <4>2. a <= y
          BY <4>1, <1>17
        <4> QED  BY <4>1, <4>2, <1>2
      <3>2. link = w[a].next
        BY <2>2, <1>7
      <3>3. link # NULL => link \in T /\ x < link
        BY <3>2, <1>2, <1>6, <1>16, <1>17
      <3>4. \A y \in T : x < y => link # NULL /\ link <= y
        BY <3>1, <3>2, <1>6
      <3> QED  BY <3>3, <3>4, <1>15, <1>17 DEF NextIs
    <2> QED  BY <2>1, <2>2
  <1>18. ASSUME NEW x \in S, x # a, x # prev  PROVE NextIs(T, x, v[x].next)
    <2>1. v[x].next = w[x].next /\ w[x].next \in Nat /\ x \in Nat
      BY <1>1, <1>12, <1>18
    <2>2. NextIs(S, x, w[x].next)
      BY DEF Sorted
    <2>3. CASE x < a
      <3>1. prev # NULL /\ x < prev /\ prev \in S /\ prev < a
        <4>1. prev # NULL /\ x <= prev /\ prev \in S /\ prev < a /\ prev \in Nat
          BY <2>3, <1>1, <1>3, <1>4, <1>18
        <4> QED  BY <4>1, <2>1, <1>18
      <3>2. w[x].next \in S /\ x < w[x].next /\ w[x].next <= prev /\ \A y \in S : x < y => w[x].next <= y
        BY <3>1, <2>2, <1>1 DEF NextIs
      <3>3. w[x].next \in T
        BY <3>1, <3>2, <1>1, <1>2, <1>16
      <3>4. \A y \in T : x < y => w[x].next <= y
        <4> SUFFICES ASSUME NEW y \in T, x < y  PROVE w[x].next <= y
          OBVIOUS
        <4>1. CASE split /\ y = link
          BY <4>1, <3>1, <3>2, <1>1, <1>2, <1>3, <1>11, <2>1
        <4>2. CASE y \in S
          BY <4>2, <3>2
        <4> QED  BY <4>1, <4>2, <1>14
      <3> QED  BY <2>1, <3>2, <3>3, <3>4, <1>1 DEF NextIs
    <2>4. CASE x > a
      <3>1. \A y \in T : x < y => y \in S
        BY <2>4, <2>1, <1>2, <1>11, <1>14
      <3>2. \A y \in S : x < y => y \in T
        BY <2>4, <2>1, <1>2, <1>16
      <3>3. CASE w[x].next = NULL
        BY <3>1, <3>3, <2>1, <2>2, <1>15 DEF NextIs
      <3>4. CASE w[x].next # NULL
        BY <3>1, <3>2, <3>4, <2>1, <2>2 DEF NextIs
      <3> QED  BY <3>3, <3>4
    <2> QED  BY <2>1, <2>3, <2>4, <1>2, <1>18
  <1>19. split => NextIs(T, link, v[link].next)
    <2> SUFFICES ASSUME split  PROVE NextIs(T, link, w[a].next)
      BY <1>10
    <2>1. \A y \in T : link < y => y \in S /\ a < y
      BY <1>1, <1>2, <1>11, <1>14
    <2>2. w[a].next # NULL => w[a].next \in T /\ link < w[a].next
      BY <1>1, <1>2, <1>6, <1>11, <1>16
    <2>3. \A y \in T : link < y => w[a].next # NULL /\ w[a].next <= y
      BY <2>1, <1>6
    <2> QED  BY <2>2, <2>3, <1>7, <1>15 DEF NextIs
  <1>20. prev # NULL => NextIs(T, prev, v[prev].next)
    BY <1>1, <1>3, <1>4, <1>13, <1>17
  <1>21. NextIs(T, NULL, top) /\ top \in Nat
    <2>1. CASE prev = NULL
      <3>1. \A y \in S : NULL < y => a <= y
        BY <2>1, <1>1, <1>2, <1>4
      <3>2. NULL \in Nat /\ NULL < a
        BY <1>1, <1>2
      <3> QED  BY <3>1, <3>2, <2>1, <1>7, <1>17
    <2>2. CASE prev # NULL
      <3>1. top = head /\ prev \in S /\ prev < a /\ prev \in Nat
        BY <2>2, <1>3, <1>4
      <3>2. NextIs(S, NULL, head)
        BY DEF Sorted
      <3>3. head \in S /\ 0 < head /\ head <= prev /\ \A y \in S : head <= y
        BY <3>1, <3>2, <1>1 DEF NextIs
      <3>4. head \in T /\ \A y \in T : head <= y
        BY <3>1, <3>3, <1>1, <1>2, <1>11, <1>14, <1>16
      <3> QED  BY <3>1, <3>3, <3>4, <1>1 DEF NextIs
    <2> QED  BY <2>1, <2>2
  <1>22. Sorted(v, top, T)
    <2>1. ASSUME NEW x \in T  PROVE NextIs(T, x, v[x].next)
      <3>1. CASE split /\ x = link
        BY <3>1, <1>19
      <3>2. CASE x \in S /\ x # a
        <4>1. x # NULL
          BY <3>2, <1>1
        <4> QED  BY <4>1, <3>2, <1>18, <1>20
      <3> QED  BY <3>1, <3>2, <1>14
    <2> QED  BY <2>1, <1>15, <1>21 DEF Sorted
  <1>23. /\ A \subseteq DOMAIN v
         /\ \A y \in A : /\ v[y] = w[y] /\ Length(v, y) = Length(w, y)
                         /\ Length(w, y) \in Nat \ {0} /\ y \in Nat
                         /\ y # a /\ (y + Length(w, y) <= a \/ a + w[a].size <= y)
    <2>1. A \subseteq DOMAIN w
      BY DEF Laid
    <2>2. \A y \in A : Length(w, y) \in Nat \ {0} /\ y \in Nat /\ y # NULL
      BY <2>1, LengthIs
    <2>3. \A x \in S, y \in A : x + w[x].size <= y \/ y + Length(w, y) <= x
      BY DEF Laid
    <2>4. \A y \in A : y \notin S /\ (y + Length(w, y) <= a \/ a + w[a].size <= y)
      BY <2>2, <2>3, <1>1
    <2>5. \A y \in A : y # a /\ y # prev /\ (split => y # link)
      BY <2>2, <2>4, <1>1, <1>2, <1>4, <1>11
    <2>6. \A y \in A : v[y] = w[y]
      BY <2>1, <2>5, <1>10
    <2>7. \A y \in A : Length(v, y) = Length(w, y)
      BY <2>1, <2>6, LengthIs
    <2> QED  BY <2>1, <2>2, <2>4, <2>5, <2>6, <2>7, <1>10
  <1>24. Length(v, a) = alloc
    BY <1>10 DEF Length, Header
  <1>25. Laid(v, lo, hi, T, A \cup {a})
    <2>1. \A x \in T : /\ x \in Nat /\ v[x].size \in Nat /\ v[x].size # 0
                       /\ lo <= x /\ x + v[x].size <= hi
                       /\ (x + v[x].size < a \/ a + alloc <= x)
                       /\ \A y \in A : x + v[x].size <= y \/ y + Length(v, y) <= x
      <3> SUFFICES ASSUME NEW x \in T
                   PROVE /\ x \in Nat /\ v[x].size \in Nat /\ v[x].size # 0
                         /\ lo <= x /\ x + v[x].size <= hi
                         /\ (x + v[x].size < a \/ a + alloc <= x)
                         /\ \A y \in A : x + v[x].size <= y \/ y + Length(v, y) <= x
        OBVIOUS
      <3>1. CASE split /\ x = link
        BY <3>1, <1>2, <1>7, <1>10, <1>11, <1>23
      <3>2. CASE x \in S /\ x # a /\ v[x].size = w[x].size
        <4>1. \A y \in A : x + w[x].size <= y \/ y + Length(w, y) <= x
          BY <3>2 DEF Laid
        <4>2. x + w[x].size < a \/ a + alloc <= x
          <5>1. CASE x < a
            BY <5>1, <3>2, <1>1
          <5>2. CASE x > a
            BY <5>2, <3>2, <1>1, <1>2
          <5> QED  BY <5>1, <5>2, <3>2, <1>1, <1>2
        <4> QED  BY <4>1, <4>2, <3>2, <1>1, <1>23
      <3> QED  BY <3>1, <3>2, <1>14
    <2>2. \A x, y \in T : x < y => x + v[x].size < y
      <3> SUFFICES ASSUME NEW x \in T, NEW y \in T, x < y  PROVE x + v[x].size < y
        OBVIOUS
      <3>1. CASE split /\ x = link
        <4>1. y \in S
          <5>1. x = link /\ link \in Nat /\ x < y
            BY <3>1, <1>7
          <5>2. y # link
            BY <5>1
          <5> QED  BY <5>2, <1>14
        <4>2. a < y
          <5>1. x = link /\ link \in Nat /\ x < y /\ a < link /\ a \in Nat
            BY <3>1, <1>2, <1>7, <1>11
          <5>2. y \in Nat
            BY <4>1, <1>1
          <5> QED  BY <5>1, <5>2
        <4>3. link + rest < y
          BY <4>1, <4>2, <3>1, <1>11
        <4> QED  BY <4>3, <3>1, <1>10
      <3>2. CASE split /\ y = link
        <4>1. x \in S /\ x < a /\ x \in Nat
          <5>1. x # link /\ x < link
            BY <3>2, <1>7, <1>15
          <5>2. x \in S /\ x # a
            BY <5>1, <1>14
          <5>3. x <= a /\ x \in Nat
            BY <5>1, <5>2, <3>2, <1>1, <1>11
          <5> QED  BY <5>2, <5>3, <1>2
        <4>2. x + v[x].size < a
          BY <4>1, <2>1, <1>2
        <4> QED  BY <4>1, <4>2, <2>1, <3>2, <1>2, <1>7, <1>11
      <3>3. CASE x \in S /\ y \in S /\ v[x].size = w[x].size
        BY <3>3, <1>1
      <3> QED  BY <3>1, <3>2, <3>3, <1>14
    <2>3. \A x \in A : lo <= x /\ x + Length(v, x) <= hi
      BY <1>23 DEF Laid
    <2>4. \A x, y \in A : x < y => x + Length(v, x) <= y
      BY <1>23 DEF Laid
    <2>5. \A y \in A : y + Length(v, y) <= a \/ a + alloc <= y
      BY <1>2, <1>23
    <2>6. A \cup {a} \subseteq DOMAIN v
      BY <1>1, <1>10, <1>23
    <2> QED  BY <2>1, <2>2, <2>3, <2>4, <2>5, <2>6, <1>2, <1>15, <1>23, <1>24 DEF Laid
  <1>26. SameWords(v, w, A) /\ SameWords(v, w, Outside(w, lo, hi))
    <2>1. \A x \in Outside(w, lo, hi) : x \in DOMAIN w /\ x # a /\ x \notin S /\ (split => x # link) /\ x # NULL
      BY <1>1, <1>2, <1>11 DEF Outside, IsMemory
    <2>2. \A x \in Outside(w, lo, hi) : v[x] = w[x]
      BY <2>1, <1>4, <1>6, <1>7, <1>10
    <2> QED  BY <2>1, <2>2, <1>10, <1>23 DEF SameWords
  <1>27. \E U : Sorted(v, top, U) /\ Laid(v, lo, hi, U, A \cup {a})
    BY <1>22, <1>25
  <1> QED  BY <1>1, <1>9, <1>10, <1>21, <1>22, <1>23, <1>26, <1>27 DEF Reordered, TakenTo

-------------------------------------------------------------------------------
(***************************************************************************)
(* The kernel's pages.                                                     *)
(***************************************************************************)

\* The page of an address in a run of pages is one of the run's.
LEMMA PageIn ==
    ASSUME NEW b \in Nat, b % PGSIZE = 0, NEW len \in Nat, NEW x \in Nat, b <= x, x < b + len
    PROVE  x - (x % PGSIZE) \in Pages(b, len)
  <1> DEFINE r == x % PGSIZE
             y == x - r
  <1>1. PGSIZE \in Nat \ {0} /\ r \in Nat /\ r < PGSIZE
    BY ConstantsAre, DivMod
  <1>2. y % PGSIZE = 0
    <2>1. x = PGSIZE * (x \div PGSIZE) + r /\ x \div PGSIZE \in Int
      BY <1>1, DivMod
    <2>2. y \in Int /\ y = PGSIZE * (x \div PGSIZE)
      BY <1>1, <2>1
    <2> QED  BY <1>1, <2>1, <2>2, ProductIsMultiple
  <1>3. y \in Int /\ y <= x
    BY <1>1
  <1>4. b <= y
    <2>1. SUFFICES ASSUME b > y  PROVE FALSE
      BY <1>3
    <2> HIDE DEF y
    <2>2. b - y \in Nat \ {0} /\ (b - y) % PGSIZE = 0
      BY <2>1, <1>2, <1>3, WholePages
    <2>3. b - y >= PGSIZE
      BY <2>2, <1>1, AtLeastAsBig
    <2> QED  BY <2>3, <1>1, <1>3 DEF y
  <1> HIDE DEF y
  <1> QED  BY <1>2, <1>3, <1>4 DEF Pages, y

LEMMA PagesAre ==
    ASSUME NEW b \in Nat, NEW len \in Nat, NEW x
    PROVE  x \in Pages(b, len) <=> x \in Nat /\ b <= x /\ x < b + len /\ x % PGSIZE = 0
  BY DEF Pages

LEMMA MemoryIs ==
    ASSUME NEW b \in Memory
    PROVE  b \in Nat \ {NULL} /\ b \in Nat /\ b # NULL /\ b % PGSIZE = 0
  BY ConstantsAre DEF Memory, NULL

LEMMA MemoryFinite == IsFiniteSet(Memory)
  <1>1. IsFiniteSet(PGSIZE .. MAP_END - 1)
    BY ConstantsAre, FS_Interval
  <1> QED  BY <1>1, FS_Subset DEF Memory

-------------------------------------------------------------------------------
(***************************************************************************)
(* The heap.                                                               *)
(***************************************************************************)
PoolRec == [len : Nat, size : Nat, refs : Nat, freelist : Nat, next : Nat]

\* The mapping of a pool, and where its bump pointer is.
PoolIs(mapped, b, m) ==
    /\ m \in PoolRec /\ m.len % PGSIZE = 0
    /\ MSET <= m.size /\ m.size <= m.len
    /\ Pages(b, m.len) \subseteq mapped

Apart(ps, b, c) == b + ps[b].len <= c \/ c + ps[c].len <= b

Shape(h) ==
    /\ h = [mapped |-> h.mapped, pools |-> h.pools, pool |-> h.pool, pool1 |-> h.pool1,
            old |-> h.old, class |-> h.class]
    /\ h.pools = [b \in DOMAIN h.pools |-> h.pools[b]]
    /\ DOMAIN h.pools \subseteq Memory /\ h.mapped \subseteq Memory
    /\ h.class \in Nat /\ h.class % PGSIZE = 0
    /\ \A b \in DOMAIN h.pools : PoolIs(h.mapped, b, h.pools[b])
    /\ \A b, c \in DOMAIN h.pools : b # c => Apart(h.pools, b, c)

\* The blocks with headers in L that lie in pool b.
In(w, L, b) == {a \in L : a - w[a].next = b}

\* The list, the count and the bump pointer of a pool agree with what is in it.
Tidy(m, w, L, b) ==
    \E S : /\ Sorted(w, m.freelist, S)
           /\ Laid(w, b + MSET, b + m.size, S, In(w, L, b))
           /\ m.refs = Cardinality(In(w, L, b))

Ready(h, w, L, R, D) ==
    /\ Shape(h) /\ IsMemory(w)
    /\ Chained(Links(h.pools), h.old, R)
    /\ D \subseteq DOMAIN h.pools /\ R \cap D = {}
    /\ h.pool1 = NULL \/ h.pool1 \in DOMAIN h.pools \ (R \cup D)
    /\ \A b \in R \cup D : Tidy(h.pools[b], w, L, b)
    /\ L \subseteq DOMAIN w
    /\ \A a \in L : a - w[a].next \in R \cup D

LEMMA PoolIsIs ==
    ASSUME NEW mapped, NEW b, NEW m, PoolIs(mapped, b, m)
    PROVE  /\ m.len \in Nat /\ m.size \in Nat /\ m.refs \in Nat /\ m.freelist \in Nat
           /\ m.next \in Nat /\ m.len # 0
           /\ m = [len |-> m.len, size |-> m.size, refs |-> m.refs,
                   freelist |-> m.freelist, next |-> m.next]
  <1>1. m \in PoolRec /\ MSET <= m.size /\ m.size <= m.len
    BY DEF PoolIs
  <1>2. /\ m.len \in Nat /\ m.size \in Nat /\ m.refs \in Nat /\ m.freelist \in Nat
        /\ m.next \in Nat
        /\ m = [len |-> m.len, size |-> m.size, refs |-> m.refs,
                freelist |-> m.freelist, next |-> m.next]
    BY <1>1 DEF PoolRec
  <1>3. MSET \in Nat \ {0}
    BY ConstantsAre
  <1> QED  BY <1>1, <1>2, <1>3

\* What a pool of a sound shape is.
LEMMA PoolOfShape ==
    ASSUME NEW h, Shape(h), NEW b \in DOMAIN h.pools
    PROVE  /\ b \in Nat \ {NULL} /\ b \in Nat /\ b # NULL /\ b % PGSIZE = 0
           /\ h.pools[b] \in PoolRec
           /\ h.pools[b].len \in Nat \ {0} /\ h.pools[b].size \in Nat
           /\ h.pools[b].refs \in Nat /\ h.pools[b].freelist \in Nat
           /\ h.pools[b].next \in Nat
           /\ h.pools[b].len % PGSIZE = 0
           /\ MSET <= h.pools[b].size /\ h.pools[b].size <= h.pools[b].len
           /\ Pages(b, h.pools[b].len) \subseteq h.mapped
           /\ b \in Pages(b, h.pools[b].len)
           /\ MSET \in Nat \ {0}
  <1>1. PoolIs(h.mapped, b, h.pools[b]) /\ b \in Memory
    BY DEF Shape
  <1>2. b \in Nat \ {NULL} /\ b \in Nat /\ b # NULL /\ b % PGSIZE = 0
    BY <1>1, MemoryIs
  <1>3. h.pools[b].len \in Nat \ {0}
    BY <1>1, PoolIsIs, Zenon
  <1>4. b < b + h.pools[b].len
    BY <1>2, <1>3
  <1>5. b \in Pages(b, h.pools[b].len)
    BY <1>2, <1>3, <1>4, PagesAre
  <1> QED  BY <1>1, <1>2, <1>3, <1>5, PoolIsIs, ConstantsAre DEF PoolIs

LEMMA PoolsFinite ==
    ASSUME NEW h, Shape(h)
    PROVE  IsFiniteSet(DOMAIN h.pools) /\ NULL \notin DOMAIN h.pools
  BY MemoryFinite, FS_Subset, MemoryIs DEF Shape

\* The retired pools are those the list leads to.
LEMMA RetiredIs ==
    ASSUME NEW h, Shape(h), NEW R, Chained(Links(h.pools), h.old, R)
    PROVE  /\ Retired(h) = R
           /\ R \subseteq DOMAIN h.pools
           /\ \A i \in DOMAIN OldPools(h) : OldPools(h)[i] \in R \cup {NULL}
           /\ DOMAIN OldPools(h) \subseteq Nat
  <1>1. DOMAIN Links(h.pools) = DOMAIN h.pools
    BY DEF Links
  <1>2. IsFiniteSet(DOMAIN h.pools) /\ NULL \notin DOMAIN h.pools
    BY PoolsFinite
  <1>3. R \subseteq DOMAIN h.pools
    BY <1>1 DEF Chained
  <1>4. /\ Met(Links(h.pools), h.old) = R
        /\ DOMAIN Walk(Links(h.pools), h.old) \subseteq Nat
        /\ \A i \in DOMAIN Walk(Links(h.pools), h.old) : Walk(Links(h.pools), h.old)[i] \in R \cup {NULL}
    BY <1>1, <1>2, WalkIs
  <1> QED  BY <1>3, <1>4 DEF Retired, OldPools

\* A pool has finitely many blocks.
LEMMA InFinite ==
    ASSUME NEW w, IsMemory(w), NEW L, L \subseteq DOMAIN w, NEW b
    PROVE  /\ IsFiniteSet(L) /\ IsFiniteSet(In(w, L, b))
           /\ In(w, L, b) \subseteq L
           /\ Cardinality(In(w, L, b)) \in Nat
           /\ Cardinality(In(w, L, b)) = 0 => In(w, L, b) = {}
  <1>1. IsFiniteSet(L)
    BY FS_Subset DEF IsMemory
  <1>2. In(w, L, b) \subseteq L
    BY DEF In
  <1>3. IsFiniteSet(In(w, L, b))
    BY <1>1, <1>2, FS_Subset
  <1> QED  BY <1>1, <1>2, <1>3, FS_CardinalityType, FS_EmptySet

\* The nodes of a pool in order are those a walk from its head meets.
LEMMA TidyIs ==
    ASSUME NEW w, IsMemory(w), NEW h, NEW L, NEW b, Tidy(h.pools[b], w, L, b),
           NEW S, S = NodesOf(h, w, b)
    PROVE  /\ Sorted(w, h.pools[b].freelist, S)
           /\ Laid(w, b + MSET, b + h.pools[b].size, S, In(w, L, b))
           /\ h.pools[b].refs = Cardinality(In(w, L, b))
  <1>1. PICK T : /\ Sorted(w, h.pools[b].freelist, T)
                 /\ Laid(w, b + MSET, b + h.pools[b].size, T, In(w, L, b))
                 /\ h.pools[b].refs = Cardinality(In(w, L, b))
    BY DEF Tidy
  <1>2. S = T
    BY <1>1, SortedIs DEF NodesOf
  <1> QED  BY <1>1, <1>2

\* Where the words of its nodes and its blocks stay, a pool stays in order.
LEMMA TidyKept ==
    ASSUME NEW w, IsMemory(w), NEW v, IsMemory(v), NEW m, NEW L, NEW K, NEW b,
           Tidy(m, w, L, b), In(v, K, b) = In(w, L, b),
           SameWords(v, w, Met(Links(w), m.freelist) \cup In(w, L, b))
    PROVE  Tidy(m, v, K, b)
  <1>1. PICK S : /\ Sorted(w, m.freelist, S)
                 /\ Laid(w, b + MSET, b + m.size, S, In(w, L, b))
                 /\ m.refs = Cardinality(In(w, L, b))
    BY DEF Tidy
  <1> DEFINE A == In(w, L, b)
  <1>2. \A x \in S \cup A : x \in DOMAIN v /\ v[x] = w[x]
    BY <1>1, SortedIs DEF SameWords
  <1> HIDE DEF A
  <1>3. Sorted(v, m.freelist, S)
    BY <1>1, <1>2 DEF Sorted
  <1>4. \A x \in A : Length(v, x) = Length(w, x)
    BY <1>2 DEF Length
  <1>5. Laid(v, b + MSET, b + m.size, S, A)
    BY <1>1, <1>2, <1>4 DEF Laid, A
  <1> QED  BY <1>1, <1>3, <1>5 DEF Tidy, A

\* The nodes and blocks of a pool lie in it.
LEMMA TidyWithin ==
    ASSUME NEW h, Shape(h), NEW w, IsMemory(w), NEW L, L \subseteq DOMAIN w, NEW b \in DOMAIN h.pools,
           Tidy(h.pools[b], w, L, b), NEW x \in NodesOf(h, w, b) \cup In(w, L, b)
    PROVE  /\ x \in DOMAIN w /\ x \in Nat
           /\ b + MSET <= x /\ x < b + h.pools[b].size /\ x < b + h.pools[b].len /\ b <= x
           /\ x \in In(w, L, b) => x + Length(w, x) <= b + h.pools[b].size
           /\ x \in NodesOf(h, w, b) => x + w[x].size <= b + h.pools[b].size
  <1>1. /\ Sorted(w, h.pools[b].freelist, NodesOf(h, w, b))
        /\ Laid(w, b + MSET, b + h.pools[b].size, NodesOf(h, w, b), In(w, L, b))
    BY TidyIs
  <1>2. x \in DOMAIN w
    BY <1>1 DEF Laid
  <1>3. Length(w, x) \in Nat \ {0} /\ w[x].size \in Nat /\ x \in Nat
    BY <1>2, LengthIs
  <1>4. /\ b \in Nat /\ MSET \in Nat /\ h.pools[b].size \in Nat /\ h.pools[b].len \in Nat
        /\ h.pools[b].size <= h.pools[b].len
    BY PoolOfShape
  <1>5. CASE x \in In(w, L, b)
    <2>1. b + MSET <= x /\ x + Length(w, x) <= b + h.pools[b].size
      BY <1>1, <1>5 DEF Laid
    <2>2. x \in NodesOf(h, w, b) => x + w[x].size <= b + h.pools[b].size
      BY <1>1 DEF Laid
    <2>3. x < b + h.pools[b].size
      BY <2>1, <1>3, <1>4
    <2>4. x < b + h.pools[b].len /\ b <= x
      BY <2>1, <2>3, <1>3, <1>4
    <2> QED  BY <2>1, <2>2, <2>3, <2>4, <1>2, <1>3
  <1>6. CASE x \in NodesOf(h, w, b)
    <2>1. w[x].size # 0 /\ b + MSET <= x /\ x + w[x].size <= b + h.pools[b].size
      BY <1>1, <1>6 DEF Laid
    <2>2. x \in In(w, L, b) => x + Length(w, x) <= b + h.pools[b].size
      BY <1>1 DEF Laid
    <2> QED  BY <2>1, <2>2, <1>2, <1>3, <1>4
  <1> QED  BY <1>5, <1>6

(***************************************************************************)
(* A step on one pool.                                                     *)
(***************************************************************************)

\* g is h with pool b described by m.
Repooled(g, h, b, m) ==
    /\ g = [mapped |-> h.mapped, pools |-> g.pools, pool |-> h.pool, pool1 |-> h.pool1,
            old |-> h.old, class |-> h.class]
    /\ g.pools = [x \in DOMAIN h.pools |-> IF x = b THEN m ELSE h.pools[x]]

\* ... and its length and its place in the list as they were.
SameSpan(h, b, m) ==
    /\ PoolIs(h.mapped, b, m)
    /\ m.len = h.pools[b].len /\ m.next = h.pools[b].next

\* The shape of the heap stays when a pool keeps its mapping and its link.
LEMMA RepooledIs ==
    ASSUME NEW g, NEW h, Shape(h), NEW b \in DOMAIN h.pools, NEW m, Repooled(g, h, b, m),
           SameSpan(h, b, m)
    PROVE  /\ Shape(g)
           /\ DOMAIN g.pools = DOMAIN h.pools
           /\ g.pools[b] = m /\ \A x \in DOMAIN h.pools \ {b} : g.pools[x] = h.pools[x]
           /\ \A x \in DOMAIN h.pools : g.pools[x].len = h.pools[x].len
           /\ Links(g.pools) = Links(h.pools)
           /\ g.mapped = h.mapped /\ g.pool = h.pool /\ g.pool1 = h.pool1 /\ g.old = h.old
           /\ g.class = h.class
  <1>1. /\ g.mapped = h.mapped /\ g.pool = h.pool /\ g.pool1 = h.pool1 /\ g.old = h.old
        /\ g.class = h.class
    BY DEF Repooled
  <1>2. /\ DOMAIN g.pools = DOMAIN h.pools
        /\ g.pools[b] = m /\ \A x \in DOMAIN h.pools \ {b} : g.pools[x] = h.pools[x]
        /\ g.pools = [x \in DOMAIN g.pools |-> g.pools[x]]
    BY DEF Repooled
  <1>3. \A x \in DOMAIN h.pools : g.pools[x].len = h.pools[x].len /\ g.pools[x].next = h.pools[x].next
    BY <1>2 DEF SameSpan
  <1>4. Links(g.pools) = Links(h.pools)
    BY <1>2, <1>3 DEF Links
  <1>5. \A x \in DOMAIN g.pools : PoolIs(g.mapped, x, g.pools[x])
    BY <1>1, <1>2 DEF SameSpan, Shape
  <1>6. \A x, y \in DOMAIN g.pools : x # y => Apart(g.pools, x, y)
    BY <1>2, <1>3 DEF Shape, Apart
  <1>7. g = [mapped |-> g.mapped, pools |-> g.pools, pool |-> g.pool, pool1 |-> g.pool1,
             old |-> g.old, class |-> g.class]
    BY <1>1 DEF Repooled
  <1>8. Shape(g)
    BY <1>1, <1>2, <1>5, <1>6, <1>7 DEF Shape
  <1> QED  BY <1>1, <1>2, <1>3, <1>4, <1>8

\* The blocks held after a step on pool b, and the words it may write.
OnlyIn(b, w, v, L, K) ==
    /\ SameWords(v, w, K \cap L)
    /\ K \subseteq DOMAIN v
    /\ \A a \in K \ L : a - v[a].next = b
    /\ \A a \in L \ K : a - w[a].next = b

\* A step on one pool leaves the others in order.
LEMMA OtherPools ==
    ASSUME NEW h, NEW w, NEW L, NEW R, NEW D, Ready(h, w, L, R, D),
           NEW b \in DOMAIN h.pools, NEW v, IsMemory(v), NEW K, OnlyIn(b, w, v, L, K),
           SameWords(v, w, Outside(w, b, b + h.pools[b].len)),
           NEW c \in R \cup D, c # b
    PROVE  Tidy(h.pools[c], v, K, c)
  <1>1. /\ Shape(h) /\ IsMemory(w) /\ L \subseteq DOMAIN w /\ Tidy(h.pools[c], w, L, c)
        /\ c \in DOMAIN h.pools
    BY RetiredIs DEF Ready
  <1>2. Apart(h.pools, b, c)
    BY <1>1 DEF Shape
  <1>3. In(v, K, c) = In(w, L, c)
    <2>1. ASSUME NEW a \in In(v, K, c)  PROVE a \in In(w, L, c)
      BY <2>1 DEF In, OnlyIn, SameWords
    <2>2. ASSUME NEW a \in In(w, L, c)  PROVE a \in In(v, K, c)
      BY <2>2 DEF In, OnlyIn, SameWords
    <2> QED  BY <2>1, <2>2
  <1>4. \A x \in NodesOf(h, w, c) \cup In(w, L, c) : x \in Outside(w, b, b + h.pools[b].len)
    <2> SUFFICES ASSUME NEW x \in NodesOf(h, w, c) \cup In(w, L, c)
                 PROVE  x \in Outside(w, b, b + h.pools[b].len)
      OBVIOUS
    <2>1. x \in DOMAIN w /\ x \in Nat /\ c <= x /\ x < c + h.pools[c].len
      BY <1>1, TidyWithin
    <2>2. b \in Nat /\ c \in Nat /\ h.pools[b].len \in Nat /\ h.pools[c].len \in Nat
      BY <1>1, PoolOfShape
    <2> QED  BY <2>1, <2>2, <1>2 DEF Apart, Outside
  <1>5. SameWords(v, w, Met(Links(w), h.pools[c].freelist) \cup In(w, L, c))
    BY <1>4 DEF SameWords, NodesOf
  <1> QED  BY <1>1, <1>3, <1>5, TidyKept

\* ... and so the whole heap, when it leaves that pool in order.
LEMMA ReadyAfter ==
    ASSUME NEW h, NEW w, NEW L, NEW R, NEW D, Ready(h, w, L, R, D),
           NEW b \in R \cup D, NEW m, SameSpan(h, b, m), NEW g, Repooled(g, h, b, m),
           NEW v, IsMemory(v), NEW K, OnlyIn(b, w, v, L, K),
           SameWords(v, w, Outside(w, b, b + h.pools[b].len)),
           Tidy(m, v, K, b)
    PROVE  /\ Ready(g, v, K, R, D)
           /\ g.pool = h.pool /\ g.pool1 = h.pool1 /\ g.old = h.old /\ g.pools[b] = m
           /\ DOMAIN g.pools = DOMAIN h.pools /\ g.mapped = h.mapped /\ g.class = h.class
           /\ \A x \in DOMAIN h.pools : g.pools[x].len = h.pools[x].len
  <1>1. /\ Shape(h) /\ b \in DOMAIN h.pools /\ R \cup D \subseteq DOMAIN h.pools
        /\ L \subseteq DOMAIN w
    BY RetiredIs DEF Ready
  <1>2. /\ Shape(g) /\ DOMAIN g.pools = DOMAIN h.pools
        /\ g.pools[b] = m /\ \A x \in DOMAIN h.pools \ {b} : g.pools[x] = h.pools[x]
        /\ Links(g.pools) = Links(h.pools)
        /\ g.mapped = h.mapped /\ g.pool = h.pool /\ g.pool1 = h.pool1 /\ g.old = h.old
        /\ g.class = h.class
        /\ \A x \in DOMAIN h.pools : g.pools[x].len = h.pools[x].len
    BY <1>1, RepooledIs
  <1>3. \A c \in R \cup D : Tidy(g.pools[c], v, K, c)
    BY <1>1, <1>2, OtherPools
  <1>4. \A a \in K : a - v[a].next \in R \cup D
    BY DEF Ready, OnlyIn, SameWords
  <1>5. K \subseteq DOMAIN v
    BY DEF OnlyIn
  <1> QED  BY <1>2, <1>3, <1>4, <1>5 DEF Ready

\* A block held lies in the pool its header says, outside of every other.
LEMMA HeldApart ==
    ASSUME NEW h, NEW w, NEW L, NEW R, NEW D, Ready(h, w, L, R, D), NEW b \in DOMAIN h.pools,
           NEW x \in L
    PROVE  x \in In(w, L, b) \/ x \in Outside(w, b, b + h.pools[b].len)
  <1> DEFINE c == x - w[x].next
  <1>1. /\ Shape(h) /\ IsMemory(w) /\ L \subseteq DOMAIN w /\ c \in R \cup D
        /\ R \cup D \subseteq DOMAIN h.pools /\ Tidy(h.pools[c], w, L, c)
    BY RetiredIs DEF Ready
  <1>2. x \in In(w, L, c)
    BY DEF In
  <1>3. CASE c = b
    BY <1>2, <1>3
  <1>4. CASE c # b
    <2> HIDE DEF c
    <2>1. x \in DOMAIN w /\ x \in Nat /\ c <= x /\ x < c + h.pools[c].len
      BY <1>1, <1>2, TidyWithin
    <2>2. b \in Nat /\ c \in Nat /\ h.pools[b].len \in Nat /\ h.pools[c].len \in Nat
      BY <1>1, PoolOfShape
    <2>3. Apart(h.pools, b, c)
      BY <1>1, <1>4 DEF Shape
    <2> QED  BY <2>1, <2>2, <2>3 DEF Apart, Outside
  <1> QED  BY <1>3, <1>4

\* What a pool is like before a step on it.
LEMMA PoolOpened ==
    ASSUME NEW h, NEW w, NEW L, NEW R, NEW D, Ready(h, w, L, R, D), NEW b \in R \cup D,
           NEW S, S = NodesOf(h, w, b), NEW A, A = In(w, L, b), NEW m, m = h.pools[b]
    PROVE  /\ Shape(h) /\ IsMemory(w) /\ L \subseteq DOMAIN w /\ b \in DOMAIN h.pools
           /\ Sorted(w, m.freelist, S)
           /\ Laid(w, b + MSET, b + m.size, S, A)
           /\ m.refs = Cardinality(A) /\ IsFiniteSet(A) /\ A \subseteq L
           /\ b \in Nat /\ MSET \in Nat /\ m.size \in Nat /\ m.freelist \in Nat
           /\ m.len \in Nat /\ m.size <= m.len /\ m.refs \in Nat
           /\ m.len % PGSIZE = 0 /\ b % PGSIZE = 0 /\ MSET <= m.size /\ b > 0
           /\ PoolIs(h.mapped, b, m)
           /\ b + MSET \in Nat /\ b + m.size \in Nat
           /\ Outside(w, b, b + m.len) \subseteq Outside(w, b + MSET, b + m.size)
           /\ \A x \in L : x \in A \/ x \in Outside(w, b, b + m.len)
  <1>1. /\ Shape(h) /\ IsMemory(w) /\ L \subseteq DOMAIN w /\ b \in DOMAIN h.pools
        /\ Tidy(m, w, L, b)
    BY RetiredIs DEF Ready
  <1>2. /\ Sorted(w, m.freelist, S)
        /\ Laid(w, b + MSET, b + m.size, S, A)
        /\ m.refs = Cardinality(A)
    BY <1>1, TidyIs
  <1>3. /\ b \in Nat /\ MSET \in Nat /\ m.size \in Nat /\ m.freelist \in Nat
        /\ m.len \in Nat /\ m.size <= m.len /\ m.refs \in Nat
        /\ m.len % PGSIZE = 0 /\ b % PGSIZE = 0 /\ MSET <= m.size /\ b > 0
    BY <1>1, PoolOfShape DEF NULL
  <1>4. IsFiniteSet(A) /\ A \subseteq L
    BY <1>1, InFinite
  <1>5. \A x \in L : x \in A \/ x \in Outside(w, b, b + m.len)
    BY <1>1, HeldApart
  <1>6. DOMAIN w \subseteq Nat
    BY <1>1 DEF IsMemory
  <1>7. Outside(w, b, b + m.len) \subseteq Outside(w, b + MSET, b + m.size)
    BY <1>3, <1>6 DEF Outside
  <1>8. PoolIs(h.mapped, b, m)
    BY <1>1 DEF Shape
  <1> QED  BY <1>1, <1>2, <1>3, <1>4, <1>5, <1>7, <1>8

\* The block at a is given out, from pool b, for n bytes.
Gave(v, w, L, a, b, n) ==
    /\ a \notin L /\ a \in Nat \ {NULL}
    /\ a \in DOMAIN v /\ a - v[a].next = b /\ v[a].size = n
    /\ SameWords(v, w, L)

SameRoots(g, h) ==
    /\ g.pool = h.pool /\ g.pool1 = h.pool1 /\ g.old = h.old
    /\ g.mapped = h.mapped /\ g.class = h.class /\ DOMAIN g.pools = DOMAIN h.pools
    /\ \A x \in DOMAIN h.pools : g.pools[x].len = h.pools[x].len

LEMMA InMore ==
    ASSUME NEW v, NEW w, NEW L, NEW a, NEW b, NEW n, Gave(v, w, L, a, b, n)
    PROVE  In(v, L \cup {a}, b) = In(w, L, b) \cup {a}
  BY DEF In, Gave, SameWords

\* take_block() takes a block of pool b and leaves the heap in order.
LEMMA TakeReady ==
    ASSUME NEW h, NEW w, NEW L, NEW R, NEW D, Ready(h, w, L, R, D), NEW b \in R \cup D,
           NEW n \in Nat, NEW a \in Fitting(h, w, b, AllocSize(n)),
           NEW s, s = TakeBlock(h, w, b, a, n)
    PROVE  /\ Ready(s.heap, s.word, L \cup {a}, R, D)
           /\ Gave(s.word, w, L, a, b, n)
           /\ SameRoots(s.heap, h)
  <1> DEFINE S == NodesOf(h, w, b)
             A == In(w, L, b)
             m == h.pools[b]
             alloc == AllocSize(n)
             lo == b + MSET
             hi == b + m.size
             prev == Before(S, a)
             link == TakenLink(w, a, n)
             top == IF prev = NULL THEN link ELSE m.freelist
             v == s.word
             g == s.heap
             k == [m EXCEPT !.refs = @ + 1, !.freelist = top]
             K == L \cup {a}
  <1>0. /\ S = NodesOf(h, w, b) /\ A = In(w, L, b) /\ m = h.pools[b] /\ alloc = AllocSize(n)
        /\ lo = b + MSET /\ hi = b + m.size
        /\ prev = Before(S, a)
        /\ link = TakenLink(w, a, n)
        /\ top = IF prev = NULL THEN link ELSE m.freelist
        /\ v = TakeBlock(h, w, b, a, n).word /\ g = TakeBlock(h, w, b, a, n).heap
        /\ K = L \cup {a}
    OBVIOUS
  <1>k. k = [m EXCEPT !.refs = @ + 1, !.freelist = top]
    OBVIOUS
  <1> HIDE DEF S, A, m, alloc, lo, hi, prev, link, top, v, g, k, K
  <1>1. /\ Shape(h) /\ IsMemory(w) /\ L \subseteq DOMAIN w /\ b \in DOMAIN h.pools
        /\ Sorted(w, m.freelist, S)
        /\ Laid(w, b + MSET, b + m.size, S, A)
        /\ m.refs = Cardinality(A) /\ IsFiniteSet(A) /\ A \subseteq L
        /\ b \in Nat /\ MSET \in Nat /\ m.size \in Nat /\ m.freelist \in Nat
        /\ m.len \in Nat /\ m.size <= m.len /\ m.refs \in Nat
        /\ PoolIs(h.mapped, b, m)
        /\ b + MSET \in Nat /\ b + m.size \in Nat
        /\ Outside(w, b, b + m.len) \subseteq Outside(w, b + MSET, b + m.size)
        /\ \A x \in L : x \in A \/ x \in Outside(w, b, b + m.len)
    BY <1>0, PoolOpened
  <1>2. a \in S /\ alloc <= w[a].size /\ b <= b + MSET
    <2>1. a \in S /\ w[a].size >= alloc
      BY <1>0 DEF Fitting, BlockFits
    <2>2. a \in DOMAIN w /\ w[a].size \in Nat /\ alloc \in Nat
      BY <2>1, <1>0, <1>1, LengthIs, AllocSizeIs DEF Sorted
    <2> QED  BY <2>1, <2>2, <1>1
  <1>3. /\ IsMemory(v)
        /\ SameWords(v, w, A) /\ SameWords(v, w, Outside(w, b + MSET, b + m.size))
        /\ top \in Nat
        /\ a \notin A /\ a \in DOMAIN v /\ v[a] = Header(a, b, n)
        /\ \E T : Sorted(v, top, T) /\ Laid(v, b + MSET, b + m.size, T, A \cup {a})
    <2>1. lo \in Nat /\ hi \in Nat /\ b <= lo /\ Laid(w, lo, hi, S, A)
      BY <1>0, <1>1, <1>2
    <2>2. /\ IsMemory(v)
          /\ SameWords(v, w, A) /\ SameWords(v, w, Outside(w, lo, hi))
          /\ top \in Nat
          /\ a \notin A /\ a \in DOMAIN v /\ v[a] = Header(a, b, n)
          /\ \E T : Sorted(v, top, T) /\ Laid(v, lo, hi, T, A \cup {a})
      <3>1. Ordered(w, m.freelist, S, lo, hi, A)
        BY <2>1, <1>1 DEF Ordered
      <3>2. TakenTo(v, w, a, b, n, top, lo, hi, A)
        <4>1. /\ a \in S /\ b \in Nat /\ b <= lo /\ NodesOf(h, w, b) = S
              /\ AllocSize(n) <= w[a].size
              /\ v = TakeBlock(h, w, b, a, n).word
          BY <2>1, <1>0, <1>1, <1>2
        <4>2. top = IF Before(S, a) = NULL THEN TakenLink(w, a, n) ELSE m.freelist
          BY <1>0
        <4> QED  BY <3>1, <4>1, <4>2, TakenIs
      <3> QED  BY <3>2 DEF Reordered, TakenTo
    <2> QED  BY <2>2, <1>0
  <1>4. a \in DOMAIN w /\ a \in Nat \ {NULL} /\ a \notin Outside(w, b, b + m.len)
    <2>1. a \in DOMAIN w /\ Tidy(m, w, L, b)
      BY <1>0, <1>1, <1>2 DEF Sorted, Ready
    <2>2. b <= a /\ a < b + m.len /\ a \in Nat
      BY <2>1, <1>0, <1>1, <1>2, TidyWithin
    <2> QED  BY <2>1, <2>2, <1>1, LengthIs DEF Outside
  <1>5. Gave(v, w, L, a, b, n)
    <2>1. a \notin L
      BY <1>1, <1>3, <1>4
    <2>2. SameWords(v, w, L)
      BY <1>1, <1>3 DEF SameWords
    <2>3. a - v[a].next = b /\ v[a].size = n
      BY <1>1, <1>3, <1>4 DEF Header
    <2> QED  BY <2>1, <2>2, <2>3, <1>3, <1>4 DEF Gave
  <1>6. Repooled(g, h, b, k)
    <2>1. g = [h EXCEPT !.pools[b].refs = @ + 1,
                        !.pools[b].freelist = IF prev = NULL THEN link ELSE @]
      BY <1>0 DEF TakeBlock, State, TakenLink
    <2>2. /\ h = [mapped |-> h.mapped, pools |-> h.pools, pool |-> h.pool, pool1 |-> h.pool1,
                  old |-> h.old, class |-> h.class]
          /\ h.pools = [x \in DOMAIN h.pools |-> h.pools[x]]
          /\ m \in PoolRec
      BY <1>0, <1>1, PoolOfShape DEF Shape
    <2>3. g.pools = [x \in DOMAIN h.pools |-> IF x = b THEN k ELSE h.pools[x]]
      BY <2>1, <2>2, <1>0, <1>k, <1>1 DEF PoolRec
    <2>4. g = [mapped |-> h.mapped, pools |-> g.pools, pool |-> h.pool, pool1 |-> h.pool1,
               old |-> h.old, class |-> h.class]
      BY <2>1, <2>2
    <2> QED  BY <2>3, <2>4 DEF Repooled
  <1>7. /\ k.refs = m.refs + 1 /\ k.freelist = top /\ k.len = m.len /\ k.next = m.next
        /\ k.size = m.size /\ PoolIs(h.mapped, b, k)
    <2>1. m = [len |-> m.len, size |-> m.size, refs |-> m.refs,
               freelist |-> m.freelist, next |-> m.next] /\ m.next \in Nat
      BY <1>1, PoolIsIs, Zenon
    <2>a. k = [len |-> m.len, size |-> m.size, refs |-> m.refs + 1,
               freelist |-> top, next |-> m.next]
      BY <2>1, <1>k
    <2>2. /\ k.refs = m.refs + 1 /\ k.freelist = top /\ k.len = m.len /\ k.next = m.next
          /\ k.size = m.size /\ k \in PoolRec
      BY <2>1, <2>a, <1>1, <1>3 DEF PoolRec
    <2> QED  BY <2>2, <1>1 DEF PoolIs
  <1>8. Tidy(k, v, K, b)
    <2>1. In(v, K, b) = A \cup {a}
      BY <1>0, <1>5, InMore
    <2>2. Cardinality(A \cup {a}) = m.refs + 1
      BY <1>1, <1>3, MemberMore
    <2> QED  BY <2>1, <2>2, <1>3, <1>7 DEF Tidy
  <1>9. OnlyIn(b, w, v, L, K)
    BY <1>0, <1>5 DEF OnlyIn, Gave, SameWords
  <1>10. SameSpan(h, b, k)
    BY <1>0, <1>7 DEF SameSpan
  <1>11. SameWords(v, w, Outside(w, b, b + m.len))
    BY <1>1, <1>3 DEF SameWords
  <1>12. /\ Ready(g, v, K, R, D)
         /\ g.pool = h.pool /\ g.pool1 = h.pool1 /\ g.old = h.old
         /\ DOMAIN g.pools = DOMAIN h.pools /\ g.mapped = h.mapped /\ g.class = h.class
         /\ \A x \in DOMAIN h.pools : g.pools[x].len = h.pools[x].len
    BY <1>0, <1>3, <1>6, <1>8, <1>9, <1>10, <1>11, ReadyAfter
  <1> QED  BY <1>0, <1>5, <1>12 DEF SameRoots

\* freelist_insert() of a block that is clear of what is in its pool.
LEMMA InsertReady ==
    ASSUME NEW h, NEW w, NEW L, NEW R, NEW D, Ready(h, w, L, R, D), NEW b \in R \cup D,
           NEW a \in Nat \ {NULL}, NEW size \in Nat \ {0},
           b + MSET <= a, a + size <= b + h.pools[b].size,
           Clear(w, NodesOf(h, w, b), In(w, L, b), a, size),
           NEW s, s = FreelistInsert(h, w, b, a, size)
    PROVE  Ready(s.heap, s.word, L, R, D) /\ SameWords(s.word, w, L) /\ SameRoots(s.heap, h)
  <1> DEFINE S == NodesOf(h, w, b)
             A == In(w, L, b)
             m == h.pools[b]
             lo == b + MSET
             hi == b + m.size
             prev == Before(S, a)
             top == IF prev = NULL THEN a ELSE m.freelist
             v == s.word
             g == s.heap
             k == [m EXCEPT !.freelist = top]
  <1>1. /\ S = NodesOf(h, w, b) /\ A = In(w, L, b) /\ m = h.pools[b]
        /\ lo = b + MSET /\ hi = b + m.size
        /\ top = IF prev = NULL THEN a ELSE m.freelist
        /\ prev = Before(S, a)
        /\ k = [m EXCEPT !.freelist = top]
        /\ v = s.word /\ g = s.heap
    OBVIOUS
  <1>2. v = Linked(w, a, size, prev, After(S, a))
    BY DEF FreelistInsert, State
  <1>3. g = IF prev = NULL THEN [h EXCEPT !.pools[b].freelist = a] ELSE h
    BY DEF FreelistInsert, State
  <1> HIDE DEF S, A, m, lo, hi, prev, top, v, g, k
  <1>4. /\ Shape(h) /\ IsMemory(w) /\ L \subseteq DOMAIN w /\ b \in DOMAIN h.pools
        /\ Sorted(w, m.freelist, S)
        /\ Laid(w, b + MSET, b + m.size, S, A)
        /\ m.refs = Cardinality(A) /\ IsFiniteSet(A) /\ A \subseteq L
        /\ b \in Nat /\ MSET \in Nat /\ m.size \in Nat /\ m.freelist \in Nat
        /\ m.len \in Nat /\ m.size <= m.len /\ m.refs \in Nat
        /\ PoolIs(h.mapped, b, m)
        /\ b + MSET \in Nat /\ b + m.size \in Nat
        /\ Outside(w, b, b + m.len) \subseteq Outside(w, b + MSET, b + m.size)
        /\ \A x \in L : x \in A \/ x \in Outside(w, b, b + m.len)
    BY <1>1, PoolOpened
  <1>5. Ordered(w, m.freelist, S, lo, hi, A)
    BY <1>1, <1>4 DEF Ordered
  <1>6. a \notin A
    <2>1. \A x \in A : Length(w, x) \in Nat \ {0} /\ x \in Nat
      BY <1>4, LengthIs
    <2>2. \A x \in A : x + Length(w, x) <= a \/ a + size <= x
      BY <1>1 DEF Clear
    <2> QED  BY <2>1, <2>2
  <1>7. Reordered(v, w, top, lo, hi, A, A)
    BY <1>1, <1>2, <1>5, <1>6, LinkedIs
  <1>8. /\ IsMemory(v) /\ top \in Nat
        /\ SameWords(v, w, A) /\ SameWords(v, w, Outside(w, lo, hi))
        /\ \E T : Sorted(v, top, T) /\ Laid(v, lo, hi, T, A)
    BY <1>7 DEF Reordered
  <1>9. SameWords(v, w, L)
    BY <1>1, <1>4, <1>8 DEF SameWords
  <1>10. m = [len |-> m.len, size |-> m.size, refs |-> m.refs,
              freelist |-> m.freelist, next |-> m.next] /\ m.next \in Nat
    BY <1>4, PoolIsIs, Zenon
  <1>11. k = [len |-> m.len, size |-> m.size, refs |-> m.refs,
              freelist |-> top, next |-> m.next]
    BY <1>1, <1>10
  <1>12. /\ k.refs = m.refs /\ k.freelist = top /\ k.len = m.len /\ k.next = m.next
         /\ k.size = m.size /\ PoolIs(h.mapped, b, k)
    <2>1. /\ k.refs = m.refs /\ k.freelist = top /\ k.len = m.len /\ k.next = m.next
          /\ k.size = m.size /\ k \in PoolRec
      BY <1>4, <1>8, <1>10, <1>11 DEF PoolRec
    <2> QED  BY <2>1, <1>4 DEF PoolIs
  <1>13. Repooled(g, h, b, k)
    <2>1. /\ h = [mapped |-> h.mapped, pools |-> h.pools, pool |-> h.pool, pool1 |-> h.pool1,
                  old |-> h.old, class |-> h.class]
          /\ h.pools = [x \in DOMAIN h.pools |-> h.pools[x]]
      BY <1>4 DEF Shape
    <2>2. CASE prev = NULL
      <3>1. g = [h EXCEPT !.pools[b].freelist = a]
        BY <2>2, <1>3
      <3>2. k = [m EXCEPT !.freelist = a]
        BY <2>2, <1>1
      <3>3. g.pools = [x \in DOMAIN h.pools |-> IF x = b THEN k ELSE h.pools[x]]
        BY <2>1, <3>1, <3>2, <1>1, <1>4
      <3>4. g = [mapped |-> h.mapped, pools |-> g.pools, pool |-> h.pool, pool1 |-> h.pool1,
                 old |-> h.old, class |-> h.class]
        BY <2>1, <3>1
      <3> QED  BY <3>3, <3>4 DEF Repooled
    <2>3. CASE prev # NULL
      <3>1. g = h /\ k = m
        BY <2>3, <1>1, <1>3, <1>10, <1>11
      <3> QED  BY <2>1, <3>1, <1>1 DEF Repooled
    <2> QED  BY <2>2, <2>3
  <1>14. In(v, L, b) = A
    BY <1>1, <1>9 DEF In, SameWords
  <1>15. Tidy(k, v, L, b)
    BY <1>1, <1>4, <1>8, <1>12, <1>14 DEF Tidy
  <1>16. OnlyIn(b, w, v, L, L)
    BY <1>9 DEF OnlyIn, SameWords
  <1>17. SameSpan(h, b, k)
    BY <1>1, <1>12 DEF SameSpan
  <1>18. SameWords(v, w, Outside(w, b, b + m.len))
    BY <1>1, <1>4, <1>8 DEF SameWords
  <1>19. /\ Ready(g, v, L, R, D)
         /\ g.pool = h.pool /\ g.pool1 = h.pool1 /\ g.old = h.old
         /\ DOMAIN g.pools = DOMAIN h.pools /\ g.mapped = h.mapped /\ g.class = h.class
         /\ \A x \in DOMAIN h.pools : g.pools[x].len = h.pools[x].len
    BY <1>1, <1>8, <1>13, <1>15, <1>16, <1>17, <1>18, ReadyAfter
  <1> QED  BY <1>1, <1>9, <1>19 DEF SameRoots

\* The next block of the current pool.
LEMMA BumpReady ==
    ASSUME NEW h, NEW w, NEW L, NEW R, NEW D, Ready(h, w, L, R, D), h.pool \in R \cup D,
           NEW n \in Nat, HasBumpRoom(h, n), NEW s, s = Bump(h, w, n),
           NEW a, a = Skip(h.pool + h.pools[h.pool].size)
    PROVE  /\ Ready(s.heap, s.word, L \cup {a}, R, D)
           /\ Gave(s.word, w, L, a, h.pool, n)
           /\ SameRoots(s.heap, h)
  <1> DEFINE b == h.pool
             S == NodesOf(h, w, b)
             A == In(w, L, b)
             m == h.pools[b]
             lo == b + MSET
             hi == b + m.size
             alloc == AllocSize(n)
             end == Skip(a + alloc)
             v == s.word
             g == s.heap
             K == L \cup {a}
             k == [m EXCEPT !.refs = @ + 1, !.size = end - b]
             r == Header(a, b, n)
  <1>1. /\ b = h.pool /\ S = NodesOf(h, w, b) /\ A = In(w, L, b) /\ m = h.pools[b]
        /\ lo = b + MSET /\ hi = b + m.size /\ alloc = AllocSize(n)
        /\ end = Skip(a + alloc)
        /\ k = [m EXCEPT !.refs = @ + 1, !.size = end - b]
        /\ v = s.word /\ g = s.heap /\ K = L \cup {a}
        /\ b \in R \cup D /\ a = Skip(hi) /\ a + alloc <= b + m.len
    BY DEF HasBumpRoom
  <1>b. S = NodesOf(h, w, b) /\ A = In(w, L, b) /\ m = h.pools[b] /\ b \in R \cup D
    BY <1>1
  <1>2. v = With(w, a, r)
    BY DEF Bump, State, Header
  <1>3. g = [h EXCEPT !.pools[b].refs = @ + 1, !.pools[b].size = end - b]
    BY DEF Bump, State
  <1>r. r = Header(a, b, n)
    OBVIOUS
  <1> HIDE DEF S, A, m, lo, hi, v, g, k, b, alloc, end, K, r
  <1>4. /\ Shape(h) /\ IsMemory(w) /\ L \subseteq DOMAIN w /\ b \in DOMAIN h.pools
        /\ Sorted(w, m.freelist, S)
        /\ Laid(w, b + MSET, b + m.size, S, A)
        /\ m.refs = Cardinality(A) /\ IsFiniteSet(A) /\ A \subseteq L
        /\ b \in Nat /\ MSET \in Nat /\ m.size \in Nat /\ m.freelist \in Nat
        /\ m.len \in Nat /\ m.size <= m.len /\ m.refs \in Nat
        /\ PoolIs(h.mapped, b, m) /\ m.len % PGSIZE = 0 /\ b % PGSIZE = 0 /\ MSET <= m.size /\ b > 0
        /\ b + MSET \in Nat /\ b + m.size \in Nat
        /\ Outside(w, b, b + m.len) \subseteq Outside(w, b + MSET, b + m.size)
        /\ \A x \in L : x \in A \/ x \in Outside(w, b, b + m.len)
    BY <1>b, PoolOpened
  <1>p. /\ lo = b + MSET /\ hi = b + m.size /\ end = Skip(a + alloc) /\ a = Skip(hi)
        /\ a + alloc <= b + m.len
    BY <1>1
  <1>q. /\ b \in Nat /\ MSET \in Nat /\ m.size \in Nat /\ m.len \in Nat /\ m.refs \in Nat
        /\ m.size <= m.len /\ MSET <= m.size /\ b > 0
        /\ m.len % PGSIZE = 0 /\ b % PGSIZE = 0 /\ lo \in Nat /\ hi \in Nat
    BY <1>4, <1>p
  <1>l. IsMemory(w) /\ L \subseteq DOMAIN w /\ A \subseteq L /\ Laid(w, lo, hi, S, A)
    BY <1>4, <1>p
  <1>k. /\ m.freelist \in Nat /\ PoolIs(h.mapped, b, m) /\ m = h.pools[b]
        /\ Shape(h) /\ b \in DOMAIN h.pools
    BY <1>b, <1>4
  <1>5. alloc \in Nat \ {0}
    BY <1>1, AllocSizeIs
  <1>6. /\ a \in Nat \ {NULL} /\ a \in Nat /\ hi <= a /\ b <= a /\ lo <= a
    <2>1. Skip(hi) \in Nat /\ hi <= Skip(hi)
      BY <1>q, SkipIs
    <2> QED  BY <2>1, <1>p, <1>q DEF NULL
  <1>7. /\ end \in Nat /\ a + alloc <= end /\ end <= b + m.len
    <2>1. (b + m.len) \in Nat /\ (b + m.len) % PGSIZE = 0 /\ a + alloc \in Nat
      <3>1. b \in Int /\ m.len \in Int /\ b % PGSIZE = 0 /\ m.len % PGSIZE = 0
        BY <1>q
      <3>2. (b + m.len) % PGSIZE = 0
        BY <3>1, WholePages
      <3> QED  BY <3>2, <1>q, <1>5, <1>6
    <2> QED  BY <2>1, <1>p, SkipIs
  <1>8. r \in Words /\ r.next = a - b /\ r.size = n
    BY <1>r, <1>q, <1>6 DEF Words, Header
  <1>9. IsMemory(v) /\ Stored(v, w, a, r)
    BY <1>2, <1>l, <1>6, <1>8, WithIs
  \* Nothing of the pool lies as far up as a.
  <1>10. \A x \in S \cup A : x \in DOMAIN w /\ x < a
    <2>1. \A x \in S : x \in DOMAIN w /\ w[x].size # 0 /\ x + w[x].size <= hi
      BY <1>l DEF Laid
    <2>2. \A x \in A : x \in DOMAIN w /\ x + Length(w, x) <= hi
      BY <1>l DEF Laid
    <2>3. \A x \in S \cup A : x \in Nat /\ w[x].size \in Nat /\ Length(w, x) \in Nat \ {0}
      BY <2>1, <2>2, <1>l, LengthIs
    <2> QED  BY <2>1, <2>2, <2>3, <1>q, <1>6
  <1>11. \A x \in S \cup A : x \in DOMAIN v /\ v[x] = w[x]
    BY <1>6, <1>9, <1>10 DEF Stored
  <1>12. Gave(v, w, L, a, b, n)
    <2>1. a \notin Outside(w, b, b + m.len)
      BY <1>p, <1>q, <1>5, <1>6 DEF Outside
    <2>2. a \notin L
      <3>1. \A x \in L : x \in A \/ x \in Outside(w, b, b + m.len)
        BY <1>4
      <3>2. a \notin A
        BY <1>6, <1>10
      <3> QED  BY <2>1, <3>1, <3>2
    <2>3. SameWords(v, w, L)
      BY <2>2, <1>l, <1>9 DEF SameWords, Stored
    <2>4. a \in DOMAIN v /\ a - v[a].next = b /\ v[a].size = n
      BY <1>q, <1>6, <1>8, <1>9 DEF Stored
    <2> QED  BY <2>2, <2>3, <2>4, <1>6 DEF Gave
  <1>13. m = [len |-> m.len, size |-> m.size, refs |-> m.refs,
              freelist |-> m.freelist, next |-> m.next] /\ m.next \in Nat
    BY <1>k, PoolIsIs, Zenon
  <1>14. k = [len |-> m.len, size |-> end - b, refs |-> m.refs + 1,
              freelist |-> m.freelist, next |-> m.next]
    <2>1. k = [m EXCEPT !.refs = @ + 1, !.size = end - b]
      BY <1>1
    <2> QED  BY <2>1, <1>13
  <1>15. /\ k.refs = m.refs + 1 /\ k.freelist = m.freelist /\ k.len = m.len /\ k.next = m.next
         /\ k.size = end - b /\ PoolIs(h.mapped, b, k)
    <2>1. end - b \in Nat /\ m.refs + 1 \in Nat /\ MSET <= end - b /\ end - b <= m.len
      BY <1>p, <1>q, <1>5, <1>6, <1>7
    <2>2. /\ k.refs = m.refs + 1 /\ k.freelist = m.freelist /\ k.len = m.len /\ k.next = m.next
          /\ k.size = end - b /\ k \in PoolRec
      BY <2>1, <1>q, <1>13, <1>14, <1>k DEF PoolRec
    <2>3. Pages(b, m.len) \subseteq h.mapped /\ m.len % PGSIZE = 0
      BY <1>k DEF PoolIs
    <2> QED  BY <2>1, <2>2, <2>3 DEF PoolIs
  <1>16. Repooled(g, h, b, k)
    <2>1. /\ h = [mapped |-> h.mapped, pools |-> h.pools, pool |-> h.pool, pool1 |-> h.pool1,
                  old |-> h.old, class |-> h.class]
          /\ h.pools = [x \in DOMAIN h.pools |-> h.pools[x]]
      BY <1>k DEF Shape
    <2>2. g.pools = [x \in DOMAIN h.pools |-> IF x = b THEN k ELSE h.pools[x]]
      <3>1. k = [m EXCEPT !.refs = @ + 1, !.size = end - b] /\ b \in DOMAIN h.pools
        BY <1>1, <1>k
      <3>2. g.pools = [h.pools EXCEPT ![b].refs = @ + 1, ![b].size = end - b]
        BY <2>1, <1>3
      <3>3. g.pools = [x \in DOMAIN h.pools |->
                         IF x = b THEN [m EXCEPT !.refs = @ + 1, !.size = end - b] ELSE h.pools[x]]
        BY <2>1, <1>13, <1>k, <3>1, <3>2
      <3> QED  BY <3>1, <3>3
    <2>3. g = [mapped |-> h.mapped, pools |-> g.pools, pool |-> h.pool, pool1 |-> h.pool1,
               old |-> h.old, class |-> h.class]
      BY <2>1, <1>3
    <2> QED  BY <2>2, <2>3 DEF Repooled
  <1>17. In(v, K, b) = A \cup {a}
    BY <1>1, <1>12, InMore
  <1>18. Cardinality(A \cup {a}) = m.refs + 1
    <2>1. a \notin A
      BY <1>4, <1>12 DEF Gave
    <2> QED  BY <2>1, <1>4, MemberMore
  <1>19. Laid(v, lo, b + k.size, S, A \cup {a})
    <2>1. b + k.size = end
      BY <1>q, <1>7, <1>15
    <2>2. \A x \in A : Length(v, x) = Length(w, x) /\ Length(w, x) \in Nat
      BY <1>l, <1>10, <1>11, LengthIs
    <2>3. Length(v, a) = alloc
      <3>1. v[a] = r
        BY <1>9 DEF Stored
      <3>2. alloc = AllocSize(n)
        BY <1>1
      <3> QED  BY <1>8, <3>1, <3>2 DEF Length
    <2>4. \A x \in S \cup A : x \in Nat /\ x < a /\ w[x].size \in Nat
      BY <1>l, <1>10, LengthIs
    <2>5. \A x \in S : /\ v[x].size = w[x].size /\ w[x].size # 0
                       /\ lo <= x /\ x + w[x].size <= hi
      BY <1>l, <1>11 DEF Laid
    <2>6. \A x \in A : lo <= x /\ x + Length(v, x) <= hi
      BY <1>l, <2>2 DEF Laid
    <2>7. hi \in Nat /\ hi <= a /\ a + alloc <= end /\ hi <= end /\ a \in Nat /\ alloc \in Nat /\ end \in Nat
      BY <1>q, <1>5, <1>6, <1>7
    <2>8. \A x \in S : v[x].size # 0 /\ lo <= x /\ x + v[x].size <= end /\ x + v[x].size <= a
      BY <2>4, <2>5, <2>7
    <2>9. \A x \in A : lo <= x /\ x + Length(v, x) <= end /\ x + Length(v, x) <= a
      BY <2>2, <2>4, <2>6, <2>7
    <2>10. lo <= a /\ a + Length(v, a) <= end
      BY <2>3, <2>7, <1>6
    <2>11. \A x, y \in S : x < y => x + v[x].size < y
      BY <1>l, <2>5 DEF Laid
    <2>12. \A x, y \in A : x < y => x + Length(v, x) <= y
      BY <1>l, <2>2 DEF Laid
    <2>13. \A x \in S, y \in A : x + v[x].size <= y \/ y + Length(v, y) <= x
      BY <1>l, <2>2, <2>5 DEF Laid
    <2>14. S \cup (A \cup {a}) \subseteq DOMAIN v
      BY <1>9, <1>11 DEF Stored
    <2>15. \A x \in A : ~ (a < x)
      BY <2>4, <2>7
    <2>16. \A x, y \in A \cup {a} : x < y => x + Length(v, x) <= y
      BY <2>7, <2>9, <2>12, <2>15
    <2> QED  BY <2>1, <2>8, <2>9, <2>10, <2>11, <2>13, <2>14, <2>16 DEF Laid
  <1>20. Sorted(v, k.freelist, S)
    <2>1. \A x \in S : v[x].next = w[x].next
      BY <1>11
    <2> QED  BY <2>1, <1>4, <1>11, <1>15 DEF Sorted
  <1>21. Tidy(k, v, K, b)
    BY <1>p, <1>15, <1>17, <1>18, <1>19, <1>20 DEF Tidy
  <1>22. OnlyIn(b, w, v, L, K)
    <2>1. K = L \cup {a}
      BY <1>1
    <2> QED  BY <2>1, <1>12 DEF OnlyIn, Gave, SameWords
  <1>23. SameSpan(h, b, k)
    BY <1>b, <1>15 DEF SameSpan
  <1>24. SameWords(v, w, Outside(w, b, b + m.len))
    <2>1. a \notin Outside(w, b, b + m.len)
      BY <1>p, <1>q, <1>5, <1>6 DEF Outside
    <2> QED  BY <2>1, <1>9 DEF SameWords, Stored, Outside
  <1>25. /\ Ready(g, v, K, R, D)
         /\ g.pool = h.pool /\ g.pool1 = h.pool1 /\ g.old = h.old
         /\ DOMAIN g.pools = DOMAIN h.pools /\ g.mapped = h.mapped /\ g.class = h.class
         /\ \A x \in DOMAIN h.pools : g.pools[x].len = h.pools[x].len
    BY <1>b, <1>9, <1>16, <1>21, <1>22, <1>23, <1>24, ReadyAfter
  <1> QED  BY <1>1, <1>12, <1>25 DEF SameRoots

-------------------------------------------------------------------------------
(***************************************************************************)
(* Steps on the pools themselves.                                          *)
(***************************************************************************)
Formed(h) ==
    h = [mapped |-> h.mapped, pools |-> h.pools, pool |-> h.pool, pool1 |-> h.pool1,
         old |-> h.old, class |-> h.class]

SpareIs(h, X) == h.pool1 = NULL \/ h.pool1 \in DOMAIN h.pools \ X

LEMMA ShapeFrom ==
    ASSUME NEW h, Shape(h), NEW g, Formed(g), g.mapped = h.mapped,
           g.class \in Nat, g.class % PGSIZE = 0,
           DOMAIN g.pools = DOMAIN h.pools, g.pools = [b \in DOMAIN h.pools |-> g.pools[b]],
           \A b \in DOMAIN h.pools :
              PoolIs(h.mapped, b, g.pools[b]) /\ g.pools[b].len = h.pools[b].len
    PROVE  Shape(g)
  <1>1. \A b, c \in DOMAIN g.pools : b # c => Apart(g.pools, b, c)
    BY DEF Shape, Apart
  <1>2. \A b \in DOMAIN g.pools : PoolIs(g.mapped, b, g.pools[b])
    OBVIOUS
  <1> QED  BY <1>1, <1>2 DEF Shape, Formed

\* What a pool is known by, but for its place in the list and its length.
LEMMA TidyOf ==
    ASSUME NEW w, NEW L, NEW b \in Nat, NEW m, Tidy(m, w, L, b), NEW k,
           k.freelist = m.freelist, k.refs = m.refs,
           m.size \in Nat, k.size \in Nat, m.size <= k.size, IsMemory(w)
    PROVE  Tidy(k, w, L, b)
  <1> DEFINE A == In(w, L, b)
  <1>1. PICK S : Sorted(w, m.freelist, S) /\ Laid(w, b + MSET, b + m.size, S, A) /\ m.refs = Cardinality(A)
    BY DEF Tidy
  <1> HIDE DEF A
  <1>2. \A x \in S \cup A : x \in DOMAIN w
    BY <1>1 DEF Laid
  <1>3. \A x \in S \cup A : x \in Nat /\ w[x].size \in Nat /\ Length(w, x) \in Nat
    BY <1>2, LengthIs
  <1>4. \A x \in S : w[x].size # 0 /\ b + MSET <= x /\ x + w[x].size <= b + m.size
    BY <1>1 DEF Laid
  <1>5. \A x \in A : b + MSET <= x /\ x + Length(w, x) <= b + m.size
    BY <1>1 DEF Laid
  <1>6. \A x \in S : w[x].size # 0 /\ b + MSET <= x /\ x + w[x].size <= b + k.size
    BY <1>3, <1>4
  <1>7. \A x \in A : b + MSET <= x /\ x + Length(w, x) <= b + k.size
    BY <1>3, <1>5
  <1>8. Laid(w, b + MSET, b + k.size, S, A)
    BY <1>1, <1>6, <1>7 DEF Laid
  <1> QED  BY <1>1, <1>8 DEF Tidy, A

\* The roots alone change, but for the list of retired pools.
LEMMA ReadyRoots ==
    ASSUME NEW h, NEW w, NEW L, NEW R, NEW D, Ready(h, w, L, R, D),
           NEW g, Formed(g), g.mapped = h.mapped, g.pools = h.pools, g.old = h.old,
           g.class \in Nat, g.class % PGSIZE = 0, SpareIs(g, R \cup D)
    PROVE  Ready(g, w, L, R, D)
  <1>1. Shape(g)
    <2>1. Shape(h)
      BY DEF Ready
    <2>2. /\ DOMAIN g.pools = DOMAIN h.pools /\ g.pools = [b \in DOMAIN h.pools |-> g.pools[b]]
          /\ \A b \in DOMAIN h.pools :
                PoolIs(h.mapped, b, g.pools[b]) /\ g.pools[b].len = h.pools[b].len
      BY <2>1 DEF Shape
    <2> QED  BY <2>1, <2>2, ShapeFrom
  <1> QED  BY <1>1 DEF Ready, SpareIs

\* A pool with no blocks in it need not be kept.
LEMMA ReadyWithout ==
    ASSUME NEW h, NEW w, NEW L, NEW R, NEW D, Ready(h, w, L, R, D), NEW b \in R \cup D,
           h.pools[b].refs = 0
    PROVE  /\ In(w, L, b) = {} /\ \A a \in L : a - w[a].next # b
           /\ b \in D => Ready(h, w, L, R, D \ {b})
  <1>1. /\ Shape(h) /\ IsMemory(w) /\ L \subseteq DOMAIN w
        /\ h.pools[b].refs = Cardinality(In(w, L, b))
    BY PoolOpened
  <1>2. In(w, L, b) = {}
    BY <1>1, InFinite
  <1>3. \A a \in L : a - w[a].next # b
    BY <1>2 DEF In
  <1>4. \A a \in L : a - w[a].next \in R \cup D
    BY DEF Ready
  <1>5. SpareIs(h, R \cup (D \ {b}))
    BY DEF Ready, SpareIs
  <1>6. b \in D => Ready(h, w, L, R, D \ {b})
    BY <1>3, <1>4, <1>5 DEF Ready, SpareIs
  <1> QED  BY <1>2, <1>3, <1>6

\* retire(): onto the list of old pools.
Listed(h, b) == [h EXCEPT !.pools[b].size = h.pools[b].len, !.pools[b].next = h.old, !.old = b]

\* The list of retired pools with another at its head.
LEMMA ReadyListed ==
    ASSUME NEW h, NEW w, NEW L, NEW R, NEW D, Ready(h, w, L, R, D), NEW b \in D,
           NEW g, g = Listed(h, b)
    PROVE  /\ Ready(g, w, L, R \cup {b}, D \ {b})
           /\ g.pool = h.pool /\ g.pool1 = h.pool1 /\ g.mapped = h.mapped /\ g.class = h.class
           /\ DOMAIN g.pools = DOMAIN h.pools
           /\ \A x \in DOMAIN h.pools : g.pools[x].len = h.pools[x].len
           /\ g.pools[b].size = h.pools[b].len /\ g.pools[b].freelist = h.pools[b].freelist
  <1> DEFINE m == h.pools[b]
             k == [len |-> m.len, size |-> m.len, refs |-> m.refs,
                   freelist |-> m.freelist, next |-> h.old]
  <1>m. m = h.pools[b]
    OBVIOUS
  <1>0. m = h.pools[b] /\ k = [len |-> m.len, size |-> m.len, refs |-> m.refs,
                               freelist |-> m.freelist, next |-> h.old]
    OBVIOUS
  <1>k. k = [len |-> m.len, size |-> m.len, refs |-> m.refs,
             freelist |-> m.freelist, next |-> h.old]
    OBVIOUS
  <1> HIDE DEF m, k
  <1>1. /\ Shape(h) /\ IsMemory(w) /\ b \in DOMAIN h.pools /\ m.len \in Nat /\ m.size <= m.len
        /\ m.size \in Nat /\ MSET <= m.size /\ b \in Nat /\ MSET \in Nat
        /\ PoolIs(h.mapped, b, m) /\ b # NULL
    BY <1>0, PoolOpened, PoolOfShape
  <1>2. m = [len |-> m.len, size |-> m.size, refs |-> m.refs,
             freelist |-> m.freelist, next |-> m.next]
        /\ m.refs \in Nat /\ m.freelist \in Nat
    BY <1>1, PoolIsIs, Zenon
  <1>3. /\ Formed(h) /\ h.pools = [x \in DOMAIN h.pools |-> h.pools[x]]
        /\ h.class \in Nat /\ h.class % PGSIZE = 0
    BY <1>1 DEF Shape, Formed
  <1>4. g.pools = [x \in DOMAIN h.pools |-> IF x = b THEN k ELSE h.pools[x]]
    <2>1. g.pools = [x \in DOMAIN h.pools |-> IF x = b THEN [m EXCEPT !.size = m.len, !.next = h.old]
                                              ELSE h.pools[x]]
      <3>1. g.pools = [[h.pools EXCEPT ![b].size = h.pools[b].len] EXCEPT ![b].next = h.old]
        BY <1>3 DEF Formed, Listed
      <3>2. b \in DOMAIN h.pools /\ m = h.pools[b] /\ h.pools = [x \in DOMAIN h.pools |-> h.pools[x]]
        BY <1>0, <1>1, <1>3
      <3> QED  BY <3>1, <3>2
    <2>2. [m EXCEPT !.size = m.len, !.next = h.old] = k
      <3> DEFINE q == [m EXCEPT !.size = m.len]
      <3>1. q = [len |-> m.len, size |-> m.len, refs |-> m.refs,
                 freelist |-> m.freelist, next |-> m.next]
        BY <1>2
      <3>2. [m EXCEPT !.size = m.len, !.next = h.old] = [q EXCEPT !.next = h.old]
        OBVIOUS
      <3> HIDE DEF q
      <3> QED  BY <3>1, <3>2, <1>k
    <2> QED  BY <2>1, <2>2
  <1>5. /\ Formed(g)
        /\ g.mapped = h.mapped /\ g.pool = h.pool /\ g.pool1 = h.pool1 /\ g.old = b
        /\ g.class = h.class
    BY <1>3 DEF Formed, Listed
  <1>6. Chained(Links(h.pools), h.old, R) /\ R \subseteq DOMAIN h.pools /\ b \notin R /\ NULL \notin R
    BY <1>1, RetiredIs, PoolsFinite DEF Ready
  <1>7. h.old \in R \cup {NULL} /\ h.old \in Nat
    <2>1. h.old \in R \cup {NULL}
      BY <1>6 DEF Chained
    <2> QED  BY <2>1, <1>1, <1>6, PoolOfShape DEF NULL
  <1>8. /\ k.len = m.len /\ k.size = m.len /\ k.refs = m.refs /\ k.freelist = m.freelist
        /\ k.next = h.old /\ PoolIs(h.mapped, b, k)
    <2>0. /\ k.len = m.len /\ k.size = m.len /\ k.refs = m.refs /\ k.freelist = m.freelist
          /\ k.next = h.old
      BY <1>0
    <2>1. k \in PoolRec
      BY <1>0, <1>1, <1>2, <1>7 DEF PoolRec
    <2>2. MSET <= m.len
      BY <1>1
    <2> QED  BY <2>0, <2>1, <2>2, <1>1 DEF PoolIs
  <1>9. /\ DOMAIN g.pools = DOMAIN h.pools
        /\ g.pools[b] = k /\ \A x \in DOMAIN h.pools \ {b} : g.pools[x] = h.pools[x]
        /\ g.pools = [x \in DOMAIN h.pools |-> g.pools[x]]
        /\ \A x \in DOMAIN h.pools : g.pools[x].len = h.pools[x].len
    BY <1>0, <1>1, <1>4, <1>8
  <1>10. Shape(g)
    <2>1. \A x \in DOMAIN h.pools : PoolIs(h.mapped, x, h.pools[x])
      BY <1>1 DEF Shape
    <2>2. \A x \in DOMAIN h.pools :
             PoolIs(h.mapped, x, g.pools[x]) /\ g.pools[x].len = h.pools[x].len
      BY <2>1, <1>8, <1>9
    <2>3. g.class \in Nat /\ g.class % PGSIZE = 0
      BY <1>3, <1>5
    <2> QED  BY <2>2, <2>3, <1>1, <1>5, <1>9, ShapeFrom
  <1>11. Chained(Links(g.pools), b, R \cup {b})
    <2> DEFINE old == Links(h.pools)
               new == Links(g.pools)
    <2>1. /\ DOMAIN new = DOMAIN h.pools /\ DOMAIN old = DOMAIN h.pools
          /\ new[b] = h.old /\ \A x \in R : new[x] = old[x]
      BY <1>1, <1>6, <1>8, <1>9 DEF Links
    <2> HIDE DEF old, new
    <2>2. /\ \A x \in R : old[x] \in R \cup {NULL}
          /\ \A x \in R : x = h.old \/ \E y \in R : old[y] = x
      BY <1>6 DEF Chained, old
    <2>3. PICK q \in [R -> Nat] : \A x \in R : old[x] \in R => q[x] < q[old[x]]
      BY <1>6 DEF Chained, old
    <2> DEFINE p == [x \in R \cup {b} |-> IF x = b THEN 0 ELSE q[x] + 1]
    <2>4. /\ p \in [R \cup {b} -> Nat] /\ p[b] = 0
          /\ \A x \in R : p[x] = q[x] + 1 /\ q[x] \in Nat
      BY <2>3, <1>6
    <2> HIDE DEF p
    <2>5. \A x \in R \cup {b} : new[x] \in R \cup {b} => p[x] < p[new[x]]
      <3>1. new[b] # b
        BY <2>1, <1>1, <1>6, <1>7
      <3>2. \A x \in R : new[x] \in R \cup {NULL}
        BY <2>1, <2>2
      <3>3. ASSUME NEW x \in R, new[x] \in R \cup {b}  PROVE p[x] < p[new[x]]
        <4>1. new[x] \in R /\ new[x] = old[x]
          BY <3>2, <3>3, <2>1, <1>1
        <4> QED  BY <4>1, <2>3, <2>4
      <3>4. new[b] \in R \cup {b} => p[b] < p[new[b]]
        BY <3>1, <2>1, <2>4, <1>7
      <3> QED  BY <3>3, <3>4
    <2>6. \A x \in R \cup {b} : new[x] \in (R \cup {b}) \cup {NULL}
      BY <2>1, <2>2, <1>7
    <2>7. \A x \in R \cup {b} : x = b \/ \E y \in R \cup {b} : new[y] = x
      BY <2>1, <2>2
    <2> QED  BY <2>1, <2>4, <2>5, <2>6, <2>7, <1>1, <1>6 DEF Chained, new
  <1>12. \A c \in (R \cup {b}) \cup (D \ {b}) : Tidy(g.pools[c], w, L, c)
    <2>1. \A c \in R \cup D : Tidy(h.pools[c], w, L, c) /\ c \in DOMAIN h.pools
      BY <1>6 DEF Ready
    <2>2. Tidy(k, w, L, b)
      BY <2>1, <1>0, <1>1, <1>8, TidyOf
    <2> QED  BY <2>1, <2>2, <1>9
  <1>13. /\ D \ {b} \subseteq DOMAIN g.pools /\ (R \cup {b}) \cap (D \ {b}) = {}
         /\ g.pool1 = NULL \/ g.pool1 \in DOMAIN g.pools \ ((R \cup {b}) \cup (D \ {b}))
         /\ L \subseteq DOMAIN w
         /\ \A a \in L : a - w[a].next \in (R \cup {b}) \cup (D \ {b})
    BY <1>5, <1>9 DEF Ready
  <1>14. Ready(g, w, L, R \cup {b}, D \ {b})
    BY <1>1, <1>5, <1>10, <1>11, <1>12, <1>13 DEF Ready
  <1> QED  BY <1>0, <1>5, <1>8, <1>9, <1>14

\* A pool taken off the list of old pools.
LEMMA ReadyUnlisted ==
    ASSUME NEW h, NEW w, NEW L, NEW R, NEW D, Ready(h, w, L, R, D), NEW b \in R,
           NEW g, g = Unlisted(h, b)
    PROVE  /\ Ready(g, w, L, R \ {b}, D \cup {b})
           /\ g.pool = h.pool /\ g.pool1 = h.pool1 /\ g.mapped = h.mapped /\ g.class = h.class
           /\ DOMAIN g.pools = DOMAIN h.pools
           /\ \A x \in DOMAIN h.pools : g.pools[x].len = h.pools[x].len
                                        /\ g.pools[x].refs = h.pools[x].refs
  <1> DEFINE after == h.pools[b].next
             Shorter(x) == [h.pools[x] EXCEPT !.next = after]
             old == Links(h.pools)
             new == Links(g.pools)
  <1>1. Shape(h) /\ IsMemory(w) /\ Chained(old, h.old, R) /\ R \cap D = {} /\ D \subseteq DOMAIN h.pools
    BY DEF Ready
  <1>2. /\ Retired(h) = R /\ R \subseteq DOMAIN h.pools /\ NULL \notin R
        /\ b \in DOMAIN h.pools
    BY <1>1, RetiredIs, PoolsFinite
  <1>3. /\ Formed(h) /\ h.pools = [x \in DOMAIN h.pools |-> h.pools[x]]
        /\ h.class \in Nat /\ h.class % PGSIZE = 0
    BY <1>1 DEF Shape, Formed
  <1>4. g.pools = [x \in DOMAIN h.pools |->
                      IF h.pools[x].next = b /\ x \in R THEN Shorter(x) ELSE h.pools[x]]
    <2>1. g.pools = [x \in DOMAIN h.pools |->
                        IF h.pools[x].next = b /\ x \in Retired(h) THEN Shorter(x) ELSE h.pools[x]]
      BY <1>3 DEF Formed, Unlisted
    <2> QED  BY <2>1, <1>2
  <1>5. /\ Formed(g)
        /\ g.mapped = h.mapped /\ g.pool = h.pool /\ g.pool1 = h.pool1 /\ g.class = h.class
        /\ g.old = IF h.old = b THEN after ELSE h.old
    BY <1>3 DEF Formed, Unlisted
  <1>6. after \in Nat
    BY <1>1, <1>2, PoolOfShape
  <1> HIDE DEF after
  <1>7. ASSUME NEW x \in DOMAIN h.pools
        PROVE  /\ g.pools[x].len = h.pools[x].len /\ g.pools[x].size = h.pools[x].size
               /\ g.pools[x].refs = h.pools[x].refs /\ g.pools[x].freelist = h.pools[x].freelist
               /\ g.pools[x].next = IF h.pools[x].next = b /\ x \in R THEN after ELSE h.pools[x].next
               /\ PoolIs(h.mapped, x, g.pools[x])
               /\ h.pools[x].size \in Nat /\ x \in Nat
    <2> DEFINE m == h.pools[x]
               k == Shorter(x)
    <2>1. PoolIs(h.mapped, x, m) /\ x \in Nat
      BY <1>1, PoolOfShape DEF Shape
    <2>2. /\ m = [len |-> m.len, size |-> m.size, refs |-> m.refs,
                  freelist |-> m.freelist, next |-> m.next]
          /\ m.len \in Nat /\ m.size \in Nat /\ m.refs \in Nat /\ m.freelist \in Nat
      BY <2>1, PoolIsIs, Zenon
    <2>3. g.pools[x] = IF m.next = b /\ x \in R THEN k ELSE m
      BY <1>4
    <2>4. k = [m EXCEPT !.next = after]
      OBVIOUS
    <2> HIDE DEF m, k
    <2>5. k = [len |-> m.len, size |-> m.size, refs |-> m.refs,
               freelist |-> m.freelist, next |-> after]
      BY <2>2, <2>4
    <2>6. /\ k.len = m.len /\ k.size = m.size /\ k.refs = m.refs /\ k.freelist = m.freelist
          /\ k.next = after /\ k \in PoolRec
      BY <2>2, <2>5, <1>6 DEF PoolRec
    <2>7. PoolIs(h.mapped, x, k)
      BY <2>1, <2>6 DEF PoolIs
    <2> QED  BY <2>1, <2>2, <2>3, <2>6, <2>7 DEF m
  <1>8. DOMAIN g.pools = DOMAIN h.pools /\ g.pools = [x \in DOMAIN h.pools |-> g.pools[x]]
    BY <1>4
  <1> HIDE DEF Shorter
  <1>9. Shape(g)
    <2>1. g.class \in Nat /\ g.class % PGSIZE = 0
      BY <1>3, <1>5
    <2> QED  BY <2>1, <1>1, <1>5, <1>7, <1>8, ShapeFrom
  <1>10. Chained(new, g.old, R \ {b})
    <2>1. /\ DOMAIN new = DOMAIN h.pools /\ DOMAIN old = DOMAIN h.pools
          /\ \A x \in R : new[x] = IF old[x] = b THEN old[b] ELSE old[x]
          /\ g.old = IF h.old = b THEN old[b] ELSE h.old
      BY <1>2, <1>5, <1>7, <1>8 DEF Links, after
    <2> HIDE DEF old, new
    <2>2. /\ \A x \in R : old[x] \in R \cup {NULL}
          /\ \A x \in R : x = h.old \/ \E y \in R : old[y] = x
          /\ h.old \in R \cup {NULL}
      BY <1>1 DEF Chained
    <2>3. PICK q \in [R -> Nat] : \A x \in R : old[x] \in R => q[x] < q[old[x]]
      BY <1>1 DEF Chained
    <2>4. \A x \in R : old[x] # x
      BY <2>3
    <2>5. g.old \in (R \ {b}) \cup {NULL} /\ \A x \in R \ {b} : new[x] \in (R \ {b}) \cup {NULL}
      BY <2>1, <2>2, <2>4
    <2>6. ASSUME NEW x \in R \ {b}  PROVE x = g.old \/ \E y \in R \ {b} : new[y] = x
      <3>1. CASE x = h.old
        BY <3>1, <2>1
      <3>2. CASE \E y \in R : old[y] = x
        <4>1. PICK y \in R : old[y] = x
          BY <3>2
        <4>2. CASE y # b
          BY <4>1, <4>2, <2>1
        <4>3. CASE y = b
          <5>1. CASE h.old = b
            BY <5>1, <4>1, <4>3, <2>1
          <5>2. CASE \E z \in R : old[z] = b
            <6>1. PICK z \in R : old[z] = b
              BY <5>2
            <6>2. z # b
              BY <6>1, <2>4
            <6> QED  BY <6>1, <6>2, <4>1, <4>3, <2>1
          <5> QED  BY <5>1, <5>2, <2>2
        <4> QED  BY <4>2, <4>3
      <3> QED  BY <3>1, <3>2, <2>2
    <2> DEFINE p == [x \in R \ {b} |-> q[x]]
    <2>7. p \in [R \ {b} -> Nat] /\ \A x \in R \ {b} : p[x] = q[x] /\ q[x] \in Nat
      BY <2>3
    <2> HIDE DEF p
    <2>8. ASSUME NEW x \in R \ {b}, new[x] \in R \ {b}  PROVE p[x] < p[new[x]]
      <3>1. CASE old[x] # b
        BY <3>1, <2>1, <2>3, <2>7, <2>8
      <3>2. CASE old[x] = b
        <4>1. new[x] = old[b] /\ old[b] \in R
          BY <3>2, <2>1, <2>8
        <4>2. q[x] < q[b] /\ q[b] < q[old[b]] /\ q[x] \in Nat /\ q[b] \in Nat /\ q[old[b]] \in Nat
          BY <3>2, <4>1, <2>3
        <4> QED  BY <4>1, <4>2, <2>7, <2>8
      <3> QED  BY <3>1, <3>2
    <2> QED  BY <2>1, <2>5, <2>6, <2>7, <2>8, <1>2 DEF Chained
  <1>11. \A c \in (R \ {b}) \cup (D \cup {b}) : Tidy(g.pools[c], w, L, c)
    <2>1. \A c \in R \cup D : Tidy(h.pools[c], w, L, c) /\ c \in DOMAIN h.pools
      BY <1>1, <1>2 DEF Ready
    <2>2. ASSUME NEW c \in R \cup D  PROVE Tidy(g.pools[c], w, L, c)
      <3>1. /\ Tidy(h.pools[c], w, L, c) /\ c \in Nat /\ h.pools[c].size \in Nat
            /\ g.pools[c].freelist = h.pools[c].freelist /\ g.pools[c].refs = h.pools[c].refs
            /\ g.pools[c].size = h.pools[c].size
        BY <2>1, <1>7
      <3>2. h.pools[c].size <= g.pools[c].size
        BY <3>1
      <3> QED  BY <3>1, <3>2, <1>1, TidyOf
    <2> QED  BY <2>2
  <1>12. /\ D \cup {b} \subseteq DOMAIN g.pools /\ (R \ {b}) \cap (D \cup {b}) = {}
         /\ g.pool1 = NULL \/ g.pool1 \in DOMAIN g.pools \ ((R \ {b}) \cup (D \cup {b}))
         /\ L \subseteq DOMAIN w
         /\ \A a \in L : a - w[a].next \in (R \ {b}) \cup (D \cup {b})
    BY <1>1, <1>2, <1>5, <1>8 DEF Ready
  <1>13. Ready(g, w, L, R \ {b}, D \cup {b})
    BY <1>1, <1>9, <1>10, <1>11, <1>12 DEF Ready
  <1> QED  BY <1>5, <1>7, <1>8, <1>13

\* retire() as a whole.
LEMMA RetireReady ==
    ASSUME NEW h, NEW w, NEW L, NEW R, NEW D, Ready(h, w, L, R, D), NEW b \in D,
           NEW s, s = Retire(h, w, b)
    PROVE  /\ Ready(s.heap, s.word, L, R \cup {b}, D \ {b})
           /\ SameWords(s.word, w, L)
           /\ s.heap.pool1 = h.pool1 /\ s.heap.class = h.class /\ s.heap.mapped = h.mapped
           /\ DOMAIN s.heap.pools = DOMAIN h.pools
  <1> DEFINE m == h.pools[b]
             tail == RoundUp(m.size, ALIGN)
             g == Listed(h, b)
             a == b + tail
             size == m.len - tail
             S == NodesOf(h, w, b)
             A == In(w, L, b)
  <1>1. s = IF m.len - tail >= 2 * HDR THEN FreelistInsert(g, w, b, a, size) ELSE State(g, w)
    BY DEF Retire, Listed
  <1>2. /\ g = Listed(h, b) /\ m = h.pools[b] /\ S = NodesOf(h, w, b) /\ A = In(w, L, b)
        /\ a = b + tail /\ size = m.len - tail
    OBVIOUS
  <1> HIDE DEF g
  <1>3. /\ Ready(g, w, L, R \cup {b}, D \ {b})
        /\ g.pool1 = h.pool1 /\ g.mapped = h.mapped /\ g.class = h.class
        /\ DOMAIN g.pools = DOMAIN h.pools
        /\ g.pools[b].size = m.len /\ g.pools[b].freelist = m.freelist
    BY <1>2, ReadyListed
  <1>4. NodesOf(g, w, b) = S
    BY <1>3 DEF NodesOf
  <1>5. /\ Shape(h) /\ IsMemory(w) /\ L \subseteq DOMAIN w /\ b \in DOMAIN h.pools
        /\ Sorted(w, m.freelist, S)
        /\ Laid(w, b + MSET, b + m.size, S, A)
        /\ b \in Nat /\ MSET \in Nat /\ m.size \in Nat /\ m.len \in Nat /\ m.size <= m.len
        /\ m.len % PGSIZE = 0 /\ MSET <= m.size /\ b > 0
    BY <1>2, PoolOpened
  <1>6. tail \in Nat /\ m.size <= tail /\ HDR \in Nat \ {0}
    BY <1>5, TailIs, ConstantsAre
  <1> HIDE DEF m, S, A, tail, a, size
  <1>7. CASE m.len - tail >= 2 * HDR
    <2>1. /\ a \in Nat \ {NULL} /\ size \in Nat \ {0} /\ b + MSET <= a /\ a + size <= b + g.pools[b].size
          /\ a \in Nat /\ b + m.size <= a
      BY <1>2, <1>3, <1>5, <1>6, <1>7 DEF NULL
    <2>2. Clear(w, S, A, a, size)
      <3>1. \A x \in S \cup A : x \in DOMAIN w
        BY <1>5 DEF Laid
      <3>2. \A x \in S \cup A : x \in Nat /\ w[x].size \in Nat /\ Length(w, x) \in Nat
        BY <3>1, <1>5, LengthIs
      <3>3. \A x \in S : x + w[x].size <= b + m.size
        BY <1>5 DEF Laid
      <3>4. \A x \in A : x + Length(w, x) <= b + m.size
        BY <1>5 DEF Laid
      <3>5. \A x \in S : x + w[x].size <= a
        BY <3>2, <3>3, <2>1, <1>5
      <3>6. \A x \in A : x + Length(w, x) <= a
        BY <3>2, <3>4, <2>1, <1>5
      <3> QED  BY <3>5, <3>6 DEF Clear
    <2>3. s = FreelistInsert(g, w, b, a, size)
      BY <1>1, <1>7
    <2>4. b \in (R \cup {b}) \cup (D \ {b})
      OBVIOUS
    <2>5. /\ Ready(s.heap, s.word, L, R \cup {b}, D \ {b}) /\ SameWords(s.word, w, L)
          /\ SameRoots(s.heap, g)
      BY <2>1, <2>2, <2>3, <2>4, <1>2, <1>3, <1>4, InsertReady
    <2> QED  BY <2>5, <1>3 DEF SameRoots
  <1>8. CASE ~ (m.len - tail >= 2 * HDR)
    <2>1. s.heap = g /\ s.word = w
      BY <1>1, <1>8 DEF State
    <2>2. SameWords(w, w, L)
      BY <1>5 DEF SameWords
    <2> QED  BY <2>1, <2>2, <1>3
  <1> QED  BY <1>7, <1>8

\* The pages of two pools.
LEMMA ApartPages ==
    ASSUME NEW h, Shape(h), NEW b \in DOMAIN h.pools, NEW c \in DOMAIN h.pools, b # c
    PROVE  Pages(b, h.pools[b].len) \cap Pages(c, h.pools[c].len) = {}
  <1>1. Apart(h.pools, b, c)
    BY DEF Shape
  <1>2. b \in Nat /\ c \in Nat /\ h.pools[b].len \in Nat /\ h.pools[c].len \in Nat
    BY PoolOfShape
  <1> QED  BY <1>1, <1>2 DEF Apart, Pages

\* A pool given back to the kernel.
Dropped(g, h, b) ==
    /\ Formed(g)
    /\ g.mapped = h.mapped \ Pages(b, h.pools[b].len)
    /\ g.pools = Without(h.pools, {b})
    /\ g.class = h.class

\* A heap keeps its shape when a pool goes,
LEMMA ShapeDropped ==
    ASSUME NEW h, Shape(h), NEW b \in DOMAIN h.pools, NEW g, Dropped(g, h, b)
    PROVE  /\ Shape(g)
           /\ DOMAIN g.pools = DOMAIN h.pools \ {b}
           /\ \A x \in DOMAIN g.pools : g.pools[x] = h.pools[x]
  <1>1. /\ DOMAIN g.pools = DOMAIN h.pools \ {b}
        /\ \A x \in DOMAIN g.pools : g.pools[x] = h.pools[x]
        /\ g.pools = [x \in DOMAIN g.pools |-> g.pools[x]]
        /\ g.mapped = h.mapped \ Pages(b, h.pools[b].len) /\ g.class = h.class /\ Formed(g)
    BY DEF Dropped, Without
  <1>2. ASSUME NEW x \in DOMAIN g.pools  PROVE PoolIs(g.mapped, x, g.pools[x])
    <2>1. PoolIs(h.mapped, x, h.pools[x])
      BY <1>1 DEF Shape
    <2>2. Pages(x, h.pools[x].len) \cap Pages(b, h.pools[b].len) = {}
      BY <1>1, ApartPages
    <2>3. Pages(x, h.pools[x].len) \subseteq g.mapped
      BY <1>1, <2>1, <2>2 DEF PoolIs
    <2> QED  BY <1>1, <2>1, <2>3 DEF PoolIs
  <1>3. \A x, y \in DOMAIN g.pools : x # y => Apart(g.pools, x, y)
    BY <1>1 DEF Shape, Apart
  <1>4. /\ DOMAIN g.pools \subseteq Memory /\ g.mapped \subseteq Memory
        /\ g.class \in Nat /\ g.class % PGSIZE = 0
    BY <1>1 DEF Shape
  <1> QED  BY <1>1, <1>2, <1>3, <1>4 DEF Shape, Formed

\* ... and stays in order if nothing was in it.
LEMMA ReadyDropped ==
    ASSUME NEW h, NEW w, NEW L, NEW R, NEW D, Ready(h, w, L, R, D),
           NEW b \in DOMAIN h.pools \ (R \cup D), NEW g, Dropped(g, h, b), g.old = h.old,
           SpareIs(g, R \cup D)
    PROVE  /\ Ready(g, w, L, R, D)
           /\ DOMAIN g.pools = DOMAIN h.pools \ {b}
           /\ \A x \in DOMAIN g.pools : g.pools[x] = h.pools[x]
  <1>1. Shape(h) /\ R \cup D \subseteq DOMAIN h.pools
    BY RetiredIs DEF Ready
  <1>2. /\ Shape(g)
        /\ DOMAIN g.pools = DOMAIN h.pools \ {b}
        /\ \A x \in DOMAIN g.pools : g.pools[x] = h.pools[x]
    BY <1>1, ShapeDropped
  <1>3. Chained(Links(g.pools), g.old, R)
    <2> DEFINE old == Links(h.pools)
               new == Links(g.pools)
    <2>1. \A x \in R : x \in DOMAIN new /\ new[x] = old[x]
      BY <1>1, <1>2 DEF Links
    <2>2. Chained(old, h.old, R)
      BY DEF Ready
    <2> HIDE DEF old, new
    <2>3. /\ NULL \notin R /\ h.old \in R \cup {NULL}
          /\ \A x \in R : new[x] \in R \cup {NULL}
          /\ \A x \in R : x = h.old \/ \E y \in R : new[y] = x
      BY <2>1, <2>2 DEF Chained
    <2>4. \E k \in [R -> Nat] : \A x \in R : new[x] \in R => k[x] < k[new[x]]
      BY <2>1, <2>2 DEF Chained
    <2>5. R \subseteq DOMAIN new
      BY <2>1
    <2>6. Chained(new, h.old, R)
      BY <2>3, <2>4, <2>5 DEF Chained
    <2> QED  BY <2>6 DEF new
  <1>4. \A c \in R \cup D : Tidy(g.pools[c], w, L, c)
    BY <1>1, <1>2 DEF Ready
  <1> QED  BY <1>1, <1>2, <1>3, <1>4 DEF Ready, SpareIs

\* A pool that is empty, taken into use or mapped: b in g, and the others.
Opened(g, h, b, len) ==
    /\ DOMAIN g.pools = DOMAIN h.pools \cup {b}
    /\ g.pools = [x \in DOMAIN g.pools |-> g.pools[x]]
    /\ \A x \in DOMAIN h.pools \ {b} : g.pools[x] = h.pools[x]
    /\ g.pools[b].len = len /\ g.pools[b].size = MSET
    /\ g.pools[b].refs = 0 /\ g.pools[b].freelist = NULL

\* A pool with nothing in it yet joins those that may hold blocks.
LEMMA ReadyOpened ==
    ASSUME NEW h, NEW w, NEW L, NEW R, NEW D, Ready(h, w, L, R, D), NEW b, b \notin R \cup D,
           NEW g, NEW len, Opened(g, h, b, len), Shape(g), g.old = h.old,
           SpareIs(g, R \cup (D \cup {b}))
    PROVE  /\ Ready(g, w, L, R, D \cup {b})
           /\ In(w, L, b) = {}
  <1>1. Shape(h) /\ R \cup D \subseteq DOMAIN h.pools /\ IsMemory(w)
    BY RetiredIs DEF Ready
  <1>2. /\ DOMAIN g.pools = DOMAIN h.pools \cup {b}
        /\ \A x \in R \cup D : g.pools[x] = h.pools[x]
    BY <1>1 DEF Opened
  <1>3. Chained(Links(g.pools), g.old, R)
    <2> DEFINE old == Links(h.pools)
               new == Links(g.pools)
    <2>1. \A x \in R : x \in DOMAIN new /\ new[x] = old[x]
      BY <1>1, <1>2 DEF Links
    <2>2. Chained(old, h.old, R)
      BY DEF Ready
    <2> HIDE DEF old, new
    <2>3. /\ NULL \notin R /\ h.old \in R \cup {NULL}
          /\ \A x \in R : new[x] \in R \cup {NULL}
          /\ \A x \in R : x = h.old \/ \E y \in R : new[y] = x
      BY <2>1, <2>2 DEF Chained
    <2>4. \E k \in [R -> Nat] : \A x \in R : new[x] \in R => k[x] < k[new[x]]
      BY <2>1, <2>2 DEF Chained
    <2>5. R \subseteq DOMAIN new
      BY <2>1
    <2>6. Chained(new, h.old, R)
      BY <2>3, <2>4, <2>5 DEF Chained
    <2> QED  BY <2>6 DEF new
  <1>4. In(w, L, b) = {}
    BY DEF Ready, In
  <1>5. Tidy(g.pools[b], w, L, b)
    <2>1. Sorted(w, NULL, {})
      BY DEF Sorted, NextIs
    <2>2. Laid(w, b + MSET, b + MSET, {}, {})
      BY DEF Laid
    <2>3. Cardinality({}) = 0
      BY FS_EmptySet
    <2>4. g.pools[b].size = MSET /\ g.pools[b].refs = 0 /\ g.pools[b].freelist = NULL
      BY DEF Opened
    <2> QED  BY <2>1, <2>2, <2>3, <2>4, <1>4 DEF Tidy
  <1>6. \A c \in R \cup D : Tidy(g.pools[c], w, L, c)
    BY <1>1, <1>2 DEF Ready
  <1>7. /\ D \cup {b} \subseteq DOMAIN g.pools /\ R \cap (D \cup {b}) = {}
        /\ L \subseteq DOMAIN w
        /\ \A a \in L : a - w[a].next \in R \cup (D \cup {b})
    BY <1>2 DEF Ready
  <1>8. Ready(g, w, L, R, D \cup {b})
    BY <1>1, <1>3, <1>5, <1>6, <1>7 DEF Ready, SpareIs
  <1> QED  BY <1>4, <1>8

\* A pool emptied where it is.
LEMMA EmptiedIs ==
    ASSUME NEW h, Shape(h), NEW b \in DOMAIN h.pools, NEW g, Formed(g),
           g.pools = [h.pools EXCEPT ![b] = Emptied(h.pools[b])],
           g.mapped = h.mapped, g.class = h.class
    PROVE  /\ Shape(g) /\ Opened(g, h, b, h.pools[b].len)
           /\ DOMAIN g.pools = DOMAIN h.pools
  <1> DEFINE m == h.pools[b]
             k == Emptied(m)
  <1>1. PoolIs(h.mapped, b, m) /\ MSET \in Nat /\ MSET <= m.size /\ m.size <= m.len /\ m.size \in Nat
    BY PoolOfShape DEF Shape
  <1>2. /\ m = [len |-> m.len, size |-> m.size, refs |-> m.refs,
                freelist |-> m.freelist, next |-> m.next]
        /\ m.len \in Nat /\ m.next \in Nat
    BY <1>1, PoolIsIs, Zenon
  <1>3. k = [m EXCEPT !.size = MSET, !.refs = 0, !.freelist = NULL]
    BY DEF Emptied
  <1>4. /\ g.pools = [x \in DOMAIN h.pools |-> IF x = b THEN k ELSE h.pools[x]]
        /\ DOMAIN g.pools = DOMAIN h.pools
    BY DEF Shape
  <1>m. m = h.pools[b]
    OBVIOUS
  <1> HIDE DEF m, k
  <1>5. k = [len |-> m.len, size |-> MSET, refs |-> 0, freelist |-> NULL, next |-> m.next]
    <2> DEFINE p == [m EXCEPT !.size = MSET]
               q == [p EXCEPT !.refs = 0]
    <2>1. p = [len |-> m.len, size |-> MSET, refs |-> m.refs,
               freelist |-> m.freelist, next |-> m.next]
      BY <1>2
    <2>2. k = [q EXCEPT !.freelist = NULL]
      BY <1>3
    <2> HIDE DEF p
    <2>3. q = [len |-> m.len, size |-> MSET, refs |-> 0,
               freelist |-> m.freelist, next |-> m.next]
      BY <2>1
    <2> HIDE DEF q
    <2> QED  BY <2>2, <2>3
  <1>6. /\ k.len = m.len /\ k.size = MSET /\ k.refs = 0 /\ k.freelist = NULL
        /\ k \in PoolRec
    BY <1>1, <1>2, <1>5 DEF PoolRec, NULL
  <1>7. PoolIs(h.mapped, b, k)
    BY <1>1, <1>2, <1>6 DEF PoolIs
  <1>8. \A x \in DOMAIN h.pools :
           PoolIs(h.mapped, x, g.pools[x]) /\ g.pools[x].len = h.pools[x].len
    <2>1. \A x \in DOMAIN h.pools : PoolIs(h.mapped, x, h.pools[x])
      BY DEF Shape
    <2> QED  BY <2>1, <1>m, <1>4, <1>6, <1>7
  <1>9. Shape(g)
    <2>1. g.class \in Nat /\ g.class % PGSIZE = 0
      BY DEF Shape
    <2>2. g.pools = [x \in DOMAIN h.pools |-> g.pools[x]]
      BY <1>4
    <2> QED  BY <2>1, <2>2, <1>4, <1>8, ShapeFrom
  <1> QED  BY <1>m, <1>4, <1>6, <1>9 DEF Opened

\* A new mapping made a pool.
LEMMA MappedIs ==
    ASSUME NEW h, Shape(h), NEW len \in Nat, len % PGSIZE = 0, MSET <= len,
           NEW b \in FreeRuns(h, len), NEW g, Formed(g),
           g.pools = With(h.pools, b, [len |-> len, size |-> MSET, refs |-> 0,
                                       freelist |-> NULL, next |-> NULL]),
           g.mapped = h.mapped \cup Pages(b, len), g.class = h.class
    PROVE  Shape(g) /\ Opened(g, h, b, len) /\ b \notin DOMAIN h.pools /\ b # NULL
  <1> DEFINE k == [len |-> len, size |-> MSET, refs |-> 0, freelist |-> NULL, next |-> NULL]
  <1>1. /\ b \in Memory /\ b \in Nat /\ b # NULL
        /\ Pages(b, len) \subseteq Memory /\ Pages(b, len) \cap h.mapped = {}
    BY MemoryIs DEF FreeRuns
  <1>2. MSET \in Nat \ {0}
    BY ConstantsAre
  <1>3. /\ k.len = len /\ k.size = MSET /\ k.refs = 0 /\ k.freelist = NULL /\ k \in PoolRec
    BY <1>2 DEF PoolRec, NULL
  <1>4. /\ DOMAIN g.pools = DOMAIN h.pools \cup {b}
        /\ g.pools = [x \in DOMAIN g.pools |-> g.pools[x]]
        /\ \A x \in DOMAIN h.pools \ {b} : g.pools[x] = h.pools[x]
        /\ g.pools[b] = k
    BY DEF With
  <1> HIDE DEF k
  <1>5. Opened(g, h, b, len)
    BY <1>3, <1>4 DEF Opened
  <1>6. ASSUME NEW c \in DOMAIN h.pools  PROVE c # b /\ (b + len <= c \/ c + h.pools[c].len <= b)
    <2>1. /\ c \in Nat /\ h.pools[c].len \in Nat /\ c % PGSIZE = 0
          /\ Pages(c, h.pools[c].len) \subseteq h.mapped
          /\ c \in Pages(c, h.pools[c].len)
      BY PoolOfShape
    <2>2. b % PGSIZE = 0
      BY <1>1, MemoryIs
    <2>3. c \notin Pages(b, len) /\ b \notin Pages(c, h.pools[c].len)
      <3>1. b \in Pages(b, len)
        <4>1. b < b + len
          BY <1>1, <1>2
        <4> QED  BY <4>1, <2>2, <1>1, PagesAre
      <3> QED  BY <3>1, <2>1, <1>1
    <2>4. c < b \/ b + len <= c
      BY <2>1, <2>3, <1>1, PagesAre
    <2>5. b < c \/ c + h.pools[c].len <= b
      BY <2>1, <2>2, <2>3, <1>1, PagesAre
    <2>6. c # b
      BY <2>3, <2>1
    <2> QED  BY <2>1, <2>4, <2>5, <2>6, <1>1
  <1>7. Shape(g)
    <2>1. \A x \in DOMAIN g.pools : PoolIs(g.mapped, x, g.pools[x])
      <3>1. \A x \in DOMAIN h.pools : PoolIs(h.mapped, x, h.pools[x])
        BY DEF Shape
      <3>2. PoolIs(g.mapped, b, k)
        BY <1>2, <1>3 DEF PoolIs
      <3>3. \A x \in DOMAIN h.pools : PoolIs(g.mapped, x, h.pools[x])
        BY <3>1 DEF PoolIs
      <3> QED  BY <3>2, <3>3, <1>4
    <2>2. \A x, y \in DOMAIN h.pools : x # y => Apart(g.pools, x, y)
      BY <1>4, <1>6 DEF Shape, Apart
    <2>3. \A x \in DOMAIN h.pools : Apart(g.pools, x, b) /\ Apart(g.pools, b, x)
      BY <1>3, <1>4, <1>6 DEF Apart
    <2>4. \A x, y \in DOMAIN g.pools : x # y => Apart(g.pools, x, y)
      BY <2>2, <2>3, <1>4
    <2>5. DOMAIN g.pools \subseteq Memory /\ g.mapped \subseteq Memory
      BY <1>1, <1>4 DEF Shape
    <2>6. g.class \in Nat /\ g.class % PGSIZE = 0
      BY DEF Shape
    <2>7. g = [mapped |-> g.mapped, pools |-> g.pools, pool |-> g.pool, pool1 |-> g.pool1,
               old |-> g.old, class |-> g.class]
      BY DEF Formed
    <2> QED  BY <2>1, <2>4, <2>5, <2>6, <2>7, <1>4 DEF Shape
  <1> QED  BY <1>1, <1>5, <1>6, <1>7

-------------------------------------------------------------------------------
(***************************************************************************)
(* The steps calls are made of.                                            *)
(***************************************************************************)
Current(h) == {h.pool} \ {NULL}

\* What was handed out before stays as it was.
Settled(h, v, w, L, D) ==
    /\ \E R : Ready(h, v, L, R, D)
    /\ SameWords(v, w, L)

LEMMA MunmapIs ==
    ASSUME NEW h, Formed(h), NEW b
    PROVE  /\ Dropped(Munmap(h, b), h, b)
           /\ Munmap(h, b).old = h.old /\ Munmap(h, b).pool1 = h.pool1
           /\ Munmap(h, b).pool = h.pool
  <1> DEFINE g == Munmap(h, b)
  <1>1. g = [h EXCEPT !.mapped = @ \ Pages(b, h.pools[b].len), !.pools = Without(@, {b})]
    BY DEF Munmap
  <1> HIDE DEF g
  <1>2. /\ g = [mapped |-> g.mapped, pools |-> g.pools, pool |-> g.pool, pool1 |-> g.pool1,
                old |-> g.old, class |-> g.class]
        /\ g.mapped = h.mapped \ Pages(b, h.pools[b].len) /\ g.pools = Without(h.pools, {b})
        /\ g.class = h.class /\ g.old = h.old /\ g.pool1 = h.pool1 /\ g.pool = h.pool
    BY <1>1 DEF Formed
  <1> QED  BY <1>2 DEF g, Dropped, Formed

\* Where the blocks of such a heap are.
LEMMA ReadyHomes ==
    ASSUME NEW h, NEW w, NEW L, NEW R, NEW D, Ready(h, w, L, R, D)
    PROVE  /\ Shape(h) /\ R \subseteq DOMAIN h.pools /\ D \subseteq DOMAIN h.pools
           /\ Retired(h) = R /\ NULL \notin R \cup D
           /\ \A a \in L : a - w[a].next \in R \cup D
  <1>1. Shape(h) /\ D \subseteq DOMAIN h.pools /\ \A a \in L : a - w[a].next \in R \cup D
    BY DEF Ready
  <1>2. R \subseteq DOMAIN h.pools /\ Retired(h) = R
    BY <1>1, RetiredIs DEF Ready
  <1>3. NULL \notin DOMAIN h.pools
    BY <1>1, PoolsFinite
  <1> QED  BY <1>1, <1>2, <1>3

\* What is true of any heap in order.
LEMMA ReadyFormed ==
    ASSUME NEW h, NEW w, NEW L, NEW R, NEW D, Ready(h, w, L, R, D)
    PROVE  /\ Formed(h) /\ Shape(h) /\ IsMemory(w) /\ L \subseteq DOMAIN w
           /\ R \cup D \subseteq DOMAIN h.pools /\ R \cap D = {}
           /\ SpareIs(h, R \cup D) /\ NULL \notin R \cup D
           /\ h.class \in Nat /\ h.class % PGSIZE = 0
           /\ SameWords(w, w, L)
           /\ Retired(h) = R
           /\ \A a \in L : a - w[a].next \in R \cup D
  <1>1. Shape(h) /\ IsMemory(w) /\ L \subseteq DOMAIN w /\ R \subseteq DOMAIN h.pools /\ Retired(h) = R
    BY RetiredIs DEF Ready
  <1>2. NULL \notin DOMAIN h.pools
    BY <1>1, PoolsFinite
  <1>3. Formed(h) /\ h.class \in Nat /\ h.class % PGSIZE = 0
    BY <1>1 DEF Shape, Formed
  <1> QED  BY <1>1, <1>2, <1>3 DEF Ready, SpareIs, SameWords

\* The current pool put aside.
LEMMA SetAsideReady ==
    ASSUME NEW h, NEW w, NEW L, NEW R, NEW D, Ready(h, w, L, R, D), NEW b \in D,
           NEW s, s = SetAside(h, w, b)
    PROVE  Settled(s.heap, s.word, w, L, D \ {b})
  <1>1. /\ Formed(h) /\ SpareIs(h, R \cup D) /\ h.class \in Nat /\ h.class % PGSIZE = 0
        /\ SameWords(w, w, L) /\ R \cup D \subseteq DOMAIN h.pools /\ R \cap D = {}
        /\ h.pools[b].refs \in Nat
    <2>1. /\ Formed(h) /\ SpareIs(h, R \cup D) /\ h.class \in Nat /\ h.class % PGSIZE = 0
          /\ SameWords(w, w, L) /\ R \cup D \subseteq DOMAIN h.pools /\ R \cap D = {}
          /\ Shape(h)
      BY ReadyFormed
    <2> QED  BY <2>1, PoolOfShape
  <1>2. CASE h.pools[b].refs > 0
    <2>1. s = Retire(h, w, b)
      BY <1>1, <1>2 DEF SetAside
    <2>2. Ready(s.heap, s.word, L, R \cup {b}, D \ {b}) /\ SameWords(s.word, w, L)
      BY <2>1, RetireReady
    <2> QED  BY <2>2 DEF Settled
  <1>3. CASE h.pools[b].refs = 0
    <2>1. Ready(h, w, L, R, D \ {b})
      BY <1>3, ReadyWithout
    <2>2. CASE h.pool1 = NULL
      <3>1. s.heap = [h EXCEPT !.pool1 = b] /\ s.word = w
        BY <1>1, <1>3, <2>2 DEF SetAside, State
      <3> DEFINE g == s.heap
      <3>2. /\ Formed(g) /\ g.mapped = h.mapped /\ g.pools = h.pools /\ g.old = h.old
            /\ g.class = h.class /\ g.pool1 = b
        BY <3>1, <1>1 DEF Formed
      <3>3. SpareIs(g, R \cup (D \ {b}))
        BY <3>2, <1>1 DEF SpareIs
      <3>4. g.class \in Nat /\ g.class % PGSIZE = 0
        BY <3>2, <1>1
      <3> HIDE DEF g
      <3>5. Ready(g, w, L, R, D \ {b})
        BY <2>1, <3>2, <3>3, <3>4, ReadyRoots
      <3> QED  BY <3>1, <3>5, <1>1 DEF Settled, g
    <2>3. CASE h.pool1 # NULL
      <3>1. s.heap = Munmap(h, b) /\ s.word = w
        BY <1>1, <1>3, <2>3 DEF SetAside, State
      <3> DEFINE g == s.heap
      <3>2. Dropped(g, h, b) /\ g.old = h.old /\ g.pool1 = h.pool1
        BY <3>1, <1>1, MunmapIs
      <3> HIDE DEF g
      <3>3. DOMAIN g.pools = DOMAIN h.pools \ {b}
        BY <3>2 DEF Dropped, Without
      <3>4. SpareIs(g, R \cup (D \ {b})) /\ b \in DOMAIN h.pools \ (R \cup (D \ {b}))
        BY <3>2, <3>3, <1>1 DEF SpareIs
      <3>5. Ready(g, w, L, R, D \ {b})
        BY <2>1, <3>2, <3>4, ReadyDropped
      <3> QED  BY <3>1, <3>5, <1>1 DEF Settled, g
    <2> QED  BY <2>2, <2>3
  <1> QED  BY <1>1, <1>2, <1>3

\* ... by mk_pool().
LEMMA ReplacedReady ==
    ASSUME NEW h, NEW w, NEW L, NEW R, NEW D, Ready(h, w, L, R, D), NEW b \in D,
           NEW s, s = Replaced(h, w, b)
    PROVE  Settled(s.heap, s.word, w, L, D \ {b})
  <1> DEFINE c == h.pool1
             larger == h.pools[b].refs = 0 /\ c # NULL /\ h.pools[b].len > h.pools[c].len
  <1>1. CASE larger
    <2>1. s.heap = [Munmap(h, c) EXCEPT !.pool1 = b] /\ s.word = w
      BY <1>1 DEF Replaced, State
    <2>2. /\ Formed(h) /\ SpareIs(h, R \cup D) /\ SameWords(w, w, L)
          /\ R \cup D \subseteq DOMAIN h.pools /\ R \cap D = {}
      BY ReadyFormed
    <2>3. Ready(h, w, L, R, D \ {b})
      BY <1>1, ReadyWithout
    <2>4. c \in DOMAIN h.pools \ (R \cup (D \ {b})) /\ c # b
      BY <1>1, <2>2 DEF SpareIs
    <2> DEFINE g == s.heap
               f == Munmap(h, c)
    <2>5. Dropped(f, h, c) /\ f.old = h.old
      BY <2>2, MunmapIs
    <2>6. g = [f EXCEPT !.pool1 = b]
      BY <2>1
    <2> HIDE DEF g, f, c
    <2>7. Dropped(g, h, c) /\ g.old = h.old /\ g.pool1 = b
      BY <2>5, <2>6 DEF Dropped, Formed
    <2>8. SpareIs(g, R \cup (D \ {b}))
      BY <2>2, <2>4, <2>7 DEF SpareIs, Dropped, Without
    <2>9. Ready(g, w, L, R, D \ {b})
      BY <2>3, <2>4, <2>7, <2>8, ReadyDropped
    <2> QED  BY <2>1, <2>2, <2>9 DEF Settled, g
  <1>2. CASE ~ larger
    BY <1>2, SetAsideReady DEF Replaced
  <1> QED  BY <1>1, <1>2

\* A pool is made of whole pages and long enough.
LEMMA NewLenIs ==
    ASSUME NEW h, h.class \in Nat, h.class % PGSIZE = 0, NEW want \in Nat
    PROVE  NewLen(h, want) \in Nat /\ want <= NewLen(h, want) /\ NewLen(h, want) % PGSIZE = 0
  <1>1. PGSIZE \in Nat \ {0} /\ MSETLEN_MAX \in Nat
    BY ConstantsAre
  <1>2. /\ RoundUp(want, PGSIZE) \in Nat /\ want <= RoundUp(want, PGSIZE)
        /\ RoundUp(want, PGSIZE) % PGSIZE = 0
    BY <1>1, RoundUpIs
  <1>3. PoolLenFor(h, want) \in Nat /\ want <= PoolLenFor(h, want) /\ PoolLenFor(h, want) % PGSIZE = 0
    <2> DEFINE all == {h.class * k : k \in Doublings}
               longer == {n \in all : n >= want /\ n <= MSETLEN_MAX}
    <2>1. \A n \in all : n \in Nat /\ n % PGSIZE = 0
      <3> SUFFICES ASSUME NEW k \in Doublings  PROVE h.class * k \in Nat /\ (h.class * k) % PGSIZE = 0
        OBVIOUS
      <3>1. k \in Nat
        BY DEF Doublings
      <3>2. PICK j \in Int : h.class = PGSIZE * j
        <4>1. h.class \in Int
          OBVIOUS
        <4> QED  BY <4>1, <1>1, MultipleIsProduct
      <3> DEFINE c == h.class
                 x == c * k
      <3>3. x \in Nat /\ x \in Int
        <4>1. c \in Nat
          OBVIOUS
        <4> HIDE DEF c
        <4> QED  BY <3>1, <4>1
      <3>4. x = PGSIZE * (j * k) /\ j * k \in Int
        <4>1. c = PGSIZE * j
          BY <3>2
        <4> HIDE DEF c
        <4> QED  BY <3>1, <4>1, <1>1
      <3> HIDE DEF x
      <3>5. x % PGSIZE = 0
        BY <3>3, <3>4, <1>1, ProductIsMultiple
      <3> QED  BY <3>3, <3>5 DEF x
    <2>2. PoolLenFor(h, want) = IF longer = {} THEN RoundUp(want, PGSIZE) ELSE Least(longer)
      BY DEF PoolLenFor
    <2>3. \A n \in longer : n \in Nat /\ n >= want /\ n % PGSIZE = 0
      BY <2>1
    <2> HIDE DEF all, longer
    <2>4. longer # {} => Least(longer) \in longer
      BY <2>3, LeastIs
    <2> QED  BY <2>2, <2>3, <2>4, <1>2
  <1> QED  BY <1>2, <1>3 DEF NewLen

\* A pool there is room in for a block that takes `want`, its headers included,
\* and that nothing is in.
Fresh(h, w, L, want) ==
    h.pool # NULL =>
        /\ In(w, L, h.pool) = {}
        /\ h.pools[h.pool].size = MSET /\ h.pools[h.pool].len >= want

\* mk_pool() from where there is no current pool: an empty one, or none.
LEMMA ProvidedReady ==
    ASSUME NEW h, NEW w, NEW L, NEW R, Ready(h, w, L, R, {}), NEW want \in Nat, MSET <= want,
           NEW g, g = Provided(h, want)
    PROVE  Ready(g, w, L, R, Current(g)) /\ Fresh(g, w, L, want)
  <1> DEFINE len == NewLen(h, want)
             runs == FreeRuns(h, len)
             c == h.pool1
  <1>1. /\ Formed(h) /\ Shape(h) /\ SpareIs(h, R) /\ R \subseteq DOMAIN h.pools
        /\ NULL \notin R /\ h.class \in Nat /\ h.class % PGSIZE = 0
    <2>1. R \cup {} = R
      OBVIOUS
    <2>2. /\ Formed(h) /\ Shape(h) /\ SpareIs(h, R \cup {}) /\ R \cup {} \subseteq DOMAIN h.pools
          /\ NULL \notin R \cup {} /\ h.class \in Nat /\ h.class % PGSIZE = 0
      BY ReadyFormed
    <2> QED  BY <2>1, <2>2
  <1>2. len \in Nat /\ want <= len /\ len % PGSIZE = 0 /\ MSET \in Nat
    BY <1>1, NewLenIs, ConstantsAre
  <1>3. CASE c # NULL /\ h.pools[c].len >= want
    <2>1. g = [h EXCEPT !.pool = c, !.pool1 = NULL, !.pools[c] = Emptied(@)]
      BY <1>3 DEF Provided
    <2>2. c \in DOMAIN h.pools \ R /\ c # NULL
      BY <1>1, <1>3 DEF SpareIs
    <2>3. /\ Formed(g) /\ g.mapped = h.mapped /\ g.old = h.old /\ g.class = h.class
          /\ g.pool = c /\ g.pool1 = NULL
          /\ g.pools = [h.pools EXCEPT ![c] = Emptied(h.pools[c])]
      BY <2>1, <1>1 DEF Formed
    <2> HIDE DEF c
    <2>4. Shape(g) /\ Opened(g, h, c, h.pools[c].len)
      BY <2>2, <2>3, <1>1, EmptiedIs
    <2>5. SpareIs(g, R \cup ({} \cup {c}))
      BY <2>3 DEF SpareIs
    <2>6. Ready(g, w, L, R, {} \cup {c}) /\ In(w, L, c) = {}
      BY <2>2, <2>3, <2>4, <2>5, ReadyOpened
    <2>7. Current(g) = {} \cup {c}
      BY <2>2, <2>3 DEF Current
    <2> QED  BY <2>3, <2>4, <2>6, <2>7, <1>3 DEF Fresh, Opened
  <1>4. CASE ~ (c # NULL /\ h.pools[c].len >= want) /\ runs = {}
    <2>1. g = [h EXCEPT !.pool = NULL]
      BY <1>4 DEF Provided
    <2>2. /\ Formed(g) /\ g.mapped = h.mapped /\ g.old = h.old /\ g.class = h.class
          /\ g.pool = NULL /\ g.pool1 = h.pool1 /\ g.pools = h.pools
      BY <2>1, <1>1 DEF Formed
    <2>3. SpareIs(g, R \cup {}) /\ g.class \in Nat /\ g.class % PGSIZE = 0
      BY <2>2, <1>1 DEF SpareIs
    <2>4. Ready(g, w, L, R, {})
      BY <2>2, <2>3, ReadyRoots
    <2> QED  BY <2>2, <2>4 DEF Current, Fresh
  <1>5. CASE ~ (c # NULL /\ h.pools[c].len >= want) /\ runs # {}
    <2> DEFINE b == Least(runs)
               rec == [len |-> len, size |-> MSET, refs |-> 0, freelist |-> NULL, next |-> NULL]
    <2>1. g = [h EXCEPT !.mapped = @ \cup Pages(b, len), !.pool = b, !.pools = With(@, b, rec)]
      BY <1>5 DEF Provided
    <2>2. b \in runs
      <3>1. runs \subseteq Nat
        BY MemoryIs DEF FreeRuns
      <3> HIDE DEF runs
      <3> QED  BY <3>1, <1>5, LeastIs
    <2>3. rec = [len |-> len, size |-> MSET, refs |-> 0, freelist |-> NULL, next |-> NULL]
      OBVIOUS
    <2>4. b \in FreeRuns(h, len)
      BY <2>2
    <2> HIDE DEF b, rec, len, runs, c
    <2>5. /\ Formed(g) /\ g.mapped = h.mapped \cup Pages(b, len) /\ g.old = h.old
          /\ g.class = h.class /\ g.pool = b /\ g.pool1 = h.pool1
          /\ g.pools = With(h.pools, b, rec)
      BY <2>1, <1>1 DEF Formed
    <2>6. Shape(g) /\ Opened(g, h, b, len) /\ b \notin DOMAIN h.pools /\ b # NULL
      BY <2>3, <2>4, <2>5, <1>1, <1>2, MappedIs
    <2>7. SpareIs(g, R \cup ({} \cup {b})) /\ b \notin R \cup {}
      BY <2>5, <2>6, <1>1 DEF SpareIs, Opened
    <2>8. Ready(g, w, L, R, {} \cup {b}) /\ In(w, L, b) = {}
      BY <2>5, <2>6, <2>7, ReadyOpened
    <2>9. Current(g) = {} \cup {b}
      BY <2>5, <2>6 DEF Current
    <2> QED  BY <2>5, <2>6, <2>8, <2>9, <1>2 DEF Fresh, Opened
  <1> QED  BY <1>3, <1>4, <1>5

\* mk_pool() gives an empty pool that is large enough, or none.
LEMMA MkPoolReady ==
    ASSUME NEW h, NEW w, NEW L, NEW R, Ready(h, w, L, R, Current(h)), NEW want \in Nat,
           MSET <= want, NEW s, s = MkPool(h, w, want)
    PROVE  /\ Settled(s.heap, s.word, w, L, Current(s.heap))
           /\ Fresh(s.heap, s.word, L, want)
  <1> DEFINE b == h.pool
  <1>1. /\ Formed(h) /\ SameWords(w, w, L) /\ Current(h) \subseteq DOMAIN h.pools
        /\ R \cap Current(h) = {} /\ SpareIs(h, R \cup Current(h)) /\ Shape(h)
    <2> DEFINE D == Current(h)
    <2>1. Ready(h, w, L, R, D)
      OBVIOUS
    <2> HIDE DEF D
    <2>2. /\ Formed(h) /\ SameWords(w, w, L) /\ R \cup D \subseteq DOMAIN h.pools
          /\ R \cap D = {} /\ SpareIs(h, R \cup D) /\ Shape(h)
      BY ONLY <2>1, ReadyFormed
    <2> QED  BY <2>2 DEF D
  <1>2. CASE b = NULL
    <2>1. s.heap = Provided(h, want) /\ s.word = w
      BY <1>2 DEF MkPool, State
    <2>2. Current(h) = {}
      BY <1>2 DEF Current
    <2>3. Ready(s.heap, w, L, R, Current(s.heap)) /\ Fresh(s.heap, w, L, want)
      BY <2>1, <2>2, ProvidedReady
    <2> QED  BY <2>1, <2>3, <1>1 DEF Settled
  <1>3. CASE b # NULL /\ h.pools[b].refs = 0 /\ h.pools[b].len >= want
    <2>1. s.heap = [h EXCEPT !.pools[b] = Emptied(@)] /\ s.word = w
      BY <1>3 DEF MkPool, State
    <2>2. Current(h) = {b} /\ b \in Current(h)
      BY <1>3 DEF Current
    <2>3. Ready(h, w, L, R, {})
      BY <1>3, <2>2, ReadyWithout
    <2> DEFINE g == s.heap
    <2>4. /\ Formed(g) /\ g.mapped = h.mapped /\ g.old = h.old /\ g.class = h.class
          /\ g.pool = b /\ g.pool1 = h.pool1
          /\ g.pools = [h.pools EXCEPT ![b] = Emptied(h.pools[b])]
      BY <2>1, <1>1 DEF Formed
    <2>5. b \in DOMAIN h.pools /\ b \notin R \cup {}
      BY <2>2, <1>1
    <2>p. g.pool = h.pool /\ b = h.pool /\ b # NULL /\ h.pools[b].len >= want
      BY <1>3, <2>4
    <2> HIDE DEF g, b
    <2>6. Shape(g) /\ Opened(g, h, b, h.pools[b].len) /\ DOMAIN g.pools = DOMAIN h.pools
      BY <2>4, <2>5, <1>1, EmptiedIs
    <2>7. SpareIs(g, R \cup ({} \cup {b}))
      BY <2>2, <2>4, <2>6, <1>1 DEF SpareIs
    <2>8. Ready(g, w, L, R, {} \cup {b}) /\ In(w, L, b) = {}
      BY <2>3, <2>4, <2>5, <2>6, <2>7, ReadyOpened
    <2>9. Current(g) = {} \cup {b}
      BY <2>p DEF Current
    <2>10. Fresh(g, w, L, want)
      BY <2>p, <2>6, <2>8 DEF Fresh, Opened
    <2> QED  BY <2>1, <2>8, <2>9, <2>10, <1>1 DEF Settled, g
  <1>4. CASE b # NULL /\ ~ (h.pools[b].refs = 0 /\ h.pools[b].len >= want)
    <2> DEFINE q == Replaced(h, w, b)
               f == [q.heap EXCEPT !.pool = NULL]
               g == Provided(f, want)
    <2>1. /\ s.heap = (IF g.pool # NULL /\ g.mapped # q.heap.mapped THEN Widened(g) ELSE g)
          /\ s.word = q.word
      BY <1>4 DEF MkPool, State
    <2>2. Current(h) = {b} /\ b \in Current(h) /\ Current(h) \ {b} = {}
      BY <1>4 DEF Current
    <2>3. Settled(q.heap, q.word, w, L, {})
      BY <2>2, ReplacedReady
    <2>4. PICK R2 : Ready(q.heap, q.word, L, R2, {})
      BY <2>3 DEF Settled
    <2>5. SameWords(q.word, w, L)
      BY <2>3 DEF Settled
    <2>6. f = [q.heap EXCEPT !.pool = NULL]
      OBVIOUS
    <2> HIDE DEF q, f
    <2>7. /\ Formed(q.heap) /\ SpareIs(q.heap, R2 \cup {})
          /\ q.heap.class \in Nat /\ q.heap.class % PGSIZE = 0
      BY <2>4, ReadyFormed
    <2>8. /\ Formed(f) /\ f.mapped = q.heap.mapped /\ f.pools = q.heap.pools /\ f.old = q.heap.old
          /\ f.class = q.heap.class /\ f.pool1 = q.heap.pool1
      BY <2>6, <2>7 DEF Formed
    <2>9. SpareIs(f, R2 \cup {}) /\ f.class \in Nat /\ f.class % PGSIZE = 0
      BY <2>7, <2>8 DEF SpareIs
    <2>10. Ready(f, q.word, L, R2, {})
      BY <2>4, <2>8, <2>9, ReadyRoots
    <2>11. Ready(g, q.word, L, R2, Current(g)) /\ Fresh(g, q.word, L, want)
      BY <2>10, ProvidedReady
    <2> HIDE DEF g
    <2> DEFINE e == Widened(g)
    <2>12. /\ Formed(g) /\ SpareIs(g, R2 \cup Current(g)) /\ g.class \in Nat /\ g.class % PGSIZE = 0
      BY <2>11, ReadyFormed
    <2>13. /\ Formed(e) /\ e.mapped = g.mapped /\ e.pools = g.pools /\ e.old = g.old
           /\ e.pool1 = g.pool1 /\ e.pool = g.pool /\ e.class \in {g.class, 2 * g.class}
      <3>1. CASE g.class < MSETLEN_MAX
        <4>1. e = [g EXCEPT !.class = 2 * g.class]
          BY <3>1 DEF Widened
        <4> HIDE DEF e
        <4> QED  BY <4>1, <2>12 DEF Formed
      <3>2. CASE ~ (g.class < MSETLEN_MAX)
        BY <3>2, <2>12 DEF Widened
      <3> QED  BY <3>1, <3>2
    <2> HIDE DEF e
    <2>14. e.class \in Nat /\ e.class % PGSIZE = 0
      <3>1. (g.class + g.class) % PGSIZE = 0
        BY <2>12, WholePages
      <3>2. g.class + g.class = 2 * g.class /\ 2 * g.class \in Nat
        BY <2>12
      <3> QED  BY <3>1, <3>2, <2>12, <2>13
    <2>15. SpareIs(e, R2 \cup Current(g))
      BY <2>12, <2>13 DEF SpareIs
    <2>16. Ready(e, q.word, L, R2, Current(g))
      BY <2>11, <2>13, <2>14, <2>15, ReadyRoots
    <2>17. Current(e) = Current(g) /\ Fresh(e, q.word, L, want)
      BY <2>11, <2>13 DEF Current, Fresh
    <2>18. s.heap \in {e, g}
      BY <2>1 DEF e
    <2> QED  BY <2>1, <2>5, <2>11, <2>16, <2>17, <2>18 DEF Settled
  <1> QED  BY <1>2, <1>3, <1>4

\* There is room in a pool made for the block.
LEMMA FreshRoom ==
    ASSUME NEW h, NEW w, NEW L, NEW n \in Nat, Fresh(h, w, L, Want(n)), h.pool \in Nat \ {NULL},
           h.pools[h.pool].len \in Nat
    PROVE  HasBumpRoom(h, n)
  <1> DEFINE b == h.pool
             len == h.pools[b].len
             a == Skip(b + MSET)
             alloc == AllocSize(n)
  <1>1. h.pools[b].size = MSET /\ len >= alloc + MSET + ALIGN
    BY DEF Fresh, Want
  <1>2. MSET \in Nat /\ LONG \in Nat /\ ALIGN \in Nat /\ LONG <= ALIGN /\ alloc \in Nat
    BY ConstantsAre, AllocSizeIs
  <1>3. a \in Nat /\ a <= (b + MSET) + LONG
    <2>1. b + MSET \in Nat
      BY <1>2
    <2> QED  BY <2>1, SkipIs
  <1>4. HasBumpRoom(h, n) <=> a + alloc <= b + len
    BY <1>1 DEF HasBumpRoom
  <1>5. b \in Nat /\ len \in Nat
    OBVIOUS
  <1> HIDE DEF a, alloc, len, b
  <1> QED  BY <1>1, <1>2, <1>3, <1>4, <1>5

\* The promotion of a retired pool.
LEMMA PromotedReady ==
    ASSUME NEW h, NEW w, NEW L, NEW R, Ready(h, w, L, R, Current(h)), h.pool # NULL,
           NEW b \in R, NEW n \in Nat, Fitting(h, w, b, AllocSize(n)) # {},
           NEW a, a = Least(Fitting(h, w, b, AllocSize(n))), NEW s, s = Promoted(h, w, b, n)
    PROVE  /\ \E R2 : Ready(s.heap, s.word, L \cup {a}, R2, Current(s.heap))
           /\ Gave(s.word, w, L, a, b, n)
           /\ s.heap.pool = b
  <1> DEFINE D == Current(h)
             K == L \cup {a}
             t == TakeBlock(h, w, b, a, n)
             u == Unlisted(t.heap, b)
             q == SetAside(u, t.word, h.pool)
  <1>1. s.heap = [q.heap EXCEPT !.pool = b] /\ s.word = q.word
    BY DEF Promoted, State
  <1>2. a \in Fitting(h, w, b, AllocSize(n))
    <2>1. IsMemory(w) /\ Tidy(h.pools[b], w, L, b)
      BY DEF Ready
    <2>2. NodesOf(h, w, b) \subseteq Nat
      BY <2>1, TidyIs DEF Sorted, IsMemory
    <2> DEFINE fits == Fitting(h, w, b, AllocSize(n))
    <2>3. fits \subseteq Nat /\ fits # {} /\ a = Least(fits)
      BY <2>2 DEF Fitting
    <2> HIDE DEF fits
    <2>4. a \in fits
      BY <2>3, LeastIs
    <2> QED  BY <2>4 DEF fits
  <1>3. t = TakeBlock(h, w, b, a, n) /\ b \in R \cup D /\ R \cap D = {} /\ NULL \notin R
    <2> HIDE DEF D
    <2>1. D = Current(h)
      BY DEF D
    <2>2. Ready(h, w, L, R, D)
      BY <2>1
    <2>3. R \cap D = {} /\ NULL \notin R \cup D
      BY <2>2, ReadyFormed
    <2> QED  BY <2>3
  <1>4. u = Unlisted(t.heap, b) /\ q = SetAside(u, t.word, h.pool)
    OBVIOUS
  <1>5. D = {h.pool} /\ (D \cup {b}) \ {h.pool} = {b} /\ h.pool \in D \cup {b} /\ b # NULL
    BY <1>3 DEF Current
  <1>k. D = Current(h) /\ K = L \cup {a}
    OBVIOUS
  <1> HIDE DEF t, u, q, D, K
  <1>6. Ready(t.heap, t.word, K, R, D) /\ Gave(t.word, w, L, a, b, n)
    BY <1>2, <1>3, <1>k, TakeReady
  <1>7. Ready(u, t.word, K, R \ {b}, D \cup {b})
    BY <1>4, <1>6, ReadyUnlisted
  <1>8. Settled(q.heap, q.word, t.word, K, {b})
    BY <1>4, <1>5, <1>7, SetAsideReady
  <1>9. PICK R2 : Ready(q.heap, q.word, K, R2, {b})
    BY <1>8 DEF Settled
  <1>10. /\ Formed(q.heap) /\ SpareIs(q.heap, R2 \cup {b})
         /\ q.heap.class \in Nat /\ q.heap.class % PGSIZE = 0
         /\ K \subseteq DOMAIN q.word
    <2> DEFINE x == q.heap
               v == q.word
               E == {b}
    <2>1. Ready(x, v, K, R2, E)
      BY <1>9
    <2> HIDE DEF x, v, E
    <2>2. /\ Formed(x) /\ SpareIs(x, R2 \cup E) /\ x.class \in Nat /\ x.class % PGSIZE = 0
          /\ K \subseteq DOMAIN v
      BY <2>1, ReadyFormed
    <2> QED  BY <2>2 DEF x, v, E
  <1> DEFINE g == s.heap
  <1>11. /\ Formed(g) /\ g.mapped = q.heap.mapped /\ g.pools = q.heap.pools /\ g.old = q.heap.old
         /\ g.class = q.heap.class /\ g.pool1 = q.heap.pool1 /\ g.pool = b
    BY <1>1, <1>10 DEF Formed
  <1> HIDE DEF g
  <1>12. SpareIs(g, R2 \cup {b}) /\ g.class \in Nat /\ g.class % PGSIZE = 0
    BY <1>10, <1>11 DEF SpareIs
  <1>13. Ready(g, q.word, K, R2, {b})
    BY <1>9, <1>11, <1>12, ReadyRoots
  <1>14. Current(g) = {b}
    BY <1>5, <1>11 DEF Current
  <1>15. Gave(q.word, w, L, a, b, n)
    BY <1>6, <1>8, <1>10, <1>k DEF Gave, Settled, SameWords
  <1> QED  BY <1>1, <1>11, <1>13, <1>14, <1>15, <1>k DEF g

\* The block at a freed.
LEMMA FreedReady ==
    ASSUME NEW h, NEW w, NEW L, NEW R, NEW D, D = Current(h), Ready(h, w, L, R, D),
           NEW a \in L, NEW s, s = Freed(h, w, a), NEW K, K = L \ {a}
    PROVE  Settled(s.heap, s.word, w, K, Current(s.heap)) /\ s.heap.pool = h.pool
  <1> DEFINE b == a - w[a].next
             m == h.pools[b]
             A == In(w, L, b)
             S == NodesOf(h, w, b)
             left == [h EXCEPT !.pools[b].refs = @ - 1]
             k == [m EXCEPT !.refs = @ - 1]
             u == Unlisted(left, b)
             size == Length(w, a)
  <1>0. /\ m = h.pools[b] /\ A = In(w, L, b) /\ S = NodesOf(h, w, b)
        /\ left = [h EXCEPT !.pools[b].refs = @ - 1] /\ k = [m EXCEPT !.refs = @ - 1]
        /\ u = Unlisted(left, b) /\ size = Length(w, a)
    OBVIOUS
  <1>1. b \in R \cup D /\ a \in A
    BY DEF Ready, In
  <1>2. s = IF left.pools[b].refs = 0 /\ b # h.pool
              THEN State(IF h.pool1 = NULL THEN [u EXCEPT !.pool1 = b] ELSE Munmap(u, b), w)
              ELSE FreelistInsert(left, w, b, a, size)
    BY DEF Freed, Length
  <1> HIDE DEF b, m, A, S, left, k, u, size
  <1>3. /\ Shape(h) /\ IsMemory(w) /\ L \subseteq DOMAIN w /\ b \in DOMAIN h.pools
        /\ Sorted(w, m.freelist, S)
        /\ Laid(w, b + MSET, b + m.size, S, A)
        /\ m.refs = Cardinality(A) /\ IsFiniteSet(A) /\ m.refs \in Nat
        /\ PoolIs(h.mapped, b, m)
    BY <1>0, <1>1, PoolOpened
  <1>4. Cardinality(A \ {a}) = m.refs - 1 /\ m.refs \in Nat \ {0}
    BY <1>1, <1>3, MemberLess
  <1>5. m = [len |-> m.len, size |-> m.size, refs |-> m.refs,
             freelist |-> m.freelist, next |-> m.next]
    BY <1>3, PoolIsIs, Zenon
  <1>6. k = [len |-> m.len, size |-> m.size, refs |-> m.refs - 1,
             freelist |-> m.freelist, next |-> m.next]
    BY <1>0, <1>5
  <1>7. /\ k.len = m.len /\ k.size = m.size /\ k.refs = m.refs - 1 /\ k.freelist = m.freelist
        /\ k.next = m.next /\ PoolIs(h.mapped, b, k)
    <2>1. m \in PoolRec
      BY <1>3 DEF PoolIs
    <2>2. k \in PoolRec /\ k.len = m.len /\ k.size = m.size /\ k.refs = m.refs - 1
          /\ k.freelist = m.freelist /\ k.next = m.next
      BY <2>1, <1>4, <1>6 DEF PoolRec
    <2> QED  BY <2>2, <1>3 DEF PoolIs
  <1>8. Repooled(left, h, b, k)
    <2>1. /\ h = [mapped |-> h.mapped, pools |-> h.pools, pool |-> h.pool, pool1 |-> h.pool1,
                  old |-> h.old, class |-> h.class]
          /\ h.pools = [x \in DOMAIN h.pools |-> h.pools[x]]
      BY <1>3 DEF Shape
    <2>2. left.pools = [x \in DOMAIN h.pools |-> IF x = b THEN k ELSE h.pools[x]]
      BY <2>1, <1>0, <1>3
    <2>3. left = [mapped |-> h.mapped, pools |-> left.pools, pool |-> h.pool, pool1 |-> h.pool1,
                  old |-> h.old, class |-> h.class]
      BY <2>1, <1>0
    <2> QED  BY <2>2, <2>3 DEF Repooled
  <1>9. In(w, K, b) = A \ {a}
    BY <1>0 DEF In
  <1>10. Tidy(k, w, K, b)
    <2>1. Laid(w, b + MSET, b + k.size, S, A \ {a})
      BY <1>3, <1>7 DEF Laid
    <2> QED  BY <2>1, <1>3, <1>4, <1>7, <1>9 DEF Tidy
  <1>11. OnlyIn(b, w, w, L, K) /\ SameSpan(h, b, k)
         /\ SameWords(w, w, Outside(w, b, b + h.pools[b].len)) /\ SameWords(w, w, K)
    BY <1>0, <1>3, <1>7 DEF OnlyIn, SameSpan, SameWords, Outside, b
  <1>12. /\ Ready(left, w, K, R, D)
         /\ left.pool = h.pool /\ left.pool1 = h.pool1 /\ left.pools[b] = k
    BY <1>1, <1>3, <1>8, <1>10, <1>11, ReadyAfter
  <1>13. CASE left.pools[b].refs = 0 /\ b # h.pool
    <2>1. b \in R /\ b \notin D
      BY <1>1, <1>13 DEF Current
    <2>2. /\ Ready(u, w, K, R \ {b}, D \cup {b})
          /\ u.pool = left.pool /\ u.pool1 = left.pool1
          /\ u.pools[b].refs = left.pools[b].refs
      <3>1. b \in DOMAIN left.pools
        BY <1>3, <1>8 DEF Repooled
      <3>2. u = Unlisted(left, b) /\ Ready(left, w, K, R, D)
        BY <1>0, <1>12
      <3>3. /\ Ready(u, w, K, R \ {b}, D \cup {b})
            /\ u.pool = left.pool /\ u.pool1 = left.pool1
            /\ \A x \in DOMAIN left.pools : u.pools[x].refs = left.pools[x].refs
        BY ONLY <2>1, <3>2, ReadyUnlisted
      <3> QED  BY <3>1, <3>3
    <2>3. s = SetAside(u, w, b)
      BY <1>2, <1>12, <1>13, <2>2 DEF SetAside
    <2> DEFINE E == D \cup {b}
    <2>4. b \in E /\ E \ {b} = D
      BY <2>1
    <2>5. Ready(u, w, K, R \ {b}, E)
      BY <2>2
    <2> HIDE DEF E
    <2>6. Settled(s.heap, s.word, w, K, E \ {b})
      BY <2>3, <2>4, <2>5, SetAsideReady
    <2>7. s.heap.pool = u.pool
      <3>1. Formed(u)
        BY <2>5, ReadyFormed
      <3>2. CASE h.pool1 = NULL
        <4>1. s.heap = [u EXCEPT !.pool1 = b]
          BY <1>2, <1>13, <3>2 DEF State
        <4> QED  BY <4>1, <3>1 DEF Formed
      <3>3. CASE h.pool1 # NULL
        <4>1. s.heap = Munmap(u, b)
          BY <1>2, <1>13, <3>3 DEF State
        <4> QED  BY <4>1, <3>1, MunmapIs
      <3> QED  BY <3>2, <3>3
    <2> QED  BY <2>2, <2>4, <2>6, <2>7, <1>12 DEF Current
  <1>14. CASE ~ (left.pools[b].refs = 0 /\ b # h.pool)
    <2>1. s = FreelistInsert(left, w, b, a, size)
      BY <1>2, <1>14
    <2>2. a \in Nat \ {NULL} /\ size \in Nat \ {0}
      BY <1>0, <1>3, LengthIs
    <2>3. b + MSET <= a /\ a + size <= b + left.pools[b].size
      BY <1>0, <1>1, <1>3, <1>7, <1>12 DEF Laid
    <2>4. Clear(w, NodesOf(left, w, b), In(w, K, b), a, size)
      <3>1. NodesOf(left, w, b) = S
        BY <1>0, <1>7, <1>12 DEF NodesOf
      <3>2. \A x \in S : x + w[x].size <= a \/ a + size <= x
        BY <1>0, <1>1, <1>3 DEF Laid
      <3>3. ASSUME NEW x \in A \ {a}  PROVE x + Length(w, x) <= a \/ a + size <= x
        <4>1. x \in Nat /\ a \in Nat
          BY <1>1, <1>3, LengthIs DEF Laid
        <4>2. x < a \/ a < x
          BY <4>1
        <4> QED  BY <4>2, <1>0, <1>1, <1>3 DEF Laid
      <3> QED  BY <3>1, <3>2, <3>3, <1>9 DEF Clear
    <2>5. Ready(s.heap, s.word, K, R, D) /\ SameWords(s.word, w, K) /\ SameRoots(s.heap, left)
      BY <2>1, <2>2, <2>3, <2>4, <1>1, <1>12, InsertReady
    <2>6. s.heap.pool = h.pool
      BY <2>5, <1>12 DEF SameRoots
    <2> QED  BY <2>5, <2>6 DEF Settled, Current
  <1> QED  BY <1>13, <1>14

\* __malloc_vfork_save() gives the spare back.
LEMMA TrimmedReady ==
    ASSUME NEW h, NEW w, NEW L, NEW R, NEW D, Ready(h, w, L, R, D), NEW g, g = Trimmed(h)
    PROVE  /\ Ready(g, w, L, R, D)
           /\ g.pool1 = NULL /\ g.pool = h.pool /\ g.old = h.old
           /\ \A b \in R \cup D : b \in DOMAIN g.pools /\ g.pools[b] = h.pools[b]
  <1>1. /\ Formed(h) /\ SpareIs(h, R \cup D) /\ R \cup D \subseteq DOMAIN h.pools
    BY ReadyFormed
  <1>2. CASE h.pool1 = NULL
    BY <1>1, <1>2 DEF Trimmed
  <1>3. CASE h.pool1 # NULL
    <2> DEFINE c == h.pool1
               f == Munmap(h, c)
    <2>1. g = [f EXCEPT !.pool1 = NULL]
      BY <1>3 DEF Trimmed
    <2>2. c \in DOMAIN h.pools \ (R \cup D)
      BY <1>1, <1>3 DEF SpareIs
    <2>3. Dropped(f, h, c) /\ f.old = h.old /\ f.pool = h.pool
      BY <1>1, MunmapIs
    <2> HIDE DEF c, f
    <2>4. Dropped(g, h, c) /\ g.old = h.old /\ g.pool1 = NULL /\ g.pool = h.pool
      BY <2>1, <2>3 DEF Dropped, Formed
    <2>5. SpareIs(g, R \cup D)
      BY <2>4 DEF SpareIs
    <2>6. /\ Ready(g, w, L, R, D)
          /\ DOMAIN g.pools = DOMAIN h.pools \ {c}
          /\ \A x \in DOMAIN g.pools : g.pools[x] = h.pools[x]
      <3>1. Ready(h, w, L, R, D)
        OBVIOUS
      <3> QED  BY ONLY <3>1, <2>2, <2>4, <2>5, ReadyDropped, SMTT(120)
    <2> QED  BY <2>2, <2>4, <2>6, <1>1
  <1> QED  BY <1>2, <1>3

\* The headers of the blocks.
Heads(held) == {p - HDR : p \in held}

\* What can no longer be read is not missed.
LEMMA KeptReady ==
    ASSUME NEW h, NEW w, NEW L, NEW R, NEW D, D = Current(h), Ready(h, w, L, R, D),
           NEW held, L = Heads(held), NEW head, NEW v, v = Kept(h, w, held, head)
    PROVE  Ready(h, v, L, R, D) /\ SameWords(v, w, L)
  <1> DEFINE X == {x \in DOMAIN w \cap Reachable(h, w, held, head) :
                     (x - (x % PGSIZE)) \in h.mapped}
  <1>1. v = [a \in X |-> w[a]]
    BY DEF Kept
  <1>2. /\ Shape(h) /\ IsMemory(w) /\ L \subseteq DOMAIN w
        /\ R \cup D \subseteq DOMAIN h.pools /\ NULL \notin R \cup D /\ Retired(h) = R
        /\ \A a \in L : a - w[a].next \in R \cup D
    <2>1. Ready(h, w, L, R, D)
      OBVIOUS
    <2> QED  BY ONLY <2>1, ReadyFormed
  <1>3. Serving(h) = D \cup R /\ Serving(h) \cap DOMAIN h.pools = R \cup D
    BY <1>2 DEF Serving, Current
  <1>4. ASSUME NEW b \in R \cup D, NEW x \in NodesOf(h, w, b) \cup In(w, L, b)
        PROVE  x \in X
    <2>1. b \in DOMAIN h.pools /\ Tidy(h.pools[b], w, L, b)
      BY <1>2 DEF Ready
    <2>2. /\ x \in DOMAIN w /\ x \in Nat /\ x < b + h.pools[b].len /\ b <= x
      BY <1>2, <2>1, TidyWithin
    <2>3. /\ b \in Nat /\ b % PGSIZE = 0 /\ h.pools[b].len \in Nat
          /\ Pages(b, h.pools[b].len) \subseteq h.mapped
      BY <1>2, <2>1, PoolOfShape
    <2>4. x - (x % PGSIZE) \in h.mapped
      BY <2>2, <2>3, PageIn
    <2>5. x \in Reachable(h, w, held, head)
      BY <1>3 DEF Reachable, Heads, In
    <2> QED  BY <2>2, <2>4, <2>5
  <1>5. X \subseteq DOMAIN w
    OBVIOUS
  <1> HIDE DEF X
  <1>6. IsMemory(v)
    <2>1. IsFiniteSet(X)
      BY <1>2, <1>5, FS_Subset DEF IsMemory
    <2> QED  BY <2>1, <1>1, <1>2, <1>5 DEF IsMemory
  <1>7. \A a \in L : a \in X
    BY <1>2, <1>4 DEF In
  <1>8. SameWords(v, w, L) /\ L \subseteq DOMAIN v
    BY <1>1, <1>7 DEF SameWords
  <1>9. ASSUME NEW b \in R \cup D  PROVE Tidy(h.pools[b], v, L, b)
    <2>1. In(v, L, b) = In(w, L, b)
      BY <1>8 DEF In, SameWords
    <2>2. SameWords(v, w, Met(Links(w), h.pools[b].freelist) \cup In(w, L, b))
      BY <1>1, <1>4 DEF SameWords, NodesOf
    <2>3. Tidy(h.pools[b], w, L, b)
      BY DEF Ready
    <2> QED  BY <2>1, <2>2, <2>3, <1>2, <1>6, TidyKept
  <1>10. \A a \in L : a - v[a].next \in R \cup D
    BY <1>2, <1>8 DEF SameWords
  <1> QED  BY <1>6, <1>8, <1>9, <1>10 DEF Ready

-------------------------------------------------------------------------------
(***************************************************************************)
(* The invariant.                                                          *)
(***************************************************************************)
BlocksOf(bl, who) == {p \in DOMAIN bl : bl[p].owner = who}

BlocksAre(bl) ==
    /\ bl = [p \in DOMAIN bl |-> bl[p]]
    /\ \A p \in DOMAIN bl :
          p \in Int /\ bl[p].owner \in {"parent", "child"} /\ bl[p].size \in Nat

Sized(w, bl) == \A p \in DOMAIN bl : w[p - HDR].size = bl[p].size

\* The heap is in order and the blocks held are those the programs know of.
Held(h, w, bl) ==
    /\ \E R : Ready(h, w, Heads(DOMAIN bl), R, Current(h))
    /\ Sized(w, bl)

\* What is put aside still describes the parent's blocks in the pool that was
\* the current one; the child's current pool is that one, or none of theirs.
Lent(h, w, P, sv) ==
    /\ sv.pool1 = NULL
    /\ sv.refs = Cardinality(In(w, P, sv.pool))
    /\ \A a \in In(w, P, sv.pool) : a + Length(w, a) <= sv.pool + sv.size
    /\ h.pool # sv.pool => In(w, P, h.pool) = {}

Theirs(bl) == Heads(BlocksOf(bl, "parent"))

Buffered(ob, bl) == ob \in {Lazy, NULL} \cup BlocksOf(bl, "parent")

Inv ==
    /\ running \in {"parent", "child", "resumed"}
    /\ BlocksAre(blocks)
    /\ Buffered(obuf, blocks)
    /\ running = "parent" => BlocksOf(blocks, "parent") = DOMAIN blocks
    /\ running # "parent" => obuf # Lazy
    /\ running = "child" => Lent(heap, word, Theirs(blocks), saved)
    /\ running # "resumed" => Held(heap, word, blocks)
    /\ running = "resumed" => ParentBlocksKept /\ ResumedCounts

\* A block in use or on the list of a pool, and where it lies.
LEMMA SoundHeld ==
    ASSUME BlocksAre(blocks), Held(heap, word, blocks)
    PROVE  Sound
  <1> DEFINE L == Heads(DOMAIN blocks)
             D == Current(heap)
  <1>1. PICK R : Ready(heap, word, L, R, D)
    BY DEF Held
  <1>2. Sized(word, blocks)
    BY DEF Held
  <1>l. D = Current(heap) /\ L = Heads(DOMAIN blocks)
    OBVIOUS
  <1> HIDE DEF L, D
  <1>3. /\ Shape(heap) /\ IsMemory(word) /\ L \subseteq DOMAIN word
        /\ R \cup D \subseteq DOMAIN heap.pools /\ Retired(heap) = R
    BY ONLY <1>1, ReadyFormed
  <1>4. Serving(heap) = D \cup R
    BY <1>3, <1>l DEF Serving, Current
  <1>5. SUFFICES ASSUME NEW b \in R \cup D  PROVE b \in DOMAIN heap.pools /\ SoundPool(b)
    BY <1>4 DEF Sound
  <1> DEFINE m == heap.pools[b]
             S == NodesOf(heap, word, b)
             A == In(word, L, b)
             X == LiveIn(b)
  <1>6. m = heap.pools[b] /\ S = NodesOf(heap, word, b) /\ A = In(word, L, b) /\ X = LiveIn(b)
    OBVIOUS
  <1> HIDE DEF m, S, A, X
  <1>7. b \in DOMAIN heap.pools /\ Tidy(m, word, L, b)
    BY <1>1, <1>3, <1>6 DEF Ready
  <1>8. Sorted(word, m.freelist, S) /\ Laid(word, b + MSET, b + m.size, S, A)
    BY <1>3, <1>6, <1>7, TidyIs
  <1>9. /\ Pages(b, m.len) \subseteq heap.mapped /\ m.size <= m.len
        /\ b \in Nat /\ m.size \in Nat /\ MSET \in Nat
    BY <1>3, <1>6, <1>7, PoolOfShape
  <1>10. \A x \in S \cup A : x \in Nat /\ word[x].size \in Nat /\ Length(word, x) \in Nat \ {0}
    BY <1>3, <1>8, LengthIs DEF Laid
  <1>11. ASSUME NEW p \in X
         PROVE  /\ p \in DOMAIN blocks /\ p - HDR \in A /\ p \in Int /\ HDR \in Int
                /\ AllocSize(blocks[p].size) = Length(word, p - HDR)
    <2>1. p \in DOMAIN blocks /\ p - HDR - word[p - HDR].next = b
      BY <1>6 DEF LiveIn, PoolOf
    <2>2. p - HDR \in A
      BY <2>1, <1>6, <1>l DEF In, Heads
    <2>3. p \in Int /\ HDR \in Int
      BY <2>1, ConstantsAre DEF BlocksAre
    <2> QED  BY <2>1, <2>2, <2>3, <1>2 DEF Sized, Length
  <1>12. m.freelist \in S \cup {NULL}
    BY <1>8 DEF Sorted, NextIs
  <1>13. \A a \in S : word[a].next # NULL => word[a].next \in S /\ a + word[a].size < word[a].next
    BY <1>8 DEF Sorted, NextIs, Laid
  <1>14. \A x \in S : x \notin A
    <2> SUFFICES ASSUME NEW x \in S, x \in A  PROVE FALSE
      OBVIOUS
    <2>1. word[x].size # 0 /\ (x + word[x].size <= x \/ x + Length(word, x) <= x)
      BY <1>8 DEF Laid
    <2> QED  BY <2>1, <1>10
  <1>15. X \cap {a + HDR : a \in S} = {}
    <2> SUFFICES ASSUME NEW a \in S, a + HDR \in X  PROVE FALSE
      OBVIOUS
    <2>1. (a + HDR) - HDR = a
      BY <1>10, ConstantsAre
    <2> QED  BY <2>1, <1>11, <1>14
  <1> DEFINE E == Extents(b)
             Lies(e) == \/ e[1] \in A /\ e[2] = Length(word, e[1])
                        \/ e[1] \in S /\ e[2] = word[e[1]].size
  <1>16. ASSUME NEW e \in E  PROVE Lies(e) /\ e = <<e[1], e[2]>>
    <2>1. e \in {<<p - HDR, AllocSize(blocks[p].size)>> : p \in X} \cup {<<a, word[a].size>> : a \in S}
      BY <1>6 DEF Extents
    <2>2. CASE e \in {<<p - HDR, AllocSize(blocks[p].size)>> : p \in X}
      BY <2>2, <1>11
    <2>3. CASE e \in {<<a, word[a].size>> : a \in S}
      BY <2>3
    <2> QED  BY <2>1, <2>2, <2>3
  <1> HIDE DEF E
  <1>17. ASSUME NEW e \in E
         PROVE  b + MSET <= e[1] /\ e[1] + e[2] <= b + m.size
    BY <1>8, <1>16 DEF Laid
  <1>18. ASSUME NEW e \in E, NEW f \in E \ {e}
         PROVE  e[1] + e[2] <= f[1] \/ f[1] + f[2] <= e[1]
    <2>1. Lies(e) /\ Lies(f) /\ e = <<e[1], e[2]>> /\ f = <<f[1], f[2]>> /\ e # f
      BY <1>16
    <2>2. CASE e[1] \in A /\ e[2] = Length(word, e[1]) /\ f[1] \in A /\ f[2] = Length(word, f[1])
      <3>1. e[1] # f[1]
        BY <2>1, <2>2
      <3>2. e[1] < f[1] \/ f[1] < e[1]
        BY <2>2, <3>1, <1>10
      <3> QED  BY <2>2, <3>2, <1>8 DEF Laid
    <2>3. CASE e[1] \in S /\ e[2] = word[e[1]].size /\ f[1] \in S /\ f[2] = word[f[1]].size
      <3>1. e[1] # f[1]
        BY <2>1, <2>3
      <3>2. e[1] < f[1] \/ f[1] < e[1]
        BY <2>3, <3>1, <1>10
      <3>3. e[1] + e[2] < f[1] \/ f[1] + f[2] < e[1]
        BY <2>3, <3>2, <1>8 DEF Laid
      <3> QED  BY <2>3, <3>3, <1>10
    <2>4. CASE e[1] \in A /\ e[2] = Length(word, e[1]) /\ f[1] \in S /\ f[2] = word[f[1]].size
      BY <2>4, <1>8 DEF Laid
    <2>5. CASE e[1] \in S /\ e[2] = word[e[1]].size /\ f[1] \in A /\ f[2] = Length(word, f[1])
      BY <2>5, <1>8 DEF Laid
    <2> QED  BY <2>1, <2>2, <2>3, <2>4, <2>5
  <1>19. SoundPool(b)
    BY <1>6, <1>9, <1>12, <1>13, <1>15, <1>17, <1>18 DEF SoundPool, E
  <1> QED  BY <1>7, <1>19

\* The parent's blocks lie in pools that are there.
LEMMA KeptHeld ==
    ASSUME BlocksAre(blocks), Held(heap, word, blocks), NEW p \in DOMAIN blocks
    PROVE  /\ p - HDR \in DOMAIN word
           /\ word[p - HDR].size = blocks[p].size
           /\ PoolOf(p) \in DOMAIN heap.pools
           /\ p + blocks[p].size <= PoolOf(p) + heap.pools[PoolOf(p)].len
  <1> DEFINE L == Heads(DOMAIN blocks)
             D == Current(heap)
             a == p - HDR
             b == PoolOf(p)
  <1>1. PICK R : Ready(heap, word, L, R, D)
    BY DEF Held
  <1>2. word[a].size = blocks[p].size /\ a \in L /\ b = a - word[a].next
    BY DEF Held, Sized, Heads, PoolOf
  <1> HIDE DEF L, D
  <1>3. /\ Shape(heap) /\ IsMemory(word) /\ L \subseteq DOMAIN word
        /\ R \cup D \subseteq DOMAIN heap.pools
        /\ \A x \in L : x - word[x].next \in R \cup D
    BY ONLY <1>1, ReadyFormed
  <1>4. a \in In(word, L, b) /\ b \in R \cup D /\ Tidy(heap.pools[b], word, L, b)
    BY <1>1, <1>2, <1>3 DEF In, Ready
  <1>5. p \in Int /\ blocks[p].size \in Nat /\ HDR \in Nat
    BY ConstantsAre DEF BlocksAre
  <1>p. p = a + HDR
    BY <1>5
  <1> HIDE DEF a, b
  <1>6. a \in DOMAIN word /\ a \in Nat /\ a + Length(word, a) <= b + heap.pools[b].size
    BY <1>3, <1>4, TidyWithin
  <1>7. /\ b \in Nat /\ heap.pools[b].size \in Nat /\ heap.pools[b].len \in Nat
        /\ heap.pools[b].size <= heap.pools[b].len
    BY <1>3, <1>4, PoolOfShape
  <1>8. Length(word, a) \in Nat /\ blocks[p].size + HDR <= Length(word, a)
    BY <1>2, <1>5, AllocSizeIs DEF Length
  <1>9. p + blocks[p].size <= b + heap.pools[b].len
    BY <1>p, <1>5, <1>6, <1>7, <1>8
  <1> QED  BY <1>2, <1>3, <1>4, <1>6, <1>9 DEF a, b

-------------------------------------------------------------------------------
(***************************************************************************)
(* The steps preserve it.                                                  *)
(***************************************************************************)

\* What is put aside is not touched by the child.
LEMMA LentKept ==
    ASSUME NEW h, NEW w, NEW P, NEW sv, Lent(h, w, P, sv), NEW g, NEW v, SameWords(v, w, P),
           g.pool = h.pool \/ In(w, P, g.pool) = {}
    PROVE  Lent(g, v, P, sv)
  <1>1. \A b : In(v, P, b) = In(w, P, b)
    BY DEF In, SameWords
  <1>2. \A a \in P : Length(v, a) = Length(w, a)
    BY DEF Length, SameWords
  <1>3. \A a \in In(w, P, sv.pool) : a + Length(v, a) <= sv.pool + sv.size
    BY <1>2 DEF Lent, In
  <1>4. g.pool # sv.pool => In(v, P, g.pool) = {}
    BY <1>1 DEF Lent
  <1>5. sv.pool1 = NULL /\ sv.refs = Cardinality(In(v, P, sv.pool))
    BY <1>1 DEF Lent
  <1> QED  BY <1>1, <1>3, <1>4, <1>5 DEF Lent

LEMMA HeadsOf ==
    ASSUME NEW bl, BlocksAre(bl), NEW p \in DOMAIN bl
    PROVE  /\ p - HDR \in Heads(DOMAIN bl) /\ p - HDR + HDR = p
           /\ Heads(DOMAIN bl \ {p}) = Heads(DOMAIN bl) \ {p - HDR}
           /\ Theirs(bl) \subseteq Heads(DOMAIN bl)
  <1>1. \A q \in DOMAIN bl : q \in Int
    BY DEF BlocksAre
  <1>2. HDR \in Int
    BY ConstantsAre
  <1>3. \A q \in DOMAIN bl : q - HDR = p - HDR => q = p
    BY <1>1, <1>2
  <1> QED  BY <1>1, <1>2, <1>3 DEF Heads, Theirs, BlocksOf

\* malloc() gives the block at a.
LEMMA GivenOut ==
    ASSUME Inv, NEW n \in Nat, NEW user, Asks(n, user),
           NEW s, NEW a, Returns(s, a, n, user),
           NEW L, L = Heads(DOMAIN blocks), NEW b, Gave(s.word, word, L, a, b, n),
           NEW R, Ready(s.heap, s.word, L \cup {a}, R, Current(s.heap)),
           running = "parent" \/ s.heap.pool = heap.pool \/ In(word, L, s.heap.pool) = {}
    PROVE  Inv'
  <1> DEFINE p == a + HDR
             rec == [owner |-> running, size |-> n]
             K == L \cup {a}
  <1>1. /\ heap' = s.heap
        /\ blocks' = With(blocks, p, rec)
        /\ word' = Kept(heap', s.word, DOMAIN blocks', saved.freelist)
        /\ obuf' = (IF user = "program" THEN obuf ELSE p)
        /\ saved' = saved /\ running' = running
    BY DEF Returns, Gives
  <1>2. /\ running \in {"parent", "child"} /\ BlocksAre(blocks) /\ Buffered(obuf, blocks)
        /\ running = "parent" => BlocksOf(blocks, "parent") = DOMAIN blocks
        /\ running = "child" => obuf # Lazy /\ Lent(heap, word, Theirs(blocks), saved)
        /\ Sized(word, blocks)
        /\ user # "program" => running = "parent"
    BY DEF Inv, Asks, Held
  <1>3. a \in Nat /\ a \notin L /\ HDR \in Nat /\ p \in Int /\ p - HDR = a
    BY ConstantsAre DEF Gave
  <1>r. rec.owner = running /\ rec.size = n
    OBVIOUS
  <1>k. K = L \cup {a} /\ a \in K
    OBVIOUS
  <1> HIDE DEF p, rec, K
  <1>4. p \notin DOMAIN blocks
    BY <1>3 DEF Heads
  <1>5. /\ DOMAIN blocks' = DOMAIN blocks \cup {p} /\ blocks'[p] = rec
        /\ \A q \in DOMAIN blocks : blocks'[q] = blocks[q]
        /\ blocks' = [q \in DOMAIN blocks' |-> blocks'[q]]
    BY <1>1, <1>4 DEF With
  <1>6. Heads(DOMAIN blocks') = K
    BY <1>3, <1>5, <1>k DEF Heads
  <1>7. Ready(heap', word', K, R, Current(heap')) /\ SameWords(word', s.word, K)
    <2> DEFINE h == heap'
               v == word'
               D == Current(h)
               held == DOMAIN blocks'
               head == saved.freelist
               w == s.word
    <2>1. Ready(h, w, K, R, D) /\ K = Heads(held) /\ D = Current(h)
      BY <1>1, <1>6, <1>k
    <2>2. v = Kept(h, w, held, head)
      BY <1>1
    <2> HIDE DEF h, v, D, held, head, w
    <2>3. Ready(h, v, K, R, D) /\ SameWords(v, w, K)
      BY ONLY <2>1, <2>2, KeptReady
    <2> QED  BY <2>3 DEF h, v, D, w
  <1>8. SameWords(word', word, L) /\ word'[a].size = n
    BY <1>7, <1>k DEF Gave, SameWords
  <1>9. Held(heap', word', blocks')
    <2>1. ASSUME NEW q \in DOMAIN blocks  PROVE word'[q - HDR].size = blocks'[q].size
      BY <1>2, <1>5, <1>8 DEF Sized, SameWords, Heads
    <2>2. word'[p - HDR].size = blocks'[p].size
      BY <1>3, <1>5, <1>8, <1>r
    <2>3. Sized(word', blocks')
      BY <2>1, <2>2, <1>5 DEF Sized
    <2> QED  BY <2>3, <1>6, <1>7 DEF Held
  <1>10. BlocksAre(blocks')
    <2>1. ASSUME NEW q \in DOMAIN blocks'
          PROVE  q \in Int /\ blocks'[q].owner \in {"parent", "child"} /\ blocks'[q].size \in Nat
      <3>1. CASE q = p
        BY <3>1, <1>2, <1>3, <1>5, <1>r
      <3>2. CASE q \in DOMAIN blocks
        BY <3>2, <1>2, <1>5 DEF BlocksAre
      <3> QED  BY <3>1, <3>2, <1>5
    <2> QED  BY <2>1, <1>5 DEF BlocksAre
  <1>11. /\ BlocksOf(blocks, "parent") \subseteq BlocksOf(blocks', "parent")
         /\ running = "parent" => BlocksOf(blocks', "parent") = DOMAIN blocks'
         /\ running = "child" => BlocksOf(blocks', "parent") = BlocksOf(blocks, "parent")
    BY <1>2, <1>4, <1>5, <1>r DEF BlocksOf
  <1>12. Buffered(obuf', blocks')
    <2>1. CASE user = "program"
      BY <2>1, <1>1, <1>2, <1>11 DEF Buffered
    <2>2. CASE user # "program"
      BY <2>2, <1>1, <1>2, <1>5, <1>11 DEF Buffered
    <2> QED  BY <2>1, <2>2
  <1>13. running = "child" => obuf' # Lazy /\ Lent(heap', word', Theirs(blocks'), saved')
    <2> SUFFICES ASSUME running = "child"  PROVE obuf' # Lazy /\ Lent(heap', word', Theirs(blocks'), saved')
      OBVIOUS
    <2>1. obuf' # Lazy
      BY <1>1, <1>2
    <2> DEFINE P == Theirs(blocks)
               g == heap'
               v == word'
    <2>2. P \subseteq L
      BY DEF Theirs, BlocksOf, Heads
    <2>3. SameWords(v, word, P)
      BY <2>2, <1>8 DEF SameWords
    <2>4. g.pool = heap.pool \/ In(word, P, g.pool) = {}
      BY <2>2, <1>1 DEF In
    <2>5. Lent(heap, word, P, saved)
      BY <1>2
    <2> HIDE DEF P, g, v
    <2>6. Lent(g, v, P, saved)
      BY ONLY <2>3, <2>4, <2>5, LentKept
    <2>7. Theirs(blocks') = P
      BY <1>11 DEF Theirs, P
    <2> QED  BY <2>1, <2>6, <2>7, <1>1 DEF g, v
  <1>14. running' = running
    BY <1>1
  <1> QED  BY <1>2, <1>9, <1>10, <1>11, <1>12, <1>13, <1>14 DEF Inv

LEMMA CallsAre ==
    ASSUME NEW c \in Calls
    PROVE  c[1] \in Nat
  <1>1. STDERR_BUFSIZ \in Nat /\ Sizes \subseteq Nat
    BY ConstantsAre
  <1>2. CASE c \in Sizes \X {"program"}
    BY <1>1, <1>2
  <1>3. CASE c = <<STDERR_BUFSIZ, "stderr">>
    BY <1>1, <1>3
  <1> QED  BY <1>2, <1>3 DEF Calls

LEMMA LeastFitting ==
    ASSUME NEW h, NEW w, NEW L, NEW R, NEW D, Ready(h, w, L, R, D), NEW b \in R \cup D,
           NEW alloc, NEW F, F = Fitting(h, w, b, alloc), F # {}
    PROVE  Least(F) \in F
  <1>1. IsMemory(w) /\ Tidy(h.pools[b], w, L, b)
    BY DEF Ready
  <1>2. NodesOf(h, w, b) \subseteq Nat
    BY <1>1, TidyIs DEF Sorted, IsMemory
  <1>3. F \subseteq Nat
    BY <1>2 DEF Fitting
  <1> QED  BY <1>3, LeastIs

\* The heap as the invariant has it.
LEMMA InvHeld ==
    ASSUME Inv, running # "resumed", NEW L, L = Heads(DOMAIN blocks), NEW D, D = Current(heap)
    PROVE  \E R : /\ Ready(heap, word, L, R, D)
                  /\ heap.pool # NULL => heap.pool \in R \cup D
  BY DEF Inv, Held, Current

\* malloc() from the free list of the current pool.
LEMMA ListedKeeps ==
    ASSUME Inv, NEW c \in Calls, MallocListed(c[1], c[2])
    PROVE  Inv'
  <1> DEFINE n == c[1]
             user == c[2]
             L == Heads(DOMAIN blocks)
             D == Current(heap)
             b == heap.pool
             F == Fitting(heap, word, b, AllocSize(n))
             a == Least(F)
             s == TakeBlock(heap, word, b, a, n)
  <1>1. /\ Asks(n, user) /\ b # NULL /\ F # {} /\ Returns(s, a, n, user)
    BY DEF MallocListed
  <1>2. n \in Nat /\ running # "resumed"
    BY <1>1, CallsAre DEF Asks
  <1>3. PICK R : Ready(heap, word, L, R, D) /\ b \in R \cup D
    BY <1>1, <1>2, InvHeld
  <1>4. /\ L = Heads(DOMAIN blocks) /\ D = Current(heap) /\ b = heap.pool
        /\ F = Fitting(heap, word, b, AllocSize(n)) /\ s = TakeBlock(heap, word, b, a, n)
        /\ a = Least(F)
    OBVIOUS
  <1> HIDE DEF n, user, L, D, b, F, a, s
  <1>5. a \in Fitting(heap, word, b, AllocSize(n))
    <2>1. Least(F) \in F
      BY ONLY <1>1, <1>3, <1>4, LeastFitting
    <2> QED  BY <2>1, <1>4
  <1>6. /\ Ready(s.heap, s.word, L \cup {a}, R, D) /\ Gave(s.word, word, L, a, b, n)
        /\ SameRoots(s.heap, heap)
    BY ONLY <1>2, <1>3, <1>4, <1>5, TakeReady
  <1>7. s.heap.pool = heap.pool /\ Ready(s.heap, s.word, L \cup {a}, R, Current(s.heap))
    BY <1>4, <1>6 DEF SameRoots, Current
  <1> QED  BY <1>1, <1>2, <1>4, <1>6, <1>7, GivenOut

\* ... from its bump room.
LEMMA BumpKeeps ==
    ASSUME Inv, NEW c \in Calls, MallocBump(c[1], c[2])
    PROVE  Inv'
  <1> DEFINE n == c[1]
             user == c[2]
             L == Heads(DOMAIN blocks)
             D == Current(heap)
             a == Skip(heap.pool + heap.pools[heap.pool].size)
             s == Bump(heap, word, n)
  <1>1. /\ Asks(n, user) /\ heap.pool # NULL /\ HasBumpRoom(heap, n) /\ Returns(s, a, n, user)
    BY DEF MallocBump, NotListed
  <1>2. n \in Nat /\ running # "resumed"
    BY <1>1, CallsAre DEF Asks
  <1>3. PICK R : Ready(heap, word, L, R, D) /\ heap.pool \in R \cup D
    BY <1>1, <1>2, InvHeld
  <1>4. /\ L = Heads(DOMAIN blocks) /\ D = Current(heap)
        /\ s = Bump(heap, word, n) /\ a = Skip(heap.pool + heap.pools[heap.pool].size)
    OBVIOUS
  <1> HIDE DEF n, user, L, D, a, s
  <1>5. /\ Ready(s.heap, s.word, L \cup {a}, R, D) /\ Gave(s.word, word, L, a, heap.pool, n)
        /\ SameRoots(s.heap, heap)
    BY ONLY <1>1, <1>2, <1>3, <1>4, BumpReady
  <1>6. s.heap.pool = heap.pool /\ Ready(s.heap, s.word, L \cup {a}, R, Current(s.heap))
    BY <1>4, <1>5 DEF SameRoots, Current
  <1> QED  BY <1>1, <1>2, <1>4, <1>5, <1>6, GivenOut

\* ... from a retired pool, in the parent alone.
LEMMA PromoteKeeps ==
    ASSUME Inv, NEW c \in Calls, MallocPromote(c[1], c[2])
    PROVE  Inv'
  <1> DEFINE n == c[1]
             user == c[2]
             L == Heads(DOMAIN blocks)
             D == Current(heap)
             some == Promotable(heap, word, AllocSize(n))
             i == Least(some)
             b == OldPools(heap)[i]
             F == Fitting(heap, word, b, AllocSize(n))
             a == Least(F)
             s == Promoted(heap, word, b, n)
  <1>1. /\ Asks(n, user) /\ heap.pool # NULL /\ some # {} /\ Returns(s, a, n, user)
    BY DEF MallocPromote, NotListed
  <1>2. n \in Nat /\ running # "resumed"
    BY <1>1, CallsAre DEF Asks
  <1>3. PICK R : Ready(heap, word, L, R, D)
    BY <1>2, InvHeld
  <1>4. running = "parent" /\ some = {j \in DOMAIN OldPools(heap) :
           /\ OldPools(heap)[j] \in Retired(heap)
           /\ Fitting(heap, word, OldPools(heap)[j], AllocSize(n)) # {}}
    <2>1. ~ InWindow /\ running \in {"parent", "child", "resumed"}
      BY <1>1 DEF Promotable, Inv
    <2> QED  BY <2>1, <1>2 DEF InWindow, Promotable
  <1>5. Retired(heap) = R /\ DOMAIN OldPools(heap) \subseteq Nat
    <2>1. Shape(heap) /\ Chained(Links(heap.pools), heap.old, R)
      BY <1>3 DEF Ready
    <2> QED  BY <2>1, RetiredIs
  <1>6. i \in some
    <2>1. some \subseteq Nat
      BY <1>4, <1>5
    <2> HIDE DEF some
    <2> QED  BY <2>1, <1>1, LeastIs
  <1>7. b \in R /\ F # {}
    BY <1>4, <1>5, <1>6
  <1>8. /\ L = Heads(DOMAIN blocks) /\ D = Current(heap)
        /\ F = Fitting(heap, word, b, AllocSize(n)) /\ s = Promoted(heap, word, b, n)
        /\ a = Least(F)
    OBVIOUS
  <1> HIDE DEF n, user, L, D, some, i, b, F, a, s
  <1>9. /\ \E R2 : Ready(s.heap, s.word, L \cup {a}, R2, Current(s.heap))
        /\ Gave(s.word, word, L, a, b, n)
    <2>1. Ready(heap, word, L, R, Current(heap)) /\ a = Least(Fitting(heap, word, b, AllocSize(n)))
          /\ Fitting(heap, word, b, AllocSize(n)) # {}
      BY <1>3, <1>7, <1>8
    <2> QED  BY ONLY <2>1, <1>1, <1>2, <1>7, <1>8, PromotedReady
  <1>10. PICK R2 : Ready(s.heap, s.word, L \cup {a}, R2, Current(s.heap))
    BY <1>9
  <1> QED  BY <1>1, <1>2, <1>4, <1>8, <1>9, <1>10, GivenOut

\* A call that gives no block, or takes one back.
LEMMA NoneGiven ==
    ASSUME Inv, running # "resumed", running' = running, saved' = saved,
           NEW K, K = Heads(DOMAIN blocks'), K \subseteq Heads(DOMAIN blocks),
           running = "child" => Theirs(blocks) \subseteq K,
           BlocksOf(blocks', "parent") = IF running = "parent" THEN DOMAIN blocks'
                                         ELSE BlocksOf(blocks, "parent"),
           BlocksAre(blocks'), \A p \in DOMAIN blocks' : p \in DOMAIN blocks /\ blocks'[p] = blocks[p],
           NEW w, Settled(heap', w, word, K, Current(heap')),
           word' = Kept(heap', w, DOMAIN blocks', saved.freelist),
           Buffered(obuf', blocks'), running = "child" => obuf' # Lazy,
           heap'.pool = heap.pool \/ In(word, K, heap'.pool) = {}
    PROVE  Inv'
  <1> DEFINE h == heap'
             v == word'
             D == Current(h)
             held == DOMAIN blocks'
             head == saved.freelist
  <1>1. PICK R : Ready(h, w, K, R, D)
    BY DEF Settled
  <1>2. /\ SameWords(w, word, K) /\ v = Kept(h, w, held, head) /\ K = Heads(held) /\ D = Current(h)
    BY DEF Settled
  <1> HIDE DEF h, v, D, held, head
  <1>3. Ready(h, v, K, R, D) /\ SameWords(v, w, K)
    BY ONLY <1>1, <1>2, KeptReady
  <1>4. SameWords(v, word, K)
    BY <1>2, <1>3 DEF SameWords
  <1>5. Held(h, v, blocks')
    <2>1. Sized(word, blocks)
      BY DEF Inv, Held
    <2>2. Sized(v, blocks')
      BY <2>1, <1>2, <1>4 DEF Sized, SameWords, Heads, held
    <2> QED  BY <2>2, <1>2, <1>3 DEF Held, held
  <1>6. running = "child" => Lent(h, v, Theirs(blocks'), saved)
    <2> SUFFICES ASSUME running = "child"  PROVE Lent(h, v, Theirs(blocks'), saved)
      OBVIOUS
    <2> DEFINE P == Theirs(blocks)
    <2>1. Lent(heap, word, P, saved) /\ Theirs(blocks') = P /\ P \subseteq K
      BY DEF Inv, Theirs
    <2> HIDE DEF P
    <2>2. SameWords(v, word, P)
      BY <2>1, <1>4 DEF SameWords
    <2>3. h.pool = heap.pool \/ In(word, P, h.pool) = {}
      BY <2>1 DEF In, h
    <2>4. Lent(h, v, P, saved)
      BY ONLY <2>1, <2>2, <2>3, LentKept
    <2> QED  BY <2>1, <2>4
  <1>7. running \in {"parent", "child"}
    BY DEF Inv
  <1> QED  BY <1>5, <1>6, <1>7 DEF Inv, h, v

\* ... from the pool mk_pool() gives: in the window none of the parent's is in it.
LEMMA NewPoolKeeps ==
    ASSUME Inv, NEW c \in Calls, MallocNewPool(c[1], c[2])
    PROVE  Inv'
  <1> DEFINE n == c[1]
             user == c[2]
             L == Heads(DOMAIN blocks)
             D == Current(heap)
             want == Want(n)
             m == MkPool(heap, word, want)
             a == Skip(m.heap.pool + m.heap.pools[m.heap.pool].size)
             s == Bump(m.heap, m.word, n)
  <1>1. /\ Asks(n, user) /\ running # "resumed"
        /\ m.heap.pool # NULL => Returns(s, a, n, user)
        /\ m.heap.pool = NULL => /\ heap' = m.heap
                                 /\ word' = Kept(heap', m.word, DOMAIN blocks, saved.freelist)
                                 /\ Gives(NULL, user)
                                 /\ UNCHANGED <<blocks, saved, running>>
    BY DEF MallocNewPool, Asks
  <1>2. n \in Nat
    BY CallsAre
  <1>3. PICK R : Ready(heap, word, L, R, D)
    BY <1>1, InvHeld
  <1>4. want \in Nat /\ MSET <= want
    BY <1>2, AllocSizeIs, ConstantsAre DEF Want
  <1>5. /\ L = Heads(DOMAIN blocks) /\ D = Current(heap) /\ m = MkPool(heap, word, want)
        /\ s = Bump(m.heap, m.word, n) /\ want = Want(n)
        /\ a = Skip(m.heap.pool + m.heap.pools[m.heap.pool].size)
    OBVIOUS
  <1> HIDE DEF n, user, L, D, want, m, a, s
  <1>6. Settled(m.heap, m.word, word, L, Current(m.heap)) /\ Fresh(m.heap, m.word, L, want)
    <2>1. Ready(heap, word, L, R, Current(heap))
      BY <1>3, <1>5
    <2> QED  BY ONLY <2>1, <1>4, <1>5, MkPoolReady
  <1>7. PICK R2 : Ready(m.heap, m.word, L, R2, Current(m.heap))
    BY <1>6 DEF Settled
  <1>8. SameWords(m.word, word, L)
    BY <1>6 DEF Settled
  <1>9. In(m.word, L, m.heap.pool) = In(word, L, m.heap.pool)
    BY <1>8 DEF In, SameWords
  <1>10. CASE m.heap.pool # NULL
    <2> DEFINE h == m.heap
               w == m.word
               b == h.pool
               E == Current(h)
    <2>1. Ready(h, w, L, R2, E) /\ b \in E /\ b \in R2 \cup E /\ b = h.pool
      BY <1>7, <1>10 DEF Current
    <2>2. s = Bump(h, w, n) /\ a = Skip(h.pool + h.pools[h.pool].size) /\ E = Current(h)
          /\ Fresh(h, w, L, Want(n))
      BY <1>5, <1>6
    <2> HIDE DEF h, w, b, E
    <2>3. Shape(h) /\ R2 \cup E \subseteq DOMAIN h.pools
      BY ONLY <2>1, ReadyFormed
    <2>4. b \in Nat \ {NULL} /\ h.pools[b].len \in Nat
      BY <2>1, <2>3, PoolOfShape
    <2>5. HasBumpRoom(h, n)
      BY <1>2, <2>1, <2>2, <2>4, FreshRoom
    <2>6. /\ Ready(s.heap, s.word, L \cup {a}, R2, E) /\ Gave(s.word, w, L, a, h.pool, n)
          /\ SameRoots(s.heap, h)
      BY ONLY <1>2, <2>1, <2>2, <2>5, BumpReady
    <2>7. Gave(s.word, word, L, a, h.pool, n)
      BY <2>6, <1>8 DEF Gave, SameWords, w
    <2>8. s.heap.pool = h.pool /\ Ready(s.heap, s.word, L \cup {a}, R2, Current(s.heap))
      BY <2>2, <2>6 DEF SameRoots, Current
    <2>9. In(word, L, s.heap.pool) = {}
      BY <2>2, <2>8, <1>9, <1>10 DEF Fresh, h, w
    <2> QED  BY <1>1, <1>2, <1>5, <1>10, <2>7, <2>8, <2>9, GivenOut
  <1>11. CASE m.heap.pool = NULL
    <2>1. /\ heap' = m.heap /\ word' = Kept(heap', m.word, DOMAIN blocks', saved.freelist)
          /\ Gives(NULL, user) /\ blocks' = blocks /\ saved' = saved /\ running' = running
      BY <1>1, <1>11
    <2>2. /\ BlocksAre(blocks) /\ Buffered(obuf, blocks)
          /\ running = "parent" => BlocksOf(blocks, "parent") = DOMAIN blocks
          /\ running # "parent" => obuf # Lazy
      BY DEF Inv
    <2>3. Theirs(blocks) \subseteq L
      BY <1>5 DEF Theirs, BlocksOf, Heads
    <2>4. Buffered(obuf', blocks') /\ (running = "child" => obuf' # Lazy)
      BY <2>1, <2>2 DEF Gives, Buffered, Lazy, NULL
    <2>5. In(word, L, heap'.pool) = {}
      <3>1. NULL \notin R2 \cup Current(m.heap) /\ \A x \in L : x - m.word[x].next \in R2 \cup Current(m.heap)
        <4> DEFINE h == m.heap
                   w == m.word
                   E == Current(h)
        <4>1. Ready(h, w, L, R2, E)
          BY <1>7
        <4> HIDE DEF h, w, E
        <4>2. NULL \notin R2 \cup E /\ \A x \in L : x - w[x].next \in R2 \cup E
          BY ONLY <4>1, ReadyHomes
        <4> QED  BY <4>2 DEF h, w, E
      <3>2. In(m.word, L, NULL) = {}
        BY <3>1 DEF In
      <3> QED  BY <2>1, <3>2, <1>9, <1>11
    <2>6. Settled(heap', m.word, word, L, Current(heap'))
      BY <2>1, <1>6
    <2> QED  BY <2>1, <2>2, <2>3, <2>4, <2>5, <2>6, <1>1, <1>5, NoneGiven
  <1> QED  BY <1>10, <1>11

\* free() of a block of whoever runs.
LEMMA FreeKeeps ==
    ASSUME Inv, NEW p \in DOMAIN blocks, Free(p)
    PROVE  Inv'
  <1> DEFINE L == Heads(DOMAIN blocks)
             D == Current(heap)
             a == p - HDR
             K == L \ {a}
             s == Freed(heap, word, a)
  <1>1. /\ blocks[p].owner = running /\ p # obuf
        /\ heap' = s.heap
        /\ blocks' = Without(blocks, {p})
        /\ word' = Kept(heap', s.word, DOMAIN blocks', saved.freelist)
        /\ saved' = saved /\ running' = running /\ obuf' = obuf
    BY DEF Free
  <1>2. /\ BlocksAre(blocks) /\ Buffered(obuf, blocks)
        /\ running = "parent" => BlocksOf(blocks, "parent") = DOMAIN blocks
        /\ running # "parent" => obuf # Lazy
    BY DEF Inv
  <1>3. running # "resumed"
    BY <1>1, <1>2 DEF BlocksAre
  <1>4. PICK R : Ready(heap, word, L, R, D)
    BY <1>3, InvHeld
  <1>5. /\ L = Heads(DOMAIN blocks) /\ D = Current(heap) /\ K = L \ {a}
        /\ s = Freed(heap, word, a) /\ a = p - HDR
    OBVIOUS
  <1> HIDE DEF L, D, a, K, s
  <1>6. a \in L /\ Heads(DOMAIN blocks \ {p}) = K /\ Theirs(blocks) \subseteq L
    BY <1>2, <1>5, HeadsOf
  <1>7. Settled(s.heap, s.word, word, K, Current(s.heap)) /\ s.heap.pool = heap.pool
    BY ONLY <1>4, <1>5, <1>6, FreedReady
  <1>8. /\ DOMAIN blocks' = DOMAIN blocks \ {p}
        /\ blocks' = [q \in DOMAIN blocks' |-> blocks'[q]]
        /\ \A q \in DOMAIN blocks' : q \in DOMAIN blocks /\ blocks'[q] = blocks[q]
    BY <1>1 DEF Without
  <1>9. BlocksAre(blocks')
    BY <1>2, <1>8 DEF BlocksAre
  <1>10. BlocksOf(blocks', "parent") = IF running = "parent" THEN DOMAIN blocks'
                                       ELSE BlocksOf(blocks, "parent")
    BY <1>1, <1>2, <1>8 DEF BlocksOf
  <1>11. Buffered(obuf', blocks')
    BY <1>1, <1>2, <1>8 DEF Buffered, BlocksOf
  <1>12. Theirs(blocks') \subseteq K
    BY <1>6, <1>8 DEF Theirs, BlocksOf, Heads
  <1>13. running = "child" => Theirs(blocks) \subseteq K
    BY <1>10, <1>12 DEF Theirs
  <1> QED  BY <1>1, <1>2, <1>3, <1>5, <1>6, <1>7, <1>8, <1>9, <1>10, <1>11, <1>13, NoneGiven

\* What is saved describes the parent's blocks.
LEMMA VforkKeeps ==
    ASSUME Inv, Vfork
    PROVE  Inv'
  <1> DEFINE L == Heads(DOMAIN blocks)
             D == Current(heap)
             g == heap'
             v == word'
             b == heap.pool
  <1>1. /\ running = "parent" /\ obuf # Lazy /\ running' = "child"
        /\ g = Trimmed(heap) /\ v = Kept(g, word, DOMAIN blocks, NULL)
        /\ saved'.pool = heap.pool /\ saved'.pool1 = NULL
        /\ b # NULL => saved'.size = heap.pools[b].size /\ saved'.refs = heap.pools[b].refs
        /\ b = NULL => saved'.size = 0 /\ saved'.refs = 0
        /\ blocks' = blocks /\ obuf' = obuf
    BY DEF Vfork, Prepared
  <1>2. /\ BlocksAre(blocks) /\ Buffered(obuf, blocks)
        /\ BlocksOf(blocks, "parent") = DOMAIN blocks /\ Sized(word, blocks)
    BY <1>1 DEF Inv, Held
  <1>3. PICK R : Ready(heap, word, L, R, D) /\ (b # NULL => b \in R \cup D)
    BY <1>1, InvHeld
  <1>4. L = Heads(DOMAIN blocks) /\ D = Current(heap) /\ b = heap.pool
    OBVIOUS
  <1> HIDE DEF L, D, g, v, b
  <1>5. /\ Ready(g, word, L, R, D) /\ g.pool = heap.pool
    BY ONLY <1>1, <1>3, TrimmedReady
  <1>6. Ready(g, v, L, R, D) /\ SameWords(v, word, L) /\ D = Current(g)
    <2> DEFINE held == DOMAIN blocks
               head == NULL
    <2>1. D = Current(g) /\ L = Heads(held) /\ v = Kept(g, word, held, head)
      BY <1>1, <1>4, <1>5 DEF Current
    <2> HIDE DEF held, head
    <2>2. Ready(g, v, L, R, D) /\ SameWords(v, word, L)
      BY ONLY <1>5, <2>1, KeptReady
    <2> QED  BY <2>1, <2>2
  <1>7. Held(g, v, blocks')
    <2>1. Sized(v, blocks')
      BY <1>1, <1>2, <1>4, <1>6 DEF Sized, SameWords, Heads
    <2>2. L = Heads(DOMAIN blocks')
      BY <1>1, <1>4
    <2> QED  BY <1>6, <2>1, <2>2 DEF Held
  <1>8. \A x : In(v, L, x) = In(word, L, x)
    BY <1>6 DEF In, SameWords
  <1>9. Theirs(blocks') = L
    BY <1>1, <1>2, <1>4 DEF Theirs
  <1>10. /\ saved'.refs = Cardinality(In(v, L, b))
         /\ \A a \in In(v, L, b) : a + Length(v, a) <= b + saved'.size
    <2>1. CASE b = NULL
      <3>1. NULL \notin R \cup D /\ \A x \in L : x - v[x].next \in R \cup D
        BY ONLY <1>6, ReadyHomes
      <3>2. In(v, L, b) = {}
        BY <2>1, <3>1 DEF In
      <3>3. Cardinality({}) = 0
        BY FS_EmptySet
      <3> QED  BY <2>1, <3>2, <3>3, <1>1
    <2>2. CASE b # NULL
      <3>1. IsMemory(word) /\ Tidy(heap.pools[b], word, L, b)
        BY <2>2, <1>3 DEF Ready
      <3>2. /\ Laid(word, b + MSET, b + heap.pools[b].size, NodesOf(heap, word, b), In(word, L, b))
            /\ heap.pools[b].refs = Cardinality(In(word, L, b))
        BY <3>1, TidyIs
      <3>3. \A a \in In(word, L, b) : Length(v, a) = Length(word, a)
        BY <1>6 DEF Length, SameWords, In
      <3> QED  BY <2>2, <3>2, <3>3, <1>1, <1>8 DEF Laid
    <2> QED  BY <2>1, <2>2
  <1>11. Lent(g, v, Theirs(blocks'), saved')
    BY <1>1, <1>4, <1>5, <1>9, <1>10 DEF Lent
  <1> QED  BY <1>1, <1>2, <1>7, <1>11 DEF Inv, g, v

\* A pool neither the roots of before nor the parent's blocks are in is given back.
LEMMA OrphanGone ==
    ASSUME NEW h, Shape(h), NEW w, NEW P, NEW b, NEW g,
           g = (IF Orphaned(h, b) THEN Munmap(h, b) ELSE h),
           b # NULL => b \in DOMAIN h.pools,
           Orphaned(h, b) => In(w, P, b) = {}
    PROVE  /\ Shape(g) /\ Formed(g) /\ g.pool1 = h.pool1 /\ g.pool = h.pool
           /\ DOMAIN g.pools \subseteq DOMAIN h.pools
           /\ \A x \in DOMAIN g.pools : g.pools[x] = h.pools[x]
           /\ \A x \in DOMAIN h.pools : x # b \/ In(w, P, x) # {} => x \in DOMAIN g.pools
  <1>1. Formed(h)
    BY DEF Shape, Formed
  <1>2. CASE Orphaned(h, b)
    <2>1. b \in DOMAIN h.pools
      BY <1>2 DEF Orphaned
    <2>2. Dropped(g, h, b) /\ g.pool1 = h.pool1 /\ g.pool = h.pool /\ Formed(g)
      BY <1>1, <1>2, MunmapIs DEF Dropped
    <2>3. /\ Shape(g) /\ DOMAIN g.pools = DOMAIN h.pools \ {b}
          /\ \A x \in DOMAIN g.pools : g.pools[x] = h.pools[x]
      BY <2>1, <2>2, ShapeDropped
    <2> QED  BY <1>2, <2>2, <2>3
  <1>3. CASE ~ Orphaned(h, b)
    BY <1>1, <1>3
  <1> QED  BY <1>2, <1>3

\* There are as many blocks as headers.
LEMMA HeadsCount ==
    ASSUME NEW X, \A p \in X : p \in Int, NEW Y, Y = Heads(X), IsFiniteSet(Y)
    PROVE  Cardinality(X) = Cardinality(Y)
  <1> DEFINE f == [a \in Y |-> a + HDR]
  <1>1. HDR \in Int
    BY ConstantsAre
  <1>2. \A a \in Y : a \in Int /\ a + HDR \in X
    BY <1>1 DEF Heads
  <1>3. \A p \in X : p - HDR \in Y /\ (p - HDR) + HDR = p
    BY <1>1 DEF Heads
  <1>4. f \in [Y -> X]
    BY <1>2
  <1>5. \A x, y \in Y : f[x] = f[y] => x = y
    BY <1>1, <1>2
  <1>6. \A p \in X : \E a \in Y : f[a] = p
    <2> SUFFICES ASSUME NEW p \in X  PROVE \E a \in Y : f[a] = p
      OBVIOUS
    <2>1. p - HDR \in Y /\ f[p - HDR] = p
      BY <1>3
    <2> QED  BY <2>1
  <1> HIDE DEF f
  <1>7. f \in Bijection(Y, X)
    BY <1>4, <1>5, <1>6 DEF Bijection, Injection, Surjection, IsInjective
  <1>8. ExistsBijection(Y, X)
    BY <1>7 DEF ExistsBijection
  <1> QED  BY <1>8, FS_Bijection

\* The restore unmaps no pool with a block of the parent's, and counts them right.
LEMMA ResumeKeeps ==
    ASSUME Inv, Resume
    PROVE  Inv'
  <1> DEFINE L == Heads(DOMAIN blocks)
             D == Current(heap)
             P == Theirs(blocks)
             b == heap.pool
             c == heap.pool1
             e == saved.pool
             one == IF Orphaned(heap, b) THEN Munmap(heap, b) ELSE heap
             two == IF Orphaned(heap, c) THEN Munmap(one, c) ELSE one
             g == heap'
             v == word'
  <1>1. /\ running = "child" /\ running' = "resumed" /\ saved' = saved /\ obuf' = obuf
        /\ g = [two EXCEPT
              !.pool = e, !.pool1 = saved.pool1, !.old = saved.old,
              !.pools = [x \in DOMAIN @ |-> IF x = e THEN WoundBack(@[x]) ELSE @[x]]]
        /\ blocks' = [p \in BlocksOf(blocks, "parent") |-> blocks[p]]
        /\ v = Kept(g, word, DOMAIN blocks', NULL)
    BY DEF Resume, BlocksOf
  <1>2. /\ BlocksAre(blocks) /\ Buffered(obuf, blocks) /\ obuf # Lazy
        /\ Lent(heap, word, P, saved) /\ Held(heap, word, blocks) /\ Sized(word, blocks)
    BY <1>1 DEF Inv, Held
  <1>3. PICK R : Ready(heap, word, L, R, D) /\ (b # NULL => b \in R \cup D)
    BY <1>1, InvHeld
  <1>4. /\ D = Current(heap) /\ P \subseteq L
        /\ one = (IF Orphaned(heap, b) THEN Munmap(heap, b) ELSE heap)
        /\ two = (IF Orphaned(one, c) THEN Munmap(one, c) ELSE one)
        /\ b # NULL => b \in D
    BY DEF Theirs, BlocksOf, Heads, Orphaned, Current
  <1>p. P = Theirs(blocks) /\ L = Heads(DOMAIN blocks) /\ b = heap.pool /\ c = heap.pool1
        /\ e = saved.pool
    OBVIOUS
  <1> HIDE DEF L, D, P, b, c, e, one, two, g, v
  <1>5. /\ Shape(heap) /\ IsMemory(word) /\ L \subseteq DOMAIN word
        /\ R \cup D \subseteq DOMAIN heap.pools /\ SpareIs(heap, R \cup D)
        /\ \A x \in L : x - word[x].next \in R \cup D
    <2>1. Ready(heap, word, L, R, D)
      BY <1>3
    <2> QED  BY ONLY <2>1, ReadyFormed, ZenonT(60)
  <1>6. /\ Shape(one) /\ one.pool1 = heap.pool1 /\ one.pool = heap.pool
        /\ DOMAIN one.pools \subseteq DOMAIN heap.pools
        /\ \A x \in DOMAIN one.pools : one.pools[x] = heap.pools[x]
        /\ \A x \in DOMAIN heap.pools : x # b \/ In(word, P, x) # {} => x \in DOMAIN one.pools
    <2>1. b # NULL => b \in DOMAIN heap.pools
      BY <1>3, <1>5
    <2>2. Orphaned(heap, b) => In(word, P, b) = {}
      BY <1>2, <1>p DEF Orphaned, Lent
    <2> QED  BY ONLY <2>1, <2>2, <1>4, <1>5, OrphanGone
  <1>7. /\ Shape(two) /\ Formed(two)
        /\ DOMAIN two.pools \subseteq DOMAIN one.pools
        /\ \A x \in DOMAIN two.pools : two.pools[x] = one.pools[x]
        /\ \A x \in DOMAIN one.pools : x # c \/ In(word, P, x) # {} => x \in DOMAIN two.pools
    <2>1. c # NULL => c \in DOMAIN heap.pools /\ c \notin R \cup D
      BY <1>5, <1>p DEF SpareIs
    <2>2. c # NULL => c # b
      BY <2>1, <1>4
    <2>3. c # NULL => c \in DOMAIN one.pools
      BY <2>1, <2>2, <1>6
    <2>4. Orphaned(one, c) => In(word, P, c) = {}
      BY <2>1, <1>4, <1>5 DEF Orphaned, In
    <2> QED  BY ONLY <2>3, <2>4, <1>4, <1>6, OrphanGone
  <1>8. \A x \in DOMAIN heap.pools : In(word, P, x) # {} =>
           x \in DOMAIN two.pools /\ two.pools[x] = heap.pools[x]
    BY <1>6, <1>7
  <1>9. /\ g.mapped = two.mapped /\ g.pool = e /\ DOMAIN g.pools = DOMAIN two.pools
        /\ \A x \in DOMAIN two.pools : g.pools[x].len = two.pools[x].len
        /\ e \in DOMAIN two.pools => g.pools[e].refs = saved.refs /\ g.pools[e].size = saved.size
    <2>1. /\ g.mapped = two.mapped /\ g.pool = e
          /\ g.pools = [x \in DOMAIN two.pools |-> IF x = e THEN WoundBack(two.pools[x]) ELSE two.pools[x]]
      BY <1>1, <1>7 DEF Formed
    <2>2. ASSUME NEW m, m \in PoolRec
          PROVE  /\ WoundBack(m).len = m.len /\ WoundBack(m).refs = saved.refs
                 /\ WoundBack(m).size = saved.size
      BY <2>2 DEF WoundBack, PoolRec
    <2>3. \A x \in DOMAIN two.pools : two.pools[x] \in PoolRec
      BY <1>7, PoolOfShape
    <2> QED  BY <2>1, <2>2, <2>3
  <1>10. /\ DOMAIN blocks' = BlocksOf(blocks, "parent") /\ Heads(DOMAIN blocks') = P
         /\ \A p \in DOMAIN blocks' : p \in DOMAIN blocks /\ blocks'[p] = blocks[p]
         /\ blocks' = [p \in DOMAIN blocks' |-> blocks'[p]]
    BY <1>1, <1>p DEF Theirs, BlocksOf
  <1>11. ASSUME NEW a \in P
         PROVE  a \in DOMAIN v /\ v[a] = word[a] /\ a - word[a].next \in DOMAIN two.pools
    <2> DEFINE x == a - word[a].next
    <2>1. x \in R \cup D /\ a \in In(word, P, x) /\ a \in In(word, L, x)
      BY <1>4, <1>5 DEF In
    <2> HIDE DEF x
    <2>2. x \in DOMAIN heap.pools /\ Tidy(heap.pools[x], word, L, x)
      BY <2>1, <1>3, <1>5 DEF Ready
    <2>3. a \in DOMAIN word /\ a \in Nat /\ x <= a /\ a < x + heap.pools[x].len
      BY <2>1, <2>2, <1>5, TidyWithin
    <2>4. x \in DOMAIN two.pools /\ two.pools[x] = heap.pools[x]
      BY <2>1, <2>2, <1>8
    <2>5. /\ x \in Nat /\ x % PGSIZE = 0 /\ two.pools[x].len \in Nat
          /\ Pages(x, two.pools[x].len) \subseteq two.mapped
      BY <2>4, <1>7, PoolOfShape
    <2>6. a - (a % PGSIZE) \in g.mapped
      BY <2>3, <2>4, <2>5, <1>9, PageIn
    <2>7. a \in Reachable(g, word, DOMAIN blocks', NULL)
      BY <1>10 DEF Reachable, Heads
    <2>8. a \in DOMAIN v /\ v[a] = word[a]
      BY <2>3, <2>6, <2>7, <1>1 DEF Kept
    <2> QED  BY <2>4, <2>8 DEF x
  <1>12. \A p \in DOMAIN blocks' : p - HDR \in P /\ blocks'[p].owner = "parent"
    BY <1>10 DEF Heads, BlocksOf
  <1>13. BlocksAre(blocks') /\ Buffered(obuf', blocks')
    BY <1>1, <1>2, <1>10 DEF BlocksAre, Buffered, BlocksOf
  <1>14. ParentBlocksKept'
    <2>1. ASSUME NEW p \in DOMAIN blocks'
          PROVE  /\ p - HDR \in DOMAIN v /\ v[p - HDR].size = blocks'[p].size
                 /\ p - HDR - v[p - HDR].next \in DOMAIN g.pools
                 /\ p + blocks'[p].size <= (p - HDR - v[p - HDR].next)
                                           + g.pools[p - HDR - v[p - HDR].next].len
      <3> DEFINE x == PoolOf(p)
      <3>1. p \in DOMAIN blocks /\ blocks'[p] = blocks[p]
        BY <1>10
      <3>2. /\ word[p - HDR].size = blocks[p].size
            /\ x \in DOMAIN heap.pools /\ p + blocks[p].size <= x + heap.pools[x].len
        BY <3>1, <1>2, KeptHeld
      <3>3. /\ p - HDR \in DOMAIN v /\ v[p - HDR] = word[p - HDR] /\ x \in DOMAIN two.pools
            /\ x = p - HDR - v[p - HDR].next
        BY <1>11, <1>12 DEF PoolOf
      <3> HIDE DEF x
      <3>4. x \in DOMAIN g.pools /\ g.pools[x].len = heap.pools[x].len
        BY <3>2, <3>3, <1>6, <1>7, <1>9
      <3> QED  BY <3>1, <3>2, <3>3, <3>4
    <2>2. obuf' \in DOMAIN blocks' \cup {NULL}
      BY <1>1, <1>2, <1>10 DEF Buffered
    <2> QED  BY <2>1, <2>2 DEF ParentBlocksKept, PoolOf, g, v
  <1>15. ResumedCounts'
    <2> SUFFICES ASSUME e \in DOMAIN g.pools
                 PROVE  LET X == {p \in DOMAIN blocks' : p - HDR - v[p - HDR].next = e}
                        IN  /\ g.pools[e].refs = Cardinality(X)
                            /\ \A p \in X : p - HDR + AllocSize(blocks'[p].size) <= e + g.pools[e].size
      BY <1>9 DEF ResumedCounts, LiveIn, PoolOf, g, v
    <2> DEFINE X == {p \in DOMAIN blocks' : p - HDR - v[p - HDR].next = e}
               Y == In(word, P, e)
    <2>1. Y = Heads(X)
      <3>1. \A p \in X : p - HDR \in Y
        BY <1>11, <1>12 DEF In
      <3>2. ASSUME NEW a \in Y  PROVE a \in Heads(X)
        <4>1. a \in P /\ a - word[a].next = e
          BY DEF In
        <4>2. PICK p \in DOMAIN blocks' : a = p - HDR
          BY <4>1, <1>10 DEF Heads
        <4> QED  BY <4>1, <4>2, <1>11 DEF Heads
      <3> QED  BY <3>1, <3>2 DEF Heads
    <2>2. IsFiniteSet(Y)
      <3>1. P \subseteq DOMAIN word
        BY <1>4, <1>5
      <3> QED  BY <3>1, <1>5, InFinite
    <2>3. \A p \in X : p \in Int
      BY <1>13 DEF BlocksAre
    <2>4. saved.refs = Cardinality(Y) /\ \A a \in Y : a + Length(word, a) <= e + saved.size
      BY <1>2, <1>p DEF Lent
    <2>5. g.pools[e].refs = saved.refs /\ g.pools[e].size = saved.size
      BY <1>9
    <2>6. ASSUME NEW p \in X  PROVE p - HDR + AllocSize(blocks'[p].size) <= e + g.pools[e].size
      <3>1. p - HDR \in Y /\ word[p - HDR].size = blocks'[p].size
        BY <2>1, <1>2, <1>10 DEF Heads, Sized
      <3> QED  BY <3>1, <2>4, <2>5 DEF Length
    <2> HIDE DEF X, Y
    <2>7. Cardinality(X) = Cardinality(Y)
      BY <2>1, <2>2, <2>3, HeadsCount
    <2> QED  BY <2>4, <2>5, <2>6, <2>7 DEF X
  <1> QED  BY <1>1, <1>2, <1>13, <1>14, <1>15 DEF Inv

-------------------------------------------------------------------------------
(***************************************************************************)
(* The theorems.                                                           *)
(***************************************************************************)

LEMMA InitInv ==
    ASSUME Init
    PROVE  Inv
  <1> DEFINE L == Heads(DOMAIN blocks)
             D == Current(heap)
             k == [x \in {} |-> 0]
  <1>1. /\ heap = [mapped |-> {}, pools |-> [b \in {} |-> NULL],
                   pool |-> NULL, pool1 |-> NULL, old |-> NULL, class |-> MSETLEN_MIN]
        /\ word = [a \in {} |-> NULL] /\ blocks = [p \in {} |-> NULL]
        /\ running = "parent" /\ obuf = Lazy
    BY DEF Init
  <1>2. DOMAIN blocks = {} /\ L = {} /\ D = {} /\ DOMAIN heap.pools = {} /\ DOMAIN word = {}
    BY <1>1 DEF Heads, Current
  <1>3. Shape(heap)
    BY <1>1, <1>2, ConstantsAre DEF Shape
  <1>4. IsMemory(word)
    <2>1. IsFiniteSet({})
      BY FS_EmptySet
    <2> QED  BY <1>1, <1>2, <2>1 DEF IsMemory
  <1>5. Chained(Links(heap.pools), heap.old, {})
    <2>1. k \in [{} -> Nat]
      OBVIOUS
    <2> QED  BY <2>1, <1>1 DEF Chained, Links
  <1>6. Ready(heap, word, L, {}, D)
    BY <1>1, <1>2, <1>3, <1>4, <1>5 DEF Ready
  <1>7. Held(heap, word, blocks)
    BY <1>2, <1>6 DEF Held, Sized
  <1> QED  BY <1>1, <1>2, <1>7 DEF Inv, BlocksAre, BlocksOf, Buffered

LEMMA NextInv ==
    ASSUME Inv, [Next]_vars
    PROVE  Inv'
  <1>1. ASSUME NEW c \in Calls, MallocListed(c[1], c[2])  PROVE Inv'
    BY <1>1, ListedKeeps
  <1>2. ASSUME NEW c \in Calls, MallocBump(c[1], c[2])  PROVE Inv'
    BY <1>2, BumpKeeps
  <1>3. ASSUME NEW c \in Calls, MallocPromote(c[1], c[2])  PROVE Inv'
    BY <1>3, PromoteKeeps
  <1>4. ASSUME NEW c \in Calls, MallocNewPool(c[1], c[2])  PROVE Inv'
    BY <1>4, NewPoolKeeps
  <1>5. ASSUME NEW p \in DOMAIN blocks, Free(p)  PROVE Inv'
    BY <1>5, FreeKeeps
  <1>6. CASE Vfork
    BY <1>6, VforkKeeps
  <1>7. CASE Resume
    BY <1>7, ResumeKeeps
  <1>8. CASE UNCHANGED vars
    <2>1. /\ heap' = heap /\ word' = word /\ blocks' = blocks /\ saved' = saved
          /\ running' = running /\ obuf' = obuf
      BY <1>8 DEF vars
    <2> QED  BY <2>1 DEF Inv, ParentBlocksKept, ResumedCounts, LiveIn, PoolOf
  <1> QED  BY <1>1, <1>2, <1>3, <1>4, <1>5, <1>6, <1>7, <1>8 DEF Next

\* The inductive invariant holds of every behaviour.
LEMMA InvAlways == Spec => []Inv
  <1>1. Init => Inv
    BY InitInv
  <1>2. Inv /\ [Next]_vars => Inv'
    BY NextInv
  <1> QED  BY <1>1, <1>2, PTL DEF Spec

\* While parent and child share the heap, no block of either lies on a list or
\* over another, whatever malloc(), free() and __malloc_vfork_save() did before:
\* the list in a pool's memory is sorted, ends, and stays below its bump pointer.
THEOREM VforkSoundWhileShared == Spec => []SoundWhileShared
  <1>1. Inv => SoundWhileShared
    BY SoundHeld DEF Inv, SoundWhileShared
  <1> QED  BY <1>1, InvAlways, PTL

\* What the parent holds is mapped with its header as it was, in its own turn,
\* while the child runs, and once __malloc_vfork_restore() has thrown away what
\* the child left; the buffer of stderr is the parent's by then.
THEOREM VforkParentBlocksKept == Spec => []ParentBlocksKept
  <1>1. ASSUME Inv  PROVE ParentBlocksKept
    <2>1. CASE running = "resumed"
      BY <1>1, <2>1 DEF Inv
    <2>2. CASE running # "resumed"
      <3>1. BlocksAre(blocks) /\ Held(heap, word, blocks)
        BY <1>1, <2>2 DEF Inv
      <3> QED  BY <2>2, <3>1, KeptHeld DEF ParentBlocksKept
    <2> QED  BY <2>1, <2>2
  <1>2. Inv => ParentBlocksKept
    BY <1>1
  <1> QED  BY <1>2, InvAlways, PTL

\* The count and the bump pointer __malloc_vfork_restore() writes back into the
\* parent's current pool are right for the blocks the parent has in it.
THEOREM VforkResumedCounts == Spec => []ResumedCounts
  <1>1. Inv => ResumedCounts
    BY DEF Inv, ResumedCounts
  <1> QED  BY <1>1, InvAlways, PTL
===============================================================================
