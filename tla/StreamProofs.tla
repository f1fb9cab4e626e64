---------------------------- MODULE StreamProofs ----------------------------
(***************************************************************************)
(* That the buffers of a stream do not show, whatever it is over and       *)
(* however long the calls, the buffers and the file are.                   *)
(***************************************************************************)
EXTENDS Stream, NumberFacts, SequenceTheorems

-------------------------------------------------------------------------------
(***************************************************************************)
(* Texts.                                                                  *)
(***************************************************************************)
Texts == Seq(Bytes)

LEMMA BytesAre == Bytes \subseteq Nat /\ 0 \in Bytes /\ EOF \notin Bytes
  BY StreamAssumption DEF EOF

LEMMA TextIs ==
    ASSUME NEW d \in Texts
    PROVE  Len(d) \in Nat /\ (d = <<>> <=> Len(d) = 0) /\ \A i \in 1 .. Len(d) : d[i] \in Bytes
  BY EmptySeq, LenProperties DEF Texts

LEMMA SameText ==
    ASSUME NEW d \in Texts, NEW e \in Texts, Len(d) = Len(e),
           \A i \in 1 .. Len(d) : d[i] = e[i]
    PROVE  d = e
  BY SeqEqual DEF Texts

LEMMA PartIs ==
    ASSUME NEW d \in Texts, NEW m \in Nat \ {0}, NEW n \in Nat, n <= Len(d)
    PROVE  /\ SubSeq(d, m, n) \in Texts
           /\ Len(SubSeq(d, m, n)) = IF m <= n THEN n - m + 1 ELSE 0
           /\ \A i \in 1 .. n - m + 1 : SubSeq(d, m, n)[i] = d[m + i - 1]
  <1>1. \A i \in m .. n : i \in 1 .. Len(d)
    BY TextIs
  <1>2. \A i \in m .. n : d[i] \in Bytes
    BY TextIs, <1>1
  <1>3. m \in Int /\ n \in Int
    OBVIOUS
  <1> QED  BY <1>2, <1>3, SubSeqProperties DEF Texts

\* What comes first and what comes then.
LEMMA SplitIs ==
    ASSUME NEW d \in Texts, NEW n \in Nat, n <= Len(d)
    PROVE  /\ Take(d, n) \in Texts /\ Len(Take(d, n)) = n
           /\ \A i \in 1 .. n : Take(d, n)[i] = d[i]
           /\ Drop(d, n) \in Texts /\ Len(Drop(d, n)) = Len(d) - n
           /\ \A i \in 1 .. Len(d) - n : Drop(d, n)[i] = d[n + i]
  <1>1. Len(d) \in Nat
    BY TextIs
  <1>2. /\ Take(d, n) \in Texts /\ Len(Take(d, n)) = n
        /\ \A i \in 1 .. n : Take(d, n)[i] = d[i]
    BY PartIs, <1>1 DEF Take
  <1>3. /\ Drop(d, n) \in Texts /\ Len(Drop(d, n)) = Len(d) - n
        /\ \A i \in 1 .. Len(d) - n : Drop(d, n)[i] = d[n + i]
    BY PartIs, <1>1 DEF Drop
  <1> QED  BY <1>2, <1>3

LEMMA JoinIs ==
    ASSUME NEW d \in Texts, NEW e \in Texts
    PROVE  /\ d \o e \in Texts
           /\ Len(d \o e) = Len(d) + Len(e)
           /\ \A i \in 1 .. Len(d) + Len(e) :
                 (d \o e)[i] = IF i <= Len(d) THEN d[i] ELSE e[i - Len(d)]
  BY ConcatProperties DEF Texts

LEMMA TakeOn ==
    ASSUME NEW d \in Texts, NEW m \in Nat, NEW n \in Nat, m + n <= Len(d)
    PROVE  Take(d, m) \o Take(Drop(d, m), n) = Take(d, m + n)
  <1>1. Len(d) \in Nat /\ m <= Len(d) /\ n <= Len(d) - m
    BY TextIs
  <1>2. n <= Len(Drop(d, m))
    BY SplitIs, <1>1
  <1> DEFINE a == Take(d, m)
             b == Take(Drop(d, m), n)
             c == Take(d, m + n)
  <1>3. a \in Texts /\ Len(a) = m /\ \A i \in 1 .. m : a[i] = d[i]
    BY SplitIs, <1>1
  <1>4. b \in Texts /\ Len(b) = n /\ \A i \in 1 .. n : b[i] = d[m + i]
    <2>1. /\ Drop(d, m) \in Texts
          /\ \A i \in 1 .. Len(d) - m : Drop(d, m)[i] = d[m + i]
      BY SplitIs, <1>1
    <2>2. b \in Texts /\ Len(b) = n /\ \A i \in 1 .. n : b[i] = Drop(d, m)[i]
      BY SplitIs, <2>1, <1>2
    <2> QED  BY <2>1, <2>2, <1>1
  <1>5. c \in Texts /\ Len(c) = m + n /\ \A i \in 1 .. m + n : c[i] = d[i]
    BY SplitIs, <1>1
  <1> HIDE DEF a, b, c
  <1> DEFINE j == a \o b
  <1>6. /\ j \in Texts /\ Len(j) = m + n
        /\ \A i \in 1 .. m + n : j[i] = IF i <= m THEN a[i] ELSE b[i - m]
    BY JoinIs, <1>3, <1>4
  <1> HIDE DEF j
  <1>7. ASSUME NEW i \in 1 .. m + n  PROVE j[i] = c[i]
    <2>1. CASE i <= m
      BY <2>1, <1>3, <1>5, <1>6
    <2>2. CASE ~(i <= m)
      <3>1. i - m \in 1 .. n /\ m + (i - m) = i
        BY <2>2
      <3>2. b[i - m] = d[i]
        BY <3>1, <1>4
      <3> QED  BY <2>2, <3>2, <1>5, <1>6
    <2> QED  BY <2>1, <2>2
  <1>8. j = c
    BY <1>5, <1>6, <1>7, SameText
  <1> QED  BY <1>8 DEF a, b, c, j

-------------------------------------------------------------------------------
(***************************************************************************)
(* One text laid over another.                                             *)
(***************************************************************************)
Longer(m, n) == IF m > n THEN m ELSE n

LEMMA OverlayIs ==
    ASSUME NEW d \in Texts, NEW n \in Nat, NEW e \in Texts
    PROVE  /\ Overlay(d, n, e) \in Texts
           /\ Len(Overlay(d, n, e)) = Longer(n + Len(e), Len(d))
           /\ \A i \in 1 .. Longer(n + Len(e), Len(d)) :
                 Overlay(d, n, e)[i] = IF i > n /\ i <= n + Len(e) THEN e[i - n]
                                       ELSE IF i <= Len(d) THEN d[i] ELSE 0
  <1> DEFINE m == Longer(n + Len(e), Len(d))
             Byte(i) == IF i > n /\ i <= n + Len(e) THEN e[i - n]
                        ELSE IF i <= Len(d) THEN d[i] ELSE 0
             o == [i \in 1 .. m |-> Byte(i)]
  <1>1. m \in Nat /\ Len(e) \in Nat /\ Len(d) \in Nat
    BY TextIs DEF Longer
  <1>2. ASSUME NEW i \in 1 .. m  PROVE Byte(i) \in Bytes
    <2>1. CASE i > n /\ i <= n + Len(e)
      <3>1. i - n \in 1 .. Len(e)
        BY <2>1, <1>1
      <3> QED  BY <2>1, <3>1, TextIs
    <2>2. CASE ~(i > n /\ i <= n + Len(e))
      BY <2>2, <1>1, TextIs, BytesAre
    <2> QED  BY <2>1, <2>2
  <1>3. Overlay(d, n, e) = o
    BY DEF Overlay, Longer
  <1> HIDE DEF Byte, m
  <1>4. o \in [1 .. m -> Bytes]
    BY <1>2
  <1>5. o \in Texts /\ Len(o) = m
    <2>1. o \in Seq(Bytes)
      BY <1>1, <1>4, SeqDef
    <2> QED  BY <2>1, <1>1, <1>4, LenProperties DEF Texts
  <1> QED  BY <1>3, <1>5 DEF Byte, m

\* Nothing laid over a text, and two texts one behind the other.
LEMMA OverlayNothing ==
    ASSUME NEW d \in Texts, NEW n \in Nat, n <= Len(d)
    PROVE  Overlay(d, n, <<>>) = d
  <1> DEFINE o == Overlay(d, n, <<>>)
  <1>0. <<>> \in Texts /\ Len(<<>>) = 0 /\ Len(d) \in Nat
    BY TextIs, EmptySeq DEF Texts
  <1>1. /\ o \in Texts /\ Len(o) = Len(d)
        /\ \A i \in 1 .. Len(d) : o[i] = d[i]
    BY OverlayIs, <1>0 DEF Longer
  <1> QED  BY <1>1, SameText

LEMMA OverlayTwice ==
    ASSUME NEW d \in Texts, NEW n \in Nat, NEW e \in Texts, NEW f \in Texts,
           e # <<>> \/ n <= Len(d)
    PROVE  Overlay(Overlay(d, n, e), n + Len(e), f) = Overlay(d, n, e \o f)
  <1> DEFINE o == Overlay(d, n, e)
             l == Overlay(o, n + Len(e), f)
             j == e \o f
             r == Overlay(d, n, j)
  <1>0. Len(e) \in Nat /\ Len(f) \in Nat /\ Len(d) \in Nat /\ n + Len(e) \in Nat
    BY TextIs
  <1>1. Len(e) = 0 => n <= Len(d)
    BY TextIs
  <1>2. /\ o \in Texts /\ Len(o) = Longer(n + Len(e), Len(d))
        /\ \A i \in 1 .. Longer(n + Len(e), Len(d)) :
              o[i] = IF i > n /\ i <= n + Len(e) THEN e[i - n]
                     ELSE IF i <= Len(d) THEN d[i] ELSE 0
    BY OverlayIs
  <1>3. /\ l \in Texts /\ Len(l) = Longer(n + Len(e) + Len(f), Len(o))
        /\ \A i \in 1 .. Longer(n + Len(e) + Len(f), Len(o)) :
              l[i] = IF i > n + Len(e) /\ i <= n + Len(e) + Len(f) THEN f[i - (n + Len(e))]
                     ELSE IF i <= Len(o) THEN o[i] ELSE 0
    BY OverlayIs, <1>2, <1>0
  <1>5. /\ j \in Texts /\ Len(j) = Len(e) + Len(f)
        /\ \A i \in 1 .. Len(e) + Len(f) : j[i] = IF i <= Len(e) THEN e[i] ELSE f[i - Len(e)]
    BY JoinIs
  <1> HIDE DEF j
  <1>4. /\ r \in Texts /\ Len(r) = Longer(n + Len(j), Len(d))
        /\ \A i \in 1 .. Longer(n + Len(j), Len(d)) :
              r[i] = IF i > n /\ i <= n + Len(j) THEN j[i - n]
                     ELSE IF i <= Len(d) THEN d[i] ELSE 0
    BY OverlayIs, <1>5
  <1> HIDE DEF o, l, r
  <1>6. Len(l) = Len(r) /\ Len(o) <= Len(r) /\ Len(o) \in Nat /\ Len(r) \in Nat
    <2>1. /\ Len(o) = Longer(n + Len(e), Len(d))
          /\ Len(l) = Longer(n + Len(e) + Len(f), Len(o))
          /\ Len(r) = Longer(n + (Len(e) + Len(f)), Len(d))
      BY <1>2, <1>3, <1>4, <1>5
    <2>2. Len(o) = IF n + Len(e) > Len(d) THEN n + Len(e) ELSE Len(d)
      BY <2>1 DEF Longer
    <2>3. Len(l) = IF n + Len(e) + Len(f) > Len(o) THEN n + Len(e) + Len(f) ELSE Len(o)
      BY <2>1 DEF Longer
    <2>4. Len(r) = IF n + (Len(e) + Len(f)) > Len(d) THEN n + (Len(e) + Len(f)) ELSE Len(d)
      BY <2>1 DEF Longer
    <2> QED  BY <1>0, <2>2, <2>3, <2>4
  <1>7. ASSUME NEW i \in 1 .. Len(r)  PROVE l[i] = r[i]
    <2>1. CASE i > n + Len(e) /\ i <= n + Len(e) + Len(f)
      <3>1. i - n \in 1 .. Len(e) + Len(f) /\ ~(i - n <= Len(e))
            /\ i - n - Len(e) = i - (n + Len(e))
        BY <2>1, <1>0
      <3>2. r[i] = f[i - (n + Len(e))]
        <4>1. r[i] = j[i - n]
          BY <2>1, <1>4, <1>5, <1>0
        <4>2. j[i - n] = f[i - n - Len(e)]
          BY <3>1, <1>5
        <4> QED  BY <4>1, <4>2, <3>1
      <3>3. l[i] = f[i - (n + Len(e))]
        BY <2>1, <1>3, <1>6
      <3> QED  BY <3>2, <3>3
    <2>2. CASE i > n /\ i <= n + Len(e)
      <3>1. i - n \in 1 .. Len(e) + Len(f) /\ i - n <= Len(e) /\ i \in 1 .. Len(o)
        BY <2>2, <1>0, <1>2 DEF Longer
      <3>2. r[i] = e[i - n]
        <4>1. r[i] = j[i - n]
          BY <2>2, <1>4, <1>5, <1>0
        <4> QED  BY <4>1, <3>1, <1>5
      <3>3. l[i] = o[i] /\ o[i] = e[i - n]
        BY <2>2, <3>1, <1>0, <1>3, <1>6, <1>2
      <3> QED  BY <3>2, <3>3
    <2>3. CASE ~(i > n /\ i <= n + Len(e) + Len(f))
      <3>1. r[i] = IF i <= Len(d) THEN d[i] ELSE 0
        BY <2>3, <1>4, <1>5, <1>0
      <3>2. l[i] = IF i <= Len(o) THEN o[i] ELSE 0
        BY <2>3, <1>3, <1>6, <1>0
      <3>3. CASE i <= Len(o)
        <4>1. o[i] = IF i <= Len(d) THEN d[i] ELSE 0
          BY <2>3, <3>3, <1>2, <1>0
        <4> QED  BY <3>1, <3>2, <3>3, <4>1
      <3>4. CASE ~(i <= Len(o))
        <4>1. ~(i <= Len(d))
          BY <3>4, <1>2, <1>0 DEF Longer
        <4> QED  BY <3>1, <3>2, <3>4, <4>1
      <3> QED  BY <3>3, <3>4
    <2> QED  BY <2>1, <2>2, <2>3, <1>0
  <1>8. l = r
    BY <1>3, <1>4, <1>6, <1>7, SameText
  <1> QED  BY <1>8 DEF l, r, o, j

-------------------------------------------------------------------------------
(***************************************************************************)
(* Loops: what holds of an outcome before a turn and after it holds of     *)
(* those the loop ends in.                                                 *)
(***************************************************************************)
Rounds(f, O, turn1, start, n) ==
    /\ f = [i \in 0 .. n |-> f[i]]
    /\ f[0] = {start}
    /\ \A i \in 0 .. n : i # 0 => f[i] = UNION {turn1[o] : o \in f[i - 1]}
    /\ \A i \in 0 .. n : f[i] \subseteq O

LEMMA LoopsExist ==
    ASSUME NEW O, NEW turn1 \in [O -> SUBSET O], NEW start \in O, NEW n \in Nat
    PROVE  \E f : Rounds(f, O, turn1, start, n)
  <1> DEFINE Of(f, i) == IF i = 0 THEN {start} ELSE UNION {turn1[o] : o \in f[i - 1]}
             Good(f, m) == /\ f = [i \in 0 .. m |-> Of(f, i)]
                           /\ \A i \in 0 .. m : f[i] \subseteq O
             T == {m \in Nat : \E f : Good(f, m)}
  <1>1. 0 \in T
    <2> DEFINE f == [i \in 0 .. 0 |-> {start}]
    <2>1. Good(f, 0)
      OBVIOUS
    <2> QED  BY <2>1
  <1>2. ASSUME NEW m \in Nat, m \in T  PROVE m + 1 \in T
    <2>1. PICK f : Good(f, m)
      BY <1>2
    <2> DEFINE g == [i \in 0 .. m + 1 |-> IF i = m + 1 THEN Of(f, i) ELSE f[i]]
    <2>2. ASSUME NEW i \in 0 .. m + 1  PROVE g[i] = Of(g, i) /\ g[i] \subseteq O
      <3>1. i # 0 => i - 1 \in 0 .. m /\ i - 1 \in 0 .. m + 1 /\ i - 1 # m + 1
        OBVIOUS
      <3>2. i # 0 => g[i - 1] = f[i - 1] /\ f[i - 1] \subseteq O
        BY <3>1, <2>1
      <3>3. Of(g, i) = Of(f, i)
        BY <3>2
      <3>4. Of(f, i) \subseteq O
        BY <3>2
      <3>5. i # m + 1 => i \in 0 .. m
        OBVIOUS
      <3>6. g[i] = Of(f, i)
        BY <3>5, <2>1
      <3> QED  BY <3>3, <3>4, <3>6
    <2> HIDE DEF Of
    <2>3. g = [i \in 0 .. m + 1 |-> g[i]]
      OBVIOUS
    <2> HIDE DEF g
    <2>4. Good(g, m + 1)
      BY <2>2, <2>3
    <2> QED  BY <2>4
  <1>3. n \in T
    BY <1>1, <1>2, Induct
  <1>4. PICK f : Good(f, n)
    BY <1>3
  <1>5. Rounds(f, O, turn1, start, n)
    <2>1. \A i \in 0 .. n : f[i] = Of(f, i)
      BY <1>4
    <2>2. f = [i \in 0 .. n |-> f[i]]
      BY <1>4
    <2>3. 0 \in 0 .. n /\ Of(f, 0) = {start}
      OBVIOUS
    <2>4. \A i \in 0 .. n : i # 0 => Of(f, i) = UNION {turn1[o] : o \in f[i - 1]}
      OBVIOUS
    <2> HIDE DEF Of
    <2>5. f[0] = {start}
      BY <2>1, <2>3
    <2>6. \A i \in 0 .. n : i # 0 => f[i] = UNION {turn1[o] : o \in f[i - 1]}
      BY <2>1, <2>4, Zenon
    <2> QED  BY <1>4, <2>2, <2>5, <2>6 DEF Rounds
  <1> QED  BY <1>5

PutTurn(o, data) ==
    {[st   |-> p.st,
      n    |-> IF p.put THEN o.n + 1 ELSE o.n,
      more |-> p.put /\ o.n + 1 < Len(data)] : p \in Fputc(o.st, data[o.n + 1])}

LEMMA PutEachWithin ==
    ASSUME NEW O, NEW s, NEW data, Len(data) \in Nat,
           [st |-> s, n |-> 0, more |-> TRUE] \in O,
           \A o \in O : o.more => PutTurn(o, data) \subseteq O
    PROVE  PutEach(s, data) \subseteq O
  <1> DEFINE start == [st |-> s, n |-> 0, more |-> TRUE]
             n == Len(data)
             Turn1(o) == IF o.more THEN PutTurn(o, data) ELSE {o}
             Of(h, i) == IF i = 0 THEN {start} ELSE UNION {Turn1(o) : o \in h[i - 1]}
             Is(h) == h = [i \in 0 .. n |-> Of(h, i)]
             f == CHOOSE h : Is(h)
             g == [o \in O |-> Turn1(o)]
             T == {i \in Nat : i <= n => f[i] \subseteq O}
  <1>1. PutEach(s, data) = f[n]
    BY DEF PutEach, Loop, PutTurn
  <1>2. start \in O /\ n \in Nat /\ \A o \in O : Turn1(o) \subseteq O
    OBVIOUS
  <1> HIDE DEF start, n, Turn1
  <1>3. g \in [O -> SUBSET O]
    BY <1>2
  <1>4. \E h : Is(h)
    <2> HIDE DEF g
    <2>1. PICK h : Rounds(h, O, g, start, n)
      BY <1>2, <1>3, LoopsExist
    <2>2. ASSUME NEW i \in 0 .. n  PROVE h[i] = Of(h, i)
      <3>1. i # 0 => i - 1 \in 0 .. n
        BY <1>2
      <3>2. i # 0 => \A o \in h[i - 1] : g[o] = Turn1(o)
        BY <3>1, <2>1 DEF g, Rounds
      <3>3. i # 0 => {g[o] : o \in h[i - 1]} = {Turn1(o) : o \in h[i - 1]}
        BY <3>2
      <3>4. CASE i = 0
        BY <3>4, <1>2, <2>1 DEF Rounds
      <3>5. CASE i # 0
        BY <3>5, <3>3, <2>1 DEF Rounds
      <3> QED  BY <3>4, <3>5
    <2>3. h = [i \in 0 .. n |-> h[i]]
      BY <2>1 DEF Rounds
    <2> HIDE DEF Of
    <2>4. Is(h)
      BY <2>2, <2>3
    <2> QED  BY <2>4
  <1>5. \A i \in 0 .. n : f[i] = Of(f, i)
    <2>1. Is(f)
      <3> HIDE DEF Is
      <3> QED  BY <1>4
    <2> HIDE DEF f, Of
    <2> QED  BY <2>1
  <1> HIDE DEF f
  <1>6. 0 \in T
    <2>1. 0 \in 0 .. n
      BY <1>2
    <2>2. Of(f, 0) = {start}
      OBVIOUS
    <2> HIDE DEF Of
    <2>3. f[0] = {start}
      BY <2>1, <2>2, <1>5
    <2> QED  BY <2>3, <1>2
  <1>7. ASSUME NEW i \in Nat, i \in T  PROVE i + 1 \in T
    <2> SUFFICES ASSUME i + 1 <= n  PROVE f[i + 1] \subseteq O
      OBVIOUS
    <2>1. i + 1 \in 0 .. n /\ i + 1 # 0 /\ (i + 1) - 1 = i /\ f[i] \subseteq O
      BY <1>2, <1>7
    <2>2. f[i + 1] = UNION {Turn1(o) : o \in f[i]}
      BY <2>1, <1>5
    <2> QED  BY <2>1, <2>2, <1>2
  <1>8. n \in T
    BY <1>2, <1>6, <1>7, Induct
  <1> QED  BY <1>1, <1>2, <1>8

ChunkTurn(o, data) == FwriteChunk(o.st, Drop(data, o.n), o.n)

LEMMA FwriteChunksWithin ==
    ASSUME NEW O, NEW s, NEW data, Len(data) \in Nat,
           [st |-> s, n |-> 0, more |-> TRUE] \in O,
           \A o \in O : o.more => ChunkTurn(o, data) \subseteq O
    PROVE  FwriteChunks(s, data) \subseteq O
  <1> DEFINE start == [st |-> s, n |-> 0, more |-> TRUE]
             n == Len(data) + 1
             Turn1(o) == IF o.more THEN ChunkTurn(o, data) ELSE {o}
             Of(h, i) == IF i = 0 THEN {start} ELSE UNION {Turn1(o) : o \in h[i - 1]}
             Is(h) == h = [i \in 0 .. n |-> Of(h, i)]
             f == CHOOSE h : Is(h)
             g == [o \in O |-> Turn1(o)]
             T == {i \in Nat : i <= n => f[i] \subseteq O}
  <1>1. FwriteChunks(s, data) = f[n]
    BY DEF FwriteChunks, Loop, ChunkTurn
  <1>2. start \in O /\ n \in Nat /\ \A o \in O : Turn1(o) \subseteq O
    OBVIOUS
  <1> HIDE DEF start, n, Turn1
  <1>3. g \in [O -> SUBSET O]
    BY <1>2
  <1>4. \E h : Is(h)
    <2> HIDE DEF g
    <2>1. PICK h : Rounds(h, O, g, start, n)
      BY <1>2, <1>3, LoopsExist
    <2>2. ASSUME NEW i \in 0 .. n  PROVE h[i] = Of(h, i)
      <3>1. i # 0 => i - 1 \in 0 .. n
        BY <1>2
      <3>2. i # 0 => \A o \in h[i - 1] : g[o] = Turn1(o)
        BY <3>1, <2>1 DEF g, Rounds
      <3>3. i # 0 => {g[o] : o \in h[i - 1]} = {Turn1(o) : o \in h[i - 1]}
        BY <3>2
      <3>4. CASE i = 0
        BY <3>4, <1>2, <2>1 DEF Rounds
      <3>5. CASE i # 0
        BY <3>5, <3>3, <2>1 DEF Rounds
      <3> QED  BY <3>4, <3>5
    <2>3. h = [i \in 0 .. n |-> h[i]]
      BY <2>1 DEF Rounds
    <2> HIDE DEF Of
    <2>4. Is(h)
      BY <2>2, <2>3
    <2> QED  BY <2>4
  <1>5. \A i \in 0 .. n : f[i] = Of(f, i)
    <2>1. Is(f)
      <3> HIDE DEF Is
      <3> QED  BY <1>4
    <2> HIDE DEF f, Of
    <2> QED  BY <2>1
  <1> HIDE DEF f
  <1>6. 0 \in T
    <2>1. 0 \in 0 .. n
      BY <1>2
    <2>2. Of(f, 0) = {start}
      OBVIOUS
    <2> HIDE DEF Of
    <2>3. f[0] = {start}
      BY <2>1, <2>2, <1>5
    <2> QED  BY <2>3, <1>2
  <1>7. ASSUME NEW i \in Nat, i \in T  PROVE i + 1 \in T
    <2> SUFFICES ASSUME i + 1 <= n  PROVE f[i + 1] \subseteq O
      OBVIOUS
    <2>1. i + 1 \in 0 .. n /\ i + 1 # 0 /\ (i + 1) - 1 = i /\ f[i] \subseteq O
      BY <1>2, <1>7
    <2>2. f[i + 1] = UNION {Turn1(o) : o \in f[i]}
      BY <2>1, <1>5
    <2> QED  BY <2>1, <2>2, <1>2
  <1>8. n \in T
    BY <1>2, <1>6, <1>7, Induct
  <1> QED  BY <1>1, <1>2, <1>8

LineTurn(o) ==
    {[st   |-> i.st,
      data |-> IF i.byte = EOF THEN o.data ELSE Append(o.data, i.byte),
      more |-> i.byte \notin {EOF, NEWLINE}] : i \in Ic(o.st)}

LEMMA GetLineWithin ==
    ASSUME NEW O, NEW s, NEW n \in Nat,
           [st |-> s, data |-> <<>>, more |-> TRUE] \in O,
           \A o \in O : o.more => LineTurn(o) \subseteq O
    PROVE  GetLine(s, n) \subseteq O
  <1> DEFINE start == [st |-> s, data |-> <<>>, more |-> TRUE]
             Turn1(o) == IF o.more THEN LineTurn(o) ELSE {o}
             Of(h, i) == IF i = 0 THEN {start} ELSE UNION {Turn1(o) : o \in h[i - 1]}
             Is(h) == h = [i \in 0 .. n |-> Of(h, i)]
             f == CHOOSE h : Is(h)
             g == [o \in O |-> Turn1(o)]
             T == {i \in Nat : i <= n => f[i] \subseteq O}
  <1>1. GetLine(s, n) = f[n]
    BY DEF GetLine, Loop, LineTurn
  <1>2. start \in O /\ n \in Nat /\ \A o \in O : Turn1(o) \subseteq O
    OBVIOUS
  <1> HIDE DEF start, Turn1
  <1>3. g \in [O -> SUBSET O]
    BY <1>2
  <1>4. \E h : Is(h)
    <2> HIDE DEF g
    <2>1. PICK h : Rounds(h, O, g, start, n)
      BY <1>2, <1>3, LoopsExist
    <2>2. ASSUME NEW i \in 0 .. n  PROVE h[i] = Of(h, i)
      <3>1. i # 0 => i - 1 \in 0 .. n
        BY <1>2
      <3>2. i # 0 => \A o \in h[i - 1] : g[o] = Turn1(o)
        BY <3>1, <2>1 DEF g, Rounds
      <3>3. i # 0 => {g[o] : o \in h[i - 1]} = {Turn1(o) : o \in h[i - 1]}
        BY <3>2
      <3>4. CASE i = 0
        BY <3>4, <1>2, <2>1 DEF Rounds
      <3>5. CASE i # 0
        BY <3>5, <3>3, <2>1 DEF Rounds
      <3> QED  BY <3>4, <3>5
    <2>3. h = [i \in 0 .. n |-> h[i]]
      BY <2>1 DEF Rounds
    <2> HIDE DEF Of
    <2>4. Is(h)
      BY <2>2, <2>3
    <2> QED  BY <2>4
  <1>5. \A i \in 0 .. n : f[i] = Of(f, i)
    <2>1. Is(f)
      <3> HIDE DEF Is
      <3> QED  BY <1>4
    <2> HIDE DEF f, Of
    <2> QED  BY <2>1
  <1> HIDE DEF f
  <1>6. 0 \in T
    <2>1. 0 \in 0 .. n
      BY <1>2
    <2>2. Of(f, 0) = {start}
      OBVIOUS
    <2> HIDE DEF Of
    <2>3. f[0] = {start}
      BY <2>1, <2>2, <1>5
    <2> QED  BY <2>3, <1>2
  <1>7. ASSUME NEW i \in Nat, i \in T  PROVE i + 1 \in T
    <2> SUFFICES ASSUME i + 1 <= n  PROVE f[i + 1] \subseteq O
      OBVIOUS
    <2>1. i + 1 \in 0 .. n /\ i + 1 # 0 /\ (i + 1) - 1 = i /\ f[i] \subseteq O
      BY <1>2, <1>7
    <2>2. f[i + 1] = UNION {Turn1(o) : o \in f[i]}
      BY <2>1, <1>5
    <2> QED  BY <2>1, <2>2, <1>2
  <1>8. n \in T
    BY <1>2, <1>6, <1>7, Induct
  <1> QED  BY <1>1, <1>2, <1>8

DelimTaken(o, i, delimiter) ==
    [o EXCEPT !.st = i.st, !.data = Append(@, i.byte), !.more = i.byte # delimiter]

DelimTurn(o, delimiter) ==
    UNION {IF i.byte = EOF THEN {[o EXCEPT !.st = i.st, !.more = FALSE]}
           ELSE IF Len(o.data) + 2 <= o.room THEN {DelimTaken(o, i, delimiter)}
           ELSE {[DelimTaken(o, i, delimiter) EXCEPT !.room = 2 * @],
                 [DelimTaken(o, i, delimiter) EXCEPT !.failed = TRUE, !.more = FALSE]} :
           i \in Ic(o.st)}

LEMMA GetDelimitedWithin ==
    ASSUME NEW O, NEW s, NEW delimiter, NEW room,
           [st |-> s, data |-> <<>>, room |-> room, failed |-> FALSE, more |-> TRUE] \in O,
           \A o \in O : o.more => DelimTurn(o, delimiter) \subseteq O
    PROVE  GetDelimited(s, delimiter, room) \subseteq O
  <1> DEFINE n == MaxFile + BUFSIZ + 2
             start == [st |-> s, data |-> <<>>, room |-> room, failed |-> FALSE, more |-> TRUE]
             Turn1(o) == IF o.more THEN DelimTurn(o, delimiter) ELSE {o}
             Of(h, i) == IF i = 0 THEN {start} ELSE UNION {Turn1(o) : o \in h[i - 1]}
             Is(h) == h = [i \in 0 .. n |-> Of(h, i)]
             f == CHOOSE h : Is(h)
             g == [o \in O |-> Turn1(o)]
             T == {i \in Nat : i <= n => f[i] \subseteq O}
  <1>1. GetDelimited(s, delimiter, room) = f[n]
    BY DEF GetDelimited, Loop, DelimTurn, DelimTaken
  <1>2. start \in O /\ n \in Nat /\ \A o \in O : Turn1(o) \subseteq O
    BY StreamAssumption
  <1> HIDE DEF n, start, Turn1
  <1>3. g \in [O -> SUBSET O]
    BY <1>2
  <1>4. \E h : Is(h)
    <2> HIDE DEF g
    <2>1. PICK h : Rounds(h, O, g, start, n)
      BY <1>2, <1>3, LoopsExist
    <2>2. ASSUME NEW i \in 0 .. n  PROVE h[i] = Of(h, i)
      <3>1. i # 0 => i - 1 \in 0 .. n
        BY <1>2
      <3>2. i # 0 => \A o \in h[i - 1] : g[o] = Turn1(o)
        BY <3>1, <2>1 DEF g, Rounds
      <3>3. i # 0 => {g[o] : o \in h[i - 1]} = {Turn1(o) : o \in h[i - 1]}
        BY <3>2
      <3>4. CASE i = 0
        BY <3>4, <1>2, <2>1 DEF Rounds
      <3>5. CASE i # 0
        BY <3>5, <3>3, <2>1 DEF Rounds
      <3> QED  BY <3>4, <3>5
    <2>3. h = [i \in 0 .. n |-> h[i]]
      BY <2>1 DEF Rounds
    <2> HIDE DEF Of
    <2>4. Is(h)
      BY <2>2, <2>3
    <2> QED  BY <2>4
  <1>5. \A i \in 0 .. n : f[i] = Of(f, i)
    <2>1. Is(f)
      <3> HIDE DEF Is
      <3> QED  BY <1>4
    <2> HIDE DEF f, Of
    <2> QED  BY <2>1
  <1> HIDE DEF f
  <1>6. 0 \in T
    <2>1. 0 \in 0 .. n
      BY <1>2
    <2>2. Of(f, 0) = {start}
      OBVIOUS
    <2> HIDE DEF Of
    <2>3. f[0] = {start}
      BY <2>1, <2>2, <1>5
    <2> QED  BY <2>3, <1>2
  <1>7. ASSUME NEW i \in Nat, i \in T  PROVE i + 1 \in T
    <2> SUFFICES ASSUME i + 1 <= n  PROVE f[i + 1] \subseteq O
      OBVIOUS
    <2>1. i + 1 \in 0 .. n /\ i + 1 # 0 /\ (i + 1) - 1 = i /\ f[i] \subseteq O
      BY <1>2, <1>7
    <2>2. f[i + 1] = UNION {Turn1(o) : o \in f[i]}
      BY <2>1, <1>5
    <2> QED  BY <2>1, <2>2, <1>2
  <1>8. n \in T
    BY <1>2, <1>6, <1>7, Induct
  <1> QED  BY <1>1, <1>2, <1>8

PieceTurn(o, n) == FreadPiece(o.st, n - Len(o.data), o.data)

LEMMA FreadWithin ==
    ASSUME NEW O, NEW s, NEW n \in Nat,
           [st |-> s, data |-> <<>>, more |-> TRUE] \in O,
           \A o \in O : o.more => PieceTurn(o, n) \subseteq O
    PROVE  Fread(s, n) \subseteq O
  <1> DEFINE start == [st |-> s, data |-> <<>>, more |-> TRUE]
             Turn1(o) == IF o.more THEN PieceTurn(o, n) ELSE {o}
             Of(h, i) == IF i = 0 THEN {start} ELSE UNION {Turn1(o) : o \in h[i - 1]}
             Is(h) == h = [i \in 0 .. n |-> Of(h, i)]
             f == CHOOSE h : Is(h)
             g == [o \in O |-> Turn1(o)]
             T == {i \in Nat : i <= n => f[i] \subseteq O}
  <1>1. Fread(s, n) = f[n]
    BY DEF Fread, Loop, PieceTurn
  <1>2. start \in O /\ n \in Nat /\ \A o \in O : Turn1(o) \subseteq O
    OBVIOUS
  <1> HIDE DEF start, Turn1
  <1>3. g \in [O -> SUBSET O]
    BY <1>2
  <1>4. \E h : Is(h)
    <2> HIDE DEF g
    <2>1. PICK h : Rounds(h, O, g, start, n)
      BY <1>2, <1>3, LoopsExist
    <2>2. ASSUME NEW i \in 0 .. n  PROVE h[i] = Of(h, i)
      <3>1. i # 0 => i - 1 \in 0 .. n
        BY <1>2
      <3>2. i # 0 => \A o \in h[i - 1] : g[o] = Turn1(o)
        BY <3>1, <2>1 DEF g, Rounds
      <3>3. i # 0 => {g[o] : o \in h[i - 1]} = {Turn1(o) : o \in h[i - 1]}
        BY <3>2
      <3>4. CASE i = 0
        BY <3>4, <1>2, <2>1 DEF Rounds
      <3>5. CASE i # 0
        BY <3>5, <3>3, <2>1 DEF Rounds
      <3> QED  BY <3>4, <3>5
    <2>3. h = [i \in 0 .. n |-> h[i]]
      BY <2>1 DEF Rounds
    <2> HIDE DEF Of
    <2>4. Is(h)
      BY <2>2, <2>3
    <2> QED  BY <2>4
  <1>5. \A i \in 0 .. n : f[i] = Of(f, i)
    <2>1. Is(f)
      <3> HIDE DEF Is
      <3> QED  BY <1>4
    <2> HIDE DEF f, Of
    <2> QED  BY <2>1
  <1> HIDE DEF f
  <1>6. 0 \in T
    <2>1. 0 \in 0 .. n
      BY <1>2
    <2>2. Of(f, 0) = {start}
      OBVIOUS
    <2> HIDE DEF Of
    <2>3. f[0] = {start}
      BY <2>1, <2>2, <1>5
    <2> QED  BY <2>3, <1>2
  <1>7. ASSUME NEW i \in Nat, i \in T  PROVE i + 1 \in T
    <2> SUFFICES ASSUME i + 1 <= n  PROVE f[i + 1] \subseteq O
      OBVIOUS
    <2>1. i + 1 \in 0 .. n /\ i + 1 # 0 /\ (i + 1) - 1 = i /\ f[i] \subseteq O
      BY <1>2, <1>7
    <2>2. f[i + 1] = UNION {Turn1(o) : o \in f[i]}
      BY <2>1, <1>5
    <2> QED  BY <2>1, <2>2, <1>2
  <1>8. n \in T
    BY <1>2, <1>6, <1>7, Induct
  <1> QED  BY <1>1, <1>2, <1>8

-------------------------------------------------------------------------------
(***************************************************************************)
(* A stream in the middle of a call.                                       *)
(***************************************************************************)
Modes == {"r", "w", "a", "r+", "w+", "a+"}

Fps == [back : Bytes \cup {EOF}, in : {"none", "own"}, unread : Texts,
        out : {"lazy", "none", "own", "user", "null"}, osize : Nat, pending : Texts,
        eof : BOOLEAN, err : BOOLEAN]

KernelFiles == [data : Texts, pos : Nat, mode : Modes]

States == [fp : Fps, file : KernelFiles, lost : BOOLEAN]

OnDisk(f) == f \in KernelFiles /\ Len(f.data) <= MaxFile /\ f.pos <= MaxFile

Sized(p) ==
    /\ p \in Fps
    /\ Len(p.unread) <= BUFSIZ /\ Len(p.pending) <= p.osize
    /\ p.out \in {"lazy", "none"} <=> p.osize = 0

\* What the input side holds is what the file has before the kernel's place,
\* its end was found where there is no more, and output waits only where no
\* input does.
Ahead(p, f) ==
    /\ Len(p.unread) <= f.pos
    /\ p.unread # <<>> => f.pos <= Len(f.data)
    /\ p.unread = SubSeq(f.data, f.pos - Len(p.unread) + 1, f.pos)
    /\ p.back # EOF => /\ f.pos - Len(p.unread) \in 1 .. Len(f.data)
                       /\ p.back = f.data[f.pos - Len(p.unread)]
    /\ p.eof => f.pos >= Len(f.data) /\ p.unread = <<>> /\ p.back = EOF
    /\ p.pending # <<>> => p.unread = <<>> /\ p.back = EOF

Sound(s) == s \in States /\ Sized(s.fp) /\ OnDisk(s.file) /\ Ahead(s.fp, s.file)

\* There is room for another byte of output.
Roomy(s) == ~s.lost /\ s.fp.osize > 0 => Len(s.fp.pending) < s.fp.osize

\* Nothing of the input is in hand; no output is.
NoInput(s) == s.fp.unread = <<>> /\ s.fp.back = EOF
NoOutput(s) == s.fp.pending = <<>>

TextOf(s) ==
    IF s.fp.pending = <<>> THEN s.file.data
    ELSE Overlay(s.file.data, WritePlace(s.file), s.fp.pending)

AtOf(s) ==
    IF s.fp.pending # <<>> THEN WritePlace(s.file) + Len(s.fp.pending)
    ELSE s.file.pos - Len(s.fp.unread) - (IF s.fp.back = EOF THEN 0 ELSE 1)

PlaceOf(s) == IF Appends(s.file.mode) THEN Len(TextOf(s)) ELSE AtOf(s)

LEMMA WritePlaceIs ==
    ASSUME NEW f, OnDisk(f)
    PROVE  WritePlace(f) \in Nat /\ WritePlace(f) <= MaxFile
  BY TextIs DEF WritePlace, OnDisk, KernelFiles

LEMMA WritesIs ==
    ASSUME NEW f, OnDisk(f), NEW e \in Texts, NEW w \in Writes(f, e)
    PROVE  /\ w.n \in Int /\ w.n >= -1 /\ w.n <= Len(e)
           /\ w.n <= 0 => w.file = f
           /\ w.n > 0 => /\ w.file.data = Overlay(f.data, WritePlace(f), Take(e, w.n))
                         /\ w.file.pos = WritePlace(f) + w.n
                         /\ w.file.pos <= MaxFile
           /\ OnDisk(w.file) /\ w.file.mode = f.mode
           /\ f.pos >= Len(f.data) => w.file.pos >= Len(w.file.data)
  <1>1. CASE w = [file |-> f, n |-> -1]
    BY <1>1, TextIs
  <1>2. ASSUME NEW n \in 0 .. Len(e), WritePlace(f) + n <= MaxFile,
               w = [file |-> IF n = 0 THEN f
                             ELSE [f EXCEPT !.data = Overlay(f.data, WritePlace(f), Take(e, n)),
                                            !.pos = WritePlace(f) + n],
                    n |-> n]
        PROVE  /\ w.n \in Int /\ w.n >= -1 /\ w.n <= Len(e)
               /\ w.n <= 0 => w.file = f
               /\ w.n > 0 => /\ w.file.data = Overlay(f.data, WritePlace(f), Take(e, w.n))
                             /\ w.file.pos = WritePlace(f) + w.n
                             /\ w.file.pos <= MaxFile
               /\ OnDisk(w.file) /\ w.file.mode = f.mode
               /\ f.pos >= Len(f.data) => w.file.pos >= Len(w.file.data)
    <2>0. Len(e) \in Nat /\ n \in Nat /\ w.n = n
      BY <1>2, TextIs
    <2>1. CASE n = 0
      BY <1>2, <2>0, <2>1
    <2>2. CASE n # 0
      <3> DEFINE p == WritePlace(f)
                 k == Take(e, n)
                 o == Overlay(f.data, p, k)
      <3>1. f \in KernelFiles /\ f.data \in Texts /\ f.pos \in Nat /\ Len(f.data) \in Nat
            /\ Len(f.data) <= MaxFile /\ f.pos <= MaxFile
        BY TextIs DEF OnDisk, KernelFiles
      <3>2. p \in Nat /\ (f.pos >= Len(f.data) => p >= Len(f.data))
        BY <3>1 DEF WritePlace
      <3>3. k \in Texts /\ Len(k) = n
        BY <2>0, SplitIs
      <3> HIDE DEF p, k
      <3>4. o \in Texts /\ Len(o) = Longer(p + n, Len(f.data))
        BY <3>1, <3>2, <3>3, OverlayIs
      <3>5. p + n <= MaxFile
        BY <1>2 DEF p
      <3> HIDE DEF o
      <3>6. w.file = [f EXCEPT !.data = o, !.pos = p + n]
        BY <1>2, <2>2 DEF o, p, k
      <3>11. p + n \in Nat
        BY <3>2, <2>0
      <3>7. /\ w.file \in KernelFiles /\ w.file.data = o /\ w.file.pos = p + n
            /\ w.file.mode = f.mode
        BY <3>6, <3>11, <3>1, <3>4 DEF KernelFiles
      <3>8. Len(o) <= MaxFile /\ (f.pos >= Len(f.data) => p + n >= Len(o))
        BY <3>1, <3>2, <3>4, <3>5, <2>0 DEF Longer
      <3>9. OnDisk(w.file)
        BY <3>5, <3>7, <3>8 DEF OnDisk
      <3>10. w.file.data = Overlay(f.data, WritePlace(f), Take(e, w.n))
             /\ w.file.pos = WritePlace(f) + w.n
        BY <3>7, <2>0 DEF o, p, k
      <3> QED  BY <2>0, <2>2, <3>5, <3>7, <3>8, <3>9, <3>10
    <2> QED  BY <2>1, <2>2
  <1> QED  BY <1>1, <1>2 DEF Writes

\* The place of the next byte of output.
LEMMA PlaceIs ==
    ASSUME NEW s, Sound(s), NoInput(s)
    PROVE  /\ TextOf(s) \in Texts /\ AtOf(s) \in Nat
           /\ PlaceOf(s) = WritePlace(s.file) + Len(s.fp.pending)
           /\ PlaceOf(s) \in Nat
           /\ TextOf(s) # s.file.data => s.fp.pending # <<>>
  <1> DEFINE p == WritePlace(s.file)
             d == s.file.data
             e == s.fp.pending
  <1>1. d \in Texts /\ e \in Texts /\ s.file.pos \in Nat /\ Len(d) \in Nat /\ Len(e) \in Nat
        /\ (e = <<>> <=> Len(e) = 0) /\ p \in Nat
    BY TextIs, WritePlaceIs DEF Sound, States, KernelFiles, Fps
  <1>2. Len(s.fp.unread) = 0 /\ s.fp.back = EOF
    BY EmptySeq DEF NoInput
  <1>3. p = IF Appends(s.file.mode) THEN Len(d) ELSE s.file.pos
    BY DEF WritePlace
  <1>4. /\ Overlay(d, p, e) \in Texts
        /\ Len(Overlay(d, p, e)) = Longer(p + Len(e), Len(d))
    BY <1>1, OverlayIs
  <1> HIDE DEF p, d, e
  <1>5. TextOf(s) = (IF e = <<>> THEN d ELSE Overlay(d, p, e))
        /\ AtOf(s) = (IF e # <<>> THEN p + Len(e) ELSE s.file.pos)
    BY <1>1, <1>2 DEF TextOf, AtOf, p, d, e
  <1>6. TextOf(s) \in Texts /\ AtOf(s) \in Nat /\ (TextOf(s) # d => e # <<>>)
    BY <1>1, <1>4, <1>5
  <1>7. PlaceOf(s) = p + Len(e)
    <2>1. CASE Appends(s.file.mode)
      <3>1. p = Len(d)
        BY <2>1, <1>3
      <3>2. Longer(p + Len(e), Len(d)) = p + Len(e)
        BY <3>1, <1>1 DEF Longer
      <3>3. Len(TextOf(s)) = p + Len(e)
        BY <3>1, <3>2, <1>1, <1>4, <1>5
      <3> QED  BY <2>1, <3>3 DEF PlaceOf
    <2>2. CASE ~Appends(s.file.mode)
      BY <2>2, <1>1, <1>3, <1>5 DEF PlaceOf
    <2> QED  BY <2>1, <2>2
  <1> QED  BY <1>1, <1>6, <1>7 DEF p, d, e

-------------------------------------------------------------------------------
(***************************************************************************)
(* Output.                                                                 *)
(***************************************************************************)

\* From s to t the bytes went out, or t has lost some.
Wrote(s, t, data) ==
    /\ t.file.mode = s.file.mode
    /\ s.lost => t.lost
    /\ ~t.lost => IF data = <<>>
                    THEN TextOf(t) = TextOf(s) /\ AtOf(t) = AtOf(s)
                    ELSE /\ TextOf(t) = Overlay(TextOf(s), PlaceOf(s), data)
                         /\ AtOf(t) = PlaceOf(s) + Len(data)

LEMMA WroteOn ==
    ASSUME NEW s, Sound(s), NoInput(s), NEW t, NEW u,
           NEW d \in Texts, NEW e \in Texts, Wrote(s, t, d), Wrote(t, u, e)
    PROVE  Wrote(s, u, d \o e)
  <1> SUFFICES ASSUME ~u.lost
               PROVE  IF d \o e = <<>>
                        THEN TextOf(u) = TextOf(s) /\ AtOf(u) = AtOf(s)
                        ELSE /\ TextOf(u) = Overlay(TextOf(s), PlaceOf(s), d \o e)
                             /\ AtOf(u) = PlaceOf(s) + Len(d \o e)
    BY DEF Wrote
  <1>1. ~t.lost /\ t.file.mode = s.file.mode
    BY DEF Wrote
  <1>2. Len(d) \in Nat /\ Len(e) \in Nat /\ Len(d \o e) = Len(d) + Len(e) /\ d \o e \in Texts
        /\ (d = <<>> <=> Len(d) = 0) /\ (e = <<>> <=> Len(e) = 0)
        /\ (d \o e = <<>> <=> Len(d \o e) = 0)
    <2>1. d \o e \in Texts /\ Len(d \o e) = Len(d) + Len(e)
      BY JoinIs
    <2> QED  BY <2>1, TextIs
  <1>3. CASE d = <<>>
    <2>1. d \o e = e
      BY <1>3, ConcatEmptySeq DEF Texts
    <2>2. TextOf(t) = TextOf(s) /\ AtOf(t) = AtOf(s) /\ PlaceOf(t) = PlaceOf(s)
      BY <1>1, <1>3 DEF Wrote, PlaceOf
    <2> QED  BY <2>1, <2>2 DEF Wrote
  <1>4. CASE d # <<>> /\ e = <<>>
    <2>1. d \o e = d
      BY <1>4, ConcatEmptySeq DEF Texts
    <2> QED  BY <1>1, <1>4, <2>1 DEF Wrote
  <1>5. CASE d # <<>> /\ e # <<>>
    <2> DEFINE x == TextOf(s)
               p == PlaceOf(s)
               y == TextOf(t)
    <2>1. x \in Texts /\ p \in Nat
      BY PlaceIs
    <2>2. y = Overlay(x, p, d) /\ AtOf(t) = p + Len(d)
      BY <1>1, <1>5 DEF Wrote
    <2>3. PlaceOf(t) = p + Len(d)
      <3>1. CASE Appends(t.file.mode)
        <4>1. p = Len(x)
          BY <1>1, <3>1 DEF PlaceOf
        <4> HIDE DEF x, p, y
        <4>2. Len(y) = Longer(p + Len(d), Len(x))
          BY <2>1, <2>2, OverlayIs
        <4>3. Len(y) = p + Len(d)
          BY <4>1, <4>2, <1>2, <2>1 DEF Longer
        <4> QED  BY <3>1, <4>3 DEF PlaceOf, y
      <3>2. CASE ~Appends(t.file.mode)
        BY <3>2, <2>2 DEF PlaceOf
      <3> QED  BY <3>1, <3>2
    <2>4. TextOf(u) = Overlay(y, p + Len(d), e) /\ AtOf(u) = p + Len(d) + Len(e)
      BY <1>5, <2>3 DEF Wrote
    <2> HIDE DEF x, p, y
    <2>5. TextOf(u) = Overlay(x, p, d \o e)
      BY <2>1, <2>2, <2>4, <1>5, OverlayTwice
    <2>6. AtOf(u) = p + Len(d \o e)
      BY <2>1, <2>4, <1>2
    <2>7. d \o e # <<>>
      BY <1>2, <1>5
    <2> QED  BY <2>5, <2>6, <2>7 DEF x, p
  <1> QED  BY <1>3, <1>4, <1>5

LEMMA WroteNothing ==
    ASSUME NEW s, NEW t, t.file = s.file, t.lost = s.lost, t.fp.pending = s.fp.pending,
           t.fp.unread = s.fp.unread, t.fp.back = s.fp.back
    PROVE  Wrote(s, t, <<>>)
  BY DEF Wrote, TextOf, AtOf

\* What a state is made of.
LEMMA PartsAre ==
    ASSUME NEW s, Sound(s)
    PROVE  /\ s.fp \in Fps /\ s.file \in KernelFiles /\ s.lost \in BOOLEAN
           /\ s = [fp |-> s.fp, file |-> s.file, lost |-> s.lost]
           /\ s.fp.unread \in Texts /\ s.fp.pending \in Texts /\ s.fp.osize \in Nat
           /\ s.file.data \in Texts /\ s.file.pos \in Nat
           /\ Len(s.fp.pending) \in Nat /\ Len(s.fp.unread) \in Nat /\ Len(s.file.data) \in Nat
           /\ s.fp.back \in Bytes \cup {EOF}
  BY TextIs DEF Sound, States, Fps, KernelFiles

\* Bytes that are put behind those that wait.
LEMMA PendingAdded ==
    ASSUME NEW s, Sound(s), NoInput(s), NEW e \in Texts,
           Len(s.fp.pending) + Len(e) <= s.fp.osize,
           NEW t, t = [s EXCEPT !.fp.pending = @ \o e]
    PROVE  /\ Sound(t) /\ NoInput(t) /\ Wrote(s, t, e)
           /\ t.fp.pending = s.fp.pending \o e /\ t.lost = s.lost /\ t.fp.osize = s.fp.osize
           /\ Len(t.fp.pending) = Len(s.fp.pending) + Len(e)
  <1> DEFINE q == s.fp.pending \o e
  <1>1. q \in Texts /\ Len(q) = Len(s.fp.pending) + Len(e) /\ Len(e) \in Nat
    BY PartsAre, JoinIs, TextIs
  <1> HIDE DEF q
  <1>2. /\ t \in States /\ t.fp = [s.fp EXCEPT !.pending = q] /\ t.file = s.file /\ t.lost = s.lost
    BY PartsAre, <1>1 DEF States, q, Fps, Sound
  <1>3. /\ t.fp.pending = q /\ t.fp.unread = s.fp.unread /\ t.fp.back = s.fp.back
        /\ t.fp.osize = s.fp.osize /\ t.fp.out = s.fp.out /\ t.fp.eof = s.fp.eof /\ t.fp \in Fps
    BY PartsAre, <1>2, <1>1 DEF Fps
  <1>4. Sound(t)
    BY <1>1, <1>2, <1>3 DEF Sound, Sized, Ahead, NoInput
  <1>5. NoInput(t)
    BY <1>3 DEF NoInput
  <1>6. Wrote(s, t, e)
    <2> SUFFICES ASSUME ~t.lost
                 PROVE  IF e = <<>>
                          THEN TextOf(t) = TextOf(s) /\ AtOf(t) = AtOf(s)
                          ELSE /\ TextOf(t) = Overlay(TextOf(s), PlaceOf(s), e)
                               /\ AtOf(t) = PlaceOf(s) + Len(e)
      BY <1>2 DEF Wrote
    <2>1. CASE e = <<>>
      <3>1. q = s.fp.pending
        BY <2>1, PartsAre, ConcatEmptySeq DEF q, Texts
      <3> QED  BY <2>1, <3>1, <1>2, <1>3 DEF TextOf, AtOf
    <2>2. CASE e # <<>>
      <3> DEFINE p == WritePlace(s.file)
                 d == s.file.data
                 g == s.fp.pending
      <3>1. d \in Texts /\ g \in Texts /\ p \in Nat /\ Len(g) \in Nat /\ (e = <<>> <=> Len(e) = 0)
            /\ (q = <<>> <=> Len(q) = 0)
        BY PartsAre, WritePlaceIs, TextIs, <1>1 DEF Sound
      <3>2. q # <<>>
        BY <3>1, <1>1, <2>2
      <3>3. TextOf(t) = Overlay(d, p, q) /\ AtOf(t) = p + Len(q)
        BY <3>2, <1>2, <1>3 DEF TextOf, AtOf
      <3>4. PlaceOf(s) = p + Len(g)
        BY PlaceIs
      <3>5. TextOf(s) = IF g = <<>> THEN d ELSE Overlay(d, p, g)
        BY DEF TextOf
      <3> HIDE DEF p, d, g
      <3>6. AtOf(t) = PlaceOf(s) + Len(e)
        BY <3>1, <3>3, <3>4, <1>1 DEF g
      <3>7. CASE g # <<>>
        <4>1. Overlay(Overlay(d, p, g), p + Len(g), e) = Overlay(d, p, g \o e)
          BY <3>1, <3>7, OverlayTwice
        <4> QED  BY <2>2, <4>1, <3>3, <3>4, <3>5, <3>6, <3>7 DEF q, g
      <3>8. CASE g = <<>>
        <4>1. Len(g) = 0 /\ g \o e = e
          BY <3>8, EmptySeq, ConcatEmptySeq DEF Texts
        <4>2. p + Len(g) = p
          BY <4>1, <3>1
        <4> QED  BY <2>2, <4>1, <4>2, <3>3, <3>4, <3>5, <3>6, <3>8 DEF q, g
      <3> QED  BY <3>7, <3>8
    <2> QED  BY <2>1, <2>2
  <1> QED  BY <1>1, <1>2, <1>3, <1>4, <1>5, <1>6 DEF q

\* Where there is no input in hand.
LEMMA DryAhead ==
    ASSUME NEW p, NEW f, OnDisk(f), p.unread = <<>>, p.back = EOF,
           p.eof => f.pos >= Len(f.data)
    PROVE  Ahead(p, f)
  <1>1. f.pos \in Nat /\ Len(<<>>) = 0
    BY EmptySeq DEF OnDisk, KernelFiles
  <1>2. SubSeq(f.data, f.pos - Len(p.unread) + 1, f.pos) = <<>>
    <2>1. f.pos - Len(p.unread) + 1 = f.pos + 1
      BY <1>1
    <2> QED  BY <1>1, <2>1, SubSeqEmpty
  <1>3. Len(p.unread) = 0
    BY <1>1
  <1> QED  BY <1>1, <1>2, <1>3 DEF Ahead

\* Bytes that go past an empty buffer.
LEMMA WroteThrough ==
    ASSUME NEW s, Sound(s), NoInput(s), NoOutput(s), NEW e \in Texts,
           NEW w \in Writes(s.file, e), w.n > 0,
           NEW t, t = [s EXCEPT !.file = w.file]
    PROVE  /\ Sound(t) /\ NoInput(t) /\ NoOutput(t) /\ Wrote(s, t, Take(e, w.n))
           /\ t.fp = s.fp /\ t.lost = s.lost
  <1>1. /\ w.n \in Nat /\ w.n <= Len(e) /\ OnDisk(w.file) /\ w.file.mode = s.file.mode
        /\ w.file.data = Overlay(s.file.data, WritePlace(s.file), Take(e, w.n))
        /\ w.file.pos = WritePlace(s.file) + w.n
        /\ s.file.pos >= Len(s.file.data) => w.file.pos >= Len(w.file.data)
    BY WritesIs DEF Sound
  <1>2. Take(e, w.n) \in Texts /\ Len(Take(e, w.n)) = w.n
    BY <1>1, SplitIs
  <1>3. t \in States /\ t.fp = s.fp /\ t.file = w.file /\ t.lost = s.lost
    BY PartsAre, <1>1 DEF States, OnDisk
  <1>4. s.fp.unread = <<>> /\ s.fp.back = EOF /\ s.fp.pending = <<>> /\ Len(<<>>) = 0
    BY EmptySeq DEF NoInput, NoOutput
  <1>5. w.file.pos \in Nat /\ Len(w.file.data) \in Nat
    BY <1>1, TextIs DEF OnDisk, KernelFiles
  <1>7. Ahead(t.fp, t.file)
    <2>1. s.fp.eof => w.file.pos >= Len(w.file.data)
      BY <1>1 DEF Sound, Ahead
    <2> QED  BY <1>1, <1>3, <1>4, <2>1, DryAhead
  <1>8. Sound(t) /\ NoInput(t) /\ NoOutput(t)
    BY <1>1, <1>3, <1>7 DEF Sound, NoInput, NoOutput
  <1>9. Wrote(s, t, Take(e, w.n))
    <2>1. Take(e, w.n) # <<>>
      BY <1>1, <1>2, <1>4
    <2>2. TextOf(s) = s.file.data /\ TextOf(t) = w.file.data
      BY <1>3, <1>4 DEF TextOf
    <2>3. PlaceOf(s) = WritePlace(s.file)
      <3>1. PlaceOf(s) = WritePlace(s.file) + 0
        BY PlaceIs, <1>4
      <3> QED  BY <3>1, WritePlaceIs DEF Sound
    <2>4. AtOf(t) = w.file.pos
      BY <1>3, <1>4, <1>5 DEF AtOf
    <2> QED  BY <1>1, <1>2, <1>3, <2>1, <2>2, <2>3, <2>4 DEF Wrote
  <1> QED  BY <1>3, <1>8, <1>9

\* What a flush leaves: the text as it was, or a stream that has lost some.
LEMMA FlushGives ==
    ASSUME NEW s, Sound(s), NEW o \in Flush(s)
    PROVE  /\ Sound(o.st) /\ Roomy(o.st) /\ Wrote(s, o.st, <<>>)
           /\ o.ret \in {0, EOF}
           /\ o.ret = 0 => NoOutput(o.st) /\ o.st.lost = s.lost
           /\ o.ret = EOF => o.st.lost
           /\ NoOutput(s) => o.ret = 0 /\ o.st = s
           /\ o.st.fp.unread = s.fp.unread /\ o.st.fp.back = s.fp.back
           /\ o.st.fp.osize = s.fp.osize /\ o.st.fp.eof = s.fp.eof
  <1>1. CASE s.fp.pending = <<>>
    <2>1. o.st = s /\ o.ret = 0
      BY <1>1 DEF Flush
    <2>2. Roomy(s)
      BY <1>1, PartsAre, EmptySeq DEF Roomy
    <2> QED  BY <1>1, <2>1, <2>2, WroteNothing DEF NoOutput, EOF
  <1>2. CASE s.fp.pending # <<>>
    <2> DEFINE e == s.fp.pending
               g(w) == [s EXCEPT !.file = w.file, !.fp.pending = <<>>]
               b(w) == [s EXCEPT !.file = w.file, !.fp.err = TRUE, !.lost = TRUE]
    <2>1. PICK w \in Writes(s.file, e) :
              o = IF w.n = Len(e) THEN [st |-> g(w), ret |-> 0] ELSE [st |-> b(w), ret |-> EOF]
      BY <1>2 DEF Flush
    <2>2. e \in Texts /\ Len(e) \in Nat /\ Len(e) # 0 /\ s.fp.unread = <<>> /\ s.fp.back = EOF
          /\ Len(<<>>) = 0 /\ <<>> \in Texts
      BY <1>2, PartsAre, TextIs, EmptySeq DEF Sound, Ahead, Texts
    <2>3. /\ w.n \in Int /\ w.n <= Len(e) /\ OnDisk(w.file) /\ w.file.mode = s.file.mode
          /\ w.n > 0 => /\ w.file.data = Overlay(s.file.data, WritePlace(s.file), Take(e, w.n))
                        /\ w.file.pos = WritePlace(s.file) + w.n
          /\ s.file.pos >= Len(s.file.data) => w.file.pos >= Len(w.file.data)
      BY <2>2, WritesIs DEF Sound
    <2>4. w.file \in KernelFiles /\ w.file.pos \in Nat /\ Len(w.file.data) \in Nat
      BY <2>3, TextIs DEF OnDisk, KernelFiles
    <2>5. s.fp.eof => w.file.pos >= Len(w.file.data)
      BY <2>3 DEF Sound, Ahead
    <2>6. CASE w.n = Len(e)
      <3>1. o.st = g(w) /\ o.ret = 0
        BY <2>1, <2>6
      <3>2. /\ o.st \in States /\ o.st.file = w.file /\ o.st.lost = s.lost
            /\ o.st.fp = [s.fp EXCEPT !.pending = <<>>] /\ o.st.fp \in Fps
        <4> DEFINE q == [s.fp EXCEPT !.pending = <<>>]
        <4>1. q \in Fps
          BY <2>2, PartsAre DEF Fps
        <4>2. o.st = [s EXCEPT !.file = w.file, !.fp = q]
          BY <3>1 DEF Sound, States
        <4> HIDE DEF q
        <4>3. o.st \in States /\ o.st.file = w.file /\ o.st.lost = s.lost /\ o.st.fp = q
          BY <4>1, <4>2, <2>4 DEF Sound, States
        <4> QED  BY <4>1, <4>3 DEF q
      <3>3. /\ o.st.fp.pending = <<>> /\ o.st.fp.unread = s.fp.unread /\ o.st.fp.back = s.fp.back
            /\ o.st.fp.osize = s.fp.osize /\ o.st.fp.eof = s.fp.eof /\ o.st.fp.out = s.fp.out
        BY <3>2, PartsAre DEF Fps
      <3>4. Ahead(o.st.fp, o.st.file)
        BY <3>2, <3>3, <2>2, <2>3, <2>5, DryAhead
      <3>5. Sound(o.st)
        BY <3>2, <3>3, <3>4, <2>2, <2>3, PartsAre DEF Sound, Sized
      <3>6. Roomy(o.st)
        BY <3>3, <2>2, PartsAre DEF Roomy
      <3>7. Wrote(s, o.st, <<>>)
        <4>1. Take(e, w.n) = e
          BY <2>2, <2>6, SubSeqFull DEF Take, Texts
        <4>2. TextOf(o.st) = w.file.data /\ TextOf(s) = w.file.data
          BY <1>2, <2>2, <2>3, <2>6, <3>2, <3>3, <4>1 DEF TextOf
        <4>3. AtOf(o.st) = w.file.pos /\ AtOf(s) = w.file.pos
          BY <1>2, <2>2, <2>3, <2>4, <2>6, <3>2, <3>3 DEF AtOf
        <4> QED  BY <2>3, <3>2, <4>2, <4>3 DEF Wrote
      <3> QED  BY <1>2, <3>1, <3>2, <3>3, <3>5, <3>6, <3>7 DEF NoOutput, EOF
    <2>7. CASE w.n # Len(e)
      <3>1. o.st = b(w) /\ o.ret = EOF
        BY <2>1, <2>7
      <3>2. /\ o.st \in States /\ o.st.file = w.file /\ o.st.lost = TRUE
            /\ o.st.fp = [s.fp EXCEPT !.err = TRUE] /\ o.st.fp \in Fps
        <4> DEFINE q == [s.fp EXCEPT !.err = TRUE]
        <4>1. q \in Fps
          BY PartsAre DEF Fps
        <4>2. o.st = [s EXCEPT !.file = w.file, !.fp = q, !.lost = TRUE]
          BY <3>1 DEF Sound, States
        <4> HIDE DEF q
        <4>3. o.st \in States /\ o.st.file = w.file /\ o.st.lost = TRUE /\ o.st.fp = q
          BY <4>1, <4>2, <2>4 DEF Sound, States
        <4> QED  BY <4>1, <4>3 DEF q
      <3>3. /\ o.st.fp.pending = e /\ o.st.fp.unread = s.fp.unread /\ o.st.fp.back = s.fp.back
            /\ o.st.fp.osize = s.fp.osize /\ o.st.fp.eof = s.fp.eof /\ o.st.fp.out = s.fp.out
        BY <3>2, PartsAre DEF Fps
      <3>4. Ahead(o.st.fp, o.st.file)
        BY <3>2, <3>3, <2>2, <2>3, <2>5, DryAhead
      <3>5. Sound(o.st)
        BY <3>2, <3>3, <3>4, <2>3 DEF Sound, Sized
      <3> QED  BY <1>2, <3>1, <3>2, <3>3, <3>5, <2>3 DEF NoOutput, EOF, Wrote, Roomy
    <2> QED  BY <2>6, <2>7
  <1> QED  BY <1>1, <1>2

LEMMA BufferedIs ==
    ASSUME NEW s, Sound(s), NoInput(s), Roomy(s), NEW t \in Buffered(s)
    PROVE  /\ Sound(t) /\ NoInput(t) /\ Roomy(t) /\ Wrote(s, t, <<>>)
           /\ t.fp.osize = 0 => NoOutput(t)
           /\ t.lost = s.lost
  <1>1. CASE t = s
    <2>1. t.fp.osize = 0 => NoOutput(t)
      BY <1>1, PartsAre, TextIs DEF Sound, Sized, NoOutput
    <2> QED  BY <1>1, <2>1, WroteNothing
  <1>2. ASSUME s.fp.osize = 0, NEW k \in Nat, NEW x \in {"own", "none"}, k = 0 <=> x = "none",
               t = [s EXCEPT !.fp.out = x, !.fp.osize = k]
        PROVE  /\ Sound(t) /\ NoInput(t) /\ Roomy(t) /\ Wrote(s, t, <<>>)
               /\ NoOutput(t) /\ t.lost = s.lost
    <2>1. /\ t \in States /\ t.file = s.file /\ t.lost = s.lost
          /\ t.fp = [s.fp EXCEPT !.out = x, !.osize = k] /\ t.fp \in Fps
      <3> DEFINE q == [s.fp EXCEPT !.out = x, !.osize = k]
      <3>1. q \in Fps
        BY PartsAre DEF Fps
      <3>2. t = [s EXCEPT !.fp = q]
        BY <1>2 DEF Sound, States
      <3> HIDE DEF q
      <3>3. t \in States /\ t.file = s.file /\ t.lost = s.lost /\ t.fp = q
        BY <3>1, <3>2 DEF Sound, States
      <3> QED  BY <3>1, <3>3 DEF q
    <2>2. /\ t.fp.pending = s.fp.pending /\ t.fp.unread = s.fp.unread /\ t.fp.back = s.fp.back
          /\ t.fp.osize = k /\ t.fp.eof = s.fp.eof /\ t.fp.out = x
      BY <2>1, PartsAre DEF Fps
    <2>3. s.fp.pending = <<>> /\ Len(s.fp.pending) = 0
      BY <1>2, PartsAre, TextIs DEF Sound, Sized
    <2>4. Sound(t)
      BY <1>2, <2>1, <2>2, <2>3 DEF Sound, Sized, Ahead
    <2> QED  BY <1>2, <2>1, <2>2, <2>3, <2>4, WroteNothing DEF NoInput, NoOutput, Roomy
  <1>3. CASE s.fp.osize = 0 /\ s.fp.out = "lazy"
             /\ t = [s EXCEPT !.fp.out = "own", !.fp.osize = BUFSIZ]
    <2>1. BUFSIZ \in Nat /\ BUFSIZ # 0
      BY StreamAssumption
    <2> QED  BY <1>2, <1>3, <2>1
  <1>4. CASE s.fp.osize = 0 /\ s.fp.out = "lazy" /\ t = [s EXCEPT !.fp.out = "none"]
    <2> DEFINE q == [s.fp EXCEPT !.out = "none"]
    <2>1. q = [s.fp EXCEPT !.out = "none", !.osize = 0]
      BY <1>4, PartsAre DEF Fps
    <2>2. t = [s EXCEPT !.fp = q]
      BY <1>4 DEF Sound, States
    <2>3. [s EXCEPT !.fp.out = "none", !.fp.osize = 0]
             = [s EXCEPT !.fp = [s.fp EXCEPT !.out = "none", !.osize = 0]]
      BY DEF Sound, States
    <2>4. t = [s EXCEPT !.fp.out = "none", !.fp.osize = 0]
      BY <2>1, <2>2, <2>3
    <2> HIDE DEF q
    <2>5. 0 \in Nat /\ "none" \in {"own", "none"}
      OBVIOUS
    <2>6. Sound(t) /\ NoInput(t) /\ Roomy(t) /\ Wrote(s, t, <<>>) /\ NoOutput(t) /\ t.lost = s.lost
      BY <1>2, <1>4, <2>4, <2>5
    <2> QED  BY <2>6
  <1> QED  BY <1>1, <1>3, <1>4 DEF Buffered

LEMMA OneByte ==
    ASSUME NEW b \in Bytes
    PROVE  /\ <<b>> \in Texts /\ Len(<<b>>) = 1 /\ <<b>> # <<>> /\ Take(<<b>>, 1) = <<b>>
           /\ \A d \in Texts : Append(d, b) = d \o <<b>>
  <1>1. <<b>> \in Texts /\ Len(<<b>>) = 1
    BY DEF Texts
  <1>2. Take(<<b>>, 1) = <<b>>
    BY <1>1, SubSeqFull DEF Take, Texts
  <1> QED  BY <1>1, <1>2, AppendIsConcat DEF Texts

LEMMA UnbufferedGives ==
    ASSUME NEW s, Sound(s), NoInput(s), NoOutput(s), s.fp.osize = 0, NEW b \in Bytes,
           NEW o \in Unbuffered(s, b)
    PROVE  /\ Sound(o.st) /\ NoInput(o.st) /\ Roomy(o.st) /\ o.put \in BOOLEAN
           /\ Wrote(s, o.st, IF o.put THEN <<b>> ELSE <<>>)
  <1>1. PICK w \in Writes(s.file, <<b>>) :
            o = [st |-> [s EXCEPT !.file = w.file, !.fp.err = @ \/ w.n # 1], put |-> w.n = 1]
    BY DEF Unbuffered
  <1>2. w.n \in Int /\ w.n <= 1 /\ (w.n <= 0 => w.file = s.file) /\ OnDisk(w.file)
    BY OneByte, WritesIs DEF Sound
  <1> DEFINE t == [s EXCEPT !.file = w.file]
             u == o.st
  <1>3. w.n = 1 => Sound(t) /\ Wrote(s, t, <<b>>)
    BY OneByte, WroteThrough
  <1>4. w.n # 1 => Sound(t) /\ Wrote(s, t, <<>>)
    <2> SUFFICES ASSUME w.n # 1  PROVE t = s
      BY WroteNothing
    <2>1. w.file = s.file
      BY <1>2
    <2> QED  BY <2>1, PartsAre
  <1>5. t \in States /\ t.file = w.file /\ t.fp = s.fp /\ t.lost = s.lost
    BY PartsAre, <1>2 DEF States, OnDisk
  <1>6. /\ u \in States /\ u.file = w.file /\ u.lost = s.lost
        /\ u.fp = [s.fp EXCEPT !.err = @ \/ w.n # 1] /\ u.fp \in Fps
    <2> DEFINE x == s.fp.err \/ w.n # 1
    <2>0. x \in BOOLEAN
      OBVIOUS
    <2>1. u = [s EXCEPT !.file = w.file, !.fp.err = x]
      BY <1>1
    <2> HIDE DEF x
    <2> DEFINE q == [s.fp EXCEPT !.err = x]
    <2>2. q \in Fps
      BY <2>0, PartsAre DEF Fps
    <2>3. u = [s EXCEPT !.file = w.file, !.fp = q]
      BY <2>1 DEF Sound, States
    <2> HIDE DEF q
    <2>4. u \in States /\ u.file = w.file /\ u.lost = s.lost /\ u.fp = q
      BY <2>2, <2>3, <1>2 DEF Sound, States, OnDisk
    <2> QED  BY <2>2, <2>4 DEF x, q
  <1>7. /\ u.fp.pending = s.fp.pending /\ u.fp.unread = s.fp.unread /\ u.fp.back = s.fp.back
        /\ u.fp.osize = s.fp.osize /\ u.fp.eof = s.fp.eof /\ u.fp.out = s.fp.out
    BY <1>6, PartsAre DEF Fps
  <1> HIDE DEF t, u
  <1>8. Sound(t) => Sound(u)
    BY <1>2, <1>5, <1>6, <1>7 DEF Sound, Sized, Ahead
  <1>9. TextOf(u) = TextOf(t) /\ AtOf(u) = AtOf(t)
    BY <1>5, <1>6, <1>7 DEF TextOf, AtOf
  <1>10. \A d : Wrote(s, t, d) => Wrote(s, u, d)
    BY <1>5, <1>6, <1>9 DEF Wrote
  <1>11. o.put = (w.n = 1)
    BY <1>1
  <1>12. Sound(u) /\ NoInput(u) /\ Roomy(u)
    <2>1. Sound(u)
      BY <1>3, <1>4, <1>8
    <2> QED  BY <2>1, <1>6, <1>7 DEF NoInput, Roomy
  <1>13. CASE w.n = 1
    BY <1>3, <1>10, <1>11, <1>12, <1>13 DEF u
  <1>14. CASE w.n # 1
    BY <1>4, <1>10, <1>11, <1>12, <1>14 DEF u
  <1> QED  BY <1>13, <1>14

\* A lost stream wrote whatever it did.
LEMMA WroteLost ==
    ASSUME NEW s, NEW t, NEW d, NEW e, Wrote(s, t, d), t.lost
    PROVE  Wrote(s, t, e)
  BY DEF Wrote

LEMMA WroteThen ==
    ASSUME NEW s, Sound(s), NoInput(s), NEW t, NEW u, NEW d \in Texts
    PROVE  /\ Wrote(s, t, d) /\ Wrote(t, u, <<>>) => Wrote(s, u, d)
           /\ Wrote(s, t, <<>>) /\ Wrote(t, u, d) => Wrote(s, u, d)
  <1>1. <<>> \in Texts /\ d \o <<>> = d /\ <<>> \o d = d
    BY EmptySeq, ConcatEmptySeq DEF Texts
  <1>2. Wrote(s, t, d) /\ Wrote(t, u, <<>>) => Wrote(s, u, d \o <<>>)
    BY <1>1, WroteOn
  <1>3. Wrote(s, t, <<>>) /\ Wrote(t, u, d) => Wrote(s, u, <<>> \o d)
    BY <1>1, WroteOn
  <1> QED  BY <1>1, <1>2, <1>3

LEMMA StoredGives ==
    ASSUME NEW s, Sound(s), NoInput(s), Roomy(s), s.fp.osize # 0, NEW b \in Bytes
    PROVE  /\ Sound(Stored(s, b)) /\ NoInput(Stored(s, b)) /\ Wrote(s, Stored(s, b), <<b>>)
           /\ Stored(s, b).fp.osize = s.fp.osize
  <1>1. CASE Len(s.fp.pending) < s.fp.osize
    <2> DEFINE t == Stored(s, b)
    <2>1. t = [s EXCEPT !.fp.pending = Append(@, b)]
      BY <1>1 DEF Stored
    <2>2. Append(s.fp.pending, b) = s.fp.pending \o <<b>>
      BY PartsAre, OneByte
    <2>3. t = [s EXCEPT !.fp.pending = @ \o <<b>>]
      BY <2>1, <2>2
    <2>4. Len(s.fp.pending) + Len(<<b>>) <= s.fp.osize
      BY <1>1, OneByte, PartsAre
    <2> HIDE DEF t
    <2>5. Sound(t) /\ NoInput(t) /\ Wrote(s, t, <<b>>) /\ t.fp.osize = s.fp.osize
      BY <2>3, <2>4, OneByte, PendingAdded
    <2> QED  BY <2>5 DEF t
  <1>2. CASE ~(Len(s.fp.pending) < s.fp.osize)
    <2>1. Stored(s, b) = s
      BY <1>2 DEF Stored
    <2>2. s.lost
      <3>1. s.fp.osize > 0
        BY PartsAre
      <3> QED  BY <1>2, <3>1 DEF Roomy
    <2>3. Wrote(s, s, <<b>>)
      BY <2>2, WroteNothing, WroteLost
    <2> QED  BY <2>1, <2>3
  <1> QED  BY <1>1, <1>2

\* A byte went out or it waits, unless it was refused.
LEMMA FputcInGives ==
    ASSUME NEW s, Sound(s), NoInput(s), Roomy(s), s.fp.osize = 0 => NoOutput(s),
           NEW b \in Bytes, NEW o \in FputcIn(s, b)
    PROVE  /\ Sound(o.st) /\ NoInput(o.st) /\ Roomy(o.st) /\ o.put \in BOOLEAN
           /\ Wrote(s, o.st, IF o.put THEN <<b>> ELSE <<>>)
  <1>1. CASE s.fp.osize = 0
    BY <1>1, UnbufferedGives DEF FputcIn
  <1>2. CASE s.fp.osize # 0
    <2> DEFINE u == Stored(s, b)
    <2>1. Sound(u) /\ NoInput(u) /\ Wrote(s, u, <<b>>) /\ u.fp.osize = s.fp.osize
      BY <1>2, StoredGives
    <2>2. /\ o \in {[st |-> p.st, put |-> p.ret = 0] : p \in Flush(u)}
          \/ /\ o = [st |-> u, put |-> TRUE]
             /\ Len(u.fp.pending) # s.fp.osize
      BY <1>2 DEF FputcIn
    <2> HIDE DEF u
    <2>3. ASSUME NEW p \in Flush(u), o = [st |-> p.st, put |-> p.ret = 0]
          PROVE  /\ Sound(o.st) /\ NoInput(o.st) /\ Roomy(o.st) /\ o.put \in BOOLEAN
                 /\ Wrote(s, o.st, IF o.put THEN <<b>> ELSE <<>>)
      <3>1. /\ Sound(p.st) /\ Roomy(p.st) /\ Wrote(u, p.st, <<>>) /\ p.ret \in {0, EOF}
            /\ p.ret = EOF => p.st.lost
            /\ p.st.fp.unread = u.fp.unread /\ p.st.fp.back = u.fp.back
        BY <2>1, FlushGives
      <3>2. Wrote(s, p.st, <<b>>)
        BY <2>1, <3>1, OneByte, WroteThen
      <3>3. p.ret # 0 => Wrote(s, p.st, <<>>)
        BY <3>1, <3>2, WroteLost
      <3> QED  BY <2>1, <2>3, <3>1, <3>2, <3>3 DEF NoInput
    <2>4. CASE o = [st |-> u, put |-> TRUE] /\ Len(u.fp.pending) # s.fp.osize
      <3>1. Roomy(u)
        BY <2>1, <2>4, PartsAre DEF Roomy, Sound, Sized
      <3> QED  BY <2>1, <2>4, <3>1
    <2> QED  BY <2>2, <2>3, <2>4
  <1> QED  BY <1>1, <1>2

LEMMA FputcGives ==
    ASSUME NEW s, Sound(s), NoInput(s), Roomy(s), NEW b \in Bytes, NEW o \in Fputc(s, b)
    PROVE  /\ Sound(o.st) /\ NoInput(o.st) /\ Roomy(o.st) /\ o.put \in BOOLEAN
           /\ Wrote(s, o.st, IF o.put THEN <<b>> ELSE <<>>)
  <1>1. PICK t \in Buffered(s) : o \in FputcIn(t, b)
    BY DEF Fputc
  <1>2. /\ Sound(t) /\ NoInput(t) /\ Roomy(t) /\ Wrote(s, t, <<>>)
        /\ t.fp.osize = 0 => NoOutput(t)
    BY BufferedIs
  <1> DEFINE e == IF o.put THEN <<b>> ELSE <<>>
  <1>3. /\ Sound(o.st) /\ NoInput(o.st) /\ Roomy(o.st) /\ o.put \in BOOLEAN
        /\ Wrote(t, o.st, e)
    BY <1>1, <1>2, FputcInGives
  <1>4. e \in Texts
    BY OneByte, EmptySeq DEF Texts
  <1> HIDE DEF e
  <1>5. Wrote(s, o.st, e)
    BY <1>2, <1>3, <1>4, WroteThen
  <1> QED  BY <1>3, <1>5 DEF e

\* What n bytes of data that went out leave.
Put1(s, data) ==
    {o \in [st : States, n : 0 .. Len(data), more : BOOLEAN] :
        /\ o.more => o.n < Len(data)
        /\ Sound(o.st) /\ NoInput(o.st) /\ Roomy(o.st)
        /\ Wrote(s, o.st, Take(data, o.n))}

LEMMA TakeNothing ==
    ASSUME NEW d \in Texts
    PROVE  Take(d, 0) = <<>> /\ Take(d, Len(d)) = d /\ Drop(d, 0) = d
  <1>1. Take(d, 0) = <<>> /\ Len(d) \in Nat
    BY SplitIs, TextIs
  <1>2. Drop(d, 0) = SubSeq(d, 1, Len(d))
    BY DEF Drop
  <1> QED  BY <1>1, <1>2, SubSeqFull DEF Take, Texts

LEMMA TakeOneMore ==
    ASSUME NEW d \in Texts, NEW n \in Nat, n < Len(d)
    PROVE  /\ Take(d, n) \in Texts /\ d[n + 1] \in Bytes /\ n + 1 \in 1 .. Len(d)
           /\ Take(d, n) \o <<d[n + 1]>> = Take(d, n + 1)
  <1> DEFINE e == Drop(d, n)
             b == d[n + 1]
  <1>1. Len(d) \in Nat /\ n + 1 \in 1 .. Len(d) /\ n <= Len(d) /\ b \in Bytes
    BY TextIs
  <1>2. /\ e \in Texts /\ Len(e) = Len(d) - n /\ Take(d, n) \in Texts
        /\ \A i \in 1 .. Len(d) - n : e[i] = d[n + i]
    BY <1>1, SplitIs
  <1>3. Take(d, n) \o Take(e, 1) = Take(d, n + 1)
    <2>1. \A k \in Nat : n + k <= Len(d) => Take(d, n) \o Take(Drop(d, n), k) = Take(d, n + k)
      BY TakeOn
    <2>2. 1 \in Nat /\ n + 1 <= Len(d)
      BY <1>1
    <2> QED  BY <2>1, <2>2
  <1> HIDE DEF e
  <1>4. Len(e) >= 1 /\ e[1] = b /\ 1 \in Nat
    BY <1>1, <1>2
  <1>5. Take(e, 1) \in Texts /\ Len(Take(e, 1)) = 1 /\ Take(e, 1)[1] = b
    <2>1. Take(e, 1) \in Texts /\ Len(Take(e, 1)) = 1 /\ \A i \in 1 .. 1 : Take(e, 1)[i] = e[i]
      BY <1>2, <1>4, SplitIs
    <2> QED  BY <2>1, <1>4
  <1>6. <<b>> \in Texts /\ Len(<<b>>) = 1 /\ <<b>>[1] = b
    BY <1>1, OneByte
  <1>7. Take(e, 1) = <<b>>
    BY <1>5, <1>6, SameText
  <1> QED  BY <1>1, <1>2, <1>3, <1>7

LEMMA PutEachGives ==
    ASSUME NEW s, Sound(s), NoInput(s), Roomy(s), NEW data \in Texts, data # <<>>
    PROVE  PutEach(s, data) \subseteq Put1(s, data)
  <1>0. Len(data) \in Nat /\ Len(data) # 0
    BY TextIs
  <1>1. [st |-> s, n |-> 0, more |-> TRUE] \in Put1(s, data)
    BY <1>0, TakeNothing, WroteNothing DEF Put1, Sound
  <1>2. ASSUME NEW o \in Put1(s, data), o.more, NEW r \in PutTurn(o, data)
        PROVE  r \in Put1(s, data)
    <2> DEFINE k == o.n + 1
               b == data[k]
    <2>1. PICK p \in Fputc(o.st, b) : r = [st   |-> p.st,
                                           n    |-> IF p.put THEN k ELSE o.n,
                                           more |-> p.put /\ k < Len(data)]
      BY <1>2 DEF PutTurn
    <2>2. o.n \in Nat /\ o.n < Len(data) /\ k \in 1 .. Len(data) /\ b \in Bytes
      BY <1>0, <1>2, TextIs DEF Put1
    <2>3. Sound(o.st) /\ NoInput(o.st) /\ Roomy(o.st) /\ Wrote(s, o.st, Take(data, o.n))
      BY DEF Put1
    <2>4. /\ Sound(p.st) /\ NoInput(p.st) /\ Roomy(p.st) /\ p.put \in BOOLEAN
          /\ Wrote(o.st, p.st, IF p.put THEN <<b>> ELSE <<>>)
      BY <2>2, <2>3, FputcGives
    <2>5. Take(data, o.n) \in Texts /\ Take(data, o.n) \o <<b>> = Take(data, k)
      <3>1. \A n \in Nat : n < Len(data) =>
               Take(data, n) \in Texts /\ Take(data, n) \o <<data[n + 1]>> = Take(data, n + 1)
        BY TakeOneMore
      <3> QED  BY <3>1, <2>2
    <2>6. Take(data, o.n) \o <<b>> = Take(data, k)
      BY <2>5
    <2> HIDE DEF b
    <2>7. CASE p.put
      <3>1. Wrote(s, p.st, Take(data, o.n) \o <<b>>)
        BY <2>2, <2>3, <2>4, <2>5, <2>7, OneByte, WroteOn
      <3>2. Wrote(s, p.st, Take(data, k))
        BY <3>1, <2>6
      <3>3. k \in 0 .. Len(data) /\ (k < Len(data)) \in BOOLEAN
        BY <2>2
      <3>4. r.st = p.st /\ r.n = k /\ (r.more <=> k < Len(data))
            /\ r \in [st : States, n : 0 .. Len(data), more : BOOLEAN]
        <4>1. p.st \in States
          BY <2>4 DEF Sound
        <4> QED  BY <2>1, <2>7, <3>3, <4>1
      <3> QED  BY <2>4, <3>2, <3>4 DEF Put1
    <2>8. CASE ~p.put
      <3>1. Wrote(s, p.st, Take(data, o.n))
        BY <2>3, <2>4, <2>5, <2>8, WroteThen
      <3>2. o.n \in 0 .. Len(data)
        BY <2>2
      <3>3. r.st = p.st /\ r.n = o.n /\ r.more = FALSE
            /\ r \in [st : States, n : 0 .. Len(data), more : BOOLEAN]
        <4>1. p.st \in States
          BY <2>4 DEF Sound
        <4> QED  BY <2>1, <2>8, <3>2, <4>1
      <3> QED  BY <2>4, <3>1, <3>3 DEF Put1
    <2> QED  BY <2>4, <2>7, <2>8
  <1> QED  BY <1>0, <1>1, <1>2, PutEachWithin

\* A stream that only has its error flag set.
LEMMA ErrSet ==
    ASSUME NEW s, Sound(s), NEW t, t = [s EXCEPT !.fp.err = TRUE]
    PROVE  /\ Sound(t) /\ t.file = s.file /\ t.lost = s.lost
           /\ t.fp.pending = s.fp.pending /\ t.fp.unread = s.fp.unread /\ t.fp.back = s.fp.back
           /\ t.fp.osize = s.fp.osize /\ t.fp.eof = s.fp.eof /\ t.fp.out = s.fp.out
           /\ t.fp.in = s.fp.in
  <1> DEFINE q == [s.fp EXCEPT !.err = TRUE]
  <1>1. q \in Fps
    BY PartsAre DEF Fps
  <1>2. t = [s EXCEPT !.fp = q]
    BY DEF Sound, States
  <1>3. /\ q.pending = s.fp.pending /\ q.unread = s.fp.unread /\ q.back = s.fp.back
        /\ q.osize = s.fp.osize /\ q.eof = s.fp.eof /\ q.out = s.fp.out /\ q.in = s.fp.in
    BY PartsAre DEF Fps
  <1> HIDE DEF q
  <1>4. t \in States /\ t.file = s.file /\ t.lost = s.lost /\ t.fp = q
    BY <1>1, <1>2 DEF Sound, States
  <1>5. Sound(t)
    BY <1>1, <1>3, <1>4 DEF Sound, Sized, Ahead
  <1> QED  BY <1>3, <1>4, <1>5

\* A chunk of fwrite() sends k bytes of what is left.
LEMMA FwriteChunkGives ==
    ASSUME NEW s, Sound(s), NoInput(s), Roomy(s), s.fp.osize # 0,
           NEW left \in Texts, NEW n \in Nat, NEW o \in FwriteChunk(s, left, n)
    PROVE  \E k \in 0 .. Len(left) :
              /\ o = [st |-> o.st, n |-> n + k, more |-> o.more]
              /\ o.more \in BOOLEAN /\ (o.more => k < Len(left))
              /\ Sound(o.st) /\ NoInput(o.st) /\ Roomy(o.st) /\ o.st.fp.osize # 0
              /\ Wrote(s, o.st, Take(left, k))
  <1> DEFINE room  == s.fp.osize - Len(s.fp.pending)
             k     == IF room < Len(left) THEN room ELSE Len(left)
             chunk == [s EXCEPT !.fp.pending = @ \o Take(left, k)]
  <1>0. room \in Nat /\ Len(left) \in Nat /\ k \in 0 .. Len(left) /\ k <= room
    BY PartsAre, TextIs DEF Sound, Sized
  <1>1. /\ Sound(chunk) /\ NoInput(chunk) /\ Wrote(s, chunk, Take(left, k))
        /\ chunk.fp.osize = s.fp.osize /\ chunk.lost = s.lost
        /\ Len(chunk.fp.pending) = Len(s.fp.pending) + k
    <2> DEFINE e == Take(left, k)
               t == [s EXCEPT !.fp.pending = @ \o e]
    <2>5. k \in Nat /\ k <= Len(left) /\ Len(s.fp.pending) + k <= s.fp.osize
      BY <1>0, PartsAre
    <2> HIDE DEF k
    <2>1. e \in Texts /\ Len(e) = k
      BY <2>5, SplitIs
    <2>2. Len(s.fp.pending) + Len(e) <= s.fp.osize
      BY <2>1, <2>5
    <2> HIDE DEF e
    <2>3. t = [s EXCEPT !.fp.pending = @ \o e]
      OBVIOUS
    <2> HIDE DEF t
    <2>4. /\ Sound(t) /\ NoInput(t) /\ Wrote(s, t, e) /\ t.lost = s.lost
          /\ t.fp.osize = s.fp.osize /\ Len(t.fp.pending) = Len(s.fp.pending) + Len(e)
      BY <2>1, <2>2, <2>3, PendingAdded, ZenonT(60)
    <2> QED  BY <2>1, <2>4 DEF t, e
  <1>2. \/ /\ s.fp.pending = <<>>
           /\ \E w \in Writes(s.file, left) :
                 o = IF w.n > 0 THEN [st |-> [s EXCEPT !.file = w.file], n |-> n + w.n,
                                      more |-> w.n < Len(left)]
                     ELSE [st |-> [s EXCEPT !.fp.err = TRUE], n |-> n, more |-> FALSE]
        \/ k < room /\ o = [st |-> chunk, n |-> n + k, more |-> FALSE]
        \/ \E p \in Flush(chunk) :
              o = [st |-> p.st, n |-> n + k, more |-> p.ret = 0 /\ k < Len(left)]
    BY DEF FwriteChunk
  <1> DEFINE Good(j) == /\ o = [st |-> o.st, n |-> n + j, more |-> o.more]
                        /\ o.more \in BOOLEAN /\ (o.more => j < Len(left))
                        /\ Sound(o.st) /\ NoInput(o.st) /\ Roomy(o.st) /\ o.st.fp.osize # 0
                        /\ Wrote(s, o.st, Take(left, j))
  <1> SUFFICES \E j \in 0 .. Len(left) : Good(j)
    OBVIOUS
  <1> HIDE DEF chunk, k, room
  <1>3. ASSUME s.fp.pending = <<>>, NEW w \in Writes(s.file, left), w.n > 0,
               o = [st |-> [s EXCEPT !.file = w.file], n |-> n + w.n, more |-> w.n < Len(left)]
        PROVE  w.n \in 0 .. Len(left) /\ Good(w.n)
    <2> DEFINE t == [s EXCEPT !.file = w.file]
    <2>0. t = [s EXCEPT !.file = w.file] /\ NoOutput(s)
      BY <1>3 DEF NoOutput
    <2>3. o = [st |-> t, n |-> n + w.n, more |-> w.n < Len(left)]
      BY <1>3
    <2> HIDE DEF t
    <2>1. Sound(t) /\ NoInput(t) /\ Wrote(s, t, Take(left, w.n)) /\ t.fp = s.fp /\ t.lost = s.lost
      BY <1>3, <2>0, WroteThrough
    <2>2. w.n \in 0 .. Len(left)
      BY <1>0, <1>3, WritesIs DEF Sound
    <2>4. Roomy(t) /\ t.fp.osize # 0
      BY <2>1 DEF Roomy
    <2>5. (w.n < Len(left)) \in BOOLEAN
      OBVIOUS
    <2> QED  BY <2>1, <2>2, <2>3, <2>4, <2>5
  <1>4. CASE o = [st |-> [s EXCEPT !.fp.err = TRUE], n |-> n, more |-> FALSE]
    <2> DEFINE t == [s EXCEPT !.fp.err = TRUE]
    <2>0. t = [s EXCEPT !.fp.err = TRUE]
      OBVIOUS
    <2>3. o = [st |-> t, n |-> n + 0, more |-> FALSE]
      <3>1. n + 0 = n
        OBVIOUS
      <3> QED  BY <1>4, <3>1
    <2> HIDE DEF t
    <2>1. /\ Sound(t) /\ NoInput(t) /\ Roomy(t) /\ Wrote(s, t, <<>>) /\ t.fp.osize # 0
      <3>1. /\ Sound(t) /\ Wrote(s, t, <<>>)
            /\ t.fp.unread = s.fp.unread /\ t.fp.back = s.fp.back
            /\ t.fp.pending = s.fp.pending /\ t.fp.osize = s.fp.osize /\ t.lost = s.lost
        BY <2>0, ErrSet, WroteNothing
      <3> QED  BY ONLY <3>1, NoInput(s), Roomy(s), s.fp.osize # 0 DEF NoInput, Roomy
    <2>2. Good(0)
      <3>1. Take(left, 0) = <<>>
        BY TakeNothing
      <3> QED  BY <2>1, <2>3, <3>1
    <2> QED  BY <2>2, <1>0
  <1>5. CASE k < room /\ o = [st |-> chunk, n |-> n + k, more |-> FALSE]
    <2>1. Roomy(chunk)
      BY <1>0, <1>1, <1>5, PartsAre DEF Roomy, room
    <2>2. Good(k)
      BY <1>1, <1>5, <2>1
    <2> QED  BY <2>2, <1>0
  <1>6. ASSUME NEW p \in Flush(chunk),
               o = [st |-> p.st, n |-> n + k, more |-> p.ret = 0 /\ k < Len(left)]
        PROVE  Good(k)
    <2>1. /\ Sound(p.st) /\ Roomy(p.st) /\ Wrote(chunk, p.st, <<>>)
          /\ p.st.fp.unread = chunk.fp.unread /\ p.st.fp.back = chunk.fp.back
          /\ p.st.fp.osize = chunk.fp.osize
      BY <1>1, FlushGives
    <2>2. Take(left, k) \in Texts
      BY <1>0, SplitIs
    <2>3. Wrote(s, p.st, Take(left, k))
      BY <1>1, <2>1, <2>2, WroteThen
    <2>4. /\ o = [st |-> p.st, n |-> n + k, more |-> o.more]
          /\ o.more \in BOOLEAN /\ (o.more => k < Len(left))
      BY <1>6
    <2> QED  BY <1>1, <2>1, <2>3, <2>4 DEF NoInput
  <1> HIDE DEF Good
  <1> QED  BY <1>0, <1>2, <1>3, <1>4, <1>5, <1>6

Put2(s, data) == {o \in Put1(s, data) : o.st.fp.osize # 0}

LEMMA FwriteChunksGives ==
    ASSUME NEW s, Sound(s), NoInput(s), Roomy(s), s.fp.osize # 0,
           NEW data \in Texts, data # <<>>
    PROVE  FwriteChunks(s, data) \subseteq Put2(s, data)
  <1>0. Len(data) \in Nat /\ Len(data) # 0
    BY TextIs
  <1>1. [st |-> s, n |-> 0, more |-> TRUE] \in Put2(s, data)
    BY <1>0, TakeNothing, WroteNothing DEF Put1, Put2, Sound
  <1>2. ASSUME NEW o \in Put2(s, data), o.more, NEW r \in ChunkTurn(o, data)
        PROVE  r \in Put2(s, data)
    <2> DEFINE m == o.n
               left == Drop(data, m)
               t == o.st
    <2>1. m \in Nat /\ m <= Len(data) /\ Sound(t) /\ NoInput(t) /\ Roomy(t)
          /\ Wrote(s, t, Take(data, m)) /\ t.fp.osize # 0
      BY <1>0 DEF Put1, Put2
    <2>2. r \in FwriteChunk(t, left, m)
      BY <1>2 DEF ChunkTurn
    <2> HIDE DEF m, left, t
    <2>3. left \in Texts /\ Len(left) = Len(data) - m /\ Take(data, m) \in Texts
      BY <2>1, SplitIs DEF left
    <2>4. PICK k \in 0 .. Len(left) :
              /\ r = [st |-> r.st, n |-> m + k, more |-> r.more]
              /\ r.more \in BOOLEAN /\ (r.more => k < Len(left))
              /\ Sound(r.st) /\ NoInput(r.st) /\ Roomy(r.st) /\ r.st.fp.osize # 0
              /\ Wrote(t, r.st, Take(left, k))
      BY <2>1, <2>2, <2>3, FwriteChunkGives
    <2>5. k \in Nat /\ m + k <= Len(data) /\ k <= Len(left)
      BY <1>0, <2>1, <2>3
    <2>6. Take(left, k) \in Texts /\ Take(data, m) \o Take(left, k) = Take(data, m + k)
      BY <2>1, <2>3, <2>5, SplitIs, TakeOn DEF left
    <2>7. Wrote(s, r.st, Take(data, m + k))
      <3> DEFINE d == Take(data, m)
                 e == Take(left, k)
      <3>1. Wrote(s, r.st, d \o e)
        <4>0. d \in Texts /\ e \in Texts /\ Wrote(s, t, d) /\ Wrote(t, r.st, e)
          BY <2>1, <2>3, <2>4, <2>6
        <4> HIDE DEF d, e
        <4> QED  BY <4>0, WroteOn
      <3> QED  BY <3>1, <2>6
    <2>8. r.n = m + k
      BY <2>4
    <2>9. r.n \in 0 .. Len(data) /\ (r.more => r.n < Len(data))
      BY <1>0, <2>1, <2>3, <2>4, <2>5, <2>8
    <2>10. r \in [st : States, n : 0 .. Len(data), more : BOOLEAN]
      <3>1. r.st \in States
        BY <2>4 DEF Sound
      <3> QED  BY <2>4, <2>8, <2>9, <3>1
    <2> QED  BY <2>4, <2>7, <2>8, <2>9, <2>10 DEF Put1, Put2
  <1> QED  BY <1>0, <1>1, <1>2, FwriteChunksWithin

LEMMA FwriteGives ==
    ASSUME NEW s, Sound(s), NoInput(s), Roomy(s), NEW data \in Texts, data # <<>>,
           NEW o \in Fwrite(s, data)
    PROVE  /\ o.n \in 0 .. Len(data)
           /\ Sound(o.st) /\ NoInput(o.st) /\ Roomy(o.st) /\ Wrote(s, o.st, Take(data, o.n))
  <1>1. PICK t \in Buffered(s) :
            o \in IF t.fp.osize = 0 THEN PutEach(t, data) ELSE FwriteChunks(t, data)
    BY DEF Fwrite
  <1>2. Sound(t) /\ NoInput(t) /\ Roomy(t) /\ Wrote(s, t, <<>>)
    BY BufferedIs
  <1>3. o \in Put1(t, data)
    BY <1>1, <1>2, PutEachGives, FwriteChunksGives DEF Put2
  <1>4. /\ o.n \in 0 .. Len(data) /\ Sound(o.st) /\ NoInput(o.st) /\ Roomy(o.st)
        /\ Wrote(t, o.st, Take(data, o.n))
    BY <1>3 DEF Put1
  <1> DEFINE n == o.n
             d == Take(data, n)
  <1>5. n \in Nat /\ n <= Len(data)
    BY <1>4, TextIs
  <1> HIDE DEF n
  <1>6. d \in Texts
    BY <1>5, SplitIs
  <1>7. Wrote(t, o.st, d)
    BY <1>4 DEF n
  <1> HIDE DEF d
  <1>8. Wrote(s, o.st, d)
    BY <1>2, <1>6, <1>7, WroteThen
  <1> QED  BY <1>4, <1>8 DEF d, n

-------------------------------------------------------------------------------
(***************************************************************************)
(* Input.                                                                  *)
(***************************************************************************)

\* The bytes of d from behind the first a to the first b.
Part(d, a, b) == SubSeq(d, a + 1, b)

LEMMA PartsJoin ==
    ASSUME NEW d \in Texts, NEW a \in Nat, NEW b \in Nat, NEW c \in Nat,
           a <= b, b <= c, c <= Len(d)
    PROVE  /\ Part(d, a, b) \in Texts /\ Len(Part(d, a, b)) = b - a
           /\ \A i \in 1 .. b - a : Part(d, a, b)[i] = d[a + i]
           /\ Part(d, a, b) \o Part(d, b, c) = Part(d, a, c)
  <1>0. Len(d) \in Nat
    BY TextIs
  <1> DEFINE x == Part(d, a, b)
             y == Part(d, b, c)
             z == Part(d, a, c)
  <1>1. x \in Texts /\ Len(x) = b - a /\ \A i \in 1 .. b - a : x[i] = d[a + i]
    BY <1>0, PartIs DEF Part
  <1>2. y \in Texts /\ Len(y) = c - b /\ \A i \in 1 .. c - b : y[i] = d[b + i]
    BY <1>0, PartIs DEF Part
  <1>3. z \in Texts /\ Len(z) = c - a /\ \A i \in 1 .. c - a : z[i] = d[a + i]
    BY <1>0, PartIs DEF Part
  <1> HIDE DEF x, y, z
  <1> DEFINE j == x \o y
  <1>4. /\ j \in Texts /\ Len(j) = c - a
        /\ \A i \in 1 .. c - a : j[i] = IF i <= b - a THEN x[i] ELSE y[i - (b - a)]
    <2>1. /\ j \in Texts /\ Len(j) = Len(x) + Len(y)
          /\ \A i \in 1 .. Len(x) + Len(y) : j[i] = IF i <= Len(x) THEN x[i] ELSE y[i - Len(x)]
      BY <1>1, <1>2, JoinIs
    <2>2. Len(x) + Len(y) = c - a /\ Len(x) = b - a
      BY <1>1, <1>2
    <2> QED  BY <2>1, <2>2
  <1> HIDE DEF j
  <1>5. ASSUME NEW i \in 1 .. c - a  PROVE j[i] = z[i]
    <2>1. CASE i <= b - a
      BY <2>1, <1>1, <1>3, <1>4
    <2>2. CASE ~(i <= b - a)
      <3>1. i - (b - a) \in 1 .. c - b /\ b + (i - (b - a)) = a + i
        BY <2>2
      <3>2. y[i - (b - a)] = d[a + i]
        BY <3>1, <1>2
      <3> QED  BY <2>2, <3>2, <1>3, <1>4
    <2> QED  BY <2>1, <2>2
  <1>6. j = z
    BY <1>3, <1>4, <1>5, SameText
  <1> QED  BY <1>1, <1>6 DEF x, y, z, j

LEMMA APartIs ==
    ASSUME NEW d \in Texts, NEW a \in Nat, NEW b \in Nat, a <= b, b <= Len(d)
    PROVE  /\ Part(d, a, b) \in Texts /\ Len(Part(d, a, b)) = b - a
           /\ \A i \in 1 .. b - a : Part(d, a, b)[i] = d[a + i]
  BY PartsJoin

\* From s to t the bytes came in, and nothing else has changed.
Took(s, t, data) ==
    /\ t.file.data = s.file.data /\ t.file.mode = s.file.mode /\ t.lost = s.lost
    /\ t.fp.pending = s.fp.pending /\ t.fp.osize = s.fp.osize
    /\ data \in Texts
    /\ AtOf(t) = AtOf(s) + Len(data)
    /\ data # <<>> => /\ AtOf(s) \in Nat /\ AtOf(t) <= Len(s.file.data)
                      /\ data = Part(s.file.data, AtOf(s), AtOf(t))

LEMMA TookNothing ==
    ASSUME NEW s, Sound(s), NEW t, t.file = s.file, t.lost = s.lost,
           t.fp.pending = s.fp.pending, t.fp.osize = s.fp.osize,
           t.fp.unread = s.fp.unread, t.fp.back = s.fp.back
    PROVE  Took(s, t, <<>>)
  <1>1. AtOf(t) = AtOf(s)
    BY DEF AtOf
  <1>2. AtOf(s) \in Int
    BY PartsAre, WritePlaceIs DEF AtOf, Sound
  <1> QED  BY <1>1, <1>2, EmptySeq DEF Took, Texts

LEMMA TookOn ==
    ASSUME NEW s, Sound(s), NEW t, NEW u, NEW d, NEW e, Took(s, t, d), Took(t, u, e)
    PROVE  Took(s, u, d \o e)
  <1>1. d \in Texts /\ e \in Texts /\ Len(d) \in Nat /\ Len(e) \in Nat
        /\ d \o e \in Texts /\ Len(d \o e) = Len(d) + Len(e)
        /\ (d = <<>> <=> Len(d) = 0) /\ (e = <<>> <=> Len(e) = 0)
    BY TextIs, JoinIs DEF Took
  <1>2. AtOf(s) \in Int
    BY PartsAre, WritePlaceIs DEF AtOf, Sound
  <1>3. AtOf(u) = AtOf(s) + Len(d \o e) /\ AtOf(t) = AtOf(s) + Len(d) /\ AtOf(u) = AtOf(t) + Len(e)
    BY <1>1, <1>2 DEF Took
  <1>4. ASSUME d \o e # <<>>
        PROVE  /\ AtOf(s) \in Nat /\ AtOf(u) <= Len(s.file.data)
               /\ d \o e = Part(s.file.data, AtOf(s), AtOf(u))
    <2>1. CASE d = <<>>
      <3>1. d \o e = e /\ AtOf(t) = AtOf(s) /\ e # <<>>
        BY <1>1, <1>2, <1>3, <1>4, <2>1, ConcatEmptySeq DEF Texts
      <3> QED  BY <3>1 DEF Took
    <2>2. CASE d # <<>> /\ e = <<>>
      <3>1. d \o e = d /\ AtOf(u) = AtOf(t)
        BY <1>1, <1>2, <1>3, <2>2, ConcatEmptySeq DEF Texts
      <3> QED  BY <2>2, <3>1 DEF Took
    <2>3. CASE d # <<>> /\ e # <<>>
      <3> DEFINE f == s.file.data
                 a == AtOf(s)
                 b == AtOf(t)
                 c == AtOf(u)
      <3>1. /\ f \in Texts /\ Len(f) \in Nat /\ a \in Nat /\ b \in Nat /\ c \in Nat
            /\ a <= b /\ b <= c /\ c <= Len(f)
        BY <1>1, <1>3, <2>3, PartsAre DEF Took
      <3>2. d = Part(f, a, b) /\ e = Part(f, b, c)
        BY <2>3 DEF Took
      <3> HIDE DEF f, a, b, c
      <3>3. d \o e = Part(f, a, c)
        BY <3>1, <3>2, PartsJoin
      <3> QED  BY <3>1, <3>3 DEF f, a, b, c
    <2> QED  BY <2>1, <2>2, <2>3
  <1> QED  BY <1>1, <1>3, <1>4 DEF Took

LEMMA PartWithin ==
    ASSUME NEW d \in Texts, NEW a \in Nat, NEW b \in Nat, a <= b, b <= Len(d)
    PROVE  Part(d, a, b) \in Texts /\ Len(Part(d, a, b)) = b - a
  BY PartsJoin

LEMMA ReadsIs ==
    ASSUME NEW f, OnDisk(f), NEW n \in Nat, NEW r \in Reads(f, n)
    PROVE  /\ r.n \in Int /\ r.n >= -1 /\ r.n <= n
           /\ r.n <= 0 => r.file = f
           /\ r.n = 0 => f.pos >= Len(f.data)
           /\ r.n > 0 => /\ f.pos + r.n <= Len(f.data)
                         /\ r.file.pos = f.pos + r.n /\ r.file.data = f.data
                         /\ r.file.mode = f.mode
                         /\ r.data = Part(f.data, f.pos, f.pos + r.n)
                         /\ r.data \in Texts /\ Len(r.data) = r.n
           /\ OnDisk(r.file)
  <1>0. f.data \in Texts /\ f.pos \in Nat /\ Len(f.data) \in Nat /\ f \in KernelFiles
        /\ Len(f.data) <= MaxFile /\ f.pos <= MaxFile
        /\ MaxFile \in Nat
    BY TextIs, StreamAssumption DEF OnDisk, KernelFiles
  <1>1. CASE r = [file |-> f, n |-> -1, data |-> <<>>]
    BY <1>1
  <1>2. ASSUME NEW k \in 0 .. n, k = 0 <=> f.pos >= Len(f.data), k > 0 => f.pos + k <= Len(f.data),
               r = [file |-> [f EXCEPT !.pos = @ + k], n |-> k,
                    data |-> SubSeq(f.data, f.pos + 1, f.pos + k)]
        PROVE  /\ r.n \in Int /\ r.n >= -1 /\ r.n <= n
               /\ r.n <= 0 => r.file = f
               /\ r.n = 0 => f.pos >= Len(f.data)
               /\ r.n > 0 => /\ f.pos + r.n <= Len(f.data)
                             /\ r.file.pos = f.pos + r.n /\ r.file.data = f.data
                             /\ r.file.mode = f.mode
                             /\ r.data = Part(f.data, f.pos, f.pos + r.n)
                             /\ r.data \in Texts /\ Len(r.data) = r.n
               /\ OnDisk(r.file)
    <2>0. k \in Nat /\ (k > 0 => f.pos + k <= Len(f.data))
      BY <1>2
    <2>1. r.n = k /\ r.file = [f EXCEPT !.pos = f.pos + k] /\ k \in Nat
          /\ r.data = Part(f.data, f.pos, f.pos + k)
      <3>1. r.data = Part(f.data, f.pos, f.pos + k)
        BY <1>2 DEF Part
      <3>2. r.file = [f EXCEPT !.pos = f.pos + k]
        BY <1>2
      <3> QED  BY <1>2, <3>1, <3>2
    <2>2. CASE k = 0
      <3>1. r.file = f
        BY <1>0, <2>1, <2>2 DEF KernelFiles
      <3> QED  BY <1>2, <2>1, <2>2, <3>1
    <2>3. CASE k > 0
      <3> DEFINE b == f.pos + k
      <3>1. b \in Nat /\ f.pos <= b /\ b <= Len(f.data) /\ b <= MaxFile /\ b - f.pos = k
        BY ONLY <1>0, <2>0, <2>3
      <3>2. /\ r.file \in KernelFiles /\ r.file.pos = b /\ r.file.data = f.data
            /\ r.file.mode = f.mode
        BY <1>0, <2>1, <3>1 DEF KernelFiles
      <3> HIDE DEF b
      <3>3. Part(f.data, f.pos, b) \in Texts /\ Len(Part(f.data, f.pos, b)) = k
        BY ONLY <1>0, <3>1, PartWithin
      <3>4. OnDisk(r.file)
        BY <1>0, <3>1, <3>2 DEF OnDisk
      <3>5. r.data = Part(f.data, f.pos, b) /\ r.file = [f EXCEPT !.pos = b]
        BY <2>1 DEF b
      <3>6. k <= n
        BY <2>1
      <3>7. f.pos + r.n = b
        BY <2>1 DEF b
      <3> QED  BY <2>1, <2>3, <3>1, <3>2, <3>3, <3>4, <3>5, <3>6, <3>7
    <2> QED  BY <2>1, <2>2, <2>3
  <1> QED  BY <1>1, <1>2 DEF Reads

\* What the input side holds, of a stream without output that waits.
LEMMA AheadIs ==
    ASSUME NEW s, Sound(s), NoOutput(s)
    PROVE  LET u == s.fp.unread
               a == s.file.pos - Len(u)
           IN  /\ a \in Nat /\ Len(u) \in Nat
               /\ u = Part(s.file.data, a, s.file.pos)
               /\ u # <<>> => s.file.pos <= Len(s.file.data) /\ a < s.file.pos
               /\ s.fp.back = EOF => AtOf(s) = a
               /\ s.fp.back # EOF => /\ AtOf(s) = a - 1 /\ a \in 1 .. Len(s.file.data)
                                     /\ s.fp.back = s.file.data[a]
               /\ AtOf(s) \in Nat
  <1>1. /\ s.file.pos \in Nat /\ Len(s.fp.unread) \in Nat
        /\ (s.fp.unread = <<>> <=> Len(s.fp.unread) = 0)
    BY PartsAre, TextIs
  <1> DEFINE a == s.file.pos - Len(s.fp.unread)
  <1>2. a \in Nat /\ (s.fp.unread # <<>> => s.file.pos <= Len(s.file.data) /\ a < s.file.pos)
        /\ s.fp.unread = Part(s.file.data, a, s.file.pos)
    <2>1. /\ Len(s.fp.unread) <= s.file.pos
          /\ s.fp.unread # <<>> => s.file.pos <= Len(s.file.data)
          /\ s.fp.unread = SubSeq(s.file.data, s.file.pos - Len(s.fp.unread) + 1, s.file.pos)
      BY DEF Sound, Ahead
    <2>2. a \in Nat /\ (s.fp.unread # <<>> => a < s.file.pos)
      BY <1>1, <2>1
    <2> QED  BY <2>1, <2>2 DEF Part
  <1>3. AtOf(s) = a - (IF s.fp.back = EOF THEN 0 ELSE 1)
    BY DEF AtOf, NoOutput
  <1>4. s.fp.back # EOF => a \in 1 .. Len(s.file.data) /\ s.fp.back = s.file.data[a]
    BY DEF Sound, Ahead
  <1> HIDE DEF a
  <1>5. a - 0 = a /\ (a \in 1 .. Len(s.file.data) => a - 1 \in Nat)
    BY <1>2
  <1> QED  BY <1>1, <1>2, <1>3, <1>4, <1>5 DEF a

\* A part is a first byte and the rest, or a first part and the rest.
LEMMA PartSplits ==
    ASSUME NEW d \in Texts, NEW a \in Nat, NEW b \in Nat, NEW c \in Nat,
           a <= b, b <= c, c <= Len(d)
    PROVE  LET p == Part(d, a, c)
           IN  /\ Take(p, b - a) = Part(d, a, b) /\ Drop(p, b - a) = Part(d, b, c)
               /\ p \in Texts /\ Len(p) = c - a
  <1> DEFINE p == Part(d, a, c)
             n == b - a
             x == Take(p, n)
             y == Drop(p, n)
             u == Part(d, a, b)
             v == Part(d, b, c)
  <1>0. n \in Nat /\ n <= c - a
    OBVIOUS
  <1>1. p \in Texts /\ Len(p) = c - a /\ \A i \in 1 .. c - a : p[i] = d[a + i]
    BY PartsJoin
  <1>2. u \in Texts /\ Len(u) = n /\ \A i \in 1 .. n : u[i] = d[a + i]
    BY PartsJoin
  <1>3. v \in Texts /\ Len(v) = c - b /\ \A i \in 1 .. c - b : v[i] = d[b + i]
    BY PartsJoin
  <1>7. (c - a) - n = c - b /\ n <= c - a /\ \A i \in Int : a + (n + i) = b + i
    OBVIOUS
  <1> HIDE DEF p, u, v, n
  <1>4. x \in Texts /\ Len(x) = n /\ \A i \in 1 .. n : x[i] = p[i]
    BY <1>0, <1>1, SplitIs
  <1>5. y \in Texts /\ Len(y) = c - b /\ \A i \in 1 .. c - b : y[i] = p[n + i]
    <2>1. y \in Texts /\ Len(y) = Len(p) - n /\ \A i \in 1 .. Len(p) - n : y[i] = p[n + i]
      BY <1>0, <1>1, SplitIs
    <2> QED  BY <2>1, <1>1, <1>7
  <1> HIDE DEF x, y
  <1>6. \A i \in 1 .. n : x[i] = u[i]
    BY <1>0, <1>1, <1>2, <1>4
  <1>8. \A i \in 1 .. c - b : y[i] = v[i]
    <2> SUFFICES ASSUME NEW i \in 1 .. c - b  PROVE y[i] = v[i]
      OBVIOUS
    <2>1. n + i \in 1 .. c - a /\ a + (n + i) = b + i
      BY <1>0, <1>7
    <2> QED  BY <2>1, <1>1, <1>3, <1>5
  <1>9. x = u /\ y = v
    BY <1>2, <1>3, <1>4, <1>5, <1>6, <1>8, SameText
  <1> QED  BY <1>1, <1>9 DEF x, y, u, v, p, n

LEMMA FirstByte ==
    ASSUME NEW p \in Texts, p # <<>>
    PROVE  /\ Len(p) \in Nat /\ Len(p) >= 1
           /\ Head(p) \in Bytes /\ <<Head(p)>> = Take(p, 1) /\ Tail(p) = Drop(p, 1)
  <1>0. Len(p) \in Nat /\ Len(p) >= 1 /\ 1 \in 1 .. Len(p) /\ 1 \in Nat
    BY TextIs
  <1>1. Head(p) = p[1] /\ p[1] \in Bytes
    BY <1>0, TextIs, HeadTailProperties DEF Texts
  <1>2. Tail(p) = Drop(p, 1)
    <2>1. Tail(p) = SubSeq(p, 2, Len(p))
      BY <1>0, TailIsSubSeq DEF Texts
    <2>2. 1 + 1 = 2
      OBVIOUS
    <2> QED  BY <2>1, <2>2 DEF Drop
  <1>3. Take(p, 1) = <<p[1]>>
    <2>1. Take(p, 1) \in Texts /\ Len(Take(p, 1)) = 1 /\ \A j \in 1 .. 1 : Take(p, 1)[j] = p[j]
      BY <1>0, SplitIs
    <2>2. <<p[1]>> \in Texts /\ Len(<<p[1]>>) = 1 /\ <<p[1]>>[1] = p[1]
      BY <1>1, OneByte
    <2>3. Take(p, 1)[1] = p[1]
      BY <2>1
    <2> QED  BY <2>1, <2>2, <2>3, SameText
  <1> QED  BY <1>0, <1>1, <1>2, <1>3

\* Another place in the file and other bytes in hand.
LEMMA InputChanged ==
    ASSUME NEW s, Sound(s), NoOutput(s), NEW t \in States, t.lost = s.lost, OnDisk(t.file),
           t.fp.pending = s.fp.pending, t.fp.osize = s.fp.osize, t.fp.out = s.fp.out,
           Len(t.fp.unread) <= BUFSIZ, Ahead(t.fp, t.file)
    PROVE  Sound(t) /\ NoOutput(t) /\ (Roomy(s) => Roomy(t))
  <1>1. t.fp \in Fps
    BY DEF States
  <1>2. Sound(t)
    BY <1>1 DEF Sound, Sized
  <1> QED  BY <1>2 DEF NoOutput, Roomy

\* A stream of which other fields only have changed.
LEMMA InputFlagged ==
    ASSUME NEW s, Sound(s), NoOutput(s), NEW q \in Fps,
           q.pending = s.fp.pending, q.unread = s.fp.unread, q.back = s.fp.back,
           q.osize = s.fp.osize, q.out = s.fp.out,
           q.eof => s.file.pos >= Len(s.file.data) /\ s.fp.unread = <<>> /\ s.fp.back = EOF,
           NEW t, t = [s EXCEPT !.fp = q]
    PROVE  /\ Sound(t) /\ NoOutput(t) /\ (Roomy(s) => Roomy(t)) /\ Took(s, t, <<>>)
           /\ t.file = s.file /\ t.fp = q /\ t.lost = s.lost
  <1>1. t \in States /\ t.file = s.file /\ t.lost = s.lost /\ t.fp = q
    BY DEF Sound, States
  <1>2. Sound(t)
    BY <1>1 DEF Sound, Sized, Ahead
  <1>3. Took(s, t, <<>>)
    BY <1>1, TookNothing
  <1> QED  BY <1>1, <1>2, <1>3 DEF NoOutput, Roomy

LEMMA InputBufferedIs ==
    ASSUME NEW s, Sound(s), NoOutput(s), Roomy(s), NEW t \in InputBuffered(s)
    PROVE  /\ Sound(t) /\ NoOutput(t) /\ Roomy(t) /\ Took(s, t, <<>>)
           /\ t.file = s.file /\ t.fp.unread = s.fp.unread /\ t.fp.back = s.fp.back
  <1>0. s.fp \in Fps /\ s = [fp |-> s.fp, file |-> s.file, lost |-> s.lost]
    BY PartsAre
  <1>4. s.fp.eof => s.file.pos >= Len(s.file.data) /\ s.fp.unread = <<>> /\ s.fp.back = EOF
    BY DEF Sound, Ahead
  <1>1. CASE t = s
    BY <1>1, TookNothing
  <1>2. CASE t = [s EXCEPT !.fp.in = "own"]
    <2> DEFINE q == [s.fp EXCEPT !.in = "own"]
    <2>1. t = [s EXCEPT !.fp = q]
      BY <1>0, <1>2
    <2>2. /\ q \in Fps /\ q.pending = s.fp.pending /\ q.unread = s.fp.unread /\ q.back = s.fp.back
          /\ q.osize = s.fp.osize /\ q.out = s.fp.out /\ q.eof = s.fp.eof
      BY <1>0 DEF Fps
    <2> HIDE DEF q
    <2> QED  BY <2>1, <2>2, <1>4, InputFlagged
  <1>3. CASE t = [s EXCEPT !.fp.err = TRUE]
    <2> DEFINE q == [s.fp EXCEPT !.err = TRUE]
    <2>1. t = [s EXCEPT !.fp = q]
      BY <1>0, <1>3
    <2>2. /\ q \in Fps /\ q.pending = s.fp.pending /\ q.unread = s.fp.unread /\ q.back = s.fp.back
          /\ q.osize = s.fp.osize /\ q.out = s.fp.out /\ q.eof = s.fp.eof
      BY <1>0 DEF Fps
    <2> HIDE DEF q
    <2> QED  BY <2>1, <2>2, <1>4, InputFlagged
  <1> QED  BY <1>1, <1>2, <1>3 DEF InputBuffered

LEMMA FlaggedIs ==
    ASSUME NEW s, Sound(s), NoOutput(s), Roomy(s), NEW n,
           n = 0 => s.file.pos >= Len(s.file.data), s.fp.unread = <<>>, s.fp.back = EOF
    PROVE  /\ Sound(Flagged(s, n)) /\ NoOutput(Flagged(s, n)) /\ Roomy(Flagged(s, n))
           /\ Took(s, Flagged(s, n), <<>>)
  <1>0. s.fp \in Fps /\ s = [fp |-> s.fp, file |-> s.file, lost |-> s.lost]
    BY PartsAre
  <1>1. CASE n = 0
    <2> DEFINE q == [s.fp EXCEPT !.eof = TRUE]
    <2>1. Flagged(s, n) = [s EXCEPT !.fp = q]
      BY <1>0, <1>1 DEF Flagged
    <2>2. /\ q \in Fps /\ q.pending = s.fp.pending /\ q.unread = s.fp.unread /\ q.back = s.fp.back
          /\ q.osize = s.fp.osize /\ q.out = s.fp.out
      BY <1>0 DEF Fps
    <2> HIDE DEF q
    <2> QED  BY <1>1, <2>1, <2>2, InputFlagged
  <1>2. CASE n # 0
    <2> DEFINE q == [s.fp EXCEPT !.err = TRUE]
    <2>1. Flagged(s, n) = [s EXCEPT !.fp = q]
      BY <1>0, <1>2 DEF Flagged
    <2>2. /\ q \in Fps /\ q.pending = s.fp.pending /\ q.unread = s.fp.unread /\ q.back = s.fp.back
          /\ q.osize = s.fp.osize /\ q.out = s.fp.out /\ q.eof = s.fp.eof
      BY <1>0 DEF Fps
    <2>3. s.fp.eof => s.file.pos >= Len(s.file.data)
      BY DEF Sound, Ahead
    <2> HIDE DEF q
    <2> QED  BY <2>1, <2>2, <2>3, InputFlagged
  <1> QED  BY <1>1, <1>2

\* One byte from a stream: the byte pushed back, one that was read ahead ...
LEMMA BackGives ==
    ASSUME NEW s, Sound(s), NoOutput(s), Roomy(s), s.fp.back # EOF,
           NEW t, t = [s EXCEPT !.fp.back = EOF]
    PROVE  /\ Sound(t) /\ NoOutput(t) /\ Roomy(t) /\ s.fp.back \in Bytes
           /\ Took(s, t, <<s.fp.back>>)
  <1> DEFINE q == [s.fp EXCEPT !.back = EOF]
             d == s.file.data
             a == s.file.pos - Len(s.fp.unread)
             b == s.fp.back
  <1>1. /\ q \in Fps /\ q.pending = s.fp.pending /\ q.osize = s.fp.osize /\ q.out = s.fp.out
        /\ q.unread = s.fp.unread /\ q.back = EOF /\ q.eof = s.fp.eof
    BY PartsAre DEF Fps
  <1>2. t = [s EXCEPT !.fp = q, !.file = s.file]
    BY PartsAre
  <1>3. /\ a \in 1 .. Len(d) /\ b = d[a] /\ AtOf(s) = a - 1 /\ d \in Texts /\ Len(d) \in Nat
        /\ s.fp.unread = Part(d, a, s.file.pos) /\ b \in Bytes
    BY AheadIs, PartsAre
  <1>4. /\ ~s.fp.eof /\ OnDisk(s.file) /\ Len(s.fp.unread) <= BUFSIZ
        /\ Len(s.fp.unread) <= s.file.pos
        /\ s.fp.unread # <<>> => s.file.pos <= Len(s.file.data)
    BY DEF Sound, Ahead, Sized
  <1> HIDE DEF q
  <1>5. /\ Sound(t) /\ NoOutput(t) /\ Roomy(t) /\ t.file = s.file /\ t.fp = q /\ t.lost = s.lost
        /\ AtOf(t) = a - 0
    <2>1. Ahead(q, s.file)
      BY <1>1, <1>3, <1>4 DEF Ahead, NoOutput, Part
    <2>2. /\ Sound(t) /\ NoOutput(t) /\ Roomy(t) /\ t.file = s.file /\ t.fp = q /\ t.lost = s.lost
      <3>1. t \in States /\ t.file = s.file /\ t.fp = q /\ t.lost = s.lost
        BY <1>1, <1>2 DEF Sound, States
      <3>2. Len(q.unread) <= BUFSIZ
        BY <1>1, <1>4
      <3> QED  BY <1>1, <1>4, <2>1, <3>1, <3>2, InputChanged, ZenonT(60)
    <2> QED  BY <1>1, <2>2 DEF AtOf, NoOutput
  <1> HIDE DEF a, b, d
  <1> DEFINE k == a - 1
  <1>6. k \in Nat /\ k + 1 = a /\ a - 0 = a /\ k < a /\ a <= Len(d)
    BY <1>3
  <1>7. <<b>> = Part(d, k, a)
    <2>1. Part(d, k, a) \in Texts /\ Len(Part(d, k, a)) = 1 /\ Part(d, k, a)[1] = d[a]
      <3>1. /\ Part(d, k, a) \in Texts /\ Len(Part(d, k, a)) = a - k
            /\ \A i \in 1 .. a - k : Part(d, k, a)[i] = d[k + i]
        <4> HIDE DEF k
        <4>1. a \in Nat /\ k <= a
          BY <1>6
        <4> QED  BY <4>1, <1>3, <1>6, APartIs
      <3>2. a - k = 1
        BY <1>3
      <3> HIDE DEF k
      <3> QED  BY <3>1, <3>2, <1>6
    <2>2. <<b>> \in Texts /\ Len(<<b>>) = 1 /\ <<b>>[1] = b
      BY <1>3, OneByte
    <2> HIDE DEF k
    <2> QED  BY <2>1, <2>2, <1>3, SameText
  <1>8. Took(s, t, <<b>>)
    <2>1. <<b>> \in Texts /\ Len(<<b>>) = 1
      BY <1>3, OneByte
    <2>2. AtOf(s) = k /\ AtOf(t) = a
      BY <1>3, <1>5, <1>6
    <2> HIDE DEF k
    <2> QED  BY <1>1, <1>5, <1>6, <1>7, <2>1, <2>2 DEF Took, d
  <1> QED  BY <1>3, <1>5, <1>8 DEF b

LEMMA AheadGives ==
    ASSUME NEW s, Sound(s), NoOutput(s), Roomy(s), s.fp.back = EOF, s.fp.unread # <<>>,
           NEW k \in Nat, k <= Len(s.fp.unread), k > 0,
           NEW t, t = [s EXCEPT !.fp.unread = Drop(@, k)]
    PROVE  /\ Sound(t) /\ NoOutput(t) /\ Roomy(t)
           /\ Took(s, t, Take(s.fp.unread, k))
  <1> DEFINE u == Drop(s.fp.unread, k)
             x == Take(s.fp.unread, k)
             q == [s.fp EXCEPT !.unread = u]
             d == s.file.data
             a == s.file.pos - Len(s.fp.unread)
             b == a + k
             c == s.file.pos
  <1>1. /\ a \in Nat /\ AtOf(s) = a /\ d \in Texts /\ Len(d) \in Nat /\ c \in Nat
        /\ s.fp.unread = Part(d, a, c) /\ c <= Len(d) /\ a < c /\ Len(s.fp.unread) \in Nat
    BY AheadIs, PartsAre
  <1>2. b \in Nat /\ a <= b /\ b <= c /\ b - a = k /\ c - b = Len(s.fp.unread) - k
    <2> DEFINE l == Len(s.fp.unread)
    <2>1. c \in Nat /\ l \in Nat /\ a \in Nat /\ k <= l /\ a = c - l
      BY <1>1
    <2> HIDE DEF a, c, l
    <2>2. b \in Nat /\ a <= b /\ b <= c /\ b - a = k /\ c - b = l - k
      BY <2>1
    <2> QED  BY <2>2 DEF l
  <1>3. u = Part(d, b, c) /\ x = Part(d, a, b)
    <2>1. u = Drop(Part(d, a, c), b - a) /\ x = Take(Part(d, a, c), b - a)
      <3> HIDE DEF a, b, c, d
      <3> QED  BY <1>1, <1>2
    <2> HIDE DEF a, b, c, d, u, x
    <2> QED  BY <1>1, <1>2, <2>1, PartSplits
  <1>4. u \in Texts /\ Len(u) = c - b /\ x \in Texts /\ Len(x) = k
    <2>1. Part(d, b, c) \in Texts /\ Len(Part(d, b, c)) = c - b
          /\ Part(d, a, b) \in Texts /\ Len(Part(d, a, b)) = b - a
      <3> HIDE DEF a, b, c, d
      <3>1. b <= Len(d)
        BY <1>1, <1>2
      <3> QED  BY <1>1, <1>2, <3>1, APartIs
    <2> QED  BY <2>1, <1>2, <1>3
  <1> HIDE DEF u, x
  <1>5. /\ q \in Fps /\ q.pending = s.fp.pending /\ q.osize = s.fp.osize /\ q.out = s.fp.out
        /\ q.unread = u /\ q.back = EOF /\ q.eof = s.fp.eof
    BY PartsAre, <1>4 DEF Fps
  <1>6. t = [s EXCEPT !.fp = q, !.file = s.file]
    BY PartsAre DEF u
  <1>7. ~s.fp.eof /\ OnDisk(s.file) /\ Len(s.fp.unread) <= BUFSIZ
    BY DEF Sound, Ahead, Sized
  <1>8. c - Len(u) = b /\ Len(u) <= c /\ Len(u) <= BUFSIZ
    <2>1. BUFSIZ \in Nat
      BY StreamAssumption
    <2> DEFINE l == Len(s.fp.unread)
               m == Len(u)
    <2>2. l \in Nat /\ l <= BUFSIZ /\ m = l - k /\ m = c - b /\ k <= l /\ b <= c
      BY <1>1, <1>2, <1>4, <1>7
    <2>3. b \in Nat /\ c \in Nat
      BY <1>1, <1>2
    <2> HIDE DEF b, c, l, m
    <2>4. c - m = b /\ m <= c /\ m <= BUFSIZ
      BY <2>1, <2>2, <2>3
    <2> QED  BY <2>4 DEF m
  <1> HIDE DEF q, b
  <1>9. /\ Sound(t) /\ NoOutput(t) /\ Roomy(t) /\ t.file = s.file /\ t.fp = q /\ t.lost = s.lost
        /\ AtOf(t) = b - 0
    <2>1. q.unread = Part(s.file.data, s.file.pos - Len(q.unread), s.file.pos)
      BY <1>3, <1>5, <1>8
    <2>2. /\ Len(q.unread) <= BUFSIZ /\ Len(q.unread) <= s.file.pos
          /\ s.file.pos <= Len(s.file.data) /\ q.back = EOF /\ ~q.eof
          /\ q.pending = s.fp.pending /\ q.osize = s.fp.osize /\ q.out = s.fp.out /\ q \in Fps
      BY <1>1, <1>5, <1>7, <1>8
    <2>3. Ahead(q, s.file)
      BY <2>1, <2>2 DEF Ahead, NoOutput, Part
    <2>4. /\ Sound(t) /\ NoOutput(t) /\ Roomy(t) /\ t.file = s.file /\ t.fp = q /\ t.lost = s.lost
      <3>1. t \in States /\ t.file = s.file /\ t.fp = q /\ t.lost = s.lost
        BY <2>2, <1>6 DEF Sound, States
      <3> QED  BY <1>7, <2>2, <2>3, <3>1, InputChanged
    <2> QED  BY <1>5, <1>8, <2>2, <2>4 DEF AtOf, NoOutput
  <1>10. Took(s, t, x)
    <2>1. AtOf(t) = b /\ AtOf(t) = AtOf(s) + Len(x) /\ b <= Len(d)
      <3> HIDE DEF a, c, d
      <3> QED  BY <1>1, <1>2, <1>4, <1>9 DEF b
    <2> HIDE DEF a
    <2> QED  BY <1>1, <1>3, <1>4, <1>5, <1>9, <2>1 DEF Took
  <1> QED  BY <1>9, <1>10 DEF x

\* ... or what a read past the buffer or into it brings, of which the first m
\* bytes are handed over.
LEMMA ReadGives ==
    ASSUME NEW s, Sound(s), NoOutput(s), Roomy(s), s.fp.back = EOF, s.fp.unread = <<>>,
           NEW n \in Nat, NEW r \in Reads(s.file, n), r.n > 0,
           NEW m \in Nat, 0 < m, m <= r.n, r.n - m <= BUFSIZ,
           NEW q, q = [s.fp EXCEPT !.unread = Drop(r.data, m)],
           NEW t, t = [s EXCEPT !.fp = q, !.file = r.file]
    PROVE  /\ Sound(t) /\ NoOutput(t) /\ Roomy(t)
           /\ Took(s, t, Take(r.data, m))
  <1> DEFINE u == Drop(r.data, m)
             x == Take(r.data, m)
             d == s.file.data
             a == s.file.pos
             b == a + m
             c == a + r.n
  <1>1. /\ a \in Nat /\ AtOf(s) = a /\ d \in Texts /\ Len(d) \in Nat
    <2>1. Len(s.fp.unread) = 0
      BY EmptySeq
    <2> QED  BY <2>1, PartsAre, AheadIs
  <1>0. /\ r.n \in Nat /\ r.data = Part(d, a, c) /\ c <= Len(d) /\ OnDisk(r.file)
        /\ r.file.data = d /\ r.file.mode = s.file.mode /\ r.file.pos = c
    <2>1. OnDisk(s.file)
      BY DEF Sound
    <2>2. /\ r.n \in Int /\ s.file.pos + r.n <= Len(s.file.data)
          /\ r.file.pos = s.file.pos + r.n /\ r.file.data = s.file.data
          /\ r.file.mode = s.file.mode /\ OnDisk(r.file)
          /\ r.data = Part(s.file.data, s.file.pos, s.file.pos + r.n)
      BY <2>1, ReadsIs
    <2> QED  BY <2>2
  <1>2. b \in Nat /\ c \in Nat /\ a <= b /\ b <= c /\ b - a = m /\ c - b = r.n - m
    <2>1. a \in Nat /\ r.n \in Nat /\ m \in Nat /\ m <= r.n
      BY <1>0, <1>1
    <2> HIDE DEF a
    <2> QED  BY ONLY <2>1
  <1>3. u = Part(d, b, c) /\ x = Part(d, a, b)
    <2>1. u = Drop(Part(d, a, c), b - a) /\ x = Take(Part(d, a, c), b - a)
      <3> HIDE DEF a, b, c, d
      <3> QED  BY <1>0, <1>2
    <2> HIDE DEF a, b, c, d, u, x
    <2> QED  BY <1>0, <1>1, <1>2, <2>1, PartSplits
  <1>4. u \in Texts /\ Len(u) = c - b /\ x \in Texts /\ Len(x) = m
    <2>1. Part(d, b, c) \in Texts /\ Len(Part(d, b, c)) = c - b
          /\ Part(d, a, b) \in Texts /\ Len(Part(d, a, b)) = b - a
      <3> HIDE DEF a, b, c, d
      <3>1. b <= Len(d)
        BY <1>0, <1>1, <1>2
      <3> QED  BY <1>0, <1>1, <1>2, <3>1, APartIs
    <2> QED  BY <2>1, <1>2, <1>3
  <1> HIDE DEF u, x
  <1>5. /\ q \in Fps /\ q.pending = s.fp.pending /\ q.osize = s.fp.osize /\ q.out = s.fp.out
        /\ q.unread = u /\ q.back = EOF /\ q.eof = s.fp.eof
    BY PartsAre, <1>4 DEF Fps, u
  <1>7. ~s.fp.eof
    <2>1. ~(a >= Len(d))
      BY <1>0, <1>1
    <2> QED  BY <2>1 DEF Sound, Ahead
  <1>8. c - Len(u) = b /\ Len(u) <= c /\ Len(u) <= BUFSIZ
    BY <1>2, <1>4
  <1> HIDE DEF a, b, c
  <1>9. /\ Sound(t) /\ NoOutput(t) /\ Roomy(t) /\ t.file = r.file /\ t.fp = q /\ t.lost = s.lost
        /\ AtOf(t) = b - 0
    <2>1. q.unread = Part(r.file.data, r.file.pos - Len(q.unread), r.file.pos)
      BY <1>0, <1>3, <1>5, <1>8
    <2>2. /\ Len(q.unread) <= BUFSIZ /\ Len(q.unread) <= r.file.pos
          /\ r.file.pos <= Len(r.file.data) /\ q.back = EOF /\ ~q.eof
          /\ q.pending = s.fp.pending /\ q.osize = s.fp.osize /\ q.out = s.fp.out /\ q \in Fps
          /\ OnDisk(r.file) /\ r.file.data = s.file.data /\ r.file.mode = s.file.mode
      BY <1>0, <1>5, <1>7, <1>8
    <2>3. Ahead(q, r.file)
      BY <2>1, <2>2 DEF Ahead, NoOutput, Part
    <2>4. /\ Sound(t) /\ NoOutput(t) /\ Roomy(t) /\ t.file = r.file /\ t.fp = q /\ t.lost = s.lost
      <3>1. t \in States /\ t.file = r.file /\ t.fp = q /\ t.lost = s.lost
        BY <2>2 DEF Sound, States, OnDisk
      <3>2. /\ t.fp.pending = s.fp.pending /\ t.fp.osize = s.fp.osize /\ t.fp.out = s.fp.out
            /\ Len(t.fp.unread) <= BUFSIZ /\ Ahead(t.fp, t.file) /\ OnDisk(t.file)
        BY <2>2, <2>3, <3>1
      <3>3. Sound(t) /\ NoOutput(t) /\ (Roomy(s) => Roomy(t))
        BY <3>1, <3>2, InputChanged
      <3> QED  BY <3>1, <3>3
    <2> QED  BY <1>0, <1>5, <1>8, <2>2, <2>4 DEF AtOf, NoOutput
  <1>10. Took(s, t, x)
    <2>1. AtOf(t) = b /\ AtOf(t) = AtOf(s) + Len(x) /\ b <= Len(d)
      <3> HIDE DEF d
      <3> QED  BY <1>0, <1>1, <1>2, <1>4, <1>9
    <2> QED  BY <1>0, <1>1, <1>3, <1>4, <1>5, <1>9, <2>1 DEF Took
  <1> QED  BY <1>9, <1>10 DEF x

\* What a call that hands over data leaves.
Took1(s, t, data) == Sound(t) /\ NoOutput(t) /\ Roomy(t) /\ Took(s, t, data)

LEMMA TookThen ==
    ASSUME NEW s, Sound(s), NEW t, NEW u, NEW d, NEW e, Took(s, t, d), Took1(t, u, e)
    PROVE  /\ Took1(s, u, d \o e) /\ d \o e \in Texts /\ Len(d \o e) = Len(d) + Len(e)
           /\ e = <<>> => d \o e = d
           /\ d = <<>> => d \o e = e
  <1>1. d \in Texts /\ e \in Texts
    BY DEF Took, Took1
  <1>2. d \o e \in Texts /\ Len(d \o e) = Len(d) + Len(e)
    BY <1>1, JoinIs
  <1>3. (e = <<>> => d \o e = d) /\ (d = <<>> => d \o e = e)
    BY <1>1, ConcatEmptySeq DEF Texts
  <1> QED  BY <1>2, <1>3, TookOn DEF Took1

LEMMA TookAfter ==
    ASSUME NEW s, Sound(s), NEW t, NEW u, NEW e, Took(s, t, <<>>), Took1(t, u, e)
    PROVE  Took1(s, u, e)
  <1> DEFINE d == <<>>
  <1>1. Took(s, t, d) /\ d = <<>>
    OBVIOUS
  <1> HIDE DEF d
  <1>2. Took1(s, u, d \o e)
    BY <1>1, TookThen
  <1>3. e \in Texts
    BY DEF Took1, Took
  <1>4. d \o e = e
    BY <1>1, <1>3, ConcatEmptySeq DEF Texts
  <1> QED  BY <1>2, <1>4

Handed(i) == IF i.byte = EOF THEN <<>> ELSE <<i.byte>>

LEMMA RefilledGives ==
    ASSUME NEW s, Sound(s), NoOutput(s), Roomy(s), s.fp.back = EOF, s.fp.unread = <<>>,
           NEW i \in Refilled(s)
    PROVE  i.byte \in Bytes \cup {EOF} /\ Took1(s, i.st, Handed(i))
  <1>1. PICK t \in InputBuffered(s) :
            \/ i = [st |-> t, byte |-> EOF]
            \/ \E r \in Reads(t.file, BUFSIZ) :
                  \/ /\ r.n > 0
                     /\ i = [st |-> [t EXCEPT !.file = r.file, !.fp.unread = Tail(r.data)],
                             byte |-> Head(r.data)]
                  \/ ~(r.n > 0) /\ i = [st |-> Flagged(t, r.n), byte |-> EOF]
    BY ZenonT(60) DEF Refilled
  <1>2. /\ Sound(t) /\ NoOutput(t) /\ Roomy(t) /\ Took(s, t, <<>>)
        /\ t.file = s.file /\ t.fp.unread = <<>> /\ t.fp.back = EOF
    BY InputBufferedIs
  <1>3. CASE i = [st |-> t, byte |-> EOF]
    BY <1>2, <1>3 DEF Handed, Took1
  <1>4. ASSUME NEW r \in Reads(t.file, BUFSIZ), ~(r.n > 0),
               i = [st |-> Flagged(t, r.n), byte |-> EOF]
        PROVE  i.byte \in Bytes \cup {EOF} /\ Took1(s, i.st, Handed(i))
    <2>1. r.n = 0 => t.file.pos >= Len(t.file.data)
      BY <1>2, ReadsIs, StreamAssumption DEF Sound
    <2>2. Took1(t, Flagged(t, r.n), <<>>)
      BY <1>2, <2>1, FlaggedIs DEF Took1
    <2>3. Took1(s, Flagged(t, r.n), <<>>)
      BY <1>2, <2>2, TookAfter
    <2> QED  BY <1>4, <2>3 DEF Handed
  <1>5. ASSUME NEW r \in Reads(t.file, BUFSIZ), r.n > 0,
               i = [st |-> [t EXCEPT !.file = r.file, !.fp.unread = Tail(r.data)],
                    byte |-> Head(r.data)]
        PROVE  i.byte \in Bytes \cup {EOF} /\ Took1(s, i.st, Handed(i))
    <2> DEFINE d == t.file.data
               a == t.file.pos
               c == a + r.n
               q == [t.fp EXCEPT !.unread = Drop(r.data, 1)]
               u == [t EXCEPT !.fp = q, !.file = r.file]
    <2>1. /\ r.n \in Nat /\ r.n <= BUFSIZ /\ c <= Len(d) /\ r.data = Part(d, a, c)
          /\ r.data \in Texts /\ Len(r.data) = r.n /\ a \in Nat /\ d \in Texts
          /\ BUFSIZ \in Nat
      BY <1>2, <1>5, ReadsIs, StreamAssumption, PartsAre DEF Sound
    <2>2. /\ Head(r.data) \in Bytes /\ <<Head(r.data)>> = Take(r.data, 1)
          /\ Tail(r.data) = Drop(r.data, 1)
      <3>1. r.data # <<>>
        BY <2>1, <1>5, TextIs
      <3> HIDE DEF a, c, d
      <3> QED  BY <2>1, <3>1, FirstByte
    <2>3. i.st = u
      <3>1. q = [t.fp EXCEPT !.unread = Tail(r.data)]
        BY <2>2
      <3>2. i.st = [t EXCEPT !.fp = q, !.file = r.file]
        BY <1>2, <1>5, <3>1 DEF Sound, States
      <3> QED  BY <3>2
    <2>4. q = [t.fp EXCEPT !.unread = Drop(r.data, 1)] /\ u = [t EXCEPT !.fp = q, !.file = r.file]
      OBVIOUS
    <2>5. 1 \in Nat /\ 0 < 1 /\ 1 <= r.n /\ r.n - 1 <= BUFSIZ
      BY <2>1, <1>5
    <2> HIDE DEF q, u
    <2>6. Took1(t, u, Take(r.data, 1))
      <3>1. Sound(u) /\ NoOutput(u) /\ Roomy(u) /\ Took(t, u, Take(r.data, 1))
        BY <1>2, <1>5, <2>1, <2>4, <2>5, ReadGives
      <3> QED  BY <3>1 DEF Took1
    <2> DEFINE e == Take(r.data, 1)
    <2>7. Took1(s, u, e)
      <3> HIDE DEF e
      <3>1. Took1(t, u, e)
        BY <2>6 DEF e
      <3> QED  BY <1>2, <3>1, TookAfter
    <2>8. Handed(i) = e
      BY <1>5, <2>2, BytesAre DEF Handed
    <2> QED  BY <1>5, <2>2, <2>3, <2>7, <2>8
  <1> QED  BY <1>1, <1>3, <1>4, <1>5

LEMMA IcGives ==
    ASSUME NEW s, Sound(s), NoOutput(s), Roomy(s), NEW i \in Ic(s)
    PROVE  i.byte \in Bytes \cup {EOF} /\ Took1(s, i.st, Handed(i))
  <1>1. CASE s.fp.back # EOF
    <2> DEFINE t == [s EXCEPT !.fp.back = EOF]
    <2>0. t = [s EXCEPT !.fp.back = EOF]
      OBVIOUS
    <2>1. i = [st |-> t, byte |-> s.fp.back]
      BY <1>1 DEF Ic
    <2> HIDE DEF t
    <2>2. /\ Sound(t) /\ NoOutput(t) /\ Roomy(t) /\ s.fp.back \in Bytes
          /\ Took(s, t, <<s.fp.back>>)
      BY <1>1, <2>0, BackGives
    <2> QED  BY <1>1, <2>1, <2>2 DEF Handed, Took1
  <1>2. CASE s.fp.back = EOF /\ s.fp.unread # <<>>
    <2> DEFINE p == s.fp.unread
               t == [s EXCEPT !.fp.unread = Drop(@, 1)]
    <2>0. p \in Texts /\ p # <<>>
      BY <1>2, PartsAre
    <2>1. /\ Len(p) >= 1 /\ 1 \in Nat /\ 1 > 0
          /\ Head(p) \in Bytes /\ <<Head(p)>> = Take(p, 1) /\ Tail(p) = Drop(p, 1)
      <3> HIDE DEF p
      <3> QED  BY <2>0, FirstByte
    <2>4. t = [s EXCEPT !.fp.unread = Drop(@, 1)]
      OBVIOUS
    <2>5. i = [st |-> t, byte |-> Head(p)]
      BY <1>2, <2>1 DEF Ic
    <2> HIDE DEF t
    <2>6. Sound(t) /\ NoOutput(t) /\ Roomy(t) /\ Took(s, t, Take(p, 1))
      BY <1>2, <2>0, <2>1, <2>4, AheadGives
    <2>7. Head(p) # EOF
      BY <2>1, BytesAre
    <2> HIDE DEF p
    <2> QED  BY <2>1, <2>5, <2>6, <2>7 DEF Handed, Took1
  <1>3. CASE s.fp.back = EOF /\ s.fp.unread = <<>>
    BY <1>3, RefilledGives DEF Ic
  <1> QED  BY <1>1, <1>2, <1>3

-------------------------------------------------------------------------------
Got(s, n) ==
    {o \in [st : States, data : Texts, more : BOOLEAN] :
        Took1(s, o.st, o.data) /\ (o.more => Len(o.data) < n)}

\* Whatever is got by bytes ...
LEMMA HandedIs ==
    ASSUME NEW i, i.byte \in Bytes \cup {EOF}, NEW d \in Texts
    PROVE  /\ d \o Handed(i) = IF i.byte = EOF THEN d ELSE Append(d, i.byte)
           /\ Len(Handed(i)) = IF i.byte = EOF THEN 0 ELSE 1
  <1>1. CASE i.byte = EOF
    BY <1>1, EmptySeq, ConcatEmptySeq DEF Handed, Texts
  <1>2. CASE i.byte # EOF
    BY <1>2, OneByte DEF Handed
  <1> QED  BY <1>1, <1>2

LEMMA GetLineGives ==
    ASSUME NEW s, Sound(s), NoOutput(s), Roomy(s), NEW n \in Nat, NEW o \in GetLine(s, n)
    PROVE  Took1(s, o.st, o.data)
  <1> DEFINE O == {p \in [st : States, data : Texts, more : BOOLEAN] : Took1(s, p.st, p.data)}
  <1>1. [st |-> s, data |-> <<>>, more |-> TRUE] \in O
    BY TookNothing, EmptySeq DEF Took1, Sound, Texts
  <1>2. ASSUME NEW p \in O, NEW r \in LineTurn(p)  PROVE r \in O
    <2>1. PICK i \in Ic(p.st) :
              r = [st   |-> i.st,
                   data |-> IF i.byte = EOF THEN p.data ELSE Append(p.data, i.byte),
                   more |-> i.byte \notin {EOF, NEWLINE}]
      BY DEF LineTurn
    <2>2. i.byte \in Bytes \cup {EOF} /\ Took1(p.st, i.st, Handed(i))
      BY IcGives DEF Took1
    <2>3. r.data = p.data \o Handed(i) /\ r.st = i.st
      BY <2>1, <2>2, HandedIs
    <2>4. Took1(s, i.st, p.data \o Handed(i)) /\ p.data \o Handed(i) \in Texts
      BY <2>2, TookThen DEF Took1
    <2>5. r \in [st : States, data : Texts, more : BOOLEAN]
      <3>1. r = [st |-> r.st, data |-> r.data, more |-> r.more] /\ r.more \in BOOLEAN
        BY <2>1
      <3>2. r.st \in States /\ r.data \in Texts
        BY <2>3, <2>4 DEF Took1, Sound
      <3> QED  BY <3>1, <3>2
    <2> QED  BY <2>3, <2>4, <2>5
  <1> HIDE DEF O
  <1>3. GetLine(s, n) \subseteq O
    BY <1>1, <1>2, GetLineWithin
  <1> QED  BY <1>3 DEF O

LEMMA GetDelimitedGives ==
    ASSUME NEW s, Sound(s), NoOutput(s), Roomy(s), NEW delimiter, NEW room \in Nat,
           NEW o \in GetDelimited(s, delimiter, room)
    PROVE  Took1(s, o.st, o.data)
  <1> DEFINE P == [st : States, data : Texts, room : Nat, failed : BOOLEAN, more : BOOLEAN]
             O == {p \in P : Took1(s, p.st, p.data)}
  <1>1. [st |-> s, data |-> <<>>, room |-> room, failed |-> FALSE, more |-> TRUE] \in O
    BY TookNothing, EmptySeq DEF Took1, Sound, Texts
  <1>2. ASSUME NEW p \in O, NEW r \in DelimTurn(p, delimiter)  PROVE r \in O
    <2>0. p \in P /\ p.data \in Texts /\ 2 * p.room \in Nat
      OBVIOUS
    <2>1. PICK i \in Ic(p.st) :
              \/ i.byte = EOF /\ r = [p EXCEPT !.st = i.st, !.more = FALSE]
              \/ /\ i.byte # EOF
                 /\ \/ r = DelimTaken(p, i, delimiter)
                    \/ r = [DelimTaken(p, i, delimiter) EXCEPT !.room = 2 * @]
                    \/ r = [DelimTaken(p, i, delimiter) EXCEPT !.failed = TRUE, !.more = FALSE]
      BY DEF DelimTurn
    <2>2. i.byte \in Bytes \cup {EOF} /\ Took1(p.st, i.st, Handed(i))
      BY IcGives DEF Took1
    <2> DEFINE d == p.data \o Handed(i)
    <2>3. d = IF i.byte = EOF THEN p.data ELSE Append(p.data, i.byte)
      BY <2>0, <2>2, HandedIs
    <2>4. Took1(s, i.st, d) /\ d \in Texts /\ i.st \in States
      BY <2>2, TookThen DEF Took1, Sound
    <2> HIDE DEF d, O
    <2>5. CASE i.byte = EOF
      <3>1. r = [p EXCEPT !.st = i.st, !.more = FALSE] /\ d = p.data
        BY <2>1, <2>3, <2>5
      <3>2. r \in P /\ r.st = i.st /\ r.data = d
        BY <2>0, <2>4, <3>1
      <3> QED  BY <2>4, <3>2 DEF O
    <2>6. CASE i.byte # EOF
      <3> DEFINE t == [p EXCEPT !.st = i.st, !.data = d, !.more = i.byte # delimiter]
      <3>1. t = DelimTaken(p, i, delimiter)
        BY <2>3, <2>6 DEF DelimTaken
      <3>2. t \in P /\ t.st = i.st /\ t.data = d /\ t.room = p.room
        BY <2>0, <2>4
      <3> HIDE DEF t
      <3>3. \/ r = t
            \/ r = [t EXCEPT !.room = 2 * p.room]
            \/ r = [t EXCEPT !.failed = TRUE, !.more = FALSE]
        BY <2>1, <2>6, <3>1, <3>2
      <3>4. r \in P /\ r.st = i.st /\ r.data = d
        BY <2>0, <3>2, <3>3
      <3> QED  BY <2>4, <3>4 DEF O
    <2> QED  BY <2>5, <2>6
  <1> HIDE DEF O
  <1>3. GetDelimited(s, delimiter, room) \subseteq O
    BY <1>1, <1>2, GetDelimitedWithin
  <1> QED  BY <1>3 DEF O

\* ... and by pieces.
LEMMA FreadPieceGives ==
    ASSUME NEW s, Sound(s), NoOutput(s), Roomy(s), NEW n \in Nat \ {0}, NEW got \in Texts,
           NEW o \in FreadPiece(s, n, got)
    PROVE  \E e \in Texts :
              /\ o = [st |-> o.st, data |-> got \o e, more |-> o.more] /\ o.more \in BOOLEAN
              /\ Took1(s, o.st, e) /\ (o.more => Len(e) < n)
  <1> DEFINE p == s.fp.unread
             ahead == IF Len(p) < n THEN Len(p) ELSE n
             Good(e) == /\ o = [st |-> o.st, data |-> got \o e, more |-> o.more]
                        /\ o.more \in BOOLEAN
                        /\ Took1(s, o.st, e) /\ (o.more => Len(e) < n)
  <1> SUFFICES \E e \in Texts : Good(e)
    OBVIOUS
  <1>0. p \in Texts /\ Len(p) \in Nat /\ (p = <<>> <=> Len(p) = 0) /\ ahead \in Nat
        /\ ahead <= Len(p) /\ ahead <= n /\ BUFSIZ \in Nat
    BY PartsAre, TextIs, StreamAssumption
  <1>1. \/ /\ s.fp.back = EOF /\ ahead > 0
           /\ o = [st |-> [s EXCEPT !.fp.unread = Drop(@, ahead)],
                   data |-> got \o Take(p, ahead), more |-> ahead < n]
        \/ /\ s.fp.back = EOF /\ ~(ahead > 0) /\ n >= BUFSIZ
           /\ \E r \in Reads(s.file, n) :
                 \/ /\ r.n > 0
                    /\ o = [st |-> [s EXCEPT !.file = r.file], data |-> got \o r.data,
                            more |-> r.n < n]
                 \/ ~(r.n > 0) /\ o = [st |-> Flagged(s, r.n), data |-> got, more |-> FALSE]
        \/ \E i \in Ic(s) :
              o = IF i.byte = EOF THEN [st |-> i.st, data |-> got, more |-> FALSE]
                  ELSE [st |-> i.st, data |-> Append(got, i.byte), more |-> n > 1]
    BY DEF FreadPiece
  <1>2. <<>> \in Texts /\ Len(<<>>) = 0 /\ got = got \o <<>>
    BY EmptySeq, ConcatEmptySeq DEF Texts
  <1>3. CASE /\ s.fp.back = EOF /\ ahead > 0
             /\ o = [st |-> [s EXCEPT !.fp.unread = Drop(@, ahead)],
                     data |-> got \o Take(p, ahead), more |-> ahead < n]
    <2> DEFINE k == ahead
               t == [s EXCEPT !.fp.unread = Drop(@, k)]
               e == Take(p, k)
    <2>0. t = [s EXCEPT !.fp.unread = Drop(@, k)]
      OBVIOUS
    <2>1. k \in Nat /\ k <= Len(s.fp.unread) /\ k > 0 /\ s.fp.unread # <<>> /\ k <= n
      BY <1>0, <1>3
    <2>2. o = [st |-> t, data |-> got \o e, more |-> k < n]
      BY <1>3
    <2> HIDE DEF k, ahead, t
    <2>3. Sound(t) /\ NoOutput(t) /\ Roomy(t) /\ Took(s, t, Take(s.fp.unread, k))
      BY <1>3, <2>0, <2>1, AheadGives
    <2>4. e \in Texts /\ Len(e) = k
      <3> HIDE DEF p
      <3> QED  BY <1>0, <2>1, SplitIs DEF p
    <2>5. (k < n) \in BOOLEAN
      OBVIOUS
    <2>6. Took1(s, t, e)
      BY <2>3 DEF Took1
    <2> HIDE DEF e
    <2>7. Good(e)
      BY <2>2, <2>4, <2>5, <2>6
    <2> QED  BY <2>4, <2>7
  <1>4. ASSUME s.fp.back = EOF, ~(ahead > 0), NEW r \in Reads(s.file, n), r.n > 0, n >= BUFSIZ,
               o = [st |-> [s EXCEPT !.file = r.file], data |-> got \o r.data, more |-> r.n < n]
        PROVE  \E e \in Texts : Good(e)
    <2> DEFINE f == s.file
               m == r.n
               q == [s.fp EXCEPT !.unread = Drop(r.data, m)]
               t == [s EXCEPT !.fp = q, !.file = r.file]
    <2>1. s.fp.unread = <<>>
      BY <1>0, <1>4
    <2>2. m \in Nat /\ m <= n /\ r.data \in Texts /\ Len(r.data) = m /\ 0 < m
      <3>1. OnDisk(f) /\ r \in Reads(f, n) /\ n \in Nat
        BY DEF Sound
      <3> HIDE DEF f
      <3> QED  BY <1>4, <3>1, ReadsIs
    <2>3. Drop(r.data, m) = <<>> /\ Take(r.data, m) = r.data
      <3> DEFINE x == r.data
      <3>1. x \in Texts /\ m <= Len(x) /\ Len(x) = m
        BY <2>2
      <3> HIDE DEF x, m
      <3>2. Drop(x, m) \in Texts /\ Len(Drop(x, m)) = Len(x) - m
        BY <2>2, <3>1, SplitIs
      <3>3. Len(x) - m = 0
        BY <2>2, <3>1
      <3>4. Take(x, Len(x)) = x
        BY <3>1, TakeNothing
      <3> QED  BY <3>1, <3>2, <3>3, <3>4, TextIs DEF x
    <2>4. q = s.fp
      BY <2>1, <2>3, PartsAre DEF Fps
    <2>5. q = [s.fp EXCEPT !.unread = Drop(r.data, m)] /\ t = [s EXCEPT !.fp = q, !.file = r.file]
      OBVIOUS
    <2>6. o = [st |-> t, data |-> got \o r.data, more |-> m < n]
      <3>1. t = [s EXCEPT !.file = r.file]
        BY <2>4 DEF Sound, States
      <3> QED  BY <1>4, <3>1
    <2>7. m <= r.n /\ r.n - m <= BUFSIZ
      BY <1>0, <2>2
    <2> HIDE DEF q, t, m
    <2>8. Sound(t) /\ NoOutput(t) /\ Roomy(t) /\ Took(s, t, Take(r.data, m))
      BY <1>4, <2>1, <2>2, <2>5, <2>7, ReadGives
    <2>9. Took1(s, t, r.data) /\ (m < n) \in BOOLEAN
      BY <2>3, <2>8 DEF Took1
    <2>10. Good(r.data)
      BY <2>2, <2>6, <2>9
    <2> QED  BY <2>2, <2>10
  <1>5. ASSUME s.fp.back = EOF, ~(ahead > 0), NEW r \in Reads(s.file, n),
               o = [st |-> Flagged(s, r.n), data |-> got, more |-> FALSE]
        PROVE  \E e \in Texts : Good(e)
    <2> DEFINE f == s.file
               t == Flagged(s, r.n)
    <2>1. s.fp.unread = <<>>
      BY <1>0, <1>5
    <2>2. r.n = 0 => f.pos >= Len(f.data)
      <3>1. OnDisk(f) /\ r \in Reads(f, n) /\ n \in Nat
        BY DEF Sound
      <3> HIDE DEF f
      <3> QED  BY <3>1, ReadsIs
    <2>3. Took1(s, t, <<>>)
      BY <1>5, <2>1, <2>2, FlaggedIs DEF Took1
    <2> HIDE DEF t
    <2>4. o = [st |-> t, data |-> got \o <<>>, more |-> FALSE]
      BY <1>2, <1>5 DEF t
    <2>5. Good(<<>>)
      BY <2>3, <2>4
    <2> QED  BY <1>2, <2>5
  <1>6. ASSUME NEW i \in Ic(s),
               o = IF i.byte = EOF THEN [st |-> i.st, data |-> got, more |-> FALSE]
                   ELSE [st |-> i.st, data |-> Append(got, i.byte), more |-> n > 1]
        PROVE  \E e \in Texts : Good(e)
    <2> DEFINE e == Handed(i)
               x == i.byte # EOF /\ n > 1
    <2>1. i.byte \in Bytes \cup {EOF} /\ Took1(s, i.st, e)
      BY IcGives
    <2>2. /\ got \o e = IF i.byte = EOF THEN got ELSE Append(got, i.byte)
          /\ Len(e) = IF i.byte = EOF THEN 0 ELSE 1
      BY <2>1, HandedIs
    <2>3. e \in Texts
      BY <2>1 DEF Took1, Took
    <2> HIDE DEF e
    <2>4. o = [st |-> i.st, data |-> got \o e, more |-> x]
      <3>1. CASE i.byte = EOF
        BY <1>6, <2>2, <3>1
      <3>2. CASE i.byte # EOF
        <4>1. x = (n > 1)
          BY <3>2
        <4> HIDE DEF x
        <4> QED  BY <1>6, <2>2, <3>2, <4>1
      <3> QED  BY <3>1, <3>2
    <2>5. x \in BOOLEAN /\ (x => Len(e) < n)
      BY <2>2
    <2> HIDE DEF x
    <2>6. Good(e)
      BY <2>1, <2>4, <2>5
    <2> QED  BY <2>3, <2>6
  <1> HIDE DEF Good, ahead, p
  <1> QED  BY <1>1, <1>3, <1>4, <1>5, <1>6

LEMMA FreadGives ==
    ASSUME NEW s, Sound(s), NoOutput(s), Roomy(s), NEW n \in Nat \ {0}, NEW o \in Fread(s, n)
    PROVE  Took1(s, o.st, o.data)
  <1> DEFINE O == Got(s, n)
  <1>1. [st |-> s, data |-> <<>>, more |-> TRUE] \in O
    BY TookNothing, EmptySeq DEF Took1, Sound, Texts, Got
  <1>2. ASSUME NEW p \in O, p.more, NEW r \in PieceTurn(p, n)  PROVE r \in O
    <2> DEFINE t == p.st
               got == p.data
               m == n - Len(got)
    <2>1. Took1(s, t, got) /\ got \in Texts /\ Len(got) \in Nat /\ m \in Nat \ {0}
      BY <1>2, TextIs DEF Got
    <2>2. r \in FreadPiece(t, m, got)
      BY <1>2 DEF PieceTurn
    <2>9. m + Len(got) = n
      BY <2>1
    <2> HIDE DEF t, got, m
    <2>3. PICK e \in Texts :
              /\ r = [st |-> r.st, data |-> got \o e, more |-> r.more] /\ r.more \in BOOLEAN
              /\ Took1(t, r.st, e) /\ (r.more => Len(e) < m)
      BY <2>1, <2>2, FreadPieceGives DEF Took1
    <2>4. /\ Took1(s, r.st, got \o e) /\ got \o e \in Texts /\ Len(got \o e) = Len(got) + Len(e)
      BY <2>1, <2>3, TookThen DEF Took1
    <2>5. r.data = got \o e
      BY <2>3
    <2>6. r.more => Len(r.data) < n
      BY <2>1, <2>3, <2>4, <2>5, <2>9, TextIs
    <2>7. r \in [st : States, data : Texts, more : BOOLEAN]
      <3>1. r.st \in States
        BY <2>4 DEF Took1, Sound
      <3>2. r = [st |-> r.st, data |-> r.data, more |-> r.more]
        BY <2>3, <2>5
      <3>3. r.data \in Texts
        BY <2>4, <2>5
      <3> QED  BY <2>3, <3>1, <3>2, <3>3
    <2> QED  BY <2>4, <2>5, <2>6, <2>7 DEF Got
  <1> HIDE DEF O
  <1>3. Fread(s, n) \subseteq O
    BY <1>1, <1>2, FreadWithin
  <1> QED  BY <1>3 DEF O, Got

-------------------------------------------------------------------------------
(***************************************************************************)
(* The invariant.                                                          *)
(***************************************************************************)
Turns == {"new", "either", "in", "out", "closed"}

\* The byte that was read last is the one before the place.
LastRead(s, d) ==
    d.call = "get" /\ d.data # <<>> =>
        /\ NoOutput(s) /\ d.data \in Texts
        /\ AtOf(s) \in 1 .. Len(s.file.data)
        /\ d.data[Len(d.data)] = s.file.data[AtOf(s)]

Landed(s, d) ==
    ~s.lost =>
        /\ d.call = "seek" /\ d.ret = 0 =>
              /\ d.data[1] = "set" => AtOf(s) = d.data[2]
              /\ d.data[1] = "end" => AtOf(s) = Len(TextOf(s)) + d.data[2]
        /\ d.call = "tell" /\ s.fp.back = EOF => d.ret = AtOf(s)

\* Output waits only after output and input only after input: so the user's
\* turns keep the two apart.
Goes(s, u, d) ==
    /\ Sound(s) /\ Roomy(s)
    /\ u \in Turns
    /\ ~NoOutput(s) => u = "out"
    /\ ~NoInput(s) => u = "in"
    /\ LastRead(s, d)
    /\ Landed(s, d)

Inv == Goes(Now, turn, did)

\* What a step looks like to the user.
Follows(s, t, d) ==
    \/ d.call = "open"
    \/ /\ d.call # "open"
       /\ s.lost => t.lost
       /\ Appends(t.file.mode) = Appends(s.file.mode)
       /\ \/ t.lost
          \/ d.call \in {"close", "seek"} /\ TextOf(t) = TextOf(s)
          \/ /\ d.call = "put"
             /\ IF d.data = <<>>
                  THEN TextOf(t) = TextOf(s) /\ AtOf(t) = AtOf(s)
                  ELSE /\ TextOf(t) = Overlay(TextOf(s), PlaceOf(s), d.data)
                       /\ AtOf(t) = PlaceOf(s) + Len(d.data)
          \/ /\ d.call \in {"get", "lose"}
             /\ d.data = SubSeq(TextOf(s), AtOf(s) + 1, AtOf(s) + Len(d.data))
             /\ AtOf(t) = AtOf(s) + Len(d.data)
             /\ TextOf(t) = TextOf(s)
          \/ d.call = "unget" /\ AtOf(t) = AtOf(s) - 1 /\ TextOf(t) = TextOf(s)
          \/ /\ d.call \in {"flush", "tell", "clear", "buffer", "fail"}
             /\ TextOf(t) = TextOf(s) /\ AtOf(t) = AtOf(s)

Step == Goes(Now', turn', did') /\ Follows(Now, Now', did')

LEMMA NowIs ==
    /\ Text = TextOf(Now) /\ At = AtOf(Now) /\ Text' = TextOf(Now') /\ At' = AtOf(Now')
    /\ Now.fp = fp /\ Now.file = file /\ Now.lost = lost
    /\ Now'.fp = fp' /\ Now'.file = file' /\ Now'.lost = lost'
  BY DEF Text, At, TextOf, AtOf, Now

LEMMA FollowsIs ==
    ASSUME Follows(Now, Now', did')
    PROVE  Bytewise!Next
  <1> DEFINE s == Now
             t == Now'
  <1>1. /\ Text = TextOf(s) /\ At = AtOf(s) /\ Text' = TextOf(t) /\ At' = AtOf(t)
        /\ s.file = file /\ s.lost = lost /\ t.file = file' /\ t.lost = lost'
    BY NowIs
  <1>2. Follows(s, t, did')
    OBVIOUS
  <1>3. PlaceOf(s) = Bytewise!Place
    BY <1>1 DEF PlaceOf, Bytewise!Place
  <1>4. \A d, n, e : Overlay(d, n, e) = Bytewise!Overlay(d, n, e)
    BY DEF Overlay, Bytewise!Overlay
  <1> HIDE DEF s, t
  <1>5. Appends(t.file.mode) = Appends(s.file.mode) => Appends(file.mode)' = Appends(file.mode)
    BY <1>1
  <1> QED
    BY <1>1, <1>2, <1>3, <1>4, <1>5
    DEF Follows, Bytewise!Next, Bytewise!Opened, Bytewise!Closing, Bytewise!Put, Bytewise!Get,
        Bytewise!Unget, Bytewise!Seek, Bytewise!Other

\* The state a call ends in.
LEMMA EndsIs ==
    ASSUME NEW s \in States, NEW call, NEW data, NEW ret, Ends(s, call, data, ret)
    PROVE  Now' = s /\ did' = [call |-> call, data |-> data, ret |-> ret]
  <1>1. s = [fp |-> s.fp, file |-> s.file, lost |-> s.lost]
    BY DEF States
  <1> QED  BY <1>1 DEF Ends, Now

-------------------------------------------------------------------------------
(***************************************************************************)
(* The steps.                                                              *)
(***************************************************************************)
LEMMA WroteGoes ==
    ASSUME Inv, NEW t, Sound(t), NoInput(t), Roomy(t), NEW d \in Texts, Wrote(Now, t, d),
           Ends(t, "put", d, 0), turn' = "out"
    PROVE  Step
  <1>1. Now' = t /\ did' = [call |-> "put", data |-> d, ret |-> 0]
    BY EndsIs DEF Sound
  <1>2. Goes(t, "out", did')
    BY <1>1 DEF Goes, Turns, LastRead, Landed
  <1>3. Follows(Now, t, did')
    BY <1>1 DEF Follows, Wrote
  <1> QED  BY <1>1, <1>2, <1>3 DEF Step

LEMMA MayWriteIs ==
    ASSUME Inv, MayWrite
    PROVE  Sound(Now) /\ Roomy(Now) /\ NoInput(Now)
  BY DEF Inv, Goes, MayWrite

LEMMA PutByteGoes ==
    ASSUME Inv, NEW b \in Bytes, PutByte(b)
    PROVE  Step
  <1>1. PICK o \in Fputc(Now, b) : Ends(o.st, "put", IF o.put THEN <<b>> ELSE <<>>, 0)
    BY DEF PutByte
  <1>2. MayWrite /\ turn' = "out"
    BY DEF PutByte
  <1> DEFINE s == Now
             d == IF o.put THEN <<b>> ELSE <<>>
  <1>3. Sound(s) /\ Roomy(s) /\ NoInput(s)
    BY <1>2, MayWriteIs
  <1>4. Sound(o.st) /\ NoInput(o.st) /\ Roomy(o.st) /\ Wrote(s, o.st, d)
    <2> HIDE DEF s
    <2>1. o \in Fputc(s, b)
      BY DEF s
    <2> QED  BY <1>3, <2>1, FputcGives
  <1>5. d \in Texts
    BY OneByte, EmptySeq DEF Texts
  <1> HIDE DEF d
  <1> QED  BY <1>1, <1>2, <1>4, <1>5, WroteGoes DEF d

LEMMA StringsAre ==
    ASSUME NEW data \in Strings
    PROVE  data \in Texts /\ data # <<>>
  <1>1. PICK n \in 1 .. MaxCall : data \in [1 .. n -> Bytes]
    BY DEF Strings
  <1>2. n \in Nat /\ n # 0
    BY <1>1, StreamAssumption
  <1>3. data \in Texts /\ Len(data) = n
    BY <1>1, <1>2, SeqDef, LenProperties DEF Texts
  <1> QED  BY <1>2, <1>3, TextIs

LEMMA TakenIs ==
    ASSUME NEW d \in Texts, NEW n \in 0 .. Len(d)
    PROVE  Take(d, n) \in Texts
  <1>1. n \in Nat /\ n <= Len(d)
    BY TextIs
  <1> QED  BY <1>1, SplitIs

LEMMA PutStringGoes ==
    ASSUME Inv, NEW data \in Strings, PutString(data)
    PROVE  Step
  <1>1. PICK o \in PutEach(Now, data) : Ends(o.st, "put", Take(data, o.n), 0)
    BY DEF PutString
  <1>2. MayWrite /\ turn' = "out"
    BY DEF PutString
  <1> DEFINE s == Now
             d == Take(data, o.n)
  <1>3. Sound(s) /\ Roomy(s) /\ NoInput(s)
    BY <1>2, MayWriteIs
  <1>4. o \in Put1(s, data)
    <2>1. PutEach(s, data) \subseteq Put1(s, data)
      <3> HIDE DEF s
      <3> QED  BY <1>3, StringsAre, PutEachGives
    <2> QED  BY <2>1
  <1> HIDE DEF s
  <1>5. /\ Sound(o.st) /\ NoInput(o.st) /\ Roomy(o.st) /\ Wrote(s, o.st, d)
        /\ o.n \in 0 .. Len(data)
    BY <1>4 DEF Put1
  <1>6. d \in Texts
    BY <1>5, StringsAre, TakenIs
  <1> HIDE DEF d
  <1> QED  BY <1>1, <1>2, <1>5, <1>6, WroteGoes DEF d, s

LEMMA WriteBytesGoes ==
    ASSUME Inv, NEW data \in Strings, WriteBytes(data)
    PROVE  Step
  <1>1. PICK o \in Fwrite(Now, data) : Ends(o.st, "put", Take(data, o.n), 0)
    BY DEF WriteBytes
  <1>2. MayWrite /\ turn' = "out"
    BY DEF WriteBytes
  <1> DEFINE s == Now
             d == Take(data, o.n)
  <1>3. Sound(s) /\ Roomy(s) /\ NoInput(s) /\ o \in Fwrite(s, data)
    BY <1>2, MayWriteIs
  <1> HIDE DEF s
  <1>5. /\ Sound(o.st) /\ NoInput(o.st) /\ Roomy(o.st) /\ Wrote(s, o.st, d)
        /\ o.n \in 0 .. Len(data)
    BY <1>3, StringsAre, FwriteGives
  <1>6. d \in Texts
    BY <1>5, StringsAre, TakenIs
  <1> HIDE DEF d
  <1> QED  BY <1>1, <1>2, <1>5, <1>6, WroteGoes DEF d, s

\* What a flush leaves, with no other change.
LEMMA FlushedGoes ==
    ASSUME Inv, NEW o \in Flush(Now), NEW call \in {"flush", "tell", "fail"}, NEW ret,
           Ends(o.st, call, <<>>, ret), call = "tell" => ret = Tell(o.st),
           turn' = turn \/ (turn = "out" /\ o.ret = 0 /\ turn' = "either")
    PROVE  Step
  <1> DEFINE s == Now
             t == o.st
  <1>0. Sound(s) /\ o \in Flush(s)
    BY DEF Inv, Goes
  <1>1. /\ Sound(t) /\ Roomy(t) /\ Wrote(s, t, <<>>)
        /\ o.ret = 0 => NoOutput(t)
        /\ o.ret \in {0, EOF} /\ (o.ret = EOF => t.lost)
        /\ NoOutput(s) => t = s
        /\ t.fp.unread = s.fp.unread /\ t.fp.back = s.fp.back
    <2> HIDE DEF s
    <2> QED  BY <1>0, FlushGives
  <1>2. Now' = t /\ did' = [call |-> call, data |-> <<>>, ret |-> ret]
    <2> HIDE DEF t
    <2> QED  BY <1>1, EndsIs DEF Sound, t
  <1>3. Goes(t, turn', did')
    <2>1. turn' \in Turns
      BY DEF Inv, Goes, Turns
    <2>2. ~NoOutput(t) => turn' = "out"
      BY <1>1 DEF Inv, Goes
    <2>3. ~NoInput(t) => turn' = "in"
      BY <1>1 DEF Inv, Goes, NoInput
    <2>4. LastRead(t, did')
      BY <1>2 DEF LastRead
    <2>5. Landed(t, did')
      <3> SUFFICES ASSUME ~t.lost, call = "tell", t.fp.back = EOF  PROVE ret = AtOf(t)
        BY <1>2 DEF Landed
      <3>1. NoOutput(t)
        BY <1>1
      <3>2. ret = t.file.pos - Len(t.fp.unread)
        BY DEF Tell
      <3> HIDE DEF s, t
      <3>3. t.file.pos - Len(t.fp.unread) \in Int
        BY <1>1, PartsAre
      <3> QED  BY <3>1, <3>2, <3>3 DEF AtOf, NoOutput
    <2> QED  BY <1>1, <2>1, <2>2, <2>3, <2>4, <2>5 DEF Goes
  <1>4. Follows(s, t, did')
    <2>1. s.lost => t.lost
      BY <1>1 DEF Wrote
    <2> QED  BY <1>1, <1>2, <2>1 DEF Follows, Wrote
  <1> QED  BY <1>2, <1>3, <1>4 DEF Step

LEMMA FlushAllGoes ==
    ASSUME Inv, FlushAll
    PROVE  Step
  <1>1. PICK o \in Flush(Now) :
            /\ Ends(o.st, "flush", <<>>, o.ret)
            /\ turn' = IF turn = "out" /\ o.ret = 0 THEN "either" ELSE turn
    BY DEF FlushAll
  <1>2. turn' = turn \/ (turn = "out" /\ o.ret = 0 /\ turn' = "either")
    BY <1>1
  <1> QED  BY <1>1, <1>2, FlushedGoes

LEMMA FtellGoes ==
    ASSUME Inv, Ftell
    PROVE  Step
  <1>1. PICK o \in Flush(Now) : Ends(o.st, "tell", <<>>, Tell(o.st))
    BY DEF Ftell
  <1>2. turn' = turn
    BY DEF Ftell
  <1> QED  BY <1>1, <1>2, FlushedGoes

\* Reads.
LEMMA TookGoes ==
    ASSUME Inv, MayRead, NEW t, NEW d, Took1(Now, t, d), NEW call \in {"get", "lose"}, NEW ret,
           Ends(t, call, d, ret),
           turn' = IF t.fp.eof /\ t.fp.unread = <<>> THEN "either" ELSE "in"
    PROVE  Step
  <1> DEFINE s == Now
             f == s.file.data
             a == AtOf(s)
             b == AtOf(t)
  <1>0. Sound(s) /\ NoOutput(s) /\ Took(s, t, d) /\ Sound(t) /\ NoOutput(t) /\ Roomy(t)
    BY DEF Inv, Goes, MayRead, Took1
  <1>1. Now' = t /\ did' = [call |-> call, data |-> d, ret |-> ret]
    BY <1>0, EndsIs DEF Sound
  <1>2. a \in Nat /\ f \in Texts /\ Len(f) \in Nat
    <2> HIDE DEF s
    <2> QED  BY <1>0, AheadIs, PartsAre
  <1>3. /\ t.file.data = f /\ t.file.mode = s.file.mode /\ t.lost = s.lost /\ d \in Texts
        /\ b = a + Len(d) /\ Len(d) \in Nat /\ (d = <<>> <=> Len(d) = 0)
        /\ d # <<>> => b <= Len(f) /\ d = Part(f, a, b)
    BY <1>0, TextIs DEF Took
  <1>4. TextOf(s) = f /\ TextOf(t) = f
    BY <1>0, <1>3 DEF TextOf, NoOutput
  <1> HIDE DEF s, f, a, b
  <1>5. LastRead(t, did')
    <2> SUFFICES ASSUME d # <<>>
                 PROVE  b \in 1 .. Len(f) /\ d[Len(d)] = f[b]
      BY <1>0, <1>1, <1>3 DEF LastRead, b
    <2>1. b \in 1 .. Len(f) /\ a <= b /\ b \in Nat /\ Len(d) = b - a /\ Len(d) \in 1 .. b - a
          /\ a + Len(d) = b
      BY <1>2, <1>3
    <2>2. \A i \in 1 .. b - a : Part(f, a, b)[i] = f[a + i]
      BY <1>2, <1>3, <2>1, APartIs
    <2>3. d = Part(f, a, b)
      BY <1>3
    <2>4. Part(f, a, b)[Len(d)] = f[a + Len(d)]
      BY <2>1, <2>2
    <2> HIDE DEF b
    <2> QED  BY <2>1, <2>3, <2>4
  <1>6. Goes(t, turn', did')
    <2>1. ~NoInput(t) => turn' = "in"
      BY <1>0 DEF Sound, Ahead, NoInput
    <2>2. turn' \in Turns /\ Landed(t, did')
      BY <1>1 DEF Turns, Landed
    <2> QED  BY <1>0, <1>5, <2>1, <2>2 DEF Goes
  <1>7. d = SubSeq(f, a + 1, a + Len(d))
    <2>1. CASE d = <<>>
      <3>1. Len(d) = 0 /\ a + 0 = a
        BY <2>1, <1>2, <1>3
      <3>2. SubSeq(f, a + 1, a) = <<>>
        BY <1>2, SubSeqEmpty
      <3> QED  BY <2>1, <3>1, <3>2
    <2>2. CASE d # <<>>
      BY <2>2, <1>3 DEF Part
    <2> QED  BY <2>1, <2>2
  <1>8. Follows(s, t, did')
    BY <1>1, <1>3, <1>4, <1>7 DEF Follows, a, b
  <1> QED  BY <1>1, <1>6, <1>8 DEF Step, s

LEMMA GetsGoes ==
    ASSUME Inv, MayRead, NEW outcomes, Gets(outcomes),
           \A o \in outcomes : Took1(Now, o.st, o.data)
    PROVE  Step
  <1>1. PICK o \in outcomes :
            /\ Ends(o.st, "get", o.data, 0)
            /\ turn' = IF o.st.fp.eof /\ o.st.fp.unread = <<>> THEN "either" ELSE "in"
    BY DEF Gets, Delivered
  <1> QED  BY <1>1, TookGoes

LEMMA GetByteGoes ==
    ASSUME Inv, GetByte
    PROVE  Step
  <1> DEFINE s == Now
             g(i) == [st |-> i.st, data |-> IF i.byte = EOF THEN <<>> ELSE <<i.byte>>]
  <1>1. MayRead /\ Sound(s) /\ NoOutput(s) /\ Roomy(s) /\ Gets({g(i) : i \in Ic(s)})
    BY DEF GetByte, Inv, Goes, MayRead
  <1>2. ASSUME NEW i \in Ic(s)  PROVE Took1(s, g(i).st, g(i).data)
    <2> HIDE DEF s
    <2>1. Took1(s, i.st, Handed(i))
      BY <1>1, <1>2, IcGives
    <2> QED  BY <2>1 DEF Handed
  <1> HIDE DEF g
  <1>3. \A o \in {g(i) : i \in Ic(s)} : Took1(s, o.st, o.data)
    BY <1>2
  <1> QED  BY <1>1, <1>3, GetsGoes

LEMMA GetStringGoes ==
    ASSUME Inv, NEW n \in 1 .. MaxCall, GetString(n)
    PROVE  Step
  <1> DEFINE s == Now
  <1>1. MayRead /\ Sound(s) /\ NoOutput(s) /\ Roomy(s) /\ Gets(GetLine(s, n)) /\ n \in Nat
    BY StreamAssumption DEF GetString, Inv, Goes, MayRead
  <1>2. \A o \in GetLine(s, n) : Took1(s, o.st, o.data)
    <2> HIDE DEF s
    <2> QED  BY <1>1, GetLineGives
  <1> QED  BY <1>1, <1>2, GetsGoes

LEMMA GetDelimGoes ==
    ASSUME Inv, NEW delimiter \in Bytes, NEW room \in 1 .. MaxCall, GetDelim(delimiter, room)
    PROVE  Step
  <1> DEFINE s == Now
             n == IF room < 2 THEN LINE ELSE room
  <1>1. MayRead /\ Sound(s) /\ NoOutput(s) /\ Roomy(s) /\ n \in Nat
    BY StreamAssumption DEF GetDelim, Inv, Goes, MayRead
  <1>2. CASE Ends(s, "lose", <<>>, -1) /\ UNCHANGED turn
    <2>1. Now' = s /\ did' = [call |-> "lose", data |-> <<>>, ret |-> -1] /\ turn' = turn
      BY <1>1, <1>2, EndsIs DEF Sound
    <2> DEFINE a == AtOf(s)
               d == TextOf(s)
    <2>2. <<>> = SubSeq(d, a + 1, a + Len(<<>>)) /\ a = a + Len(<<>>)
      <3>1. a \in Nat
        <4> HIDE DEF s
        <4> QED  BY <1>1, AheadIs
      <3> HIDE DEF a, d
      <3>2. Len(<<>>) = 0 /\ a + 0 = a
        BY <3>1, EmptySeq
      <3>3. SubSeq(d, a + 1, a) = <<>>
        BY <3>1, SubSeqEmpty
      <3> QED  BY <3>2, <3>3
    <2>3. Follows(s, s, did')
      BY <2>1, <2>2 DEF Follows
    <2>4. Goes(s, turn', did')
      BY <2>1 DEF Inv, Goes, LastRead, Landed
    <2> QED  BY <2>1, <2>3, <2>4 DEF Step
  <1>3. ASSUME NEW o \in GetDelimited(s, delimiter, n), NEW call \in {"get", "lose"}, NEW ret,
               Delivered(o, call, ret)
        PROVE  Step
    <2>1. Took1(s, o.st, o.data)
      <3> HIDE DEF s, n
      <3> QED  BY <1>1, <1>3, GetDelimitedGives
    <2> HIDE DEF n
    <2> QED  BY <1>1, <1>3, <2>1, TookGoes DEF Delivered
  <1> HIDE DEF n
  <1>4. \/ Ends(s, "lose", <<>>, -1) /\ UNCHANGED turn
        \/ \E o \in GetDelimited(s, delimiter, n) :
              \/ Delivered(o, "lose", -1)
              \/ Delivered(o, "get", IF o.data = <<>> THEN -1 ELSE Len(o.data))
    BY DEF GetDelim, n
  <1> QED  BY <1>2, <1>3, <1>4

LEMMA ReadBytesGoes ==
    ASSUME Inv, NEW n \in 1 .. MaxCall, ReadBytes(n)
    PROVE  Step
  <1> DEFINE s == Now
  <1>1. MayRead /\ Sound(s) /\ NoOutput(s) /\ Roomy(s) /\ Gets(Fread(s, n)) /\ n \in Nat \ {0}
    BY StreamAssumption DEF ReadBytes, Inv, Goes, MayRead
  <1>2. \A o \in Fread(s, n) : Took1(s, o.st, o.data)
    <2> HIDE DEF s
    <2> QED  BY <1>1, FreadGives
  <1> QED  BY <1>1, <1>2, GetsGoes

\* The byte that was read last goes back to where it was read.
LEMMA UngetByteGoes ==
    ASSUME Inv, UngetByte
    PROVE  Step
  <1> DEFINE s == Now
             b == did.data[Len(did.data)]
             q == [s.fp EXCEPT !.back = b, !.eof = FALSE]
             t == [s EXCEPT !.fp = q]
             a == AtOf(s)
  <1>1. /\ Sound(s) /\ Roomy(s) /\ NoOutput(s) /\ did.data \in Texts /\ did.data # <<>>
        /\ a \in 1 .. Len(s.file.data) /\ b = s.file.data[a] /\ s.fp.back = EOF
        /\ turn' = "in"
    BY NowIs DEF Inv, Goes, UngetByte, LastRead
  <1>2. Ends([s EXCEPT !.fp.back = b, !.fp.eof = FALSE], "unget", <<>>, 0)
    BY DEF UngetByte
  <1>3. t = [s EXCEPT !.fp.back = b, !.fp.eof = FALSE]
    BY DEF Now
  <1> HIDE DEF s
  <1>4. b \in Bytes
    <2>1. Len(did.data) \in 1 .. Len(did.data)
      BY <1>1, TextIs
    <2> QED  BY <1>1, <2>1, TextIs
  <1>5. /\ q \in Fps /\ q.back = b /\ q.eof = FALSE /\ q.unread = s.fp.unread
        /\ q.pending = s.fp.pending /\ q.osize = s.fp.osize /\ q.out = s.fp.out
    BY <1>1, <1>4, PartsAre DEF Fps
  <1> HIDE DEF b, q
  <1>6. t \in States /\ t.fp = q /\ t.file = s.file /\ t.lost = s.lost
    BY <1>1, <1>5 DEF Sound, States
  <1>7. a = s.file.pos - Len(s.fp.unread) /\ a \in Nat
    <2>1. AtOf(s) \in Nat /\ AtOf(s) = s.file.pos - Len(s.fp.unread)
      BY <1>1, AheadIs
    <2> QED  BY <2>1
  <1>8. Ahead(q, s.file)
    BY <1>1, <1>5, <1>7 DEF Sound, Ahead, NoOutput
  <1> HIDE DEF t
  <1>9. Sound(t) /\ NoOutput(t) /\ Roomy(t)
    BY <1>1, <1>5, <1>6, <1>8 DEF Sound, Sized, NoOutput, Roomy
  <1>10. AtOf(t) = a - 1 /\ TextOf(t) = TextOf(s)
    BY <1>1, <1>4, <1>5, <1>6, <1>7, BytesAre DEF AtOf, TextOf, NoOutput
  <1>11. Now' = t /\ did' = [call |-> "unget", data |-> <<>>, ret |-> 0]
    BY <1>2, <1>3, <1>6, EndsIs
  <1>12. Goes(t, turn', did')
    BY <1>1, <1>9, <1>11 DEF Goes, Turns, LastRead, Landed
  <1>13. Follows(s, t, did')
    BY <1>6, <1>10, <1>11 DEF Follows, a
  <1> QED  BY <1>11, <1>12, <1>13 DEF Step, s

\* A stream with nothing in its buffers.
Empty(p) == p.unread = <<>> /\ p.pending = <<>> /\ p.back = EOF /\ ~p.eof

LEMMA EmptyIs ==
    ASSUME NEW t \in States, OnDisk(t.file), Empty(t.fp), t.fp.out \in {"lazy", "none"} <=> t.fp.osize = 0
    PROVE  /\ Sound(t) /\ Roomy(t) /\ NoInput(t) /\ NoOutput(t)
           /\ TextOf(t) = t.file.data /\ AtOf(t) = t.file.pos
  <1>1. /\ t.fp \in Fps /\ t.fp.osize \in Nat /\ t.file.pos \in Nat /\ BUFSIZ \in Nat
        /\ t.fp.unread = <<>> /\ t.fp.pending = <<>> /\ t.fp.back = EOF /\ t.fp.eof = FALSE
    BY StreamAssumption DEF States, Fps, KernelFiles, Empty
  <1>2. Len(<<>>) = 0
    BY EmptySeq
  <1>3. Ahead(t.fp, t.file)
    BY <1>1, DryAhead
  <1>4. Sound(t)
    BY <1>1, <1>2, <1>3 DEF Sound, Sized
  <1>5. AtOf(t) = t.file.pos
    <2>1. AtOf(t) = t.file.pos - 0 - 0
      BY <1>1, <1>2 DEF AtOf
    <2> QED  BY <2>1, <1>1
  <1> QED  BY <1>1, <1>2, <1>4, <1>5 DEF Roomy, NoInput, NoOutput, TextOf

LEMMA MovedIs ==
    ASSUME NEW s, Sound(s), NEW to \in Nat, to <= MaxFile, NEW t, t = Moved(s, to)
    PROVE  /\ t \in States /\ OnDisk(t.file) /\ Empty(t.fp)
           /\ t.fp.out \in {"lazy", "none"} <=> t.fp.osize = 0
           /\ t.file.data = s.file.data /\ t.file.pos = to /\ t.file.mode = s.file.mode
           /\ t.lost = s.lost
  <1> DEFINE q == [s.fp EXCEPT !.unread = <<>>, !.pending = <<>>, !.back = EOF, !.eof = FALSE]
             f == [s.file EXCEPT !.pos = to]
  <1>1. <<>> \in Texts
    BY EmptySeq DEF Texts
  <1>2. /\ q \in Fps /\ q.unread = <<>> /\ q.pending = <<>> /\ q.back = EOF /\ q.eof = FALSE
        /\ q.osize = s.fp.osize /\ q.out = s.fp.out
    BY <1>1, PartsAre DEF Fps
  <1>3. f \in KernelFiles /\ f.data = s.file.data /\ f.pos = to /\ f.mode = s.file.mode
    BY PartsAre DEF KernelFiles
  <1>4. t = [s EXCEPT !.file = f, !.fp = q]
    BY PartsAre DEF Moved
  <1> HIDE DEF q, f
  <1>5. t \in States /\ t.fp = q /\ t.file = f /\ t.lost = s.lost
    BY <1>2, <1>3, <1>4 DEF Sound, States
  <1> QED  BY <1>2, <1>3, <1>5 DEF Empty, Sound, Sized, OnDisk

\* A move that lands in t, after a flush that has left the text as it was.
LEMMA SeekGoes ==
    ASSUME Inv, NEW o \in Flush(Now), NEW t \in States, OnDisk(t.file), Empty(t.fp),
           t.fp.out \in {"lazy", "none"} <=> t.fp.osize = 0,
           t.file.data = o.st.file.data, t.file.mode = o.st.file.mode, t.lost = o.st.lost,
           NEW whence, NEW offset, Ends(t, "seek", <<whence, offset>>, 0), turn' = "either",
           whence = "set" => t.file.pos = offset,
           whence = "end" => t.file.pos = Len(t.file.data) + offset
    PROVE  Step
  <1> DEFINE s == Now
             u == o.st
  <1>0. Sound(s) /\ o \in Flush(s)
    BY DEF Inv, Goes
  <1>1. /\ Wrote(s, u, <<>>) /\ o.ret \in {0, EOF}
        /\ o.ret = 0 => NoOutput(u)
        /\ o.ret = EOF => u.lost
    <2> HIDE DEF s
    <2> QED  BY <1>0, FlushGives
  <1>2. /\ Sound(t) /\ Roomy(t) /\ NoInput(t) /\ NoOutput(t)
        /\ TextOf(t) = t.file.data /\ AtOf(t) = t.file.pos
    BY EmptyIs
  <1>3. Now' = t /\ did' = [call |-> "seek", data |-> <<whence, offset>>, ret |-> 0]
    BY EndsIs
  <1>4. Goes(t, turn', did')
    <2>1. Landed(t, did')
      BY <1>2, <1>3 DEF Landed
    <2> QED  BY <1>2, <1>3, <2>1 DEF Goes, Turns, LastRead
  <1>5. Follows(s, t, did')
    <2> SUFFICES ASSUME ~t.lost  PROVE TextOf(t) = TextOf(s)
      BY <1>1, <1>3 DEF Follows, Wrote
    <2>1. TextOf(u) = TextOf(s) /\ NoOutput(u)
      BY <1>1 DEF Wrote
    <2>2. TextOf(u) = u.file.data
      BY <2>1 DEF TextOf, NoOutput
    <2> QED  BY <1>2, <2>1, <2>2
  <1> QED  BY <1>3, <1>4, <1>5 DEF Step

LEMMA FseekGoes ==
    ASSUME Inv, NEW offset \in -1 .. 1, NEW whence \in {"set", "cur", "end"},
           Fseek(offset, whence)
    PROVE  Step
  <1> DEFINE s == Now
  <1>1. PICK o \in Flush(s) :
            LET to == Target(o.st, offset, whence)
            IN  /\ to <= MaxFile
                /\ IF to < 0
                     THEN Ends(o.st, "seek", <<whence, offset>>, -1) /\ UNCHANGED turn
                     ELSE /\ Ends(Moved(o.st, to), "seek", <<whence, offset>>, 0)
                          /\ turn' = "either"
    BY DEF Fseek
  <1> DEFINE u == o.st
             to == Target(u, offset, whence)
  <1>0. Sound(s)
    BY DEF Inv, Goes
  <1>2. /\ Sound(u) /\ Roomy(u) /\ Wrote(s, u, <<>>)
        /\ NoOutput(s) => u = s
        /\ u.fp.unread = s.fp.unread /\ u.fp.back = s.fp.back
        /\ o.ret = 0 => NoOutput(u)
    <2> HIDE DEF s
    <2> QED  BY <1>0, FlushGives
  <1>3. /\ u.file.pos \in Nat /\ Len(u.file.data) \in Nat
    <2> HIDE DEF u
    <2> QED  BY <1>2, PartsAre
  <1>4. /\ to \in Int
        /\ whence = "set" => to = offset
        /\ whence = "end" => to = Len(u.file.data) + offset
    <2>1. CASE whence = "set"
      BY <2>1, <1>3 DEF Target
    <2>2. CASE whence = "cur"
      BY <2>2, <1>3 DEF Target
    <2>3. CASE whence = "end"
      <3> DEFINE n == Len(u.file.data)
      <3>1. to = offset + n /\ n \in Nat
        BY <2>3, <1>3 DEF Target
      <3> HIDE DEF to, n, u
      <3>2. to \in Int /\ to = n + offset
        BY <3>1
      <3> QED  BY <2>3, <3>2 DEF n
    <2> QED  BY <2>1, <2>2, <2>3
  <1>5. CASE to < 0
    <2>1. Ends(u, "seek", <<whence, offset>>, -1) /\ turn' = turn
      BY <1>1, <1>5
    <2>2. Now' = u /\ did' = [call |-> "seek", data |-> <<whence, offset>>, ret |-> -1]
      <3> HIDE DEF u
      <3> QED  BY <1>2, <2>1, EndsIs DEF Sound
    <2>3. Goes(u, turn', did')
      <3>1. ~NoOutput(u) => turn' = "out"
        BY <1>2, <2>1 DEF Inv, Goes
      <3>2. ~NoInput(u) => turn' = "in"
        BY <1>2, <2>1 DEF Inv, Goes, NoInput
      <3>3. turn' \in Turns /\ LastRead(u, did') /\ Landed(u, did')
        BY <2>1, <2>2 DEF Inv, Goes, LastRead, Landed
      <3> QED  BY <1>2, <3>1, <3>2, <3>3 DEF Goes
    <2>4. Follows(s, u, did')
      BY <1>2, <2>2 DEF Follows, Wrote
    <2> QED  BY <2>2, <2>3, <2>4 DEF Step
  <1>6. CASE ~(to < 0)
    <2> DEFINE t == Moved(u, to)
    <2>1. Ends(t, "seek", <<whence, offset>>, 0) /\ turn' = "either"
      BY <1>1, <1>6
    <2>2. to \in Nat /\ to <= MaxFile
      BY <1>1, <1>4, <1>6
    <2>3. /\ t \in States /\ OnDisk(t.file) /\ Empty(t.fp)
          /\ t.fp.out \in {"lazy", "none"} <=> t.fp.osize = 0
          /\ t.file.data = u.file.data /\ t.file.pos = to /\ t.file.mode = u.file.mode
          /\ t.lost = u.lost
      <3> HIDE DEF u, to
      <3> QED  BY <1>2, <2>2, MovedIs
    <2> HIDE DEF t, to
    <2> QED  BY <1>4, <2>1, <2>3, SeekGoes
  <1> QED  BY <1>5, <1>6

LEMMA RewindGoes ==
    ASSUME Inv, Rewind
    PROVE  Step
  <1> DEFINE s == Now
  <1>1. PICK o \in Flush(s) :
            Ends([Moved(o.st, 0) EXCEPT !.fp.err = FALSE], "seek", <<"set", 0>>, 0)
    BY DEF Rewind
  <1>2. turn' = "either"
    BY DEF Rewind
  <1> DEFINE u == o.st
             m == Moved(u, 0)
             t == [m EXCEPT !.fp.err = FALSE]
  <1>0. Sound(s)
    BY DEF Inv, Goes
  <1>3. Sound(u)
    <2> HIDE DEF s
    <2> QED  BY <1>0, FlushGives
  <1>4. /\ m \in States /\ OnDisk(m.file) /\ Empty(m.fp)
        /\ m.fp.out \in {"lazy", "none"} <=> m.fp.osize = 0
        /\ m.file.data = u.file.data /\ m.file.pos = 0 /\ m.file.mode = u.file.mode
        /\ m.lost = u.lost
    <2> HIDE DEF u
    <2>1. 0 \in Nat /\ 0 <= MaxFile
      BY StreamAssumption
    <2> QED  BY <1>3, <2>1, MovedIs
  <1> HIDE DEF m
  <1> DEFINE q == [m.fp EXCEPT !.err = FALSE]
  <1>5. /\ q \in Fps /\ Empty(q) /\ q.out = m.fp.out /\ q.osize = m.fp.osize
    BY <1>4 DEF States, Fps, Empty
  <1>6. t = [m EXCEPT !.fp = q]
    BY <1>4 DEF States
  <1> HIDE DEF q
  <1>7. t \in States /\ t.fp = q /\ t.file = m.file /\ t.lost = m.lost
    BY <1>4, <1>5, <1>6 DEF States
  <1>8. Ends(t, "seek", <<"set", 0>>, 0)
    BY <1>1 DEF m
  <1> HIDE DEF t
  <1>9. /\ OnDisk(t.file) /\ Empty(t.fp) /\ (t.fp.out \in {"lazy", "none"} <=> t.fp.osize = 0)
        /\ t.file.data = o.st.file.data /\ t.file.mode = o.st.file.mode /\ t.lost = o.st.lost
        /\ t.file.pos = 0
    BY <1>4, <1>5, <1>7
  <1> QED  BY <1>1, <1>2, <1>7, <1>8, <1>9, SeekGoes

LEMMA ClearerrGoes ==
    ASSUME Inv, Clearerr
    PROVE  Step
  <1> DEFINE s == Now
             q == [s.fp EXCEPT !.eof = FALSE, !.err = FALSE]
             t == [s EXCEPT !.fp = q]
  <1>0. Sound(s) /\ Roomy(s)
    BY DEF Inv, Goes
  <1>1. Ends([s EXCEPT !.fp.eof = FALSE, !.fp.err = FALSE], "clear", <<>>, 0) /\ turn' = turn
    BY DEF Clearerr
  <1>2. t = [s EXCEPT !.fp.eof = FALSE, !.fp.err = FALSE]
    BY DEF Now
  <1>9. /\ s = Now /\ (~NoOutput(s) => turn = "out") /\ (~NoInput(s) => turn = "in") /\ turn \in Turns
    BY DEF Inv, Goes
  <1> HIDE DEF s
  <1>3. /\ q \in Fps /\ q.back = s.fp.back /\ q.eof = FALSE /\ q.unread = s.fp.unread
        /\ q.pending = s.fp.pending /\ q.osize = s.fp.osize /\ q.out = s.fp.out
    BY <1>0, PartsAre DEF Fps
  <1> HIDE DEF q
  <1>4. t \in States /\ t.fp = q /\ t.file = s.file /\ t.lost = s.lost
    BY <1>0, <1>3 DEF Sound, States
  <1> HIDE DEF t
  <1>5. Sound(t) /\ Roomy(t)
    BY <1>0, <1>3, <1>4 DEF Sound, Sized, Ahead, Roomy
  <1>6. AtOf(t) = AtOf(s) /\ TextOf(t) = TextOf(s)
    BY <1>3, <1>4 DEF AtOf, TextOf
  <1>7. Now' = t /\ did' = [call |-> "clear", data |-> <<>>, ret |-> 0]
    BY <1>1, <1>2, <1>4, EndsIs
  <1>8. Goes(t, turn', did')
    BY <1>1, <1>3, <1>4, <1>5, <1>7, <1>9 DEF Goes, LastRead, Landed, NoInput, NoOutput
  <1>10. Follows(s, t, did')
    BY <1>4, <1>6, <1>7 DEF Follows
  <1> QED  BY <1>7, <1>8, <1>9, <1>10 DEF Step

LEMMA SetvbufGoes ==
    ASSUME Inv, Setvbuf
    PROVE  Step
  <1> DEFINE s == Now
  <1>0. Sound(s) /\ Roomy(s) /\ NoInput(s) /\ NoOutput(s) /\ turn \in Turns /\ turn' = turn
    BY DEF Inv, Goes, Setvbuf
  <1>1. PICK b \in {[out |-> "none", size |-> 0], [out |-> "user", size |-> SmallBuf],
                    [out |-> "own", size |-> SmallBuf], [out |-> "null", size |-> SmallBuf]} :
            Ends([s EXCEPT !.fp.out = b.out, !.fp.osize = b.size, !.fp.pending = <<>>],
                 "buffer", <<>>, 0)
    BY DEF Setvbuf
  <1> DEFINE q == [s.fp EXCEPT !.out = b.out, !.osize = b.size, !.pending = <<>>]
             t == [s EXCEPT !.fp = q]
  <1>2. Ends(t, "buffer", <<>>, 0)
    <2>1. t = [s EXCEPT !.fp.out = b.out, !.fp.osize = b.size, !.fp.pending = <<>>]
      BY DEF Now
    <2> QED  BY <1>1, <2>1
  <1>3. s = Now
    OBVIOUS
  <1> HIDE DEF s
  <1>4. /\ b.out \in {"none", "own", "user", "null"} /\ b.size \in Nat
        /\ (b.out \in {"lazy", "none"} <=> b.size = 0)
    BY <1>1, StreamAssumption
  <1>5. <<>> \in Texts /\ Len(<<>>) = 0
    BY EmptySeq DEF Texts
  <1>6. /\ q \in Fps /\ q.back = EOF /\ q.eof = s.fp.eof /\ q.unread = <<>>
        /\ q.pending = <<>> /\ q.osize = b.size /\ q.out = b.out
    BY <1>0, <1>4, <1>5, PartsAre DEF Fps, NoInput
  <1> HIDE DEF q
  <1>7. t \in States /\ t.fp = q /\ t.file = s.file /\ t.lost = s.lost
    BY <1>0, <1>6 DEF Sound, States
  <1> HIDE DEF t
  <1>8. Sound(t) /\ Roomy(t) /\ NoInput(t) /\ NoOutput(t)
    <2>1. Ahead(q, s.file)
      BY <1>0, <1>6 DEF Sound, Ahead, NoInput
    <2>2. Len(q.unread) <= BUFSIZ /\ Len(q.pending) <= q.osize
      BY <1>4, <1>5, <1>6, StreamAssumption
    <2> QED  BY <1>0, <1>4, <1>5, <1>6, <1>7, <2>1, <2>2 DEF Sound, Sized, Roomy, NoInput, NoOutput
  <1>9. AtOf(t) = AtOf(s) /\ TextOf(t) = TextOf(s)
    BY <1>0, <1>6, <1>7 DEF AtOf, TextOf, NoInput, NoOutput
  <1>10. Now' = t /\ did' = [call |-> "buffer", data |-> <<>>, ret |-> 0]
    BY <1>2, <1>7, EndsIs
  <1>11. Goes(t, turn', did')
    BY <1>0, <1>8, <1>10 DEF Goes, LastRead, Landed
  <1>12. Follows(s, t, did')
    BY <1>7, <1>9, <1>10 DEF Follows
  <1> QED  BY <1>3, <1>10, <1>11, <1>12 DEF Step

LEMMA OpenedIs ==
    ASSUME NEW f, OnDisk(f), NEW mode \in OpenModes
    PROVE  OnDisk(OpenedFile(f, mode)) /\ OpenedFile(f, mode) \in KernelFiles
  <1>1. f.data \in Texts /\ <<>> \in Texts /\ Len(<<>>) = 0 /\ mode \in Modes
        /\ MaxFile \in Nat /\ Len(f.data) <= MaxFile
    BY EmptySeq, StreamAssumption DEF OnDisk, KernelFiles, Texts, Modes
  <1> QED  BY <1>1 DEF OpenedFile, OnDisk, KernelFiles

\* A stream that has just been opened, or closed.
LEMMA FreshGoes ==
    ASSUME Inv, NEW t \in States, OnDisk(t.file), Empty(t.fp),
           t.fp.out \in {"lazy", "none"} <=> t.fp.osize = 0,
           NEW call \in {"open", "close"}, NEW ret, Ends(t, call, <<>>, ret),
           turn' \in {"new", "closed"}
    PROVE  /\ Goes(Now', turn', did') /\ Now' = t
           /\ did' = [call |-> call, data |-> <<>>, ret |-> ret]
           /\ TextOf(t) = t.file.data
  <1>1. /\ Sound(t) /\ Roomy(t) /\ NoInput(t) /\ NoOutput(t) /\ TextOf(t) = t.file.data
    BY EmptyIs
  <1>2. Now' = t /\ did' = [call |-> call, data |-> <<>>, ret |-> ret]
    BY EndsIs
  <1>3. Goes(t, turn', did')
    BY <1>1, <1>2 DEF Goes, Turns, LastRead, Landed
  <1> QED  BY <1>1, <1>2, <1>3

LEMMA EnsuredIs ==
    ASSUME NEW p \in Fps
    PROVE  \A q \in {Reset(Ensured(p)), Ensured(p)} :
               /\ q \in Fps
               /\ q = Reset(Ensured(p)) \/ Empty(p) => Empty(q)
               /\ (p.out \in {"lazy", "none"} <=> p.osize = 0)
                     => (q.out \in {"lazy", "none"} <=> q.osize = 0)
  <1> DEFINE b == p.out \in {"lazy", "none", "null"}
             x == IF b THEN "own" ELSE p.out
             k == IF b THEN BUFSIZ ELSE p.osize
             e == [p EXCEPT !.in = "own", !.out = x, !.osize = k]
             q == [e EXCEPT !.back = EOF, !.unread = <<>>, !.pending = <<>>, !.eof = FALSE,
                            !.err = FALSE]
  <1>1. <<>> \in Texts /\ BUFSIZ \in Nat /\ BUFSIZ # 0
    BY EmptySeq, StreamAssumption DEF Texts
  <1>2. x \in {"own", "user"} /\ k \in Nat /\ (~b => k = p.osize)
    BY <1>1 DEF Fps
  <1>3. b => k = BUFSIZ
    OBVIOUS
  <1>4. Ensured(p) = e
    BY DEF Ensured
  <1> HIDE DEF x, k
  <1>5. /\ e \in Fps /\ e.out = x /\ e.osize = k
        /\ e.unread = p.unread /\ e.pending = p.pending /\ e.back = p.back /\ e.eof = p.eof
    BY <1>2 DEF Fps
  <1>6. Reset(Ensured(p)) = q
    BY <1>4 DEF Reset
  <1> HIDE DEF e
  <1>7. /\ q \in Fps /\ q.unread = <<>> /\ q.pending = <<>> /\ q.back = EOF /\ q.eof = FALSE
        /\ q.out = x /\ q.osize = k
    BY <1>1, <1>5 DEF Fps
  <1> HIDE DEF q
  <1>8. ASSUME p.out \in {"lazy", "none"} <=> p.osize = 0
        PROVE  x \in {"lazy", "none"} <=> k = 0
    BY <1>1, <1>2, <1>3, <1>8
  <1> QED  BY <1>4, <1>5, <1>6, <1>7, <1>8 DEF Empty

LEMMA ClosedIs == Closed \in Fps /\ Empty(Closed) /\ Closed.out = "none" /\ Closed.osize = 0
  BY EmptySeq DEF Closed, Fps, Empty, Texts

LEMMA ClosesGoes ==
    ASSUME Inv, NEW o \in Flush(Now), NEW ret,
           Ends([o.st EXCEPT !.fp = Closed], "close", <<>>, ret), turn' = "closed"
    PROVE  Step
  <1> DEFINE s == Now
             u == o.st
             t == [u EXCEPT !.fp = Closed]
  <1>0. Sound(s) /\ o \in Flush(s)
    BY DEF Inv, Goes
  <1>1. /\ Sound(u) /\ Wrote(s, u, <<>>) /\ o.ret \in {0, EOF}
        /\ o.ret = 0 => NoOutput(u)
        /\ o.ret = EOF => u.lost
    <2> HIDE DEF s
    <2> QED  BY <1>0, FlushGives
  <1>2. Ends(t, "close", <<>>, ret)
    OBVIOUS
  <1> HIDE DEF u
  <1>3. t \in States /\ t.fp = Closed /\ t.file = u.file /\ t.lost = u.lost
    BY <1>1, ClosedIs DEF Sound, States
  <1> HIDE DEF t
  <1>4. /\ OnDisk(t.file) /\ Empty(t.fp)
        /\ t.fp.out \in {"lazy", "none"} <=> t.fp.osize = 0
    BY <1>1, <1>3, ClosedIs DEF Sound
  <1>5. /\ Goes(Now', turn', did') /\ Now' = t
        /\ did' = [call |-> "close", data |-> <<>>, ret |-> ret]
        /\ TextOf(t) = t.file.data
    BY <1>2, <1>3, <1>4, FreshGoes
  <1>6. Follows(s, t, did')
    <2>1. ~t.lost => TextOf(t) = TextOf(s)
      <3> SUFFICES ASSUME ~t.lost  PROVE TextOf(t) = TextOf(s)
        OBVIOUS
      <3>1. NoOutput(u) /\ TextOf(u) = TextOf(s)
        BY <1>1, <1>3 DEF Wrote
      <3> QED  BY <1>3, <1>5, <3>1 DEF TextOf, NoOutput
    <2> QED  BY <1>1, <1>3, <1>5, <2>1 DEF Follows, Wrote
  <1> QED  BY <1>5, <1>6 DEF Step

LEMMA FcloseGoes ==
    ASSUME Inv, Fclose
    PROVE  Step
  BY ClosesGoes DEF Fclose

\* A stream that has just been opened on the file f.
LEMMA OpensGoes ==
    ASSUME Inv, NEW p \in Fps, Empty(p), p.out \in {"lazy", "none"} <=> p.osize = 0,
           NEW f, OnDisk(f), NEW mode \in OpenModes,
           Ends([fp |-> p, file |-> OpenedFile(f, mode), lost |-> FALSE], "open", <<>>, 0),
           turn' = "new"
    PROVE  Step
  <1> DEFINE g == OpenedFile(f, mode)
             t == [fp |-> p, file |-> g, lost |-> FALSE]
  <1>1. OnDisk(g) /\ g \in KernelFiles /\ Ends(t, "open", <<>>, 0)
    BY OpenedIs
  <1> HIDE DEF g
  <1>2. t \in States /\ t.fp = p /\ t.file = g
    BY <1>1 DEF States
  <1> HIDE DEF t
  <1>3. Goes(Now', turn', did') /\ did' = [call |-> "open", data |-> <<>>, ret |-> 0]
    BY <1>1, <1>2, FreshGoes
  <1> QED  BY <1>3 DEF Step, Follows

LEMMA FopenGoes ==
    ASSUME Inv, NEW mode \in OpenModes, Fopen(mode)
    PROVE  Step
  <1> DEFINE p == Ensured(Closed)
  <1>1. /\ Ends([fp |-> p, file |-> OpenedFile(file, mode), lost |-> FALSE], "open", <<>>, 0)
        /\ turn' = "new"
    BY DEF Fopen
  <1>3. p \in Fps /\ Empty(p) /\ (p.out \in {"lazy", "none"} <=> p.osize = 0)
    BY ClosedIs, EnsuredIs
  <1>2. OnDisk(file)
    BY NowIs DEF Inv, Goes, Sound
  <1> HIDE DEF p
  <1> QED  BY <1>1, <1>2, <1>3, OpensGoes

LEMMA FreopenGoes ==
    ASSUME Inv, NEW mode \in OpenModes, Freopen(mode)
    PROVE  Step
  <1>1. PICK o \in Flush(Now) :
            IF o.ret = EOF
              THEN Ends(o.st, "fail", <<>>, EOF) /\ UNCHANGED turn
              ELSE \/ /\ Ends([fp |-> Reset(Ensured(o.st.fp)), lost |-> FALSE,
                               file |-> OpenedFile(o.st.file, mode)], "open", <<>>, 0)
                      /\ turn' = "new"
                   \/ /\ Ends([o.st EXCEPT !.fp = Closed], "close", <<>>, EOF)
                      /\ turn' = "closed"
    BY DEF Freopen
  <1>2. CASE o.ret = EOF
    <2>1. Ends(o.st, "fail", <<>>, EOF) /\ turn' = turn
      BY <1>1, <1>2
    <2> QED  BY <2>1, FlushedGoes
  <1>3. CASE o.ret # EOF /\ Ends([o.st EXCEPT !.fp = Closed], "close", <<>>, EOF) /\ turn' = "closed"
    BY <1>3, ClosesGoes
  <1>4. CASE /\ o.ret # EOF /\ turn' = "new"
             /\ Ends([fp |-> Reset(Ensured(o.st.fp)), lost |-> FALSE,
                      file |-> OpenedFile(o.st.file, mode)], "open", <<>>, 0)
    <2> DEFINE s == Now
               u == o.st
               p == Reset(Ensured(u.fp))
    <2>0. Sound(s) /\ o \in Flush(s)
      BY DEF Inv, Goes
    <2>1. Sound(u)
      <3> HIDE DEF s
      <3> QED  BY <2>0, FlushGives
    <2>2. Ends([fp |-> p, file |-> OpenedFile(u.file, mode), lost |-> FALSE], "open", <<>>, 0)
      BY <1>4
    <2> HIDE DEF u
    <2>3. u.fp \in Fps /\ OnDisk(u.file) /\ (u.fp.out \in {"lazy", "none"} <=> u.fp.osize = 0)
      BY <2>1 DEF Sound, Sized, States
    <2>4. p \in Fps /\ Empty(p) /\ (p.out \in {"lazy", "none"} <=> p.osize = 0)
      BY <2>3, EnsuredIs
    <2> HIDE DEF p
    <2> QED  BY <1>4, <2>2, <2>3, <2>4, OpensGoes
  <1> QED  BY <1>1, <1>2, <1>3, <1>4

-------------------------------------------------------------------------------
(***************************************************************************)
(* The whole.                                                              *)
(***************************************************************************)
\* Every call keeps the invariant, and looks to the user like a step of a text
\* and a place in it.
LEMMA NextGoes ==
    ASSUME Inv, Next
    PROVE  Step
  <1>1. ASSUME NEW b \in Bytes, PutByte(b)  PROVE Step
    BY <1>1, PutByteGoes
  <1>2. ASSUME NEW data \in Strings, PutString(data)  PROVE Step
    BY <1>2, PutStringGoes
  <1>3. ASSUME NEW data \in Strings, WriteBytes(data)  PROVE Step
    BY <1>3, WriteBytesGoes
  <1>4. CASE FlushAll
    BY <1>4, FlushAllGoes
  <1>5. CASE GetByte
    BY <1>5, GetByteGoes
  <1>6. ASSUME NEW n \in 1 .. MaxCall, GetString(n)  PROVE Step
    BY <1>6, GetStringGoes
  <1>7. ASSUME NEW n \in 1 .. MaxCall, ReadBytes(n)  PROVE Step
    BY <1>7, ReadBytesGoes
  <1>8. CASE UngetByte
    BY <1>8, UngetByteGoes
  <1>9. ASSUME NEW offset \in -1 .. 1, NEW whence \in {"set", "cur", "end"}, Fseek(offset, whence)
        PROVE  Step
    BY <1>9, FseekGoes
  <1>10. CASE Rewind
    BY <1>10, RewindGoes
  <1>11. CASE Ftell
    BY <1>11, FtellGoes
  <1>12. CASE Clearerr
    BY <1>12, ClearerrGoes
  <1>13. CASE Setvbuf
    BY <1>13, SetvbufGoes
  <1>14. ASSUME NEW mode \in OpenModes, Fopen(mode)  PROVE Step
    BY <1>14, FopenGoes
  <1>15. ASSUME NEW mode \in OpenModes, Freopen(mode)  PROVE Step
    BY <1>15, FreopenGoes
  <1>16. CASE Fclose
    BY <1>16, FcloseGoes
  <1>17. ASSUME NEW delimiter \in Bytes, NEW room \in 1 .. MaxCall, GetDelim(delimiter, room)
         PROVE  Step
    BY <1>17, GetDelimGoes
  <1> QED
    BY <1>1, <1>2, <1>3, <1>4, <1>5, <1>6, <1>7, <1>8, <1>9, <1>10, <1>11, <1>12, <1>13, <1>14,
       <1>15, <1>16, <1>17 DEF Next

LEMMA InitGoes ==
    ASSUME Init
    PROVE  Inv
  <1>1. file \in [data : UNION {[1 .. n -> Bytes] : n \in 0 .. MaxFile}, pos : {0}, mode : {"r+"}]
    BY DEF Init
  <1>2. PICK n \in 0 .. MaxFile : file.data \in [1 .. n -> Bytes]
    BY <1>1
  <1>3. n \in Nat /\ n <= MaxFile /\ 0 \in Nat /\ 0 <= MaxFile
    BY <1>2, StreamAssumption
  <1>4. file.data \in Texts /\ Len(file.data) = n
    BY <1>2, <1>3, SeqDef, LenProperties DEF Texts
  <1>5. OnDisk(file)
    <2>1. file = [data |-> file.data, pos |-> 0, mode |-> "r+"] /\ file.pos = 0
      BY <1>1
    <2> QED  BY <2>1, <1>3, <1>4 DEF OnDisk, KernelFiles, Modes
  <1>6. fp = Closed \/ fp = [Closed EXCEPT !.out = "lazy"]
    BY DEF Init
  <1>7. fp \in Fps /\ Empty(fp) /\ (fp.out \in {"lazy", "none"} <=> fp.osize = 0)
    <2> DEFINE r == [Closed EXCEPT !.out = "lazy"]
    <2>1. r \in Fps /\ Empty(r) /\ r.out = "lazy" /\ r.osize = 0
      BY ClosedIs DEF Fps, Empty
    <2> HIDE DEF r
    <2>2. CASE fp = Closed
      BY <2>2, ClosedIs
    <2>3. CASE fp = r
      BY <2>1, <2>3
    <2> QED  BY <1>6, <2>2, <2>3 DEF r
  <1> DEFINE s == Now
  <1>8. s \in States /\ s.fp = fp /\ s.file = file
    BY <1>5, <1>7, NowIs DEF Init, States, OnDisk, Now
  <1> HIDE DEF s
  <1>9. /\ Sound(s) /\ Roomy(s) /\ NoInput(s) /\ NoOutput(s)
        /\ turn \in Turns /\ did.call = "start"
    BY <1>5, <1>7, <1>8, EmptyIs DEF Init, Turns
  <1> QED  BY <1>9 DEF Inv, Goes, LastRead, Landed, s

LEMMA InvKept ==
    ASSUME Inv, [Next]_vars
    PROVE  Inv'
  <1>1. CASE Next
    <2>1. Step
      BY <1>1, NextGoes
    <2> QED  BY <2>1 DEF Step, Inv
  <1>2. CASE UNCHANGED vars
    <2>1. Now' = Now /\ turn' = turn /\ did' = did
      BY <1>2 DEF vars, Now
    <2> QED  BY <2>1 DEF Inv
  <1> QED  BY <1>1, <1>2

LEMMA InvHolds == Spec => []Inv
  <1>1. Init => Inv
    BY InitGoes
  <1>2. Inv /\ [Next]_vars => Inv'
    BY InvKept
  <1> QED  BY <1>1, <1>2, PTL DEF Spec

-------------------------------------------------------------------------------
(***************************************************************************)
(* What the runs check.                                                    *)
(***************************************************************************)
\* The state of a stream is made of the values the code's variables can hold,
\* and between calls a buffer has room for the byte fputc() puts next, unless a
\* flush has failed.
THEOREM StreamTypeOK == Spec => []TypeOK
  <1>1. Inv => TypeOK
    <2> SUFFICES ASSUME Inv  PROVE TypeOK
      OBVIOUS
    <2> DEFINE s == Now
    <2>1. Sound(s) /\ Roomy(s) /\ s.fp = fp /\ s.file = file /\ s.lost = lost /\ turn \in Turns
      BY NowIs DEF Inv, Goes
    <2> HIDE DEF s
    <2>2. /\ fp \in Fps /\ file.data \in Texts /\ file.pos \in Nat
          /\ Len(file.data) <= MaxFile /\ file.pos <= MaxFile
      BY <2>1 DEF Sound, States, OnDisk, KernelFiles
    <2>3. \A i \in DOMAIN file.data : file.data[i] \in Bytes
      BY <2>2, TextIs
    <2>4. file.pos \in 0 .. MaxFile
      BY <2>2, StreamAssumption
    <2> QED  BY <2>1, <2>2, <2>3, <2>4 DEF TypeOK, Sound, Sized, Roomy, Turns, Fps
  <1> QED  BY <1>1, InvHolds, PTL

\* The bytes ic() and fread() have read ahead are the ones the file holds before
\* the kernel's place: no write, move or rebuffering of the stream makes them
\* stale.
THEOREM StreamReadAheadFresh == Spec => []ReadAheadFresh
  <1>1. Inv => ReadAheadFresh
    BY NowIs DEF Inv, Goes, Sound, Ahead, ReadAheadFresh
  <1> QED  BY <1>1, InvHolds, PTL

\* feof() is true only with the place at the end of the text, whatever waits in
\* the output buffer.
THEOREM StreamEofMeansEnd == Spec => []EofMeansEnd
  <1>1. Inv => EofMeansEnd
    <2> SUFFICES ASSUME Inv, fp.eof  PROVE At >= Len(Text)
      BY DEF EofMeansEnd
    <2> DEFINE f == file
               d == file.data
               e == fp.pending
               n == WritePlace(f)
    <2>1. /\ fp \in Fps /\ d \in Texts /\ e \in Texts /\ f.pos \in Nat /\ OnDisk(f)
          /\ f.pos >= Len(d) /\ fp.unread = <<>> /\ fp.back = EOF
      BY NowIs DEF Inv, Goes, Sound, States, Fps, KernelFiles, OnDisk, Ahead
    <2>2. Len(d) \in Nat /\ Len(e) \in Nat /\ n \in Nat /\ Len(<<>>) = 0
      BY <2>1, TextIs, WritePlaceIs, EmptySeq
    <2>3. n >= Len(d)
      BY <2>1, <2>2 DEF WritePlace
    <2>4. CASE e = <<>>
      <3>1. At = f.pos - 0 - 0 /\ Text = d
        BY <2>1, <2>2, <2>4 DEF At, Text
      <3> QED  BY <2>1, <2>2, <3>1
    <2>5. CASE e # <<>>
      <3>1. At = n + Len(e) /\ Text = Overlay(d, n, e)
        BY <2>5 DEF At, Text
      <3>2. Len(Overlay(d, n, e)) = n + Len(e)
        <4> HIDE DEF d, e, n
        <4> QED  BY <2>1, <2>2, <2>3, OverlayIs DEF Longer
      <3> HIDE DEF d, e, n
      <3> QED  BY <2>2, <3>1, <3>2
    <2> QED  BY <2>4, <2>5
  <1> QED  BY <1>1, InvHolds, PTL

\* fseek() from the beginning or the end puts the next byte where it says, and
\* ftell() says where that is, whatever is in the buffers.
THEOREM StreamSeeksLand == Spec => []SeeksLand
  <1>1. Inv => SeeksLand
    BY NowIs DEF Inv, Goes, Landed, SeeksLand
  <1> QED  BY <1>1, InvHolds, PTL

\* Whatever it keeps in buffers, and however little the kernel writes or reads
\* at a time, a stream is to its user a text and a place in it: puts land at the
\* place and gets return what is there.
THEOREM StreamImplements == Spec => ImplementsByteStream
  <1>1. Init => Bytewise!Init
    <2> SUFFICES ASSUME Init  PROVE Bytewise!Init
      OBVIOUS
    <2> DEFINE s == Now
    <2>1. Sound(s) /\ s.file = file /\ s.fp = fp
      BY InitGoes, NowIs DEF Inv, Goes
    <2> HIDE DEF s
    <2>2. /\ fp.pending = <<>> /\ fp.unread = <<>> /\ fp.back = EOF /\ file.pos = 0 /\ ~lost
          /\ file.data \in Texts
      <3>1. fp = Closed \/ fp = [Closed EXCEPT !.out = "lazy"]
        BY DEF Init
      <3>2. fp.pending = <<>> /\ fp.unread = <<>> /\ fp.back = EOF
        BY <3>1 DEF Closed
      <3> QED  BY <2>1, <3>2 DEF Init, Sound, States, KernelFiles
    <2>3. Text = file.data /\ At = 0
      <3>1. At = 0 - 0 - 0
        BY <2>2, EmptySeq DEF At
      <3> QED  BY <2>2, <3>1 DEF Text
    <2>4. file.data \in Seq(Int)
      <3>1. Bytes \subseteq Int
        BY StreamAssumption
      <3> HIDE DEF Texts
      <3>2. file.data \in [1 .. Len(file.data) -> Int] /\ Len(file.data) \in Nat
        BY <2>2, <3>1, LenProperties, TextIs DEF Texts
      <3> QED  BY <3>2, SeqDef
    <2> QED  BY <2>2, <2>3, <2>4 DEF Bytewise!Init
  <1>2. Inv /\ [Next]_vars => [Bytewise!Next]_(Bytewise!vars)
    <2> SUFFICES ASSUME Inv, [Next]_vars  PROVE [Bytewise!Next]_(Bytewise!vars)
      OBVIOUS
    <2>1. CASE Next
      BY <2>1, NextGoes, FollowsIs DEF Step
    <2>2. CASE UNCHANGED vars
      BY <2>2 DEF vars, Bytewise!vars, Text, At
    <2> QED  BY <2>1, <2>2
  <1> QED  BY <1>1, <1>2, InvHolds, PTL DEF Spec, ImplementsByteStream, Bytewise!Spec
===============================================================================
