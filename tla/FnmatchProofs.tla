---------------------------- MODULE FnmatchProofs ----------------------------
(***************************************************************************)
(* That fnmatch() finds a match exactly when there is one, and in as many  *)
(* turns as it says, for every pattern, string and set of flags.           *)
(***************************************************************************)
EXTENDS Fnmatch, NumberFacts

Arguments ==
    /\ pattern \in Seq(Items) /\ string \in Seq(Characters)
    /\ flags \in SUBSET Flags

LEMMA LengthsAre == ASSUME Arguments  PROVE Len(pattern) \in Nat /\ Len(string) \in Nat
  BY DEF Arguments

-------------------------------------------------------------------------------
(***************************************************************************)
(* The recursion of Describes is one on the number of items left.          *)
(***************************************************************************)
StepOf(f, i) ==
    IF i > Len(pattern)
      THEN EndPlaces
      ELSE IF IsStar(pattern[i])
             THEN {k \in Places : \E t \in f[i + 1] : k <= t /\ StarTakes(k, t)}
             ELSE {k \in Places : Takes(i, k) /\ k + 1 \in f[i + 1]}

Describer(f, m) == f = [i \in m .. Len(pattern) + 1 |-> StepOf(f, i)]

LEMMA DescribersExist ==
    ASSUME Arguments
    PROVE  \A n \in Nat : n <= Len(pattern) => \E f : Describer(f, Len(pattern) + 1 - n)
  <1> DEFINE N == Len(pattern)
             T == {n \in Nat : n <= N => \E f : Describer(f, N + 1 - n)}
  <1>0. N \in Nat
    BY LengthsAre
  <1>1. 0 \in T
    <2> DEFINE f == [i \in N + 1 .. N + 1 |-> EndPlaces]
    <2>1. \A i \in N + 1 .. N + 1 : StepOf(f, i) = EndPlaces
      BY <1>0 DEF StepOf
    <2>2. f = [i \in N + 1 .. N + 1 |-> StepOf(f, i)]
      BY <2>1
    <2> HIDE DEF f
    <2>3. N + 1 - 0 = N + 1
      BY <1>0
    <2>4. Describer(f, N + 1 - 0)
      BY <2>2, <2>3 DEF Describer
    <2> QED  BY <2>4
  <1>2. ASSUME NEW n \in Nat, n \in T  PROVE n + 1 \in T
    <2> SUFFICES ASSUME n + 1 <= N  PROVE \E f : Describer(f, N + 1 - (n + 1))
      OBVIOUS
    <2> DEFINE m == N + 1 - n
               l == N + 1 - (n + 1)
    <2>1. n <= N /\ m \in Nat /\ l \in Nat /\ m = l + 1 /\ l <= N
      BY <1>0
    <2>2. PICK f : Describer(f, m)
      BY <1>2, <2>1
    <2> HIDE DEF m, l
    <2> DEFINE g == [i \in l .. N + 1 |-> IF i = l THEN StepOf(f, l) ELSE f[i]]
    <2>3. \A i \in m .. N + 1 : f[i] = StepOf(f, i)
      BY <2>2 DEF Describer
    <2>4. ASSUME NEW i \in l .. N + 1  PROVE g[i] = StepOf(g, i)
      <3>1. i <= N => i + 1 \in l .. N + 1 /\ i + 1 # l
        BY <2>1, <1>0
      <3>2. i <= N => g[i + 1] = f[i + 1]
        BY <3>1
      <3>3. StepOf(g, i) = StepOf(f, i)
        <4> HIDE DEF g
        <4>1. i \in Nat /\ (~(i > N) => i <= N)
          BY <1>0, <2>1
        <4>2. CASE i > N
          BY <4>2 DEF StepOf
        <4>3. CASE ~(i > N)
          <5>1. g[i + 1] = f[i + 1]
            BY <3>2, <4>1, <4>3
          <5> QED  BY <4>3, <5>1, Zenon DEF StepOf
        <4> QED  BY <4>2, <4>3
      <3>4. CASE i = l
        BY <3>3, <3>4
      <3>5. CASE i # l
        <4>1. i \in m .. N + 1
          BY <2>1, <3>5, <1>0
        <4> QED  BY <4>1, <2>3, <3>3, <3>5
      <3> QED  BY <3>4, <3>5
    <2>5. g = [i \in l .. N + 1 |-> g[i]]
      OBVIOUS
    <2> HIDE DEF g
    <2>6. Describer(g, l)
      BY <2>4, <2>5 DEF Describer
    <2> QED  BY <2>6 DEF l
  <1> HIDE DEF T
  <1>3. Nat \subseteq T
    BY <1>1, <1>2, Induct
  <1> QED  BY <1>3 DEF T

LEMMA DescribesSteps ==
    ASSUME Arguments
    PROVE  \A i \in 1 .. Len(pattern) + 1 : Describes[i] = StepOf(Describes, i)
  <1>1. \E f : Describer(f, 1)
    <2>1. CASE Len(pattern) = 0
      <3> DEFINE f == [i \in 1 .. Len(pattern) + 1 |-> EndPlaces]
      <3>1. \A i \in 1 .. Len(pattern) + 1 : StepOf(f, i) = EndPlaces
        BY <2>1 DEF StepOf
      <3>2. Describer(f, 1)
        BY <3>1 DEF Describer
      <3> QED  BY <3>2
    <2>2. CASE Len(pattern) # 0
      <3>1. Len(pattern) \in Nat /\ Len(pattern) + 1 - Len(pattern) = 1
        BY LengthsAre
      <3> QED  BY <3>1, DescribersExist
    <2> QED  BY <2>1, <2>2
  <1>2. Describes = CHOOSE f : Describer(f, 1)
    BY DEF Describes, Describer, StepOf
  <1>3. Describer(Describes, 1)
    BY <1>1, <1>2
  <1> QED  BY <1>3 DEF Describer

\* ... and spelled out.
LEMMA DescribesIs ==
    ASSUME Arguments
    PROVE  /\ Describes[Len(pattern) + 1] = EndPlaces
           /\ \A i \in 1 .. Len(pattern) + 1 : Describes[i] \subseteq Places
           /\ \A i \in 1 .. Len(pattern) : \A k \in Places :
                 /\ IsStar(pattern[i]) =>
                       (k \in Describes[i] <=>
                          \E t \in Describes[i + 1] : k <= t /\ StarTakes(k, t))
                 /\ ~IsStar(pattern[i]) =>
                       (k \in Describes[i] <=> Takes(i, k) /\ k + 1 \in Describes[i + 1])
  <1>1. Len(pattern) \in Nat
    BY LengthsAre
  <1>2. EndPlaces \subseteq Places
    BY DEF EndPlaces
  <1>3. \A i \in 1 .. Len(pattern) + 1 : Describes[i] \subseteq Places
    BY <1>2, DescribesSteps DEF StepOf
  <1>4. Describes[Len(pattern) + 1] = EndPlaces
    <2> DEFINE e == Len(pattern) + 1
    <2>1. e \in 1 .. e /\ e > Len(pattern)
      BY <1>1
    <2>2. Describes[e] = StepOf(Describes, e)
      BY <2>1, DescribesSteps
    <2> QED  BY <2>1, <2>2 DEF StepOf
  <1>5. ASSUME NEW i \in 1 .. Len(pattern)
        PROVE  Describes[i] = IF IsStar(pattern[i])
                 THEN {k \in Places : \E t \in Describes[i + 1] : k <= t /\ StarTakes(k, t)}
                 ELSE {k \in Places : Takes(i, k) /\ k + 1 \in Describes[i + 1]}
    <2>1. i \in 1 .. Len(pattern) + 1 /\ ~(i > Len(pattern))
      BY <1>1
    <2>2. Describes[i] = StepOf(Describes, i)
      BY <2>1, DescribesSteps
    <2> QED  BY <2>1, <2>2 DEF StepOf
  <1> QED  BY <1>3, <1>4, <1>5

-------------------------------------------------------------------------------
(***************************************************************************)
(* What stars take.                                                        *)
(***************************************************************************)
LEMMA StarTakesNothing ==
    ASSUME NEW k \in Nat
    PROVE  StarTakes(k, k) <=> ~OnlyDotMay(k)
  BY DEF StarTakes

LEMMA StarTakesOn ==
    ASSUME NEW k \in Nat, NEW t \in Nat, NEW u \in Nat, k <= t, t <= u,
           StarTakes(k, t), StarTakes(t, u)
    PROVE  StarTakes(k, u)
  BY DEF StarTakes

LEMMA StarTakesLess ==
    ASSUME NEW k \in Nat, NEW t \in Nat, NEW u \in Nat, k <= t, t <= u, StarTakes(k, u)
    PROVE  StarTakes(k, t) /\ StarTakes(t, u)
  BY DEF StarTakes

\* All stars from i up to j - 1.
StarsTo(i, j) == \A m \in i .. j - 1 : IsStar(pattern[m])

\* Several stars in a row are as good as one.
LEMMA StarRun ==
    ASSUME Arguments, NEW i \in 1 .. Len(pattern), NEW j \in i + 1 .. Len(pattern) + 1,
           StarsTo(i, j)
    PROVE  \A k \in Places :
              k \in Describes[i] <=> \E t \in Describes[j] : k <= t /\ StarTakes(k, t)
  <1> DEFINE N == Len(pattern)
             Run(l) == \A k \in Places :
                          k \in Describes[i] <=> \E t \in Describes[l] : k <= t /\ StarTakes(k, t)
             T == {n \in Nat : i + 1 + n <= j => Run(i + 1 + n)}
  <1>1. N \in Nat /\ i \in Nat /\ j \in Nat /\ i <= N /\ j <= N + 1 /\ i < j
    BY LengthsAre
  <1>2. \A l \in 1 .. N + 1 : Describes[l] \subseteq Places
    BY DescribesIs
  <1>3. Places \subseteq Nat
    BY LengthsAre DEF Places
  <1>4. \A l \in i .. j - 1 : \A k \in Places :
            k \in Describes[l] <=> \E t \in Describes[l + 1] : k <= t /\ StarTakes(k, t)
    <2> SUFFICES ASSUME NEW l \in i .. j - 1, NEW k \in Places
                 PROVE  k \in Describes[l] <=> \E t \in Describes[l + 1] : k <= t /\ StarTakes(k, t)
      OBVIOUS
    <2>1. l \in 1 .. N /\ IsStar(pattern[l])
      BY <1>1 DEF StarsTo
    <2> QED  BY <2>1, DescribesIs
  <1>5. 0 \in T
    <2>1. i \in i .. j - 1 /\ i + 1 + 0 = i + 1
      BY <1>1
    <2> QED  BY <2>1, <1>4
  <1>6. ASSUME NEW n \in Nat, n \in T  PROVE n + 1 \in T
    <2> DEFINE l == i + 1 + n
    <2>1. SUFFICES ASSUME l + 1 <= j  PROVE Run(l + 1)
      <3>1. i + 1 + (n + 1) = l + 1
        BY <1>1
      <3> QED  BY <3>1, <2>1
    <2>2. Run(l) /\ l \in i .. j - 1 /\ l \in 1 .. N + 1 /\ l + 1 \in 1 .. N + 1
      BY <1>1, <1>6, <2>1
    <2> HIDE DEF l, N
    <2> SUFFICES ASSUME NEW k \in Places
                 PROVE  k \in Describes[i]
                           <=> \E t \in Describes[l + 1] : k <= t /\ StarTakes(k, t)
      OBVIOUS
    <2>3. ASSUME k \in Describes[i]
          PROVE  \E u \in Describes[l + 1] : k <= u /\ StarTakes(k, u)
      <3>1. PICK t \in Describes[l] : k <= t /\ StarTakes(k, t)
        BY <2>2, <2>3
      <3>2. t \in Places
        BY <1>2, <2>2
      <3>3. PICK u \in Describes[l + 1] : t <= u /\ StarTakes(t, u)
        BY <1>4, <2>2, <3>2
      <3>4. k \in Nat /\ t \in Nat /\ u \in Nat
        BY <1>2, <1>3, <2>2, <3>2
      <3>5. k <= u /\ StarTakes(k, u)
        BY <3>1, <3>3, <3>4, StarTakesOn
      <3> QED  BY <3>5
    <2>4. ASSUME NEW u \in Describes[l + 1], k <= u, StarTakes(k, u)
          PROVE  k \in Describes[i]
      <3>1. k \in Describes[l]
        BY <1>4, <2>2, <2>4
      <3>2. k \in Nat /\ u \in Nat
        BY <1>2, <1>3, <2>2
      <3>3. k <= k /\ StarTakes(k, k)
        BY <2>4, <3>2, StarTakesLess
      <3> QED  BY <2>2, <3>1, <3>3
    <2> QED  BY <2>3, <2>4
  <1> HIDE DEF T
  <1>7. Nat \subseteq T
    BY <1>5, <1>6, Induct
  <1>8. j - (i + 1) \in T /\ i + 1 + (j - (i + 1)) = j
    BY <1>1, <1>7
  <1> QED  BY <1>8, <1>1 DEF T

\* Where the stars from i on end.
LEMMA AfterStarsIs ==
    ASSUME Arguments, NEW i \in 1 .. Len(pattern) + 1, NEW j, j = AfterStars(i)
    PROVE  /\ j \in i .. Len(pattern) + 1
           /\ StarsTo(i, j)
           /\ j <= Len(pattern) => ~IsStar(pattern[j])
  <1> DEFINE N == Len(pattern)
             T == {l \in i .. N + 1 : l <= N => ~IsStar(pattern[l])}
             StarsEnd(l) == /\ \A k \in i .. l - 1 : IsStar(pattern[k])
                            /\ l <= N => ~IsStar(pattern[l])
  <1>1. N \in Nat
    BY LengthsAre
  <1>2. N + 1 \in T /\ T \subseteq Nat
    BY <1>1
  <1>3. PICK l \in T : \A m \in T : l <= m
    <2> HIDE DEF T
    <2>1. T # {}
      BY <1>2
    <2> QED  BY <1>2, <2>1, LeastOf
  <1>4. l \in i .. N + 1 /\ StarsEnd(l)
    <2>1. ASSUME NEW k \in i .. l - 1  PROVE IsStar(pattern[k])
      <3>1. k \in i .. N + 1 /\ k <= N /\ ~(l <= k)
        BY <1>1
      <3>2. k \notin T
        BY <1>3, <3>1
      <3> QED  BY <3>1, <3>2
    <2> QED  BY <2>1
  <1>5. j = CHOOSE m \in i .. N + 1 : StarsEnd(m)
    BY DEF AfterStars
  <1> HIDE DEF StarsEnd
  <1>6. j \in i .. N + 1 /\ StarsEnd(j)
    BY <1>4, <1>5
  <1> QED  BY <1>6 DEF StarsEnd, StarsTo

\* With no string left only stars describe the rest.
LEMMA StarsAtEnd ==
    ASSUME Arguments, NEW i \in 1 .. Len(pattern) + 1, NEW e, e = Len(string) + 1
    PROVE  e \in Describes[i] <=> StarsTo(i, Len(pattern) + 1)
  <1> DEFINE P == Len(pattern) + 1
             j == AfterStars(i)
  <1>1. P \in Nat /\ Len(string) \in Nat /\ e \in Nat /\ e \in Places
    BY LengthsAre DEF Places
  <1>2. j \in i .. P /\ StarsTo(i, j) /\ (j # P => ~IsStar(pattern[j]) /\ j \in 1 .. Len(pattern))
    BY <1>1, AfterStarsIs
  <1> HIDE DEF j
  <1>3. \A l \in 1 .. P : Describes[l] \subseteq Places
    BY DescribesIs
  <1>4. e \in Describes[i] <=> e \in Describes[j]
    <2>1. CASE i = j
      BY <2>1
    <2>2. CASE i # j
      <3>1. i \in 1 .. Len(pattern) /\ j \in i + 1 .. P
        BY <1>1, <1>2, <2>2
      <3>2. e \in Describes[i] <=> \E t \in Describes[j] : e <= t /\ StarTakes(e, t)
        BY <1>1, <1>2, <3>1, StarRun
      <3>3. \A t \in Describes[j] : t <= e /\ t \in Nat
        BY <1>1, <1>2, <1>3 DEF Places
      <3>4. StarTakes(e, e)
        <4>1. ~OnlyDotMay(e)
          BY <1>1 DEF OnlyDotMay
        <4> QED  BY <1>1, <4>1, StarTakesNothing
      <3>5. \A t \in Describes[j] : e <= t => t = e
        BY <1>1, <3>3
      <3> QED  BY <1>1, <3>2, <3>4, <3>5
    <2> QED  BY <2>1, <2>2
  <1>5. CASE j = P
    <2>1. e \in EndPlaces
      BY <1>1 DEF EndPlaces
    <2> QED  BY <1>2, <1>4, <1>5, <2>1, DescribesIs
  <1>6. CASE j # P
    <2>1. ~Takes(j, e)
      BY <1>1 DEF Takes
    <2>2. e \notin Describes[j]
      BY <1>1, <1>2, <1>6, <2>1, DescribesIs
    <2>3. ~StarsTo(i, P)
      BY <1>1, <1>2, <1>6 DEF StarsTo
    <2> QED  BY <1>4, <2>2, <2>3
  <1> QED  BY <1>5, <1>6

\* An item that takes a slash which divides segments takes nothing else.
LEMMA SlashHit ==
    ASSUME NEW i \in Items, ~IsStar(i), NEW c \in Characters, NEW d \in Characters,
           ItemHits(i, c), ItemHits(i, d), SlashIsStructural(d)
    PROVE  SlashIsStructural(c)
  <1>1. i.kind \in {"char", "escaped"}
    BY FnmatchAssumption DEF ItemHits, IsStar
  <1>2. PICK x \in i.of : i.of = {x} /\ (Lower(x) = Lower("/") => x = "/")
    BY <1>1, FnmatchAssumption
  <1>3. (\E y \in i.of : Same(y, c)) /\ (\E y \in i.of : Same(y, d))
    BY <1>1 DEF ItemHits
  <1>4. Same(x, c) /\ Same(x, d)
    BY <1>2, <1>3
  <1>5. x = "/"
    BY <1>2, <1>4 DEF Same, SlashIsStructural
  <1>6. c = "/"
    BY <1>4, <1>5, FnmatchAssumption DEF Same
  <1> QED  BY <1>6 DEF SlashIsStructural

-------------------------------------------------------------------------------
(***************************************************************************)
(* The invariant.  While the loop runs, with the items from p1 on against  *)
(* what is left from s1, and sp and ss the place to go back to:            *)
(*   - there is a match exactly when there is one from here or one in      *)
(*     which the last star takes more than it has;                         *)
(*   - the earlier stars need not be looked at again, since whatever the   *)
(*     last one could do with them it can do with what it has: such a      *)
(*     match comes by p1 as well, and by no slash that divides segments;   *)
(*   - `leading` may only say too often that a segment begins, and then    *)
(*     there is nothing left to be found.                                  *)
(***************************************************************************)
P == Len(pattern) + 1
L == Len(string) + 1

\* No slash from k up to t - 1 divides segments.
Unbroken(k, t) == \A q \in k .. t - 1 : ~SlashIsStructural(string[q])

\* The last star may end at t, later than it does.
Later(t, sp, ss) == t \in Describes[sp] /\ ss < t /\ StarTakes(ss, t)

Placed(p1, s1, sp, ss) ==
    /\ p1 \in 1 .. P /\ s1 \in 1 .. L /\ sp \in Nat /\ ss \in Nat
    /\ sp # 0 => sp <= p1 /\ 1 <= ss /\ s1 - ss = p1 - sp

Found(p1, s1, sp, ss) ==
    Matches <=> s1 \in Describes[p1] \/ (sp # 0 /\ \E t \in Places : Later(t, sp, ss))

LeadingIs(s1, ld) ==
    /\ ld \in BOOLEAN
    /\ ld => Begins(s1) \/ ~Matches
    /\ ~ld => ~OnlyDotMay(s1)

LastStar(p1, s1, sp, ss, ld) ==
    sp # 0 =>
        /\ ~OnlyDotMay(ss)
        /\ \A t \in Places : Later(t, sp, ss) =>
              ~ld /\ s1 + (t - ss) \in Describes[p1] /\ Unbroken(ss, s1 + (t - ss))

Good(p1, s1, sp, ss, ld) ==
    /\ Placed(p1, s1, sp, ss)
    /\ Found(p1, s1, sp, ss)
    /\ LeadingIs(s1, ld)
    /\ LastStar(p1, s1, sp, ss, ld)

Answered == result = "match" <=> Matches

Inv ==
    /\ Arguments
    /\ result \in {"running", "match", "nomatch"}
    /\ result = "running" => Good(p, s, starP, starS, leading)
    /\ result # "running" => Answered

-------------------------------------------------------------------------------
(***************************************************************************)
(* What the turns have in common.                                          *)
(***************************************************************************)
LEMMA SizesAre ==
    ASSUME Arguments
    PROVE  /\ P \in Nat /\ L \in Nat /\ P >= 1 /\ L >= 1
           /\ Places = 1 .. L /\ Places \subseteq Nat
           /\ \A i \in 1 .. P : Describes[i] \subseteq Places
           /\ Describes[P] = EndPlaces
  <1>1. P \in Nat /\ L \in Nat /\ P >= 1 /\ L >= 1
    BY LengthsAre DEF P, L
  <1>2. Places = 1 .. L /\ Places \subseteq Nat
    BY <1>1 DEF Places, L
  <1> QED  BY <1>1, <1>2, DescribesIs DEF P

LEMMA ItemsAre ==
    ASSUME Arguments
    PROVE  /\ \A i \in 1 .. P : i # P => i <= Len(pattern) /\ pattern[i] \in Items
           /\ \A k \in 1 .. L : k # L => k <= Len(string) /\ string[k] \in Characters
  <1>1. Len(pattern) \in Nat /\ Len(string) \in Nat
    BY LengthsAre
  <1> QED  BY <1>1 DEF Arguments, P, L

\* The dot of a hidden name has been looked at before an item is.
LEMMA NoDotAtItem ==
    ASSUME Arguments, Good(p, s, starP, starS, leading), AtItem, ~AtDot
    PROVE  ~OnlyDotMay(s)
  <1>1. ~GuardedDot(string[s])
    BY DEF AtItem, DotRefused
  <1> QED  BY <1>1 DEF Good, LeadingIs, GuardedDot, OnlyDotMay

LEMMA RunningIs ==
    ASSUME Arguments, Good(p, s, starP, starS, leading), Running
    PROVE  /\ p \in 1 .. P /\ s \in 1 .. L /\ s # L /\ s + 1 \in 1 .. L
           /\ OutOfPattern <=> p = P
           /\ p \in Nat /\ s \in Nat
           /\ string[s] \in Characters
           /\ p # P => p \in 1 .. Len(pattern) /\ p + 1 \in 1 .. P /\ pattern[p] \in Items
           /\ starP # 0 => /\ starS \in 1 .. s /\ starS + 1 \in 1 .. L
                           /\ starP \in 1 .. p /\ starP \in 1 .. P
                           /\ s - starS = p - starP
                           /\ string[starS] \in Characters
  <1>1. Placed(p, s, starP, starS)
    BY DEF Good
  <1>2. Len(pattern) \in Nat /\ Len(string) \in Nat
    BY LengthsAre
  <1>3. p \in 1 .. P /\ s \in 1 .. L /\ s # L
    BY <1>1, <1>2 DEF Placed, Running, OutOfString, P, L
  <1>4. s + 1 \in 1 .. L /\ (OutOfPattern <=> p = P) /\ p \in Nat /\ s \in Nat
        /\ (p # P => p \in 1 .. Len(pattern) /\ p + 1 \in 1 .. P)
    BY <1>2, <1>3 DEF OutOfPattern, P, L
  <1>5. string[s] \in Characters /\ (p # P => pattern[p] \in Items)
    BY <1>3, ItemsAre
  <1>6. ASSUME starP # 0
        PROVE  /\ starS \in 1 .. s /\ starS + 1 \in 1 .. L
               /\ starP \in 1 .. p /\ starP \in 1 .. P
               /\ s - starS = p - starP
               /\ string[starS] \in Characters
    <2>1. /\ starP \in Nat /\ starS \in Nat /\ starP <= p /\ 1 <= starS /\ s - starS = p - starP
      BY <1>1, <1>6 DEF Placed
    <2>2. starS \in 1 .. s /\ starP \in 1 .. p /\ starP \in 1 .. P
      <3>1. P \in Nat /\ p \in Nat /\ s \in Nat /\ p <= P
        BY <1>2, <1>3, <1>4 DEF P
      <3> QED  BY <3>1, <1>6, <2>1
    <2>3. starS \in 1 .. L /\ starS # L /\ starS + 1 \in 1 .. L
      BY <1>2, <1>3, <1>4, <2>2 DEF L
    <2> QED  BY <2>1, <2>2, <2>3, ItemsAre
  <1> QED  BY <1>3, <1>4, <1>5, <1>6

\* From a character that the item does not take, or with the pattern used up,
\* there is no match from here.
LEMMA NoneHere ==
    ASSUME Arguments, Good(p, s, starP, starS, leading), Misses
    PROVE  s \notin Describes[p]
  <1>1. /\ Running /\ ~SegmentsDone /\ ~AtStar /\ ~Hits
    BY DEF Misses, AtItem
  <1>2. p \in 1 .. P /\ s \in 1 .. L /\ s # L /\ (OutOfPattern <=> p = P)
        /\ (p # P => p \in 1 .. Len(pattern))
    BY <1>1, RunningIs
  <1>3. s <= Len(string) /\ s \in Places
    BY <1>2, ItemsAre, SizesAre
  <1>4. CASE p = P
    <2>1. s \notin EndPlaces
      BY <1>1, <1>2, <1>3, <1>4 DEF SegmentsDone, EndPlaces
    <2> QED  BY <1>4, <2>1, SizesAre
  <1>5. CASE p # P
    <2>1. ~IsStar(pattern[p]) /\ ~ItemHits(pattern[p], string[s])
      BY <1>1, <1>2, <1>5 DEF AtStar, Hits, Item
    <2>2. ~Takes(p, s)
      BY <2>1 DEF Takes
    <2> QED  BY <1>2, <1>3, <1>5, <2>1, <2>2, DescribesIs
  <1> QED  BY <1>4, <1>5

\* A match by way of a longer last star comes by the item the loop is at.
LEMMA LaterIs ==
    ASSUME Arguments, Good(p, s, starP, starS, leading), Running, starP # 0,
           NEW t, Later(t, starP, starS), NEW k, k = s + (t - starS)
    PROVE  /\ ~leading
           /\ k \in Nat /\ k > s /\ starS <= s /\ k \in Describes[p] /\ k \in Places
           /\ Unbroken(s, k) /\ Unbroken(starS, k)
  <1>1. /\ starS \in 1 .. s /\ s \in Nat /\ p \in 1 .. P /\ starP \in 1 .. P
    BY RunningIs
  <1>2. t \in Places /\ t \in Nat /\ starS < t
    BY <1>1, SizesAre DEF Later
  <1>3. ~leading /\ k \in Describes[p] /\ Unbroken(starS, k)
    BY <1>2 DEF Good, LastStar
  <1>4. k \in Nat /\ k > s /\ starS \in Nat /\ starS <= s
    BY <1>1, <1>2
  <1>5. Unbroken(s, k)
    BY <1>1, <1>3, <1>4 DEF Unbroken
  <1> QED  BY <1>1, <1>3, <1>4, <1>5, SizesAre

\* No segment begins where none is divided off.
LEMMA UnbrokenTaken ==
    ASSUME NEW k \in Nat, NEW t \in Nat, 1 <= k, k <= t, ~OnlyDotMay(k), Unbroken(k, t)
    PROVE  StarTakes(k, t)
  <1>1. ASSUME NEW q \in k .. t  PROVE ~OnlyDotMay(q)
    <2>1. CASE q = k
      BY <2>1
    <2>2. CASE q # k
      <3>1. q - 1 \in k .. t - 1 /\ q # 1
        BY <2>2
      <3>2. ~Begins(q)
        BY <3>1 DEF Begins, Unbroken
      <3> QED  BY <3>2 DEF OnlyDotMay
    <2> QED  BY <2>1, <2>2
  <1> QED  BY <1>1 DEF StarTakes, Unbroken

-------------------------------------------------------------------------------
(***************************************************************************)
(* The turns that go on.                                                   *)
(***************************************************************************)
LEMMA HitGood ==
    ASSUME Arguments, Good(p, s, starP, starS, leading), Hit
    PROVE  Good(p + 1, s + 1, starP, starS, SlashIsStructural(string[s]))
  <1>1. AtItem /\ Running /\ ~AtStar /\ Hits
    BY DEF Hit, AtItem
  <1>2. /\ p \in 1 .. P /\ s \in 1 .. L /\ s # L /\ s + 1 \in 1 .. L
        /\ p \in Nat /\ s \in Nat /\ string[s] \in Characters
        /\ (OutOfPattern <=> p = P)
    BY <1>1, RunningIs
  <1>3. p # P /\ ItemHits(pattern[p], string[s]) /\ ~IsStar(pattern[p])
    BY <1>1, <1>2 DEF Hits, AtStar, Item
  <1>4. p \in 1 .. Len(pattern) /\ p + 1 \in 1 .. P /\ pattern[p] \in Items /\ s \in Places
        /\ s <= Len(string)
    BY <1>1, <1>2, <1>3, RunningIs, SizesAre, ItemsAre
  <1>5. \A k \in Places : k \in Describes[p] <=> Takes(p, k) /\ k + 1 \in Describes[p + 1]
    BY <1>3, <1>4, DescribesIs
  <1>6. s \in Describes[p] <=> s + 1 \in Describes[p + 1]
    <2>1. OnlyDotMay(s) => IsDot(pattern[p])
      <3>1. ~AtDot => ~OnlyDotMay(s)
        BY <1>1, NoDotAtItem
      <3> QED  BY <3>1 DEF AtDot, Item
    <2>2. Takes(p, s)
      BY <1>3, <1>4, <2>1 DEF Takes
    <2> QED  BY <1>4, <1>5, <2>2
  <1>7. Placed(p + 1, s + 1, starP, starS)
    <2>1. Placed(p, s, starP, starS)
      BY DEF Good
    <2> QED  BY <1>2, <1>4, <2>1 DEF Placed
  <1>8. Found(p + 1, s + 1, starP, starS)
    BY <1>6 DEF Good, Found
  <1>9. LeadingIs(s + 1, SlashIsStructural(string[s]))
    <2>1. s + 1 # 1 /\ (s + 1) - 1 = s
      BY <1>2
    <2>2. Begins(s + 1) <=> SlashIsStructural(string[s])
      BY <2>1 DEF Begins
    <2>3. SlashIsStructural(string[s]) \in BOOLEAN
      BY DEF SlashIsStructural
    <2> QED  BY <2>2, <2>3 DEF LeadingIs, OnlyDotMay
  <1>10. LastStar(p + 1, s + 1, starP, starS, SlashIsStructural(string[s]))
    <2> SUFFICES ASSUME starP # 0
                 PROVE  LastStar(p + 1, s + 1, starP, starS, SlashIsStructural(string[s]))
      BY DEF LastStar
    <2>1. ~OnlyDotMay(starS) /\ starS \in Nat
      BY <1>1, RunningIs DEF Good, LastStar
    <2>2. ASSUME NEW t \in Places, Later(t, starP, starS)
          PROVE  /\ ~SlashIsStructural(string[s])
                 /\ (s + 1) + (t - starS) \in Describes[p + 1]
                 /\ Unbroken(starS, (s + 1) + (t - starS))
      <3> DEFINE k == s + (t - starS)
      <3>1. /\ k \in Nat /\ k > s /\ k \in Describes[p] /\ k \in Places
            /\ Unbroken(s, k) /\ Unbroken(starS, k)
        BY <1>1, <2>2, LaterIs
      <3>2. (s + 1) + (t - starS) = k + 1
        BY <1>2, <2>1, SizesAre
      <3> HIDE DEF k
      <3>3. Takes(p, k) /\ k + 1 \in Describes[p + 1]
        BY <1>5, <3>1
      <3>4. ~SlashIsStructural(string[s])
        BY <1>2, <3>1 DEF Unbroken
      <3>5. ~SlashIsStructural(string[k])
        <4>1. k <= Len(string) /\ ItemHits(pattern[p], string[k])
          BY <3>3 DEF Takes
        <4>2. string[k] \in Characters
          <5>1. k \in 1 .. Len(string)
            BY <3>1, <4>1, <1>2
          <5> QED  BY <5>1 DEF Arguments
        <4> QED  BY <1>2, <1>3, <1>4, <3>4, <4>1, <4>2, SlashHit
      <3>6. Unbroken(starS, k + 1)
        <4> SUFFICES ASSUME NEW q \in starS .. (k + 1) - 1
                     PROVE  ~SlashIsStructural(string[q])
          BY DEF Unbroken
        <4>1. q = k \/ q \in starS .. k - 1
          BY <2>1, <3>1
        <4> QED  BY <3>1, <3>5, <4>1 DEF Unbroken
      <3> QED  BY <3>2, <3>3, <3>4, <3>6
    <2> QED  BY <2>1, <2>2 DEF LastStar
  <1> QED  BY <1>7, <1>8, <1>9, <1>10 DEF Good

\* At a star there is a match from here exactly when there is one at all.
LEMMA StarFound ==
    ASSUME Arguments, Good(p, s, starP, starS, leading), AtItem, AtStar,
           NEW j, j = AfterStars(p)
    PROVE  /\ ~OnlyDotMay(s)
           /\ j \in p + 1 .. P
           /\ Matches <=> \E t \in Describes[j] : s <= t /\ StarTakes(s, t)
  <1>1. Running /\ p \in 1 .. P /\ s \in 1 .. L /\ s \in Places /\ p \in Nat /\ s \in Nat
        /\ p # P /\ p \in 1 .. Len(pattern) /\ IsStar(pattern[p])
    <2>1. Running
      BY DEF AtItem
    <2>2. p \in 1 .. P /\ s \in 1 .. L /\ p \in Nat /\ s \in Nat /\ (OutOfPattern <=> p = P)
          /\ (p # P => p \in 1 .. Len(pattern))
      BY <2>1, RunningIs
    <2> QED  BY <2>1, <2>2, SizesAre DEF AtStar, Item
  <1>2. ~OnlyDotMay(s)
    <2>1. ~AtDot
      BY <1>1 DEF AtDot, IsDot, IsStar, Item
    <2> QED  BY <2>1, NoDotAtItem
  <1>3. j \in p .. P /\ StarsTo(p, j) /\ (j <= Len(pattern) => ~IsStar(pattern[j]))
    <2>1. p \in 1 .. Len(pattern) + 1
      BY <1>1 DEF P
    <2> QED  BY <2>1, AfterStarsIs DEF P
  <1>4. j \in p + 1 .. P
    <2>1. j # p
      BY <1>1, <1>3
    <2> QED  BY <1>1, <1>3, <2>1, SizesAre
  <1>5. \A k \in Places :
            k \in Describes[p] <=> \E t \in Describes[j] : k <= t /\ StarTakes(k, t)
    <2>1. j \in p + 1 .. Len(pattern) + 1
      BY <1>4 DEF P
    <2> QED  BY <1>1, <1>3, <2>1, StarRun
  <1>6. ASSUME starP # 0, NEW t \in Places, Later(t, starP, starS)
        PROVE  s \in Describes[p]
    <2> DEFINE k == s + (t - starS)
    <2>1. k \in Nat /\ k > s /\ k \in Describes[p] /\ k \in Places /\ Unbroken(s, k)
      BY <1>1, <1>6, LaterIs
    <2> HIDE DEF k
    <2>2. PICK u \in Describes[j] : k <= u /\ StarTakes(k, u)
      BY <1>5, <2>1
    <2>3. u \in Nat
      BY <1>1, <1>4, SizesAre
    <2>4. StarTakes(s, k)
      BY <1>1, <1>2, <2>1, UnbrokenTaken
    <2>5. s <= u /\ StarTakes(s, u)
      BY <1>1, <2>1, <2>2, <2>3, <2>4, StarTakesOn
    <2> QED  BY <1>1, <1>5, <2>5
  <1>7. Matches <=> s \in Describes[p]
    BY <1>6 DEF Good, Found
  <1> QED  BY <1>1, <1>2, <1>4, <1>5, <1>7

LEMMA StarGood ==
    ASSUME Arguments, Good(p, s, starP, starS, leading), Star, NEW j, j = AfterStars(p)
    PROVE  Good(j, s, j, s, FALSE)
  <1>1. AtItem /\ AtStar /\ Running
    BY DEF Star, AtItem
  <1>2. /\ ~OnlyDotMay(s) /\ j \in p + 1 .. P
        /\ Matches <=> \E t \in Describes[j] : s <= t /\ StarTakes(s, t)
    BY <1>1, StarFound
  <1>3. p \in 1 .. P /\ s \in 1 .. L /\ s \in Nat /\ p \in Nat /\ j \in 1 .. P /\ j \in Nat
        /\ s \in Places
    <2>1. p \in 1 .. P /\ s \in 1 .. L /\ s \in Nat /\ p \in Nat
      BY <1>1, RunningIs
    <2> QED  BY <1>2, <2>1, SizesAre
  <1>4. Placed(j, s, j, s)
    BY <1>3 DEF Placed
  <1>5. Describes[j] \subseteq Places /\ Places \subseteq Nat
    BY <1>3, SizesAre
  <1>6. StarTakes(s, s)
    BY <1>2, <1>3, StarTakesNothing
  <1>7. Found(j, s, j, s)
    <2>1. \A t \in Describes[j] : s <= t <=> t = s \/ s < t
      BY <1>3, <1>5
    <2>2. Matches <=> s \in Describes[j] \/ \E t \in Describes[j] : s < t /\ StarTakes(s, t)
      BY <1>2, <1>6, <2>1
    <2>3. (\E t \in Places : Later(t, j, s)) <=> \E t \in Describes[j] : s < t /\ StarTakes(s, t)
      BY <1>5 DEF Later
    <2>4. j # 0
      BY <1>3
    <2> QED  BY <2>2, <2>3, <2>4 DEF Found
  <1>8. LeadingIs(s, FALSE)
    BY <1>2 DEF LeadingIs
  <1>9. LastStar(j, s, j, s, FALSE)
    <2>1. ASSUME NEW t \in Places, Later(t, j, s)
          PROVE  s + (t - s) \in Describes[j] /\ Unbroken(s, s + (t - s))
      <3>1. s + (t - s) = t
        BY <1>3, <1>5
      <3>2. t \in Describes[j] /\ StarTakes(s, t)
        BY <2>1 DEF Later
      <3> QED  BY <3>1, <3>2 DEF Unbroken, StarTakes
    <2> QED  BY <1>2, <2>1 DEF LastStar
  <1> QED  BY <1>4, <1>7, <1>8, <1>9 DEF Good

LEMMA GiveBackGood ==
    ASSUME Arguments, Good(p, s, starP, starS, leading), GiveBack, NEW n, n = starS + 1
    PROVE  Good(starP, n, starP, n, leading)
  <1>1. Misses /\ Running /\ starP # 0 /\ MayGive(string[starS])
    BY DEF GiveBack, Misses, AtItem, CanGive
  <1>2. /\ starS \in 1 .. s /\ s \in Nat /\ starS \in Nat /\ n \in 1 .. L /\ n \in Nat /\ n # 1
        /\ n - 1 = starS /\ starP \in 1 .. P /\ starP \in Nat /\ n \in Places
    <2>1. starS \in 1 .. s /\ s \in Nat /\ starS + 1 \in 1 .. L /\ starP \in 1 .. P
      BY <1>1, RunningIs
    <2> QED  BY <2>1, SizesAre
  <1>3. ~SlashIsStructural(string[starS])
    BY <1>1 DEF MayGive
  <1>4. ~OnlyDotMay(starS) /\ ~OnlyDotMay(n)
    <2>1. ~OnlyDotMay(starS)
      BY <1>1 DEF Good, LastStar
    <2>2. ~Begins(n)
      BY <1>2, <1>3 DEF Begins
    <2> QED  BY <2>1, <2>2 DEF OnlyDotMay
  <1>5. \A t \in Nat : n <= t => (StarTakes(starS, t) <=> StarTakes(n, t))
    <2> SUFFICES ASSUME NEW t \in Nat, n <= t
                 PROVE  StarTakes(starS, t) <=> StarTakes(n, t)
      OBVIOUS
    <2>1. Unbroken(starS, n)
      <3>1. \A q \in starS .. n - 1 : q = starS
        BY <1>2
      <3> QED  BY <1>3, <3>1 DEF Unbroken
    <2>2. StarTakes(starS, n)
      BY <1>2, <1>4, <2>1, UnbrokenTaken
    <2> QED  BY <1>2, <2>2, StarTakesOn, StarTakesLess
  <1>6. Describes[starP] \subseteq Places /\ Places \subseteq Nat
    BY <1>2, SizesAre
  <1>7. \A t \in Places : Later(t, starP, starS) <=>
            t \in Describes[starP] /\ (t = n \/ n < t) /\ StarTakes(n, t)
    <2> SUFFICES ASSUME NEW t \in Places
                 PROVE  Later(t, starP, starS) <=>
                            t \in Describes[starP] /\ (t = n \/ n < t) /\ StarTakes(n, t)
      OBVIOUS
    <2>1. t \in Nat /\ (starS < t <=> n <= t) /\ (n <= t <=> t = n \/ n < t)
      BY <1>2, <1>6
    <2> QED  BY <1>5, <2>1 DEF Later
  <1>8. \A t \in Places : Later(t, starP, n) => Later(t, starP, starS)
    BY <1>7 DEF Later
  <1>9. Matches <=> \E t \in Places : Later(t, starP, starS)
    <2>1. s \notin Describes[p]
      BY <1>1, NoneHere
    <2> QED  BY <1>1, <2>1 DEF Good, Found
  <1>10. Placed(starP, n, starP, n)
    BY <1>2 DEF Placed
  <1>11. Found(starP, n, starP, n)
    <2>1. StarTakes(n, n)
      BY <1>2, <1>4, StarTakesNothing
    <2>2. Later(n, starP, starS) <=> n \in Describes[starP]
      BY <1>2, <1>7, <2>1
    <2>3. \A t \in Places : Later(t, starP, starS)
                <=> (t = n /\ n \in Describes[starP]) \/ Later(t, starP, n)
      BY <1>7, <2>1 DEF Later
    <2> QED  BY <1>1, <1>2, <1>9, <2>2, <2>3 DEF Found
  <1>12. leading => ~Matches
    BY <1>1, <1>9 DEF Good, LastStar
  <1>13. LeadingIs(n, leading)
    BY <1>4, <1>12 DEF Good, LeadingIs
  <1>14. LastStar(starP, n, starP, n, leading)
    <2>1. ASSUME NEW t \in Places, Later(t, starP, n)
          PROVE  ~leading /\ n + (t - n) \in Describes[starP] /\ Unbroken(n, n + (t - n))
      <3>1. n + (t - n) = t
        BY <1>2, <1>6
      <3>2. t \in Describes[starP] /\ StarTakes(n, t)
        BY <2>1 DEF Later
      <3>3. ~leading
        BY <1>8, <1>9, <1>12, <2>1
      <3> QED  BY <3>1, <3>2, <3>3 DEF Unbroken, StarTakes
    <2> QED  BY <1>4, <2>1 DEF LastStar
  <1> QED  BY <1>10, <1>11, <1>13, <1>14 DEF Good

-------------------------------------------------------------------------------
(***************************************************************************)
(* The turns that answer.                                                  *)
(***************************************************************************)
Answers(matched) == matched <=> Matches

LEMMA StringDoneRight ==
    ASSUME Arguments, Good(p, s, starP, starS, leading), OutOfString
    PROVE  Answers(\A k \in p .. Len(pattern) : IsStar(pattern[k]))
  <1>1. p \in 1 .. P /\ s \in 1 .. L /\ starP \in Nat /\ starS \in Nat
        /\ (starP # 0 => starP <= p /\ 1 <= starS /\ s - starS = p - starP)
    BY DEF Good, Placed
  <1>2. L \in Nat /\ P \in Nat /\ P = Len(pattern) + 1 /\ L = Len(string) + 1
        /\ Len(string) \in Nat /\ Len(pattern) \in Nat
    BY LengthsAre, SizesAre DEF P, L
  <1>3. s = Len(string) + 1
    BY <1>1, <1>2 DEF OutOfString
  <1>4. s \in Describes[p] <=> StarsTo(p, P)
    BY <1>1, <1>2, <1>3, StarsAtEnd
  <1>5. ASSUME starP # 0, NEW t \in Places, Later(t, starP, starS)  PROVE FALSE
    <2>1. s + (t - starS) \in Describes[p]
      BY <1>5 DEF Good, LastStar
    <2>2. s + (t - starS) \in Places
      BY <1>1, <2>1, SizesAre
    <2>3. t \in Nat /\ starS < t /\ s \in Nat
      BY <1>1, <1>2, <1>5, SizesAre DEF Later
    <2>4. s + (t - starS) <= L
      BY <2>2, SizesAre
    <2> QED  BY <1>1, <1>2, <1>3, <2>3, <2>4
  <1>6. Matches <=> s \in Describes[p]
    BY <1>5 DEF Good, Found
  <1>7. StarsTo(p, P) <=> \A k \in p .. Len(pattern) : IsStar(pattern[k])
    BY <1>2 DEF StarsTo
  <1> QED  BY <1>4, <1>6, <1>7 DEF Answers

LEMMA LeadingDirRight ==
    ASSUME Arguments, Good(p, s, starP, starS, leading), Running, SegmentsDone
    PROVE  Answers(TRUE)
  <1>1. p = P /\ s \in Places
    BY RunningIs, SizesAre DEF SegmentsDone
  <1>2. s \in EndPlaces
    BY <1>1 DEF EndPlaces, SegmentsDone
  <1>3. s \in Describes[p]
    BY <1>1, <1>2, SizesAre
  <1> QED  BY <1>3 DEF Good, Found, Answers

LEMMA LeadingDotRight ==
    ASSUME Arguments, Good(p, s, starP, starS, leading), Running, DotRefused
    PROVE  Answers(FALSE)
  <1>1. /\ p \in 1 .. P /\ s \in 1 .. L /\ s # L /\ s \in Nat
        /\ (OutOfPattern <=> p = P)
        /\ (p # P => p \in 1 .. Len(pattern))
    BY RunningIs
  <1>2. s <= Len(string) /\ s \in Places
    BY <1>1, ItemsAre, SizesAre
  <1>3. leading /\ "PERIOD" \in flags /\ string[s] = "." /\ ~AtDot
    BY DEF DotRefused, GuardedDot
  <1>4. SUFFICES ASSUME Begins(s)  PROVE ~Matches
    BY <1>3 DEF Good, LeadingIs, Answers
  <1>5. OnlyDotMay(s)
    BY <1>2, <1>3, <1>4 DEF OnlyDotMay
  <1>6. CASE p = P
    <2>1. s \notin EndPlaces
      BY <1>2, <1>3 DEF EndPlaces
    <2>2. s \notin Describes[p]
      BY <1>6, <2>1, SizesAre
    <2> QED  BY <1>3, <2>2 DEF Good, Found, LastStar
  <1>7. CASE p # P /\ IsStar(pattern[p])
    <2>1. \A t \in Describes[p + 1] : s <= t => ~StarTakes(s, t)
      <3> SUFFICES ASSUME NEW t \in Describes[p + 1], s <= t  PROVE ~StarTakes(s, t)
        OBVIOUS
      <3>1. t \in Nat
        BY <1>1, <1>7, RunningIs, SizesAre
      <3>2. s \in s .. t
        BY <1>1, <3>1
      <3> QED  BY <1>5, <3>2 DEF StarTakes
    <2>2. s \notin Describes[p]
      BY <1>1, <1>2, <1>7, <2>1, DescribesIs
    <2> QED  BY <1>3, <2>2 DEF Good, Found, LastStar
  <1>8. CASE p # P /\ ~IsStar(pattern[p])
    <2>1. ~IsDot(pattern[p])
      BY <1>1, <1>3, <1>8 DEF AtDot, Item
    <2>2. ~Takes(p, s)
      BY <1>5, <2>1 DEF Takes
    <2>3. s \notin Describes[p]
      BY <1>1, <1>2, <1>8, <2>2, DescribesIs
    <2> QED  BY <1>3, <2>3 DEF Good, Found, LastStar
  <1> QED  BY <1>6, <1>7, <1>8

LEMMA TrailingStarRight ==
    ASSUME Arguments, Good(p, s, starP, starS, leading), AtItem, AtStar,
           AfterStars(p) > Len(pattern)
    PROVE  Answers(\/ "LEADING_DIR" \in flags
                   \/ \A k \in s .. Len(string) : ~SlashIsStructural(string[k]))
  <1> DEFINE j == AfterStars(p)
  <1>1. /\ ~OnlyDotMay(s) /\ j \in p + 1 .. P
        /\ Matches <=> \E t \in Describes[j] : s <= t /\ StarTakes(s, t)
    BY StarFound
  <1>2. Running /\ p \in Nat /\ s \in 1 .. L /\ s \in Nat /\ L \in Nat /\ P \in Nat
        /\ 1 <= s /\ s <= L /\ L \in Places
        /\ P = Len(pattern) + 1 /\ L = Len(string) + 1 /\ Places = 1 .. L
        /\ Len(string) \in Nat /\ Len(pattern) \in Nat
    <2>1. Running
      BY DEF AtItem
    <2>2. p \in Nat /\ s \in 1 .. L /\ s \in Nat
      BY <2>1, RunningIs
    <2>3. L \in Nat /\ P \in Nat /\ L >= 1 /\ Places = 1 .. L
      BY SizesAre
    <2> QED  BY <2>1, <2>2, <2>3, LengthsAre DEF P, L
  <1>3. j = P
    BY <1>1, <1>2
  <1> HIDE DEF j
  <1>4. Matches <=> \E t \in EndPlaces : s <= t /\ StarTakes(s, t)
    BY <1>1, <1>3, SizesAre
  <1>5. L \in EndPlaces
    BY <1>2 DEF EndPlaces
  <1>6. CASE Unbroken(s, L)
    <2>1. StarTakes(s, L)
      BY <1>1, <1>2, <1>6, UnbrokenTaken
    <2>2. Matches
      BY <1>2, <1>4, <1>5, <2>1
    <2>3. \A k \in s .. Len(string) : ~SlashIsStructural(string[k])
      BY <1>2, <1>6 DEF Unbroken
    <2> QED  BY <2>2, <2>3 DEF Answers
  <1>7. CASE ~Unbroken(s, L) /\ "LEADING_DIR" \in flags
    <2> DEFINE T == {q \in s .. L - 1 : SlashIsStructural(string[q])}
    <2>1. T \subseteq Nat /\ T # {}
      BY <1>2, <1>7 DEF Unbroken
    <2>2. PICK t \in T : \A q \in T : t <= q
      <3> HIDE DEF T
      <3> QED  BY <2>1, LeastOf
    <2>3. t \in Nat /\ s <= t /\ t \in Places /\ t <= Len(string) /\ SlashIsStructural(string[t])
      BY <1>2, <2>2
    <2>4. Unbroken(s, t)
      <3> SUFFICES ASSUME NEW q \in s .. t - 1  PROVE ~SlashIsStructural(string[q])
        BY DEF Unbroken
      <3>1. q \in s .. L - 1 /\ ~(t <= q)
        BY <1>2, <2>3
      <3>2. q \notin T
        BY <2>2, <3>1
      <3> QED  BY <3>1, <3>2
    <2>5. StarTakes(s, t)
      BY <1>1, <1>2, <2>3, <2>4, UnbrokenTaken
    <2>6. t \in EndPlaces
      BY <1>7, <2>3 DEF EndPlaces, SlashIsStructural
    <2> QED  BY <1>4, <1>7, <2>3, <2>5, <2>6 DEF Answers
  <1>8. CASE ~Unbroken(s, L) /\ "LEADING_DIR" \notin flags
    <2>1. \A t \in EndPlaces : t = L
      BY <1>2, <1>8 DEF EndPlaces
    <2>2. ~StarTakes(s, L)
      BY <1>8 DEF Unbroken, StarTakes
    <2>3. ~Matches
      BY <1>4, <2>1, <2>2
    <2>4. ~\A k \in s .. Len(string) : ~SlashIsStructural(string[k])
      BY <1>2, <1>8 DEF Unbroken
    <2> QED  BY <1>8, <2>3, <2>4 DEF Answers
  <1> QED  BY <1>6, <1>7, <1>8

LEMMA NoMatchRight ==
    ASSUME Arguments, Good(p, s, starP, starS, leading), Misses, ~CanGive
    PROVE  Answers(FALSE)
  <1>1. s \notin Describes[p] /\ Running
    BY NoneHere DEF Misses, AtItem
  <1>2. ASSUME starP # 0, NEW t \in Places, Later(t, starP, starS)  PROVE FALSE
    <2>1. starS \in 1 .. s /\ s \in Nat /\ t \in Nat /\ starS < t /\ StarTakes(starS, t)
      BY <1>1, <1>2, RunningIs, SizesAre DEF Later
    <2>2. starS \in starS .. t - 1
      BY <2>1
    <2>3. ~SlashIsStructural(string[starS])
      BY <2>1, <2>2 DEF StarTakes
    <2>4. leading
      BY <1>2, <2>3 DEF CanGive, MayGive, GuardedDot
    <2> QED  BY <1>2, <2>4 DEF Good, LastStar
  <1> QED  BY <1>1, <1>2 DEF Good, Found, Answers

-------------------------------------------------------------------------------
(***************************************************************************)
(* The loop.  The arguments never change, and what the pattern describes   *)
(* does not either.                                                        *)
(***************************************************************************)
LEMMA DescribesKept ==
    ASSUME UNCHANGED arguments
    PROVE  Describes' = Describes /\ Matches' = Matches
  <1>1. Describes' = Describes
    BY DEF arguments, Describes, EndPlaces, Places, IsStar, Takes, ItemHits, Same,
           StarTakes, OnlyDotMay, Begins, SlashIsStructural, IsDot
  <1> QED  BY <1>1 DEF Matches

LEMMA GoodPrimed ==
    ASSUME UNCHANGED arguments, Good(p', s', starP', starS', leading')
    PROVE  Good(p, s, starP, starS, leading)'
  <1>1. Describes' = Describes /\ Matches' = Matches
    BY DescribesKept
  <1>2. Placed(p, s, starP, starS)'
    BY DEF Good, Placed, P, L, arguments
  <1>3. Found(p, s, starP, starS)'
    BY <1>1 DEF Good, Found, Later, Places, StarTakes, OnlyDotMay, Begins,
                SlashIsStructural, arguments
  <1>4. LeadingIs(s, leading)'
    BY <1>1 DEF Good, LeadingIs, OnlyDotMay, Begins, SlashIsStructural, arguments
  <1>5. LastStar(p, s, starP, starS, leading)'
    BY <1>1 DEF Good, LastStar, Later, Places, StarTakes, OnlyDotMay, Begins, Unbroken,
                SlashIsStructural, arguments
  <1> QED  BY <1>2, <1>3, <1>4, <1>5 DEF Good

LEMMA GoesOn ==
    ASSUME Inv, UNCHANGED <<arguments, result>>, Good(p', s', starP', starS', leading'),
           result = "running"
    PROVE  Inv'
  <1>1. UNCHANGED arguments /\ result' = "running"
    BY DEF arguments
  <1>2. Good(p, s, starP, starS, leading)'
    BY <1>1, GoodPrimed
  <1>3. Arguments'
    BY <1>1 DEF Inv, Arguments, arguments
  <1> QED  BY <1>1, <1>2, <1>3 DEF Inv

LEMMA AnswersNow ==
    ASSUME Inv, UNCHANGED arguments, NEW m \in BOOLEAN, Answers(m),
           result' = IF m THEN "match" ELSE "nomatch"
    PROVE  Inv'
  <1>1. Matches' = Matches
    BY DescribesKept
  <1>2. Arguments'
    BY DEF Inv, Arguments, arguments
  <1> QED  BY <1>1, <1>2 DEF Inv, Answers, Answered

LEMMA TextsAre ==
    ASSUME NEW S, NEW n \in Nat
    PROVE  Texts(S, n) \subseteq Seq(S)
  BY DEF Texts

LEMMA InvInit == Init => Inv
  <1> SUFFICES ASSUME Init  PROVE Inv
    OBVIOUS
  <1>1. Arguments
    BY TextsAre, FnmatchAssumption DEF Init, Arguments
  <1>2. p = 1 /\ s = 1 /\ starP = 0 /\ starS = 0 /\ leading = TRUE /\ result = "running"
    BY DEF Init, Begin
  <1>3. Placed(p, s, starP, starS)
    BY <1>1, <1>2, SizesAre DEF Placed
  <1>4. Found(p, s, starP, starS) /\ LeadingIs(s, leading) /\ LastStar(p, s, starP, starS, leading)
    BY <1>2 DEF Found, LeadingIs, LastStar, Matches, Begins
  <1> QED  BY <1>1, <1>2, <1>3, <1>4 DEF Inv, Good

LEMMA InvStep == Inv /\ [Next]_vars => Inv'
  <1> SUFFICES ASSUME Inv, [Next]_vars  PROVE Inv'
    OBVIOUS
  <1> DEFINE Now == Good(p, s, starP, starS, leading)
  <1>1. Arguments /\ (result = "running" => Now)
    BY DEF Inv
  <1>2. CASE StringDone
    <2>1. result = "running" /\ OutOfString /\ UNCHANGED arguments
      BY <1>2 DEF StringDone, Turn
    <2> DEFINE m == \A k \in p .. Len(pattern) : IsStar(pattern[k])
    <2>2. Answers(m) /\ m \in BOOLEAN
      BY <1>1, <2>1, StringDoneRight
    <2>3. result' = IF m THEN "match" ELSE "nomatch"
      BY <1>2 DEF StringDone, Ends
    <2> HIDE DEF m
    <2> QED  BY <2>1, <2>2, <2>3, AnswersNow
  <1>3. CASE LeadingDirDone
    <2>1. result = "running" /\ Running /\ SegmentsDone /\ UNCHANGED arguments
      BY <1>3 DEF LeadingDirDone, Turn, Running
    <2>2. Answers(TRUE)
      BY <1>1, <2>1, LeadingDirRight
    <2>3. result' = IF TRUE THEN "match" ELSE "nomatch"
      BY <1>3 DEF LeadingDirDone, Ends
    <2> QED  BY <2>1, <2>2, <2>3, AnswersNow
  <1>4. CASE LeadingDot
    <2>1. result = "running" /\ Running /\ DotRefused /\ UNCHANGED arguments
      BY <1>4 DEF LeadingDot, Turn, Running
    <2>2. Answers(FALSE)
      BY <1>1, <2>1, LeadingDotRight
    <2>3. result' = IF FALSE THEN "match" ELSE "nomatch"
      BY <1>4 DEF LeadingDot, Ends
    <2> QED  BY <2>1, <2>2, <2>3, AnswersNow
  <1>5. CASE Star
    <2>1. result = "running" /\ UNCHANGED <<arguments, result>>
      BY <1>5 DEF Star, Turn, AtItem, Running
    <2>2. Good(AfterStars(p), s, AfterStars(p), s, FALSE)
      BY <1>1, <1>5, <2>1, StarGood
    <2>3. /\ p' = AfterStars(p) /\ starP' = AfterStars(p) /\ starS' = s /\ s' = s
          /\ leading' = FALSE
      BY <1>5 DEF Star
    <2>4. Good(p', s', starP', starS', leading')
      BY <2>2, <2>3
    <2> QED  BY <2>1, <2>4, GoesOn
  <1>6. CASE TrailingStar
    <2>1. result = "running" /\ AtItem /\ AtStar /\ AfterStars(p) > Len(pattern)
          /\ UNCHANGED arguments
      BY <1>6 DEF TrailingStar, Turn, AtItem, Running
    <2> DEFINE m == \/ "LEADING_DIR" \in flags
                    \/ \A k \in s .. Len(string) : ~SlashIsStructural(string[k])
    <2>2. Answers(m) /\ m \in BOOLEAN
      BY <1>1, <2>1, TrailingStarRight
    <2>3. result' = IF m THEN "match" ELSE "nomatch"
      BY <1>6 DEF TrailingStar, Ends
    <2> HIDE DEF m
    <2> QED  BY <2>1, <2>2, <2>3, AnswersNow
  <1>7. CASE Hit
    <2>1. result = "running" /\ UNCHANGED <<arguments, result>>
      BY <1>7 DEF Hit, Turn, AtItem, Running
    <2>2. Good(p + 1, s + 1, starP, starS, SlashIsStructural(string[s]))
      BY <1>1, <1>7, <2>1, HitGood
    <2>3. /\ p' = p + 1 /\ s' = s + 1 /\ starP' = starP /\ starS' = starS
          /\ leading' = SlashIsStructural(string[s])
      BY <1>7 DEF Hit
    <2>4. Good(p', s', starP', starS', leading')
      BY <2>2, <2>3
    <2> QED  BY <2>1, <2>4, GoesOn
  <1>8. CASE GiveBack
    <2>1. result = "running" /\ UNCHANGED <<arguments, result>>
      BY <1>8 DEF GiveBack, Turn, Misses, AtItem, Running
    <2>2. Good(starP, starS + 1, starP, starS + 1, leading)
      BY <1>1, <1>8, <2>1, GiveBackGood
    <2>3. /\ p' = starP /\ s' = starS + 1 /\ starP' = starP /\ starS' = starS + 1
          /\ leading' = leading
      BY <1>8 DEF GiveBack, GoOnAt
    <2>4. Good(p', s', starP', starS', leading')
      BY <2>2, <2>3
    <2> QED  BY <2>1, <2>4, GoesOn
  <1>9. CASE NoMatch
    <2>1. result = "running" /\ Misses /\ ~CanGive /\ UNCHANGED arguments
      BY <1>9 DEF NoMatch, Turn, Misses, AtItem, Running
    <2>2. Answers(FALSE)
      BY <1>1, <2>1, NoMatchRight
    <2>3. result' = IF FALSE THEN "match" ELSE "nomatch"
      BY <1>9 DEF NoMatch, Ends
    <2> QED  BY <2>1, <2>2, <2>3, AnswersNow
  <1>10. CASE UNCHANGED vars
    <2>1. UNCHANGED <<arguments, result, p, s, starP, starS, leading>>
      BY <1>10 DEF vars
    <2>2. CASE result = "running"
      <3>1. Good(p', s', starP', starS', leading')
        BY <1>1, <2>1, <2>2
      <3> QED  BY <2>1, <2>2, <3>1, GoesOn
    <2>3. CASE result # "running"
      <3>1. Matches' = Matches /\ result' = result
        BY <2>1, DescribesKept
      <3>2. Arguments'
        BY <1>1, <2>1 DEF Arguments, arguments
      <3> QED  BY <2>3, <3>1, <3>2 DEF Inv, Answered
    <2> QED  BY <2>2, <2>3
  <1> QED  BY <1>2, <1>3, <1>4, <1>5, <1>6, <1>7, <1>8, <1>9, <1>10 DEF Next

\* fnmatch() with its one place to go back to says that there is a match
\* exactly when the string can be shared out among the items, for every
\* pattern, string and set of flags.
THEOREM AlwaysAgrees == Spec => []FnmatchAgrees
  <1>1. Inv => FnmatchAgrees
    BY DEF Inv, Answered, FnmatchAgrees
  <1> QED  BY InvInit, InvStep, <1>1, PTL DEF Spec

-------------------------------------------------------------------------------
(***************************************************************************)
(* How long the loop takes.  A turn that goes back costs at most the items *)
(* behind the star, and there are no more of those than characters it can  *)
(* take; an earlier star has been paid for before the last one.            *)
(***************************************************************************)
Spent(p1, sp, ss) ==
    IF sp = 0 THEN p1 - 1 ELSE (sp - 1) * L + (ss - 1) * (P - sp + 1) + (p1 - sp)

Budget ==
    /\ turns \in Nat
    /\ result = "running" => /\ turns <= Spent(p, starP, starS)
                             /\ starP = 0 => s = p
    /\ result # "running" => turns <= P * L

\* Products, once and for all.
LEMMA Sums ==
    ASSUME NEW x \in Int, NEW y \in Int, NEW z \in Int
    PROVE  /\ (x + y) * z = x * z + y * z /\ z * (x + y) = z * x + z * y
           /\ x * z \in Int /\ y * z \in Int /\ z * x \in Int /\ z * y \in Int
  OBVIOUS

LEMMA Grows ==
    ASSUME NEW e \in Nat \ {0}, NEW y \in Nat
    PROVE  y <= e * y /\ y <= y * e /\ y * e \in Nat
  <1>1. e - 1 \in Nat
    OBVIOUS
  <1>2. e * y = (e - 1) * y + y /\ (e - 1) * y \in Nat
    BY <1>1
  <1>3. y * e = e * y
    OBVIOUS
  <1> QED  BY <1>2, <1>3

\* Going back.
LEMMA BackPays ==
    ASSUME NEW a \in Nat \ {0}, NEW b \in Nat \ {0}, NEW p1 \in Nat, a <= p1, NEW x \in Nat, p1 <= x,
           NEW y \in Nat
    PROVE  (a - 1) * y + (b - 1) * (x - a + 1) + (p1 - a) + 1
              <= (a - 1) * y + ((b + 1) - 1) * (x - a + 1) + (a - a)
  <1> DEFINE r == x - a + 1
             q == (a - 1) * y
             c == b - 1
             z == c * r
  <1>1. r \in Nat /\ q \in Int /\ c \in Nat /\ p1 - a + 1 <= r
    OBVIOUS
  <1>2. (b + 1) - 1 = c + 1
    OBVIOUS
  <1> HIDE DEF r, q, c
  <1>3. (c + 1) * r = z + r /\ z \in Int
    BY <1>1
  <1> HIDE DEF z
  <1>4. q + z + (p1 - a) + 1 <= q + (z + r) + (a - a)
    BY <1>1, <1>3
  <1> QED  BY <1>2, <1>3, <1>4 DEF r, q, c, z

\* A further star.
LEMMA StarPays ==
    ASSUME NEW a \in Nat \ {0}, NEW b \in Nat \ {0}, NEW d \in Nat, NEW j \in Nat, a + d < j,
           NEW x \in Nat, j <= x, NEW y \in Nat, b + d < y
    PROVE  (a - 1) * y + (b - 1) * (x - a + 1) + d + 1
              <= (j - 1) * y + ((b + d) - 1) * (x - j + 1)
  <1> DEFINE e == j - a
             r == x - j + 1
             c == b - 1
             w == y - c
  <1>1. /\ e \in Nat \ {0} /\ r \in Nat /\ c \in Nat /\ w \in Nat /\ d + 2 <= w
        /\ j - 1 = (a - 1) + e /\ x - a + 1 = r + e /\ (b + d) - 1 = c + d /\ y = w + c
        /\ a - 1 \in Nat /\ b - 1 = c
    OBVIOUS
  <1> HIDE DEF e, r, c, w
  <1> DEFINE ay == (a - 1) * y
             ey == e * y
             cr == c * r
             ce == c * e
             dr == d * r
             ew == e * w
  <1>2. (j - 1) * y = ay + ey /\ ay \in Int /\ ey \in Int
    BY <1>1, Sums
  <1>3. (b - 1) * (x - a + 1) = cr + ce /\ cr \in Int /\ ce \in Int
    BY <1>1, Sums
  <1>4. ((b + d) - 1) * (x - j + 1) = cr + dr /\ dr \in Int
    BY <1>1, Sums
  <1>5. ey = ew + ce /\ ew \in Int
    <2>1. e * (w + c) = e * w + e * c /\ e * c = c * e
      BY <1>1, Sums
    <2> QED  BY <1>1, <2>1
  <1>6. w <= ew
    BY <1>1, Grows
  <1>7. dr >= 0
    BY <1>1
  <1> HIDE DEF ay, ey, cr, ce, dr, ew
  <1>8. ay + (cr + ce) + d + 1 <= (ay + ey) + (cr + dr)
    BY <1>1, <1>2, <1>3, <1>4, <1>5, <1>6, <1>7
  <1> QED  BY <1>2, <1>3, <1>4, <1>8

\* The end.
LEMMA EndPays ==
    ASSUME NEW a \in Nat \ {0}, NEW b \in Nat \ {0}, NEW p1 \in Nat, a <= p1, NEW x \in Nat, p1 <= x,
           NEW y \in Nat, b <= y
    PROVE  (a - 1) * y + (b - 1) * (x - a + 1) + (p1 - a) + 1 <= x * y
  <1> DEFINE r == x - a + 1
             c == b - 1
             w == y - c
  <1>1. /\ r \in Nat \ {0} /\ c \in Nat /\ w \in Nat \ {0} /\ a - 1 \in Nat
        /\ x = (a - 1) + r /\ y = c + w /\ p1 - a + 1 <= r
    OBVIOUS
  <1> HIDE DEF r, c, w
  <1> DEFINE ay == (a - 1) * y
             cr == c * r
             wr == w * r
  <1>2. x * y = ay + r * y /\ ay \in Int
    BY <1>1, Sums
  <1>3. r * y = cr + wr /\ cr \in Int /\ wr \in Int
    <2>1. r * (c + w) = r * c + r * w /\ r * c = c * r /\ r * w = w * r
          /\ cr \in Int /\ wr \in Int
      BY <1>1, Sums
    <2> QED  BY <1>1, <2>1
  <1>4. r <= wr
    BY <1>1, Grows
  <1> HIDE DEF ay, cr, wr
  <1>5. ay + cr + (p1 - a) + 1 <= ay + (cr + wr)
    BY <1>1, <1>2, <1>3, <1>4
  <1> QED  BY <1>2, <1>3, <1>5 DEF ay, cr, r, c

\* While the loop runs there is a turn left.
LEMMA TurnLeft ==
    ASSUME Inv, Budget, result = "running"
    PROVE  turns + 1 <= P * L /\ P * L \in Nat
  <1>1. P \in Nat /\ L \in Nat /\ L # 0 /\ Placed(p, s, starP, starS)
    BY SizesAre DEF Inv, Good
  <1>2. /\ p \in Nat /\ p <= P /\ s \in Nat /\ s <= L /\ starP \in Nat /\ starS \in Nat
        /\ starP # 0 => starP <= p /\ 1 <= starS /\ s - starS = p - starP
        /\ turns \in Nat /\ turns <= Spent(p, starP, starS)
    BY <1>1 DEF Placed, Budget
  <1>3. P * L \in Nat
    BY <1>1
  <1>4. CASE starP = 0
    <2>1. P <= P * L
      <3>1. L \in Nat \ {0}
        BY <1>1
      <3> QED  BY <1>1, <3>1, Grows
    <2>2. turns <= p - 1
      BY <1>2, <1>4 DEF Spent
    <2> QED  BY <1>1, <1>2, <1>3, <2>1, <2>2
  <1>5. CASE starP # 0
    <2>1. starP \in Nat \ {0} /\ starS \in Nat \ {0} /\ starS <= L
      BY <1>1, <1>2, <1>5
    <2> DEFINE x == (starP - 1) * L + (starS - 1) * (P - starP + 1) + (p - starP)
    <2>2. x + 1 <= P * L
      BY <1>1, <1>2, <2>1, EndPays
    <2>3. turns <= x /\ x \in Int
      <3>1. (starP - 1) * L \in Int /\ (starS - 1) * (P - starP + 1) \in Int
        BY <1>1, <1>2
      <3> QED  BY <1>2, <1>5, <3>1 DEF Spent
    <2> HIDE DEF x
    <2> QED  BY <1>2, <1>3, <2>2, <2>3
  <1> QED  BY <1>3, <1>4, <1>5

LEMMA BudgetKept ==
    ASSUME Inv, Budget, UNCHANGED arguments, turns' = turns + 1, result = "running",
           \/ /\ result' = "running"
              /\ Spent(p, starP, starS) + 1 <= Spent(p', starP', starS')
              /\ Spent(p, starP, starS) \in Int /\ Spent(p', starP', starS') \in Int
              /\ starP' = 0 => s' = p'
           \/ result' # "running"
    PROVE  Budget'
  <1>1. P' = P /\ L' = L
    BY DEF P, L, arguments
  <1>2. turns \in Nat /\ turns <= Spent(p, starP, starS)
    BY DEF Budget
  <1>3. CASE result' = "running"
    <2>1. Spent(p, starP, starS)' = Spent(p', starP', starS')
      BY <1>1 DEF Spent
    <2> DEFINE x == Spent(p, starP, starS)
               y == Spent(p', starP', starS')
    <2>2. x + 1 <= y /\ x \in Int /\ y \in Int /\ (starP' = 0 => s' = p')
      BY <1>3
    <2> HIDE DEF x, y
    <2>3. turns' \in Nat /\ turns' <= y
      <3>1. turns <= x
        BY <1>2 DEF x
      <3> QED  BY <1>2, <2>2, <3>1
    <2>4. turns' <= Spent(p, starP, starS)'
      BY <2>1, <2>3 DEF y
    <2> QED  BY <1>3, <2>2, <2>3, <2>4 DEF Budget
  <1>4. CASE result' # "running"
    <2>3. turns + 1 <= P * L
      BY TurnLeft
    <2>4. (P * L)' = P * L
      BY <1>1
    <2>5. turns' <= (P * L)'
      BY <2>3, <2>4
    <2> QED  BY <1>2, <1>4, <2>5 DEF Budget
  <1> QED  BY <1>3, <1>4

\* The places of the loop while it runs.
LEMMA PlacesAre ==
    ASSUME Inv, Budget, Running
    PROVE  /\ p \in 1 .. P /\ s \in 1 .. L /\ p \in Nat /\ s \in Nat /\ P \in Nat /\ L \in Nat
           /\ s < L /\ p <= P
           /\ starP \in Nat /\ starS \in Nat
           /\ starP = 0 => s = p
           /\ starP # 0 => /\ starP <= p /\ 1 <= starS /\ starS <= s
                           /\ s - starS = p - starP
           /\ Spent(p, starP, starS) \in Int
  <1>1. result = "running" /\ Placed(p, s, starP, starS) /\ P \in Nat /\ L \in Nat
        /\ (starP = 0 => s = p)
    BY SizesAre DEF Inv, Good, Running, Budget
  <1>2. p \in 1 .. P /\ s \in 1 .. L /\ p \in Nat /\ s \in Nat /\ p <= P /\ starP \in Nat
        /\ starS \in Nat /\ s <= L
        /\ (starP # 0 => starP <= p /\ 1 <= starS /\ s - starS = p - starP)
    BY <1>1 DEF Placed
  <1>3. s # L
    BY <1>1, RunningIs DEF Inv
  <1>4. (starP - 1) * L \in Int /\ (starS - 1) * (P - starP + 1) \in Int
    BY <1>1, <1>2
  <1>5. Spent(p, starP, starS) \in Int
    BY <1>1, <1>2, <1>4 DEF Spent
  <1> QED  BY <1>1, <1>2, <1>3, <1>5

LEMMA BudgetStep == Inv /\ Budget /\ [Next]_vars => Budget'
  <1> SUFFICES ASSUME Inv, Budget, [Next]_vars  PROVE Budget'
    OBVIOUS
  <1>1. CASE Star
    <2>1. /\ Running /\ AtItem /\ AtStar /\ UNCHANGED <<arguments, result>> /\ turns' = turns + 1
          /\ AfterStars(p) <= Len(pattern)
          /\ p' = AfterStars(p) /\ starP' = AfterStars(p) /\ starS' = s
      BY <1>1 DEF Star, Turn, AtItem
    <2> DEFINE j == AfterStars(p)
               d == p - starP
    <2>2. j \in p + 1 .. P /\ result = "running"
      BY <2>1, StarFound DEF Inv, Running
    <2> HIDE DEF j
    <2>3. p \in Nat /\ s \in Nat /\ j \in Nat /\ P \in Nat /\ L \in Nat /\ p < j /\ j <= P
          /\ s < L /\ j # 0 /\ 1 <= p /\ starP \in Nat /\ starS \in Nat
          /\ (starP # 0 => starP <= p /\ 1 <= starS /\ s - starS = d)
          /\ Spent(p, starP, starS) \in Int
          /\ (starP = 0 => s = p)
      BY <2>1, <2>2, PlacesAre
    <2>4. p' = j /\ starP' = j /\ starS' = s
      BY <2>1 DEF j
    <2> DEFINE y == (j - 1) * L + (s - 1) * (P - j + 1)
    <2>5. Spent(p', starP', starS') = y /\ y \in Int
      <3>1. (j - 1) * L \in Int /\ (s - 1) * (P - j + 1) \in Int
        BY <2>3
      <3>2. Spent(p', starP', starS') = (j - 1) * L + (s - 1) * (P - j + 1) + (j - j)
        BY <2>3, <2>4 DEF Spent
      <3> QED  BY <2>3, <3>1, <3>2
    <2>6. Spent(p, starP, starS) + 1 <= y
      <3>1. CASE starP = 0
        <4>1. Spent(p, starP, starS) = p - 1
          BY <3>1 DEF Spent
        <4>2. p <= j - 1 /\ j - 1 \in Nat /\ L \in Nat \ {0} /\ s - 1 \in Nat /\ P - j + 1 \in Nat
          BY <2>3, <3>1
        <4>3. j - 1 <= (j - 1) * L /\ (j - 1) * L \in Nat
          BY <4>2, Grows
        <4>4. (s - 1) * (P - j + 1) \in Nat
          BY <4>2
        <4> DEFINE u == (j - 1) * L
                   v == (s - 1) * (P - j + 1)
        <4>5. j - 1 <= u /\ u \in Nat /\ v \in Nat
          BY <4>3, <4>4
        <4> HIDE DEF u, v
        <4>6. (p - 1) + 1 <= u + v
          BY <2>3, <4>2, <4>5
        <4> QED  BY <4>1, <4>6 DEF u, v
      <3>2. CASE starP # 0
        <4>1. starP \in Nat \ {0} /\ starS \in Nat \ {0} /\ d \in Nat /\ starP + d = p
              /\ starS + d = s
          BY <2>3, <3>2
        <4> HIDE DEF d
        <4>2. (starP - 1) * L + (starS - 1) * (P - starP + 1) + d + 1
                 <= (j - 1) * L + ((starS + d) - 1) * (P - j + 1)
          <5>1. starP + d < j /\ starS + d < L
            BY <2>3, <4>1
          <5> QED  BY <2>3, <4>1, <5>1, StarPays
        <4>3. Spent(p, starP, starS) = (starP - 1) * L + (starS - 1) * (P - starP + 1) + d
          BY <3>2 DEF Spent, d
        <4> QED  BY <4>1, <4>2, <4>3
      <3> QED  BY <3>1, <3>2
    <2> HIDE DEF y, d
    <2>7. result' = "running" /\ (starP' = 0 => s' = p')
      BY <2>1, <2>2, <2>3, <2>4
    <2> QED  BY <2>1, <2>2, <2>3, <2>5, <2>6, <2>7, BudgetKept
  <1>2. CASE Hit
    <2>1. /\ Running /\ result = "running" /\ UNCHANGED <<arguments, result>>
          /\ turns' = turns + 1
          /\ p' = p + 1 /\ s' = s + 1 /\ starP' = starP /\ starS' = starS
      BY <1>2 DEF Hit, Turn, AtItem, Running
    <2>2. p \in Nat /\ s \in Nat /\ starP \in Nat /\ Spent(p, starP, starS) \in Int
          /\ (starP = 0 => s = p) /\ starS \in Nat /\ P \in Nat /\ L \in Nat
      BY <2>1, PlacesAre
    <2>3. Spent(p + 1, starP, starS) = Spent(p, starP, starS) + 1
      <3>1. CASE starP = 0
        BY <2>2, <3>1 DEF Spent
      <3>2. CASE starP # 0
        <4> DEFINE x == (starP - 1) * L + (starS - 1) * (P - starP + 1)
        <4>1. (starP - 1) * L \in Int /\ (starS - 1) * (P - starP + 1) \in Int
          BY <2>2
        <4>2. x \in Int
          BY <4>1
        <4>3. Spent(p + 1, starP, starS) = x + ((p + 1) - starP)
              /\ Spent(p, starP, starS) = x + (p - starP)
          BY <3>2 DEF Spent
        <4> HIDE DEF x
        <4> QED  BY <2>2, <4>2, <4>3
      <3> QED  BY <3>1, <3>2
    <2>4. /\ Spent(p, starP, starS) + 1 <= Spent(p', starP', starS')
          /\ Spent(p', starP', starS') \in Int
          /\ result' = "running" /\ (starP' = 0 => s' = p')
      BY <2>1, <2>2, <2>3
    <2> QED  BY <2>1, <2>2, <2>4, BudgetKept
  <1>3. CASE GiveBack
    <2>1. /\ Running /\ result = "running" /\ UNCHANGED <<arguments, result>>
          /\ turns' = turns + 1 /\ starP # 0
          /\ p' = starP /\ starP' = starP /\ starS' = starS + 1
      BY <1>3 DEF GiveBack, Turn, Misses, AtItem, Running, CanGive, GoOnAt
    <2>2. /\ p \in Nat /\ starP \in Nat \ {0} /\ starS \in Nat \ {0} /\ P \in Nat /\ L \in Nat
          /\ starP <= p /\ p <= P
          /\ Spent(p, starP, starS) \in Int
      BY <2>1, PlacesAre
    <2> DEFINE x == (starP - 1) * L + (starS - 1) * (P - starP + 1) + (p - starP)
               y == (starP - 1) * L + ((starS + 1) - 1) * (P - starP + 1) + (starP - starP)
    <2>3. x + 1 <= y
      BY <2>2, BackPays
    <2>4. y \in Int
      <3>1. (starP - 1) * L \in Int /\ ((starS + 1) - 1) * (P - starP + 1) \in Int
        BY <2>2
      <3> QED  BY <2>2, <3>1
    <2>5. Spent(p, starP, starS) = x /\ Spent(p', starP', starS') = y
      BY <2>1, <2>2 DEF Spent
    <2> HIDE DEF x, y
    <2>6. result' = "running" /\ starP' # 0
      BY <2>1
    <2> QED  BY <2>1, <2>2, <2>3, <2>4, <2>5, <2>6, BudgetKept
  <1>4. CASE StringDone \/ LeadingDirDone \/ LeadingDot \/ TrailingStar \/ NoMatch
    <2>1. result = "running" /\ UNCHANGED arguments /\ turns' = turns + 1 /\ result' # "running"
      BY <1>4 DEF StringDone, LeadingDirDone, LeadingDot, TrailingStar, NoMatch, Misses, AtItem,
                  Running, Turn, Ends
    <2> QED  BY <2>1, BudgetKept
  <1>5. CASE UNCHANGED vars
    BY <1>5 DEF vars, Budget, Spent, P, L, arguments
  <1> QED  BY <1>1, <1>2, <1>3, <1>4, <1>5 DEF Next

LEMMA BudgetInit == Init => Budget
  BY DEF Init, Begin, Budget, Spent

\* The pathological pattern costs O(n*m): no pattern and no string make the
\* loop take more turns than one per pair of an item and a character.
THEOREM AlwaysEnds == Spec => []FnmatchEnds
  <1>1. Inv /\ Budget => FnmatchEnds
    <2> SUFFICES ASSUME Inv, Budget  PROVE turns <= P * L
      BY DEF FnmatchEnds, P, L
    <2>1. CASE result # "running"
      BY <2>1 DEF Budget
    <2>2. CASE result = "running"
      BY <2>2, TurnLeft DEF Budget
    <2> QED  BY <2>1, <2>2
  <1> QED  BY InvInit, InvStep, BudgetInit, BudgetStep, <1>1, PTL DEF Spec

===============================================================================
