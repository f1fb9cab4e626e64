------------------------------- MODULE NumberFacts -------------------------------
(***************************************************************************)
(* Facts about numbers that the proofs about the allocators share: least   *)
(* and greatest elements, induction on a set of numbers, and multiples of  *)
(* a positive number.                                                      *)
(***************************************************************************)
EXTENDS Integers, WellFoundedInduction, TLAPS

(***************************************************************************)
(* A set of natural numbers has a least element.                           *)
(***************************************************************************)
LEMMA LeastOf ==
    ASSUME NEW T, T \subseteq Nat, T # {}
    PROVE  \E x \in T : \A y \in T : x <= y
  <1> DEFINE R == OpToRel(<, Nat)
  <1>1. IsWellFoundedOn(R, Nat)
    BY NatLessThanWellFounded, Zenon
  <1>2. \A x, y \in Nat : <<y, x>> \in R <=> y < x
    BY DEF OpToRel
  <1> HIDE DEF R
  <1>3. PICK x \in T : \A y \in T : ~ (<<y, x>> \in R)
    BY <1>1, WFMin, Zenon
  <1>4. \A y \in T : ~ (y < x)
    BY <1>2, <1>3, Zenon
  <1>5. \A y \in T : x <= y
    BY <1>4
  <1> QED  BY <1>5

(***************************************************************************)
(* ... and one that has an upper bound has a greatest.                     *)
(***************************************************************************)
LEMMA GreatestOf ==
    ASSUME NEW T, T \subseteq Nat, T # {}, NEW n \in Nat, \A x \in T : x <= n
    PROVE  \E x \in T : \A y \in T : x >= y
  <1> DEFINE U == {n - x : x \in T}
  <1>1. U \subseteq Nat /\ U # {}
    <2>1. \A x \in T : n - x \in Nat
      OBVIOUS
    <2>2. PICK z \in T : TRUE
      OBVIOUS
    <2>3. n - z \in U
      OBVIOUS
    <2> QED  BY <2>1, <2>3
  <1>2. PICK u \in U : \A v \in U : u <= v
    BY <1>1, LeastOf
  <1>3. PICK x \in T : u = n - x
    BY <1>2
  <1>4. ASSUME NEW y \in T  PROVE  x >= y
    BY <1>2, <1>3
  <1> QED  BY <1>4

(***************************************************************************)
(* Induction, over the members of a set.                                   *)
(***************************************************************************)
LEMMA Induct ==
    ASSUME NEW T, 0 \in T, \A n \in Nat : n \in T => n + 1 \in T
    PROVE  Nat \subseteq T
  <1> DEFINE B == {n \in Nat : n \notin T}
  <1>1. SUFFICES ASSUME B # {}  PROVE  FALSE
    OBVIOUS
  <1>2. PICK x \in B : \A y \in B : x <= y
    BY <1>1, LeastOf
  <1>3. x \in Nat /\ x # 0 /\ x \notin T
    OBVIOUS
  <1>4. x - 1 \in Nat /\ x - 1 \notin B
    BY <1>2, <1>3
  <1>5. x - 1 \in T
    BY <1>4
  <1>6. (x - 1) + 1 \in T /\ (x - 1) + 1 = x
    BY <1>4, <1>5, <1>3
  <1> QED  BY <1>6, <1>3

LEMMA DivMod ==
    ASSUME NEW x \in Int, NEW a \in Nat \ {0}
    PROVE  /\ x % a \in Int
           /\ 0 <= x % a
           /\ x % a < a
           /\ x \div a \in Int
           /\ x = a * (x \div a) + (x % a)
  <1>1. x \div a \in Int /\ x % a \in 0 .. (a - 1)
    OBVIOUS
  <1>2. x = a * (x \div a) + (x % a)
    OBVIOUS
  <1> QED  BY <1>1, <1>2

LEMMA ProductIsMultiple ==
    ASSUME NEW x \in Int, NEW a \in Nat \ {0}, NEW k \in Int, x = a * k
    PROVE  x % a = 0
  <1> DEFINE q == x \div a
             j == k - q
  <1>1. q \in Int /\ x = a * q + (x % a)
    BY DivMod
  <1>2. (x % a) = a * j
    <2> HIDE DEF q
    <2>1. a * (k - q) = a * k - a * q
      BY <1>1
    <2> QED  BY <2>1, <1>1, DivMod
  <1>3. j \in Int
    BY <1>1
  <1> HIDE DEF j
  <1>4. CASE j >= 1
    BY <1>4, <1>2, <1>3, DivMod
  <1>5. CASE j <= -1
    BY <1>5, <1>2, <1>3, DivMod
  <1>6. CASE j = 0
    BY <1>6, <1>2
  <1> QED  BY <1>3, <1>4, <1>5, <1>6

LEMMA MultipleIsProduct ==
    ASSUME NEW x \in Int, NEW a \in Nat \ {0}, x % a = 0
    PROVE  \E k \in Int : x = a * k
  <1>1. x = a * (x \div a)
    BY DivMod
  <1> QED  BY <1>1, DivMod

(***************************************************************************)
(* Sums and differences of multiples are multiples.                        *)
(***************************************************************************)
LEMMA MultiplesAdd ==
    ASSUME NEW x \in Int, NEW y \in Int, NEW a \in Nat \ {0},
           x % a = 0, y % a = 0
    PROVE  (x + y) % a = 0 /\ (x - y) % a = 0
  <1>1. PICK i \in Int : x = a * i
    BY MultipleIsProduct
  <1>2. PICK j \in Int : y = a * j
    BY MultipleIsProduct
  <1>3. x + y = a * (i + j)
    BY <1>1, <1>2
  <1>4. x - y = a * (i - j)
    BY <1>1, <1>2
  <1>5. i + j \in Int /\ i - j \in Int /\ x + y \in Int /\ x - y \in Int
    OBVIOUS
  <1>6. (x + y) % a = 0
    BY <1>5, <1>3, ProductIsMultiple
  <1>7. (x - y) % a = 0
    BY <1>5, <1>4, ProductIsMultiple
  <1> QED  BY <1>6, <1>7

(***************************************************************************)
(* A multiple of a multiple.                                               *)
(***************************************************************************)
LEMMA MultiplesChain ==
    ASSUME NEW x \in Int, NEW a \in Nat \ {0}, NEW d \in Nat \ {0},
           x % a = 0, a % d = 0
    PROVE  x % d = 0
  <1>1. PICK i \in Int : x = a * i
    BY MultipleIsProduct
  <1>2. PICK j \in Int : a = d * j
    BY MultipleIsProduct
  <1>3. x = d * (j * i)
    BY <1>1, <1>2
  <1>4. j * i \in Int
    OBVIOUS
  <1> QED  BY <1>3, <1>4, ProductIsMultiple

(***************************************************************************)
(* (-x) % a is what x lacks to the next multiple of a.                     *)
(***************************************************************************)
LEMMA PaddingReaches ==
    ASSUME NEW x \in Int, NEW a \in Nat \ {0}
    PROVE  /\ (-x) % a \in Nat
           /\ (-x) % a < a
           /\ (x + ((-x) % a)) % a = 0
  <1> DEFINE q == (-x) \div a
  <1>1. -x = a * q + ((-x) % a) /\ q \in Int
    BY DivMod
  <1>2. x + ((-x) % a) = a * (- q)
    BY <1>1, DivMod
  <1>3. -q \in Int /\ x + ((-x) % a) \in Int
    BY <1>1, DivMod
  <1>4. (x + ((-x) % a)) % a = 0
    BY <1>2, <1>3, ProductIsMultiple
  <1> QED  BY <1>4, DivMod

(***************************************************************************)
(* From one multiple of d to the next multiple of a, itself a multiple of  *)
(* d, it is never more than a - d.                                         *)
(***************************************************************************)
LEMMA PaddingInSteps ==
    ASSUME NEW x \in Int, NEW a \in Nat \ {0}, NEW d \in Nat \ {0},
           x % d = 0, a % d = 0
    PROVE  (-x) % a <= a - d
  <1> DEFINE r == (-x) % a
             q == (-x) \div a
  <1>1. r = -x - a * q /\ q \in Int /\ r \in Int /\ r < a
    BY DivMod
  <1>2. PICK i \in Int : x = d * i
    BY MultipleIsProduct
  <1>3. PICK j \in Int : a = d * j
    BY MultipleIsProduct
  <1>4. a * q = d * (j * q)
    <2> HIDE DEF q
    <2>1. (d * j) * q = d * (j * q)
      BY <1>1
    <2> QED  BY <2>1, <1>3
  <1>5. r = d * (-i - j * q)
    BY <1>1, <1>2, <1>4
  <1>6. a - r = d * (j + i + j * q)
    <2> HIDE DEF q, r
    <2>1. j * q \in Int
      BY <1>1
    <2>2. d * (j + i + j * q) = d * j - d * (-i - j * q)
      BY <2>1
    <2> QED  BY <2>2, <1>5, <1>3
  <1> DEFINE k == j + i + j * q
  <1>7. k \in Int
    BY <1>1
  <1> HIDE DEF k
  <1>8. a - r = d * k
    BY <1>6 DEF k
  <1> HIDE DEF r, q
  <1>9. k >= 1
    BY <1>7, <1>8, <1>1
  <1>10. d * k >= d
    BY <1>9, <1>7
  <1> QED  BY <1>8, <1>10, <1>1 DEF r

(***************************************************************************)
(* A positive multiple is no smaller than what it is a multiple of.        *)
(***************************************************************************)
LEMMA AtLeastAsBig ==
    ASSUME NEW x \in Nat \ {0}, NEW a \in Nat \ {0}, x % a = 0
    PROVE  x >= a
  <1>1. PICK i \in Int : x = a * i
    BY MultipleIsProduct
  <1>2. CASE i <= 0
    <2>1. a * i <= 0
      BY <1>2
    <2> QED  BY <1>1, <2>1
  <1>3. CASE i >= 1
    <2>1. a * i >= a
      BY <1>3
    <2> QED  BY <1>1, <2>1
  <1> QED  BY <1>2, <1>3

===============================================================================
