------------------------------- MODULE Sorting -------------------------------
(***************************************************************************)
(* qsort() and bsearch() of qsort.c.  An array is a sequence of elements,  *)
(* a[i] in the source is a[i + 1] here, and the comparison function is <.  *)
(***************************************************************************)
EXTENDS Integers, Sequences, FiniteSets

At(a, i) == a[i + 1]

Swap(a, i, j) == [a EXCEPT ![i + 1] = At(a, j), ![j + 1] = At(a, i)]

\* The child of root to go down to: the greater one, the first of the heap
\* having itself for a child.
Child(a, root, n) ==
    IF 2 * root < n /\ At(a, 2 * root) < At(a, 2 * root + 1) THEN 2 * root + 1 ELSE 2 * root

\* fix(): the element at root sinks in the heap that ends at n.
RECURSIVE Fix(_, _, _)
Fix(a, root, n) ==
    LET max == Child(a, root, n)
    IN  IF 2 * root <= n /\ max # 0 /\ At(a, root) < At(a, max)
          THEN Fix(Swap(a, root, max), max, n)
          ELSE a

\* The first loop of qsort() from i down: a heap of everything.
RECURSIVE Heapify(_, _)
Heapify(a, i) == IF i = 0 THEN a ELSE Heapify(Fix(a, i - 1, Len(a) - 1), i - 1)

\* Fault: the greatest element is still part of the heap.
FixedWithLast(a, i) == Fix(Swap(a, 0, i), 0, i)

FixedBelow(a, i) == Fix(Swap(a, 0, i), 0, i - 1)

\* The second: the greatest of the heap goes behind it.
RECURSIVE Extract(_, _)
Extract(a, i) == IF i = 0 THEN a ELSE Extract(FixedBelow(a, i), i - 1)

Qsort(a) == IF a = <<>> THEN a ELSE Extract(Heapify(a, (Len(a) + 1) \div 2), Len(a) - 1)

\* bsearch() in the nmemb elements from lo on: an index, or -1, and how often
\* it compared.
RECURSIVE Search(_, _, _, _, _)
Search(a, key, lo, nmemb, compared) ==
    LET mid == lo + nmemb \div 2
    IN  CASE nmemb = 0 -> [index |-> -1, compared |-> compared]
          [] nmemb > 0 /\ key = At(a, mid) -> [index |-> mid, compared |-> compared + 1]
          [] nmemb > 0 /\ key > At(a, mid) ->
                Search(a, key, mid + 1, nmemb - (nmemb \div 2 + 1), compared + 1)
          [] nmemb > 0 /\ key < At(a, mid) -> Search(a, key, lo, nmemb \div 2, compared + 1)

Bsearch(a, key) == Search(a, key, 0, Len(a), 0)

-------------------------------------------------------------------------------
Times(a, x) == Cardinality({i \in DOMAIN a : a[i] = x})
IsSorted(a) == \A i, j \in DOMAIN a : i < j => a[i] <= a[j]

\* qsort leaves the elements it was given, each as often, in order, whatever
\* order and repetitions they came in; bsearch in it finds a key exactly when
\* it is there, with no more comparisons than the bits of the length.
SortsAndFinds(a, key) ==
    LET sorted == Qsort(a)
        found  == Bsearch(sorted, key)
    IN  /\ IsSorted(sorted) /\ Len(sorted) = Len(a)
        /\ \A i \in DOMAIN a : Times(sorted, a[i]) = Times(a, a[i])
        /\ IF found.index = -1 THEN Times(a, key) = 0 ELSE At(sorted, found.index) = key
        /\ 2 ^ found.compared <= 2 * Len(a) \/ a = <<>>
===============================================================================
