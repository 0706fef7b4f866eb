--------------------------- MODULE KarmarkarKarp ---------------------------
(***************************************************************************)
(* karmarkar_karp of verl/utils/seqlen_balancing.py: the items 1..n of a   *)
(* batch, item i of length lens[i], are put into k bins of nearly equal    *)
(* total length by merging, again and again, the two partial solutions     *)
(* with the largest spread.                                                *)
(*                                                                         *)
(* A bin is the class Set (its sum and the list of its items), a solution  *)
(* is the class State: a sequence of k bins in decreasing order.  The heap *)
(* is the set of the solutions not merged yet.                             *)
(***************************************************************************)
EXTENDS Integers, Sequences, FiniteSets, Functions

\* sorted(S) of distinct elements that the order `before` tells apart: the element in place
\* q is the one with q - 1 others before it.
Ordered(S, before(_,_)) ==
  [q \in 1..Cardinality(S) |-> CHOOSE x \in S : Cardinality({y \in S : before(y, x)}) = q - 1]

Ascending(S) == Ordered(S, <)

NoItems   == [sum |-> 0, items |-> <<>>]
Bin(l, i) == [sum |-> l[i], items |-> <<i>>]

\* Set.__lt__.  Bins of one heap share no item, so that two lists of the same
\* length differ in their first items.
Less(b, c) ==
  \/ b.sum < c.sum
  \/ b.sum = c.sum /\ Len(b.items) < Len(c.items)
  \/ /\ b.sum = c.sum /\ Len(b.items) = Len(c.items) /\ b.items # <<>>
     /\ Head(b.items) < Head(c.items)

\* sorted(bins, reverse=True), which leaves equal bins in the order they are in: a bin
\* comes after the larger ones, and after the equal ones that were before it.
Ahead(bins, i) == {j \in DOMAIN bins : \/ j < i /\ ~Less(bins[j], bins[i])
                                       \/ j > i /\ Less(bins[i], bins[j])}

Sorted(bins) ==
  LET ranked == {<<Cardinality(Ahead(bins, i)) + 1, bins[i]>> : i \in DOMAIN bins}
  IN  [q \in DOMAIN bins |-> (CHOOSE r \in ranked : r[1] = q)[2]]

Spread(state) == state[1].sum - state[Len(state)].sum

\* State.__lt__: the solution popped first.
Before(s, t) == \/ Spread(s) > Spread(t)
                \/ Spread(s) = Spread(t) /\ Less(t[1], s[1])

\* Mutant of MergeBins: the items move, their lengths are not added.
MergeBinsStale(b, c) == [sum |-> b.sum, items |-> b.items \o c.items]

MergeBins(b, c) == [sum |-> b.sum + c.sum, items |-> b.items \o c.items]

\* Mutants of Merge: the largest bins meet; the bins are not sorted again.
MergeAligned(s, t)  == Sorted([i \in 1..Len(s) |-> MergeBins(s[i], t[i])])
MergeUnsorted(s, t) == [i \in 1..Len(s) |-> MergeBins(s[i], t[Len(s) + 1 - i])]

\* State.merge: the largest bin of the one meets the smallest of the other.
Merge(s, t) == Sorted([i \in 1..Len(s) |-> MergeBins(s[i], t[Len(s) + 1 - i])])

\* One solution per item, the other k - 1 bins empty.
Singletons(l, k) ==
  {[i \in 1..k |-> IF i = 1 THEN Bin(l, j) ELSE NoItems] : j \in DOMAIN l}

\* equal_size: one solution per k consecutive items of the list sorted by length.
Rank(l, i) == Cardinality({j \in DOMAIN l : l[j] < l[i] \/ (l[j] = l[i] /\ j <= i)})

Rows(l, k) ==
  {LET row == {i \in DOMAIN l : (Rank(l, i) - 1) \div k = q}
       bins == [p \in 1..k |-> Bin(l, CHOOSE i \in row : (Rank(l, i) - 1) % k = p - 1)]
   IN  Sorted(bins)
     : q \in 0..(Len(l) \div k) - 1}

\* One round of the while loop on a heap of more than one solution: the two it pops, the heap after it.
Popped(heap, s, t) ==
  /\ s \in heap /\ \A u \in heap \ {s} : Before(s, u)
  /\ t \in heap \ {s} /\ \A u \in heap \ {s, t} : Before(t, u)

Round(heap, s, t) == (heap \ {s, t}) \cup {Merge(s, t)}

\* get_partitions, each partition sorted as _check_and_sort_partitions does: a
\* sorted list of distinct items is the set of them.
ItemsOf(bin)      == Range(bin.items)
Partitions(state) == [i \in 1..Len(state) |-> ItemsOf(state[i])]
=============================================================================
