----------------------------- MODULE BatchProofs -----------------------------
(***************************************************************************)
(* Batches of every size: the operations of DataProto that move rows, the  *)
(* balancing of karmarkar_karp and the advantages of core_algos. The       *)
(* definitions these are built on (sums, folds, sorted lists, loops) are   *)
(* recursive or a CHOOSE; the first parts prove what they are, by          *)
(* induction over the natural numbers in the form of membership in a set.  *)
(***************************************************************************)
EXTENDS DataProto, KarmarkarKarp, Advantages, FiniteSetsExt, SequencesExt,
        FiniteSetTheorems, SequenceTheorems, WellFoundedInduction, TLAPS

-----------------------------------------------------------------------------
(***************************************************************************)
(* The rows of a DataProto                                                 *)
(***************************************************************************)

\* A batch padded to a divisor can be cut into that many equal parts, and padding adds
\* fewer rows than the divisor.
THEOREM PadDivides ==
  ASSUME NEW S, NEW rows \in Seq(S), NEW d \in Nat \ {0}
  PROVE  /\ PadSize(rows, d) \in 0..d - 1
         /\ Len(PadToDivisor(rows, d)) % d = 0
<1> DEFINE n == Len(rows)
<1>1. n \in Nat
  OBVIOUS
<1>2. n % d \in 0..d - 1 /\ n = d * (n \div d) + (n % d) /\ n \div d \in Nat
  BY <1>1
<1>3. PadSize(rows, d) \in 0..d - 1
  BY <1>2 DEF PadSize
<1>4. Len(PadToDivisor(rows, d)) = n + PadSize(rows, d)
  BY <1>1, <1>3 DEF PadToDivisor
<1>5. (n + PadSize(rows, d)) % d = 0
  <2>1. CASE n % d = 0
    <3>1. n + PadSize(rows, d) = n
      BY <1>1, <2>1 DEF PadSize
    <3> QED
      BY <2>1, <3>1
  <2>2. CASE n % d # 0
    <3>1. n + PadSize(rows, d) = d * (n \div d) + d
      BY <1>2, <2>2 DEF PadSize
    <3>2. d * (n \div d) + d = d * ((n \div d) + 1)
      BY <1>2
    <3>3. \A q \in Nat : (d * q) % d = 0
      OBVIOUS
    <3> QED
      BY <1>2, <3>1, <3>2, <3>3
  <2> QED
    BY <2>1, <2>2
<1> QED
  BY <1>3, <1>4, <1>5

\* unpad_dataproto gives back the batch that pad_dataproto_to_divisor was given.
THEOREM UnpadOfPad ==
  ASSUME NEW S, NEW rows \in Seq(S), NEW d \in Nat \ {0}
  PROVE  Unpad(PadToDivisor(rows, d), PadSize(rows, d)) = rows
<1> DEFINE n == Len(rows)
           padded == PadToDivisor(rows, d)
<1>1. n \in Nat /\ PadSize(rows, d) \in Nat
  BY PadDivides
<1>2. Len(padded) = n + PadSize(rows, d)
  BY <1>1 DEF PadToDivisor
<1>3. Unpad(padded, PadSize(rows, d)) = [i \in 1..n |-> padded[i]]
  BY <1>1, <1>2 DEF Unpad
<1>4. ASSUME NEW i \in 1..n PROVE padded[i] = rows[i]
  <2>1. padded[i] = rows[((i - 1) % n) + 1]
    BY <1>1 DEF PadToDivisor
  <2>2. (i - 1) % n = i - 1
    BY <1>1
  <2> QED
    BY <2>1, <2>2, <1>1
<1>5. rows = [i \in 1..n |-> rows[i]]
  OBVIOUS
<1> QED
  BY <1>3, <1>4, <1>5

\* The parts of a batch cut by chunk are equally long, and part c holds the rows that follow
\* those of the parts before it.
THEOREM ChunkRows ==
  ASSUME NEW S, NEW rows \in Seq(S), NEW chunks \in Nat \ {0}, Len(rows) % chunks = 0,
         NEW c \in 1..chunks
  PROVE  LET size == Len(rows) \div chunks
         IN  /\ Len(Chunk(rows, chunks)[c]) = size
             /\ \A j \in 1..size : /\ (c - 1) * size + j \in 1..Len(rows)
                                   /\ Chunk(rows, chunks)[c][j] = rows[(c - 1) * size + j]
<1> DEFINE n == Len(rows)
           size == n \div chunks
           first == (c - 1) * size + 1
           last == c * size
<1>1. n \in Nat /\ size \in Nat
  OBVIOUS
<1>2. n = chunks * size
  <2>1. n = chunks * (n \div chunks) + (n % chunks)
    BY <1>1
  <2> QED
    BY <1>1, <2>1
<1>3. last = (c - 1) * size + size /\ first \in Nat /\ last \in Nat /\ 1 <= first
  BY <1>1
<1>4. last <= n
  <2>1. n = c * size + (chunks - c) * size
    BY <1>1, <1>2
  <2>2. (chunks - c) * size >= 0
    BY <1>1
  <2> QED
    BY <1>1, <1>3, <2>1, <2>2
<1>5. Chunk(rows, chunks)[c] = SubSeq(rows, first, last)
  BY DEF Chunk
<1> HIDE DEF n, size, first, last
<1>6. Len(SubSeq(rows, first, last)) = last - first + 1
  BY <1>1, <1>3, <1>4 DEF n, first, last
<1>7. \A j \in 1..(last - first + 1) : SubSeq(rows, first, last)[j] = rows[first + j - 1]
  BY <1>1, <1>3, <1>4 DEF n
<1>8. last - first + 1 = size /\ \A j \in 1..size : first + j - 1 = (c - 1) * size + j
  BY <1>1, <1>3 DEF first, last
<1>9. \A j \in 1..size : (c - 1) * size + j \in 1..n
  BY <1>1, <1>3, <1>4, <1>8
<1> QED
  BY <1>5, <1>6, <1>7, <1>8, <1>9, ZenonT(60) DEF n, size

\* The mini-batches cut by split hold every row, at the place its number gives, and only the
\* last one may be smaller than asked for; none is empty.
THEOREM SplitRows ==
  ASSUME NEW S, NEW rows \in Seq(S), NEW size \in Nat \ {0}
  PROVE  LET parts == Split(rows, size)
         IN  /\ \A k \in 1..Len(parts) : /\ Len(parts[k]) \in 1..size
                                         /\ k < Len(parts) => Len(parts[k]) = size
             /\ \A i \in 1..Len(rows) :
                  /\ (i - 1) \div size + 1 \in 1..Len(parts)
                  /\ ((i - 1) % size) + 1 \in 1..Len(parts[(i - 1) \div size + 1])
                  /\ parts[(i - 1) \div size + 1][((i - 1) % size) + 1] = rows[i]
<1> DEFINE n == Len(rows)
           count == (n + size - 1) \div size
           rest == (n + size - 1) % size
           first(k) == (k - 1) * size + 1
           last(k) == IF k * size < n THEN k * size ELSE n
           parts == Split(rows, size)
<1>1. n \in Nat /\ size \in Nat /\ 1 <= size
  OBVIOUS
<1>2. /\ count \in Nat /\ rest \in 0..size - 1
      /\ n + size - 1 = size * count + rest
  BY <1>1
<1>3. parts = [k \in 1..count |-> SubSeq(rows, first(k), last(k))]
  BY DEF Split
<1>4. Len(parts) = count
  BY <1>2, <1>3
<1> HIDE DEF n, count, rest, parts
<1>5. ASSUME NEW k \in Nat, NEW l \in Nat, k <= l
      PROVE  k * size \in Nat /\ l * size \in Nat /\ k * size <= l * size
  <2>1. l * size = k * size + (l - k) * size
    BY <1>1
  <2>2. (l - k) * size >= 0 /\ k * size \in Nat /\ l * size \in Nat
    BY <1>1, <1>5
  <2> QED
    BY <2>1, <2>2
<1>6. n > (count - 1) * size /\ n <= count * size
  <2>1. size * count = count * size /\ count * size = (count - 1) * size + size
    BY <1>1, <1>2
  <2>2. count * size \in Nat /\ (count - 1) * size \in Int
    BY <1>1, <1>2
  <2> QED
    BY <1>1, <1>2, <2>1, <2>2
<1>7. ASSUME NEW k \in 1..count
      PROVE  /\ first(k) \in Nat /\ last(k) \in Nat /\ 1 <= first(k) /\ last(k) <= n
             /\ last(k) - first(k) + 1 \in 1..size
             /\ k < count => last(k) - first(k) + 1 = size
             /\ Len(parts[k]) = last(k) - first(k) + 1
             /\ \A j \in 1..last(k) - first(k) + 1 : parts[k][j] = rows[first(k) + j - 1]
  <2>1. k * size = (k - 1) * size + size /\ k * size \in Nat /\ (k - 1) * size \in Nat
    BY <1>1, <1>2, <1>5
  <2>2. (k - 1) * size <= (count - 1) * size /\ (count - 1) * size \in Nat
    BY <1>2, <1>5
  <2>3. k < count => k * size < n
    <3>1. k < count => k * size <= (count - 1) * size
      BY <1>2, <1>5
    <3> QED
      BY <1>1, <1>6, <2>1, <2>2, <3>1
  <2>4. /\ first(k) \in Nat /\ last(k) \in Nat /\ 1 <= first(k) /\ last(k) <= n
        /\ last(k) - first(k) + 1 \in 1..size
        /\ k < count => last(k) - first(k) + 1 = size
    BY <1>1, <1>6, <2>1, <2>2, <2>3
  <2>5. parts[k] = SubSeq(rows, first(k), last(k))
    BY <1>3
  <2> HIDE DEF first, last
  <2>6. /\ Len(SubSeq(rows, first(k), last(k))) = last(k) - first(k) + 1
        /\ \A j \in 1..last(k) - first(k) + 1 :
             SubSeq(rows, first(k), last(k))[j] = rows[first(k) + j - 1]
    BY <1>1, <2>4 DEF n
  <2> QED
    BY <2>4, <2>5, <2>6
<1>8. ASSUME NEW i \in 1..n
      PROVE  LET q == (i - 1) \div size
                 r == (i - 1) % size
             IN  /\ q + 1 \in 1..count
                 /\ r + 1 \in 1..Len(parts[q + 1])
                 /\ parts[q + 1][r + 1] = rows[i]
  <2> DEFINE q == (i - 1) \div size
             r == (i - 1) % size
  <2>1. q \in Nat /\ r \in 0..size - 1 /\ i - 1 = size * q + r
    BY <1>1
  <2> HIDE DEF q, r
  <2>2. size * q = q * size /\ q * size \in Nat /\ (q + 1) * size = q * size + size
    BY <1>1, <2>1
  <2>3. q + 1 \in 1..count
    <3>1. q >= count => count * size <= q * size
      BY <1>2, <1>5, <2>1
    <3>2. count * size \in Nat
      BY <1>1, <1>2
    <3> QED
      BY <1>1, <1>2, <1>6, <2>1, <2>2, <3>1, <3>2
  <2>4. first(q + 1) = q * size + 1 /\ last(q + 1) >= i /\ last(q + 1) \in Nat
    BY <1>1, <2>1, <2>2
  <2>5. r + 1 \in 1..last(q + 1) - first(q + 1) + 1 /\ first(q + 1) + (r + 1) - 1 = i
    BY <1>1, <2>1, <2>2, <2>4
  <2>6. /\ Len(parts[q + 1]) = last(q + 1) - first(q + 1) + 1
        /\ \A j \in 1..last(q + 1) - first(q + 1) + 1 :
             parts[q + 1][j] = rows[first(q + 1) + j - 1]
    BY <1>7, <2>3
  <2> QED
    BY <2>3, <2>5, <2>6 DEF q, r
<1> QED
  BY <1>4, <1>7, <1>8 DEF n, parts

-----------------------------------------------------------------------------
(***************************************************************************)
(* Induction, extremes and orders                                          *)
(***************************************************************************)

\* A set of natural numbers has a least one.
LEMMA Least ==
  ASSUME NEW T \in SUBSET Nat, T # {}
  PROVE  \E x \in T : \A y \in T : x <= y
<1>1. PICK x \in T : \A y \in T : ~(<<y, x>> \in OpToRel(<, Nat))
  <2>1. T \subseteq Nat
    OBVIOUS
  <2> QED BY <2>1, NatLessThanWellFounded, WFMin
<1>2. \A y \in T : ~(y < x)
  BY <1>1 DEF OpToRel
<1> QED BY <1>2

\* Induction over the natural numbers, for membership in a set.
LEMMA Inductive ==
  ASSUME NEW T, 0 \in T, \A n \in Nat : n \in T => n + 1 \in T
  PROVE  \A n \in Nat : n \in T
<1> SUFFICES ASSUME NEW m \in Nat, m \notin T PROVE FALSE
  OBVIOUS
<1>1. PICK x \in Nat \ T : \A y \in Nat \ T : x <= y
  <2>1. Nat \ T \in SUBSET Nat /\ Nat \ T # {}
    OBVIOUS
  <2> QED BY <2>1, Least
<1>2. x # 0 /\ x - 1 \in Nat /\ ~(x <= x - 1) /\ (x - 1) + 1 = x
  OBVIOUS
<1>3. x - 1 \in T
  BY <1>1, <1>2
<1> QED BY <1>2, <1>3

\* Induction over finite sets: what holds of the empty set, and of a set with one more
\* element, holds of every finite subset of S.
LEMMA FiniteInduction ==
  ASSUME NEW S, NEW T, {} \in T,
         \A s \in SUBSET S, x \in S : IsFiniteSet(s) /\ s \in T /\ x \notin s => s \cup {x} \in T
  PROVE  \A s \in SUBSET S : IsFiniteSet(s) => s \in T
<1> DEFINE N == {n \in Nat : \A s \in SUBSET S : IsFiniteSet(s) /\ Cardinality(s) = n => s \in T}
<1>1. 0 \in N
  BY FS_EmptySet
<1>2. ASSUME NEW n \in Nat, n \in N PROVE n + 1 \in N
  <2> SUFFICES ASSUME NEW s \in SUBSET S, IsFiniteSet(s), Cardinality(s) = n + 1
               PROVE  s \in T
    OBVIOUS
  <2>1. s # {}
    BY FS_EmptySet
  <2>2. PICK x \in s : TRUE
    BY <2>1
  <2> HIDE DEF N
  <2>3. IsFiniteSet(s \ {x}) /\ Cardinality(s \ {x}) = n
    <3>1. IsFiniteSet(s \ {x}) /\ Cardinality(s \ {x}) = Cardinality(s) - 1
      BY <2>2, FS_RemoveElement
    <3> QED BY <3>1
  <2>4. s \ {x} \in T
    BY <1>2, <2>3 DEF N
  <2>5. (s \ {x}) \cup {x} = s
    BY <2>2
  <2> QED BY <2>2, <2>3, <2>4, <2>5
<1> HIDE DEF N
<1>3. \A n \in Nat : n \in N
  BY <1>1, <1>2, Inductive
<1> QED BY <1>3, FS_CardinalityType DEF N

\* A finite set of natural numbers has a largest one.
LEMMA Largest ==
  ASSUME NEW S \in SUBSET Nat, IsFiniteSet(S), S # {}
  PROVE  Max(S) \in S /\ \A y \in S : y <= Max(S)
<1> DEFINE T == {s \in SUBSET Nat : s # {} => \E x \in s : \A y \in s : x >= y}
<1>1. {} \in T
  OBVIOUS
<1>2. ASSUME NEW s \in SUBSET Nat, NEW x \in Nat, s \in T PROVE s \cup {x} \in T
  <2>1. CASE s = {}
    BY <2>1
  <2>2. CASE s # {}
    <3>1. PICK m \in s : \A y \in s : m >= y
      BY <1>2, <2>2
    <3>2. CASE x <= m
      BY <3>1, <3>2
    <3>3. CASE x >= m
      BY <3>1, <3>3
    <3> QED BY <3>2, <3>3
  <2> QED BY <2>1, <2>2
<1> HIDE DEF T
<1>3. S \in T
  BY <1>1, <1>2, FiniteInduction
<1>4. \E x \in S : \A y \in S : x >= y
  BY <1>3 DEF T
<1>5. Max(S) \in S /\ \A y \in S : Max(S) >= y
  BY <1>4 DEF Max
<1> QED BY <1>5

\* And a least one.
LEMMA Smallest ==
  ASSUME NEW S \in SUBSET Nat, S # {}
  PROVE  Min(S) \in S /\ \A y \in S : Min(S) <= y
<1>1. \E x \in S : \A y \in S : x <= y
  BY Least
<1> QED BY <1>1 DEF Min

\* The least of two numbers.
LEMMA MinPair ==
  ASSUME NEW a \in Nat, NEW b \in Nat
  PROVE  Min({a, b}) = IF a <= b THEN a ELSE b
<1>1. Min({a, b}) \in {a, b} /\ \A y \in {a, b} : Min({a, b}) <= y
  BY Smallest
<1> QED BY <1>1

\* The elements of S in an order given by the set of those before each.
InOrder(S, before) ==
  [q \in 1..Cardinality(S) |-> CHOOSE x \in S : Cardinality(before[x]) = q - 1]

\* A strict order of a finite set, each element with those before it, numbers its elements:
\* the number of elements before one is its place.
LEMMA Places ==
  ASSUME NEW S, IsFiniteSet(S), NEW before \in [S -> SUBSET S],
         \A x \in S : x \notin before[x],
         \A x, y \in S : y \in before[x] => before[y] \subseteq before[x],
         \A x, y \in S : x # y => x \in before[y] \/ y \in before[x]
  PROVE  /\ Cardinality(S) \in Nat
         /\ InOrder(S, before) \in [1..Cardinality(S) -> S]
         /\ \A x \in S : \E q \in 1..Cardinality(S) : InOrder(S, before)[q] = x
         /\ \A q, r \in 1..Cardinality(S) :
              q < r => InOrder(S, before)[q] \in before[InOrder(S, before)[r]]
<1> DEFINE n == Cardinality(S)
           place == [x \in S |-> Cardinality(before[x]) + 1]
           p == [q \in 1..n |-> CHOOSE x \in S : Cardinality(before[x]) = q - 1]
<1>1. n \in Nat /\ IsFiniteSet(1..n) /\ Cardinality(1..n) = n
  BY FS_CardinalityType, FS_Interval
<1>2. ASSUME NEW x \in S
      PROVE  /\ before[x] \in SUBSET S /\ IsFiniteSet(before[x])
             /\ Cardinality(before[x]) \in Nat /\ Cardinality(before[x]) < n
  <2>1. before[x] \in SUBSET S /\ before[x] # S
    OBVIOUS
  <2>2. /\ IsFiniteSet(before[x]) /\ Cardinality(before[x]) <= n
        /\ n = Cardinality(before[x]) => S = before[x]
    BY <2>1, FS_Subset
  <2>3. Cardinality(before[x]) \in Nat
    BY <2>2, FS_CardinalityType
  <2> HIDE DEF n
  <2> QED BY <1>1, <2>1, <2>2, <2>3
<1>3. ASSUME NEW x \in S, NEW y \in S, x \in before[y] PROVE place[x] < place[y]
  <2>1. before[x] \in SUBSET before[y] /\ before[x] # before[y]
    BY <1>3
  <2>2. /\ Cardinality(before[x]) <= Cardinality(before[y])
        /\ Cardinality(before[y]) = Cardinality(before[x]) => before[y] = before[x]
    BY <1>2, <2>1, FS_Subset
  <2>3. Cardinality(before[x]) \in Nat /\ Cardinality(before[y]) \in Nat
    BY <1>2
  <2> QED BY <2>1, <2>2, <2>3
<1>4. place \in [S -> 1..n] /\ \A x \in S : place[x] = Cardinality(before[x]) + 1
  <2> HIDE DEF n
  <2> QED BY <1>1, <1>2
<1> HIDE DEF place
<1>5. \A x, y \in S : x # y => place[x] # place[y]
  <2> SUFFICES ASSUME NEW x \in S, NEW y \in S, x # y PROVE place[x] # place[y]
    OBVIOUS
  <2>1. place[x] < place[y] \/ place[y] < place[x]
    BY <1>3
  <2>2. place[x] \in Nat /\ place[y] \in Nat
    BY <1>1, <1>4
  <2> QED BY <2>1, <2>2
<1>6. place \in Injection(S, 1..n)
  BY <1>4, <1>5 DEF Injection, IsInjective
<1>7. place \in Surjection(S, 1..n)
  BY <1>1, <1>6, FS_Injection
<1>8. ASSUME NEW q \in 1..n PROVE p[q] \in S /\ place[p[q]] = q
  <2>1. \E x \in S : place[x] = q
    BY <1>7 DEF Surjection
  <2>2. \E x \in S : Cardinality(before[x]) = q - 1
    BY <1>2, <1>4, <2>1
  <2>3. p[q] = CHOOSE x \in S : Cardinality(before[x]) = q - 1
    OBVIOUS
  <2> HIDE DEF p
  <2>4. p[q] \in S /\ Cardinality(before[p[q]]) = q - 1
    BY <2>2, <2>3
  <2> QED BY <1>2, <1>4, <2>4
<1>9. p \in [1..n -> S]
  BY <1>8
<1> HIDE DEF p
<1>10. ASSUME NEW x \in S PROVE \E q \in 1..n : p[q] = x
  <2>1. place[x] \in 1..n
    BY <1>4
  <2>2. p[place[x]] \in S /\ place[p[place[x]]] = place[x]
    BY <1>8, <2>1
  <2>3. p[place[x]] = x
    BY <1>5, <2>2
  <2> QED BY <2>1, <2>3
<1>11. ASSUME NEW q \in 1..n, NEW r \in 1..n, q < r PROVE p[q] \in before[p[r]]
  <2>1. p[q] \in S /\ p[r] \in S /\ place[p[q]] = q /\ place[p[r]] = r
    BY <1>8
  <2>2. p[q] # p[r]
    BY <1>1, <1>11, <2>1
  <2>3. ~(place[p[r]] < place[p[q]])
    BY <1>1, <1>11, <2>1
  <2> QED BY <1>3, <2>1, <2>2, <2>3
<1>12. p = InOrder(S, before)
  BY DEF p, InOrder
<1> QED BY <1>1, <1>9, <1>10, <1>11, <1>12

-----------------------------------------------------------------------------
(***************************************************************************)
(* Sums over finite sets                                                   *)
(***************************************************************************)

\* Sums over finite sets.  What SumFunctionOnSet unfolds to is a function by recursion on the
\* subsets of a set: it exists, and what it is for a set does not depend on the set it is
\* defined within.
Some(s) == CHOOSE x \in s : TRUE

Summing(f, S, g) ==
  g = [s \in SUBSET S |-> IF s = {} THEN 0 ELSE f[Some(s)] + g[s \ {Some(s)}]]

\* Taking the chosen element of a finite set leaves one less.
LEMMA SomeElement ==
  ASSUME NEW s, s # {}, IsFiniteSet(s)
  PROVE  /\ Some(s) \in s /\ IsFiniteSet(s \ {Some(s)})
         /\ Cardinality(s) \in Nat /\ Cardinality(s \ {Some(s)}) = Cardinality(s) - 1
<1>1. Some(s) \in s
  BY DEF Some
<1> QED BY <1>1, FS_RemoveElement, FS_CardinalityType

\* The recursion has a solution.
LEMMA SummingExists ==
  ASSUME NEW f, NEW S, IsFiniteSet(S)
  PROVE  \E g : Summing(f, S, g)
<1> DEFINE D(n) == {s \in SUBSET S : Cardinality(s) < n}
           P(n, g) == g = [s \in D(n) |-> IF s = {} THEN 0 ELSE f[Some(s)] + g[s \ {Some(s)}]]
           N == {n \in Nat : \E g : P(n, g)}
<1>1. \A s \in SUBSET S : IsFiniteSet(s) /\ Cardinality(s) \in Nat
                           /\ Cardinality(s) <= Cardinality(S)
  BY FS_Subset, FS_CardinalityType
<1>2. 0 \in N
  <2> DEFINE g == [s \in {} |-> 0]
  <2>1. D(0) = {}
    BY <1>1
  <2>2. P(0, g)
    BY <2>1
  <2> QED BY <2>2
<1>3. ASSUME NEW n \in Nat, n \in N PROVE n + 1 \in N
  <2>1. PICK g : P(n, g)
    BY <1>3
  <2> DEFINE h == [s \in D(n + 1) |-> IF s = {} THEN 0 ELSE f[Some(s)] + g[s \ {Some(s)}]]
  <2>2. ASSUME NEW s \in D(n + 1), s # {} PROVE s \ {Some(s)} \in D(n)
    <3>1. Cardinality(s \ {Some(s)}) = Cardinality(s) - 1 /\ Cardinality(s) \in Nat
      BY <1>1, <2>2, SomeElement
    <3> QED BY <3>1
  <2>3. ASSUME NEW s \in D(n) PROVE s \in D(n + 1)
    BY <1>1
  <2> DEFINE A == D(n)
             B == D(n + 1)
  <2>4. g = [s \in A |-> IF s = {} THEN 0 ELSE f[Some(s)] + g[s \ {Some(s)}]]
    BY <2>1
  <2>5. h = [s \in B |-> IF s = {} THEN 0 ELSE f[Some(s)] + g[s \ {Some(s)}]]
    OBVIOUS
  <2>6. /\ \A s \in A : s \in B
        /\ \A s \in B : s # {} => s \ {Some(s)} \in A
    BY <2>2, <2>3
  <2> HIDE DEF A, B, h
  <2>7. \A s \in A : h[s] = g[s]
    BY <2>4, <2>5, <2>6
  <2>8. h = [s \in B |-> IF s = {} THEN 0 ELSE f[Some(s)] + h[s \ {Some(s)}]]
    BY <2>5, <2>6, <2>7
  <2>9. P(n + 1, h)
    BY <2>8, Zenon DEF B
  <2> HIDE DEF P
  <2> QED BY <2>9
<1> DEFINE m == Cardinality(S) + 1
<1>4. m \in Nat
  BY FS_CardinalityType
<1> HIDE DEF N
<1>5. m \in N
  BY <1>2, <1>3, <1>4, Inductive
<1>6. PICK g : P(m, g)
  BY <1>5 DEF N
<1>7. D(m) = SUBSET S
  <2>1. Cardinality(S) \in Nat
    BY FS_CardinalityType
  <2> QED BY <1>1, <2>1
<1> HIDE DEF D
<1>8. Summing(f, S, g)
  BY <1>6, <1>7 DEF Summing
<1> QED BY <1>8

\* On the sets two solutions share they agree.
LEMMA SummingUnique ==
  ASSUME NEW f, NEW S, NEW T, NEW g, NEW h, Summing(f, S, g), Summing(f, T, h)
  PROVE  \A s \in SUBSET (S \cap T) : IsFiniteSet(s) => g[s] = h[s]
<1> SUFFICES ASSUME NEW r \in SUBSET (S \cap T), IsFiniteSet(r), g[r] # h[r] PROVE FALSE
  OBVIOUS
<1> DEFINE Bad == {s \in SUBSET (S \cap T) : IsFiniteSet(s) /\ g[s] # h[s]}
           C == {Cardinality(s) : s \in Bad}
<1>1. C \in SUBSET Nat /\ C # {}
  BY FS_CardinalityType
<1>2. PICK s \in Bad : \A t \in Bad : Cardinality(s) <= Cardinality(t)
  <2>1. PICK x \in C : \A y \in C : x <= y
    BY <1>1, Least
  <2> QED BY <2>1
<1>3. /\ g[s] = IF s = {} THEN 0 ELSE f[Some(s)] + g[s \ {Some(s)}]
      /\ h[s] = IF s = {} THEN 0 ELSE f[Some(s)] + h[s \ {Some(s)}]
  BY DEF Summing
<1>4. s # {}
  BY <1>3
<1> DEFINE t == s \ {Some(s)}
<1>5. IsFiniteSet(t) /\ Cardinality(t) = Cardinality(s) - 1 /\ Cardinality(s) \in Nat
  BY <1>4, SomeElement
<1>6. ~(Cardinality(s) <= Cardinality(t))
  BY <1>5
<1>7. t \notin Bad
  BY <1>2, <1>6
<1>8. g[t] = h[t]
  BY <1>5, <1>7
<1> QED BY <1>3, <1>4, <1>8

\* So a sum is what any solution says it is.
LEMMA SumIs ==
  ASSUME NEW f, NEW S, IsFiniteSet(S)
  PROVE  \E g : Summing(f, S, g) /\ SumFunctionOnSet(f, S) = g[S]
<1> DEFINE iter == CHOOSE g : Summing(f, S, g)
<1>1. Summing(f, S, iter)
  BY SummingExists
<1>2. SumFunctionOnSet(f, S) = iter[S]
  BY Zenon DEF SumFunctionOnSet, FoldFunctionOnSet, MapThenFoldSet, Summing, Some
<1> QED BY <1>1, <1>2

\* The sum of a set is the chosen element's value and the sum of the rest.
LEMMA SumOne ==
  ASSUME NEW f, NEW S, IsFiniteSet(S)
  PROVE  SumFunctionOnSet(f, S)
           = IF S = {} THEN 0 ELSE f[Some(S)] + SumFunctionOnSet(f, S \ {Some(S)})
<1>1. PICK g : Summing(f, S, g) /\ SumFunctionOnSet(f, S) = g[S]
  BY SumIs
<1>2. g[S] = IF S = {} THEN 0 ELSE f[Some(S)] + g[S \ {Some(S)}]
  BY <1>1 DEF Summing
<1>3. CASE S = {}
  BY <1>1, <1>2, <1>3
<1>4. CASE S # {}
  <2> DEFINE T == S \ {Some(S)}
  <2>1. IsFiniteSet(T)
    BY <1>4, SomeElement
  <2>2. PICK h : Summing(f, T, h) /\ SumFunctionOnSet(f, T) = h[T]
    BY <2>1, SumIs
  <2>3. T \in SUBSET (S \cap T)
    OBVIOUS
  <2>4. g[T] = h[T]
    BY <1>1, <2>1, <2>2, <2>3, SummingUnique
  <2> QED BY <1>1, <1>2, <1>4, <2>2, <2>4
<1> QED BY <1>3, <1>4

\* A sum is where its terms are, if sums of two are.
LEMMA SumClosed ==
  ASSUME NEW V, 0 \in V, \A a, b \in V : a + b \in V,
         NEW f, NEW S, IsFiniteSet(S), \A i \in S : f[i] \in V
  PROVE  SumFunctionOnSet(f, S) \in V
<1> DEFINE N == {n \in Nat : \A s \in SUBSET S : IsFiniteSet(s) /\ Cardinality(s) = n
                               => SumFunctionOnSet(f, s) \in V}
<1>1. ASSUME NEW s \in SUBSET S, IsFiniteSet(s), Cardinality(s) = 0
      PROVE  SumFunctionOnSet(f, s) \in V
  <2>1. s = {}
    BY <1>1, FS_EmptySet
  <2>2. SumFunctionOnSet(f, s) = 0
    BY <1>1, <2>1, SumOne
  <2> QED BY <2>2
<1>2. ASSUME NEW n \in Nat, n \in N, NEW s \in SUBSET S, IsFiniteSet(s), Cardinality(s) = n + 1
      PROVE  SumFunctionOnSet(f, s) \in V
  <2>1. s # {}
    BY <1>2, FS_EmptySet
  <2>2. /\ Some(s) \in s /\ IsFiniteSet(s \ {Some(s)})
        /\ Cardinality(s \ {Some(s)}) = Cardinality(s) - 1
    BY <1>2, <2>1, SomeElement
  <2>3. Cardinality(s \ {Some(s)}) = n
    BY <1>2, <2>2
  <2>4. SumFunctionOnSet(f, s \ {Some(s)}) \in V
    BY <1>2, <2>2, <2>3
  <2>5. SumFunctionOnSet(f, s) = f[Some(s)] + SumFunctionOnSet(f, s \ {Some(s)})
    BY <1>2, <2>1, SumOne, Zenon
  <2> QED BY <2>2, <2>4, <2>5
<1>3. 0 \in N /\ \A n \in Nat : n \in N => n + 1 \in N
  BY <1>1, <1>2
<1> HIDE DEF N
<1>4. \A n \in Nat : n \in N
  BY <1>3, Inductive
<1> QED BY <1>4, FS_CardinalityType DEF N

\* A sum of natural numbers is one.
LEMMA SumType ==
  ASSUME NEW f, NEW S, IsFiniteSet(S), \A i \in S : f[i] \in Nat
  PROVE  SumFunctionOnSet(f, S) \in Nat
<1>1. 0 \in Nat /\ \A a, b \in Nat : a + b \in Nat
  OBVIOUS
<1> QED BY <1>1, SumClosed

\* A sum of integers is one.
LEMMA SumInt ==
  ASSUME NEW f, NEW S, IsFiniteSet(S), \A i \in S : f[i] \in Int
  PROVE  SumFunctionOnSet(f, S) \in Int
<1>1. 0 \in Int /\ \A a, b \in Int : a + b \in Int
  OBVIOUS
<1> QED BY <1>1, SumClosed

\* It does not matter which element is taken out first.
LEMMA SumAny ==
  ASSUME NEW f, NEW S, IsFiniteSet(S), \A i \in S : f[i] \in Int, NEW x \in S
  PROVE  SumFunctionOnSet(f, S) = f[x] + SumFunctionOnSet(f, S \ {x})
<1> DEFINE Q(s) == \A y \in s : SumFunctionOnSet(f, s) = f[y] + SumFunctionOnSet(f, s \ {y})
           N == {n \in Nat : \A s \in SUBSET S : IsFiniteSet(s) /\ Cardinality(s) = n => Q(s)}
<1>1. 0 \in N
  <2> SUFFICES ASSUME NEW s \in SUBSET S, IsFiniteSet(s), Cardinality(s) = 0 PROVE Q(s)
    OBVIOUS
  <2>1. s = {}
    BY FS_EmptySet
  <2> QED BY <2>1
<1>2. ASSUME NEW n \in Nat, n \in N, NEW s \in SUBSET S, IsFiniteSet(s), Cardinality(s) = n + 1,
             NEW y \in s
      PROVE  SumFunctionOnSet(f, s) = f[y] + SumFunctionOnSet(f, s \ {y})
  <2> DEFINE x1 == Some(s)
             r == (s \ {x1}) \ {y}
  <2>1. s # {}
    OBVIOUS
  <2>2. x1 \in s /\ SumFunctionOnSet(f, s) = f[x1] + SumFunctionOnSet(f, s \ {x1})
    BY <1>2, <2>1, SumOne, SomeElement, Zenon
  <2> HIDE DEF x1
  <2>3. CASE x1 = y
    BY <2>2, <2>3
  <2>4. CASE x1 # y
    <3>1. ASSUME NEW z \in s
          PROVE  IsFiniteSet(s \ {z}) /\ Cardinality(s \ {z}) = n /\ s \ {z} \in SUBSET S
      <4>1. IsFiniteSet(s \ {z}) /\ Cardinality(s \ {z}) = Cardinality(s) - 1
        BY <1>2, FS_RemoveElement
      <4> HIDE DEF N
      <4> QED BY <1>2, <4>1
    <3>2. Q(s \ {x1}) /\ Q(s \ {y})
      BY <1>2, <2>2, <3>1
    <3>3. (s \ {y}) \ {x1} = r /\ y \in s \ {x1} /\ x1 \in s \ {y}
      BY <2>2, <2>4
    <3>4. /\ SumFunctionOnSet(f, s \ {x1}) = f[y] + SumFunctionOnSet(f, r)
          /\ SumFunctionOnSet(f, s \ {y}) = f[x1] + SumFunctionOnSet(f, r)
      BY <3>2, <3>3
    <3>5. IsFiniteSet(r) /\ r \in SUBSET S
      BY <3>1, <2>2, FS_RemoveElement
    <3> HIDE DEF r
    <3>6. SumFunctionOnSet(f, r) \in Int /\ f[x1] \in Int /\ f[y] \in Int
      BY <2>2, <3>5, SumInt
    <3> QED BY <2>2, <3>4, <3>6
  <2> QED BY <2>3, <2>4
<1>3. ASSUME NEW n \in Nat, n \in N PROVE n + 1 \in N
  <2>1. ASSUME NEW s \in SUBSET S, IsFiniteSet(s), Cardinality(s) = n + 1 PROVE Q(s)
    BY <1>2, <1>3, <2>1
  <2> HIDE DEF Q
  <2> QED BY <2>1
<1> HIDE DEF N
<1>4. \A n \in Nat : n \in N
  BY <1>1, <1>3, Inductive
<1>5. Q(S)
  BY <1>4, FS_CardinalityType DEF N
<1> QED BY <1>5

\* The sum over no element is zero.
LEMMA SumEmpty == ASSUME NEW f PROVE SumFunctionOnSet(f, {}) = 0
BY SumOne, FS_EmptySet

\* The sum over one element is its value.
LEMMA SumSingleton ==
  ASSUME NEW f, NEW x, f[x] \in Int
  PROVE  SumFunctionOnSet(f, {x}) = f[x]
<1>1. IsFiniteSet({x}) /\ {x} \ {x} = {}
  BY FS_Singleton
<1>2. SumFunctionOnSet(f, {x}) = f[x] + SumFunctionOnSet(f, {x} \ {x})
  BY <1>1, SumAny
<1> QED BY <1>1, <1>2, SumEmpty

\* The sum over two sets that share nothing.
LEMMA SumUnion ==
  ASSUME NEW f, NEW S, NEW T, IsFiniteSet(S), IsFiniteSet(T), S \cap T = {},
         \A i \in S \cup T : f[i] \in Int
  PROVE  SumFunctionOnSet(f, S \cup T) = SumFunctionOnSet(f, S) + SumFunctionOnSet(f, T)
<1> DEFINE F == {s \in SUBSET S : IsFiniteSet(s) => SumFunctionOnSet(f, s \cup T)
                                    = SumFunctionOnSet(f, s) + SumFunctionOnSet(f, T)}
<1>1. SumFunctionOnSet(f, T) \in Int
  BY SumInt
<1>2. {} \in F
  <2>1. {} \cup T = T
    OBVIOUS
  <2> QED BY <1>1, <2>1, SumEmpty
<1>3. ASSUME NEW s \in SUBSET S, NEW x \in S, IsFiniteSet(s), s \in F, x \notin s
      PROVE  s \cup {x} \in F
  <2> DEFINE a == s \cup {x}
             b == a \cup T
  <2>1. IsFiniteSet(a) /\ IsFiniteSet(b) /\ IsFiniteSet(s \cup T)
    BY <1>3, FS_AddElement, FS_Union
  <2>2. x \in a /\ x \in b /\ a \ {x} = s /\ b \ {x} = s \cup T
    BY <1>3
  <2>3. /\ \A i \in a : f[i] \in Int
        /\ \A i \in b : f[i] \in Int
        /\ \A i \in s : f[i] \in Int
    OBVIOUS
  <2>4. SumFunctionOnSet(f, s \cup T) = SumFunctionOnSet(f, s) + SumFunctionOnSet(f, T)
    BY <1>3
  <2> HIDE DEF a, b
  <2>5. SumFunctionOnSet(f, a) = f[x] + SumFunctionOnSet(f, s)
    <3>1. SumFunctionOnSet(f, a) = f[x] + SumFunctionOnSet(f, a \ {x})
      BY <2>1, <2>2, <2>3, SumAny
    <3> QED BY <2>2, <3>1
  <2>6. SumFunctionOnSet(f, b) = f[x] + SumFunctionOnSet(f, s \cup T)
    <3>1. SumFunctionOnSet(f, b) = f[x] + SumFunctionOnSet(f, b \ {x})
      BY <2>1, <2>2, <2>3, SumAny
    <3> QED BY <2>2, <3>1
  <2>7. f[x] \in Int /\ SumFunctionOnSet(f, s) \in Int
    BY <1>3, <2>3, SumInt
  <2>8. SumFunctionOnSet(f, b) = SumFunctionOnSet(f, a) + SumFunctionOnSet(f, T)
    BY <1>1, <2>4, <2>5, <2>6, <2>7
  <2>9. a \in SUBSET S
    BY <1>3 DEF a
  <2> QED BY <2>8, <2>9 DEF a, b
<1> HIDE DEF F
<1>4. S \in F
  BY <1>2, <1>3, FiniteInduction
<1> QED BY <1>4 DEF F

\* Positive terms have a positive sum.
LEMMA SumPositive ==
  ASSUME NEW f, NEW S, IsFiniteSet(S), \A i \in S : f[i] \in Nat \ {0}
  PROVE  S # {} => SumFunctionOnSet(f, S) > 0
<1> SUFFICES ASSUME S # {} PROVE SumFunctionOnSet(f, S) > 0
  OBVIOUS
<1>1. PICK x \in S : TRUE
  OBVIOUS
<1>2. SumFunctionOnSet(f, S) = f[x] + SumFunctionOnSet(f, S \ {x})
  BY <1>1, SumAny
<1>3. IsFiniteSet(S \ {x})
  BY FS_RemoveElement
<1>4. SumFunctionOnSet(f, S \ {x}) \in Nat
  BY <1>3, SumType
<1> QED BY <1>1, <1>2, <1>4

-----------------------------------------------------------------------------
(***************************************************************************)
(* Lists made of lists                                                     *)
(***************************************************************************)

\* FlattenSeq appends one part after the other.
Flattening(s, n, g) == g = [i \in 1..n |-> IF i = 1 THEN s[i] ELSE g[i - 1] \o s[i]]

\* The recursion over the parts has a solution.
LEMMA FlatteningExists ==
  ASSUME NEW s, NEW n \in Nat
  PROVE  \E g : Flattening(s, n, g)
<1> DEFINE N == {m \in Nat : \E g : Flattening(s, m, g)}
<1>1. 0 \in N
  <2> DEFINE g == [i \in 1..0 |-> s[i]]
  <2>1. 1..0 = {}
    OBVIOUS
  <2>2. Flattening(s, 0, g)
    BY <2>1 DEF Flattening
  <2> QED BY <2>2
<1>2. ASSUME NEW m \in Nat, m \in N PROVE m + 1 \in N
  <2>1. PICK g : Flattening(s, m, g)
    BY <1>2
  <2> DEFINE h == [i \in 1..m + 1 |-> IF i = 1 THEN s[i] ELSE g[i - 1] \o s[i]]
  <2>2. g = [i \in 1..m |-> IF i = 1 THEN s[i] ELSE g[i - 1] \o s[i]]
    BY <2>1 DEF Flattening
  <2>3. \A i \in 1..m : i \in 1..m + 1
    OBVIOUS
  <2>4. \A i \in 1..m : h[i] = g[i]
    BY <2>2, <2>3
  <2>5. \A i \in 1..m + 1 : i # 1 => i - 1 \in 1..m
    OBVIOUS
  <2>6. h = [i \in 1..m + 1 |-> IF i = 1 THEN s[i] ELSE h[i - 1] \o s[i]]
    BY <2>4, <2>5
  <2> HIDE DEF h
  <2>7. Flattening(s, m + 1, h)
    BY <2>6 DEF Flattening
  <2> QED BY <2>7
<1> HIDE DEF N
<1>3. n \in N
  BY <1>1, <1>2, Inductive
<1> QED BY <1>3 DEF N

\* FlattenSeq is its last value.
LEMMA FlattenIs ==
  ASSUME NEW s, Len(s) \in Nat \ {0}
  PROVE  \E g : Flattening(s, Len(s), g) /\ FlattenSeq(s) = g[Len(s)]
<1> DEFINE flatten == CHOOSE g : Flattening(s, Len(s), g)
<1>1. Flattening(s, Len(s), flatten)
  BY FlatteningExists
<1>2. FlattenSeq(s) = flatten[Len(s)]
  BY Zenon DEF FlattenSeq, Flattening
<1> QED BY <1>1, <1>2

\* No parts flatten to the empty list.
LEMMA FlattenNone == FlattenSeq(<<>>) = <<>>
BY DEF FlattenSeq

\* Flattening one part more appends it.
LEMMA FlattenMore ==
  ASSUME NEW S, NEW n \in Nat, NEW s \in [1..n + 1 -> Seq(S)]
  PROVE  FlattenSeq(s) = FlattenSeq([i \in 1..n |-> s[i]]) \o s[n + 1]
<1> DEFINE t == [i \in 1..n |-> s[i]]
<1>1. Len(s) = n + 1 /\ Len(t) = n
  <2>1. s \in Seq(Seq(S)) /\ t \in Seq(Seq(S)) /\ DOMAIN s = 1..n + 1 /\ DOMAIN t = 1..n
    OBVIOUS
  <2> QED BY <2>1
<1>2. PICK g : Flattening(s, n + 1, g) /\ FlattenSeq(s) = g[n + 1]
  BY <1>1, FlattenIs
<1>3. g = [i \in 1..n + 1 |-> IF i = 1 THEN s[i] ELSE g[i - 1] \o s[i]]
  BY <1>2 DEF Flattening
<1>4. CASE n = 0
  <2>1. t = <<>> /\ FlattenSeq(t) = <<>>
    BY <1>4, FlattenNone
  <2>2. g[1] = s[1] /\ s[1] \in Seq(S)
    BY <1>3, <1>4
  <2> QED BY <1>2, <1>4, <2>1, <2>2
<1>5. CASE n # 0
  <2>1. PICK h : Flattening(t, n, h) /\ FlattenSeq(t) = h[n]
    BY <1>1, <1>5, FlattenIs
  <2>2. h = [i \in 1..n |-> IF i = 1 THEN t[i] ELSE h[i - 1] \o t[i]]
    BY <2>1 DEF Flattening
  <2> DEFINE N == {m \in Nat : m + 1 \in 1..n => g[m + 1] = h[m + 1]}
  <2>3. 0 \in N
    BY <1>3, <2>2
  <2>4. ASSUME NEW m \in Nat, m \in N PROVE m + 1 \in N
    <3> SUFFICES ASSUME (m + 1) + 1 \in 1..n PROVE g[(m + 1) + 1] = h[(m + 1) + 1]
      OBVIOUS
    <3> DEFINE i == (m + 1) + 1
    <3>1. i \in 1..n /\ i \in 1..n + 1 /\ i # 1 /\ i - 1 = m + 1 /\ m + 1 \in 1..n
      OBVIOUS
    <3> HIDE DEF i
    <3>2. g[i] = g[i - 1] \o s[i] /\ h[i] = h[i - 1] \o t[i] /\ t[i] = s[i]
      BY <1>3, <2>2, <3>1
    <3>3. g[m + 1] = h[m + 1]
      BY <2>4, <3>1
    <3> QED BY <3>1, <3>2, <3>3 DEF i
  <2> HIDE DEF N
  <2>5. n - 1 \in N
    <3>1. n - 1 \in Nat
      BY <1>5
    <3> QED BY <2>3, <2>4, <3>1, Inductive
  <2>6. g[n] = h[n]
    <3>1. n - 1 \in Nat /\ (n - 1) + 1 = n /\ n \in 1..n
      BY <1>5
    <3> QED BY <2>5, <3>1 DEF N
  <2>7. g[n + 1] = g[n] \o s[n + 1]
    <3>1. n + 1 \in 1..n + 1 /\ n + 1 # 1 /\ (n + 1) - 1 = n
      BY <1>5
    <3> QED BY <1>3, <3>1
  <2> HIDE DEF t
  <2> QED BY <1>2, <2>1, <2>6, <2>7 DEF t
<1> QED BY <1>4, <1>5

\* What is in a list; that it is there once; parts that have nothing in common or twice.
Has(x, v)   == \E j \in 1..Len(x) : x[j] = v
Once(x)     == \A j, k \in 1..Len(x) : x[j] = x[k] => j = k
Apart(m, s) == /\ \A i \in 1..m : Once(s[i])
               /\ \A h, i \in 1..m : \A j \in 1..Len(s[h]), k \in 1..Len(s[i]) :
                    s[h][j] = s[i][k] => h = i

\* What a list of parts flattens to: a list of what is in the parts, and each element once if
\* no part has one twice and no two have one in common.
LEMMA FlattenElements ==
  ASSUME NEW S, NEW n \in Nat, NEW s \in [1..n -> Seq(S)]
  PROVE  /\ FlattenSeq(s) \in Seq(S)
         /\ \A v : Has(FlattenSeq(s), v) <=> \E i \in 1..n : Has(s[i], v)
         /\ Apart(n, s) => Once(FlattenSeq(s))
<1> DEFINE F(m) == FlattenSeq([i \in 1..m |-> s[i]])
           Good(m) == /\ F(m) \in Seq(S)
                      /\ \A v : Has(F(m), v) <=> \E i \in 1..m : Has(s[i], v)
                      /\ Apart(m, s) => Once(F(m))
           N == {m \in Nat : m <= n => Good(m)}
<1> USE DEF Has, Once, Apart
<1>1. 0 \in N
  <2>1. [i \in 1..0 |-> s[i]] = <<>>
    OBVIOUS
  <2>2. F(0) = <<>>
    BY <2>1, FlattenNone
  <2> HIDE DEF F
  <2>3. <<>> \in Seq(S) /\ 1..Len(<<>>) = {} /\ 1..0 = {}
    OBVIOUS
  <2>4. Good(0)
    BY <2>2, <2>3
  <2> HIDE DEF Good
  <2> QED BY <2>4
<1>2. ASSUME NEW m \in Nat, m \in N, m + 1 <= n PROVE Good(m + 1)
  <2> DEFINE t == [i \in 1..m + 1 |-> s[i]]
             x == F(m)
             y == s[m + 1]
  <2>1. Good(m)
    <3> HIDE DEF Good
    <3>1. m <= n
      BY <1>2
    <3> QED BY <1>2, <3>1
  <2>2. t \in [1..m + 1 -> Seq(S)] /\ t[m + 1] = y /\ [i \in 1..m |-> t[i]] = [i \in 1..m |-> s[i]]
    <3>1. \A i \in 1..m + 1 : i \in 1..n
      BY <1>2
    <3>2. \A i \in 1..m + 1 : s[i] \in Seq(S)
      BY <3>1
    <3>3. m + 1 \in 1..m + 1 /\ \A i \in 1..m : i \in 1..m + 1
      OBVIOUS
    <3> QED BY <3>2, <3>3
  <2>3. F(m + 1) = x \o y
    <3> HIDE DEF t
    <3>1. FlattenSeq(t) = FlattenSeq([i \in 1..m |-> t[i]]) \o t[m + 1]
      BY <2>2, FlattenMore
    <3> QED BY <2>2, <3>1 DEF t
  <2>4. x \in Seq(S) /\ y \in Seq(S)
    BY <1>2, <2>1
  <2>5. \A v : Has(x, v) <=> \E i \in 1..m : Has(s[i], v)
    BY <2>1
  <2>6. Apart(m, s) => Once(x)
    BY <2>1
  <2>7. Apart(m + 1, s) => Apart(m, s) /\ Once(y)
    OBVIOUS
  <2>8. Apart(m + 1, s) => \A v : ~(Has(x, v) /\ Has(y, v))
    <3> SUFFICES ASSUME Apart(m + 1, s), NEW v, Has(x, v), Has(y, v) PROVE FALSE
      OBVIOUS
    <3>1. PICK i \in 1..m : Has(s[i], v)
      BY <2>5
    <3>2. i \in 1..m + 1 /\ m + 1 \in 1..m + 1 /\ i # m + 1
      OBVIOUS
    <3> QED BY <3>1, <3>2
  <2>9. \A v : Has(y, v) \/ (\E i \in 1..m : Has(s[i], v)) <=> \E i \in 1..m + 1 : Has(s[i], v)
    <3>1. 1..m + 1 = (1..m) \cup {m + 1}
      OBVIOUS
    <3> HIDE DEF Has
    <3> QED BY <3>1
  <2> HIDE DEF x, y, F
  <2>10. Len(x) \in Nat /\ Len(y) \in Nat /\ Len(x \o y) = Len(x) + Len(y) /\ x \o y \in Seq(S)
    BY <2>4
  <2>11. \A j \in 1..Len(x) + Len(y) :
           (x \o y)[j] = IF j <= Len(x) THEN x[j] ELSE y[j - Len(x)]
    BY <2>4
  <2>12. \A v : Has(x \o y, v) <=> Has(x, v) \/ Has(y, v)
    <3>1. ASSUME NEW v, Has(x \o y, v) PROVE Has(x, v) \/ Has(y, v)
      <4>1. PICK j \in 1..Len(x) + Len(y) : (x \o y)[j] = v
        BY <2>10, <3>1
      <4>2. CASE j <= Len(x)
        BY <2>10, <2>11, <4>1, <4>2
      <4>3. CASE j > Len(x)
        <5>1. j - Len(x) \in 1..Len(y) /\ y[j - Len(x)] = v
          BY <2>10, <2>11, <4>1, <4>3
        <5> QED BY <5>1
      <4> QED BY <2>10, <4>2, <4>3
    <3>2. ASSUME NEW v, Has(x, v) PROVE Has(x \o y, v)
      <4>1. PICK j \in 1..Len(x) : x[j] = v
        BY <3>2
      <4>2. j \in 1..Len(x) + Len(y) /\ (x \o y)[j] = v
        BY <2>10, <2>11, <4>1
      <4> QED BY <2>10, <4>2
    <3>3. ASSUME NEW v, Has(y, v) PROVE Has(x \o y, v)
      <4>1. PICK j \in 1..Len(y) : y[j] = v
        BY <3>3
      <4>2. /\ j + Len(x) \in 1..Len(x) + Len(y) /\ ~(j + Len(x) <= Len(x))
            /\ (j + Len(x)) - Len(x) = j
        BY <2>10
      <4>3. (x \o y)[j + Len(x)] = v
        BY <2>11, <4>1, <4>2
      <4> QED BY <2>10, <4>2, <4>3
    <3> QED BY <3>1, <3>2, <3>3
  <2>13. ASSUME Apart(m + 1, s) PROVE Once(x \o y)
    <3> SUFFICES ASSUME NEW j \in 1..Len(x) + Len(y), NEW k \in 1..Len(x) + Len(y),
                        (x \o y)[j] = (x \o y)[k]
                 PROVE  j = k
      BY <2>10
    <3>1. Once(x) /\ Once(y)
      BY <2>6, <2>7, <2>13
    <3>2. \A a \in 1..Len(x), b \in 1..Len(y) : x[a] # y[b]
      BY <2>8, <2>13
    <3>3. CASE j <= Len(x) /\ k <= Len(x)
      BY <2>10, <2>11, <3>1, <3>3
    <3>4. CASE j > Len(x) /\ k > Len(x)
      <4>1. j - Len(x) \in 1..Len(y) /\ k - Len(x) \in 1..Len(y)
        BY <2>10, <3>4
      <4>2. y[j - Len(x)] = y[k - Len(x)]
        BY <2>10, <2>11, <3>4
      <4>3. j - Len(x) = k - Len(x)
        BY <3>1, <4>1, <4>2
      <4> QED BY <2>10, <4>3
    <3>5. CASE j <= Len(x) /\ k > Len(x)
      <4>1. j \in 1..Len(x) /\ k - Len(x) \in 1..Len(y)
        BY <2>10, <3>5
      <4> QED BY <2>10, <2>11, <3>2, <3>5, <4>1
    <3>6. CASE j > Len(x) /\ k <= Len(x)
      <4>1. k \in 1..Len(x) /\ j - Len(x) \in 1..Len(y)
        BY <2>10, <3>6
      <4> QED BY <2>10, <2>11, <3>2, <3>6, <4>1
    <3> QED BY <2>10, <3>3, <3>4, <3>5, <3>6
  <2> HIDE DEF Has, Once, Apart
  <2> QED BY <2>3, <2>5, <2>9, <2>10, <2>12, <2>13
<1>3. ASSUME NEW m \in Nat, m \in N PROVE m + 1 \in N
  <2>1. m + 1 <= n => Good(m + 1)
    BY <1>2, <1>3
  <2> HIDE DEF Good
  <2> QED BY <2>1
<1> HIDE DEF N
<1>4. n \in N
  BY <1>1, <1>3, Inductive
<1> HIDE DEF Good, Has, Once, Apart
<1>5. Good(n)
  BY <1>4 DEF N
<1>6. [i \in 1..n |-> s[i]] = s
  OBVIOUS
<1>7. F(n) = FlattenSeq(s)
  BY <1>6
<1> HIDE DEF F
<1> QED BY <1>5, <1>7 DEF Good

-----------------------------------------------------------------------------
(***************************************************************************)
(* Why karmarkar_karp balances: no merge makes two solutions less balanced *)
(* than the worse of them was, and none loses or doubles an item; for every*)
(* number of bins and of items, and whatever their lengths.                *)
(***************************************************************************)

Bins          == [sum : Nat, items : Seq(Nat)]
Solutions(k)  == [1..k -> Bins]
Descending(s) == \A i, j \in DOMAIN s : i < j => s[j].sum <= s[i].sum

\* A solution of k bins that is sorted and whose spread is at most d.
BalancedWithin(k, d) == {s \in Solutions(k) : Descending(s) /\ Spread(s) <= d}

\* The items of all bins of a solution.
ItemsIn(s) == UNION {ItemsOf(s[i]) : i \in DOMAIN s}

\* A list has the items of the two it is made of.
LEMMA RangeConcat ==
  ASSUME NEW x \in Seq(Nat), NEW y \in Seq(Nat)
  PROVE  Range(x \o y) = Range(x) \cup Range(y)
<1>1. Len(x) \in Nat /\ Len(y) \in Nat
  OBVIOUS
<1>2. DOMAIN x = 1..Len(x) /\ DOMAIN y = 1..Len(y) /\ DOMAIN (x \o y) = 1..Len(x) + Len(y)
  OBVIOUS
<1>3. \A i \in 1..Len(x) : i \in 1..Len(x) + Len(y) /\ (x \o y)[i] = x[i]
  OBVIOUS
<1>4. \A i \in 1..Len(y) : Len(x) + i \in 1..Len(x) + Len(y) /\ (x \o y)[Len(x) + i] = y[i]
  OBVIOUS
<1>5. \A i \in 1..Len(x) + Len(y) :
         (i \in 1..Len(x)) \/ (i - Len(x) \in 1..Len(y) /\ Len(x) + (i - Len(x)) = i)
  BY <1>1
<1>6. \A v : v \in Range(x) <=> \E i \in 1..Len(x) : v = x[i]
  BY <1>2 DEF Range
<1>7. \A v : v \in Range(y) <=> \E i \in 1..Len(y) : v = y[i]
  BY <1>2 DEF Range
<1>8. \A v : v \in Range(x \o y) <=> \E i \in 1..Len(x) + Len(y) : v = (x \o y)[i]
  BY <1>2 DEF Range
<1>9. ASSUME NEW v \in Range(x \o y) PROVE v \in Range(x) \cup Range(y)
  <2>1. PICK i \in 1..Len(x) + Len(y) : v = (x \o y)[i]
    BY <1>8, <1>9, Zenon
  <2>2. CASE i \in 1..Len(x)
    BY <2>1, <2>2, <1>3, <1>6, Zenon
  <2>3. CASE i - Len(x) \in 1..Len(y) /\ Len(x) + (i - Len(x)) = i
    <3>1. v = y[i - Len(x)]
      BY <2>1, <2>3, <1>4, Zenon
    <3> QED BY <3>1, <2>3, <1>7, Zenon
  <2> QED BY <2>2, <2>3, <1>5, Zenon
<1>10. ASSUME NEW v \in Range(x) PROVE v \in Range(x \o y)
  BY <1>10, <1>3, <1>6, <1>8, Zenon
<1>11. ASSUME NEW v \in Range(y) PROVE v \in Range(x \o y)
  BY <1>11, <1>4, <1>7, <1>8, Zenon
<1> QED BY <1>9, <1>10, <1>11, Zenon

\* The list of two bins has the items of both.
LEMMA MergedItems ==
  ASSUME NEW b \in Bins, NEW c \in Bins
  PROVE  /\ MergeBins(b, c) \in Bins
         /\ MergeBins(b, c).sum = b.sum + c.sum
         /\ ItemsOf(MergeBins(b, c)) = ItemsOf(b) \cup ItemsOf(c)
<1>1. b.items \in Seq(Nat) /\ c.items \in Seq(Nat) /\ b.sum \in Nat /\ c.sum \in Nat
  BY DEF Bins
<1>2. b.items \o c.items \in Seq(Nat) /\ b.sum + c.sum \in Nat
  BY <1>1
<1>3. MergeBins(b, c) \in Bins /\ MergeBins(b, c).sum = b.sum + c.sum
      /\ MergeBins(b, c).items = b.items \o c.items
  BY <1>2 DEF MergeBins, Bins
<1> QED BY <1>1, <1>3, RangeConcat DEF ItemsOf

\* Set.__lt__ is a strict weak order: of unequal bins one is less, and not being less is
\* transitive.
LEMMA LessOrders ==
  ASSUME NEW a \in Bins, NEW b \in Bins, NEW c \in Bins
  PROVE  /\ Less(a, b) => ~Less(b, a)
         /\ ~Less(a, b) /\ ~Less(b, c) => ~Less(a, c)
<1>1. ASSUME NEW x \in Bins
      PROVE  /\ x.sum \in Nat /\ Len(x.items) \in Nat
             /\ (x.items = <<>>) <=> (Len(x.items) = 0)
             /\ (x.items # <<>>) => Head(x.items) \in Nat
  <2>1. x.sum \in Nat /\ x.items \in Seq(Nat)
    BY DEF Bins
  <2> QED BY <2>1
<1>2. Less(a, b) => ~Less(b, a)
  BY <1>1 DEF Less
<1>3. ~Less(a, b) /\ ~Less(b, c) => ~Less(a, c)
  BY <1>1 DEF Less
<1> QED BY <1>2, <1>3

\* No two bins have the same number of bins ahead of them.
LEMMA AheadIsSmaller ==
  ASSUME NEW k \in Nat, NEW bins \in Solutions(k), NEW i \in 1..k, NEW j \in 1..k,
         j \in Ahead(bins, i)
  PROVE  /\ Ahead(bins, j) \subseteq Ahead(bins, i)
         /\ j \notin Ahead(bins, j)
<1>1. DOMAIN bins = 1..k /\ bins[i] \in Bins /\ bins[j] \in Bins
  BY DEF Solutions
<1>2. j \notin Ahead(bins, j)
  BY DEF Ahead
<1>3. ASSUME NEW x \in Ahead(bins, j) PROVE x \in Ahead(bins, i)
  <2>1. x \in 1..k /\ bins[x] \in Bins
    BY <1>1 DEF Ahead, Solutions
  <2>2. \/ j < i /\ ~Less(bins[j], bins[i])
        \/ j > i /\ Less(bins[i], bins[j])
    BY DEF Ahead
  <2>3. \/ x < j /\ ~Less(bins[x], bins[j])
        \/ x > j /\ Less(bins[j], bins[x])
    BY DEF Ahead
  <2>4. /\ ~Less(bins[x], bins[j]) /\ ~Less(bins[j], bins[i]) => ~Less(bins[x], bins[i])
        /\ ~Less(bins[i], bins[x]) /\ ~Less(bins[x], bins[j]) => ~Less(bins[i], bins[j])
        /\ ~Less(bins[j], bins[i]) /\ ~Less(bins[i], bins[x]) => ~Less(bins[j], bins[x])
        /\ Less(bins[i], bins[j]) => ~Less(bins[j], bins[i])
        /\ Less(bins[j], bins[x]) => ~Less(bins[x], bins[j])
    BY <1>1, <2>1, LessOrders
  <2>5. x # i
    BY <2>2, <2>3, <2>4
  <2>6. \/ x < i /\ ~Less(bins[x], bins[i])
        \/ x > i /\ Less(bins[i], bins[x])
    BY <2>1, <2>2, <2>3, <2>4, <2>5
  <2> QED BY <1>1, <2>1, <2>6 DEF Ahead
<1> QED BY <1>2, <1>3

\* sorted() returns the bins in some order, none before a larger one.
LEMMA Sorts ==
  ASSUME NEW k \in Nat, NEW bins \in Solutions(k)
  PROVE  \E p \in [1..k -> 1..k] :
           /\ Sorted(bins) = [q \in 1..k |-> bins[p[q]]]
           /\ \A i \in 1..k : \E q \in 1..k : p[q] = i
           /\ \A q, r \in 1..k : q < r => ~Less(bins[p[q]], bins[p[r]])
<1> DEFINE place == [i \in 1..k |-> Cardinality(Ahead(bins, i)) + 1]
<1>1. DOMAIN bins = 1..k
  BY DEF Solutions
<1>2. IsFiniteSet(1..k) /\ Cardinality(1..k) = k
  BY FS_Interval
<1>3. ASSUME NEW i \in 1..k
      PROVE  /\ IsFiniteSet(Ahead(bins, i)) /\ Cardinality(Ahead(bins, i)) \in Nat
             /\ Cardinality(Ahead(bins, i)) < k
  <2>1. Ahead(bins, i) \subseteq 1..k /\ i \notin Ahead(bins, i)
    BY <1>1 DEF Ahead
  <2>2. /\ IsFiniteSet(Ahead(bins, i)) /\ Cardinality(Ahead(bins, i)) <= k
        /\ Cardinality(Ahead(bins, i)) = k => 1..k = Ahead(bins, i)
    BY <1>2, <2>1, FS_Subset
  <2>3. Cardinality(Ahead(bins, i)) \in Nat
    BY <2>2, FS_CardinalityType
  <2>4. Cardinality(Ahead(bins, i)) # k
    BY <2>1, <2>2
  <2> QED BY <2>2, <2>3, <2>4
<1>4. ASSUME NEW i \in 1..k, NEW j \in 1..k, j \in Ahead(bins, i)
      PROVE  place[j] < place[i]
  <2>1. Ahead(bins, j) \subseteq Ahead(bins, i) /\ Ahead(bins, j) # Ahead(bins, i)
    BY <1>4, AheadIsSmaller
  <2>2. Cardinality(Ahead(bins, j)) < Cardinality(Ahead(bins, i))
    <3>1. /\ Cardinality(Ahead(bins, j)) <= Cardinality(Ahead(bins, i))
          /\ Cardinality(Ahead(bins, i)) = Cardinality(Ahead(bins, j))
               => Ahead(bins, i) = Ahead(bins, j)
      BY <1>3, <2>1, FS_Subset
    <3>2. Cardinality(Ahead(bins, i)) \in Nat /\ Cardinality(Ahead(bins, j)) \in Nat
      BY <1>3
    <3> QED BY <2>1, <3>1, <3>2
  <2> QED BY <1>3, <2>2
<1>5. place \in [1..k -> 1..k]
  <2>1. \A i \in 1..k : Cardinality(Ahead(bins, i)) + 1 \in 1..k
    BY <1>3
  <2> QED BY <2>1
<1>6. \A i, j \in 1..k : i # j => j \in Ahead(bins, i) \/ i \in Ahead(bins, j)
  <2> SUFFICES ASSUME NEW i \in 1..k, NEW j \in 1..k, i # j
               PROVE  j \in Ahead(bins, i) \/ i \in Ahead(bins, j)
    OBVIOUS
  <2>1. i < j \/ j < i
    OBVIOUS
  <2> QED BY <1>1, <2>1 DEF Ahead
<1>7. \A i, j \in 1..k : i # j => place[i] # place[j]
  <2> SUFFICES ASSUME NEW i \in 1..k, NEW j \in 1..k, i # j PROVE place[i] # place[j]
    OBVIOUS
  <2>1. place[i] \in Nat /\ place[j] \in Nat
    BY <1>3
  <2>2. place[i] < place[j] \/ place[j] < place[i]
    BY <1>4, <1>6
  <2> QED BY <2>1, <2>2
<1> HIDE DEF place
<1>8. place \in Surjection(1..k, 1..k)
  <2>1. place \in Injection(1..k, 1..k)
    BY <1>5, <1>7 DEF Injection, IsInjective
  <2> QED BY <1>2, <2>1, FS_Injection
<1> DEFINE p == [q \in 1..k |-> CHOOSE i \in 1..k : place[i] = q]
<1>9. ASSUME NEW q \in 1..k PROVE p[q] \in 1..k /\ place[p[q]] = q
  <2>1. \E i \in 1..k : place[i] = q
    BY <1>8 DEF Surjection
  <2> QED BY <2>1
<1>10. p \in [1..k -> 1..k]
  BY <1>9
<1>11. \A i \in 1..k : \E q \in 1..k : p[q] = i
  <2> SUFFICES ASSUME NEW i \in 1..k PROVE p[place[i]] = i
    BY <1>5
  <2>1. place[i] \in 1..k
    BY <1>5
  <2>2. p[place[i]] \in 1..k /\ place[p[place[i]]] = place[i]
    BY <2>1, <1>9
  <2> QED BY <2>2, <1>7
<1> HIDE DEF p
<1>12. \A q, r \in 1..k : q < r => ~Less(bins[p[q]], bins[p[r]])
  <2> SUFFICES ASSUME NEW q \in 1..k, NEW r \in 1..k, q < r, Less(bins[p[q]], bins[p[r]])
               PROVE  FALSE
    OBVIOUS
  <2>1. /\ p[q] \in 1..k /\ place[p[q]] = q
        /\ p[r] \in 1..k /\ place[p[r]] = r
    BY <1>9
  <2>2. bins[p[q]] \in Bins /\ bins[p[r]] \in Bins
    BY <2>1 DEF Solutions
  <2>3. p[q] # p[r] /\ ~Less(bins[p[r]], bins[p[q]])
    BY <2>1, <2>2, LessOrders
  <2>4. p[r] \in Ahead(bins, p[q])
    <3>1. p[r] < p[q] \/ p[r] > p[q]
      BY <2>1, <2>3
    <3> QED BY <1>1, <2>1, <2>3, <3>1 DEF Ahead
  <2>5. place[p[r]] < place[p[q]]
    BY <2>1, <2>4, <1>4
  <2> QED BY <2>1, <2>5
<1>13. Sorted(bins) = [q \in 1..k |-> bins[p[q]]]
  <2> DEFINE ranked == {<<Cardinality(Ahead(bins, i)) + 1, bins[i]>> : i \in 1..k}
             Nth(q) == (CHOOSE r \in ranked : r[1] = q)[2]
  <2>1. ASSUME NEW q \in 1..k PROVE Nth(q) = bins[p[q]]
    <3>1. p[q] \in 1..k /\ place[p[q]] = q
      BY <1>9
    <3>2. \A i \in 1..k : place[i] = Cardinality(Ahead(bins, i)) + 1
      BY DEF place
    <3>3. \A i \in 1..k : place[i] = q => i = p[q]
      BY <3>1, <1>7
    <3>4. <<q, bins[p[q]]>> \in ranked
      BY <3>1, <3>2
    <3>5. \A r \in ranked : r[1] = q => r = <<q, bins[p[q]]>>
      <4> SUFFICES ASSUME NEW i \in 1..k, Cardinality(Ahead(bins, i)) + 1 = q
                   PROVE  i = p[q]
        OBVIOUS
      <4> QED BY <3>2, <3>3
    <3> HIDE DEF ranked
    <3>6. (CHOOSE r \in ranked : r[1] = q) = <<q, bins[p[q]]>>
      BY <3>4, <3>5
    <3>7. <<q, bins[p[q]]>>[2] = bins[p[q]]
      OBVIOUS
    <3> QED BY <3>6, <3>7, Zenon
  <2>2. Sorted(bins) = [q \in 1..k |-> Nth(q)]
    BY <1>1 DEF Sorted
  <2> HIDE DEF Nth
  <2> QED BY <2>1, <2>2, Zenon
<1> QED BY <1>10, <1>11, <1>12, <1>13

\* What one merge of two solutions is.
LEMMA MergeShape ==
  ASSUME NEW k \in Nat, NEW s \in Solutions(k), NEW t \in Solutions(k)
  PROVE  /\ Merge(s, t) \in Solutions(k)
         /\ \E p \in [1..k -> 1..k] :
              /\ \A i \in 1..k : Merge(s, t)[i] = MergeBins(s[p[i]], t[k + 1 - p[i]])
              /\ \A i \in 1..k : \E j \in 1..k : p[j] = i
              /\ \A i, j \in 1..k : i < j => ~Less(Merge(s, t)[i], Merge(s, t)[j])
<1> DEFINE bins == [i \in 1..k |-> MergeBins(s[i], t[k + 1 - i])]
<1>1. Len(s) = k
  BY DEF Solutions
<1>2. Merge(s, t) = Sorted(bins)
  BY <1>1 DEF Merge
<1>3. bins \in Solutions(k)
  <2>1. ASSUME NEW i \in 1..k PROVE MergeBins(s[i], t[k + 1 - i]) \in Bins
    <3>1. k + 1 - i \in 1..k
      OBVIOUS
    <3>2. s[i] \in Bins /\ t[k + 1 - i] \in Bins
      BY <3>1 DEF Solutions
    <3> QED BY <3>2, MergedItems
  <2> QED BY <2>1 DEF Solutions
<1>4. \A i \in 1..k : bins[i] = MergeBins(s[i], t[k + 1 - i]) /\ bins[i] \in Bins
  BY <1>3 DEF Solutions
<1> HIDE DEF bins
<1>5. PICK p \in [1..k -> 1..k] :
        /\ Sorted(bins) = [q \in 1..k |-> bins[p[q]]]
        /\ \A i \in 1..k : \E q \in 1..k : p[q] = i
        /\ \A q, r \in 1..k : q < r => ~Less(bins[p[q]], bins[p[r]])
  BY <1>3, Sorts
<1>6. \A i \in 1..k : p[i] \in 1..k /\ Merge(s, t)[i] = bins[p[i]]
  BY <1>2, <1>5
<1>7. Merge(s, t) \in Solutions(k)
  BY <1>2, <1>4, <1>5, <1>6 DEF Solutions
<1>8. \A i \in 1..k : Merge(s, t)[i] = MergeBins(s[p[i]], t[k + 1 - p[i]])
  BY <1>4, <1>6
<1>9. \A i, j \in 1..k : i < j => ~Less(Merge(s, t)[i], Merge(s, t)[j])
  BY <1>5, <1>6
<1> QED BY <1>5, <1>7, <1>8, <1>9, Zenon

\* Of two differences the one at most d, the other at most zero.
LEMMA SumsWithin ==
  ASSUME NEW d \in Nat, NEW v \in Nat, NEW w \in Nat, NEW x \in Nat, NEW y \in Nat,
         \/ v - x <= d /\ w <= y
         \/ v <= x /\ w - y <= d
  PROVE  (v + w) - (x + y) <= d
OBVIOUS

\* Of two falling lists, one read backwards, the sums differ by no more than either list does.
LEMMA OppositeSums ==
  ASSUME NEW k \in Nat, NEW d \in Nat, NEW f \in [1..k -> Nat], NEW g \in [1..k -> Nat],
         \A i, j \in 1..k : i <= j => f[j] <= f[i] /\ f[i] - f[j] <= d,
         \A i, j \in 1..k : i <= j => g[j] <= g[i] /\ g[i] - g[j] <= d,
         NEW a \in 1..k, NEW b \in 1..k
  PROVE  (f[a] + g[k + 1 - a]) - (f[b] + g[k + 1 - b]) <= d
<1>1. k + 1 - a \in 1..k /\ k + 1 - b \in 1..k
  OBVIOUS
<1>2. f[a] \in Nat /\ f[b] \in Nat /\ g[k + 1 - a] \in Nat /\ g[k + 1 - b] \in Nat
  BY <1>1
<1>3. CASE a <= b
  <2>1. f[a] - f[b] <= d
    BY <1>3
  <2>2. k + 1 - b <= k + 1 - a
    BY <1>3
  <2>3. g[k + 1 - a] <= g[k + 1 - b]
    BY <1>1, <2>2
  <2> QED BY <1>2, <2>1, <2>3, SumsWithin
<1>4. CASE b <= a
  <2>1. f[a] <= f[b]
    BY <1>4
  <2>2. k + 1 - a <= k + 1 - b
    BY <1>4
  <2>3. g[k + 1 - a] - g[k + 1 - b] <= d
    BY <1>1, <2>2
  <2> QED BY <1>2, <2>1, <2>3, SumsWithin
<1>5. a <= b \/ b <= a
  OBVIOUS
<1> QED BY <1>3, <1>4, <1>5

\* In a sorted solution every two bins differ by at most the spread.
LEMMA SpreadBounds ==
  ASSUME NEW k \in Nat, NEW d \in Nat, NEW s \in BalancedWithin(k, d)
  PROVE  \A i, j \in 1..k : i <= j => /\ s[j].sum <= s[i].sum
                                      /\ s[i].sum - s[j].sum <= d
<1>1. /\ s \in Solutions(k) /\ Descending(s) /\ Spread(s) <= d
  BY DEF BalancedWithin
<1>2. DOMAIN s = 1..k /\ Len(s) = k
  BY <1>1 DEF Solutions
<1>3. \A i \in 1..k : s[i].sum \in Nat
  BY <1>1 DEF Solutions, Bins
<1>4. ASSUME NEW i \in 1..k, NEW j \in 1..k, i <= j PROVE s[j].sum <= s[i].sum
  <2>1. CASE i < j
    BY <2>1, <1>1, <1>2 DEF Descending
  <2>2. CASE i = j
    BY <2>2, <1>3
  <2> QED BY <2>1, <2>2, <1>4
<1>5. ASSUME NEW i \in 1..k, NEW j \in 1..k, i <= j PROVE s[i].sum - s[j].sum <= d
  <2>1. 1 \in 1..k /\ k \in 1..k /\ 1 <= i /\ j <= k
    OBVIOUS
  <2>2. s[i].sum <= s[1].sum /\ s[k].sum <= s[j].sum
    BY <2>1, <1>4
  <2>3. s[1].sum - s[k].sum <= d
    BY <1>1, <1>2 DEF Spread
  <2> QED BY <2>1, <2>2, <2>3, <1>3
<1> QED BY <1>4, <1>5

\* The larger the bin of the one, the smaller the bin of the other it is merged with: the
\* spread of what State.merge returns is at most that of the worse of the two.
THEOREM MergeKeepsSpread ==
  ASSUME NEW k \in Nat \ {0}, NEW d \in Nat,
         NEW s \in BalancedWithin(k, d), NEW t \in BalancedWithin(k, d)
  PROVE  Merge(s, t) \in BalancedWithin(k, d)
<1>1. s \in Solutions(k) /\ t \in Solutions(k)
  BY DEF BalancedWithin
<1> DEFINE m == Merge(s, t)
           f == [i \in 1..k |-> s[i].sum]
           g == [i \in 1..k |-> t[i].sum]
<1>2. m \in Solutions(k)
  BY <1>1, MergeShape
<1>3. PICK p \in [1..k -> 1..k] :
        /\ \A i \in 1..k : m[i] = MergeBins(s[p[i]], t[k + 1 - p[i]])
        /\ \A i, j \in 1..k : i < j => ~Less(m[i], m[j])
  <2>1. k \in Nat
    OBVIOUS
  <2> QED BY <1>1, <2>1, MergeShape, ZenonT(60)
<1> HIDE DEF m
<1>4. DOMAIN m = 1..k /\ Len(m) = k /\ \A i \in 1..k : m[i].sum \in Nat
  BY <1>2 DEF Solutions, Bins
<1>5. Descending(m)
  <2> SUFFICES ASSUME NEW i \in 1..k, NEW j \in 1..k, i < j PROVE m[j].sum <= m[i].sum
    BY <1>4 DEF Descending
  <2>1. ~Less(m[i], m[j])
    BY <1>3
  <2>2. ~(m[i].sum < m[j].sum)
    BY <2>1 DEF Less
  <2>3. m[i].sum \in Nat /\ m[j].sum \in Nat
    BY <1>4
  <2>4. \A x, y \in Nat : ~(x < y) => y <= x
    OBVIOUS
  <2> QED BY <2>2, <2>3, <2>4, Zenon
<1>6. /\ f \in [1..k -> Nat] /\ g \in [1..k -> Nat]
      /\ \A i \in 1..k : f[i] = s[i].sum /\ g[i] = t[i].sum
  BY <1>1 DEF Solutions, Bins
<1>7. ASSUME NEW i \in 1..k
      PROVE  p[i] \in 1..k /\ m[i].sum = f[p[i]] + g[k + 1 - p[i]]
  <2>1. p[i] \in 1..k
    OBVIOUS
  <2>2. k + 1 - p[i] \in 1..k
    <3>1. k \in Nat /\ \A a \in 1..k : k + 1 - a \in 1..k
      OBVIOUS
    <3> QED BY ONLY <2>1, <3>1
  <2>3. s[p[i]] \in Bins /\ t[k + 1 - p[i]] \in Bins
    BY <1>1, <2>1, <2>2 DEF Solutions
  <2>4. m[i].sum = s[p[i]].sum + t[k + 1 - p[i]].sum
    BY <2>3, <1>3, MergedItems
  <2> QED BY <2>1, <2>2, <2>4, <1>6
<1> HIDE DEF f, g
<1>8. /\ \A i, j \in 1..k : i <= j => f[j] <= f[i] /\ f[i] - f[j] <= d
      /\ \A i, j \in 1..k : i <= j => g[j] <= g[i] /\ g[i] - g[j] <= d
  BY <1>6, SpreadBounds
<1>9. \A a, b \in 1..k : (f[a] + g[k + 1 - a]) - (f[b] + g[k + 1 - b]) <= d
  BY <1>6, <1>8, OppositeSums
<1>10. Spread(m) <= d
  <2>1. 1 \in 1..k /\ k \in 1..k
    OBVIOUS
  <2>2. m[1].sum - m[k].sum <= d
    BY <2>1, <1>7, <1>9
  <2> QED BY <2>2, <1>4 DEF Spread
<1> QED BY <1>2, <1>5, <1>10 DEF BalancedWithin, m

\* State.merge returns a solution with the items of both.
THEOREM MergeKeepsItems ==
  ASSUME NEW k \in Nat, NEW s \in Solutions(k), NEW t \in Solutions(k)
  PROVE  ItemsIn(Merge(s, t)) = ItemsIn(s) \cup ItemsIn(t)
<1> DEFINE m == Merge(s, t)
<1>1. PICK p \in [1..k -> 1..k] :
        /\ \A i \in 1..k : m[i] = MergeBins(s[p[i]], t[k + 1 - p[i]])
        /\ \A i \in 1..k : \E j \in 1..k : p[j] = i
  BY MergeShape, ZenonT(60)
<1>2. m \in Solutions(k)
  BY MergeShape
<1> HIDE DEF m
<1>3. DOMAIN s = 1..k /\ DOMAIN t = 1..k /\ DOMAIN m = 1..k
  BY <1>2 DEF Solutions
<1>4. \A i \in 1..k : p[i] \in 1..k
  OBVIOUS
<1>5. \A i \in 1..k : k + 1 - i \in 1..k /\ k + 1 - (k + 1 - i) = i
  OBVIOUS
<1>6. \A i \in 1..k : s[i] \in Bins /\ t[i] \in Bins
  BY DEF Solutions
<1>7. \A i \in 1..k : ItemsOf(m[i]) = ItemsOf(s[p[i]]) \cup ItemsOf(t[k + 1 - p[i]])
  <2> SUFFICES ASSUME NEW i \in 1..k
               PROVE  ItemsOf(m[i]) = ItemsOf(s[p[i]]) \cup ItemsOf(t[k + 1 - p[i]])
    OBVIOUS
  <2>1. s[p[i]] \in Bins /\ t[k + 1 - p[i]] \in Bins
    BY <1>4, <1>5, <1>6
  <2>2. m[i] = MergeBins(s[p[i]], t[k + 1 - p[i]])
    BY <1>1
  <2> QED BY <2>1, <2>2, MergedItems
<1>8. ASSUME NEW v \in ItemsIn(m) PROVE v \in ItemsIn(s) \cup ItemsIn(t)
  <2>1. PICK i \in 1..k : v \in ItemsOf(m[i])
    BY <1>3, <1>8 DEF ItemsIn
  <2>2. v \in ItemsOf(s[p[i]]) \/ v \in ItemsOf(t[k + 1 - p[i]])
    BY <2>1, <1>7
  <2>3. p[i] \in 1..k /\ k + 1 - p[i] \in 1..k
    BY <1>4, <1>5
  <2> QED BY <2>2, <2>3, <1>3 DEF ItemsIn
<1>9. ASSUME NEW v \in ItemsIn(s) PROVE v \in ItemsIn(m)
  <2>1. PICK a \in 1..k : v \in ItemsOf(s[a])
    BY <1>3, <1>9 DEF ItemsIn
  <2>2. PICK i \in 1..k : p[i] = a
    BY <1>1
  <2>3. v \in ItemsOf(m[i])
    BY <2>1, <2>2, <1>7
  <2> QED BY <2>3, <1>3 DEF ItemsIn
<1>10. ASSUME NEW v \in ItemsIn(t) PROVE v \in ItemsIn(m)
  <2>1. PICK b \in 1..k : v \in ItemsOf(t[b])
    BY <1>3, <1>10 DEF ItemsIn
  <2>2. PICK i \in 1..k : p[i] = k + 1 - b
    BY <1>1, <1>5
  <2>3. v \in ItemsOf(t[k + 1 - p[i]])
    BY <2>1, <2>2, <1>5
  <2>4. v \in ItemsOf(m[i])
    BY <2>3, <1>7
  <2> QED BY <2>4, <1>3 DEF ItemsIn
<1>11. ItemsIn(m) = ItemsIn(s) \cup ItemsIn(t)
  BY <1>8, <1>9, <1>10
<1> QED BY <1>11 DEF m

\* One round of the while loop: what the heap holds stays within the bound, and the items
\* on it stay the same.
THEOREM RoundKeepsBalance ==
  ASSUME NEW k \in Nat \ {0}, NEW d \in Nat, NEW heap \in SUBSET BalancedWithin(k, d),
         NEW s, NEW t, Popped(heap, s, t)
  PROVE  /\ Round(heap, s, t) \subseteq BalancedWithin(k, d)
         /\ UNION {ItemsIn(u) : u \in Round(heap, s, t)} = UNION {ItemsIn(u) : u \in heap}
<1>1. s \in heap /\ t \in heap
  BY DEF Popped
<1>2. s \in BalancedWithin(k, d) /\ t \in BalancedWithin(k, d)
  BY <1>1
<1>3. s \in Solutions(k) /\ t \in Solutions(k)
  BY <1>2 DEF BalancedWithin
<1>4. Merge(s, t) \in BalancedWithin(k, d)
  BY <1>2, MergeKeepsSpread
<1>5. ItemsIn(Merge(s, t)) = ItemsIn(s) \cup ItemsIn(t)
  BY <1>3, MergeKeepsItems
<1>6. Round(heap, s, t) = (heap \ {s, t}) \cup {Merge(s, t)}
  BY DEF Round
<1>7. Round(heap, s, t) \subseteq BalancedWithin(k, d)
  BY <1>4, <1>6
<1>8. ASSUME NEW v PROVE (\E u \in Round(heap, s, t) : v \in ItemsIn(u))
                         <=> \E u \in heap : v \in ItemsIn(u)
  BY <1>1, <1>5, <1>6
<1>9. UNION {ItemsIn(u) : u \in Round(heap, s, t)} = UNION {ItemsIn(u) : u \in heap}
  BY <1>8
<1> QED BY <1>7, <1>9

\* The solutions the loop starts with: one row and no other, so that the longest row
\* bounds the spread.
THEOREM SingletonsBalanced ==
  ASSUME NEW k \in Nat \ {0}, NEW n \in Nat, NEW l \in [1..n -> Nat], NEW d \in Nat,
         \A i \in 1..n : l[i] <= d
  PROVE  Singletons(l, k) \subseteq BalancedWithin(k, d)
<1> SUFFICES ASSUME NEW s \in Singletons(l, k) PROVE s \in BalancedWithin(k, d)
  OBVIOUS
<1>1. PICK j \in 1..n : s = [i \in 1..k |-> IF i = 1 THEN Bin(l, j) ELSE NoItems]
  BY DEF Singletons
<1>2. Bin(l, j) \in Bins /\ Bin(l, j).sum = l[j] /\ NoItems \in Bins /\ NoItems.sum = 0
  BY DEF Bin, NoItems, Bins
<1>3. s \in Solutions(k) /\ Len(s) = k /\ DOMAIN s = 1..k
  BY <1>1, <1>2 DEF Solutions
<1>4. \A i \in 1..k : s[i].sum = IF i = 1 THEN l[j] ELSE 0
  BY <1>1, <1>2
<1>5. l[j] \in Nat /\ l[j] <= d
  OBVIOUS
<1>6. Descending(s)
  BY <1>3, <1>4, <1>5 DEF Descending
<1>7. Spread(s) <= d
  <2>1. s[1].sum - s[k].sum <= d
    BY <1>4, <1>5
  <2> QED BY <2>1, <1>3 DEF Spread
<1> QED BY <1>3, <1>6, <1>7 DEF BalancedWithin

\* Ascending lists the elements of a finite set of numbers, each in one place.
LEMMA AscendingLists ==
  ASSUME NEW S \in SUBSET Nat, IsFiniteSet(S)
  PROVE  /\ Cardinality(S) \in Nat
         /\ Ascending(S) \in [1..Cardinality(S) -> S]
         /\ \A x \in S : \E q \in 1..Cardinality(S) : Ascending(S)[q] = x
         /\ \A q, r \in 1..Cardinality(S) : q < r => Ascending(S)[q] < Ascending(S)[r]
<1> DEFINE before == [x \in S |-> {y \in S : y < x}]
           n == Cardinality(S)
           p == InOrder(S, before)
<1>1. before \in [S -> SUBSET S] /\ \A x \in S : before[x] = {y \in S : y < x}
  OBVIOUS
<1> HIDE DEF before
<1>2. \A x, y \in S : y \in before[x] <=> y < x
  BY <1>1
<1>3. Ascending(S) = p
  <2>0. Ascending(S) = [q \in 1..n |-> CHOOSE x \in S : Cardinality({y \in S : y < x}) = q - 1]
    BY DEF Ascending, Ordered
  <2>1. \A q \in 1..n : (CHOOSE x \in S : Cardinality({y \in S : y < x}) = q - 1)
                          = CHOOSE x \in S : Cardinality(before[x]) = q - 1
    <3> SUFFICES ASSUME NEW q \in 1..n
                 PROVE  (CHOOSE x \in S : Cardinality({y \in S : y < x}) = q - 1)
                          = CHOOSE x \in S : Cardinality(before[x]) = q - 1
      OBVIOUS
    <3>1. \A x : (x \in S /\ Cardinality({y \in S : y < x}) = q - 1)
                   <=> (x \in S /\ Cardinality(before[x]) = q - 1)
      BY <1>1, Zenon
    <3> QED BY <3>1, Zenon
  <2> QED BY <2>0, <2>1, Zenon DEF InOrder
<1>4. /\ n \in Nat
      /\ p \in [1..n -> S]
      /\ \A x \in S : \E q \in 1..n : p[q] = x
      /\ \A q, r \in 1..n : q < r => p[q] \in before[p[r]]
  <2>1. \A x \in S : x \notin before[x]
    BY <1>2
  <2>2. \A x, y \in S : y \in before[x] => before[y] \subseteq before[x]
    <3> SUFFICES ASSUME NEW x \in S, NEW y \in S, y < x, NEW z \in before[y]
                 PROVE  z \in before[x]
      BY <1>2
    <3>1. z \in S /\ z < y
      BY <1>1, <1>2
    <3>2. z \in Nat /\ y \in Nat /\ x \in Nat
      BY <3>1
    <3>3. z < x
      BY <3>1, <3>2
    <3> QED BY <1>2, <3>1, <3>3
  <2>3. \A x, y \in S : x # y => x \in before[y] \/ y \in before[x]
    BY <1>2
  <2>4. before \in [S -> SUBSET S]
    BY <1>1
  <2> QED BY <2>1, <2>2, <2>3, <2>4, Places
<1> HIDE DEF n, p
<1>5. \A q, r \in 1..n : q < r => p[q] < p[r]
  BY <1>2, <1>4
<1> QED BY <1>3, <1>4, <1>5 DEF n

\* A set of numbers from 1 on without gaps.
LEMMA Prefix ==
  ASSUME NEW k \in Nat, NEW S \in SUBSET (1..k), \A i \in S, j \in 1..k : j < i => j \in S
  PROVE  Cardinality(S) \in 0..k /\ S = 1..Cardinality(S)
<1>1. IsFiniteSet(1..k) /\ Cardinality(1..k) = k
  BY FS_Interval
<1>2. IsFiniteSet(S) /\ Cardinality(S) \in Nat /\ Cardinality(S) <= k
  <2>1. IsFiniteSet(S) /\ Cardinality(S) <= k
    BY <1>1, FS_Subset
  <2> QED BY <2>1, FS_CardinalityType
<1>3. CASE S = {}
  <2>1. Cardinality(S) = 0
    BY <1>3, FS_EmptySet
  <2> QED BY <1>3, <2>1
<1>4. CASE S # {}
  <2> DEFINE m == Max(S)
  <2>1. S \in SUBSET Nat
    OBVIOUS
  <2>2. m \in S /\ \A y \in S : y <= m
    BY <1>2, <1>4, <2>1, Largest
  <2> HIDE DEF m
  <2>3. S = 1..m /\ m \in Nat
    <3>1. m \in 1..k /\ \A j \in 1..m : j = m \/ (j \in 1..k /\ j < m)
      BY <2>2
    <3>2. \A j \in 1..m : j \in S
      BY <2>2, <3>1
    <3>3. \A j \in S : j \in 1..m
      BY <2>2
    <3>4. S \subseteq 1..m /\ 1..m \subseteq S
      BY <3>2, <3>3
    <3>5. S = 1..m
      BY <3>4
    <3> QED BY <3>1, <3>5
  <2>4. Cardinality(1..m) = m
    BY <2>3, FS_Interval
  <2> QED BY <1>2, <2>3, <2>4
<1> QED BY <1>3, <1>4

\* The places of the first a and the last b of k.
LEMMA BothEnds ==
  ASSUME NEW k \in Nat, NEW a \in 0..k, NEW b \in 0..k
  PROVE  Cardinality({q \in 1..k : q <= a \/ k + 1 - q <= b}) = IF a + b <= k THEN a + b ELSE k
<1> DEFINE A == 1..a
           B == (k + 1 - b)..k
           E == {q \in 1..k : q <= a \/ k + 1 - q <= b}
<1>1. /\ IsFiniteSet(A) /\ Cardinality(A) = a
      /\ IsFiniteSet(B) /\ Cardinality(B) = b
      /\ Cardinality(1..k) = k
  <2>1. Cardinality(A) = IF 1 > a THEN 0 ELSE (a - 1) + 1
    BY FS_Interval
  <2>2. Cardinality(B) = IF k + 1 - b > k THEN 0 ELSE (k - (k + 1 - b)) + 1
    <3>1. k + 1 - b \in Int /\ k \in Int
      OBVIOUS
    <3> QED BY <3>1, FS_Interval
  <2>3. Cardinality(1..k) = IF 1 > k THEN 0 ELSE (k - 1) + 1
    BY FS_Interval
  <2>4. IsFiniteSet(A) /\ IsFiniteSet(B)
    <3>1. k + 1 - b \in Int /\ k \in Int
      OBVIOUS
    <3> QED BY <3>1, FS_Interval
  <2> HIDE DEF A, B
  <2> QED BY <2>1, <2>2, <2>3, <2>4
<1>2. E = (A \cup B) \cap 1..k /\ A \subseteq 1..k /\ B \subseteq 1..k
  OBVIOUS
<1>3. E = A \cup B
  BY <1>2
<1>4. CASE a + b <= k
  <2>1. A \cap B = {}
    BY <1>4
  <2>2. Cardinality(A \cap B) = 0
    BY <2>1, FS_EmptySet
  <2> HIDE DEF A, B, E
  <2>3. Cardinality(A \cup B) = Cardinality(A) + Cardinality(B) - Cardinality(A \cap B)
    BY <1>1, FS_Union
  <2>4. Cardinality(E) = a + b
    BY <1>1, <1>3, <2>2, <2>3
  <2> QED BY <1>4, <2>4 DEF E
<1>5. CASE ~(a + b <= k)
  <2>1. E = 1..k
    BY <1>5
  <2> QED BY <1>1, <1>5, <2>1
<1> QED BY <1>4, <1>5

\* A function p of 1..k onto itself, and what it takes into E.
Onto(k, p)        == p \in [1..k -> 1..k] /\ \A i \in 1..k : \E j \in 1..k : p[j] = i
Into(k, p, D, E)  == /\ D \in SUBSET (1..k) /\ E \in SUBSET (1..k)
                     /\ \A i \in 1..k : i \in D <=> p[i] \in E

\* A function of 1..k onto itself takes no value twice.
LEMMA OntoIsOneToOne ==
  ASSUME NEW k \in Nat, NEW p, Onto(k, p)
  PROVE  \A i, j \in 1..k : p[i] = p[j] => i = j
<1>1. IsFiniteSet(1..k)
  BY FS_Interval
<1>2. p \in Surjection(1..k, 1..k)
  BY DEF Surjection, Onto
<1>3. p \in Injection(1..k, 1..k)
  BY <1>1, <1>2, FS_Surjection
<1> QED BY <1>3 DEF Injection, IsInjective

\* It takes as many into a set as the set has elements.
LEMMA Preimage ==
  ASSUME NEW k \in Nat, NEW p, NEW D, NEW E, Onto(k, p), Into(k, p, D, E)
  PROVE  Cardinality(D) = Cardinality(E)
<1> DEFINE f == [i \in D |-> p[i]]
<1>1. f \in [D -> E] /\ \A i \in D : f[i] = p[i] /\ i \in 1..k
  BY DEF Into
<1>2. f \in Bijection(D, E)
  <2> HIDE DEF f
  <2>1. \A i, j \in 1..k : p[i] = p[j] => i = j
    BY OntoIsOneToOne
  <2>2. f \in Injection(D, E)
    BY <1>1, <2>1 DEF Injection, IsInjective
  <2>3. f \in Surjection(D, E)
    BY <1>1 DEF Surjection, Onto, Into
  <2> QED BY <2>2, <2>3 DEF Bijection
<1>3. IsFiniteSet(D)
  <2>1. D \in SUBSET (1..k) /\ IsFiniteSet(1..k)
    BY FS_Interval DEF Into
  <2> QED BY <2>1, FS_Subset
<1>4. ExistsBijection(D, E)
  BY <1>2 DEF ExistsBijection
<1> HIDE DEF f
<1> QED BY <1>3, <1>4, FS_Bijection

-----------------------------------------------------------------------------
(***************************************************************************)
(* What karmarkar_karp keeps account of                                    *)
(***************************************************************************)

\* A partial solution keeps account: the bins share no item, and the sum of each is that of
\* the lengths of its items.
Keeps(l, k, s) ==
  /\ s \in Solutions(k)
  /\ \A i \in 1..k : /\ ItemsOf(s[i]) \subseteq DOMAIN l
                     /\ s[i].sum = SumFunctionOnSet(l, ItemsOf(s[i]))
  /\ \A i, j \in 1..k : i # j => ItemsOf(s[i]) \cap ItemsOf(s[j]) = {}

\* As many of its bins are in use as it has items for.
InUse(s) == {i \in DOMAIN s : s[i].items # <<>>}
Thin(k, s) == Cardinality(InUse(s)) = Min({k, Cardinality(ItemsIn(s))})

\* The bins in use are the first ones, when all lengths are positive.
LEMMA FirstInUse ==
  ASSUME NEW k \in Nat, NEW n \in Nat, NEW l \in [1..n -> Nat \ {0}],
         NEW s, Keeps(l, k, s), Descending(s)
  PROVE  /\ \A i \in 1..k : i \in InUse(s) <=> ItemsOf(s[i]) # {}
         /\ Cardinality(InUse(s)) \in 0..k /\ InUse(s) = 1..Cardinality(InUse(s))
         /\ IsFiniteSet(ItemsIn(s)) /\ Cardinality(ItemsIn(s)) \in Nat
<1>1. DOMAIN s = 1..k /\ DOMAIN l = 1..n
  BY DEF Keeps, Solutions
<1>2. IsFiniteSet(1..n)
  BY FS_Interval
<1>3. ASSUME NEW i \in 1..k
      PROVE  /\ IsFiniteSet(ItemsOf(s[i])) /\ s[i].sum \in Nat
             /\ ItemsOf(s[i]) # {} <=> s[i].sum > 0
             /\ s[i].items # <<>> <=> ItemsOf(s[i]) # {}
  <2>1. s[i].sum \in Nat /\ s[i].items \in Seq(Nat)
    BY DEF Keeps, Solutions, Bins
  <2>2. ItemsOf(s[i]) \in SUBSET (1..n) /\ s[i].sum = SumFunctionOnSet(l, ItemsOf(s[i]))
    BY <1>1 DEF Keeps
  <2>3. IsFiniteSet(ItemsOf(s[i]))
    BY <1>2, <2>2, FS_Subset
  <2>4. ItemsOf(s[i]) # {} => s[i].sum > 0
    <3>1. \A j \in ItemsOf(s[i]) : l[j] \in Nat \ {0}
      BY <2>2
    <3> QED BY <2>2, <2>3, <3>1, SumPositive
  <2>5. ItemsOf(s[i]) = {} => s[i].sum = 0
    BY <2>2, SumEmpty
  <2>6. s[i].items # <<>> <=> ItemsOf(s[i]) # {}
    <3> DEFINE x == s[i].items
    <3>1. x \in Seq(Nat) /\ DOMAIN x = 1..Len(x) /\ Len(x) \in Nat
      BY <2>1
    <3> HIDE DEF x
    <3>2. x # <<>> <=> Len(x) # 0
      BY <3>1
    <3>3. x # <<>> => 1 \in DOMAIN x
      BY <3>1, <3>2
    <3>4. x = <<>> => DOMAIN x = {}
      BY <3>1, <3>2
    <3> QED BY <3>3, <3>4 DEF x, ItemsOf, Range
  <2> QED BY <2>1, <2>3, <2>4, <2>5, <2>6
<1>4. \A i \in 1..k : i \in InUse(s) <=> ItemsOf(s[i]) # {}
  BY <1>1, <1>3 DEF InUse
<1>5. InUse(s) \in SUBSET (1..k)
  BY <1>1 DEF InUse
<1>6. \A i \in InUse(s), j \in 1..k : j < i => j \in InUse(s)
  <2> SUFFICES ASSUME NEW i \in InUse(s), NEW j \in 1..k, j < i PROVE j \in InUse(s)
    OBVIOUS
  <2>1. i \in 1..k /\ s[i].sum > 0
    BY <1>3, <1>4, <1>5
  <2>2. s[i].sum <= s[j].sum
    BY <1>1, <2>1 DEF Descending
  <2>3. s[i].sum \in Nat /\ s[j].sum \in Nat
    BY <1>3, <2>1
  <2>4. s[j].sum > 0
    BY <2>1, <2>2, <2>3
  <2> QED BY <1>3, <1>4, <2>4
<1>7. Cardinality(InUse(s)) \in 0..k /\ InUse(s) = 1..Cardinality(InUse(s))
  BY <1>5, <1>6, Prefix
<1>8. IsFiniteSet(ItemsIn(s)) /\ Cardinality(ItemsIn(s)) \in Nat
  <2>1. ItemsIn(s) \in SUBSET (1..n)
    BY <1>1 DEF ItemsIn, Keeps
  <2> QED BY <1>2, <2>1, FS_Subset, FS_CardinalityType
<1> QED BY <1>4, <1>7, <1>8

\* How a merge pairs the bins, and in which order it leaves them.
Pairing(k, s, t, p) ==
  /\ p \in [1..k -> 1..k]
  /\ \A i \in 1..k : \E j \in 1..k : p[j] = i
  /\ \A i \in 1..k : /\ Merge(s, t)[i] = MergeBins(s[p[i]], t[k + 1 - p[i]])
                      /\ ItemsOf(Merge(s, t)[i]) = ItemsOf(s[p[i]]) \cup ItemsOf(t[k + 1 - p[i]])

\* Every merge has such a pairing.
LEMMA MergePairs ==
  ASSUME NEW k \in Nat, NEW s \in Solutions(k), NEW t \in Solutions(k)
  PROVE  \E p : Pairing(k, s, t, p)
<1>1. PICK p \in [1..k -> 1..k] :
        /\ \A i \in 1..k : Merge(s, t)[i] = MergeBins(s[p[i]], t[k + 1 - p[i]])
        /\ \A i \in 1..k : \E j \in 1..k : p[j] = i
  BY MergeShape, ZenonT(60)
<1>2. ASSUME NEW i \in 1..k
      PROVE  ItemsOf(Merge(s, t)[i]) = ItemsOf(s[p[i]]) \cup ItemsOf(t[k + 1 - p[i]])
  <2>1. p[i] \in 1..k
    OBVIOUS
  <2>2. k + 1 - p[i] \in 1..k
    <3>1. k \in Nat /\ \A a \in 1..k : k + 1 - a \in 1..k
      OBVIOUS
    <3> QED BY ONLY <2>1, <3>1
  <2>3. s[p[i]] \in Bins /\ t[k + 1 - p[i]] \in Bins
    BY <2>1, <2>2 DEF Solutions
  <2>4. Merge(s, t)[i] = MergeBins(s[p[i]], t[k + 1 - p[i]])
    BY <1>1
  <2> QED BY <2>3, <2>4, MergedItems
<1>3. Pairing(k, s, t, p)
  BY <1>1, <1>2 DEF Pairing
<1> QED BY <1>3

\* State.merge keeps the account of two solutions that share nothing.
LEMMA MergeKeeps ==
  ASSUME NEW k \in Nat, NEW n \in Nat, NEW l \in [1..n -> Nat],
         NEW s, NEW t, Keeps(l, k, s), Keeps(l, k, t), ItemsIn(s) \cap ItemsIn(t) = {}
  PROVE  Keeps(l, k, Merge(s, t))
<1> DEFINE m == Merge(s, t)
<1>1. s \in Solutions(k) /\ t \in Solutions(k)
  BY DEF Keeps
<1>2. PICK p : Pairing(k, s, t, p)
  BY <1>1, MergePairs
<1>3. m \in Solutions(k)
  BY <1>1, MergeShape
<1> HIDE DEF m
<1>4. DOMAIN s = 1..k /\ DOMAIN t = 1..k /\ DOMAIN l = 1..n
  BY <1>1 DEF Solutions
<1>5. ASSUME NEW i \in 1..k
      PROVE  /\ p[i] \in 1..k /\ k + 1 - p[i] \in 1..k
             /\ ItemsOf(m[i]) = ItemsOf(s[p[i]]) \cup ItemsOf(t[k + 1 - p[i]])
             /\ m[i].sum = s[p[i]].sum + t[k + 1 - p[i]].sum
  <2>1. p[i] \in 1..k
    BY <1>2 DEF Pairing
  <2>2. k + 1 - p[i] \in 1..k
    <3>1. k \in Nat /\ \A a \in 1..k : k + 1 - a \in 1..k
      OBVIOUS
    <3> QED BY ONLY <2>1, <3>1
  <2>3. s[p[i]] \in Bins /\ t[k + 1 - p[i]] \in Bins
    BY <1>1, <2>1, <2>2 DEF Solutions
  <2>4. m[i] = MergeBins(s[p[i]], t[k + 1 - p[i]])
    BY <1>2 DEF Pairing, m
  <2> QED BY <2>1, <2>2, <2>3, <2>4, MergedItems
<1>6. \A i, j \in 1..k : p[i] = p[j] => i = j
  <2>1. Onto(k, p)
    BY <1>2 DEF Pairing, Onto
  <2> QED BY <2>1, OntoIsOneToOne
<1>7. \A a, b \in 1..k : ItemsOf(s[a]) \cap ItemsOf(t[b]) = {}
  BY <1>4 DEF ItemsIn
<1>8. ASSUME NEW i \in 1..k
      PROVE  /\ ItemsOf(m[i]) \subseteq DOMAIN l
             /\ m[i].sum = SumFunctionOnSet(l, ItemsOf(m[i]))
  <2> DEFINE a == p[i]
             b == k + 1 - p[i]
             x == ItemsOf(s[a])
             y == ItemsOf(t[b])
  <2>1. a \in 1..k /\ b \in 1..k /\ ItemsOf(m[i]) = x \cup y /\ m[i].sum = s[a].sum + t[b].sum
    BY <1>5
  <2> HIDE DEF a, b
  <2>2. /\ x \in SUBSET (1..n) /\ y \in SUBSET (1..n) /\ x \cap y = {}
        /\ s[a].sum = SumFunctionOnSet(l, x) /\ t[b].sum = SumFunctionOnSet(l, y)
    BY <1>4, <1>7, <2>1 DEF Keeps
  <2> HIDE DEF x, y
  <2>3. IsFiniteSet(x) /\ IsFiniteSet(y)
    <3>1. IsFiniteSet(1..n)
      BY FS_Interval
    <3> QED BY <2>2, <3>1, FS_Subset
  <2>4. \A j \in x \cup y : l[j] \in Int
    BY <2>2
  <2>5. SumFunctionOnSet(l, x \cup y) = SumFunctionOnSet(l, x) + SumFunctionOnSet(l, y)
    BY <2>2, <2>3, <2>4, SumUnion
  <2> QED BY <1>4, <2>1, <2>2, <2>5
<1>9. ASSUME NEW i \in 1..k, NEW j \in 1..k, i # j
      PROVE  ItemsOf(m[i]) \cap ItemsOf(m[j]) = {}
  <2> DEFINE a == p[i]
             b == p[j]
  <2>1. a \in 1..k /\ b \in 1..k /\ k + 1 - a \in 1..k /\ k + 1 - b \in 1..k /\ a # b
    BY <1>5, <1>6, <1>9
  <2>2. /\ ItemsOf(m[i]) = ItemsOf(s[a]) \cup ItemsOf(t[k + 1 - a])
        /\ ItemsOf(m[j]) = ItemsOf(s[b]) \cup ItemsOf(t[k + 1 - b])
    BY <1>5
  <2> HIDE DEF a, b
  <2>3. k + 1 - a # k + 1 - b
    BY <2>1
  <2>4. /\ ItemsOf(s[a]) \cap ItemsOf(s[b]) = {}
        /\ ItemsOf(t[k + 1 - a]) \cap ItemsOf(t[k + 1 - b]) = {}
        /\ ItemsOf(s[a]) \cap ItemsOf(t[k + 1 - b]) = {}
        /\ ItemsOf(s[b]) \cap ItemsOf(t[k + 1 - a]) = {}
    BY <1>7, <2>1, <2>3 DEF Keeps
  <2> QED BY <2>2, <2>4
<1>10. Keeps(l, k, m)
  BY <1>3, <1>8, <1>9 DEF Keeps
<1> QED BY <1>10 DEF m

\* The bins in use of a merge are those the first bins of the one and the last of the other
\* go into: as many as there are items for again.
LEMMA MergeThin ==
  ASSUME NEW k \in Nat, NEW n \in Nat, NEW l \in [1..n -> Nat \ {0}],
         NEW s, NEW t, Keeps(l, k, s), Keeps(l, k, t), Descending(s), Descending(t),
         Descending(Merge(s, t)), Thin(k, s), Thin(k, t), ItemsIn(s) \cap ItemsIn(t) = {}
  PROVE  Thin(k, Merge(s, t))
<1> DEFINE m == Merge(s, t)
           a == Cardinality(InUse(s))
           b == Cardinality(InUse(t))
           x == Cardinality(ItemsIn(s))
           y == Cardinality(ItemsIn(t))
<1>0. l \in [1..n -> Nat]
  OBVIOUS
<1>1. Keeps(l, k, m)
  BY <1>0, MergeKeeps
<1>2. PICK p : Pairing(k, s, t, p)
  BY MergePairs DEF Keeps
<1>3. /\ \A i \in 1..k : i \in InUse(s) <=> ItemsOf(s[i]) # {}
      /\ a \in 0..k /\ InUse(s) = 1..a /\ IsFiniteSet(ItemsIn(s)) /\ x \in Nat
  BY FirstInUse
<1>4. /\ \A i \in 1..k : i \in InUse(t) <=> ItemsOf(t[i]) # {}
      /\ b \in 0..k /\ InUse(t) = 1..b /\ IsFiniteSet(ItemsIn(t)) /\ y \in Nat
  BY FirstInUse
<1>5. \A i \in 1..k : i \in InUse(m) <=> ItemsOf(m[i]) # {}
  BY <1>1, FirstInUse
<1>6. Cardinality(ItemsIn(m)) = x + y
  <2>1. ItemsIn(m) = ItemsIn(s) \cup ItemsIn(t)
    BY MergeKeepsItems DEF Keeps
  <2>2. Cardinality(ItemsIn(s) \cup ItemsIn(t)) = x + y - Cardinality(ItemsIn(s) \cap ItemsIn(t))
    BY <1>3, <1>4, FS_Union
  <2>3. Cardinality(ItemsIn(s) \cap ItemsIn(t)) = 0
    BY FS_EmptySet
  <2> HIDE DEF x, y
  <2> QED BY <1>3, <1>4, <2>1, <2>2, <2>3
<1>7. a = Min({k, x}) /\ b = Min({k, y})
  BY DEF Thin
<1> HIDE DEF m, a, b, x, y
<1>8. a = (IF k <= x THEN k ELSE x) /\ b = (IF k <= y THEN k ELSE y)
  BY <1>3, <1>4, <1>7, MinPair
<1> DEFINE E == {q \in 1..k : q <= a \/ k + 1 - q <= b}
<1>9. InUse(m) = {i \in 1..k : p[i] \in E}
  <2>1. InUse(m) \subseteq 1..k
    BY <1>1 DEF InUse, Keeps, Solutions
  <2>2. ASSUME NEW i \in 1..k PROVE i \in InUse(m) <=> p[i] \in E
    <3> DEFINE u == p[i]
               v == k + 1 - p[i]
    <3>1. u \in 1..k /\ v \in 1..k /\ ItemsOf(m[i]) = ItemsOf(s[u]) \cup ItemsOf(t[v])
      <4>1. u \in 1..k /\ ItemsOf(m[i]) = ItemsOf(s[u]) \cup ItemsOf(t[v])
        BY <1>2 DEF Pairing, m
      <4> QED BY <4>1
    <3>2. p[i] \in E <=> u <= a \/ v <= b
      BY <3>1
    <3> HIDE DEF u, v, E
    <3>3. i \in InUse(m) <=> u \in InUse(s) \/ v \in InUse(t)
      BY <1>3, <1>4, <1>5, <3>1
    <3>4. /\ u \in InUse(s) <=> u <= a
          /\ v \in InUse(t) <=> v <= b
      BY <1>3, <1>4, <3>1
    <3> QED BY <3>2, <3>3, <3>4
  <2> HIDE DEF E
  <2> QED BY <2>1, <2>2
<1>10. Cardinality(E) = IF a + b <= k THEN a + b ELSE k
  BY <1>3, <1>4, BothEnds
<1>11. Cardinality(InUse(m)) = Cardinality(E)
  <2>1. Onto(k, p)
    BY <1>2 DEF Pairing, Onto
  <2>2. Into(k, p, InUse(m), E)
    BY <1>9 DEF Into
  <2> QED BY <2>1, <2>2, Preimage
<1> HIDE DEF E
<1>12. Cardinality(InUse(m)) = IF k <= x + y THEN k ELSE x + y
  BY <1>3, <1>4, <1>8, <1>10, <1>11
<1>13. Min({k, x + y}) = IF k <= x + y THEN k ELSE x + y
  BY <1>3, <1>4, MinPair
<1>14. Thin(k, m)
  BY <1>6, <1>12, <1>13 DEF Thin
<1> QED BY <1>14 DEF m

\* The heap while karmarkar_karp spreads items of the lengths l over k bins: sorted solutions
\* whose spread is at most the longest item, which keep account of their items, share none,
\* and have all of them between them.
Spreading(l, k, heap) ==
  /\ IsFiniteSet(heap)
  /\ \A s \in heap : /\ s \in BalancedWithin(k, Max(Range(l)))
                     /\ Keeps(l, k, s) /\ Thin(k, s)
  /\ \A s, t \in heap : s # t => ItemsIn(s) \cap ItemsIn(t) = {}
  /\ UNION {ItemsIn(s) : s \in heap} = DOMAIN l

\* The longest of a batch that is not empty.
LEMMA LongestItem ==
  ASSUME NEW n \in Nat \ {0}, NEW l \in [1..n -> Nat]
  PROVE  Max(Range(l)) \in Nat /\ \A i \in 1..n : l[i] <= Max(Range(l))
<1>1. Range(l) \in SUBSET Nat /\ Range(l) # {} /\ \A i \in 1..n : l[i] \in Range(l)
  <2>1. 1 \in 1..n /\ DOMAIN l = 1..n
    OBVIOUS
  <2> QED BY <2>1 DEF Range
<1>2. IsFiniteSet(Range(l))
  <2>1. l \in Surjection(1..n, Range(l))
    BY DEF Surjection, Range
  <2>2. IsFiniteSet(1..n)
    BY FS_Interval
  <2> QED BY <2>1, <2>2, FS_Surjection
<1>3. Max(Range(l)) \in Range(l) /\ \A y \in Range(l) : y <= Max(Range(l))
  BY <1>1, <1>2, Largest
<1> QED BY <1>1, <1>3

\* The loop starts with one solution for each item.
LEMMA StartsSpreading ==
  ASSUME NEW n \in Nat \ {0}, NEW l \in [1..n -> Nat \ {0}], NEW k \in Nat \ {0}
  PROVE  Spreading(l, k, Singletons(l, k))
<1> DEFINE d == Max(Range(l))
           one(j) == [i \in 1..k |-> IF i = 1 THEN Bin(l, j) ELSE NoItems]
<1>1. l \in [1..n -> Nat] /\ DOMAIN l = 1..n /\ n \in Nat /\ k \in Nat
  OBVIOUS
<1>2. d \in Nat /\ \A i \in 1..n : l[i] <= d
  BY <1>1, LongestItem
<1> HIDE DEF d
<1>3. Singletons(l, k) \subseteq BalancedWithin(k, d)
  BY <1>1, <1>2, SingletonsBalanced
<1>4. Singletons(l, k) = {one(j) : j \in 1..n}
  BY <1>1 DEF Singletons
<1>5. IsFiniteSet(Singletons(l, k))
  <2> DEFINE f == [j \in 1..n |-> one(j)]
  <2>1. f \in Surjection(1..n, Singletons(l, k))
    <3> HIDE DEF one
    <3> QED BY <1>4 DEF Surjection
  <2>2. IsFiniteSet(1..n)
    BY FS_Interval
  <2> HIDE DEF f
  <2> QED BY <2>1, <2>2, FS_Surjection
<1>6. ASSUME NEW j \in 1..n
      PROVE  /\ one(j) \in Solutions(k) /\ DOMAIN one(j) = 1..k
             /\ one(j)[1] = Bin(l, j) /\ \A i \in 1..k : i # 1 => one(j)[i] = NoItems
             /\ ItemsOf(one(j)[1]) = {j} /\ \A i \in 1..k : i # 1 => ItemsOf(one(j)[i]) = {}
             /\ ItemsIn(one(j)) = {j} /\ InUse(one(j)) = {1}
  <2>1. Bin(l, j) \in Bins /\ NoItems \in Bins /\ 1 \in 1..k
    BY DEF Bin, NoItems, Bins
  <2>2. ItemsOf(Bin(l, j)) = {j} /\ ItemsOf(NoItems) = {}
    BY DEF Bin, NoItems, ItemsOf, Range
  <2>3. Bin(l, j).items # <<>> /\ NoItems.items = <<>>
    BY DEF Bin, NoItems
  <2>4. one(j) \in Solutions(k) /\ DOMAIN one(j) = 1..k
    BY <2>1 DEF Solutions
  <2>5. one(j)[1] = Bin(l, j) /\ \A i \in 1..k : i # 1 => one(j)[i] = NoItems
    BY <2>1
  <2> HIDE DEF one
  <2> QED BY <2>1, <2>2, <2>3, <2>4, <2>5 DEF ItemsIn, InUse
<1> HIDE DEF one
<1>7. ASSUME NEW j \in 1..n PROVE Keeps(l, k, one(j)) /\ Thin(k, one(j))
  <2>1. Bin(l, j).sum = l[j] /\ NoItems.sum = 0
    BY DEF Bin, NoItems
  <2>2. SumFunctionOnSet(l, {j}) = l[j] /\ SumFunctionOnSet(l, {}) = 0
    BY SumSingleton, SumEmpty
  <2>3. Keeps(l, k, one(j))
    <3>1. ASSUME NEW i \in 1..k
          PROVE  /\ ItemsOf(one(j)[i]) \subseteq DOMAIN l
                 /\ one(j)[i].sum = SumFunctionOnSet(l, ItemsOf(one(j)[i]))
      <4>1. CASE i = 1
        <5>1. one(j)[i] = Bin(l, j) /\ ItemsOf(one(j)[i]) = {j}
          BY <1>6, <4>1
        <5> QED BY <1>1, <2>1, <2>2, <5>1
      <4>2. CASE i # 1
        <5>1. one(j)[i] = NoItems /\ ItemsOf(one(j)[i]) = {}
          BY <1>6, <4>2
        <5> QED BY <2>1, <2>2, <5>1
      <4> QED BY <4>1, <4>2
    <3>2. \A i, h \in 1..k : i # h => ItemsOf(one(j)[i]) \cap ItemsOf(one(j)[h]) = {}
      <4>1. \A i \in 1..k : i # 1 => ItemsOf(one(j)[i]) = {}
        BY <1>6
      <4> QED BY <4>1
    <3>3. one(j) \in Solutions(k)
      BY <1>6
    <3> QED BY <3>1, <3>2, <3>3 DEF Keeps
  <2>4. Cardinality({j}) = 1 /\ Cardinality({1}) = 1
    BY FS_Singleton
  <2>5. Min({k, 1}) = 1
    BY MinPair
  <2> QED BY <1>6, <2>3, <2>4, <2>5 DEF Thin
<1>8. \A j, h \in 1..n : one(j) # one(h) => ItemsIn(one(j)) \cap ItemsIn(one(h)) = {}
  BY <1>6
<1>9. UNION {ItemsIn(s) : s \in {one(j) : j \in 1..n}} = 1..n
  <2>1. \A s \in {one(j) : j \in 1..n} : ItemsIn(s) \subseteq 1..n
    BY <1>6
  <2>2. \A j \in 1..n : one(j) \in {one(h) : h \in 1..n} /\ j \in ItemsIn(one(j))
    BY <1>6
  <2> QED BY <2>1, <2>2
<1> QED BY <1>1, <1>3, <1>4, <1>5, <1>7, <1>8, <1>9 DEF Spreading, d

\* A round keeps what holds of the heap.
LEMMA RoundSpreads ==
  ASSUME NEW n \in Nat \ {0}, NEW l \in [1..n -> Nat \ {0}], NEW k \in Nat \ {0},
         NEW heap, Spreading(l, k, heap), NEW s, NEW t, Popped(heap, s, t)
  PROVE  Spreading(l, k, Round(heap, s, t))
<1> DEFINE m == Merge(s, t)
           d == Max(Range(l))
           after == Round(heap, s, t)
<1>1. l \in [1..n -> Nat] /\ k \in Nat /\ n \in Nat
  OBVIOUS
<1>2. d \in Nat
  BY <1>1, LongestItem
<1>3. s \in heap /\ t \in heap /\ s # t
  BY DEF Popped
<1>4. /\ s \in BalancedWithin(k, d) /\ Keeps(l, k, s) /\ Thin(k, s)
      /\ t \in BalancedWithin(k, d) /\ Keeps(l, k, t) /\ Thin(k, t)
      /\ ItemsIn(s) \cap ItemsIn(t) = {}
  BY <1>3 DEF Spreading
<1>5. heap \in SUBSET BalancedWithin(k, d)
  BY DEF Spreading
<1> HIDE DEF d
<1>6. /\ after \subseteq BalancedWithin(k, d)
      /\ UNION {ItemsIn(u) : u \in after} = UNION {ItemsIn(u) : u \in heap}
  BY <1>2, <1>5, RoundKeepsBalance
<1>7. m \in BalancedWithin(k, d)
  BY <1>2, <1>4, MergeKeepsSpread
<1>8. Keeps(l, k, m)
  BY <1>1, <1>4, MergeKeeps
<1>9. Thin(k, m)
  <2>1. Descending(s) /\ Descending(t) /\ Descending(m)
    BY <1>4, <1>7 DEF BalancedWithin
  <2> QED BY <1>1, <1>4, <2>1, MergeThin
<1>10. ItemsIn(m) = ItemsIn(s) \cup ItemsIn(t)
  BY <1>1, <1>4, MergeKeepsItems DEF Keeps
<1> HIDE DEF m
<1>11. after = (heap \ {s, t}) \cup {m}
  BY DEF Round, m
<1> HIDE DEF after
<1>12. IsFiniteSet(after)
  <2>1. IsFiniteSet(heap) /\ heap \ {s, t} \in SUBSET heap
    BY DEF Spreading
  <2>2. IsFiniteSet(heap \ {s, t})
    BY <2>1, FS_Subset
  <2> QED BY <1>11, <2>2, FS_AddElement
<1>13. \A u \in after : u \in BalancedWithin(k, d) /\ Keeps(l, k, u) /\ Thin(k, u)
  BY <1>6, <1>8, <1>9, <1>11 DEF Spreading
<1>14. ASSUME NEW u \in after, NEW v \in after, u # v PROVE ItemsIn(u) \cap ItemsIn(v) = {}
  <2>1. \A x \in heap \ {s, t} : ItemsIn(x) \cap ItemsIn(m) = {}
    BY <1>3, <1>10 DEF Spreading
  <2>2. \A x, y \in heap \ {s, t} : x # y => ItemsIn(x) \cap ItemsIn(y) = {}
    BY DEF Spreading
  <2> QED BY <1>11, <1>14, <2>1, <2>2
<1>15. UNION {ItemsIn(u) : u \in after} = DOMAIN l
  BY <1>6 DEF Spreading
<1> QED BY <1>12, <1>13, <1>14, <1>15 DEF Spreading, d, after

\* What is left when one solution is: a partition of the items, no part empty if there are
\* items enough, and no two parts further apart than the longest item.
LEMMA SpreadOut ==
  ASSUME NEW n \in Nat \ {0}, NEW l \in [1..n -> Nat \ {0}], NEW k \in Nat \ {0}, k <= n,
         NEW heap, Spreading(l, k, heap), Cardinality(heap) = 1, NEW s \in heap
  PROVE  /\ Partitions(s) \in [1..k -> (SUBSET (1..n)) \ {{}}]
         /\ \A i, j \in 1..k : i # j => Partitions(s)[i] \cap Partitions(s)[j] = {}
         /\ UNION Range(Partitions(s)) = 1..n
         /\ \A p, q \in Range(Partitions(s)) :
              SumFunctionOnSet(l, p) - SumFunctionOnSet(l, q) <= Max(Range(l))
<1> DEFINE d == Max(Range(l))
           parts == Partitions(s)
<1>1. l \in [1..n -> Nat] /\ k \in Nat /\ n \in Nat /\ DOMAIN l = 1..n
  OBVIOUS
<1>2. d \in Nat
  BY <1>1, LongestItem
<1>3. s \in BalancedWithin(k, d) /\ Keeps(l, k, s) /\ Thin(k, s)
  BY DEF Spreading
<1> HIDE DEF d
<1>4. heap = {s}
  BY FS_Singleton DEF Spreading
<1>5. ItemsIn(s) = 1..n
  BY <1>1, <1>4 DEF Spreading
<1>6. s \in Solutions(k) /\ Descending(s) /\ DOMAIN s = 1..k /\ Len(s) = k
  BY <1>3 DEF BalancedWithin, Solutions
<1>7. DOMAIN parts = 1..k /\ \A i \in 1..k : parts[i] = ItemsOf(s[i])
  BY <1>6 DEF Partitions
<1> HIDE DEF parts
<1>8. Range(parts) = {ItemsOf(s[i]) : i \in 1..k}
  BY <1>7 DEF Range
<1>9. UNION Range(parts) = 1..n
  BY <1>5, <1>6, <1>8 DEF ItemsIn
<1>10. \A i \in 1..k : ItemsOf(s[i]) # {}
  <2>1. /\ \A i \in 1..k : i \in InUse(s) <=> ItemsOf(s[i]) # {}
        /\ InUse(s) = 1..Cardinality(InUse(s))
    BY <1>1, <1>3, <1>6, FirstInUse
  <2>2. Cardinality(1..n) = n
    BY FS_Interval
  <2>3. Min({k, n}) = k
    BY MinPair
  <2>4. Cardinality(InUse(s)) = k
    BY <1>3, <1>5, <2>2, <2>3 DEF Thin
  <2> QED BY <2>1, <2>4
<1>11. \A i \in 1..k : ItemsOf(s[i]) \in SUBSET (1..n)
  BY <1>1, <1>3 DEF Keeps
<1>12. parts \in [1..k -> (SUBSET (1..n)) \ {{}}]
  <2>1. parts = [i \in 1..k |-> ItemsOf(s[i])]
    <3>1. parts = [i \in 1..Len(s) |-> ItemsOf(s[i])]
      BY DEF parts, Partitions
    <3> QED BY <1>6, <3>1
  <2>2. \A i \in 1..k : ItemsOf(s[i]) \in (SUBSET (1..n)) \ {{}}
    BY <1>10, <1>11
  <2> QED BY <2>1, <2>2
<1>13. \A i, j \in 1..k : i # j => parts[i] \cap parts[j] = {}
  BY <1>3, <1>7 DEF Keeps
<1>14. ASSUME NEW p \in Range(parts), NEW q \in Range(parts)
       PROVE  SumFunctionOnSet(l, p) - SumFunctionOnSet(l, q) <= d
  <2>1. PICK i \in 1..k, j \in 1..k : p = ItemsOf(s[i]) /\ q = ItemsOf(s[j])
    BY <1>8
  <2>2. s[i].sum = SumFunctionOnSet(l, p) /\ s[j].sum = SumFunctionOnSet(l, q)
    BY <1>3, <2>1 DEF Keeps
  <2>3. s[i].sum \in Nat /\ s[j].sum \in Nat
    BY <1>6 DEF Solutions, Bins
  <2>4. \A a, b \in 1..k : a <= b => s[b].sum <= s[a].sum /\ s[a].sum - s[b].sum <= d
    BY <1>1, <1>2, <1>3, SpreadBounds
  <2>5. CASE i <= j
    BY <2>2, <2>4, <2>5
  <2>6. CASE j <= i
    <3>1. s[i].sum <= s[j].sum
      BY <2>4, <2>6
    <3> QED BY <1>2, <2>2, <2>3, <3>1
  <2> QED BY <2>5, <2>6
<1> QED BY <1>9, <1>12, <1>13, <1>14 DEF parts, d

-----------------------------------------------------------------------------
(***************************************************************************)
(* Sums under other names, of multiples and of distances                   *)
(***************************************************************************)

\* Taking one element out of a sum of integers.
LEMMA SumStep ==
  ASSUME NEW f, NEW s, NEW x, IsFiniteSet(s), x \notin s, \A i \in s \cup {x} : f[i] \in Int
  PROVE  /\ SumFunctionOnSet(f, s) \in Int
         /\ SumFunctionOnSet(f, s \cup {x}) = f[x] + SumFunctionOnSet(f, s)
<1> DEFINE T == s \cup {x}
<1>1. IsFiniteSet(T) /\ T \ {x} = s /\ x \in T /\ (\A i \in T : f[i] \in Int)
      /\ \A i \in s : f[i] \in Int
  BY FS_AddElement
<1> HIDE DEF T
<1>2. SumFunctionOnSet(f, T) = f[x] + SumFunctionOnSet(f, T \ {x})
  BY <1>1, SumAny
<1>3. SumFunctionOnSet(f, s) \in Int
  BY <1>1, SumInt
<1>4. SumFunctionOnSet(f, T) = f[x] + SumFunctionOnSet(f, s)
  BY <1>1, <1>2, Zenon
<1> QED BY <1>3, <1>4 DEF T

\* A sum over other names for the same terms.
LEMMA SumMoved ==
  ASSUME NEW S, NEW T, NEW f, NEW g, NEW p, IsFiniteSet(S), p \in [S -> T],
         \A i, j \in S : p[i] = p[j] => i = j, \A l \in T : \E i \in S : p[i] = l,
         \A l \in T : f[l] \in Int, \A i \in S : g[i] = f[p[i]]
  PROVE  SumFunctionOnSet(g, S) = SumFunctionOnSet(f, T)
<1> DEFINE Moved(s) == {p[i] : i \in s}
           F == {s \in SUBSET S : IsFiniteSet(s) /\ IsFiniteSet(Moved(s))
                                  /\ SumFunctionOnSet(g, s) = SumFunctionOnSet(f, Moved(s))}
<1>1. {} \in F
  <2>1. Moved({}) = {}
    OBVIOUS
  <2> QED BY <2>1, SumEmpty, FS_EmptySet
<1>2. ASSUME NEW s \in SUBSET S, NEW x \in S, IsFiniteSet(s), s \in F, x \notin s
      PROVE  s \cup {x} \in F
  <2>1. Moved(s \cup {x}) = Moved(s) \cup {p[x]}
    OBVIOUS
  <2>2. p[x] \notin Moved(s) /\ g[x] = f[p[x]]
    BY <1>2
  <2>3. /\ \A i \in s \cup {x} : g[i] \in Int
        /\ \A l \in Moved(s) \cup {p[x]} : f[l] \in Int
    OBVIOUS
  <2>4. IsFiniteSet(Moved(s)) /\ SumFunctionOnSet(g, s) = SumFunctionOnSet(f, Moved(s))
    BY <1>2
  <2>5. IsFiniteSet(s \cup {x}) /\ IsFiniteSet(Moved(s) \cup {p[x]})
    BY <1>2, <2>4, FS_AddElement
  <2> HIDE DEF Moved
  <2>6. SumFunctionOnSet(g, s \cup {x}) = g[x] + SumFunctionOnSet(g, s)
    BY <1>2, <2>3, SumStep
  <2>7. SumFunctionOnSet(f, Moved(s) \cup {p[x]}) = f[p[x]] + SumFunctionOnSet(f, Moved(s))
    BY <2>2, <2>3, <2>4, SumStep
  <2> QED BY <2>1, <2>2, <2>4, <2>5, <2>6, <2>7
<1> HIDE DEF F
<1>3. S \in F
  BY <1>1, <1>2, FiniteInduction
<1>4. Moved(S) = T
  OBVIOUS
<1> QED BY <1>3, <1>4 DEF F

\* A sum over other functions with the same terms.
LEMMA SumSame ==
  ASSUME NEW S, NEW f, NEW g, IsFiniteSet(S), \A i \in S : f[i] \in Int /\ g[i] = f[i]
  PROVE  SumFunctionOnSet(g, S) = SumFunctionOnSet(f, S)
<1> DEFINE p == [i \in S |-> i]
<1>1. /\ p \in [S -> S] /\ \A i, j \in S : p[i] = p[j] => i = j
      /\ \A l \in S : \E i \in S : p[i] = l
      /\ \A l \in S : f[l] \in Int
      /\ \A i \in S : g[i] = f[p[i]]
  OBVIOUS
<1> HIDE DEF p
<1> QED BY <1>1, SumMoved

\* A sum of ones counts.
LEMMA SumOnes ==
  ASSUME NEW S, NEW f, IsFiniteSet(S), \A i \in S : f[i] = 1
  PROVE  SumFunctionOnSet(f, S) = Cardinality(S)
<1> DEFINE F == {s \in SUBSET S : IsFiniteSet(s) => SumFunctionOnSet(f, s) = Cardinality(s)}
<1>1. {} \in F
  BY SumEmpty, FS_EmptySet
<1>2. ASSUME NEW s \in SUBSET S, NEW x \in S, IsFiniteSet(s), s \in F, x \notin s
      PROVE  s \cup {x} \in F
  <2>1. Cardinality(s \cup {x}) = Cardinality(s) + 1 /\ Cardinality(s) \in Nat
    BY <1>2, FS_AddElement, FS_CardinalityType
  <2>2. \A i \in s \cup {x} : f[i] \in Int
    OBVIOUS
  <2>3. SumFunctionOnSet(f, s \cup {x}) = f[x] + SumFunctionOnSet(f, s)
    BY <1>2, <2>2, SumStep
  <2>4. SumFunctionOnSet(f, s) = Cardinality(s) /\ f[x] = 1
    BY <1>2
  <2> QED BY <2>1, <2>3, <2>4
<1> HIDE DEF F
<1>3. S \in F
  BY <1>1, <1>2, FiniteInduction
<1> QED BY <1>3 DEF F

\* The weighted distances from c: what they have in common is taken out of the sum.
LEMMA SumLead ==
  ASSUME NEW S, IsFiniteSet(S), NEW c \in Int, NEW w, NEW h, NEW d, NEW e,
         \A i \in S : w[i] \in Int /\ h[i] \in Int,
         \A i \in S : d[i] = w[i] * (c - h[i]) /\ e[i] = w[i] * h[i]
  PROVE  /\ SumFunctionOnSet(w, S) \in Int /\ SumFunctionOnSet(e, S) \in Int
         /\ SumFunctionOnSet(d, S) = SumFunctionOnSet(w, S) * c - SumFunctionOnSet(e, S)
<1>1. \A i \in S : w[i] \in Int /\ d[i] \in Int /\ e[i] \in Int /\ d[i] = w[i] * c - e[i]
  <2>1. \A a, b \in Int : a * (c - b) \in Int /\ a * b \in Int /\ a * (c - b) = a * c - a * b
    OBVIOUS
  <2> QED BY <2>1
<1> DEFINE Good(s) == SumFunctionOnSet(d, s) = SumFunctionOnSet(w, s) * c - SumFunctionOnSet(e, s)
           F == {s \in SUBSET S : Good(s)}
<1>2. {} \in F
  BY SumEmpty
<1>3. ASSUME NEW s \in SUBSET S, NEW x \in S, IsFiniteSet(s), s \in F, x \notin s
      PROVE  s \cup {x} \in F
  <2>1. \A i \in s \cup {x} : w[i] \in Int /\ d[i] \in Int /\ e[i] \in Int
    BY <1>1
  <2>2. /\ SumFunctionOnSet(d, s) \in Int
        /\ SumFunctionOnSet(d, s \cup {x}) = d[x] + SumFunctionOnSet(d, s)
        /\ SumFunctionOnSet(w, s) \in Int
        /\ SumFunctionOnSet(w, s \cup {x}) = w[x] + SumFunctionOnSet(w, s)
        /\ SumFunctionOnSet(e, s) \in Int
        /\ SumFunctionOnSet(e, s \cup {x}) = e[x] + SumFunctionOnSet(e, s)
    BY <1>3, <2>1, SumStep
  <2>3. SumFunctionOnSet(d, s) = SumFunctionOnSet(w, s) * c - SumFunctionOnSet(e, s)
    BY <1>3
  <2>4. d[x] = w[x] * c - e[x] /\ w[x] \in Int /\ e[x] \in Int
    BY <1>1
  <2>5. \A a, b \in Int : (a + b) * c = a * c + b * c /\ a * c \in Int
    OBVIOUS
  <2> HIDE DEF F, Good
  <2>6. Good(s \cup {x})
    BY <2>2, <2>3, <2>4, <2>5 DEF Good
  <2> QED BY <2>6 DEF F
<1> HIDE DEF F
<1>4. S \in F
  BY <1>2, <1>3, FiniteInduction
<1> QED BY <1>1, <1>4, SumInt DEF F

\* A sum of multiples.
LEMMA SumScaled ==
  ASSUME NEW S, IsFiniteSet(S), NEW c \in Int, NEW w, NEW d,
         \A i \in S : w[i] \in Int /\ d[i] = c * w[i]
  PROVE  SumFunctionOnSet(w, S) \in Int /\ SumFunctionOnSet(d, S) = c * SumFunctionOnSet(w, S)
<1>1. \A i \in S : w[i] \in Int /\ d[i] \in Int
  <2>1. \A a \in Int : c * a \in Int
    OBVIOUS
  <2> QED BY <2>1
<1> DEFINE Good(s) == SumFunctionOnSet(d, s) = c * SumFunctionOnSet(w, s)
           F == {s \in SUBSET S : Good(s)}
<1>2. {} \in F
  BY SumEmpty
<1>3. ASSUME NEW s \in SUBSET S, NEW x \in S, IsFiniteSet(s), s \in F, x \notin s
      PROVE  s \cup {x} \in F
  <2>1. \A i \in s \cup {x} : w[i] \in Int /\ d[i] \in Int
    BY <1>1
  <2>2. /\ SumFunctionOnSet(d, s \cup {x}) = d[x] + SumFunctionOnSet(d, s)
        /\ SumFunctionOnSet(w, s) \in Int
        /\ SumFunctionOnSet(w, s \cup {x}) = w[x] + SumFunctionOnSet(w, s)
    BY <1>3, <2>1, SumStep
  <2>3. SumFunctionOnSet(d, s) = c * SumFunctionOnSet(w, s)
    BY <1>3
  <2>4. d[x] = c * w[x] /\ w[x] \in Int
    OBVIOUS
  <2>5. \A a, b \in Int : c * (a + b) = c * a + c * b /\ c * a \in Int
    OBVIOUS
  <2> HIDE DEF F, Good
  <2>6. Good(s \cup {x})
    BY <2>2, <2>3, <2>4, <2>5 DEF Good
  <2> QED BY <2>6 DEF F
<1> HIDE DEF F
<1>4. S \in F
  BY <1>2, <1>3, FiniteInduction
<1> QED BY <1>1, <1>4, SumInt DEF F

-----------------------------------------------------------------------------
(***************************************************************************)
(* Loops that compute each value from the one before                       *)
(***************************************************************************)

\* Values of V computed one from the other: from b at 0 to the n-th.
Iterates(n, V, b, step, h) ==
  h \in [0..n -> V] /\ h[0] = b /\ \A i \in 1..n : h[i] = step[<<i, h[i - 1]>>]

\* A value that is computed in n steps, each from the one before, exists.
LEMMA IteratesExist ==
  ASSUME NEW n \in Nat, NEW V, NEW b \in V, NEW step \in [(1..n) \X V -> V]
  PROVE  \E h : Iterates(n, V, b, step, h)
<1> DEFINE N == {m \in Nat : m <= n => \E h : Iterates(m, V, b, step, h)}
<1>1. 0 \in N
  <2> DEFINE h == [i \in 0..0 |-> b]
  <2>1. Iterates(0, V, b, step, h)
    BY DEF Iterates
  <2> QED BY <2>1
<1>2. ASSUME NEW m \in Nat, m \in N PROVE m + 1 \in N
  <2> SUFFICES ASSUME m + 1 <= n PROVE \E h : Iterates(m + 1, V, b, step, h)
    OBVIOUS
  <2>1. PICK h : Iterates(m, V, b, step, h)
    BY <1>2
  <2>2. /\ h \in [0..m -> V] /\ h[0] = b /\ m \in 0..m /\ 0 \in 0..m
        /\ \A i \in 1..m : /\ h[i] = step[<<i, h[i - 1]>>]
                           /\ i \in 0..m /\ i - 1 \in 0..m /\ i # m + 1
    BY <2>1 DEF Iterates
  <2> DEFINE v == step[<<m + 1, h[m]>>]
             g == [i \in 0..m + 1 |-> IF i = m + 1 THEN v ELSE h[i]]
  <2>3. v \in V
    <3>1. m + 1 \in 1..n /\ h[m] \in V
      BY <2>2
    <3>2. <<m + 1, h[m]>> \in (1..n) \X V
      BY <3>1
    <3> QED BY <3>2
  <2>4. \A i \in 0..m + 1 : i = m + 1 \/ i \in 0..m
    OBVIOUS
  <2>5. g \in [0..m + 1 -> V]
    <3> HIDE DEF v
    <3> QED BY <2>2, <2>3, <2>4
  <2>6. g[m + 1] = v /\ \A i \in 0..m : g[i] = h[i]
    <3>1. m + 1 \in 0..m + 1 /\ \A i \in 0..m : i \in 0..m + 1 /\ i # m + 1
      OBVIOUS
    <3> HIDE DEF v
    <3> QED BY <3>1
  <2>7. \A i \in 1..m + 1 : i = m + 1 \/ i \in 1..m
    OBVIOUS
  <2>8. (m + 1) - 1 = m
    OBVIOUS
  <2> HIDE DEF g
  <2>9. ASSUME NEW i \in 1..m + 1 PROVE g[i] = step[<<i, g[i - 1]>>]
    <3>1. CASE i = m + 1
      BY <2>2, <2>6, <2>8, <3>1
    <3>2. CASE i \in 1..m
      <4> HIDE DEF v
      <4> QED BY <2>2, <2>6, <3>2
    <3> QED BY <2>7, <3>1, <3>2
  <2>10. g[0] = b
    <3> HIDE DEF v
    <3> QED BY <2>2, <2>6
  <2>11. Iterates(m + 1, V, b, step, g)
    BY <2>5, <2>9, <2>10 DEF Iterates
  <2> QED BY <2>11
<1> HIDE DEF N
<1>3. n \in N
  BY <1>1, <1>2, Inductive
<1> QED BY <1>3 DEF N

\* The same from the last place to the first, as a loop over reversed(range(n)) does.
Countdown(n, V, b, step, g) ==
  g \in [1..n + 1 -> V] /\ g[n + 1] = b /\ \A t \in 1..n : g[t] = step[<<t, g[t + 1]>>]

\* A loop from the last place to the first ends with a value at each.
LEMMA CountdownExists ==
  ASSUME NEW n \in Nat, NEW V, NEW b \in V, NEW step \in [(1..n) \X V -> V]
  PROVE  \E g : Countdown(n, V, b, step, g)
<1> DEFINE back == [x \in (1..n) \X V |-> step[<<n + 1 - x[1], x[2]>>]]
<1>1. \A i \in 1..n : n + 1 - i \in 1..n
  OBVIOUS
<1>2. /\ back \in [(1..n) \X V -> V]
      /\ \A i \in 1..n, v \in V : back[<<i, v>>] = step[<<n + 1 - i, v>>]
  <2>1. \A x \in (1..n) \X V : <<n + 1 - x[1], x[2]>> \in (1..n) \X V
    BY <1>1
  <2> QED BY <2>1
<1> HIDE DEF back
<1>3. PICK h : Iterates(n, V, b, back, h)
  BY <1>2, IteratesExist
<1>4. h \in [0..n -> V] /\ h[0] = b /\ \A i \in 1..n : h[i] = back[<<i, h[i - 1]>>]
  BY <1>3 DEF Iterates
<1> DEFINE g == [t \in 1..n + 1 |-> h[n + 1 - t]]
<1>5. \A t \in 1..n + 1 : n + 1 - t \in 0..n
  OBVIOUS
<1>6. g \in [1..n + 1 -> V]
  BY <1>4, <1>5
<1>7. g[n + 1] = b
  <2>1. n + 1 \in 1..n + 1 /\ n + 1 - (n + 1) = 0
    OBVIOUS
  <2> QED BY <1>4, <2>1
<1>8. ASSUME NEW t \in 1..n PROVE g[t] = step[<<t, g[t + 1]>>]
  <2> DEFINE i == n + 1 - t
  <2>1. /\ i \in 1..n /\ n + 1 - i = t /\ i - 1 = n + 1 - (t + 1) /\ i - 1 \in 0..n
        /\ t \in 1..n + 1 /\ t + 1 \in 1..n + 1
    OBVIOUS
  <2>2. g[t] = h[i] /\ g[t + 1] = h[i - 1]
    BY <2>1
  <2>3. h[i] = back[<<i, h[i - 1]>>] /\ h[i - 1] \in V
    BY <1>4, <2>1
  <2>4. back[<<i, h[i - 1]>>] = step[<<n + 1 - i, h[i - 1]>>]
    BY <1>2, <2>1, <2>3
  <2> HIDE DEF g, i
  <2> QED BY <2>1, <2>2, <2>3, <2>4
<1>9. Countdown(n, V, b, step, g)
  <2> HIDE DEF g
  <2> QED BY <1>6, <1>7, <1>8 DEF Countdown
<1> QED BY <1>9

\* The powers are what the recursion says.
LEMMA Powers ==
  ASSUME NEW x \in Int
  PROVE  \A n \in Nat : /\ Power(x, n) \in Int /\ Power(x, 0) = 1
                        /\ Power(x, n + 1) = x * Power(x, n)
<1> DEFINE Rec(n, p) == p = [i \in 0..n |-> IF i = 0 THEN 1 ELSE x * p[i - 1]]
           P(n) == CHOOSE p : Rec(n, p)
<1>1. ASSUME NEW n \in Nat
      PROVE  /\ Power(x, n) = P(n)[n] /\ P(n)[0] = 1
             /\ \A i \in 1..n : P(n)[i] = x * P(n)[i - 1]
             /\ \A i \in 0..n : P(n)[i] \in Int
  <2> DEFINE step == [y \in (1..n) \X Int |-> x * y[2]]
  <2>1. step \in [(1..n) \X Int -> Int] /\ \A i \in 1..n, v \in Int : step[<<i, v>>] = x * v
    OBVIOUS
  <2> HIDE DEF step
  <2> DEFINE V == Int
             b == 1
  <2>0. b \in V /\ step \in [(1..n) \X V -> V]
    BY <2>1
  <2> HIDE DEF V, b
  <2>2. PICK h : Iterates(n, V, b, step, h)
    BY <2>0, IteratesExist
  <2> USE DEF V, b
  <2>3. /\ h \in [0..n -> Int] /\ h[0] = 1 /\ \A i \in 1..n : h[i] = step[<<i, h[i - 1]>>]
        /\ \A i \in 0..n : i = 0 \/ (i \in 1..n /\ i - 1 \in 0..n)
    BY <2>2 DEF Iterates
  <2>4. \A i \in 1..n : h[i] = x * h[i - 1]
    <3> SUFFICES ASSUME NEW i \in 1..n PROVE h[i] = x * h[i - 1]
      OBVIOUS
    <3>1. i - 1 \in 0..n
      OBVIOUS
    <3>2. h[i - 1] \in Int
      BY <2>3, <3>1
    <3> QED BY <2>1, <2>3, <3>2
  <2>5. \A i \in 0..n : h[i] = IF i = 0 THEN 1 ELSE x * h[i - 1]
    BY <2>3, <2>4
  <2>6. Rec(n, h)
    BY <2>3, <2>5
  <2>7. Rec(n, P(n))
    <3> HIDE DEF Rec
    <3> QED BY <2>6
  <2>8. Power(x, n) = P(n)[n]
    BY Zenon DEF Power
  <2> DEFINE p == P(n)
  <2>9. p = [i \in 0..n |-> IF i = 0 THEN 1 ELSE x * p[i - 1]]
    BY <2>7
  <2> HIDE DEF p
  <2>10. p[0] = 1 /\ \A i \in 1..n : p[i] = x * p[i - 1]
    <3>1. 0 \in 0..n /\ \A i \in 1..n : i \in 0..n /\ i # 0
      OBVIOUS
    <3> QED BY <2>9, <3>1
  <2> DEFINE N == {i \in Nat : i <= n => p[i] \in Int}
  <2>11. \A i \in Nat : i \in N
    <3>1. 0 \in N
      BY <2>10
    <3>2. ASSUME NEW i \in Nat, i \in N PROVE i + 1 \in N
      <4> SUFFICES ASSUME i + 1 <= n PROVE p[i + 1] \in Int
        OBVIOUS
      <4>1. i + 1 \in 1..n /\ (i + 1) - 1 = i /\ p[i] \in Int
        BY <3>2
      <4> QED BY <2>10, <4>1
    <3> HIDE DEF N
    <3> QED BY <3>1, <3>2, Inductive
  <2>12. \A i \in 0..n : p[i] \in Int
    BY <2>11
  <2> QED BY <2>8, <2>10, <2>12 DEF p
<1> HIDE DEF P
<1>2. ASSUME NEW n \in Nat PROVE Power(x, n + 1) = x * Power(x, n)
  <2> DEFINE p == P(n)
             q == P(n + 1)
             N == {i \in Nat : i <= n => q[i] = p[i]}
  <2>1. n + 1 \in Nat /\ n + 1 \in 1..n + 1 /\ (n + 1) - 1 = n
    OBVIOUS
  <2>2. /\ Power(x, n) = p[n] /\ p[0] = 1 /\ \A i \in 1..n : p[i] = x * p[i - 1]
    BY <1>1
  <2>3. /\ Power(x, n + 1) = q[n + 1] /\ q[0] = 1 /\ \A i \in 1..n + 1 : q[i] = x * q[i - 1]
    BY <1>1, <2>1
  <2> HIDE DEF p, q
  <2>4. 0 \in N
    BY <2>2, <2>3
  <2>5. ASSUME NEW i \in Nat, i \in N PROVE i + 1 \in N
    <3> SUFFICES ASSUME i + 1 <= n PROVE q[i + 1] = p[i + 1]
      OBVIOUS
    <3>1. i + 1 \in 1..n /\ i + 1 \in 1..n + 1 /\ (i + 1) - 1 = i /\ q[i] = p[i]
      BY <2>5
    <3>2. q[i + 1] = x * q[i] /\ p[i + 1] = x * p[i]
      BY <2>2, <2>3, <3>1
    <3> QED BY <3>1, <3>2
  <2>6. n \in N
    <3> HIDE DEF N
    <3> QED BY <2>4, <2>5, Inductive
  <2>7. q[n] = p[n]
    BY <2>6
  <2>8. q[n + 1] = x * q[n]
    BY <2>1, <2>3
  <2> QED BY <2>2, <2>3, <2>7, <2>8
<1>3. \A n \in Nat : Power(x, n) \in Int
  <2> SUFFICES ASSUME NEW n \in Nat PROVE Power(x, n) \in Int
    OBVIOUS
  <2>1. n \in 0..n
    OBVIOUS
  <2> QED BY <1>1, <2>1
<1>4. Power(x, 0) = 1
  BY <1>1
<1> QED BY <1>2, <1>3, <1>4

-----------------------------------------------------------------------------
(***************************************************************************)
(* What the estimators of core_algos compute, for every response mask and  *)
(* every order of the rows: a response is rated among its siblings, which  *)
(* are wherever _balance_batch has put them.                               *)
(***************************************************************************)

\* A response mask of n tokens.
IsMask(mask, n) == n \in Nat /\ mask \in [1..n -> BOOLEAN]

\* The tokens the model generated from one token on.
LEMMA TrainedTokens ==
  ASSUME NEW n, NEW mask, IsMask(mask, n)
  PROVE  /\ TrainedFrom(mask, n + 1) = {}
         /\ \A t \in 1..n + 1 : TrainedFrom(mask, t) \in SUBSET (t..n)
                                /\ IsFiniteSet(TrainedFrom(mask, t))
         /\ \A t \in 1..n : /\ t \notin TrainedFrom(mask, t + 1)
                            /\ mask[t] => TrainedFrom(mask, t) = TrainedFrom(mask, t + 1) \cup {t}
                            /\ ~mask[t] => TrainedFrom(mask, t) = TrainedFrom(mask, t + 1)
<1>1. n \in Nat /\ DOMAIN mask = 1..n
  BY DEF IsMask
<1>2. TrainedFrom(mask, n + 1) = {}
  BY <1>1 DEF TrainedFrom
<1>3. ASSUME NEW t \in 1..n + 1 PROVE TrainedFrom(mask, t) \in SUBSET (t..n)
  BY <1>1 DEF TrainedFrom
<1>4. ASSUME NEW t \in 1..n + 1 PROVE IsFiniteSet(TrainedFrom(mask, t))
  <2>1. t \in Int /\ n \in Int
    BY <1>1
  <2>2. IsFiniteSet(t..n)
    BY <2>1, FS_Interval
  <2> QED BY <1>3, <2>2, FS_Subset
<1>5. ASSUME NEW t \in 1..n
      PROVE  /\ t \notin TrainedFrom(mask, t + 1)
             /\ mask[t] => TrainedFrom(mask, t) = TrainedFrom(mask, t + 1) \cup {t}
             /\ ~mask[t] => TrainedFrom(mask, t) = TrainedFrom(mask, t + 1)
  <2>1. \A u \in 1..n : u >= t <=> u = t \/ u >= t + 1
    BY <1>1
  <2>2. ~(t >= t + 1)
    OBVIOUS
  <2> QED BY <1>1, <2>1, <2>2 DEF TrainedFrom
<1> QED BY <1>2, <1>3, <1>4, <1>5

\* The discounted sums of the tokens of a mask, each by the next.
DiscountedIs(mask, n, rate, f) ==
  /\ \A t \in 1..n + 1 : Discounted(mask, rate, f, t) \in Int
  /\ Discounted(mask, rate, f, n + 1) = 0
  /\ \A t \in 1..n : IF mask[t] THEN Discounted(mask, rate, f, t)
                                       = f[t] + rate * Discounted(mask, rate, f, t + 1)
                     ELSE Discounted(mask, rate, f, t) = Discounted(mask, rate, f, t + 1)

\* The discounted sum from one token on, by that of the next.
LEMMA DiscountedStep ==
  ASSUME NEW n, NEW mask, IsMask(mask, n), NEW rate \in Int, NEW f, \A u \in 1..n : f[u] \in Int
  PROVE  DiscountedIs(mask, n, rate, f)
<1> DEFINE TF(t) == TrainedFrom(mask, t)
           g(t) == [u \in TF(t) |-> Power(rate, Between(mask, t, u)) * f[u]]
           D(t) == SumFunctionOnSet(g(t), TF(t))
<1>0. n \in Nat
  BY DEF IsMask
<1>1. /\ TF(n + 1) = {}
      /\ \A t \in 1..n + 1 : TF(t) \in SUBSET (t..n) /\ IsFiniteSet(TF(t))
      /\ \A t \in 1..n : /\ t \notin TF(t + 1)
                         /\ mask[t] => TF(t) = TF(t + 1) \cup {t}
                         /\ ~mask[t] => TF(t) = TF(t + 1)
  BY TrainedTokens
<1>2. \A t : Discounted(mask, rate, f, t) = D(t)
  BY DEF Discounted
<1>3. \A t, u : Between(mask, t, u) = Cardinality(TF(t) \ TF(u))
  BY DEF Between
<1> HIDE DEF TF
<1>4. \A t \in 1..n + 1 : \A u \in TF(t) : u \in 1..n /\ u >= t
  <2> SUFFICES ASSUME NEW t \in 1..n + 1, NEW u \in TF(t) PROVE u \in 1..n /\ u >= t
    OBVIOUS
  <2>1. u \in t..n
    BY <1>1
  <2> QED BY <1>0, <2>1
<1>5. ASSUME NEW t \in 1..n + 1, NEW u \in 1..n PROVE Between(mask, t, u) \in Nat
  <2>1. IsFiniteSet(TF(t) \ TF(u))
    BY <1>1, FS_Difference
  <2> QED BY <1>3, <2>1, FS_CardinalityType
<1>6. ASSUME NEW t \in 1..n + 1 PROVE \A u \in TF(t) : g(t)[u] \in Int
  <2> SUFFICES ASSUME NEW u \in TF(t) PROVE g(t)[u] \in Int
    OBVIOUS
  <2>1. Power(rate, Between(mask, t, u)) \in Int /\ f[u] \in Int
    BY <1>4, <1>5, Powers
  <2>2. \A a, b \in Int : a * b \in Int
    OBVIOUS
  <2> QED BY <2>1, <2>2
<1>7. \A t \in 1..n + 1 : D(t) \in Int
  <2> SUFFICES ASSUME NEW t \in 1..n + 1 PROVE D(t) \in Int
    OBVIOUS
  <2>1. IsFiniteSet(TF(t)) /\ \A u \in TF(t) : g(t)[u] \in Int
    BY <1>1, <1>6
  <2> HIDE DEF g
  <2> QED BY <2>1, SumInt
<1>8. D(n + 1) = 0
  BY <1>1, SumEmpty
<1>9. ASSUME NEW t \in 1..n, ~mask[t] PROVE D(t) = D(t + 1)
  <2>1. TF(t) = TF(t + 1)
    BY <1>1, <1>9
  <2>2. g(t) = g(t + 1)
    <3>1. \A u : Between(mask, t, u) = Between(mask, t + 1, u)
      BY <1>3, <2>1
    <3> QED BY <2>1, <3>1
  <2> HIDE DEF g
  <2> QED BY <2>1, <2>2
<1>10. ASSUME NEW t \in 1..n, mask[t] PROVE D(t) = f[t] + rate * D(t + 1)
  <2> DEFINE S == TF(t + 1)
             d == g(t)
             w == g(t + 1)
  <2>1. TF(t) = S \cup {t} /\ t \notin S /\ IsFiniteSet(S) /\ t \in 1..n + 1 /\ t + 1 \in 1..n + 1
    BY <1>0, <1>1, <1>10
  <2>2. d[t] = f[t]
    <3>1. TF(t) \ TF(t) = {} /\ Cardinality({}) = 0
      BY FS_EmptySet
    <3>2. Between(mask, t, t) = 0
      BY <1>3, <3>1
    <3>3. Power(rate, 0) = 1
      BY Powers
    <3>4. t \in TF(t) /\ f[t] \in Int
      BY <2>1
    <3> QED BY <3>2, <3>3, <3>4
  <2>3. ASSUME NEW u \in S PROVE w[u] \in Int /\ d[u] = rate * w[u]
    <3>1. u \in 1..n /\ u >= t + 1 /\ u \in TF(t)
      BY <1>4, <2>1
    <3>2. t \notin TF(u)
      <4>1. t \in Nat /\ u \in Nat /\ u \in 1..n + 1 /\ ~(t >= u)
        BY <1>0, <3>1
      <4> QED BY <1>4, <4>1
    <3>3. TF(t) \ TF(u) = (S \ TF(u)) \cup {t} /\ t \notin S \ TF(u)
      BY <2>1, <3>2
    <3>4. IsFiniteSet(S \ TF(u))
      BY <2>1, FS_Difference
    <3>5. Cardinality(TF(t) \ TF(u)) = Cardinality(S \ TF(u)) + 1
      BY <3>3, <3>4, FS_AddElement
    <3> DEFINE k == Between(mask, t + 1, u)
    <3>6. k \in Nat /\ Between(mask, t, u) = k + 1
      BY <1>3, <1>5, <2>1, <3>1, <3>5
    <3> HIDE DEF k
    <3>7. Power(rate, k + 1) = rate * Power(rate, k) /\ Power(rate, k) \in Int /\ f[u] \in Int
      BY <3>1, <3>6, Powers
    <3>8. d[u] = Power(rate, k + 1) * f[u] /\ w[u] = Power(rate, k) * f[u]
      BY <3>1, <3>6 DEF k
    <3>9. \A a, b \in Int : a * b \in Int /\ (rate * a) * b = rate * (a * b)
      OBVIOUS
    <3> HIDE DEF d, w
    <3> QED BY <3>7, <3>8, <3>9
  <2>4. \A u \in S \cup {t} : d[u] \in Int
    BY <1>6, <2>1
  <2> HIDE DEF d, w, S
  <2>5. SumFunctionOnSet(d, S \cup {t}) = d[t] + SumFunctionOnSet(d, S)
    BY <2>1, <2>4, SumStep
  <2>6. SumFunctionOnSet(d, S) = rate * SumFunctionOnSet(w, S)
    BY <2>1, <2>3, SumScaled
  <2>7. D(t) = SumFunctionOnSet(d, S \cup {t}) /\ D(t + 1) = SumFunctionOnSet(w, S)
    BY <2>1 DEF d, w, S
  <2> QED BY <2>2, <2>5, <2>6, <2>7
<1> HIDE DEF D
<1> QED BY <1>2, <1>7, <1>8, <1>9, <1>10 DEF DiscountedIs

\* What compute_advantage finds in a row, of n tokens.
IsResponse(resp, n) ==
  /\ n \in Nat /\ resp.mask \in [1..n -> BOOLEAN] /\ resp.rewards \in [1..n -> Int]
  /\ resp.values \in [1..n -> Int] /\ resp.baseline \in Int

\* The places of such a row.
LEMMA TokensOf ==
  ASSUME NEW n, NEW resp, IsResponse(resp, n)
  PROVE  /\ Len(resp.rewards) = n /\ DOMAIN resp.mask = 1..n /\ IsMask(resp.mask, n)
         /\ Score(resp) \in Int /\ Length(resp) \in Nat
<1>1. n \in Nat /\ resp.rewards \in [1..n -> Int] /\ resp.mask \in [1..n -> BOOLEAN]
  BY DEF IsResponse
<1>2. Len(resp.rewards) = n
  BY <1>1
<1>3. IsFiniteSet(1..n)
  BY <1>1, FS_Interval
<1>4. Score(resp) \in Int
  <2>1. DOMAIN resp.rewards = 1..n /\ \A i \in 1..n : resp.rewards[i] \in Int
    BY <1>1
  <2>2. SumFunctionOnSet(resp.rewards, 1..n) \in Int
    BY <1>3, <2>1, SumInt
  <2>3. Score(resp) = SumFunctionOnSet(resp.rewards, DOMAIN resp.rewards)
    BY Zenon DEF Score, SumFunction, SumFunctionOnSet, FoldFunction
  <2> QED BY <2>1, <2>2, <2>3
<1>5. Length(resp) \in Nat
  <2>1. {t \in DOMAIN resp.mask : resp.mask[t]} \in SUBSET (1..n)
    BY <1>1
  <2>2. IsFiniteSet({t \in DOMAIN resp.mask : resp.mask[t]})
    BY <1>3, <2>1, FS_Subset
  <2> QED BY <2>2, FS_CardinalityType DEF Length
<1> QED BY <1>1, <1>2, <1>4, <1>5 DEF IsMask

\* The next value that the tokens from t on hand back: of the first one the model generated.
NextValue(resp, t) ==
  LET later == TrainedFrom(resp.mask, t) IN IF later = {} THEN 0 ELSE resp.values[Min(later)]

\* The next value of a token, by that of the token after it.
LEMMA NextValues ==
  ASSUME NEW n, NEW resp, IsResponse(resp, n)
  PROVE  /\ NextValue(resp, n + 1) = 0
         /\ \A t \in 1..n : NextValue(resp, t) = IF resp.mask[t] THEN resp.values[t]
                                                 ELSE NextValue(resp, t + 1)
         /\ \A t \in 1..n + 1 : NextValue(resp, t) \in Int
<1> DEFINE TF(t) == TrainedFrom(resp.mask, t)
<1>1. n \in Nat /\ resp.values \in [1..n -> Int] /\ IsMask(resp.mask, n)
  BY TokensOf DEF IsResponse
<1>2. /\ TF(n + 1) = {}
      /\ \A t \in 1..n + 1 : TF(t) \in SUBSET (t..n)
      /\ \A t \in 1..n : /\ resp.mask[t] => TF(t) = TF(t + 1) \cup {t}
                         /\ ~resp.mask[t] => TF(t) = TF(t + 1)
  BY <1>1, TrainedTokens
<1>3. \A t : NextValue(resp, t) = IF TF(t) = {} THEN 0 ELSE resp.values[Min(TF(t))]
  BY DEF NextValue
<1> HIDE DEF TF
<1>4. ASSUME NEW t \in 1..n, resp.mask[t] PROVE Min(TF(t)) = t
  <2>1. TF(t) \in SUBSET Nat /\ t \in TF(t) /\ \A u \in TF(t) : t <= u
    BY <1>1, <1>2, <1>4
  <2>2. Min(TF(t)) \in TF(t) /\ \A u \in TF(t) : Min(TF(t)) <= u
    BY <2>1, Smallest
  <2> QED BY <2>1, <2>2
<1>5. ASSUME NEW t \in 1..n + 1 PROVE NextValue(resp, t) \in Int
  <2>1. CASE TF(t) = {}
    BY <1>3, <2>1
  <2>2. CASE TF(t) # {}
    <3>1. TF(t) \in SUBSET Nat /\ TF(t) \in SUBSET (1..n)
      BY <1>1, <1>2
    <3>2. Min(TF(t)) \in TF(t)
      BY <2>2, <3>1, Smallest
    <3> QED BY <1>1, <1>3, <2>2, <3>1, <3>2
  <2> QED BY <2>1, <2>2
<1>6. ASSUME NEW t \in 1..n
      PROVE  NextValue(resp, t) = IF resp.mask[t] THEN resp.values[t] ELSE NextValue(resp, t + 1)
  BY <1>2, <1>3, <1>4
<1> QED BY <1>2, <1>3, <1>5, <1>6

\* The errors of the critic at the tokens of a row.
Errors(resp, gamma) == [u \in DOMAIN resp.mask |-> TdError(resp, gamma, u)]

\* The error at a token, by the next value.
LEMMA ErrorsAre ==
  ASSUME NEW n, NEW resp, IsResponse(resp, n), NEW gamma \in Int
  PROVE  \A t \in 1..n : /\ Errors(resp, gamma)[t]
                             = resp.rewards[t] + gamma * NextValue(resp, t + 1) - resp.values[t]
                         /\ Errors(resp, gamma)[t] \in Int
<1> SUFFICES ASSUME NEW t \in 1..n
             PROVE  /\ Errors(resp, gamma)[t]
                         = resp.rewards[t] + gamma * NextValue(resp, t + 1) - resp.values[t]
                    /\ Errors(resp, gamma)[t] \in Int
  OBVIOUS
<1>1. resp.rewards[t] \in Int /\ resp.values[t] \in Int /\ t + 1 \in 1..n + 1
  BY DEF IsResponse
<1>2. NextValue(resp, t + 1) \in Int
  BY <1>1, NextValues
<1>3. Errors(resp, gamma)[t] = TdError(resp, gamma, t)
  BY TokensOf DEF Errors
<1>4. TdError(resp, gamma, t)
        = resp.rewards[t] - resp.values[t] + gamma * NextValue(resp, t + 1)
  <2>1. gamma * 0 = 0
    OBVIOUS
  <2>2. CASE TrainedFrom(resp.mask, t + 1) = {}
    BY <2>1, <2>2 DEF TdError, NextValue
  <2>3. CASE TrainedFrom(resp.mask, t + 1) # {}
    BY <2>3 DEF TdError, NextValue
  <2> QED BY <2>2, <2>3
<1>5. gamma * NextValue(resp, t + 1) \in Int
  BY <1>2
<1> QED BY <1>1, <1>3, <1>4, <1>5

\* The advantages of GAE are the discounted sums of the errors of the critic.
LEMMA GaeIsRight ==
  ASSUME NEW n, NEW resp, IsResponse(resp, n), NEW gamma \in Int, NEW lam \in Int, NEW t \in 1..n
  PROVE  Gae(resp, gamma, lam).num[t]
           = Discounted(resp.mask, gamma * lam, Errors(resp, gamma), t)
<1> DEFINE m == Len(resp.rewards)
           Body(i, y) ==
             LET delta == resp.rewards[i] + gamma * y.next - resp.values[i]
             IN  IF resp.mask[i]
                   THEN [next |-> resp.values[i], adv |-> delta + gamma * lam * y.adv]
                   ELSE y
           Rec(h) == h = [i \in 1..m + 1 |->
                            IF i = m + 1 THEN [next |-> 0, adv |-> 0] ELSE Body(i, h[i + 1])]
           from == CHOOSE h : Rec(h)
           V == [next : Int, adv : Int]
           step == [x \in (1..n) \X V |-> Body(x[1], x[2])]
           b == [next |-> 0, adv |-> 0]
<1>1. Gae(resp, gamma, lam).num = [i \in 1..m |-> from[i].adv]
  BY DEF Gae
<1>2. /\ m = n /\ n \in Nat /\ IsMask(resp.mask, n) /\ DOMAIN resp.mask = 1..n
      /\ \A i \in 1..n : resp.rewards[i] \in Int /\ resp.values[i] \in Int
  BY TokensOf DEF IsResponse
<1> HIDE DEF m
<1>3. ASSUME NEW i \in 1..n, NEW y \in V PROVE Body(i, y) \in V
  <2>1. y.next \in Int /\ y.adv \in Int
    OBVIOUS
  <2>2. gamma * y.next \in Int /\ gamma * lam * y.adv \in Int
    <3>1. \A a, c \in Int : a * c \in Int
      OBVIOUS
    <3> QED BY <2>1, <3>1
  <2>3. resp.rewards[i] \in Int /\ resp.values[i] \in Int
    BY <1>2
  <2> QED BY <2>2, <2>3
<1> HIDE DEF Body
<1>4. step \in [(1..n) \X V -> V] /\ \A i \in 1..n, y \in V : step[<<i, y>>] = Body(i, y)
  <2>1. \A x \in (1..n) \X V : x[1] \in 1..n /\ x[2] \in V
    OBVIOUS
  <2> HIDE DEF V
  <2> QED BY <1>3, <2>1
<1>5. b \in V
  OBVIOUS
<1> HIDE DEF V, b, step
<1>6. PICK h : Countdown(n, V, b, step, h)
  BY <1>2, <1>4, <1>5, CountdownExists
<1>7. h \in [1..n + 1 -> V] /\ h[n + 1] = b /\ \A i \in 1..n : h[i] = step[<<i, h[i + 1]>>]
  BY <1>6 DEF Countdown
<1>8. Rec(h)
  <2>1. \A i \in 1..n : i + 1 \in 1..n + 1
    BY <1>2
  <2>2. \A i \in 1..n : h[i] = Body(i, h[i + 1])
    BY <1>4, <1>7, <2>1
  <2>3. \A i \in 1..n + 1 : i = n + 1 \/ (i \in 1..n /\ i # n + 1)
    BY <1>2
  <2>4. \A i \in 1..n + 1 : h[i] = IF i = n + 1 THEN b ELSE Body(i, h[i + 1])
    BY <1>7, <2>2, <2>3
  <2> QED BY <1>2, <1>7, <2>4 DEF b
<1>9. Rec(from)
  <2> HIDE DEF Rec
  <2> QED BY <1>8
<1>10. from[n + 1] = b /\ \A i \in 1..n : from[i] = Body(i, from[i + 1])
  <2> HIDE DEF from
  <2>1. from = [i \in 1..n + 1 |-> IF i = n + 1 THEN b ELSE Body(i, from[i + 1])]
    BY <1>2, <1>9 DEF b
  <2>2. n + 1 \in 1..n + 1 /\ \A i \in 1..n : i \in 1..n + 1 /\ i # n + 1
    BY <1>2
  <2> QED BY <2>1, <2>2
<1> HIDE DEF from, Rec
<1> DEFINE f == Errors(resp, gamma)
           D(i) == Discounted(resp.mask, gamma * lam, f, i)
           N(i) == NextValue(resp, i)
<1>11. /\ \A i \in 1..n + 1 : D(i) \in Int
       /\ D(n + 1) = 0
       /\ \A i \in 1..n : IF resp.mask[i] THEN D(i) = f[i] + gamma * lam * D(i + 1)
                          ELSE D(i) = D(i + 1)
  <2>1. \A i \in 1..n : f[i] \in Int
    BY ErrorsAre
  <2>2. gamma * lam \in Int
    OBVIOUS
  <2> DEFINE rate == gamma * lam
  <2> HIDE DEF f, rate
  <2>3. DiscountedIs(resp.mask, n, rate, f)
    BY <1>2, <2>1, <2>2, DiscountedStep DEF rate
  <2> QED BY <2>3 DEF DiscountedIs, rate
<1>12. /\ N(n + 1) = 0
       /\ \A i \in 1..n : N(i) = IF resp.mask[i] THEN resp.values[i] ELSE N(i + 1)
       /\ \A i \in 1..n : f[i] = resp.rewards[i] + gamma * N(i + 1) - resp.values[i]
  BY NextValues, ErrorsAre
<1> HIDE DEF D, N, f
<1> DEFINE Good(i) == from[i] = [next |-> N(i), adv |-> D(i)]
           T == {k \in Nat : k <= n => Good(n + 1 - k)}
<1>13. 0 \in T
  <2>1. n + 1 - 0 = n + 1
    BY <1>2
  <2>2. Good(n + 1)
    BY <1>10, <1>11, <1>12 DEF b
  <2> HIDE DEF Good
  <2> QED BY <2>1, <2>2
<1>14. ASSUME NEW k \in Nat, k \in T PROVE k + 1 \in T
  <2> SUFFICES ASSUME k + 1 <= n PROVE Good(n + 1 - (k + 1))
    OBVIOUS
  <2> DEFINE i == n - k
  <2>1. i \in 1..n /\ n + 1 - (k + 1) = i /\ n + 1 - k = i + 1 /\ k <= n
    BY <1>2
  <2> HIDE DEF i
  <2>2. Good(i + 1)
    <3> HIDE DEF Good
    <3> QED BY <1>14, <2>1
  <2>3. from[i] = Body(i, [next |-> N(i + 1), adv |-> D(i + 1)])
    BY <1>10, <2>1, <2>2
  <2>4. CASE resp.mask[i]
    <3>1. Body(i, [next |-> N(i + 1), adv |-> D(i + 1)])
            = [next |-> resp.values[i],
               adv |-> resp.rewards[i] + gamma * N(i + 1) - resp.values[i] + gamma * lam * D(i + 1)]
      BY <2>4 DEF Body
    <3> QED BY <1>11, <1>12, <2>1, <2>3, <2>4, <3>1
  <2>5. CASE ~resp.mask[i]
    <3>1. Body(i, [next |-> N(i + 1), adv |-> D(i + 1)]) = [next |-> N(i + 1), adv |-> D(i + 1)]
      BY <2>5 DEF Body
    <3> QED BY <1>11, <1>12, <2>1, <2>3, <2>5, <3>1
  <2> QED BY <2>4, <2>5
<1>15. \A k \in Nat : k \in T
  <2> HIDE DEF T
  <2> QED BY <1>13, <1>14, Inductive
<1>16. Good(t)
  <2>1. n + 1 - t \in Nat /\ n + 1 - t <= n /\ n + 1 - (n + 1 - t) = t
    BY <1>2
  <2> HIDE DEF Good
  <2> QED BY <1>15, <2>1
<1>17. from[t].adv = D(t)
  BY <1>16
<1> QED BY <1>1, <1>2, <1>17 DEF D, f

\* The returns of REINFORCE++ are the discounted sums of the rewards, unless a token of the
\* model follows one of a tool.
LEMMA ReinforceIsRight ==
  ASSUME NEW n, NEW resp, IsResponse(resp, n), NEW gamma \in Int, NEW t \in 1..n,
         Gapless(resp.mask), resp.mask[t]
  PROVE  ReinforcePlusPlus(resp, gamma).num[t] = Discounted(resp.mask, gamma, resp.rewards, t)
<1> DEFINE m == Len(resp.rewards)
           Anew(i) == i < m /\ ~resp.mask[i + 1]
           Rec(h) == h = [i \in 1..m + 1 |->
                            IF i = m + 1 THEN 0
                            ELSE resp.rewards[i] + gamma * (IF Anew(i) THEN 0 ELSE h[i + 1])]
           ret == CHOOSE h : Rec(h)
           V == Int
           step == [x \in (1..n) \X V |->
                      resp.rewards[x[1]] + gamma * (IF Anew(x[1]) THEN 0 ELSE x[2])]
           b == 0
<1>1. ReinforcePlusPlus(resp, gamma).num = [i \in 1..m |-> IF resp.mask[i] THEN ret[i] ELSE 0]
  BY DEF ReinforcePlusPlus
<1>2. /\ m = n /\ n \in Nat /\ IsMask(resp.mask, n) /\ DOMAIN resp.mask = 1..n
      /\ \A i \in 1..n : resp.rewards[i] \in Int
  BY TokensOf DEF IsResponse
<1> HIDE DEF m, Anew
<1>3. /\ step \in [(1..n) \X V -> V]
      /\ \A i \in 1..n, y \in V :
           step[<<i, y>>] = resp.rewards[i] + gamma * (IF Anew(i) THEN 0 ELSE y)
  <2>1. \A x \in (1..n) \X V : x[1] \in 1..n /\ x[2] \in V /\ resp.rewards[x[1]] \in Int
    BY <1>2
  <2>2. \A y \in V : gamma * y \in Int /\ gamma * 0 = 0
    OBVIOUS
  <2>3. \A x \in (1..n) \X V : resp.rewards[x[1]] + gamma * (IF Anew(x[1]) THEN 0 ELSE x[2]) \in V
    BY <2>1, <2>2
  <2> HIDE DEF V
  <2> QED BY <2>1, <2>3
<1>4. b \in V
  OBVIOUS
<1> HIDE DEF V, b, step
<1>5. PICK h : Countdown(n, V, b, step, h)
  BY <1>2, <1>3, <1>4, CountdownExists
<1>6. h \in [1..n + 1 -> V] /\ h[n + 1] = b /\ \A i \in 1..n : h[i] = step[<<i, h[i + 1]>>]
  BY <1>5 DEF Countdown
<1>7. Rec(h)
  <2>1. \A i \in 1..n : i + 1 \in 1..n + 1
    BY <1>2
  <2>2. \A i \in 1..n : h[i] = resp.rewards[i] + gamma * (IF Anew(i) THEN 0 ELSE h[i + 1])
    BY <1>3, <1>6, <2>1
  <2>3. \A i \in 1..n + 1 : i = n + 1 \/ (i \in 1..n /\ i # n + 1)
    BY <1>2
  <2>4. \A i \in 1..n + 1 : h[i] = IF i = n + 1 THEN b
                                   ELSE resp.rewards[i] + gamma * (IF Anew(i) THEN 0 ELSE h[i + 1])
    BY <1>6, <2>2, <2>3
  <2> QED BY <1>2, <1>6, <2>4 DEF b
<1>8. Rec(ret)
  <2> HIDE DEF Rec
  <2> QED BY <1>7
<1>9. /\ ret[n + 1] = 0
      /\ \A i \in 1..n : ret[i] = resp.rewards[i] + gamma * (IF Anew(i) THEN 0 ELSE ret[i + 1])
  <2> HIDE DEF ret
  <2>1. ret = [i \in 1..n + 1 |-> IF i = n + 1 THEN 0
                                  ELSE resp.rewards[i] + gamma * (IF Anew(i) THEN 0 ELSE ret[i + 1])]
    BY <1>2, <1>8
  <2>2. n + 1 \in 1..n + 1 /\ \A i \in 1..n : i \in 1..n + 1 /\ i # n + 1
    BY <1>2
  <2> QED BY <2>1, <2>2
<1> HIDE DEF ret, Rec
<1> DEFINE D(i) == Discounted(resp.mask, gamma, resp.rewards, i)
<1>10. /\ D(n + 1) = 0
       /\ \A i \in 1..n : IF resp.mask[i] THEN D(i) = resp.rewards[i] + gamma * D(i + 1)
                          ELSE D(i) = D(i + 1)
  <2> DEFINE f == resp.rewards
  <2>1. \A i \in 1..n : f[i] \in Int
    BY <1>2
  <2> HIDE DEF f
  <2>2. DiscountedIs(resp.mask, n, gamma, f)
    BY <1>2, <2>1, DiscountedStep
  <2> QED BY <2>2 DEF DiscountedIs, f
<1>11. \A i \in 1..n : ~resp.mask[i] => D(i) = 0
  <2> SUFFICES ASSUME NEW i \in 1..n, ~resp.mask[i] PROVE D(i) = 0
    OBVIOUS
  <2>1. TrainedFrom(resp.mask, i) = {}
    BY <1>2 DEF Gapless
  <2> QED BY <2>1, SumEmpty DEF Discounted
<1> HIDE DEF D
<1> DEFINE Good(i) == ret[i] = D(i)
           T == {k \in Nat : k <= n /\ (k = 0 \/ resp.mask[n + 1 - k]) => Good(n + 1 - k)}
<1>12. 0 \in T
  <2>1. n + 1 - 0 = n + 1
    BY <1>2
  <2> QED BY <1>9, <1>10, <2>1
<1>13. ASSUME NEW k \in Nat, k \in T PROVE k + 1 \in T
  <2> SUFFICES ASSUME k + 1 <= n, resp.mask[n + 1 - (k + 1)] PROVE Good(n + 1 - (k + 1))
    BY <1>13
  <2> DEFINE i == n - k
  <2>1. i \in 1..n /\ n + 1 - (k + 1) = i /\ n + 1 - k = i + 1 /\ k <= n /\ (k = 0 <=> ~(i < n))
    BY <1>2
  <2> HIDE DEF i
  <2>2. resp.mask[i] /\ D(i) = resp.rewards[i] + gamma * D(i + 1)
    BY <1>10, <2>1
  <2>3. ret[i] = resp.rewards[i] + gamma * (IF Anew(i) THEN 0 ELSE ret[i + 1])
    BY <1>9, <2>1
  <2>4. CASE Anew(i)
    <3>1. i + 1 \in 1..n /\ ~resp.mask[i + 1]
      BY <1>2, <2>1, <2>4 DEF Anew
    <3>2. D(i + 1) = 0
      BY <1>11, <3>1
    <3> QED BY <2>1, <2>2, <2>3, <2>4, <3>2
  <2>5. CASE ~Anew(i)
    <3>1. k = 0 \/ resp.mask[n + 1 - k]
      BY <1>2, <2>1, <2>5 DEF Anew
    <3>2. Good(i + 1)
      BY <1>13, <2>1, <3>1
    <3> QED BY <2>1, <2>2, <2>3, <2>5, <3>2
  <2> QED BY <2>4, <2>5
<1>14. \A k \in Nat : k \in T
  <2> HIDE DEF T
  <2> QED BY <1>12, <1>13, Inductive
<1>15. Good(t)
  <2>1. n + 1 - t \in Nat /\ n + 1 - t <= n /\ n + 1 - (n + 1 - t) = t
    BY <1>2
  <2> HIDE DEF Good
  <2> QED BY <1>14, <2>1
<1> QED BY <1>1, <1>2, <1>15 DEF D

\* REMAX: what the tokens from t on were rewarded with, less the greedy response's score.
LEMMA RemaxIsRight ==
  ASSUME NEW n, NEW resp, IsResponse(resp, n), NEW t \in 1..n, resp.mask[t]
  PROVE  Remax(resp).num[t] = Discounted(resp.mask, 1, resp.rewards, t) - resp.baseline
<1> DEFINE m == Len(resp.rewards)
           masked == [i \in 1..n |-> IF resp.mask[i] THEN resp.rewards[i] ELSE 0]
           R(i) == SumFunctionOnSet(masked, i..n)
           D(i) == Discounted(resp.mask, 1, resp.rewards, i)
<1>1. /\ m = n /\ n \in Nat /\ IsMask(resp.mask, n)
      /\ \A i \in 1..n : resp.rewards[i] \in Int
  BY TokensOf DEF IsResponse
<1>2. Remax(resp).num[t] = R(t) - resp.baseline
  BY <1>1 DEF Remax
<1>3. /\ \A i \in 1..n + 1 : D(i) \in Int
      /\ D(n + 1) = 0
      /\ \A i \in 1..n : IF resp.mask[i] THEN D(i) = resp.rewards[i] + D(i + 1)
                         ELSE D(i) = D(i + 1)
  <2> DEFINE f == resp.rewards
             one == 1
  <2>1. \A i \in 1..n : f[i] \in Int
    BY <1>1
  <2>2. one \in Int
    OBVIOUS
  <2> HIDE DEF f, one
  <2>3. DiscountedIs(resp.mask, n, one, f)
    BY <1>1, <2>1, <2>2, DiscountedStep
  <2>4. /\ \A i \in 1..n + 1 : D(i) \in Int
        /\ D(n + 1) = 0
        /\ \A i \in 1..n : IF resp.mask[i] THEN D(i) = resp.rewards[i] + 1 * D(i + 1)
                           ELSE D(i) = D(i + 1)
    BY <2>3 DEF DiscountedIs, f, one
  <2>5. \A i \in 1..n : i + 1 \in 1..n + 1
    BY <1>1
  <2> HIDE DEF D
  <2> QED BY <2>4, <2>5
<1>4. \A i \in 1..n : /\ masked[i] = (IF resp.mask[i] THEN resp.rewards[i] ELSE 0)
                      /\ masked[i] \in Int
  BY <1>1
<1> HIDE DEF masked, D
<1>5. ASSUME NEW i \in 1..n PROVE R(i) = masked[i] + R(i + 1)
  <2>1. i..n = ((i + 1)..n) \cup {i} /\ i \notin (i + 1)..n
    BY <1>1
  <2>2. \A j \in ((i + 1)..n) \cup {i} : masked[j] \in Int
    BY <1>1, <1>4
  <2>3. IsFiniteSet((i + 1)..n)
    BY <1>1, FS_Interval
  <2> DEFINE s == (i + 1)..n
  <2> HIDE DEF s
  <2>4. SumFunctionOnSet(masked, s \cup {i}) = masked[i] + SumFunctionOnSet(masked, s)
    BY <2>1, <2>2, <2>3, SumStep DEF s
  <2> QED BY <2>1, <2>4 DEF s
<1>6. R(n + 1) = 0
  <2>1. (n + 1)..n = {}
    BY <1>1
  <2> QED BY <2>1, SumEmpty
<1> HIDE DEF R
<1> DEFINE T == {k \in Nat : k <= n => R(n + 1 - k) = D(n + 1 - k)}
<1>7. 0 \in T
  <2>1. n + 1 - 0 = n + 1
    BY <1>1
  <2> QED BY <1>3, <1>6, <2>1
<1>8. ASSUME NEW k \in Nat, k \in T PROVE k + 1 \in T
  <2> SUFFICES ASSUME k + 1 <= n PROVE R(n + 1 - (k + 1)) = D(n + 1 - (k + 1))
    BY <1>8
  <2> DEFINE i == n - k
  <2>1. i \in 1..n /\ i + 1 \in 1..n + 1 /\ n + 1 - (k + 1) = i /\ n + 1 - k = i + 1 /\ k <= n
    BY <1>1
  <2> HIDE DEF i
  <2>2. R(i + 1) = D(i + 1)
    BY <1>8, <2>1
  <2> QED BY <1>3, <1>4, <1>5, <2>1, <2>2
<1>9. \A k \in Nat : k \in T
  <2> HIDE DEF T
  <2> QED BY <1>7, <1>8, Inductive
<1>10. R(t) = D(t)
  <2>1. n + 1 - t \in Nat /\ n + 1 - t <= n /\ n + 1 - (n + 1 - t) = t
    BY <1>1
  <2> QED BY <1>9, <2>1
<1> QED BY <1>2, <1>10 DEF D

\* The rows of a batch are the responses in some order p.
InSomeOrder(n, m, resp, p, batch) ==
  /\ n \in Nat /\ DOMAIN resp = 1..n /\ \A r \in 1..n : IsResponse(resp[r], m)
  /\ p \in [1..n -> 1..n] /\ \A i, j \in 1..n : p[i] = p[j] => i = j
  /\ \A r \in 1..n : \E i \in 1..n : p[i] = r
  /\ DOMAIN batch = 1..n /\ Len(batch) = n /\ \A i \in 1..n : batch[i] = resp[p[i]]

\* The responses to the prompt of a response, itself among them.
Siblings(resp, r) == {j \in DOMAIN resp : resp[j].uid = resp[r].uid}

\* There is another one.
HasSibling(resp, r) == \E j \in Siblings(resp, r) : j # r

\* The rows of G are the responses of N.
SameRows(resp, p, batch, G, N) ==
  /\ IsFiniteSet(G) /\ IsFiniteSet(N) /\ Cardinality(G) = Cardinality(N) /\ Cardinality(N) \in Nat
  /\ p \in [DOMAIN batch -> DOMAIN resp] /\ \A i \in DOMAIN batch : batch[i] = resp[p[i]]
  /\ G \in SUBSET (DOMAIN batch) /\ N \in SUBSET (DOMAIN resp)
  /\ \A i, j \in G : p[i] = p[j] => i = j
  /\ \A i \in DOMAIN batch : i \in G <=> p[i] \in N
  /\ \A r \in N : \E i \in G : p[i] = r

\* A set has as many elements under other names.
LEMMA CountMoved ==
  ASSUME NEW S, NEW T, NEW p, IsFiniteSet(S), IsFiniteSet(T), p \in [S -> T],
         \A i, j \in S : p[i] = p[j] => i = j, \A l \in T : \E i \in S : p[i] = l
  PROVE  Cardinality(S) = Cardinality(T)
<1>1. p \in Bijection(S, T)
  <2>1. p \in Injection(S, T)
    BY DEF Injection, IsInjective
  <2>2. p \in Surjection(S, T)
    BY DEF Surjection
  <2> QED BY <2>1, <2>2 DEF Bijection
<1> QED BY <1>1, FS_Bijection DEF ExistsBijection

\* Rows and responses correspond wherever what picks them does.
LEMMA RowsMoved ==
  ASSUME NEW n, NEW m, NEW resp, NEW p, NEW batch, InSomeOrder(n, m, resp, p, batch),
         NEW G \in SUBSET (1..n), NEW N \in SUBSET (1..n), \A i \in 1..n : i \in G <=> p[i] \in N
  PROVE  SameRows(resp, p, batch, G, N)
<1>1. /\ n \in Nat /\ p \in [1..n -> 1..n] /\ \A i, j \in 1..n : p[i] = p[j] => i = j
      /\ \A r \in 1..n : \E i \in 1..n : p[i] = r
      /\ DOMAIN resp = 1..n /\ DOMAIN batch = 1..n /\ \A i \in 1..n : batch[i] = resp[p[i]]
  BY DEF InSomeOrder
<1>2. IsFiniteSet(1..n)
  BY <1>1, FS_Interval
<1>3. IsFiniteSet(G) /\ IsFiniteSet(N)
  BY <1>2, FS_Subset
<1>4. ASSUME NEW r \in N PROVE \E i \in G : p[i] = r
  <2>1. PICK i \in 1..n : p[i] = r
    BY <1>1
  <2>2. i \in G
    BY <2>1
  <2> QED BY <2>1, <2>2
<1> DEFINE q == [i \in G |-> p[i]]
<1>5. ASSUME NEW i \in G PROVE q[i] = p[i] /\ p[i] \in N /\ i \in 1..n
  OBVIOUS
<1>6. q \in [G -> N]
  BY <1>5
<1> HIDE DEF q
<1>7. /\ \A i, j \in G : q[i] = q[j] => i = j
      /\ \A r \in N : \E i \in G : q[i] = r
  BY <1>1, <1>4, <1>5
<1>9. Cardinality(G) = Cardinality(N)
  BY <1>3, <1>6, <1>7, CountMoved
<1>8. Cardinality(N) \in Nat
  BY <1>3, FS_CardinalityType
<1> QED BY <1>1, <1>3, <1>4, <1>8, <1>9 DEF SameRows

\* A sum over rows is one over their responses.
LEMMA SumOfRows ==
  ASSUME NEW resp, NEW p, NEW batch, NEW G, NEW N, SameRows(resp, p, batch, G, N),
         NEW g, NEW f, \A r \in N : f[r] \in Int, \A i \in G : g[i] = f[p[i]]
  PROVE  SumFunctionOnSet(g, G) = SumFunctionOnSet(f, N)
<1> DEFINE q == [i \in G |-> p[i]]
<1>1. IsFiniteSet(G) /\ \A i \in G : p[i] \in N /\ q[i] = p[i]
  BY DEF SameRows
<1>2. q \in [G -> N]
  BY <1>1
<1> HIDE DEF q
<1>3. /\ \A i, j \in G : q[i] = q[j] => i = j
      /\ \A r \in N : \E i \in G : q[i] = r
      /\ \A i \in G : g[i] = f[q[i]]
  BY <1>1 DEF SameRows
<1> QED BY <1>1, <1>2, <1>3, SumMoved

\* The rows with the prompt of a row are the siblings of its response.
LEMMA GroupMoved ==
  ASSUME NEW n, NEW m, NEW resp, NEW p, NEW batch, InSomeOrder(n, m, resp, p, batch),
         NEW i \in 1..n
  PROVE  /\ SameRows(resp, p, batch, Group(batch, i), Siblings(resp, p[i]))
         /\ i \in Group(batch, i) /\ p[i] \in Siblings(resp, p[i]) /\ p[i] \in 1..n
         /\ Cardinality(Siblings(resp, p[i])) \in Nat \ {0}
<1> DEFINE G == Group(batch, i)
           N == Siblings(resp, p[i])
<1>1. /\ n \in Nat /\ p \in [1..n -> 1..n]
      /\ DOMAIN resp = 1..n /\ DOMAIN batch = 1..n /\ \A j \in 1..n : batch[j] = resp[p[j]]
  BY DEF InSomeOrder
<1>2. G \in SUBSET (1..n) /\ N \in SUBSET (1..n) /\ p[i] \in 1..n /\ i \in G /\ p[i] \in N
  BY <1>1 DEF Group, Siblings
<1>3. \A j \in 1..n : j \in G <=> p[j] \in N
  <2>1. \A j \in 1..n : p[j] \in 1..n
    BY <1>1
  <2> QED BY <1>1, <2>1 DEF Group, Siblings
<1> HIDE DEF G, N
<1>4. SameRows(resp, p, batch, G, N)
  BY <1>2, <1>3, RowsMoved
<1>5. IsFiniteSet(N) /\ Cardinality(N) \in Nat
  BY <1>4 DEF SameRows
<1>6. Cardinality(N) # 0
  BY <1>2, <1>5, FS_EmptySet
<1> QED BY <1>2, <1>4, <1>5, <1>6 DEF G, N

\* How much better a response is than its siblings, by their weights.
Lead(resp, r, w) ==
  SumFunctionOnSet([j \in Siblings(resp, r) |-> w[j] * (Score(resp[r]) - Score(resp[j]))],
                   Siblings(resp, r))

\* The lead of a response, by sums over the rows of its group.
LEMMA LeadIs ==
  ASSUME NEW n, NEW m, NEW resp, NEW p, NEW batch, InSomeOrder(n, m, resp, p, batch),
         NEW i \in 1..n,
         NEW w, NEW g, NEW v, \A r \in Siblings(resp, p[i]) : w[r] \in Int,
         \A j \in Group(batch, i) : v[j] = w[p[j]] /\ g[j] = w[p[j]] * Score(batch[j])
  PROVE  /\ SumFunctionOnSet(v, Group(batch, i)) = SumFunctionOnSet(w, Siblings(resp, p[i]))
         /\ SumFunctionOnSet(v, Group(batch, i)) \in Int
         /\ SumFunctionOnSet(g, Group(batch, i)) \in Int
         /\ Lead(resp, p[i], w) = SumFunctionOnSet(v, Group(batch, i)) * Score(resp[p[i]])
                                    - SumFunctionOnSet(g, Group(batch, i))
<1> DEFINE G == Group(batch, i)
           N == Siblings(resp, p[i])
           c == Score(resp[p[i]])
           h == [j \in N |-> Score(resp[j])]
           d == [j \in N |-> w[j] * (c - Score(resp[j]))]
           e == [j \in N |-> w[j] * Score(resp[j])]
<1>1. SameRows(resp, p, batch, G, N) /\ p[i] \in 1..n
  BY GroupMoved
<1>2. /\ IsFiniteSet(N) /\ \A r \in N : r \in 1..n
      /\ \A j \in G : p[j] \in N /\ batch[j] = resp[p[j]]
  BY <1>1 DEF SameRows, InSomeOrder
<1>3. \A r \in 1..n : Score(resp[r]) \in Int
  BY TokensOf DEF InSomeOrder
<1>4. /\ c \in Int
      /\ \A j \in N : w[j] \in Int /\ h[j] \in Int
      /\ \A j \in N : d[j] = w[j] * (c - h[j]) /\ e[j] = w[j] * h[j]
      /\ \A j \in N : e[j] \in Int
  <2>1. \A j \in N : w[j] \in Int /\ Score(resp[j]) \in Int
    BY <1>2, <1>3
  <2>2. \A a, b \in Int : a * b \in Int
    OBVIOUS
  <2>3. c \in Int
    BY <1>1, <1>3
  <2> HIDE DEF N, c
  <2> QED BY <2>1, <2>2, <2>3
<1>5. \A j \in G : e[p[j]] = w[p[j]] * Score(batch[j])
  BY <1>2
<1>6. Lead(resp, p[i], w) = SumFunctionOnSet(d, N)
  BY DEF Lead
<1>7. /\ \A j \in G : v[j] = w[p[j]] /\ g[j] = e[p[j]]
  BY <1>5
<1> HIDE DEF G, N, c, h, d, e
<1>8. /\ SumFunctionOnSet(w, N) \in Int /\ SumFunctionOnSet(e, N) \in Int
      /\ SumFunctionOnSet(d, N) = SumFunctionOnSet(w, N) * c - SumFunctionOnSet(e, N)
  BY <1>2, <1>4, SumLead
<1>9. SumFunctionOnSet(v, G) = SumFunctionOnSet(w, N)
  BY <1>1, <1>4, <1>7, SumOfRows
<1>10. SumFunctionOnSet(g, G) = SumFunctionOnSet(e, N)
  BY <1>1, <1>4, <1>7, SumOfRows
<1> QED BY <1>6, <1>8, <1>9, <1>10 DEF G, N, c

\* One number at all tokens of a row.
LEMMA OnTokensIs ==
  ASSUME NEW m, NEW resp, IsResponse(resp, m), NEW t \in 1..m, resp.mask[t], NEW num, NEW den
  PROVE  OnTokens(resp, num, den).num[t] = num /\ OnTokens(resp, num, den).den = den
<1>1. DOMAIN resp.mask = 1..m
  BY TokensOf
<1> QED BY <1>1 DEF OnTokens

\* All siblings weigh the same.
Ones(resp, r) == [j \in Siblings(resp, r) |-> 1]

\* What a row has over the mean of its group.
LEMMA MeanIs ==
  ASSUME NEW n, NEW m, NEW resp, NEW p, NEW batch, InSomeOrder(n, m, resp, p, batch),
         NEW i \in 1..n
  PROVE  /\ FromMean(batch, i).size = Cardinality(Siblings(resp, p[i]))
         /\ Cardinality(Siblings(resp, p[i])) \in Nat \ {0}
         /\ Score(resp[p[i]]) \in Int /\ Lead(resp, p[i], Ones(resp, p[i])) \in Int
         /\ FromMean(batch, i).num = IF Cardinality(Siblings(resp, p[i])) = 1
                                       THEN Score(resp[p[i]])
                                       ELSE Lead(resp, p[i], Ones(resp, p[i]))
<1> DEFINE G == Group(batch, i)
           N == Siblings(resp, p[i])
           k == Cardinality(N)
           c == Score(resp[p[i]])
           w == Ones(resp, p[i])
           g == [j \in G |-> Score(batch[j])]
           v == [j \in G |-> 1]
           L == Lead(resp, p[i], w)
<1>1. SameRows(resp, p, batch, G, N) /\ p[i] \in 1..n /\ k \in Nat \ {0}
  BY GroupMoved
<1>2. /\ IsFiniteSet(G) /\ Cardinality(G) = k
      /\ \A j \in G : j \in 1..n /\ p[j] \in N /\ p[j] \in 1..n
  BY <1>1 DEF SameRows, InSomeOrder
<1>3. batch[i] = resp[p[i]] /\ \A j \in G : batch[j] = resp[p[j]]
  BY <1>2 DEF InSomeOrder
<1>4. \A r \in 1..n : Score(resp[r]) \in Int
  BY TokensOf DEF InSomeOrder
<1>5. c \in Int
  BY <1>1, <1>4
<1>6. \A j \in G : v[j] = w[p[j]] /\ g[j] = w[p[j]] * Score(batch[j])
  <2>1. \A a \in Int : 1 * a = a
    OBVIOUS
  <2>2. \A j \in G : w[p[j]] = 1
    BY <1>2 DEF Ones
  <2>3. \A j \in G : Score(batch[j]) \in Int
    BY <1>2, <1>3, <1>4
  <2>4. \A j \in G : v[j] = 1 /\ g[j] = Score(batch[j])
    OBVIOUS
  <2> QED BY <2>1, <2>2, <2>3, <2>4
<1>7. \A r \in N : w[r] \in Int
  BY DEF Ones
<1>8. \A j \in G : v[j] = 1
  OBVIOUS
<1>9. FromMean(batch, i) = [num |-> IF Cardinality(G) = 1 THEN Score(batch[i])
                                    ELSE Cardinality(G) * Score(batch[i]) - SumFunctionOnSet(g, G),
                            size |-> Cardinality(G)]
  BY DEF FromMean, TotalScore
<1> HIDE DEF G, N, w, g, v
<1>10. /\ SumFunctionOnSet(v, G) \in Int /\ SumFunctionOnSet(g, G) \in Int
       /\ L = SumFunctionOnSet(v, G) * c - SumFunctionOnSet(g, G)
  BY <1>6, <1>7, LeadIs DEF G, N
<1>11. SumFunctionOnSet(v, G) = k
  BY <1>2, <1>8, SumOnes
<1> HIDE DEF k, c, L
<1>12. L = k * c - SumFunctionOnSet(g, G) /\ L \in Int
  <2>1. \A a, b \in Int : a * b \in Int
    OBVIOUS
  <2> QED BY <1>1, <1>5, <1>10, <1>11, <2>1
<1>13. FromMean(batch, i) = [num |-> IF k = 1 THEN c ELSE L, size |-> k]
  BY <1>2, <1>3, <1>9, <1>12 DEF c
<1> QED BY <1>1, <1>5, <1>12, <1>13 DEF N, k, c, w, L

\* What an estimator promises of a response, in terms of its lead.
LEMMA LeadAgain ==
  ASSUME NEW adv, NEW t, NEW resp, NEW r, NEW w, NEW total
  PROVE  IsLead(adv, t, resp, r, {j \in DOMAIN resp : resp[j].uid = resp[r].uid}, w, total)
           <=> adv.num[t] * total = adv.den * Lead(resp, r, w)
BY Zenon DEF IsLead, Lead, Siblings

\* GRPO, and REINFORCE++ with a baseline: the mean of all responses to the prompt.
LEMMA GrpoIsRight ==
  ASSUME NEW n, NEW m, NEW resp, NEW p, NEW batch, InSomeOrder(n, m, resp, p, batch),
         NEW i \in 1..n,
         NEW t \in 1..m, resp[p[i]].mask[t], NEW gamma, NEW lam,
         NEW est \in {"grpo", "reinforce_plus_plus_baseline"}
  PROVE  IsAdvantage(est, gamma, lam, resp, p[i], Advantage(est, gamma, lam, batch, i), t)
<1> DEFINE r == p[i]
           N == {j \in DOMAIN resp : resp[j].uid = resp[r].uid}
           k == Cardinality(N)
           adv == Advantage(est, gamma, lam, batch, i)
           w == [j \in N |-> 1]
           L == Lead(resp, r, w)
           c == Score(resp[r])
<1>1. r \in 1..n /\ batch[i] = resp[r] /\ IsResponse(resp[r], m)
  BY DEF InSomeOrder
<1>2. k \in Nat \ {0} /\ L \in Int /\ c \in Int
      /\ FromMean(batch, i).size = k /\ FromMean(batch, i).num = IF k = 1 THEN c ELSE L
  BY MeanIs DEF Siblings, Ones
<1>3. adv = OnTokens(resp[r], FromMean(batch, i).num, FromMean(batch, i).size)
  BY <1>1 DEF Advantage, Grpo
<1>4. adv.num[t] = FromMean(batch, i).num /\ adv.den = FromMean(batch, i).size
  BY <1>1, <1>3, OnTokensIs
<1>5. IsLead(adv, t, resp, r, N, w, k) <=> adv.num[t] * k = adv.den * L
  BY LeadAgain
<1>6. IsAdvantage(est, gamma, lam, resp, r, adv, t)
        <=> IF k = 1 THEN adv.num[t] = adv.den * c ELSE IsLead(adv, t, resp, r, N, w, k)
  <2>1. k = 1 \/ (k # 1 /\ k > 1)
    BY <1>2
  <2>2. CASE k = 1
    <3>1. CASE est = "grpo"
      BY <2>2, <3>1 DEF IsAdvantage
    <3>2. CASE est = "reinforce_plus_plus_baseline"
      BY <2>2, <3>2 DEF IsAdvantage
    <3> QED BY <3>1, <3>2
  <2>3. CASE k # 1 /\ k > 1
    <3>1. CASE est = "grpo"
      BY <2>3, <3>1 DEF IsAdvantage
    <3>2. CASE est = "reinforce_plus_plus_baseline"
      BY <2>3, <3>2 DEF IsAdvantage
    <3> QED BY <3>1, <3>2
  <2> QED BY <2>1, <2>2, <2>3
<1> HIDE DEF adv, N, k, w, L, c
<1>7. CASE k = 1
  BY <1>2, <1>4, <1>6, <1>7 DEF adv
<1>8. CASE k # 1
  <2>1. adv.num[t] = L /\ adv.den = k
    BY <1>2, <1>4, <1>8
  <2>2. L * k = k * L
    BY <1>2
  <2>3. IsLead(adv, t, resp, r, N, w, k)
    BY <1>5, <2>1, <2>2
  <2> QED BY <1>6, <1>8, <2>3 DEF adv
<1> QED BY <1>7, <1>8

\* RLOO: the mean of the others.
LEMMA RlooIsRight ==
  ASSUME NEW n, NEW m, NEW resp, NEW p, NEW batch, InSomeOrder(n, m, resp, p, batch),
         NEW i \in 1..n,
         NEW t \in 1..m, resp[p[i]].mask[t], NEW gamma, NEW lam
  PROVE  IsAdvantage("rloo", gamma, lam, resp, p[i], Advantage("rloo", gamma, lam, batch, i), t)
<1> DEFINE r == p[i]
           N == {j \in DOMAIN resp : resp[j].uid = resp[r].uid}
           k == Cardinality(N)
           adv == Advantage("rloo", gamma, lam, batch, i)
           w == [j \in N |-> 1]
           L == Lead(resp, r, w)
           c == Score(resp[r])
<1>1. r \in 1..n /\ batch[i] = resp[r] /\ IsResponse(resp[r], m)
  BY DEF InSomeOrder
<1>2. k \in Nat \ {0} /\ L \in Int /\ c \in Int
      /\ FromMean(batch, i).size = k /\ FromMean(batch, i).num = IF k = 1 THEN c ELSE L
  BY MeanIs DEF Siblings, Ones
<1>3. adv = OnTokens(resp[r], FromMean(batch, i).num,
                     IF FromMean(batch, i).size = 1 THEN 1 ELSE FromMean(batch, i).size - 1)
  BY <1>1 DEF Advantage, Rloo
<1>4. /\ adv.num[t] = FromMean(batch, i).num
      /\ adv.den = IF FromMean(batch, i).size = 1 THEN 1 ELSE FromMean(batch, i).size - 1
  BY <1>1, <1>3, OnTokensIs
<1>5. IsLead(adv, t, resp, r, N, w, k - 1) <=> adv.num[t] * (k - 1) = adv.den * L
  BY LeadAgain
<1>6. IsAdvantage("rloo", gamma, lam, resp, r, adv, t)
        <=> IF k = 1 THEN adv.num[t] = adv.den * c ELSE IsLead(adv, t, resp, r, N, w, k - 1)
  <2>1. k = 1 \/ (k # 1 /\ k > 1)
    BY <1>2
  <2>2. CASE k = 1
    BY <2>2 DEF IsAdvantage
  <2>3. CASE k # 1 /\ k > 1
    BY <2>3 DEF IsAdvantage
  <2> QED BY <2>1, <2>2, <2>3
<1> HIDE DEF adv, N, k, w, L, c
<1>7. CASE k = 1
  BY <1>2, <1>4, <1>6, <1>7 DEF adv
<1>8. CASE k # 1
  <2>1. adv.num[t] = L /\ adv.den = k - 1
    BY <1>2, <1>4, <1>8
  <2>2. L * (k - 1) = (k - 1) * L
    BY <1>2
  <2>3. IsLead(adv, t, resp, r, N, w, k - 1)
    BY <1>5, <2>1, <2>2
  <2> QED BY <1>6, <1>8, <2>3 DEF adv
<1> QED BY <1>7, <1>8

\* OPO: the mean of all, weighted by their lengths.
LEMMA OpoIsRight ==
  ASSUME NEW n, NEW m, NEW resp, NEW p, NEW batch, InSomeOrder(n, m, resp, p, batch),
         NEW i \in 1..n,
         NEW t \in 1..m, resp[p[i]].mask[t], NEW gamma, NEW lam
  PROVE  IsAdvantage("opo", gamma, lam, resp, p[i], Advantage("opo", gamma, lam, batch, i), t)
<1> DEFINE r == p[i]
           N == {j \in DOMAIN resp : resp[j].uid = resp[r].uid}
           G == Group(batch, i)
           k == Cardinality(N)
           adv == Advantage("opo", gamma, lam, batch, i)
           w == [j \in N |-> Length(resp[j])]
           v == [j \in G |-> Length(batch[j])]
           g == [j \in G |-> Length(batch[j]) * Score(batch[j])]
           L == Lead(resp, r, w)
           c == Score(resp[r])
           total == SumFunctionOnSet(v, G)
<1>0. N = Siblings(resp, r)
  BY DEF Siblings
<1>1. r \in 1..n /\ batch[i] = resp[r] /\ IsResponse(resp[r], m)
  BY DEF InSomeOrder
<1>2. SameRows(resp, p, batch, G, N) /\ k \in Nat \ {0}
  <2>1. SameRows(resp, p, batch, G, Siblings(resp, p[i]))
        /\ Cardinality(Siblings(resp, p[i])) \in Nat \ {0}
    BY GroupMoved
  <2> QED BY <1>0, <2>1
<1>3. /\ Cardinality(G) = k /\ \A j \in G : j \in 1..n /\ p[j] \in N /\ batch[j] = resp[p[j]]
      /\ \A j \in N : j \in 1..n
  BY <1>2 DEF SameRows, InSomeOrder
<1>4. \A j \in 1..n : Score(resp[j]) \in Int /\ Length(resp[j]) \in Nat
  BY TokensOf DEF InSomeOrder
<1>5. c \in Int
  BY <1>1, <1>4
<1>6. /\ \A j \in N : w[j] \in Int
      /\ \A j \in G : v[j] = w[p[j]] /\ g[j] = w[p[j]] * Score(batch[j])
  <2>1. \A j \in N : w[j] = Length(resp[j])
    OBVIOUS
  <2>2. \A j \in N : Length(resp[j]) \in Int
    BY <1>3, <1>4
  <2>3. \A j \in G : v[j] = Length(batch[j]) /\ g[j] = Length(batch[j]) * Score(batch[j])
    OBVIOUS
  <2>4. \A j \in G : w[p[j]] = Length(batch[j])
    BY <1>3, <2>1
  <2> QED BY <2>1, <2>2, <2>3, <2>4
<1>7. adv = IF Cardinality(G) = 1 THEN OnTokens(batch[i], Score(batch[i]), 1)
            ELSE OnTokens(batch[i], total * Score(batch[i]) - SumFunctionOnSet(g, G), total)
  BY DEF Advantage, Opo, TotalLength
<1>8. TotalLength(resp, N) = SumFunctionOnSet(w, N)
  BY DEF TotalLength
<1>9. IsLead(adv, t, resp, r, N, w, TotalLength(resp, N))
        <=> adv.num[t] * TotalLength(resp, N) = adv.den * L
  BY LeadAgain
<1>10. IsAdvantage("opo", gamma, lam, resp, r, adv, t)
         <=> IF k = 1 THEN adv.num[t] = adv.den * c
             ELSE IsLead(adv, t, resp, r, N, w, TotalLength(resp, N))
  <2>1. k = 1 \/ (k # 1 /\ k > 1)
    BY <1>2
  <2>2. CASE k = 1
    BY <2>2 DEF IsAdvantage
  <2>3. CASE k # 1 /\ k > 1
    BY <2>3 DEF IsAdvantage
  <2> QED BY <2>1, <2>2, <2>3
<1> HIDE DEF adv, N, w, v, g
<1>11. /\ total = SumFunctionOnSet(w, N) /\ total \in Int /\ SumFunctionOnSet(g, G) \in Int
       /\ L = total * c - SumFunctionOnSet(g, G)
  BY <1>0, <1>6, LeadIs
<1> HIDE DEF k, L, c, total, G
<1>12. CASE k = 1
  <2>1. adv = OnTokens(resp[r], c, 1)
    BY <1>1, <1>3, <1>7, <1>12 DEF c
  <2>2. adv.num[t] = c /\ adv.den = 1
    BY <1>1, <2>1, OnTokensIs
  <2> QED BY <1>5, <1>10, <1>12, <2>2 DEF adv
<1>13. CASE k # 1
  <2>1. adv = OnTokens(resp[r], total * c - SumFunctionOnSet(g, G), total)
    BY <1>1, <1>3, <1>7, <1>13 DEF c
  <2>2. adv.num[t] = L /\ adv.den = total
    BY <1>1, <1>11, <2>1, OnTokensIs
  <2>3. L \in Int
    <3>1. total * c \in Int
      BY <1>5, <1>11
    <3> QED BY <1>11, <3>1
  <2>4. L * total = total * L
    BY <1>11, <2>3
  <2>5. IsLead(adv, t, resp, r, N, w, TotalLength(resp, N))
    BY <1>8, <1>9, <1>11, <2>2, <2>4
  <2> QED BY <1>10, <1>13, <2>5 DEF adv
<1> QED BY <1>12, <1>13

\* GPG: the mean of all, scaled by how many rows of the batch have a score.
LEMMA GpgIsRight ==
  ASSUME NEW n, NEW m, NEW resp, NEW p, NEW batch, InSomeOrder(n, m, resp, p, batch),
         NEW i \in 1..n,
         NEW t \in 1..m, resp[p[i]].mask[t], NEW gamma, NEW lam
  PROVE  IsAdvantage("gpg", gamma, lam, resp, p[i], Advantage("gpg", gamma, lam, batch, i), t)
<1> DEFINE r == p[i]
           N == {j \in DOMAIN resp : resp[j].uid = resp[r].uid}
           A == {j \in DOMAIN batch : Score(batch[j]) # 0}
           B == {j \in DOMAIN resp : Score(resp[j]) # 0}
           k == Cardinality(N)
           q == Cardinality(B)
           adv == Advantage("gpg", gamma, lam, batch, i)
           more == [adv EXCEPT !.den = @ * Cardinality(DOMAIN resp)]
           w == [j \in N |-> 1]
           L == Lead(resp, r, w)
           c == Score(resp[r])
<1>1. /\ r \in 1..n /\ batch[i] = resp[r] /\ IsResponse(resp[r], m) /\ n \in Nat
      /\ DOMAIN resp = 1..n /\ DOMAIN batch = 1..n /\ Len(batch) = n
      /\ \A j \in 1..n : batch[j] = resp[p[j]] /\ p[j] \in 1..n
  BY DEF InSomeOrder
<1>2. k \in Nat \ {0} /\ L \in Int /\ c \in Int
      /\ FromMean(batch, i).size = k /\ FromMean(batch, i).num = IF k = 1 THEN c ELSE L
  BY MeanIs DEF Siblings, Ones
<1>3. Cardinality(A) = q /\ q \in Nat
  <2>1. A \in SUBSET (1..n) /\ B \in SUBSET (1..n) /\ \A j \in 1..n : j \in A <=> p[j] \in B
    BY <1>1
  <2> HIDE DEF A, B
  <2>2. SameRows(resp, p, batch, A, B)
    BY <2>1, RowsMoved
  <2> QED BY <2>2 DEF SameRows
<1>4. adv = OnTokens(resp[r], n * FromMean(batch, i).num,
                     FromMean(batch, i).size * (IF Cardinality(A) = 0 THEN 1 ELSE Cardinality(A)))
  BY <1>1 DEF Advantage, Gpg
<1>5. /\ adv.num[t] = n * FromMean(batch, i).num
      /\ adv.den = FromMean(batch, i).size * (IF Cardinality(A) = 0 THEN 1 ELSE Cardinality(A))
  BY <1>1, <1>4, OnTokensIs
<1>6. Cardinality(DOMAIN resp) = n
  BY <1>1, FS_Interval
<1>7. more.num = adv.num /\ more.den = adv.den * n
  <2>1. \E x, y : adv = [num |-> x, den |-> y]
    BY <1>4 DEF OnTokens
  <2> HIDE DEF adv
  <2>2. PICK x, y : adv = [num |-> x, den |-> y]
    BY <2>1
  <2>3. more = [num |-> x, den |-> y * n]
    BY <1>6, <2>2
  <2>4. adv.num = x /\ adv.den = y
    BY <2>2
  <2> DEFINE z == y * n
  <2> HIDE DEF z, more
  <2>5. more.num = x /\ more.den = z
    BY <2>3, Zenon DEF z
  <2> QED BY <2>4, <2>5 DEF z
<1>8. IsLead(more, t, resp, r, N, w, k * q) <=> more.num[t] * (k * q) = more.den * L
  <2> HIDE DEF more, k, q, w, L
  <2>1. N = {j \in DOMAIN resp : resp[j].uid = resp[r].uid}
    OBVIOUS
  <2> QED BY <2>1, LeadAgain DEF L
<1>9. IsAdvantage("gpg", gamma, lam, resp, r, adv, t)
        <=> (q > 0 /\ k > 1 => IsLead(more, t, resp, r, N, w, k * q))
  BY DEF IsAdvantage
<1> HIDE DEF adv, more, N, A, B, k, q, w, L, c
<1>10. ASSUME q > 0, k > 1 PROVE IsLead(more, t, resp, r, N, w, k * q)
  <2>1. more.num[t] = n * L /\ more.den = (k * q) * n
    BY <1>2, <1>3, <1>5, <1>7, <1>10
  <2>2. (n * L) * (k * q) = ((k * q) * n) * L
    <3>1. \A a, b, d \in Int : (a * b) * d = (d * a) * b
      OBVIOUS
    <3>2. k * q \in Int
      BY <1>2, <1>3
    <3> QED BY <1>1, <1>2, <3>1, <3>2
  <2> QED BY <1>8, <2>1, <2>2
<1> QED BY <1>9, <1>10 DEF adv

\* Some element of a finite set has the largest value.
LEMMA Greatest ==
  ASSUME NEW S, NEW f, IsFiniteSet(S), S # {}, \A i \in S : f[i] \in Int
  PROVE  \E x \in S : \A y \in S : f[y] <= f[x]
<1> DEFINE T == {s \in SUBSET S : s # {} => \E x \in s : \A y \in s : f[y] <= f[x]}
<1>1. {} \in T
  OBVIOUS
<1>2. ASSUME NEW s \in SUBSET S, NEW x \in S, IsFiniteSet(s), s \in T, x \notin s
      PROVE  s \cup {x} \in T
  <2>1. CASE s = {}
    BY <2>1
  <2>2. CASE s # {}
    <3>1. PICK z \in s : \A y \in s : f[y] <= f[z]
      BY <1>2, <2>2
    <3>2. f[z] \in Int /\ f[x] \in Int /\ \A y \in s : f[y] \in Int
      BY <1>2
    <3>3. CASE f[x] <= f[z]
      BY <3>1, <3>3
    <3>4. CASE f[z] <= f[x]
      <4>1. \A y \in s : f[y] <= f[x]
        BY <3>1, <3>2, <3>4
      <4> QED BY <3>2, <4>1
    <3> QED BY <3>2, <3>3, <3>4
  <2> QED BY <2>1, <2>2
<1> HIDE DEF T
<1>3. S \in T
  BY <1>1, <1>2, FiniteInduction
<1> QED BY <1>3 DEF T

\* The maximum of a finite set of integers.
LEMMA GreatestOf ==
  ASSUME NEW X, IsFiniteSet(X), X # {}, \A x \in X : x \in Int
  PROVE  Max(X) \in X /\ \A y \in X : y <= Max(X)
<1> DEFINE f == [x \in X |-> x]
<1>1. \A x \in X : f[x] = x /\ f[x] \in Int
  OBVIOUS
<1> HIDE DEF f
<1>2. PICK x \in X : \A y \in X : f[y] <= f[x]
  BY <1>1, Greatest
<1>3. \E z \in X : \A y \in X : z >= y
  BY <1>1, <1>2
<1>4. Max(X) \in X /\ \A y \in X : Max(X) >= y
  BY <1>3 DEF Max
<1> QED BY <1>4

\* Finitely many elements have finitely many values.
LEMMA FiniteValues ==
  ASSUME NEW S, NEW f, IsFiniteSet(S)
  PROVE  IsFiniteSet({f[i] : i \in S})
<1> DEFINE T == {s \in SUBSET S : IsFiniteSet({f[i] : i \in s})}
<1>1. {} \in T
  <2>1. {f[i] : i \in {}} = {}
    OBVIOUS
  <2> QED BY <2>1, FS_EmptySet
<1>2. ASSUME NEW s \in SUBSET S, NEW x \in S, s \in T PROVE s \cup {x} \in T
  <2>1. {f[i] : i \in s \cup {x}} = {f[i] : i \in s} \cup {f[x]}
    OBVIOUS
  <2> DEFINE A == {f[i] : i \in s}
             B == {f[i] : i \in s \cup {x}}
  <2>2. IsFiniteSet(A)
    BY <1>2
  <2>3. B = A \cup {f[x]}
    BY <2>1
  <2> HIDE DEF A, B
  <2>4. IsFiniteSet(B)
    BY <2>2, <2>3, FS_AddElement
  <2> QED BY <2>4 DEF B
<1> HIDE DEF T
<1>3. S \in T
  BY <1>1, <1>2, FiniteInduction
<1> QED BY <1>3 DEF T

\* PassK: the best response gets what it has over the second best; there are two at least.
LEMMA PassKIsRight ==
  ASSUME NEW n, NEW m, NEW resp, NEW p, NEW batch, InSomeOrder(n, m, resp, p, batch),
         NEW i \in 1..n,
         NEW t \in 1..m, resp[p[i]].mask[t], NEW gamma, NEW lam,
         HasSibling(resp, p[i])
  PROVE  IsAdvantage("grpo_passk", gamma, lam, resp, p[i],
                     Advantage("grpo_passk", gamma, lam, batch, i), t)
<1> DEFINE r == p[i]
           N == {j \in DOMAIN resp : resp[j].uid = resp[r].uid}
           G == Group(batch, i)
           s == [j \in 1..n |-> Score(resp[j])]
           b == [j \in 1..n |-> Score(batch[j])]
           best == CHOOSE j \in G : \A l \in G : Score(batch[l]) <= Score(batch[j])
           X(A) == {b[l] : l \in A}
           Y(A) == {s[l] : l \in A}
           rest == {Score(batch[l]) : l \in G \ {best}}
           adv == Advantage("grpo_passk", gamma, lam, batch, i)
<1>0. N = Siblings(resp, r)
  BY DEF Siblings
<1>1. /\ r \in 1..n /\ batch[i] = resp[r] /\ IsResponse(resp[r], m) /\ n \in Nat
      /\ DOMAIN resp = 1..n /\ DOMAIN batch = 1..n
      /\ \A j \in 1..n : batch[j] = resp[p[j]] /\ p[j] \in 1..n
      /\ \A j, l \in 1..n : p[j] = p[l] => j = l
  BY DEF InSomeOrder
<1>2. SameRows(resp, p, batch, G, N) /\ i \in G /\ r \in N
  <2>1. /\ SameRows(resp, p, batch, G, Siblings(resp, p[i]))
        /\ i \in G /\ p[i] \in Siblings(resp, p[i])
    BY GroupMoved
  <2> QED BY <1>0, <2>1
<1>3. /\ IsFiniteSet(G) /\ IsFiniteSet(N) /\ \A j \in G : j \in 1..n /\ p[j] \in N
      /\ (\A j \in N : j \in 1..n) /\ \A l \in N : \E j \in G : p[j] = l
  BY <1>1, <1>2 DEF SameRows
<1>4. /\ \A j \in 1..n : s[j] \in Int /\ s[j] = Score(resp[j])
      /\ \A j \in 1..n : b[j] = Score(batch[j]) /\ b[j] = s[p[j]] /\ b[j] \in Int
  <2>1. \A j \in 1..n : Score(resp[j]) \in Int
    BY TokensOf DEF InSomeOrder
  <2>2. \A j \in 1..n : Score(batch[j]) = Score(resp[p[j]]) /\ p[j] \in 1..n
    BY <1>1
  <2>3. \A j \in 1..n : s[j] = Score(resp[j]) /\ b[j] = Score(batch[j])
    OBVIOUS
  <2> HIDE DEF s, b
  <2> QED BY <2>1, <2>2, <2>3
<1>5. adv = OnTokens(resp[r], IF i = best THEN Score(batch[i]) - Max(rest) ELSE 0, 1)
  BY <1>1 DEF Advantage, PassK
<1>6. adv.num[t] = IF i = best THEN Score(batch[i]) - Max(rest) ELSE 0
  BY <1>1, <1>5, OnTokensIs
<1>7. IsAdvantage("grpo_passk", gamma, lam, resp, r, adv, t)
        <=> adv.num[t] = Max({0, Score(resp[r]) - Max({Score(resp[j]) : j \in N \ {r}})})
  BY DEF IsAdvantage
<1> HIDE DEF adv, G, N, s, b
<1>8. best \in G /\ \A l \in G : b[l] <= b[best]
  <2>1. \A l \in G : b[l] \in Int
    BY <1>3, <1>4
  <2>2. \E j \in G : \A l \in G : b[l] <= b[j]
    BY <1>2, <1>3, <2>1, Greatest
  <2>3. \A l \in G : b[l] = Score(batch[l])
    BY <1>3, <1>4
  <2>4. \E j \in G : \A l \in G : Score(batch[l]) <= Score(batch[j])
    BY <2>2, <2>3
  <2>5. best \in G /\ \A l \in G : Score(batch[l]) <= Score(batch[best])
    BY <2>4
  <2> HIDE DEF best
  <2> QED BY <2>3, <2>5
<1> HIDE DEF best
<1>9. /\ {Score(batch[l]) : l \in G \ {best}} = X(G \ {best})
      /\ {Score(resp[j]) : j \in N \ {r}} = Y(N \ {r})
  <2>1. (\A l \in G \ {best} : b[l] = Score(batch[l])) /\ \A j \in N \ {r} : s[j] = Score(resp[j])
    BY <1>3, <1>4
  <2> QED BY <2>1
<1>10. /\ Max(Y(N \ {r})) \in Y(N \ {r}) /\ \A y \in Y(N \ {r}) : y <= Max(Y(N \ {r}))
       /\ \A y \in Y(N \ {r}) : y \in Int
  <2>1. IsFiniteSet(N \ {r})
    BY <1>3, FS_Difference
  <2>2. IsFiniteSet(Y(N \ {r}))
    BY <2>1, FiniteValues
  <2>3. N \ {r} # {}
    BY <1>0 DEF HasSibling
  <2>4. Y(N \ {r}) # {} /\ \A y \in Y(N \ {r}) : y \in Int
    BY <1>3, <1>4, <2>3
  <2> HIDE DEF Y
  <2> QED BY <2>2, <2>4, GreatestOf
<1> DEFINE a == Score(resp[r])
           o == Max(Y(N \ {r}))
<1>11. a = s[r] /\ a = b[i] /\ a \in Int /\ o \in Int
  BY <1>1, <1>4, <1>10
<1>12. Max({0, a - o}) = IF a - o >= 0 THEN a - o ELSE 0
  <2> DEFINE z == {0, a - o}
  <2> HIDE DEF a, o
  <2>1. IsFiniteSet(z)
    <3>1. IsFiniteSet({0}) /\ z = {0} \cup {a - o}
      BY FS_Singleton DEF z
    <3> QED BY <3>1, FS_AddElement
  <2>2. z # {} /\ \A x \in z : x \in Int
    BY <1>11
  <2> HIDE DEF z
  <2>3. Max(z) \in z /\ \A y \in z : y <= Max(z)
    BY <2>1, <2>2, GreatestOf
  <2> QED BY <1>11, <2>3 DEF z
<1>13. CASE i = best
  <2>1. X(G \ {best}) = Y(N \ {r})
    <3>1. ASSUME NEW l \in G \ {best} PROVE b[l] \in Y(N \ {r})
      <4>1. l \in 1..n /\ p[l] \in N /\ b[l] = s[p[l]] /\ i \in 1..n /\ l # i
        BY <1>3, <1>4, <1>13
      <4>2. p[l] # r
        BY <1>1, <4>1
      <4> QED BY <4>1, <4>2
    <3>2. ASSUME NEW j \in N \ {r} PROVE s[j] \in X(G \ {best})
      <4>1. PICK l \in G : p[l] = j
        BY <1>3
      <4>2. l \in 1..n /\ b[l] = s[j]
        BY <1>3, <1>4, <4>1
      <4>3. l # best
        BY <1>13, <4>1
      <4> QED BY <4>2, <4>3
    <3> QED BY <3>1, <3>2
  <2>2. adv.num[t] = a - o
    BY <1>1, <1>6, <1>9, <1>13, <2>1
  <2>3. o <= a
    <3>1. \A y \in X(G \ {best}) : y <= b[best]
      BY <1>8
    <3>2. o \in X(G \ {best})
      BY <1>10, <2>1
    <3> HIDE DEF o, X
    <3>3. o <= b[best]
      BY <3>1, <3>2
    <3> QED BY <1>11, <1>13, <3>3
  <2> HIDE DEF a, o
  <2>4. adv.num[t] = Max({0, a - o})
    BY <1>11, <1>12, <2>2, <2>3
  <2> QED BY <1>7, <1>9, <2>4 DEF a, o, adv
<1>14. CASE i # best
  <2>1. adv.num[t] = 0
    BY <1>6, <1>14
  <2>2. best \in 1..n /\ p[best] \in N /\ p[best] # r /\ b[best] = s[p[best]]
    BY <1>1, <1>3, <1>4, <1>8, <1>14
  <2>3. b[best] \in Y(N \ {r})
    BY <2>2
  <2>4. b[best] <= o /\ a <= b[best] /\ b[best] \in Int
    BY <1>2, <1>4, <1>8, <1>10, <1>11, <2>2, <2>3
  <2> HIDE DEF a, o
  <2>5. a - o <= 0
    BY <1>11, <2>4
  <2>6. adv.num[t] = Max({0, a - o})
    BY <1>11, <1>12, <2>1, <2>5
  <2> QED BY <1>7, <1>9, <2>6 DEF a, o, adv
<1> QED BY <1>13, <1>14

\* Whatever the order of the rows, a token that the model generated has the advantage its
\* estimator is defined to give it.
LEMMA AdvantageIsRight ==
  ASSUME NEW n, NEW m, NEW resp, NEW p, NEW batch, InSomeOrder(n, m, resp, p, batch),
         NEW i \in 1..n,
         NEW t \in 1..m, resp[p[i]].mask[t], NEW gamma \in Int, NEW lam \in Int,
         NEW est \in Estimators,
         est = "grpo_passk" => HasSibling(resp, p[i])
  PROVE  IsAdvantage(est, gamma, lam, resp, p[i], Advantage(est, gamma, lam, batch, i), t)
<1>1. batch[i] = resp[p[i]] /\ IsResponse(resp[p[i]], m)
  BY DEF InSomeOrder
<1>2. CASE est \in {"grpo", "reinforce_plus_plus_baseline"}
  BY <1>2, GrpoIsRight
<1>3. CASE est = "rloo"
  BY <1>3, RlooIsRight
<1>4. CASE est = "opo"
  BY <1>4, OpoIsRight
<1>5. CASE est = "gpg"
  BY <1>5, GpgIsRight
<1>6. CASE est = "grpo_passk"
  BY <1>6, PassKIsRight
<1>7. CASE est = "gae"
  <2> DEFINE adv == Advantage("gae", gamma, lam, batch, i)
             r == p[i]
  <2>1. adv = Gae(resp[r], gamma, lam)
    BY <1>1 DEF Advantage
  <2>2. adv.num[t] = Discounted(resp[r].mask, gamma * lam, Errors(resp[r], gamma), t)
    BY <1>1, <2>1, GaeIsRight
  <2> HIDE DEF adv
  <2>3. IsAdvantage("gae", gamma, lam, resp, r, adv, t)
    BY <2>2 DEF IsAdvantage, Errors
  <2> QED BY <1>7, <2>3 DEF adv
<1>8. CASE est = "reinforce_plus_plus"
  <2> DEFINE adv == Advantage("reinforce_plus_plus", gamma, lam, batch, i)
             r == p[i]
  <2>1. adv = ReinforcePlusPlus(resp[r], gamma)
    BY <1>1 DEF Advantage
  <2>2. Gapless(resp[r].mask) =>
          adv.num[t] = Discounted(resp[r].mask, gamma, resp[r].rewards, t)
    BY <1>1, <2>1, ReinforceIsRight
  <2> HIDE DEF adv
  <2>3. IsAdvantage("reinforce_plus_plus", gamma, lam, resp, r, adv, t)
    BY <2>2 DEF IsAdvantage
  <2> QED BY <1>8, <2>3 DEF adv
<1>9. CASE est = "remax"
  <2> DEFINE adv == Advantage("remax", gamma, lam, batch, i)
             r == p[i]
  <2>1. adv = Remax(resp[r])
    BY <1>1 DEF Advantage
  <2>2. adv.num[t] = Discounted(resp[r].mask, 1, resp[r].rewards, t) - resp[r].baseline
    BY <1>1, <2>1, RemaxIsRight
  <2> HIDE DEF adv
  <2>3. IsAdvantage("remax", gamma, lam, resp, r, adv, t)
    BY <2>2 DEF IsAdvantage
  <2> QED BY <1>9, <2>3 DEF adv
<1> QED BY <1>2, <1>3, <1>4, <1>5, <1>6, <1>7, <1>8, <1>9 DEF Estimators
=============================================================================
