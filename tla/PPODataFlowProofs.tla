------------------------- MODULE PPODataFlowProofs -------------------------
(***************************************************************************)
(* The rows of a step, for every number of workers, rows and prompts and   *)
(* every layout that the configuration of a job may have: what a call      *)
(* cuts, gathers, shares and collects is put together again in the order   *)
(* of the batch, so that the columns fit together and no response is lost  *)
(* or doubled.                                                             *)
(***************************************************************************)
EXTENDS PPODataFlow, BatchProofs

-----------------------------------------------------------------------------
(***************************************************************************)
(* Parts of equal length                                                   *)
(***************************************************************************)

\* Equal parts are as many as are multiplied.
LEMMA DivMul ==
  ASSUME NEW m \in Nat, NEW d \in Nat \ {0}
  PROVE  /\ m * d \in Nat /\ (m * d) % d = 0 /\ (m * d) \div d = m
         /\ \A r \in 0..d - 1 : (m * d + r) % d = r /\ (m * d + r) \div d = m
<1>1. m * d \in Nat
  OBVIOUS
<1>2. ASSUME NEW r \in 0..d - 1 PROVE (m * d + r) % d = r /\ (m * d + r) \div d = m
  OBVIOUS
<1>3. 0 \in 0..d - 1 /\ m * d + 0 = m * d
  BY <1>1
<1> QED BY <1>1, <1>2, <1>3

\* A number that divides another goes into it.
LEMMA Divided ==
  ASSUME NEW n \in Nat, NEW d \in Nat \ {0}, n % d = 0
  PROVE  n \div d \in Nat /\ n = (n \div d) * d
<1>1. n \div d \in Nat /\ n = d * (n \div d) + (n % d)
  OBVIOUS
<1>2. d * (n \div d) = (n \div d) * d
  BY <1>1
<1> QED BY <1>1, <1>2

\* The place of element j of part i, of parts of length d, in a list of n elements.
At(d, i, j) == (i - 1) * d + j

PartsFill(m, d, n) ==
  /\ n \in Nat
  /\ \A i \in 1..m, j \in 1..d : At(d, i, j) \in 1..n
  /\ \A p \in 1..n : \E i \in 1..m, j \in 1..d : p = At(d, i, j)

\* The places of m parts of equal length are those of the list, each that of one element.
LEMMA PartPlaces ==
  ASSUME NEW m \in Nat, NEW d \in Nat
  PROVE  PartsFill(m, d, m * d)
<1>1. m * d \in Nat
  OBVIOUS
<1>2. ASSUME NEW i \in 1..m, NEW j \in 1..d PROVE (i - 1) * d + j \in 1..m * d
  <2>1. m * d = (i - 1) * d + d + (m - i) * d
    OBVIOUS
  <2>2. (m - i) * d \in Nat /\ (i - 1) * d \in Nat
    <3>1. m - i \in Nat /\ i - 1 \in Nat
      OBVIOUS
    <3> QED BY <3>1
  <2> QED BY <1>1, <2>1, <2>2
<1>3. ASSUME NEW p \in 1..m * d PROVE \E i \in 1..m, j \in 1..d : p = (i - 1) * d + j
  <2>1. d # 0
    BY <1>1
  <2> DEFINE q == (p - 1) \div d
             r == (p - 1) % d
  <2>2. q \in Nat /\ r \in 0..d - 1 /\ p - 1 = d * q + r
    BY <2>1
  <2> HIDE DEF q, r
  <2>3. q < m
    <3> SUFFICES ASSUME q >= m PROVE FALSE
      BY <2>2
    <3>1. d * q = m * d + (q - m) * d
      BY <2>2
    <3>2. (q - m) * d \in Nat
      <4>1. q - m \in Nat
        BY <2>2
      <4> QED BY <4>1
    <3> QED BY <1>1, <2>2, <3>1, <3>2
  <2>4. q + 1 \in 1..m /\ r + 1 \in 1..d
    BY <2>2, <2>3
  <2>5. p = ((q + 1) - 1) * d + (r + 1)
    <3>1. (q + 1) - 1 = q /\ d * q = q * d
      BY <2>2
    <3> QED BY <2>2, <3>1
  <2> QED BY <2>4, <2>5
<1> QED BY <1>1, <1>2, <1>3 DEF PartsFill, At

\* m parts of d elements each.
EqualParts(m, d, S, s) == s \in [1..m -> Seq(S)] /\ \A i \in 1..m : Len(s[i]) = d

\* The list rows has the elements of the parts of s in their places.
Joins(m, d, S, s, rows) ==
  /\ rows \in Seq(S) /\ Len(rows) = m * d
  /\ \A i \in 1..m, j \in 1..d : rows[At(d, i, j)] = s[i][j]

\* So has what the parts flatten to.
LEMMA FlattenPlaces ==
  ASSUME NEW S, NEW m \in Nat, NEW d \in Nat, NEW s, EqualParts(m, d, S, s)
  PROVE  Joins(m, d, S, s, FlattenSeq(s))
<1> DEFINE F(n) == FlattenSeq([i \in 1..n |-> s[i]])
           Good(n) == /\ F(n) \in Seq(S)
                      /\ Len(F(n)) = n * d
                      /\ \A i \in 1..n, j \in 1..d : F(n)[At(d, i, j)] = s[i][j]
           N == {n \in Nat : n <= m => Good(n)}
<1>1. 0 \in N
  <2>1. [i \in 1..0 |-> s[i]] = <<>>
    OBVIOUS
  <2>2. F(0) = <<>>
    BY <2>1, FlattenNone
  <2> HIDE DEF F
  <2>3. <<>> \in Seq(S) /\ Len(<<>>) = 0 /\ 1..0 = {} /\ 0 * d = 0
    OBVIOUS
  <2>4. Good(0)
    BY <2>2, <2>3
  <2> HIDE DEF Good
  <2> QED BY <2>4
<1>2. ASSUME NEW n \in Nat, n \in N, n + 1 <= m PROVE Good(n + 1)
  <2> DEFINE t == [i \in 1..n + 1 |-> s[i]]
             x == F(n)
             y == s[n + 1]
  <2>1. Good(n)
    <3> HIDE DEF Good
    <3>1. n <= m
      BY <1>2
    <3> QED BY <1>2, <3>1
  <2>2. t \in [1..n + 1 -> Seq(S)] /\ t[n + 1] = y /\ [i \in 1..n |-> t[i]] = [i \in 1..n |-> s[i]]
    <3>1. \A i \in 1..n + 1 : i \in 1..m
      BY <1>2
    <3>2. \A i \in 1..n + 1 : s[i] \in Seq(S)
      BY <3>1 DEF EqualParts
    <3>3. n + 1 \in 1..n + 1 /\ \A i \in 1..n : i \in 1..n + 1
      OBVIOUS
    <3> QED BY <3>2, <3>3
  <2>3. F(n + 1) = x \o y
    <3> HIDE DEF t
    <3>1. FlattenSeq(t) = FlattenSeq([i \in 1..n |-> t[i]]) \o t[n + 1]
      BY <2>2, FlattenMore
    <3> QED BY <2>2, <3>1 DEF t
  <2>4. y \in Seq(S) /\ Len(y) = d
    BY <1>2 DEF EqualParts
  <2>5. /\ x \in Seq(S) /\ Len(x) = n * d
        /\ \A i \in 1..n, j \in 1..d : x[At(d, i, j)] = s[i][j]
    BY <2>1
  <2>9. y = s[n + 1]
    OBVIOUS
  <2> HIDE DEF x, y, F
  <2>6. x \o y \in Seq(S) /\ Len(x \o y) = n * d + d
    BY <2>4, <2>5
  <2>7. n * d \in Nat /\ (n + 1) * d = n * d + d
    OBVIOUS
  <2>8. ASSUME NEW i \in 1..n + 1, NEW j \in 1..d PROVE (x \o y)[At(d, i, j)] = s[i][j]
    <3>1. CASE i \in 1..n
      <4>1. At(d, i, j) \in 1..n * d
        BY <3>1, PartPlaces DEF PartsFill
      <4>2. \A p \in 1..n * d : (x \o y)[p] = x[p]
        BY <2>4, <2>5, <2>7
      <4> QED BY <2>5, <3>1, <4>1, <4>2
    <3>2. CASE i = n + 1
      <4>1. At(d, i, j) = n * d + j
        BY <3>2 DEF At
      <4>2. \A p \in 1..d : (x \o y)[n * d + p] = y[p]
        BY <2>4, <2>5, <2>7
      <4>3. (x \o y)[At(d, i, j)] = y[j]
        BY <4>1, <4>2
      <4>4. y[j] = s[i][j]
        BY <2>9, <3>2
      <4> QED BY <4>3, <4>4
    <3>3. i \in 1..n \/ i = n + 1
      OBVIOUS
    <3> QED BY <3>1, <3>2, <3>3, Zenon
  <2> QED BY <2>3, <2>6, <2>7, <2>8
<1>3. ASSUME NEW n \in Nat, n \in N PROVE n + 1 \in N
  <2>1. n + 1 <= m => Good(n + 1)
    BY <1>2, <1>3
  <2> HIDE DEF Good
  <2> QED BY <2>1
<1> HIDE DEF N
<1>4. m \in N
  BY <1>1, <1>3, Inductive
<1> HIDE DEF Good
<1>5. Good(m)
  BY <1>4 DEF N
<1>6. [i \in 1..m |-> s[i]] = s
  BY DEF EqualParts
<1>7. F(m) = FlattenSeq(s)
  BY <1>6
<1> HIDE DEF F
<1> QED BY <1>5, <1>7 DEF Good, Joins

\* What chunk returns is parts of equal length.
LEMMA ChunkParts ==
  ASSUME NEW S, NEW rows \in Seq(S), NEW m \in Nat \ {0}, NEW d \in Nat, Len(rows) = m * d
  PROVE  EqualParts(m, d, S, Chunk(rows, m)) /\ Joins(m, d, S, Chunk(rows, m), rows)
<1>1. Len(rows) \div m = d
  <2>1. m * d = d * m
    OBVIOUS
  <2> QED BY <2>1, DivMul
<1>2. Chunk(rows, m) = [c \in 1..m |-> SubSeq(rows, (c - 1) * d + 1, c * d)]
  BY <1>1 DEF Chunk
<1>3. ASSUME NEW c \in 1..m
      PROVE  LET piece == SubSeq(rows, (c - 1) * d + 1, c * d)
             IN  /\ piece \in Seq(S) /\ Len(piece) = d
                 /\ \A j \in 1..d : piece[j] = rows[At(d, c, j)]
  <2> DEFINE a == (c - 1) * d
             b == c * d
  <2>1. a \in Nat /\ b = a + d
    <3>1. c - 1 \in Nat
      OBVIOUS
    <3> QED BY <3>1
  <2>2. \A j \in 1..d : a + j \in 1..Len(rows)
    BY PartPlaces DEF PartsFill, At
  <2>3. \A j \in 1..d : At(d, c, j) = a + j
    BY DEF At
  <2> HIDE DEF a, b
  <2>4. \A p \in a + 1 .. b : p \in 1..Len(rows)
    <3> SUFFICES ASSUME NEW p \in a + 1 .. b PROVE p \in 1..Len(rows)
      OBVIOUS
    <3>1. p - a \in 1..d /\ a + (p - a) = p
      BY <2>1
    <3> QED BY <2>2, <3>1
  <2>5. \A p \in a + 1 .. b : rows[p] \in S
    BY <2>4
  <2>6. a + 1 \in Int /\ b \in Int
    BY <2>1
  <2>7. /\ SubSeq(rows, a + 1, b) \in Seq(S)
        /\ Len(SubSeq(rows, a + 1, b)) = IF a + 1 <= b THEN b - (a + 1) + 1 ELSE 0
        /\ \A j \in 1..b - (a + 1) + 1 : SubSeq(rows, a + 1, b)[j] = rows[(a + 1) + j - 1]
    BY <2>5, <2>6, SubSeqProperties
  <2>8. /\ b - (a + 1) + 1 = d /\ (a + 1 <= b <=> d # 0)
        /\ \A j \in 1..d : (a + 1) + j - 1 = a + j
    BY <2>1
  <2>9. Len(SubSeq(rows, a + 1, b)) = d
    BY <2>7, <2>8
  <2>10. \A j \in 1..d : SubSeq(rows, a + 1, b)[j] = rows[At(d, c, j)]
    BY <2>3, <2>7, <2>8
  <2> QED BY <2>7, <2>9, <2>10 DEF a, b
<1> QED BY <1>2, <1>3 DEF EqualParts, Joins

\* Parts in their places are all there is.
LEMMA JoinedOnce ==
  ASSUME NEW S, NEW m \in Nat, NEW d \in Nat, NEW s, NEW rows, NEW list,
         Joins(m, d, S, s, rows), Joins(m, d, S, s, list)
  PROVE  rows = list
<1> DEFINE n == m * d
<1>1. n \in Nat /\ \A p \in 1..n : \E i \in 1..m, j \in 1..d : p = At(d, i, j)
  BY PartPlaces DEF PartsFill
<1>2. /\ rows \in Seq(S) /\ Len(rows) = n /\ list \in Seq(S) /\ Len(list) = n
      /\ \A i \in 1..m, j \in 1..d : rows[At(d, i, j)] = list[At(d, i, j)]
  BY DEF Joins
<1> HIDE DEF n
<1>3. \A p \in 1..n : rows[p] = list[p]
  BY <1>1, <1>2
<1> QED BY <1>1, <1>2, <1>3, SeqEqual

\* And so are the parts that have the same elements in the same places.
LEMMA CutOnce ==
  ASSUME NEW S, NEW m \in Nat, NEW d \in Nat, NEW s, NEW t, NEW rows,
         EqualParts(m, d, S, s), EqualParts(m, d, S, t),
         Joins(m, d, S, s, rows), Joins(m, d, S, t, rows)
  PROVE  s = t
<1>1. ASSUME NEW c \in 1..m PROVE s[c] = t[c]
  <2>1. s[c] \in Seq(S) /\ t[c] \in Seq(S) /\ Len(s[c]) = d /\ Len(t[c]) = d
    BY DEF EqualParts
  <2>2. \A j \in 1..d : s[c][j] = t[c][j]
    BY DEF Joins
  <2> QED BY <2>1, <2>2, SeqEqual
<1> QED BY <1>1 DEF EqualParts

\* concat puts together again what chunk has cut.
THEOREM ConcatOfChunk ==
  ASSUME NEW S, NEW rows \in Seq(S), NEW m \in Nat \ {0}, Len(rows) % m = 0
  PROVE  Concat(Chunk(rows, m)) = rows
<1> DEFINE d == Len(rows) \div m
<1>1. d \in Nat /\ Len(rows) = m * d /\ m \in Nat
  <2>1. d \in Nat /\ Len(rows) = d * m
    BY Divided
  <2> QED BY <2>1
<1> HIDE DEF d
<1>2. EqualParts(m, d, S, Chunk(rows, m)) /\ Joins(m, d, S, Chunk(rows, m), rows)
  BY <1>1, ChunkParts
<1>3. Joins(m, d, S, Chunk(rows, m), FlattenSeq(Chunk(rows, m)))
  BY <1>1, <1>2, FlattenPlaces
<1>4. FlattenSeq(Chunk(rows, m)) = rows
  BY <1>1, <1>2, <1>3, JoinedOnce
<1> QED BY <1>4 DEF Concat

\* chunk cuts again what concat has put together of parts of equal length.
THEOREM ChunkOfConcat ==
  ASSUME NEW S, NEW m \in Nat \ {0}, NEW d \in Nat, NEW s, EqualParts(m, d, S, s)
  PROVE  Joins(m, d, S, s, Concat(s)) /\ Chunk(Concat(s), m) = s
<1> DEFINE rows == Concat(s)
<1>1. m \in Nat /\ Joins(m, d, S, s, rows)
  BY FlattenPlaces DEF Concat
<1> HIDE DEF rows
<1>2. rows \in Seq(S) /\ Len(rows) = m * d
  BY <1>1 DEF Joins
<1>3. EqualParts(m, d, S, Chunk(rows, m)) /\ Joins(m, d, S, Chunk(rows, m), rows)
  BY <1>2, ChunkParts
<1>4. Chunk(rows, m) = s
  BY <1>1, <1>3, CutOnce
<1> QED BY <1>1, <1>4 DEF rows

-----------------------------------------------------------------------------
(***************************************************************************)
(* Groups of workers                                                       *)
(***************************************************************************)

\* f enumerates S in increasing order.
Enumerates(n, S, f) ==
  /\ f \in [1..n -> S]
  /\ \A x \in S : \E q \in 1..n : f[q] = x
  /\ \A q, r \in 1..n : q < r => f[q] < f[r]

\* There is only one such enumeration.
LEMMA AscendingIs ==
  ASSUME NEW n \in Nat, NEW S \in SUBSET Nat, NEW f, Enumerates(n, S, f)
  PROVE  Cardinality(S) = n /\ Ascending(S) = f
<1>1. /\ f \in [1..n -> S] /\ \A q \in 1..n : f[q] \in Nat
      /\ \A x \in S : \E q \in 1..n : f[q] = x
      /\ \A q, r \in 1..n : q < r => f[q] < f[r]
  BY DEF Enumerates
<1>2. \A q, r \in 1..n : f[q] = f[r] => q = r
  <2> SUFFICES ASSUME NEW q \in 1..n, NEW r \in 1..n, f[q] = f[r], q # r PROVE FALSE
    OBVIOUS
  <2>1. q < r \/ r < q
    OBVIOUS
  <2> QED BY <1>1, <2>1
<1>3. IsFiniteSet(1..n) /\ Cardinality(1..n) = n
  BY FS_Interval
<1>4. Cardinality(S) = n
  <2>1. f \in Bijection(1..n, S)
    BY <1>1, <1>2 DEF Bijection, Injection, Surjection, IsInjective
  <2>2. ExistsBijection(1..n, S)
    BY <2>1 DEF ExistsBijection
  <2> QED BY <1>3, <2>2, FS_Bijection
<1>5. ASSUME NEW q \in 1..n PROVE Cardinality({y \in S : y < f[q]}) = q - 1
  <2> DEFINE g == [r \in 1..q - 1 |-> f[r]]
             B == {y \in S : y < f[q]}
  <2>1. \A r \in 1..q - 1 : r \in 1..n /\ r < q
    OBVIOUS
  <2>2. \A r \in 1..q - 1 : g[r] = f[r] /\ f[r] \in B
    BY <1>1, <2>1
  <2>3. ASSUME NEW y \in B PROVE \E r \in 1..q - 1 : g[r] = y
    <3>1. y \in S /\ y < f[q]
      OBVIOUS
    <3>2. PICK r \in 1..n : f[r] = y
      BY <1>1, <3>1
    <3>3. r < q
      <4>1. f[r] < f[q] /\ f[r] \in Nat /\ f[q] \in Nat
        BY <1>1, <3>1, <3>2
      <4>2. q < r => f[q] < f[r]
        BY <1>1
      <4> QED BY <4>1, <4>2
    <3> QED BY <2>2, <3>2, <3>3
  <2>4. g \in [1..q - 1 -> B]
    BY <2>2
  <2> HIDE DEF B, g
  <2>5. g \in Bijection(1..q - 1, B)
    BY <1>2, <2>1, <2>2, <2>3, <2>4 DEF Bijection, Injection, Surjection, IsInjective
  <2>6. ExistsBijection(1..q - 1, B)
    BY <2>5 DEF ExistsBijection
  <2>7. IsFiniteSet(1..q - 1) /\ Cardinality(1..q - 1) = q - 1
    BY FS_Interval
  <2>8. Cardinality(B) = q - 1
    BY <2>6, <2>7, FS_Bijection
  <2> QED BY <2>8 DEF B
<1>6. ASSUME NEW q \in 1..n
      PROVE  (CHOOSE x \in S : Cardinality({y \in S : y < x}) = q - 1) = f[q]
  <2>1. f[q] \in S /\ Cardinality({y \in S : y < f[q]}) = q - 1
    BY <1>1, <1>5
  <2>2. ASSUME NEW x \in S, Cardinality({y \in S : y < x}) = q - 1 PROVE x = f[q]
    <3>1. PICK r \in 1..n : f[r] = x
      BY <1>1
    <3>2. Cardinality({y \in S : y < f[r]}) = r - 1
      BY <1>5
    <3>3. r - 1 = q - 1
      BY <2>2, <3>1, <3>2
    <3>4. r = q
      BY <3>3
    <3> QED BY <3>1, <3>4
  <2> QED BY <2>1, <2>2
<1>7. Ascending(S) = [q \in 1..n |-> CHOOSE x \in S : Cardinality({y \in S : y < x}) = q - 1]
  BY <1>4 DEF Ascending, Ordered
<1>8. Ascending(S) = [q \in 1..n |-> f[q]]
  BY <1>6, <1>7, Zenon
<1>9. f = [q \in 1..n |-> f[q]]
  BY <1>1
<1> QED BY <1>4, <1>8, <1>9

\* The first ones in their order.
LEMMA FirstOnes ==
  ASSUME NEW m \in Nat
  PROVE  /\ IsFiniteSet(1..m) /\ Cardinality(1..m) = m
         /\ Ascending(1..m) = [i \in 1..m |-> i]
<1> DEFINE f == [i \in 1..m |-> i]
<1>1. Enumerates(m, 1..m, f)
  BY DEF Enumerates
<1>2. 1..m \in SUBSET Nat
  OBVIOUS
<1> HIDE DEF f
<1>3. Ascending(1..m) = f
  BY <1>1, <1>2, AscendingIs
<1>4. IsFiniteSet(1..m) /\ Cardinality(1..m) = m
  BY FS_Interval
<1> QED BY <1>3, <1>4 DEF f

\* A factor of both sides can be left out.
LEMMA Cancel ==
  ASSUME NEW t \in Nat \ {0}, NEW x \in Int, NEW y \in Int, t * x < t * y
  PROVE  x < y
<1> SUFFICES ASSUME x >= y PROVE FALSE
  OBVIOUS
<1>1. t * x = t * y + t * (x - y) /\ t * x \in Int /\ t * y \in Int
  OBVIOUS
<1>2. t * (x - y) \in Nat
  <2>1. x - y \in Nat
    OBVIOUS
  <2> QED BY <2>1
<1> QED BY <1>1, <1>2

\* The workers of worker w's group, when n workers are in groups of g.
GroupOf(n, g, w) == {v \in 1..n : (v - 1) \div g = (w - 1) \div g}
InGroup(g, w)    == [i \in 1..g |-> At(g, (w - 1) \div g + 1, i)]
PlaceIn(g, w)    == ((w - 1) % g) + 1
HasPlace(g, w)   == PlaceIn(g, w) \in 1..g /\ InGroup(g, w)[PlaceIn(g, w)] = w

\* They follow one another, and each has its place among them.
LEMMA GroupIs ==
  ASSUME NEW n \in Nat, NEW g \in Nat \ {0}, n % g = 0, NEW w \in 1..n
  PROVE  /\ Enumerates(g, GroupOf(n, g, w), InGroup(g, w))
         /\ HasPlace(g, w)
         /\ \A v \in GroupOf(n, g, w) : InGroup(g, v) = InGroup(g, w)
<1> DEFINE c == (w - 1) \div g
           a == c * g
           m == n \div g
<1>1. m \in Nat /\ n = m * g
  BY Divided
<1>2. c \in Nat /\ w - 1 = g * c + ((w - 1) % g) /\ (w - 1) % g \in 0..g - 1
  OBVIOUS
<1>3. a \in Nat /\ w - 1 = a + ((w - 1) % g)
  <2>1. g * c = c * g /\ c * g \in Nat
    BY <1>2
  <2> QED BY <1>2, <2>1
<1>4. \A i \in 1..g : InGroup(g, w)[i] = a + i
  <2>1. c + 1 - 1 = c
    BY <1>2
  <2> QED BY <2>1 DEF InGroup, At
<1>5. \A v \in GroupOf(n, g, w) : InGroup(g, v) = InGroup(g, w)
  BY DEF GroupOf, InGroup
<1> HIDE DEF c, m
<1>6. ASSUME NEW i \in 1..g PROVE a + i \in 1..n /\ ((a + i) - 1) \div g = c
  <2>1. c < m
    <3>1. g * c < g * m
      <4>1. g * m = m * g
        BY <1>1
      <4>2. g * c <= w - 1
        BY <1>2
      <4> QED BY <1>1, <1>2, <4>1, <4>2
    <3> QED BY <1>1, <1>2, <3>1, Cancel
  <2>2. c + 1 \in 1..m /\ (c + 1) - 1 = c
    BY <1>1, <1>2, <2>1
  <2>3. At(g, c + 1, i) \in 1..m * g
    BY <1>1, <2>2, PartPlaces DEF PartsFill
  <2>4. At(g, c + 1, i) = a + i
    BY <2>2 DEF At
  <2>5. i - 1 \in 0..g - 1 /\ (a + i) - 1 = c * g + (i - 1)
    BY <1>3
  <2>6. (c * g + (i - 1)) \div g = c
    BY <1>2, <2>5, DivMul
  <2> QED BY <1>1, <2>3, <2>4, <2>5, <2>6
<1>7. ASSUME NEW v \in GroupOf(n, g, w) PROVE \E i \in 1..g : v = a + i
  <2>1. v \in 1..n /\ (v - 1) \div g = c
    BY DEF GroupOf, c
  <2>2. v - 1 = g * ((v - 1) \div g) + ((v - 1) % g) /\ (v - 1) % g \in 0..g - 1
    BY <2>1
  <2>3. g * ((v - 1) \div g) = a
    <3>1. g * c = c * g
      BY <1>2
    <3> QED BY <2>1, <3>1
  <2> HIDE DEF a
  <2>4. ((v - 1) % g) + 1 \in 1..g /\ v = a + (((v - 1) % g) + 1)
    BY <1>3, <2>1, <2>2, <2>3
  <2> QED BY <2>4
<1> HIDE DEF a
<1>8. Enumerates(g, GroupOf(n, g, w), InGroup(g, w))
  <2>1. \A i \in 1..g : a + i \in GroupOf(n, g, w)
    BY <1>6 DEF GroupOf, c
  <2>2. InGroup(g, w) \in [1..g -> GroupOf(n, g, w)]
    BY <1>4, <2>1 DEF InGroup
  <2>3. \A q, r \in 1..g : q < r => a + q < a + r
    BY <1>3
  <2> QED BY <1>4, <1>7, <2>2, <2>3 DEF Enumerates
<1>9. PlaceIn(g, w) \in 1..g /\ a + PlaceIn(g, w) = w
  BY <1>2, <1>3 DEF PlaceIn
<1> QED BY <1>4, <1>5, <1>8, <1>9 DEF HasPlace

\* The ranks of Megatron that are first in their tensor-parallel group and in the last stage
\* of the pipeline, and the data-parallel rank of worker w.
LastStage(n, tp, pp, dp) == {w \in 1..n : (w - 1) % tp = 0 /\ (w - 1) \div (tp * dp) = pp - 1}
Replies(tp, pp, dp)      == [i \in 1..dp |-> ((pp - 1) * dp + (i - 1)) * tp + 1]
ReplicaOf(tp, dp, w)     == (((w - 1) \div tp) % dp) + 1

\* They are one of each replica, in the order of the replicas.
LEMMA LastStageIs ==
  ASSUME NEW tp \in Nat \ {0}, NEW pp \in Nat \ {0}, NEW dp \in Nat \ {0}, NEW n, n = (tp * pp) * dp
  PROVE  /\ Enumerates(dp, LastStage(n, tp, pp, dp), Replies(tp, pp, dp))
         /\ \A i \in 1..dp : ReplicaOf(tp, dp, Replies(tp, pp, dp)[i]) = i
<1> DEFINE a == (pp - 1) * dp
           f(i) == (a + (i - 1)) * tp + 1
           td == tp * dp
<1>1. a \in Nat /\ td \in Nat \ {0} /\ pp - 1 \in Nat
  <2>1. pp - 1 \in Nat
    OBVIOUS
  <2>2. td # 0
    <3> SUFFICES ASSUME td <= 0 PROVE FALSE
      OBVIOUS
    <3>1. tp * dp = tp + tp * (dp - 1) /\ dp - 1 \in Nat
      OBVIOUS
    <3>2. tp * (dp - 1) \in Nat
      BY <3>1
    <3> QED BY <3>1, <3>2
  <2> QED BY <2>1, <2>2
<1>2. Replies(tp, pp, dp) = [i \in 1..dp |-> f(i)]
  BY DEF Replies
<1>3. /\ a * tp = (pp - 1) * td
      /\ n = (pp - 1) * td + td
  <2>1. ((pp - 1) * dp) * tp = (pp - 1) * (tp * dp)
    OBVIOUS
  <2>2. (tp * pp) * dp = (pp - 1) * (tp * dp) + tp * dp
    OBVIOUS
  <2> QED BY <2>1, <2>2
<1> HIDE DEF a, td
<1>4. ASSUME NEW i \in 1..dp
      PROVE  /\ f(i) \in 1..n /\ (f(i) - 1) % tp = 0
             /\ (f(i) - 1) \div tp = a + (i - 1) /\ (f(i) - 1) \div td = pp - 1
  <2> DEFINE j == i - 1
             x == (a + j) * tp
  <2>1. j \in 0..dp - 1 /\ a + j \in Nat
    BY <1>1
  <2>2. x % tp = 0 /\ x \div tp = a + j /\ x \in Nat
    BY <2>1, DivMul
  <2>3. x = (pp - 1) * td + j * tp
    <3>1. (a + j) * tp = a * tp + j * tp
      BY <1>1, <2>1
    <3> QED BY <1>3, <3>1
  <2>4. j * tp \in 0..td - 1
    <3>1. td = j * tp + (dp - 1 - j) * tp + tp
      BY <2>1 DEF td
    <3>2. j * tp \in Nat /\ (dp - 1 - j) * tp \in Nat
      <4>1. dp - 1 - j \in Nat
        BY <2>1
      <4> QED BY <2>1, <4>1
    <3> QED BY <1>1, <3>1, <3>2
  <2>5. x \div td = pp - 1
    <3> DEFINE r == j * tp
    <3>1. r \in 0..td - 1 /\ x = (pp - 1) * td + r
      BY <2>3, <2>4
    <3> HIDE DEF r, x
    <3>2. ((pp - 1) * td + r) \div td = pp - 1
      BY <1>1, <3>1, DivMul
    <3> QED BY <3>1, <3>2
  <2>6. (pp - 1) * td \in Nat
    BY <1>1
  <2> HIDE DEF x
  <2>7. x < n
    BY <1>1, <1>3, <2>2, <2>3, <2>4, <2>6
  <2>8. f(i) - 1 = x /\ f(i) \in 1..n
    BY <1>1, <1>3, <2>2, <2>6, <2>7 DEF x
  <2> HIDE DEF f
  <2> QED BY <2>2, <2>5, <2>8
<1>5. \A i \in 1..dp : f(i) \in LastStage(n, tp, pp, dp)
  BY <1>4 DEF LastStage, td
<1>6. ASSUME NEW w \in LastStage(n, tp, pp, dp) PROVE \E i \in 1..dp : f(i) = w
  <2> DEFINE u == w - 1
             q == u \div tp
             r == u % td
  <2>1. u \in Nat /\ u % tp = 0 /\ u \div td = pp - 1
    <3>1. n \in Nat
      OBVIOUS
    <3> QED BY <3>1 DEF LastStage, td
  <2> HIDE DEF u
  <2>2. q \in Nat /\ u = q * tp
    BY <2>1, Divided
  <2>3. r \in 0..td - 1 /\ u = td * (u \div td) + r
    BY <1>1, <2>1
  <2> HIDE DEF q, r
  <2>4. u = a * tp + r
    <3>1. td * (pp - 1) = (pp - 1) * td
      BY <1>1
    <3> QED BY <1>3, <2>1, <2>3, <3>1
  <2> DEFINE j == q - a
  <2>5. r = tp * j
    <3>1. tp * (q - a) = q * tp - a * tp
      BY <1>1, <2>2
    <3>2. q * tp \in Int /\ a * tp \in Int
      BY <1>1, <2>2
    <3> QED BY <2>2, <2>3, <2>4, <3>1, <3>2
  <2>6. j \in 0..dp - 1
    <3>1. j \in Int
      BY <1>1, <2>2
    <3>2. tp * j < tp * dp
      BY <2>3, <2>5 DEF td
    <3>3. tp * (-1) < tp * j
      <4>1. tp * (-1) = -tp
        OBVIOUS
      <4> HIDE DEF j
      <4> QED BY <2>3, <2>5, <4>1
    <3> HIDE DEF j
    <3>4. j < dp
      BY <3>1, <3>2, Cancel
    <3>5. -1 < j
      BY <3>1, <3>3, Cancel
    <3> QED BY <3>1, <3>4, <3>5
  <2>7. j + 1 \in 1..dp /\ a + ((j + 1) - 1) = q
    BY <1>1, <2>2, <2>6
  <2>8. f(j + 1) = q * tp + 1
    BY <2>7
  <2>9. w = u + 1
    BY DEF LastStage, u
  <2> QED BY <2>2, <2>7, <2>8, <2>9
<1>7. \A i, j \in 1..dp : i < j => f(i) < f(j)
  <2> SUFFICES ASSUME NEW i \in 1..dp, NEW j \in 1..dp, i < j PROVE f(i) < f(j)
    OBVIOUS
  <2> DEFINE x == a + (i - 1)
             y == a + (j - 1)
  <2>1. x \in Nat /\ y \in Nat /\ y - x - 1 \in Nat
    BY <1>1
  <2> HIDE DEF x, y
  <2>2. y * tp = x * tp + tp + (y - x - 1) * tp /\ x * tp \in Nat
    BY <2>1
  <2>3. (y - x - 1) * tp \in Nat
    BY <2>1
  <2>4. x * tp + 1 < y * tp + 1
    BY <2>2, <2>3
  <2> QED BY <2>4 DEF x, y
<1>8. ASSUME NEW i \in 1..dp PROVE ReplicaOf(tp, dp, f(i)) = i
  <2>1. (f(i) - 1) \div tp = (pp - 1) * dp + (i - 1)
    BY <1>4 DEF a
  <2>2. i - 1 \in 0..dp - 1
    OBVIOUS
  <2>3. ((pp - 1) * dp + (i - 1)) % dp = i - 1
    BY <1>1, <2>2, DivMul
  <2> HIDE DEF f
  <2> QED BY <2>1, <2>3 DEF ReplicaOf
<1> HIDE DEF f
<1>9. Enumerates(dp, LastStage(n, tp, pp, dp), Replies(tp, pp, dp))
  BY <1>2, <1>5, <1>6, <1>7 DEF Enumerates
<1> QED BY <1>2, <1>8, <1>9

-----------------------------------------------------------------------------
(***************************************************************************)
(* Balancing with partitions of equal size                                 *)
(***************************************************************************)

\* The part and the place in it can be told from the place in the list.
LEMMA AtBack ==
  ASSUME NEW d \in Nat \ {0}, NEW c \in Nat \ {0}, NEW i \in 1..d
  PROVE  (At(d, c, i) - 1) \div d = c - 1 /\ (At(d, c, i) - 1) % d = i - 1
<1> DEFINE a == c - 1
           r == i - 1
           z == At(d, c, i) - 1
<1>1. a \in Nat /\ r \in 0..d - 1
  OBVIOUS
<1>2. z = a * d + r
  <2>1. a * d \in Nat
    BY <1>1
  <2> QED BY <1>1, <2>1 DEF At
<1> HIDE DEF a, r, z
<1>3. (a * d + r) % d = r /\ (a * d + r) \div d = a
  BY <1>1, DivMul
<1> QED BY <1>2, <1>3 DEF a, r, z

\* No place is that of two elements.
LEMMA AtOnce ==
  ASSUME NEW d \in Nat \ {0}, NEW c \in Nat \ {0}, NEW e \in Nat \ {0}, NEW i \in 1..d, NEW j \in 1..d,
         At(d, c, i) = At(d, e, j)
  PROVE  c = e /\ i = j
<1> DEFINE a == (At(d, c, i) - 1) \div d
           b == (At(d, c, i) - 1) % d
<1>1. a = c - 1 /\ b = i - 1
  BY AtBack
<1>2. a = e - 1 /\ b = j - 1
  BY AtBack
<1> HIDE DEF a, b
<1> QED BY <1>1, <1>2

\* Numbering p gives each of 1..n its own number.
Numbers(n, p) == /\ p \in [1..n -> 1..n]
                 /\ \A i, j \in 1..n : p[i] = p[j] => i = j
                 /\ \A q \in 1..n : \E i \in 1..n : p[i] = q

\* The places in the list sorted by length are such a numbering.
LEMMA RankNumbers ==
  ASSUME NEW n \in Nat, NEW l \in [1..n -> Nat]
  PROVE  Numbers(n, [i \in 1..n |-> Rank(l, i)])
<1> DEFINE upto(i) == {j \in 1..n : l[j] < l[i] \/ (l[j] = l[i] /\ j <= i)}
           p == [i \in 1..n |-> Rank(l, i)]
<1>1. IsFiniteSet(1..n) /\ Cardinality(1..n) = n
  BY FS_Interval
<1>2. \A i \in 1..n : p[i] = Cardinality(upto(i))
  <2>1. DOMAIN l = 1..n
    OBVIOUS
  <2> QED BY <2>1 DEF Rank
<1>3. p \in [1..n -> {p[i] : i \in 1..n}]
  OBVIOUS
<1> HIDE DEF p
<1>4. ASSUME NEW i \in 1..n
      PROVE  IsFiniteSet(upto(i)) /\ i \in upto(i) /\ p[i] \in 1..n
  <2>1. upto(i) \subseteq 1..n /\ i \in upto(i)
    OBVIOUS
  <2> HIDE DEF upto
  <2>2. IsFiniteSet(upto(i)) /\ Cardinality(upto(i)) <= n
    BY <1>1, <2>1, FS_Subset
  <2>3. Cardinality(upto(i)) \in Nat /\ Cardinality(upto(i)) # 0
    BY <2>1, <2>2, FS_CardinalityType, FS_EmptySet
  <2> QED BY <1>2, <2>1, <2>2, <2>3
<1>5. ASSUME NEW i \in 1..n, NEW j \in 1..n, i # j PROVE p[i] # p[j]
  <2>1. ASSUME NEW x \in 1..n, NEW y \in 1..n, x # y, y \in upto(x) PROVE p[y] < p[x]
    <3>1. l[x] \in Nat /\ l[y] \in Nat
      OBVIOUS
    <3>2. upto(y) \subseteq upto(x)
      <4> SUFFICES ASSUME NEW z \in 1..n, l[z] < l[y] \/ (l[z] = l[y] /\ z <= y)
                   PROVE  l[z] < l[x] \/ (l[z] = l[x] /\ z <= x)
        OBVIOUS
      <4>1. l[z] \in Nat
        OBVIOUS
      <4> QED BY <2>1, <3>1, <4>1
    <3>3. x \notin upto(y)
      BY <2>1, <3>1
    <3>4. x \in upto(x)
      BY <1>4
    <3> HIDE DEF upto
    <3>5. Cardinality(upto(y)) <= Cardinality(upto(x))
          /\ (Cardinality(upto(x)) = Cardinality(upto(y)) => upto(x) = upto(y))
      BY <1>4, <3>2, FS_Subset
    <3>6. p[x] \in Nat /\ p[y] \in Nat
      BY <1>4
    <3> QED BY <1>2, <3>3, <3>4, <3>5, <3>6
  <2>2. i \in upto(j) \/ j \in upto(i)
    <3>1. l[i] \in Nat /\ l[j] \in Nat
      OBVIOUS
    <3>2. \/ l[i] < l[j] \/ (l[i] = l[j] /\ i <= j)
          \/ l[j] < l[i] \/ (l[j] = l[i] /\ j <= i)
      BY <3>1
    <3>3. \A x, y \in 1..n : l[y] < l[x] \/ (l[y] = l[x] /\ y <= x) => y \in upto(x)
      OBVIOUS
    <3> HIDE DEF upto
    <3> QED BY <3>2, <3>3
  <2> HIDE DEF upto
  <2>3. p[i] \in Nat /\ p[j] \in Nat
    BY <1>4
  <2>4. p[i] < p[j] \/ p[j] < p[i]
    BY <1>5, <2>1, <2>2
  <2> QED BY <2>3, <2>4
<1> HIDE DEF upto
<1>6. p \in [1..n -> 1..n]
  BY <1>3, <1>4
<1>7. p \in Injection(1..n, 1..n)
  BY <1>5, <1>6 DEF Injection, IsInjective
<1>8. p \in Surjection(1..n, 1..n)
  BY <1>1, <1>7, FS_Injection
<1>9. Numbers(n, p)
  BY <1>5, <1>6, <1>8 DEF Numbers, Surjection
<1> QED BY <1>9 DEF p

\* Each bin of a solution has as many items.
Even(k, s) == \A i, j \in 1..k : Cardinality(ItemsOf(s[i])) = Cardinality(ItemsOf(s[j]))

\* The heap while karmarkar_karp divides the items of the lengths l into k bins of equal size:
\* sorted solutions whose spread is at most d, which keep account of their items, share none,
\* and have all of them between them.
Fair(l, k, d, s) == s \in BalancedWithin(k, d) /\ Keeps(l, k, s) /\ Even(k, s)

Dividing(l, k, d, states) ==
  /\ IsFiniteSet(states)
  /\ \A s \in states : Fair(l, k, d, s)
  /\ \A s, t \in states : s # t => ItemsIn(s) \cap ItemsIn(t) = {}
  /\ UNION {ItemsIn(s) : s \in states} = DOMAIN l

\* A row of k items of the list sorted by length: one item in each bin.
Row(l, k, c, s) ==
  /\ s \in Solutions(k) /\ Descending(s)
  /\ \A i \in 1..k : \E x \in DOMAIN l : /\ s[i] = Bin(l, x)
                                         /\ \E p \in 1..k : Rank(l, x) = At(k, c, p)
  /\ \A x \in DOMAIN l, p \in 1..k : Rank(l, x) = At(k, c, p) => \E i \in 1..k : s[i] = Bin(l, x)
  /\ \A i, j \in 1..k : s[i].items = s[j].items => i = j

\* The first solutions are such rows.
LEMMA RowsAre ==
  ASSUME NEW m \in Nat, NEW k \in Nat \ {0}, NEW l \in [1..m * k -> Nat]
  PROVE  /\ IsFiniteSet(Rows(l, k))
         /\ \E f : Rows(l, k) = {f[c] : c \in 1..m} /\ \A c \in 1..m : Row(l, k, c, f[c])
<1> DEFINE n == m * k
           row(q) == {i \in 1..n : (Rank(l, i) - 1) \div k = q}
           pick(q, p) == CHOOSE i \in row(q) : (Rank(l, i) - 1) % k = p - 1
           bins(q) == [p \in 1..k |-> Bin(l, pick(q, p))]
           rank == [i \in 1..n |-> Rank(l, i)]
<1>1. n \in Nat /\ n \div k = m /\ DOMAIN l = 1..n /\ Len(l) = n
  <2>1. n \in Nat /\ n \div k = m
    BY DivMul
  <2> HIDE DEF n
  <2>2. l \in [1..n -> Nat]
    BY DEF n
  <2> QED BY <2>1, <2>2
<1>2. Rows(l, k) = {Sorted(bins(q)) : q \in 0..m - 1}
  <2>1. Rows(l, k) = {Sorted(bins(q)) : q \in 0..(Len(l) \div k) - 1}
    <3>1. DOMAIN l = 1..n
      BY <1>1
    <3> HIDE DEF n
    <3> QED BY <3>1 DEF Rows
  <2> QED BY <1>1, <2>1, Zenon
<1>3. Numbers(n, rank) /\ \A i \in 1..n : rank[i] = Rank(l, i)
  <2>1. l \in [1..n -> Nat]
    OBVIOUS
  <2> HIDE DEF n
  <2> QED BY <1>1, <2>1, RankNumbers
<1> HIDE DEF n, rank
<1>4. ASSUME NEW q \in 0..m - 1
      PROVE  Row(l, k, q + 1, Sorted(bins(q)))
  <2>1. q \in Nat /\ q + 1 \in 1..m /\ (q + 1) - 1 = q
    OBVIOUS
  <2>2. ASSUME NEW p \in 1..k
        PROVE  /\ pick(q, p) \in 1..n /\ Rank(l, pick(q, p)) = At(k, q + 1, p)
               /\ \A x \in 1..n : Rank(l, x) = At(k, q + 1, p) => x = pick(q, p)
    <3>1. At(k, q + 1, p) \in 1..n
      BY <2>1, PartPlaces DEF PartsFill, n
    <3>2. PICK i \in 1..n : rank[i] = At(k, q + 1, p)
      BY <1>3, <3>1 DEF Numbers
    <3>3. p - 1 \in 0..k - 1 /\ At(k, q + 1, p) - 1 = q * k + (p - 1)
      <4>1. q * k \in Nat
        BY <2>1
      <4> QED BY <2>1, <4>1 DEF At
    <3>4. (At(k, q + 1, p) - 1) \div k = q /\ (At(k, q + 1, p) - 1) % k = p - 1
      <4>1. q + 1 \in Nat \ {0}
        BY <2>1
      <4> QED BY <2>1, <4>1, AtBack
    <3>5. i \in row(q) /\ (Rank(l, i) - 1) % k = p - 1
      BY <1>3, <3>2, <3>4
    <3>6. pick(q, p) \in row(q) /\ (Rank(l, pick(q, p)) - 1) % k = p - 1
      BY <3>5
    <3>7. ASSUME NEW x \in row(q), (Rank(l, x) - 1) % k = p - 1
          PROVE  x \in 1..n /\ Rank(l, x) = At(k, q + 1, p)
      <4>1. x \in 1..n /\ (Rank(l, x) - 1) \div k = q
        OBVIOUS
      <4>2. Rank(l, x) - 1 \in Nat
        <5>1. rank[x] \in 1..n /\ rank[x] = Rank(l, x)
          BY <1>3, <4>1 DEF Numbers
        <5> QED BY <1>1, <5>1
      <4> DEFINE z == Rank(l, x) - 1
      <4> HIDE DEF z
      <4>3. z \in Nat /\ z \div k = q /\ z % k = p - 1
        BY <3>7, <4>1, <4>2 DEF z
      <4>4. z = k * q + (p - 1)
        <5>1. k \in Nat \ {0}
          OBVIOUS
        <5>2. z = k * (z \div k) + (z % k)
          BY ONLY <4>3, <5>1
        <5> QED BY ONLY <4>3, <5>2
      <4>5. k * q = q * k /\ q * k \in Nat
        BY <2>1
      <4>6. z = At(k, q + 1, p) - 1
        BY <3>3, <4>4, <4>5
      <4>7. At(k, q + 1, p) \in Nat /\ Rank(l, x) \in Int
        <5>1. rank[x] \in 1..n /\ rank[x] = Rank(l, x)
          BY <1>3, <4>1 DEF Numbers
        <5> QED BY <1>1, <3>1, <5>1
      <4> QED BY <4>1, <4>6, <4>7 DEF z
    <3>8. pick(q, p) \in 1..n /\ Rank(l, pick(q, p)) = At(k, q + 1, p)
      BY <3>6, <3>7
    <3> HIDE DEF pick
    <3>9. \A x \in 1..n : Rank(l, x) = At(k, q + 1, p) => x = pick(q, p)
      BY <1>3, <3>8 DEF Numbers
    <3> QED BY <3>8, <3>9
  <2> DEFINE b == bins(q)
  <2>3. DOMAIN b = 1..k /\ \A p \in 1..k : b[p] = Bin(l, pick(q, p))
    OBVIOUS
  <2> HIDE DEF b, pick, bins
  <2>4. ASSUME NEW p \in 1..k
        PROVE  b[p] \in Bins /\ b[p].items = <<pick(q, p)>> /\ b[p].sum \in Nat
    <3>1. pick(q, p) \in 1..n /\ b[p] = Bin(l, pick(q, p))
      BY <2>2, <2>3
    <3> DEFINE x == pick(q, p)
    <3> HIDE DEF x
    <3>2. x \in Nat /\ l[x] \in Nat
      BY <1>1, <3>1 DEF x, n
    <3>3. <<x>> \in Seq(Nat)
      BY <3>2
    <3>4. Bin(l, x) \in Bins /\ Bin(l, x).items = <<x>> /\ Bin(l, x).sum \in Nat
      BY <3>2, <3>3 DEF Bin, Bins
    <3> QED BY <3>1, <3>4 DEF x
  <2>5. b \in Solutions(k)
    <3>1. b = [p \in 1..k |-> b[p]]
      BY DEF b, bins
    <3> QED BY <2>4, <3>1 DEF Solutions
  <2>6. PICK p \in [1..k -> 1..k] :
           /\ Sorted(b) = [h \in 1..k |-> b[p[h]]]
           /\ \A i \in 1..k : \E h \in 1..k : p[h] = i
           /\ \A h, r \in 1..k : h < r => ~Less(b[p[h]], b[p[r]])
    BY <2>5, Sorts
  <2> DEFINE s == Sorted(b)
  <2>7. \A i \in 1..k : p[i] \in 1..k /\ s[i] = b[p[i]]
    BY <2>6
  <2>8. s = [i \in 1..k |-> s[i]]
    BY <2>6
  <2> HIDE DEF s
  <2>9. s \in Solutions(k) /\ DOMAIN s = 1..k
    BY <2>4, <2>7, <2>8 DEF Solutions
  <2>10. Descending(s)
    <3> SUFFICES ASSUME NEW i \in 1..k, NEW j \in 1..k, i < j PROVE s[j].sum <= s[i].sum
      BY <2>9 DEF Descending
    <3>3. p[i] \in 1..k /\ p[j] \in 1..k /\ s[i] = b[p[i]] /\ s[j] = b[p[j]]
      BY <2>7
    <3>4. ~Less(b[p[i]], b[p[j]])
      BY <2>6
    <3>1. ~Less(s[i], s[j]) /\ s[i].sum \in Nat /\ s[j].sum \in Nat
      BY <2>4, <3>3, <3>4
    <3>2. ~(s[i].sum < s[j].sum)
      BY <3>1 DEF Less
    <3>5. \A x, y \in Nat : ~(x < y) => y <= x
      OBVIOUS
    <3> QED BY <3>1, <3>2, <3>5, Zenon
  <2>11. \A i \in 1..k : \E x \in DOMAIN l : /\ s[i] = Bin(l, x)
                                             /\ \E h \in 1..k : Rank(l, x) = At(k, q + 1, h)
    <3> SUFFICES ASSUME NEW i \in 1..k
                 PROVE  \E x \in DOMAIN l : /\ s[i] = Bin(l, x)
                                            /\ \E h \in 1..k : Rank(l, x) = At(k, q + 1, h)
      OBVIOUS
    <3>1. p[i] \in 1..k /\ s[i] = Bin(l, pick(q, p[i]))
      BY <2>3, <2>7
    <3>2. pick(q, p[i]) \in DOMAIN l /\ Rank(l, pick(q, p[i])) = At(k, q + 1, p[i])
      BY <1>1, <2>2, <3>1
    <3> QED BY <3>1, <3>2
  <2>12. \A x \in DOMAIN l, h \in 1..k :
           Rank(l, x) = At(k, q + 1, h) => \E i \in 1..k : s[i] = Bin(l, x)
    <3> SUFFICES ASSUME NEW x \in 1..n, NEW h \in 1..k, Rank(l, x) = At(k, q + 1, h)
                 PROVE  \E i \in 1..k : s[i] = Bin(l, x)
      BY <1>1
    <3>1. x = pick(q, h)
      BY <2>2
    <3>2. PICK i \in 1..k : p[i] = h
      BY <2>6
    <3> QED BY <2>3, <2>7, <3>1, <3>2
  <2>13. \A i, j \in 1..k : s[i].items = s[j].items => i = j
    <3> SUFFICES ASSUME NEW i \in 1..k, NEW j \in 1..k, s[i].items = s[j].items PROVE i = j
      OBVIOUS
    <3>1. p[i] \in 1..k /\ p[j] \in 1..k
      OBVIOUS
    <3>2. <<pick(q, p[i])>> = <<pick(q, p[j])>>
      BY <2>4, <2>7, <3>1
    <3>3. pick(q, p[i]) = pick(q, p[j])
      BY <3>2
    <3>4. At(k, q + 1, p[i]) = At(k, q + 1, p[j])
      BY <2>2, <3>1, <3>3
    <3>5. p[i] = p[j]
      BY <2>1, <3>1, <3>4, AtOnce
    <3>6. Onto(k, p)
      BY <2>6 DEF Onto
    <3> QED BY <3>5, <3>6, OntoIsOneToOne
  <2>14. Row(l, k, q + 1, s)
    BY <2>9, <2>10, <2>11, <2>12, <2>13 DEF Row
  <2> QED BY <2>14 DEF s, b
<1> HIDE DEF bins
<1>5. ASSUME NEW c \in 1..m PROVE Row(l, k, c, Sorted(bins(c - 1)))
  <2>1. c - 1 \in 0..m - 1 /\ (c - 1) + 1 = c
    OBVIOUS
  <2> QED BY <1>4, <2>1
<1>6. \E f : Rows(l, k) = {f[c] : c \in 1..m} /\ \A c \in 1..m : Row(l, k, c, f[c])
  <2> DEFINE f == [c \in 1..m |-> Sorted(bins(c - 1))]
  <2>1. \A c \in 1..m : f[c] = Sorted(bins(c - 1)) /\ c - 1 \in 0..m - 1
    OBVIOUS
  <2>2. \A q \in 0..m - 1 : q + 1 \in 1..m /\ (q + 1) - 1 = q
    OBVIOUS
  <2> HIDE DEF f
  <2>3. Rows(l, k) = {f[c] : c \in 1..m}
    <3>1. \A s : s \in Rows(l, k) <=> \E q \in 0..m - 1 : s = Sorted(bins(q))
      BY <1>2
    <3>2. \A c \in 1..m : f[c] \in Rows(l, k)
      BY <2>1, <3>1
    <3>3. ASSUME NEW s \in Rows(l, k) PROVE \E c \in 1..m : s = f[c]
      <4>1. PICK q \in 0..m - 1 : s = Sorted(bins(q))
        BY <3>1
      <4> QED BY <2>1, <2>2, <4>1
    <3> QED BY <3>2, <3>3
  <2> QED BY <1>5, <2>1, <2>3
<1>7. IsFiniteSet(Rows(l, k))
  <2> DEFINE f == [q \in 0..m - 1 |-> Sorted(bins(q))]
  <2>1. f \in Surjection(0..m - 1, Rows(l, k))
    BY <1>2 DEF Surjection
  <2>2. IsFiniteSet(0..m - 1)
    BY FS_Interval
  <2> HIDE DEF f
  <2> QED BY <2>1, <2>2, FS_Surjection
<1> QED BY <1>6, <1>7

\* The items of row c.
OfRow(l, k, c) == {x \in DOMAIN l : \E p \in 1..k : Rank(l, x) = At(k, c, p)}

\* What a row is worth as a solution.
LEMMA RowIsFair ==
  ASSUME NEW m \in Nat, NEW k \in Nat \ {0}, NEW l \in [1..m * k -> Nat], NEW c \in 1..m,
         NEW s, Row(l, k, c, s)
  PROVE  /\ Spread(s) \in Nat /\ Fair(l, k, Spread(s), s)
         /\ ItemsIn(s) = OfRow(l, k, c)
<1>1. s \in Solutions(k) /\ Descending(s) /\ DOMAIN s = 1..k /\ Len(s) = k
  BY DEF Row, Solutions
<1>2. \A i \in 1..k : s[i].sum \in Nat
  BY <1>1 DEF Solutions, Bins
<1>3. Spread(s) \in Nat
  <2>1. 1 \in 1..k /\ k \in 1..k /\ (1 < k \/ 1 = k)
    OBVIOUS
  <2>2. s[1].sum \in Nat /\ s[k].sum \in Nat
    BY <1>2, <2>1
  <2>3. s[k].sum <= s[1].sum
    BY <1>1, <2>1, <2>2 DEF Descending
  <2>4. Spread(s) = s[1].sum - s[k].sum
    BY <1>1 DEF Spread
  <2> QED BY <2>2, <2>3, <2>4
<1>4. ASSUME NEW x \in DOMAIN l
      PROVE  ItemsOf(Bin(l, x)) = {x} /\ Bin(l, x).items = <<x>> /\ Bin(l, x).sum = l[x]
             /\ l[x] \in Nat
  BY DEF Bin, ItemsOf, Range
<1>5. ASSUME NEW i \in 1..k
      PROVE  \E x \in DOMAIN l : /\ s[i].items = <<x>> /\ ItemsOf(s[i]) = {x} /\ s[i].sum = l[x]
                                 /\ \E p \in 1..k : Rank(l, x) = At(k, c, p)
  <2>1. PICK x \in DOMAIN l : s[i] = Bin(l, x) /\ \E p \in 1..k : Rank(l, x) = At(k, c, p)
    BY DEF Row
  <2> QED BY <1>4, <2>1
<1>6. \A i \in 1..k : /\ ItemsOf(s[i]) \subseteq DOMAIN l
                      /\ s[i].sum = SumFunctionOnSet(l, ItemsOf(s[i]))
  <2> SUFFICES ASSUME NEW i \in 1..k
               PROVE  /\ ItemsOf(s[i]) \subseteq DOMAIN l
                      /\ s[i].sum = SumFunctionOnSet(l, ItemsOf(s[i]))
    OBVIOUS
  <2>1. PICK x \in DOMAIN l : ItemsOf(s[i]) = {x} /\ s[i].sum = l[x]
    BY <1>5
  <2>2. l[x] \in Nat
    BY <1>4
  <2>3. SumFunctionOnSet(l, {x}) = l[x]
    BY <2>2, SumSingleton
  <2> QED BY <2>1, <2>3
<1>7. \A i, j \in 1..k : i # j => ItemsOf(s[i]) \cap ItemsOf(s[j]) = {}
  <2> SUFFICES ASSUME NEW i \in 1..k, NEW j \in 1..k, i # j
               PROVE  ItemsOf(s[i]) \cap ItemsOf(s[j]) = {}
    OBVIOUS
  <2>1. PICK x \in DOMAIN l : ItemsOf(s[i]) = {x} /\ s[i].items = <<x>>
    BY <1>5
  <2>2. PICK y \in DOMAIN l : ItemsOf(s[j]) = {y} /\ s[j].items = <<y>>
    BY <1>5
  <2>3. s[i].items # s[j].items
    BY DEF Row
  <2>4. x # y
    BY <2>1, <2>2, <2>3
  <2> QED BY <2>1, <2>2, <2>4
<1>8. Keeps(l, k, s)
  BY <1>1, <1>6, <1>7 DEF Keeps
<1>9. Even(k, s)
  <2>1. \A i \in 1..k : Cardinality(ItemsOf(s[i])) = 1
    <3> SUFFICES ASSUME NEW i \in 1..k PROVE Cardinality(ItemsOf(s[i])) = 1
      OBVIOUS
    <3>1. PICK x \in DOMAIN l : ItemsOf(s[i]) = {x}
      BY <1>5
    <3> QED BY <3>1, FS_Singleton
  <2> QED BY <2>1 DEF Even
<1>10. s \in BalancedWithin(k, Spread(s))
  BY <1>1, <1>3 DEF BalancedWithin
<1>11. ItemsIn(s) = {x \in DOMAIN l : \E p \in 1..k : Rank(l, x) = At(k, c, p)}
  <2>1. ItemsIn(s) = UNION {ItemsOf(s[i]) : i \in 1..k}
    BY <1>1 DEF ItemsIn
  <2>2. ASSUME NEW x \in ItemsIn(s)
        PROVE  x \in DOMAIN l /\ \E p \in 1..k : Rank(l, x) = At(k, c, p)
    <3>1. PICK i \in 1..k : x \in ItemsOf(s[i])
      BY <2>1
    <3> QED BY <1>5, <3>1
  <2>3. ASSUME NEW x \in DOMAIN l, NEW p \in 1..k, Rank(l, x) = At(k, c, p)
        PROVE  x \in ItemsIn(s)
    <3>1. PICK i \in 1..k : s[i] = Bin(l, x)
      BY <2>3 DEF Row
    <3> QED BY <1>4, <2>1, <3>1
  <2> QED BY <2>2, <2>3
<1> QED BY <1>3, <1>8, <1>9, <1>10, <1>11 DEF Fair, OfRow

\* A solution within a bound is within every larger one.
LEMMA WithinLarger ==
  ASSUME NEW k \in Nat, NEW l, NEW d \in Nat, NEW e \in Nat, d <= e, NEW s, Fair(l, k, d, s),
         Spread(s) \in Nat
  PROVE  Fair(l, k, e, s)
<1>1. s \in Solutions(k) /\ Descending(s) /\ Spread(s) <= d
  BY DEF Fair, BalancedWithin
<1>2. Spread(s) <= e
  BY <1>1
<1> QED BY <1>1, <1>2 DEF Fair, BalancedWithin

\* The largest spread of a row of k items of the list sorted by length.
Widest(l, k) == Max({Spread(s) : s \in Rows(l, k)})

\* The loop starts with these rows.
LEMMA RowsDivide ==
  ASSUME NEW m \in Nat \ {0}, NEW k \in Nat \ {0}, NEW l \in [1..m * k -> Nat]
  PROVE  Widest(l, k) \in Nat /\ Dividing(l, k, Widest(l, k), Rows(l, k))
<1> DEFINE n == m * k
           d == Widest(l, k)
           states == Rows(l, k)
<1>1. m \in Nat /\ n \in Nat /\ l \in [1..n -> Nat] /\ DOMAIN l = 1..n
  <2>1. n \in Nat
    BY DivMul
  <2> HIDE DEF n
  <2>2. l \in [1..n -> Nat]
    BY DEF n
  <2> QED BY <2>1, <2>2
<1>2. IsFiniteSet(states) /\ \E f : states = {f[c] : c \in 1..m} /\ \A c \in 1..m : Row(l, k, c, f[c])
  BY <1>1, RowsAre
<1>3. PICK f : states = {f[c] : c \in 1..m} /\ \A c \in 1..m : Row(l, k, c, f[c])
  BY <1>2
<1> HIDE DEF states
<1>4. \A c \in 1..m : /\ Spread(f[c]) \in Nat /\ Fair(l, k, Spread(f[c]), f[c])
                      /\ ItemsIn(f[c]) = OfRow(l, k, c)
  <2> SUFFICES ASSUME NEW c \in 1..m
               PROVE  /\ Spread(f[c]) \in Nat /\ Fair(l, k, Spread(f[c]), f[c])
                      /\ ItemsIn(f[c]) = OfRow(l, k, c)
    OBVIOUS
  <2> DEFINE s == f[c]
  <2>1. m \in Nat /\ l \in [1..m * k -> Nat] /\ Row(l, k, c, s)
    BY <1>1, <1>3
  <2> HIDE DEF s, n
  <2>2. Spread(s) \in Nat /\ Fair(l, k, Spread(s), s) /\ ItemsIn(s) = OfRow(l, k, c)
    <3>1. l \in [1..m * k -> Nat]
      BY <2>1
    <3>2. ItemsIn(s) = OfRow(l, k, c)
       BY <2>1, <3>1, RowIsFair
    <3>3. Spread(s) \in Nat
       BY <2>1, <3>1, RowIsFair
    <3>4. Fair(l, k, Spread(s), s)
       BY <2>1, <3>1, RowIsFair
    <3> QED BY <3>2, <3>3, <3>4
  <2> QED BY <2>2 DEF s
<1> USE DEF OfRow
<1>5. d \in Nat /\ \A c \in 1..m : Spread(f[c]) <= d
  <2> DEFINE S == {Spread(s) : s \in states}
  <2>1. S \in SUBSET Nat
    BY <1>3, <1>4
  <2>2. S # {}
    <3>1. 1 \in 1..m
      OBVIOUS
    <3>2. f[1] \in states
      BY <1>3, <3>1
    <3> QED BY <3>2
  <2>3. IsFiniteSet(S)
    <3> DEFINE g == [s \in states |-> Spread(s)]
    <3>1. g \in Surjection(states, S)
      BY DEF Surjection
    <3> HIDE DEF g, S
    <3> QED BY <1>2, <3>1, FS_Surjection
  <2>4. d = Max(S)
    BY DEF Widest, states
  <2>5. \A c \in 1..m : Spread(f[c]) \in S
    BY <1>3
  <2> HIDE DEF S, d
  <2>6. Max(S) \in S /\ \A y \in S : y <= Max(S)
    BY <2>1, <2>2, <2>3, Largest
  <2> QED BY <2>1, <2>4, <2>5, <2>6
<1> HIDE DEF d
<1>6. \A s \in states : Fair(l, k, d, s)
  <2> SUFFICES ASSUME NEW c \in 1..m PROVE Fair(l, k, d, f[c])
    BY <1>3
  <2> QED BY <1>4, <1>5, WithinLarger
<1>7. \A s, t \in states : s # t => ItemsIn(s) \cap ItemsIn(t) = {}
  <2> SUFFICES ASSUME NEW c \in 1..m, NEW e \in 1..m, f[c] # f[e],
                      NEW x \in ItemsIn(f[c]), x \in ItemsIn(f[e])
               PROVE  FALSE
    BY <1>3
  <2>1. PICK p \in 1..k : Rank(l, x) = At(k, c, p)
    BY <1>4
  <2>2. PICK q \in 1..k : Rank(l, x) = At(k, e, q)
    BY <1>4
  <2>3. c = e
    <3>1. c \in Nat \ {0} /\ e \in Nat \ {0} /\ At(k, c, p) = At(k, e, q)
      BY <2>1, <2>2
    <3> QED BY <3>1, AtOnce
  <2> QED BY <2>3
<1>8. UNION {ItemsIn(s) : s \in states} = 1..n
  <2>1. \A s \in states : ItemsIn(s) \subseteq 1..n
    BY <1>1, <1>3, <1>4
  <2>2. ASSUME NEW x \in 1..n PROVE \E s \in states : x \in ItemsIn(s)
    <3> DEFINE rank == [i \in 1..n |-> Rank(l, i)]
    <3>1. rank[x] = Rank(l, x)
      OBVIOUS
    <3>2. Numbers(n, rank)
      BY <1>1, RankNumbers
    <3> HIDE DEF rank, n
    <3>3. rank[x] \in 1..n
      BY <3>2 DEF Numbers
    <3>5. Rank(l, x) \in 1..n
      BY <3>1, <3>3
    <3>4. PICK c \in 1..m, p \in 1..k : Rank(l, x) = At(k, c, p)
      BY <1>1, <3>5, PartPlaces DEF PartsFill, n
    <3>6. x \in ItemsIn(f[c])
      BY <1>1, <1>4, <3>4
    <3> QED BY <1>3, <3>6
  <2> QED BY <2>1, <2>2
<1> QED BY <1>1, <1>2, <1>5, <1>6, <1>7, <1>8 DEF Dividing, d, states

\* A merge of two solutions that share nothing puts the items of two bins into each bin.
LEMMA MergeIsEven ==
  ASSUME NEW k \in Nat, NEW n \in Nat, NEW l \in [1..n -> Nat],
         NEW s, NEW t, Keeps(l, k, s), Keeps(l, k, t), Even(k, s), Even(k, t),
         ItemsIn(s) \cap ItemsIn(t) = {}
  PROVE  Even(k, Merge(s, t))
<1>1. s \in Solutions(k) /\ t \in Solutions(k) /\ DOMAIN s = 1..k /\ DOMAIN t = 1..k
      /\ DOMAIN l = 1..n
  BY DEF Keeps, Solutions
<1>2. PICK p : Pairing(k, s, t, p)
  BY <1>1, MergePairs
<1> DEFINE m == Merge(s, t)
<1> HIDE DEF m
<1>3. ASSUME NEW i \in 1..k
      PROVE  \E a, b \in 1..k : Cardinality(ItemsOf(m[i]))
                                  = Cardinality(ItemsOf(s[a])) + Cardinality(ItemsOf(t[b]))
  <2> DEFINE a == p[i]
             b == k + 1 - p[i]
             x == ItemsOf(s[a])
             y == ItemsOf(t[b])
  <2>1. a \in 1..k
    BY <1>2 DEF Pairing
  <2>2. b \in 1..k
    <3>1. k \in Nat /\ \A e \in 1..k : k + 1 - e \in 1..k
      OBVIOUS
    <3> QED BY ONLY <2>1, <3>1
  <2>3. ItemsOf(m[i]) = x \cup y
    BY <1>2 DEF Pairing, m
  <2>4. x \cap y = {}
    BY <1>1, <2>1, <2>2 DEF ItemsIn
  <2>5. x \in SUBSET (1..n) /\ y \in SUBSET (1..n)
    BY <1>1, <2>1, <2>2 DEF Keeps
  <2> HIDE DEF x, y, a, b
  <2>6. IsFiniteSet(x) /\ IsFiniteSet(y)
    <3>1. IsFiniteSet(1..n)
      BY FS_Interval
    <3> QED BY <2>5, <3>1, FS_Subset
  <2>7. Cardinality(x \cup y) = Cardinality(x) + Cardinality(y) - Cardinality(x \cap y)
    BY <2>6, FS_Union
  <2>8. Cardinality(x \cap y) = 0 /\ Cardinality(x) \in Nat /\ Cardinality(y) \in Nat
    BY <2>4, <2>6, FS_EmptySet, FS_CardinalityType
  <2>9. Cardinality(x \cup y) = Cardinality(x) + Cardinality(y)
    BY <2>7, <2>8
  <2> QED BY <2>1, <2>2, <2>3, <2>9 DEF x, y
<1>4. ASSUME NEW i \in 1..k, NEW j \in 1..k
      PROVE  Cardinality(ItemsOf(m[i])) = Cardinality(ItemsOf(m[j]))
  <2>1. PICK a \in 1..k, b \in 1..k :
          Cardinality(ItemsOf(m[i])) = Cardinality(ItemsOf(s[a])) + Cardinality(ItemsOf(t[b]))
    BY <1>3
  <2>2. PICK e \in 1..k, h \in 1..k :
          Cardinality(ItemsOf(m[j])) = Cardinality(ItemsOf(s[e])) + Cardinality(ItemsOf(t[h]))
    BY <1>3
  <2>3. Cardinality(ItemsOf(s[a])) = Cardinality(ItemsOf(s[e]))
        /\ Cardinality(ItemsOf(t[b])) = Cardinality(ItemsOf(t[h]))
    BY DEF Even
  <2> QED BY <2>1, <2>2, <2>3
<1> QED BY <1>4 DEF Even, m

\* A round keeps what holds of the heap.
LEMMA RoundDivides ==
  ASSUME NEW n \in Nat, NEW l \in [1..n -> Nat], NEW k \in Nat \ {0}, NEW d \in Nat,
         NEW states, Dividing(l, k, d, states), NEW s, NEW t, Popped(states, s, t)
  PROVE  Dividing(l, k, d, Round(states, s, t))
<1> DEFINE m == Merge(s, t)
           after == Round(states, s, t)
<1>1. k \in Nat
  OBVIOUS
<1>2. s \in states /\ t \in states /\ s # t
  BY DEF Popped
<1>3. /\ s \in BalancedWithin(k, d) /\ Keeps(l, k, s) /\ Even(k, s)
      /\ t \in BalancedWithin(k, d) /\ Keeps(l, k, t) /\ Even(k, t)
      /\ ItemsIn(s) \cap ItemsIn(t) = {}
  BY <1>2 DEF Dividing, Fair
<1>4. states \in SUBSET BalancedWithin(k, d) /\ Popped(states, s, t)
  BY DEF Dividing, Fair
<1>5. /\ after \subseteq BalancedWithin(k, d)
      /\ UNION {ItemsIn(u) : u \in after} = UNION {ItemsIn(u) : u \in states}
  BY <1>4, RoundKeepsBalance
<1>6. m \in BalancedWithin(k, d)
  BY <1>3, MergeKeepsSpread
<1>7. Keeps(l, k, m) /\ Even(k, m)
  BY <1>1, <1>3, MergeKeeps, MergeIsEven
<1>8. ItemsIn(m) = ItemsIn(s) \cup ItemsIn(t)
  BY <1>1, <1>3, MergeKeepsItems DEF Keeps
<1> HIDE DEF m
<1>9. after = (states \ {s, t}) \cup {m}
  BY DEF Round, m
<1> HIDE DEF after
<1>10. IsFiniteSet(after)
  <2>1. IsFiniteSet(states) /\ states \ {s, t} \in SUBSET states
    BY DEF Dividing
  <2>2. IsFiniteSet(states \ {s, t})
    BY <2>1, FS_Subset
  <2> QED BY <1>9, <2>2, FS_AddElement
<1>11. \A u \in after : Fair(l, k, d, u)
  BY <1>5, <1>7, <1>9 DEF Dividing, Fair
<1>12. ASSUME NEW u \in after, NEW v \in after, u # v PROVE ItemsIn(u) \cap ItemsIn(v) = {}
  <2>1. \A x \in states \ {s, t} : ItemsIn(x) \cap ItemsIn(m) = {}
    BY <1>2, <1>8 DEF Dividing
  <2>2. \A x, y \in states \ {s, t} : x # y => ItemsIn(x) \cap ItemsIn(y) = {}
    BY DEF Dividing
  <2> QED BY <1>9, <1>12, <2>1, <2>2
<1>13. UNION {ItemsIn(u) : u \in after} = DOMAIN l
  BY <1>5 DEF Dividing
<1> QED BY <1>10, <1>11, <1>12, <1>13 DEF Dividing, after

\* A list is a function of its places.
LEMMA ListIsFunction ==
  ASSUME NEW S, NEW a
  PROVE  /\ \A n \in Nat : a \in [1..n -> S] => a \in Seq(S) /\ Len(a) = n
         /\ a \in Seq(S) => Len(a) \in Nat /\ a \in [1..Len(a) -> S]
OBVIOUS

\* A sum along a list p of m elements.
Along(l, m, p) == SumFunctionOnSet([j \in 1..m |-> l[p[j]]], 1..m)

\* If they are distinct, it is the sum over their set.
LEMMA SumAlong ==
  ASSUME NEW l, NEW m \in Nat, NEW S, NEW p \in [1..m -> S],
         \A x \in S : l[x] \in Nat,
         \A i, j \in 1..m : p[i] = p[j] => i = j,
         \A x \in S : \E j \in 1..m : p[j] = x
  PROVE  Along(l, m, p) = SumFunctionOnSet(l, S)
<1>0. PICK f : f = [j \in 1..m |-> l[p[j]]]
  OBVIOUS
<1> DEFINE image(D) == {p[j] : j \in D}
           T == {D \in SUBSET (1..m) : IsFiniteSet(D) =>
                   IsFiniteSet(image(D)) /\ SumFunctionOnSet(f, D) = SumFunctionOnSet(l, image(D))}
<1>1. \A j \in 1..m : f[j] = l[p[j]] /\ p[j] \in S /\ f[j] \in Nat
  BY <1>0
<1>2. {} \in T
  <2>1. image({}) = {}
    OBVIOUS
  <2>2. IsFiniteSet({})
    BY FS_EmptySet
  <2>3. SumFunctionOnSet(f, {}) = 0 /\ SumFunctionOnSet(l, {}) = 0
    BY SumEmpty
  <2> HIDE DEF image
  <2> QED BY <2>1, <2>2, <2>3
<1>3. ASSUME NEW D \in SUBSET (1..m), NEW x \in 1..m, IsFiniteSet(D), D \in T, x \notin D
      PROVE  D \cup {x} \in T
  <2> DEFINE a == D \cup {x}
             b == image(D) \cup {p[x]}
  <2>1. image(a) = b /\ p[x] \notin image(D)
    BY <1>3
  <2>2. IsFiniteSet(image(D)) /\ SumFunctionOnSet(f, D) = SumFunctionOnSet(l, image(D))
        /\ image(D) \in SUBSET S
    BY <1>3
  <2> HIDE DEF image
  <2>3. IsFiniteSet(a) /\ IsFiniteSet(b) /\ a \ {x} = D /\ b \ {p[x]} = image(D)
    BY <1>3, <2>1, <2>2, FS_AddElement
  <2>4. x \in a /\ p[x] \in b /\ p[x] \in S
    OBVIOUS
  <2>5. /\ \A j \in a : f[j] \in Nat
        /\ \A y \in b : l[y] \in Nat
    BY <1>1, <2>2
  <2> HIDE DEF a, b, T
  <2>6. SumFunctionOnSet(f, a) = f[x] + SumFunctionOnSet(f, D)
    <3> DEFINE y == x
    <3> HIDE DEF y
    <3>1. y \in a
      BY <2>4 DEF y
    <3>2. SumFunctionOnSet(f, a) = f[y] + SumFunctionOnSet(f, a \ {y})
      BY <2>3, <2>5, <3>1, SumAny
    <3> QED BY <2>3, <3>2 DEF y
  <2>7. SumFunctionOnSet(l, b) = l[p[x]] + SumFunctionOnSet(l, image(D))
    <3> DEFINE y == p[x]
    <3> HIDE DEF y
    <3>1. y \in b
      BY <2>4 DEF y
    <3>2. SumFunctionOnSet(l, b) = l[y] + SumFunctionOnSet(l, b \ {y})
      BY <2>3, <2>5, <3>1, SumAny
    <3> QED BY <2>3, <3>2 DEF y
  <2>8. SumFunctionOnSet(f, a) = SumFunctionOnSet(l, b)
    BY <1>1, <2>2, <2>6, <2>7
  <2> QED BY <2>1, <2>3, <2>8 DEF T, a
<1> HIDE DEF T
<1>4. IsFiniteSet(1..m)
  BY FS_Interval
<1>5. 1..m \in T
  BY <1>2, <1>3, <1>4, FiniteInduction
<1>6. image(1..m) = S
  BY <1>1
<1> HIDE DEF image
<1>7. SumFunctionOnSet(f, 1..m) = SumFunctionOnSet(l, S)
  BY <1>4, <1>5, <1>6 DEF T
<1> QED BY <1>0, <1>7 DEF Along

\* The lengths of part i of a list of parts of m elements, and that any two parts are within
\* d of each other.
PartSum(l, m, order, i) == Along(l, m, [j \in 1..m |-> order[At(m, i, j)]])
Level(l, k, m, d, order) ==
  \A i, j \in 1..k : /\ PartSum(l, m, order, i) \in Nat
                     /\ PartSum(l, m, order, i) - PartSum(l, m, order, j) <= d

\* Once one solution is left, the order it puts the items in has each of them in one place,
\* and parts of equal size that differ by no more than the rows of the list sorted by length.
LEMMA OrderIsLevel ==
  ASSUME NEW m \in Nat \ {0}, NEW k \in Nat \ {0}, NEW l \in [1..m * k -> Nat], NEW d \in Nat,
         NEW states, Dividing(l, k, d, states), Cardinality(states) = 1, NEW s \in states
  PROVE  /\ BalancedOrder(s) \in Seq(1..m * k) /\ Len(BalancedOrder(s)) = m * k
         /\ Numbers(m * k, BalancedOrder(s))
         /\ Level(l, k, m, d, BalancedOrder(s))
<1> DEFINE n == m * k
           lists == [i \in 1..k |-> Ascending(ItemsOf(s[i]))]
           e == Cardinality(ItemsOf(s[1]))
           order == Concat(lists)
<1>1. n \in Nat /\ l \in [1..n -> Nat] /\ DOMAIN l = 1..n
  <2>1. n \in Nat
    BY DivMul
  <2> HIDE DEF n
  <2>2. l \in [1..n -> Nat]
    BY DEF n
  <2> QED BY <2>1, <2>2
<1> HIDE DEF n
<1>2. s \in BalancedWithin(k, d) /\ Keeps(l, k, s) /\ Even(k, s)
  BY DEF Dividing, Fair
<1>3. DOMAIN s = 1..k
  BY <1>2 DEF Keeps, Solutions
<1>4. UNION {ItemsOf(s[i]) : i \in 1..k} = 1..n
  <2>1. states = {s}
    BY FS_Singleton DEF Dividing
  <2>2. ItemsIn(s) = 1..n
    <3>1. UNION {ItemsIn(t) : t \in states} = 1..n
      BY <1>1 DEF Dividing
    <3>2. UNION {ItemsIn(t) : t \in {s}} = ItemsIn(s)
      BY ONLY Zenon
    <3> QED BY <2>1, <3>1, <3>2
  <2> QED BY <1>3, <2>2 DEF ItemsIn
<1>5. BalancedOrder(s) = order
  BY <1>3 DEF BalancedOrder
<1> HIDE DEF order
<1>6. IsFiniteSet(1..n) /\ Cardinality(1..n) = n
  BY <1>1, FS_Interval
<1>7. ASSUME NEW i \in 1..k
      PROVE  /\ ItemsOf(s[i]) \in SUBSET (1..n) /\ IsFiniteSet(ItemsOf(s[i]))
             /\ Cardinality(ItemsOf(s[i])) = e /\ e \in Nat
             /\ lists[i] \in [1..e -> ItemsOf(s[i])]
             /\ \A x \in ItemsOf(s[i]) : \E q \in 1..e : lists[i][q] = x
             /\ \A q, r \in 1..e : lists[i][q] = lists[i][r] => q = r
  <2> DEFINE S == ItemsOf(s[i])
             a == lists[i]
  <2>1. S \in SUBSET (1..n)
    BY <1>1, <1>2 DEF Keeps
  <2>2. IsFiniteSet(S)
    BY <1>6, <2>1, FS_Subset
  <2>3. Cardinality(S) = e
    <3>1. 1 \in 1..k
      OBVIOUS
    <3> QED BY <1>2, <3>1 DEF Even
  <2>4. a = Ascending(S)
    OBVIOUS
  <2> HIDE DEF S, a, e
  <2>5. S \in SUBSET Nat
    BY <2>1
  <2>6. /\ e \in Nat /\ a \in [1..e -> S]
        /\ \A x \in S : \E q \in 1..e : a[q] = x
        /\ \A q, r \in 1..e : q < r => a[q] < a[r]
    BY <2>2, <2>3, <2>4, <2>5, AscendingLists
  <2>7. ASSUME NEW q \in 1..e, NEW r \in 1..e, a[q] = a[r] PROVE q = r
    <3>1. a[q] \in Nat /\ a[r] \in Nat
      BY <2>5, <2>6
    <3>2. ~(q < r) /\ ~(r < q)
      BY <2>6, <2>7, <3>1
    <3> QED BY <2>6, <3>2
  <2> QED BY <2>1, <2>2, <2>3, <2>6, <2>7 DEF S, a
<1> HIDE DEF e
<1>8. DOMAIN lists = 1..k /\ lists = [i \in 1..k |-> lists[i]]
  OBVIOUS
<1> HIDE DEF lists
<1>9. e \in Nat
  <2>1. 1 \in 1..k
    OBVIOUS
  <2> QED BY <1>7, <2>1
<1>10. \A i \in 1..k : lists[i] \in Seq(1..n) /\ Len(lists[i]) = e
  <2> SUFFICES ASSUME NEW i \in 1..k PROVE lists[i] \in Seq(1..n) /\ Len(lists[i]) = e
    OBVIOUS
  <2>1. lists[i] \in [1..e -> ItemsOf(s[i])] /\ ItemsOf(s[i]) \subseteq 1..n
    BY <1>7
  <2>2. lists[i] \in [1..e -> 1..n]
    BY <2>1
  <2> QED BY <1>9, <2>2, ListIsFunction
<1>11. EqualParts(k, e, 1..n, lists)
  BY <1>8, <1>10 DEF EqualParts
<1>12. Joins(k, e, 1..n, lists, order)
  BY <1>9, <1>11, ChunkOfConcat DEF order
<1>13. order \in Seq(1..n) /\ Len(order) = k * e
       /\ \A i \in 1..k, j \in 1..e : order[At(e, i, j)] = lists[i][j]
  BY <1>12 DEF Joins
<1>14. Apart(k, lists)
  <2>1. \A i \in 1..k : Once(lists[i])
    BY <1>7, <1>10 DEF Once
  <2>2. ASSUME NEW h \in 1..k, NEW i \in 1..k, NEW j \in 1..e, NEW q \in 1..e,
               lists[h][j] = lists[i][q]
        PROVE  h = i
    <3>1. lists[h] \in [1..e -> ItemsOf(s[h])] /\ lists[i] \in [1..e -> ItemsOf(s[i])]
      BY <1>7
    <3>2. lists[h][j] \in ItemsOf(s[h]) /\ lists[i][q] \in ItemsOf(s[i])
      BY <3>1
    <3> QED BY <1>2, <2>2, <3>2 DEF Keeps
  <2> QED BY <1>10, <2>1, <2>2 DEF Apart
<1>15. Once(order) /\ \A v \in 1..n : Has(order, v)
  <2>1. lists \in [1..k -> Seq(1..n)] /\ k \in Nat
    BY <1>11 DEF EqualParts
  <2>2. Once(order) /\ \A v : Has(order, v) <=> \E i \in 1..k : Has(lists[i], v)
    BY <1>14, <2>1, FlattenElements DEF order, Concat
  <2>3. ASSUME NEW v \in 1..n PROVE \E i \in 1..k : Has(lists[i], v)
    <3>1. PICK i \in 1..k : v \in ItemsOf(s[i])
      BY <1>4
    <3>2. PICK q \in 1..e : lists[i][q] = v
      BY <1>7, <3>1
    <3> QED BY <1>10, <3>2 DEF Has
  <2> QED BY <2>2, <2>3
<1>16. Len(order) = n
  <2> DEFINE z == Len(order)
  <2>1. z \in Nat /\ order \in [1..z -> 1..n]
    <3>1. order \in Seq(1..n)
      BY <1>13
    <3> QED BY <3>1, ListIsFunction
  <2>2. /\ \A i, j \in 1..z : order[i] = order[j] => i = j
        /\ \A v \in 1..n : \E j \in 1..z : order[j] = v
    BY <1>15 DEF Once, Has
  <2> HIDE DEF z
  <2>3. order \in Bijection(1..z, 1..n)
    BY <2>1, <2>2 DEF Bijection, Injection, Surjection, IsInjective
  <2>4. ExistsBijection(1..z, 1..n)
    BY <2>3 DEF ExistsBijection
  <2>5. IsFiniteSet(1..z) /\ Cardinality(1..z) = z
    BY <2>1, FS_Interval
  <2>6. z = n
    BY <1>6, <2>4, <2>5, FS_Bijection
  <2> QED BY <2>6 DEF z
<1>17. Numbers(n, order)
  <2>1. order \in [1..n -> 1..n]
    BY <1>13, <1>16
  <2> QED BY <1>15, <1>16, <2>1 DEF Numbers, Once, Has
<1>18. e = m
  <2>1. k * e = k * m
    <3>1. m * k = k * m
      OBVIOUS
    <3> QED BY <1>13, <1>16, <3>1 DEF n
  <2>2. ~(e < m) /\ ~(m < e)
    <3>1. ASSUME NEW x \in Nat, NEW y \in Nat, k * x = k * y, x < y PROVE FALSE
      <4>1. y = x + (y - x) /\ y - x >= 1 /\ y - x \in Nat
        BY <3>1
      <4>2. k * (y - x) = k * y - k * x
        OBVIOUS
      <4>3. k * (y - x) >= 1
        BY <4>1
      <4>4. k * x \in Nat /\ k * y \in Nat
        OBVIOUS
      <4> QED BY <3>1, <4>2, <4>3, <4>4
    <3> QED BY <1>9, <2>1, <3>1
  <2> QED BY <1>9, <2>2
<1>19. \A i \in 1..k : PartSum(l, m, order, i) = s[i].sum
  <2> SUFFICES ASSUME NEW i \in 1..k PROVE PartSum(l, m, order, i) = s[i].sum
    OBVIOUS
  <2> DEFINE a == lists[i]
             S == ItemsOf(s[i])
  <2>1. /\ a \in [1..m -> S] /\ S \in SUBSET (1..n)
        /\ \A x \in S : \E q \in 1..m : a[q] = x
        /\ \A q, r \in 1..m : a[q] = a[r] => q = r
    BY <1>7, <1>18
  <2>2. [j \in 1..m |-> order[At(m, i, j)]] = a
    <3>1. \A j \in 1..m : order[At(m, i, j)] = a[j]
      BY <1>13, <1>18
    <3> HIDE DEF a
    <3> QED BY <2>1, <3>1
  <2>3. \A x \in S : l[x] \in Nat
    BY <1>1, <2>1
  <2>4. s[i].sum = SumFunctionOnSet(l, S)
    BY <1>2 DEF Keeps
  <2> HIDE DEF a, S
  <2>5. Along(l, m, a) = SumFunctionOnSet(l, S)
    <3>1. /\ a \in [1..m -> S] /\ \A x \in S : l[x] \in Nat
          /\ \A q, r \in 1..m : a[q] = a[r] => q = r
          /\ \A x \in S : \E q \in 1..m : a[q] = x
      BY <2>1, <2>3
    <3> QED BY ONLY m \in Nat, <3>1, SumAlong
  <2> QED BY <2>2, <2>4, <2>5 DEF PartSum
<1>20. Level(l, k, m, d, order)
  <2> SUFFICES ASSUME NEW i \in 1..k, NEW j \in 1..k
               PROVE  s[i].sum \in Nat /\ s[i].sum - s[j].sum <= d
    BY <1>19 DEF Level
  <2>1. s[i].sum \in Nat /\ s[j].sum \in Nat
    BY <1>2 DEF Keeps, Solutions, Bins
  <2>2. \A a, b \in 1..k : a <= b => s[b].sum <= s[a].sum /\ s[a].sum - s[b].sum <= d
    BY <1>2, SpreadBounds
  <2>3. CASE i <= j
    BY <2>1, <2>2, <2>3
  <2>4. CASE j <= i
    <3>1. s[i].sum <= s[j].sum
      BY <2>2, <2>4
    <3> QED BY <2>1, <3>1
  <2> QED BY <2>3, <2>4
<1> QED BY <1>5, <1>13, <1>16, <1>17, <1>20 DEF n

-----------------------------------------------------------------------------
(***************************************************************************)
(* A call on the workers                                                   *)
(***************************************************************************)

\* What the layout of an accepted job is made of: tensor, pipeline and data parallelism
\* multiply to the number of workers, and groups that gather are of equal size.
Layout ==
  /\ NumWorkers \in Nat \ {0}
  /\ job.tp \in Nat \ {0} /\ job.pp \in Nat \ {0} /\ job.sp \in Nat \ {0}
  /\ job.rollout_tp \in Nat \ {0} /\ job.n \in Nat \ {0} /\ job.agents \in 0..NumWorkers
  /\ DpSize \in Nat \ {0} /\ NumWorkers = (job.tp * job.pp) * DpSize
  /\ NumWorkers % job.sp = 0 /\ NumWorkers % job.rollout_tp = 0

\* The assumptions on a configuration, and what _validate_config accepts of it, give one.
LEMMA LayoutIs ==
  ASSUME job \in Jobs, Accepted(job)
  PROVE  Layout
<1> DEFINE n == NumWorkers
           a == job.tp * job.pp
<1>1. /\ n \in Nat \ {0}
      /\ job.tp \in Nat \ {0} /\ job.pp \in Nat \ {0} /\ job.sp \in Nat \ {0}
      /\ job.rollout_tp \in Nat \ {0} /\ job.n \in Nat \ {0} /\ job.agents \in 0..n
      /\ n % job.sp = 0 /\ n % job.rollout_tp = 0
      /\ job.megatron \in BOOLEAN /\ (~job.megatron => job.tp = 1 /\ job.pp = 1)
  BY FlowAssumption
<1>2. a \in Nat /\ a # 0
  <2>1. job.tp * job.pp = job.tp + job.tp * (job.pp - 1) /\ job.pp - 1 \in Nat
    BY <1>1
  <2>2. job.tp * (job.pp - 1) \in Nat
    BY <1>1, <2>1
  <2> QED BY <1>1, <2>1, <2>2
<1>3. n % a = 0
  <2>1. CASE job.megatron
    BY <2>1 DEF Accepted
  <2>2. CASE ~job.megatron
    BY <1>1, <2>2
  <2> QED BY <1>1, <2>1, <2>2
<1> HIDE DEF a
<1>4. n \div a \in Nat /\ n = (n \div a) * a
  BY <1>1, <1>2, <1>3, Divided
<1>5. DpSize = n \div a
  BY DEF DpSize, a
<1>6. (n \div a) * a = a * (n \div a)
  BY <1>2, <1>4
<1>7. n \div a # 0
  <2> SUFFICES ASSUME n \div a = 0 PROVE FALSE
    OBVIOUS
  <2>1. n = 0 * a
    BY <1>4
  <2> QED BY <1>1, <1>2, <2>1
<1> QED BY <1>1, <1>4, <1>5, <1>6, <1>7 DEF Layout, a

\* Which part of the rows a worker gets.
PartOf(w) == IF OnRollout THEN w ELSE DpRank(w)

\* The workers are sent rows, in parts of equal length.
Dispatches(S, rows) == rows \in Seq(S) /\ Len(rows) % Parts = 0

\* There are as many parts as data-parallel ranks or callees, and each worker gets one of them.
LEMMA PartsOf ==
  ASSUME Layout
  PROVE  /\ Parts \in Nat \ {0} /\ GroupSize \in Nat \ {0} /\ NumWorkers % GroupSize = 0
         /\ OnRollout => Callees = 1..Parts
         /\ ~OnRollout => Callees = Workers /\ Parts = DpSize
         /\ \A w \in Callees : w \in Workers /\ PartOf(w) \in 1..Parts
<1>1. \A m \in Nat : Cardinality(1..m) = m
  BY FS_Interval
<1>2. CASE OnRollout
  <2>1. Callees = 1..(IF job.agents > 0 THEN job.agents ELSE NumWorkers)
    BY <1>2 DEF Callees, Looping, Workers
  <2>2. Parts = IF job.agents > 0 THEN job.agents ELSE NumWorkers
    BY <1>1, <1>2, <2>1 DEF Parts, Layout
  <2>3. GroupSize \in Nat \ {0} /\ NumWorkers % GroupSize = 0
    BY <1>2 DEF GroupSize, Layout
  <2> QED BY <1>2, <2>1, <2>2, <2>3 DEF Layout, PartOf, Workers
<1>3. CASE ~OnRollout
  <2>1. Callees = Workers /\ Parts = DpSize /\ GroupSize = job.sp
    BY <1>3 DEF Callees, Looping, Parts, GroupSize
  <2>2. ASSUME NEW w \in Workers PROVE DpRank(w) \in 1..DpSize
    <3>1. w - 1 \in Nat
      BY DEF Workers, Layout
    <3>2. (w - 1) \div job.tp \in Nat
      BY <3>1 DEF Layout
    <3> DEFINE q == (w - 1) \div job.tp
               d == DpSize
    <3>3. d \in Nat \ {0}
      BY DEF Layout
    <3>4. DpRank(w) = (q % d) + 1
      BY DEF DpRank
    <3> HIDE DEF q, d
    <3>5. q \in Nat
      BY <3>2 DEF q
    <3>6. q % d \in 0..d - 1
      BY <3>3, <3>5
    <3>7. (q % d) + 1 \in 1..d
      BY <3>3, <3>6
    <3> QED BY <3>4, <3>7 DEF d
  <2> QED BY <1>3, <2>1, <2>2 DEF Layout, PartOf
<1> QED BY <1>2, <1>3

\* A dispatch gives every worker of the call an equal part, the one of its rank.
LEMMA DispatchedParts ==
  ASSUME NEW S, NEW rows, Dispatches(S, rows), Layout
  PROVE  /\ EqualParts(Parts, Len(rows) \div Parts, S, Chunk(rows, Parts))
         /\ Len(rows) \div Parts \in Nat
         /\ \A w \in Callees : /\ Dispatched(rows)[w] = Chunk(rows, Parts)[PartOf(w)]
                               /\ Dispatched(rows)[w] \in Seq(S)
                               /\ Len(Dispatched(rows)[w]) = Len(rows) \div Parts
         /\ Dispatched(rows) \in [Workers -> Seq(S)]
<1> DEFINE m == Parts
           d == Len(rows) \div m
           c == Chunk(rows, m)
<1>1. m \in Nat \ {0} /\ rows \in Seq(S) /\ Len(rows) % m = 0 /\ Len(rows) \in Nat
  BY PartsOf DEF Dispatches
<1>2. \A w \in Callees : w \in Workers /\ PartOf(w) \in 1..m
  BY PartsOf
<1>3. Dispatched(rows) = [w \in Workers |-> IF w \in Callees THEN c[PartOf(w)] ELSE <<>>]
  BY DEF Dispatched, PartOf
<1> HIDE DEF m
<1>4. d \in Nat /\ Len(rows) = m * d
  <2>1. Len(rows) \div m \in Nat /\ Len(rows) = (Len(rows) \div m) * m
    BY <1>1, Divided
  <2> HIDE DEF d
  <2>2. d \in Nat /\ Len(rows) = d * m
    BY <2>1 DEF d
  <2>3. d * m = m * d
    BY <1>1, <2>2
  <2> QED BY <2>2, <2>3
<1> HIDE DEF d
<1>5. EqualParts(m, d, S, c)
  BY <1>1, <1>4, ChunkParts
<1> HIDE DEF c
<1>6. \A i \in 1..m : c[i] \in Seq(S) /\ Len(c[i]) = d
  BY <1>5 DEF EqualParts
<1>7. \A w \in Callees : /\ Dispatched(rows)[w] = c[PartOf(w)]
                         /\ Dispatched(rows)[w] \in Seq(S)
                         /\ Len(Dispatched(rows)[w]) = d
  BY <1>2, <1>3, <1>6
<1>8. Dispatched(rows) \in [Workers -> Seq(S)]
  <2>1. <<>> \in Seq(S)
    OBVIOUS
  <2> QED BY <1>2, <1>3, <1>6, <2>1
<1> QED BY <1>4, <1>5, <1>7, <1>8 DEF m, d, c

\* When each worker has its part again, the driver collects the rows as they were.
LEMMA CollectedRows ==
  ASSUME NEW S, NEW rows, Dispatches(S, rows), Layout,
         \A w \in Callees : part[w] = Dispatched(rows)[w]
  PROVE  Collected = rows
<1> DEFINE c == Chunk(rows, Parts)
<1>1. Parts \in Nat \ {0} /\ rows \in Seq(S) /\ Len(rows) % Parts = 0
  BY PartsOf DEF Dispatches
<1>2. \A w \in Callees : part[w] = c[PartOf(w)]
  BY DispatchedParts
<1>3. c \in [1..Parts -> Seq(S)]
  BY DispatchedParts DEF EqualParts
<1>4. Concat(c) = rows
  BY <1>1, ConcatOfChunk
<1> HIDE DEF c
<1>5. SUFFICES \E f : /\ Ascending(Senders) = f /\ DOMAIN f = 1..Parts
                      /\ \A i \in 1..Parts : f[i] \in Callees /\ PartOf(f[i]) = i
  <2>1. PICK f : /\ Ascending(Senders) = f /\ DOMAIN f = 1..Parts
                 /\ \A i \in 1..Parts : f[i] \in Callees /\ PartOf(f[i]) = i
    BY <1>5
  <2>2. [i \in DOMAIN f |-> part[f[i]]] = c
    BY <1>2, <1>3, <2>1
  <2>3. Collected = Concat([i \in DOMAIN f |-> part[f[i]]])
    BY <2>1 DEF Collected
  <2> QED BY <1>4, <2>2, <2>3
<1>6. CASE OnRollout
  <2> DEFINE f == [i \in 1..Parts |-> i]
  <2>1. Senders = 1..Parts /\ Callees = 1..Parts
    BY <1>6, PartsOf DEF Senders
  <2>2. Ascending(1..Parts) = f
    BY <1>1, FirstOnes
  <2> QED BY <1>6, <2>1, <2>2 DEF PartOf
<1>7. CASE ~OnRollout
  <2> DEFINE f == Replies(job.tp, job.pp, DpSize)
             T == LastStage(NumWorkers, job.tp, job.pp, DpSize)
  <2>1. Senders = T
    BY <1>7 DEF Senders, Sends, LastStage, Workers
  <2>2. Enumerates(DpSize, T, f)
        /\ \A i \in 1..DpSize : ReplicaOf(job.tp, DpSize, f[i]) = i
    BY LastStageIs DEF Layout
  <2>3. T \in SUBSET Workers /\ T \in SUBSET Nat
    BY DEF LastStage, Workers
  <2> HIDE DEF f, T
  <2>4. Ascending(T) = f
    BY <2>2, <2>3, AscendingIs DEF Layout
  <2>5. Callees = Workers /\ Parts = DpSize
    BY <1>7, PartsOf
  <2>6. f \in [1..DpSize -> T]
    BY <2>2 DEF Enumerates
  <2>7. \A i \in 1..DpSize : PartOf(f[i]) = i
    BY <1>7, <2>2 DEF PartOf, DpRank, ReplicaOf
  <2> QED BY <2>1, <2>3, <2>4, <2>5, <2>6, <2>7
<1> QED BY <1>6, <1>7

\* What a worker holds once its group has gathered its parts.
Gathered(rows, w) ==
  Concat([i \in 1..GroupSize |-> Dispatched(rows)[InGroup(GroupSize, w)[i]]])

\* The group of a worker of the call is all of the call, and the worker has its place in it.
LEMMA GroupOfCallee ==
  ASSUME Layout, NEW w \in Callees
  PROVE  /\ Members(w) \subseteq Callees /\ w \in Members(w)
         /\ Ascending(Members(w)) = InGroup(GroupSize, w)
         /\ InGroup(GroupSize, w) \in [1..GroupSize -> Members(w)]
         /\ Place(w) \in 1..GroupSize /\ InGroup(GroupSize, w)[Place(w)] = w
         /\ \A v \in Members(w) : InGroup(GroupSize, v) = InGroup(GroupSize, w)
<1> DEFINE g == GroupSize
           n == NumWorkers
           T == GroupOf(n, g, w)
           f == InGroup(g, w)
<1>1. g \in Nat \ {0} /\ n % g = 0 /\ w \in 1..n /\ n \in Nat
  BY PartsOf DEF Workers, Layout
<1>2. Members(w) = T /\ Place(w) = PlaceIn(g, w)
  BY DEF Members, GroupOf, Workers, Place, PlaceIn
<1>3. w \in T /\ T \in SUBSET (1..n)
  BY <1>1 DEF GroupOf
<1>4. T \subseteq Callees
  <2>1. CASE Looping
    <3>1. g = 1
      BY <2>1 DEF GroupSize
    <3>2. ASSUME NEW v \in T PROVE v = w
      <4>1. v \in 1..n /\ (v - 1) \div 1 = (w - 1) \div 1
        BY <3>1 DEF GroupOf
      <4> QED BY <1>1, <4>1
    <3> QED BY <3>2
  <2>2. CASE ~Looping
    BY <1>3, <2>2 DEF Callees, Workers
  <2> QED BY <2>1, <2>2
<1> HIDE DEF g
<1>5. /\ Enumerates(g, T, f)
      /\ PlaceIn(g, w) \in 1..g /\ f[PlaceIn(g, w)] = w
      /\ \A v \in T : InGroup(g, v) = f
  <2>1. Enumerates(g, T, f)
    BY <1>1, GroupIs
  <2>2. HasPlace(g, w)
    BY <1>1, GroupIs
  <2>3. \A v \in T : InGroup(g, v) = f
    BY <1>1, GroupIs
  <2> QED BY <2>1, <2>2, <2>3 DEF HasPlace
<1> HIDE DEF T, f
<1>6. Ascending(T) = f
  <2>1. T \in SUBSET Nat
    BY <1>3
  <2> QED BY <1>1, <1>5, <2>1, AscendingIs
<1>7. f \in [1..g -> T]
  BY <1>5 DEF Enumerates
<1> QED BY <1>2, <1>3, <1>4, <1>5, <1>6, <1>7 DEF g, f

\* What a group has gathered is of one length, has each member's part, and is the same for all.
LEMMA GatheredRows ==
  ASSUME NEW S, NEW rows, Dispatches(S, rows), Layout, NEW w \in Callees
  PROVE  /\ Gathered(rows, w) \in Seq(S)
         /\ Len(Gathered(rows, w)) = GroupSize * (Len(rows) \div Parts)
         /\ Chunk(Gathered(rows, w), GroupSize)[Place(w)] = Dispatched(rows)[w]
         /\ \A v \in Members(w) : Gathered(rows, v) = Gathered(rows, w)
<1> DEFINE g == GroupSize
           d == Len(rows) \div Parts
           f == InGroup(g, w)
           s == [i \in 1..g |-> Dispatched(rows)[f[i]]]
<1>1. g \in Nat \ {0} /\ d \in Nat
  BY PartsOf, DispatchedParts
<1>2. /\ Members(w) \subseteq Callees
      /\ f \in [1..g -> Members(w)]
      /\ Place(w) \in 1..g /\ f[Place(w)] = w
      /\ \A v \in Members(w) : InGroup(g, v) = f
  BY GroupOfCallee
<1>3. \A v \in Callees : Dispatched(rows)[v] \in Seq(S) /\ Len(Dispatched(rows)[v]) = d
  BY DispatchedParts
<1>4. Gathered(rows, w) = Concat(s) /\ \A v \in Members(w) : Gathered(rows, v) = Concat(s)
  BY <1>2 DEF Gathered
<1> HIDE DEF g, d, f
<1>5. EqualParts(g, d, S, s) /\ s[Place(w)] = Dispatched(rows)[w]
  BY <1>2, <1>3 DEF EqualParts
<1> HIDE DEF s
<1>6. Joins(g, d, S, s, Concat(s)) /\ Chunk(Concat(s), g) = s
  BY <1>1, <1>5, ChunkOfConcat
<1>7. Concat(s) \in Seq(S) /\ Len(Concat(s)) = g * d
  BY <1>6 DEF Joins
<1> QED BY <1>4, <1>5, <1>6, <1>7 DEF g, d

\* What gather puts together, when each member holds its part.
LEMMA GatherGathers ==
  ASSUME NEW S, NEW rows, Dispatches(S, rows), Layout, NEW w \in Callees,
         \A v \in Members(w) : part[v] = Dispatched(rows)[v]
  PROVE  Concat([i \in 1..GroupSize |-> part[Ascending(Members(w))[i]]]) = Gathered(rows, w)
<1> DEFINE f == InGroup(GroupSize, w)
<1>1. Ascending(Members(w)) = f /\ f \in [1..GroupSize -> Members(w)]
  BY GroupOfCallee
<1> HIDE DEF f
<1>2. [i \in 1..GroupSize |-> part[f[i]]] = [i \in 1..GroupSize |-> Dispatched(rows)[f[i]]]
  BY <1>1
<1> QED BY <1>1, <1>2 DEF Gathered, f

-----------------------------------------------------------------------------
(***************************************************************************)
(* The invariant                                                           *)
(***************************************************************************)
Updates  == {"update_critic", "update_actor"}
Calling  == {"generate", "baseline"} \cup OfWorkers \cup Updates

\* The rows of a call, and the prompts of the batch.
Sent        == IF OnRollout THEN PadOf(gen) ELSE cols.responses
PromptCount == IF kind = "train" THEN TrainRows \div job.n ELSE Len(gen)

\* The job, and the rows that are sent to the rollout.
JobInv ==
  /\ job \in Jobs /\ Accepted(job) /\ kind \in {"train", "validate"}
  /\ Len(gen) \in Nat \ {0} /\ gen = [i \in 1..Len(gen) |-> i] /\ tokens \in [1..Len(gen) -> Nat]
  /\ PromptCount \in Nat /\ (kind = "train" => Len(gen) = PromptCount * job.n)

\* The batch before and after the responses are put next to its prompts.
Fresh  == cols = [uid |-> Prompts(PromptCount)]
Filled ==
  /\ {"uid", "responses"} \subseteq DOMAIN cols
  /\ DOMAIN cols \subseteq {"uid", "responses", "reward_baselines"} \cup ToSet(Steps)
  /\ Numbers(Len(gen), cols.responses)
  /\ cols.uid = [i \in 1..Len(gen) |-> PromptOf(cols.responses[i])]
  /\ \A c \in DOMAIN cols \ {"uid", "advantages"} : cols[c] = cols.responses
  /\ "advantages" \in DOMAIN cols => Len(cols.advantages) = Len(gen)

StageInv ==
  /\ pc \in {"generate", "baseline", "balance", "raised"} \cup ToSet(Steps)
  /\ pc \in {"generate", "baseline"} => Fresh
  /\ pc \in {"balance"} \cup ToSet(Steps) => Filled
  /\ pc = "raised" => Fresh \/ Filled
  /\ kind = "validate" => pc \in {"generate", "reward", "done", "raised"}
  /\ pc = "balance" => kind = "train" /\ cols.responses = gen
  /\ output \in {<<>>, gen} /\ (pc = "baseline" => output = gen /\ kind = "train")

\* The reward function is given the rows of the batch, in the order it is left in.
RewardInv ==
  /\ reward # <<>> => "responses" \in DOMAIN cols /\ reward = cols.responses
                      /\ pc \notin {"generate", "baseline", "balance"}
  /\ scored \in BOOLEAN /\ (scored => reward # <<>>)

\* The workers of a call hold what they were sent, or what their group was.
Holds(w) ==
  /\ wpc[w] = "called" => part[w] = Dispatched(Sent)[w]
  /\ wpc[w] = "gathered" => part[w] = Gathered(Sent, w)
  /\ wpc[w] = "returned" =>
       part[w] = IF pc \in Updates THEN Gathered(Sent, w) ELSE Dispatched(Sent)[w]

CallInv ==
  /\ wpc \in [Workers -> {"idle", "called", "gathered", "returned"}]
  /\ part \in [Workers -> Seq(1..Len(gen))]
  /\ pc # "raised" /\ (\E w \in Workers : wpc[w] # "idle") =>
       /\ pc \in Calling /\ Dispatches(1..Len(gen), Sent)
       /\ \A w \in Workers : w \in Callees <=> wpc[w] # "idle"
       /\ \A w \in Callees : Holds(w)

\* The partitions the batch is balanced over.
HeapInv ==
  heap # {} =>
    /\ pc = "balance" /\ Len(gen) % NumWorkers = 0
    /\ Dividing(tokens, NumWorkers, Widest(tokens, NumWorkers), heap)

LevelInv ==
  pc \in ToSet(Steps) /\ kind = "train" =>
    /\ Len(gen) % NumWorkers = 0
    /\ Level(tokens, NumWorkers, Len(gen) \div NumWorkers, Widest(tokens, NumWorkers),
             cols.responses)

\* What the workers were trained with, while they are and afterwards.
Behind(m) == \/ m = "update_critic" /\ pc \in {"update_actor", "done"}
             \/ m = "update_actor" /\ pc = "done"

TrainedWith(m, w) == /\ MiniSize \in Nat \ {0}
                     /\ trained[m][w] = MiniBatches(Gathered(cols.responses, w))

TrainedInv ==
  /\ trained = [m \in Updates |-> [w \in Workers |-> trained[m][w]]]
  /\ kind = "train" => \A m \in Updates :
       Uses(m) /\ Behind(m) => /\ Dispatches(1..Len(gen), cols.responses)
                               /\ \A w \in Workers : TrainedWith(m, w)
  /\ pc \in Updates => \A w \in Workers : wpc[w] = "returned" => TrainedWith(pc, w)

FlowInv == /\ JobInv /\ StageInv /\ RewardInv /\ CallInv /\ HeapInv /\ LevelInv /\ TrainedInv

-----------------------------------------------------------------------------
(***************************************************************************)
(* The order of the steps                                                  *)
(***************************************************************************)
LEMMA StepsAre ==
  /\ Len(Steps) = 10 /\ DOMAIN Steps = 1..10
  /\ Steps[1] = "rm_scores" /\ Steps[2] = "reward" /\ Steps[3] = "old_log_probs"
  /\ Steps[4] = "ref_log_prob" /\ Steps[5] = "values" /\ Steps[6] = "scores"
  /\ Steps[7] = "advantages" /\ Steps[8] = "update_critic" /\ Steps[9] = "update_actor"
  /\ Steps[10] = "done"
  /\ ToSet(Steps) = {"rm_scores", "reward", "old_log_probs", "ref_log_prob", "values", "scores",
                     "advantages", "update_critic", "update_actor", "done"}
<1>1. /\ Len(Steps) = 10 /\ DOMAIN Steps = 1..10
      /\ Steps[1] = "rm_scores" /\ Steps[2] = "reward" /\ Steps[3] = "old_log_probs"
      /\ Steps[4] = "ref_log_prob" /\ Steps[5] = "values" /\ Steps[6] = "scores"
      /\ Steps[7] = "advantages" /\ Steps[8] = "update_critic" /\ Steps[9] = "update_actor"
      /\ Steps[10] = "done"
  BY DEF Steps
<1>2. \A i : i \in 1..10 <=> i \in {1, 2, 3, 4, 5, 6, 7, 8, 9, 10}
  OBVIOUS
<1>3. ToSet(Steps) = {Steps[i] : i \in {1, 2, 3, 4, 5, 6, 7, 8, 9, 10}}
  BY <1>1, <1>2 DEF ToSet
<1> QED BY <1>1, <1>3

\* From a place on, the first step that is used: that of the place, or else of the next one.
LEMMA FromNext ==
  ASSUME NEW i \in 1..9
  PROVE  From(i) = IF Uses(Steps[i]) THEN Steps[i] ELSE From(i + 1)
<1> DEFINE S(k) == {j \in k..10 : Uses(Steps[j])}
<1>1. \A k \in 1..10 : From(k) = Steps[Min(S(k))] /\ 10 \in S(k) /\ S(k) \in SUBSET Nat
  BY StepsAre DEF From, Uses
<1>2. i \in 1..10 /\ i + 1 \in 1..10
  OBVIOUS
<1>3. CASE Uses(Steps[i])
  <2>1. i \in S(i) /\ \A j \in S(i) : i <= j
    BY <1>3
  <2> HIDE DEF S
  <2>2. Min(S(i)) \in S(i) /\ \A j \in S(i) : Min(S(i)) <= j
    BY <1>1, <1>2, Smallest
  <2>3. Min(S(i)) = i
    BY <1>1, <1>2, <2>1, <2>2
  <2> QED BY <1>1, <1>2, <1>3, <2>3
<1>4. CASE ~Uses(Steps[i])
  <2>1. S(i) = S(i + 1)
    BY <1>4
  <2> QED BY <1>1, <1>2, <1>4, <2>1
<1> QED BY <1>3, <1>4

\* The step after each one.
LEMMA AfterIs ==
  /\ From(1) = IF job.rm THEN "rm_scores" ELSE "reward"
  /\ After("rm_scores") = "reward" /\ After("reward") = "old_log_probs"
  /\ After("old_log_probs") \in {"ref_log_prob", "values", "scores"}
  /\ After("ref_log_prob") \in {"values", "scores"} /\ After("values") = "scores"
  /\ After("scores") = "advantages"
  /\ After("advantages") = IF UseCritic THEN "update_critic" ELSE After("update_critic")
  /\ After("update_critic") = IF job.warm THEN "update_actor" ELSE "done"
  /\ After("update_actor") = "done"
<1>1. \A i \in 1..9 : From(i) = IF Uses(Steps[i]) THEN Steps[i] ELSE From(i + 1)
  BY FromNext
<1>2. From(10) = "done"
  <2> DEFINE S == {j \in 10..10 : Uses(Steps[j])}
  <2>1. S = {10}
    BY StepsAre DEF Uses
  <2>2. Min(S) \in S
    BY <2>1, Smallest
  <2>3. From(10) = Steps[Min(S)]
    BY StepsAre DEF From
  <2> QED BY <2>1, <2>2, <2>3, StepsAre
<1>3. ASSUME NEW i \in 1..10 PROVE After(Steps[i]) = From(1 + i)
  <2>1. \A j \in 1..10 : Steps[j] = Steps[i] => j = i
    BY StepsAre
  <2>2. (CHOOSE j \in DOMAIN Steps : Steps[j] = Steps[i]) = i
    BY <2>1, StepsAre
  <2> QED BY <2>2 DEF After
<1>4. /\ From(1) = IF Uses("rm_scores") THEN "rm_scores" ELSE From(2)
      /\ From(2) = IF Uses("reward") THEN "reward" ELSE From(3)
      /\ From(3) = IF Uses("old_log_probs") THEN "old_log_probs" ELSE From(4)
      /\ From(4) = IF Uses("ref_log_prob") THEN "ref_log_prob" ELSE From(5)
      /\ From(5) = IF Uses("values") THEN "values" ELSE From(6)
      /\ From(6) = IF Uses("scores") THEN "scores" ELSE From(7)
      /\ From(7) = IF Uses("advantages") THEN "advantages" ELSE From(8)
      /\ From(8) = IF Uses("update_critic") THEN "update_critic" ELSE From(9)
      /\ From(9) = IF Uses("update_actor") THEN "update_actor" ELSE From(10)
  BY <1>1, StepsAre
<1>5. /\ After("rm_scores") = From(2) /\ After("reward") = From(3)
      /\ After("old_log_probs") = From(4) /\ After("ref_log_prob") = From(5)
      /\ After("values") = From(6) /\ After("scores") = From(7)
      /\ After("advantages") = From(8) /\ After("update_critic") = From(9)
      /\ After("update_actor") = From(10)
  BY <1>3, StepsAre
<1>6. /\ Uses("reward") /\ Uses("old_log_probs") /\ Uses("scores") /\ Uses("advantages")
      /\ Uses("rm_scores") <=> job.rm
      /\ Uses("update_critic") <=> UseCritic
      /\ Uses("update_actor") <=> job.warm
  BY DEF Uses
<1> QED BY <1>2, <1>4, <1>5, <1>6, Zenon

-----------------------------------------------------------------------------
(***************************************************************************)
(* The rows that are sent, and where they are                              *)
(***************************************************************************)

\* The padding of a batch is made of its rows.
LEMMA PaddedRows ==
  ASSUME NEW S, NEW rows \in Seq(S), Len(rows) # 0, NEW d \in Nat \ {0}
  PROVE  PadToDivisor(rows, d) \in Seq(S)
<1> DEFINE n == Len(rows)
           m == n + PadSize(rows, d)
<1>1. n \in Nat \ {0} /\ PadSize(rows, d) \in Nat
  BY PadDivides
<1>2. m \in Nat
  BY <1>1
<1>3. \A i \in 1..n : rows[i] \in S
  OBVIOUS
<1>4. PadToDivisor(rows, d) = [i \in 1..m |-> rows[((i - 1) % n) + 1]]
  BY DEF PadToDivisor
<1> HIDE DEF n, m
<1>5. \A i \in 1..m : ((i - 1) % n) + 1 \in 1..n
  BY <1>1, <1>2
<1>6. PadToDivisor(rows, d) \in [1..m -> S]
  BY <1>3, <1>4, <1>5
<1> QED BY <1>2, <1>6, ListIsFunction

\* So is each part of one.
LEMMA ChunkType ==
  ASSUME NEW S, NEW rows \in Seq(S), NEW m \in Nat \ {0}, NEW c \in 1..m
  PROVE  Chunk(rows, m)[c] \in Seq(S)
<1> DEFINE n == Len(rows)
           d == n \div m
           a == (c - 1) * d
<1>1. n \in Nat /\ \A i \in 1..n : rows[i] \in S
  OBVIOUS
<1>2. d \in Nat /\ m * d <= n
  <2>1. n \div m \in Nat /\ n = m * (n \div m) + (n % m) /\ n % m \in Nat
    BY <1>1
  <2>2. m * (n \div m) \in Nat
    BY <2>1
  <2> QED BY <1>1, <2>1, <2>2
<1>3. Chunk(rows, m)[c] = SubSeq(rows, a + 1, c * d)
  BY DEF Chunk
<1> HIDE DEF n, d
<1>4. \A j \in 1..d : a + j \in 1..m * d
  BY <1>2, PartPlaces DEF PartsFill, At
<1>5. a \in Nat /\ c * d = a + d /\ m * d \in Nat
  <2>1. c - 1 \in Nat /\ c * d = (c - 1) * d + d
    BY <1>2
  <2> QED BY <1>2, <2>1
<1> HIDE DEF a
<1>6. \A p \in a + 1 .. c * d : rows[p] \in S
  <2> SUFFICES ASSUME NEW p \in a + 1 .. c * d PROVE p \in 1..n
    BY <1>1
  <2>1. p - a \in 1..d /\ a + (p - a) = p
    BY <1>2, <1>5
  <2>2. p \in 1..m * d
    BY <1>4, <2>1
  <2> QED BY <1>1, <1>2, <1>5, <2>2
<1>7. a + 1 \in Int /\ c * d \in Int
  BY <1>2, <1>5
<1> QED BY <1>3, <1>6, <1>7, SubSeqProperties

\* Every call sends rows of the batch.
LEMMA SentRows ==
  ASSUME JobInv, StageInv, pc \in Calling
  PROVE  Sent \in Seq(1..Len(gen))
<1> DEFINE n == Len(gen)
<1>1. n \in Nat \ {0} /\ gen = [i \in 1..n |-> i]
  BY DEF JobInv
<1> HIDE DEF n
<1>2. gen \in Seq(1..n)
  <2>1. gen \in [1..n -> 1..n]
    BY <1>1
  <2> QED BY <1>1, <2>1, ListIsFunction
<1>3. CASE OnRollout
  <2>1. RolloutSize \in Nat \ {0}
    <3>1. Layout
      BY LayoutIs DEF JobInv
    <3> QED BY <3>1 DEF RolloutSize, Layout
  <2>2. PadToDivisor(gen, RolloutSize) \in Seq(1..n)
    BY <1>1, <1>2, <2>1, PaddedRows DEF n
  <2> QED BY <1>2, <1>3, <2>2 DEF Sent, PadOf, n
<1>4. CASE ~OnRollout
  <2>1. pc \in ToSet(Steps)
    BY <1>4, StepsAre DEF Calling, OnRollout, OfWorkers, Updates
  <2>2. Numbers(n, cols.responses)
    BY <2>1 DEF StageInv, Filled, n
  <2>3. cols.responses \in [1..n -> 1..n]
    BY <2>2 DEF Numbers
  <2> QED BY <1>1, <1>4, <2>3, ListIsFunction DEF Sent, n
<1> QED BY <1>3, <1>4

\* The layout of a call depends only on the job and on who is called.
LEMMA SameLayout ==
  ASSUME job' = job, OnRollout' = OnRollout
  PROVE  /\ Callees' = Callees /\ Parts' = Parts /\ GroupSize' = GroupSize
         /\ \A rows : Dispatched(rows)' = Dispatched(rows)
         /\ \A rows, w : Gathered(rows, w)' = Gathered(rows, w)
<1>1. /\ Looping' = Looping /\ Callees' = Callees
      /\ DpSize' = DpSize /\ \A w : DpRank(w)' = DpRank(w)
  BY DEF Looping, Callees, DpSize, DpRank
<1>2. Parts' = Parts /\ GroupSize' = GroupSize
  BY <1>1 DEF Parts, GroupSize
<1>3. \A rows : Dispatched(rows)' = Dispatched(rows)
  BY <1>1, <1>2 DEF Dispatched
<1>4. \A rows, w : Gathered(rows, w)' = Gathered(rows, w)
  BY <1>2, <1>3 DEF Gathered
<1> QED BY <1>1, <1>2, <1>3, <1>4

\* While job, batch and location stay as they are, so does all that a call depends on.
LEMMA SameCall ==
  ASSUME job' = job, kind' = kind, pc' = pc, gen' = gen, cols' = cols
  PROVE  /\ Sent' = Sent /\ Callees' = Callees /\ Parts' = Parts /\ GroupSize' = GroupSize
         /\ \A rows : Dispatched(rows)' = Dispatched(rows)
         /\ \A rows, w : Gathered(rows, w)' = Gathered(rows, w)
<1>1. OnRollout' = OnRollout
  BY DEF OnRollout
<1>2. Sent' = Sent
  BY <1>1 DEF Sent, PadOf, RolloutSize
<1> QED BY <1>1, <1>2, SameLayout, Zenon

\* No step changes the job or the rows.
LEMMA Given ==
  ASSUME [Next]_vars
  PROVE  job' = job /\ kind' = kind /\ tokens' = tokens /\ gen' = gen
<1>1. CASE UNCHANGED vars
  BY <1>1 DEF vars
<1>2. ASSUME NEW rows, Call(rows) PROVE job' = job /\ kind' = kind /\ tokens' = tokens /\ gen' = gen
  BY <1>2 DEF Call
<1>3. CASE Driver
  BY <1>2, <1>3 DEF Driver, Generate, Generated, BaselineGenerated, StartBalance, BalanceRound,
     EndBalance, Reward, Compute, Computed, AwaitReward, ComputeAdvantage, Update, Updated
<1>4. CASE RewardTask
  BY <1>4 DEF RewardTask
<1>5. CASE \E w \in Workers : Gather(w) \/ Return(w)
  BY <1>5 DEF Gather, Return
<1> QED BY <1>1, <1>3, <1>4, <1>5 DEF Next

\* A call of the driver sends the rows.
LEMMA CallStarts ==
  ASSUME FlowInv, pc \in Calling, Call(Sent)
  PROVE  CallInv' /\ cols' = cols /\ output' = output /\ heap' = heap /\ reward' = reward
         /\ scored' = scored /\ trained' = trained /\ pc' \in {pc, "raised"}
         /\ \A w \in Workers : wpc'[w] # "returned"
<1>1. /\ job' = job /\ kind' = kind /\ tokens' = tokens /\ gen' = gen /\ cols' = cols
      /\ output' = output /\ heap' = heap /\ reward' = reward /\ scored' = scored
      /\ trained' = trained
      /\ \A w \in Workers : wpc[w] = "idle"
  BY DEF Call
<1>2. /\ wpc \in [Workers -> {"idle", "called", "gathered", "returned"}]
      /\ part \in [Workers -> Seq(1..Len(gen))]
  BY DEF FlowInv, CallInv
<1>3. CASE Len(Sent) % Parts = 0
  <2>1. /\ part' = Dispatched(Sent) /\ pc' = pc
        /\ wpc' = [w \in Workers |-> IF w \in Callees THEN "called" ELSE "idle"]
    BY <1>3 DEF Call
  <2>2. Dispatches(1..Len(gen), Sent)
    BY <1>3, SentRows DEF FlowInv, Dispatches
  <2>3. Layout
    BY LayoutIs DEF FlowInv, JobInv
  <2>4. Dispatched(Sent) \in [Workers -> Seq(1..Len(gen))]
    BY <2>2, <2>3, DispatchedParts
  <2>5. /\ Sent' = Sent /\ Callees' = Callees /\ Parts' = Parts
        /\ \A rows : Dispatched(rows)' = Dispatched(rows)
    BY <1>1, <2>1, SameCall, Zenon
  <2>6. Dispatches(1..Len(gen), Sent)'
    BY <1>1, <2>2, <2>5 DEF Dispatches
  <2>7. \A w \in Workers : wpc'[w] = IF w \in Callees THEN "called" ELSE "idle"
    BY <2>1
  <2>8. Callees \subseteq Workers
    BY <2>3, PartsOf
  <2>9. \A w \in Callees : part'[w] = Dispatched(Sent)'[w] /\ wpc'[w] = "called"
    BY <2>1, <2>5, <2>7, <2>8
  <2>10. CallInv'
    BY <1>1, <2>1, <2>4, <2>5, <2>6, <2>7, <2>9 DEF CallInv, Holds
  <2> QED BY <1>1, <2>1, <2>7, <2>10
<1>4. CASE Len(Sent) % Parts # 0
  <2>1. pc' = "raised" /\ part' = part /\ wpc' = wpc
    BY <1>4 DEF Call
  <2>2. CallInv'
    BY <1>1, <1>2, <2>1 DEF CallInv
  <2> QED BY <1>1, <2>1, <2>2
<1> QED BY <1>3, <1>4

\* A group gathers what its members were sent.
LEMMA GatherKeeps ==
  ASSUME FlowInv, NEW w \in Workers, Gather(w)
  PROVE  CallInv' /\ pc' = pc /\ cols' = cols /\ output' = output /\ heap' = heap
         /\ reward' = reward /\ scored' = scored /\ trained' = trained
         /\ \A v \in Workers : wpc'[v] = "returned" => wpc[v] = "returned"
<1> DEFINE group == Ascending(Members(w))
           rows == Concat([i \in 1..GroupSize |-> part[group[i]]])
<1>1. /\ job' = job /\ kind' = kind /\ tokens' = tokens /\ gen' = gen /\ cols' = cols
      /\ output' = output /\ heap' = heap /\ reward' = reward /\ scored' = scored
      /\ trained' = trained /\ pc' = pc
      /\ \A v \in Members(w) : wpc[v] = "called"
      /\ part' = [v \in Workers |-> IF v \in Members(w) THEN rows ELSE part[v]]
      /\ wpc' = [v \in Workers |-> IF v \in Members(w) THEN "gathered" ELSE wpc[v]]
  BY DEF Gather
<1>2. /\ wpc \in [Workers -> {"idle", "called", "gathered", "returned"}]
      /\ part \in [Workers -> Seq(1..Len(gen))]
  BY DEF FlowInv, CallInv
<1>3. w \in Members(w)
  BY DEF Members
<1>4. Layout
  BY LayoutIs DEF FlowInv, JobInv
<1>5. w \in Callees
  <2>1. CASE pc = "raised"
    <3>1. ~OnRollout
      BY <2>1 DEF OnRollout
    <3> QED BY <1>4, <3>1, PartsOf
  <2>2. CASE pc # "raised"
    BY <1>1, <1>3, <2>2 DEF FlowInv, CallInv
  <2> QED BY <2>1, <2>2
<1>6. Members(w) \subseteq Callees /\ group \in [1..GroupSize -> Members(w)]
  BY <1>4, <1>5, GroupOfCallee
<1>7. Callees \subseteq Workers /\ GroupSize \in Nat
  BY <1>4, PartsOf
<1>8. rows \in Seq(1..Len(gen))
  <2> DEFINE s == [i \in 1..GroupSize |-> part[group[i]]]
  <2>1. s \in [1..GroupSize -> Seq(1..Len(gen))]
    <3> HIDE DEF group
    <3>1. \A i \in 1..GroupSize : part[group[i]] \in Seq(1..Len(gen))
      BY <1>2, <1>6, <1>7
    <3> QED BY <3>1
  <2> HIDE DEF s
  <2>2. FlattenSeq(s) \in Seq(1..Len(gen))
    BY <1>7, <2>1, FlattenElements
  <2> QED BY <2>2 DEF Concat, s
<1>9. pc # "raised" => rows = Gathered(Sent, w) /\ \A v \in Members(w) : Gathered(Sent, v) = rows
  <2> SUFFICES ASSUME pc # "raised"
               PROVE  rows = Gathered(Sent, w) /\ \A v \in Members(w) : Gathered(Sent, v) = rows
    OBVIOUS
  <2>1. Dispatches(1..Len(gen), Sent)
        /\ \A v \in Callees : wpc[v] = "called" => part[v] = Dispatched(Sent)[v]
    BY <1>1, <1>3 DEF FlowInv, CallInv, Holds
  <2>2. \A v \in Members(w) : part[v] = Dispatched(Sent)[v]
    BY <1>1, <1>6, <2>1
  <2>3. rows = Gathered(Sent, w)
    BY <1>4, <1>5, <2>1, <2>2, GatherGathers
  <2>4. \A v \in Members(w) : Gathered(Sent, v) = Gathered(Sent, w)
    BY <1>4, <1>5, <2>1, GatheredRows
  <2> HIDE DEF rows
  <2> QED BY <2>3, <2>4
<1> HIDE DEF rows, group
<1>10. /\ Sent' = Sent /\ Callees' = Callees /\ Parts' = Parts /\ GroupSize' = GroupSize
       /\ \A r : Dispatched(r)' = Dispatched(r)
       /\ \A r, v : Gathered(r, v)' = Gathered(r, v)
  BY <1>1, SameCall, Zenon
<1>11. /\ wpc' \in [Workers -> {"idle", "called", "gathered", "returned"}]
       /\ part' \in [Workers -> Seq(1..Len(gen))]
  BY <1>1, <1>2, <1>8
<1>12. \A v \in Workers : /\ wpc'[v] = IF v \in Members(w) THEN "gathered" ELSE wpc[v]
                          /\ part'[v] = IF v \in Members(w) THEN rows ELSE part[v]
  BY <1>1
<1>13. CASE pc # "raised"
  <2>1. /\ pc \in Calling /\ Dispatches(1..Len(gen), Sent)
        /\ \A v \in Workers : v \in Callees <=> wpc[v] # "idle"
        /\ \A v \in Callees : Holds(v)
    BY <1>1, <1>3, <1>13 DEF FlowInv, CallInv
  <2>2. \A v \in Workers : v \in Callees <=> wpc'[v] # "idle"
    BY <1>6, <1>12, <2>1
  <2>3. ASSUME NEW v \in Callees PROVE Holds(v)'
    <3>1. CASE v \in Members(w)
      <4>1. wpc'[v] = "gathered" /\ part'[v] = Gathered(Sent, v)
        BY <1>7, <1>9, <1>12, <1>13, <3>1
      <4>2. Gathered(Sent, v)' = Gathered(Sent, v)
        BY <1>10
      <4> QED BY <4>1, <4>2 DEF Holds
    <3>2. CASE v \notin Members(w)
      <4>1. wpc'[v] = wpc[v] /\ part'[v] = part[v]
        BY <1>7, <1>12, <3>2
      <4> QED BY <1>1, <1>10, <2>1, <4>1 DEF Holds
    <3> QED BY <3>1, <3>2
  <2>4. Dispatches(1..Len(gen), Sent)'
    BY <1>1, <1>10, <2>1 DEF Dispatches
  <2>5. Callees' = Callees
    BY <1>10
  <2> QED BY <1>1, <1>11, <2>1, <2>2, <2>3, <2>4, <2>5 DEF CallInv
<1>14. CASE pc = "raised"
  BY <1>1, <1>11, <1>14 DEF CallInv
<1>15. \A v \in Workers : wpc'[v] = "returned" => wpc[v] = "returned"
  BY <1>12
<1> QED BY <1>1, <1>13, <1>14, <1>15

\* The mini-batches of rows depend on the job alone.
LEMMA SameMiniBatches ==
  ASSUME job' = job
  PROVE  /\ MiniSize' = MiniSize
         /\ \A rows : MiniBatches(rows)' = MiniBatches(rows)
BY DEF MiniBatches, MiniSize, Replicas, DpSize

\* A mini-batch that can be trained with has rows.
LEMMA MiniSizeIs ==
  ASSUME job \in Jobs, Accepted(job), NEW rows, Divides(rows)
  PROVE  MiniSize \in Nat \ {0}
<1>1. /\ Layout /\ job.mini \in Nat \ {0} /\ job.n \in Nat \ {0}
      /\ ~job.megatron => (job.mini * job.n) \div (NumWorkers \div job.sp) > 0
  BY LayoutIs, FlowAssumption
<1>2. Replicas \in Nat \ {0}
  <2>1. CASE job.megatron
    BY <1>1, <2>1 DEF Replicas, Layout
  <2>2. CASE ~job.megatron
    <3> DEFINE q == NumWorkers \div job.sp
    <3>1. q \in Nat /\ NumWorkers = q * job.sp /\ NumWorkers # 0 /\ job.sp \in Nat
      BY <1>1, Divided DEF Layout
    <3> HIDE DEF q
    <3>2. q # 0
      BY <3>1
    <3> QED BY <2>2, <3>1, <3>2 DEF Replicas, q
  <2> QED BY <2>1, <2>2
<1>3. MiniSize \in Nat
  <2>1. job.mini * job.n \in Nat
    BY <1>1
  <2> QED BY <1>2, <2>1 DEF MiniSize
<1>4. MiniSize > 0
  <2>1. CASE job.megatron
    BY <2>1 DEF Divides
  <2>2. CASE ~job.megatron
    BY <1>1, <2>2 DEF MiniSize, Replicas
  <2> QED BY <2>1, <2>2
<1> QED BY <1>3, <1>4

\* A worker returns its share, or trains with what its group holds.
LEMMA ReturnKeeps ==
  ASSUME FlowInv, NEW w \in Workers, Return(w)
  PROVE  CallInv' /\ TrainedInv' /\ pc' \in {pc, "raised"} /\ cols' = cols /\ output' = output
         /\ heap' = heap /\ reward' = reward /\ scored' = scored
<1>1. /\ job' = job /\ kind' = kind /\ tokens' = tokens /\ gen' = gen /\ cols' = cols
      /\ output' = output /\ heap' = heap /\ reward' = reward /\ scored' = scored
      /\ wpc[w] = "gathered"
  BY DEF Return
<1>2. /\ wpc \in [Workers -> {"idle", "called", "gathered", "returned"}]
      /\ part \in [Workers -> Seq(1..Len(gen))]
      /\ trained = [m \in Updates |-> [v \in Workers |-> trained[m][v]]]
  BY DEF FlowInv, CallInv, TrainedInv
<1>3. DOMAIN trained = Updates
  BY <1>2
<1>4. Layout
  BY LayoutIs DEF FlowInv, JobInv
<1>5. w \in Callees
  <2>1. CASE pc = "raised"
    <3>1. ~OnRollout
      BY <2>1 DEF OnRollout
    <3> QED BY <1>4, <3>1, PartsOf
  <2>2. CASE pc # "raised"
    BY <1>1, <2>2 DEF FlowInv, CallInv
  <2> QED BY <2>1, <2>2
<1>6. pc # "raised" => /\ pc \in Calling /\ Dispatches(1..Len(gen), Sent)
                       /\ \A v \in Workers : v \in Callees <=> wpc[v] # "idle"
                       /\ \A v \in Callees : Holds(v)
                       /\ part[w] = Gathered(Sent, w)
  BY <1>1, <1>5 DEF FlowInv, CallInv, Holds
<1>7. Callees \subseteq Workers
  BY <1>4, PartsOf
<1>8. ASSUME pc' = pc
      PROVE  /\ Sent' = Sent /\ Callees' = Callees
             /\ Dispatches(1..Len(gen), Sent)' = Dispatches(1..Len(gen), Sent)
             /\ \A r : Dispatched(r)' = Dispatched(r)
             /\ \A r, v : Gathered(r, v)' = Gathered(r, v)
  <2>1. /\ Sent' = Sent /\ Callees' = Callees /\ Parts' = Parts /\ GroupSize' = GroupSize
        /\ \A r : Dispatched(r)' = Dispatched(r)
        /\ \A r, v : Gathered(r, v)' = Gathered(r, v)
    BY <1>1, <1>8, SameCall, Zenon
  <2> QED BY <1>1, <2>1 DEF Dispatches
<1>9. MiniSize' = MiniSize /\ \A rows : MiniBatches(rows)' = MiniBatches(rows)
  BY <1>1, SameMiniBatches
<1>10. CASE pc \notin Updates
  <2>1. /\ part' = [part EXCEPT ![w] = Share(w)] /\ wpc' = [wpc EXCEPT ![w] = "returned"]
        /\ pc' = pc /\ trained' = trained
    BY <1>3, <1>10 DEF Return
  <2>2. Share(w) \in Seq(1..Len(gen))
    <3>1. part[w] \in Seq(1..Len(gen)) /\ GroupSize \in Nat \ {0} /\ Place(w) \in 1..GroupSize
      BY <1>2, <1>4, <1>5, PartsOf, GroupOfCallee
    <3> QED BY <3>1, ChunkType DEF Share
  <2>3. pc # "raised" => Share(w) = Dispatched(Sent)[w]
    BY <1>4, <1>5, <1>6, GatheredRows DEF Share
  <2>4. /\ part' \in [Workers -> Seq(1..Len(gen))]
        /\ wpc' \in [Workers -> {"idle", "called", "gathered", "returned"}]
    BY <1>2, <2>1, <2>2
  <2>5. /\ part'[w] = Share(w) /\ wpc'[w] = "returned"
        /\ \A v \in Workers : v # w => part'[v] = part[v] /\ wpc'[v] = wpc[v]
    BY <1>2, <2>1
  <2>6. ASSUME pc # "raised" PROVE CallInv'
    <3>1. ASSUME NEW v \in Callees PROVE Holds(v)'
      <4>1. CASE v = w
        <5>1. part'[v] = Dispatched(Sent)[v] /\ wpc'[v] = "returned"
          BY <2>3, <2>5, <2>6, <4>1
        <5> QED BY <1>8, <1>10, <2>1, <5>1 DEF Holds
      <4>2. CASE v # w
        <5>1. part'[v] = part[v] /\ wpc'[v] = wpc[v]
          BY <1>7, <2>5, <4>2
        <5>2. Holds(v)
          BY <1>6, <2>6
        <5> QED BY <1>8, <2>1, <5>1, <5>2 DEF Holds
      <4> QED BY <4>1, <4>2
    <3>2. \A v \in Workers : v \in Callees <=> wpc'[v] # "idle"
      BY <1>5, <1>6, <2>5, <2>6
    <3> QED BY <1>1, <1>6, <1>8, <2>1, <2>4, <2>6, <3>1, <3>2 DEF CallInv
  <2>7. CallInv'
    BY <1>1, <2>1, <2>4, <2>6 DEF CallInv
  <2>8. TrainedInv'
    <3>1. \A m : Uses(m)' = Uses(m) /\ Behind(m)' = Behind(m)
      BY <1>1, <2>1 DEF Uses, UseCritic, Behind
    <3>2. Dispatches(1..Len(gen), cols.responses)' = Dispatches(1..Len(gen), cols.responses)
      <4>1. Parts' = Parts
        BY <1>1, <2>1, SameCall
      <4> QED BY <1>1, <4>1 DEF Dispatches
    <3>3. \A v : MiniBatches(Gathered(cols.responses, v))' = MiniBatches(Gathered(cols.responses, v))
      BY <1>1, <1>8, <1>9, <2>1
    <3>4. \A m, v : TrainedWith(m, v)' = TrainedWith(m, v)
      BY <1>9, <2>1, <3>3 DEF TrainedWith
    <3> QED BY <1>1, <1>10, <2>1, <3>1, <3>2, <3>4 DEF FlowInv, TrainedInv
  <2> QED BY <1>1, <2>1, <2>7, <2>8
<1>11. CASE pc \in Updates /\ ~Divides(part[w])
  <2>1. pc' = "raised" /\ part' = part /\ wpc' = wpc /\ trained' = trained
    BY <1>3, <1>11 DEF Return
  <2>2. CallInv'
    BY <1>1, <1>2, <2>1 DEF CallInv
  <2>3. TrainedInv'
    BY <1>2, <2>1 DEF TrainedInv, Behind, Updates
  <2> QED BY <1>1, <2>1, <2>2, <2>3
<1>12. CASE pc \in Updates /\ Divides(part[w])
  <2>1. /\ trained' = [trained EXCEPT ![pc][w] = MiniBatches(part[w])]
        /\ wpc' = [wpc EXCEPT ![w] = "returned"] /\ part' = part /\ pc' = pc
    BY <1>3, <1>12 DEF Return
  <2>2. pc # "raised" /\ ~OnRollout /\ Sent = cols.responses
    BY <1>12 DEF Updates, OnRollout, Sent
  <2>3. /\ wpc' \in [Workers -> {"idle", "called", "gathered", "returned"}]
        /\ wpc'[w] = "returned" /\ \A v \in Workers : v # w => wpc'[v] = wpc[v]
    BY <1>2, <2>1
  <2>4. CallInv'
    <3>1. ASSUME NEW v \in Callees PROVE Holds(v)'
      <4>1. CASE v = w
        <5>1. part'[v] = Gathered(Sent, v) /\ wpc'[v] = "returned"
          BY <1>6, <2>1, <2>2, <2>3, <4>1
        <5> QED BY <1>8, <1>12, <2>1, <5>1 DEF Holds
      <4>2. CASE v # w
        <5>1. part'[v] = part[v] /\ wpc'[v] = wpc[v]
          BY <1>7, <2>1, <2>3, <4>2
        <5>2. Holds(v)
          BY <1>6, <2>2
        <5> QED BY <1>8, <2>1, <5>1, <5>2 DEF Holds
      <4> QED BY <4>1, <4>2
    <3>2. \A v \in Workers : v \in Callees <=> wpc'[v] # "idle"
      BY <1>5, <1>6, <2>2, <2>3
    <3>3. part' \in [Workers -> Seq(1..Len(gen))]
      BY <1>2, <2>1
    <3> QED BY <1>1, <1>6, <1>8, <2>1, <2>2, <2>3, <3>1, <3>2, <3>3 DEF CallInv
  <2>5. /\ trained' = [m \in Updates |-> [v \in Workers |-> trained'[m][v]]]
        /\ trained'[pc][w] = MiniBatches(Gathered(cols.responses, w))
        /\ \A m \in Updates, v \in Workers : m # pc \/ v # w => trained'[m][v] = trained[m][v]
    <3>1. part[w] = Gathered(cols.responses, w)
      BY <1>6, <2>2
    <3> DEFINE b == MiniBatches(part[w])
    <3>2. trained' = [m \in Updates |-> [v \in Workers |->
                        IF m = pc /\ v = w THEN b ELSE trained[m][v]]]
      <4> HIDE DEF b
      <4>1. trained' = [trained EXCEPT ![pc][w] = b]
        BY <2>1 DEF b
      <4> QED BY <1>2, <1>12, <4>1
    <3> HIDE DEF b
    <3>3. \A m \in Updates, v \in Workers :
            trained'[m][v] = IF m = pc /\ v = w THEN b ELSE trained[m][v]
      BY <3>2
    <3>4. b = MiniBatches(Gathered(cols.responses, w))
      BY <3>1 DEF b
    <3>5. trained' = [m \in Updates |-> [v \in Workers |-> trained'[m][v]]]
      BY <3>2
    <3> QED BY <1>12, <3>3, <3>4, <3>5
  <2>6. TrainedInv'
    <3>1. \A m : Uses(m)' = Uses(m) /\ Behind(m)' = Behind(m)
      BY <1>1, <2>1 DEF Uses, UseCritic, Behind
    <3>2. Dispatches(1..Len(gen), cols.responses)' = Dispatches(1..Len(gen), cols.responses)
      <4>1. Parts' = Parts
        BY <1>1, <2>1, SameCall
      <4> QED BY <1>1, <4>1 DEF Dispatches
    <3>3. \A v : MiniBatches(Gathered(cols.responses, v))' = MiniBatches(Gathered(cols.responses, v))
      BY <1>1, <1>8, <1>9, <2>1
    <3>6. \A m \in Updates, v \in Workers : m # pc \/ v # w => TrainedWith(m, v)' = TrainedWith(m, v)
      BY <1>9, <2>5, <3>3 DEF TrainedWith
    <3>4. \A v \in Workers : wpc'[v] = "returned" => TrainedWith(pc, v)'
      <4> SUFFICES ASSUME NEW v \in Workers, wpc'[v] = "returned"
                   PROVE  TrainedWith(pc, v)'
        OBVIOUS
      <4>1. CASE v = w
        <5>1. MiniSize \in Nat \ {0}
          BY <1>12, MiniSizeIs DEF FlowInv, JobInv
        <5> QED BY <1>9, <2>1, <2>5, <3>3, <4>1, <5>1 DEF TrainedWith
      <4>2. CASE v # w
        <5>1. TrainedWith(pc, v)
          BY <1>12, <2>3, <4>2 DEF FlowInv, TrainedInv
        <5> QED BY <1>12, <2>1, <3>6, <4>2, <5>1
      <4> QED BY <4>1, <4>2
    <3>5. ASSUME kind = "train", NEW m \in Updates, Uses(m), Behind(m)
          PROVE  /\ Dispatches(1..Len(gen), cols.responses)
                 /\ \A v \in Workers : TrainedWith(m, v)'
      <4>1. m # pc
        BY <1>12, <3>5 DEF Behind, Updates
      <4> QED BY <3>5, <3>6, <4>1 DEF FlowInv, TrainedInv
    <3> QED BY <1>1, <2>1, <2>5, <3>1, <3>2, <3>3, <3>4, <3>5 DEF TrainedInv
  <2> QED BY <1>1, <2>1, <2>4, <2>6
<1> QED BY <1>10, <1>11, <1>12

-----------------------------------------------------------------------------
(***************************************************************************)
(* The steps of the workers and of the driver                              *)
(***************************************************************************)
\* What a step leaves alone as long as it says so.
LEMMA JobKeeps ==
  ASSUME JobInv, job' = job, kind' = kind, tokens' = tokens, gen' = gen
  PROVE  JobInv'
BY DEF JobInv, PromptCount, Accepted, MinimalBsz

\* A step in a call leaves the batch alone.
LEMMA InCall ==
  ASSUME FlowInv, job' = job, kind' = kind, tokens' = tokens, gen' = gen,
         CallInv', TrainedInv', pc' \in {pc, "raised"}, cols' = cols, output' = output,
         heap' = heap, reward' = reward, scored' = scored, pc = "balance" => pc' = pc
  PROVE  FlowInv'
<1>1. JobInv'
  BY JobKeeps DEF FlowInv
<1>2. /\ PromptCount' = PromptCount /\ Fresh' = Fresh /\ Filled' = Filled
  BY DEF PromptCount, Fresh, Filled, Numbers, PromptOf
<1>3. StageInv'
  <2>1. pc' \in {"generate", "baseline", "balance", "raised"} \cup ToSet(Steps)
    BY DEF FlowInv, StageInv
  <2>2. CASE pc' = pc
    BY <1>2, <2>2 DEF FlowInv, StageInv
  <2>3. CASE pc' = "raised"
    BY <1>2, <2>3, StepsAre DEF FlowInv, StageInv
  <2> QED BY <2>2, <2>3
<1>4. RewardInv'
  BY DEF FlowInv, RewardInv
<1>5. HeapInv'
  BY DEF FlowInv, HeapInv
<1>6. LevelInv'
  <2>1. pc' \in ToSet(Steps) => pc \in ToSet(Steps)
    BY StepsAre
  <2> QED BY <2>1 DEF FlowInv, LevelInv
<1> QED BY <1>1, <1>3, <1>4, <1>5, <1>6 DEF FlowInv

\* The driver calls.
LEMMA CallFlows ==
  ASSUME FlowInv, pc \in Calling, Call(Sent)
  PROVE  FlowInv'
<1>1. /\ CallInv' /\ cols' = cols /\ output' = output /\ heap' = heap /\ reward' = reward
      /\ scored' = scored /\ trained' = trained /\ pc' \in {pc, "raised"}
      /\ \A w \in Workers : wpc'[w] # "returned"
  BY CallStarts, Zenon
<1>2. job' = job /\ kind' = kind /\ tokens' = tokens /\ gen' = gen
  BY DEF Call
<1>3. TrainedInv'
  <2>1. CASE pc' = pc
    <3>1. \A rows, w : Gathered(rows, w)' = Gathered(rows, w)
      BY <1>1, <1>2, <2>1, SameCall, Zenon
    <3>2. Parts' = Parts
      BY <1>1, <1>2, <2>1, SameCall, Zenon
    <3>3. MiniSize' = MiniSize /\ \A rows : MiniBatches(rows)' = MiniBatches(rows)
      BY <1>2, SameMiniBatches
    <3>4. \A m : Uses(m)' = Uses(m) /\ Behind(m)' = Behind(m)
      BY <1>2, <2>1 DEF Uses, UseCritic, Behind
    <3>5. Dispatches(1..Len(gen), cols.responses)' = Dispatches(1..Len(gen), cols.responses)
      BY <1>1, <1>2, <3>2 DEF Dispatches
    <3>6. \A v : MiniBatches(Gathered(cols.responses, v))' = MiniBatches(Gathered(cols.responses, v))
      BY <1>1, <3>1, <3>3
    <3>7. \A m, v : TrainedWith(m, v)' = TrainedWith(m, v)
      BY <1>1, <3>3, <3>6 DEF TrainedWith
    <3> QED BY <1>1, <1>2, <2>1, <3>4, <3>5, <3>7 DEF FlowInv, TrainedInv
  <2>2. CASE pc' = "raised"
    BY <1>1, <2>2 DEF FlowInv, TrainedInv, Behind, Updates
  <2> QED BY <1>1, <2>1, <2>2
<1>4. pc # "balance"
  BY DEF Calling, OfWorkers, Updates
<1> QED BY <1>1, <1>2, <1>3, <1>4, InCall

\* A group gathers.
LEMMA GatherFlows ==
  ASSUME FlowInv, NEW w \in Workers, Gather(w)
  PROVE  FlowInv'
<1>1. /\ CallInv' /\ pc' = pc /\ cols' = cols /\ output' = output /\ heap' = heap
      /\ reward' = reward /\ scored' = scored /\ trained' = trained
      /\ \A v \in Workers : wpc'[v] = "returned" => wpc[v] = "returned"
  BY GatherKeeps, Zenon
<1>2. job' = job /\ kind' = kind /\ tokens' = tokens /\ gen' = gen
  BY DEF Gather
<1>3. TrainedInv'
  <2>1. \A rows, v : Gathered(rows, v)' = Gathered(rows, v)
    BY <1>1, <1>2, SameCall, Zenon
  <2>2. Parts' = Parts
    BY <1>1, <1>2, SameCall, Zenon
  <2>3. MiniSize' = MiniSize /\ \A rows : MiniBatches(rows)' = MiniBatches(rows)
    BY <1>2, SameMiniBatches
  <2>4. \A m : Uses(m)' = Uses(m) /\ Behind(m)' = Behind(m)
    BY <1>1, <1>2 DEF Uses, UseCritic, Behind
  <2>5. Dispatches(1..Len(gen), cols.responses)' = Dispatches(1..Len(gen), cols.responses)
    BY <1>1, <1>2, <2>2 DEF Dispatches
  <2>6. \A v : MiniBatches(Gathered(cols.responses, v))' = MiniBatches(Gathered(cols.responses, v))
    BY <1>1, <2>1, <2>3
  <2>7. \A m, v : TrainedWith(m, v)' = TrainedWith(m, v)
    BY <1>1, <2>3, <2>6 DEF TrainedWith
  <2> QED BY <1>1, <1>2, <2>4, <2>5, <2>7 DEF FlowInv, TrainedInv
<1> QED BY <1>1, <1>2, <1>3, InCall

\* A worker returns.
LEMMA ReturnFlows ==
  ASSUME FlowInv, NEW w \in Workers, Return(w)
  PROVE  FlowInv'
<1>1. /\ CallInv' /\ TrainedInv' /\ pc' \in {pc, "raised"} /\ cols' = cols /\ output' = output
      /\ heap' = heap /\ reward' = reward /\ scored' = scored
  BY ReturnKeeps, Zenon
<1>2. job' = job /\ kind' = kind /\ tokens' = tokens /\ gen' = gen /\ wpc[w] = "gathered"
  BY DEF Return
<1>3. pc # "balance"
  <2> SUFFICES ASSUME pc = "balance" PROVE FALSE
    OBVIOUS
  <2>1. pc \in Calling
    BY <1>2 DEF FlowInv, CallInv
  <2> QED BY <2>1 DEF Calling, OfWorkers, Updates
<1> QED BY <1>1, <1>2, <1>3, InCall

\* A step that leaves the batch and the workers alone keeps what is known of both.
LEMMA StillKeeps ==
  ASSUME FlowInv, job' = job, kind' = kind, gen' = gen, pc' = pc, cols' = cols,
         part' = part, wpc' = wpc, trained' = trained
  PROVE  CallInv' /\ TrainedInv'
<1>1. /\ Sent' = Sent /\ Callees' = Callees /\ Parts' = Parts
      /\ \A rows : Dispatched(rows)' = Dispatched(rows)
      /\ \A rows, v : Gathered(rows, v)' = Gathered(rows, v)
  BY SameCall, Zenon
<1>2. /\ Dispatches(1..Len(gen), Sent)' = Dispatches(1..Len(gen), Sent)
      /\ Dispatches(1..Len(gen), cols.responses)' = Dispatches(1..Len(gen), cols.responses)
  BY <1>1 DEF Dispatches
<1>3. CallInv'
  <2>1. \A v : Holds(v)' = Holds(v)
    BY <1>1 DEF Holds
  <2> QED BY <1>1, <1>2, <2>1 DEF FlowInv, CallInv
<1>4. TrainedInv'
  <2>1. \A m : Uses(m)' = Uses(m) /\ Behind(m)' = Behind(m)
    BY DEF Uses, UseCritic, Behind
  <2>2. \A v : MiniBatches(Gathered(cols.responses, v))' = MiniBatches(Gathered(cols.responses, v))
    BY <1>1, SameMiniBatches
  <2>3. \A m, v : TrainedWith(m, v)' = TrainedWith(m, v)
    BY <2>2, SameMiniBatches DEF TrainedWith
  <2> QED BY <1>2, <2>1, <2>3 DEF FlowInv, TrainedInv
<1> QED BY <1>3, <1>4

\* The reward function returns.
LEMMA RewardTaskFlows ==
  ASSUME FlowInv, RewardTask
  PROVE  FlowInv'
<1>1. /\ job' = job /\ kind' = kind /\ tokens' = tokens /\ gen' = gen /\ pc' = pc
      /\ cols' = cols /\ output' = output /\ heap' = heap /\ reward' = reward /\ scored' = TRUE
      /\ part' = part /\ wpc' = wpc /\ trained' = trained /\ reward # <<>>
  BY DEF RewardTask
<1>2. CallInv' /\ TrainedInv'
  BY <1>1, StillKeeps
<1>3. RewardInv'
  BY <1>1 DEF FlowInv, RewardInv
<1>4. JobInv' /\ PromptCount' = PromptCount
  BY <1>1, JobKeeps DEF FlowInv, PromptCount
<1>5. StageInv' = StageInv /\ HeapInv' = HeapInv /\ LevelInv' = LevelInv
  <2>1. Fresh' = Fresh /\ Filled' = Filled
    BY <1>1, <1>4 DEF Fresh, Filled, PromptOf
  <2> QED BY <1>1, <2>1 DEF StageInv, HeapInv, LevelInv
<1> QED BY <1>2, <1>3, <1>4, <1>5 DEF FlowInv

\* The invariant is about the variables.
LEMMA StutterFlows ==
  ASSUME FlowInv, UNCHANGED vars
  PROVE  FlowInv'
<1>1. /\ job' = job /\ kind' = kind /\ tokens' = tokens /\ gen' = gen /\ pc' = pc
      /\ cols' = cols /\ output' = output /\ heap' = heap /\ reward' = reward
      /\ scored' = scored /\ part' = part /\ wpc' = wpc /\ trained' = trained
  BY DEF vars
<1>2. CallInv' /\ TrainedInv'
  BY <1>1, StillKeeps
<1> QED BY <1>1, <1>2, InCall

\* A call that has ended: every worker is idle.
AllIdle == wpc = [w \in Workers |-> "idle"]

\* Between two calls there is nothing to hold.
LEMMA IdleKeeps ==
  ASSUME FlowInv, AllIdle', part' = part, gen' = gen
  PROVE  CallInv' /\ \A w \in Workers : wpc'[w] # "returned"
BY DEF FlowInv, CallInv, AllIdle

\* Out of a call all workers are.
LEMMA QuietIsIdle ==
  ASSUME FlowInv, pc \notin Calling \cup {"raised"}
  PROVE  AllIdle
<1>1. wpc \in [Workers -> {"idle", "called", "gathered", "returned"}]
  BY DEF FlowInv, CallInv
<1>2. \A w \in Workers : wpc[w] = "idle"
  BY DEF FlowInv, CallInv
<1> QED BY <1>1, <1>2 DEF AllIdle

\* When the workers of a call have returned, each has its part, and the driver collects what
\* it sent.
LEMMA ReturnedParts ==
  ASSUME FlowInv, pc \in Calling, Returned
  PROVE  /\ Layout /\ Dispatches(1..Len(gen), Sent)
         /\ \A w \in Callees : Holds(w) /\ w \in Workers
         /\ pc \notin Updates => Collected = Sent
<1>1. Layout
  BY LayoutIs DEF FlowInv, JobInv
<1>2. Callees \subseteq Workers /\ 1 \in Callees
  <2>1. Parts \in Nat \ {0} /\ NumWorkers \in Nat \ {0}
    BY <1>1, PartsOf DEF Layout
  <2>2. \A w \in Callees : w \in Workers
    BY <1>1, PartsOf
  <2>3. Callees = 1..Parts \/ Callees = 1..NumWorkers
    BY <1>1, PartsOf DEF Workers
  <2> QED BY <2>1, <2>2, <2>3
<1>3. pc # "raised"
  BY DEF Calling, OfWorkers, Updates
<1>4. Dispatches(1..Len(gen), Sent) /\ \A w \in Callees : Holds(w)
  BY <1>2, <1>3 DEF FlowInv, CallInv, Returned
<1>5. ASSUME pc \notin Updates PROVE Collected = Sent
  <2>1. \A w \in Callees : part[w] = Dispatched(Sent)[w]
    BY <1>4, <1>5 DEF Holds, Returned
  <2> QED BY <1>1, <1>4, <2>1, CollectedRows
<1> QED BY <1>1, <1>2, <1>4, <1>5

\* Each prompt of the generation batch, repeated, is the prompt of the response in its row.
LEMMA RepeatedPrompts ==
  ASSUME JobInv, kind = "train"
  PROVE  /\ gen \in [1..Len(gen) -> 1..Len(gen)] /\ Numbers(Len(gen), gen)
         /\ Len(Prompts(PromptCount)) = PromptCount
         /\ Repeat(Prompts(PromptCount), job.n) = [i \in 1..Len(gen) |-> PromptOf(gen[i])]
<1> DEFINE n == Len(gen)
           m == PromptCount
<1>1. /\ n \in Nat \ {0} /\ gen = [i \in 1..n |-> i] /\ m \in Nat /\ n = m * job.n
      /\ job.n \in Nat \ {0}
  BY FlowAssumption DEF JobInv
<1> HIDE DEF n, m
<1>2. gen \in [1..n -> 1..n] /\ Numbers(n, gen)
  BY <1>1 DEF Numbers
<1>3. Len(Prompts(m)) = m
  BY <1>1 DEF Prompts
<1>4. Repeat(Prompts(m), job.n) = [i \in 1..n |-> PromptOf(gen[i])]
  <2>1. ASSUME NEW i \in 1..n
        PROVE  Prompts(m)[((i - 1) \div job.n) + 1] = PromptOf(gen[i])
    <3>1. PICK c \in 1..m, j \in 1..job.n : i = At(job.n, c, j)
      BY <1>1, PartPlaces DEF PartsFill
    <3> DEFINE x == (i - 1) \div job.n
    <3>2. x = c - 1
      <4>1. c \in Nat \ {0} /\ job.n \in Nat \ {0}
        BY <1>1
      <4>2. (At(job.n, c, j) - 1) \div job.n = c - 1
        BY <4>1, AtBack
      <4> QED BY <3>1, <4>2
    <3>3. PromptOf(gen[i]) = x + 1
      BY <1>1 DEF PromptOf
    <3> HIDE DEF x
    <3>4. Prompts(m)[x + 1] = x + 1
      BY <3>2 DEF Prompts
    <3> QED BY <3>3, <3>4 DEF x
  <2>2. Repeat(Prompts(m), job.n) = [i \in 1..n |-> Prompts(m)[((i - 1) \div job.n) + 1]]
    BY <1>1, <1>3 DEF Repeat
  <2> QED BY <2>1, <2>2
<1> QED BY <1>2, <1>3, <1>4 DEF n, m

\* Only some steps are made in a validation.
LEMMA Trains ==
  ASSUME FlowInv, pc \notin {"generate", "reward", "done", "raised"}
  PROVE  kind = "train"
BY DEF FlowInv, JobInv, StageInv

\* The step after a step is one, and a step that trains is made before the job is done.
LEMMA AfterStep ==
  ASSUME pc \in ToSet(Steps) \ {"done"}
  PROVE  /\ After(pc) \in ToSet(Steps)
         /\ pc \notin Updates /\ Uses("update_critic") =>
              After(pc) \notin {"update_actor", "done"}
         /\ pc # "update_actor" /\ Uses("update_actor") => After(pc) # "done"
<1>1. /\ Uses("update_critic") <=> UseCritic
      /\ Uses("update_actor") <=> job.warm
  BY DEF Uses
<1>2. pc \in {"rm_scores", "reward", "old_log_probs", "ref_log_prob", "values", "scores",
              "advantages", "update_critic", "update_actor"}
  BY StepsAre
<1>3. After("advantages") \in ToSet(Steps) /\ After("update_critic") \in ToSet(Steps)
  BY AfterIs, StepsAre
<1>4. After(pc) \in ToSet(Steps)
  BY <1>2, <1>3, AfterIs, StepsAre
<1>5. pc \notin Updates /\ Uses("update_critic") => After(pc) \notin {"update_actor", "done"}
  <2> SUFFICES ASSUME pc \notin Updates, Uses("update_critic")
               PROVE  After(pc) \notin {"update_actor", "done"}
    OBVIOUS
  <2>1. After("advantages") = "update_critic"
    BY <1>1, AfterIs
  <2> QED BY <1>2, <2>1, AfterIs DEF Updates
<1>6. pc # "update_actor" /\ Uses("update_actor") => After(pc) # "done"
  <2> SUFFICES ASSUME pc # "update_actor", Uses("update_actor") PROVE After(pc) # "done"
    OBVIOUS
  <2>1. After("update_critic") = "update_actor" /\ After("advantages") # "done"
    BY <1>1, AfterIs
  <2> QED BY <1>2, <2>1, AfterIs
<1> QED BY <1>4, <1>5, <1>6

\* The driver goes on to the next step, with the batch in the order it was in.
LEMMA Onward ==
  ASSUME FlowInv, pc \in ToSet(Steps) \ {"done"}, job' = job, kind' = kind, tokens' = tokens,
         gen' = gen, output' = output, heap' = heap, part' = part, AllIdle',
         Filled', cols'.responses = cols.responses, RewardInv', TrainedInv',
         pc' = IF kind = "train" THEN After(pc) ELSE "done"
  PROVE  FlowInv'
<1>1. JobInv'
  BY JobKeeps DEF FlowInv
<1>2. CallInv'
  BY IdleKeeps
<1>3. pc' \in ToSet(Steps)
  BY AfterStep, StepsAre
<1>4. pc' \notin {"generate", "baseline", "balance", "raised"}
  BY <1>3, StepsAre
<1>5. StageInv'
  BY <1>3, <1>4 DEF StageInv, FlowInv
<1>6. HeapInv'
  <2>1. pc # "balance"
    BY StepsAre
  <2> QED BY <2>1 DEF FlowInv, HeapInv
<1>7. LevelInv'
  BY DEF FlowInv, LevelInv
<1> QED BY <1>1, <1>2, <1>5, <1>6, <1>7 DEF FlowInv

\* Nobody is trained before the updates.
LEMMA Untrained ==
  ASSUME FlowInv, pc \in ToSet(Steps) \ ({"done"} \cup Updates), job' = job, kind' = kind,
         gen' = gen, trained' = trained, part' = part, AllIdle',
         pc' = IF kind = "train" THEN After(pc) ELSE "done"
  PROVE  TrainedInv'
<1>1. \A w \in Workers : wpc'[w] # "returned"
  BY IdleKeeps
<1>2. \A m : Uses(m)' = Uses(m)
  BY DEF Uses, UseCritic
<1>3. kind = "train" => \A m \in Updates : ~(Uses(m)' /\ Behind(m)')
  <2> SUFFICES ASSUME kind = "train", NEW m \in Updates, Uses(m) PROVE ~Behind(m)'
    BY <1>2
  <2>1. pc' = After(pc) /\ pc # "update_actor"
    BY DEF Updates
  <2> QED BY <2>1, AfterStep DEF Updates, Behind
<1> QED BY <1>1, <1>3 DEF FlowInv, TrainedInv

\* A column of the batch that is put next to the others.
LEMMA AssignFills ==
  ASSUME FlowInv, Filled, gen' = gen, kind' = kind, job' = job, NEW c \in ToSet(Steps), NEW rows,
         Assign(c, rows), IF c = "advantages" THEN Len(rows) = Len(gen) ELSE rows = cols.responses
  PROVE  Filled' /\ cols'.responses = cols.responses
<1>1. c \notin {"uid", "responses"}
  BY StepsAre
<1>2. /\ DOMAIN cols' = DOMAIN cols \cup {c}
      /\ \A e \in DOMAIN cols' : cols'[e] = IF e = c THEN rows ELSE cols[e]
  BY DEF Assign
<1>3. {"uid", "responses"} \subseteq DOMAIN cols
  BY DEF Filled
<1>4. cols'.responses = cols.responses /\ cols'.uid = cols.uid
  BY <1>1, <1>2, <1>3
<1>5. /\ Numbers(Len(gen), cols.responses)'
      /\ cols'.uid = [i \in 1..Len(gen) |-> PromptOf(cols.responses[i])]'
  BY <1>4 DEF Filled, Numbers, PromptOf
<1>6. \A e \in DOMAIN cols' \ {"uid", "advantages"} : cols'[e] = cols'.responses
  BY <1>2, <1>4 DEF Filled
<1>7. "advantages" \in DOMAIN cols' => Len(cols'.advantages) = Len(gen)
  BY <1>2 DEF Filled
<1> QED BY <1>2, <1>3, <1>4, <1>5, <1>6, <1>7 DEF Filled

\* The batch has its responses, and the reward function those of the batch.
LEMMA BatchOf ==
  ASSUME FlowInv, pc \in {"balance"} \cup ToSet(Steps)
  PROVE  Filled /\ Len(gen) \in Nat \ {0} /\ NumRows = Len(gen)
         /\ cols.responses \in [1..Len(gen) -> 1..Len(gen)]
<1>1. Filled /\ Len(gen) \in Nat \ {0}
  BY DEF FlowInv, StageInv, JobInv
<1>2. cols.uid = [i \in 1..Len(gen) |-> PromptOf(cols.responses[i])]
  BY <1>1 DEF Filled
<1>3. NumRows = Len(gen)
  BY <1>1, <1>2 DEF NumRows
<1> QED BY <1>1, <1>3 DEF Filled, Numbers

\* The column of a call is the rows of the batch, in their order: if the batch had it before,
\* its values are the same, and union does not raise.
LEMMA ComputedAssigns ==
  ASSUME FlowInv, Computed
  PROVE  /\ Filled /\ Collected = cols.responses
         /\ Assign(pc, Collected) /\ pc' = After(pc)
<1>1. pc \in OfWorkers /\ Returned /\ Union(pc, Collected, After(pc))
  BY DEF Computed
<1>2. pc \in ToSet(Steps) /\ pc \in Calling \ Updates /\ ~OnRollout
  BY <1>1, StepsAre DEF OfWorkers, Updates, OnRollout, Calling
<1>3. pc # "uid" /\ pc # "advantages"
  BY <1>1 DEF OfWorkers
<1>4. Collected = cols.responses
  BY <1>1, <1>2, ReturnedParts DEF Sent
<1>5. Filled
  BY <1>2, BatchOf
<1>6. pc \in DOMAIN cols => cols[pc] = Collected
  BY <1>3, <1>4, <1>5 DEF Filled
<1> QED BY <1>1, <1>4, <1>5, <1>6 DEF Union

LEMMA ComputedFlows ==
  ASSUME FlowInv, Computed
  PROVE  FlowInv'
<1>1. /\ pc \in OfWorkers /\ Returned /\ EndCall /\ Assign(pc, Collected) /\ pc' = After(pc)
      /\ job' = job /\ kind' = kind /\ tokens' = tokens /\ gen' = gen /\ output' = output
      /\ heap' = heap /\ reward' = reward /\ scored' = scored /\ trained' = trained
  BY ComputedAssigns DEF Computed
<1>2. /\ pc \in ToSet(Steps) \ ({"done"} \cup Updates) /\ pc # "advantages" /\ ~OnRollout
      /\ pc \in Calling
  BY <1>1, StepsAre DEF OfWorkers, Updates, OnRollout, Calling
<1>0. kind = "train"
  BY <1>1, <1>2, Trains, StepsAre DEF OfWorkers
<1>3. Collected = cols.responses
  BY <1>1, <1>2, ReturnedParts DEF Sent
<1>4. Filled
  BY <1>2, BatchOf
<1>5. Filled' /\ cols'.responses = cols.responses
  BY <1>1, <1>2, <1>3, <1>4, AssignFills
<1>6. part' = part /\ AllIdle'
  BY <1>1 DEF EndCall, AllIdle
<1>7. TrainedInv'
  BY <1>0, <1>1, <1>2, <1>6, Untrained
<1>8. RewardInv'
  <2>1. "responses" \in DOMAIN cols' /\ pc' \notin {"generate", "baseline", "balance"}
    BY <1>1, <1>2, <1>5, AfterStep, StepsAre DEF Filled
  <2> QED BY <1>1, <1>5, <2>1 DEF FlowInv, RewardInv
<1> QED BY <1>0, <1>1, <1>2, <1>5, <1>6, <1>7, <1>8, Onward

\* The scores are of the rows that the reward function was given, which are still in their order.
LEMMA AwaitRewardFlows ==
  ASSUME FlowInv, AwaitReward
  PROVE  FlowInv'
<1>1. /\ pc = "scores" /\ scored /\ Assign("scores", reward) /\ pc' = After(pc)
      /\ job' = job /\ kind' = kind /\ tokens' = tokens /\ gen' = gen /\ output' = output
      /\ heap' = heap /\ reward' = reward /\ scored' = scored /\ trained' = trained
      /\ part' = part /\ wpc' = wpc
  BY DEF AwaitReward
<1>2. pc \in ToSet(Steps) \ ({"done"} \cup Updates) /\ pc \notin Calling \cup {"raised"}
  BY <1>1, StepsAre DEF OfWorkers, Updates, Calling
<1>0. kind = "train"
  BY <1>1, <1>2, Trains, StepsAre DEF OfWorkers
<1>3. reward = cols.responses
  BY <1>1 DEF FlowInv, RewardInv
<1>4. Filled
  BY <1>2, BatchOf
<1>5. Filled' /\ cols'.responses = cols.responses
  BY <1>1, <1>2, <1>3, <1>4, AssignFills
<1>6. AllIdle'
  BY <1>1, <1>2, QuietIsIdle DEF AllIdle
<1>7. TrainedInv'
  BY <1>0, <1>1, <1>2, <1>6, Untrained
<1>8. RewardInv'
  <2>1. "responses" \in DOMAIN cols' /\ pc' \notin {"generate", "baseline", "balance"}
    BY <1>1, <1>2, <1>5, AfterStep, StepsAre DEF Filled
  <2> QED BY <1>1, <1>5, <2>1 DEF FlowInv, RewardInv
<1> QED BY <1>0, <1>1, <1>2, <1>5, <1>6, <1>7, <1>8, Onward

\* An advantage is computed for each row.
LEMMA ComputeAdvantageFlows ==
  ASSUME FlowInv, ComputeAdvantage
  PROVE  FlowInv'
<1>1. /\ pc = "advantages" /\ pc' = After(pc)
      /\ job' = job /\ kind' = kind /\ tokens' = tokens /\ gen' = gen /\ output' = output
      /\ heap' = heap /\ reward' = reward /\ scored' = scored /\ trained' = trained
      /\ part' = part /\ wpc' = wpc
  BY DEF ComputeAdvantage
<1>2. pc \in ToSet(Steps) \ ({"done"} \cup Updates) /\ pc \notin Calling \cup {"raised"}
  BY <1>1, StepsAre DEF OfWorkers, Updates, Calling
<1>0. kind = "train"
  BY <1>1, <1>2, Trains, StepsAre DEF OfWorkers
<1>3. Filled /\ NumRows = Len(gen) /\ Len(gen) \in Nat
  BY <1>2, BatchOf
<1>4. PICK batch : Assign(pc, [i \in 1..NumRows |->
                                 Advantage(job.estimator, job.gamma, job.lam, batch, i)])
  BY DEF ComputeAdvantage
<1> DEFINE rows == [i \in 1..NumRows |->
                      Advantage(job.estimator, job.gamma, job.lam, batch, i)]
<1>5. Len(rows) = Len(gen)
  BY <1>3
<1> HIDE DEF rows
<1>6. Filled' /\ cols'.responses = cols.responses
  BY <1>1, <1>2, <1>3, <1>4, <1>5, AssignFills DEF rows
<1>7. AllIdle'
  BY <1>1, <1>2, QuietIsIdle DEF AllIdle
<1>8. TrainedInv'
  BY <1>0, <1>1, <1>2, <1>7, Untrained
<1>9. RewardInv'
  <2>1. "responses" \in DOMAIN cols' /\ pc' \notin {"generate", "baseline", "balance"}
    BY <1>1, <1>2, <1>6, AfterStep, StepsAre DEF Filled
  <2> QED BY <1>1, <1>6, <2>1 DEF FlowInv, RewardInv
<1> QED BY <1>0, <1>1, <1>2, <1>6, <1>7, <1>8, <1>9, Onward

\* The reward function is given the responses of the batch, behind the reordering.
LEMMA RewardFlows ==
  ASSUME FlowInv, NEW async \in BOOLEAN, Reward(async)
  PROVE  FlowInv'
<1>1. /\ pc = "reward" /\ job' = job /\ kind' = kind /\ tokens' = tokens /\ gen' = gen
      /\ output' = output /\ heap' = heap /\ trained' = trained /\ part' = part /\ wpc' = wpc
      /\ reward' = IF "rm_scores" \in DOMAIN cols THEN cols.rm_scores ELSE cols.responses
  BY DEF Reward
<1>2. pc \in ToSet(Steps) \ ({"done"} \cup Updates) /\ pc \notin Calling \cup {"raised"}
  BY <1>1, StepsAre DEF OfWorkers, Updates, Calling
<1>3. Filled /\ Len(gen) \in Nat \ {0} /\ cols.responses \in [1..Len(gen) -> 1..Len(gen)]
  BY <1>2, BatchOf
<1>4. reward' = cols.responses /\ reward' # <<>>
  <2>1. reward' = cols.responses
    BY <1>1, <1>3 DEF Filled
  <2>2. 1 \in DOMAIN cols.responses
    BY <1>3
  <2> QED BY <2>1, <2>2
<1>5. /\ Filled' /\ cols'.responses = cols.responses /\ scored' \in BOOLEAN
      /\ pc' = IF kind = "train" THEN After(pc) ELSE "done"
  <2>1. CASE kind = "train"
    <3>1. cols' = cols /\ pc' = After(pc) /\ scored' = ~async
      BY <1>1, <2>1 DEF Reward
    <3>2. Filled'
      BY <1>1, <1>3, <3>1 DEF Filled, PromptOf
    <3> QED BY <2>1, <3>1, <3>2
  <2>2. CASE kind # "train"
    <3>1. Assign("scores", cols.responses) /\ pc' = "done" /\ scored' = TRUE
      BY <1>1, <2>2 DEF Reward
    <3>2. "scores" \in ToSet(Steps)
      BY StepsAre
    <3>3. Filled' /\ cols'.responses = cols.responses
      BY <1>1, <1>3, <3>1, <3>2, AssignFills
    <3> QED BY <2>2, <3>1, <3>3 DEF FlowInv, JobInv
  <2> QED BY <2>1, <2>2
<1>6. AllIdle'
  BY <1>1, <1>2, QuietIsIdle DEF AllIdle
<1>7. TrainedInv'
  BY <1>1, <1>2, <1>5, <1>6, Untrained
<1>8. RewardInv'
  <2>1. pc' \in ToSet(Steps)
    BY <1>2, <1>5, AfterStep, StepsAre
  <2>2. "responses" \in DOMAIN cols' /\ pc' \notin {"generate", "baseline", "balance"}
    BY <1>5, <2>1, StepsAre DEF Filled
  <2> QED BY <1>4, <1>5, <2>2 DEF RewardInv
<1> QED BY <1>1, <1>2, <1>5, <1>6, <1>7, <1>8, Onward

\* When all workers have returned from an update, all were trained.
LEMMA UpdatedFlows ==
  ASSUME FlowInv, Updated
  PROVE  FlowInv'
<1>1. /\ Returned /\ EndCall /\ pc' = After(pc)
      /\ job' = job /\ kind' = kind /\ tokens' = tokens /\ gen' = gen /\ output' = output
      /\ heap' = heap /\ reward' = reward /\ scored' = scored /\ trained' = trained
      /\ cols' = cols
  BY DEF Updated
<1>2. pc \in Updates
  BY DEF Updated, FlowInv, TrainedInv
<1>3. /\ pc \in ToSet(Steps) \ {"done"} /\ pc \in Calling /\ ~OnRollout
      /\ pc' \in ToSet(Steps) /\ pc' \notin {"generate", "baseline", "balance", "raised"}
  <2>1. pc \in ToSet(Steps) \ {"done"} /\ pc \in Calling /\ ~OnRollout
    BY <1>2, StepsAre DEF Updates, Calling, OnRollout
  <2>2. pc' \in ToSet(Steps)
    BY <1>1, <2>1, AfterStep
  <2> QED BY <2>1, <2>2, StepsAre
<1>0. kind = "train"
  BY <1>2, Trains DEF Updates
<1>4. Layout /\ Dispatches(1..Len(gen), cols.responses) /\ Callees = Workers
  BY <1>1, <1>3, ReturnedParts, PartsOf DEF Sent
<1>5. \A w \in Workers : TrainedWith(pc, w)
  BY <1>1, <1>2, <1>4 DEF FlowInv, TrainedInv, Returned
<1>6. Filled
  BY <1>3, BatchOf
<1>7. Filled' /\ cols'.responses = cols.responses
  BY <1>1, <1>6 DEF Filled, PromptOf
<1>8. part' = part /\ AllIdle' /\ \A w \in Workers : wpc'[w] # "returned"
  <2>1. part' = part /\ AllIdle'
    BY <1>1 DEF EndCall, AllIdle
  <2> QED BY <1>1, <2>1, IdleKeeps
<1>9. RewardInv'
  BY <1>1, <1>3, <1>7 DEF FlowInv, RewardInv, Filled
<1>10. TrainedInv'
  <2>1. OnRollout' = OnRollout
    BY <1>3 DEF OnRollout
  <2>2. Parts' = Parts /\ \A rows, w : Gathered(rows, w)' = Gathered(rows, w)
    BY <1>1, <2>1, SameLayout, Zenon
  <2>3. MiniSize' = MiniSize /\ \A rows : MiniBatches(rows)' = MiniBatches(rows)
    BY <1>1, SameMiniBatches
  <2>4. \A v : MiniBatches(Gathered(cols.responses, v))' = MiniBatches(Gathered(cols.responses, v))
    BY <1>1, <2>2, <2>3
  <2>5. Dispatches(1..Len(gen), cols.responses)'
    BY <1>1, <1>4, <2>2 DEF Dispatches
  <2>6. \A m : Uses(m)' = Uses(m)
    BY <1>1 DEF Uses, UseCritic
  <2>7. ASSUME kind = "train", NEW m \in Updates, Uses(m), Behind(m)', NEW w \in Workers
        PROVE  TrainedWith(m, w)
    <3>1. CASE m = pc
      BY <1>5, <3>1
    <3>2. CASE m # pc
      <4>1. m = "update_critic" /\ pc = "update_actor"
        <5>1. m = "update_actor" => pc' # "done"
          BY <1>1, <1>3, <2>7, <3>2, AfterStep
        <5> QED BY <1>2, <2>7, <3>2, <5>1 DEF Updates, Behind
      <4>2. Behind(m)
        BY <4>1 DEF Behind
      <4> QED BY <2>7, <4>2 DEF FlowInv, TrainedInv
    <3> QED BY <3>1, <3>2
  <2>8. trained' = [m \in Updates |-> [w \in Workers |-> trained[m][w]]]
    BY <1>1 DEF FlowInv, TrainedInv
  <2>9. \A m, v : TrainedWith(m, v)' = TrainedWith(m, v)
    BY <1>1, <2>3, <2>4 DEF TrainedWith
  <2> QED BY <1>1, <1>8, <2>5, <2>6, <2>7, <2>8, <2>9 DEF TrainedInv
<1> QED BY <1>0, <1>1, <1>3, <1>7, <1>8, <1>9, <1>10, Onward

\* Until the batch is balanced, steps change only where it is and its columns.
LEMMA BeforeSteps ==
  ASSUME FlowInv, job' = job, kind' = kind, tokens' = tokens, gen' = gen, part' = part,
         trained' = trained, reward' = reward, scored' = scored, AllIdle', reward = <<>>,
         pc' \in {"generate", "baseline", "balance", "raised", "reward", "rm_scores"},
         StageInv', HeapInv', LevelInv'
  PROVE  FlowInv'
<1>1. JobInv'
  BY JobKeeps DEF FlowInv
<1>2. CallInv'
  BY IdleKeeps
<1>3. RewardInv'
  BY DEF FlowInv, RewardInv
<1>4. TrainedInv'
  BY DEF FlowInv, TrainedInv, Behind, Updates
<1> QED BY <1>1, <1>2, <1>3, <1>4 DEF FlowInv

\* The first partitions divide the rows, and differ by no more than the rows of a class.
LEMMA StartBalanceFlows ==
  ASSUME FlowInv, StartBalance
  PROVE  FlowInv'
<1>1. /\ pc = "balance" /\ heap = {} /\ job' = job /\ kind' = kind /\ tokens' = tokens
      /\ gen' = gen /\ output' = output /\ cols' = cols /\ part' = part /\ wpc' = wpc
      /\ reward' = reward /\ scored' = scored /\ trained' = trained
  BY DEF StartBalance
<1>2. /\ Filled /\ Len(gen) \in Nat \ {0} /\ NumRows = Len(gen)
      /\ kind = "train" /\ cols.responses = gen /\ tokens \in [1..Len(gen) -> Nat]
      /\ gen = [i \in 1..Len(gen) |-> i] /\ output \in {<<>>, gen}
      /\ NumWorkers \in Nat \ {0}
  BY <1>1, BatchOf, FlowAssumption DEF FlowInv, StageInv, JobInv
<1>3. reward = <<>> /\ pc \notin Calling \cup {"raised"}
  BY <1>1 DEF FlowInv, RewardInv, Calling, OfWorkers, Updates
<1>4. AllIdle'
  BY <1>1, <1>3, QuietIsIdle DEF AllIdle
<1>5. Filled'
  BY <1>1, <1>2 DEF Filled, PromptOf
<1>6. CASE NumRows % NumWorkers = 0
  <2>1. heap' = Rows(tokens, NumWorkers) /\ pc' = pc
    <3>1. RowTokens = tokens
      BY <1>2 DEF RowTokens
    <3> QED BY <1>6, <3>1 DEF StartBalance
  <2> DEFINE m == Len(gen) \div NumWorkers
  <2>2. m \in Nat /\ Len(gen) = m * NumWorkers
    BY <1>2, <1>6, Divided
  <2> HIDE DEF m
  <2>3. m # 0
    BY <1>2, <2>2
  <2>4. Dividing(tokens, NumWorkers, Widest(tokens, NumWorkers), Rows(tokens, NumWorkers))
    BY <1>2, <2>2, <2>3, RowsDivide
  <2>5. HeapInv'
    BY <1>1, <1>2, <1>6, <2>1, <2>4 DEF HeapInv
  <2>6. StageInv'
    BY <1>1, <1>2, <1>5, <2>1 DEF StageInv
  <2>7. LevelInv'
    BY <1>1, <2>1, StepsAre DEF LevelInv
  <2> QED BY <1>1, <1>3, <1>4, <2>1, <2>5, <2>6, <2>7, BeforeSteps
<1>7. CASE NumRows % NumWorkers # 0
  <2>1. heap' = {} /\ pc' = "raised"
    BY <1>1, <1>7 DEF StartBalance
  <2>2. HeapInv' /\ LevelInv'
    BY <1>1, <2>1, StepsAre DEF HeapInv, LevelInv
  <2>3. StageInv'
    BY <1>1, <1>2, <1>5, <2>1, StepsAre DEF StageInv
  <2> QED BY <1>1, <1>3, <1>4, <2>1, <2>2, <2>3, BeforeSteps
<1> QED BY <1>6, <1>7

\* A round of karmarkar_karp keeps it so.
LEMMA BalanceRoundFlows ==
  ASSUME FlowInv, BalanceRound
  PROVE  FlowInv'
<1>1. /\ pc = "balance" /\ pc' = pc /\ job' = job /\ kind' = kind /\ tokens' = tokens
      /\ gen' = gen /\ output' = output /\ cols' = cols /\ part' = part /\ wpc' = wpc
      /\ reward' = reward /\ scored' = scored /\ trained' = trained
  BY DEF BalanceRound
<1>2. PICK s, t \in heap : Popped(heap, s, t) /\ heap' = Round(heap, s, t)
  BY DEF BalanceRound
<1>3. reward = <<>> /\ pc \notin Calling \cup {"raised"}
  BY <1>1 DEF FlowInv, RewardInv, Calling, OfWorkers, Updates
<1>4. AllIdle'
  BY <1>1, <1>3, QuietIsIdle DEF AllIdle
<1>5. StageInv'
  <2>1. Filled' = Filled
    BY <1>1 DEF Filled, PromptOf
  <2> QED BY <1>1, <2>1, StepsAre DEF FlowInv, StageInv
<1>6. HeapInv'
  <2> DEFINE d == Widest(tokens, NumWorkers)
             n == Len(gen)
             m == n \div NumWorkers
  <2>1. /\ n \in Nat \ {0} /\ tokens \in [1..n -> Nat] /\ NumWorkers \in Nat \ {0}
        /\ n % NumWorkers = 0 /\ Dividing(tokens, NumWorkers, d, heap)
    BY <1>2, FlowAssumption DEF FlowInv, JobInv, HeapInv
  <2>2. d \in Nat
    <3>1. m \in Nat /\ n = m * NumWorkers
      BY <2>1, Divided
    <3> HIDE DEF n, m, d
    <3>2. m # 0
      BY <2>1, <3>1
    <3> QED BY <2>1, <3>1, <3>2, RowsDivide DEF d
  <2> HIDE DEF d, n, m
  <2>3. Dividing(tokens, NumWorkers, d, heap')
    BY <1>2, <2>1, <2>2, RoundDivides
  <2> QED BY <1>1, <2>1, <2>3 DEF HeapInv, d, n
<1>7. LevelInv'
  BY <1>1, StepsAre DEF LevelInv
<1> QED BY <1>1, <1>3, <1>4, <1>5, <1>6, <1>7, BeforeSteps

\* The last partition orders the batch: each row once, and the same number to each worker.
LEMMA EndBalanceFlows ==
  ASSUME FlowInv, EndBalance
  PROVE  FlowInv'
<1> DEFINE s == CHOOSE state \in heap : TRUE
           order == BalancedOrder(s)
           n == Len(gen)
           k == NumWorkers
           m == n \div k
           d == Widest(tokens, k)
<1>1. /\ pc = "balance" /\ Cardinality(heap) = 1 /\ job' = job /\ kind' = kind
      /\ tokens' = tokens /\ gen' = gen /\ output' = output /\ part' = part /\ wpc' = wpc
      /\ reward' = reward /\ scored' = scored /\ trained' = trained
      /\ heap' = {} /\ pc' = From(1) /\ cols' = Reordered(order)
  BY DEF EndBalance
<1>2. reward = <<>> /\ pc \notin Calling \cup {"raised"}
  BY <1>1 DEF FlowInv, RewardInv, Calling, OfWorkers, Updates
<1>3. AllIdle'
  BY <1>1, <1>2, QuietIsIdle DEF AllIdle
<1>4. pc' \in {"rm_scores", "reward"} /\ pc' \in ToSet(Steps)
  BY <1>1, AfterIs, StepsAre
<1>5. heap # {} /\ s \in heap
  <2>1. heap # {}
    BY <1>1, FS_EmptySet
  <2> QED BY <2>1
<1>6. /\ n \in Nat \ {0} /\ tokens \in [1..n -> Nat] /\ k \in Nat \ {0} /\ n % k = 0
      /\ gen = [i \in 1..n |-> i] /\ kind = "train" /\ cols.responses = gen /\ Filled /\ output \in {<<>>, gen}
      /\ Dividing(tokens, k, d, heap)
  BY <1>1, <1>5, FlowAssumption DEF FlowInv, JobInv, HeapInv, StageInv
<1> HIDE DEF s, n, k, d
<1>7. m \in Nat \ {0} /\ n = m * k
  <2>1. m \in Nat /\ n = m * k
    BY <1>6, Divided
  <2> HIDE DEF m
  <2> QED BY <1>6, <2>1
<1> HIDE DEF m
<1>8. d \in Nat
  BY <1>6, <1>7, RowsDivide DEF d, k
<1>9. order \in Seq(1..n) /\ Len(order) = n /\ Numbers(n, order) /\ Level(tokens, k, m, d, order)
  <2>1. tokens \in [1..m * k -> Nat]
    BY <1>6, <1>7
  <2>2. /\ BalancedOrder(s) \in Seq(1..m * k) /\ Len(BalancedOrder(s)) = m * k
        /\ Numbers(m * k, BalancedOrder(s)) /\ Level(tokens, k, m, d, BalancedOrder(s))
    BY <1>1, <1>5, <1>6, <1>7, <1>8, <2>1, OrderIsLevel, Zenon
  <2> QED BY <1>7, <2>2
<1> HIDE DEF order
<1>10. /\ DOMAIN cols' = DOMAIN cols
       /\ \A c \in DOMAIN cols : cols'[c] = [i \in 1..n |-> cols[c][order[i]]]
  BY <1>1, <1>9 DEF Reordered, Reorder
<1>11. order \in [1..n -> 1..n]
  BY <1>9 DEF Numbers
<1>12. cols'.responses = order
  <2>1. cols'.responses = [i \in 1..n |-> gen[order[i]]]
    <3>1. "responses" \in DOMAIN cols /\ cols.responses = gen
      BY <1>6 DEF Filled
    <3>2. cols'["responses"] = [i \in 1..n |-> cols["responses"][order[i]]]
      BY <1>10, <3>1
    <3> QED BY <3>1, <3>2
  <2>2. [i \in 1..n |-> gen[order[i]]] = [i \in 1..n |-> order[i]]
    BY <1>6, <1>11
  <2> QED BY <1>11, <2>1, <2>2
<1>13. "advantages" \in DOMAIN cols' => Len(cols'.advantages) = n
  BY <1>6, <1>10
<1>14. cols'.uid = [i \in 1..n |-> PromptOf(order[i])]
  <2>1. cols.uid = [i \in 1..n |-> PromptOf(i)]
    BY <1>6 DEF Filled, n
  <2> QED BY <1>6, <1>10, <1>11, <2>1 DEF Filled
<1>15. ASSUME NEW c \in DOMAIN cols' \ {"uid", "advantages"} PROVE cols'[c] = cols'.responses
  <2>1. cols[c] = cols.responses /\ c \in DOMAIN cols
    BY <1>6, <1>10 DEF Filled
  <2>2. cols'[c] = [i \in 1..n |-> cols[c][order[i]]]
    BY <1>10, <2>1
  <2>3. "responses" \in DOMAIN cols
    BY <1>6 DEF Filled
  <2>4. cols'["responses"] = [i \in 1..n |-> cols["responses"][order[i]]]
    BY <1>10, <2>3
  <2> QED BY <2>1, <2>2, <2>4
<1>16. Filled'
  <2>1. \A x : PromptOf(x)' = PromptOf(x)
    BY <1>1 DEF PromptOf
  <2>2. cols'.uid = [i \in 1..n |-> PromptOf(cols.responses[i])']
    BY <1>12, <1>14, <2>1
  <2> QED BY <1>1, <1>6, <1>9, <1>10, <1>12, <1>13, <1>15, <2>2 DEF Filled, n
<1>17. StageInv'
  BY <1>1, <1>4, <1>6, <1>16, StepsAre DEF StageInv
<1>18. HeapInv'
  BY <1>1 DEF HeapInv
<1>19. LevelInv'
  BY <1>1, <1>6, <1>9, <1>12 DEF LevelInv, n, k, d, m
<1> QED BY <1>1, <1>2, <1>3, <1>4, <1>17, <1>18, <1>19, BeforeSteps

\* The columns of a batch that has got its responses.
LEMMA JoinedFills ==
  ASSUME FlowInv, kind = "train", gen' = gen, kind' = kind, job' = job,
         {"uid", "responses"} \subseteq DOMAIN cols',
         DOMAIN cols' \subseteq {"uid", "responses", "reward_baselines"},
         cols'.responses = gen, cols'.uid = Repeat(Prompts(PromptCount), job.n),
         "reward_baselines" \in DOMAIN cols' => cols'.reward_baselines = gen
  PROVE  Filled'
<1>1. /\ Numbers(Len(gen), gen)
      /\ Repeat(Prompts(PromptCount), job.n) = [i \in 1..Len(gen) |-> PromptOf(gen[i])]
  BY RepeatedPrompts DEF FlowInv
<1>2. Numbers(Len(gen), cols.responses)'
  BY <1>1 DEF Numbers
<1>3. cols'.uid = [i \in 1..Len(gen) |-> PromptOf(cols.responses[i])]'
  BY <1>1 DEF PromptOf
<1>4. \A c \in DOMAIN cols' \ {"uid", "advantages"} : cols'[c] = cols'.responses
  OBVIOUS
<1>5. "advantages" \notin DOMAIN cols'
  OBVIOUS
<1> QED BY <1>2, <1>3, <1>4, <1>5 DEF Filled

\* The rollout's rows come back in the order of gen_batch, without the padding.
LEMMA GeneratedFlows ==
  ASSUME FlowInv, Generated
  PROVE  FlowInv'
<1>1. /\ pc = "generate" /\ Returned /\ EndCall /\ job' = job /\ kind' = kind
      /\ tokens' = tokens /\ gen' = gen /\ heap' = heap /\ reward' = reward
      /\ scored' = scored /\ trained' = trained
  BY DEF Generated
<1>2. part' = part /\ AllIdle'
  BY <1>1 DEF EndCall, AllIdle
<1>3. /\ reward = <<>> /\ Fresh /\ heap = {} /\ output \in {<<>>, gen}
      /\ kind \in {"train", "validate"} /\ Len(gen) \in Nat \ {0} /\ gen = [i \in 1..Len(gen) |-> i]
  BY <1>1 DEF FlowInv, RewardInv, StageInv, HeapInv, JobInv
<1>4. Collected = PadOf(gen)
  BY <1>1, ReturnedParts DEF Sent, OnRollout, Calling, Updates
<1>5. HeapInv'
  BY <1>1, <1>3 DEF HeapInv
<1>6. CASE kind = "validate"
  <2>1. /\ Assign("responses", Unpad(Collected, PadSize(gen, RolloutSize))) /\ pc' = "reward"
        /\ output' = output
    <3>1. "responses" \notin DOMAIN cols
      BY <1>3 DEF Fresh
    <3> QED BY <1>1, <1>6, <3>1 DEF Generated, Union
  <2>2. Unpad(Collected, PadSize(gen, RolloutSize)) = gen
    <3>1. gen \in Seq(1..Len(gen))
      <4>1. gen \in [1..Len(gen) -> 1..Len(gen)]
        BY <1>3
      <4> QED BY <1>3, <4>1, ListIsFunction
    <3>2. RolloutSize \in Nat \ {0}
      BY LayoutIs DEF FlowInv, JobInv, Layout, RolloutSize
    <3> QED BY <1>4, <1>6, <3>1, <3>2, UnpadOfPad DEF PadOf
  <2>3. cols'.responses = gen /\ DOMAIN cols' = {"uid", "responses"} /\ cols'.uid = gen
    <3>1. cols.uid = gen /\ DOMAIN cols = {"uid"}
      BY <1>3, <1>6 DEF Fresh, Prompts, PromptCount
    <3> QED BY <2>1, <2>2, <3>1 DEF Assign
  <2>4. Filled'
    <3>1. Numbers(Len(gen), cols.responses)'
      BY <1>1, <1>3, <2>3 DEF Numbers
    <3>2. cols'.uid = [i \in 1..Len(gen) |-> PromptOf(cols.responses[i])]'
      BY <1>1, <1>3, <1>6, <2>3 DEF PromptOf
    <3> QED BY <1>1, <2>3, <3>1, <3>2 DEF Filled
  <2>5. StageInv'
    BY <1>1, <1>3, <2>1, <2>4, StepsAre DEF StageInv
  <2>6. LevelInv'
    BY <1>1, <1>6 DEF LevelInv
  <2> QED BY <1>1, <1>2, <1>3, <1>5, <2>1, <2>5, <2>6, BeforeSteps
<1>7. CASE kind = "train" /\ job.estimator = "remax"
  <2>1. output' = Collected /\ pc' = "baseline" /\ cols' = cols
    BY <1>1, <1>7 DEF Generated
  <2>2. output' = gen
    BY <1>4, <1>7, <2>1 DEF PadOf
  <2>3. Fresh'
    BY <1>1, <1>3, <2>1 DEF Fresh, PromptCount
  <2>4. StageInv'
    BY <1>1, <1>7, <2>1, <2>2, <2>3, StepsAre DEF StageInv
  <2>5. LevelInv'
    BY <2>1, StepsAre DEF LevelInv
  <2> QED BY <1>1, <1>2, <1>3, <1>5, <2>1, <2>4, <2>5, BeforeSteps
<1>8. CASE kind = "train" /\ job.estimator # "remax"
  <2>1. cols' = Joined(cols, Collected) /\ pc' = "balance" /\ output' = output
    BY <1>1, <1>8 DEF Generated
  <2>2. /\ DOMAIN cols' = {"uid", "responses"} /\ cols'.responses = gen
        /\ cols'.uid = Repeat(Prompts(PromptCount), job.n)
    <3>1. Collected = gen
      BY <1>4, <1>8 DEF PadOf
    <3>2. DOMAIN cols = {"uid"} /\ cols.uid = Prompts(PromptCount)
      BY <1>3 DEF Fresh
    <3> QED BY <2>1, <3>1, <3>2 DEF Joined
  <2>3. Filled'
    BY <1>1, <1>8, <2>2, JoinedFills
  <2>4. StageInv'
    BY <1>1, <1>3, <1>8, <2>1, <2>2, <2>3, StepsAre DEF StageInv
  <2>5. LevelInv'
    BY <2>1, StepsAre DEF LevelInv
  <2> QED BY <1>1, <1>2, <1>3, <1>5, <2>1, <2>4, <2>5, BeforeSteps
<1> QED BY <1>3, <1>6, <1>7, <1>8

\* So do the greedy ones, if they are as many as the prompts and leave no column behind that
\* differs.
LEMMA BaselineGeneratedFlows ==
  ASSUME FlowInv, BaselineGenerated
  PROVE  FlowInv'
<1>1. /\ pc = "baseline" /\ Returned /\ EndCall /\ job' = job /\ kind' = kind
      /\ tokens' = tokens /\ gen' = gen /\ heap' = heap /\ reward' = reward
      /\ scored' = scored /\ trained' = trained
  BY DEF BaselineGenerated
<1>2. part' = part /\ AllIdle'
  BY <1>1 DEF EndCall, AllIdle
<1>3. /\ reward = <<>> /\ Fresh /\ heap = {} /\ output = gen /\ kind = "train"
      /\ Len(gen) \in Nat \ {0} /\ PromptCount \in Nat /\ Len(gen) = PromptCount * job.n
      /\ job.n \in Nat \ {0}
  BY <1>1, FlowAssumption DEF FlowInv, RewardInv, StageInv, HeapInv, JobInv
<1>4. Collected = gen
  BY <1>1, <1>3, ReturnedParts DEF Sent, PadOf, OnRollout, Calling, Updates
<1>5. HeapInv'
  BY <1>1, <1>3 DEF HeapInv
<1>6. DOMAIN cols = {"uid"} /\ cols.uid = Prompts(PromptCount) /\ NumRows = PromptCount
  <2>1. DOMAIN cols = {"uid"} /\ cols.uid = Prompts(PromptCount)
    BY <1>3 DEF Fresh
  <2> QED BY <1>3, <2>1 DEF Prompts, NumRows
<1>7. CASE Len(Collected) = NumRows /\ SameNonTensor(Collected, output)
  <2>1. job.n = 1
    <3> DEFINE p == PromptCount
               j == job.n
    <3>1. p \in Nat \ {0} /\ j \in Nat \ {0} /\ p = p * j
      BY <1>3, <1>4, <1>6, <1>7
    <3> HIDE DEF p, j
    <3>2. j = 1
      <4> SUFFICES ASSUME j - 1 \in Nat \ {0} PROVE FALSE
        BY <3>1
      <4>1. p * j = p + p * (j - 1)
        BY <3>1
      <4>2. p * (j - 1) \in Nat \ {0}
        <5>1. p * (j - 1) = (j - 1) + (p - 1) * (j - 1) /\ (p - 1) * (j - 1) \in Nat
          <6>1. p - 1 \in Nat
            BY <3>1
          <6> QED BY <3>1, <6>1
        <5> QED BY <3>1, <5>1
      <4> QED BY <3>1, <4>1, <4>2
    <3> QED BY <3>2 DEF j
  <2>2. pc' = "balance" /\ output' = <<>>
        /\ cols' = Joined([uid |-> cols.uid, reward_baselines |-> Collected], output)
    BY <1>7 DEF BaselineGenerated
  <2>3. /\ DOMAIN cols' = {"uid", "reward_baselines", "responses"} /\ cols'.responses = gen
        /\ cols'.uid = Repeat(Prompts(PromptCount), job.n)
        /\ cols'.reward_baselines = Repeat(gen, job.n)
    BY <1>3, <1>4, <1>6, <2>2 DEF Joined
  <2>4. Repeat(gen, job.n) = gen
    <3>1. gen = [i \in 1..Len(gen) |-> i]
      BY DEF FlowInv, JobInv
    <3>2. \A i \in 1..Len(gen) : ((i - 1) \div 1) + 1 = i
      BY <1>3
    <3> QED BY <1>3, <2>1, <3>1, <3>2 DEF Repeat
  <2>5. Filled'
    BY <1>1, <1>3, <2>3, <2>4, JoinedFills
  <2>6. StageInv'
    BY <1>1, <1>3, <2>2, <2>3, <2>5, StepsAre DEF StageInv
  <2>7. LevelInv'
    BY <2>2, StepsAre DEF LevelInv
  <2> QED BY <1>1, <1>2, <1>3, <1>5, <2>2, <2>6, <2>7, BeforeSteps
<1>8. CASE ~(Len(Collected) = NumRows /\ SameNonTensor(Collected, output))
  <2>1. pc' = "raised" /\ cols' = cols /\ output' = output
    BY <1>8 DEF BaselineGenerated
  <2>2. Fresh'
    BY <1>1, <1>3, <2>1 DEF Fresh, PromptCount
  <2>3. StageInv'
    BY <1>1, <1>3, <2>1, <2>2, StepsAre DEF StageInv
  <2>4. LevelInv'
    BY <2>1, StepsAre DEF LevelInv
  <2> QED BY <1>1, <1>2, <1>3, <1>5, <2>1, <2>3, <2>4, BeforeSteps
<1> QED BY <1>7, <1>8

\* A step starts with the prompts and nothing else.
LEMMA InitFlows ==
  ASSUME Init
  PROVE  FlowInv
<1>1. /\ job \in Jobs /\ Accepted(job) /\ pc = "generate" /\ output = <<>> /\ heap = {}
      /\ part = [w \in Workers |-> <<>>] /\ wpc = [w \in Workers |-> "idle"]
      /\ reward = <<>> /\ scored = FALSE
      /\ trained = [m \in {"update_critic", "update_actor"} |-> [w \in Workers |-> <<>>]]
  BY DEF Init
<1>2. JobInv /\ Fresh
  <2>1. CASE /\ kind = "train" /\ tokens \in TokenCounts
             /\ gen = [i \in 1..TrainRows |-> i]
             /\ cols = [uid |-> Prompts(TrainRows \div job.n)]
    <3>1. /\ TrainRows \in Nat \ {0} /\ job.n \in Nat \ {0} /\ TrainRows % job.n = 0
          /\ MaxTokens \in Nat /\ tokens \in [1..TrainRows -> 1..MaxTokens]
      BY <1>1, <2>1, FlowAssumption
    <3>2. tokens \in [1..TrainRows -> Nat]
      BY <3>1
    <3>3. TrainRows \div job.n \in Nat /\ TrainRows = (TrainRows \div job.n) * job.n
      BY <3>1, Divided
    <3>4. Len(gen) = TrainRows
      BY <2>1, <3>1
    <3>5. PromptCount = TrainRows \div job.n
      BY <2>1 DEF PromptCount
    <3> QED BY <1>1, <2>1, <3>1, <3>2, <3>3, <3>4, <3>5 DEF JobInv, Fresh
  <2>2. ASSUME NEW n \in ValSizes, kind = "validate", tokens = [i \in 1..n |-> 1],
               gen = [i \in 1..n |-> i], cols = [uid |-> Prompts(n)]
        PROVE  JobInv /\ Fresh
    <3>1. n \in Nat \ {0} /\ Len(gen) = n
      BY <2>2, FlowAssumption
    <3>2. PromptCount = n
      BY <2>2, <3>1 DEF PromptCount
    <3> QED BY <1>1, <2>2, <3>1, <3>2 DEF JobInv, Fresh
  <2> QED BY <2>1, <2>2 DEF Init
<1>3. StageInv
  BY <1>1, <1>2, StepsAre DEF StageInv
<1>4. RewardInv /\ HeapInv
  BY <1>1 DEF RewardInv, HeapInv
<1>5. LevelInv
  BY <1>1, StepsAre DEF LevelInv
<1>6. CallInv
  <2>1. part \in [Workers -> Seq(1..Len(gen))]
    BY <1>1
  <2> QED BY <1>1, <2>1 DEF CallInv
<1>7. TrainedInv
  BY <1>1 DEF TrainedInv, Behind, Updates
<1> QED BY <1>2, <1>3, <1>4, <1>5, <1>6, <1>7 DEF FlowInv

-----------------------------------------------------------------------------
(***************************************************************************)
(* What follows of the invariant                                           *)
(***************************************************************************)

\* Every step of the driver, of the workers and of the reward function keeps the invariant.
LEMMA NextFlows ==
  ASSUME FlowInv, [Next]_vars
  PROVE  FlowInv'
<1>1. CASE UNCHANGED vars
  BY <1>1, StutterFlows
<1>2. ASSUME Generate PROVE FlowInv'
  BY <1>2, CallFlows DEF Generate, Sent, OnRollout, Calling
<1>3. ASSUME Compute \/ Update PROVE FlowInv'
  <2>1. pc \in OfWorkers \cup Updates /\ Call(cols.responses)
    BY <1>3 DEF Compute, Update, FlowInv, TrainedInv
  <2>2. pc \in Calling /\ ~OnRollout
    BY <2>1 DEF Calling, OnRollout, OfWorkers, Updates
  <2> QED BY <2>1, <2>2, CallFlows DEF Sent
<1>4. CASE Driver
  BY <1>2, <1>3, <1>4, GeneratedFlows, BaselineGeneratedFlows, StartBalanceFlows,
     BalanceRoundFlows, EndBalanceFlows, RewardFlows, ComputedFlows, AwaitRewardFlows,
     ComputeAdvantageFlows, UpdatedFlows DEF Driver
<1>5. CASE RewardTask
  BY <1>5, RewardTaskFlows
<1>6. CASE \E w \in Workers : Gather(w) \/ Return(w)
  BY <1>6, GatherFlows, ReturnFlows
<1> QED BY <1>1, <1>4, <1>5, <1>6 DEF Next

\* Whatever the driver, the workers and the reward task do next, the invariant is kept: the
\* rows are where the steps of the call have put them, in their order, and the batch and the
\* reward have the columns of the steps that are behind.
THEOREM FlowInvariance == Spec => []FlowInv
<1>1. Init => FlowInv
  BY InitFlows
<1>2. FlowInv /\ [Next]_vars => FlowInv'
  BY NextFlows
<1> QED BY <1>1, <1>2, PTL DEF Spec

\* The invariant says what type everything has.
LEMMA FlowTypes ==
  ASSUME FlowInv
  PROVE  TypeOK
<1> DEFINE n == Len(gen)
<1>1. /\ n \in Nat \ {0} /\ gen = [i \in 1..n |-> i] /\ DOMAIN tokens = 1..n /\ Layout
      /\ PromptCount \in Nat /\ (kind = "train" => n = PromptCount * job.n)
      /\ kind \in {"train", "validate"} /\ job \in Jobs
  BY LayoutIs DEF FlowInv, JobInv
<1>2. pc \in {"generate", "baseline", "balance", "raised"} \cup ToSet(Steps)
  BY DEF FlowInv, StageInv
<1>3. job.n \in Nat \ {0}
  BY <1>1 DEF Layout
<1>4. output \in Seq(1..n)
  <2>1. gen \in [1..n -> 1..n]
    BY <1>1
  <2> HIDE DEF n
  <2>2. gen \in Seq(1..n)
    BY <1>1, <2>1, ListIsFunction
  <2>3. output \in {<<>>, gen}
    BY DEF FlowInv, StageInv
  <2>4. <<>> \in Seq(1..n)
    OBVIOUS
  <2> QED BY <2>2, <2>3, <2>4
<1>5. \A w \in Workers : /\ part[w] \in Seq(1..n)
                         /\ wpc[w] \in {"idle", "called", "gathered", "returned"}
  BY DEF FlowInv, CallInv
<1>6. Fresh \/ Filled
  BY <1>2 DEF FlowInv, StageInv
<1>7. ASSUME Fresh
      PROVE  /\ DOMAIN cols \subseteq {"uid", "responses", "reward_baselines"} \cup ToSet(Steps)
             /\ \A c \in DOMAIN cols : Len(cols[c]) = NumRows
             /\ \A c \in DOMAIN cols \ {"advantages"} : cols[c] \in Seq(1..n)
  <2>1. DOMAIN cols = {"uid"} /\ cols.uid = Prompts(PromptCount)
    BY <1>7 DEF Fresh
  <2>2. PromptCount <= n
    <3>1. CASE kind = "train"
      <4> DEFINE p == PromptCount
                 j == job.n
      <4>1. p \in Nat /\ j - 1 \in Nat /\ n = p * j /\ j \in Nat
        BY <1>1, <1>3, <3>1
      <4> HIDE DEF p, j, n
      <4>2. p * j = p + p * (j - 1) /\ p * (j - 1) \in Nat
        BY <4>1
      <4>3. p <= n
        BY <4>1, <4>2
      <4> QED BY <4>3 DEF p
    <3>2. CASE kind # "train"
      BY <1>1, <3>2 DEF PromptCount
    <3> QED BY <3>1, <3>2
  <2>3. cols.uid \in [1..PromptCount -> 1..n]
    BY <1>1, <2>1, <2>2 DEF Prompts
  <2>4. cols.uid \in Seq(1..n)
    BY <1>1, <2>3, ListIsFunction
  <2> QED BY <2>1, <2>4 DEF NumRows
<1>8. ASSUME Filled
      PROVE  /\ DOMAIN cols \subseteq {"uid", "responses", "reward_baselines"} \cup ToSet(Steps)
             /\ \A c \in DOMAIN cols : Len(cols[c]) = NumRows
             /\ \A c \in DOMAIN cols \ {"advantages"} : cols[c] \in Seq(1..n)
  <2>1. /\ cols.responses \in [1..n -> 1..n]
        /\ cols.uid = [i \in 1..n |-> PromptOf(cols.responses[i])]
    BY <1>8 DEF Filled, Numbers
  <2>2. \A row \in 1..n : PromptOf(row) \in 1..n
    <3> SUFFICES ASSUME NEW row \in 1..n PROVE PromptOf(row) \in 1..n
      OBVIOUS
    <3>1. CASE kind = "train"
      <4> DEFINE j == job.n
                 x == row - 1
                 q == x \div j
      <4>1. j \in Nat \ {0} /\ j - 1 \in Nat /\ x \in Nat
        BY <1>1, <1>3
      <4> HIDE DEF j, x
      <4>2. q \in Nat /\ x = j * q + (x % j) /\ x % j \in Nat
        BY <4>1
      <4>3. q <= x
        <5> HIDE DEF q
        <5>1. j * q = q + (j - 1) * q /\ (j - 1) * q \in Nat
          BY <4>1, <4>2
        <5> QED BY <4>1, <4>2, <5>1
      <4> QED BY <1>1, <3>1, <4>2, <4>3 DEF PromptOf, q, x, j
    <3>2. CASE kind # "train"
      BY <3>2 DEF PromptOf
    <3> QED BY <3>1, <3>2
  <2>3. cols.uid \in [1..n -> 1..n]
    BY <2>1, <2>2
  <2> HIDE DEF n
  <2>4. /\ cols.uid \in Seq(1..n) /\ Len(cols.uid) = n
        /\ cols.responses \in Seq(1..n) /\ Len(cols.responses) = n
    BY <1>1, <2>1, <2>3, ListIsFunction
  <2>5. \A c \in DOMAIN cols \ {"uid", "advantages"} : cols[c] = cols.responses
    BY <1>8 DEF Filled
  <2>6. "advantages" \in DOMAIN cols => Len(cols.advantages) = n
    BY <1>8 DEF Filled, n
  <2>7. \A c \in DOMAIN cols : Len(cols[c]) = NumRows
    BY <2>4, <2>5, <2>6 DEF NumRows
  <2>8. \A c \in DOMAIN cols \ {"advantages"} : cols[c] \in Seq(1..n)
    BY <2>4, <2>5
  <2> QED BY <1>8, <2>7, <2>8 DEF Filled
<1> QED BY <1>1, <1>2, <1>4, <1>5, <1>6, <1>7, <1>8 DEF TypeOK

\* Type correctness: all columns have as many rows as the batch, and cells that come from
\* generated rows, which is what every union of the driver asserts.
THEOREM FlowTypeCorrect == Spec => []TypeOK
<1>1. FlowInv => TypeOK
  BY FlowTypes
<1> QED BY <1>1, FlowInvariance, PTL

\* A batch that has its responses has the columns that fit to them, each response once.
LEMMA BatchFits ==
  ASSUME FlowInv
  PROVE  ColumnsFitTogether /\ EachResponseOnce
<1>1. CASE "responses" \notin DOMAIN cols
  BY <1>1 DEF ColumnsFitTogether, EachResponseOnce
<1>2. CASE "responses" \in DOMAIN cols
  <2>1. ~Fresh
    BY <1>2 DEF Fresh
  <2>2. Filled /\ Len(gen) \in Nat
    BY <2>1, StepsAre DEF FlowInv, StageInv, JobInv
  <2>3. /\ cols.uid = [i \in 1..Len(gen) |-> PromptOf(cols.responses[i])]
        /\ Numbers(Len(gen), cols.responses)
        /\ \A c \in DOMAIN cols \ {"uid", "advantages"} : cols[c] = cols.responses
    BY <2>2 DEF Filled
  <2>4. NumRows = Len(gen)
    BY <2>2, <2>3 DEF NumRows
  <2>5. ColumnsFitTogether
    BY <2>3, <2>4 DEF ColumnsFitTogether
  <2>6. EachResponseOnce
    BY <2>3, <2>4 DEF EachResponseOnce, Numbers
  <2> QED BY <2>5, <2>6
<1> QED BY <1>1, <1>2

\* Row i of every column is computed from one response, and that answers the prompt of the
\* row: no dispatch, gather, share, collection, padding, repetition or reordering of fit and
\* _validate confuses the rows, for any number of workers, any layout and any row lengths.
THEOREM ColumnsFitTogetherAlways == Spec => []ColumnsFitTogether
<1>1. FlowInv => ColumnsFitTogether
  BY BatchFits
<1> QED BY <1>1, FlowInvariance, PTL

\* Every row that is sent to the rollout comes back in the batch exactly once, and none of
\* the padding of _validate does.
THEOREM EachResponseOnceAlways == Spec => []EachResponseOnce
<1>1. FlowInv => EachResponseOnce
  BY BatchFits
<1> QED BY <1>1, FlowInvariance, PTL

-----------------------------------------------------------------------------
(***************************************************************************)
(* The load of the workers                                                 *)
(***************************************************************************)

\* A sum over the first n + 1 places.
LEMMA SumMore ==
  ASSUME NEW f, NEW n \in Nat, \A i \in 1..n + 1 : f[i] \in Nat
  PROVE  /\ SumFunctionOnSet(f, 1..n) \in Nat
         /\ SumFunctionOnSet(f, 1..n + 1) = SumFunctionOnSet(f, 1..n) + f[n + 1]
<1> DEFINE S == 1..n + 1
           x == n + 1
<1>1. x \in S /\ S \ {x} = 1..n /\ \A i \in S : f[i] \in Nat
  OBVIOUS
<1>0. \A i \in 1..n : f[i] \in Nat
  OBVIOUS
<1>2. IsFiniteSet(S) /\ IsFiniteSet(1..n)
  BY FS_Interval
<1> HIDE DEF S, x
<1>3. SumFunctionOnSet(f, S) = f[x] + SumFunctionOnSet(f, S \ {x})
  BY <1>1, <1>2, SumAny
<1>4. SumFunctionOnSet(f, 1..n) \in Nat
  BY <1>0, <1>2, SumType
<1>5. f[x] \in Nat
  BY <1>1
<1>6. SumFunctionOnSet(f, S) = SumFunctionOnSet(f, 1..n) + f[x]
  <2>1. S \ {x} = 1..n
    BY <1>1
  <2>2. SumFunctionOnSet(f, S) = f[x] + SumFunctionOnSet(f, 1..n)
    BY <1>3, <2>1, Zenon
  <2> QED BY <1>4, <1>5, <2>2
<1> QED BY <1>4, <1>6 DEF S, x

\* A sum over two parts of a list.
LEMMA SumParts ==
  ASSUME NEW a \in Nat, NEW b \in Nat, NEW f, NEW g, \A i \in 1..a + b : f[i] \in Nat,
         \A j \in 1..b : g[j] = f[a + j]
  PROVE  /\ SumFunctionOnSet(f, 1..a) \in Nat /\ SumFunctionOnSet(g, 1..b) \in Nat
         /\ SumFunctionOnSet(f, 1..a + b) = SumFunctionOnSet(f, 1..a) + SumFunctionOnSet(g, 1..b)
<1> DEFINE F(n) == SumFunctionOnSet(f, 1..n)
           G(n) == SumFunctionOnSet(g, 1..n)
           T == {n \in Nat : n <= b => F(a + n) = F(a) + G(n)}
<1>1. \A n \in Nat : n <= a + b => F(n) \in Nat
  <2> SUFFICES ASSUME NEW n \in Nat, n <= a + b PROVE F(n) \in Nat
    OBVIOUS
  <2>1. IsFiniteSet(1..n) /\ \A i \in 1..n : f[i] \in Nat
    BY FS_Interval
  <2> QED BY <2>1, SumType
<1>2. \A n \in Nat : n <= b => G(n) \in Nat
  <2> SUFFICES ASSUME NEW n \in Nat, n <= b PROVE G(n) \in Nat
    OBVIOUS
  <2>1. \A i \in 1..n : i \in 1..b /\ a + i \in 1..a + b
    OBVIOUS
  <2>2. \A i \in 1..n : g[i] \in Nat
    BY <2>1
  <2>3. IsFiniteSet(1..n)
    BY FS_Interval
  <2> QED BY <2>2, <2>3, SumType
<1>3. 0 \in T
  <2>1. 1..0 = {}
    OBVIOUS
  <2>2. G(0) = 0
    BY <2>1, SumEmpty
  <2>3. F(a) \in Nat /\ a + 0 = a
    BY <1>1
  <2> HIDE DEF F, G
  <2> QED BY <2>2, <2>3
<1>4. ASSUME NEW n \in Nat, n \in T PROVE n + 1 \in T
  <2> SUFFICES ASSUME n + 1 <= b PROVE F(a + (n + 1)) = F(a) + G(n + 1)
    OBVIOUS
  <2>1. F(a + n) = F(a) + G(n)
    BY <1>4
  <2>2. F((a + n) + 1) = F(a + n) + f[(a + n) + 1]
    <3>1. a + n \in Nat /\ \A i \in 1..(a + n) + 1 : f[i] \in Nat
      OBVIOUS
    <3> DEFINE x == a + n
    <3> HIDE DEF x
    <3>2. SumFunctionOnSet(f, 1..x + 1) = SumFunctionOnSet(f, 1..x) + f[x + 1]
      BY <3>1, SumMore DEF x
    <3> QED BY <3>2 DEF x
  <2>3. G(n + 1) = G(n) + g[n + 1]
    <3>1. \A i \in 1..n + 1 : i \in 1..b /\ a + i \in 1..a + b
      OBVIOUS
    <3>2. \A i \in 1..n + 1 : g[i] \in Nat
      BY <3>1
    <3> QED BY <3>2, SumMore
  <2>4. g[n + 1] = f[(a + n) + 1] /\ f[(a + n) + 1] \in Nat /\ (a + n) + 1 = a + (n + 1)
    OBVIOUS
  <2>5. F(a) \in Nat /\ G(n) \in Nat
    BY <1>1, <1>2
  <2> HIDE DEF F, G
  <2> QED BY <2>1, <2>2, <2>3, <2>4, <2>5
<1>5. \A n \in Nat : n \in T
  <2> HIDE DEF T
  <2> QED BY <1>3, <1>4, Inductive
<1>6. b \in T
  BY <1>5
<1> HIDE DEF F, G
<1>7. F(a + b) = F(a) + G(b)
  BY <1>6
<1>8. F(a) \in Nat /\ G(b) \in Nat
  BY <1>1, <1>2
<1> QED BY <1>7, <1>8 DEF F, G

\* The sum of part i, of parts of m elements.
BlockSum(f, m, i) == SumFunctionOnSet([j \in 1..m |-> f[At(m, i, j)]], 1..m)

\* Lists of r parts differ by r times as much as their parts do.
LEMMA BlocksDiffer ==
  ASSUME NEW m \in Nat, NEW r \in Nat, NEW d \in Nat, NEW f, NEW g,
         \A i \in 1..r * m : f[i] \in Nat /\ g[i] \in Nat,
         \A i \in 1..r : BlockSum(f, m, i) - BlockSum(g, m, i) <= d
  PROVE  SumFunctionOnSet(f, 1..r * m) - SumFunctionOnSet(g, 1..r * m) <= r * d
<1> DEFINE F(n) == SumFunctionOnSet(f, 1..n)
           G(n) == SumFunctionOnSet(g, 1..n)
           T == {n \in Nat : n <= r => F(n * m) \in Nat /\ G(n * m) \in Nat
                                       /\ F(n * m) - G(n * m) <= n * d}
<1>1. 0 \in T
  <2>1. 1..0 = {} /\ 0 * m = 0 /\ 0 * d = 0
    OBVIOUS
  <2>2. F(0) = 0 /\ G(0) = 0
    BY <2>1, SumEmpty
  <2> HIDE DEF F, G
  <2> QED BY <2>1, <2>2
<1>2. ASSUME NEW n \in Nat, n \in T PROVE n + 1 \in T
  <2> DEFINE a == n * m
             i == n + 1
             b == i * m
  <2> SUFFICES ASSUME n + 1 <= r PROVE F(b) \in Nat /\ G(b) \in Nat /\ F(b) - G(b) <= i * d
    OBVIOUS
  <2>1. F(a) \in Nat /\ G(a) \in Nat /\ F(a) - G(a) <= n * d
    BY <1>2
  <2>2. a \in Nat /\ b = a + m /\ a + m <= r * m
    <3>1. r * m = (n + 1) * m + (r - (n + 1)) * m /\ (r - (n + 1)) * m \in Nat
      <4>1. r - (n + 1) \in Nat
        OBVIOUS
      <4> QED BY <4>1
    <3>2. a \in Nat /\ (n + 1) * m = a + m
      OBVIOUS
    <3> QED BY <3>1, <3>2
  <2>3. \A j \in 1..m : At(m, i, j) = a + j
    BY DEF At
  <2>4. i \in 1..r
    OBVIOUS
  <2>5. i * d = n * d + d /\ n * d \in Nat
    OBVIOUS
  <2>6. r * m \in Nat
    OBVIOUS
  <2> HIDE DEF a, b, i, F, G, T
  <2>7. \A j \in 1..a + m : f[j] \in Nat /\ g[j] \in Nat
    <3> DEFINE z == r * m
    <3> HIDE DEF z
    <3>1. \A j \in 1..a + m : j \in 1..z
      BY <2>2, <2>6 DEF z
    <3> QED BY <3>1 DEF z
  <2>8. BlockSum(f, m, i) \in Nat /\ F(b) = F(a) + BlockSum(f, m, i)
    <3> DEFINE h == [j \in 1..m |-> f[At(m, i, j)]]
    <3>1. \A j \in 1..m : h[j] = f[a + j]
      BY <2>3
    <3> HIDE DEF h
    <3>2. a \in Nat /\ \A j \in 1..a + m : f[j] \in Nat
      BY <2>2, <2>7
    <3>3. SumFunctionOnSet(h, 1..m) \in Nat
      <4>1. \A j \in 1..m : a + j \in 1..a + m
        BY <3>2
      <4>2. \A j \in 1..m : h[j] \in Nat
        BY <3>1, <3>2, <4>1
      <4>3. IsFiniteSet(1..m)
        BY FS_Interval
      <4> QED BY <4>2, <4>3, SumType
    <3>4. SumFunctionOnSet(f, 1..a + m) = SumFunctionOnSet(f, 1..a) + SumFunctionOnSet(h, 1..m)
      BY <3>1, <3>2, SumParts
    <3> QED BY <2>2, <3>3, <3>4 DEF h, BlockSum, F
  <2>9. BlockSum(g, m, i) \in Nat /\ G(b) = G(a) + BlockSum(g, m, i)
    <3> DEFINE h == [j \in 1..m |-> g[At(m, i, j)]]
    <3>1. \A j \in 1..m : h[j] = g[a + j]
      BY <2>3
    <3> HIDE DEF h
    <3>2. a \in Nat /\ \A j \in 1..a + m : g[j] \in Nat
      BY <2>2, <2>7
    <3>3. SumFunctionOnSet(h, 1..m) \in Nat
      <4>1. \A j \in 1..m : a + j \in 1..a + m
        BY <3>2
      <4>2. \A j \in 1..m : h[j] \in Nat
        BY <3>1, <3>2, <4>1
      <4>3. IsFiniteSet(1..m)
        BY FS_Interval
      <4> QED BY <4>2, <4>3, SumType
    <3>4. SumFunctionOnSet(g, 1..a + m) = SumFunctionOnSet(g, 1..a) + SumFunctionOnSet(h, 1..m)
      BY <3>1, <3>2, SumParts
    <3> QED BY <2>2, <3>3, <3>4 DEF h, BlockSum, G
  <2>10. BlockSum(f, m, i) - BlockSum(g, m, i) <= d
    BY <2>4
  <2> QED BY <2>1, <2>5, <2>8, <2>9, <2>10
<1>3. \A n \in Nat : n \in T
  <2> HIDE DEF T
  <2> QED BY <1>1, <1>2, Inductive
<1>4. r \in T
  BY <1>3
<1> HIDE DEF F, G
<1>5. F(r * m) - G(r * m) <= r * d
  BY <1>4
<1> QED BY <1>5 DEF F, G

\* The element in a part of a part.
LEMMA AtAt ==
  ASSUME NEW a \in Nat, NEW m \in Nat, NEW c \in Nat, NEW i \in Nat, NEW j \in Nat
  PROVE  At(a * m, c, At(m, i, j)) = At(m, At(a, c, i), j)
<1> DEFINE e == c - 1
           x == e * a
           h == i - 1
<1>1. e \in Int /\ x \in Int /\ h \in Int
  OBVIOUS
<1>2. e * (a * m) = x * m
  BY <1>1
<1> HIDE DEF e, x, h
<1>3. (x + h) * m = x * m + h * m /\ x * m \in Int /\ h * m \in Int
  BY <1>1
<1>4. At(a, c, i) - 1 = x + h
  BY <1>1 DEF At, e, x, h
<1> QED BY <1>2, <1>3, <1>4 DEF At, e, h

\* The length of all elements of a list.
TotalOf(l, s) == SumFunction([i \in DOMAIN s |-> l[s[i]]])

\* The parts that a level order is cut into, each of r of its partitions, differ by no more
\* than the partitions do, r times.
LEMMA PartsLevel ==
  ASSUME NEW a \in Nat \ {0}, NEW m \in Nat, NEW dp \in Nat \ {0}, NEW S, NEW l,
         \A x \in S : l[x] \in Nat, NEW d \in Nat, NEW order \in Seq(S),
         Len(order) = dp * (a * m), Level(l, dp * a, m, d, order),
         NEW s, NEW t, NEW c \in 1..dp, NEW e \in 1..dp,
         s = Chunk(order, dp)[c], t = Chunk(order, dp)[e]
  PROVE  TotalOf(l, s) - TotalOf(l, t) <= a * d
<1> DEFINE L == a * m
           f == [i \in DOMAIN s |-> l[s[i]]]
           g == [i \in DOMAIN t |-> l[t[i]]]
<1>1. L \in Nat
  OBVIOUS
<1> HIDE DEF L
<1>2. Len(order) = dp * L
  BY DEF L
<1>3. EqualParts(dp, L, S, Chunk(order, dp)) /\ Joins(dp, L, S, Chunk(order, dp), order)
  BY <1>1, <1>2, ChunkParts
<1>4. /\ s \in Seq(S) /\ Len(s) = L /\ \A i \in 1..L : s[i] = order[At(L, c, i)]
      /\ t \in Seq(S) /\ Len(t) = L /\ \A i \in 1..L : t[i] = order[At(L, e, i)]
  BY <1>3 DEF EqualParts, Joins
<1>5. DOMAIN s = 1..L /\ DOMAIN t = 1..L
  BY <1>4
<1>6. \A i \in 1..L : f[i] \in Nat /\ g[i] \in Nat
  <2>1. \A i \in 1..L : s[i] \in S /\ t[i] \in S
    BY <1>4, <1>5
  <2> QED BY <1>5, <2>1
<1>7. ASSUME NEW u, NEW h, NEW p \in 1..dp, h = [i \in 1..L |-> l[u[i]]],
             \A i \in 1..L : u[i] = order[At(L, p, i)], NEW i \in 1..a
      PROVE  BlockSum(h, m, i) = PartSum(l, m, order, At(a, p, i))
  <2>1. \A j \in 1..m : At(m, i, j) \in 1..L
    BY PartPlaces DEF PartsFill, L
  <2>2. \A j \in 1..m : At(L, p, At(m, i, j)) = At(m, At(a, p, i), j)
    BY AtAt, SMTT(30) DEF L
  <2>3. \A j \in 1..m : h[At(m, i, j)] = l[order[At(m, At(a, p, i), j)]]
    <3> SUFFICES ASSUME NEW j \in 1..m
                 PROVE  h[At(m, i, j)] = l[order[At(m, At(a, p, i), j)]]
      OBVIOUS
    <3> DEFINE x == At(m, i, j)
    <3>1. x \in 1..L
      BY <2>1
    <3>2. At(L, p, x) = At(m, At(a, p, i), j)
      BY <2>2
    <3> HIDE DEF x
    <3>3. h[x] = l[u[x]] /\ u[x] = order[At(L, p, x)]
      BY <1>7, <3>1
    <3> QED BY <3>2, <3>3 DEF x
  <2> DEFINE q == [j \in 1..m |-> order[At(m, At(a, p, i), j)]]
  <2>4. [j \in 1..m |-> h[At(m, i, j)]] = [j \in 1..m |-> l[q[j]]]
    BY <2>3
  <2> HIDE DEF q
  <2>5. BlockSum(h, m, i) = Along(l, m, q)
    BY <2>4 DEF BlockSum, Along
  <2> QED BY <2>5 DEF PartSum, q
<1>8. ASSUME NEW i \in 1..a PROVE BlockSum(f, m, i) - BlockSum(g, m, i) <= d
  <2> DEFINE x == At(a, c, i)
             y == At(a, e, i)
  <2>1. x \in 1..dp * a /\ y \in 1..dp * a
    BY PartPlaces DEF PartsFill
  <2>2. BlockSum(f, m, i) = PartSum(l, m, order, x)
    <3>1. f = [j \in 1..L |-> l[s[j]]]
      BY <1>5
    <3> HIDE DEF f
    <3> QED BY <1>4, <1>7, <3>1, ZenonT(40)
  <2>3. BlockSum(g, m, i) = PartSum(l, m, order, y)
    <3>1. g = [j \in 1..L |-> l[t[j]]]
      BY <1>5
    <3> HIDE DEF g
    <3> QED BY <1>4, <1>7, <3>1, ZenonT(40)
  <2> HIDE DEF x, y, f, g
  <2> QED BY <2>1, <2>2, <2>3 DEF Level
<1>9. DOMAIN f = 1..L /\ DOMAIN g = 1..L
  BY <1>5
<1> HIDE DEF f, g
<1>10. SumFunctionOnSet(f, 1..a * m) - SumFunctionOnSet(g, 1..a * m) <= a * d
  BY <1>6, <1>8, BlocksDiffer DEF L
<1> QED BY <1>9, <1>10 DEF TotalOf, SumFunction, f, g, L

\* The parts that a worker is sent hold as many partitions as the layout has workers to a replica.
LEMMA LoadIsLevel ==
  ASSUME FlowInv
  PROVE  LoadBalanced
<1> SUFFICES ASSUME pc = "old_log_probs", \A w \in Workers : wpc[w] = "called",
                    NEW v \in Workers, NEW w \in Workers
             PROVE  SumOver(part[v]) - SumOver(part[w])
                      <= job.tp * job.pp * Widest(tokens, NumWorkers)
  BY DEF LoadBalanced, Widest
<1> DEFINE a == job.tp * job.pp
           n == Len(gen)
           k == NumWorkers
           m == n \div k
           d == Widest(tokens, k)
<1>1. Layout /\ pc \in Calling /\ ~OnRollout /\ pc \in ToSet(Steps) /\ pc # "raised"
  BY LayoutIs, StepsAre DEF FlowInv, JobInv, Calling, OfWorkers, OnRollout
<1>2. /\ kind = "train" /\ n \in Nat \ {0} /\ tokens \in [1..n -> Nat]
      /\ cols.responses \in [1..n -> 1..n] /\ n % k = 0
      /\ Level(tokens, k, m, d, cols.responses)
  BY <1>1, Trains, BatchOf DEF FlowInv, JobInv, LevelInv
<1>3. /\ k \in Nat \ {0} /\ DpSize \in Nat \ {0} /\ a \in Nat \ {0} /\ k = a * DpSize
  <2>1. job.tp \in Nat \ {0} /\ job.pp \in Nat \ {0}
    BY <1>1 DEF Layout
  <2>2. k = a * DpSize /\ k \in Nat \ {0} /\ DpSize \in Nat \ {0}
    BY <1>1 DEF Layout
  <2>3. a \in Nat
    BY <2>1
  <2> HIDE DEF a
  <2>4. a # 0
    <3> SUFFICES ASSUME a = 0 PROVE FALSE
      OBVIOUS
    <3>1. k = 0 * DpSize
      BY <2>2
    <3> QED BY <2>2, <3>1
  <2> QED BY <2>2, <2>3, <2>4
<1>4. m \in Nat /\ n = m * k
  BY <1>2, <1>3, Divided
<1>5. \A u \in Workers : /\ part[u] = Dispatched(cols.responses)[u]
                         /\ DpRank(u) \in 1..DpSize
                         /\ Dispatched(cols.responses)[u] = Chunk(cols.responses, DpSize)[DpRank(u)]
  <2>1. Workers # {} /\ Callees = Workers /\ Parts = DpSize
    BY <1>1, <1>3, PartsOf DEF Workers
  <2>2. Dispatches(1..n, cols.responses) /\ \A u \in Workers : Holds(u)
    BY <1>1, <2>1 DEF FlowInv, CallInv, Sent
  <2>3. \A u \in Workers : part[u] = Dispatched(cols.responses)[u]
    BY <1>1, <2>2 DEF Holds, Sent
  <2>4. \A u \in Workers : PartOf(u) = DpRank(u) /\ PartOf(u) \in 1..DpSize
    BY <1>1, <2>1, PartsOf DEF PartOf
  <2> QED BY <1>1, <2>1, <2>2, <2>3, <2>4, DispatchedParts
<1>6. d \in Nat
  <2>1. m # 0 /\ tokens \in [1..m * k -> Nat]
    <3> HIDE DEF n, m, k
    <3> QED BY <1>2, <1>3, <1>4
  <2> HIDE DEF n, m, k, d
  <2> QED BY <1>2, <1>3, <1>4, <2>1, RowsDivide DEF d
<1> HIDE DEF n, m, k, d, a
<1>7. cols.responses \in Seq(1..n) /\ Len(cols.responses) = n
  BY <1>2, ListIsFunction
<1>8. n = DpSize * (a * m) /\ k = DpSize * a
  <2>1. a * DpSize = DpSize * a /\ DpSize * a \in Nat
    BY <1>3
  <2>2. m * (DpSize * a) = DpSize * (a * m)
    BY <1>3, <1>4
  <2> QED BY <1>3, <1>4, <2>1, <2>2
<1>9. TotalOf(tokens, part[v]) - TotalOf(tokens, part[w]) <= a * d
  <2> DEFINE x == part[v]
             y == part[w]
             b == DpRank(v)
             e == DpRank(w)
             D == DpSize
             S == 1..n
             order == cols.responses
  <2>1. /\ x = Chunk(cols.responses, DpSize)[b] /\ b \in 1..DpSize
        /\ y = Chunk(cols.responses, DpSize)[e] /\ e \in 1..DpSize
    BY <1>5
  <2>2. Level(tokens, DpSize * a, m, d, cols.responses)
    BY <1>2, <1>8
  <2>3. \A z \in 1..n : tokens[z] \in Nat
    BY <1>2
  <2> HIDE DEF x, y, b, e
  <2>5. /\ a \in Nat \ {0} /\ m \in Nat /\ D \in Nat \ {0} /\ d \in Nat /\ order \in Seq(S)
        /\ Len(order) = D * (a * m) /\ Level(tokens, D * a, m, d, order)
        /\ \A z \in S : tokens[z] \in Nat
        /\ b \in 1..D /\ e \in 1..D /\ x = Chunk(order, D)[b] /\ y = Chunk(order, D)[e]
    BY <1>3, <1>4, <1>6, <1>7, <1>8, <2>1, <2>2, <2>3
  <2> HIDE DEF D, S, order
  <2>4. TotalOf(tokens, x) - TotalOf(tokens, y) <= a * d
    BY <2>5, PartsLevel
  <2> QED BY <2>4 DEF x, y
<1> QED BY <1>9 DEF SumOver, TotalOf, a, d, k

\* When the log-probabilities are computed, the token counts that _balance_batch left any two
\* workers differ by no more, per partition, than two rows of one length class.
THEOREM LoadBalancedAlways == Spec => []LoadBalanced
<1>1. FlowInv => LoadBalanced
  BY LoadIsLevel
<1> QED BY <1>1, FlowInvariance, PTL

-----------------------------------------------------------------------------
(***************************************************************************)
(* What the workers are trained with                                       *)
(***************************************************************************)

\* No element is there twice.
Distinct(rows) == \A i, j \in 1..Len(rows) : rows[i] = rows[j] => i = j

\* The elements of a mini-batch are those of the list at its places.
LEMMA SplitElements ==
  ASSUME NEW S, NEW rows \in Seq(S), NEW size \in Nat \ {0}, NEW k \in 1..Len(Split(rows, size))
  PROVE  /\ Split(rows, size)[k] \in Seq(S)
         /\ \A j \in DOMAIN Split(rows, size)[k] :
              /\ j \in 1..size /\ At(size, k, j) \in 1..Len(rows)
              /\ Split(rows, size)[k][j] = rows[At(size, k, j)]
<1> DEFINE n == Len(rows)
           count == (n + size - 1) \div size
           a == (k - 1) * size
           e == IF k * size < n THEN k * size ELSE n
           piece == SubSeq(rows, a + 1, e)
<1>1. n \in Nat /\ \A i \in 1..n : rows[i] \in S
  OBVIOUS
<1>2. Split(rows, size) = [c \in 1..count |-> SubSeq(rows, (c - 1) * size + 1,
                                                    IF c * size < n THEN c * size ELSE n)]
  BY DEF Split
<1>3. count \in Nat
  BY <1>1
<1> HIDE DEF n, count
<1>4. k \in 1..count /\ Split(rows, size)[k] = piece
  <2>1. Len(Split(rows, size)) = count
    BY <1>2, <1>3
  <2>2. k \in 1..count
    BY <2>1
  <2> QED BY <1>2, <2>2
<1>5. a \in Nat /\ k * size = a + size /\ k * size \in Nat
  <2>1. k - 1 \in Nat /\ k * size = (k - 1) * size + size
    BY <1>3, <1>4
  <2> QED BY <1>3, <1>4, <2>1
<1>6. e \in Nat /\ e <= n /\ e <= a + size
  BY <1>1, <1>5
<1> HIDE DEF a, e
<1>7. \A p \in a + 1 .. e : rows[p] \in S
  <2>1. \A p \in a + 1 .. e : p \in 1..n
    BY <1>1, <1>5, <1>6
  <2> QED BY <1>1, <2>1
<1>8. a + 1 \in Int /\ e \in Int
  BY <1>5, <1>6
<1>9. /\ piece \in Seq(S)
      /\ Len(piece) = IF a + 1 <= e THEN e - (a + 1) + 1 ELSE 0
      /\ \A j \in 1..e - (a + 1) + 1 : piece[j] = rows[(a + 1) + j - 1]
  BY <1>7, <1>8, SubSeqProperties, SMTT(30)
<1> HIDE DEF piece
<1>10. ASSUME NEW j \in DOMAIN piece
       PROVE  j \in 1..size /\ At(size, k, j) \in 1..n /\ piece[j] = rows[At(size, k, j)]
  <2>1. j \in 1..e - (a + 1) + 1 /\ (a + 1) + j - 1 = a + j
    BY <1>5, <1>6, <1>9
  <2>2. At(size, k, j) = a + j
    BY DEF At, a
  <2>3. j \in 1..size /\ a + j \in 1..n
    BY <1>1, <1>5, <1>6, <2>1
  <2> QED BY <1>9, <2>1, <2>2, <2>3
<1> QED BY <1>4, <1>9, <1>10 DEF n

\* Each element is in the one mini-batch that its place gives.
LEMMA InOneSplit ==
  ASSUME NEW S, NEW rows \in Seq(S), NEW size \in Nat \ {0}, Distinct(rows), NEW i \in 1..Len(rows),
         NEW k \in 1..Len(Split(rows, size))
  PROVE  /\ (i - 1) \div size + 1 \in 1..Len(Split(rows, size))
         /\ rows[i] \in ToSet(Split(rows, size)[k]) <=> k = (i - 1) \div size + 1
<1> DEFINE parts == Split(rows, size)
           x == (i - 1) \div size + 1
           r == ((i - 1) % size) + 1
<1>1. x \in 1..Len(parts) /\ r \in 1..Len(parts[x]) /\ parts[x][r] = rows[i]
  BY SplitRows
<1>2. k = x => rows[i] \in ToSet(parts[k])
  <2> HIDE DEF parts, x, r
  <2>1. parts[x] \in Seq(S)
    BY <1>1, SplitElements DEF parts
  <2>2. r \in DOMAIN parts[x]
    BY <1>1, <2>1
  <2> QED BY <1>1, <2>2 DEF ToSet
<1>3. ASSUME rows[i] \in ToSet(parts[k]) PROVE k = x
  <2>1. PICK j \in DOMAIN parts[k] : parts[k][j] = rows[i]
    BY <1>3 DEF ToSet
  <2>2. j \in 1..size /\ At(size, k, j) \in 1..Len(rows) /\ parts[k][j] = rows[At(size, k, j)]
    BY SplitElements
  <2>3. At(size, k, j) = i
    BY <2>1, <2>2 DEF Distinct
  <2>4. k \in Nat \ {0}
    BY <1>1
  <2>5. (At(size, k, j) - 1) \div size = k - 1
    BY <2>2, <2>4, AtBack
  <2> QED BY <2>3, <2>4, <2>5
<1> QED BY <1>1, <1>2, <1>3

\* The mini-batches of all epochs, and those an element is in.
Passes(epochs, size, rows) == Concat([e \in 1..epochs |-> Split(rows, size)])
Taking(list, row)          == {b \in DOMAIN list : row \in ToSet(list[b])}

EachEpoch(epochs, size, rows, row) ==
  LET list == Passes(epochs, size, rows)
  IN  /\ Len(list) = epochs * Len(Split(rows, size))
      /\ (\A i \in 1..Len(rows) : rows[i] # row) => Taking(list, row) = {}
      /\ (\E i \in 1..Len(rows) : rows[i] = row) => Cardinality(Taking(list, row)) = epochs

\* An element is in one mini-batch of each epoch.
LEMMA InEachEpoch ==
  ASSUME NEW S, NEW rows \in Seq(S), NEW size \in Nat \ {0}, NEW epochs \in Nat \ {0}, Distinct(rows), NEW row
  PROVE  EachEpoch(epochs, size, rows, row)
<1> DEFINE list == Passes(epochs, size, rows)
           T == Taking(list, row)
           parts == Split(rows, size)
           s == Len(parts)
           all == [e \in 1..epochs |-> parts]
<1>1. parts \in Seq(Seq(S)) /\ s \in Nat
  <2>1. s \in Nat /\ DOMAIN parts = 1..s
    <3> DEFINE count == (Len(rows) + size - 1) \div size
    <3>1. count \in Nat
      OBVIOUS
    <3> HIDE DEF count
    <3>2. \E f : parts = [c \in 1..count |-> f[c]]
      <4> DEFINE f == [c \in 1..count |->
             SubSeq(rows, (c - 1) * size + 1, IF c * size < Len(rows) THEN c * size ELSE Len(rows))]
      <4>1. parts = f
        BY DEF Split, count
      <4>2. f = [c \in 1..count |-> f[c]]
        OBVIOUS
      <4> QED BY <4>1, <4>2
    <3> QED BY <3>1, <3>2
  <2>2. \A k \in 1..s : parts[k] \in Seq(S)
    BY SplitElements
  <2>3. parts = [k \in 1..s |-> parts[k]]
    <3>1. parts = [k \in DOMAIN parts |-> parts[k]]
      BY DEF Split
    <3> QED BY <2>1, <3>1
  <2> HIDE DEF parts, s
  <2>4. parts \in [1..s -> Seq(S)]
    BY <2>2, <2>3
  <2> QED BY <2>1, <2>4, ListIsFunction
<1> HIDE DEF parts
<1>2. EqualParts(epochs, s, Seq(S), all)
  BY <1>1 DEF EqualParts
<1>3. Joins(epochs, s, Seq(S), all, list)
  <2>1. epochs \in Nat /\ list = FlattenSeq(all)
    BY DEF Concat, parts, Passes
  <2> HIDE DEF all, s
  <2> QED BY <1>1, <1>2, <2>1, FlattenPlaces
<1>4. /\ list \in Seq(Seq(S)) /\ Len(list) = epochs * s
      /\ \A e \in 1..epochs, k \in 1..s : list[At(s, e, k)] = parts[k]
  BY <1>3 DEF Joins
<1> HIDE DEF s, all
<1>5. PartsFill(epochs, s, epochs * s)
  <2>1. epochs \in Nat
    OBVIOUS
  <2> QED BY <1>1, <2>1, PartPlaces
<1>6. /\ \A b \in DOMAIN list : \E e \in 1..epochs, k \in 1..s : b = At(s, e, k)
      /\ \A e \in 1..epochs, k \in 1..s : At(s, e, k) \in DOMAIN list
  <2>1. DOMAIN list = 1..epochs * s
    BY <1>1, <1>4
  <2> QED BY <1>5, <2>1, Zenon DEF PartsFill
<1>7. ASSUME \A i \in 1..Len(rows) : rows[i] # row PROVE T = {}
  <2> SUFFICES ASSUME NEW b \in T PROVE FALSE
    OBVIOUS
  <2>1. b \in DOMAIN list /\ row \in ToSet(list[b])
    BY DEF T, Taking
  <2>2. PICK e \in 1..epochs, k \in 1..s : b = At(s, e, k)
    BY <1>6, <2>1
  <2>3. row \in ToSet(parts[k])
    BY <1>4, <2>1, <2>2
  <2>4. PICK j \in DOMAIN parts[k] : parts[k][j] = row
    BY <2>3 DEF ToSet
  <2>5. At(size, k, j) \in 1..Len(rows) /\ parts[k][j] = rows[At(size, k, j)]
    BY <2>2, SplitElements DEF parts, s
  <2> QED BY <1>7, <2>4, <2>5
<1>8. ASSUME NEW i \in 1..Len(rows), rows[i] = row PROVE Cardinality(T) = epochs
  <2> DEFINE c == (i - 1) \div size + 1
             f == [e \in 1..epochs |-> At(s, e, c)]
  <2>1. s # 0
    <3>1. c \in 1..Len(Split(rows, size))
      BY SplitRows
    <3> QED BY <1>1, <3>1 DEF s, parts
  <2>2. c \in 1..s /\ \A k \in 1..s : row \in ToSet(parts[k]) <=> k = c
    <3>1. c \in 1..s
      BY <1>1, <2>1, SplitRows DEF s, parts
    <3>2. ASSUME NEW k \in 1..s PROVE row \in ToSet(parts[k]) <=> k = c
      BY <1>8, InOneSplit DEF s, parts
    <3> QED BY <3>1, <3>2
  <2> HIDE DEF c
  <2>3. f \in [1..epochs -> T]
    <3> SUFFICES ASSUME NEW e \in 1..epochs PROVE At(s, e, c) \in T
      OBVIOUS
    <3>1. At(s, e, c) \in DOMAIN list /\ list[At(s, e, c)] = parts[c]
      BY <1>4, <1>6, <2>2
    <3>2. row \in ToSet(parts[c])
      BY <2>2
    <3> QED BY <3>1, <3>2 DEF T, Taking
  <2>4. ASSUME NEW b \in T PROVE \E e \in 1..epochs : f[e] = b
    <3>1. b \in DOMAIN list /\ row \in ToSet(list[b])
      BY DEF T, Taking
    <3>2. PICK e \in 1..epochs, k \in 1..s : b = At(s, e, k)
      BY <1>6, <3>1
    <3>3. k = c
      BY <1>4, <2>2, <3>1, <3>2
    <3> QED BY <3>2, <3>3
  <2>5. ASSUME NEW q \in 1..epochs, NEW r \in 1..epochs, q < r PROVE f[q] < f[r]
    <3>1. (r - 1) * s = (q - 1) * s + (r - q) * s /\ (q - 1) * s \in Int /\ (r - q) * s \in Int
      BY <1>1
    <3>2. (r - q) * s > 0
      <4>1. (r - q) * s = s + (r - q - 1) * s /\ r - q - 1 \in Nat
        BY <1>1, <2>5
      <4>2. (r - q - 1) * s \in Nat
        BY <1>1, <4>1
      <4> QED BY <1>1, <2>1, <4>1, <4>2
    <3>3. c \in Int
      BY <2>2
    <3>4. (q - 1) * s + c < (r - 1) * s + c
      BY <3>1, <3>2, <3>3
    <3> QED BY <3>4 DEF At
  <2> HIDE DEF f
  <2>6. T \in SUBSET Nat
    BY <1>4 DEF T, Taking
  <2>7. Enumerates(epochs, T, f)
    BY <2>3, <2>4, <2>5 DEF Enumerates
  <2> QED BY <2>6, <2>7, AscendingIs
<1> QED BY <1>4, <1>7, <1>8 DEF s, parts, list, T, EachEpoch

\* The part that member i of worker v's group is sent.
MemberRank(v, i) == DpRank(InGroup(job.sp, v)[i])

\* A group that gathers, outside of the rollout, has a part of each of its members, and none
\* twice; the workers of a replica have the same ones, and the others do not have them.
LEMMA ReplicaIs ==
  ASSUME Layout, ~OnRollout, job.sp > 1 => job.tp = 1 /\ job.pp = 1, NEW v \in Workers
  PROVE  /\ \A i \in 1..job.sp : MemberRank(v, i) \in 1..DpSize
         /\ \A i, j \in 1..job.sp : MemberRank(v, i) = MemberRank(v, j) => i = j
         /\ \A w \in Workers : v \in Replica(w) <=> \E i \in 1..job.sp : MemberRank(v, i) = DpRank(w)
         /\ \A w \in Workers : v \in Replica(w) =>
              \A i \in 1..job.sp : MemberRank(v, i) = MemberRank(w, i)
<1> DEFINE n == NumWorkers
           g == job.sp
           T == GroupOf(n, g, v)
           f == InGroup(g, v)
<1>1. /\ n \in Nat \ {0} /\ g \in Nat \ {0} /\ n % g = 0 /\ Workers = 1..n
      /\ Callees = Workers /\ GroupSize = g
  BY PartsOf DEF Workers, Layout, GroupSize, Looping
<1>2. \A u \in Workers : DpRank(u) \in 1..DpSize
  BY <1>1, PartsOf DEF PartOf
<1>3. /\ Enumerates(g, T, f) /\ f \in [1..g -> T] /\ T \subseteq Workers /\ T \in SUBSET Nat
      /\ \A u \in T : InGroup(g, u) = f
  <2>1. v \in 1..n /\ g \in Nat \ {0} /\ n % g = 0 /\ n \in Nat
    BY <1>1
  <2> HIDE DEF g, n
  <2>2. Enumerates(g, T, f) /\ \A u \in T : InGroup(g, u) = f
    BY <1>1, <2>1, GroupIs
  <2>3. T \subseteq Workers /\ T \in SUBSET Nat
    BY <1>1 DEF GroupOf
  <2> QED BY <2>2, <2>3 DEF Enumerates
<1>4. \A u \in Workers : InGroup(g, u) \in [1..g -> Workers]
  <2> SUFFICES ASSUME NEW u \in Workers PROVE InGroup(g, u) \in [1..g -> Workers]
    OBVIOUS
  <2>1. u \in 1..n /\ g \in Nat \ {0} /\ n % g = 0 /\ n \in Nat
    BY <1>1
  <2> HIDE DEF g, n
  <2>2. Enumerates(g, GroupOf(n, g, u), InGroup(g, u))
    BY <1>1, <2>1, GroupIs
  <2> QED BY <1>1, <2>2 DEF Enumerates, GroupOf
<1>5. CASE g = 1
  <2>1. ASSUME NEW u \in Workers PROVE MemberRank(u, 1) = DpRank(u)
    <3>1. (u - 1) \div 1 = u - 1 /\ (u - 1) * 1 = u - 1 /\ u \in Nat
      BY <1>1
    <3>2. InGroup(1, u)[1] = u
      BY <3>1 DEF InGroup, At
    <3> QED BY <1>5, <3>2 DEF MemberRank
  <2>2. 1..g = {1}
    BY <1>5
  <2>3. \A w \in Workers : v \in Replica(w) <=> DpRank(v) = DpRank(w)
    BY <1>5 DEF Replica
  <2> HIDE DEF g
  <2> QED BY <1>2, <2>1, <2>2, <2>3 DEF g
<1>6. CASE g > 1
  <2>1. job.tp = 1 /\ job.pp = 1 /\ DpSize = n
    <3>1. job.tp = 1 /\ job.pp = 1
      BY <1>6
    <3> QED BY <1>1, <3>1 DEF DpSize
  <2>2. ASSUME NEW u \in Workers PROVE DpRank(u) = u
    <3>1. u - 1 \in 0..n - 1 /\ (u - 1) \div 1 = u - 1
      BY <1>1
    <3>2. (u - 1) % n = u - 1
      BY <1>1, <3>1
    <3> QED BY <1>1, <2>1, <3>1, <3>2 DEF DpRank
  <2>3. \A u \in Workers : \A i \in 1..g : MemberRank(u, i) = InGroup(g, u)[i]
    BY <1>4, <2>2 DEF MemberRank
  <2>4. \A w \in Workers : /\ v \in Replica(w) <=> w \in T
                           /\ w \in T => InGroup(g, w) = f
    <3> SUFFICES ASSUME NEW w \in Workers PROVE v \in Replica(w) <=> w \in T
      BY <1>3
    <3>1. v \in Replica(w) <=> (v - 1) \div g = (w - 1) \div g
      BY <1>6 DEF Replica
    <3>2. w \in T <=> (w - 1) \div g = (v - 1) \div g
      BY <1>1 DEF GroupOf
    <3> QED BY <3>1, <3>2
  <2>5. \A i \in 1..g : MemberRank(v, i) = f[i] /\ f[i] \in T /\ f[i] \in Nat
    BY <1>3, <2>3
  <2>6. \A i \in 1..g : MemberRank(v, i) \in 1..DpSize
    BY <1>1, <1>3, <2>1, <2>5
  <2>7. \A i, j \in 1..g : MemberRank(v, i) = MemberRank(v, j) => i = j
    <3> SUFFICES ASSUME NEW i \in 1..g, NEW j \in 1..g, f[i] = f[j] PROVE i = j
      BY <2>5
    <3>1. (i < j => f[i] < f[j]) /\ (j < i => f[j] < f[i])
      BY <1>3 DEF Enumerates
    <3> HIDE DEF f, g
    <3>2. i \in Int /\ j \in Int /\ f[i] \in Nat /\ f[j] \in Nat
      BY <2>5
    <3> QED BY <3>1, <3>2
  <2>8. \A w \in Workers : v \in Replica(w) <=> \E i \in 1..g : MemberRank(v, i) = DpRank(w)
    <3> SUFFICES ASSUME NEW w \in Workers PROVE w \in T <=> \E i \in 1..g : f[i] = w
      BY <2>2, <2>4, <2>5
    <3> QED BY <1>3 DEF Enumerates
  <2>9. \A w \in Workers : v \in Replica(w) => \A i \in 1..g : MemberRank(v, i) = MemberRank(w, i)
    BY <2>3, <2>4
  <2> QED BY <2>6, <2>7, <2>8, <2>9
<1>7. g = 1 \/ g > 1
  BY <1>1
<1> QED BY <1>5, <1>6, <1>7

\* What an update is made with: the rows of a batch in which each is there once.
Updating(n, rows) ==
  /\ Layout /\ ~OnRollout /\ (job.sp > 1 => job.tp = 1 /\ job.pp = 1)
  /\ n \in Nat \ {0} /\ Numbers(n, rows) /\ Dispatches(1..n, rows)

\* A group holds no response twice, and holds the one of a replica if it is of that replica.
LEMMA GroupHolds ==
  ASSUME NEW n, NEW rows, Updating(n, rows), NEW v \in Workers
  PROVE  /\ Gathered(rows, v) \in Seq(1..n) /\ Distinct(Gathered(rows, v))
         /\ Len(Gathered(rows, v)) = job.sp * (n \div DpSize)
         /\ \A c \in 1..DpSize, j \in 1..n \div DpSize :
              (\E q \in 1..Len(Gathered(rows, v)) : Gathered(rows, v)[q] = rows[At(n \div DpSize, c, j)])
                <=> \E i \in 1..job.sp : MemberRank(v, i) = c
<1> DEFINE g == job.sp
           m == DpSize
           d == n \div m
           S == 1..n
           c == Chunk(rows, m)
           s == [i \in 1..g |-> Dispatched(rows)[InGroup(g, v)[i]]]
           list == Gathered(rows, v)
<1>1. /\ g \in Nat \ {0} /\ m \in Nat \ {0} /\ n \in Nat \ {0}
      /\ GroupSize = g /\ Parts = m /\ Callees = Workers
      /\ rows \in Seq(S) /\ Len(rows) = n /\ n % m = 0
      /\ Numbers(n, rows) /\ Dispatches(S, rows)
  <2>1. Len(rows) = n
    BY DEF Updating, Numbers, Dispatches
  <2>2. GroupSize = g /\ Parts = m /\ Callees = Workers
    BY PartsOf DEF Updating, GroupSize, Looping
  <2> QED BY <2>1, <2>2 DEF Updating, Dispatches, Layout
<1>2. /\ EqualParts(m, d, S, c) /\ d \in Nat
      /\ \A u \in Workers : /\ Dispatched(rows)[u] = c[PartOf(u)]
                            /\ Dispatched(rows)[u] \in Seq(S) /\ Len(Dispatched(rows)[u]) = d
  <2>1. Layout
    BY DEF Updating
  <2> HIDE DEF S
  <2>2. /\ EqualParts(Parts, Len(rows) \div Parts, S, Chunk(rows, Parts))
        /\ Len(rows) \div Parts \in Nat
        /\ \A w \in Callees : /\ Dispatched(rows)[w] = Chunk(rows, Parts)[PartOf(w)]
                              /\ Dispatched(rows)[w] \in Seq(S)
                              /\ Len(Dispatched(rows)[w]) = Len(rows) \div Parts
    BY <1>1, <2>1, DispatchedParts
  <2> QED BY <1>1, <2>2
<1>3. \A i \in 1..g : InGroup(g, v)[i] \in Workers
  <2>1. Layout
    BY DEF Updating
  <2>2. /\ Members(v) \subseteq Callees
        /\ InGroup(GroupSize, v) \in [1..GroupSize -> Members(v)]
    BY <1>1, <2>1, GroupOfCallee
  <2> QED BY <1>1, <2>2
<1>4. /\ \A i \in 1..g : MemberRank(v, i) \in 1..m
      /\ \A i, j \in 1..g : MemberRank(v, i) = MemberRank(v, j) => i = j
  BY ReplicaIs DEF Updating
<1>5. \A i \in 1..g : s[i] = c[MemberRank(v, i)]
  BY <1>2, <1>3 DEF MemberRank, PartOf, Updating
<1>6. list = Concat(s)
  BY <1>1 DEF Gathered
<1>7. n = m * d
  <2>1. n = d * m
    BY <1>1, Divided
  <2> QED BY <1>1, <1>2, <2>1
<1> HIDE DEF g, m, d, S, c, s, list
<1>8. Joins(m, d, S, c, rows)
  BY <1>1, <1>2, <1>7, ChunkParts DEF c
<1>9. EqualParts(g, d, S, s)
  <2>1. s = [i \in 1..g |-> s[i]]
    BY DEF s
  <2>2. \A i \in 1..g : s[i] \in Seq(S) /\ Len(s[i]) = d
    BY <1>2, <1>4, <1>5 DEF EqualParts
  <2>3. s \in [1..g -> Seq(S)]
    BY <2>1, <2>2
  <2> QED BY <2>2, <2>3 DEF EqualParts
<1>10. Joins(g, d, S, s, list)
  BY <1>1, <1>2, <1>6, <1>9, ChunkOfConcat
<1>11. /\ list \in Seq(S) /\ Len(list) = g * d
       /\ \A i \in 1..g, j \in 1..d : list[At(d, i, j)] = rows[At(d, MemberRank(v, i), j)]
  <2>1. \A i \in 1..g, j \in 1..d : list[At(d, i, j)] = c[MemberRank(v, i)][j]
    BY <1>5, <1>10 DEF Joins
  <2>2. \A b \in 1..m, j \in 1..d : rows[At(d, b, j)] = c[b][j]
    BY <1>8 DEF Joins
  <2> QED BY <1>4, <1>10, <2>1, <2>2 DEF Joins
<1>12. /\ \A q \in 1..Len(list) : \E i \in 1..g, j \in 1..d : q = At(d, i, j)
       /\ \A i \in 1..g, j \in 1..d : At(d, i, j) \in 1..Len(list)
  <2>1. PartsFill(g, d, g * d)
    BY <1>1, <1>2, PartPlaces
  <2> QED BY <1>11, <2>1 DEF PartsFill
<1>13. /\ \A i, j \in 1..n : rows[i] = rows[j] => i = j
       /\ \A b \in 1..m, j \in 1..d : At(d, b, j) \in 1..n
  <2>1. PartsFill(m, d, m * d)
    BY <1>1, <1>2, PartPlaces
  <2>2. \A b \in 1..m, j \in 1..d : At(d, b, j) \in 1..n
    BY <1>7, <2>1 DEF PartsFill
  <2> QED BY <1>1, <2>2 DEF Numbers
<1>14. ASSUME NEW b \in 1..m, NEW a \in 1..m, NEW j \in 1..d, NEW l \in 1..d,
              rows[At(d, b, j)] = rows[At(d, a, l)]
       PROVE  b = a /\ j = l
  <2>1. At(d, b, j) = At(d, a, l)
    BY <1>13, <1>14
  <2>2. d \in Nat \ {0} /\ b \in Nat \ {0} /\ a \in Nat \ {0}
    BY <1>1, <1>2
  <2> QED BY <2>1, <2>2, AtOnce
<1>15. Distinct(list)
  <2> SUFFICES ASSUME NEW p \in 1..Len(list), NEW q \in 1..Len(list), list[p] = list[q]
               PROVE  p = q
    BY DEF Distinct
  <2>1. PICK i \in 1..g, j \in 1..d : p = At(d, i, j)
    BY <1>12
  <2>2. PICK k \in 1..g, l \in 1..d : q = At(d, k, l)
    BY <1>12
  <2>3. rows[At(d, MemberRank(v, i), j)] = rows[At(d, MemberRank(v, k), l)]
    BY <1>11, <2>1, <2>2
  <2>4. MemberRank(v, i) = MemberRank(v, k) /\ j = l
    BY <1>4, <1>14, <2>3
  <2> QED BY <1>4, <2>1, <2>2, <2>4
<1>16. ASSUME NEW b \in 1..m, NEW j \in 1..d
       PROVE  (\E q \in 1..Len(list) : list[q] = rows[At(d, b, j)])
                <=> \E i \in 1..g : MemberRank(v, i) = b
  <2>1. ASSUME NEW q \in 1..Len(list), list[q] = rows[At(d, b, j)]
        PROVE  \E i \in 1..g : MemberRank(v, i) = b
    <3>1. PICK i \in 1..g, l \in 1..d : q = At(d, i, l)
      BY <1>12
    <3>2. rows[At(d, MemberRank(v, i), l)] = rows[At(d, b, j)]
      BY <1>11, <2>1, <3>1
    <3> QED BY <1>4, <1>14, <3>2
  <2>2. ASSUME NEW i \in 1..g, MemberRank(v, i) = b
        PROVE  \E q \in 1..Len(list) : list[q] = rows[At(d, b, j)]
    BY <1>11, <1>12, <2>2
  <2> QED BY <2>1, <2>2
<1> QED BY <1>11, <1>15, <1>16 DEF list, g, d, m, S

\* Each response belongs to one replica, whose workers hold the same.
LEMMA ReplicaHolds ==
  ASSUME NEW n, NEW rows, Updating(n, rows)
  PROVE  /\ \A v, w \in Workers : v \in Replica(w) => Gathered(rows, v) = Gathered(rows, w)
         /\ \A row \in 1..n : \E w \in Workers : \A v \in Workers :
              v \in Replica(w) <=> \E q \in 1..Len(Gathered(rows, v)) : Gathered(rows, v)[q] = row
<1> DEFINE g == job.sp
           m == DpSize
           d == n \div m
<1>1. /\ m \in Nat \ {0} /\ n \in Nat \ {0} /\ GroupSize = g /\ Callees = Workers
      /\ n % m = 0 /\ Numbers(n, rows) /\ Layout /\ ~OnRollout
      /\ \A u \in Workers : PartOf(u) = DpRank(u)
      /\ \A u \in Workers : Dispatched(rows)[u] = Chunk(rows, Parts)[PartOf(u)]
  <2>1. Len(rows) = n
    BY DEF Updating, Numbers, Dispatches
  <2>2. GroupSize = g /\ Parts = m /\ Callees = Workers /\ m \in Nat \ {0}
    BY PartsOf DEF Updating, GroupSize, Looping, Layout
  <2>3. \A u \in Callees : Dispatched(rows)[u] = Chunk(rows, Parts)[PartOf(u)]
    BY DispatchedParts DEF Updating
  <2> QED BY <2>1, <2>2, <2>3 DEF Updating, Dispatches, PartOf
<1>2. ASSUME NEW v \in Workers, NEW w \in Workers, v \in Replica(w)
      PROVE  Gathered(rows, v) = Gathered(rows, w)
  <2>1. \A i \in 1..g : MemberRank(v, i) = MemberRank(w, i)
    BY <1>2, ReplicaIs DEF Updating
  <2>2. \A u \in Workers : \A i \in 1..g : InGroup(g, u)[i] \in Workers
    <3> SUFFICES ASSUME NEW u \in Workers PROVE \A i \in 1..g : InGroup(g, u)[i] \in Workers
      OBVIOUS
    <3>1. /\ Members(u) \subseteq Callees
          /\ InGroup(GroupSize, u) \in [1..GroupSize -> Members(u)]
      BY <1>1, GroupOfCallee
    <3> QED BY <1>1, <3>1
  <2>3. \A u \in Workers : \A i \in 1..g :
          Dispatched(rows)[InGroup(g, u)[i]] = Chunk(rows, Parts)[MemberRank(u, i)]
    BY <1>1, <2>2 DEF MemberRank
  <2>4. \A u \in Workers :
          Gathered(rows, u) = Concat([i \in 1..g |-> Chunk(rows, Parts)[MemberRank(u, i)]])
    <3> SUFFICES ASSUME NEW u \in Workers
                 PROVE  Gathered(rows, u) = Concat([i \in 1..g |-> Chunk(rows, Parts)[MemberRank(u, i)]])
      OBVIOUS
    <3>1. Gathered(rows, u) = Concat([i \in 1..g |-> Dispatched(rows)[InGroup(g, u)[i]]])
      BY <1>1 DEF Gathered
    <3>2. [i \in 1..g |-> Dispatched(rows)[InGroup(g, u)[i]]]
            = [i \in 1..g |-> Chunk(rows, Parts)[MemberRank(u, i)]]
      BY <2>3
    <3> QED BY <3>1, <3>2
  <2>5. [i \in 1..g |-> Chunk(rows, Parts)[MemberRank(v, i)]]
          = [i \in 1..g |-> Chunk(rows, Parts)[MemberRank(w, i)]]
    BY <2>1
  <2> HIDE DEF g
  <2> QED BY <2>4, <2>5
<1>3. ASSUME NEW row \in 1..n
      PROVE  \E w \in Workers : \A v \in Workers :
               v \in Replica(w) <=> \E q \in 1..Len(Gathered(rows, v)) : Gathered(rows, v)[q] = row
  <2>1. PICK p \in 1..n : rows[p] = row
    BY <1>1 DEF Numbers
  <2>2. d \in Nat /\ n = m * d
    <3>1. d \in Nat /\ n = d * m
      BY <1>1, Divided
    <3> HIDE DEF d, m
    <3> QED BY <1>1, <3>1
  <2> HIDE DEF d, m
  <2>3. PICK c \in 1..m, j \in 1..d : p = At(d, c, j)
    <3>1. PartsFill(m, d, m * d)
      BY <1>1, <2>2, PartPlaces
    <3> QED BY <2>2, <3>1 DEF PartsFill
  <2>4. PICK w \in Workers : DpRank(w) = c
    <3> DEFINE f == Replies(job.tp, job.pp, DpSize)
               T == LastStage(NumWorkers, job.tp, job.pp, DpSize)
    <3>1. Enumerates(DpSize, T, f) /\ \A i \in 1..DpSize : ReplicaOf(job.tp, DpSize, f[i]) = i
      BY <1>1, LastStageIs DEF Layout
    <3>2. T \subseteq Workers
      BY DEF LastStage, Workers
    <3> HIDE DEF f, T
    <3>3. f[c] \in Workers /\ ReplicaOf(job.tp, DpSize, f[c]) = c
      BY <3>1, <3>2 DEF Enumerates, m
    <3> QED BY <3>3 DEF DpRank, ReplicaOf
  <2>5. ASSUME NEW v \in Workers
        PROVE  v \in Replica(w) <=> \E q \in 1..Len(Gathered(rows, v)) : Gathered(rows, v)[q] = row
    <3>1. v \in Replica(w) <=> \E i \in 1..g : MemberRank(v, i) = DpRank(w)
      BY ReplicaIs DEF Updating
    <3>2. (\E q \in 1..Len(Gathered(rows, v)) : Gathered(rows, v)[q] = rows[At(d, c, j)])
            <=> \E i \in 1..job.sp : MemberRank(v, i) = c
      BY GroupHolds DEF d, m
    <3> QED BY <2>1, <2>3, <2>4, <3>1, <3>2
  <2> QED BY <2>5
<1> QED BY <1>2, <1>3

\* The workers have been trained with what they hold at the end of a step.
LEMMA AllTrained ==
  ASSUME FlowInv
  PROVE  EachResponseTrained
<1> SUFFICES ASSUME pc = "done", kind = "train", NEW m \in Updates, Uses(m)
             PROVE  /\ \A v, w \in Workers : Len(trained[m][v]) = Len(trained[m][w])
                    /\ \A row \in DOMAIN tokens : \E w \in Workers :
                         /\ {v \in Workers : Takes(m, v, row) # {}} = Replica(w)
                         /\ \A v \in Replica(w) : /\ Cardinality(Takes(m, v, row)) = job.epochs
                                                  /\ trained[m][v] = trained[m][w]
  <2>1. DOMAIN trained = Updates
    BY DEF FlowInv, TrainedInv
  <2> QED BY <2>1 DEF EachResponseTrained
<1> DEFINE rows == cols.responses
           n == Len(gen)
           S == 1..n
           g(v) == Gathered(rows, v)
           size == MiniSize
           epochs == job.epochs
<1>1. /\ Layout /\ job.epochs \in Nat \ {0} /\ (job.sp > 1 => job.tp = 1 /\ job.pp = 1)
      /\ n \in Nat \ {0} /\ DOMAIN tokens = S
  <2>1. job \in Jobs /\ Accepted(job) /\ n \in Nat \ {0} /\ DOMAIN tokens = S
    BY DEF FlowInv, JobInv
  <2> QED BY <2>1, LayoutIs, FlowAssumption
<1>2. Dispatches(S, rows) /\ \A w \in Workers : TrainedWith(m, w)
  BY DEF FlowInv, TrainedInv, Behind, Updates
<1>3. Updating(n, rows)
  <2>1. Numbers(n, rows)
    BY StepsAre DEF FlowInv, StageInv, Filled
  <2>2. ~OnRollout
    BY DEF OnRollout
  <2> QED BY <1>1, <1>2, <2>1, <2>2 DEF Updating
<1>4. \A v \in Workers : trained[m][v] = Passes(epochs, size, g(v))
  BY <1>2 DEF TrainedWith, MiniBatches, Passes
<1>5. \A v \in Workers : /\ g(v) \in Seq(S) /\ Distinct(g(v))
                         /\ Len(g(v)) = job.sp * (n \div DpSize)
  BY <1>3, GroupHolds
<1>6. size \in Nat \ {0} /\ epochs \in Nat \ {0}
  <2>1. 1 \in Workers
    BY <1>1 DEF Layout, Workers
  <2> QED BY <1>1, <1>2, <2>1 DEF TrainedWith
<1>7. /\ \A v, w \in Workers : v \in Replica(w) => g(v) = g(w)
      /\ \A row \in S : \E w \in Workers : \A v \in Workers :
           v \in Replica(w) <=> \E q \in 1..Len(g(v)) : g(v)[q] = row
  BY <1>3, ReplicaHolds
<1>8. \A w \in Workers : Replica(w) \subseteq Workers
  BY DEF Replica
<1> HIDE DEF g, size, epochs, rows, S
<1>9. ASSUME NEW v \in Workers, NEW row
      PROVE  /\ Len(trained[m][v]) = epochs * Len(Split(g(v), size))
             /\ (\A q \in 1..Len(g(v)) : g(v)[q] # row) => Takes(m, v, row) = {}
             /\ (\E q \in 1..Len(g(v)) : g(v)[q] = row) => Cardinality(Takes(m, v, row)) = epochs
  <2>1. EachEpoch(epochs, size, g(v), row)
    BY <1>5, <1>6, InEachEpoch
  <2>2. Takes(m, v, row) = Taking(Passes(epochs, size, g(v)), row)
    BY <1>4 DEF Takes, Taking
  <2> QED BY <1>4, <2>1, <2>2 DEF EachEpoch
<1>10. ASSUME NEW v \in Workers, NEW w \in Workers PROVE Len(trained[m][v]) = Len(trained[m][w])
  <2>1. Len(g(v)) = Len(g(w)) /\ g(v) \in Seq(S) /\ g(w) \in Seq(S)
    BY <1>5
  <2>2. \A x \in Seq(S) : Len(Split(x, size)) = (Len(x) + size - 1) \div size
    <3> SUFFICES ASSUME NEW x \in Seq(S)
                 PROVE  Len(Split(x, size)) = (Len(x) + size - 1) \div size
      OBVIOUS
    <3> DEFINE count == (Len(x) + size - 1) \div size
               piece(k) == SubSeq(x, (k - 1) * size + 1,
                                  IF k * size < Len(x) THEN k * size ELSE Len(x))
    <3>1. count \in Nat
      BY <1>6
    <3>2. Split(x, size) = [k \in 1..count |-> piece(k)]
      BY DEF Split
    <3> HIDE DEF count, piece
    <3>3. Len(Split(x, size)) = count
      BY <3>1, <3>2
    <3> QED BY <3>3 DEF count
  <2> QED BY <1>9, <2>1, <2>2
<1>11. ASSUME NEW row \in S
       PROVE  \E w \in Workers :
                /\ {v \in Workers : Takes(m, v, row) # {}} = Replica(w)
                /\ \A v \in Replica(w) : /\ Cardinality(Takes(m, v, row)) = job.epochs
                                         /\ trained[m][v] = trained[m][w]
  <2>1. PICK w \in Workers : \A v \in Workers :
          v \in Replica(w) <=> \E q \in 1..Len(g(v)) : g(v)[q] = row
    BY <1>7
  <2>2. ASSUME NEW v \in Workers, v \in Replica(w)
        PROVE  /\ Cardinality(Takes(m, v, row)) = epochs /\ Takes(m, v, row) # {}
               /\ trained[m][v] = trained[m][w]
    <3>1. Cardinality(Takes(m, v, row)) = epochs
      BY <1>9, <2>1, <2>2
    <3>2. Takes(m, v, row) # {}
      BY <1>6, <3>1, FS_EmptySet
    <3>3. trained[m][v] = trained[m][w]
      BY <1>4, <1>7, <2>2
    <3> QED BY <3>1, <3>2, <3>3
  <2>3. ASSUME NEW v \in Workers, v \notin Replica(w) PROVE Takes(m, v, row) = {}
    <3>1. \A q \in 1..Len(g(v)) : g(v)[q] # row
      BY <2>1, <2>3
    <3> QED BY <1>9, <3>1
  <2>4. {v \in Workers : Takes(m, v, row) # {}} = Replica(w)
    BY <1>8, <2>2, <2>3
  <2>5. \A v \in Replica(w) : /\ Cardinality(Takes(m, v, row)) = job.epochs
                              /\ trained[m][v] = trained[m][w]
    BY <1>8, <2>2 DEF epochs
  <2> QED BY <2>4, <2>5
<1> QED BY <1>1, <1>10, <1>11

\* update_critic and update_actor train with every response: the workers of one replica, and
\* no other, take it in one mini-batch of each epoch, and all workers take equally many
\* optimizer steps, whatever the layout of replicas and Ulysses groups is.
THEOREM EachResponseTrainedAlways == Spec => []EachResponseTrained
<1>1. FlowInv => EachResponseTrained
  BY AllTrained
<1> QED BY <1>1, FlowInvariance, PTL

-----------------------------------------------------------------------------
(***************************************************************************)
(* The advantages of a step. They are computed of the rows in the order    *)
(* that _balance_batch has left them in, and stay right since no later     *)
(* step touches the columns.                                               *)
(***************************************************************************)

\* The responses, each with what was computed from it.
Responses == [row \in DOMAIN tokens |-> ResponseOf(PromptOf(row), row, row, row, row)]

\* The advantage of row i at token t is what its estimator is defined to give.
RightAt(i, t) ==
  Responses[cols.responses[i]].mask[t] =>
    IsAdvantage(job.estimator, job.gamma, job.lam, Responses, cols.responses[i],
                cols.advantages[i], t)

\* Advantages are right when they are at every token of every row.
LEMMA RightRows ==
  AdvantagesRight <=>
    ("advantages" \in DOMAIN cols =>
       \A i \in 1..NumRows : \A t \in DOMAIN Responses[cols.responses[i]].mask : RightAt(i, t))
BY Zenon DEF AdvantagesRight, Responses, RightAt

\* A response has the tokens of its mask, a reward, values and a baseline.
LEMMA ResponsesAre ==
  ASSUME FlowInv, kind = "train"
  PROVE  /\ Len(gen) = TrainRows /\ DOMAIN Responses = 1..TrainRows
         /\ \A r \in 1..TrainRows : /\ Responses[r] = ResponseOf(PromptOf(r), r, r, r, r)
                                    /\ IsResponse(Responses[r], MaxTokens)
                                    /\ DOMAIN Responses[r].mask = 1..MaxTokens
<1>1. /\ TrainRows \in Nat \ {0} /\ MaxTokens \in Nat \ {0} /\ job.n \in Nat \ {0}
      /\ TrainRows % job.n = 0
      /\ ScoreOf \in [1..TrainRows -> Int] /\ GreedyScore \in [1..TrainRows -> Int]
      /\ ValueOf \in [1..TrainRows -> Int]
  BY FlowAssumption DEF FlowInv, JobInv
<1>2. Len(gen) = (TrainRows \div job.n) * job.n /\ tokens \in [1..Len(gen) -> Nat]
  BY DEF FlowInv, JobInv, PromptCount
<1>3. TrainRows = (TrainRows \div job.n) * job.n
  BY <1>1, Divided
<1>4. Len(gen) = TrainRows /\ DOMAIN Responses = 1..TrainRows
  BY <1>2, <1>3 DEF Responses
<1>5. ASSUME NEW r \in 1..TrainRows
      PROVE  /\ Responses[r] = ResponseOf(PromptOf(r), r, r, r, r)
             /\ IsResponse(Responses[r], MaxTokens)
             /\ DOMAIN Responses[r].mask = 1..MaxTokens
  <2> DEFINE x == ResponseOf(PromptOf(r), r, r, r, r)
  <2>1. Responses[r] = x
    BY <1>4 DEF Responses
  <2>2. MaskOf(r) \in [1..MaxTokens -> BOOLEAN]
    BY DEF MaskOf
  <2>3. /\ x.mask = MaskOf(r)
        /\ x.rewards = [t \in 1..MaxTokens |-> IF t = tokens[r] THEN ScoreOf[r] ELSE 0]
        /\ x.values = [t \in 1..MaxTokens |-> IF MaskOf(r)[t] THEN ValueOf[r] * t ELSE 0]
        /\ x.baseline = GreedyScore[r]
    BY DEF ResponseOf
  <2>4. ScoreOf[r] \in Int /\ ValueOf[r] \in Int /\ GreedyScore[r] \in Int
    BY <1>1
  <2>5. x.rewards \in [1..MaxTokens -> Int]
    BY <2>3, <2>4
  <2>6. x.values \in [1..MaxTokens -> Int]
    <3>1. \A t \in 1..MaxTokens : ValueOf[r] * t \in Int
      BY <1>1, <2>4
    <3> QED BY <2>3, <3>1
  <2> HIDE DEF x
  <2> QED BY <1>1, <2>1, <2>2, <2>3, <2>4, <2>5, <2>6 DEF IsResponse, x
<1> QED BY <1>4, <1>5

\* In a job with more than one response to a prompt, a response has a sibling.
LEMMA SiblingExists ==
  ASSUME FlowInv, kind = "train", job.n > 1, NEW r \in 1..TrainRows
  PROVE  HasSibling(Responses, r)
<1> DEFINE n == job.n
           m == TrainRows \div job.n
<1>1. TrainRows \in Nat \ {0} /\ n \in Nat \ {0} /\ TrainRows % n = 0
  BY FlowAssumption DEF FlowInv, JobInv
<1>2. m \in Nat /\ TrainRows = m * n
  BY <1>1, Divided
<1>3. DOMAIN Responses = 1..TrainRows
      /\ \A j \in 1..TrainRows : Responses[j] = ResponseOf(PromptOf(j), j, j, j, j)
  BY ResponsesAre
<1>4. \A j \in 1..TrainRows : Responses[j].uid = ((j - 1) \div n) + 1
  BY <1>3 DEF ResponseOf, PromptOf
<1> HIDE DEF n, m
<1>5. PartsFill(m, n, m * n)
  BY <1>1, <1>2, PartPlaces
<1>6. PICK c \in 1..m, i \in 1..n : r = At(n, c, i)
  BY <1>2, <1>5 DEF PartsFill
<1> DEFINE e == IF i = 1 THEN 2 ELSE 1
<1>7. e \in 1..n /\ e # i
  BY <1>1 DEF n
<1> HIDE DEF e
<1>8. At(n, c, e) \in 1..TrainRows
  BY <1>2, <1>5, <1>7 DEF PartsFill
<1>9. At(n, c, e) # r
  <2>1. c \in Nat \ {0}
    BY <1>2
  <2> QED BY <1>1, <1>6, <1>7, <2>1, AtOnce
<1>10. Responses[At(n, c, e)].uid = Responses[r].uid
  <2>1. c \in Nat \ {0}
    BY <1>2
  <2>2. (At(n, c, e) - 1) \div n = c - 1 /\ (At(n, c, i) - 1) \div n = c - 1
    BY <1>1, <1>7, <2>1, AtBack
  <2> QED BY <1>4, <1>6, <1>8, <2>2
<1> QED BY <1>3, <1>8, <1>9, <1>10 DEF HasSibling, Siblings

\* The columns that advantages are computed of are those of the batch.
LEMMA BatchIs ==
  ASSUME FlowInv, pc = "advantages", "scores" \in DOMAIN cols, NEW batch,
         batch = [i \in 1..NumRows |->
                    ResponseOf(cols.uid[i], cols.responses[i], cols.scores[i],
                               Cell("values", i), Cell("reward_baselines", i))]
  PROVE  InSomeOrder(TrainRows, MaxTokens, Responses, cols.responses, batch)
<1> DEFINE p == cols.responses
           n == TrainRows
<1>1. pc \in ToSet(Steps) /\ kind = "train"
  <2>1. pc \in ToSet(Steps) /\ pc \notin {"generate", "reward", "done", "raised"}
    BY StepsAre
  <2> QED BY <2>1, Trains
<1>2. Filled /\ NumRows = Len(gen)
  BY <1>1, BatchOf
<1>3. /\ Len(gen) = n /\ DOMAIN Responses = 1..n
      /\ \A r \in 1..n : /\ Responses[r] = ResponseOf(PromptOf(r), r, r, r, r)
                         /\ IsResponse(Responses[r], MaxTokens)
  BY <1>1, ResponsesAre
<1>4. /\ p \in [1..n -> 1..n] /\ \A i, j \in 1..n : p[i] = p[j] => i = j
      /\ \A r \in 1..n : \E i \in 1..n : p[i] = r
  BY <1>2, <1>3 DEF Filled, Numbers
<1>5. \A i \in 1..n : cols.uid[i] = PromptOf(p[i])
  BY <1>2, <1>3 DEF Filled
<1>6. \A c \in DOMAIN cols \ {"uid", "advantages"} : cols[c] = p
  BY <1>2 DEF Filled
<1>7. \A i \in 1..n : cols.scores[i] = p[i]
  BY <1>6
<1>8. \A i \in 1..n : Cell("values", i) = p[i] /\ Cell("reward_baselines", i) = p[i]
  BY <1>6 DEF Cell
<1>9. n \in Nat
  BY FlowAssumption
<1>10. \A i \in 1..n : batch[i] = Responses[p[i]]
  <2> SUFFICES ASSUME NEW i \in 1..n PROVE batch[i] = Responses[p[i]]
    OBVIOUS
  <2>1. p[i] \in 1..n
    BY <1>4
  <2>2. batch[i] = ResponseOf(cols.uid[i], p[i], cols.scores[i], Cell("values", i),
                              Cell("reward_baselines", i))
    BY <1>2, <1>3
  <2>3. batch[i] = ResponseOf(PromptOf(p[i]), p[i], p[i], p[i], p[i])
    BY <1>5, <1>7, <1>8, <2>2
  <2> QED BY <1>3, <2>1, <2>3
<1>11. DOMAIN batch = 1..n /\ Len(batch) = n
  <2>1. NumRows = n
    BY <1>2, <1>3
  <2>2. DOMAIN batch = 1..n
    BY <2>1
  <2>3. Len(batch) = n
    BY <1>9, <2>1
  <2> QED BY <2>2, <2>3
<1> QED BY <1>3, <1>4, <1>9, <1>10, <1>11 DEF InSomeOrder

\* The scores are there when advantages are computed, which stay as they are.
AdvantageInv ==
  /\ pc = "advantages" => "scores" \in DOMAIN cols
  /\ "advantages" \in DOMAIN cols => pc \in Updates \cup {"done", "raised"} /\ AdvantagesRight

\* A step that changes neither the job nor the tokens leaves the responses as they are.
LEMMA SameResponses ==
  ASSUME job' = job, kind' = kind, tokens' = tokens
  PROVE  Responses' = Responses
<1>1. \A row : MaskOf(row)' = MaskOf(row) /\ PromptOf(row)' = PromptOf(row)
  BY DEF MaskOf, PromptOf
<1>2. \A u, a, b, c, d : ResponseOf(u, a, b, c, d)' = ResponseOf(u, a, b, c, d)
  BY <1>1, ZenonT(40) DEF ResponseOf
<1> QED BY <1>1, <1>2 DEF Responses

\* RightRows of the state after a step.
LEMMA RightRowsThen ==
  AdvantagesRight' <=>
    ("advantages" \in DOMAIN cols' =>
       \A i \in 1..NumRows' :
         \A t \in DOMAIN Responses'[cols'.responses[i]].mask : RightAt(i, t)')
BY Zenon DEF AdvantagesRight, Responses, RightAt

\* Nor does it change whether the advantages of the same columns are right.
LEMMA SameAdvantages ==
  ASSUME job' = job, kind' = kind, tokens' = tokens, cols' = cols
  PROVE  AdvantagesRight' <=> AdvantagesRight
<1>1. Responses' = Responses
  BY SameResponses
<1>2. NumRows' = NumRows
  BY DEF NumRows
<1>3. \A i, t : RightAt(i, t)' = RightAt(i, t)
  BY <1>1 DEF RightAt
<1>4. AdvantagesRight' <=>
        ("advantages" \in DOMAIN cols =>
           \A i \in 1..NumRows :
             \A t \in DOMAIN Responses[cols.responses[i]].mask : RightAt(i, t))
  BY <1>1, <1>2, <1>3, RightRowsThen
<1> QED BY <1>4, RightRows

\* A step that leaves the batch alone keeps the invariant.
LEMMA BatchStays ==
  ASSUME AdvantageInv, job' = job, kind' = kind, tokens' = tokens, cols' = cols,
         \/ pc' \in {pc, "raised"}
         \/ /\ pc' # "advantages"
            /\ pc \in Updates \cup {"done", "raised"} => pc' \in Updates \cup {"done", "raised"}
  PROVE  AdvantageInv'
<1>1. AdvantagesRight' <=> AdvantagesRight
  BY SameAdvantages
<1> QED BY <1>1 DEF AdvantageInv, Updates

\* So does one that adds columns before advantages are computed.
LEMMA BatchGrows ==
  ASSUME AdvantageInv, pc \notin Updates \cup {"done", "raised"},
         DOMAIN cols' \subseteq
           DOMAIN cols \cup ({"uid", "responses", "reward_baselines"} \cup OfWorkers \cup {"scores"}),
         pc' = "advantages" => "scores" \in DOMAIN cols'
  PROVE  AdvantageInv'
BY DEF AdvantageInv, OfWorkers

\* A step starts without advantages.
LEMMA InitAdvantages == Init => AdvantageInv
<1> SUFFICES ASSUME Init PROVE AdvantageInv
  OBVIOUS
<1>1. pc = "generate" /\ DOMAIN cols = {"uid"}
  BY DEF Init
<1> QED BY <1>1 DEF AdvantageInv

\* What ComputeAdvantage gives a batch whose rows are the responses in some order.
LEMMA ComputedRight ==
  ASSUME FlowInv, AdvantageInv, ComputeAdvantage
  PROVE  AdvantageInv'
<1> DEFINE p == cols.responses
           Adv(batch, i) == Advantage(job.estimator, job.gamma, job.lam, batch, i)
<1>1. /\ pc = "advantages" /\ pc' = After(pc)
      /\ job' = job /\ kind' = kind /\ tokens' = tokens
      /\ "scores" \in DOMAIN cols
  BY DEF ComputeAdvantage, AdvantageInv
<1>2. PICK batch :
        /\ batch = [i \in 1..NumRows |->
                      ResponseOf(cols.uid[i], cols.responses[i], cols.scores[i],
                                 Cell("values", i), Cell("reward_baselines", i))]
        /\ Assign(pc, [i \in 1..NumRows |-> Adv(batch, i)])
  BY DEF ComputeAdvantage
<1>3. InSomeOrder(TrainRows, MaxTokens, Responses, p, batch)
  BY <1>1, <1>2, BatchIs
<1>4. pc \in ToSet(Steps) /\ kind = "train"
  <2>1. pc \in ToSet(Steps) /\ pc \notin {"generate", "reward", "done", "raised"}
    BY <1>1, StepsAre
  <2> QED BY <2>1, Trains
<1>5. /\ NumRows = TrainRows /\ Filled
      /\ \A r \in 1..TrainRows : DOMAIN Responses[r].mask = 1..MaxTokens
      /\ p \in [1..TrainRows -> 1..TrainRows]
  BY <1>4, BatchOf, ResponsesAre
<1>6. /\ cols'.responses = p /\ cols'.uid = cols.uid
      /\ cols'.advantages = [i \in 1..NumRows |-> Adv(batch, i)]
  <2>1. {"uid", "responses"} \subseteq DOMAIN cols
    BY <1>5 DEF Filled
  <2> DEFINE rows == [i \in 1..NumRows |-> Adv(batch, i)]
  <2>2. cols' = [c \in DOMAIN cols \cup {"advantages"} |->
                   IF c = "advantages" THEN rows ELSE cols[c]]
    BY <1>1, <1>2 DEF Assign
  <2> HIDE DEF rows
  <2> QED BY <2>1, <2>2 DEF rows
<1>7. /\ job.estimator \in Estimators /\ job.gamma \in Int /\ job.lam \in Int
      /\ job.n \in Nat \ {0}
      /\ (job.estimator = "grpo_passk" => job.n > 1)
  BY FlowAssumption DEF FlowInv, JobInv
<1>8. ASSUME NEW i \in 1..TrainRows, NEW t \in 1..MaxTokens, Responses[p[i]].mask[t]
      PROVE  IsAdvantage(job.estimator, job.gamma, job.lam, Responses, p[i], Adv(batch, i), t)
  <2>1. p[i] \in 1..TrainRows
    BY <1>5
  <2>2. job.estimator = "grpo_passk" => HasSibling(Responses, p[i])
    <3>1. job.estimator = "grpo_passk" => job.n > 1
      BY <1>7
    <3>2. job.n > 1 => HasSibling(Responses, p[i])
      BY <1>4, <2>1, SiblingExists
    <3> QED BY <3>1, <3>2
  <2> QED BY <1>3, <1>7, <1>8, <2>2, AdvantageIsRight
<1>9. Responses' = Responses /\ NumRows' = NumRows
  BY <1>1, <1>6, SameResponses DEF NumRows
<1>10. \A i \in 1..TrainRows : \A t \in 1..MaxTokens : RightAt(i, t)'
  <2> SUFFICES ASSUME NEW i \in 1..TrainRows, NEW t \in 1..MaxTokens, Responses[p[i]].mask[t]
               PROVE  IsAdvantage(job.estimator, job.gamma, job.lam, Responses, p[i],
                                  cols'.advantages[i], t)
    BY <1>1, <1>6, <1>9 DEF RightAt
  <2>1. cols'.advantages[i] = Adv(batch, i)
    BY <1>5, <1>6
  <2> QED BY <1>8, <2>1
<1>11. AdvantagesRight'
  <2>1. \A i \in 1..TrainRows : DOMAIN Responses[p[i]].mask = 1..MaxTokens
    BY <1>5
  <2>2. \A i \in 1..NumRows' :
          \A t \in DOMAIN Responses'[cols'.responses[i]].mask : RightAt(i, t)'
    BY <1>5, <1>6, <1>9, <1>10, <2>1
  <2> QED BY <2>2, RightRowsThen
<1>12. pc' \in Updates \cup {"done"}
  BY <1>1, AfterIs DEF Updates
<1> QED BY <1>11, <1>12 DEF AdvantageInv, Updates

\* Every action keeps the advantages right.
LEMMA NextAdvantages ==
  ASSUME FlowInv, AdvantageInv, [Next]_vars
  PROVE  AdvantageInv'
<1>1. CASE UNCHANGED vars
  BY <1>1, BatchStays DEF vars
<1>2. ASSUME NEW rows, Call(rows) PROVE AdvantageInv'
  BY <1>2, BatchStays DEF Call
<1>3. ASSUME NEW w \in Workers, Gather(w) \/ Return(w) PROVE AdvantageInv'
  BY <1>3, BatchStays DEF Gather, Return
<1>4. ASSUME RewardTask \/ StartBalance \/ BalanceRound PROVE AdvantageInv'
  BY <1>4, BatchStays DEF RewardTask, StartBalance, BalanceRound
<1>5. ASSUME Updated PROVE AdvantageInv'
  <2>1. /\ pc \in Updates /\ pc' = After(pc)
        /\ job' = job /\ kind' = kind /\ tokens' = tokens /\ cols' = cols
    BY <1>5 DEF Updated, FlowInv, TrainedInv
  <2>2. pc' \in Updates \cup {"done"}
    BY <2>1, AfterIs DEF Updates
  <2>3. pc' # "advantages"
    BY <2>2 DEF Updates
  <2> QED BY <2>1, <2>2, <2>3, BatchStays
<1>6. ASSUME NEW async \in BOOLEAN, Reward(async) PROVE AdvantageInv'
  <2>1. pc = "reward"
    BY <1>6 DEF Reward
  <2>2. CASE kind = "train"
    <3>1. pc' = After("reward") /\ cols' = cols /\ job' = job /\ kind' = kind /\ tokens' = tokens
      BY <1>6, <2>1, <2>2 DEF Reward
    <3>2. pc' # "advantages" /\ pc \notin Updates \cup {"done", "raised"}
      BY <2>1, <3>1, AfterIs DEF Updates
    <3> QED BY <3>1, <3>2, BatchStays
  <2>3. CASE kind # "train"
    <3>1. pc' = "done" /\ DOMAIN cols' = DOMAIN cols \cup {"scores"}
      BY <1>6, <2>3 DEF Reward, Assign
    <3> QED BY <2>1, <3>1, BatchGrows DEF Updates
  <2> QED BY <2>2, <2>3
<1>7. ASSUME Computed PROVE AdvantageInv'
  <2>1. pc \in OfWorkers /\ pc' = After(pc) /\ DOMAIN cols' = DOMAIN cols \cup {pc}
    BY <1>7, ComputedAssigns DEF Computed, Assign
  <2>2. pc' # "advantages"
    BY <2>1, AfterIs DEF OfWorkers
  <2> QED BY <2>1, <2>2, BatchGrows DEF Updates, OfWorkers
<1>8. ASSUME AwaitReward PROVE AdvantageInv'
  <2>1. pc = "scores" /\ DOMAIN cols' = DOMAIN cols \cup {"scores"}
    BY <1>8 DEF AwaitReward, Assign
  <2> QED BY <2>1, BatchGrows DEF Updates
<1>9. ASSUME Generated PROVE AdvantageInv'
  <2>1. /\ pc = "generate" /\ pc' \in {"reward", "baseline", "balance", "raised"}
        /\ DOMAIN cols' \subseteq DOMAIN cols \cup {"responses"}
    BY <1>9 DEF Generated, Union, Assign, Joined
  <2> QED BY <2>1, BatchGrows DEF Updates
<1>10. ASSUME BaselineGenerated PROVE AdvantageInv'
  <2>1. /\ pc = "baseline" /\ pc' \in {"balance", "raised"}
        /\ DOMAIN cols' \subseteq DOMAIN cols \cup {"uid", "responses", "reward_baselines"}
    BY <1>10 DEF BaselineGenerated, Joined
  <2> QED BY <2>1, BatchGrows DEF Updates
<1>11. ASSUME EndBalance PROVE AdvantageInv'
  <2>1. pc = "balance" /\ pc' = From(1) /\ DOMAIN cols' = DOMAIN cols
    BY <1>11 DEF EndBalance, Reordered
  <2>2. pc' # "advantages"
    BY <2>1, AfterIs
  <2> QED BY <2>1, <2>2, BatchGrows DEF Updates
<1>12. CASE Driver
  BY <1>2, <1>4, <1>5, <1>6, <1>7, <1>8, <1>9, <1>10, <1>11, <1>12, ComputedRight
     DEF Driver, Generate, Compute, Update
<1> QED BY <1>1, <1>3, <1>4, <1>12 DEF Next

\* Whatever order _balance_batch left the batch in, every token the model generated has the
\* advantage that its estimator is defined to give it among all responses to its prompt.
THEOREM AdvantagesRightAlways == Spec => []AdvantagesRight
<1>1. Init => AdvantageInv
  BY InitAdvantages
<1>2. FlowInv /\ AdvantageInv /\ [Next]_vars => AdvantageInv'
  BY NextAdvantages
<1>3. AdvantageInv => AdvantagesRight
  BY DEF AdvantageInv, AdvantagesRight
<1> QED BY <1>1, <1>2, <1>3, FlowInvariance, PTL DEF Spec

-----------------------------------------------------------------------------
(***************************************************************************)
(* What stops the driver                                                   *)
(***************************************************************************)
KnownInv ==
  /\ pc = "raised" => Asserted
  /\ pc = "baseline" => job.estimator = "remax"
  /\ pc = "update_critic" => UseCritic
  /\ pc = "update_actor" => job.warm

\* The causes depend on the job and its rows only, which no step changes.
LEMMA SameCauses ==
  ASSUME job' = job, kind' = kind, tokens' = tokens
  PROVE  Asserted' = Asserted
<1>1. UnequalParts' = UnequalParts
  BY DEF UnequalParts, RolloutSize
<1>2. BaselineConflicts' = BaselineConflicts
  BY DEF BaselineConflicts, Turns
<1>3. UnevenUpdate' = UnevenUpdate
  BY DEF UnevenUpdate, UseCritic, MiniSize, Replicas, DpSize
<1> QED BY <1>1, <1>2, <1>3 DEF Asserted

\* A train step has as many rows as the configuration says.
LEMMA TrainedRows ==
  ASSUME FlowInv, kind = "train"
  PROVE  Len(gen) = TrainRows /\ TrainRows \in Nat \ {0} /\ PromptCount \in Nat
         /\ TrainRows = PromptCount * job.n /\ job.n \in Nat \ {0}
<1>1. TrainRows \in Nat \ {0} /\ job.n \in Nat \ {0} /\ TrainRows % job.n = 0
  BY FlowAssumption DEF FlowInv, JobInv
<1>2. PromptCount = TrainRows \div job.n
  BY DEF PromptCount
<1>3. PromptCount \in Nat /\ TrainRows = PromptCount * job.n
  BY <1>1, <1>2, Divided
<1> QED BY <1>1, <1>3 DEF FlowInv, JobInv

\* A dispatch raises only in the rollout of a train step, when the rows make no equal parts: a
\* validation is padded, and what is balanced can be dispatched to the replicas as well.
LEMMA CallAsserts ==
  ASSUME FlowInv, pc \in Calling, Call(Sent), pc' = "raised"
  PROVE  Asserted
<1>1. Layout /\ kind \in {"train", "validate"}
  BY LayoutIs DEF FlowInv, JobInv
<1>2. Len(Sent) % Parts # 0
  <2>1. pc # "raised"
    BY DEF Calling, OfWorkers, Updates
  <2> QED BY <2>1 DEF Call
<1>3. CASE OnRollout
  <2>1. Parts = RolloutSize /\ RolloutSize \in Nat \ {0}
    <3>1. \A m \in Nat : Cardinality(1..m) = m
      BY FS_Interval
    <3>2. Callees = 1..RolloutSize
      BY <1>3 DEF Callees, Looping, RolloutSize, Workers
    <3>3. RolloutSize \in Nat \ {0}
      BY <1>1 DEF RolloutSize, Layout
    <3> QED BY <1>3, <3>1, <3>2, <3>3 DEF Parts
  <2>2. CASE kind = "validate"
    <3>1. gen \in Seq(1..Len(gen))
      <4>1. Len(gen) \in Nat \ {0} /\ gen = [i \in 1..Len(gen) |-> i]
        BY DEF FlowInv, JobInv
      <4>2. gen \in [1..Len(gen) -> 1..Len(gen)]
        BY <4>1
      <4> QED BY <4>1, <4>2, ListIsFunction
    <3>2. Len(PadToDivisor(gen, RolloutSize)) % RolloutSize = 0
      BY <2>1, <3>1, PadDivides
    <3> QED BY <1>2, <1>3, <2>1, <2>2, <3>2 DEF Sent, PadOf
  <2>3. CASE kind = "train"
    <3>1. Sent = gen
      BY <1>3, <2>3 DEF Sent, PadOf
    <3> QED BY <1>2, <2>1, <2>3, <3>1, TrainedRows DEF Asserted, UnequalParts
  <2> QED BY <1>1, <2>2, <2>3
<1>4. CASE ~OnRollout
  <2>1. pc \in ToSet(Steps) /\ pc \notin {"reward", "done"}
    BY <1>4, StepsAre DEF Calling, OnRollout, OfWorkers, Updates
  <2>2. kind = "train"
    <3>1. pc \notin {"generate", "raised"}
      BY <2>1, StepsAre
    <3> QED BY <2>1, <3>1, Trains
  <2>3. Len(Sent) = Len(gen) /\ Parts = DpSize
    BY <1>1, <1>4, <2>1, BatchOf, PartsOf DEF Sent
  <2>4. Len(gen) % NumWorkers = 0 /\ Len(gen) \in Nat
    BY <2>1, <2>2 DEF FlowInv, LevelInv, JobInv
  <2> DEFINE n == Len(gen)
             k == n \div NumWorkers
             a == job.tp * job.pp
             d == DpSize
  <2>5. /\ k \in Nat /\ n = k * NumWorkers /\ a \in Nat /\ d \in Nat \ {0}
        /\ NumWorkers = a * d
    <3>1. NumWorkers \in Nat \ {0} /\ job.tp \in Nat /\ job.pp \in Nat
          /\ d \in Nat \ {0} /\ NumWorkers = a * d
      BY <1>1 DEF Layout
    <3>2. a \in Nat
      BY <3>1
    <3>3. k \in Nat /\ n = k * NumWorkers
      BY <2>4, <3>1, Divided
    <3> QED BY <3>1, <3>2, <3>3
  <2> HIDE DEF n, k, a, d
  <2>6. n = (k * a) * d /\ k * a \in Nat
    BY <2>5
  <2>7. n % d = 0
    BY <2>5, <2>6, DivMul
  <2> QED BY <1>2, <2>3, <2>7 DEF n, d
<1> QED BY <1>3, <1>4

\* An update raises only when the rows of a replica, which every worker of it holds, make no
\* full mini-batches.
LEMMA ReturnAsserts ==
  ASSUME FlowInv, KnownInv, NEW w \in Workers, Return(w), pc' = "raised"
  PROVE  Asserted
<1>1. DOMAIN trained = Updates
  BY DEF FlowInv, TrainedInv
<1>2. pc # "raised" /\ wpc[w] = "gathered" /\ pc \in Updates /\ ~Divides(part[w])
  BY <1>1 DEF Return
<1>3. ~OnRollout /\ pc \in ToSet(Steps) /\ pc \notin {"generate", "reward", "done"}
  BY <1>2, StepsAre DEF Updates, OnRollout
<1>4. kind = "train" /\ Filled /\ Len(gen) = TrainRows
  BY <1>2, <1>3, Trains, BatchOf, TrainedRows
<1>5. /\ Layout /\ job.megatron /\ job.sp = 1
      /\ job.mini \in Nat \ {0} /\ job.n \in Nat \ {0}
  <2>1. job \in Jobs /\ Accepted(job) /\ job.megatron
    BY <1>2 DEF FlowInv, JobInv, Divides
  <2> QED BY <2>1, LayoutIs, FlowAssumption
<1>6. UseCritic \/ job.warm
  BY <1>2 DEF KnownInv, Updates
<1>7. Callees = Workers /\ Sent = cols.responses
  BY <1>3, <1>5, PartsOf DEF Sent
<1>8. Dispatches(1..Len(gen), cols.responses) /\ part[w] = Gathered(cols.responses, w)
  BY <1>2, <1>7 DEF FlowInv, CallInv, Holds
<1>9. Updating(Len(gen), cols.responses)
  BY <1>3, <1>4, <1>5, <1>8 DEF Updating, Filled, FlowInv, JobInv
<1>10. Len(part[w]) = TrainRows \div DpSize
  <2> DEFINE d == TrainRows \div DpSize
  <2>1. Len(part[w]) = 1 * d
    BY <1>4, <1>5, <1>8, <1>9, GroupHolds
  <2>2. d \in Nat
    <3>1. TrainRows \in Nat /\ DpSize \in Nat \ {0}
      BY <1>4, <1>5, TrainedRows DEF Layout
    <3> QED BY <3>1
  <2> QED BY <2>1, <2>2
<1>11. MiniSize \in Nat
  <2>1. MiniSize = (job.mini * job.n) \div DpSize
    BY <1>5 DEF MiniSize, Replicas
  <2>2. job.mini * job.n \in Nat /\ DpSize \in Nat \ {0}
    BY <1>5 DEF Layout
  <2> QED BY <2>1, <2>2
<1>12. MiniSize = 0 \/ Len(part[w]) % MiniSize # 0
  <2>1. ~(MiniSize > 0 /\ Len(part[w]) % MiniSize = 0)
    BY <1>2, Zenon DEF Divides
  <2> DEFINE m == MiniSize
  <2>2. m \in Nat /\ (m > 0 => Len(part[w]) % m # 0)
    BY <1>11, <2>1
  <2> HIDE DEF m
  <2>3. m = 0 \/ m > 0
    BY <2>2
  <2> QED BY <2>2, <2>3 DEF m
<1> QED BY <1>4, <1>5, <1>6, <1>10, <1>12 DEF Asserted, UnevenUpdate

\* The greedy responses conflict with the sampled ones only as said: with one response to a
\* prompt they are as many, and without tools their other columns are the same.
LEMMA BaselineAsserts ==
  ASSUME FlowInv, KnownInv, BaselineGenerated, pc' = "raised"
  PROVE  Asserted
<1>1. /\ pc = "baseline" /\ Returned /\ kind = "train" /\ output = gen /\ Fresh
      /\ job.estimator = "remax"
  BY DEF BaselineGenerated, FlowInv, StageInv, KnownInv
<1>2. Collected = gen
  BY <1>1, ReturnedParts DEF Sent, PadOf, OnRollout, Calling, Updates
<1>3. ~(Len(Collected) = NumRows /\ SameNonTensor(Collected, output))
  BY DEF BaselineGenerated
<1>4. /\ Len(gen) = TrainRows /\ PromptCount \in Nat /\ TrainRows = PromptCount * job.n
      /\ job.n \in Nat \ {0}
  BY <1>1, TrainedRows
<1>5. NumRows = PromptCount
  <2>1. cols.uid = Prompts(PromptCount)
    BY <1>1 DEF Fresh
  <2> QED BY <1>4, <2>1 DEF Prompts, NumRows
<1>6. CASE job.n > 1
  BY <1>1, <1>6 DEF Asserted, BaselineConflicts
<1>7. CASE job.n = 1
  <2>1. ~SameNonTensor(gen, gen)
    BY <1>1, <1>2, <1>3, <1>4, <1>5, <1>7
  <2>2. DOMAIN gen = DOMAIN tokens /\ \A i \in DOMAIN gen : gen[i] = i
    <3>1. Len(gen) \in Nat /\ gen = [i \in 1..Len(gen) |-> i] /\ DOMAIN tokens = 1..Len(gen)
      BY DEF FlowInv, JobInv
    <3> QED BY <3>1
  <2>3. job.agents \in Nat /\ job.multi_turn \in BOOLEAN
    BY FlowAssumption DEF FlowInv, JobInv
  <2> DEFINE greedy == [i \in DOMAIN gen |-> GreedyTokens[gen[i]]]
             sampled == [i \in DOMAIN gen |-> tokens[gen[i]]]
  <2>4. NonTensor("baseline", greedy) # NonTensor("generate", sampled)
    BY <2>1 DEF SameNonTensor
  <2>5. /\ DOMAIN greedy = DOMAIN gen /\ DOMAIN sampled = DOMAIN gen
        /\ \A i \in DOMAIN gen : greedy[i] = GreedyTokens[i] /\ sampled[i] = tokens[i]
    BY <2>2
  <2> HIDE DEF greedy, sampled
  <2>6. CASE job.agents > 0
    <3>1. [i \in DOMAIN greedy |-> Turns(greedy[i])] # [i \in DOMAIN sampled |-> Turns(sampled[i])]
      BY <2>4, <2>6 DEF NonTensor
    <3>2. \E i \in DOMAIN gen : Turns(greedy[i]) # Turns(sampled[i])
      BY <2>5, <3>1
    <3>3. \E row \in DOMAIN tokens : Turns(GreedyTokens[row]) # Turns(tokens[row])
      BY <2>2, <2>5, <3>2
    <3> QED BY <1>1, <2>6, <3>3 DEF Asserted, BaselineConflicts
  <2>7. CASE job.agents = 0 /\ job.multi_turn
    BY <1>1, <2>7 DEF Asserted, BaselineConflicts
  <2>8. CASE job.agents = 0 /\ ~job.multi_turn
    <3>1. ~(job.agents > 0) /\ ~job.multi_turn
      BY <2>8
    <3>2. NonTensor("baseline", greedy) = <<>> /\ NonTensor("generate", sampled) = <<>>
      BY <3>1, Zenon DEF NonTensor
    <3> QED BY <2>4, <3>2
  <2> QED BY <2>3, <2>6, <2>7, <2>8
<1>8. job.n = 1 \/ job.n > 1
  <2>1. job.n \in Nat \ {0}
    BY <1>4
  <2> QED BY <2>1
<1> QED BY <1>6, <1>7, <1>8

\* Every action of a job that raises does so for one of the causes.
LEMMA NextKnown ==
  ASSUME FlowInv, KnownInv, [Next]_vars
  PROVE  KnownInv'
<1>1. job' = job /\ kind' = kind /\ tokens' = tokens /\ Asserted' = Asserted /\ UseCritic' = UseCritic
  BY Given, SameCauses DEF UseCritic
<1>2. ASSUME pc' = pc \/ (pc' = "raised" /\ Asserted) PROVE KnownInv'
  BY <1>1, <1>2 DEF KnownInv
<1>3. ASSUME pc' \notin {"raised", "baseline", "update_critic", "update_actor"} PROVE KnownInv'
  BY <1>3 DEF KnownInv
<1>4. CASE UNCHANGED vars
  BY <1>2, <1>4 DEF vars
<1>5. ASSUME NEW w \in Workers, Gather(w) \/ Return(w) PROVE KnownInv'
  <2>1. CASE Gather(w)
    BY <1>2, <2>1 DEF Gather
  <2>2. CASE Return(w)
    <3>1. pc' \in {pc, "raised"}
      BY <2>2, ReturnKeeps
    <3> QED BY <1>2, <2>2, <3>1, ReturnAsserts
  <2> QED BY <1>5, <2>1, <2>2
<1>6. ASSUME Generate \/ Compute \/ Update PROVE KnownInv'
  <2>1. pc \in Calling /\ Call(Sent)
    <3>1. CASE Generate
      BY <3>1 DEF Generate, Sent, OnRollout, Calling
    <3>2. CASE Compute \/ Update
      <4>1. pc \in OfWorkers \cup Updates /\ Call(cols.responses)
        BY <3>2 DEF Compute, Update, FlowInv, TrainedInv
      <4> QED BY <4>1 DEF Calling, OnRollout, OfWorkers, Updates, Sent
    <3> QED BY <1>6, <3>1, <3>2
  <2>2. pc' \in {pc, "raised"}
    BY <2>1 DEF Call
  <2> QED BY <1>2, <2>1, <2>2, CallAsserts
<1>7. ASSUME RewardTask \/ BalanceRound PROVE KnownInv'
  BY <1>2, <1>7 DEF RewardTask, BalanceRound
<1>8. ASSUME Generated PROVE KnownInv'
  <2>1. "responses" \notin DOMAIN cols
    BY <1>8 DEF Generated, FlowInv, StageInv, Fresh
  <2>2. pc' \in {"reward", "balance"} \/ (pc' = "baseline" /\ job.estimator = "remax")
    BY <1>8, <2>1 DEF Generated, Union
  <2> QED BY <1>1, <1>3, <2>2 DEF KnownInv
<1>9. ASSUME BaselineGenerated PROVE KnownInv'
  <2>1. pc' \in {"balance", "raised"}
    BY <1>9 DEF BaselineGenerated
  <2> QED BY <1>2, <1>3, <1>9, <2>1, BaselineAsserts
<1>10. ASSUME StartBalance PROVE KnownInv'
  <2>1. pc = "balance" /\ (pc' = pc \/ (pc' = "raised" /\ NumRows % NumWorkers # 0))
    BY <1>10 DEF StartBalance
  <2>2. kind = "train"
    BY <2>1 DEF FlowInv, StageInv
  <2>3. NumRows = TrainRows
    BY <2>1, <2>2, BatchOf, TrainedRows
  <2> QED BY <1>2, <2>1, <2>2, <2>3 DEF Asserted, UnequalParts
<1>11. ASSUME EndBalance PROVE KnownInv'
  BY <1>3, <1>11, AfterIs DEF EndBalance
<1>12. ASSUME NEW async \in BOOLEAN, Reward(async) PROVE KnownInv'
  BY <1>3, <1>12, AfterIs DEF Reward
<1>13. ASSUME Computed PROVE KnownInv'
  <2>1. pc \in OfWorkers /\ pc' = After(pc)
    BY <1>13, ComputedAssigns DEF Computed
  <2>2. pc' \in {"reward", "ref_log_prob", "values", "scores"}
    BY <2>1, AfterIs DEF OfWorkers
  <2> QED BY <1>3, <2>2
<1>14. ASSUME AwaitReward PROVE KnownInv'
  BY <1>3, <1>14, AfterIs DEF AwaitReward
<1>15. ASSUME ComputeAdvantage \/ Updated PROVE KnownInv'
  <2>1. pc \in {"advantages", "update_critic", "update_actor"} /\ pc' = After(pc)
    BY <1>15 DEF ComputeAdvantage, Updated, Updates, FlowInv, TrainedInv
  <2>2. \/ pc' = "update_critic" /\ UseCritic
        \/ pc' = "update_actor" /\ job.warm
        \/ pc' = "done"
    BY <2>1, AfterIs
  <2> QED BY <1>1, <2>2 DEF KnownInv
<1>16. CASE Driver
  BY <1>6, <1>7, <1>8, <1>9, <1>10, <1>11, <1>12, <1>13, <1>14, <1>15, <1>16 DEF Driver
<1> QED BY <1>4, <1>5, <1>7, <1>16 DEF Next

\* Nothing but the causes StepEnds names ever stops the driver: every other assertion on rows or
\* columns that the step makes on its way holds, in any layout, job and number of rows.
THEOREM RaisesOnlyAsserted == Spec => [](pc = "raised" => Asserted)
<1>1. Init => KnownInv
  BY DEF Init, KnownInv
<1>2. FlowInv /\ KnownInv /\ [Next]_vars => KnownInv'
  BY NextKnown
<1>3. KnownInv => (pc = "raised" => Asserted)
  BY DEF KnownInv
<1> QED BY <1>1, <1>2, <1>3, FlowInvariance, PTL DEF Spec
=============================================================================
