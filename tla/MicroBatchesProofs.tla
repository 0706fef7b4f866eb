------------------------- MODULE MicroBatchesProofs -------------------------
(***************************************************************************)
(* Dynamic batching gives every output back to its row, for any number of  *)
(* ranks, rows and micro-batches, and whatever the lengths.                *)
(***************************************************************************)
EXTENDS MicroBatches, BatchProofs

\* Until a rank cuts its mini-batch it has run nothing, and its count is not zero.
CountInv(r) ==
  /\ pc[r] \in {"count", "reduce", "partition", "raised"} =>
       micro[r] = <<>> /\ at[r] = 0 /\ outputs[r] = <<>>
  /\ pc[r] \in {"reduce", "partition"} => num[r] # 0
  /\ pc[r] # "done" => restored[r] = <<>>

\* The loop of karmarkar_karp.
HeapInv(r) == pc[r] = "partition" => Spreading(lens[r], num[r], heap[r])

\* The rows of the first n micro-batches, in the order they are computed.
RowsOf(parts, n) == FlattenSeq([i \in 1..n |-> Ascending(parts[i])])

\* The micro-batches have each row once, and the outputs are those of the first of them.
ListInv(r) ==
  pc[r] \in {"run", "done"} =>
    /\ \A i, j \in DOMAIN micro[r] : i # j => micro[r][i] \cap micro[r][j] = {}
    /\ UNION Range(micro[r]) = Items
    /\ outputs[r] = RowsOf(micro[r], at[r])

\* The part of the invariant that is about one rank: no action reads more of another rank
\* than how far it is.
RankInv(r) ==
  /\ num[r] \in IF pc[r] = "raised" THEN Nat ELSE 0..BatchSize
  /\ micro[r] \in Seq((SUBSET Items) \ {{}})
  /\ at[r] \in 0..Len(micro[r])
  /\ outputs[r] \in Seq(Items) /\ restored[r] \in Seq(Items)
  /\ \A p, q \in Range(micro[r]) :
       SumFunctionOnSet(lens[r], p) - SumFunctionOnSet(lens[r], q) <= Max(Range(lens[r]))
  /\ pc[r] = "done" => restored[r] = [i \in Items |-> i]
  /\ CountInv(r) /\ HeapInv(r) /\ ListInv(r)

\* The variables are functions over the ranks.
Shape ==
  /\ lens \in [Ranks -> Batches] /\ divided \in DividedBy
  /\ pc \in [Ranks -> {"count", "reduce", "partition", "run", "done", "raised"}]
  /\ num = [r \in Ranks |-> num[r]] /\ heap = [r \in Ranks |-> heap[r]]
  /\ micro = [r \in Ranks |-> micro[r]] /\ at = [r \in Ranks |-> at[r]]
  /\ outputs = [r \in Ranks |-> outputs[r]] /\ restored = [r \in Ranks |-> restored[r]]

AllInv == Shape /\ \A r \in Ranks : RankInv(r)

\* It has the invariants of the runs in it.
LEMMA ByRank == AllInv => TypeOK /\ Balanced /\ RestoresOrder
BY DEF AllInv, Shape, RankInv, TypeOK, Balanced, RestoresOrder

\* What the assumptions on the constants say of the lengths of a rank.
LEMMA Lengths ==
  ASSUME Shape, NEW r \in Ranks
  PROVE  /\ BatchSize \in Nat \ {0} /\ Items = 1..BatchSize /\ IsFiniteSet(Items)
         /\ Cardinality(Items) = BatchSize /\ lens[r] \in [1..BatchSize -> Nat \ {0}]
         /\ DOMAIN lens[r] = Items
<1>1. BatchSize \in Nat \ {0} /\ MaxTokenLen \in Nat \ {0}
  BY MicroAssumption
<1>2. lens[r] \in [1..BatchSize -> 1..MaxTokenLen]
  BY MicroAssumption DEF Shape
<1>3. IsFiniteSet(1..BatchSize) /\ Cardinality(1..BatchSize) = BatchSize
  BY <1>1, FS_Interval
<1> QED BY <1>1, <1>2, <1>3 DEF Items

\* Division rounded up, and a multiple rounded up to, are not zero.
LEMMA CeilPositive ==
  ASSUME NEW a \in Nat \ {0}, NEW b \in Nat \ {0}
  PROVE  CeilDiv(a, b) \in Nat \ {0} /\ RoundUp(a, b) \in Nat \ {0}
<1> DEFINE n == a + b - 1
           q == n \div b
<1>1. n \in Nat /\ n >= b
  OBVIOUS
<1> HIDE DEF n
<1>2. n = b * (n \div b) + (n % b) /\ n % b \in 0..b - 1 /\ n \div b \in Nat
  BY <1>1
<1>3. q # 0
  <2>1. n \div b = 0 => n < b
    BY <1>2
  <2> QED BY <1>1, <2>1
<1>4. q \in Nat \ {0}
  BY <1>2, <1>3
<1>5. CeilDiv(a, b) = q
  BY DEF CeilDiv, n
<1> HIDE DEF q
<1>6. q * b \in Nat \ {0}
  BY <1>4
<1> QED BY <1>4, <1>5, <1>6 DEF RoundUp

\* A rank counts at least one micro-batch, and no more than it has rows.
LEMMA CountRange ==
  ASSUME Shape, NEW r \in Ranks
  PROVE  LocalCount(lens[r]) \in 1..BatchSize
<1> DEFINE total == SumFunction(lens[r])
<1>1. BatchSize \in Nat \ {0} /\ IsFiniteSet(Items) /\ Items # {}
  <2>1. BatchSize \in Nat \ {0} /\ IsFiniteSet(Items) /\ Items = 1..BatchSize
    BY Lengths
  <2>2. 1 \in 1..BatchSize
    BY <2>1
  <2> QED BY <2>1, <2>2
<1>2. lens[r] \in [1..BatchSize -> Nat \ {0}] /\ DOMAIN lens[r] = Items /\ Items = 1..BatchSize
  BY Lengths
<1>3. \A i \in Items : lens[r][i] \in Nat /\ lens[r][i] \in Nat \ {0}
  BY <1>2
<1>4. SumFunctionOnSet(lens[r], Items) \in Nat
  BY <1>1, <1>3, SumType
<1>5. SumFunctionOnSet(lens[r], Items) > 0
  BY <1>1, <1>3, SumPositive
<1>6. total \in Nat \ {0}
  BY <1>2, <1>4, <1>5 DEF SumFunction
<1> HIDE DEF total
<1>7. CeilDiv(total, MaxTokenLen) \in Nat \ {0}
  BY <1>6, CeilPositive, MicroAssumption
<1>8. Min({BatchSize, CeilDiv(total, MaxTokenLen)})
        = IF BatchSize <= CeilDiv(total, MaxTokenLen) THEN BatchSize
                                                      ELSE CeilDiv(total, MaxTokenLen)
  BY <1>1, <1>7, MinPair
<1> QED BY <1>1, <1>7, <1>8 DEF LocalCount, total

\* A rank that an action leaves alone stays as it was.
LEMMA OtherRank ==
  ASSUME NEW r \in Ranks, RankInv(r), lens'[r] = lens[r], pc'[r] = pc[r], num'[r] = num[r],
         heap'[r] = heap[r], micro'[r] = micro[r], at'[r] = at[r], outputs'[r] = outputs[r],
         restored'[r] = restored[r]
  PROVE  RankInv(r)'
BY DEF RankInv, CountInv, HeapInv, ListInv, Spreading, RowsOf

\* Every rank starts with a count to make.
LEMMA InitInv == Init => AllInv
<1> SUFFICES ASSUME Init PROVE AllInv
  OBVIOUS
<1>1. Shape
  BY DEF Init, Shape
<1>2. ASSUME NEW r \in Ranks PROVE RankInv(r)
  <2>1. /\ pc[r] = "count" /\ num[r] = 0 /\ micro[r] = <<>> /\ at[r] = 0
        /\ outputs[r] = <<>> /\ restored[r] = <<>>
    BY DEF Init
  <2>2. BatchSize \in Nat
    BY <1>1, Lengths
  <2>3. Range(micro[r]) = {}
    BY <2>1 DEF Range
  <2>4. CountInv(r) /\ HeapInv(r) /\ ListInv(r)
    BY <2>1 DEF CountInv, HeapInv, ListInv
  <2> QED BY <2>1, <2>2, <2>3, <2>4 DEF RankInv
<1> QED BY <1>1, <1>2 DEF AllInv

\* Count gives the rank a number between one and its rows.
LEMMA CountStep ==
  ASSUME AllInv, NEW r \in Ranks, Count(r)
  PROVE  AllInv'
<1>1. Shape'
  BY DEF AllInv, Shape, Count
<1>2. RankInv(r)'
  <2>1. /\ pc[r] = "count" /\ pc'[r] = "reduce" /\ num'[r] = LocalCount(lens[r])
        /\ lens'[r] = lens[r] /\ micro'[r] = micro[r] /\ at'[r] = at[r]
        /\ outputs'[r] = outputs[r] /\ restored'[r] = restored[r]
    BY DEF Count, AllInv, Shape
  <2>2. num'[r] \in 1..BatchSize /\ BatchSize \in Nat
    BY <2>1, CountRange, Lengths DEF AllInv
  <2>3. RankInv(r)
    BY DEF AllInv
  <2>4. CountInv(r)' /\ HeapInv(r)' /\ ListInv(r)'
    BY <2>1, <2>2, <2>3 DEF CountInv, HeapInv, ListInv, RankInv
  <2> QED BY <2>1, <2>2, <2>3, <2>4 DEF RankInv
<1>3. ASSUME NEW q \in Ranks, q # r PROVE RankInv(q)'
  <2>1. RankInv(q)
    BY DEF AllInv
  <2>2. /\ lens'[q] = lens[q] /\ pc'[q] = pc[q] /\ num'[q] = num[q]
        /\ heap'[q] = heap[q] /\ micro'[q] = micro[q] /\ at'[q] = at[q]
        /\ outputs'[q] = outputs[q] /\ restored'[q] = restored[q]
    BY <1>3 DEF Count, AllInv, Shape
  <2> QED BY <2>1, <2>2, OtherRank
<1> QED BY <1>1, <1>2, <1>3 DEF AllInv

\* Every rank's solutions are started for the same number of bins.
LEMMA AllReduceStep ==
  ASSUME AllInv, AllReduce
  PROVE  AllInv'
<1> DEFINE k == RoundUp(Max(Range(num)), divided)
<1>1. \A r \in Ranks : pc[r] = "reduce" /\ RankInv(r)
  BY DEF AllReduce, AllInv
<1>2. BatchSize \in Nat /\ divided \in Nat \ {0} /\ IsFiniteSet(Ranks) /\ Ranks # {}
  BY MicroAssumption DEF AllInv, Shape
<1>3. ASSUME NEW r \in Ranks PROVE num[r] \in 1..BatchSize
  <2>1. pc[r] = "reduce" /\ RankInv(r)
    BY <1>1
  <2>2. num[r] \in 0..BatchSize /\ num[r] # 0
    BY <2>1 DEF RankInv, CountInv
  <2> QED BY <1>2, <2>2
<1>4. Max(Range(num)) \in Nat \ {0}
  <2>1. num = [r \in Ranks |-> num[r]]
    BY DEF AllInv, Shape
  <2>2. Range(num) = {num[r] : r \in Ranks}
    BY <2>1 DEF Range
  <2>3. Range(num) \in SUBSET Nat /\ Range(num) # {}
    BY <1>2, <1>3, <2>2
  <2>4. IsFiniteSet(Range(num))
    <3>1. num \in Surjection(Ranks, Range(num))
      BY <2>1, <2>2 DEF Surjection
    <3> QED BY <1>2, <3>1, FS_Surjection
  <2>5. Max(Range(num)) \in Range(num)
    BY <2>3, <2>4, Largest
  <2> QED BY <1>2, <1>3, <2>2, <2>5
<1>5. k \in Nat \ {0}
  BY <1>2, <1>4, CeilPositive
<1>6. num' = [r \in Ranks |-> k]
  BY DEF AllReduce, Agreed
<1> HIDE DEF k
<1>7. Shape'
  <2>1. /\ pc' = [r \in Ranks |-> IF num'[r] <= BatchSize THEN "partition" ELSE "raised"]
        /\ heap' = [r \in Ranks |-> IF num'[r] <= BatchSize THEN Singletons(lens[r], num'[r]) ELSE {}]
        /\ UNCHANGED <<lens, divided, micro, at, outputs, restored>>
    BY DEF AllReduce
  <2>2. pc' \in [Ranks -> {"count", "reduce", "partition", "run", "done", "raised"}]
    BY <2>1
  <2>3. num' = [r \in Ranks |-> num'[r]] /\ heap' = [r \in Ranks |-> heap'[r]]
    BY <1>6, <2>1
  <2> QED BY <2>1, <2>2, <2>3 DEF AllInv, Shape
<1>8. ASSUME NEW r \in Ranks PROVE RankInv(r)'
  <2>1. /\ num'[r] = k /\ pc'[r] = IF k <= BatchSize THEN "partition" ELSE "raised"
        /\ k <= BatchSize => heap'[r] = Singletons(lens[r], k)
        /\ lens'[r] = lens[r] /\ micro'[r] = micro[r] /\ at'[r] = at[r]
        /\ outputs'[r] = outputs[r] /\ restored'[r] = restored[r]
    BY <1>6 DEF AllReduce
  <2>2. pc[r] = "reduce" /\ RankInv(r)
    BY <1>1
  <2>3. k <= BatchSize => Spreading(lens[r], k, Singletons(lens[r], k))
    <3>1. BatchSize \in Nat \ {0} /\ lens[r] \in [1..BatchSize -> Nat \ {0}]
      BY Lengths DEF AllInv
    <3> QED BY <1>5, <3>1, StartsSpreading
  <2>4. HeapInv(r)'
    BY <2>1, <2>3 DEF HeapInv
  <2>5. CountInv(r)' /\ ListInv(r)'
    BY <1>5, <2>1, <2>2 DEF CountInv, ListInv, RankInv
  <2> QED BY <1>2, <1>5, <2>1, <2>2, <2>4, <2>5 DEF RankInv
<1> QED BY <1>7, <1>8 DEF AllInv

\* A round of the merging keeps the heap spread.
LEMMA MergeTwoStep ==
  ASSUME AllInv, NEW r \in Ranks, MergeTwo(r)
  PROVE  AllInv'
<1>1. PICK s \in heap[r], t \in heap[r] :
        Popped(heap[r], s, t) /\ heap' = [heap EXCEPT ![r] = Round(@, s, t)]
  BY DEF MergeTwo
<1>2. /\ pc[r] = "partition" /\ UNCHANGED <<lens, divided, pc, num, micro, at, outputs, restored>>
      /\ heap'[r] = Round(heap[r], s, t)
  BY <1>1 DEF MergeTwo, AllInv, Shape
<1>3. Shape'
  BY <1>1, <1>2 DEF AllInv, Shape
<1>4. RankInv(r)'
  <2>1. RankInv(r)
    BY DEF AllInv
  <2>2. Spreading(lens[r], num[r], heap[r]) /\ num[r] \in Nat \ {0}
    BY <1>2, <2>1, MicroAssumption DEF RankInv, HeapInv, CountInv
  <2>3. BatchSize \in Nat \ {0} /\ lens[r] \in [1..BatchSize -> Nat \ {0}]
    BY Lengths DEF AllInv
  <2>4. Spreading(lens[r], num[r], Round(heap[r], s, t))
    BY <1>1, <2>2, <2>3, RoundSpreads
  <2>5. HeapInv(r)'
    BY <1>2, <2>4 DEF HeapInv
  <2>6. CountInv(r)' /\ ListInv(r)'
    BY <1>2, <2>1 DEF CountInv, ListInv, RankInv, RowsOf
  <2> QED BY <1>2, <2>1, <2>5, <2>6 DEF RankInv
<1>5. ASSUME NEW q \in Ranks, q # r PROVE RankInv(q)'
  <2>1. RankInv(q)
    BY DEF AllInv
  <2>2. heap'[q] = heap[q]
    BY <1>1, <1>5 DEF AllInv, Shape
  <2> QED BY <1>2, <2>1, <2>2, OtherRank
<1> QED BY <1>3, <1>4, <1>5 DEF AllInv

\* The order in which the micro-batches are run, for any set of them that share no row.
Heaviest(l, parts) == Ordered(parts, LAMBDA p, q : Heavier(l, p, q))

LEMMA HeaviestFirst ==
  ASSUME BatchSize \in Nat, NEW l \in [1..BatchSize -> Nat \ {0}],
         NEW parts \in SUBSET ((SUBSET Items) \ {{}}), IsFiniteSet(parts),
         \A p, q \in parts : p # q => p \cap q = {}
  PROVE  /\ Cardinality(parts) \in Nat
         /\ Heaviest(l, parts) \in [1..Cardinality(parts) -> parts]
         /\ \A x \in parts : \E i \in 1..Cardinality(parts) : Heaviest(l, parts)[i] = x
         /\ \A i, j \in 1..Cardinality(parts) :
              i # j => Heaviest(l, parts)[i] # Heaviest(l, parts)[j]
<1> DEFINE before == [p \in parts |-> {q \in parts : Heavier(l, q, p)}]
           n == Cardinality(parts)
           h == InOrder(parts, before)
<1>1. ASSUME NEW p \in parts PROVE Work(l, p) \in Nat /\ Min(p) \in p /\ Min(p) \in Nat
  <2>1. p \in SUBSET Nat /\ p # {} /\ p \in SUBSET (1..BatchSize)
    BY DEF Items
  <2>2. Min(p) \in p
    BY <2>1, Smallest
  <2>3. IsFiniteSet(p)
    <3>1. IsFiniteSet(1..BatchSize)
      BY FS_Interval
    <3> QED BY <2>1, <3>1, FS_Subset
  <2> DEFINE f == [i \in Items |-> l[i] * l[i]]
  <2>4. \A i \in p : f[i] \in Nat
    BY <2>1 DEF Items
  <2> HIDE DEF f
  <2>5. SumFunctionOnSet(f, p) \in Nat
    BY <2>3, <2>4, SumType
  <2> QED BY <2>1, <2>2, <2>5 DEF Work, f
<1>2. \A p, q \in parts : p # q => Min(p) # Min(q)
  BY <1>1
<1>3. \A p \in parts : ~Heavier(l, p, p)
  BY <1>1 DEF Heavier
<1>4. \A p, q \in parts : p # q => Heavier(l, p, q) \/ Heavier(l, q, p)
  BY <1>1, <1>2 DEF Heavier
<1>5. \A o, p, q \in parts : Heavier(l, o, p) /\ Heavier(l, p, q) => Heavier(l, o, q)
  BY <1>1 DEF Heavier
<1>6. before \in [parts -> SUBSET parts] /\ \A p \in parts : before[p] = {q \in parts : Heavier(l, q, p)}
  OBVIOUS
<1> HIDE DEF before
<1>7. \A p, q \in parts : q \in before[p] <=> Heavier(l, q, p)
  BY <1>6
<1>8. Heaviest(l, parts) = h
  <2>0. Heaviest(l, parts)
          = [i \in 1..n |-> CHOOSE x \in parts : Cardinality({y \in parts : Heavier(l, y, x)}) = i - 1]
    BY DEF Heaviest, Ordered
  <2>1. \A i \in 1..n : (CHOOSE x \in parts : Cardinality({y \in parts : Heavier(l, y, x)}) = i - 1)
                          = CHOOSE x \in parts : Cardinality(before[x]) = i - 1
    <3> SUFFICES ASSUME NEW i \in 1..n
                 PROVE  (CHOOSE x \in parts : Cardinality({y \in parts : Heavier(l, y, x)}) = i - 1)
                          = CHOOSE x \in parts : Cardinality(before[x]) = i - 1
      OBVIOUS
    <3>1. \A x : (x \in parts /\ Cardinality({y \in parts : Heavier(l, y, x)}) = i - 1)
                   <=> (x \in parts /\ Cardinality(before[x]) = i - 1)
      BY <1>6, Zenon
    <3> QED BY <3>1, Zenon
  <2>2. h = [i \in 1..n |-> CHOOSE x \in parts : Cardinality(before[x]) = i - 1]
    BY Zenon DEF InOrder
  <2> HIDE DEF h, n
  <2> QED BY ONLY <2>0, <2>1, <2>2, Zenon
<1>9. \A p \in parts : p \notin before[p]
  BY <1>3, <1>7
<1>10. \A p, q \in parts : q \in before[p] => before[q] \subseteq before[p]
  BY <1>5, <1>6, <1>7
<1>11. \A p, q \in parts : p # q => p \in before[q] \/ q \in before[p]
  BY <1>4, <1>7
<1> HIDE DEF n, h
<1>12. /\ n \in Nat /\ h \in [1..n -> parts]
       /\ \A x \in parts : \E i \in 1..n : h[i] = x
       /\ \A i, j \in 1..n : i < j => h[i] \in before[h[j]]
  BY <1>6, <1>9, <1>10, <1>11, Places DEF n, h
<1>13. \A i, j \in 1..n : i # j => h[i] # h[j]
  <2> SUFFICES ASSUME NEW i \in 1..n, NEW j \in 1..n, i < j PROVE h[i] # h[j]
    BY <1>12
  <2> QED BY <1>9, <1>12
<1> QED BY <1>8, <1>12, <1>13 DEF n

\* What is left of the heap becomes the micro-batches: each row in one, none empty.
LEMMA ArrangeStep ==
  ASSUME AllInv, NEW r \in Ranks, Arrange(r)
  PROVE  AllInv'
<1> DEFINE s == CHOOSE u \in heap[r] : TRUE
           f == Partitions(s)
           parts == Range(f)
           l == lens[r]
           k == num[r]
           n == Cardinality(parts)
           m == Heaviest(l, parts)
<1>1. RankInv(r) /\ pc[r] = "partition" /\ Cardinality(heap[r]) = 1
  BY DEF AllInv, Arrange
<1>2. Spreading(l, k, heap[r]) /\ k \in 1..BatchSize
  BY <1>1, MicroAssumption DEF RankInv, HeapInv, CountInv
<1>3. BatchSize \in Nat \ {0} /\ l \in [1..BatchSize -> Nat \ {0}] /\ Items = 1..BatchSize
  BY Lengths DEF AllInv
<1>4. s \in heap[r]
  <2>1. heap[r] # {}
    BY <1>1, FS_EmptySet
  <2> QED BY <2>1
<1> HIDE DEF s
<1>5. /\ f \in [1..k -> (SUBSET (1..BatchSize)) \ {{}}]
      /\ \A i, j \in 1..k : i # j => f[i] \cap f[j] = {}
      /\ UNION Range(f) = 1..BatchSize
      /\ \A p, q \in Range(f) : SumFunctionOnSet(l, p) - SumFunctionOnSet(l, q) <= Max(Range(l))
  <2>1. k \in Nat \ {0} /\ k <= BatchSize
    BY <1>2, <1>3
  <2> QED BY <1>1, <1>2, <1>3, <1>4, <2>1, SpreadOut
<1>6. parts = {f[i] : i \in 1..k} /\ parts \in SUBSET ((SUBSET Items) \ {{}}) /\ {} \notin parts
  BY <1>3, <1>5 DEF Range
<1>7. IsFiniteSet(parts)
  <2>1. f \in [1..k -> parts] /\ \A p \in parts : \E i \in 1..k : f[i] = p
    <3> HIDE DEF f, parts
    <3> QED BY <1>5, <1>6
  <2>2. IsFiniteSet(1..k)
    <3>1. 1 \in Int /\ k \in Int
      BY <1>2, <1>3
    <3> QED BY <3>1, FS_Interval
  <2> HIDE DEF f, parts, k
  <2>3. f \in Surjection(1..k, parts)
    BY <2>1 DEF Surjection
  <2> QED BY <2>2, <2>3, FS_Surjection
<1>8. \A p, q \in parts : p # q => p \cap q = {}
  BY <1>5, <1>6
<1>9. /\ pc' = [pc EXCEPT ![r] = "run"] /\ micro' = [micro EXCEPT ![r] = m]
      /\ UNCHANGED <<lens, divided, num, heap, at, outputs, restored>>
  <2>1. parts = Range(Partitions(CHOOSE u \in heap[r] : TRUE))
    BY DEF s
  <2>2. m = Ordered(parts, LAMBDA p, q : Heavier(lens[r], p, q))
    BY DEF Heaviest
  <2> HIDE DEF parts, m
  <2> QED BY <1>6, <2>1, <2>2 DEF Arrange
<1> HIDE DEF f, parts, l, k, n, m
<1>10. /\ n \in Nat /\ m \in [1..n -> parts]
       /\ \A x \in parts : \E i \in 1..n : m[i] = x
       /\ \A i, j \in 1..n : i # j => m[i] # m[j]
  <2>1. BatchSize \in Nat /\ l \in [1..BatchSize -> Nat \ {0}]
    BY <1>3
  <2>2. parts \in SUBSET ((SUBSET Items) \ {{}}) /\ IsFiniteSet(parts)
    BY <1>6, <1>7
  <2> QED BY <1>8, <2>1, <2>2, HeaviestFirst DEF n, m
<1>11. m \in Seq((SUBSET Items) \ {{}}) /\ Range(m) = parts /\ DOMAIN m = 1..n /\ Len(m) = n
  <2>1. m \in [1..n -> (SUBSET Items) \ {{}}]
    BY <1>6, <1>10
  <2> QED BY <1>10, <2>1 DEF Range
<1>12. Shape'
  BY <1>9 DEF AllInv, Shape
<1>13. RankInv(r)'
  <2>1. /\ pc'[r] = "run" /\ micro'[r] = m /\ num'[r] = k /\ lens'[r] = l /\ at'[r] = 0
        /\ outputs'[r] = <<>> /\ restored'[r] = <<>>
    BY <1>1, <1>9 DEF AllInv, Shape, RankInv, CountInv, l, k
  <2>2. \A p, q \in parts : SumFunctionOnSet(l, p) - SumFunctionOnSet(l, q) <= Max(Range(l))
    BY <1>5 DEF parts
  <2>3. ListInv(r)'
    <3>1. \A i, j \in 1..n : i # j => m[i] \cap m[j] = {}
      BY <1>8, <1>10
    <3>2. UNION parts = Items
      BY <1>3, <1>5 DEF parts
    <3>3. RowsOf(m, 0) = <<>>
      <4>1. [i \in 1..0 |-> Ascending(m[i])] = <<>>
        OBVIOUS
      <4> QED BY <4>1, FlattenNone DEF RowsOf
    <3> QED BY <1>11, <2>1, <3>1, <3>2, <3>3 DEF ListInv
  <2>4. CountInv(r)' /\ HeapInv(r)'
    BY <2>1 DEF CountInv, HeapInv
  <2>5. k \in 0..BatchSize /\ 0 \in 0..n
    BY <1>2, <1>3, <1>10
  <2> QED BY <1>11, <2>1, <2>2, <2>3, <2>4, <2>5 DEF RankInv
<1>14. ASSUME NEW q \in Ranks, q # r PROVE RankInv(q)'
  <2>1. RankInv(q)
    BY DEF AllInv
  <2>2. pc'[q] = pc[q] /\ micro'[q] = micro[q]
    BY <1>9, <1>14 DEF AllInv, Shape
  <2> QED BY <1>9, <2>1, <2>2, OtherRank
<1> QED BY <1>12, <1>13, <1>14 DEF AllInv

\* A micro-batch is run in the order of its rows.
LEMMA AscendingRows ==
  ASSUME BatchSize \in Nat, NEW p \in SUBSET Items
  PROVE  /\ Ascending(p) \in Seq(Items)
         /\ \A v : (\E j \in 1..Len(Ascending(p)) : Ascending(p)[j] = v) <=> v \in p
         /\ \A j, k \in 1..Len(Ascending(p)) : Ascending(p)[j] = Ascending(p)[k] => j = k
<1> DEFINE a == Ascending(p)
           n == Cardinality(p)
<1>1. p \in SUBSET Nat /\ IsFiniteSet(p)
  <2>1. p \in SUBSET (1..BatchSize) /\ p \in SUBSET Nat
    BY DEF Items
  <2>2. IsFiniteSet(1..BatchSize)
    BY FS_Interval
  <2> QED BY <2>1, <2>2, FS_Subset
<1>2. /\ n \in Nat /\ a \in [1..n -> p] /\ \A x \in p : \E q \in 1..n : a[q] = x
      /\ \A q, r \in 1..n : q < r => a[q] < a[r]
  BY <1>1, AscendingLists
<1> HIDE DEF a, n
<1>3. a \in [1..n -> Items] /\ \A q \in 1..n : a[q] \in p
  BY <1>2
<1>4. a \in Seq(Items) /\ Len(a) = n
  BY <1>2, <1>3
<1>5. ASSUME NEW q \in 1..n, NEW r \in 1..n, a[q] = a[r] PROVE q = r
  <2>1. a[q] \in Nat /\ a[r] \in Nat
    BY <1>1, <1>3
  <2>2. ~(q < r) /\ ~(r < q)
    BY <1>2, <1>5, <2>1
  <2> QED BY <1>2, <2>2
<1> QED BY <1>2, <1>3, <1>4, <1>5 DEF a

\* The rows of one micro-batch more.
LEMMA RowsMore ==
  ASSUME BatchSize \in Nat, NEW m \in Seq(SUBSET Items), NEW n \in Nat, n + 1 <= Len(m)
  PROVE  RowsOf(m, n + 1) = RowsOf(m, n) \o Ascending(m[n + 1])
<1> DEFINE s == [i \in 1..n + 1 |-> Ascending(m[i])]
           t == [i \in 1..n |-> Ascending(m[i])]
<1>1. s \in [1..n + 1 -> Seq(Items)]
  <2>1. \A i \in 1..n + 1 : m[i] \in SUBSET Items
    BY ElementOfSeq
  <2> QED BY <2>1, AscendingRows
<1>2. [i \in 1..n |-> s[i]] = t /\ s[n + 1] = Ascending(m[n + 1])
  <2>1. n + 1 \in 1..n + 1 /\ \A i \in 1..n : i \in 1..n + 1
    OBVIOUS
  <2> QED BY <2>1
<1> HIDE DEF s, t
<1>3. FlattenSeq(s) = FlattenSeq([i \in 1..n |-> s[i]]) \o s[n + 1]
  BY <1>1, FlattenMore
<1>4. FlattenSeq(s) = FlattenSeq(t) \o Ascending(m[n + 1])
  BY <1>2, <1>3
<1> QED BY <1>4 DEF RowsOf, s, t

\* The rows of all micro-batches that share none and have all between them: each row once.
LEMMA RowsAll ==
  ASSUME BatchSize \in Nat, NEW m \in Seq(SUBSET Items),
         \A i, j \in DOMAIN m : i # j => m[i] \cap m[j] = {}, UNION Range(m) = Items
  PROVE  /\ RowsOf(m, Len(m)) \in Seq(Items)
         /\ Len(RowsOf(m, Len(m))) = BatchSize
         /\ \A v \in Items : \E j \in Items : RowsOf(m, Len(m))[j] = v
         /\ \A j, k \in Items : RowsOf(m, Len(m))[j] = RowsOf(m, Len(m))[k] => j = k
<1> DEFINE n == Len(m)
           s == [i \in 1..n |-> Ascending(m[i])]
           x == FlattenSeq(s)
<1>1. n \in Nat /\ DOMAIN m = 1..n /\ \A i \in 1..n : m[i] \in SUBSET Items
  OBVIOUS
<1>2. ASSUME NEW i \in 1..n
      PROVE  /\ s[i] \in Seq(Items)
             /\ \A v : (\E j \in 1..Len(s[i]) : s[i][j] = v) <=> v \in m[i]
             /\ \A j, k \in 1..Len(s[i]) : s[i][j] = s[i][k] => j = k
  <2>1. m[i] \in SUBSET Items /\ s[i] = Ascending(m[i])
    BY <1>1
  <2> HIDE DEF s
  <2> QED BY <2>1, AscendingRows
<1>3. s \in [1..n -> Seq(Items)]
  <2>1. \A i \in 1..n : s[i] \in Seq(Items)
    BY <1>2
  <2> QED BY <2>1
<1> HIDE DEF n, s
<1>4. \A h, i \in 1..n : \A j \in 1..Len(s[h]), k \in 1..Len(s[i]) : s[h][j] = s[i][k] => h = i
  <2> SUFFICES ASSUME NEW h \in 1..n, NEW i \in 1..n, NEW j \in 1..Len(s[h]),
                      NEW k \in 1..Len(s[i]), s[h][j] = s[i][k]
               PROVE  h = i
    OBVIOUS
  <2>1. s[h][j] \in m[h] /\ s[i][k] \in m[i]
    BY <1>2
  <2> QED BY <1>1, <2>1
<1>5. \A i \in 1..n : \A j, k \in 1..Len(s[i]) : s[i][j] = s[i][k] => j = k
  BY <1>2
<1>6. /\ x \in Seq(Items)
      /\ \A v : (\E j \in 1..Len(x) : x[j] = v) <=> \E i \in 1..n : \E j \in 1..Len(s[i]) : s[i][j] = v
      /\ \A j, k \in 1..Len(x) : x[j] = x[k] => j = k
  <2>1. Apart(n, s)
    BY <1>4, <1>5 DEF Apart, Once
  <2>2. x \in Seq(Items) /\ (\A v : Has(x, v) <=> \E i \in 1..n : Has(s[i], v)) /\ Once(x)
    BY <1>1, <1>3, <2>1, FlattenElements
  <2> QED BY <2>2 DEF Has, Once
<1> HIDE DEF x
<1>7. \A v : (\E j \in 1..Len(x) : x[j] = v) <=> v \in Items
  <2>1. \A v : (\E i \in 1..n : \E j \in 1..Len(s[i]) : s[i][j] = v) <=> \E i \in 1..n : v \in m[i]
    BY <1>2
  <2>2. \A v : (\E i \in 1..n : v \in m[i]) <=> v \in Items
    BY <1>1 DEF Range
  <2> QED BY <1>6, <2>1, <2>2
<1>8. Len(x) = BatchSize
  <2>1. Len(x) \in Nat /\ x \in [1..Len(x) -> Items]
    BY <1>6
  <2>2. x \in Bijection(1..Len(x), Items)
    <3>1. x \in Injection(1..Len(x), Items)
      BY <1>6, <2>1 DEF Injection, IsInjective
    <3>2. x \in Surjection(1..Len(x), Items)
      BY <1>7, <2>1 DEF Surjection
    <3> QED BY <3>1, <3>2 DEF Bijection
  <2>3. /\ IsFiniteSet(1..Len(x)) /\ Cardinality(1..Len(x)) = Len(x)
        /\ IsFiniteSet(Items) /\ Cardinality(Items) = BatchSize
    <3> DEFINE len == Len(x)
    <3>0. len \in Nat
      BY <2>1
    <3> HIDE DEF len
    <3>1. IsFiniteSet(1..len) /\ Cardinality(1..len) = len
      BY <3>0, FS_Interval
    <3>2. IsFiniteSet(1..BatchSize) /\ Cardinality(1..BatchSize) = BatchSize
      BY FS_Interval
    <3> QED BY <3>1, <3>2 DEF Items, len
  <2>4. ExistsBijection(1..Len(x), Items)
    BY <2>2 DEF ExistsBijection
  <2>5. Cardinality(1..Len(x)) = Cardinality(Items)
    BY <2>3, <2>4, FS_Bijection
  <2> QED BY <2>3, <2>5
<1>9. RowsOf(m, Len(m)) = x
  BY DEF RowsOf, x, s, n
<1> QED BY <1>6, <1>7, <1>8, <1>9 DEF Items

\* The outputs of one micro-batch more.
LEMMA RunStep ==
  ASSUME AllInv, NEW r \in Ranks, RunMicroBatch(r)
  PROVE  AllInv'
<1> DEFINE m == micro[r]
           n == at[r]
<1>1. RankInv(r) /\ BatchSize \in Nat
  BY Lengths DEF AllInv
<1>2. /\ pc[r] = "run" /\ n < Len(m) /\ n \in Nat /\ Len(m) \in Nat /\ m \in Seq(SUBSET Items)
      /\ m \in Seq((SUBSET Items) \ {{}})
  BY <1>1 DEF RunMicroBatch, RankInv
<1>3. /\ at' = [at EXCEPT ![r] = @ + 1]
      /\ outputs' = [outputs EXCEPT ![r] = @ \o Ascending(micro[r][at'[r]])]
      /\ UNCHANGED <<lens, divided, pc, num, heap, micro, restored>>
  BY DEF RunMicroBatch
<1>4. at'[r] = n + 1 /\ outputs'[r] = outputs[r] \o Ascending(m[n + 1])
  BY <1>3 DEF AllInv, Shape
<1>5. Shape'
  BY <1>3 DEF AllInv, Shape
<1> HIDE DEF m, n
<1>6. RankInv(r)'
  <2>1. outputs[r] = RowsOf(m, n) /\ outputs[r] \in Seq(Items)
    BY <1>1, <1>2 DEF RankInv, ListInv, m, n
  <2>2. m[n + 1] \in SUBSET Items
    <3>1. n + 1 \in 1..Len(m)
      BY <1>2
    <3> QED BY <1>2, <3>1, ElementOfSeq
  <2>3. Ascending(m[n + 1]) \in Seq(Items)
    BY <1>1, <2>2, AscendingRows
  <2>4. outputs'[r] \in Seq(Items)
    BY <1>4, <2>1, <2>3
  <2>5. RowsOf(m, n + 1) = RowsOf(m, n) \o Ascending(m[n + 1])
    BY <1>1, <1>2, RowsMore
  <2>6. outputs'[r] = RowsOf(m, n + 1)
    BY <1>4, <2>1, <2>5
  <2>7. ListInv(r)'
    BY <1>1, <1>2, <1>3, <1>4, <2>6 DEF RankInv, ListInv, m
  <2>8. CountInv(r)' /\ HeapInv(r)'
    BY <1>1, <1>2, <1>3 DEF RankInv, CountInv, HeapInv
  <2>9. n + 1 \in 0..Len(m)
    BY <1>2
  <2> QED BY <1>1, <1>3, <1>4, <2>4, <2>7, <2>8, <2>9 DEF RankInv, m
<1>7. ASSUME NEW q \in Ranks, q # r PROVE RankInv(q)'
  <2>1. RankInv(q)
    BY DEF AllInv
  <2>2. at'[q] = at[q] /\ outputs'[q] = outputs[q]
    BY <1>3, <1>7 DEF AllInv, Shape
  <2> QED BY <1>3, <2>1, <2>2, OtherRank
<1> QED BY <1>5, <1>6, <1>7 DEF AllInv

\* restore_dynamic_batch puts what was computed in the order of the micro-batches back.
LEMMA Restores ==
  ASSUME NEW m, NEW x, x = RowsOf(m, Len(m)), DOMAIN m = 1..Len(m),
         BatchSize \in Nat, x \in Seq(Items), Len(x) = BatchSize,
         \A v \in Items : \E j \in Items : x[j] = v
  PROVE  RestoreDynamicBatch(x, m) = [i \in Items |-> i]
<1>1. DOMAIN x = Items
  BY DEF Items
<1>2. FlattenSeq([i \in DOMAIN m |-> Ascending(m[i])]) = x
  BY DEF RowsOf
<1>3. RestoreDynamicBatch(x, m) = [j \in DOMAIN x |-> x[ReverseIdx(x)[j]]]
  BY <1>2 DEF RestoreDynamicBatch
<1>4. ASSUME NEW j \in Items PROVE x[ReverseIdx(x)[j]] = j
  <2>1. \E i \in DOMAIN x : x[i] = j
    BY <1>1
  <2>2. j \in Range(x)
    BY <2>1 DEF Range
  <2>3. ReverseIdx(x)[j] = CHOOSE i \in DOMAIN x : x[i] = j
    BY <1>1, <2>2 DEF ReverseIdx
  <2> QED BY <2>1, <2>3
<1> QED BY <1>1, <1>3, <1>4

\* Restore puts them back.
LEMMA RestoreStep ==
  ASSUME AllInv, NEW r \in Ranks, Restore(r)
  PROVE  AllInv'
<1> DEFINE m == micro[r]
           x == outputs[r]
<1>1. RankInv(r) /\ BatchSize \in Nat
  BY Lengths DEF AllInv
<1>2. /\ pc[r] = "run" /\ at[r] = Len(m) /\ m \in Seq(SUBSET Items)
      /\ restored' = [restored EXCEPT ![r] = RestoreDynamicBatch(x, m)]
      /\ pc' = [pc EXCEPT ![r] = "done"]
      /\ UNCHANGED <<lens, divided, num, heap, micro, at, outputs>>
  BY <1>1 DEF Restore, RankInv
<1>3. /\ \A i, j \in DOMAIN m : i # j => m[i] \cap m[j] = {}
      /\ UNION Range(m) = Items /\ x = RowsOf(m, Len(m)) /\ DOMAIN m = 1..Len(m)
  BY <1>1, <1>2 DEF RankInv, ListInv
<1>4. pc'[r] = "done" /\ restored'[r] = RestoreDynamicBatch(x, m)
  BY <1>2 DEF AllInv, Shape
<1>5. Shape'
  BY <1>2 DEF AllInv, Shape
<1> HIDE DEF m, x
<1>6. x \in Seq(Items) /\ Len(x) = BatchSize /\ \A v \in Items : \E j \in Items : x[j] = v
  <2>1. /\ RowsOf(m, Len(m)) \in Seq(Items) /\ Len(RowsOf(m, Len(m))) = BatchSize
        /\ \A v \in Items : \E j \in Items : RowsOf(m, Len(m))[j] = v
    BY <1>1, <1>2, <1>3, RowsAll
  <2> QED BY <1>3, <2>1
<1>7. RestoreDynamicBatch(x, m) = [i \in Items |-> i]
  BY <1>1, <1>3, <1>6, Restores
<1>8. RankInv(r)'
  <2>1. [i \in Items |-> i] \in Seq(Items)
    BY <1>1 DEF Items
  <2>2. ListInv(r)'
    BY <1>1, <1>2 DEF RankInv, ListInv
  <2>3. CountInv(r)' /\ HeapInv(r)'
    BY <1>4 DEF CountInv, HeapInv
  <2> QED BY <1>1, <1>2, <1>4, <1>7, <2>1, <2>2, <2>3 DEF RankInv
<1>9. ASSUME NEW q \in Ranks, q # r PROVE RankInv(q)'
  <2>1. RankInv(q)
    BY DEF AllInv
  <2>2. pc'[q] = pc[q] /\ restored'[q] = restored[q]
    BY <1>2, <1>9 DEF AllInv, Shape
  <2> QED BY <1>2, <2>1, <2>2, OtherRank
<1> QED BY <1>5, <1>8, <1>9 DEF AllInv

\* Every step keeps the invariant.
LEMMA StepInv == AllInv /\ [Next]_vars => AllInv'
<1> SUFFICES ASSUME AllInv, [Next]_vars PROVE AllInv'
  OBVIOUS
<1>1. CASE AllReduce
  BY <1>1, AllReduceStep
<1>2. CASE \E r \in Ranks : Step(r)
  BY <1>2, CountStep, MergeTwoStep, ArrangeStep, RunStep, RestoreStep DEF Step
<1>3. CASE UNCHANGED vars
  <2>1. UNCHANGED <<lens, divided, pc, num, heap, micro, at, outputs, restored>>
    BY <1>3 DEF vars
  <2>2. Shape'
    BY <2>1 DEF AllInv, Shape
  <2>3. ASSUME NEW r \in Ranks PROVE RankInv(r)'
    <3>1. RankInv(r)
      BY DEF AllInv
    <3> QED BY <2>1, <3>1, OtherRank
  <2> QED BY <2>2, <2>3 DEF AllInv
<1> QED BY <1>1, <1>2, <1>3 DEF Next

\* It holds in every state.
LEMMA Invariance == Spec => []AllInv
BY InitInv, StepInv, PTL DEF Spec

\* The types of the variables; a rank that goes on has no more micro-batches than rows.
THEOREM MicroTypeCorrect == Spec => []TypeOK
<1>1. AllInv => TypeOK
  BY ByRank
<1> QED BY <1>1, Invariance, PTL

\* No row of a mini-batch is lost, doubled or left in an empty micro-batch while
\* karmarkar_karp merges.
THEOREM SpreadThinAlways == Spec => []SpreadThin
<1>1. AllInv => SpreadThin
  <2> SUFFICES ASSUME AllInv, NEW r \in Ranks, pc[r] = "partition"
               PROVE  /\ UNION {Placed(s) : s \in heap[r]} = Items
                      /\ \A s \in heap[r] :
                           /\ \A i, j \in DOMAIN s : i # j => ItemsOf(s[i]) \cap ItemsOf(s[j]) = {}
                           /\ Cardinality({i \in DOMAIN s : s[i].items # <<>>})
                                = Min({num[r], Cardinality(Placed(s))})
    BY DEF SpreadThin
  <2>1. /\ Spreading(lens[r], num[r], heap[r]) /\ DOMAIN lens[r] = Items
        /\ num[r] \in 0..BatchSize
    <3>1. RankInv(r)
      BY DEF AllInv
    <3> QED BY <3>1, Lengths DEF AllInv, RankInv, HeapInv
  <2>2. ASSUME NEW s \in heap[r]
        PROVE  /\ Keeps(lens[r], num[r], s) /\ Thin(num[r], s)
               /\ DOMAIN s = 1..num[r] /\ Placed(s) = ItemsIn(s)
    <3>1. Keeps(lens[r], num[r], s) /\ Thin(num[r], s) /\ s \in Solutions(num[r])
      BY <2>1 DEF Spreading, Keeps
    <3>2. DOMAIN s = 1..num[r] /\ num[r] \in Nat
      BY <2>1, <3>1, MicroAssumption DEF Solutions
    <3>3. Len(s) = num[r]
      BY <3>1, <3>2 DEF Solutions
    <3>4. Range(Partitions(s)) = {ItemsOf(s[i]) : i \in DOMAIN s}
      BY <3>2, <3>3 DEF Partitions, Range
    <3> QED BY <3>1, <3>2, <3>4 DEF Placed, ItemsIn
  <2>3. UNION {Placed(s) : s \in heap[r]} = Items
    <3>1. {Placed(s) : s \in heap[r]} = {ItemsIn(s) : s \in heap[r]}
      BY <2>2
    <3> QED BY <2>1, <3>1 DEF Spreading
  <2>4. ASSUME NEW s \in heap[r]
        PROVE  /\ \A i, j \in DOMAIN s : i # j => ItemsOf(s[i]) \cap ItemsOf(s[j]) = {}
               /\ Cardinality({i \in DOMAIN s : s[i].items # <<>>})
                    = Min({num[r], Cardinality(Placed(s))})
    BY <2>2 DEF Keeps, Thin, InUse
  <2> QED BY <2>3, <2>4
<1> QED BY <1>1, Invariance, PTL

\* Two micro-batches of a rank never differ by more than its longest row.
THEOREM BalancedAlways == Spec => []Balanced
<1>1. AllInv => Balanced
  BY ByRank
<1> QED BY <1>1, Invariance, PTL

\* Every output is back at its row when restore_dynamic_batch returns.
THEOREM RestoresOrderAlways == Spec => []RestoresOrder
<1>1. AllInv => RestoresOrder
  BY ByRank
<1> QED BY <1>1, Invariance, PTL
=============================================================================
