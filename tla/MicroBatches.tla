---------------------------- MODULE MicroBatches ----------------------------
(***************************************************************************)
(* Dynamic batching on the data-parallel ranks of a worker group: each     *)
(* rank cuts its mini-batch into micro-batches by token count              *)
(* (rearrange_micro_batches and prepare_dynamic_batch of                   *)
(* verl/utils/seqlen_balancing.py), runs the sharded model on one after    *)
(* the other (compute_log_prob of verl/workers/actor/dp_actor.py) and puts *)
(* the outputs back into the order of the mini-batch.                      *)
(***************************************************************************)
EXTENDS KarmarkarKarp, FiniteSetsExt, SequencesExt

CONSTANTS
  Ranks,        \* the ranks of the process group
  BatchSize,    \* rows of each rank's mini-batch
  Batches,      \* the sequence lengths the rows of a mini-batch may have
  MaxTokenLen,  \* max_token_len
  DividedBy     \* the values of num_batches_divided_by, 1 for None

ASSUME MicroAssumption ==
  /\ IsFiniteSet(Ranks) /\ Ranks # {}
  /\ BatchSize \in Nat \ {0} /\ MaxTokenLen \in Nat \ {0}
  /\ DividedBy \subseteq Nat \ {0}
  /\ \A l \in Batches : l \in [1..BatchSize -> 1..MaxTokenLen]

Items == 1..BatchSize

VARIABLES
  lens,      \* seq_len_effective of each rank
  divided,   \* num_batches_divided_by, the same on all ranks
  pc,        \* where each rank is
  num,       \* num_micro_batches
  heap,      \* states_pq of karmarkar_karp
  micro,     \* micro_bsz_idx: the sequence of micro-batches, each a set of rows
  at,        \* micro-batches the rank has run
  outputs,   \* the rows of the model outputs so far, in the order computed
  restored   \* what restore_dynamic_batch returns: row of the mini-batch at each place

vars == <<lens, divided, pc, num, heap, micro, at, outputs, restored>>

Init ==
  /\ lens \in [Ranks -> Batches] /\ divided \in DividedBy
  /\ pc = [r \in Ranks |-> "count"]
  /\ num = [r \in Ranks |-> 0]
  /\ heap = [r \in Ranks |-> {}]
  /\ micro = [r \in Ranks |-> <<>>]
  /\ at = [r \in Ranks |-> 0]
  /\ outputs = [r \in Ranks |-> <<>>]
  /\ restored = [r \in Ranks |-> <<>>]

(***************************************************************************)
(* rearrange_micro_batches                                                 *)
(***************************************************************************)
CeilDiv(a, b) == (a + b - 1) \div b
RoundUp(a, b) == CeilDiv(a, b) * b

\* No caller passes min_num_micro_batch.
LocalCount(l) == Min({BatchSize, CeilDiv(SumFunction(l), MaxTokenLen)})

Count(r) ==
  /\ pc[r] = "count"
  /\ num' = [num EXCEPT ![r] = LocalCount(lens[r])]
  /\ pc' = [pc EXCEPT ![r] = "reduce"]
  /\ UNCHANGED <<lens, divided, heap, micro, at, outputs, restored>>

\* What the ranks do with the counts of all of them.  Mutant: nothing.
AgreedOwn(counts) == counts
Agreed(counts) == [r \in Ranks |-> Max(Range(counts))]

\* Mutant of AllReduce: without the assertion.
AllReduceUnchecked ==
  /\ \A r \in Ranks : pc[r] = "reduce"
  /\ num' = [r \in Ranks |-> RoundUp(Agreed(num)[r], divided)]
  /\ pc' = [r \in Ranks |-> "partition"]
  /\ heap' = [r \in Ranks |-> Singletons(lens[r], num'[r])]
  /\ UNCHANGED <<lens, divided, micro, at, outputs, restored>>

\* all_reduce(MAX) completes on every rank or on none; then the count is rounded up,
\* and there must be a row for every micro-batch.
AllReduce ==
  /\ \A r \in Ranks : pc[r] = "reduce"
  /\ num' = [r \in Ranks |-> RoundUp(Agreed(num)[r], divided)]
  /\ pc' = [r \in Ranks |-> IF num'[r] <= BatchSize THEN "partition" ELSE "raised"]
  /\ heap' = [r \in Ranks |-> IF num'[r] <= BatchSize THEN Singletons(lens[r], num'[r]) ELSE {}]
  /\ UNCHANGED <<lens, divided, micro, at, outputs, restored>>

MergeTwo(r) ==
  /\ pc[r] = "partition"
  /\ \E s, t \in heap[r] :
       /\ Popped(heap[r], s, t)
       /\ heap' = [heap EXCEPT ![r] = Round(@, s, t)]
  /\ UNCHANGED <<lens, divided, pc, num, micro, at, outputs, restored>>

\* Attention work of a micro-batch, and the order they are run in: heaviest first.
Work(l, part)   == SumFunctionOnSet([i \in Items |-> l[i] * l[i]], part)
Heavier(l, p, q) == \/ Work(l, p) > Work(l, q)
                    \/ Work(l, p) = Work(l, q) /\ Min(p) > Min(q)

\* A single solution is left; every partition must hold an item.
Arrange(r) ==
  /\ pc[r] = "partition" /\ Cardinality(heap[r]) = 1
  /\ LET parts == Range(Partitions(CHOOSE s \in heap[r] : TRUE))
     IN  IF {} \in parts
           THEN pc' = [pc EXCEPT ![r] = "raised"] /\ UNCHANGED micro
           ELSE /\ micro' = [micro EXCEPT ![r] =
                     Ordered(parts, LAMBDA p, q : Heavier(lens[r], p, q))]
                /\ pc' = [pc EXCEPT ![r] = "run"]
  /\ UNCHANGED <<lens, divided, num, heap, at, outputs, restored>>

(***************************************************************************)
(* The loop over the micro-batches.  Every forward gathers the parameter   *)
(* shards of all ranks: a rank gets through its n-th micro-batch only when *)
(* every other rank comes to its own n-th.                                 *)
(***************************************************************************)
Joins(q, n) == pc[q] \in {"run", "done"} /\ n <= Len(micro[q]) /\ at[q] >= n - 1

RunMicroBatch(r) ==
  /\ pc[r] = "run" /\ at[r] < Len(micro[r])
  /\ \A q \in Ranks : Joins(q, at[r] + 1)
  /\ at' = [at EXCEPT ![r] = @ + 1]
  /\ outputs' = [outputs EXCEPT ![r] = @ \o Ascending(micro[r][at'[r]])]
  /\ UNCHANGED <<lens, divided, pc, num, heap, micro, restored>>

\* get_reverse_idx: a copy of the map, overwritten at each of its values.
ReverseIdx(idx) ==
  [j \in DOMAIN idx |-> IF j \in Range(idx) THEN CHOOSE i \in DOMAIN idx : idx[i] = j
                                            ELSE idx[j]]

\* Mutant of RestoreDynamicBatch: indexed by the map itself.
RestoreForward(rows, parts) ==
  LET indices == FlattenSeq([i \in DOMAIN parts |-> Ascending(parts[i])])
  IN  [j \in DOMAIN rows |-> rows[indices[j]]]

RestoreDynamicBatch(rows, parts) ==
  LET indices == FlattenSeq([i \in DOMAIN parts |-> Ascending(parts[i])])
  IN  [j \in DOMAIN rows |-> rows[ReverseIdx(indices)[j]]]

Restore(r) ==
  /\ pc[r] = "run" /\ at[r] = Len(micro[r])
  /\ restored' = [restored EXCEPT ![r] = RestoreDynamicBatch(outputs[r], micro[r])]
  /\ pc' = [pc EXCEPT ![r] = "done"]
  /\ UNCHANGED <<lens, divided, num, heap, micro, at, outputs>>

Step(r) == Count(r) \/ MergeTwo(r) \/ Arrange(r) \/ RunMicroBatch(r) \/ Restore(r)

Next == AllReduce \/ \E r \in Ranks : Step(r)

Spec == Init /\ [][Next]_vars

\* No rank stops on its own, and a collective all ranks have entered completes.
FairSpec == Spec /\ WF_vars(AllReduce) /\ \A r \in Ranks : WF_vars(Step(r))

-----------------------------------------------------------------------------
(***************************************************************************)
(* Properties                                                              *)
(***************************************************************************)
TypeOK ==
  /\ lens \in [Ranks -> Batches] /\ divided \in DividedBy
  /\ pc \in [Ranks -> {"count", "reduce", "partition", "run", "done", "raised"}]
  /\ \A r \in Ranks : /\ num[r] \in IF pc[r] = "raised" THEN Nat ELSE 0..BatchSize
                      /\ micro[r] \in Seq((SUBSET Items) \ {{}})
                      /\ at[r] \in 0..Len(micro[r])
                      /\ outputs[r] \in Seq(Items) /\ restored[r] \in Seq(Items)

\* The solutions on the heap hold every row of the mini-batch in exactly one bin, and a
\* solution has as many bins in use as it has rows for, up to all of them:
\* _check_and_sort_partitions never meets an empty partition.
Placed(state) == UNION Range(Partitions(state))

SpreadThin ==
  \A r \in Ranks : pc[r] = "partition" =>
    /\ UNION {Placed(s) : s \in heap[r]} = Items
    /\ \A s \in heap[r] :
         /\ \A i, j \in DOMAIN s : i # j => ItemsOf(s[i]) \cap ItemsOf(s[j]) = {}
         /\ Cardinality({i \in DOMAIN s : s[i].items # <<>>})
              = Min({num[r], Cardinality(Placed(s))})

\* The largest and the smallest micro-batch of a rank differ by no more than its longest
\* row, whatever the lengths and the number of micro-batches (karmarkar_karp).
Balanced ==
  \A r \in Ranks : \A p, q \in Range(micro[r]) :
    SumFunctionOnSet(lens[r], p) - SumFunctionOnSet(lens[r], q) <= Max(Range(lens[r]))

\* Row i of what restore_dynamic_batch returns is the output for row i.
RestoresOrder ==
  \A r \in Ranks : pc[r] = "done" => restored[r] = [i \in Items |-> i]

\* No rank waits forever in a collective for a rank that has fewer micro-batches.
EveryRankEnds == <>(\A r \in Ranks : pc[r] \in {"done", "raised"})

\* "max_token_len (int): max sum of attention_mask per micro-batch."
WithinTokenLimit ==
  \A r \in Ranks : \A p \in Range(micro[r]) : SumFunctionOnSet(lens[r], p) <= MaxTokenLen
=============================================================================
