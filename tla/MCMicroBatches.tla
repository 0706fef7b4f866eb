--------------------------- MODULE MCMicroBatches ---------------------------
EXTENDS MicroBatches

\* mini-batches of four rows of one, two or five tokens, all multisets of lengths in
\* more than one order
ShortAndLong == {l \in [1..BatchSize -> {1, 2, 5}] : l[1] <= l[2] /\ l[3] >= l[4]}

\* rows of equal length
Uniform == {[i \in 1..BatchSize |-> 3]}
=============================================================================
