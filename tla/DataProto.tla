----------------------------- MODULE DataProto -----------------------------
(***************************************************************************)
(* verl/protocol.py: the operations on a DataProto that move rows.  All    *)
(* columns of a batch are cut, joined and reordered at the same places, so *)
(* a DataProto is a sequence of rows, and so is each of its columns.       *)
(***************************************************************************)
EXTENDS Integers, Sequences, SequencesExt

\* repeat(n, interleave=True)
Repeat(rows, n) == [i \in 1..Len(rows) * n |-> rows[((i - 1) \div n) + 1]]

\* Mutant of Chunk: each part reaches one row into the next.
ChunkOverlapping(rows, chunks) ==
  LET size == Len(rows) \div chunks
  IN  [c \in 1..chunks |->
         SubSeq(rows, (c - 1) * size + 1, IF c < chunks THEN c * size + 1 ELSE c * size)]

\* chunk, of as many rows as can be cut into equal parts: it asserts that they can.
Chunk(rows, chunks) ==
  LET size == Len(rows) \div chunks
  IN  [c \in 1..chunks |-> SubSeq(rows, (c - 1) * size + 1, c * size)]

\* split: mini-batches of the given size, the last one of what is left.
Split(rows, size) ==
  [k \in 1..(Len(rows) + size - 1) \div size |->
     SubSeq(rows, (k - 1) * size + 1, IF k * size < Len(rows) THEN k * size ELSE Len(rows))]

Concat(parts) == FlattenSeq(parts)

\* Mutant of PadSize: the rows over, not the rows missing.
PadSizeOver(rows, d) == Len(rows) % d

\* pad_dataproto_to_divisor appends the rows again, as often as it takes.
PadSize(rows, d) == IF Len(rows) % d = 0 THEN 0 ELSE d - (Len(rows) % d)

PadToDivisor(rows, d) ==
  [i \in 1..Len(rows) + PadSize(rows, d) |-> rows[((i - 1) % Len(rows)) + 1]]

\* unpad_dataproto: rows[:-pad_size]
Unpad(rows, pad) == SubSeq(rows, 1, Len(rows) - pad)

Reorder(rows, indices) == [i \in 1..Len(indices) |-> rows[indices[i]]]
=============================================================================
