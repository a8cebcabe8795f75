---------------------------- MODULE MCCompression ----------------------------
(***************************************************************************)
(* The compression algorithms for TLC, with the packers of the repository  *)
(* for both types.                                                         *)
(***************************************************************************)
EXTENDS Compression, PackPrograms

CONSTANT
  DataCounts     \* the lengths of the columns of LogicalCompression

\* All 96 specialisations of pack take the vectors a word needs.
ASSUME ProgramsFit == PackersFit

-----------------------------------------------------------------------------
(* Columns of two chunks, a vector has two elements or one.                *)

MCLaneCount(b) == 64 \div b

MCElementCount(b) == 2 * Vectors * MCLaneCount(b) + 2

\* A chunk in which only the last value needs w bits.
ChunkOf(b, w) ==
  LET last == Vectors * MCLaneCount(b) - 1
  IN  [i \in 0 .. last |-> IF w = 0 \/ i = last THEN w ELSE i % w]

\* Wide values follow the last full chunk.
ColumnOf(b, w1, w2) ==
  LET size == Vectors * MCLaneCount(b)
  IN  [e \in 0 .. MCElementCount(b) - 1 |->
         CASE e < size -> ChunkOf(b, w1)[e]
           [] e \in size .. 2 * size - 1 -> ChunkOf(b, w2)[e - size]
           [] OTHER -> b]

\* Every width, followed by a chunk of 3 bits; and before an empty chunk.
AllWidths(b) ==
  {ColumnOf(b, w, 3) : w \in 0 .. b} \union
    {ColumnOf(b, 5, 0), ColumnOf(b, 0, 0)}

MCPackers(b) == IF b = 32 THEN compress_impl32 ELSE compress_impl64

\* All columns of some lengths.
MCColumns == UNION {[0 .. n - 1 -> 0 .. Word - 1] : n \in DataCounts}

-----------------------------------------------------------------------------
\* Each part is explored with one initial state of the other.
MCInit ==
  /\ part \in Parts
  /\ part # "packing" => WordBits = 64 /\ data = ColumnOf(64, 0, 0)
  /\ part # "logical" => plain = [k \in {0} |-> 0] /\ scheme = "delta"
  /\ CompressionInit

MCSpec == MCInit /\ [][CompressionNext]_compressionVars
=============================================================================
