------------------------- MODULE VerticalBitpacking -------------------------
(***************************************************************************)
(* vertical_bitpacking<T>: the constructor measures the bits each chunk of *)
(* a column needs and lays the packed chunks out in one allocation;        *)
(* compress() packs them with the specialisation for their width.          *)
(*                                                                         *)
(* Shifts and ORs treat the bits of a value alike, so the model follows    *)
(* bits instead of values.  An element of the column is the number of its  *)
(* significant bits; bit j of element e is <<e, j>>.  A packed word is the *)
(* set of all <<p, e, j>> such that bit j of element e was ORed into bit p *)
(* of the word.  Two different bits in one place, or a bit in a wrong one, *)
(* is a value that cannot be restored.                                     *)
(***************************************************************************)
EXTENDS Integers, Sequences

CONSTANTS
  WordSizes,         \* bits of the types T that the class is used with
  Vectors,           \* vectors in a chunk: chunk_size / vector_size
  LaneCount(_),      \* bits of T -> VE_CORE_VPU_VR_ELEMENT_COUNT
  ElementCount(_),   \* bits of T -> constructor argument count8, in elements
  ColumnsOf(_),      \* bits of T -> the columns to be packed
  Packers(_)         \* bits of T -> width -> pack, the switch of compress_impl

ASSUME SizeAssumption ==
  /\ Vectors \in Nat \ {0}
  /\ \A b \in WordSizes :
       /\ b \in Nat \ {0} /\ (b % 8) = 0
       /\ (Vectors % b) = 0    \* a packed vector is a whole number of words
       /\ LaneCount(b) \in Nat \ {0} /\ ElementCount(b) \in Nat
ASSUME ColumnAssumption ==
  \A b \in WordSizes :
    ColumnsOf(b) \subseteq [0 .. ElementCount(b) - 1 -> 0 .. b]
ASSUME PackAssumption ==
  \A b \in WordSizes : \A w \in 1 .. b :
    Packers(b)[w].batches \in Nat /\ Packers(b)[w].carry \in Seq(Nat)

\* What a specialisation of pack must be: it stores as many words as the bits
\* of Vectors values of width w fill, and takes over from the word before the
\* bits that this word had no place for.
PackersFit ==
  \A b \in WordSizes : \A w \in 1 .. b :
    LET p == Packers(b)[w]
        stores == p.batches * Len(p.carry)
    IN  /\ stores * b = w * Vectors
        /\ \A r \in 0 .. stores - 1 :
             p.carry[(r % Len(p.carry)) + 1] = (r * b) % w

VARIABLES
  WordBits,                  \* bits of T
  data,                      \* the column
  phase,                     \* what runs: a loop of the constructor, compress
  chunk,                     \* its loop variable
  chunk_max_bitwidth_array,  \* chunk -> bits of its widest element
  chunk_result_sizes,        \* chunk -> bytes of the packed chunk
  compress_size_8,           \* bytes of all packed chunks
  chunk_result_ptr,          \* chunk -> word of packed_data it starts at
  packed_data,               \* word -> its content, for the words written
  vec,                       \* pack's data: next vector of the chunk
  result                     \* pack's result: vectors of words stored

column == <<WordBits, data>>
layout == <<chunk_max_bitwidth_array, chunk_result_sizes, compress_size_8,
            chunk_result_ptr>>
vars == <<column, phase, chunk, layout, packed_data, vec, result>>

Lanes == LaneCount(WordBits)
count == ElementCount(WordBits)

chunk_size == Vectors * Lanes

chunk_count == count \div chunk_size

sizeof_T == WordBits \div 8

Element == 0 .. count - 1
Chunk == 0 .. chunk_count - 1
Lane == 0 .. Lanes - 1
Width == 0 .. WordBits

-----------------------------------------------------------------------------
(* The constructor.                                                        *)

Init ==
  /\ WordBits \in WordSizes
  /\ data \in ColumnsOf(WordBits)
  /\ phase = "measure"
  /\ chunk = 0
  /\ chunk_max_bitwidth_array = [c \in Chunk |-> 0]
  /\ chunk_result_sizes = [c \in Chunk |-> 0]
  /\ compress_size_8 = 0
  /\ chunk_result_ptr = [c \in Chunk |-> 0]
  /\ packed_data = <<>>
  /\ vec = 0
  /\ result = 0

ChunkElement(c) == c * chunk_size .. (c + 1) * chunk_size - 1

Holds(w, c) == \A e \in ChunkElement(c) : data[e] <= w

(* WordBits - clz(OR of the chunk's elements).                             *)
ChunkWidth(c) ==
  CHOOSE w \in Width : Holds(w, c) /\ \A u \in 0 .. w - 1 : ~Holds(u, c)

(* Step 1.                                                                 *)
Measure ==
  /\ phase = "measure"
  /\ chunk < chunk_count
  /\ chunk_max_bitwidth_array' =
       [chunk_max_bitwidth_array EXCEPT ![chunk] = ChunkWidth(chunk)]
  /\ chunk' = chunk + 1
  /\ UNCHANGED <<column, phase, chunk_result_sizes, compress_size_8,
                 chunk_result_ptr, packed_data, vec, result>>

(* The bytes of a packed chunk.                                            *)
SizeOf(c) == (chunk_max_bitwidth_array[c] * chunk_size) \div 8

(* Step 2.                                                                 *)
Size ==
  /\ phase = "size"
  /\ chunk < chunk_count
  /\ chunk_result_sizes' = [chunk_result_sizes EXCEPT ![chunk] = SizeOf(chunk)]
  /\ compress_size_8' = compress_size_8 + SizeOf(chunk)
  /\ chunk' = chunk + 1
  /\ UNCHANGED <<column, phase, chunk_max_bitwidth_array, chunk_result_ptr,
                 packed_data, vec, result>>

(* Mutant: the pointer advances by bytes.                                  *)
Place_Bytes ==
  /\ phase = "place"
  /\ chunk < chunk_count
  /\ chunk_result_ptr' =
       [chunk_result_ptr EXCEPT ![chunk] =
          chunk_result_ptr[chunk - 1] + chunk_result_sizes[chunk - 1]]
  /\ chunk' = chunk + 1
  /\ UNCHANGED <<column, phase, chunk_max_bitwidth_array, chunk_result_sizes,
                 compress_size_8, packed_data, vec, result>>

(* Step 4; the first chunk starts where packed_data does.                  *)
Place ==
  /\ phase = "place"
  /\ chunk < chunk_count
  /\ chunk_result_ptr' =
       [chunk_result_ptr EXCEPT ![chunk] =
          chunk_result_ptr[chunk - 1]
            + chunk_result_sizes[chunk - 1] \div sizeof_T]
  /\ chunk' = chunk + 1
  /\ UNCHANGED <<column, phase, chunk_max_bitwidth_array, chunk_result_sizes,
                 compress_size_8, packed_data, vec, result>>

(* A loop over the chunks ends and the next one begins; the one of step 4  *)
(* begins at 1.  The last is the first call of compress().                 *)
NextLoop ==
  /\ phase # "compress"
  /\ chunk >= chunk_count
  /\ phase' = CASE phase = "measure" -> "size"
                [] phase = "size" -> "place"
                [] phase = "place" -> "compress"
  /\ chunk' = IF phase = "size" THEN 1 ELSE 0
  /\ UNCHANGED <<column, layout, packed_data, vec, result>>

-----------------------------------------------------------------------------
(* compress().                                                             *)

bw == chunk_max_bitwidth_array[chunk]

packer == Packers(WordBits)[bw]

Packing == phase = "compress" /\ chunk < chunk_count

(* Mutant: one vector of words too many.                                   *)
StoresLeft_OneMore ==
  bw > 0 /\ result <= packer.batches * Len(packer.carry)

(* The chunk's width selects its specialisation; width 0 has none.         *)
StoresLeft == bw > 0 /\ result < packer.batches * Len(packer.carry)

(* The right shift of the first vector in the current word.                *)
Carry == packer.carry[(result % Len(packer.carry)) + 1]

(* Mutant: the bits of a value that did not fit the last word are lost.    *)
FirstVector_NoRemainder == vec

(* The first vector in the current word, and the one behind the last.      *)
FirstVector == IF Carry = 0 THEN vec ELSE vec - 1

EndVector == FirstVector + (WordBits + Carry + bw - 1) \div bw

(* What element e, shifted left by s, adds to a word; what falls off its   *)
(* ends is lost.                                                           *)
Shifted(e, s) ==
  {<<j + s, e, j>> : j \in {i \in 0 .. data[e] - 1 : i + s \in 0 .. WordBits - 1}}

ElementAt(c, v, l) == c * chunk_size + v * Lanes + l

PackedWord(l) ==
  UNION {Shifted(ElementAt(chunk, v, l), (v - FirstVector) * bw - Carry) :
           v \in FirstVector .. EndVector - 1}

(* From the first load of a vector of words to its store.                  *)
PackWords ==
  /\ Packing
  /\ StoresLeft
  /\ LET first == chunk_result_ptr[chunk] + result * Lanes
         written == first .. first + Lanes - 1
     IN packed_data' = [w \in DOMAIN packed_data \union written |->
                          IF w \in written THEN PackedWord(w - first)
                                           ELSE packed_data[w]]
  /\ vec' = EndVector
  /\ result' = result + 1
  /\ UNCHANGED <<column, phase, chunk, layout>>

(* pack returns, or the switch has no case for the width.                  *)
EndChunk ==
  /\ Packing
  /\ ~StoresLeft
  /\ chunk' = chunk + 1
  /\ vec' = 0
  /\ result' = 0
  /\ UNCHANGED <<column, phase, layout, packed_data>>

Packed == phase = "compress" /\ chunk >= chunk_count

(* compress() may be called again; the experiment does so ten times.       *)
CompressAgain ==
  /\ Packed
  /\ chunk' = 0
  /\ UNCHANGED <<column, phase, layout, packed_data, vec, result>>

Next == Measure \/ Size \/ Place \/ NextLoop \/ PackWords \/ EndChunk \/ CompressAgain

Spec == Init /\ [][Next]_vars

-----------------------------------------------------------------------------
(* Properties.                                                             *)

WordAddress == 0 .. compress_size_8 \div sizeof_T - 1

(* The variables keep their types, and no chunk index leaves the arrays    *)
(* the constructor allocated for them.                                     *)
TypeOK ==
  /\ WordBits \in WordSizes /\ data \in ColumnsOf(WordBits)
  /\ phase \in {"measure", "size", "place", "compress"}
  /\ chunk \in 0 .. chunk_count \/ (phase = "place" /\ chunk = 1)
  /\ chunk_max_bitwidth_array \in [Chunk -> Width]
  /\ chunk_result_sizes \in [Chunk -> Nat]
  /\ compress_size_8 \in Nat
  /\ chunk_result_ptr \in [Chunk -> Nat]
  /\ vec \in 0 .. Vectors
  /\ result \in Nat

(* pack never writes outside the memory the constructor allocated for the  *)
(* packed chunks, although it is told neither its size nor its end.        *)
WritesInBounds == DOMAIN packed_data \subseteq WordAddress

(* When pack has stored its last word it has read every vector of its      *)
(* chunk and written as many bytes as the layout gave the chunk.           *)
ChunkConsumed ==
  (Packing /\ ~StoresLeft /\ bw > 0) =>
     /\ vec = Vectors
     /\ result * Lanes * sizeof_T = chunk_result_sizes[chunk]

(* The two together: pack and the layout agree on the size of every chunk.  *)
LayoutKept == WritesInBounds /\ ChunkConsumed

(* The content of the k-th word of lane l of chunk c: the lane's values    *)
(* one after the other, chunk_max_bitwidth_array[c] bits for each.         *)
Expected(c, k, l) ==
  LET width == chunk_max_bitwidth_array[c]
      bit(p) == k * WordBits + p
      element(p) == ElementAt(c, bit(p) \div width, l)
  IN {<<p, element(p), bit(p) % width>> :
        p \in {q \in 0 .. WordBits - 1 : bit(q) % width < data[element(q)]}}

(* Every word of a packed chunk holds exactly the bits of its values, each *)
(* in its place: nothing lost over the end of a word, nothing ORed over    *)
(* something else.  Hence the values can be read back from the words and   *)
(* the chunk's width, which no value of the chunk exceeds.                  *)
PackedExactly ==
  phase = "compress" =>
    \A c \in 0 .. chunk - 1 :
      /\ Holds(chunk_max_bitwidth_array[c], c)
      /\ \A k \in 0 .. (Vectors * chunk_max_bitwidth_array[c]) \div WordBits - 1 :
           \A l \in Lane :
             LET w == chunk_result_ptr[c] + k * Lanes + l
             IN w \in DOMAIN packed_data /\ packed_data[w] = Expected(c, k, l)
=============================================================================
