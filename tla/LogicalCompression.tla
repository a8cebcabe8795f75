------------------------- MODULE LogicalCompression -------------------------
(***************************************************************************)
(* Delta coding and frame-of-reference coding (delta.h, for.h).  A program *)
(* compresses a column and decompresses the result, as the validators do,  *)
(* or it decompresses a column that was encoded elsewhere.  Arrays start   *)
(* at 0; what lies behind an array is an arbitrary value (junk).           *)
(***************************************************************************)
EXTENDS Integers, FiniteSetsExt

CONSTANTS
  Word,        \* number of values of T
  FrameSize,
  Schemes,     \* the schemes used: "delta", "for"
  Columns,     \* the columns
  Provenances  \* where encoded columns come from: "compress", "elsewhere"

Value == 0 .. Word - 1

\* What the modules that instantiate this one assume of its constants.
ParameterAssumption ==
  /\ Word \in Nat \ {0} /\ FrameSize \in Nat \ {0}
  /\ \A c \in Columns :
       /\ IsFiniteSet(DOMAIN c) /\ DOMAIN c = 0 .. Cardinality(DOMAIN c) - 1
       /\ DOMAIN c # {} /\ c \in [DOMAIN c -> Value]
  /\ Schemes \subseteq {"delta", "for"}
  /\ Provenances \subseteq {"compress", "elsewhere"}

VARIABLES
  scheme, data,
  stage,        \* "column", "encoded" or "decoded"
  encoded,      \* result of compression, data of decompression
  decoded       \* result of decompression

vars == <<scheme, data, stage, encoded, decoded>>

Array(n) == 0 .. n - 1
Count(array) == Cardinality(DOMAIN array)
data_count == Count(data)

Frames == Array(data_count \div FrameSize)        \* the full ones
AllFrames == Array((data_count + FrameSize - 1) \div FrameSize)
Position == Array(FrameSize)

\* array[k], for k up to FrameSize past its end.
Junk == [Position -> Value]
Read(array, k, junk) ==
  IF k \in DOMAIN array THEN array[k] ELSE junk[k - Count(array)]

-----------------------------------------------------------------------------
(* What frame-of-reference coding means, for columns of whole frames. *)

Minimum(column, frame) ==
  Min({column[frame * FrameSize + position] : position \in Position})

ForOf(column) ==
  [k \in Array(Count(column) + Count(column) \div FrameSize) |->
     LET frame == k \div (FrameSize + 1)
         position == k % (FrameSize + 1)
     IN  IF position = 0 THEN Minimum(column, frame)
         ELSE column[frame * FrameSize + position - 1] - Minimum(column, frame)]

-----------------------------------------------------------------------------
Init ==
  /\ scheme \in Schemes
  /\ data \in Columns
  /\ \/ /\ "compress" \in Provenances
        /\ stage = "column" /\ encoded = <<>>
     \/ /\ "elsewhere" \in Provenances /\ scheme = "for"
        /\ data_count % FrameSize = 0
        /\ stage = "encoded" /\ encoded = ForOf(data)
  /\ decoded = <<>>

\* Mutant: the difference to the last delta is stored.
DeltaCompressed_InPlace ==
  [k \in DOMAIN data |->
     CASE k = 0 -> data[0]
       [] k = 1 -> (data[1] - data[0]) % Word
       [] OTHER -> (data[k] - (data[k - 1] - data[k - 2])) % Word]

DeltaCompressed ==
  [k \in DOMAIN data |->
     IF k = 0 THEN data[0] ELSE (data[k] - data[k - 1]) % Word]

delta_compression ==
  /\ scheme = "delta" /\ stage = "column"
  /\ encoded' = DeltaCompressed
  /\ stage' = "encoded"
  /\ UNCHANGED <<scheme, data, decoded>>

delta_decompression ==
  /\ scheme = "delta" /\ stage = "encoded"
  /\ \E junk \in Junk :
       decoded' = [k \in DOMAIN data |->
                     IF k = 0 THEN encoded[0]
                     ELSE (encoded[k] + Read(encoded, k + 1, junk)) % Word]
  /\ stage' = "decoded"
  /\ UNCHANGED <<scheme, data, encoded>>

FrameMin(frame, junk) ==
  Min({Word - 1} \cup
      {Read(data, frame * FrameSize + position, junk) : position \in Position})

\* The second loop of a frame reads data[position], not relative to the frame.
for_compression ==
  /\ scheme = "for" /\ stage = "column"
  /\ \E junk \in Junk :
       encoded' =
         [k \in Array(Cardinality(AllFrames) * (FrameSize + 1)) |->
            LET frame == k \div (FrameSize + 1)
                position == k % (FrameSize + 1)
            IN  IF position = 0 THEN FrameMin(frame, junk)
                ELSE (Read(data, position - 1, junk) - FrameMin(frame, junk)) % Word]
  /\ stage' = "encoded"
  /\ UNCHANGED <<scheme, data, decoded>>

\* Mutant: data_position is not moved past the minimum.
DataPosition_NoMinimum(k) == (k \div FrameSize) * FrameSize + 1 + (k % FrameSize)

DataPosition(k) == (k \div FrameSize) * (FrameSize + 1) + 1 + (k % FrameSize)

for_decompression ==
  /\ scheme = "for" /\ stage = "encoded"
  /\ decoded' =
       [k \in Array(Cardinality(AllFrames) * FrameSize) |->
          (encoded[DataPosition(k)]
            + encoded[(k \div FrameSize) * (FrameSize + 1)]) % Word]
  /\ stage' = "decoded"
  /\ UNCHANGED <<scheme, data, encoded>>

Next ==
  \/ delta_compression \/ delta_decompression
  \/ for_compression \/ for_decompression

Spec == Init /\ [][Next]_vars

-----------------------------------------------------------------------------
TypeOK ==
  /\ stage \in {"column", "encoded", "decoded"}
  /\ \A k \in DOMAIN encoded : encoded[k] \in Value
  /\ \A k \in DOMAIN decoded : decoded[k] \in Value

(* Delta coding loses nothing: the sums of the deltas, in T's arithmetic,  *)
(* are the column, also where it falls and a difference is negative.       *)
DeltaSumsToColumn ==
  (scheme = "delta" /\ stage # "column") =>
    \A k \in DOMAIN data :
      MapThenSumSet(LAMBDA j : encoded[j], 0 .. k) % Word = data[k]

(* A full frame starts with the least value of the frame, also when that   *)
(* is the greatest value of T.  The first frame, the only one encoded with *)
(* the differences of its own elements, can be restored from them; of the  *)
(* elements of the other frames nothing is kept.                           *)
FramesStartWithMinimum ==
  (scheme = "for" /\ stage # "column") =>
    /\ \A frame \in Frames :
         encoded[frame * (FrameSize + 1)] = Minimum(data, frame)
    /\ \A k \in Position \cap DOMAIN data :
         (encoded[0] + encoded[k + 1]) % Word = data[k]

(* Decompression restores every column that was encoded frame by frame.    *)
ForDecompressionInverts ==
  (scheme = "for" /\ stage = "decoded" /\ data_count % FrameSize = 0
    /\ encoded = ForOf(data)) => decoded = data

(* What the validators test: the element decompressed is the one that was  *)
(* compressed.                                                             *)
RoundTrip ==
  stage = "decoded" => \A k \in DOMAIN data : data[k] = decoded[k]
=============================================================================
