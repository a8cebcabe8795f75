----------------------------- MODULE Compression -----------------------------
(***************************************************************************)
(* The compression algorithms: vertical bit packing and logical            *)
(* compression.  They share nothing, so a behaviour is about one of them   *)
(* and the other stays in an initial state.                                *)
(***************************************************************************)
EXTENDS VerticalBitpacking

CONSTANTS
  Parts,         \* what is explored: "packing", "logical"
  Word, FrameSize, Schemes, Columns, Provenances   \* of LogicalCompression

VARIABLES part, scheme, plain, stage, encoded, decoded

Logical == INSTANCE LogicalCompression WITH data <- plain

ASSUME LogicalAssumption == Logical!ParameterAssumption

logicalVars == <<scheme, plain, stage, encoded, decoded>>
compressionVars == <<part, vars, logicalVars>>

CompressionInit ==
  /\ part \in Parts
  /\ Init
  /\ Logical!Init

CompressionNext ==
  \/ part = "packing" /\ Next /\ UNCHANGED <<part, logicalVars>>
  \/ part = "logical" /\ Logical!Next /\ UNCHANGED <<part, vars>>
  \/ part = "logical" /\ stage = "decoded" /\ UNCHANGED compressionVars

CompressionSpec == CompressionInit /\ [][CompressionNext]_compressionVars

\* The variables of both parts keep their types, and no index leaves an array.
CompressionTypeOK == TypeOK /\ Logical!TypeOK

\* What the two compressions are worth on their own: delta compression loses no
\* element, whatever delta_decompression makes of it (DeltaSumsToColumn).
\* Frame-of-reference compression keeps the minimum of each full frame, but of
\* the elements only those of the first frame (FramesStartWithMinimum).
DeltasAndMinimaKept == Logical!DeltaSumsToColumn /\ Logical!FramesStartWithMinimum

\* Frame-of-reference decompression restores what was encoded frame by frame.
ForDecompressionInverts == Logical!ForDecompressionInverts

\* What the validators of delta.h and for.h test: the elements that come back
\* are those of the column.  Neither scheme passes: delta_decompression adds the
\* next delta instead of the last element, for_compression encodes every frame
\* with the elements of the first.
RoundTrip == Logical!RoundTrip
=============================================================================
