------------------------------ MODULE Framework ------------------------------
(***************************************************************************)
(* The benchmark framework: its data generator, its distributions and its  *)
(* aligned buffers.  The bit-packing experiment uses all three, but none   *)
(* reads the state of another, so a behaviour is about one of them and the *)
(* others stay in an initial state.                                        *)
(***************************************************************************)
EXTENDS ComplexDataGenerator

CONSTANTS
  Parts,         \* what is explored: "generator", "distributions", "buffers"
  DistrWord, DistrWide, Distr, Initially, PropertyValues,   \* of Distributions
  Composites,
  Memory, alignment, sizeof_canary, Sizes, Counts           \* of AlignedBuffers

VARIABLES
  part,
  property, distribution, refused, composite,
  heap, bufferDataMap, shape, intact, overrun, spilled

Random == INSTANCE Distributions WITH Word <- DistrWord, Wide <- DistrWide

Buffer == INSTANCE AlignedBuffers

ASSUME RandomAssumption == Random!ParameterAssumption
ASSUME BufferAssumption == Buffer!ParameterAssumption

-----------------------------------------------------------------------------
randomVars == <<property, distribution, refused, composite>>
bufferVars == <<heap, bufferDataMap, shape, intact, overrun, spilled>>
frameworkVars == <<part, vars, randomVars, bufferVars>>

FrameworkInit ==
  /\ part \in Parts
  /\ Init
  /\ Random!Init
  /\ Buffer!Init

FrameworkNext ==
  \/ part = "generator" /\ Next /\ UNCHANGED <<part, randomVars, bufferVars>>
  \/ part = "distributions" /\ Random!Next /\ UNCHANGED <<part, vars, bufferVars>>
  \/ part = "buffers" /\ Buffer!Next /\ UNCHANGED <<part, vars, randomVars>>

FrameworkSpec == FrameworkInit /\ [][FrameworkNext]_frameworkVars /\ RunsOn

\* The variables of the three parts keep their types.
FrameworkTypeOK == TypeOK /\ Random!TypeOK /\ Buffer!TypeOK

\* getMinValue() and getMaxValue() bound what a binomial distribution returns.
BinomialRange == Random!BinomialRange

\* The same of a composite whose distributions kept their bounds, and its
\* chooser returns an index of a distribution.
CompositeRange == Random!CompositeRange

\* A composite's bounds hold at every time, as RandomDistribution.h has it.
CompositePromise == Random!CompositePromise

\* Every buffer is aligned, in a block of its own, and guarded by its canary.
BuffersSound == Buffer!BuffersSound
=============================================================================
