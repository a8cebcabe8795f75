\* Up to five values from two or three streams; two distributions and a chooser;
\* room for three buffers.
CONSTANTS
  Parts = {"generator", "distributions", "buffers"}
  Word = 16
  Wide = 256
  Streams <- MCStreams
  Lengths = {1, 3, 5}
  FirstValues = {0, 5, 9}
  DistrWord = 8
  DistrWide = 64
  Distr <- MCDistr
  Initially <- MCInitially
  PropertyValues <- MCPropertyValues
  Composites <- MCComposites
  low = low
  high = high
  bd = bd
  Numerators = {0, 1, 5}
  Trials = {0, 1, 5, 62}
  Denominators = {1, 4}
  Offsets = {0, 3, 8}
  Memory = 28
  alignment = 4
  sizeof_canary = 2
  Sizes = {1, 3}
  Counts = {1, 2}
SPECIFICATION MCSpec
INVARIANTS
  FrameworkTypeOK
  GeneratedExactly
  SortedAsAsked
  BinomialRange
  CompositeRange
  BuffersSound
PROPERTY GenerateEnds
