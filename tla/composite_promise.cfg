\* The distributions of framework.cfg, with seven trials to set.
CONSTANTS
  Parts = {"distributions"}
  Word = 16
  Wide = 256
  Streams <- MCStreams
  Lengths = {1}
  FirstValues = {0}
  DistrWord = 8
  DistrWide = 64
  Distr <- MCDistr
  Initially <- MCInitially
  PropertyValues <- MCPropertyValues
  Composites <- MCComposites
  low = low
  high = high
  bd = bd
  Numerators = {0, 1}
  Trials = {7}
  Denominators = {4}
  Offsets = {0}
  Memory = 28
  alignment = 4
  sizeof_canary = 2
  Sizes = {1}
  Counts = {1}
SPECIFICATION MCSpec
INVARIANT CompositePromise
