\* Six elements, but 600 mod 512 = 88 leaves four slots for five keys.
CONSTANTS
  Key <- MCManyKeys
  hash_fn <- MCHashManyKeys
  Word = 512
  ElementCount = 6
  LoadFactor = 20
  ProbeKeys <- MCProbeKeys
SPECIFICATION ProbeSpec
INVARIANTS
  ElemTypeOK
  CountsConserved
  ElemBuildCorrect
  ResultsInOrder
PROPERTY ElemRefinesHistogram
