\* Five slots for four keys; two keys have the hash Word - 1.
CONSTANTS
  Key <- MCKey
  hash_fn <- MCHashNearWord
  Word = 512
  ElementCount = 5
  LoadFactor = 100
  ProbeKeys <- NoProbes
SPECIFICATION ProbeSpec
INVARIANT ElemBuildCorrect
