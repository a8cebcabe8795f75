\* Four elements more than lanes, four slots for four keys.
CONSTANTS
  Key <- MCKey
  hash_fn <- MCHash
  Word = 512
  ElementCount = 5
  LoadFactor = 125
  LaneCount = 3
SPECIFICATION Spec
INVARIANTS
  TypeOK
  KeysReadInBounds
  NoDuplicateKeys
  LookupsAgree
  BuildCorrect
PROPERTIES
  CountedSlotsKept
  RefinesHistogram
  Terminates
