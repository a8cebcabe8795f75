\* Three threads compare six blocks, whose results take three.
CONSTANTS
  Parts = {"tasks"}
  NUMTHREADS = 3
  Lanes = 2
  Blocks = 6
  StepWidth = 2
  WordBits = 4
  TBits = 2
  CodeSize = 1
  WRITE_VAL64 = {0, 2}
  BwTasks <- Comparisons
  BwMethod <- Method
  Sources <- MCSources
  Tasks <- MCTasks
  bufferSizesBytes <- MCSizes
  SizeArguments <- MCArguments
  minireps <- MCMinireps
  Repetitions = {0}
  Tv = {copy}
SPECIFICATION EvenSpec
INVARIANT NothingBehind
