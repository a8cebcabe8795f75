\* Four blocks of two words for three threads; three sizes, up to three rounds.
CONSTANTS
  Parts = {"main", "tasks"}
  NUMTHREADS = 3
  Lanes = 2
  Blocks = 4
  StepWidth = 2
  WordBits = 4
  TBits = 2
  CodeSize = 1
  WRITE_VAL64 = {0, 2}
  BwTasks <- Comparisons
  BwMethod <- Method
  Sources <- MCSources
  Tasks <- MCTasks
  bufferSizesBytes <- MCSizes
  SizeArguments <- MCArguments
  minireps <- MCMinireps
  Repetitions = {0, 1, 3}
  Tv = {copy, write}
SPECIFICATION MCSpec
INVARIANTS
  BenchTypeOK
  
  ResultsSeparate
  AveragesMeaningful
