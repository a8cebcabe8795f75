\* Words of two codes of one bit, one or two threads.  Other memory looks like a
\* context that counts no words.
CONSTANTS
  Parts = {"parallel"}
  CodeSize = 1
  WordBits = 4
  data_count = 2
  VectorElemCount = 1
  NoResult = NoResult
  MAX_THREAD_COUNT = 2
  Value <- T
  Predicate = {{0, 2}}
  Buffer = {r1}
  NoBuffer = NoBuffer
  Unwritten = Unwritten
  Method <- cmp_neq_seq_par
  CreateMayFail = FALSE
  SizeMax = 2
  Stray <- MCEmptyRecord
SPECIFICATION HStoreSpec
INVARIANT ParallelIsSequential
