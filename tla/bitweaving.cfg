\* Three words of three codes of two bits; one to three threads, which may not
\* all be created and may find any context.
CONSTANTS
  Parts = {"sequential", "parallel"}
  CodeSize = 2
  WordBits = 9
  data_count = 3
  VectorElemCount = 1
  NoResult = NoResult
  MAX_THREAD_COUNT = 3
  Value <- MCValue
  Predicate <- MCPredicate
  Buffer = {r1}
  NoBuffer = NoBuffer
  Unwritten = Unwritten
  Method <- cmp_neq_seq_par
  CreateMayFail = TRUE
  SizeMax = 3
  Stray <- MCStray
SPECIFICATION MCSpec
INVARIANTS
  ComparisonsExact
  HStoreTypeOK
  ContextsShareColumn
  ReturnComplete
  NoThreadLeft
PROPERTIES
  CodesKept
  CallReturns
