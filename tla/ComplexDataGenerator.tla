------------------------ MODULE ComplexDataGenerator ------------------------
(***************************************************************************)
(* The data generator of the benchmark framework: generate() takes its     *)
(* streams in turn, writes one run of values of each, and makes prefix     *)
(* sums of them and sorts them if it was told so.  Parameters change       *)
(* between calls.  SORT_VARIANT is 1 and PREFIXSUM_VARIANT 0, as in the    *)
(* file; the distributions are the sets of values they may return.         *)
(***************************************************************************)
EXTENDS Integers, Sequences, SequencesExt

CONSTANTS
  Word,         \* number of uint32_t values, 2^32
  Wide,         \* number of uint64_t values, 2^64
  Streams,      \* sequences of [values, maxValue, runlengths, oneValue]
  Lengths,      \* values of countValues a caller may ask for
  FirstValues   \* values of prefixSumFirstValue a caller may ask for

NoRunlengths == {}   \* runlengthDistr == NULL

Value == 0 .. Word - 1

ASSUME ParameterAssumption ==
  /\ Word \in Nat \ {0} /\ Wide = Word * Word
  /\ Lengths \subseteq Nat /\ FirstValues \subseteq Value
  /\ Streams \subseteq Seq([values : SUBSET Value, maxValue : Value,
                             runlengths : SUBSET Value, oneValue : BOOLEAN])
  /\ \A list \in Streams :
       /\ list # <<>>
       /\ \A n \in DOMAIN list :
            /\ list[n].values # {}
            /\ \A v \in list[n].values : v <= list[n].maxValue

VARIABLES
  streams,              \* of the generator, never changed
  sortOrder, countValues, applyPrefixSum, prefixSumFirstValue, nextStreamIdx,
  pc,                   \* "idle", or the part of generate() that runs
  out,                  \* what was written since initOut32
  lastValue, emitted,   \* of emit()
  drawn                 \* the values drawn in this call

parameters == <<streams, sortOrder, countValues, applyPrefixSum, prefixSumFirstValue>>
vars == <<parameters, nextStreamIdx, pc, out, lastValue, emitted, drawn>>

-----------------------------------------------------------------------------
(* checkIfPossible *)

\* Mutant: the first value is forgotten.
prefixSumUpperBound_NoFirst ==
  (((countValues - 1) % Wide)
    * Max({streams[n].maxValue : n \in DOMAIN streams})) % Wide

\* countValues is a size_t, and so is the product.
prefixSumUpperBound ==
  (prefixSumFirstValue
    + ((countValues - 1) % Wide)
        * Max({streams[n].maxValue : n \in DOMAIN streams})) % Wide

checkIfPossible ==
  applyPrefixSum =>
    /\ sortOrder # "none"
    /\ ~(prefixSumUpperBound >= Word - 1)

-----------------------------------------------------------------------------
Init ==
  /\ streams \in Streams
  /\ sortOrder \in {"asc", "desc", "none"}
  /\ countValues \in Lengths
  /\ applyPrefixSum = FALSE /\ prefixSumFirstValue = 0
  /\ nextStreamIdx = 0
  /\ pc = "idle"
  /\ out = <<>> /\ drawn = <<>>
  /\ lastValue = 0 /\ emitted = FALSE

setCountValues(n) ==
  /\ pc = "idle"
  /\ countValues' = n
  /\ out' = <<>> /\ drawn' = <<>>     \* the caller takes a buffer for n
  /\ UNCHANGED <<streams, sortOrder, applyPrefixSum, prefixSumFirstValue,
                 nextStreamIdx, pc, lastValue, emitted>>

setPrefixSumFirstValue(v) ==
  /\ pc = "idle"
  /\ applyPrefixSum' = TRUE /\ prefixSumFirstValue' = v
  /\ out' = <<>> /\ drawn' = <<>>
  /\ UNCHANGED <<streams, sortOrder, countValues, nextStreamIdx, pc, lastValue,
                 emitted>>

\* Mutant: emitted keeps the value of the last call.
Generate_StillEmitted ==
  /\ pc = "idle"
  /\ out' = <<>> /\ drawn' = <<>>
  /\ pc' = "streams"
  /\ UNCHANGED <<parameters, nextStreamIdx, lastValue, emitted>>

Generate ==
  /\ pc = "idle"
  /\ emitted' = FALSE
  /\ out' = <<>> /\ drawn' = <<>>
  /\ pc' = "streams"
  /\ UNCHANGED <<parameters, nextStreamIdx, lastValue>>

\* emit() is called for one value after another; sum is its static state.
emit(sum, value) ==
  IF ~applyPrefixSum
  THEN [out |-> Append(sum.out, value), last |-> sum.last, emitted |-> sum.emitted]
  ELSE LET last == IF sum.emitted THEN sum.last
                   ELSE (prefixSumFirstValue - value) % Word
           next == (last + value) % Word
       IN  [out |-> Append(sum.out, next), last |-> next, emitted |-> TRUE]

EmitAll(values) ==
  LET sum[n \in 0 .. Len(values)] ==
        IF n = 0 THEN [out |-> out, last |-> lastValue, emitted |-> emitted]
        ELSE emit(sum[n - 1], values[n])
      end == sum[Len(values)]
  IN  /\ out' = end.out /\ lastValue' = end.last /\ emitted' = end.emitted
      /\ drawn' = drawn \o values

\* Mutant: the end is taken for the last element.
valuesLeft_ToLast == (countValues - 1 - Len(out)) % Word

\* endOut32 - out32, in a uint32_t.
valuesLeft == (countValues - Len(out)) % Word

RunLengths(stream) ==
  IF stream.runlengths = NoRunlengths THEN {1}
  ELSE {Min({valuesLeft, n}) : n \in stream.runlengths}

Runs(stream) ==
  UNION {IF stream.oneValue THEN {[k \in 1 .. n |-> v] : v \in stream.values}
         ELSE [1 .. n -> stream.values] :
           n \in RunLengths(stream)}

\* Mutant: the index is not taken modulo the number of streams.
NextStream_NoWrap == nextStreamIdx + 1

NextStream == (nextStreamIdx + 1) % Len(streams)

EmitRun ==
  /\ pc = "streams"
  /\ Len(out) < countValues
  /\ \E values \in Runs(streams[nextStreamIdx + 1]) :
       /\ nextStreamIdx' = NextStream
       /\ EmitAll(values)
  /\ UNCHANGED <<parameters, pc>>

LeaveStreams ==
  /\ pc = "streams" /\ ~(Len(out) < countValues)
  /\ pc' = "finish"
  /\ UNCHANGED <<parameters, nextStreamIdx, out, lastValue, emitted, drawn>>

\* *initOut32 = prefixSumFirstValue, whatever countValues is.
PrefixSummed ==
  IF ~applyPrefixSum THEN out
  ELSE [k \in 1 .. Max({1, Len(out)}) |->
          IF k = 1 THEN prefixSumFirstValue ELSE out[k]]

\* std::sort makes one of these of the values, the one that is in order.
Arrangements(values) ==
  {s \in [DOMAIN values -> Range(values)] : ToBag(s) = ToBag(values)}

Sorted(values) ==
  CASE sortOrder = "asc" /\ ~applyPrefixSum ->
         {s \in Arrangements(values) : IsSorted(s, <=)}
    [] sortOrder = "desc" /\ applyPrefixSum -> {Reverse(values)}
    [] sortOrder = "desc" /\ ~applyPrefixSum ->
         {s \in Arrangements(values) : IsSorted(s, >=)}
    [] OTHER -> {values}

Finish ==
  /\ pc = "finish"
  /\ out' \in Sorted(PrefixSummed)
  /\ pc' = "idle"
  /\ UNCHANGED <<parameters, nextStreamIdx, lastValue, emitted, drawn>>

Next ==
  \/ \E n \in Lengths : setCountValues(n)
  \/ \E v \in FirstValues : setPrefixSumFirstValue(v)
  \/ Generate \/ EmitRun \/ LeaveStreams \/ Finish

(* A call that has begun runs on.  With several streams every step changes *)
(* the index, so nothing is assumed of the values drawn.                   *)
RunsOn == WF_vars(EmitRun \/ LeaveStreams \/ Finish)

Spec == Init /\ [][Next]_vars /\ RunsOn

-----------------------------------------------------------------------------
TypeOK ==
  /\ countValues \in Nat /\ prefixSumFirstValue \in Value
  /\ applyPrefixSum \in BOOLEAN /\ emitted \in BOOLEAN
  /\ nextStreamIdx \in 0 .. Len(streams) - 1
  /\ pc \in {"idle", "streams", "finish"}
  /\ out \in Seq(Value) /\ drawn \in Seq(Value)
  /\ lastValue \in Value

Generated == pc = "idle" /\ out # <<>>

(* getCountValues() "can be used to allocate a sufficiently large buffer": *)
(* no part of generate() writes behind it, and all of it is written.       *)
StoresInBuffer ==
  /\ Len(out) <= countValues
  /\ Generated => Len(out) = countValues

(* With prefix sums the output, read upwards, starts with the value asked  *)
(* for and grows by the values drawn, in every call, whatever an earlier   *)
(* call left in the state of emit().                                       *)
PrefixSumsExact ==
  (Generated /\ applyPrefixSum) =>
    LET sums == IF sortOrder = "desc" THEN Reverse(out) ELSE out
    IN  /\ sums[1] = prefixSumFirstValue
        /\ \A k \in 2 .. Len(sums) : sums[k] = (sums[k - 1] + drawn[k]) % Word

(* Without them the output is the values drawn, in another order at most.  *)
ValuesKept ==
  (Generated /\ ~applyPrefixSum) => ToBag(out) = ToBag(drawn)

(* What generate() writes is what was drawn, summed if it was told to.     *)
GeneratedExactly == StoresInBuffer /\ PrefixSumsExact /\ ValuesKept

(* When checkIfPossible() lets the parameters pass, the output is sorted   *)
(* as asked.  generate() sorts no prefix sums ("the output is already      *)
(* sorted"): that no sum overflows is what checkIfPossible() must ensure.  *)
SortedAsAsked ==
  (Generated /\ checkIfPossible) =>
    /\ sortOrder = "asc" => IsSorted(out, <=)
    /\ sortOrder = "desc" => IsSorted(out, >=)

(* Every call of generate() returns, though a stream may draw empty runs.  *)
GenerateEnds == (pc = "streams") ~> (pc = "idle")
=============================================================================
