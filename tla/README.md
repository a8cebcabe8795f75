# Verification of Tsubasa

TLA+ models of the data structures, algorithms and benchmarks of Tsubasa (C++ for the NEC
SX-Aurora vector engine), TLC configurations that check them on small
instances, and TLAPS proofs of the most important properties for every
instance. Paths below are relative to `src/src/`.

## The system

| Part | Source | State | Operations |
|---|---|---|---|
| Histogram hash table | `main/datastructures/set/hash_set.h`, `main/algorithms/hash/murmur3.h` | `key_container`, `key_count_container`, `container_distinct_count`; in a batched build also 256 lanes of positions, offsets and slots | four builders, five look-ups, size |
| BitWeaving/H store | `main/datastructures/common/bitweaving_h_store.h` | the column of packed codes, two partition managers, an array of threads | `format`, `create_predicate`, six comparisons, each sequential and parallel |
| Threads and partitions | `main/utils/threading.h` | chunk size, residual, thread attributes | `set_thread_count`, `get_chunk*`, `set_cpu` |
| Vertical bit packing | `main/algorithms/compression/physical/bitpacking.h`, `bitpacking_generator.cpp` | per-chunk bit widths, result sizes and pointers | constructor, `compress`, the generated `pack<bw>` |
| Logical compression | `main/algorithms/compression/logical/{delta,for,rle}.h` | none between calls | compress, decompress, validate |
| Data generation | `experiments/BenchmarkFramework/datagen/` | parameters and generators of distributions, the stream that is next | `generate`, setters, `getRndValue` |
| Aligned buffers | `experiments/BenchmarkFramework/general/buffers.{h,cpp}` | the map from buffers to their canaries | allocate, check, restore, free |
| Memory benchmark | `experiments/general_io/trimmed_ramometer/` | two buffers, a stop watch, the durations; in a task: a row and a result per OpenMP thread | measure all tasks on all sizes; copy, write, compare, aggregate, six BitWeaving comparisons |
| Utilities, other experiments | `main/utils/`, `experiments/` | - | timing, output |

How they interact. Everything but the parallel comparisons of the BitWeaving
store and the tasks of the memory benchmark runs in one thread. The tests and
experiments generate a column, build one histogram per load factor and builder
with it, and probe it with every value of the column, comparing with an
`std::unordered_map` (`test/datastructures/set/hash_set_test.cpp`). The store's
parallel comparisons fork one thread per chunk of the column and join all of them. The
bit-packing experiment allocates an aligned buffer, fills it again and again from
a composite distribution one parameter of which it varies, and packs it ten
times. The memory benchmark calls one task after the other, each with its own
OpenMP region, on the same two buffers.

What is hard. The batched builders are the core: the elements of 256 lanes are
inserted at once, a round reads the slots of all lanes before any lane stores,
the stores of a round may take effect in any order (`#pragma _NEC ivdep`), and
lanes are refilled one at a time, so that at any time lanes are at different
distances from the hashes of their keys. The element-wise builders compute the
probe path in another integer type than the look-ups. The size of the table is
computed in 32 bits. Both kinds of builders do quite different things when the
table is too small. The threads of the store's parallel comparison read a
parameter that `pthread_create` does not pass (below). What makes each part
correct:

- hash table: each input element is counted once, under its own key; a key has
  one slot; no build leaves a gap in a probe path that would make a look-up
  stop early; no load or store outside the arrays; the loops end;
- store: a comparison sets the delimiter bit of exactly the codes that satisfy
  it; the chunks of a parallel one are disjoint and cover the column;
- bit packing: the layout and the 96 unrolled programs agree on every word;
- compression: decompressing what was compressed gives the input;
- generation: the promised number of values, in the promised order, in range;
- buffers: the map describes exactly the live buffers, a canary its own;
- memory benchmark: a task does for the whole buffer what one loop would do, its
  results stay apart, and the averages are those of what was measured.

`PROJECT.json` lists the hazards at their lines under "hazards".

## Modules

| Module | Models |
|---|---|
| `Histogram` | what a build promises: positions are counted one by one, in any order. It is the reference of the repository's own test, `stl_histo`. |
| `HashTable` | the table: `container_size` as the constructor computes it, the two probe sequences, `probe`, `get_count`, `probe_count_vectorized`, the totals, and the properties of a table every builder must keep |
| `ElemBuild` | `build_scalar_elem`, `build_vectorized_elem`: extends `HashTable` |
| `BatchBuild` | `build_vectorized_batch`, `build_scalar_batch`: extends `HashTable` |
| `BitweavingColumn` | the column of a BitWeaving/H store |
| `ParallelScan` | `start_thread_with_pinning`, the thread function, `partition_manager_even_chunks` |
| `BitweavingWord` | the words of the BitWeaving store: masks, predicates, the six comparisons, on words as sets of bits |
| `BitweavingStore` | the sequential store: `format` and comparisons over a column; extends `BitweavingWord` |
| `BitweavingHStore` | the sequential store and `cmp_neq_par`, side by side: extends `BitweavingStore` and `ParallelScan` |
| `ArrayProbe` | `probe` of an array of keys in a table that was built element by element: extends `ElemBuild` |
| `PackPrograms` | the 96 specialisations of `pack` in `bitpacking_impl.h`, and the two switches that choose among them |
| `VerticalBitpacking` | the constructor and `compress` of `vertical_bitpacking`; what a specialisation does, step by step |
| `LogicalCompression` | delta and frame-of-reference coding, as the validators use them |
| `ComplexDataGenerator` | the data generator, called again and again with other parameters |
| `Distributions` | binomial distributions, their setters, and a composite of them |
| `AlignedBuffers` | the heap, the map of buffers and their canaries |
| `OmpTasks` | the tasks of the memory benchmark, in their OpenMP builds |
| `BitweavingTasks` | what its six comparisons compute from a word: extends `BitweavingWord` |
| `Ramometer` | its main program and the stop watch |
| `Compression` | `VerticalBitpacking` and `LogicalCompression`, side by side |
| `MemoryBenchmark` | `OmpTasks` and `Ramometer`, side by side |
| `Framework` | `ComplexDataGenerator`, `Distributions` and `AlignedBuffers`, side by side |
| `BasicFacts` | lemmas about natural numbers, induction, division and sums |
| `BitweavingProofs` | theorems about the words, `BitweavingStore` and the comparisons of `BitweavingTasks` |
| `HashTableProofs` | theorems about the look-ups, both builders and the array probe |
| `ParallelScanProofs`, `CompressionProofs`, `MemoryBenchmarkProofs`, `FrameworkProofs` | theorems about `ParallelScan` and the three compositions |
| `MCElemBuild`, `MCBatchBuild`, `MCBitweavingHStore`, `MCCompression`, `MCMemoryBenchmark`, `MCFramework` | instances for TLC: values for the constants, and initial states few enough. `MCCompression` puts in the 96 programs of `PackPrograms`, `MCMemoryBenchmark` the comparisons of `BitweavingTasks`. |

`BitweavingHStore`, `Compression`, `MemoryBenchmark` and `Framework` compose parts
of one class, library or program that share no state but a column none of them
changes for the other: a variable `part` tells which of them a behaviour is
about, and the others stay in an initial state. So their state spaces add up
and do not multiply. `Histogram` holds its few theorems itself.

Both builders instantiate `Histogram` with the elements they still have to
count for `pending` and with the table read as a function from keys to counts
(`TableHist`) for `hist`. The names of `ElemBuild` that `BatchBuild` has too begin
with `Elem` (`ElemNext`, `ElemTypeOK`), so that the proofs can extend both.

**State.** Variables have the names of the code's. `key_positions`, `offsets`
and `hashed_positions` are the arrays of the lanes; `hashes_offset` is a
temporary and left out, and so is `gathered_elements`, which is only compared
with 0: `todo` holds the lanes that gathered an empty slot. In the check `todo`
holds the lanes not yet checked. `loop` says which `while` loop runs, `phase`
which `for` loop in it. Keys are numbers other than 0, the marker of an empty
slot; the hash is an arbitrary function (`hash_fn`), since the build must be
correct for every one. The copies of murmur3 inlined in the batched builders and
in `probe_count_vectorized` compute the same function as `murmur3<uint32_t>`
with the seed 0 that the table uses.

**Actions of BatchBuild.** `Gather` is the first `for` loop of a round, with
its bound test (`HasElement`) in the second `while` loop and without it in the
first; `Active` says which. `StoreKey(i)` is one store of the scatter, taken in
any order; the scalar builder's order is one of them. `CountElement(i)` and
`MoveOn(i)` are the branches of the check loop, taken in lane order, since there
`max_position` and the counts depend on the lanes before. `EndRound` counts
`processable_elements` and evaluates the loop conditions.

**Actions of ElemBuild.** One step inserts one element: `CountKey` if the second
loop finds the key, `InsertKey` otherwise. The loops are described by where they
leave off (`offset_zero`, `idx_zero`, `idx_equal`), `ElemSlot` by what the
T-typed sum does: it wraps at `Word`.

**Actions of ParallelScan.** `Call` is the code up to the end of the loop that
fills the contexts; no thread runs until then, so it is one step.
`CreateThread`, `CreateFails` and `JoinThread`, `JoinNoThread` are one round of
the second and the third loop, `Return` destroys the contexts. A thread copies
the context it finds (`Enter`), writes one word per step (`WriteWord`) and ends
(`Exit`). The partition managers, the handles and the results live on from call to
call. `Method` is the expression the thread function computes: the runs put in
`cmp_neq_seq_par` of `BitweavingWord`. A failed `pthread_create` goes
unnoticed, and `pthread_join` on its handle, undefined, returns or ends the
process; `CreateMayFail` says whether this can happen.

Which context a thread finds is undefined in the code. `cmp_neq_par` casts a
pointer to the member function `cmp_neq_seq_par` to a start routine
(`bitweaving_h_store.h:177-180`), `pthread_create` passes it one argument, the
address of the thread's context, and that arrives as `this`; the parameter
`ctx_`, which the function reads (`162-163`), is whatever the register of a second
argument holds. So `Enter` copies any of the outcomes a build can have: the
thread's own context, that of another thread, or other memory read as one
(`Stray`, a constant, as what lies there is not the program's to say); and `Fault`
ends the process, if the pointer itself cannot be read, or where the context read
leads to words behind the arrays. `WordAt` is any word there, and a store behind
the array changes no word of it. What such a store does to other memory is not
modelled. The properties therefore say what the call arranges and waits for
whatever its threads do (`ContextsShareColumn`, `NoThreadLeft`, `CallReturns`), and
what it computes if every thread found its own context (`ReturnComplete`).

**BitweavingWord, BitweavingStore.** A word is the set of its bits, so that `^` is
the symmetric difference and `~` the complement; `+` adds bit by bit with carries
(`Carried`), and the carry out of the last bit is lost. `Number` is the value of a
word; that this addition is the processor's is an assumption that TLC evaluates on
the instance (`AddIsAddition`) and a theorem for every size (`AdditionIsExact`).
A comparison is one step, since nothing else runs meanwhile; `last` remembers
what was compared.

**ArrayProbe.** `Build` is a step of the build, `Probe` one round of the outer
loop: `ProbeHit(o)` if the key is found at offset `o`, `ProbeMiss` otherwise.

**VerticalBitpacking and PackPrograms.** Shifts and ORs treat the bits of a value
alike, so bits are followed, not values: an element of the column is the number
of its significant bits, a packed word the set of the bits ORed into it, each
with its place. A specialisation is straight-line code of a regular form: whole
vectors are shifted to the left until one does not fit, which is split, its upper
part beginning the next word. Written down are the number of equal batches and,
for each stored word, how many bits of its first value the word before took
(the code's `>>`); everything else follows from the width. `PackWords` is the
code from one store to the next. All lanes are treated alike, so a vector has one
or two elements instead of 256 and a chunk still 64 vectors. `Measure`, `Size`,
`Place` are the rounds of the constructor's loops, `NextLoop` the step from one
loop to the next, `CompressAgain` the experiment's further calls.

**LogicalCompression.** A call is one step. What lies behind an array is any
value (`Junk`). A column may also have been encoded elsewhere, correctly
(`ForOf`): otherwise the decompression would only ever see what the faulty
compression makes.

**ComplexDataGenerator.** A distribution is the set of values it may return.
`Generate` is the code up to the loop, `EmitRun` one round of it, `Finish` the
rest of the call; between calls the caller changes parameters. `emit` works on
the global variables `lastValue` and `emitted`. Sorting yields the same values in
order, which says all there is to say of `std::sort`. `SORT_VARIANT` is 1 and
`PREFIXSUM_VARIANT` 0, as in the file.

**Distributions.** A setter stores its value and calls `initDistribution`
(`setProperty`). If that throws, the value stays stored and the distribution of
before stays installed; the caller may catch and go on, and `refused` holds the
distributions whose last setter was refused. The sum that is validated is one of
64 bits (`Wide`), the number of trials installed is truncated to 32 (`Word`), and
`setOffset` truncates its argument. The parts of the composite are binomial
distributions, because the header that `UniformDistributionBw` derives from is not
in the repository. `composite.bounds` remembers, for the properties, the bounds
all distributions had when the composite was built. A probability of 0/0, which
`initDistribution` lets pass, is excluded.

**AlignedBuffers.** Of the memory only the canaries matter: `intact` says which
still have their value, `overrun`, which no code sees, which should not. `New`
returns any free block. Programs write one element past the end at most; where
that is wider than the canary, as an element of eight bytes is, it may damage the
canary of another buffer, too (`spilled`).

**OmpTasks.** A word is the set of its bits. `Call` is the code before the region
with the choice of a schedule (`Schedules`: any division into consecutive
ranges, the empty ones included), an `Iterate` action one row or vector of a
thread, `LeaveRegion` what a thread does after the loop, `CollectResults` what the
caller does after the region. `dst` is a function of addresses that grows when a
comparison stores behind the buffer, so that such stores show. The scalar tasks
are those of the NCC build, the vector tasks and comparisons those of the GNU
build; both have the same shape.

**Ramometer.** One action for each statement of the measuring loop; the tasks of
a size are taken in any order, their order in `tvs` is one of them. A call of the
stop watch in the wrong state ends in `pc = "thrown"`.

Definitions with an underscore in the name and a comment that begins with
"Mutant" are deliberately wrong variants of the definition below them. They are
used in no specification; substituting one must make a property fail, which
shows that the property depends on that code.

## Runs

| Run | Question | Bounds |
|---|---|---|
| `batch` | is the batched build right under every order of the stores? | 3 lanes, 5 elements, 4 keys, 4 slots |
| `elem` | is the element-wise build right where keys fit, what survives where they do not, and are the results of the array probe complete and in order? | 6 elements, 5 keys, 4 slots (100 * 6 mod 512 = 88); found, missing and repeated keys |
| `elem_offset_overflow` | does the test's comparison hold for every hash? | 5 slots, two hashes at `Word - 1`. It does not. |
| `bitweaving` | are the six sequential comparisons exact, and what does `format` leave alone? What do the contexts, threads and joins of a parallel comparison guarantee, call after call? | 3 words of 3 codes of 2 bits, all first words; 1 to 3 threads that may not all be created and find any context or a stray one |
| `neq_par` | is the parallel inequality the sequential one? | 2 words of 2 codes of 1 bit, 1 or 2 threads; other memory looks like a context that counts no words. It is not. |
| `compression` | does every specialisation of `pack` fit its chunk, word by word? What of the two codings is right? | both word sizes and every width, in columns of two chunks and a remainder; all columns of 1 to 4 elements of two bits, frames of 2 |
| `for_roundtrip` | does frame-of-reference decompression give the column back? | 4 elements. It does not. |
| `delta_roundtrip` | does delta decompression? | 1 to 4 elements. It does not. |
| `benchmark` | are the tasks right under every schedule and interleaving? Are the measurements those the averages claim? | 3 threads, 4 blocks of 2 words, 2 blocks per result; 3 sizes, 2 tasks, 0 to 3 repetitions |
| `results_behind` | do all tasks stay in the buffer? | 3 threads, 6 blocks, 2 blocks per result, the even shares of a static schedule. They do not. |
| `framework` | does `generate` do what was asked, whatever came before, and end? Do members, bounds and distribution agree? Do map, canaries and heap? | 2 or 3 streams, lengths 1, 3, 5, three first values, all orders; 3 distributions; 28 bytes, alignment 4, canary of 2 bytes |
| `composite_promise` | does a composite keep the bounds its interface promises? | the distributions of `framework`, one setter value. It does not. |

Every run of the builders starts from every column of its length over its keys,
so each covers repetitions, and each order of first occurrences. `Word` (2^32 in the code) is
512, enough to be larger than the sums that must not wrap and small enough that
others do. The hashes of `batch` put two keys on the same slot, one before them
and one behind the end, so that paths collide, overlap and go round the end of
the table, and the four keys can fill the table. Three lanes are the fewest in
which a lane stores between the gather and the store of another while a third
is already at a larger offset, and five elements the fewest for which the first
loop runs with every lane, some lanes are refilled and some are not, and the
second loop has lanes with nothing to do.

Three words among one, two and three threads give chunks without a residual and
with one. `bitweaving` fixes the column of the parallel part to different words,
so that a result at a wrong position shows, and runs any number of calls one after
the other, so that chunks left over from an earlier call do. There is one result
array: a context filled before the manager knew it has the null pointer
(`NoBuffer`). The stray context counts two words, the second of which goes behind
the array. Three codes of two bits are the fewest in which a carry can cross a
whole code.

The columns of `compression` put a chunk of every width before one of
width 3, so that a wrong size or pointer shows in the second chunk, and two with
a chunk of width 0; only the last value of a chunk has its full width, so that a
program that stops early shows too. Words of generation and logical compression
have 4, 8 or 16 values: differences, sums and products wrap in them. The 28
bytes of `framework` hold two or three buffers wherever they lie, and more than
once the same aligned address is used again; elements are of one byte, or of three,
wider than the canary. Three threads over four blocks get equal and unequal
shares and none at all; as `StepWidth` is 2, the offset of the third is the end of
the buffer, as that of the ninth of 12 threads is with a step of 8.

The words of the distributions have 8 values, wide ones 64: 62 trials and an offset
of 3 make a sum that wraps and passes, 5 and 3 one that is refused. `framework`
changes every property of one distribution, and the numerators of the
probabilities of all three (`FewChanges`).

The properties, by what they guard against:

- `RefinesHistogram`, `ElemRefinesHistogram`: each step counts exactly one
  uncounted element under its own key or changes no count; in `BatchBuild` a store
  that loses its slot must not be counted, in `ElemBuild` the count must go to the
  slot of the key;
- `CountedSlotsKept`: a slot that was counted is never taken over, although a
  lane stores on the strength of a value it read earlier;
- `NoDuplicateKeys`, `LookupsAgree`: the table is searchable at every moment,
  by the look-up that stops at an empty slot and by the one that does not;
- `KeysReadInBounds`: the first loop's loads have no bound test of their own;
- `Terminates`: no lane walks round the table for ever;
- `BuildCorrect`, `ElemBuildCorrect`: the result, as the test compares it; in
  `ElemBuild` also the agreement of the look-ups and the number of distinct keys,
  all of which hold only for columns whose keys fit the table (`Room`);
- `CountsConserved`: the element-wise counters, also in a full table;
- `ContextsShareColumn`: the contexts of a call are disjoint chunks that cover the
  column, with its own predicate and array, not those of the call before;
- `ReturnComplete`: a call whose threads found their contexts leaves no word out but
  those of threads that could not be created;
- `NoThreadLeft`: no thread outlives the contexts, whatever it was doing;
- `CallReturns`: the joins end, or the process does;
- `ComparisonsExact`: no carry reaches the next code. A delimiter bit set in the
  column spoils its own code and may spoil those above it, none below;
- `CodesKept`: `format` and comparisons do not touch the codes;
- `ResultsInOrder`: the array probe's results are those keys and counts, although
  its position advances twice;
- `PackedExactly`: no bit of any value is lost over the end of a word, put in a
  wrong place or ORed over another one, for each of the 96 programs;
- `LayoutKept`: the programs end where the layout, computed elsewhere, says, and
  none leaves the allocated memory;
- `DeltasAndMinimaKept`, `ForDecompressionInverts`: the parts of the round trips
  that do work, with wrap-around: the deltas, the minima of the frames and the
  elements of the first frame. `RoundTrip`, what the validators test, fails of both;
- `GeneratedExactly`: a run is cut at the end of the buffer, in 32 bits, and
  nothing an earlier call left behind shows in sums or values;
- `SortedAsAsked`: what `checkIfPossible` lets pass cannot overflow;
- `GenerateEnds`: empty runs do not keep a call from ending;
- `BinomialRange`: members and distribution, stored apart, agree again as soon as a
  setter is accepted, whatever was refused before; except where the validated sum
  wraps in 64 bits (`Sound`);
- `CompositeRange`: a composite's bounds, and its chooser's, are right while its
  distributions have the bounds it was built with, also after they left and
  regained them. `CompositePromise` drops that condition and fails;
- `BuffersSound`: with addresses that are handed out again, and wherever blocks
  lie, the map has the live buffers, an overrun damages the buffer's own canary,
  and no other until an element wider than a canary has been written past an end;
- `ReturnExact`: the partial results of all threads, and all of them, make up
  what a task returns; the caller does not read them before the barrier. Of
  `CompareVector`, whose threads start from uninitialised elements, it says that no
  lane is reported equal that differs; of `AggOrVector` that the lowest lanes of all
  blocks are there;
- `ResultsSeparate`: threads with uneven shares do not write over each other's
  results, and only those with a number of at least `StepWidth` write behind the
  buffer (`NothingBehind` says that none does, and fails);
- `AveragesMeaningful`: one list of sizes for buffers, measurements and averages.

**Fairness.** `BatchBuild!Spec` has weak fairness on `Next`: a single thread
runs the function, so the function goes on as long as it can.
`ParallelScan!Spec` has weak fairness on the calling thread's steps within a call
and on each created thread: the operating system runs them all, and no thread
waits but in `pthread_join`. It assumes nothing about when a call is made, nor
about which context a thread finds: a `size_t` counts the words, so that the loop
of every thread ends (`SizeMax` bounds what stray memory may hold).
`ComplexDataGenerator!RunsOn` is weak fairness of the steps within a call: a
single thread runs it. Nothing is assumed of the values a distribution returns:
the index of the stream changes with every step, so that an empty run is a step
too, and one of the lists of `framework` has a stream that may draw empty runs
for ever beside one that never does. No property of the other modules is a
liveness property.
`BatchBuild!Finished` stutters when the build is over, and so do the instances
when a decompression or the benchmark has ended or the process has crashed;
deadlock is checked in every run.

## Findings

Disagreements between the code and what its tests, comments or assertions say,
each shown by a run:

1. `hash_set.h:72`, `80`, `105`, `111`: the element-wise builders add an offset
   of type `uint32_t` to the hash, the look-ups a `size_t` (`354`, `378`).
   Where the first sum wraps, the builder continues at slot 0 + rest of another
   residue class and the look-ups do not find the key
   (`elem_offset_overflow`). The batched builders add `size_t` and are not
   affected.
2. `bitweaving_h_store.h:179`: the cast of a member function to a start routine
   leaves the parameter of the threads undefined. In the run one takes a context
   that counts no words, and the call returns without a comparison (`neq_par`).
   A thread with its own context fails, too: line `172` adds the predicate to each
   word, and the comparison stands in a comment behind it.
3. `for.h:39`: the second loop of a frame reads the elements of the first frame,
   so that decompression restores no other (`for_roundtrip`).
4. `delta.h:38`: decompression adds the next delta instead of the element before,
   so that no column of two elements is sure to come back (`delta_roundtrip`).
5. `CompositeDistribution.cpp:30`: the bounds of a composite are those of
   construction time; raising the number of trials or the offset of a part later
   is accepted and leaves them wrong (`composite_promise`).
6. `tasks.h:389`: with more threads than `data_stepwidth` a vectorised comparison
   stores behind the buffer; 12 threads and 7-bit codes are the default
   (`results_behind`).

Noticed while modelling. The models behave the same way, but no run is spent on
showing it; the properties above are stated so as to hold beside these:

- `hash_set.h:29`: `ElementCount * 100` is computed in `uint32_t`. The test's
  own sizes of 10^8 and 5 * 10^8 elements overflow. The element-wise builders
  then overwrite keys, which `elem` explores, and the batched ones never end.
- `bitpacking.h:85`: the elements behind the last full chunk are neither
  measured nor packed.
- `for.h:29`: a partial frame is read and stored past the ends of both arrays.
- `CompositeDistribution.cpp:21`: the check of the chooser, too, is one of
  construction time; `getRndValue` (`36`) does not look at the index.
- `BinomialDistribution.cpp:38`: the sum of offset and trials is one of 64 bits; a
  number of trials near 2^64 wraps and passes, and the distribution gets its lowest
  32 bits (`41`). `49`: setters store before they validate, so that a refused value
  stays until a setter is accepted.
- `ComplexDataGenerator.cpp:214`: with prefix sums a value is written even when
  none was asked for. `193`: `valuesLeft` has 32 bits, so that a call for a
  multiple of 2^32 values does not end if all streams have run lengths.
- `tasks.h:289`: `CompareVector` initialises an element behind its array of results
  and none in it, so that equal lanes may be missed. `343`: `AggOrVector` aggregates
  one lane of each vector.
- `tasks.h:418`: a comparison leaves two different buffers, which `utils.h:28`
  excludes.
- `ramometer.cpp:73`: the sizes of the command line are not used.
- `bitweaving_h_store.h:108`: `format` inverts the delimiter bits of the first
  block once per block, so that with an even number of blocks it does nothing.
- `bitweaving_h_store_experiment.cpp:81`, `87` calls `cmp_neq_par` with no threads,
  which divides by zero (`threading.h:87`).

The comment on `pack` (`bitpacking.h:42`) asks for a
result that is zeroed out; the programs assign every word they write, and
`PackedExactly` holds without it. `for.h` has a stray fragment of another class
behind its `#endif` and cannot be included as it stands; modelled are its classes.
`delta_validator` calls the compression with three arguments instead of four, so
it is modelled by what it means to test.

## Proofs

What TLAPS proves holds for all values of the constants that satisfy the named
`ASSUME`s of the modules, which TLC evaluates for the instances. They say
what the types of the code say, and: 0 is no key, there is at least one slot, one
lane, one thread, one element in a vector; a buffer of the benchmark holds whole
results (`WholeSteps`: its sizes are powers of two); a stream has values, and none
above its `maxValue`. What a theorem needs beyond that is a hypothesis of the theorem.
`PROJECT.json` lists the theorems with the properties they state.

**Histogram.** A count and the number of uncounted positions of its key
always add up to the key's occurrences (`CountsAccount`), hence the counts are
right once nothing is pending (`Complete`).

**HashTableProofs, batched build.** A probe sequence stays in the table and has
period `container_size`; if every stored key is reachable on its own path over
counted slots (`KeysReachable`), then a key has one slot (`ReachableUnique`) and
the look-ups agree with the table (`ReachableLookups`). `IInv` is inductive, one
lemma per action (`Invariance`), and implies type correctness,
`KeysReadInBounds`, `NoDuplicateKeys`, `LookupsAgree`, `CountedSlotsKept`; each step
implements a step of the abstract histogram or none (`Refinement`); with the
theorem about the abstract histogram the result is right (`BuildIsCorrect`). None
of these theorems needs as many slots as there are keys.

The argument behind `IInv`. A slot with a key has a count too, except during a
round: then a lane that has still to act is at it with the same key
(`SlotsOwned`). So a slot with no count when a lane gathered it may have a key
when the lane stores, but still no count (`SlotsGathered`), and a store disturbs
no counted slot. All slots a lane has moved over were counted for other keys
(`PathsPassed`), hence a key it stores is reachable (`KeysReachable`). None of
`NoDuplicateKeys`, `LookupsAgree` or `CountedSlotsKept` is inductive alone: they
say nothing of where the lanes are. A path of `container_size` or more slots
would contain, by periodicity, the slot the lane is about to store to, which
has no count; this gives the bound of the offset in `KeysReachable`.
`LookupsCorrect`, `BuildIsCorrect` and `ElemBuildIsCorrect` assume
`container_size + 1 < Word`, so that `container_infinity_value` does not wrap to 0
(it never does: 100 * `ElementCount` is even modulo 2^32, so that no load factor
gives 2^32 - 1 slots).

With as many slots as there are keys (`Room`) the batched build also advances: a
lane that has moved over `container_size` slots would have passed every slot, each
counted for a key other than its own: more keys than the column has
(`OffsetsStayInTable`). So each element can move only so often, and every step
lowers a weighted sum of the moves left to all elements and the steps left in the
round (`BuildAdvances`): the build goes through no state twice. Without `Room` it
can move on forever (`hash_set.h:29`, see "Findings").

**HashTableProofs, element-wise build.** That no count is lost (`Conserved`) needs
no hypothesis: it holds in a full table, too, where keys overwrite each other. The
other theorems have the hypothesis `SamePaths`, that the builder walks the path
that the look-ups walk; it follows if no hash is within `container_size` of 2^32
(`FittingHashes`), and finding 1 is what happens without it. For columns whose
keys fit (`Room`) `ElemInv` adds to the types that keys are reachable, that
stored keys were inserted, and that `container_distinct_count` is the number of
stored keys. A key that is not found gets an empty slot by a pigeonhole argument:
were its whole path occupied, all slots would be (`PathCoversTable`) and the
column would have more keys than the table slots. So each step counts the element
in the abstract histogram (`ElemRefinement`), the result is right
(`ElemBuildIsCorrect`), and the array probe reports it in order
(`ArrayProbeIsCorrect`).

**ParallelScanProofs**, for every number of words, threads and result arrays, every
`Method`, and whatever contexts the threads find. The chunks of
`partition_manager_even_chunks` lie in the column, are disjoint and cover it
(`ChunkInColumn`, `ChunksOrdered`, `ChunksCover`); `IInv` is inductive
(`Invariance`) and implies type correctness, `NoThreadLeft`, `ContextsShareColumn`
and, with `AllCreated`, `ReturnComplete` (`AllJoined`, `ColumnShared`,
`CallsComplete`).

The argument behind `IInv`. The contexts are the chunks by the number of threads of
this call, whatever the managers held before (`ManagersAgree`, `ContextsFilled`);
from this `ContextsShareColumn` follows, which alone is not inductive, since it
does not say how the contexts came about. A thread that has ended has come to the
end of what it found (`LoopsBounded`); the caller's loop variable tells which
threads can be there and which have ended (`CallerProgress`), so that none is left
behind the joins. If all threads found their own contexts, the words before a
thread's loop variable are written (`WordsWritten`), and stay so, since no other
thread's chunk contains them; so at the end of the joins all chunks are written.
`AllCreated` adds that every chunk had its thread.

`CallAdvances`: the words of the contexts found, thread entries, exits and rounds of
the caller's loops that are left add up to a number that every step of a call
lowers, in every interleaving, also if threads could not be created.

**BitweavingProofs**, for every word and code size that the class accepts. A carry
reaches a bit if some bit below generates one and those in between hand it on
(`CarryUnfolds`). Two operands whose delimiter bits are clear generate no carry at
a delimiter and hand none on, so no code disturbs the next (`DelimiterStops`,
`CarryInCode`). Within a code the carry of `p + ~x` is decided by the highest bit
in which both differ (`LookAhead`, `Subtraction`), and that bit decides the order
of the numbers, too (`NumberOrder`). `<=` and `>=` add `first_bit_mask` in a second
addition; the two carry at most once between them (`NoSecondCarry`), so a set
delimiter bit is not cleared again. `ComparisonIsExact` is the result for the six
formulas; its hypothesis is that no delimiter bit of the word is set at the
code or below it, which `format` can violate (`bitweaving_h_store.h:108`). The
theorems about the store (`ComparisonsAreExact`, `CodesStay`) follow with an
invariant that relates `result` to what was compared, and `TaskComparisonIsExact`
says the same of the formulas of the memory benchmark.

**CompressionProofs**, for every number of chunks, lanes and widths.
The composition takes the steps of the packing alone (`PackingRuns`), whose
invariant `PackInv` says, by parts: what each loop of the constructor has computed
so far, sizes and pointers being running totals of the words of the chunks before
(`Start`, `LayoutInv`); where `pack` is, the words stored ending in the last of the
vectors taken (`PlaceInv`); and that every word stored has the bits it should
(`ContentInv`). `LayoutKept` and `PackedExactly` follow (`LayoutIsKept`,
`PackingIsExact`). The programs themselves are data. The hypothesis `PackersFit`
says two things of each: it stores the words its values fill, and takes from the
word before the bits that this one had no place for. TLC evaluates it for all 96
programs and the real word sizes (`MCCompression!ProgramsFit`). For the logical
encodings, a call being one step, the invariant relates column, code
and result; with it `DeltasAndMinimaAreKept` and `ForDecompressionIsInverse` hold for
every column, frame size and word.

**MemoryBenchmarkProofs.** The invariant of the tasks (`IInv`) says of each thread
what it has done of its share: copied or written (`StoreInv`), reduced lane by
lane (`CompareInv`, `MaskInv`, `AggOrInv`), compared, with its results one behind the other
from its own offset on (`BwInv`). A schedule leaves no iteration out, so when
every thread is through, all is done (`ReturnIsExact`), for any number of threads
and every schedule; `MaskInv` bounds the masks of `CompareVector` from above only,
as they start from anything. Results of comparisons stay apart, and those of the
first `StepWidth` threads inside the buffer (`ResultsAreSeparate`): each thread's
offset is that of the thread before it and the size of all results, so that the
parts of the threads from the `StepWidth`-th on begin at the end of the buffer or
behind it (finding 6). The invariant of the main program (`MInv`) ties the stop watch to the place in the
program, the loop variables to the lists, and the number of durations kept for a
size and a task to whether it was measured in this repetition; hence
`AveragesAreMeaningful`.

**FrameworkProofs.** `BufferInv`: each buffer is where `allocateAlignedBuffer`
places it in its block, the blocks are apart and in memory, and a canary is
damaged if its own buffer was overrun, and only then as long as nothing was
`spilled`; so `BuffersStaySound` for elements of every size, wherever the allocator
puts blocks. `RandomInv`: the distribution installed is that of the members unless
the last setter was refused, and a composite's bounds are those its parts had when
it was built; so `BinomialsKeepRange` and, while the parts are back at or never left
those bounds, `CompositesKeepRange`. `GeneratorInv`: what `emit` has
written is what was drawn or its running sums, and no more than was asked for; a
run fits, because it is cut at `valuesLeft`, which is at most what is left
although it has 32 bits. `GenerationIsExact` excludes a call for no values, for
which `generate` writes one (`ComplexDataGenerator.cpp:214`), and
`SumsNeedNoSorting` calls for more than 2^32 values, for which the bound that
`checkIfPossible` computes can itself wrap in 64 bits. `GenerateAdvances`: if one
stream has no run lengths, or no 0 among them and the call is for fewer than 2^32
values, every round emits a value or comes nearer to that stream. The bound is
needed: when a multiple of 2^32 values is left, `valuesLeft` is 0 and cuts every
run to nothing (`ComplexDataGenerator.cpp:193`, see "Findings").

**BasicFacts.** Induction over data is stated for a set instead of a predicate
(`LeastElement`, `NatInductionOfSet`, `SubsetInduction`). With it the recursive
functions that the models define in `LET` are shown to exist (running
totals, sums over a finite set, the fold of `emit`), which their
equations alone do not give.

**Only model-checked** are:

- the liveness properties `Terminates`, `CallReturns` and `GenerateEnds`: liveness
  under fairness is out of the prover's reach. Their arguments are proved but for
  one part: every step lowers a natural number (`BuildAdvances`, `CallAdvances`,
  `GenerateAdvances`). That a step is possible until the end, and that it is
  taken, stays with TLC;
- that the 96 programs satisfy `PackersFit`, a finite fact, which TLC decides
  completely.


## Not modelled

- murmur3 as arithmetic (any function will do); `murmur3<uint64_t>` and the
  64-bit table, which nothing instantiates; a table of no slots (the builders
  then divide by 0); arrays longer than the address space.
- `rle.h`: its operators assign to members in const functions and cast between
  integers with `reinterpret_cast`; no instantiation compiles, so it has no
  behaviour to be faithful to. As it reads, it would not update `run_value` and
  count a run too few.
- A column shorter than a chunk (`bitpacking.h:136` writes to an array of no
  elements).
- `UniformDistributionBw`, whose base class is not in the repository, and
  `ConstantDistribution`, which only keeps a value; names, parsers and property
  keys of the data generation.
- NCC's scalar BitWeaving tasks: with OpenMP all threads share `result_array`
  (`tasks.h:1156`, `1178`) and their outputs overlap, a data race after which
  nothing can be said; without it the lane loop starts at `outer_i`
  (`tasks.h:1200`). Load and store modes, `simdabstraction.h` (its operations are
  those on sets of bits here), unaligned access by one byte.
- What a store behind an array does to the memory there: threads with a stray
  context (`ParallelScan`), partial frames (`for.h`) and the results of threads past
  `data_stepwidth` (`tasks.h:389`) write there. The models keep such writes apart
  from the arrays they have.
- CPU sets, thread priorities, clocks, the output of the experiments, build
  files and R scripts: input and output.

## Plan

All modules of the table above are built, and every safety property that a passing
run checks is proved, for the values the constants may have. Left are:

1. What a partial chunk or frame behind the last full one does
   (`bitpacking.h:85`, `for.h:29`), as properties of their own: so far they are
   described above and part of the models.
2. The step from the numbers that fall to the liveness properties, once a prover
   for `ENABLED` is at hand.
