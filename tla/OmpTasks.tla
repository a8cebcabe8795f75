------------------------------ MODULE OmpTasks ------------------------------
(***************************************************************************)
(* The tasks of the memory benchmark (trimmed_ramometer/tasks.h) in their  *)
(* OpenMP builds: NUMTHREADS threads share the iterations of a task's loop *)
(* ("omp for schedule( static )"), an iteration handles a block of Lanes   *)
(* words.  The benchmark calls one task after the other on two buffers.    *)
(*                                                                         *)
(* A word is the set of its bits, so "&" is \intersect and "|" is \union.  *)
(* A block is a row of MVS words of the scalar tasks (NCC) or a vector of  *)
(* the others (GNU), whose lanes are what the task tells apart in it.      *)
(***************************************************************************)
EXTENDS Integers, FiniteSets

CONSTANTS
  NUMTHREADS,
  Lanes,            \* words of a block: MVS, or the words of a vector
  Blocks,           \* blocks of the buffers
  StepWidth,        \* data_stepwidth, blocks that give one block of results
  WordBits,         \* bits of a word
  TBits,            \* bits of the template parameter T
  WRITE_VAL64,      \* the word both buffers are filled with
  Sources,          \* the contents the source buffer may have
  Tasks,            \* the tasks of the build
  BwTasks,          \* those that are BitWeaving comparisons
  BwMethod(_, _)    \* what a comparison computes from a word

Thread == 0 .. NUMTHREADS - 1
Lane == 0 .. Lanes - 1
Bit == 0 .. WordBits - 1
TBit == 0 .. TBits - 1
WordValue == SUBSET Bit
Address == 0 .. Blocks * Lanes - 1

ASSUME ThreadAssumption == NUMTHREADS \in Nat \ {0}
ASSUME BlockAssumption ==
  Lanes \in Nat \ {0} /\ Blocks \in Nat /\ StepWidth \in Nat \ {0}
ASSUME BitAssumption ==
  /\ WordBits \in Nat \ {0} /\ TBits \in 1 .. WordBits
  /\ WRITE_VAL64 \in WordValue
ASSUME SourceAssumption == Sources \subseteq [Address -> WordValue]
\* All buffer sizes of the benchmark are powers of two.
ASSUME WholeSteps == (Blocks % StepWidth) = 0
PlainTasks ==
  {"CopyScalar", "WriteScalar", "CompareScalar", "AggOrScalar",
   "CopyVector", "WriteVector", "CompareVector", "AggOrVector"}

ASSUME TaskAssumption ==
  Tasks \subseteq PlainTasks \union BwTasks /\ PlainTasks \intersect BwTasks = {}
ASSUME MethodAssumption ==
  \A k \in BwTasks, v \in WordValue : BwMethod(k, v) \in WordValue

VARIABLES
  src, dst,        \* the buffers
  task,            \* the task that runs, or ran last
  pc,              \* where its caller is: idle, parallel (region), return
  cut,             \* the schedule: thread t runs iterations cut[t] .. cut[t+1]-1
  tpc,             \* where each thread is: loop, exit
  iteration,       \* its loop variable
  result_array,    \* its private words, one for each lane
  thread_results,  \* the shared array of the threads' results
  outpos,          \* the block of dst it writes its next results to
  result           \* what the task returns

vars == <<src, dst, task, pc, cut, tpc, iteration, result_array,
          thread_results, outpos, result>>

-----------------------------------------------------------------------------
IsBw(k) == k \in BwTasks

Iterations(k) == IF IsBw(k) THEN Blocks \div StepWidth ELSE Blocks

\* How OpenMP may divide n iterations: a range for each thread, in order.
Schedules(n) ==
  {c \in [0 .. NUMTHREADS -> 0 .. n] :
     /\ c[0] = 0 /\ c[NUMTHREADS] = n
     /\ \A t \in Thread : c[t] <= c[t + 1]}

\* The neutral value of a reduction: ( T ) -1 of "&", 0 of "|".
Neutral(k) == IF k \in {"CompareScalar", "CompareVector"} THEN Bit ELSE {}

\* The threads' results before the parallel region.  CompareVector assigns to
\* result_array[ NUMTHREADS ] in its loop, never to an element.
InitialResults(k) ==
  IF k = "CompareVector" THEN [Thread -> SUBSET TBit]
  ELSE {[t \in Thread |-> Neutral(k)]}

\* Mutant: the threads' results lie as if they were dense.
ResultOffset_Dense(t) == t * ((Blocks \div StepWidth) \div NUMTHREADS)

\* thread_results_offset[ t ], in blocks.
ResultOffset(t) == t * (Blocks \div StepWidth)

\* Outside a call its local variables do not exist.
NoLocals ==
  [cut |-> [t \in 0 .. NUMTHREADS |-> 0],
   tpc |-> [t \in Thread |-> "exit"],
   iteration |-> [t \in Thread |-> 0],
   result_array |-> [t \in Thread |-> [l \in Lane |-> {}]],
   thread_results |-> [t \in Thread |-> {}],
   outpos |-> [t \in Thread |-> 0]]

Init ==
  /\ src \in Sources
  /\ dst = [a \in Address |-> WRITE_VAL64]
  /\ task \in Tasks
  /\ pc = "idle"
  /\ cut = NoLocals.cut
  /\ tpc = NoLocals.tpc
  /\ iteration = NoLocals.iteration
  /\ result_array = NoLocals.result_array
  /\ thread_results = NoLocals.thread_results
  /\ outpos = NoLocals.outpos
  /\ result = {}

\* doIt up to the parallel region, and the threads' start in it.
Call(k) ==
  /\ pc = "idle"
  /\ task' = k
  /\ pc' = "parallel"
  /\ cut' \in Schedules(Iterations(k))
  /\ tpc' = [t \in Thread |-> "loop"]
  /\ iteration' = [t \in Thread |-> cut'[t]]
  /\ result_array' = [t \in Thread |-> [l \in Lane |-> Neutral(k)]]
  /\ thread_results' \in InitialResults(k)
  /\ outpos' = [t \in Thread |-> ResultOffset(t)]
  /\ UNCHANGED <<src, dst, result>>

\* The word of lane l in block b.
Source(b, l) == src[b * Lanes + l]

Store(b, words) ==
  LET written == b * Lanes .. (b + 1) * Lanes - 1
  IN dst' = [a \in DOMAIN dst \union written |->
               IF a \in written THEN words[a - b * Lanes] ELSE dst[a]]

ShiftRight(w, n) == {b - n : b \in {x \in w : x >= n}}

\* The words that iteration i of comparison k stores.
BwResult(k, i) ==
  [l \in Lane |->
     UNION {ShiftRight(BwMethod(k, Source(i * StepWidth + chunk_i, l)), chunk_i) :
              chunk_i \in 0 .. StepWidth - 1}]

\* Whether a word equals the constant; a C truth value.
Equal(w) == IF w = WRITE_VAL64 THEN {0} ELSE {}

\* Mutant: the loop runs one round too far.
InLoop_OneMore(t) ==
  /\ tpc[t] = "loop"
  /\ iteration[t] <= cut[t + 1]
  /\ iteration' = [iteration EXCEPT ![t] = @ + 1]
  /\ UNCHANGED <<src, task, pc, cut, tpc, result>>

\* The head of a loop over a thread's iterations.
InLoop(t) ==
  /\ tpc[t] = "loop"
  /\ iteration[t] < cut[t + 1]
  /\ iteration' = [iteration EXCEPT ![t] = @ + 1]
  /\ UNCHANGED <<src, task, pc, cut, tpc, result>>

CopyBlock(t) ==
  /\ task \in {"CopyScalar", "CopyVector"}
  /\ InLoop(t)
  /\ Store(iteration[t], [l \in Lane |-> Source(iteration[t], l)])
  /\ UNCHANGED <<result_array, thread_results, outpos>>

WriteBlock(t) ==
  /\ task \in {"WriteScalar", "WriteVector"}
  /\ InLoop(t)
  /\ Store(iteration[t], [l \in Lane |-> WRITE_VAL64])
  /\ UNCHANGED <<result_array, thread_results, outpos>>

CompareBlock(t) ==
  /\ task = "CompareScalar"
  /\ InLoop(t)
  /\ result_array' = [result_array EXCEPT ![t] =
       [l \in Lane |-> @[l] \intersect Equal(Source(iteration[t], l))]]
  /\ UNCHANGED <<dst, thread_results, outpos>>

AggOrBlock(t) ==
  /\ task \in {"AggOrScalar", "AggOrVector"}
  /\ InLoop(t)
  /\ result_array' = [result_array EXCEPT ![t] =
       [l \in Lane |-> @[l] \union Source(iteration[t], l)]]
  /\ UNCHANGED <<dst, thread_results, outpos>>

\* cmpeq_epi32_mask has a bit for each lane that is equal.
CompareMask(t) ==
  /\ task = "CompareVector"
  /\ InLoop(t)
  /\ thread_results' = [thread_results EXCEPT ![t] =
       @ \intersect {l \in Lane : Source(iteration[t], l) = WRITE_VAL64}]
  /\ UNCHANGED <<dst, result_array, outpos>>

\* The vectorised comparisons: one iteration of "most_outer_i".
BwBlock(t) ==
  /\ IsBw(task)
  /\ InLoop(t)
  /\ Store(outpos[t], BwResult(task, iteration[t]))
  /\ outpos' = [outpos EXCEPT ![t] = @ + 1]
  /\ UNCHANGED <<result_array, thread_results>>

\* What thread t leaves in thread_results[ t ] at the end of the region: its
\* lanes, or (extract_lowest_epi64, as a T) the lowest one of them.
Folded(t) ==
  CASE task = "CompareScalar" ->
         {b \in thread_results[t] : \A l \in Lane : b \in result_array[t][l]}
    [] task = "AggOrScalar" -> UNION {result_array[t][l] : l \in Lane}
    [] task = "AggOrVector" -> result_array[t][0] \intersect TBit
    [] OTHER -> thread_results[t]

\* Mutant: no barrier ends the region.
EndOfRegion_NoBarrier == pc = "parallel"

\* The barrier at the end of the region.
EndOfRegion == pc = "parallel" /\ \A t \in Thread : tpc[t] = "exit"

\* The rest of the region, after the barrier at the end of the loop.
LeaveRegion(t) ==
  /\ tpc[t] = "loop"
  /\ \A u \in Thread : iteration[u] = cut[u + 1]
  /\ tpc' = [tpc EXCEPT ![t] = "exit"]
  /\ thread_results' = [thread_results EXCEPT ![t] = Folded(t)]
  /\ UNCHANGED <<src, dst, task, pc, cut, iteration, result_array, outpos, result>>

\* The loop over the threads' results, and the return.
CollectResults ==
  /\ EndOfRegion
  /\ result' =
       CASE task = "CompareScalar" ->
              {b \in Bit : \A t \in Thread : b \in thread_results[t]}
         [] task = "CompareVector" ->
              {b \in TBit : \A t \in Thread : b \in thread_results[t]}
         [] task \in {"AggOrScalar", "AggOrVector"} ->
              UNION {thread_results[t] : t \in Thread}
         [] OTHER -> {}
  /\ pc' = "return"
  /\ UNCHANGED <<src, dst, task, cut, tpc, iteration, result_array,
                 thread_results, outpos>>

\* The caller goes on to the next call; nobody looks at the result.
Return ==
  /\ pc = "return"
  /\ pc' = "idle"
  /\ cut' = NoLocals.cut
  /\ tpc' = NoLocals.tpc
  /\ iteration' = NoLocals.iteration
  /\ result_array' = NoLocals.result_array
  /\ thread_results' = NoLocals.thread_results
  /\ outpos' = NoLocals.outpos
  /\ result' = {}
  /\ UNCHANGED <<src, dst, task>>

Iterate(t) ==
  \/ CopyBlock(t) \/ WriteBlock(t) \/ CompareBlock(t) \/ AggOrBlock(t)
  \/ CompareMask(t) \/ BwBlock(t)

Next ==
  \/ \E k \in Tasks : Call(k)
  \/ \E t \in Thread : Iterate(t) \/ LeaveRegion(t)
  \/ CollectResults
  \/ Return

Spec == Init /\ [][Next]_vars

-----------------------------------------------------------------------------
(* Properties.                                                             *)

\* The variables keep their types, whatever has been stored behind dst.
TypeOK ==
  /\ src \in Sources
  /\ \A a \in DOMAIN dst : dst[a] \in WordValue
  /\ Address \subseteq DOMAIN dst
  /\ task \in Tasks
  /\ pc \in {"idle", "parallel", "return"}
  /\ \E n \in {Iterations(k) : k \in Tasks} \union {0} :
       cut \in [0 .. NUMTHREADS -> 0 .. n]
  /\ tpc \in [Thread -> {"loop", "exit"}]
  /\ \A t \in Thread : iteration[t] \in 0 .. cut[t + 1]
  /\ result_array \in [Thread -> [Lane -> WordValue]]
  /\ thread_results \in [Thread -> WordValue]
  /\ outpos \in [Thread -> Nat]
  /\ result \in WordValue

\* What the sequential loop over all blocks leaves in result.
CompareAll == {b \in Bit : \A a \in Address : b \in Equal(src[a])}
OrAll == UNION {src[a] : a \in Address}

\* The lanes that are equal in every block; the words of the lowest lane.
EqualLanes ==
  {l \in Lane : \A b \in 0 .. Blocks - 1 : Source(b, l) = WRITE_VAL64}
OrLowest == UNION {Source(b, 0) : b \in 0 .. Blocks - 1}

\* When a task returns, its threads have together done what one loop over all
\* blocks does, however the iterations were divided: threads that got none do
\* not disturb the result, no block is left out.  Two tasks promise less than
\* their names.  CompareVector starts its threads from elements it did not
\* initialise, so it reports no lane as equal that differs in some block, but
\* may miss one that is equal (tasks.h:289); AggOrVector aggregates the lowest
\* lane only, as a T (tasks.h:343).
ReturnExact ==
  pc = "return" =>
    /\ task \in {"CopyScalar", "CopyVector"} =>
         \A a \in Address : dst[a] = src[a]
    /\ task \in {"WriteScalar", "WriteVector"} =>
         \A a \in Address : dst[a] = WRITE_VAL64
    /\ task = "CompareScalar" => result = CompareAll
    /\ task = "AggOrScalar" => result = OrAll
    /\ (task = "CompareVector" /\ Blocks # 0) => result \subseteq EqualLanes
    /\ task = "AggOrVector" => result = OrLowest \intersect TBit

\* The blocks of dst that thread t has written in a comparison.
Written(t) == ResultOffset(t) .. outpos[t] - 1

\* No two threads write results of a comparison to the same place, and every
\* result is still where its thread stored it when the task returns.
ComparisonsSeparate ==
  (IsBw(task) /\ pc # "idle") =>
    /\ \A t, u \in Thread : t # u => Written(t) \intersect Written(u) = {}
    /\ \A t \in Thread : \A i \in cut[t] .. iteration[t] - 1 :
         \A l \in Lane :
           dst[(ResultOffset(t) + i - cut[t]) * Lanes + l] =
             BwResult(task, i)[l]

\* The threads' results of a comparison do not overlap, and only a thread with
\* a number of at least data_stepwidth stores any of them behind the buffer.
ResultsSeparate ==
  /\ ComparisonsSeparate
  /\ (IsBw(task) /\ pc # "idle") =>
       \A t \in Thread : t < StepWidth => Written(t) \subseteq 0 .. Blocks - 1

\* No task stores anything behind the destination buffer, whose size is the one
\* asked for (README.txt: "The size (in bytes) used for the source as well as
\* the destination buffer").  With more threads than data_stepwidth one does.
NothingBehind == DOMAIN dst = Address
=============================================================================
