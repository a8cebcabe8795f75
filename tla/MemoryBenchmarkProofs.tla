----------------------- MODULE MemoryBenchmarkProofs -----------------------
(***************************************************************************)
(* What the memory benchmark promises, for every number of threads and any *)
(* schedule of OpenMP, every size of the buffers and every list of sizes:  *)
(* tasks do what one loop over the buffers does, results of a comparison   *)
(* stay apart, and the averages are averages.                              *)
(***************************************************************************)
EXTENDS MemoryBenchmark, BasicFacts

-----------------------------------------------------------------------------
(* The inductive invariant of the tasks.                                   *)

Copies == {"CopyScalar", "CopyVector"}
Writes == {"WriteScalar", "WriteVector"}
AggOrs == {"AggOrScalar", "AggOrVector"}

\* The iterations that thread t is through with.
Finished(t) == cut[t] .. iteration[t] - 1

\* The block of dst with the results of iteration i of thread t.
ResultBlock(t, i) == ResultOffset(t) + (i - cut[t])

TypeInv ==
  /\ src \in Sources
  /\ \A a \in DOMAIN dst : dst[a] \in WordValue
  /\ Address \subseteq DOMAIN dst
  /\ task \in Tasks
  /\ pc \in {"idle", "parallel", "return"}
  /\ tpc \in [Thread -> {"loop", "exit"}]
  /\ iteration \in [Thread -> Int]
  /\ result_array \in [Thread -> [Lane -> WordValue]]
  /\ thread_results \in [Thread -> WordValue]
  /\ outpos \in [Thread -> Nat]
  /\ result \in WordValue

\* Outside a call there is no schedule.  In one, a thread is within its share
\* of the iterations; threads leave the region when all iterations are done.
RegionInv ==
  /\ pc = "idle" => cut = NoLocals.cut /\ iteration = NoLocals.iteration
                    /\ tpc = NoLocals.tpc
  /\ pc # "idle" =>
       /\ cut \in Schedules(Iterations(task))
       /\ \A t \in Thread : iteration[t] \in cut[t] .. cut[t + 1]
       /\ \A t \in Thread : tpc[t] = "exit" =>
            \A u \in Thread : iteration[u] = cut[u + 1]
  /\ pc = "return" => \A t \in Thread : tpc[t] = "exit"

\* What the threads have copied and written so far.
StoreInv ==
  pc # "idle" =>
    \A t \in Thread : \A i \in Finished(t) : \A l \in Lane :
      /\ task \in Copies => dst[i * Lanes + l] = src[i * Lanes + l]
      /\ task \in Writes => dst[i * Lanes + l] = WRITE_VAL64

\* A lane of a thread's row is the reduction of the words seen so far, and a
\* thread that has left the region has folded its row.
CompareInv ==
  (pc # "idle" /\ task = "CompareScalar") =>
    /\ \A t \in Thread : \A l \in Lane :
         result_array[t][l] =
           {b \in Bit : \A i \in Finished(t) : b \in Equal(Source(i, l))}
    /\ \A t \in Thread : thread_results[t] =
         IF tpc[t] = "loop" THEN Bit
         ELSE {b \in Bit : \A l \in Lane : b \in result_array[t][l]}
    /\ pc = "return" =>
         result = {b \in Bit : \A t \in Thread : b \in thread_results[t]}

\* What an aggregation folds its row to.
FoldedRow(t) ==
  IF task = "AggOrScalar" THEN UNION {result_array[t][l] : l \in Lane}
  ELSE result_array[t][0] \intersect TBit

AggOrInv ==
  (pc # "idle" /\ task \in AggOrs) =>
    /\ \A t \in Thread : \A l \in Lane :
         result_array[t][l] = UNION {Source(i, l) : i \in Finished(t)}
    /\ \A t \in Thread : tpc[t] = "exit" => thread_results[t] = FoldedRow(t)
    /\ pc = "return" => result = UNION {thread_results[t] : t \in Thread}

\* A thread that compares vectors has kept no lane that differed in a block it
\* has seen, whatever its element held at first.
MaskInv ==
  (pc # "idle" /\ task = "CompareVector") =>
    /\ \A t \in Thread : \A i \in Finished(t) :
         thread_results[t] \subseteq {l \in Lane : Source(i, l) = WRITE_VAL64}
    /\ pc = "return" =>
         result = {b \in TBit : \A t \in Thread : b \in thread_results[t]}

\* The results of a comparison lie one after the other, from the thread's own
\* offset on.
BwInv ==
  (pc # "idle" /\ IsBw(task)) =>
    /\ \A t \in Thread : outpos[t] = ResultBlock(t, iteration[t])
    /\ \A t \in Thread : \A i \in Finished(t) : \A l \in Lane :
         /\ ResultBlock(t, i) * Lanes + l \in DOMAIN dst
         /\ dst[ResultBlock(t, i) * Lanes + l] = BwResult(task, i)[l]

IInv ==
  TypeInv /\ RegionInv /\ StoreInv /\ CompareInv /\ AggOrInv /\ MaskInv /\ BwInv

-----------------------------------------------------------------------------
(* The inductive invariant of the main program.                            *)

\* What the stop watch is used for is told by where the program is.
WatchInv ==
  sw = CASE mainPc = "calls" -> "started"
         [] mainPc \in {"stopped", "stored"} -> "stopped"
         [] OTHER -> "init"

\* The place in the loops: a size that is being measured is one of the list,
\* after the last repetition no size is.
LoopInv ==
  /\ mainPc \in {"calls", "stopped", "stored"} =>
       /\ sizeIndex \in Main!Sizes /\ repetition < countRepetitions
       /\ tv \notin todo
  /\ sizeIndex \notin Main!Sizes => todo = Tv
  /\ (mainPc \in {"max", "ended"} \/ repetition >= countRepetitions) =>
       sizeIndex = 1 /\ todo = Tv
  /\ mainPc = "max" => repetition = 0
  /\ mainPc = "ended" => repetition = countRepetitions

MaxInv ==
  mainPc # "max" => \A z \in Main!Size : z <= maxBufferSizeBytes

\* The task v has been measured on the n-th size in this repetition.
Measured(n, v) ==
  \/ n < sizeIndex
  \/ n = sizeIndex /\ v \notin todo
     /\ ~ (mainPc \in {"calls", "stopped"} /\ v = tv)

DurationInv ==
  \A n \in Main!Sizes, v \in Tv :
    durationsSec[bufferSizesBytes[n]][v] =
      IF Measured(n, v) THEN repetition + 1 ELSE repetition

AverageInv ==
  /\ DOMAIN average # {} => repetition >= countRepetitions
  /\ \A p \in DOMAIN average : average[p] = countRepetitions

MInv ==
  Main!TypeOK /\ WatchInv /\ LoopInv /\ MaxInv /\ DurationInv /\ AverageInv

-----------------------------------------------------------------------------
(* The main program keeps its invariant.                                   *)

(* A finite list of sizes has a largest one, as MaxOfSizes takes it.       *)
LEMMA LargestSize ==
  \E m \in Main!Size \union {0} : \A z \in Main!Size : z <= m
<1>. DEFINE Largest(n, m) ==
              /\ m \in Main!Size \union {0}
              /\ \A k \in 1 .. n : k \in Main!Sizes => bufferSizesBytes[k] <= m
            T == {n \in Nat : \E m : Largest(n, m)}
<1>0. \A k \in Main!Sizes : bufferSizesBytes[k] \in Nat /\ bufferSizesBytes[k] \in Main!Size
  BY MainAssumption DEF Main!ParameterAssumption, Main!Size, Main!Sizes
<1>1. 0 \in T
  BY DEF Main!Size
<1>2. ASSUME NEW n \in T PROVE n + 1 \in T
  <2>1. PICK m : Largest(n, m)
    BY <1>2
  <2>2. m \in Nat
    BY <2>1, MainAssumption DEF Main!ParameterAssumption, Main!Size, Main!Sizes
  <2>3. CASE n + 1 \in Main!Sizes /\ bufferSizesBytes[n + 1] > m
    <3>. DEFINE new == bufferSizesBytes[n + 1]
    <3>1. new \in Nat /\ new \in Main!Size
      BY <1>0, <2>3
    <3>2. ASSUME NEW k \in 1 .. n + 1, k \in Main!Sizes PROVE bufferSizesBytes[k] <= new
      <4>1. k = n + 1 \/ k \in 1 .. n
        BY <1>2
      <4>2. bufferSizesBytes[k] \in Nat
        BY <1>0, <3>2
      <4>. QED BY <4>1, <4>2, <3>1, <2>1, <2>2, <2>3, <3>2
    <3>3. Largest(n + 1, new)
      BY <3>1, <3>2
    <3>. QED BY <3>3, <1>2
  <2>4. CASE ~ (n + 1 \in Main!Sizes /\ bufferSizesBytes[n + 1] > m)
    <3>1. ASSUME NEW k \in 1 .. n + 1, k \in Main!Sizes PROVE bufferSizesBytes[k] <= m
      <4>1. k = n + 1 \/ k \in 1 .. n
        BY <1>2
      <4>2. bufferSizesBytes[k] \in Nat
        BY <1>0, <3>1
      <4>. QED BY <4>1, <4>2, <2>1, <2>2, <2>4, <3>1
    <3>2. Largest(n + 1, m)
      BY <3>1, <2>1
    <3>. QED BY <3>2, <1>2
  <2>. QED BY <2>3, <2>4
<1>3. T = Nat
  <2>. HIDE DEF T
  <2>1. T \subseteq Nat
    BY DEF T
  <2>. QED BY <1>1, <1>2, <2>1, NatInductionOfSet
<1>4. Len(bufferSizesBytes) \in Nat
  BY MainAssumption DEF Main!ParameterAssumption
<1>5. PICK m : Largest(Len(bufferSizesBytes), m)
  BY <1>3, <1>4
<1>. QED BY <1>5 DEF Main!Size, Main!Sizes

(* The program starts in the invariant.                                    *)
LEMMA MainInit == Main!Init => MInv
<1>. SUFFICES ASSUME Main!Init PROVE MInv
  OBVIOUS
<1>. USE DEF Main!Init
<1>0. Len(bufferSizesBytes) \in Nat
  BY MainAssumption DEF Main!ParameterAssumption
<1>1. Main!TypeOK
  BY <1>0, MainAssumption DEF Main!ParameterAssumption, Main!TypeOK
<1>2. WatchInv /\ LoopInv /\ MaxInv /\ AverageInv
  BY DEF WatchInv, LoopInv, MaxInv, AverageInv
<1>3. DurationInv
  BY DEF DurationInv, Measured, Main!Size, Main!Sizes
<1>. QED BY <1>1, <1>2, <1>3 DEF MInv

(* An action of the program, without the stop watch.                       *)
LEMMA MainStep == MInv /\ Main!Next => MInv'
<1>. SUFFICES ASSUME MInv, Main!Next PROVE MInv'
  OBVIOUS
<1>. USE DEF MInv
<1>0. /\ Len(bufferSizesBytes) \in Nat
      /\ DOMAIN bufferSizesBytes = Main!Sizes
      /\ \A n \in Main!Sizes : bufferSizesBytes[n] \in Main!Size /\ bufferSizesBytes[n] \in Nat
      /\ \A m, n \in Main!Sizes : m # n => bufferSizesBytes[m] # bufferSizesBytes[n]
      /\ Repetitions \subseteq Nat
  BY MainAssumption DEF Main!ParameterAssumption, Main!Sizes, Main!Size
<1>1. CASE Main!MaxOfSizes
  <2>. USE <1>1 DEF Main!MaxOfSizes, Main!arguments
  <2>1. /\ maxBufferSizeBytes' \in Main!Size \union {0}
        /\ \A z \in Main!Size : z <= maxBufferSizeBytes'
    BY LargestSize
  <2>2. Main!TypeOK'
    BY <2>1, Zenon DEF Main!TypeOK
  <2>3. WatchInv' /\ LoopInv' /\ MaxInv' /\ AverageInv'
    BY <2>1 DEF WatchInv, LoopInv, MaxInv, AverageInv
  <2>4. DurationInv'
    BY DEF DurationInv, Measured
  <2>. QED BY <2>2, <2>3, <2>4
<1>2. ASSUME NEW v \in Tv, Main!StartTask(v) PROVE MInv'
  <2>. USE <1>2 DEF Main!StartTask, Main!Measuring, Main!arguments
  <2>1. sw = "init" /\ sw' = "started" /\ mainPc' = "calls"
    BY DEF Main!start, Main!WatchCall, WatchInv
  <2>2. Main!TypeOK'
    BY <2>1 DEF Main!TypeOK
  <2>3. WatchInv' /\ LoopInv' /\ MaxInv' /\ AverageInv'
    BY <2>1, <1>0 DEF WatchInv, LoopInv, MaxInv, AverageInv, Main!TypeOK
  <2>4. DurationInv'
    BY <2>1 DEF DurationInv, Measured
  <2>. QED BY <2>2, <2>3, <2>4
<1>3. CASE Main!DoIt
  <2>. USE <1>3 DEF Main!DoIt, Main!arguments
  <2>2. Main!TypeOK'
    BY DEF Main!TypeOK
  <2>3. WatchInv' /\ LoopInv' /\ MaxInv' /\ AverageInv'
    BY DEF WatchInv, LoopInv, MaxInv, AverageInv
  <2>4. DurationInv'
    BY DEF DurationInv, Measured
  <2>. QED BY <2>2, <2>3, <2>4
<1>4. CASE Main!StopWatch
  <2>. USE <1>4 DEF Main!StopWatch, Main!arguments
  <2>1. sw = "started" /\ sw' = "stopped" /\ mainPc' = "stopped"
    BY DEF Main!stop, Main!WatchCall, WatchInv
  <2>2. Main!TypeOK'
    BY <2>1 DEF Main!TypeOK
  <2>3. WatchInv' /\ LoopInv' /\ MaxInv' /\ AverageInv'
    BY <2>1 DEF WatchInv, LoopInv, MaxInv, AverageInv
  <2>4. DurationInv'
    BY <2>1 DEF DurationInv, Measured
  <2>. QED BY <2>2, <2>3, <2>4
<1>5. CASE Main!StoreDuration
  <2>. USE <1>5 DEF Main!StoreDuration, Main!arguments, Main!size
  <2>1. sw = "stopped" /\ sw' = "stopped" /\ mainPc = "stopped" /\ mainPc' = "stored"
    BY DEF Main!duration, Main!WatchCall, WatchInv
  <2>2. /\ sizeIndex \in Main!Sizes /\ bufferSizesBytes[sizeIndex] \in Main!Size
        /\ tv \in Tv /\ tv \notin todo
        /\ durationsSec \in [Main!Size -> [Tv -> Nat]]
        /\ durationsSec' = [durationsSec EXCEPT ![bufferSizesBytes[sizeIndex]][tv] = @ + 1]
    BY <2>1, <1>0 DEF LoopInv, Main!TypeOK
  <2>3. durationsSec' \in [Main!Size -> [Tv -> Nat]]
    BY <2>2
  <2>4. Main!TypeOK'
    BY <2>1, <2>3 DEF Main!TypeOK
  <2>5. WatchInv' /\ LoopInv' /\ MaxInv' /\ AverageInv'
    BY <2>1 DEF WatchInv, LoopInv, MaxInv, AverageInv
  <2>6. ASSUME NEW n \in Main!Sizes, NEW v \in Tv
        PROVE  durationsSec'[bufferSizesBytes[n]][v] =
                 IF Measured(n, v)' THEN repetition' + 1 ELSE repetition'
    <3>1. CASE n = sizeIndex /\ v = tv
      <4>1. durationsSec'[bufferSizesBytes[n]][v] = durationsSec[bufferSizesBytes[n]][v] + 1
        BY <3>1, <2>2
      <4>2. ~ Measured(n, v) /\ Measured(n, v)'
        BY <3>1, <2>1, <2>2, <1>0 DEF Measured, Main!Sizes
      <4>3. repetition' = repetition /\ repetition \in Int
        BY <1>0 DEF Main!TypeOK
      <4>. QED BY <4>1, <4>2, <4>3 DEF DurationInv
    <3>2. CASE n # sizeIndex \/ v # tv
      <4>1. durationsSec'[bufferSizesBytes[n]][v] = durationsSec[bufferSizesBytes[n]][v]
        BY <3>2, <2>2, <1>0
      <4>2. Measured(n, v)' <=> Measured(n, v)
        BY <3>2, <2>1 DEF Measured
      <4>. QED BY <4>1, <4>2 DEF DurationInv
    <3>. QED BY <3>1, <3>2
  <2>7. DurationInv'
    BY <2>6 DEF DurationInv
  <2>. QED BY <2>4, <2>5, <2>7
<1>6. CASE Main!ResetWatch
  <2>. USE <1>6 DEF Main!ResetWatch, Main!arguments
  <2>1. sw' = "init" /\ mainPc' = "tasks"
    BY DEF Main!reset
  <2>2. Main!TypeOK'
    BY <2>1 DEF Main!TypeOK
  <2>3. WatchInv' /\ LoopInv' /\ MaxInv' /\ AverageInv'
    BY <2>1, <1>0 DEF WatchInv, LoopInv, MaxInv, AverageInv, Main!TypeOK
  <2>4. DurationInv'
    BY <2>1 DEF DurationInv, Measured
  <2>. QED BY <2>2, <2>3, <2>4
<1>7. CASE Main!NextSize
  <2>. USE <1>7 DEF Main!NextSize, Main!Measuring, Main!arguments
  <2>2. Main!TypeOK'
    BY <1>0 DEF Main!TypeOK, Main!Sizes
  <2>3. WatchInv' /\ LoopInv' /\ MaxInv' /\ AverageInv'
    BY <1>0 DEF WatchInv, LoopInv, MaxInv, AverageInv, Main!TypeOK
  <2>4. \A n \in Main!Sizes, v \in Tv : Measured(n, v)' <=> Measured(n, v)
    BY <1>0 DEF Measured, Main!Sizes
  <2>5. DurationInv'
    BY <2>4 DEF DurationInv
  <2>. QED BY <2>2, <2>3, <2>5
<1>8. CASE Main!NextRepetition
  <2>. USE <1>8 DEF Main!NextRepetition, Main!arguments
  <2>1. countRepetitions \in Nat /\ repetition \in Nat
    BY <1>0 DEF Main!TypeOK
  <2>2. Main!TypeOK'
    BY <1>0, <2>1 DEF Main!TypeOK
  <2>3. WatchInv' /\ LoopInv' /\ MaxInv' /\ AverageInv'
    BY <2>1 DEF WatchInv, LoopInv, MaxInv, AverageInv
  <2>4. ASSUME NEW n \in Main!Sizes, NEW v \in Tv
        PROVE  durationsSec'[bufferSizesBytes[n]][v] =
                 IF Measured(n, v)' THEN repetition' + 1 ELSE repetition'
    <3>1. n < sizeIndex
      BY <1>0 DEF Main!TypeOK, Main!Sizes
    <3>2. todo' = Tv
      BY DEF LoopInv
    <3>3. Measured(n, v) /\ ~ Measured(n, v)'
      BY <3>1, <3>2 DEF Measured, Main!Sizes
    <3>. QED BY <3>3, <2>1 DEF DurationInv
  <2>5. DurationInv'
    BY <2>4 DEF DurationInv
  <2>. QED BY <2>2, <2>3, <2>5
<1>9. ASSUME NEW z \in Main!Size, NEW v \in Tv, Main!Average(z, v) PROVE MInv'
  <2>. USE <1>9 DEF Main!Average, Main!arguments
  <2>1. countRepetitions \in Nat /\ repetition = countRepetitions
    BY <1>0 DEF Main!TypeOK
  <2>2. Main!TypeOK'
    BY DEF Main!TypeOK
  <2>3. WatchInv' /\ LoopInv' /\ MaxInv'
    BY DEF WatchInv, LoopInv, MaxInv
  <2>4. durationsSec[z][v] = countRepetitions
    <3>1. PICK n \in Main!Sizes : z = bufferSizesBytes[n]
      BY DEF Main!Size
    <3>2. ~ Measured(n, v)
      BY <2>1 DEF Measured, LoopInv, Main!Sizes
    <3>. QED BY <3>1, <3>2, <2>1 DEF DurationInv
  <2>5. AverageInv'
    BY <2>1, <2>4 DEF AverageInv
  <2>6. DurationInv'
    BY DEF DurationInv, Measured
  <2>. QED BY <2>2, <2>3, <2>5, <2>6
<1>10. CASE Main!Done
  <2>. USE <1>10 DEF Main!Done, Main!arguments
  <2>1. countRepetitions \in Nat /\ repetition = countRepetitions
    BY <1>0 DEF Main!TypeOK
  <2>2. Main!TypeOK'
    BY DEF Main!TypeOK
  <2>3. WatchInv' /\ LoopInv' /\ MaxInv' /\ AverageInv'
    BY <2>1 DEF WatchInv, LoopInv, MaxInv, AverageInv
  <2>4. DurationInv'
    BY DEF DurationInv, Measured
  <2>. QED BY <2>2, <2>3, <2>4
<1>. QED
  BY <1>1, <1>2, <1>3, <1>4, <1>5, <1>6, <1>7, <1>8, <1>9, <1>10 DEF Main!Next

LEMMA MainStutter == MInv /\ UNCHANGED mainVars => MInv'
BY DEF MInv, mainVars, Main!TypeOK, WatchInv, LoopInv, MaxInv, DurationInv,
       Measured, AverageInv

(* What the invariant is for.                                              *)
LEMMA MainAverages == MInv => AveragesMeaningful
<1>. SUFFICES ASSUME MInv PROVE AveragesMeaningful
  OBVIOUS
<1>1. mainPc = "calls" => bufferSizesBytes[sizeIndex] \in Main!Size
  BY DEF MInv, LoopInv, Main!Size
<1>. QED
  BY <1>1 DEF MInv, MaxInv, AverageInv, AveragesMeaningful, Main!AveragesMeaningful,
              Main!CallsFit, Main!AveragesExact, Main!size

-----------------------------------------------------------------------------
(* Blocks and their addresses.                                             *)

(* The results of a comparison, and the blocks they are made from.         *)
LEMMA WholeBlocks ==
  /\ Blocks \div StepWidth \in Nat
  /\ (Blocks \div StepWidth) * StepWidth = Blocks
<1>1. /\ Blocks = StepWidth * (Blocks \div StepWidth) + (Blocks % StepWidth)
      /\ Blocks \div StepWidth \in Int
  BY BlockAssumption, DivMod
<1>. DEFINE q == Blocks \div StepWidth
<1>. HIDE DEF q
<1>2. q \in Int /\ StepWidth * q = Blocks
  BY <1>1, WholeSteps, BlockAssumption DEF q
<1>3. q >= 0
  <2>. SUFFICES ASSUME q <= -1 PROVE FALSE
    BY <1>2
  <2>1. StepWidth * q <= -StepWidth
    BY <1>2, BlockAssumption, SMT
  <2>. QED BY <2>1, <1>2, BlockAssumption
<1>4. q * StepWidth = StepWidth * q
  BY <1>2, BlockAssumption, SMT
<1>. QED BY <1>2, <1>3, <1>4 DEF q

LEMMA IterationsType ==
  ASSUME NEW k PROVE Iterations(k) \in Nat /\ Iterations(k) <= Blocks
<1>. DEFINE q == Blocks \div StepWidth
<1>1. q \in Nat /\ q * StepWidth = Blocks
  BY WholeBlocks
<1>. HIDE DEF q
<1>2. q <= Blocks
  <2>1. (StepWidth - 1) * q >= 0
    BY <1>1, BlockAssumption, SMT
  <2>2. (StepWidth - 1) * q = q * StepWidth - q
    BY <1>1, BlockAssumption, SMT
  <2>. QED BY <2>1, <2>2, <1>1, BlockAssumption
<1>. QED BY <1>1, <1>2, BlockAssumption DEF Iterations, q

(* A lane of a block has an address, and every address is one.             *)
LEMMA BlockAddress ==
  ASSUME NEW b \in 0 .. Blocks - 1, NEW l \in Lane
  PROVE  b * Lanes + l \in Address
<1>1. /\ (b + 1) * Lanes = b * Lanes + Lanes
      /\ (b + 1) * Lanes <= Blocks * Lanes
      /\ b * Lanes \in Nat /\ Blocks * Lanes \in Nat
  BY BlockAssumption, ProductSuccessor, ProductMonotone
<1>. QED BY <1>1, BlockAssumption DEF Address, Lane

LEMMA AddressBlock ==
  ASSUME NEW a \in Address
  PROVE  \E b \in 0 .. Blocks - 1, l \in Lane : a = b * Lanes + l
<1>. DEFINE b == a \div Lanes
            l == a % Lanes
<1>1. a \in Int /\ 0 <= a /\ a < Blocks * Lanes
  BY BlockAssumption DEF Address
<1>2. a = Lanes * b + l /\ l \in 0 .. Lanes - 1 /\ b \in Int
  BY <1>1, BlockAssumption, DivMod
<1>. HIDE DEF b, l
<1>3. b >= 0
  <2>. SUFFICES ASSUME b <= -1 PROVE FALSE
    BY <1>2
  <2>1. Lanes * b <= -Lanes
    BY <1>2, BlockAssumption, SMT
  <2>. QED BY <2>1, <1>1, <1>2, BlockAssumption
<1>4. b < Blocks
  <2>. SUFFICES ASSUME b >= Blocks PROVE FALSE
    BY <1>2, BlockAssumption
  <2>1. Blocks * Lanes <= b * Lanes
    BY <1>2, <1>3, BlockAssumption, ProductMonotone
  <2>2. Lanes * b = b * Lanes
    BY <1>2, BlockAssumption, SMT
  <2>3. b * Lanes \in Int /\ Blocks * Lanes \in Int
    BY <1>2, BlockAssumption
  <2>. QED BY <2>1, <2>2, <2>3, <1>1, <1>2, BlockAssumption
<1>5. a = b * Lanes + l
  BY <1>2, BlockAssumption, SMT
<1>6. b \in 0 .. Blocks - 1 /\ l \in Lane
  BY <1>2, <1>3, <1>4, BlockAssumption DEF Lane
<1>. QED BY <1>5, <1>6

(* Different blocks have different addresses.                              *)
LEMMA AddressUnique ==
  ASSUME NEW b \in Int, NEW l \in Lane, NEW c \in Int, NEW m \in Lane,
         b * Lanes + l = c * Lanes + m
  PROVE  b = c /\ l = m
<1>1. Lanes * b = b * Lanes /\ Lanes * c = c * Lanes
  BY BlockAssumption, SMT
<1>2. Lanes * b + l = Lanes * c + m
  BY <1>1
<1>. QED BY <1>2, BlockAssumption, DivModUnique DEF Lane

(* The blocks that a step of a comparison reads are in the buffer.         *)
LEMMA StepBlock ==
  ASSUME NEW i \in 0 .. (Blocks \div StepWidth) - 1, NEW c \in 0 .. StepWidth - 1
  PROVE  i * StepWidth + c \in 0 .. Blocks - 1
<1>. DEFINE q == Blocks \div StepWidth
<1>1. q \in Nat /\ q * StepWidth = Blocks
  BY WholeBlocks
<1>2. i \in 0 .. q - 1
  OBVIOUS
<1>. HIDE DEF q
<1>3. /\ (i + 1) * StepWidth = i * StepWidth + StepWidth
      /\ (i + 1) * StepWidth <= q * StepWidth
      /\ i * StepWidth \in Nat
  BY <1>1, <1>2, BlockAssumption, ProductSuccessor, ProductMonotone
<1>. QED BY <1>1, <1>3, BlockAssumption

LEMMA SourceWord ==
  ASSUME src \in Sources, NEW b \in 0 .. Blocks - 1, NEW l \in Lane
  PROVE  Source(b, l) \in WordValue
BY BlockAddress, SourceAssumption DEF Source

(* What a comparison stores are words.                                     *)
LEMMA BwWords ==
  ASSUME src \in Sources, NEW k \in BwTasks,
         NEW i \in 0 .. (Blocks \div StepWidth) - 1, NEW l \in Lane
  PROVE  BwResult(k, i)[l] \in WordValue
<1>1. ASSUME NEW c \in 0 .. StepWidth - 1
      PROVE  ShiftRight(BwMethod(k, Source(i * StepWidth + c, l)), c) \subseteq Bit
  <2>1. BwMethod(k, Source(i * StepWidth + c, l)) \subseteq Bit
    BY StepBlock, SourceWord, MethodAssumption DEF WordValue
  <2>2. c \in Nat
    BY BlockAssumption
  <2>. QED BY <2>1, <2>2, BitAssumption DEF ShiftRight, Bit
<1>. QED BY <1>1 DEF BwResult, WordValue

(* A store fills the words of its block and touches no other block.        *)
LEMMA StoreEffect ==
  ASSUME NEW b \in Nat, NEW words, Store(b, words)
  PROVE  /\ DOMAIN dst' = DOMAIN dst \union (b * Lanes .. (b + 1) * Lanes - 1)
         /\ \A l \in Lane : /\ b * Lanes + l \in DOMAIN dst'
                            /\ dst'[b * Lanes + l] = words[l]
         /\ \A c \in Int, l \in Lane :
              c # b /\ c * Lanes + l \in DOMAIN dst =>
                dst'[c * Lanes + l] = dst[c * Lanes + l]
         /\ \A a \in DOMAIN dst' :
              \/ \E l \in Lane : dst'[a] = words[l]
              \/ a \in DOMAIN dst /\ dst'[a] = dst[a]
<1>. DEFINE written == b * Lanes .. (b + 1) * Lanes - 1
<1>1. dst' = [a \in DOMAIN dst \union written |->
                IF a \in written THEN words[a - b * Lanes] ELSE dst[a]]
  BY DEF Store
<1>2. b * Lanes \in Nat /\ (b + 1) * Lanes = b * Lanes + Lanes
  BY BlockAssumption, ProductSuccessor, ProductMonotone
<1>. DEFINE first == b * Lanes
            last == (b + 1) * Lanes - 1
<1>3. written = first .. first + Lanes - 1 /\ first \in Nat
  <2>1. last = first + Lanes - 1 /\ first \in Nat
    BY <1>2, BlockAssumption
  <2>. HIDE DEF first, last
  <2>2. written = first .. last
    BY DEF first, last
  <2>. QED BY <2>1, <2>2
<1>. HIDE DEF first, last, written
<1>4. ASSUME NEW l \in Lane PROVE first + l \in written /\ (first + l) - first = l
  BY <1>3, BlockAssumption DEF Lane
<1>5. ASSUME NEW a \in written PROVE a - first \in Lane /\ a = first + (a - first)
  BY <1>3, BlockAssumption DEF Lane
<1>6. ASSUME NEW c \in Int, NEW l \in Lane, c # b PROVE c * Lanes + l \notin written
  BY <1>5, <1>6, AddressUnique DEF first
<1>7. DOMAIN dst' = DOMAIN dst \union written
  BY <1>1
<1>8. \A l \in Lane : first + l \in DOMAIN dst' /\ dst'[first + l] = words[l]
  BY <1>1, <1>4 DEF first
<1>9. \A c \in Int, l \in Lane :
        c # b /\ c * Lanes + l \in DOMAIN dst =>
          dst'[c * Lanes + l] = dst[c * Lanes + l]
  BY <1>1, <1>6
<1>10. ASSUME NEW a \in DOMAIN dst'
       PROVE  \/ \E l \in Lane : dst'[a] = words[l]
              \/ a \in DOMAIN dst /\ dst'[a] = dst[a]
  <2>1. CASE a \in written
    <3>1. dst'[a] = words[a - first]
      BY <1>1, <2>1 DEF first
    <3>. QED BY <3>1, <1>5, <2>1
  <2>2. CASE a \notin written
    BY <1>1, <2>2
  <2>. QED BY <2>1, <2>2
<1>. QED BY <1>7, <1>8, <1>9, <1>10 DEF first, written

-----------------------------------------------------------------------------
(* Schedules.                                                              *)

LEMMA ScheduleType ==
  ASSUME NEW n \in Nat, NEW c \in Schedules(n), NEW t \in Thread
  PROVE  /\ c[t] \in 0 .. n /\ c[t + 1] \in 0 .. n /\ c[t] <= c[t + 1]
<1>1. t \in 0 .. NUMTHREADS /\ t + 1 \in 0 .. NUMTHREADS
  BY ThreadAssumption DEF Thread
<1>. QED BY <1>1 DEF Schedules

(* However the iterations are divided, each of them has a thread.          *)
LEMMA ScheduleCovers ==
  ASSUME NEW n \in Nat, NEW c \in Schedules(n), NEW i \in 0 .. n - 1
  PROVE  \E t \in Thread : i \in c[t] .. c[t + 1] - 1
<1>. DEFINE S == {k \in 0 .. NUMTHREADS : i < c[k]}
<1>1. c \in [0 .. NUMTHREADS -> 0 .. n] /\ c[0] = 0 /\ c[NUMTHREADS] = n
  BY DEF Schedules
<1>2. NUMTHREADS \in S
  BY <1>1, ThreadAssumption
<1>3. PICK k \in S : \A m \in S : k <= m
  <2>1. S \in SUBSET Nat /\ S # {}
    BY <1>2, ThreadAssumption
  <2>. HIDE DEF S
  <2>. QED BY <2>1, LeastElement
<1>4. k # 0
  BY <1>1
<1>5. k - 1 \in Thread /\ k - 1 \in 0 .. NUMTHREADS
  BY <1>4, ThreadAssumption DEF Thread
<1>6. k - 1 \notin S
  BY <1>3, <1>5
<1>7. c[k - 1] <= i /\ i < c[(k - 1) + 1] /\ c[k - 1] \in Int /\ c[k] \in Int
  BY <1>1, <1>5, <1>6
<1>. QED BY <1>5, <1>7

-----------------------------------------------------------------------------
(* The tasks keep their invariant: what is common to all of them.          *)

LEMMA PlainTask ==
  ASSUME task \in PlainTasks PROVE ~ IsBw(task) /\ Iterations(task) = Blocks
BY TaskAssumption DEF IsBw, Iterations

LEMMA FinishedRange ==
  ASSUME TypeInv, RegionInv, pc # "idle", NEW t \in Thread, NEW i \in Finished(t)
  PROVE  i \in 0 .. Iterations(task) - 1
<1>1. /\ cut[t] \in 0 .. Iterations(task) /\ cut[t + 1] \in 0 .. Iterations(task)
      /\ iteration[t] \in cut[t] .. cut[t + 1]
  BY ScheduleType, IterationsType DEF RegionInv
<1>. QED BY <1>1, IterationsType DEF Finished

(* One iteration of a thread.                                              *)
LEMMA Iterating ==
  ASSUME TypeInv, RegionInv, NEW t \in Thread, InLoop(t)
  PROVE  /\ pc = "parallel" /\ pc' = "parallel"
         /\ src' = src /\ task' = task /\ cut' = cut /\ tpc' = tpc /\ result' = result
         /\ iteration[t] \in 0 .. Iterations(task) - 1
         /\ iteration[t] \in Nat
         /\ iteration' \in [Thread -> Int]
         /\ iteration'[t] = iteration[t] + 1
         /\ \A u \in Thread : u # t => iteration'[u] = iteration[u]
         /\ \A u \in Thread : u # t => Finished(u)' = Finished(u)
         /\ Finished(t)' = Finished(t) \union {iteration[t]}
         /\ \A u \in Thread : tpc[u] = "loop"
         /\ RegionInv'
<1>1. /\ src' = src /\ task' = task /\ cut' = cut /\ tpc' = tpc /\ result' = result
      /\ pc' = pc
  BY DEF InLoop
<1>2. pc = "parallel"
  <2>1. pc # "idle"
    BY DEF InLoop, RegionInv, NoLocals
  <2>2. pc # "return"
    BY DEF InLoop, RegionInv
  <2>. QED BY <2>1, <2>2 DEF TypeInv
<1>3. /\ cut[t] \in 0 .. Iterations(task) /\ cut[t + 1] \in 0 .. Iterations(task)
      /\ iteration[t] \in cut[t] .. cut[t + 1]
  BY <1>2, ScheduleType, IterationsType DEF RegionInv
<1>4. iteration[t] \in Nat /\ iteration[t] \in 0 .. Iterations(task) - 1
  BY <1>3, IterationsType DEF InLoop
<1>5. /\ iteration' \in [Thread -> Int]
      /\ iteration'[t] = iteration[t] + 1
      /\ \A u \in Thread : u # t => iteration'[u] = iteration[u]
  BY <1>4 DEF InLoop, TypeInv
<1>6. \A u \in Thread : u # t => Finished(u)' = Finished(u)
  BY <1>1, <1>5 DEF Finished
<1>7. Finished(t)' = Finished(t) \union {iteration[t]}
  <2>1. Finished(t)' = cut[t] .. (iteration[t] + 1) - 1
    BY <1>1, <1>5 DEF Finished
  <2>2. cut[t] \in Int /\ iteration[t] \in Int /\ cut[t] <= iteration[t]
    BY <1>3, IterationsType
  <2>3. Finished(t)' = cut[t] .. iteration[t]
    BY <2>1, <2>2
  <2>4. Finished(t) = cut[t] .. iteration[t] - 1
    BY DEF Finished
  <2>. QED BY <2>2, <2>3, <2>4, SMT
<1>8. \A u \in Thread : tpc[u] = "loop"
  <2>. SUFFICES ASSUME NEW u \in Thread, tpc[u] = "exit" PROVE FALSE
    BY DEF TypeInv
  <2>1. iteration[t] = cut[t + 1]
    BY <1>2 DEF RegionInv
  <2>. QED BY <2>1, <1>3 DEF InLoop
<1>9. RegionInv'
  <2>1. cut' \in Schedules(Iterations(task'))
    BY <1>1, <1>2 DEF RegionInv
  <2>2. ASSUME NEW u \in Thread PROVE iteration'[u] \in cut'[u] .. cut'[u + 1]
    <3>1. CASE u = t
      BY <3>1, <1>1, <1>3, <1>5, IterationsType DEF InLoop
    <3>2. CASE u # t
      BY <3>2, <1>1, <1>2, <1>5 DEF RegionInv
    <3>. QED BY <3>1, <3>2
  <2>3. \A u \in Thread : tpc'[u] # "exit"
    BY <1>1, <1>8
  <2>. QED BY <2>1, <2>2, <2>3, <1>1, <1>2 DEF RegionInv, Iterations, IsBw
<1>. QED BY <1>1, <1>2, <1>4, <1>5, <1>6, <1>7, <1>8, <1>9

(* The call of a task and its start.                                       *)
LEMMA Calling ==
  ASSUME NEW k \in Tasks, Call(k)
  PROVE  /\ pc' = "parallel" /\ task' = k /\ src' = src /\ dst' = dst
         /\ \A t \in Thread : Finished(t)' = {}
         /\ RegionInv'
<1>1. /\ pc' = "parallel" /\ task' = k /\ src' = src /\ dst' = dst
      /\ cut' \in Schedules(Iterations(k))
      /\ iteration' = [t \in Thread |-> cut'[t]]
      /\ tpc' = [t \in Thread |-> "loop"]
  BY DEF Call
<1>2. \A t \in Thread : /\ cut'[t] \in Nat /\ cut'[t + 1] \in Nat
                        /\ cut'[t] <= cut'[t + 1]
  BY <1>1, ScheduleType, IterationsType
<1>3. \A t \in Thread : iteration'[t] \in cut'[t] .. cut'[t + 1]
  BY <1>1, <1>2
<1>4. \A t \in Thread : Finished(t)' = {}
  BY <1>1, <1>2 DEF Finished
<1>5. RegionInv'
  BY <1>1, <1>3 DEF RegionInv, Iterations, IsBw
<1>. QED BY <1>1, <1>4, <1>5

LEMMA ResultOffsetType ==
  ASSUME NEW t \in Thread PROVE ResultOffset(t) \in Nat
<1>1. t \in Nat
  BY ThreadAssumption DEF Thread
<1>. DEFINE q == Blocks \div StepWidth
<1>2. q \in Nat
  BY WholeBlocks
<1>. HIDE DEF q
<1>3. t * q \in Nat
  BY <1>1, <1>2, ProductMonotone
<1>. QED BY <1>3 DEF ResultOffset, q

LEMMA TasksInit == Init => IInv
<1>. SUFFICES ASSUME Init PROVE IInv
  OBVIOUS
<1>. USE DEF Init
<1>1. TypeInv
  BY ThreadAssumption, BitAssumption, TaskAssumption
     DEF TypeInv, NoLocals, WordValue, Thread
<1>2. RegionInv /\ StoreInv /\ CompareInv /\ AggOrInv /\ MaskInv /\ BwInv
  BY DEF RegionInv, StoreInv, CompareInv, AggOrInv, MaskInv, BwInv
<1>. QED BY <1>1, <1>2 DEF IInv

(* What a thread leaves behind is a word.                                  *)
LEMMA FoldedWord ==
  ASSUME TypeInv, NEW t \in Thread PROVE Folded(t) \in WordValue
<1>1. \A l \in Lane : result_array[t][l] \subseteq Bit
  BY DEF TypeInv, WordValue
<1>2. thread_results[t] \subseteq Bit
  BY DEF TypeInv, WordValue
<1>3. 0 \in Lane
  BY BlockAssumption DEF Lane
<1>4. {b \in thread_results[t] : \A l \in Lane : b \in result_array[t][l]} \subseteq Bit
  BY <1>2
<1>5. UNION {result_array[t][l] : l \in Lane} \subseteq Bit
  BY <1>1
<1>6. result_array[t][0] \intersect TBit \subseteq Bit
  BY <1>1, <1>3
<1>. QED BY <1>2, <1>4, <1>5, <1>6 DEF Folded, WordValue

LEMMA TypeStep == TypeInv /\ RegionInv /\ BwInv /\ Next => TypeInv'
<1>. SUFFICES ASSUME TypeInv, RegionInv, BwInv, Next PROVE TypeInv'
  OBVIOUS
<1>1. ASSUME NEW k \in Tasks, Call(k) PROVE TypeInv'
  <2>1. iteration' \in [Thread -> Int]
    <3>1. \A t \in Thread : cut'[t] \in Int
      BY <1>1, ScheduleType, IterationsType DEF Call
    <3>. QED BY <3>1, <1>1 DEF Call
  <2>2. Neutral(k) \in WordValue
    BY DEF Neutral, WordValue
  <2>3. thread_results' \in [Thread -> WordValue]
    <3>1. TBit \subseteq Bit
      BY BitAssumption DEF TBit, Bit
    <3>2. [Thread -> SUBSET TBit] \subseteq [Thread -> WordValue]
      BY <3>1 DEF WordValue
    <3>. QED BY <1>1, <2>2, <3>2 DEF Call, InitialResults
  <2>4. outpos' \in [Thread -> Nat]
    BY <1>1, ResultOffsetType DEF Call
  <2>5. result_array' \in [Thread -> [Lane -> WordValue]]
    BY <1>1, <2>2 DEF Call
  <2>6. /\ src' = src /\ dst' = dst /\ result' = result /\ task' = k /\ pc' = "parallel"
        /\ tpc' \in [Thread -> {"loop", "exit"}]
    BY <1>1 DEF Call
  <2>. QED BY <2>1, <2>3, <2>4, <2>5, <2>6 DEF TypeInv
<1>2. ASSUME NEW t \in Thread, Iterate(t) PROVE TypeInv'
  <2>0. InLoop(t)
    BY <1>2 DEF Iterate, CopyBlock, WriteBlock, CompareBlock, AggOrBlock, CompareMask,
                BwBlock
  <2>1. /\ src' \in Sources /\ task' \in Tasks /\ pc' \in {"idle", "parallel", "return"}
        /\ tpc' \in [Thread -> {"loop", "exit"}]
        /\ iteration' \in [Thread -> Int]
        /\ result' \in WordValue
        /\ iteration[t] \in 0 .. Iterations(task) - 1
        /\ iteration[t] \in Nat
        /\ pc = "parallel"
    BY <2>0, Iterating DEF TypeInv
  <2>. DEFINE Rest == /\ \A a \in DOMAIN dst' : dst'[a] \in WordValue
                      /\ Address \subseteq DOMAIN dst'
                      /\ result_array' \in [Thread -> [Lane -> WordValue]]
                      /\ thread_results' \in [Thread -> WordValue]
                      /\ outpos' \in [Thread -> Nat]
  <2>2. SUFFICES Rest
    BY <2>1 DEF TypeInv
  <2>3. ASSUME NEW b \in Nat, NEW words, Store(b, words),
               \A l \in Lane : words[l] \in WordValue
        PROVE  /\ \A a \in DOMAIN dst' : dst'[a] \in WordValue
               /\ Address \subseteq DOMAIN dst'
    <3>1. /\ DOMAIN dst \subseteq DOMAIN dst'
          /\ \A a \in DOMAIN dst' :
               \/ \E l \in Lane : dst'[a] = words[l]
               \/ a \in DOMAIN dst /\ dst'[a] = dst[a]
      BY <2>3, StoreEffect, Zenon
    <3>2. \A a \in DOMAIN dst' : dst'[a] \in WordValue
      BY <2>3, <3>1 DEF TypeInv
    <3>. QED BY <3>1, <3>2 DEF TypeInv
  <2>4. CASE CopyBlock(t)
    <3>1. task \in PlainTasks
      BY <2>4 DEF CopyBlock, PlainTasks
    <3>2. \A l \in Lane : Source(iteration[t], l) \in WordValue
      BY <3>1, <2>1, PlainTask, SourceWord DEF TypeInv
    <3>. QED BY <2>4, <2>3, <2>1, <3>2 DEF CopyBlock, TypeInv
  <2>5. CASE WriteBlock(t)
    BY <2>5, <2>3, <2>1, BitAssumption DEF WriteBlock, TypeInv
  <2>6. CASE CompareBlock(t)
    <3>1. result_array' \in [Thread -> [Lane -> WordValue]]
      BY <2>6 DEF CompareBlock, TypeInv, WordValue
    <3>. QED BY <3>1, <2>6 DEF CompareBlock, TypeInv
  <2>7. CASE AggOrBlock(t)
    <3>1. task \in PlainTasks
      BY <2>7 DEF AggOrBlock, PlainTasks
    <3>2. \A l \in Lane : Source(iteration[t], l) \in WordValue
      BY <3>1, <2>1, PlainTask, SourceWord DEF TypeInv
    <3>3. result_array' \in [Thread -> [Lane -> WordValue]]
      BY <2>7, <3>2 DEF AggOrBlock, TypeInv, WordValue
    <3>. QED BY <3>3, <2>7 DEF AggOrBlock, TypeInv
  <2>8. CASE CompareMask(t)
    <3>1. thread_results' \in [Thread -> WordValue]
      BY <2>8 DEF CompareMask, TypeInv, WordValue
    <3>. QED BY <3>1, <2>8 DEF CompareMask, TypeInv
  <2>9. CASE BwBlock(t)
    <3>1. task \in BwTasks
      BY <2>9 DEF BwBlock, IsBw
    <3>2. iteration[t] \in 0 .. (Blocks \div StepWidth) - 1
      BY <3>1, <2>1 DEF Iterations, IsBw
    <3>3. \A l \in Lane : BwResult(task, iteration[t])[l] \in WordValue
      BY <3>1, <3>2, BwWords DEF TypeInv
    <3>4. outpos[t] \in Nat /\ outpos' \in [Thread -> Nat]
      BY <2>9 DEF BwBlock, TypeInv
    <3>. QED BY <2>9, <2>3, <3>3, <3>4 DEF BwBlock, TypeInv
  <2>. QED BY <1>2, <2>4, <2>5, <2>6, <2>7, <2>8, <2>9 DEF Iterate
<1>3. ASSUME NEW t \in Thread, LeaveRegion(t) PROVE TypeInv'
  BY <1>3, FoldedWord DEF LeaveRegion, TypeInv
<1>4. CASE CollectResults
  <2>1. UNION {thread_results[t] : t \in Thread} \subseteq Bit
    BY DEF TypeInv, WordValue
  <2>2. {b \in TBit : \A t \in Thread : b \in thread_results[t]} \subseteq Bit
    BY BitAssumption DEF TBit, Bit
  <2>3. {b \in Bit : \A t \in Thread : b \in thread_results[t]} \subseteq Bit
    OBVIOUS
  <2>4. result' \in WordValue
    BY <1>4, <2>1, <2>2, <2>3 DEF CollectResults, WordValue
  <2>. QED BY <1>4, <2>4 DEF CollectResults, TypeInv
<1>5. CASE Return
  BY <1>5 DEF Return, TypeInv, NoLocals, WordValue
<1>. QED BY <1>1, <1>2, <1>3, <1>4, <1>5 DEF Next

LEMMA RegionStep == TypeInv /\ RegionInv /\ Next => RegionInv'
<1>. SUFFICES ASSUME TypeInv, RegionInv, Next PROVE RegionInv'
  OBVIOUS
<1>1. ASSUME NEW k \in Tasks, Call(k) PROVE RegionInv'
  BY <1>1, Calling
<1>2. ASSUME NEW t \in Thread, Iterate(t) PROVE RegionInv'
  <2>1. InLoop(t)
    BY <1>2 DEF Iterate, CopyBlock, WriteBlock, CompareBlock, AggOrBlock, CompareMask,
                BwBlock
  <2>. QED BY <2>1, Iterating
<1>3. ASSUME NEW t \in Thread, LeaveRegion(t) PROVE RegionInv'
  <2>1. pc # "idle" /\ pc # "return"
    BY <1>3 DEF LeaveRegion, RegionInv, NoLocals
  <2>. QED BY <2>1, <1>3 DEF LeaveRegion, RegionInv, Iterations, IsBw
<1>4. CASE CollectResults
  BY <1>4 DEF CollectResults, EndOfRegion, RegionInv, Iterations, IsBw
<1>5. CASE Return
  BY <1>5 DEF Return, RegionInv, NoLocals
<1>. QED BY <1>1, <1>2, <1>3, <1>4, <1>5 DEF Next

-----------------------------------------------------------------------------
(* What the tasks have done.                                               *)

LEMMA StoreStep == TypeInv /\ RegionInv /\ StoreInv /\ Next => StoreInv'
<1>. SUFFICES ASSUME TypeInv, RegionInv, StoreInv, Next PROVE StoreInv'
  OBVIOUS
<1>1. ASSUME NEW k \in Tasks, Call(k) PROVE StoreInv'
  BY <1>1, Calling DEF StoreInv
<1>2. ASSUME NEW t \in Thread, Iterate(t) PROVE StoreInv'
  <2>0. InLoop(t)
    BY <1>2 DEF Iterate, CopyBlock, WriteBlock, CompareBlock, AggOrBlock, CompareMask,
                BwBlock
  <2>1. /\ pc = "parallel" /\ pc' = "parallel" /\ task' = task /\ src' = src
        /\ iteration[t] \in 0 .. Iterations(task) - 1
        /\ iteration[t] \in Nat
        /\ \A u \in Thread : u # t => Finished(u)' = Finished(u)
        /\ Finished(t)' = Finished(t) \union {iteration[t]}
    BY <2>0, Iterating
  <2>2. CASE task \notin Copies \union Writes
    BY <2>1, <2>2 DEF StoreInv
  <2>3. ASSUME task \in Copies \union Writes, NEW words, Store(iteration[t], words),
               task \in Copies => \A l \in Lane : words[l] = src[iteration[t] * Lanes + l],
               task \in Writes => \A l \in Lane : words[l] = WRITE_VAL64
        PROVE  StoreInv'
    <3>. SUFFICES ASSUME NEW u \in Thread, NEW i \in Finished(u)', NEW l \in Lane
                  PROVE  /\ task \in Copies => dst'[i * Lanes + l] = src[i * Lanes + l]
                         /\ task \in Writes => dst'[i * Lanes + l] = WRITE_VAL64
      BY <2>1 DEF StoreInv
    <3>0. /\ \A m \in Lane : dst'[iteration[t] * Lanes + m] = words[m]
          /\ \A c \in Int, m \in Lane :
               c # iteration[t] /\ c * Lanes + m \in DOMAIN dst =>
                 dst'[c * Lanes + m] = dst[c * Lanes + m]
      <4>. DEFINE b == iteration[t]
      <4>1. b \in Nat /\ Store(b, words)
        BY <2>1, <2>3
      <4>. HIDE DEF b
      <4>2. \A m \in Lane : dst'[b * Lanes + m] = words[m]
        BY <4>1, StoreEffect
      <4>3. \A c \in Int, m \in Lane :
               c # b /\ c * Lanes + m \in DOMAIN dst =>
                 dst'[c * Lanes + m] = dst[c * Lanes + m]
        BY <4>1, StoreEffect
      <4>. QED BY <4>2, <4>3 DEF b
    <3>1. CASE i = iteration[t]
      <4>1. dst'[i * Lanes + l] = words[l]
        BY <3>0, <3>1
      <4>. QED BY <4>1, <3>1, <2>3
    <3>2. CASE i # iteration[t]
      <4>1. i \in Finished(u)
        BY <3>2, <2>1
      <4>2. i \in 0 .. Blocks - 1
        <5>1. task \in PlainTasks
          BY <2>3 DEF Copies, Writes, PlainTasks
        <5>. QED BY <5>1, <4>1, <2>1, PlainTask, FinishedRange
      <4>3. i * Lanes + l \in DOMAIN dst
        BY <4>2, BlockAddress DEF TypeInv
      <4>4. dst'[i * Lanes + l] = dst[i * Lanes + l]
        BY <3>0, <4>2, <4>3, <3>2
      <4>. QED BY <4>1, <4>4, <2>1 DEF StoreInv
    <3>. QED BY <3>1, <3>2
  <2>4. CASE CopyBlock(t)
    BY <2>4, <2>3 DEF CopyBlock, Copies, Writes, Source
  <2>5. CASE WriteBlock(t)
    BY <2>5, <2>3 DEF WriteBlock, Copies, Writes
  <2>6. CASE CompareBlock(t) \/ AggOrBlock(t) \/ CompareMask(t)
    BY <2>6, <2>2 DEF CompareBlock, AggOrBlock, CompareMask, Copies, Writes
  <2>7. CASE BwBlock(t)
    BY <2>7, <2>2, TaskAssumption DEF BwBlock, IsBw, Copies, Writes, PlainTasks
  <2>. QED BY <1>2, <2>4, <2>5, <2>6, <2>7 DEF Iterate
<1>3. ASSUME NEW t \in Thread, LeaveRegion(t) PROVE StoreInv'
  <2>1. pc # "idle"
    BY <1>3 DEF LeaveRegion, RegionInv, NoLocals
  <2>. QED BY <2>1, <1>3 DEF LeaveRegion, StoreInv, Finished
<1>4. CASE CollectResults
  BY <1>4 DEF CollectResults, EndOfRegion, StoreInv, Finished
<1>5. CASE Return
  BY <1>5 DEF Return, StoreInv
<1>. QED BY <1>1, <1>2, <1>3, <1>4, <1>5 DEF Next

(* The iteration of a reduction is the only one its task allows.           *)
LEMMA OnlyCompare ==
  ASSUME NEW t \in Thread, Iterate(t), task = "CompareScalar" PROVE CompareBlock(t)
<1>1. ~ IsBw(task)
  BY TaskAssumption DEF IsBw, PlainTasks
<1>. QED BY <1>1 DEF Iterate, CopyBlock, WriteBlock, AggOrBlock, CompareMask, BwBlock

LEMMA OnlyAggOr ==
  ASSUME NEW t \in Thread, Iterate(t), task \in AggOrs PROVE AggOrBlock(t)
<1>1. ~ IsBw(task)
  BY TaskAssumption DEF IsBw, PlainTasks, AggOrs
<1>. QED BY <1>1 DEF Iterate, CopyBlock, WriteBlock, CompareBlock, CompareMask, BwBlock,
                     AggOrs

LEMMA OnlyMask ==
  ASSUME NEW t \in Thread, Iterate(t), task = "CompareVector" PROVE CompareMask(t)
<1>1. ~ IsBw(task)
  BY TaskAssumption DEF IsBw, PlainTasks
<1>. QED BY <1>1 DEF Iterate, CopyBlock, WriteBlock, CompareBlock, AggOrBlock, BwBlock

LEMMA CompareStep == TypeInv /\ RegionInv /\ CompareInv /\ Next => CompareInv'
<1>. SUFFICES ASSUME TypeInv, RegionInv, CompareInv, Next PROVE CompareInv'
  OBVIOUS
<1>. DEFINE Row(t, l) == {b \in Bit : \A i \in Finished(t) : b \in Equal(Source(i, l))}
<1>1. ASSUME NEW k \in Tasks, Call(k) PROVE CompareInv'
  <2>. SUFFICES ASSUME k = "CompareScalar" PROVE CompareInv'
    BY <1>1, Calling DEF CompareInv
  <2>1. /\ result_array' = [t \in Thread |-> [l \in Lane |-> Bit]]
        /\ thread_results' = [t \in Thread |-> Bit]
        /\ tpc' = [t \in Thread |-> "loop"]
    BY <1>1 DEF Call, InitialResults, Neutral
  <2>2. /\ pc' = "parallel" /\ \A t \in Thread : Finished(t)' = {}
    BY <1>1, Calling
  <2>3. \A t \in Thread, l \in Lane : Row(t, l)' = Bit
    BY <2>2
  <2>. QED BY <2>1, <2>2, <2>3 DEF CompareInv
<1>2. ASSUME NEW t \in Thread, Iterate(t) PROVE CompareInv'
  <2>0. InLoop(t)
    BY <1>2 DEF Iterate, CopyBlock, WriteBlock, CompareBlock, AggOrBlock, CompareMask,
                BwBlock
  <2>1. /\ pc = "parallel" /\ pc' = "parallel" /\ task' = task /\ src' = src /\ tpc' = tpc
        /\ \A u \in Thread : u # t => Finished(u)' = Finished(u)
        /\ Finished(t)' = Finished(t) \union {iteration[t]}
    BY <2>0, Iterating
  <2>. SUFFICES ASSUME task = "CompareScalar" PROVE CompareInv'
    BY <2>1 DEF CompareInv
  <2>2. /\ result_array' = [result_array EXCEPT ![t] =
             [l \in Lane |-> @[l] \intersect Equal(Source(iteration[t], l))]]
        /\ thread_results' = thread_results
    BY <1>2, OnlyCompare DEF CompareBlock
  <2>3. ASSUME NEW u \in Thread, NEW l \in Lane
        PROVE  result_array'[u][l] = Row(u, l)'
    <3>1. result_array[u][l] = Row(u, l)
      BY <2>1 DEF CompareInv
    <3>2. \A i : Source(i, l)' = Source(i, l)
      BY <2>1 DEF Source
    <3>3. CASE u = t
      <4>1. result_array'[u][l] = Row(u, l) \intersect Equal(Source(iteration[t], l))
        BY <3>1, <3>3, <2>2 DEF TypeInv
      <4>2. Row(u, l)' = Row(u, l) \intersect Equal(Source(iteration[t], l))
        BY <3>3, <2>1, <3>2 DEF Equal
      <4>. QED BY <4>1, <4>2
    <3>4. CASE u # t
      <4>1. result_array'[u][l] = result_array[u][l]
        BY <3>4, <2>2 DEF TypeInv
      <4>2. Row(u, l)' = Row(u, l)
        BY <3>4, <2>1, <3>2 DEF Equal
      <4>. QED BY <4>1, <4>2, <3>1
    <3>. QED BY <3>3, <3>4
  <2>4. \A u \in Thread : tpc'[u] = "loop" /\ thread_results'[u] = Bit
    BY <2>0, <2>1, <2>2, Iterating DEF CompareInv
  <2>. HIDE DEF Row
  <2>5. \A u \in Thread, l \in Lane : result_array'[u][l] = Row(u, l)'
    BY <2>3
  <2>. QED BY <2>1, <2>4, <2>5 DEF CompareInv, Row
<1>3. ASSUME NEW t \in Thread, LeaveRegion(t) PROVE CompareInv'
  <2>1. pc = "parallel" /\ pc' = "parallel"
    BY <1>3 DEF LeaveRegion, RegionInv, NoLocals, TypeInv
  <2>2. /\ task' = task /\ src' = src /\ result_array' = result_array
        /\ iteration' = iteration /\ cut' = cut
        /\ tpc[t] = "loop" /\ tpc' = [tpc EXCEPT ![t] = "exit"]
    BY <1>3 DEF LeaveRegion
  <2>. SUFFICES ASSUME task = "CompareScalar" PROVE CompareInv'
    BY <2>2 DEF CompareInv
  <2>3. \A u \in Thread, l \in Lane : result_array'[u][l] = Row(u, l)'
    BY <2>1, <2>2 DEF CompareInv, Finished, Source, Equal
  <2>4. Folded(t) = {b \in Bit : \A l \in Lane : b \in result_array[t][l]}
    <3>1. Folded(t) = {b \in thread_results[t] : \A l \in Lane : b \in result_array[t][l]}
      BY DEF Folded
    <3>2. thread_results[t] = Bit
      BY <2>1, <2>2 DEF CompareInv
    <3>. QED BY <3>1, <3>2
  <2>5. thread_results' = [thread_results EXCEPT ![t] = Folded(t)]
    BY <1>3 DEF LeaveRegion
  <2>6. ASSUME NEW u \in Thread
        PROVE  thread_results'[u] =
                 IF tpc'[u] = "loop" THEN Bit
                 ELSE {b \in Bit : \A l \in Lane : b \in result_array'[u][l]}
    <3>1. CASE u = t
      <4>1. thread_results'[u] = Folded(t) /\ tpc'[u] = "exit"
        BY <3>1, <2>2, <2>5 DEF TypeInv
      <4>. QED BY <4>1, <3>1, <2>2, <2>4
    <3>2. CASE u # t
      <4>1. thread_results'[u] = thread_results[u] /\ tpc'[u] = tpc[u]
        BY <3>2, <2>2, <2>5 DEF TypeInv
      <4>. QED BY <4>1, <2>1, <2>2 DEF CompareInv
    <3>. QED BY <3>1, <3>2
  <2>. HIDE DEF Row
  <2>7. /\ \A u \in Thread, l \in Lane : result_array'[u][l] = Row(u, l)'
        /\ \A u \in Thread : thread_results'[u] =
             IF tpc'[u] = "loop" THEN Bit
             ELSE {b \in Bit : \A l \in Lane : b \in result_array'[u][l]}
    BY <2>3, <2>6
  <2>. QED BY <2>1, <2>7 DEF CompareInv, Row
<1>4. CASE CollectResults
  <2>1. /\ pc = "parallel" /\ pc' = "return" /\ task' = task /\ src' = src
        /\ result_array' = result_array /\ thread_results' = thread_results
        /\ iteration' = iteration /\ cut' = cut /\ tpc' = tpc
    BY <1>4 DEF CollectResults, EndOfRegion
  <2>. SUFFICES ASSUME task = "CompareScalar" PROVE CompareInv'
    BY <2>1 DEF CompareInv
  <2>2. result' = {b \in Bit : \A t \in Thread : b \in thread_results[t]}
    BY <1>4 DEF CollectResults
  <2>3. \A u \in Thread, l \in Lane : result_array'[u][l] = Row(u, l)'
    BY <2>1 DEF CompareInv, Finished, Source, Equal
  <2>4. \A u \in Thread : thread_results'[u] =
             IF tpc'[u] = "loop" THEN Bit
             ELSE {b \in Bit : \A l \in Lane : b \in result_array'[u][l]}
    BY <2>1 DEF CompareInv
  <2>. HIDE DEF Row
  <2>. QED BY <2>1, <2>2, <2>3, <2>4 DEF CompareInv, Row
<1>5. CASE Return
  BY <1>5 DEF Return, CompareInv
<1>. QED BY <1>1, <1>2, <1>3, <1>4, <1>5 DEF Next

LEMMA AggOrStep == TypeInv /\ RegionInv /\ AggOrInv /\ Next => AggOrInv'
<1>. SUFFICES ASSUME TypeInv, RegionInv, AggOrInv, Next PROVE AggOrInv'
  OBVIOUS
<1>. DEFINE Row(t, l) == UNION {Source(i, l) : i \in Finished(t)}
<1>1. ASSUME NEW k \in Tasks, Call(k) PROVE AggOrInv'
  <2>. SUFFICES ASSUME k \in AggOrs PROVE AggOrInv'
    BY <1>1, Calling DEF AggOrInv
  <2>1. /\ result_array' = [t \in Thread |-> [l \in Lane |-> {}]]
        /\ tpc' = [t \in Thread |-> "loop"]
    BY <1>1 DEF Call, Neutral, AggOrs
  <2>2. /\ pc' = "parallel" /\ \A t \in Thread : Finished(t)' = {}
    BY <1>1, Calling
  <2>3. \A t \in Thread, l \in Lane : Row(t, l)' = {}
    BY <2>2
  <2>. QED BY <2>1, <2>2, <2>3 DEF AggOrInv
<1>2. ASSUME NEW t \in Thread, Iterate(t) PROVE AggOrInv'
  <2>0. InLoop(t)
    BY <1>2 DEF Iterate, CopyBlock, WriteBlock, CompareBlock, AggOrBlock, CompareMask,
                BwBlock
  <2>1. /\ pc = "parallel" /\ pc' = "parallel" /\ task' = task /\ src' = src /\ tpc' = tpc
        /\ \A u \in Thread : u # t => Finished(u)' = Finished(u)
        /\ Finished(t)' = Finished(t) \union {iteration[t]}
        /\ \A u \in Thread : tpc[u] = "loop"
    BY <2>0, Iterating
  <2>. SUFFICES ASSUME task \in AggOrs PROVE AggOrInv'
    BY <2>1 DEF AggOrInv
  <2>2. /\ result_array' = [result_array EXCEPT ![t] =
             [l \in Lane |-> @[l] \union Source(iteration[t], l)]]
    BY <1>2, OnlyAggOr DEF AggOrBlock
  <2>3. ASSUME NEW u \in Thread, NEW l \in Lane
        PROVE  result_array'[u][l] = Row(u, l)'
    <3>1. result_array[u][l] = Row(u, l)
      BY <2>1 DEF AggOrInv
    <3>2. \A i : Source(i, l)' = Source(i, l)
      BY <2>1 DEF Source
    <3>3. CASE u = t
      <4>1. result_array'[u][l] = Row(u, l) \union Source(iteration[t], l)
        BY <3>1, <3>3, <2>2 DEF TypeInv
      <4>2. Row(u, l)' = Row(u, l) \union Source(iteration[t], l)
        BY <3>3, <2>1, <3>2
      <4>. QED BY <4>1, <4>2
    <3>4. CASE u # t
      <4>1. result_array'[u][l] = result_array[u][l]
        BY <3>4, <2>2 DEF TypeInv
      <4>2. Row(u, l)' = Row(u, l)
        BY <3>4, <2>1, <3>2
      <4>. QED BY <4>1, <4>2, <3>1
    <3>. QED BY <3>3, <3>4
  <2>4. \A u \in Thread : tpc'[u] # "exit"
    BY <2>1
  <2>. HIDE DEF Row
  <2>5. \A u \in Thread, l \in Lane : result_array'[u][l] = Row(u, l)'
    BY <2>3
  <2>. QED BY <2>1, <2>4, <2>5 DEF AggOrInv, Row
<1>3. ASSUME NEW t \in Thread, LeaveRegion(t) PROVE AggOrInv'
  <2>1. pc = "parallel" /\ pc' = "parallel"
    BY <1>3 DEF LeaveRegion, RegionInv, NoLocals, TypeInv
  <2>2. /\ task' = task /\ src' = src /\ result_array' = result_array
        /\ iteration' = iteration /\ cut' = cut
        /\ tpc' = [tpc EXCEPT ![t] = "exit"]
        /\ thread_results' = [thread_results EXCEPT ![t] = Folded(t)]
    BY <1>3 DEF LeaveRegion
  <2>. SUFFICES ASSUME task \in AggOrs PROVE AggOrInv'
    BY <2>2 DEF AggOrInv
  <2>3. \A u \in Thread, l \in Lane : result_array'[u][l] = Row(u, l)'
    BY <2>1, <2>2 DEF AggOrInv, Finished, Source
  <2>4. Folded(t) = FoldedRow(t)
    BY DEF Folded, FoldedRow, AggOrs
  <2>5. ASSUME NEW u \in Thread, tpc'[u] = "exit"
        PROVE  thread_results'[u] = FoldedRow(u)'
    <3>1. CASE u = t
      <4>1. thread_results'[u] = Folded(t)
        BY <3>1, <2>2 DEF TypeInv
      <4>2. FoldedRow(u)' = FoldedRow(t)
        BY <2>2, <3>1 DEF FoldedRow
      <4>. QED BY <4>1, <4>2, <2>4
    <3>2. CASE u # t
      <4>1. thread_results'[u] = thread_results[u] /\ tpc'[u] = tpc[u]
        BY <3>2, <2>2 DEF TypeInv
      <4>2. FoldedRow(u)' = FoldedRow(u)
        BY <2>2 DEF FoldedRow
      <4>3. thread_results[u] = FoldedRow(u)
        BY <4>1, <2>5, <2>1 DEF AggOrInv
      <4>. QED BY <4>1, <4>2, <4>3
    <3>. QED BY <3>1, <3>2
  <2>. HIDE DEF Row
  <2>6. /\ \A u \in Thread, l \in Lane : result_array'[u][l] = Row(u, l)'
        /\ \A u \in Thread : tpc'[u] = "exit" => thread_results'[u] = FoldedRow(u)'
    BY <2>3, <2>5
  <2>. QED BY <2>1, <2>6 DEF AggOrInv, Row
<1>4. CASE CollectResults
  <2>1. /\ pc = "parallel" /\ pc' = "return" /\ task' = task /\ src' = src
        /\ result_array' = result_array /\ thread_results' = thread_results
        /\ iteration' = iteration /\ cut' = cut /\ tpc' = tpc
    BY <1>4 DEF CollectResults, EndOfRegion
  <2>. SUFFICES ASSUME task \in AggOrs PROVE AggOrInv'
    BY <2>1 DEF AggOrInv
  <2>2. result' = UNION {thread_results[t] : t \in Thread}
    BY <1>4 DEF CollectResults, AggOrs
  <2>3. \A u \in Thread, l \in Lane : result_array'[u][l] = Row(u, l)'
    BY <2>1 DEF AggOrInv, Finished, Source
  <2>4. \A u \in Thread : tpc'[u] = "exit" => thread_results'[u] = FoldedRow(u)'
    <3>1. \A u \in Thread : FoldedRow(u)' = FoldedRow(u)
      BY <2>1 DEF FoldedRow
    <3>2. \A u \in Thread : tpc[u] = "exit" => thread_results[u] = FoldedRow(u)
      BY <2>1 DEF AggOrInv
    <3>. QED BY <2>1, <3>1, <3>2
  <2>. HIDE DEF Row
  <2>. QED BY <2>1, <2>2, <2>3, <2>4 DEF AggOrInv, Row
<1>5. CASE Return
  BY <1>5 DEF Return, AggOrInv
<1>. QED BY <1>1, <1>2, <1>3, <1>4, <1>5 DEF Next

LEMMA MaskStep == TypeInv /\ RegionInv /\ MaskInv /\ Next => MaskInv'
<1>. SUFFICES ASSUME TypeInv, RegionInv, MaskInv, Next PROVE MaskInv'
  OBVIOUS
<1>. DEFINE Kept(i) == {l \in Lane : Source(i, l) = WRITE_VAL64}
<1>1. ASSUME NEW k \in Tasks, Call(k) PROVE MaskInv'
  BY <1>1, Calling DEF MaskInv
<1>2. ASSUME NEW t \in Thread, Iterate(t) PROVE MaskInv'
  <2>0. InLoop(t)
    BY <1>2 DEF Iterate, CopyBlock, WriteBlock, CompareBlock, AggOrBlock, CompareMask,
                BwBlock
  <2>1. /\ pc = "parallel" /\ pc' = "parallel" /\ task' = task /\ src' = src
        /\ \A u \in Thread : u # t => Finished(u)' = Finished(u)
        /\ Finished(t)' = Finished(t) \union {iteration[t]}
    BY <2>0, Iterating
  <2>. SUFFICES ASSUME task = "CompareVector" PROVE MaskInv'
    BY <2>1 DEF MaskInv
  <2>2. thread_results' = [thread_results EXCEPT ![t] = @ \intersect Kept(iteration[t])]
    BY <1>2, OnlyMask DEF CompareMask
  <2>3. \A i : Kept(i)' = Kept(i)
    BY <2>1 DEF Source
  <2>. HIDE DEF Kept
  <2>4. ASSUME NEW u \in Thread, NEW i \in Finished(u)' PROVE thread_results'[u] \subseteq Kept(i)
    <3>1. i \in Finished(u) => thread_results[u] \subseteq Kept(i)
      BY <2>1 DEF MaskInv, Kept
    <3>2. CASE u = t
      BY <3>1, <3>2, <2>1, <2>2 DEF TypeInv
    <3>3. CASE u # t
      BY <3>1, <3>3, <2>1, <2>2 DEF TypeInv
    <3>. QED BY <3>2, <3>3
  <2>5. \A u \in Thread : \A i \in Finished(u)' : thread_results'[u] \subseteq Kept(i)'
    BY <2>3, <2>4
  <2>. QED BY <2>1, <2>5 DEF MaskInv, Kept
<1>3. ASSUME NEW t \in Thread, LeaveRegion(t) PROVE MaskInv'
  <2>1. pc = "parallel" /\ pc' = "parallel"
    BY <1>3 DEF LeaveRegion, RegionInv, NoLocals, TypeInv
  <2>2. /\ task' = task /\ src' = src /\ iteration' = iteration /\ cut' = cut
        /\ thread_results' = [thread_results EXCEPT ![t] = Folded(t)]
    BY <1>3 DEF LeaveRegion
  <2>. SUFFICES ASSUME task = "CompareVector" PROVE MaskInv'
    BY <2>2 DEF MaskInv
  <2>3. Folded(t) = thread_results[t]
    BY DEF Folded
  <2>4. thread_results' = thread_results
    BY <2>2, <2>3 DEF TypeInv
  <2>. QED BY <2>1, <2>2, <2>4 DEF MaskInv, Finished, Source
<1>4. CASE CollectResults
  <2>1. /\ pc = "parallel" /\ pc' = "return" /\ task' = task /\ src' = src
        /\ thread_results' = thread_results /\ iteration' = iteration /\ cut' = cut
    BY <1>4 DEF CollectResults, EndOfRegion
  <2>. SUFFICES ASSUME task = "CompareVector" PROVE MaskInv'
    BY <2>1 DEF MaskInv
  <2>2. result' = {b \in TBit : \A t \in Thread : b \in thread_results[t]}
    BY <1>4 DEF CollectResults
  <2>. QED BY <2>1, <2>2 DEF MaskInv, Finished, Source
<1>5. CASE Return
  BY <1>5 DEF Return, MaskInv
<1>. QED BY <1>1, <1>2, <1>3, <1>4, <1>5 DEF Next

-----------------------------------------------------------------------------
(* Where the results of the comparisons lie.                               *)

(* A thread's results start where those of the thread before it must end.  *)
LEMMA OffsetMonotone ==
  ASSUME NEW t \in Nat, NEW u \in Nat, t <= u
  PROVE  /\ ResultOffset(t) \in Nat /\ ResultOffset(u) \in Nat
         /\ ResultOffset(t) <= ResultOffset(u)
         /\ ResultOffset(t + 1) = ResultOffset(t) + (Blocks \div StepWidth)
<1>. DEFINE q == Blocks \div StepWidth
<1>1. q \in Nat
  BY WholeBlocks
<1>. HIDE DEF q
<1>2. t * q \in Nat /\ u * q \in Nat /\ t * q <= u * q /\ (t + 1) * q = t * q + q
  BY <1>1, ProductMonotone, ProductSuccessor
<1>. QED BY <1>2 DEF ResultOffset, q

(* A thread's results stay within its part.                                *)
LEMMA BlockInPart ==
  ASSUME TypeInv, RegionInv, pc # "idle", IsBw(task), NEW t \in Thread,
         NEW i \in Int, cut[t] <= i, i <= Iterations(task)
  PROVE  /\ ResultBlock(t, i) \in Nat
         /\ ResultOffset(t) <= ResultBlock(t, i)
         /\ i < Iterations(task) => ResultBlock(t, i) < ResultOffset(t + 1)
         /\ ResultBlock(t, i) <= ResultOffset(t + 1)
<1>. DEFINE q == Blocks \div StepWidth
<1>1. q \in Nat
  BY WholeBlocks
<1>2. Iterations(task) = q
  BY DEF Iterations
<1>3. cut[t] \in 0 .. q
  BY <1>2, ScheduleType, IterationsType DEF RegionInv
<1>4. t \in Nat
  BY ThreadAssumption DEF Thread
<1>5. ResultOffset(t) \in Nat /\ ResultOffset(t + 1) = ResultOffset(t) + q
  BY <1>4, OffsetMonotone
<1>. HIDE DEF q
<1>. QED BY <1>1, <1>2, <1>3, <1>5 DEF ResultBlock

LEMMA BlocksApart ==
  ASSUME TypeInv, RegionInv, pc # "idle", IsBw(task),
         NEW t \in Thread, NEW u \in Thread, t # u,
         NEW i \in Int, cut[t] <= i, i < Iterations(task),
         NEW j \in Int, cut[u] <= j, j < Iterations(task)
  PROVE  ResultBlock(t, i) # ResultBlock(u, j)
<1>1. /\ ResultBlock(t, i) \in Nat /\ ResultOffset(t) <= ResultBlock(t, i)
      /\ ResultBlock(t, i) < ResultOffset(t + 1)
  BY BlockInPart, IterationsType
<1>2. /\ ResultBlock(u, j) \in Nat /\ ResultOffset(u) <= ResultBlock(u, j)
      /\ ResultBlock(u, j) < ResultOffset(u + 1)
  BY BlockInPart, IterationsType
<1>3. t \in Nat /\ u \in Nat /\ (t + 1 <= u \/ u + 1 <= t)
  BY ThreadAssumption DEF Thread
<1>4. CASE t + 1 <= u
  <2>1. /\ ResultOffset(t + 1) \in Nat /\ ResultOffset(u) \in Nat
        /\ ResultOffset(t + 1) <= ResultOffset(u)
    BY <1>3, <1>4, OffsetMonotone
  <2>. QED BY <2>1, <1>1, <1>2
<1>5. CASE u + 1 <= t
  <2>1. /\ ResultOffset(u + 1) \in Nat /\ ResultOffset(t) \in Nat
        /\ ResultOffset(u + 1) <= ResultOffset(t)
    BY <1>3, <1>5, OffsetMonotone
  <2>. QED BY <2>1, <1>1, <1>2
<1>. QED BY <1>3, <1>4, <1>5

LEMMA BwStep == TypeInv /\ RegionInv /\ BwInv /\ Next => BwInv'
<1>. SUFFICES ASSUME TypeInv, RegionInv, BwInv, Next PROVE BwInv'
  OBVIOUS
<1>1. ASSUME NEW k \in Tasks, Call(k) PROVE BwInv'
  <2>1. /\ pc' = "parallel" /\ \A t \in Thread : Finished(t)' = {}
    BY <1>1, Calling
  <2>2. ASSUME NEW t \in Thread PROVE outpos'[t] = ResultBlock(t, iteration[t])'
    <3>1. outpos'[t] = ResultOffset(t) /\ iteration'[t] = cut'[t]
      BY <1>1 DEF Call
    <3>2. cut'[t] \in Int
      BY <1>1, ScheduleType, IterationsType DEF Call
    <3>. QED BY <3>1, <3>2, ResultOffsetType DEF ResultBlock
  <2>. QED BY <2>1, <2>2 DEF BwInv
<1>2. ASSUME NEW t \in Thread, Iterate(t) PROVE BwInv'
  <2>0. InLoop(t)
    BY <1>2 DEF Iterate, CopyBlock, WriteBlock, CompareBlock, AggOrBlock, CompareMask,
                BwBlock
  <2>1. /\ pc = "parallel" /\ pc' = "parallel" /\ task' = task /\ src' = src /\ cut' = cut
        /\ iteration[t] \in 0 .. Iterations(task) - 1
        /\ iteration[t] \in Nat
        /\ iteration'[t] = iteration[t] + 1
        /\ \A u \in Thread : u # t => iteration'[u] = iteration[u]
        /\ \A u \in Thread : u # t => Finished(u)' = Finished(u)
        /\ Finished(t)' = Finished(t) \union {iteration[t]}
    BY <2>0, Iterating
  <2>. SUFFICES ASSUME IsBw(task) PROVE BwInv'
    BY <2>1 DEF BwInv, IsBw
  <2>2. BwBlock(t)
    <3>1. task \notin PlainTasks
      BY TaskAssumption DEF IsBw
    <3>. QED BY <1>2, <3>1 DEF Iterate, PlainTasks, CopyBlock, WriteBlock, CompareBlock,
                               AggOrBlock, CompareMask
  <2>. DEFINE b == outpos[t]
              words == BwResult(task, iteration[t])
  <2>3. /\ b \in Nat /\ Store(b, words)
        /\ outpos' = [outpos EXCEPT ![t] = @ + 1]
        /\ b = ResultBlock(t, iteration[t])
    BY <2>1, <2>2 DEF BwBlock, BwInv, TypeInv
  <2>. HIDE DEF b, words
  <2>4. /\ DOMAIN dst \subseteq DOMAIN dst'
        /\ \A l \in Lane : b * Lanes + l \in DOMAIN dst'
    BY <2>3, StoreEffect
  <2>5. \A l \in Lane : dst'[b * Lanes + l] = words[l]
    BY <2>3, StoreEffect
  <2>6. \A c \in Int, l \in Lane :
           c # b /\ c * Lanes + l \in DOMAIN dst =>
             dst'[c * Lanes + l] = dst[c * Lanes + l]
    BY <2>3, StoreEffect
  <2>7. \A i : BwResult(task, i)' = BwResult(task, i)
    BY <2>1 DEF BwResult, Source
  <2>8. \A u \in Thread : \A i : ResultBlock(u, i)' = ResultBlock(u, i)
    BY <2>1 DEF ResultBlock
  <2>9. cut[t] \in Int /\ cut[t] <= iteration[t] /\ ResultOffset(t) \in Nat
    <3>1. /\ cut[t] \in 0 .. Iterations(task) /\ iteration[t] \in cut[t] .. cut[t + 1]
      BY <2>1, ScheduleType, IterationsType DEF RegionInv
    <3>. QED BY <3>1, IterationsType, ResultOffsetType
  <2>10. ASSUME NEW u \in Thread PROVE outpos'[u] = ResultBlock(u, iteration[u])'
    <3>1. CASE u = t
      <4>1. outpos'[u] = b + 1
        BY <3>1, <2>3 DEF TypeInv, b
      <4>2. ResultBlock(u, iteration[u])' = ResultBlock(t, iteration[t]) + 1
        BY <3>1, <2>1, <2>9 DEF ResultBlock
      <4>. QED BY <4>1, <4>2, <2>3
    <3>2. CASE u # t
      <4>1. outpos'[u] = outpos[u]
        BY <3>2, <2>3 DEF TypeInv
      <4>2. ResultBlock(u, iteration[u])' = ResultBlock(u, iteration[u])
        BY <3>2, <2>1 DEF ResultBlock
      <4>. QED BY <4>1, <4>2, <2>1 DEF BwInv
    <3>. QED BY <3>1, <3>2
  <2>11. ASSUME NEW u \in Thread, NEW i \in Finished(u)', NEW l \in Lane
         PROVE  /\ ResultBlock(u, i) * Lanes + l \in DOMAIN dst'
                /\ dst'[ResultBlock(u, i) * Lanes + l] = BwResult(task, i)[l]
    <3>1. CASE u = t /\ i = iteration[t]
      <4>1. ResultBlock(u, i) = b /\ BwResult(task, i) = words
        BY <3>1, <2>3 DEF words
      <4>. QED BY <4>1, <2>4, <2>5
    <3>2. CASE ~ (u = t /\ i = iteration[t])
      <4>1. i \in Finished(u)
        BY <3>2, <2>1
      <4>2. i \in 0 .. Iterations(task) - 1
        BY <4>1, <2>1, FinishedRange
      <4>3. cut[u] \in Int /\ cut[u] <= i
        <5>1. cut[u] \in 0 .. Iterations(task)
          BY <2>1, ScheduleType, IterationsType DEF RegionInv
        <5>2. iteration[u] \in Int
          BY DEF TypeInv
        <5>. QED BY <5>1, <5>2, <4>1, IterationsType DEF Finished
      <4>4. ResultBlock(u, i) \in Nat
        BY <4>2, <4>3, <2>1, BlockInPart, IterationsType
      <4>5. ResultBlock(u, i) # b
        <5>1. CASE u = t
          <6>1. i < iteration[t]
            BY <5>1, <4>1, <2>1, <2>9 DEF Finished
          <6>. QED BY <6>1, <5>1, <4>2, <2>1, <2>3, <2>9, IterationsType DEF ResultBlock
        <5>2. CASE u # t
          <6>1. iteration[t] \in Int /\ iteration[t] < Iterations(task) /\ i \in Int
                /\ i < Iterations(task) /\ pc # "idle"
            BY <2>1, <4>2, IterationsType
          <6>. QED BY <5>2, <6>1, <4>3, <2>3, <2>9, BlocksApart
        <5>. QED BY <5>1, <5>2
      <4>6. /\ ResultBlock(u, i) * Lanes + l \in DOMAIN dst
            /\ dst[ResultBlock(u, i) * Lanes + l] = BwResult(task, i)[l]
        BY <4>1, <2>1 DEF BwInv
      <4>7. dst'[ResultBlock(u, i) * Lanes + l] = dst[ResultBlock(u, i) * Lanes + l]
        BY <4>4, <4>5, <4>6, <2>6
      <4>. QED BY <4>6, <4>7, <2>4
    <3>. QED BY <3>1, <3>2
  <2>. QED BY <2>1, <2>7, <2>8, <2>10, <2>11 DEF BwInv
<1>3. ASSUME NEW t \in Thread, LeaveRegion(t) PROVE BwInv'
  <2>1. pc # "idle"
    BY <1>3 DEF LeaveRegion, RegionInv, NoLocals
  <2>. QED BY <2>1, <1>3 DEF LeaveRegion, BwInv, Finished, ResultBlock, BwResult, Source, IsBw
<1>4. CASE CollectResults
  BY <1>4 DEF CollectResults, EndOfRegion, BwInv, Finished, ResultBlock, BwResult, Source, IsBw
<1>5. CASE Return
  BY <1>5 DEF Return, BwInv
<1>. QED BY <1>1, <1>2, <1>3, <1>4, <1>5 DEF Next

-----------------------------------------------------------------------------
(* What the invariant is for.                                              *)

LEMMA TasksStep == IInv /\ [Next]_vars => IInv'
<1>1. CASE Next
  BY <1>1, TypeStep, RegionStep, StoreStep, CompareStep, AggOrStep, MaskStep, BwStep,
         Zenon DEF IInv
<1>2. ASSUME IInv, UNCHANGED vars PROVE IInv'
  <2>. USE <1>2 DEF vars
  <2>1. TypeInv' /\ RegionInv'
    BY DEF IInv, TypeInv, RegionInv, Iterations, IsBw
  <2>2. StoreInv'
    BY DEF IInv, StoreInv, Finished
  <2>0. /\ \A t \in Thread : Finished(t)' = Finished(t) /\ FoldedRow(t)' = FoldedRow(t)
        /\ \A i, l : Source(i, l)' = Source(i, l)
    BY DEF Finished, FoldedRow, Source
  <2>3. CompareInv'
    <3>1. \A t \in Thread, l \in Lane :
            {b \in Bit : \A i \in Finished(t) : b \in Equal(Source(i, l))}' =
              {b \in Bit : \A i \in Finished(t) : b \in Equal(Source(i, l))}
      BY <2>0, Zenon DEF Equal
    <3>2. CompareInv
      BY DEF IInv
    <3>. QED BY <3>1, <3>2 DEF CompareInv
  <2>4. AggOrInv'
    <3>1. \A t \in Thread, l \in Lane :
            (UNION {Source(i, l) : i \in Finished(t)})' = UNION {Source(i, l) : i \in Finished(t)}
      BY <2>0, Zenon
    <3>2. AggOrInv
      BY DEF IInv
    <3>. QED BY <2>0, <3>1, <3>2 DEF AggOrInv
  <2>5. BwInv'
    BY DEF IInv, BwInv, Finished, ResultBlock, BwResult, Source, IsBw
  <2>6. MaskInv'
    BY DEF IInv, MaskInv, Finished, Source
  <2>. QED BY <2>1, <2>2, <2>3, <2>4, <2>5, <2>6 DEF IInv
<1>. QED BY <1>1, <1>2

LEMMA TasksType == IInv => TypeOK
<1>. SUFFICES ASSUME IInv PROVE TypeOK
  OBVIOUS
<1>. USE DEF IInv
<1>1. \E n \in {Iterations(k) : k \in Tasks} \union {0} : cut \in [0 .. NUMTHREADS -> 0 .. n]
  <2>1. CASE pc = "idle"
    BY <2>1, ThreadAssumption DEF RegionInv, NoLocals
  <2>2. CASE pc # "idle"
    <3>1. cut \in [0 .. NUMTHREADS -> 0 .. Iterations(task)] /\ task \in Tasks
      BY <2>2 DEF RegionInv, Schedules, TypeInv
    <3>. QED BY <3>1
  <2>. QED BY <2>1, <2>2
<1>2. ASSUME NEW t \in Thread PROVE iteration[t] \in 0 .. cut[t + 1]
  <2>1. CASE pc = "idle"
    <3>1. t + 1 \in 0 .. NUMTHREADS
      BY ThreadAssumption DEF Thread
    <3>. QED BY <2>1, <3>1 DEF RegionInv, NoLocals
  <2>2. CASE pc # "idle"
    <3>1. /\ cut[t] \in 0 .. Iterations(task) /\ cut[t + 1] \in 0 .. Iterations(task)
          /\ iteration[t] \in cut[t] .. cut[t + 1]
      BY <2>2, ScheduleType, IterationsType DEF RegionInv
    <3>. QED BY <3>1, IterationsType
  <2>. QED BY <2>1, <2>2
<1>. QED BY <1>1, <1>2 DEF TypeOK, TypeInv

(* No iteration is left out when a task returns.                           *)
LEMMA AllFinished ==
  ASSUME IInv, pc = "return", NEW i \in 0 .. Iterations(task) - 1
  PROVE  \E t \in Thread : i \in Finished(t)
<1>1. /\ cut \in Schedules(Iterations(task)) /\ Iterations(task) \in Nat
      /\ \A t \in Thread : iteration[t] = cut[t + 1]
  BY IterationsType, ThreadAssumption DEF IInv, RegionInv, Thread
<1>2. PICK t \in Thread : i \in cut[t] .. cut[t + 1] - 1
  BY <1>1, ScheduleCovers
<1>. QED BY <1>1, <1>2 DEF Finished

LEMMA TasksExact == IInv => ReturnExact
<1>. SUFFICES ASSUME IInv, pc = "return" PROVE ReturnExact
  BY DEF ReturnExact
<1>. USE DEF IInv
<1>0. ASSUME NEW a \in Address, task \in PlainTasks
      PROVE  \E t \in Thread, l \in Lane : \E i \in Finished(t) :
                a = i * Lanes + l /\ Source(i, l) = src[a]
  <2>1. PICK b \in 0 .. Blocks - 1, l \in Lane : a = b * Lanes + l
    BY AddressBlock
  <2>2. b \in 0 .. Iterations(task) - 1
    BY <1>0, <2>1, PlainTask
  <2>3. PICK t \in Thread : b \in Finished(t)
    BY <2>2, AllFinished
  <2>. QED BY <2>1, <2>3 DEF Source
<1>1. ASSUME NEW t \in Thread, NEW i \in Finished(t), NEW l \in Lane, task \in PlainTasks
      PROVE  \E a \in Address : Source(i, l) = src[a]
  <2>1. i \in 0 .. Blocks - 1
    BY <1>1, FinishedRange, PlainTask
  <2>. QED BY <2>1, BlockAddress DEF Source
<1>2. ASSUME task \in Copies, NEW a \in Address PROVE dst[a] = src[a]
  <2>1. task \in PlainTasks
    BY <1>2 DEF Copies, PlainTasks
  <2>2. PICK t \in Thread, l \in Lane : \E i \in Finished(t) : a = i * Lanes + l
    BY <2>1, <1>0
  <2>3. PICK i \in Finished(t) : a = i * Lanes + l
    BY <2>2
  <2>. QED BY <2>3, <1>2 DEF StoreInv
<1>3. ASSUME task \in Writes, NEW a \in Address PROVE dst[a] = WRITE_VAL64
  <2>1. task \in PlainTasks
    BY <1>3 DEF Writes, PlainTasks
  <2>2. PICK t \in Thread, l \in Lane : \E i \in Finished(t) : a = i * Lanes + l
    BY <2>1, <1>0
  <2>3. PICK i \in Finished(t) : a = i * Lanes + l
    BY <2>2
  <2>. QED BY <2>3, <1>3 DEF StoreInv
<1>4. ASSUME task = "CompareScalar" PROVE result = CompareAll
  <2>0. task \in PlainTasks
    BY <1>4 DEF PlainTasks
  <2>1. ASSUME NEW b \in Bit
        PROVE  b \in result <=> \A t \in Thread, l \in Lane : b \in result_array[t][l]
    <3>1. \A t \in Thread :
            thread_results[t] = {x \in Bit : \A l \in Lane : x \in result_array[t][l]}
      BY <1>4 DEF CompareInv, RegionInv
    <3>2. result = {x \in Bit : \A t \in Thread : x \in thread_results[t]}
      BY <1>4 DEF CompareInv
    <3>. QED BY <3>1, <3>2
  <2>2. ASSUME NEW b \in Bit, NEW t \in Thread, NEW l \in Lane
        PROVE  b \in result_array[t][l] <=> \A i \in Finished(t) : b \in Equal(Source(i, l))
    <3>1. result_array[t][l] = {x \in Bit : \A i \in Finished(t) : x \in Equal(Source(i, l))}
      BY <1>4 DEF CompareInv
    <3>. QED BY <3>1
  <2>3. ASSUME NEW b \in result PROVE b \in CompareAll
    <3>1. b \in Bit
      BY <1>4 DEF CompareInv
    <3>2. ASSUME NEW a \in Address PROVE b \in Equal(src[a])
      <4>1. PICK t \in Thread, l \in Lane : \E i \in Finished(t) : Source(i, l) = src[a]
        BY <2>0, <1>0
      <4>2. PICK i \in Finished(t) : Source(i, l) = src[a]
        BY <4>1
      <4>3. b \in Equal(Source(i, l))
        BY <2>1, <2>2, <3>1
      <4>. QED BY <4>2, <4>3
    <3>. QED BY <3>1, <3>2 DEF CompareAll
  <2>4. ASSUME NEW b \in CompareAll PROVE b \in result
    <3>1. b \in Bit /\ \A a \in Address : b \in Equal(src[a])
      BY DEF CompareAll
    <3>2. ASSUME NEW t \in Thread, NEW l \in Lane PROVE b \in result_array[t][l]
      <4>1. ASSUME NEW i \in Finished(t) PROVE b \in Equal(Source(i, l))
        <5>1. PICK a \in Address : Source(i, l) = src[a]
          BY <2>0, <1>1
        <5>. QED BY <5>1, <3>1
      <4>. QED BY <4>1, <3>1, <2>2
    <3>. QED BY <3>1, <3>2, <2>1
  <2>. QED BY <2>3, <2>4
<1>5. ASSUME task = "AggOrScalar" PROVE result = OrAll
  <2>0. task \in PlainTasks
    BY <1>5 DEF PlainTasks
  <2>1. /\ result = UNION {thread_results[t] : t \in Thread}
        /\ \A t \in Thread : thread_results[t] = UNION {result_array[t][l] : l \in Lane}
        /\ \A t \in Thread, l \in Lane :
             result_array[t][l] = UNION {Source(i, l) : i \in Finished(t)}
    BY <1>5 DEF AggOrInv, RegionInv, AggOrs, FoldedRow
  <2>2. ASSUME NEW b \in result PROVE b \in OrAll
    <3>1. PICK t \in Thread : b \in thread_results[t]
      BY <2>1
    <3>2. PICK l \in Lane : b \in result_array[t][l]
      BY <3>1, <2>1
    <3>3. PICK i \in Finished(t) : b \in Source(i, l)
      BY <3>2, <2>1
    <3>4. PICK a \in Address : Source(i, l) = src[a]
      BY <2>0, <1>1
    <3>. QED BY <3>3, <3>4 DEF OrAll
  <2>3. ASSUME NEW b \in OrAll PROVE b \in result
    <3>1. PICK a \in Address : b \in src[a]
      BY DEF OrAll
    <3>2. PICK t \in Thread, l \in Lane : \E i \in Finished(t) : Source(i, l) = src[a]
      BY <2>0, <1>0
    <3>3. PICK i \in Finished(t) : Source(i, l) = src[a]
      BY <3>2
    <3>4. b \in result_array[t][l]
      BY <3>1, <3>3, <2>1
    <3>5. b \in thread_results[t]
      BY <3>4, <2>1
    <3>. QED BY <3>5, <2>1
  <2>. QED BY <2>2, <2>3
<1>6. ASSUME task \in PlainTasks, NEW b \in 0 .. Blocks - 1
      PROVE  \E t \in Thread : b \in Finished(t)
  BY <1>6, PlainTask, AllFinished
<1>7. ASSUME task = "CompareVector", Blocks # 0 PROVE result \subseteq EqualLanes
  <2>0. task \in PlainTasks /\ 0 \in 0 .. Blocks - 1
    BY <1>7, BlockAssumption DEF PlainTasks
  <2>1. ASSUME NEW l \in result, NEW b \in 0 .. Blocks - 1
        PROVE  l \in Lane /\ Source(b, l) = WRITE_VAL64
    <3>1. PICK t \in Thread : b \in Finished(t)
      BY <2>0, <1>6
    <3>2. /\ l \in thread_results[t]
          /\ thread_results[t] \subseteq {m \in Lane : Source(b, m) = WRITE_VAL64}
      BY <3>1, <1>7 DEF MaskInv
    <3>. QED BY <3>2
  <2>. QED BY <2>0, <2>1 DEF EqualLanes
<1>8. ASSUME task = "AggOrVector" PROVE result = OrLowest \intersect TBit
  <2>0. task \in PlainTasks /\ 0 \in Lane
    BY <1>8, BlockAssumption DEF PlainTasks, Lane
  <2>1. /\ result = UNION {thread_results[t] : t \in Thread}
        /\ \A t \in Thread : thread_results[t] = result_array[t][0] \intersect TBit
        /\ \A t \in Thread : result_array[t][0] = UNION {Source(i, 0) : i \in Finished(t)}
    BY <1>8, <2>0 DEF AggOrInv, RegionInv, AggOrs, FoldedRow
  <2>2. ASSUME NEW x \in result PROVE x \in OrLowest \intersect TBit
    <3>1. PICK t \in Thread : x \in thread_results[t]
      BY <2>1
    <3>2. x \in TBit /\ x \in result_array[t][0]
      BY <3>1, <2>1
    <3>3. PICK i \in Finished(t) : x \in Source(i, 0)
      BY <3>2, <2>1
    <3>4. i \in 0 .. Blocks - 1
      BY <1>8, <2>0, FinishedRange, PlainTask
    <3>. QED BY <3>2, <3>3, <3>4 DEF OrLowest
  <2>3. ASSUME NEW x \in OrLowest \intersect TBit PROVE x \in result
    <3>1. PICK b \in 0 .. Blocks - 1 : x \in Source(b, 0)
      BY DEF OrLowest
    <3>2. PICK t \in Thread : b \in Finished(t)
      BY <2>0, <1>6
    <3>3. x \in result_array[t][0]
      BY <3>1, <3>2, <2>1
    <3>4. x \in thread_results[t]
      BY <3>3, <2>1
    <3>. QED BY <3>4, <2>1
  <2>. QED BY <2>2, <2>3
<1>. QED BY <1>2, <1>3, <1>4, <1>5, <1>7, <1>8 DEF ReturnExact, Copies, Writes

LEMMA TasksSeparate == IInv => ResultsSeparate
<1>. SUFFICES ASSUME IInv, IsBw(task), pc # "idle" PROVE ResultsSeparate
  BY DEF ResultsSeparate, ComparisonsSeparate
<1>. USE DEF IInv
<1>1. ASSUME NEW t \in Thread
      PROVE  /\ outpos[t] \in Nat /\ ResultOffset(t) \in Nat
             /\ outpos[t] <= ResultOffset(t + 1)
  <2>1. /\ cut[t] \in 0 .. Iterations(task) /\ cut[t + 1] \in 0 .. Iterations(task)
        /\ iteration[t] \in cut[t] .. cut[t + 1]
    BY ScheduleType, IterationsType DEF RegionInv
  <2>2. iteration[t] \in Int /\ cut[t] <= iteration[t] /\ iteration[t] <= Iterations(task)
    BY <2>1, IterationsType
  <2>3. ResultBlock(t, iteration[t]) \in Nat
        /\ ResultBlock(t, iteration[t]) <= ResultOffset(t + 1)
    BY <2>2, BlockInPart
  <2>. QED BY <2>3, ResultOffsetType DEF BwInv
<1>2. ASSUME NEW t \in Thread, NEW u \in Thread, t < u
      PROVE  Written(t) \intersect Written(u) = {}
  <2>1. t + 1 \in Nat /\ u \in Nat /\ t + 1 <= u
    BY <1>2, ThreadAssumption DEF Thread
  <2>2. ResultOffset(t + 1) \in Nat /\ ResultOffset(t + 1) <= ResultOffset(u)
    BY <2>1, OffsetMonotone
  <2>3. ASSUME NEW b \in Written(t), b \in Written(u) PROVE FALSE
    BY <2>2, <2>3, <1>1 DEF Written
  <2>. QED BY <2>3
<1>3. ASSUME NEW t \in Thread, NEW u \in Thread, t # u
      PROVE  Written(t) \intersect Written(u) = {}
  <2>1. t < u \/ u < t
    BY <1>3, ThreadAssumption DEF Thread
  <2>. QED BY <2>1, <1>2
<1>4. ASSUME NEW t \in Thread, NEW i \in cut[t] .. iteration[t] - 1, NEW l \in Lane
      PROVE  dst[(ResultOffset(t) + i - cut[t]) * Lanes + l] = BwResult(task, i)[l]
  <2>1. cut[t] \in Int /\ i \in Int
    BY ScheduleType, IterationsType DEF RegionInv
  <2>2. ResultOffset(t) + i - cut[t] = ResultBlock(t, i)
    BY <2>1, ResultOffsetType DEF ResultBlock
  <2>. QED BY <2>2 DEF BwInv, Finished
<1>5. ResultOffset(StepWidth) = Blocks
  <2>. DEFINE q == Blocks \div StepWidth
  <2>1. q \in Nat /\ q * StepWidth = Blocks
    BY WholeBlocks
  <2>. HIDE DEF q
  <2>2. StepWidth * q = q * StepWidth
    BY <2>1, BlockAssumption, SMT
  <2>. QED BY <2>1, <2>2 DEF ResultOffset, q
<1>6. ASSUME NEW t \in Thread, t < StepWidth PROVE Written(t) \subseteq 0 .. Blocks - 1
  <2>1. t + 1 \in Nat /\ t + 1 <= StepWidth /\ StepWidth \in Nat
    BY <1>6, ThreadAssumption, BlockAssumption DEF Thread
  <2>2. ResultOffset(t + 1) \in Nat /\ ResultOffset(t + 1) <= Blocks
    BY <2>1, <1>5, OffsetMonotone
  <2>. QED BY <2>2, <1>1, BlockAssumption DEF Written
<1>. QED BY <1>3, <1>4, <1>6 DEF ResultsSeparate, ComparisonsSeparate

-----------------------------------------------------------------------------
(* The theorems.                                                           *)

(* Both invariants are inductive: the tasks' one holds for every division  *)
(* of the iterations and every interleaving of the threads.                *)
THEOREM Invariance == BenchSpec => [](IInv /\ MInv)
<1>1. BenchInit => IInv /\ MInv
  BY TasksInit, MainInit DEF BenchInit
<1>2. IInv /\ MInv /\ [BenchNext]_benchVars => (IInv /\ MInv)'
  <2>. SUFFICES ASSUME IInv, MInv, [BenchNext]_benchVars PROVE IInv' /\ MInv'
    OBVIOUS
  <2>1. CASE Next /\ UNCHANGED <<part, mainVars>>
    BY <2>1, TasksStep, MainStutter
  <2>2. CASE Main!Next /\ UNCHANGED <<part, vars>>
    BY <2>2, TasksStep, MainStep
  <2>3. CASE UNCHANGED benchVars
    BY <2>3, TasksStep, MainStutter DEF benchVars
  <2>. QED BY <2>1, <2>2, <2>3 DEF BenchNext
<1>. QED BY <1>1, <1>2, PTL DEF BenchSpec

(* Main never throws, whatever sizes, tasks and repetitions there are, and *)
(* no thread leaves its share of the iterations.                           *)
THEOREM TypeCorrect == BenchSpec => []BenchTypeOK
<1>1. IInv /\ MInv => BenchTypeOK
  BY TasksType DEF BenchTypeOK, MInv
<1>. QED BY <1>1, Invariance, PTL

(* No task is called with more bytes than the buffers have, and every AVG  *)
(* line is the mean of countRepetitions measurements of its own task on    *)
(* its own size.                                                           *)
THEOREM AveragesAreMeaningful == BenchSpec => []AveragesMeaningful
<1>1. IInv /\ MInv => AveragesMeaningful
  BY MainAverages
<1>. QED BY <1>1, Invariance, PTL

(* However OpenMP divides the iterations and the threads interleave, a     *)
(* task leaves behind what one loop over the buffer does: CompareVector    *)
(* reports no lane as equal that differs, AggOrVector has all blocks of    *)
(* the lowest lane, the other reductions are exact.                        *)
THEOREM ReturnIsExact == BenchSpec => []ReturnExact
<1>1. IInv /\ MInv => ReturnExact
  BY TasksExact
<1>. QED BY <1>1, Invariance, PTL

(* No two threads store results of a comparison at the same place and no   *)
(* later step overwrites one, for any number of threads, and of the        *)
(* threads only those with a number of at least data_stepwidth store       *)
(* results behind the buffer.                                              *)
THEOREM ResultsAreSeparate == BenchSpec => []ResultsSeparate
<1>1. IInv /\ MInv => ResultsSeparate
  BY TasksSeparate
<1>. QED BY <1>1, Invariance, PTL
=============================================================================
