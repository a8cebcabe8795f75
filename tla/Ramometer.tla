----------------------------- MODULE Ramometer -----------------------------
(***************************************************************************)
(* The main program of the memory benchmark (trimmed_ramometer): it        *)
(* allocates two buffers for the largest size, then measures every task    *)
(* on every size, repeatedly, with one stop watch (stopwatch.h), and       *)
(* prints the averages.  OmpTasks is what happens inside a call of doIt.   *)
(***************************************************************************)
EXTENDS Integers, Sequences, FiniteSets

CONSTANTS
  bufferSizesBytes,   \* the program's own list of sizes
  SizeArguments,      \* the lists a user may give
  Repetitions,        \* the numbers of repetitions a user may give
  Tv,                 \* tvs, the variants of the tasks
  minireps(_)         \* size -> calls in one measurement

\* What the modules that instantiate this one assume of its constants.
\* durationsSec is a map from sizes; the list names each of them once.
ParameterAssumption ==
  /\ bufferSizesBytes \in Seq(Nat)
  /\ \A m, n \in DOMAIN bufferSizesBytes :
       m # n => bufferSizesBytes[m] # bufferSizesBytes[n]
  /\ SizeArguments \subseteq Seq(Nat) /\ Repetitions \subseteq Nat
  /\ IsFiniteSet(Tv) /\ Tv # {}
  /\ \A n \in DOMAIN bufferSizesBytes : minireps(bufferSizesBytes[n]) \in Nat \ {0}

VARIABLES
  countRepetitions, oldstuff,   \* the arguments
  pc,                           \* the loop that runs, or a point of its body
  maxBufferSizeBytes,
  i,                            \* repetition
  s,                            \* index of the size
  todo,                         \* the tasks not yet measured on this size
  tv, j,                        \* the task being measured, calls made
  sw,                           \* state of the stop watch
  durationsSec,                 \* size -> task -> number of durations stored
  average                       \* <<size, task>> -> durations in its sum

arguments == <<countRepetitions, oldstuff>>
vars == <<arguments, pc, maxBufferSizeBytes, i, s, todo, tv, j, sw,
          durationsSec, average>>

Sizes == 1 .. Len(bufferSizesBytes)
Size == {bufferSizesBytes[n] : n \in Sizes}
size == bufferSizesBytes[s]

-----------------------------------------------------------------------------
(* The stop watch; a call in another state throws, and main does not catch. *)

WatchCall(from, to, next) ==
  IF sw = from THEN sw' = to /\ pc' = next
  ELSE pc' = "thrown" /\ UNCHANGED sw

start(next) == WatchCall("init", "started", next)

stop(next) == WatchCall("started", "stopped", next)

duration(next) == WatchCall("stopped", "stopped", next)

reset(next) == sw' = "init" /\ pc' = next

-----------------------------------------------------------------------------

Init ==
  /\ countRepetitions \in Repetitions
  /\ oldstuff \in SizeArguments
  /\ pc = "max"
  /\ maxBufferSizeBytes = 0
  /\ i = 0 /\ s = 1 /\ todo = Tv
  /\ tv \in Tv /\ j = 0
  /\ sw = "init"
  /\ durationsSec = [z \in Size |-> [v \in Tv |-> 0]]
  /\ average = <<>>

\* The loop over the sizes, and the allocation.
MaxOfSizes ==
  /\ pc = "max"
  /\ maxBufferSizeBytes' =
       CHOOSE m \in Size \union {0} : \A z \in Size : z <= m
  /\ pc' = "tasks"
  /\ UNCHANGED <<arguments, i, s, todo, tv, j, sw, durationsSec, average>>

Measuring == pc = "tasks" /\ i < countRepetitions /\ s \in Sizes

\* The next task of the list.
StartTask(v) ==
  /\ Measuring
  /\ v \in todo
  /\ tv' = v
  /\ todo' = todo \ {v}
  /\ j' = 0
  /\ start("calls")
  /\ UNCHANGED <<arguments, maxBufferSizeBytes, i, s, durationsSec, average>>

\* tv->doIt( bufDst8, bufSrc8, bufferSizeBytes ).
DoIt ==
  /\ pc = "calls"
  /\ j < minireps(size)
  /\ j' = j + 1
  /\ UNCHANGED <<arguments, pc, maxBufferSizeBytes, i, s, todo, tv, sw,
                 durationsSec, average>>

StopWatch ==
  /\ pc = "calls"
  /\ j >= minireps(size)
  /\ stop("stopped")
  /\ UNCHANGED <<arguments, maxBufferSizeBytes, i, s, todo, tv, j,
                 durationsSec, average>>

\* duration(), and the push_back of what it returns.
StoreDuration ==
  /\ pc = "stopped"
  /\ duration("stored")
  /\ durationsSec' =
       IF pc' = "thrown" THEN durationsSec
       ELSE [durationsSec EXCEPT ![size][tv] = @ + 1]
  /\ UNCHANGED <<arguments, maxBufferSizeBytes, i, s, todo, tv, j, average>>

ResetWatch ==
  /\ pc = "stored"
  /\ reset("tasks")
  /\ UNCHANGED <<arguments, maxBufferSizeBytes, i, s, todo, tv, j,
                 durationsSec, average>>

\* The end of the loop over the tasks.
NextSize ==
  /\ Measuring
  /\ todo = {}
  /\ s' = s + 1
  /\ todo' = Tv
  /\ UNCHANGED <<arguments, pc, maxBufferSizeBytes, i, tv, j, sw,
                 durationsSec, average>>

\* Mutant: the sizes are not started over.
NextRepetition_SameSizes ==
  /\ pc = "tasks"
  /\ i < countRepetitions
  /\ s \notin Sizes
  /\ i' = i + 1
  /\ UNCHANGED <<arguments, pc, maxBufferSizeBytes, s, todo, tv, j, sw,
                 durationsSec, average>>

NextRepetition ==
  /\ pc = "tasks"
  /\ i < countRepetitions
  /\ s \notin Sizes
  /\ i' = i + 1
  /\ s' = 1
  /\ UNCHANGED <<arguments, pc, maxBufferSizeBytes, todo, tv, j, sw,
                 durationsSec, average>>

\* The sum of the durations of a size and a task, and its AVG line.
Average(z, v) ==
  /\ pc = "tasks"
  /\ i >= countRepetitions
  /\ <<z, v>> \notin DOMAIN average
  /\ average' = [p \in DOMAIN average \union {<<z, v>>} |->
                   IF p = <<z, v>> THEN durationsSec[z][v] ELSE average[p]]
  /\ UNCHANGED <<arguments, pc, maxBufferSizeBytes, i, s, todo, tv, j, sw,
                 durationsSec>>

\* The buffers are released and the program ends.
Done ==
  /\ pc = "tasks"
  /\ i >= countRepetitions
  /\ DOMAIN average = Size \X Tv
  /\ pc' = "ended"
  /\ UNCHANGED <<arguments, maxBufferSizeBytes, i, s, todo, tv, j, sw,
                 durationsSec, average>>

Next ==
  \/ MaxOfSizes
  \/ \E v \in Tv : StartTask(v)
  \/ DoIt \/ StopWatch \/ StoreDuration \/ ResetWatch
  \/ NextSize \/ NextRepetition
  \/ \E z \in Size, v \in Tv : Average(z, v)
  \/ Done

Spec == Init /\ [][Next]_vars

-----------------------------------------------------------------------------
(* Properties.                                                             *)

\* The variables keep their types, and the stop watch is only ever used in
\* the order its comment (stopwatch.h) asks for: main never throws.
TypeOK ==
  /\ countRepetitions \in Repetitions /\ oldstuff \in SizeArguments
  /\ pc \in {"max", "tasks", "calls", "stopped", "stored", "ended"}
  /\ maxBufferSizeBytes \in Size \union {0}
  /\ i \in 0 .. countRepetitions /\ s \in 1 .. Len(bufferSizesBytes) + 1
  /\ todo \subseteq Tv /\ tv \in Tv /\ j \in Nat
  /\ sw \in {"init", "started", "stopped"}
  /\ durationsSec \in [Size -> [Tv -> Nat]]
  /\ DOMAIN average \subseteq Size \X Tv

\* A task is never called with more bytes than the buffers have.
CallsFit == pc = "calls" => size <= maxBufferSizeBytes

\* A sum that is divided by countRepetitions has as many summands, of this
\* task on this size: the AVG lines are averages.
AveragesExact ==
  \A p \in DOMAIN average : average[p] = countRepetitions

\* So every number printed is the mean of measurements of one task on one
\* size that fits the buffers.
AveragesMeaningful == CallsFit /\ AveragesExact
=============================================================================
