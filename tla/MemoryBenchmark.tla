--------------------------- MODULE MemoryBenchmark ---------------------------
(***************************************************************************)
(* The memory benchmark: its main program (Ramometer), and the tasks it    *)
(* calls (OmpTasks).  Main sees nothing of a task but that the call        *)
(* returns, so a behaviour is about one of the two and the other stays in  *)
(* an initial state.                                                       *)
(***************************************************************************)
EXTENDS OmpTasks, Sequences

CONSTANTS
  Parts,             \* what is explored: "main", "tasks"
  bufferSizesBytes, SizeArguments, Repetitions, Tv, minireps(_)  \* of Ramometer

VARIABLES
  part, countRepetitions, oldstuff, mainPc, maxBufferSizeBytes, repetition,
  sizeIndex, todo, tv, calls, sw, durationsSec, average

Main ==
  INSTANCE Ramometer WITH
    pc <- mainPc, i <- repetition, s <- sizeIndex, j <- calls

ASSUME MainAssumption == Main!ParameterAssumption

mainVars == <<countRepetitions, oldstuff, mainPc, maxBufferSizeBytes, repetition,
              sizeIndex, todo, tv, calls, sw, durationsSec, average>>
benchVars == <<part, vars, mainVars>>

BenchInit ==
  /\ part \in Parts
  /\ Init
  /\ Main!Init

BenchNext ==
  \/ part = "tasks" /\ Next /\ UNCHANGED <<part, mainVars>>
  \/ part = "main" /\ Main!Next /\ UNCHANGED <<part, vars>>
  \/ part = "main" /\ mainPc = "ended" /\ UNCHANGED benchVars

BenchSpec == BenchInit /\ [][BenchNext]_benchVars

\* The variables of main and of the tasks keep their types; main never
\* throws, and no thread runs past its share of the iterations.
BenchTypeOK == TypeOK /\ Main!TypeOK

\* Every AVG line is the mean of measurements of one task on one size that
\* fits the buffers.
AveragesMeaningful == Main!AveragesMeaningful
=============================================================================
