-------------------------- MODULE MCMemoryBenchmark --------------------------
(***************************************************************************)
(* A small memory benchmark for TLC, with the real BitWeaving comparisons. *)
(***************************************************************************)
EXTENDS MemoryBenchmark

CONSTANT CodeSize   \* of the BitWeaving tasks

-----------------------------------------------------------------------------
(* The tasks.                                                              *)

Word == INSTANCE BitweavingTasks WITH WriteVal <- WRITE_VAL64

Comparisons == Word!BwNames

\* TLC computes the table once.
ComparisonTable == [k \in Comparisons |-> [w \in WordValue |-> Word!Comparison(k, w)]]

Method(k, w) == ComparisonTable[k][w]

\* The tasks of both builds, and one of the comparisons.
MCTasks == PlainTasks \union {"bw_h_leq"}

\* What main fills the buffers with, but for one word that has another bit, or
\* none; and different words all over.
MCSources ==
  LET last == Blocks * Lanes - 1
  IN  {[a \in Address |-> IF a = last THEN WRITE_VAL64 \union {1} ELSE WRITE_VAL64],
       [a \in Address |-> IF a = 0 THEN {} ELSE WRITE_VAL64],
       [a \in Address |-> {b \in Bit : ((3 * a) \div 2^b) % 2 = 1}]}

-----------------------------------------------------------------------------
(* The main program.                                                       *)

MCSizes == <<2, 1, 4>>

\* Only a small size; one size that the program does not have.
MCArguments == {<<1>>, <<3, 4>>}

MCMinireps(z) == IF z <= 1 THEN 3 ELSE IF z <= 2 THEN 2 ELSE 1

-----------------------------------------------------------------------------
\* Main is explored with one initial state of the tasks, and vice versa.
MCInit ==
  /\ BenchInit
  /\ part # "tasks" =>
       src = (CHOOSE content \in Sources : TRUE) /\ task = "CopyScalar"
  /\ part # "main" =>
       /\ countRepetitions = 0 /\ oldstuff = <<1>>
       /\ tv = CHOOSE v \in Tv : TRUE

MCSpec == MCInit /\ [][BenchNext]_benchVars

\* The division of "static" in practice: shares differ by one iteration at most.
Even ==
  \A t, u \in Thread : (cut[t + 1] - cut[t]) - (cut[u + 1] - cut[u]) <= 1

EvenSpec == MCInit /\ [][BenchNext /\ Even']_benchVars
=============================================================================
