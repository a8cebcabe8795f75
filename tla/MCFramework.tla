----------------------------- MODULE MCFramework -----------------------------
(***************************************************************************)
(* The benchmark framework for TLC.                                        *)
(***************************************************************************)
EXTENDS Framework

CONSTANTS
  low, high, bd,                                  \* the distributions
  Numerators, Trials, Denominators, Offsets       \* values of their setters

-----------------------------------------------------------------------------
\* One stream may draw empty runs, the next has no run lengths.
MixedStreams ==
  <<[values |-> {0, 2}, maxValue |-> 2, runlengths |-> {0, 1, 3},
     oneValue |-> TRUE],
    [values |-> {1, 3}, maxValue |-> 3, runlengths |-> NoRunlengths,
     oneValue |-> FALSE],
    [values |-> {0, 1}, maxValue |-> 1, runlengths |-> {2},
     oneValue |-> FALSE]>>

\* A stream that may draw empty runs for ever, and one that never does.
EmptyRuns ==
  <<[values |-> {0, 1}, maxValue |-> 1, runlengths |-> {0, 2},
     oneValue |-> FALSE],
    [values |-> {1}, maxValue |-> 1, runlengths |-> {1, 3},
     oneValue |-> TRUE]>>

MCStreams == {MixedStreams, EmptyRuns}

(* Two distributions and a chooser, as in the bit-packing experiment.      *)
MCDistr == {low, high, bd}

MCInitially ==
  LET args(trials, num, den, offset) ==
        [countTrials |-> trials, probNumerator |-> num,
         probDenominator |-> den, offset |-> offset]
  IN  [b \in MCDistr |->
         CASE b = low  -> args(2, 1, 4, 0)
           [] b = high -> args(3, 1, 4, 3)
           [] b = bd   -> args(1, 1, 4, 0)]

MCPropertyValues ==
  [countTrials |-> Trials, probNumerator |-> Numerators,
   probDenominator |-> Denominators, offset |-> Offsets]

\* None, one or two distributions, in either order.
MCComposites ==
  [distrs : {<<>>, <<low>>, <<low, high>>, <<high, low>>}, chooser : {bd, high}]

-----------------------------------------------------------------------------
\* Of the distributions other than low nothing but the probability changes,
\* which keeps the instance small.
FewChanges ==
  \A b \in Distr, key \in Random!Key :
    property'[b][key] # property[b][key] => key = "probNumerator" \/ b = low

\* The parts that are not explored have one initial state.
MCInit ==
  /\ part \in Parts
  /\ part # "generator" =>
       streams = MixedStreams /\ sortOrder = "none" /\ countValues = Min(Lengths)
  /\ FrameworkInit

MCNext == FrameworkNext /\ FewChanges

MCSpec == MCInit /\ [][MCNext]_frameworkVars /\ RunsOn
=============================================================================
