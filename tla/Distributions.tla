--------------------------- MODULE Distributions ---------------------------
(***************************************************************************)
(* The random distributions of the benchmark framework.  A program creates *)
(* binomial distributions, builds a composite from some of them (another   *)
(* one chooses among them), changes properties in between, and draws.      *)
(*                                                                         *)
(* What is checked is which values getRndValue() may return, so a drawn    *)
(* value is a member of RndValues and the generators' state is left out.   *)
(* A refused setter throws; the caller may catch that and go on.           *)
(***************************************************************************)
EXTENDS Integers, Sequences, FiniteSetsExt

CONSTANTS
  Word,             \* number of uint32_t values, 2^32
  Wide,             \* number of size_t and of uint64_t values, 2^64
  Distr,            \* the binomial distributions
  Initially,        \* Distr -> arguments of its constructor
  PropertyValues,   \* key -> values a caller may pass to setProperty
  Composites        \* arguments of a CompositeDistribution: [distrs, chooser]

Key == {"countTrials", "probNumerator", "probDenominator", "offset"}

(* A probability 0/0 passes initDistribution; no caller asks for one.      *)
ParameterAssumption ==
  /\ Word \in Nat \ {0}
  /\ Wide \in Nat \ {0}
  /\ Initially \in [Distr -> [Key -> 0 .. Wide - 1]]
  /\ \A b \in Distr : Initially[b]["offset"] < Word
  /\ PropertyValues \in [Key -> SUBSET (0 .. Wide - 1)]
  /\ 0 \notin PropertyValues["probDenominator"]
  /\ Composites \subseteq [distrs : Seq(Distr), chooser : Distr]

VARIABLES
  property,       \* Distr -> key -> value, the members of the object
  distribution,   \* Distr -> parameters of its std::binomial_distribution
  refused,        \* the distributions whose last setter threw
  composite       \* the composite last built, or Nothing, with the bounds
                  \* the distributions had then

vars == <<property, distribution, refused, composite>>

Nothing == [distrs |-> <<>>]

Built == composite.distrs # <<>>

-----------------------------------------------------------------------------
(* BinomialDistribution *)

\* The sum is one of uint64_t values.
Refused(p) ==
  \/ p["countTrials"] = 0
  \/ p["probNumerator"] > p["probDenominator"]
  \/ (p["offset"] + p["countTrials"]) % Wide >= Word

\* static_cast<double>(probNumerator) / probDenominator is 0, 1 or between;
\* the number of trials becomes a uint32_t.
Installed(p) ==
  [trials |-> p["countTrials"] % Word,
   never |-> p["probNumerator"] = 0,
   always |-> p["probNumerator"] = p["probDenominator"]]

\* What a std::binomial_distribution may return.
Successes(d) ==
  IF d.never THEN {0}
  ELSE IF d.always THEN {d.trials}
  ELSE 0 .. d.trials

RndValues(b) ==
  {(property[b]["offset"] + x) % Word : x \in Successes(distribution[b])}

getMinValue(b) == property[b]["offset"]

getMaxValue(b) ==
  (property[b]["offset"] + property[b]["countTrials"]) % Word

\* Mutant: the setters store and validate their value, but leave the
\* distribution of the old values installed.
initDistribution_Forgotten(b, p) ==
  /\ property' = [property EXCEPT ![b] = p]
  /\ UNCHANGED distribution
  /\ refused' = IF Refused(p) THEN refused \cup {b} ELSE refused \ {b}

\* The setters store their value, then call initDistribution.
initDistribution(b, p) ==
  /\ property' = [property EXCEPT ![b] = p]
  /\ IF Refused(p)
       THEN refused' = refused \cup {b} /\ UNCHANGED distribution
       ELSE /\ refused' = refused \ {b}
            /\ distribution' = [distribution EXCEPT ![b] = Installed(p)]

\* setOffset takes a uint32_t, the others a size_t.
Converted(key, value) == IF key = "offset" THEN value % Word ELSE value

setProperty(b, key, value) ==
  /\ initDistribution(b, [property[b] EXCEPT ![key] = Converted(key, value)])
  /\ UNCHANGED composite

-----------------------------------------------------------------------------
(* CompositeDistribution *)

ChooserTooHigh(parts) == getMaxValue(parts.chooser) >= Len(parts.distrs)

\* Mutant: the loop leaves the last distribution out.
Extremes_ButLast(distrs) ==
  LET part == {distrs[n] : n \in 1 .. Len(distrs) - 1}
  IN  [minValue |-> Min({Word - 1} \cup {getMinValue(b) : b \in part}),
       maxValue |-> Max({0} \cup {getMaxValue(b) : b \in part})]

Extremes(distrs) ==
  LET part == {distrs[n] : n \in DOMAIN distrs}
  IN  [minValue |-> Min({Word - 1} \cup {getMinValue(b) : b \in part}),
       maxValue |-> Max({0} \cup {getMaxValue(b) : b \in part})]

\* A constructor that throws makes no composite.
CompositeDistribution(parts) ==
  /\ parts.distrs # <<>>
  /\ ~ChooserTooHigh(parts)
  /\ composite' =
       [distrs |-> parts.distrs, chooser |-> parts.chooser,
        range |-> Extremes(parts.distrs),
        bounds |-> [b \in Distr |-> <<getMinValue(b), getMaxValue(b)>>]]
  /\ UNCHANGED <<property, distribution, refused>>

\* distrs[chooser->getRndValue()]->getRndValue(); the vector is not asked
\* whether it has that index.
CompositeRndValues ==
  UNION {RndValues(composite.distrs[n + 1]) :
           n \in RndValues(composite.chooser) \cap 0 .. Len(composite.distrs) - 1}

-----------------------------------------------------------------------------
Init ==
  /\ property = Initially
  /\ \A b \in Distr : ~Refused(Initially[b])
  /\ distribution = [b \in Distr |-> Installed(Initially[b])]
  /\ refused = {}
  /\ composite = Nothing

Next ==
  \/ \E b \in Distr, key \in Key :
       \E value \in PropertyValues[key] : setProperty(b, key, value)
  \/ \E parts \in Composites : CompositeDistribution(parts)

Spec == Init /\ [][Next]_vars

-----------------------------------------------------------------------------
TypeOK ==
  /\ property \in [Distr -> [Key -> 0 .. Wide - 1]]
  /\ \A b \in Distr : property[b]["offset"] < Word
  /\ distribution \in
       [Distr -> [trials : 0 .. Word - 1, never : BOOLEAN, always : BOOLEAN]]
  /\ refused \subseteq Distr
  /\ Built => composite.range \in [minValue : 0 .. Word - 1, maxValue : 0 .. Word - 1]

(* The setters of b did what was asked: the last one threw nothing, and    *)
(* the sum it checked was offset + countTrials, not one wrapped in 64 bits.*)
Sound(b) ==
  /\ b \notin refused
  /\ property[b]["offset"] + property[b]["countTrials"] < Wide

(* RandomDistribution.h: getMinValue() and getMaxValue() bound what a      *)
(* sound binomial distribution returns, after any sequence of setters,     *)
(* refused ones among them: the distribution installed is again the one    *)
(* the members describe once a setter is accepted.                         *)
BinomialRange ==
  \A b \in Distr :
    Sound(b) => RndValues(b) \subseteq getMinValue(b) .. getMaxValue(b)

Members == {composite.distrs[n] : n \in DOMAIN composite.distrs}

ChooserInRange ==
  RndValues(composite.chooser) \subseteq 0 .. Len(composite.distrs) - 1

ValuesInRange ==
  CompositeRndValues \subseteq composite.range.minValue .. composite.range.maxValue

(* The bounds of b are those it had when the composite was built.          *)
Unmoved(b) == composite.bounds[b] = <<getMinValue(b), getMaxValue(b)>>

(* The same of a composite, whose bounds were computed when it was built:  *)
(* they hold as long as its distributions have the bounds they had then,   *)
(* whatever became of their probabilities, and the chooser never returns   *)
(* an index past the last distribution, which getRndValue() does not check.*)
CompositeRange ==
  Built =>
    /\ Sound(composite.chooser) /\ Unmoved(composite.chooser) => ChooserInRange
    /\ (\A b \in Members : Sound(b) /\ Unmoved(b)) => ValuesInRange

(* RandomDistribution.h:35 and 41 promise the bounds of every distribution *)
(* at every time.  A composite does not keep that promise: its minimum and *)
(* maximum stay when a setter moves those of a sound member.               *)
CompositePromise ==
  (Built /\ \A b \in Members : Sound(b)) => ValuesInRange
=============================================================================
