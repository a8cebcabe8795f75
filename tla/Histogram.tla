------------------------------ MODULE Histogram ------------------------------
(***************************************************************************)
(* What building a histogram promises: every input position is counted     *)
(* once, under its key, in no particular order.  This is the reference the *)
(* repository's own test uses, an std::unordered_map incremented once per  *)
(* element (hash_set_test.cpp, stl_histo).                                 *)
(***************************************************************************)
EXTENDS Integers, FiniteSets, FiniteSetTheorems, TLAPS

CONSTANTS
  Key,           \* the values the input column draws from
  ElementCount   \* the length of the input column

VARIABLES
  keys,      \* the input column
  pending,   \* the positions that are not counted yet
  hist       \* occurrences counted so far, for every key

vars == <<keys, pending, hist>>

\* What the modules that instantiate this one assume of ElementCount.
Countable == ElementCount \in Nat

Position == 0 .. ElementCount - 1

TypeOK ==
  /\ keys \in [Position -> Key]
  /\ pending \in SUBSET Position
  /\ hist \in [Key -> Nat]

Init ==
  /\ keys \in [Position -> Key]
  /\ pending = Position
  /\ hist = [k \in Key |-> 0]

\* One element is counted.
Count(p) ==
  /\ p \in pending
  /\ pending' = pending \ {p}
  /\ hist' = [hist EXCEPT ![keys[p]] = @ + 1]
  /\ UNCHANGED keys

Next == \E p \in Position : Count(p)

SafeSpec == Init /\ [][Next]_vars

-----------------------------------------------------------------------------

PositionsOf(S, k) == {p \in S : keys[p] = k}

(* The number the test's stl_histo holds for k once the column is read. *)
Occurrences(k) == Cardinality(PositionsOf(Position, k))

(* A count is what the positions already consumed contribute to it, so a   *)
(* key is never counted twice and never forgotten, in whatever order.      *)
CountsAccountForInput ==
  \A k \in Key :
    hist[k] + Cardinality(PositionsOf(pending, k)) = Occurrences(k)

(* With nothing pending, every count is the number of occurrences.         *)
HistogramCorrect ==
  pending = {} => \A k \in Key : hist[k] = Occurrences(k)

-----------------------------------------------------------------------------
(* The counts account for the input, whatever order the elements are       *)
(* counted in.                                                             *)

LEMMA PositionFinite ==
  ASSUME Countable, NEW S \in SUBSET Position, NEW k
  PROVE  /\ IsFiniteSet(PositionsOf(S, k))
         /\ Cardinality(PositionsOf(S, k)) \in Nat
<1>1. IsFiniteSet(Position)
  BY FS_Interval DEF Countable, Position
<1>2. PositionsOf(S, k) \subseteq Position
  BY DEF PositionsOf
<1>. QED BY <1>1, <1>2, FS_Subset, FS_CardinalityType

LEMMA TypeInit == Init => TypeOK
BY DEF Init, TypeOK

LEMMA TypeStep == TypeOK /\ [Next]_vars => TypeOK'
<1>. SUFFICES ASSUME TypeOK, [Next]_vars PROVE TypeOK'
  OBVIOUS
<1>1. ASSUME NEW p \in Position, Count(p) PROVE TypeOK'
  BY <1>1 DEF TypeOK, Count
<1>2. CASE UNCHANGED vars
  BY <1>2 DEF TypeOK, vars
<1>. QED BY <1>1, <1>2 DEF Next

LEMMA AccountInit ==
  ASSUME Countable
  PROVE  Init => CountsAccountForInput
<1>. SUFFICES ASSUME Init, NEW k \in Key
              PROVE  hist[k] + Cardinality(PositionsOf(pending, k)) = Occurrences(k)
  BY DEF CountsAccountForInput
<1>1. Cardinality(PositionsOf(Position, k)) \in Nat
  BY PositionFinite
<1>. QED BY <1>1 DEF Init, Occurrences

LEMMA AccountStep ==
  ASSUME Countable
  PROVE  TypeOK /\ CountsAccountForInput /\ [Next]_vars => CountsAccountForInput'
<1>. SUFFICES ASSUME TypeOK, CountsAccountForInput, [Next]_vars
              PROVE  CountsAccountForInput'
  OBVIOUS
<1>1. ASSUME NEW p \in Position, Count(p) PROVE CountsAccountForInput'
  <2>. SUFFICES ASSUME NEW k \in Key
                PROVE  hist'[k] + Cardinality(PositionsOf(pending, k)') = Occurrences(k)'
    BY DEF CountsAccountForInput
  <2>. DEFINE P == PositionsOf(pending, k)
  <2>1. Occurrences(k)' = Occurrences(k)
    BY <1>1 DEF Count, Occurrences, PositionsOf
  <2>2. hist[k] + Cardinality(P) = Occurrences(k)
    BY DEF CountsAccountForInput
  <2>3. IsFiniteSet(P) /\ Cardinality(P) \in Nat /\ hist[k] \in Nat
    BY PositionFinite DEF TypeOK
  <2>4. CASE keys[p] = k
    <3>1. p \in P /\ PositionsOf(pending, k)' = P \ {p}
      BY <1>1, <2>4 DEF Count, PositionsOf
    <3>2. Cardinality(P \ {p}) = Cardinality(P) - 1
      BY <2>3, <3>1, FS_RemoveElement
    <3>3. hist'[k] = hist[k] + 1
      BY <1>1, <2>4 DEF Count, TypeOK
    <3>. QED BY <2>1, <2>2, <2>3, <3>1, <3>2, <3>3
  <2>5. CASE keys[p] # k
    <3>1. PositionsOf(pending, k)' = P
      BY <1>1, <2>5 DEF Count, PositionsOf
    <3>2. hist'[k] = hist[k]
      BY <1>1, <2>5 DEF Count, TypeOK
    <3>. QED BY <2>1, <2>2, <3>1, <3>2
  <2>. QED BY <2>4, <2>5
<1>2. CASE UNCHANGED vars
  BY <1>2 DEF vars, CountsAccountForInput, PositionsOf, Occurrences
<1>. QED BY <1>1, <1>2 DEF Next

LEMMA AccountComplete ==
  ASSUME TypeOK, CountsAccountForInput
  PROVE  HistogramCorrect
<1>. SUFFICES ASSUME pending = {}, NEW k \in Key PROVE hist[k] = Occurrences(k)
  BY DEF HistogramCorrect
<1>1. PositionsOf(pending, k) = {}
  BY DEF PositionsOf
<1>2. Cardinality(PositionsOf(pending, k)) = 0
  BY <1>1, FS_EmptySet
<1>. QED BY <1>2 DEF CountsAccountForInput, TypeOK

(* At every moment a count and the uncounted elements of its key add up to *)
(* the key's occurrences.                                                  *)
THEOREM CountsAccount ==
  ASSUME Countable
  PROVE  SafeSpec => []CountsAccountForInput
<1>1. Init => TypeOK /\ CountsAccountForInput
  BY TypeInit, AccountInit
<1>2. TypeOK /\ CountsAccountForInput /\ [Next]_vars
        => TypeOK' /\ CountsAccountForInput'
  BY TypeStep, AccountStep
<1>. QED BY <1>1, <1>2, PTL DEF SafeSpec

(* With every element counted, the counts are the numbers of occurrences.  *)
THEOREM Complete ==
  ASSUME Countable
  PROVE  SafeSpec => []HistogramCorrect
<1>1. Init => TypeOK /\ CountsAccountForInput
  BY TypeInit, AccountInit
<1>2. TypeOK /\ CountsAccountForInput /\ [Next]_vars
        => TypeOK' /\ CountsAccountForInput'
  BY TypeStep, AccountStep
<1>3. TypeOK /\ CountsAccountForInput => HistogramCorrect
  BY AccountComplete
<1>. QED BY <1>1, <1>2, <1>3, PTL DEF SafeSpec
=============================================================================
