----------------------------- MODULE BatchBuild ------------------------------
(***************************************************************************)
(* build_vectorized_batch and build_scalar_batch: Lanes elements are       *)
(* inserted at once.  A round gathers one slot per lane, scatters the keys *)
(* of the lanes that saw an empty slot, and then checks, lane by lane,     *)
(* whether the slot now holds the lane's key.  Lanes that lost a slot to   *)
(* another key move one slot on; lanes that won load the next element.     *)
(*                                                                         *)
(* The scatter of the vectorized builder is marked ivdep: its stores may   *)
(* take effect in any order.  The scalar builder is the special case in    *)
(* which they happen in lane order, the last store to a slot winning.      *)
(***************************************************************************)
EXTENDS HashTable

CONSTANT LaneCount   \* 256 in the code

ASSUME LaneAssumption == LaneCount \in Nat \ {0}

VARIABLES
  key_positions,      \* lane -> position of the element it inserts
  offsets,            \* lane -> distance from the element's hash
  hashed_positions,   \* lane -> slot it looks at in this round
  max_position,       \* the last position handed to a lane
  loop,               \* which of the two while loops runs
  phase,              \* which of the for loops of a round runs
  todo                \* lanes the current for loop still has to act on

table == <<key_container, key_count_container>>
lanes == <<key_positions, offsets, max_position>>
vars == <<keys, table, lanes, hashed_positions, loop, phase, todo>>

Lane == 0 .. LaneCount - 1

TypeOK ==
  /\ TableTypeOK
  /\ key_positions \in [Lane -> Nat]
  /\ offsets \in [Lane -> Nat]
  /\ hashed_positions \in [Lane -> Slot]
  /\ max_position \in Nat
  /\ loop \in {"main", "rest", "done"}
  /\ phase \in {"gather", "scatter", "check"}
  /\ todo \in SUBSET Lane

(* The lane holds an element of the column: the guard of the second loop,  *)
(* and what processable_elements counts.                                   *)
HasElement(i) == key_positions[i] < ElementCount

(* The first loop has no such guard: it acts on every lane.                *)
Active(i) == loop = "main" \/ HasElement(i)

KeyAt(i) == keys[key_positions[i]]

(* Mutant: <= instead of < in the first while loop.                        *)
LoopFor_OffByOne(max, positions) ==
  IF max <= ElementCount THEN "main"
  ELSE IF \E i \in Lane : positions[i] < ElementCount THEN "rest"
  ELSE "done"

(* Mutant: the elements the lanes still hold are dropped.                  *)
LoopFor_NoRest(max, positions) == IF max < ElementCount THEN "main" ELSE "done"

(* The conditions of the two while loops, in the order they are tested.    *)
LoopFor(max, positions) ==
  IF max < ElementCount THEN "main"
  ELSE IF \E i \in Lane : positions[i] < ElementCount THEN "rest"
  ELSE "done"

Init ==
  /\ TableInit
  /\ key_positions = [i \in Lane |-> i]
  /\ offsets = [i \in Lane |-> 0]
  /\ hashed_positions = [i \in Lane |-> 0]
  /\ max_position = LaneCount - 1
  /\ loop = LoopFor(max_position, key_positions)
  /\ phase = "gather"
  /\ todo = {}

(* Mutant: every lane stores, whatever it gathered.                        *)
Gather_Unconditional ==
  /\ loop # "done"
  /\ phase = "gather"
  /\ hashed_positions' = [i \in Lane |->
       IF Active(i) THEN ProbeSlot(KeyAt(i), offsets[i])
                    ELSE hashed_positions[i]]
  /\ todo' = {i \in Lane : Active(i)}
  /\ phase' = "scatter"
  /\ UNCHANGED <<keys, table, lanes, loop>>

(* All lanes read their slot before any lane writes one.                   *)
Gather ==
  /\ loop # "done"
  /\ phase = "gather"
  /\ hashed_positions' = [i \in Lane |->
       IF Active(i) THEN ProbeSlot(KeyAt(i), offsets[i])
                    ELSE hashed_positions[i]]
  /\ todo' = {i \in Lane : Active(i) /\ key_container[hashed_positions'[i]] = Empty}
  /\ phase' = "scatter"
  /\ UNCHANGED <<keys, table, lanes, loop>>

(* A lane that gathered an empty slot stores its key, without looking at   *)
(* the slot again.                                                         *)
StoreKey(i) ==
  /\ phase = "scatter"
  /\ i \in todo
  /\ key_container' = [key_container EXCEPT ![hashed_positions[i]] = KeyAt(i)]
  /\ todo' = todo \ {i}
  /\ UNCHANGED <<keys, key_count_container, lanes, hashed_positions, loop, phase>>

StartCheck ==
  /\ phase = "scatter"
  /\ todo = {}
  /\ phase' = "check"
  /\ todo' = {i \in Lane : Active(i)}
  /\ UNCHANGED <<keys, table, lanes, hashed_positions, loop>>

(* The lanes are checked in order: the increments of max_position and of a *)
(* slot's counter depend on each other.                                    *)
NextToCheck(i) ==
  /\ phase = "check"
  /\ i \in todo
  /\ \A j \in todo : i <= j
  /\ todo' = todo \ {i}

LoadNext(i) ==
  /\ max_position' = max_position + 1
  /\ key_positions' = [key_positions EXCEPT ![i] = max_position + 1]

(* Mutant: the next element starts where the last one ended.               *)
CountElement_KeepOffset(i) ==
  /\ NextToCheck(i)
  /\ key_container[hashed_positions[i]] = KeyAt(i)
  /\ key_count_container' = [key_count_container EXCEPT ![hashed_positions[i]] = @ + 1]
  /\ LoadNext(i)
  /\ UNCHANGED <<keys, key_container, offsets, hashed_positions, loop, phase>>

(* Mutant: a lane believes its store won.                                  *)
CountElement_NoCheck(i) ==
  /\ NextToCheck(i)
  /\ key_count_container' = [key_count_container EXCEPT ![hashed_positions[i]] = @ + 1]
  /\ offsets' = [offsets EXCEPT ![i] = 0]
  /\ LoadNext(i)
  /\ UNCHANGED <<keys, key_container, hashed_positions, loop, phase>>

CountElement(i) ==
  /\ NextToCheck(i)
  /\ key_container[hashed_positions[i]] = KeyAt(i)
  /\ key_count_container' = [key_count_container EXCEPT ![hashed_positions[i]] = @ + 1]
  /\ offsets' = [offsets EXCEPT ![i] = 0]
  /\ LoadNext(i)
  /\ UNCHANGED <<keys, key_container, hashed_positions, loop, phase>>

(* Mutant: the probe path walks backwards.                                 *)
MoveOn_Backwards(i) ==
  /\ NextToCheck(i)
  /\ key_container[hashed_positions[i]] # KeyAt(i)
  /\ offsets' = [offsets EXCEPT ![i] = @ - 1]
  /\ UNCHANGED <<keys, table, key_positions, max_position, hashed_positions, loop, phase>>

(* Mutant: the probe path leaves out every other slot.                     *)
MoveOn_Skips(i) ==
  /\ NextToCheck(i)
  /\ key_container[hashed_positions[i]] # KeyAt(i)
  /\ offsets' = [offsets EXCEPT ![i] = @ + 2]
  /\ UNCHANGED <<keys, table, key_positions, max_position, hashed_positions, loop, phase>>

(* Mutant: the lane tries the same slot again.                             *)
MoveOn_Stays(i) ==
  /\ NextToCheck(i)
  /\ key_container[hashed_positions[i]] # KeyAt(i)
  /\ UNCHANGED <<keys, table, lanes, hashed_positions, loop, phase>>

MoveOn(i) ==
  /\ NextToCheck(i)
  /\ key_container[hashed_positions[i]] # KeyAt(i)
  /\ offsets' = [offsets EXCEPT ![i] = @ + 1]
  /\ UNCHANGED <<keys, table, key_positions, max_position, hashed_positions, loop, phase>>

EndRound ==
  /\ phase = "check"
  /\ todo = {}
  /\ loop' = LoopFor(max_position, key_positions)
  /\ phase' = "gather"
  /\ UNCHANGED <<keys, table, lanes, hashed_positions, todo>>

Finished == loop = "done" /\ UNCHANGED vars

Next ==
  \/ Gather
  \/ \E i \in Lane : StoreKey(i) \/ CountElement(i) \/ MoveOn(i)
  \/ StartCheck
  \/ EndRound
  \/ Finished

SafeSpec == Init /\ [][Next]_vars

(* One thread runs the function, so a step that can be taken is taken.     *)
Spec == SafeSpec /\ WF_vars(Next)
-----------------------------------------------------------------------------
(* Properties.                                                             *)

(* The first loop reads keys[ key_positions[ i ] ] in every lane without a *)
(* test: as long as it runs, no lane may be past the end of the column,    *)
(* although every counted lane moves its position up by up to LaneCount.   *)
(* The same holds for what either loop still has to store or to check.     *)
KeysReadInBounds ==
  /\ loop = "main" /\ phase # "check" => \A i \in Lane : HasElement(i)
  /\ \A i \in todo : HasElement(i)

CountedSlotsKept == [][\A s \in Slot : CountedSlotKept(s)]_vars

(* The elements nobody has counted: those no lane has loaded yet and those *)
(* the lanes hold.                                                         *)
Uncounted ==
  {p \in Position : p > max_position \/ \E i \in Lane : key_positions[i] = p}

H == INSTANCE Histogram WITH pending <- Uncounted, hist <- TableHist

(* The builder is a histogram: each step counts one element that was not   *)
(* counted before, under its own key, or changes no count at all.          *)
RefinesHistogram == H!SafeSpec

(* The comparison of test_vectorized_batch_build and of                    *)
(* test_scalar_batch_build: after the build the look-up returns for each   *)
(* key the number of its occurrences in the column.                        *)
BuildCorrect ==
  loop = "done" =>
    \A k \in Key : probe_count_vectorized(k) = H!Occurrences(k)

(* The two while loops end.                                                *)
Terminates == <>(loop = "done")

-----------------------------------------------------------------------------
(* The inductive invariant behind the safety properties.                   *)

(* The lanes' elements differ and none is past max_position.               *)
LanesDistinct ==
  /\ \A i, j \in Lane : key_positions[i] = key_positions[j] => i = j
  /\ \A i \in Lane : key_positions[i] <= max_position

(* What the loop conditions leave behind.                                  *)
ControlInv ==
  /\ loop = "main" /\ phase # "check" => max_position < ElementCount
  /\ loop # "main" => max_position >= ElementCount
  /\ loop = "done" => phase = "gather" /\ \A i \in Lane : ~ HasElement(i)
  /\ phase = "gather" => todo = {}
  /\ \A i \in todo : HasElement(i)

(* The lanes whose slot of this round still matters.                       *)
AtSlot(i) == \/ phase = "scatter" /\ HasElement(i)
             \/ phase = "check" /\ i \in todo

(* A key that was stored but not counted yet belongs to a lane that will   *)
(* count it in this round.                                                 *)
SlotsOwned ==
  \A s \in Slot :
    key_container[s] # Empty /\ key_count_container[s] = 0 =>
      \E i \in Lane : /\ AtSlot(i)
                      /\ hashed_positions[i] = s
                      /\ KeyAt(i) = key_container[s]

(* The gathered value is stale during the scatter: the slot of a storing   *)
(* lane may hold a key by now, but none that was counted.                  *)
SlotsGathered ==
  \A i \in Lane : AtSlot(i) =>
    /\ hashed_positions[i] = ProbeSlot(KeyAt(i), offsets[i])
    /\ IF phase = "scatter" /\ i \in todo
         THEN key_count_container[hashed_positions[i]] = 0
         ELSE key_container[hashed_positions[i]] # Empty

(* The key of slot s is neither k nor will it be when the round ends.      *)
Taken(s, k) == key_container[s] \notin {Empty, k}

(* All slots a lane has moved over are other keys'.                        *)
PathsPassed ==
  \A i \in Lane : HasElement(i) =>
    \A o \in 0 .. offsets[i] - 1 :
      IF phase = "check" /\ i \notin todo
        THEN Taken(ProbeSlot(KeyAt(i), o), KeyAt(i))
        ELSE Counted(ProbeSlot(KeyAt(i), o), KeyAt(i))

IInv ==
  /\ TypeOK
  /\ LanesDistinct
  /\ ControlInv
  /\ CountsHaveKeys
  /\ SlotsOwned
  /\ SlotsGathered
  /\ PathsPassed
  /\ KeysReachable
=============================================================================
