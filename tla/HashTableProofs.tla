--------------------------- MODULE HashTableProofs ---------------------------
(***************************************************************************)
(* The hash table and its builders, for every column, hash function and    *)
(* size of the table, and every number of lanes: facts about look-ups, the *)
(* batched build, and the element-wise build with the look-ups of arrays   *)
(* in what it has built.                                                   *)
(***************************************************************************)
EXTENDS BatchBuild, ArrayProbe, BasicFacts

(***************************************************************************)
(* Probe sequences stay in the table and repeat after container_size       *)
(* steps, and a table whose keys are reachable is looked up correctly.     *)
(***************************************************************************)

(* A probe never leaves the arrays.                                        *)
LEMMA ProbeSlotType ==
  ASSUME NEW k \in Key, NEW o \in Nat
  PROVE  ProbeSlot(k, o) \in Slot
<1>1. hash_fn[k] + o \in Int
  BY HashAssumption, WordAssumption
<1>2. (hash_fn[k] + o) % container_size \in 0 .. container_size - 1
  BY <1>1, SizeAssumption, DivMod, Zenon
<1>. QED BY <1>2 DEF ProbeSlot, Slot

LEMMA ProbeSlotPeriod ==
  ASSUME NEW k \in Key, NEW o \in Nat
  PROVE  ProbeSlot(k, o + container_size) = ProbeSlot(k, o)
<1>. DEFINE a == hash_fn[k] + o
<1>1. hash_fn[k] \in Int /\ a \in Int /\ container_size \in Nat \ {0}
  BY HashAssumption, WordAssumption, SizeAssumption
<1>2. hash_fn[k] + (o + container_size) = a + container_size
  BY <1>1, SMT
<1>. HIDE DEF a
<1>3. (a + container_size) % container_size = (a % container_size)
  BY <1>1, ModPeriod
<1>. QED BY <1>2, <1>3 DEF ProbeSlot, a

-----------------------------------------------------------------------------
(* What it means for a table that its keys are reachable.                  *)

(* Of two slots with the same key one would be on the other's path.        *)
LEMMA ReachableUnique == KeysReachable => NoDuplicateKeys
<1>. SUFFICES ASSUME KeysReachable,
                     NEW s \in Slot, NEW t \in Slot,
                     key_container[s] = key_container[t], key_container[s] # Empty
              PROVE  s = t
  BY DEF NoDuplicateKeys
<1>. DEFINE k == key_container[s]
<1>1. PICK o \in Offset : /\ s = ProbeSlot(k, o)
                          /\ \A q \in 0 .. o - 1 : Counted(ProbeSlot(k, q), k)
  BY DEF KeysReachable
<1>2. PICK p \in Offset : /\ t = ProbeSlot(k, p)
                          /\ \A q \in 0 .. p - 1 : Counted(ProbeSlot(k, q), k)
  BY DEF KeysReachable
<1>3. ~ (o \in 0 .. p - 1) /\ ~ (p \in 0 .. o - 1)
  BY <1>1, <1>2 DEF Counted
<1>4. o = p
  BY <1>3, SizeAssumption DEF Offset
<1>. QED BY <1>1, <1>2, <1>4

(* The abstract count of a stored key is the count of its slot.            *)
LEMMA CountOfStored ==
  ASSUME NoDuplicateKeys, NEW s \in Slot, key_container[s] # Empty
  PROVE  /\ SlotsOf(key_container[s]) = {s}
         /\ CountOf(key_container[s]) = key_count_container[s]
<1>1. SlotsOf(key_container[s]) = {s}
  BY DEF NoDuplicateKeys, SlotsOf
<1>. QED BY <1>1 DEF CountOf

LEMMA FirstStopUnique ==
  ASSUME NEW k, NEW o \in Offset, NEW p \in Offset, NEW Stop,
         FirstStop(k, o, Stop), FirstStop(k, p, Stop)
  PROVE  o = p
<1>1. ~ (o \in 0 .. p - 1) /\ ~ (p \in 0 .. o - 1)
  BY DEF FirstStop
<1>. QED BY <1>1, SizeAssumption DEF Offset

LEMMA ReachableLookups ==
  ASSUME TableTypeOK, CountsHaveKeys, KeysReachable, container_size + 1 < Word
  PROVE  LookupsAgree
<1>. SUFFICES ASSUME NEW k \in Key
              PROVE  /\ probe_count_vectorized(k) = CountOf(k)
                     /\ get_count(k) = CountOf(k)
  BY DEF LookupsAgree
<1>1. container_infinity_value = container_size + 1
  <2>1. container_size + 1 \in 0 .. Word - 1
    BY SizeAssumption, WordAssumption
  <2>2. Word * 0 + (container_size + 1) = container_size + 1
    BY <2>1, WordAssumption
  <2>3. (Word * 0 + (container_size + 1)) % Word = container_size + 1
    BY <2>1, ModOfSum, WordAssumption
  <2>. QED BY <2>2, <2>3 DEF container_infinity_value
<1>2. \A o \in Offset : ProbeSlot(k, o) \in Slot
  BY ProbeSlotType, SizeAssumption DEF Offset
<1>3. k # Empty
  BY KeyAssumption
<1>4. CASE SlotsOf(k) = {}
  <2>1. \A o \in Offset : key_container[ProbeSlot(k, o)] # k
    BY <1>2, <1>4 DEF SlotsOf
  <2>2. probe(k) = container_infinity_value
    BY <2>1 DEF probe, FirstStop
  <2>3. get_count(k) = 0
    BY <2>2, <1>1, SizeAssumption DEF get_count
  <2>. QED BY <2>1, <2>3, <1>4 DEF probe_count_vectorized, CountOf
<1>5. CASE SlotsOf(k) # {}
  <2>1. PICK s \in Slot : key_container[s] = k
    BY <1>5 DEF SlotsOf
  <2>2. CountOf(k) = key_count_container[s]
    BY <1>3, <2>1, ReachableUnique, CountOfStored
  <2>3. PICK o \in Offset : /\ s = ProbeSlot(k, o)
                            /\ \A q \in 0 .. o - 1 : Counted(ProbeSlot(k, q), k)
    BY <1>3, <2>1 DEF KeysReachable
  <2>4. \A q \in 0 .. o - 1 : key_container[ProbeSlot(k, q)] \notin {k, Empty}
    <3>1. \A q \in 0 .. o - 1 : ProbeSlot(k, q) \in Slot
      BY <1>2, SizeAssumption DEF Offset
    <3>. QED BY <2>3, <3>1 DEF Counted, CountsHaveKeys
  <2>5. FirstStop(k, o, {k, Empty}) /\ FirstStop(k, o, {k})
    BY <2>1, <2>3, <2>4 DEF FirstStop
  <2>6. probe_count_vectorized(k) = key_count_container[s]
    <3>. DEFINE p == CHOOSE p \in Offset : FirstStop(k, p, {k, Empty})
    <3>1. p = o
      BY <2>5, FirstStopUnique
    <3>. HIDE DEF p
    <3>2. \E q \in Offset : /\ FirstStop(k, q, {k, Empty})
                            /\ key_container[ProbeSlot(k, q)] = k
      BY <2>1, <2>3, <2>5
    <3>. QED BY <3>1, <3>2, <2>3 DEF probe_count_vectorized, p
  <2>7. probe(k) = s
    <3>. DEFINE p == CHOOSE p \in Offset : FirstStop(k, p, {k})
    <3>1. p = o
      BY <2>5, FirstStopUnique
    <3>. HIDE DEF p
    <3>. QED BY <3>1, <2>3, <2>5 DEF probe, p
  <2>8. get_count(k) = key_count_container[s]
    BY <2>7, <1>1, SizeAssumption DEF get_count, Slot
  <2>. QED BY <2>2, <2>6, <2>8
<1>. QED BY <1>4, <1>5

(***************************************************************************)
(* The batched build: its inductive invariant and what follows from it.    *)
(***************************************************************************)

(* A lane with an element has a key.                                       *)
LEMMA LaneKey ==
  ASSUME TypeOK, NEW i \in Lane, HasElement(i)
  PROVE  /\ KeyAt(i) \in Key
         /\ KeyAt(i) # Empty
         /\ key_positions[i] \in Position
         /\ offsets[i] \in Nat
BY KeyAssumption, CountAssumption
   DEF TypeOK, TableTypeOK, HasElement, KeyAt, Position

(* Before the check both loops act on the lanes that have an element: the  *)
(* first loop needs no test.                                               *)
LEMMA ActiveHasElement ==
  ASSUME IInv, NEW i \in Lane, loop # "done", phase # "check"
  PROVE  Active(i) <=> HasElement(i)
BY CountAssumption
   DEF IInv, TypeOK, ControlInv, LanesDistinct, Active, HasElement

(* A slot passed by a lane that still counts in this round was counted     *)
(* for another key.                                                        *)
LEMMA PassedCounted ==
  ASSUME IInv, NEW i \in Lane, HasElement(i), phase # "check" \/ i \in todo,
         NEW o \in 0 .. offsets[i] - 1
  PROVE  Counted(ProbeSlot(KeyAt(i), o), KeyAt(i))
BY DEF IInv, PathsPassed

LEMMA InitIInv == Init => IInv
<1>. SUFFICES ASSUME Init PROVE IInv
  OBVIOUS
<1>. USE DEF Init
<1>1. TypeOK
  <2>1. 0 \in Slot
    BY SizeAssumption DEF Slot
  <2>2. TableTypeOK
    BY DEF TableInit, TableTypeOK
  <2>. QED BY <2>1, <2>2, LaneAssumption DEF TypeOK, Lane, LoopFor
<1>2. LanesDistinct
  BY LaneAssumption DEF LanesDistinct, Lane
<1>3. ControlInv
  BY LaneAssumption, CountAssumption, <1>1
     DEF ControlInv, LoopFor, Lane, HasElement, TypeOK
<1>4. CountsHaveKeys /\ SlotsOwned /\ KeysReachable
  BY DEF TableInit, CountsHaveKeys, SlotsOwned, KeysReachable
<1>5. SlotsGathered
  BY DEF SlotsGathered, AtSlot
<1>6. PathsPassed
  <2>1. \A i \in Lane : 0 .. offsets[i] - 1 = {}
    BY SMT
  <2>. QED BY <2>1, Zenon DEF PathsPassed
<1>. QED BY <1>1, <1>2, <1>3, <1>4, <1>5, <1>6 DEF IInv

-----------------------------------------------------------------------------
(* One lemma per action.                                                   *)

LEMMA GatherIInv == IInv /\ Gather => IInv'
<1>. SUFFICES ASSUME IInv, Gather PROVE IInv'
  OBVIOUS
<1>. USE DEF Gather, table, lanes
<1>1. \A i \in Lane : Active(i) <=> HasElement(i)
  BY ActiveHasElement
<1>2. TypeOK'
  <2>1. \A i \in Lane : Active(i) => ProbeSlot(KeyAt(i), offsets[i]) \in Slot
    BY <1>1, LaneKey, ProbeSlotType DEF IInv
  <2>. QED BY <2>1 DEF IInv, TypeOK, TableTypeOK
<1>3. LanesDistinct'
  BY DEF IInv, LanesDistinct
<1>4. ControlInv'
  BY <1>1 DEF IInv, ControlInv, HasElement
<1>5. CountsHaveKeys' /\ SlotsOwned'
  <2>1. \A s \in Slot : key_container[s] # Empty => key_count_container[s] # 0
    BY DEF IInv, SlotsOwned, ControlInv, AtSlot
  <2>. QED BY <2>1 DEF IInv, CountsHaveKeys, SlotsOwned
<1>6. SlotsGathered'
  <2>. SUFFICES ASSUME NEW i \in Lane, HasElement(i)
                PROVE  /\ hashed_positions'[i] = ProbeSlot(KeyAt(i), offsets[i])
                       /\ IF i \in todo'
                            THEN key_count_container[hashed_positions'[i]] = 0
                            ELSE key_container[hashed_positions'[i]] # Empty
    BY DEF SlotsGathered, AtSlot, HasElement, KeyAt, ProbeSlot
  <2>1. hashed_positions'[i] = ProbeSlot(KeyAt(i), offsets[i])
    BY <1>1
  <2>2. hashed_positions'[i] \in Slot
    BY <1>2 DEF TypeOK
  <2>3. i \in todo' <=> key_container[hashed_positions'[i]] = Empty
    BY <1>1
  <2>4. key_container[hashed_positions'[i]] = Empty
          => key_count_container[hashed_positions'[i]] = 0
    BY <2>2 DEF IInv, TypeOK, TableTypeOK, CountsHaveKeys
  <2>. QED BY <2>1, <2>3, <2>4
<1>7. PathsPassed'
  BY DEF IInv, PathsPassed, HasElement, KeyAt, Counted, ProbeSlot
<1>8. KeysReachable'
  BY DEF IInv, KeysReachable, Counted, ProbeSlot
<1>. QED BY <1>2, <1>3, <1>4, <1>5, <1>6, <1>7, <1>8 DEF IInv

(* The store goes to a slot that may have a key by now but no count; all   *)
(* paths run over counted slots, so none is disturbed.                     *)
LEMMA StoreKeyIInv == ASSUME NEW i \in Lane PROVE IInv /\ StoreKey(i) => IInv'
<1>. SUFFICES ASSUME IInv, StoreKey(i) PROVE IInv'
  OBVIOUS
<1>. DEFINE t == hashed_positions[i]
<1>. USE DEF StoreKey, table, lanes
<1>1. /\ HasElement(i) /\ AtSlot(i)
      /\ KeyAt(i) \in Key /\ KeyAt(i) # Empty
      /\ t \in Slot
      /\ t = ProbeSlot(KeyAt(i), offsets[i])
      /\ key_count_container[t] = 0
  <2>1. HasElement(i) /\ AtSlot(i)
    BY DEF IInv, ControlInv, AtSlot
  <2>. QED BY <2>1, LaneKey DEF IInv, TypeOK, SlotsGathered
<1>2. key_container' = [key_container EXCEPT ![t] = KeyAt(i)]
  OBVIOUS
<1>3. /\ \A j \in Lane : /\ HasElement(j)' <=> HasElement(j)
                         /\ KeyAt(j)' = KeyAt(j)
                         /\ AtSlot(j)' <=> AtSlot(j)
      /\ \A k, o : ProbeSlot(k, o)' = ProbeSlot(k, o)
  BY DEF HasElement, KeyAt, AtSlot, ProbeSlot
<1>. HIDE DEF t
<1>4. TypeOK'
  BY <1>1, <1>2 DEF IInv, TypeOK, TableTypeOK
<1>5. \A s \in Slot : \A k : Counted(s, k) => Counted(s, k)'
  <2>. SUFFICES ASSUME NEW s \in Slot, NEW k, Counted(s, k) PROVE Counted(s, k)'
    OBVIOUS
  <2>1. s # t
    BY <1>1 DEF Counted
  <2>. QED BY <1>2, <2>1 DEF Counted, IInv, TypeOK, TableTypeOK
<1>6. LanesDistinct'
  BY DEF IInv, LanesDistinct
<1>7. ControlInv'
  BY <1>3 DEF IInv, ControlInv, HasElement
<1>8. CountsHaveKeys' /\ SlotsOwned'
  <2>. SUFFICES ASSUME NEW s \in Slot
                PROVE  /\ key_count_container[s] > 0 => key_container'[s] # Empty
                       /\ key_container'[s] # Empty /\ key_count_container[s] = 0 =>
                            \E j \in Lane : /\ AtSlot(j)
                                            /\ hashed_positions[j] = s
                                            /\ KeyAt(j) = key_container'[s]
    BY <1>3 DEF CountsHaveKeys, SlotsOwned
  <2>1. CASE s = t
    BY <2>1, <1>1, <1>2 DEF IInv, TypeOK, TableTypeOK, t
  <2>2. CASE s # t
    <3>1. key_container'[s] = key_container[s]
      BY <2>2, <1>2 DEF IInv, TypeOK, TableTypeOK
    <3>. QED BY <3>1 DEF IInv, CountsHaveKeys, SlotsOwned
  <2>. QED BY <2>1, <2>2
<1>9. SlotsGathered'
  <2>. SUFFICES ASSUME NEW j \in Lane, AtSlot(j)
                PROVE  /\ hashed_positions[j] = ProbeSlot(KeyAt(j), offsets[j])
                       /\ IF j \in todo'
                            THEN key_count_container[hashed_positions[j]] = 0
                            ELSE key_container'[hashed_positions[j]] # Empty
    BY <1>3 DEF SlotsGathered
  <2>1. CASE j = i
    BY <2>1, <1>1, <1>2 DEF IInv, TypeOK, TableTypeOK, t
  <2>2. CASE j # i
    BY <2>2, <1>1, <1>2 DEF IInv, TypeOK, TableTypeOK, SlotsGathered
  <2>. QED BY <2>1, <2>2
<1>10. PathsPassed'
  <2>. SUFFICES ASSUME NEW j \in Lane, HasElement(j), NEW o \in 0 .. offsets[j] - 1
                PROVE  Counted(ProbeSlot(KeyAt(j), o), KeyAt(j))'
    BY <1>3 DEF PathsPassed
  <2>1. KeyAt(j) \in Key /\ o \in Nat
    BY LaneKey DEF IInv
  <2>2. ProbeSlot(KeyAt(j), o) \in Slot
    BY <2>1, ProbeSlotType
  <2>3. Counted(ProbeSlot(KeyAt(j), o), KeyAt(j))
    BY PassedCounted
  <2>. QED BY <2>2, <2>3, <1>3, <1>5 DEF Counted
<1>11. KeysReachable'
  <2>. SUFFICES ASSUME NEW s \in Slot, NEW k, k = key_container'[s], k # Empty
                PROVE  \E o \in Offset :
                         /\ s = ProbeSlot(k, o)
                         /\ \A q \in 0 .. o - 1 : Counted(ProbeSlot(k, q), k)'
    BY DEF KeysReachable, Counted, ProbeSlot
  <2>0. \A x \in Key, q \in Nat : ProbeSlot(x, q) \in Slot
    BY ProbeSlotType
  <2>1. CASE s = t
    <3>1. k = KeyAt(i)
      BY <2>1, <1>1, <1>2 DEF IInv, TypeOK, TableTypeOK
    <3>2. \A q \in 0 .. offsets[i] - 1 : Counted(ProbeSlot(k, q), k)
      BY <3>1, <1>1, PassedCounted
    <3>3. offsets[i] \in Offset
      <4>1. offsets[i] \in Nat
        BY <1>1, LaneKey DEF IInv
      <4>2. ASSUME offsets[i] >= container_size PROVE FALSE
        <5>. DEFINE q == offsets[i] - container_size
        <5>1. q \in 0 .. offsets[i] - 1 /\ q + container_size = offsets[i]
          BY <4>1, <4>2, SizeAssumption
        <5>. HIDE DEF q
        <5>2. ProbeSlot(k, q) = t
          BY <5>1, <1>1, <3>1, ProbeSlotPeriod
        <5>3. Counted(t, k)
          BY <5>1, <5>2, <3>2
        <5>. QED BY <5>3, <1>1 DEF Counted
      <4>. QED BY <4>1, <4>2, SizeAssumption DEF Offset
    <3>4. \A q \in 0 .. offsets[i] - 1 : Counted(ProbeSlot(k, q), k)'
      BY <3>1, <3>2, <3>3, <1>1, <1>5, <2>0 DEF Offset
    <3>. QED BY <3>1, <3>3, <3>4, <2>1, <1>1
  <2>2. CASE s # t
    <3>1. key_container[s] = k /\ k \in Key
      BY <2>2, <1>2 DEF IInv, TypeOK, TableTypeOK
    <3>2. PICK o \in Offset : /\ s = ProbeSlot(k, o)
                              /\ \A q \in 0 .. o - 1 : Counted(ProbeSlot(k, q), k)
      BY <3>1 DEF IInv, KeysReachable
    <3>3. \A q \in 0 .. o - 1 : Counted(ProbeSlot(k, q), k)'
      BY <3>1, <3>2, <1>5, <2>0 DEF Offset
    <3>. QED BY <3>2, <3>3
  <2>. QED BY <2>1, <2>2
<1>. QED BY <1>4, <1>6, <1>7, <1>8, <1>9, <1>10, <1>11 DEF IInv

LEMMA StartCheckIInv == IInv /\ StartCheck => IInv'
<1>. SUFFICES ASSUME IInv, StartCheck PROVE IInv'
  OBVIOUS
<1>. USE DEF StartCheck, table, lanes
<1>1. loop # "done" /\ phase # "check"
  BY DEF IInv, ControlInv
<1>2. todo' = {i \in Lane : HasElement(i)}
  BY <1>1, ActiveHasElement
<1>3. /\ \A i \in Lane : /\ HasElement(i)' <=> HasElement(i)
                         /\ KeyAt(i)' = KeyAt(i)
                         /\ AtSlot(i)' <=> AtSlot(i)
      /\ \A k, o : ProbeSlot(k, o)' = ProbeSlot(k, o)
  BY <1>2 DEF HasElement, KeyAt, AtSlot, ProbeSlot
<1>4. TypeOK'
  BY <1>2 DEF IInv, TypeOK, TableTypeOK
<1>5. LanesDistinct'
  BY DEF IInv, LanesDistinct
<1>6. ControlInv'
  BY <1>1, <1>2 DEF IInv, ControlInv, HasElement
<1>7. CountsHaveKeys' /\ SlotsOwned'
  BY <1>3 DEF IInv, CountsHaveKeys, SlotsOwned
<1>8. SlotsGathered'
  BY <1>3 DEF IInv, SlotsGathered
<1>9. PathsPassed'
  <2>. SUFFICES ASSUME NEW i \in Lane, HasElement(i), NEW o \in 0 .. offsets[i] - 1
                PROVE  Counted(ProbeSlot(KeyAt(i), o), KeyAt(i))
    BY <1>2, <1>3 DEF PathsPassed, Counted
  <2>. QED BY <1>1, PassedCounted
<1>10. KeysReachable'
  BY <1>3 DEF IInv, KeysReachable, Counted
<1>. QED BY <1>4, <1>5, <1>6, <1>7, <1>8, <1>9, <1>10 DEF IInv

(* The count makes the slot permanent; the lane starts over.               *)
LEMMA CountElementIInv == ASSUME NEW i \in Lane PROVE IInv /\ CountElement(i) => IInv'
<1>. SUFFICES ASSUME IInv, CountElement(i) PROVE IInv'
  OBVIOUS
<1>. DEFINE t == hashed_positions[i]
<1>. USE DEF CountElement, NextToCheck, LoadNext
<1>1. /\ phase = "check" /\ i \in todo /\ HasElement(i)
      /\ KeyAt(i) \in Key /\ KeyAt(i) # Empty
      /\ t \in Slot /\ key_container[t] = KeyAt(i)
  <2>1. HasElement(i)
    BY DEF IInv, ControlInv
  <2>. QED BY <2>1, LaneKey DEF IInv, TypeOK
<1>2. key_count_container' = [key_count_container EXCEPT ![t] = @ + 1]
  OBVIOUS
<1>. HIDE DEF t
<1>3. TypeOK'
  BY <1>1, <1>2 DEF IInv, TypeOK, TableTypeOK
<1>4. \A s \in Slot : key_count_container'[s] >= key_count_container[s]
  BY <1>1, <1>2 DEF IInv, TypeOK, TableTypeOK
<1>5. \A s \in Slot : \A k : Counted(s, k) => Counted(s, k)'
  BY <1>3, <1>4 DEF Counted, IInv, TypeOK, TableTypeOK
<1>6. \A j \in Lane \ {i} : /\ HasElement(j)' <=> HasElement(j)
                            /\ KeyAt(j)' = KeyAt(j)
                            /\ offsets'[j] = offsets[j]
                            /\ j \in todo' <=> j \in todo
  BY DEF HasElement, KeyAt, IInv, TypeOK
<1>7. \A k, o : ProbeSlot(k, o)' = ProbeSlot(k, o)
  BY DEF ProbeSlot
<1>8. LanesDistinct'
  BY DEF IInv, TypeOK, LanesDistinct
<1>9. ControlInv'
  <2>1. \A j \in todo' : HasElement(j)'
    BY <1>6 DEF IInv, ControlInv, TypeOK
  <2>2. loop # "main" => max_position' >= ElementCount
    BY CountAssumption DEF IInv, ControlInv, TypeOK
  <2>. QED BY <1>1, <2>1, <2>2 DEF IInv, ControlInv
<1>10. CountsHaveKeys' /\ SlotsOwned'
  <2>. SUFFICES ASSUME NEW s \in Slot
                PROVE  /\ key_count_container'[s] > 0 => key_container[s] # Empty
                       /\ key_container[s] # Empty /\ key_count_container'[s] = 0 =>
                            \E j \in Lane : /\ AtSlot(j)'
                                            /\ hashed_positions[j] = s
                                            /\ KeyAt(j)' = key_container[s]
    BY DEF CountsHaveKeys, SlotsOwned
  <2>1. CASE s = t
    BY <2>1, <1>1, <1>2 DEF IInv, TypeOK, TableTypeOK
  <2>2. CASE s # t
    <3>1. key_count_container'[s] = key_count_container[s]
      BY <2>2, <1>2 DEF IInv, TypeOK, TableTypeOK
    <3>2. ASSUME key_container[s] # Empty, key_count_container[s] = 0
          PROVE  \E j \in Lane : /\ AtSlot(j)'
                                 /\ hashed_positions[j] = s
                                 /\ KeyAt(j)' = key_container[s]
      <4>1. PICK j \in Lane : /\ AtSlot(j)
                              /\ hashed_positions[j] = s
                              /\ KeyAt(j) = key_container[s]
        BY <3>2 DEF IInv, SlotsOwned
      <4>2. j # i
        BY <2>2, <4>1 DEF t
      <4>. QED BY <4>1, <4>2, <1>1, <1>6 DEF AtSlot
    <3>. QED BY <3>1, <3>2 DEF IInv, CountsHaveKeys, SlotsOwned
  <2>. QED BY <2>1, <2>2
<1>11. SlotsGathered'
  <2>. SUFFICES ASSUME NEW j \in Lane \ {i}, j \in todo
                PROVE  /\ hashed_positions[j] = ProbeSlot(KeyAt(j), offsets[j])
                       /\ key_container[hashed_positions[j]] # Empty
    BY <1>1, <1>6, <1>7 DEF SlotsGathered, AtSlot
  <2>. QED BY <1>1 DEF IInv, SlotsGathered, AtSlot
<1>12. PathsPassed'
  <2>. SUFFICES ASSUME NEW j \in Lane, HasElement(j)', NEW o \in 0 .. offsets'[j] - 1
                PROVE  IF j \notin todo'
                         THEN Taken(ProbeSlot(KeyAt(j)', o), KeyAt(j)')
                         ELSE Counted(ProbeSlot(KeyAt(j), o), KeyAt(j))'
    BY <1>1, <1>7 DEF PathsPassed, Taken, Counted
  <2>1. j # i
    BY <1>1 DEF IInv, TypeOK
  <2>2. HasElement(j) /\ o \in 0 .. offsets[j] - 1 /\ KeyAt(j)' = KeyAt(j)
    BY <2>1, <1>6
  <2>3. KeyAt(j) \in Key /\ o \in Nat
    BY <2>2, LaneKey DEF IInv
  <2>4. ProbeSlot(KeyAt(j), o) \in Slot
    BY <2>3, ProbeSlotType
  <2>5. CASE j \in todo
    <3>1. Counted(ProbeSlot(KeyAt(j), o), KeyAt(j))
      BY <2>2, <2>5, PassedCounted
    <3>. QED BY <3>1, <2>1, <2>2, <2>4, <2>5, <1>5, <1>6, <1>7 DEF Counted
  <2>6. CASE j \notin todo
    BY <2>1, <2>2, <2>6, <1>1, <1>6 DEF IInv, PathsPassed
  <2>. QED BY <2>5, <2>6
<1>13. KeysReachable'
  <2>. SUFFICES ASSUME NEW s \in Slot, NEW k, k = key_container[s], k # Empty
                PROVE  \E o \in Offset :
                         /\ s = ProbeSlot(k, o)
                         /\ \A q \in 0 .. o - 1 : Counted(ProbeSlot(k, q), k)'
    BY <1>7 DEF KeysReachable, Counted
  <2>1. k \in Key
    BY DEF IInv, TypeOK, TableTypeOK
  <2>2. PICK o \in Offset : /\ s = ProbeSlot(k, o)
                            /\ \A q \in 0 .. o - 1 : Counted(ProbeSlot(k, q), k)
    BY DEF IInv, KeysReachable
  <2>3. \A q \in 0 .. o - 1 : Counted(ProbeSlot(k, q), k)'
    BY <2>1, <2>2, <1>5, ProbeSlotType DEF Offset
  <2>. QED BY <2>2, <2>3
<1>. QED BY <1>3, <1>8, <1>9, <1>10, <1>11, <1>12, <1>13 DEF IInv

(* A lane that moves on leaves a slot behind that has another lane's key,  *)
(* which will be counted before the round ends.                            *)
LEMMA MoveOnIInv == ASSUME NEW i \in Lane PROVE IInv /\ MoveOn(i) => IInv'
<1>. SUFFICES ASSUME IInv, MoveOn(i) PROVE IInv'
  OBVIOUS
<1>. USE DEF MoveOn, NextToCheck, table
<1>1. /\ phase = "check" /\ i \in todo /\ HasElement(i)
      /\ KeyAt(i) \in Key /\ offsets[i] \in Nat
      /\ hashed_positions[i] = ProbeSlot(KeyAt(i), offsets[i])
      /\ Taken(ProbeSlot(KeyAt(i), offsets[i]), KeyAt(i))
  <2>1. HasElement(i) /\ AtSlot(i)
    BY DEF IInv, ControlInv, AtSlot
  <2>. QED BY <2>1, LaneKey DEF IInv, SlotsGathered, Taken
<1>2. /\ \A j \in Lane : /\ HasElement(j)' <=> HasElement(j)
                         /\ KeyAt(j)' = KeyAt(j)
                         /\ j # i => offsets'[j] = offsets[j]
                         /\ j # i => (j \in todo' <=> j \in todo)
      /\ \A k, o : ProbeSlot(k, o)' = ProbeSlot(k, o)
  BY DEF HasElement, KeyAt, ProbeSlot, IInv, TypeOK
<1>3. TypeOK'
  BY DEF IInv, TypeOK, TableTypeOK
<1>4. LanesDistinct'
  BY DEF IInv, LanesDistinct
<1>5. ControlInv'
  BY <1>1, <1>2 DEF IInv, ControlInv, TypeOK, HasElement
<1>6. CountsHaveKeys' /\ SlotsOwned'
  <2>. SUFFICES ASSUME NEW s \in Slot, key_container[s] # Empty,
                       key_count_container[s] = 0
                PROVE  \E j \in Lane : /\ AtSlot(j)'
                                       /\ hashed_positions[j] = s
                                       /\ KeyAt(j) = key_container[s]
    BY <1>2 DEF IInv, CountsHaveKeys, SlotsOwned
  <2>1. PICK j \in Lane : /\ AtSlot(j)
                          /\ hashed_positions[j] = s
                          /\ KeyAt(j) = key_container[s]
    BY DEF IInv, SlotsOwned
  <2>2. j # i
    BY <2>1
  <2>. QED BY <2>1, <2>2, <1>1, <1>2 DEF AtSlot
<1>7. SlotsGathered'
  BY <1>1, <1>2 DEF IInv, SlotsGathered, AtSlot
<1>8. PathsPassed'
  <2>. SUFFICES ASSUME NEW j \in Lane, HasElement(j), NEW o \in 0 .. offsets'[j] - 1
                PROVE  IF j \notin todo'
                         THEN Taken(ProbeSlot(KeyAt(j), o), KeyAt(j))
                         ELSE Counted(ProbeSlot(KeyAt(j), o), KeyAt(j))
    BY <1>1, <1>2 DEF PathsPassed, Taken, Counted
  <2>1. CASE j = i
    <3>1. offsets'[i] = offsets[i] + 1 /\ o \in Nat
      BY <2>1, <1>1 DEF IInv, TypeOK
    <3>2. CASE o = offsets[i]
      BY <3>2, <2>1, <1>1
    <3>3. CASE o # offsets[i]
      <4>1. o \in 0 .. offsets[i] - 1
        BY <3>1, <3>3, <2>1, <1>1
      <4>2. Counted(ProbeSlot(KeyAt(i), o), KeyAt(i))
        BY <4>1, <1>1, PassedCounted
      <4>3. ProbeSlot(KeyAt(i), o) \in Slot
        BY <3>1, <1>1, ProbeSlotType
      <4>. QED BY <4>2, <4>3, <2>1 DEF Counted, Taken, IInv, CountsHaveKeys
    <3>. QED BY <3>2, <3>3
  <2>2. CASE j # i
    BY <2>2, <1>1, <1>2 DEF IInv, PathsPassed
  <2>. QED BY <2>1, <2>2
<1>9. KeysReachable'
  BY <1>2 DEF IInv, KeysReachable, Counted
<1>. QED BY <1>3, <1>4, <1>5, <1>6, <1>7, <1>8, <1>9 DEF IInv

(* When the round ends every stored key has been counted.                  *)
LEMMA EndRoundIInv == IInv /\ EndRound => IInv'
<1>. SUFFICES ASSUME IInv, EndRound PROVE IInv'
  OBVIOUS
<1>. USE DEF EndRound, table, lanes
<1>1. \A s \in Slot : key_container[s] # Empty => key_count_container[s] > 0
  BY DEF IInv, SlotsOwned, AtSlot, TypeOK, TableTypeOK
<1>2. \A i \in Lane : (HasElement(i)' <=> HasElement(i)) /\ KeyAt(i)' = KeyAt(i)
  BY DEF HasElement, KeyAt
<1>3. \A k, o : ProbeSlot(k, o)' = ProbeSlot(k, o)
  BY DEF ProbeSlot
<1>4. TypeOK'
  BY DEF IInv, TypeOK, TableTypeOK, LoopFor
<1>5. LanesDistinct'
  BY DEF IInv, LanesDistinct
<1>6. ControlInv'
  BY CountAssumption DEF IInv, TypeOK, ControlInv, LoopFor, HasElement
<1>7. CountsHaveKeys' /\ SlotsOwned'
  BY <1>1 DEF IInv, CountsHaveKeys, SlotsOwned
<1>8. SlotsGathered'
  BY DEF SlotsGathered, AtSlot
<1>9. PathsPassed'
  <2>. SUFFICES ASSUME NEW i \in Lane, HasElement(i), NEW o \in 0 .. offsets[i] - 1
                PROVE  Counted(ProbeSlot(KeyAt(i), o), KeyAt(i))
    BY <1>2, <1>3 DEF PathsPassed, Counted
  <2>1. Taken(ProbeSlot(KeyAt(i), o), KeyAt(i))
    BY DEF IInv, PathsPassed
  <2>2. ProbeSlot(KeyAt(i), o) \in Slot
    BY LaneKey, ProbeSlotType DEF IInv
  <2>. QED BY <2>1, <2>2, <1>1 DEF Taken, Counted
<1>10. KeysReachable'
  BY <1>3 DEF IInv, KeysReachable, Counted
<1>. QED BY <1>4, <1>5, <1>6, <1>7, <1>8, <1>9, <1>10 DEF IInv

-----------------------------------------------------------------------------

LEMMA StutterIInv == IInv /\ UNCHANGED vars => IInv'
BY DEF vars, table, lanes, IInv, TypeOK, TableTypeOK, LanesDistinct, ControlInv,
       HasElement, CountsHaveKeys, SlotsOwned, AtSlot, KeyAt, SlotsGathered, PathsPassed,
       Taken, Counted, KeysReachable, ProbeSlot

LEMMA NextIInv == IInv /\ [Next]_vars => IInv'
BY GatherIInv, StoreKeyIInv, StartCheckIInv, CountElementIInv, MoveOnIInv,
   EndRoundIInv, StutterIInv
   DEF Next, Finished

(* The invariant holds in every reachable state, for every LaneCount, hash *)
(* function and container_size, also when the table is too small for the   *)
(* keys and the loops never end.                                           *)
THEOREM Invariance == SafeSpec => []IInv
BY InitIInv, NextIInv, PTL DEF SafeSpec

THEOREM TypeCorrect == SafeSpec => []TypeOK
BY Invariance, PTL DEF IInv

-----------------------------------------------------------------------------
(* What the invariant implies.                                             *)

(* The unguarded loads of the first loop stay inside the column.           *)
THEOREM ReadsInBounds == SafeSpec => []KeysReadInBounds
<1>1. IInv => KeysReadInBounds
  BY CountAssumption
     DEF IInv, TypeOK, LanesDistinct, ControlInv, KeysReadInBounds, HasElement
<1>. QED BY <1>1, Invariance, PTL

(* No key is stored twice, although lanes store without looking again.     *)
THEOREM KeysUnique == SafeSpec => []NoDuplicateKeys
<1>1. IInv => NoDuplicateKeys
  BY ReachableUnique DEF IInv
<1>. QED BY <1>1, Invariance, PTL

(* The two look-ups return the table's count for every key at any moment   *)
(* of the build.  The value container_infinity_value must be one past the  *)
(* table: container_size + 1 must not be 0 in T.                           *)
THEOREM LookupsCorrect ==
  ASSUME container_size + 1 < Word
  PROVE  SafeSpec => []LookupsAgree
<1>1. IInv => LookupsAgree
  BY ReachableLookups DEF IInv, TypeOK
<1>. QED BY <1>1, Invariance, PTL

LEMMA StepKeepsCountedSlots ==
  IInv /\ [Next]_vars => \A s \in Slot : CountedSlotKept(s)
<1>. SUFFICES ASSUME IInv, [Next]_vars, NEW s \in Slot, key_count_container[s] > 0
              PROVE  /\ key_container'[s] = key_container[s]
                     /\ key_count_container'[s] >= key_count_container[s]
  BY DEF CountedSlotKept
<1>. USE DEF IInv, TypeOK, TableTypeOK
<1>1. ASSUME NEW i \in Lane, StoreKey(i)
      PROVE  /\ key_container'[s] = key_container[s]
             /\ key_count_container' = key_count_container
  <2>1. AtSlot(i) /\ phase = "scatter" /\ i \in todo
    BY <1>1 DEF StoreKey, ControlInv, AtSlot
  <2>2. key_count_container[hashed_positions[i]] = 0
    BY <2>1 DEF SlotsGathered
  <2>. QED BY <1>1, <2>2 DEF StoreKey
<1>2. ASSUME NEW i \in Lane, CountElement(i)
      PROVE  /\ key_container' = key_container
             /\ key_count_container'[s] >= key_count_container[s]
  BY <1>2 DEF CountElement
<1>3. CASE UNCHANGED table
  BY <1>3 DEF table
<1>4. Gather \/ StartCheck \/ EndRound \/ (\E i \in Lane : MoveOn(i)) \/ UNCHANGED vars
        => UNCHANGED table
  BY DEF Gather, StartCheck, EndRound, MoveOn, vars
<1>. QED BY <1>1, <1>2, <1>3, <1>4 DEF Next, Finished

(* A counted slot keeps its key for good and its count never falls.        *)
THEOREM CountedSlotsStay == SafeSpec => CountedSlotsKept
BY Invariance, StepKeepsCountedSlots, PTL DEF SafeSpec, CountedSlotsKept

-----------------------------------------------------------------------------
(* The builder implements the abstract histogram.                          *)

LEMMA InitRefines == Init => H!Init
<1>. SUFFICES ASSUME Init PROVE H!Init
  OBVIOUS
<1>1. keys \in [H!Position -> Key]
  BY DEF Init, TableInit, Position, H!Position
<1>2. Uncounted = H!Position
  <2>1. \A p \in Position : p <= LaneCount - 1 => p \in Lane
    BY CountAssumption, LaneAssumption DEF Position, Lane
  <2>2. \A p \in Position : p > max_position \/ \E i \in Lane : key_positions[i] = p
    BY <2>1, CountAssumption, LaneAssumption DEF Init, Position
  <2>. QED BY <2>2 DEF Uncounted, Position, H!Position
<1>3. TableHist = [k \in Key |-> 0]
  <2>1. \A k \in Key : SlotsOf(k) = {}
    BY KeyAssumption DEF Init, TableInit, SlotsOf
  <2>. QED BY <2>1 DEF TableHist, CountOf
<1>. QED BY <1>1, <1>2, <1>3 DEF H!Init

(* A store does not change a count: the slot's count is zero before and    *)
(* after, whichever key it had or has.                                     *)
LEMMA StoreKeyRefines ==
  ASSUME IInv, NEW i \in Lane, StoreKey(i)
  PROVE  TableHist' = TableHist
<1>. DEFINE t == hashed_positions[i]
<1>1. NoDuplicateKeys
  BY ReachableUnique DEF IInv
<1>2. NoDuplicateKeys'
  <2>1. KeysReachable'
    BY StoreKeyIInv DEF IInv
  <2>2. (KeysReachable => NoDuplicateKeys)'
    BY ReachableUnique, PTL
  <2>. QED BY <2>1, <2>2
<1>3. /\ t \in Slot /\ key_count_container[t] = 0
      /\ key_count_container' = key_count_container
      /\ \A s \in Slot \ {t} : key_container'[s] = key_container[s]
  <2>1. AtSlot(i) /\ phase = "scatter" /\ i \in todo
    BY DEF IInv, ControlInv, StoreKey, AtSlot
  <2>. QED BY <2>1 DEF IInv, TypeOK, TableTypeOK, SlotsGathered, StoreKey
<1>. HIDE DEF t
<1>4. ASSUME NEW k \in Key PROVE CountOf(k)' = CountOf(k)
  <2>. k # Empty
    BY KeyAssumption
  <2>1. CASE \E s \in Slot \ {t} : key_container[s] = k
    <3>1. PICK s \in Slot \ {t} : key_container[s] = k
      BY <2>1
    <3>2. key_container'[s] = k
      BY <3>1, <1>3
    <3>3. SlotsOf(k) = {s} /\ SlotsOf(k)' = {s}
      BY <3>1, <3>2, <1>1, <1>2 DEF NoDuplicateKeys, SlotsOf
    <3>. QED BY <3>3, <1>3 DEF CountOf
  <2>2. CASE ~ \E s \in Slot \ {t} : key_container[s] = k
    <3>1. SlotsOf(k) \in {{}, {t}}
      BY <2>2 DEF SlotsOf
    <3>2. SlotsOf(k)' \in {{}, {t}}
      BY <2>2, <1>3 DEF SlotsOf
    <3>3. CountOf(k) = 0
      BY <3>1, <1>3 DEF CountOf
    <3>4. CountOf(k)' = 0
      BY <3>2, <1>3 DEF CountOf
    <3>. QED BY <3>3, <3>4
  <2>. QED BY <2>1, <2>2
<1>. QED BY <1>4 DEF TableHist

LEMMA CountElementRefines ==
  ASSUME IInv, NEW i \in Lane, CountElement(i)
  PROVE  H!Count(key_positions[i])
<1>. DEFINE t == hashed_positions[i]
            k == KeyAt(i)
            p == key_positions[i]
<1>1. /\ HasElement(i) /\ k \in Key /\ k # Empty /\ p \in Position
      /\ t \in Slot /\ key_container[t] = k
  <2>1. HasElement(i)
    BY DEF IInv, ControlInv, CountElement, NextToCheck
  <2>. QED BY <2>1, LaneKey DEF IInv, TypeOK, CountElement
<1>2. p \in Uncounted
  BY <1>1 DEF Uncounted
<1>3. Uncounted' = Uncounted \ {p}
  <2>1. /\ max_position \in Nat /\ max_position' = max_position + 1
        /\ p <= max_position
        /\ key_positions'[i] = max_position + 1
        /\ \A j \in Lane \ {i} : key_positions'[j] = key_positions[j] /\ key_positions[j] # p
    BY DEF IInv, TypeOK, LanesDistinct, CountElement, LoadNext
  <2>2. ASSUME NEW q \in Position
        PROVE  (q > max_position' \/ \E j \in Lane : key_positions'[j] = q)
                 <=> (q > max_position \/ \E j \in Lane : key_positions[j] = q) /\ q # p
    <3>1. q \in Int /\ p \in Int
      BY <1>1, CountAssumption DEF Position
    <3>2. q > max_position' => q > max_position /\ q # p
      BY <2>1, <3>1
    <3>3. ASSUME NEW j \in Lane, key_positions'[j] = q
          PROVE  (q > max_position \/ \E m \in Lane : key_positions[m] = q) /\ q # p
      <4>1. CASE j = i
        BY <4>1, <3>1, <3>3, <2>1
      <4>2. CASE j # i
        BY <4>2, <3>3, <2>1
      <4>. QED BY <4>1, <4>2
    <3>4. ASSUME q > max_position
          PROVE  q > max_position' \/ \E j \in Lane : key_positions'[j] = q
      <4>1. q > max_position + 1 \/ q = max_position + 1
        BY <3>1, <3>4, <2>1
      <4>. QED BY <4>1, <2>1
    <3>5. ASSUME NEW j \in Lane, key_positions[j] = q, q # p
          PROVE  \E m \in Lane : key_positions'[m] = q
      BY <3>5, <2>1
    <3>. QED BY <3>2, <3>3, <3>4, <3>5
  <2>. QED BY <2>2 DEF Uncounted
<1>4. ASSUME NEW c, c = k PROVE TableHist' = [TableHist EXCEPT ![c] = @ + 1]
  <2>1. NoDuplicateKeys
    BY ReachableUnique DEF IInv
  <2>2. /\ key_container' = key_container
        /\ key_count_container' = [key_count_container EXCEPT ![t] = @ + 1]
        /\ key_count_container \in [Slot -> Nat]
    BY DEF CountElement, IInv, TypeOK, TableTypeOK
  <2>3. SlotsOf(c) = {t} /\ c \in Key
    BY <2>1, <1>1, <1>4, CountOfStored
  <2>. HIDE DEF t
  <2>4. \A m : SlotsOf(m)' = SlotsOf(m)
    BY <2>2 DEF SlotsOf
  <2>5. CountOf(c)' = CountOf(c) + 1
    <3>1. CountOf(c) = key_count_container[t]
      BY <2>3 DEF CountOf
    <3>2. CountOf(c)' = key_count_container'[t]
      BY <2>3, <2>4 DEF CountOf
    <3>. QED BY <3>1, <3>2, <2>2, <1>1
  <2>6. ASSUME NEW m \in Key, m # c PROVE CountOf(m)' = CountOf(m)
    <3>1. CASE SlotsOf(m) = {}
      BY <3>1, <2>4 DEF CountOf
    <3>2. CASE SlotsOf(m) # {}
      <4>1. PICK s \in Slot : key_container[s] = m
        BY <3>2 DEF SlotsOf
      <4>2. m # Empty
        BY KeyAssumption
      <4>3. SlotsOf(m) = {s}
        BY <4>1, <4>2, <2>1, CountOfStored
      <4>4. s # t
        BY <4>1, <2>6, <1>1, <1>4
      <4>. QED BY <4>3, <4>4, <2>2, <2>4 DEF CountOf
    <3>. QED BY <3>1, <3>2
  <2>. QED BY <2>3, <2>5, <2>6 DEF TableHist
<1>5. keys' = keys
  BY DEF CountElement
<1>. QED BY <1>2, <1>3, <1>4, <1>5 DEF H!Count, KeyAt

LEMMA NextRefines == IInv /\ [Next]_vars => [H!Next]_(H!vars)
<1>. SUFFICES ASSUME IInv, [Next]_vars PROVE H!Next \/ UNCHANGED H!vars
  OBVIOUS
<1>1. ASSUME NEW i \in Lane, StoreKey(i) PROVE UNCHANGED H!vars
  <2>1. TableHist' = TableHist
    BY <1>1, StoreKeyRefines
  <2>2. keys' = keys /\ Uncounted' = Uncounted
    BY <1>1 DEF StoreKey, lanes, Uncounted
  <2>. QED BY <2>1, <2>2 DEF H!vars
<1>2. ASSUME NEW i \in Lane, CountElement(i) PROVE H!Next
  <2>1. key_positions[i] \in H!Position
    BY <1>2, LaneKey DEF IInv, ControlInv, CountElement, NextToCheck, Position, H!Position
  <2>. QED BY <1>2, <2>1, CountElementRefines DEF H!Next
<1>3. CASE UNCHANGED <<keys, key_container, key_count_container, key_positions, max_position>>
  <2>1. Uncounted' = Uncounted
    BY <1>3 DEF Uncounted
  <2>2. ASSUME NEW k \in Key PROVE CountOf(k)' = CountOf(k)
    BY <1>3 DEF CountOf, SlotsOf
  <2>3. TableHist' = TableHist
    BY <2>2 DEF TableHist
  <2>. QED BY <1>3, <2>1, <2>3 DEF H!vars
<1>4. Gather \/ StartCheck \/ EndRound \/ (\E i \in Lane : MoveOn(i)) \/ UNCHANGED vars
        => UNCHANGED <<keys, key_container, key_count_container, key_positions, max_position>>
  BY DEF Gather, StartCheck, EndRound, MoveOn, vars, table, lanes
<1>. QED BY <1>1, <1>2, <1>3, <1>4 DEF Next, Finished

(* Each step of the builder counts one element or none.                    *)
THEOREM Refinement == SafeSpec => RefinesHistogram
BY InitRefines, Invariance, NextRefines, PTL
   DEF SafeSpec, RefinesHistogram, H!SafeSpec

(* After the build probe_count_vectorized returns, for every key, what the *)
(* test's std::unordered_map holds.                                        *)
THEOREM BuildIsCorrect ==
  ASSUME container_size + 1 < Word
  PROVE  SafeSpec => []BuildCorrect
<1>1. SafeSpec => []H!HistogramCorrect
  <2>1. SafeSpec => H!SafeSpec
    BY Refinement DEF RefinesHistogram
  <2>2. H!SafeSpec => []H!HistogramCorrect
    BY H!Complete, CountAssumption DEF H!Countable
  <2>. QED BY <2>1, <2>2, PTL
<1>2. IInv /\ H!HistogramCorrect => BuildCorrect
  <2>. SUFFICES ASSUME IInv, H!HistogramCorrect, loop = "done", NEW k \in Key
                PROVE  probe_count_vectorized(k) = H!Occurrences(k)
    BY DEF BuildCorrect
  <2>1. Uncounted = {}
    <3>1. \A i \in Lane : key_positions[i] >= ElementCount
      BY CountAssumption DEF IInv, ControlInv, HasElement, TypeOK
    <3>2. max_position >= ElementCount /\ max_position \in Nat
      BY DEF IInv, ControlInv, TypeOK
    <3>. QED BY <3>1, <3>2, CountAssumption DEF Uncounted, Position, IInv, TypeOK
  <2>2. TableHist[k] = H!Occurrences(k)
    BY <2>1 DEF H!HistogramCorrect
  <2>3. probe_count_vectorized(k) = CountOf(k)
    BY ReachableLookups DEF IInv, TypeOK, LookupsAgree
  <2>. QED BY <2>2, <2>3 DEF TableHist
<1>. QED BY <1>1, <1>2, Invariance, PTL

(***************************************************************************)
(* The element-wise build.  That no count is lost holds without any        *)
(* assumption, also when the table is too small and keys overwrite each    *)
(* other.  That the counts are right needs a table with room and a builder *)
(* that walks the path the look-ups walk (SamePaths).                      *)
(***************************************************************************)

LEMMA ElemSlotType ==
  ASSUME NEW k \in Key, NEW o \in Nat
  PROVE  ElemSlot(k, o) \in Slot
<1>1. hash_fn[k] + o \in Int
  BY HashAssumption, WordAssumption
<1>2. (hash_fn[k] + o) % Word \in Int
  BY <1>1, WordAssumption, DivMod
<1>3. ((hash_fn[k] + o) % Word) % container_size \in 0 .. container_size - 1
  BY <1>2, SizeAssumption, DivMod, Zenon
<1>. QED BY <1>3 DEF ElemSlot, Slot

LEMMA SlotFinite == IsFiniteSet(Slot) /\ Cardinality(Slot) = container_size
<1>1. IsFiniteSet(0 .. container_size - 1) /\ Cardinality(0 .. container_size - 1) = container_size
  BY SizeAssumption, FS_Interval
<1>. QED BY <1>1 DEF Slot

-----------------------------------------------------------------------------
(* What the two loops return.                                              *)

LEMMA OffsetZeroFound ==
  ASSUME NEW k, \E o \in Offset : AtElem(k, o) = Empty
  PROVE  offset_zero(k) \in Offset /\ IsOffsetZero(k, offset_zero(k))
<1>. DEFINE S == {o \in Offset : AtElem(k, o) = Empty}
<1>1. S \in SUBSET Nat /\ S # {}
  BY SizeAssumption DEF Offset
<1>2. PICK m \in S : \A n \in S : m <= n
  BY <1>1, LeastElement
<1>3. \A q \in 0 .. m - 1 : q \in Offset /\ ~ (m <= q)
  BY <1>2, SizeAssumption DEF Offset
<1>4. m \in Offset /\ IsOffsetZero(k, m)
  BY <1>2, <1>3 DEF IsOffsetZero
<1>. QED BY <1>4 DEF offset_zero

LEMMA OffsetZeroType ==
  ASSUME NEW k
  PROVE  /\ offset_zero(k) \in 0 .. container_size
         /\ offset_zero(k) < container_size =>
              AtElem(k, offset_zero(k)) = Empty
         /\ \A q \in 0 .. offset_zero(k) - 1 : AtElem(k, q) # Empty
<1>1. CASE \E o \in Offset : AtElem(k, o) = Empty
  <2>1. offset_zero(k) \in Offset /\ IsOffsetZero(k, offset_zero(k))
    BY <1>1, OffsetZeroFound
  <2>. QED BY <2>1, SizeAssumption DEF IsOffsetZero, Offset
<1>2. CASE ~ \E o \in Offset : AtElem(k, o) = Empty
  <2>1. offset_zero(k) = container_size
    BY <1>2 DEF offset_zero
  <2>. QED BY <1>2, <2>1, SizeAssumption DEF Offset
<1>. QED BY <1>1, <1>2

LEMMA IdxZeroType ==
  ASSUME NEW k \in Key
  PROVE  idx_zero(k) \in Slot
<1>1. offset_zero(k) \in Nat /\ container_size - 1 \in Nat
  BY OffsetZeroType, SizeAssumption
<1>. QED BY <1>1, ElemSlotType DEF idx_zero

(* The second loop returns a slot on the path that has the key.            *)
LEMMA IdxEqualFound ==
  ASSUME NEW k \in Key, found(k)
  PROVE  \E o \in 0 .. offset_zero(k) - 1 :
           /\ o \in Offset
           /\ idx_equal(k) = ElemSlot(k, o)
           /\ idx_equal(k) \in Slot
           /\ key_container[idx_equal(k)] = k
<1>. DEFINE S == {o \in 0 .. offset_zero(k) - 1 : AtElem(k, o) = k}
            First(o) == /\ AtElem(k, o) = k
                        /\ \A q \in 0 .. o - 1 : AtElem(k, q) # k
            p == CHOOSE o \in 0 .. offset_zero(k) - 1 : First(o)
<1>0. offset_zero(k) \in 0 .. container_size
  BY OffsetZeroType
<1>1. S \in SUBSET Nat /\ S # {}
  BY <1>0, SizeAssumption DEF found
<1>2. PICK m \in S : \A n \in S : m <= n
  BY <1>1, LeastElement
<1>3. \A q \in 0 .. m - 1 : q \in 0 .. offset_zero(k) - 1 /\ ~ (m <= q)
  BY <1>0, <1>2, SizeAssumption
<1>4. First(m)
  BY <1>2, <1>3
<1>5. p \in 0 .. offset_zero(k) - 1 /\ First(p)
  BY <1>4, <1>2
<1>6. idx_equal(k) = ElemSlot(k, p)
  BY DEF idx_equal
<1>. HIDE DEF p
<1>7. p \in Offset /\ p \in Nat
  BY <1>5, <1>0, SizeAssumption DEF Offset
<1>8. idx_equal(k) \in Slot
  BY <1>6, <1>7, ElemSlotType
<1>. QED BY <1>5, <1>6, <1>7, <1>8 DEF AtElem

-----------------------------------------------------------------------------
(* What holds of every table, with room or without.                        *)

(* No more keys were reported as new than elements were inserted: this and *)
(* the types are inductive.                                                *)
TypeInv == ElemTypeOK /\ container_distinct_count <= keys_position

(* A slot is counted once more.                                            *)
LEMMA IncrementFacts ==
  ASSUME TypeInv, keys_position < ElementCount, NEW s \in Slot, Increment(s)
  PROVE  /\ keys' = keys
         /\ keys_position' = keys_position + 1
         /\ keys_position' \in 0 .. ElementCount
         /\ key_count_container' \in [Slot -> Nat]
         /\ key_count_container'[s] = key_count_container[s] + 1
         /\ \A t \in Slot \ {s} : key_count_container'[t] = key_count_container[t]
         /\ total_count' = total_count + 1
<1>1. /\ keys' = keys
      /\ keys_position' = keys_position + 1
      /\ keys_position' \in 0 .. ElementCount
      /\ key_count_container' \in [Slot -> Nat]
      /\ key_count_container'[s] = key_count_container[s] + 1
      /\ \A t \in Slot \ {s} : key_count_container'[t] = key_count_container[t]
  BY CountAssumption DEF Increment, TypeInv, ElemTypeOK, TableTypeOK
<1>2. /\ key_count_container \in [Slot -> Int]
      /\ key_count_container' \in [Slot -> Int]
      /\ key_count_container[s] \in Int
  BY <1>1 DEF TypeInv, ElemTypeOK, TableTypeOK
<1>3. SumFunction(key_count_container') =
        SumFunction(key_count_container) + (key_count_container'[s] - key_count_container[s])
  BY <1>1, <1>2, SlotFinite, SumOfChange
<1>4. SumFunction(key_count_container) \in Int
  BY <1>2, SlotFinite, SumType
<1>5. total_count = SumFunction(key_count_container)
  BY DEF total_count
<1>6. total_count' = SumFunction(key_count_container')
  BY DEF total_count
<1>7. total_count' = total_count + 1
  BY <1>1, <1>2, <1>3, <1>4, <1>5, <1>6
<1>. QED BY <1>1, <1>7

LEMMA NextKey ==
  ASSUME TypeInv, keys_position < ElementCount
  PROVE  keys[keys_position] \in Key /\ keys_position \in Position
BY CountAssumption DEF TypeInv, ElemTypeOK, TableTypeOK, Position

(* An insertion takes one slot, which was empty or another key's.          *)
LEMMA InsertFacts ==
  ASSUME TypeInv, InsertKey
  PROVE  LET k == keys[keys_position]
             s == idx_zero(k)
         IN  /\ keys_position < ElementCount
             /\ k \in Key /\ s \in Slot /\ ~ found(k)
             /\ Increment(s)
             /\ key_container' \in [Slot -> Key \union {Empty}]
             /\ key_container'[s] = k
             /\ \A t \in Slot \ {s} : key_container'[t] = key_container[t]
             /\ container_distinct_count' = container_distinct_count + 1
<1>1. keys[keys_position] \in Key
  BY NextKey DEF InsertKey
<1>2. idx_zero(keys[keys_position]) \in Slot
  BY <1>1, IdxZeroType
<1>. QED BY <1>1, <1>2 DEF InsertKey, TypeInv, ElemTypeOK, TableTypeOK

LEMMA CountFacts ==
  ASSUME TypeInv, CountKey
  PROVE  LET k == keys[keys_position]
             s == idx_equal(k)
         IN  /\ keys_position < ElementCount
             /\ k \in Key /\ s \in Slot /\ key_container[s] = k
             /\ Increment(s)
             /\ key_container' = key_container
             /\ container_distinct_count' = container_distinct_count
<1>1. keys[keys_position] \in Key
  BY NextKey DEF CountKey
<1>2. found(keys[keys_position])
  BY DEF CountKey
<1>3. /\ idx_equal(keys[keys_position]) \in Slot
      /\ key_container[idx_equal(keys[keys_position])] = keys[keys_position]
  BY <1>1, <1>2, IdxEqualFound
<1>. QED BY <1>1, <1>3 DEF CountKey

LEMMA InitTypeInv == ElemInit => TypeInv
BY CountAssumption DEF ElemInit, TableInit, TypeInv, ElemTypeOK, TableTypeOK

LEMMA StepTypeInv == TypeInv /\ [ElemNext]_elemVars => TypeInv'
<1>. SUFFICES ASSUME TypeInv, [ElemNext]_elemVars PROVE TypeInv'
  OBVIOUS
<1>1. CASE CountKey
  <2>. DEFINE s == idx_equal(keys[keys_position])
  <2>1. /\ keys_position < ElementCount /\ s \in Slot /\ Increment(s)
        /\ key_container' = key_container
        /\ container_distinct_count' = container_distinct_count
    BY <1>1, CountFacts
  <2>. HIDE DEF s
  <2>2. /\ keys' = keys /\ keys_position' = keys_position + 1
        /\ keys_position' \in 0 .. ElementCount
        /\ key_count_container' \in [Slot -> Nat]
    BY <2>1, IncrementFacts
  <2>. QED BY <2>1, <2>2, CountAssumption DEF TypeInv, ElemTypeOK, TableTypeOK
<1>2. CASE InsertKey
  <2>. DEFINE s == idx_zero(keys[keys_position])
  <2>1. /\ keys_position < ElementCount /\ s \in Slot /\ Increment(s)
        /\ key_container' \in [Slot -> Key \union {Empty}]
        /\ container_distinct_count' = container_distinct_count + 1
    BY <1>2, InsertFacts
  <2>. HIDE DEF s
  <2>2. /\ keys' = keys /\ keys_position' = keys_position + 1
        /\ keys_position' \in 0 .. ElementCount
        /\ key_count_container' \in [Slot -> Nat]
    BY <2>1, IncrementFacts
  <2>. QED BY <2>1, <2>2, CountAssumption DEF TypeInv, ElemTypeOK, TableTypeOK
<1>3. CASE UNCHANGED elemVars
  BY <1>3 DEF elemVars, TypeInv, ElemTypeOK, TableTypeOK
<1>. QED BY <1>1, <1>2, <1>3 DEF ElemNext

LEMMA InitConserved == ElemInit => CountsConserved
<1>. SUFFICES ASSUME ElemInit PROVE CountsConserved
  OBVIOUS
<1>1. total_count = 0
  BY SumOfZeros, SlotFinite DEF ElemInit, TableInit, total_count
<1>2. key_count = 0
  <2>1. {s \in Slot : key_container[s] # Empty} = {}
    BY DEF ElemInit, TableInit
  <2>. QED BY <2>1, FS_EmptySet DEF key_count
<1>. QED BY <1>1, <1>2 DEF ElemInit, CountsConserved

LEMMA OneMore ==
  ASSUME NEW S, NEW x, IsFiniteSet(S)
  PROVE  IsFiniteSet(S \union {x}) /\ Cardinality(S \union {x}) <= Cardinality(S) + 1
<1>1. Cardinality(S) \in Nat
  BY FS_CardinalityType
<1>2. /\ IsFiniteSet(S \union {x})
      /\ Cardinality(S \union {x}) = IF x \in S THEN Cardinality(S) ELSE Cardinality(S) + 1
  BY FS_AddElement, Zenon
<1>. QED BY <1>1, <1>2

(* Filling or overwriting one slot makes at most one key more.             *)
LEMMA StepConserved == TypeInv /\ CountsConserved /\ [ElemNext]_elemVars => CountsConserved'
<1>. SUFFICES ASSUME TypeInv, CountsConserved, [ElemNext]_elemVars PROVE CountsConserved'
  OBVIOUS
<1>. DEFINE Used == {t \in Slot : key_container[t] # Empty}
<1>0. IsFiniteSet(Used) /\ Cardinality(Used) \in Nat /\ key_count = Cardinality(Used)
  BY SlotFinite, FS_Subset, FS_CardinalityType DEF key_count
<1>1. CASE CountKey
  <2>. DEFINE s == idx_equal(keys[keys_position])
  <2>1. /\ keys_position < ElementCount /\ s \in Slot /\ Increment(s)
        /\ key_container' = key_container
        /\ container_distinct_count' = container_distinct_count
    BY <1>1, CountFacts
  <2>. HIDE DEF s
  <2>2. total_count' = total_count + 1 /\ keys_position' = keys_position + 1
    BY <2>1, IncrementFacts
  <2>3. key_count' = key_count
    BY <2>1 DEF key_count
  <2>. QED BY <2>1, <2>2, <2>3 DEF CountsConserved
<1>2. CASE InsertKey
  <2>. DEFINE s == idx_zero(keys[keys_position])
  <2>1. /\ keys_position < ElementCount /\ s \in Slot /\ Increment(s)
        /\ \A t \in Slot \ {s} : key_container'[t] = key_container[t]
        /\ container_distinct_count' = container_distinct_count + 1
    BY <1>2, InsertFacts
  <2>. HIDE DEF s
  <2>2. total_count' = total_count + 1 /\ keys_position' = keys_position + 1
    BY <2>1, IncrementFacts
  <2>3. key_count' <= key_count + 1
    <3>. DEFINE UsedNow == {t \in Slot : key_container'[t] # Empty}
    <3>1. UsedNow \subseteq Used \union {s}
      BY <2>1
    <3>2. IsFiniteSet(Used \union {s}) /\ Cardinality(Used \union {s}) <= Cardinality(Used) + 1
      BY <1>0, OneMore, Zenon
    <3>3. Cardinality(UsedNow) <= Cardinality(Used \union {s}) /\ Cardinality(UsedNow) \in Nat
      BY <3>1, <3>2, FS_Subset, FS_CardinalityType
    <3>4. key_count' = Cardinality(UsedNow)
      BY DEF key_count
    <3>5. Cardinality(Used \union {s}) \in Nat
      BY <3>2, FS_CardinalityType
    <3>. HIDE DEF Used, UsedNow
    <3>. QED BY <3>2, <3>3, <3>4, <3>5, <1>0
  <2>4. key_count \in Nat /\ key_count' \in Nat
    <3>1. IsFiniteSet({t \in Slot : key_container'[t] # Empty})
      BY SlotFinite, FS_Subset
    <3>. QED BY <3>1, <1>0, FS_CardinalityType DEF key_count
  <2>. QED BY <2>1, <2>2, <2>3, <2>4 DEF CountsConserved, TypeInv, ElemTypeOK
<1>3. CASE UNCHANGED elemVars
  BY <1>3 DEF elemVars, CountsConserved, total_count, key_count
<1>. QED BY <1>1, <1>2, <1>3 DEF ElemNext

(* A look-up leaves the table as it is.                                    *)
LEMMA ProbeNextIsNext == [ProbeNext]_probeVars => [ElemNext]_elemVars
BY DEF ProbeNext, Build, Probe, Returned, probeVars

(* The types hold, whatever the size of the table and the hashes.          *)
THEOREM ElemTypeCorrect == ProbeSpec => []ElemTypeOK
<1>1. TypeInv => ElemTypeOK
  BY DEF TypeInv
<1>. QED BY <1>1, InitTypeInv, StepTypeInv, ProbeNextIsNext, PTL DEF ProbeSpec, ProbeInit

(* No count is lost and no key appears that was not reported as new, in    *)
(* tables of any size: also where keys overwrite each other.               *)
THEOREM Conserved == ProbeSpec => []CountsConserved
BY InitTypeInv, StepTypeInv, InitConserved, StepConserved, ProbeNextIsNext, PTL
   DEF ProbeSpec, ProbeInit

-----------------------------------------------------------------------------
(* A table with room, and a builder on the look-ups' path.                 *)

(* The offset of type T takes the builder along the path of the look-ups.  *)
SamePaths == \A k \in Key, o \in Offset : ElemSlot(k, o) = ProbeSlot(k, o)

(* It does when no hash is so near 2^32 that the sum wraps.                *)
LEMMA FittingHashes ==
  ASSUME \A k \in Key : hash_fn[k] + container_size <= Word
  PROVE  SamePaths
<1>. SUFFICES ASSUME NEW k \in Key, NEW o \in Offset PROVE ElemSlot(k, o) = ProbeSlot(k, o)
  BY DEF SamePaths
<1>1. hash_fn[k] + o \in 0 .. Word - 1
  <2>1. hash_fn[k] + container_size <= Word
    OBVIOUS
  <2>. QED BY <2>1, HashAssumption, WordAssumption, SizeAssumption DEF Offset
<1>2. Word * 0 + (hash_fn[k] + o) = hash_fn[k] + o
  BY <1>1, WordAssumption
<1>3. (Word * 0 + (hash_fn[k] + o)) % Word = hash_fn[k] + o
  BY <1>1, WordAssumption, ModOfSum
<1>. QED BY <1>2, <1>3 DEF ElemSlot, ProbeSlot

(* A path visits every slot.                                               *)
LEMMA PathCoversTable ==
  ASSUME NEW k \in Key, NEW s \in Slot
  PROVE  \E o \in Offset : ProbeSlot(k, o) = s
<1>. DEFINE c == container_size
            q == hash_fn[k] \div c
            r == hash_fn[k] % c
<1>1. hash_fn[k] \in Int /\ c \in Nat \ {0} /\ s \in 0 .. c - 1
  BY HashAssumption, WordAssumption, SizeAssumption DEF Slot
<1>2. hash_fn[k] = c * q + r /\ r \in 0 .. c - 1 /\ q \in Int
  BY <1>1, DivMod
<1>. HIDE DEF q, r, c
<1>3. CASE s >= r
  <2>1. hash_fn[k] + (s - r) = c * q + s
    <3>1. c * q \in Int
      BY <1>1, <1>2
    <3>. QED BY <3>1, <1>1, <1>2
  <2>2. (hash_fn[k] + (s - r)) % c = s
    BY <2>1, <1>1, <1>2, ModOfSum
  <2>3. s - r \in Offset
    BY <1>1, <1>2, <1>3 DEF Offset, c
  <2>. QED BY <2>2, <2>3 DEF ProbeSlot, c
<1>4. CASE s < r
  <2>1. hash_fn[k] + (s - r + c) = c * (q + 1) + s
    <3>1. c * q \in Int /\ c * (q + 1) = c * q + c
      BY <1>1, <1>2
    <3>. QED BY <3>1, <1>1, <1>2
  <2>2. (hash_fn[k] + (s - r + c)) % c = s
    BY <2>1, <1>1, <1>2, ModOfSum
  <2>3. s - r + c \in Offset
    BY <1>1, <1>2, <1>4 DEF Offset, c
  <2>. QED BY <2>2, <2>3 DEF ProbeSlot, c
<1>. QED BY <1>1, <1>2, <1>3, <1>4

(* The keys stored are keys inserted, and each of them has been counted.   *)
StoredKeysInserted ==
  \A s \in Slot : key_container[s] # Empty =>
    /\ key_count_container[s] > 0
    /\ \E p \in 0 .. keys_position - 1 : keys[p] = key_container[s]

TableInv ==
  /\ CountsHaveKeys
  /\ KeysReachable
  /\ StoredKeysInserted
  /\ container_distinct_count = key_count

(* The inductive invariant of a build in a table with room.                *)
ElemInv == TypeInv /\ (Room => TableInv)

(* The pigeonhole argument: with a full table all of whose keys are others *)
(* than k there would be more keys in the column than slots.               *)
LEMMA RoomForNewKey ==
  ASSUME SamePaths, TypeInv, TableInv, Room, keys_position < ElementCount,
         NEW k, k = keys[keys_position], ~ found(k)
  PROVE  offset_zero(k) \in Offset
<1>. SUFFICES ASSUME offset_zero(k) \notin Offset PROVE FALSE
  OBVIOUS
<1>. DEFINE Column == {keys[p] : p \in DOMAIN keys}
<1>1. k \in Key /\ k \in Column
  BY NextKey DEF TypeInv, ElemTypeOK, TableTypeOK
<1>2. offset_zero(k) = container_size
  BY OffsetZeroType, SizeAssumption DEF Offset
<1>3. \A o \in Offset : AtElem(k, o) # k /\ AtElem(k, o) # Empty
  BY <1>2, OffsetZeroType DEF found, Offset
<1>4. \A s \in Slot : key_container[s] # k /\ key_container[s] # Empty
  <2>. SUFFICES ASSUME NEW s \in Slot PROVE key_container[s] # k /\ key_container[s] # Empty
    OBVIOUS
  <2>1. PICK o \in Offset : ProbeSlot(k, o) = s
    BY <1>1, PathCoversTable
  <2>. QED BY <2>1, <1>1, <1>3 DEF SamePaths, AtElem
<1>5. IsFiniteSet(Column)
  <2>1. IsFiniteSet(Position)
    BY FS_Interval, CountAssumption DEF Position
  <2>2. keys \in [Position -> Key] /\ Column = {keys[p] : p \in Position}
    BY DEF TypeInv, ElemTypeOK, TableTypeOK
  <2>3. IsFiniteSet({keys[p] : p \in Position})
    <3>. DEFINE C == {keys[p] : p \in Position}
    <3>1. keys \in Surjection(Position, C)
      <4>1. keys \in [Position -> C]
        BY <2>2
      <4>2. \A c \in C : \E p \in Position : keys[p] = c
        OBVIOUS
      <4>. QED BY <4>1, <4>2 DEF Surjection
    <3>. QED BY <2>1, <3>1, FS_Surjection
  <2>. QED BY <2>2, <2>3
<1>6. \A s \in Slot : key_container[s] \in Column \ {k}
  <2>. SUFFICES ASSUME NEW s \in Slot PROVE key_container[s] \in Column
    BY <1>4
  <2>1. PICK p \in 0 .. keys_position - 1 : keys[p] = key_container[s]
    BY <1>4 DEF TableInv, StoredKeysInserted
  <2>2. p \in Position /\ DOMAIN keys = Position
    BY CountAssumption DEF Position, TypeInv, ElemTypeOK, TableTypeOK
  <2>. QED BY <2>1, <2>2
<1>7. key_container \in Injection(Slot, Column \ {k})
  <2>1. NoDuplicateKeys
    BY ReachableUnique DEF TableInv
  <2>2. key_container \in [Slot -> Column \ {k}]
    BY <1>6 DEF TypeInv, ElemTypeOK, TableTypeOK
  <2>3. IsInjective(key_container)
    BY <2>1, <2>2, <1>4 DEF NoDuplicateKeys, IsInjective
  <2>. QED BY <2>2, <2>3 DEF Injection
<1>8. Cardinality(Slot) <= Cardinality(Column \ {k})
  <2>1. IsFiniteSet(Column \ {k})
    BY <1>5, FS_RemoveElement
  <2>. HIDE DEF Column
  <2>. QED BY <2>1, <1>7, FS_Injection
<1>9. /\ Cardinality(Column \ {k}) = Cardinality(Column) - 1
      /\ Cardinality(Column) \in Nat
  BY <1>1, <1>5, FS_RemoveElement, FS_CardinalityType
<1>. QED BY <1>8, <1>9, SlotFinite, SizeAssumption DEF Room

(* So a new key gets an empty slot of its path, behind counted ones.       *)
LEMMA NewKeySlot ==
  ASSUME SamePaths, TypeInv, TableInv, Room, keys_position < ElementCount,
         NEW k, k = keys[keys_position], ~ found(k)
  PROVE  /\ key_container[idx_zero(k)] = Empty
         /\ key_count_container[idx_zero(k)] = 0
         /\ \E o \in Offset :
              /\ idx_zero(k) = ProbeSlot(k, o)
              /\ \A q \in 0 .. o - 1 : Counted(ProbeSlot(k, q), k)
<1>. DEFINE o == offset_zero(k)
<1>1. k \in Key
  BY NextKey
<1>2. o \in Offset
  BY RoomForNewKey
<1>3. /\ AtElem(k, o) = Empty
      /\ \A q \in 0 .. o - 1 : q \in Offset /\ AtElem(k, q) # Empty /\ AtElem(k, q) # k
  BY <1>2, OffsetZeroType, SizeAssumption DEF Offset, found
<1>4. idx_zero(k) = ElemSlot(k, o)
  BY <1>2, SizeAssumption DEF idx_zero, Offset
<1>. HIDE DEF o
<1>5. idx_zero(k) = ProbeSlot(k, o) /\ key_container[idx_zero(k)] = Empty
  BY <1>1, <1>2, <1>3, <1>4 DEF SamePaths, AtElem
<1>6. \A q \in 0 .. o - 1 : Counted(ProbeSlot(k, q), k)
  <2>. SUFFICES ASSUME NEW q \in 0 .. o - 1 PROVE Counted(ProbeSlot(k, q), k)
    OBVIOUS
  <2>1. /\ q \in Offset /\ ElemSlot(k, q) = ProbeSlot(k, q)
        /\ key_container[ProbeSlot(k, q)] \notin {k, Empty}
    BY <1>1, <1>3 DEF SamePaths, AtElem
  <2>2. ProbeSlot(k, q) \in Slot
    BY <1>1, <2>1, ProbeSlotType, SizeAssumption DEF Offset
  <2>. QED BY <2>1, <2>2 DEF Counted, TableInv, StoredKeysInserted
<1>7. key_count_container[idx_zero(k)] = 0
  BY <1>1, <1>5, IdxZeroType DEF TableInv, CountsHaveKeys, TypeInv, ElemTypeOK, TableTypeOK
<1>. QED BY <1>2, <1>5, <1>6, <1>7

(* A step counts one slot for the next key, which has the slot already or  *)
(* gets it while it is empty.                                              *)
Counts(s, k) ==
  /\ k = keys[keys_position] /\ k \in Key /\ keys_position < ElementCount
  /\ s \in Slot
  /\ \/ /\ key_container[s] = k /\ key_container' = key_container
        /\ container_distinct_count' = container_distinct_count
     \/ /\ key_container[s] = Empty /\ key_count_container[s] = 0
        /\ \E o \in Offset :
             /\ s = ProbeSlot(k, o)
             /\ \A q \in 0 .. o - 1 : Counted(ProbeSlot(k, q), k)
        /\ container_distinct_count' = container_distinct_count + 1
  /\ key_container'[s] = k
  /\ \A t \in Slot \ {s} : /\ key_container'[t] = key_container[t]
                           /\ key_count_container'[t] = key_count_container[t]
  /\ key_count_container'[s] = key_count_container[s] + 1
  /\ keys' = keys /\ keys_position' = keys_position + 1

LEMMA StepCounts ==
  ASSUME SamePaths, TypeInv, TableInv, Room, ElemNext
  PROVE  \E s, k : Counts(s, k)
<1>. DEFINE k == keys[keys_position]
<1>1. CASE CountKey
  <2>. DEFINE s == idx_equal(k)
  <2>1. /\ keys_position < ElementCount
        /\ k \in Key /\ s \in Slot /\ key_container[s] = k
        /\ Increment(s)
        /\ key_container' = key_container
        /\ container_distinct_count' = container_distinct_count
    BY <1>1, CountFacts
  <2>. HIDE DEF s, k
  <2>2. /\ keys' = keys /\ keys_position' = keys_position + 1
        /\ key_count_container'[s] = key_count_container[s] + 1
        /\ \A t \in Slot \ {s} : key_count_container'[t] = key_count_container[t]
    BY <2>1, IncrementFacts
  <2>3. Counts(s, k)
    BY <2>1, <2>2 DEF Counts, k
  <2>. QED BY <2>3
<1>2. CASE InsertKey
  <2>. DEFINE s == idx_zero(k)
  <2>1. /\ keys_position < ElementCount
        /\ k \in Key /\ s \in Slot /\ ~ found(k)
        /\ Increment(s)
        /\ key_container'[s] = k
        /\ \A t \in Slot \ {s} : key_container'[t] = key_container[t]
        /\ container_distinct_count' = container_distinct_count + 1
    BY <1>2, InsertFacts
  <2>2. /\ key_container[s] = Empty /\ key_count_container[s] = 0
        /\ \E o \in Offset :
             /\ s = ProbeSlot(k, o)
             /\ \A q \in 0 .. o - 1 : Counted(ProbeSlot(k, q), k)
    BY <2>1, NewKeySlot
  <2>. HIDE DEF s, k
  <2>3. /\ keys' = keys /\ keys_position' = keys_position + 1
        /\ key_count_container'[s] = key_count_container[s] + 1
        /\ \A t \in Slot \ {s} : key_count_container'[t] = key_count_container[t]
    BY <2>1, IncrementFacts
  <2>4. Counts(s, k)
    BY <2>1, <2>2, <2>3 DEF Counts, k
  <2>. QED BY <2>4
<1>. QED BY <1>1, <1>2 DEF ElemNext

LEMMA CountsKeepTable ==
  ASSUME TypeInv, TypeInv', TableInv, NEW s, NEW k, Counts(s, k)
  PROVE  TableInv'
<1>. USE DEF TableInv
<1>1. /\ k = keys[keys_position] /\ k \in Key /\ k # Empty
      /\ s \in Slot /\ key_container'[s] = k
      /\ \A t \in Slot \ {s} : /\ key_container'[t] = key_container[t]
                               /\ key_count_container'[t] = key_count_container[t]
      /\ key_count_container'[s] = key_count_container[s] + 1
      /\ keys' = keys /\ keys_position' = keys_position + 1
      /\ key_container[s] \in {k, Empty}
  BY KeyAssumption DEF Counts
<1>2. /\ \A t \in Slot : key_count_container[t] \in Nat
      /\ key_count_container'[s] > 0
      /\ keys_position \in Nat
  BY <1>1, CountAssumption DEF TypeInv, ElemTypeOK, TableTypeOK
<1>3. CountsHaveKeys'
  BY <1>1 DEF CountsHaveKeys
<1>4. StoredKeysInserted'
  <2>. SUFFICES ASSUME NEW t \in Slot, key_container'[t] # Empty
                PROVE  /\ key_count_container'[t] > 0
                       /\ \E p \in 0 .. keys_position' - 1 : keys'[p] = key_container'[t]
    BY DEF StoredKeysInserted
  <2>1. CASE t = s
    <3>1. keys_position \in 0 .. keys_position' - 1
      BY <1>1, <1>2
    <3>. QED BY <3>1, <2>1, <1>1, <1>2
  <2>2. CASE t # s
    <3>1. /\ key_count_container[t] > 0
          /\ \E p \in 0 .. keys_position - 1 : keys[p] = key_container[t]
      BY <2>2, <1>1 DEF StoredKeysInserted
    <3>2. \A p \in 0 .. keys_position - 1 : p \in 0 .. keys_position' - 1
      BY <1>1, <1>2
    <3>. QED BY <3>1, <3>2, <2>2, <1>1
  <2>. QED BY <2>1, <2>2
<1>5. \A t \in Slot : \A m \in Key : Counted(t, m) => Counted(t, m)'
  BY <1>1, <1>2 DEF Counted, CountsHaveKeys
<1>6. KeysReachable'
  <2>. SUFFICES ASSUME NEW t \in Slot, NEW m, m = key_container'[t], m # Empty
                PROVE  \E o \in Offset :
                         /\ t = ProbeSlot(m, o)
                         /\ \A q \in 0 .. o - 1 : Counted(ProbeSlot(m, q), m)'
    BY DEF KeysReachable, Counted, ProbeSlot
  <2>1. m \in Key
    BY DEF TypeInv, ElemTypeOK, TableTypeOK
  <2>2. \E o \in Offset : /\ t = ProbeSlot(m, o)
                          /\ \A q \in 0 .. o - 1 : Counted(ProbeSlot(m, q), m)
    <3>1. CASE t # s
      BY <3>1, <1>1 DEF KeysReachable
    <3>2. CASE t = s /\ key_container[s] = k
      BY <3>2, <1>1 DEF KeysReachable
    <3>3. CASE t = s /\ key_container[s] # k
      BY <3>3, <1>1 DEF Counts
    <3>. QED BY <3>1, <3>2, <3>3
  <2>3. PICK o \in Offset : /\ t = ProbeSlot(m, o)
                            /\ \A q \in 0 .. o - 1 : Counted(ProbeSlot(m, q), m)
    BY <2>2
  <2>4. \A q \in 0 .. o - 1 : ProbeSlot(m, q) \in Slot
    BY <2>1, ProbeSlotType, SizeAssumption DEF Offset
  <2>. QED BY <2>1, <2>3, <2>4, <1>5
<1>7. container_distinct_count' = key_count'
  <2>. DEFINE Used == {t \in Slot : key_container[t] # Empty}
              UsedNow == {t \in Slot : key_container'[t] # Empty}
  <2>1. key_count = Cardinality(Used) /\ key_count' = Cardinality(UsedNow)
    BY DEF key_count
  <2>2. CASE key_container[s] = k
    <3>1. UsedNow = Used /\ container_distinct_count' = container_distinct_count
      BY <2>2, <1>1 DEF Counts
    <3>. QED BY <3>1, <2>1
  <2>3. CASE key_container[s] # k
    <3>1. /\ UsedNow = Used \union {s} /\ s \notin Used
          /\ container_distinct_count' = container_distinct_count + 1
      BY <2>3, <1>1 DEF Counts
    <3>2. IsFiniteSet(Used)
      BY SlotFinite, FS_Subset
    <3>. HIDE DEF Used, UsedNow
    <3>3. Cardinality(UsedNow) = Cardinality(Used) + 1
      BY <3>1, <3>2, FS_AddElement
    <3>. QED BY <3>1, <3>3, <2>1
  <2>. QED BY <2>2, <2>3
<1>. QED BY <1>3, <1>4, <1>6, <1>7

LEMMA ElemInitInv == ElemInit => ElemInv
<1>. SUFFICES ASSUME ElemInit PROVE ElemInv
  OBVIOUS
<1>1. key_count = 0
  <2>1. {s \in Slot : key_container[s] # Empty} = {}
    BY DEF ElemInit, TableInit
  <2>. QED BY <2>1, FS_EmptySet DEF key_count
<1>2. TableInv
  BY <1>1 DEF ElemInit, TableInit, TableInv, CountsHaveKeys, KeysReachable, StoredKeysInserted
<1>. QED BY <1>2, InitTypeInv DEF ElemInv

LEMMA StepIInv == ASSUME SamePaths PROVE ElemInv /\ [ElemNext]_elemVars => ElemInv'
<1>. SUFFICES ASSUME ElemInv, [ElemNext]_elemVars PROVE ElemInv'
  OBVIOUS
<1>1. TypeInv /\ TypeInv'
  BY StepTypeInv DEF ElemInv
<1>2. Room' <=> Room
  <2>1. keys' = keys
    BY DEF ElemNext, CountKey, InsertKey, Increment, elemVars
  <2>. QED BY <2>1 DEF Room
<1>3. ASSUME Room, ElemNext PROVE TableInv'
  <2>1. PICK s, k : Counts(s, k)
    BY <1>1, <1>3, StepCounts DEF ElemInv
  <2>. QED BY <2>1, <1>1, <1>3, CountsKeepTable DEF ElemInv
<1>4. ASSUME Room, UNCHANGED elemVars PROVE TableInv'
  BY <1>4 DEF ElemInv, TableInv, elemVars, CountsHaveKeys, KeysReachable, Counted, ProbeSlot,
              StoredKeysInserted, key_count
<1>. QED BY <1>1, <1>2, <1>3, <1>4 DEF ElemInv

(* The invariant of builds in a table with room.                           *)
THEOREM ElemInvariance == ASSUME SamePaths PROVE ProbeSpec => []ElemInv
BY ElemInitInv, StepIInv, ProbeNextIsNext, PTL DEF ProbeSpec, ProbeInit

-----------------------------------------------------------------------------
(* The build implements the abstract histogram.                            *)

LEMMA ElemInitRefines == ElemInit => EH!Init
<1>. SUFFICES ASSUME ElemInit PROVE EH!Init
  OBVIOUS
<1>1. \A k \in Key : SlotsOf(k) = {}
  BY KeyAssumption DEF ElemInit, TableInit, SlotsOf
<1>2. TableHist = [k \in Key |-> 0]
  BY <1>1 DEF TableHist, CountOf
<1>. QED BY <1>2 DEF ElemInit, TableInit, Position, EH!Init, EH!Position

LEMMA CountsRefines ==
  ASSUME TypeInv, TypeInv', TableInv, NEW s, NEW k, Counts(s, k)
  PROVE  EH!Count(keys_position)
<1>1. NoDuplicateKeys
  BY ReachableUnique DEF TableInv
<1>2. NoDuplicateKeys'
  <2>1. KeysReachable'
    BY CountsKeepTable DEF TableInv
  <2>2. (KeysReachable => NoDuplicateKeys)'
    BY ReachableUnique, PTL
  <2>. QED BY <2>1, <2>2
<1>3. /\ k = keys[keys_position] /\ k \in Key /\ k # Empty
      /\ s \in Slot /\ key_container'[s] = k
      /\ \A t \in Slot \ {s} : /\ key_container'[t] = key_container[t]
                               /\ key_count_container'[t] = key_count_container[t]
      /\ key_count_container'[s] = key_count_container[s] + 1
      /\ \/ key_container[s] = k
         \/ key_container[s] = Empty /\ key_count_container[s] = 0
  <2>1. k # Empty
    BY KeyAssumption DEF Counts
  <2>2. \/ key_container[s] = k
        \/ key_container[s] = Empty /\ key_count_container[s] = 0
    BY Zenon DEF Counts
  <2>. QED BY <2>1, <2>2 DEF Counts
<1>4. SlotsOf(k)' = {s}
  BY <1>2, <1>3 DEF NoDuplicateKeys, SlotsOf
<1>5. CountOf(k)' = CountOf(k) + 1
  <2>1. CountOf(k)' = key_count_container'[s]
    BY <1>4 DEF CountOf
  <2>2. CASE key_container[s] = k
    <3>1. CountOf(k) = key_count_container[s]
      BY <2>2, <1>1, <1>3, CountOfStored
    <3>. QED BY <3>1, <2>1, <1>3
  <2>3. CASE key_container[s] = Empty /\ key_count_container[s] = 0
    <3>1. SlotsOf(k) = {}
      BY <2>3, <1>3, <1>4 DEF SlotsOf
    <3>2. CountOf(k) = 0
      BY <3>1 DEF CountOf
    <3>. QED BY <3>2, <2>1, <2>3, <1>3
  <2>. QED BY <2>2, <2>3, <1>3
<1>6. ASSUME NEW m \in Key, m # k PROVE CountOf(m)' = CountOf(m)
  <2>1. m # Empty
    BY KeyAssumption
  <2>2. SlotsOf(m)' = SlotsOf(m) /\ s \notin SlotsOf(m)
    BY <2>1, <1>3, <1>6 DEF SlotsOf
  <2>3. CASE SlotsOf(m) = {}
    BY <2>2, <2>3 DEF CountOf
  <2>4. CASE SlotsOf(m) # {}
    <3>1. PICK t \in Slot : t \in SlotsOf(m) /\ key_container[t] = m
      BY <2>4 DEF SlotsOf
    <3>2. SlotsOf(m) = {t}
      BY <3>1, <2>1, <1>1, CountOfStored
    <3>3. key_count_container'[t] = key_count_container[t]
      BY <3>1, <2>2, <1>3
    <3>. QED BY <3>2, <3>3, <2>2 DEF CountOf
  <2>. QED BY <2>3, <2>4
<1>7. TableHist' = [TableHist EXCEPT ![keys[keys_position]] = @ + 1]
  BY <1>3, <1>5, <1>6 DEF TableHist
<1>8. /\ keys_position \in keys_position .. ElementCount - 1
      /\ keys_position' .. ElementCount - 1 =
           (keys_position .. ElementCount - 1) \ {keys_position}
      /\ keys' = keys
  BY CountAssumption DEF Counts, TypeInv, ElemTypeOK
<1>. QED BY <1>7, <1>8 DEF EH!Count

LEMMA StepRefines ==
  ASSUME SamePaths
  PROVE  ElemInv /\ [ElemNext]_elemVars => (Room => [EH!Next]_(EH!vars))
<1>. SUFFICES ASSUME ElemInv, [ElemNext]_elemVars, Room PROVE EH!Next \/ UNCHANGED EH!vars
  OBVIOUS
<1>1. CASE ElemNext
  <2>1. PICK s, k : Counts(s, k)
    BY <1>1, StepCounts DEF ElemInv
  <2>2. EH!Count(keys_position)
    BY <2>1, CountsRefines, StepTypeInv DEF ElemInv
  <2>3. keys_position \in EH!Position
    BY <2>1, CountAssumption DEF Counts, ElemInv, TypeInv, ElemTypeOK, EH!Position
  <2>. QED BY <2>2, <2>3 DEF EH!Next
<1>2. CASE UNCHANGED elemVars
  <2>1. ASSUME NEW k \in Key PROVE CountOf(k)' = CountOf(k)
    BY <1>2 DEF elemVars, CountOf, SlotsOf
  <2>2. TableHist' = TableHist
    BY <2>1 DEF TableHist
  <2>. QED BY <1>2, <2>2 DEF elemVars, EH!vars
<1>. QED BY <1>1, <1>2

(* In a table with room each step counts one element under its own key.    *)
THEOREM ElemRefinement == ASSUME SamePaths PROVE ProbeSpec => ElemRefinesHistogram
<1>1. ElemInv /\ [ProbeNext]_probeVars => [Room => [EH!Next]_(EH!vars)]_elemVars
  BY StepRefines, ProbeNextIsNext
<1>. QED BY <1>1, ElemInitRefines, ElemInvariance, PTL
         DEF ProbeSpec, ProbeInit, ElemRefinesHistogram

(* At every moment the counts and the elements to come make up the column. *)
Accounts == Room => EH!TypeOK /\ EH!CountsAccountForInput

LEMMA InitAccounts == ElemInit => Accounts
BY ElemInitRefines, EH!TypeInit, EH!AccountInit, CountAssumption DEF Accounts, EH!Countable

LEMMA StepAccounts ==
  ASSUME SamePaths
  PROVE  ElemInv /\ Accounts /\ [ElemNext]_elemVars => Accounts'
<1>. SUFFICES ASSUME ElemInv, Accounts, [ElemNext]_elemVars PROVE Accounts'
  OBVIOUS
<1>1. Room' <=> Room
  <2>1. keys' = keys
    BY DEF ElemNext, CountKey, InsertKey, Increment, elemVars
  <2>. QED BY <2>1 DEF Room
<1>2. ASSUME Room PROVE [EH!Next]_(EH!vars)
  BY <1>2, StepRefines
<1>. QED BY <1>1, <1>2, EH!TypeStep, EH!AccountStep, CountAssumption DEF Accounts, EH!Countable

LEMMA BuiltCounts ==
  ASSUME ElemInv, Accounts, Room, Built, NEW k \in Key
  PROVE  CountOf(k) = EH!Occurrences(k)
<1>1. keys_position .. ElementCount - 1 = {}
  BY CountAssumption DEF Built
<1>2. EH!HistogramCorrect
  BY EH!AccountComplete, CountAssumption DEF Accounts
<1>3. TableHist[k] = EH!Occurrences(k)
  BY <1>1, <1>2 DEF EH!HistogramCorrect
<1>. QED BY <1>3 DEF TableHist

(* In a table with room both look-ups return the number of a key's         *)
(* occurrences after the build, they agree during it, and the keys         *)
(* reported as new are those in the table.                                 *)
THEOREM ElemBuildIsCorrect ==
  ASSUME SamePaths, container_size + 1 < Word
  PROVE  ProbeSpec => []ElemBuildCorrect
<1>1. ElemInv /\ Accounts => ElemBuildCorrect
  <2>. SUFFICES ASSUME ElemInv, Accounts, Room
                PROVE  /\ LookupsAgree
                       /\ container_distinct_count = key_count
                       /\ keys_position = ElementCount =>
                            \A k \in Key : probe_count_vectorized(k) = EH!Occurrences(k)
    BY DEF ElemBuildCorrect
  <2>1. LookupsAgree
    BY ReachableLookups DEF ElemInv, TypeInv, ElemTypeOK, TableInv
  <2>2. container_distinct_count = key_count
    BY DEF ElemInv, TableInv
  <2>. QED BY <2>1, <2>2, BuiltCounts DEF Built, LookupsAgree
<1>. QED BY <1>1, ElemInitInv, StepIInv, InitAccounts, StepAccounts, ProbeNextIsNext, PTL
         DEF ProbeSpec, ProbeInit

-----------------------------------------------------------------------------
(* Looking an array of keys up.                                            *)

LEMMA HitsFinite ==
  ASSUME NEW n \in Nat
  PROVE  /\ IsFiniteSet(HitsAmong(n)) /\ Cardinality(HitsAmong(n)) \in Nat
         /\ HitsAmong(n) \subseteq 1 .. n
<1>1. IsFiniteSet(1 .. n) /\ HitsAmong(n) \subseteq 1 .. n
  BY FS_Interval DEF HitsAmong
<1>. QED BY <1>1, FS_Subset, FS_CardinalityType

(* Each hit takes two elements of its own.                                 *)
LEMMA ResultsApart ==
  ASSUME NEW n \in Nat, NEW m \in HitsAmong(n)
  PROVE  /\ ResultOf(m) \in Nat
         /\ ResultOf(m) < 2 * Cardinality(HitsAmong(n))
<1>. DEFINE Before == HitsAmong(m - 1)
            Hits == HitsAmong(n)
<1>1. m \in 1 .. n /\ m - 1 \in Nat
  BY HitsFinite
<1>2. IsFiniteSet(Before) /\ Cardinality(Before) \in Nat
  BY <1>1, HitsFinite
<1>3. IsFiniteSet(Hits) /\ Cardinality(Hits) \in Nat
  BY HitsFinite
<1>4. Before \union {m} \subseteq Hits /\ m \notin Before
  BY <1>1 DEF HitsAmong
<1>5. ResultOf(m) = 2 * Cardinality(Before)
  BY DEF ResultOf
<1>. HIDE DEF Before, Hits
<1>6. Cardinality(Before \union {m}) = Cardinality(Before) + 1
  BY <1>2, <1>4, FS_AddElement
<1>7. Cardinality(Before \union {m}) <= Cardinality(Hits)
  BY <1>3, <1>4, FS_Subset
<1>. QED BY <1>2, <1>3, <1>5, <1>6, <1>7 DEF Hits

(* Keys are looked up when the build is over, one after the other.         *)
LookupInv ==
  /\ probe_keys \in Seq(Key)
  /\ probe_key_position \in 0 .. Len(probe_keys)
  /\ probe_key_position > 0 => Built
  /\ DOMAIN probe_result_count = DOMAIN probe_result

ResultInv == LookupInv /\ ResultsInOrder

LEMMA InitResultInv == ProbeInit => ResultInv
<1>. SUFFICES ASSUME ProbeInit PROVE ResultInv
  OBVIOUS
<1>1. HitsAmong(0) = {}
  BY DEF HitsAmong
<1>2. Cardinality(HitsAmong(0)) = 0
  BY <1>1, FS_EmptySet
<1>3. DOMAIN probe_result = {} /\ probe_result_count = probe_result
  BY DEF ProbeInit
<1>4. LookupInv
  BY <1>3, ProbeAssumption DEF ProbeInit, LookupInv
<1>5. probe_key_position = 0 /\ result_position = 0
  BY DEF ProbeInit
<1>6. ResultsInOrder
  BY <1>1, <1>2, <1>3, <1>5 DEF ResultsInOrder
<1>. QED BY <1>4, <1>6 DEF ResultInv

(* Nothing the results depend on changes while the table is built.         *)
LEMMA BuildResultInv ==
  ASSUME ElemInv, ResultInv, [ElemNext]_elemVars, UNCHANGED <<probe_keys, results>>
  PROVE  ResultInv'
<1>1. keys' = keys
  BY DEF ElemNext, CountKey, InsertKey, Increment, elemVars
<1>2. \A k : EH!Occurrences(k)' = EH!Occurrences(k)
  BY <1>1 DEF EH!Occurrences, EH!PositionsOf, EH!Position
<1>3. /\ \A n : HitsAmong(n)' = HitsAmong(n)
      /\ \A m : ResultOf(m)' = ResultOf(m)
      /\ Room' <=> Room
  BY <1>1, <1>2 DEF HitsAmong, ResultOf, Room
<1>4. ResultsInOrder'
  BY <1>2, <1>3 DEF ResultInv, ResultsInOrder, results
<1>5. LookupInv'
  <2>1. Built => keys_position' = keys_position
    BY CountAssumption DEF Built, ElemNext, CountKey, InsertKey, elemVars
  <2>. QED BY <2>1 DEF ResultInv, LookupInv, results, Built
<1>. QED BY <1>4, <1>5 DEF ResultInv

(* A key that is found is a hit, its count the number of its occurrences.  *)
LEMMA HitFound ==
  ASSUME ElemInv, Accounts, Room, Built, NEW k \in Key, NEW o \in Offset, FirstStop(k, o, {k})
  PROVE  /\ key_count_container[ProbeSlot(k, o)] = EH!Occurrences(k)
         /\ EH!Occurrences(k) > 0
<1>. DEFINE s == ProbeSlot(k, o)
<1>1. s \in Slot /\ key_container[s] = k /\ k # Empty
  BY ProbeSlotType, SizeAssumption, KeyAssumption DEF Offset, FirstStop
<1>. HIDE DEF s
<1>2. CountOf(k) = key_count_container[s]
  BY <1>1, ReachableUnique, CountOfStored DEF ElemInv, TableInv
<1>3. key_count_container[s] > 0
  BY <1>1 DEF ElemInv, TableInv, StoredKeysInserted
<1>. QED BY <1>2, <1>3, BuiltCounts DEF s

LEMMA MissAbsent ==
  ASSUME ElemInv, Accounts, Room, Built, NEW k \in Key,
         \A o \in Offset : key_container[ProbeSlot(k, o)] # k
  PROVE  EH!Occurrences(k) = 0
<1>1. SlotsOf(k) = {}
  BY PathCoversTable DEF SlotsOf
<1>2. CountOf(k) = 0
  BY <1>1 DEF CountOf
<1>. QED BY <1>2, BuiltCounts

LEMMA ProbeResultInv ==
  ASSUME ElemInv, Accounts, ResultInv, Probe
  PROVE  ResultInv'
<1>. DEFINE n == probe_key_position + 1
            Hits == HitsAmong(probe_key_position)
<1>1. /\ Built /\ probe_key_position \in Nat /\ n \in 1 .. Len(probe_keys)
      /\ probe_keys \in Seq(Key) /\ key = probe_keys[n] /\ key \in Key
      /\ probe_key_position' = n
      /\ probe_keys' = probe_keys /\ keys' = keys /\ keys_position' = keys_position
  BY DEF ResultInv, LookupInv, Probe, elemVars, key
<1>2. LookupInv'
  <2>1. DOMAIN probe_result_count' = DOMAIN probe_result'
    BY DEF ResultInv, LookupInv, Probe, ProbeHit, ProbeMiss, Store
  <2>. QED BY <1>1, <2>1 DEF LookupInv, Built
<1>3. /\ \A k : EH!Occurrences(k)' = EH!Occurrences(k)
      /\ Room' <=> Room
  BY <1>1 DEF EH!Occurrences, EH!PositionsOf, EH!Position, Room
<1>4. /\ \A i : HitsAmong(i)' = HitsAmong(i)
      /\ \A m : ResultOf(m)' = ResultOf(m)
  BY <1>1, <1>3 DEF HitsAmong, ResultOf
<1>5. HitsAmong(n) = IF EH!Occurrences(key) > 0 THEN Hits \union {n} ELSE Hits
  BY <1>1 DEF HitsAmong
<1>. SUFFICES ASSUME Room
              PROVE  /\ result_position' = 2 * Cardinality(HitsAmong(n))
                     /\ DOMAIN probe_result' = {ResultOf(m) : m \in HitsAmong(n)}
                     /\ \A m \in HitsAmong(n) :
                          /\ probe_result'[ResultOf(m)] = probe_keys[m]
                          /\ probe_result_count'[ResultOf(m)] = EH!Occurrences(probe_keys[m])
  BY <1>1, <1>2, <1>3, <1>4 DEF ResultInv, ResultsInOrder
<1>6. /\ result_position = 2 * Cardinality(Hits)
      /\ DOMAIN probe_result = {ResultOf(m) : m \in Hits}
      /\ \A m \in Hits :
           /\ probe_result[ResultOf(m)] = probe_keys[m]
           /\ probe_result_count[ResultOf(m)] = EH!Occurrences(probe_keys[m])
  BY DEF ResultInv, ResultsInOrder
<1>7. IsFiniteSet(Hits) /\ Cardinality(Hits) \in Nat /\ n \notin Hits
  BY <1>1, HitsFinite
<1>8. \A m \in Hits : ResultOf(m) < result_position /\ ResultOf(m) \in Nat
  BY <1>1, <1>6, ResultsApart
<1>9. ResultOf(n) = result_position
  BY <1>1, <1>6 DEF ResultOf
<1>. HIDE DEF n, Hits
<1>10. ASSUME NEW o \in Offset, ProbeHit(o)
       PROVE  /\ result_position' = 2 * Cardinality(HitsAmong(n))
              /\ DOMAIN probe_result' = {ResultOf(m) : m \in HitsAmong(n)}
              /\ \A m \in HitsAmong(n) :
                   /\ probe_result'[ResultOf(m)] = probe_keys[m]
                   /\ probe_result_count'[ResultOf(m)] = EH!Occurrences(probe_keys[m])
  <2>1. /\ key_count_container[ProbeSlot(key, o)] = EH!Occurrences(key)
        /\ EH!Occurrences(key) > 0
    BY <1>1, <1>10, HitFound DEF ProbeHit
  <2>2. HitsAmong(n) = Hits \union {n}
    BY <1>5, <2>1
  <2>3. /\ probe_result' = Store(probe_result, key)
        /\ probe_result_count' = Store(probe_result_count, EH!Occurrences(key))
        /\ result_position' = result_position + 2
    BY <1>10, <2>1 DEF ProbeHit
  <2>4. Cardinality(HitsAmong(n)) = Cardinality(Hits) + 1
    BY <2>2, <1>7, FS_AddElement
  <2>5. /\ DOMAIN probe_result' = DOMAIN probe_result \union {result_position}
        /\ probe_result'[result_position] = key
        /\ probe_result_count'[result_position] = EH!Occurrences(key)
    BY <2>3 DEF Store
  <2>6. ASSUME NEW m \in Hits
        PROVE  /\ probe_result'[ResultOf(m)] = probe_keys[m]
               /\ probe_result_count'[ResultOf(m)] = EH!Occurrences(probe_keys[m])
    <3>1. /\ ResultOf(m) # result_position
          /\ ResultOf(m) \in DOMAIN probe_result
          /\ DOMAIN probe_result_count = DOMAIN probe_result
      BY <2>6, <1>6, <1>8 DEF ResultInv, LookupInv
    <3>2. /\ probe_result'[ResultOf(m)] = probe_result[ResultOf(m)]
          /\ probe_result_count'[ResultOf(m)] = probe_result_count[ResultOf(m)]
      BY <3>1, <2>3 DEF Store
    <3>. QED BY <3>2, <2>6, <1>6
  <2>7. DOMAIN probe_result' = {ResultOf(m) : m \in HitsAmong(n)}
    BY <2>2, <2>5, <1>6, <1>9
  <2>8. result_position' = 2 * Cardinality(HitsAmong(n))
    BY <2>3, <2>4, <1>6, <1>7
  <2>. QED BY <2>2, <2>5, <2>6, <2>7, <2>8, <1>1, <1>9
<1>11. ASSUME ProbeMiss
       PROVE  /\ result_position' = 2 * Cardinality(HitsAmong(n))
              /\ DOMAIN probe_result' = {ResultOf(m) : m \in HitsAmong(n)}
              /\ \A m \in HitsAmong(n) :
                   /\ probe_result'[ResultOf(m)] = probe_keys[m]
                   /\ probe_result_count'[ResultOf(m)] = EH!Occurrences(probe_keys[m])
  <2>1. EH!Occurrences(key) = 0
    BY <1>1, <1>11, MissAbsent DEF ProbeMiss
  <2>2. HitsAmong(n) = Hits
    BY <1>5, <2>1
  <2>. QED BY <2>2, <1>6, <1>11 DEF ProbeMiss
<1>. QED BY <1>10, <1>11 DEF Probe

(* After the build the array probe returns the keys found with the number  *)
(* of their occurrences, in the order they were asked for, in every second *)
(* element of the result arrays.                                           *)
THEOREM ArrayProbeIsCorrect ==
  ASSUME SamePaths
  PROVE  ProbeSpec => []ResultsInOrder
<1>1. ElemInv /\ Accounts /\ ResultInv /\ [ProbeNext]_probeVars => ResultInv'
  BY BuildResultInv, ProbeResultInv, ProbeNextIsNext
     DEF ProbeNext, Build, Returned, probeVars, results
<1>2. ResultInv => ResultsInOrder
  BY DEF ResultInv
<1>. QED BY <1>1, <1>2, ElemInitInv, StepIInv, InitAccounts, StepAccounts, InitResultInv,
            ProbeNextIsNext, PTL
         DEF ProbeSpec, ProbeInit

(***************************************************************************)
(* The end of the batched build, as far as it can be proved: in a table    *)
(* with room no probe walks around the table, and every step leaves fewer  *)
(* to come.  That a step is taken as long as there is one is the fairness  *)
(* of Spec.                                                                *)
(***************************************************************************)

(* The keys of the column, and where the keys of the table come from.      *)
Column == {keys[p] : p \in Position}

ColumnInv == \A s \in Slot : key_container[s] # Empty => key_container[s] \in Column

LEMMA ColumnInvStep == IInv /\ ColumnInv /\ [Next]_vars => ColumnInv'
<1>. SUFFICES ASSUME IInv, ColumnInv, [Next]_vars PROVE ColumnInv'
  OBVIOUS
<1>1. keys' = keys /\ Column' = Column
  BY DEF Next, Gather, StoreKey, CountElement, MoveOn, StartCheck, EndRound, Finished,
         vars, Column
<1>2. ASSUME NEW i \in Lane, StoreKey(i) PROVE ColumnInv'
  <2>1. HasElement(i) /\ key_positions[i] \in Position
    BY <1>2, LaneKey DEF StoreKey, IInv, ControlInv
  <2>2. KeyAt(i) \in Column
    BY <2>1 DEF KeyAt, Column
  <2>3. \A s \in Slot : key_container'[s] \in {key_container[s], KeyAt(i)}
    BY <1>2 DEF StoreKey, IInv, TypeOK, TableTypeOK
  <2>. QED BY <1>1, <2>2, <2>3 DEF ColumnInv
<1>3. CASE key_container' = key_container
  BY <1>1, <1>3 DEF ColumnInv
<1>. QED BY <1>2, <1>3
     DEF Next, Gather, CountElement, MoveOn, StartCheck, EndRound, Finished, vars, table

LEMMA ColumnFinite ==
  ASSUME TableTypeOK
  PROVE  /\ IsFiniteSet(Position)
         /\ IsFiniteSet(Column)
         /\ Room <=> Cardinality(Column) <= container_size
<1>1. IsFiniteSet(Position)
  BY FS_Interval, CountAssumption DEF Position
<1>2. keys \in Surjection(Position, Column)
  <2>1. keys \in [Position -> Column] /\ \A c \in Column : \E p \in Position : keys[p] = c
    BY DEF Column, TableTypeOK
  <2>. QED BY <2>1 DEF Surjection
<1>3. IsFiniteSet(Column)
  BY <1>1, <1>2, FS_Surjection
<1>4. DOMAIN keys = Position
  BY DEF TableTypeOK
<1>. QED BY <1>1, <1>3, <1>4 DEF Room, Column

(* No lane moves its element around the whole table: all slots would have  *)
(* other keys, one more than the column has.                               *)
LEMMA OffsetInTable ==
  ASSUME IInv, ColumnInv, Room, NEW i \in Lane, HasElement(i)
  PROVE  offsets[i] < container_size
<1>. DEFINE k == KeyAt(i)
<1>. SUFFICES ASSUME offsets[i] >= container_size PROVE FALSE
  BY SizeAssumption DEF IInv, TypeOK
<1>1. k \in Key /\ k \in Column /\ offsets[i] \in Nat
  BY LaneKey DEF IInv, KeyAt, Column
<1>2. \A o \in Offset : Taken(ProbeSlot(k, o), k)
  <2>. SUFFICES ASSUME NEW o \in Offset PROVE Taken(ProbeSlot(k, o), k)
    OBVIOUS
  <2>1. o \in 0 .. offsets[i] - 1 /\ o \in Nat
    BY <1>1, SizeAssumption DEF Offset
  <2>2. ProbeSlot(k, o) \in Slot
    BY <1>1, <2>1, ProbeSlotType
  <2>3. Taken(ProbeSlot(k, o), k) \/ Counted(ProbeSlot(k, o), k)
    BY <2>1 DEF IInv, PathsPassed
  <2>. QED BY <2>2, <2>3 DEF Taken, Counted, IInv, CountsHaveKeys
<1>3. \A s \in Slot : key_container[s] \in Column \ {k} /\ key_container[s] # Empty
  <2>. SUFFICES ASSUME NEW s \in Slot
                PROVE  key_container[s] \in Column \ {k} /\ key_container[s] # Empty
    OBVIOUS
  <2>1. PICK o \in Offset : ProbeSlot(k, o) = s
    BY <1>1, PathCoversTable
  <2>. QED BY <1>2, <2>1 DEF Taken, ColumnInv
<1>4. key_container \in Injection(Slot, Column \ {k})
  <2>1. NoDuplicateKeys
    BY ReachableUnique DEF IInv
  <2>2. key_container \in [Slot -> Column \ {k}]
    BY <1>3 DEF IInv, TypeOK, TableTypeOK
  <2>3. IsInjective(key_container)
    BY <2>1, <2>2, <1>3 DEF NoDuplicateKeys, IsInjective
  <2>. QED BY <2>2, <2>3 DEF Injection
<1>5. IsFiniteSet(Column) /\ Cardinality(Column) <= container_size
  BY ColumnFinite DEF IInv, TypeOK
<1>6. Cardinality(Slot) <= Cardinality(Column \ {k})
  <2>1. IsFiniteSet(Column \ {k})
    BY <1>5, FS_RemoveElement
  <2>. QED BY <2>1, <1>4, FS_Injection
<1>7. /\ Cardinality(Column \ {k}) = Cardinality(Column) - 1
      /\ Cardinality(Column) \in Nat
  <2>. HIDE DEF k
  <2>. QED BY <1>1, <1>5, FS_RemoveElement, FS_CardinalityType
<1>. QED BY <1>5, <1>6, <1>7, SlotFinite, SizeAssumption

(* In a table with room the offsets of the lanes stay in the table.        *)
OffsetsInTable ==
  Room => \A i \in Lane : HasElement(i) => offsets[i] < container_size

LEMMA ColumnInvariance == SafeSpec => []ColumnInv
<1>1. Init => ColumnInv
  BY DEF Init, TableInit, ColumnInv
<1>. QED BY <1>1, ColumnInvStep, Invariance, PTL DEF SafeSpec

THEOREM OffsetsStayInTable == SafeSpec => []OffsetsInTable
<1>1. IInv /\ ColumnInv => OffsetsInTable
  BY OffsetInTable DEF OffsetsInTable
<1>. QED BY <1>1, ColumnInvariance, Invariance, PTL

\* How often the element at position p may still be moved on before it is
\* counted; a lane that is checked later in this round has one time less.
MovesLeft(p) ==
  IF p > max_position THEN container_size
  ELSE IF p \notin Uncounted THEN 0
  ELSE LET i == CHOOSE j \in Lane : key_positions[j] = p
       IN  container_size - offsets[i] - (IF phase = "check" /\ i \in todo THEN 1 ELSE 0)

TotalMoves == SumFunction([p \in Position |-> MovesLeft(p)])

RoundLeft ==
  IF phase = "scatter" THEN Cardinality(todo) + 1
  ELSE IF phase = "gather" THEN LaneCount + 2
  ELSE LaneCount + 3 + Cardinality(todo)

\* No build takes more steps than this from where it is.
StepsLeft == (2 * LaneCount + 3) * TotalMoves + RoundLeft

\* What MovesLeft is, without CHOOSE.
MovesAre ==
  /\ \A p \in Position, i \in Lane : key_positions[i] = p =>
       MovesLeft(p) =
         container_size - offsets[i] - (IF phase = "check" /\ i \in todo THEN 1 ELSE 0)
  /\ \A p \in Position : p > max_position => MovesLeft(p) = container_size
  /\ \A p \in Position :
       p <= max_position /\ (\A i \in Lane : key_positions[i] # p) => MovesLeft(p) = 0

LEMMA MovesLeftIs == IInv => MovesAre
<1>. SUFFICES ASSUME IInv PROVE MovesAre
  OBVIOUS
<1>1. ASSUME NEW p \in Position, NEW i \in Lane, key_positions[i] = p
      PROVE  MovesLeft(p) = container_size - offsets[i]
                              - (IF phase = "check" /\ i \in todo THEN 1 ELSE 0)
  <2>. DEFINE l == CHOOSE j \in Lane : key_positions[j] = p
  <2>1. p \in Nat /\ p <= max_position /\ max_position \in Nat
    BY <1>1 DEF IInv, LanesDistinct, TypeOK, Position
  <2>2. p \in Uncounted /\ ~ (p > max_position)
    BY <1>1, <2>1 DEF Uncounted
  <2>3. l = i
    <3>1. l \in Lane /\ key_positions[l] = p
      BY <1>1
    <3>. QED BY <1>1, <3>1 DEF IInv, LanesDistinct
  <2>. HIDE DEF l
  <2>4. MovesLeft(p) =
          container_size - offsets[l] - (IF phase = "check" /\ l \in todo THEN 1 ELSE 0)
    BY <2>2 DEF MovesLeft, l
  <2>. QED BY <2>3, <2>4
<1>2. ASSUME NEW p \in Position PROVE p \in Nat /\ max_position \in Nat
  BY DEF Position, IInv, TypeOK
<1>3. \A p \in Position : p > max_position => MovesLeft(p) = container_size
  BY DEF MovesLeft
<1>4. \A p \in Position :
        p <= max_position /\ (\A i \in Lane : key_positions[i] # p) => MovesLeft(p) = 0
  BY <1>2 DEF MovesLeft, Uncounted
<1>. QED BY <1>1, <1>3, <1>4 DEF MovesAre

LEMMA MovesType ==
  ASSUME IInv, OffsetsInTable, Room
  PROVE  /\ [p \in Position |-> MovesLeft(p)] \in [Position -> Nat]
         /\ TotalMoves \in Nat
<1>1. ASSUME NEW p \in Position PROVE MovesLeft(p) \in Nat
  <2>1. CASE \E i \in Lane : key_positions[i] = p
    <3>1. PICK i \in Lane : key_positions[i] = p
      BY <2>1
    <3>2. HasElement(i)
      BY <3>1, CountAssumption DEF HasElement, Position
    <3>3. offsets[i] \in Nat /\ offsets[i] < container_size
      BY <3>2 DEF OffsetsInTable, IInv, TypeOK
    <3>. QED BY <3>1, <3>3, MovesLeftIs, SizeAssumption DEF MovesAre
  <2>2. CASE ~ \E i \in Lane : key_positions[i] = p
    <3>1. p \in Nat /\ max_position \in Nat
      BY DEF Position, IInv, TypeOK
    <3>. QED BY <2>2, <3>1, MovesLeftIs, SizeAssumption DEF MovesAre
  <2>. QED BY <2>1, <2>2
<1>2. IsFiniteSet(Position)
  BY ColumnFinite DEF IInv, TypeOK
<1>. QED BY <1>1, <1>2, SumNat DEF TotalMoves

(* Sums of moves, before and after a step.                                 *)
LEMMA TotalMovesOrder ==
  ASSUME IInv, IInv', OffsetsInTable, OffsetsInTable', Room, Room',
         \A p \in Position : MovesLeft(p)' <= MovesLeft(p)
  PROVE  /\ TotalMoves \in Nat /\ TotalMoves' \in Nat
         /\ TotalMoves' <= TotalMoves
         /\ (\E p \in Position : MovesLeft(p)' < MovesLeft(p)) => TotalMoves' < TotalMoves
<1>. DEFINE f == [p \in Position |-> MovesLeft(p)']
            g == [p \in Position |-> MovesLeft(p)]
<1>1. g \in [Position -> Nat] /\ TotalMoves \in Nat /\ TotalMoves = SumFunction(g)
  BY MovesType DEF TotalMoves
<1>2. (IInv /\ OffsetsInTable /\ Room =>
         [p \in Position |-> MovesLeft(p)] \in [Position -> Nat] /\ TotalMoves \in Nat)'
  BY MovesType, PTL
<1>3. f \in [Position -> Nat] /\ TotalMoves' \in Nat /\ TotalMoves' = SumFunction(f)
  BY <1>2 DEF TotalMoves, Position
<1>4. IsFiniteSet(Position)
  BY ColumnFinite DEF IInv, TypeOK
<1>5. f \in [Position -> Int] /\ g \in [Position -> Int] /\ \A p \in Position : f[p] <= g[p]
  BY <1>1, <1>3
<1>6. \A p \in Position : f[p] = MovesLeft(p)' /\ g[p] = MovesLeft(p)
  OBVIOUS
<1>. HIDE DEF f, g
<1>7. SumFunction(f) <= SumFunction(g)
  BY <1>4, <1>5, SumOrder
<1>8. (\E p \in Position : f[p] < g[p]) => SumFunction(f) < SumFunction(g)
  BY <1>4, <1>5, SumStrictOrder
<1>. QED BY <1>1, <1>3, <1>6, <1>7, <1>8

LEMMA TodoCardinality ==
  /\ IsFiniteSet(Lane)
  /\ \A S \in SUBSET Lane : IsFiniteSet(S) /\ Cardinality(S) \in 0 .. LaneCount
<1>1. IsFiniteSet(Lane) /\ Cardinality(Lane) = LaneCount
  <2>1. /\ IsFiniteSet(0 .. LaneCount - 1)
        /\ Cardinality(0 .. LaneCount - 1) =
             IF 0 <= LaneCount - 1 THEN (LaneCount - 1) - 0 + 1 ELSE 0
    BY FS_Interval, LaneAssumption
  <2>. QED BY <2>1, LaneAssumption DEF Lane
<1>. QED BY <1>1, FS_Subset, FS_CardinalityType, LaneAssumption

(* The second loop runs as long as a lane has an element.                  *)
RestInv == loop = "rest" /\ phase # "check" => \E i \in Lane : HasElement(i)

LEMMA RestInvStep == IInv /\ RestInv /\ [Next]_vars => RestInv'
<1>. SUFFICES ASSUME IInv, RestInv, [Next]_vars PROVE RestInv'
  OBVIOUS
<1>1. CASE Gather \/ StartCheck \/ UNCHANGED vars \/ \E i \in Lane : StoreKey(i)
  BY <1>1 DEF Gather, StartCheck, StoreKey, RestInv, HasElement, lanes, vars
<1>2. CASE \E i \in Lane : CountElement(i) \/ MoveOn(i)
  BY <1>2 DEF CountElement, MoveOn, NextToCheck, RestInv
<1>3. CASE EndRound
  BY <1>3 DEF EndRound, LoopFor, RestInv, HasElement, lanes
<1>. QED BY <1>1, <1>2, <1>3 DEF Next, Finished

LEMMA RestInvariance == SafeSpec => []RestInv
<1>1. Init => RestInv
  BY DEF Init, LoopFor, RestInv, HasElement
<1>. QED BY <1>1, RestInvStep, Invariance, PTL DEF SafeSpec

(* What a step does to the moves and to the rest of the round.             *)
LEMMA StepMoves ==
  ASSUME IInv, IInv', RestInv, OffsetsInTable, Room, loop # "done", Next
  PROVE  /\ \A p \in Position : MovesLeft(p)' <= MovesLeft(p)
         /\ RoundLeft \in Nat /\ RoundLeft' \in Nat
         /\ \/ RoundLeft' < RoundLeft
            \/ /\ RoundLeft' < (2 * LaneCount + 3) + RoundLeft
               /\ \E p \in Position : MovesLeft(p)' < MovesLeft(p)
<1>. DEFINE Last(i) == IF phase = "check" /\ i \in todo THEN 1 ELSE 0
            Result == /\ \A p \in Position : MovesLeft(p)' <= MovesLeft(p)
                      /\ \/ RoundLeft' < RoundLeft
                         \/ /\ RoundLeft' < (2 * LaneCount + 3) + RoundLeft
                            /\ \E p \in Position : MovesLeft(p)' < MovesLeft(p)
<1>1. MovesAre /\ MovesAre'
  BY MovesLeftIs, PTL
<1>2. /\ LaneCount \in Nat \ {0} /\ container_size \in Nat \ {0} /\ ElementCount \in Nat
      /\ max_position \in Nat /\ max_position' \in Nat
      /\ key_positions \in [Lane -> Nat] /\ key_positions' \in [Lane -> Nat]
      /\ offsets \in [Lane -> Nat] /\ offsets' \in [Lane -> Nat]
      /\ todo \in SUBSET Lane /\ todo' \in SUBSET Lane
      /\ phase \in {"gather", "scatter", "check"} /\ phase' \in {"gather", "scatter", "check"}
      /\ \A p \in Position : p \in Nat
  BY LaneAssumption, SizeAssumption, CountAssumption DEF IInv, TypeOK, Position
<1>3. Cardinality(todo) \in 0 .. LaneCount /\ Cardinality(todo') \in 0 .. LaneCount
  BY <1>2, TodoCardinality
<1>4. RoundLeft \in Nat /\ RoundLeft' \in Nat
  BY <1>2, <1>3 DEF RoundLeft
<1>5. \A i \in todo : Cardinality(todo \ {i}) = Cardinality(todo) - 1
  BY <1>2, TodoCardinality, FS_RemoveElement
<1>6. ASSUME key_positions' = key_positions, max_position' = max_position,
             \A i \in Lane : offsets'[i] + Last(i)' >= offsets[i] + Last(i)
      PROVE  \A p \in Position : MovesLeft(p)' <= MovesLeft(p)
  <2>. SUFFICES ASSUME NEW p \in Position PROVE MovesLeft(p)' <= MovesLeft(p)
    OBVIOUS
  <2>1. \A i \in Lane : Last(i) \in {0, 1} /\ Last(i)' \in {0, 1}
    OBVIOUS
  <2>2. /\ \A i \in Lane : key_positions[i] = p =>
             MovesLeft(p) = container_size - offsets[i] - Last(i)
        /\ \A i \in Lane : key_positions'[i] = p =>
             MovesLeft(p)' = container_size - offsets'[i] - Last(i)'
    BY <1>1 DEF MovesAre, Position
  <2>. HIDE DEF Last
  <2>3. CASE \E i \in Lane : key_positions[i] = p
    <3>1. PICK i \in Lane : key_positions[i] = p
      BY <2>3
    <3>2. /\ MovesLeft(p) = container_size - offsets[i] - Last(i)
          /\ MovesLeft(p)' = container_size - offsets'[i] - Last(i)'
      BY <1>6, <2>2, <3>1
    <3>. QED BY <1>2, <1>6, <2>1, <3>2
  <2>4. CASE p > max_position
    BY <1>1, <1>2, <1>6, <2>4 DEF MovesAre, Position
  <2>5. CASE p <= max_position /\ \A i \in Lane : key_positions[i] # p
    BY <1>1, <1>2, <1>6, <2>5 DEF MovesAre, Position
  <2>. QED BY <1>2, <2>3, <2>4, <2>5
<1>7. ASSUME Gather PROVE Result
  <2>1. phase = "gather" /\ phase' = "scatter" /\ UNCHANGED lanes
    BY <1>7 DEF Gather
  <2>2. RoundLeft' < RoundLeft
    BY <1>2, <1>3, <2>1 DEF RoundLeft
  <2>3. \A p \in Position : MovesLeft(p)' <= MovesLeft(p)
    BY <1>2, <1>6, <2>1 DEF lanes
  <2>. QED BY <2>2, <2>3
<1>8. ASSUME NEW i \in Lane, StoreKey(i) PROVE Result
  <2>1. phase = "scatter" /\ phase' = "scatter" /\ UNCHANGED lanes
        /\ i \in todo /\ todo' = todo \ {i}
    BY <1>8 DEF StoreKey
  <2>2. RoundLeft' < RoundLeft
    BY <1>3, <1>5, <2>1 DEF RoundLeft
  <2>3. \A p \in Position : MovesLeft(p)' <= MovesLeft(p)
    BY <1>2, <1>6, <2>1 DEF lanes
  <2>. QED BY <2>2, <2>3
<1>9. ASSUME StartCheck PROVE Result
  <2>1. /\ phase = "scatter" /\ phase' = "check" /\ UNCHANGED lanes
        /\ todo' = {i \in Lane : Active(i)} /\ loop' = loop
    BY <1>9 DEF StartCheck
  <2>2. \A p \in Position : MovesLeft(p)' <= MovesLeft(p)
    BY <1>2, <1>6, <2>1 DEF lanes
  <2>3. PICK i \in Lane : HasElement(i)
    <3>1. CASE loop = "main"
      <4>1. 0 \in Lane
        BY <1>2 DEF Lane
      <4>2. Active(0) <=> HasElement(0)
        BY <2>1, <4>1, ActiveHasElement
      <4>. QED BY <3>1, <4>1, <4>2 DEF Active
    <3>2. CASE loop = "rest"
      BY <2>1, <3>2 DEF RestInv
    <3>. QED BY <3>1, <3>2, loop # "done" DEF IInv, TypeOK
  <2>4. PICK p \in Position : p = key_positions[i]
    BY <1>2, <2>3 DEF HasElement, Position
  <2>5. i \in todo'
    BY <2>1, <2>3 DEF Active
  <2>6. MovesLeft(p)' < MovesLeft(p)
    <3>1. MovesLeft(p) = container_size - offsets[i] - 0
      BY <1>1, <2>1, <2>4 DEF MovesAre
    <3>2. MovesLeft(p)' = container_size - offsets'[i] - 1
      BY <1>1, <2>1, <2>4, <2>5 DEF MovesAre, lanes, Position
    <3>. QED BY <1>2, <2>1, <3>1, <3>2 DEF lanes
  <2>7. RoundLeft' < (2 * LaneCount + 3) + RoundLeft
    BY <1>2, <1>3, <2>1 DEF RoundLeft
  <2>. QED BY <2>2, <2>6, <2>7
<1>10. ASSUME NEW i \in Lane, CountElement(i) \/ MoveOn(i) PROVE RoundLeft' < RoundLeft
  <2>1. phase = "check" /\ phase' = "check" /\ i \in todo /\ todo' = todo \ {i}
    BY <1>10 DEF CountElement, MoveOn, NextToCheck
  <2>. QED BY <1>2, <1>3, <1>5, <2>1 DEF RoundLeft
<1>11. ASSUME NEW i \in Lane, CountElement(i) PROVE Result
  <2>1. /\ phase = "check" /\ phase' = "check" /\ i \in todo /\ todo' = todo \ {i}
        /\ offsets' = [offsets EXCEPT ![i] = 0]
        /\ max_position' = max_position + 1
        /\ key_positions' = [key_positions EXCEPT ![i] = max_position + 1]
    BY <1>11 DEF CountElement, NextToCheck, LoadNext
  <2>2. ASSUME NEW p \in Position PROVE MovesLeft(p)' <= MovesLeft(p)
    <3>1. CASE p = max_position + 1
      <4>1. MovesLeft(p) = container_size
        BY <1>1, <1>2, <3>1 DEF MovesAre
      <4>2. key_positions'[i] = p /\ offsets'[i] = 0 /\ i \notin todo'
        BY <1>2, <2>1, <3>1
      <4>3. MovesLeft(p)' = container_size - 0 - 0
        BY <1>1, <4>2 DEF MovesAre, Position
      <4>. QED BY <1>2, <4>1, <4>3
    <3>2. CASE p > max_position + 1
      BY <1>1, <1>2, <2>1, <3>2 DEF MovesAre, Position
    <3>3. CASE p <= max_position /\ \E j \in Lane \ {i} : key_positions[j] = p
      <4>1. PICK j \in Lane \ {i} : key_positions[j] = p
        BY <3>3
      <4>2. /\ key_positions'[j] = p /\ offsets'[j] = offsets[j]
            /\ j \in todo' <=> j \in todo
        BY <1>2, <2>1, <4>1
      <4>. QED BY <1>1, <1>2, <2>1, <4>1, <4>2 DEF MovesAre, Position
    <3>4. CASE p <= max_position /\ ~ \E j \in Lane \ {i} : key_positions[j] = p
      <4>1. \A j \in Lane : key_positions'[j] # p
        BY <1>2, <2>1, <3>4
      <4>2. MovesLeft(p)' = 0
        BY <1>1, <1>2, <2>1, <3>4, <4>1 DEF MovesAre, Position
      <4>3. MovesLeft(p) >= 0
        <5>1. CASE key_positions[i] = p
          <6>1. MovesLeft(p) \in Nat
            <7>. DEFINE g == [q \in Position |-> MovesLeft(q)]
            <7>1. g \in [Position -> Nat] /\ g[p] = MovesLeft(p)
              BY MovesType
            <7>. HIDE DEF g
            <7>. QED BY <7>1
          <6>. QED BY <6>1
        <5>2. CASE key_positions[i] # p
          BY <1>1, <1>2, <3>4, <5>2 DEF MovesAre
        <5>. QED BY <5>1, <5>2
      <4>. QED BY <4>2, <4>3
    <3>. QED BY <1>2, <3>1, <3>2, <3>3, <3>4
  <2>. QED BY <1>10, <1>11, <2>2
<1>12. ASSUME NEW i \in Lane, MoveOn(i) PROVE Result
  <2>1. /\ phase = "check" /\ phase' = "check" /\ i \in todo /\ todo' = todo \ {i}
        /\ offsets' = [offsets EXCEPT ![i] = @ + 1]
        /\ max_position' = max_position /\ key_positions' = key_positions
    BY <1>12 DEF MoveOn, NextToCheck
  <2>2. \A j \in Lane : offsets'[j] + Last(j)' >= offsets[j] + Last(j)
    BY <1>2, <2>1
  <2>3. \A p \in Position : MovesLeft(p)' <= MovesLeft(p)
    BY <1>6, <2>1, <2>2
  <2>. QED BY <1>10, <1>12, <2>3
<1>13. ASSUME EndRound PROVE Result
  <2>1. phase = "check" /\ phase' = "gather" /\ UNCHANGED lanes /\ todo = {} /\ todo' = todo
    BY <1>13 DEF EndRound
  <2>2. RoundLeft' < RoundLeft
    BY <1>2, <1>3, <2>1 DEF RoundLeft
  <2>3. \A p \in Position : MovesLeft(p)' <= MovesLeft(p)
    BY <1>2, <1>6, <2>1 DEF lanes
  <2>. QED BY <2>2, <2>3
<1>14. ~ Finished
  BY DEF Finished
<1>15. Result
  BY <1>7, <1>8, <1>9, <1>11, <1>12, <1>13, <1>14 DEF Next
<1>. QED BY <1>4, <1>15

LEMMA StepAdvances ==
  ASSUME IInv, IInv', RestInv, OffsetsInTable, OffsetsInTable', Room, loop # "done", Next
  PROVE  /\ StepsLeft \in Nat /\ StepsLeft' \in Nat
         /\ StepsLeft' < StepsLeft
<1>. DEFINE w == 2 * LaneCount + 3
<1>1. Room'
  BY DEF Next, Gather, StoreKey, CountElement, MoveOn, StartCheck, EndRound, Finished, Room
<1>2. /\ \A p \in Position : MovesLeft(p)' <= MovesLeft(p)
      /\ RoundLeft \in Nat /\ RoundLeft' \in Nat
      /\ \/ RoundLeft' < RoundLeft
         \/ /\ RoundLeft' < w + RoundLeft
            /\ \E p \in Position : MovesLeft(p)' < MovesLeft(p)
  BY StepMoves
<1>3. /\ TotalMoves \in Nat /\ TotalMoves' \in Nat
      /\ TotalMoves' <= TotalMoves
      /\ (\E p \in Position : MovesLeft(p)' < MovesLeft(p)) => TotalMoves' < TotalMoves
  BY <1>1, <1>2, TotalMovesOrder
<1>4. w \in Nat /\ StepsLeft = w * TotalMoves + RoundLeft
      /\ StepsLeft' = w * TotalMoves' + RoundLeft'
  BY LaneAssumption DEF StepsLeft
<1>. HIDE DEF w
<1>5. /\ w * TotalMoves + RoundLeft \in Nat /\ w * TotalMoves' + RoundLeft' \in Nat
      /\ w * TotalMoves' + RoundLeft' < w * TotalMoves + RoundLeft
  BY <1>2, <1>3, <1>4, FewerSteps
<1>. QED BY <1>4, <1>5

(* In a table with room every step of the two while loops brings the build *)
(* nearer to its end, by a number that cannot fall below 0.  No counter of *)
(* the code shows it: a round may count no element at all, and a lane may  *)
(* lose its slot in every one of them.                                     *)
BuildAdvancing ==
  [][Room /\ loop # "done" =>
       StepsLeft \in Nat /\ StepsLeft' \in Nat /\ StepsLeft' < StepsLeft]_vars

THEOREM BuildAdvances == SafeSpec => BuildAdvancing
<1>1. /\ IInv /\ IInv' /\ RestInv /\ OffsetsInTable /\ OffsetsInTable'
      /\ [Next]_vars
      => [Room /\ loop # "done" =>
            StepsLeft \in Nat /\ StepsLeft' \in Nat /\ StepsLeft' < StepsLeft]_vars
  BY StepAdvances
<1>. QED BY <1>1, Invariance, RestInvariance, OffsetsStayInTable, PTL
     DEF SafeSpec, BuildAdvancing
=============================================================================
