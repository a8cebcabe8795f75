------------------------------ MODULE HashTable ------------------------------
(***************************************************************************)
(* The open-addressing table of const_sized_basic_histogramm<uint32_t>:    *)
(* its size, its two probe sequences and its look-ups.  The builders       *)
(* (ElemBuild, BatchBuild) extend this module and fill the table.          *)
(*                                                                         *)
(* T is uint32_t, the only type the repository instantiates; Word is its   *)
(* modulus.  The 32-bit hash_fn and the copies of it inlined in the batch  *)
(* builders and in probe_count_vectorized agree for this type, and are one *)
(* function here, an arbitrary one.                                        *)
(***************************************************************************)
EXTENDS Integers, FiniteSets, Functions

CONSTANTS
  Key,            \* the keys in use; 0 marks an empty slot and is no key
  Word,           \* 2^32: arithmetic on T is modulo Word
  hash_fn,        \* the hash of every key
  ElementCount,   \* constructor argument: length of the input column
  LoadFactor      \* constructor argument: fill grade in percent

(* What the constructor computes, in T arithmetic: the product wraps.      *)
container_size == ((ElementCount * 100) % Word) \div LoadFactor

Empty == 0

ASSUME KeyAssumption == Empty \notin Key
ASSUME WordAssumption == Word \in Nat \ {0}
ASSUME HashAssumption == hash_fn \in [Key -> 0 .. Word - 1]
ASSUME CountAssumption == ElementCount \in Nat
ASSUME LoadFactorAssumption == LoadFactor \in Nat \ {0}
ASSUME SizeAssumption == container_size \in Nat \ {0}

VARIABLES
  keys,                \* the input column
  key_container,       \* slot -> key or Empty
  key_count_container  \* slot -> occurrences counted there

Position == 0 .. ElementCount - 1
Slot == 0 .. container_size - 1
Offset == 0 .. container_size - 1

TableTypeOK ==
  /\ keys \in [Position -> Key]
  /\ key_container \in [Slot -> Key \union {Empty}]
  /\ key_count_container \in [Slot -> Nat]

TableInit ==
  /\ keys \in [Position -> Key]
  /\ key_container = [s \in Slot |-> Empty]
  /\ key_count_container = [s \in Slot |-> 0]

-----------------------------------------------------------------------------
(* Probe sequences.                                                        *)

(* The look-ups and the batch builders add a size_t offset: no wrap.       *)
ProbeSlot(k, o) == (hash_fn[k] + o) % container_size

(* The element-wise builders add an offset of type T: the sum wraps.       *)
ElemSlot(k, o) == ((hash_fn[k] + o) % Word) % container_size

-----------------------------------------------------------------------------
(* Look-ups.                                                               *)

SlotsOf(k) == {s \in Slot : key_container[s] = k}

(* o is the first offset at which the look-up of k meets a slot in Stop.   *)
FirstStop(k, o, Stop) ==
  /\ key_container[ProbeSlot(k, o)] \in Stop
  /\ \A q \in 0 .. o - 1 : key_container[ProbeSlot(k, q)] \notin Stop

container_infinity_value == (container_size + 1) % Word

(* probe( key ): does not stop at an empty slot.                           *)
probe(k) ==
  IF \E o \in Offset : FirstStop(k, o, {k})
    THEN ProbeSlot(k, CHOOSE o \in Offset : FirstStop(k, o, {k}))
    ELSE container_infinity_value

get_count(k) ==
  IF probe(k) < container_infinity_value
    THEN key_count_container[probe(k)]
    ELSE 0

(* probe_count_vectorized( key ): an empty slot ends the search.           *)
probe_count_vectorized(k) ==
  IF \E o \in Offset : /\ FirstStop(k, o, {k, Empty})
                       /\ key_container[ProbeSlot(k, o)] = k
    THEN key_count_container[ProbeSlot(k,
           CHOOSE o \in Offset : FirstStop(k, o, {k, Empty}))]
    ELSE 0

(* get_count( ) and key_count( ) walk the whole table.                      *)
total_count == SumFunction(key_count_container)

key_count == Cardinality({s \in Slot : key_container[s] # Empty})

-----------------------------------------------------------------------------
(* The abstract histogram the table stands for.                            *)

CountOf(k) ==
  IF SlotsOf(k) = {}
    THEN 0
    ELSE key_count_container[CHOOSE s \in SlotsOf(k) : TRUE]

TableHist == [k \in Key |-> CountOf(k)]

-----------------------------------------------------------------------------
(* What every builder must keep true of the table.                         *)

(* A key lives in one slot: were it in two, its count would be split and a *)
(* look-up would see only the part it meets first.                         *)
NoDuplicateKeys ==
  \A s, t \in Slot :
    key_container[s] = key_container[t] /\ key_container[s] # Empty => s = t

(* At every moment of a build both look-ups find what the table holds for  *)
(* a key: no empty slot ever opens between a key's hash and its slot, where*)
(* probe_count_vectorized would give up and probe would not.               *)
LookupsAgree ==
  \A k \in Key : /\ probe_count_vectorized(k) = CountOf(k)
                 /\ get_count(k) = CountOf(k)

(* A slot that has been counted belongs to its key for good, and its count *)
(* never falls: no later store of a colliding key takes the slot over.     *)
CountedSlotKept(s) ==
  key_count_container[s] > 0 =>
    /\ key_container'[s] = key_container[s]
    /\ key_count_container'[s] >= key_count_container[s]

-----------------------------------------------------------------------------
(* The part of the builders' invariants that is about the table alone.     *)

(* Only slots with a key are counted.                                      *)
CountsHaveKeys ==
  \A s \in Slot : key_count_container[s] > 0 => key_container[s] # Empty

(* Slot s has been counted for another key than k and stays that key's.    *)
Counted(s, k) == key_count_container[s] > 0 /\ key_container[s] # k

(* A stored key is on its own probe path, behind counted slots only.       *)
KeysReachable ==
  \A s \in Slot : key_container[s] # Empty =>
    \E o \in Offset :
      /\ s = ProbeSlot(key_container[s], o)
      /\ \A q \in 0 .. o - 1 :
           Counted(ProbeSlot(key_container[s], q), key_container[s])
=============================================================================
