------------------------------ MODULE ElemBuild ------------------------------
(***************************************************************************)
(* build_scalar_elem and build_vectorized_elem: the elements are inserted  *)
(* one after the other.  The two differ in compiler pragmas only.  For     *)
(* each element the first loop looks for an empty slot on its probe path,  *)
(* the second for its key before that slot.                                *)
(***************************************************************************)
EXTENDS HashTable

VARIABLES
  keys_position,             \* the element to insert next
  container_distinct_count   \* how many insertions took a new slot

elemVars == <<keys, key_container, key_count_container, keys_position,
          container_distinct_count>>

ElemTypeOK ==
  /\ TableTypeOK
  /\ keys_position \in 0 .. ElementCount
  /\ container_distinct_count \in 0 .. ElementCount

ElemInit ==
  /\ TableInit
  /\ keys_position = 0
  /\ container_distinct_count = 0

-----------------------------------------------------------------------------

AtElem(k, o) == key_container[ElemSlot(k, o)]

(* Where the first loop leaves off when it breaks at an empty slot ...     *)
IsOffsetZero(k, o) ==
  /\ AtElem(k, o) = Empty
  /\ \A q \in 0 .. o - 1 : AtElem(k, q) # Empty

(* ... and where it does when it meets none.                               *)
offset_zero(k) ==
  IF \E o \in Offset : AtElem(k, o) = Empty
    THEN CHOOSE o \in Offset : IsOffsetZero(k, o)
    ELSE container_size

(* The last slot the first loop has looked at.                             *)
idx_zero(k) ==
  ElemSlot(k, IF offset_zero(k) < container_size
                THEN offset_zero(k)
                ELSE container_size - 1)

found(k) == \E o \in 0 .. offset_zero(k) - 1 : AtElem(k, o) = k

idx_equal(k) ==
  ElemSlot(k, CHOOSE o \in 0 .. offset_zero(k) - 1 :
                /\ AtElem(k, o) = k
                /\ \A q \in 0 .. o - 1 : AtElem(k, q) # k)

(* Mutants: the loop is unrolled by four; the count is forgotten.          *)
Increment_Unrolled(s) ==
  /\ key_count_container' = [key_count_container EXCEPT ![s] = @ + 1]
  /\ keys_position' = keys_position + 4
  /\ UNCHANGED keys

Increment_NotCounted(s) ==
  keys_position' = keys_position + 1 /\ UNCHANGED <<keys, key_count_container>>

Increment(s) ==
  /\ key_count_container' = [key_count_container EXCEPT ![s] = @ + 1]
  /\ keys_position' = keys_position + 1
  /\ UNCHANGED keys

(* Mutant: every element counts as a new key.                              *)
CountKey_Distinct ==
  /\ keys_position < ElementCount
  /\ LET key == keys[keys_position]
     IN  found(key) /\ Increment(idx_equal(key))
  /\ container_distinct_count' = container_distinct_count + 1
  /\ UNCHANGED key_container

(* The key is in the table.                                                *)
CountKey ==
  /\ keys_position < ElementCount
  /\ LET key == keys[keys_position]
     IN  found(key) /\ Increment(idx_equal(key))
  /\ UNCHANGED <<key_container, container_distinct_count>>

(* Mutant: idx is not set to the slot the key was put in.                  *)
InsertKey_CountAtHash ==
  /\ keys_position < ElementCount
  /\ LET key == keys[keys_position]
     IN  /\ ~ found(key)
         /\ key_container' = [key_container EXCEPT ![idx_zero(key)] = key]
         /\ Increment(ElemSlot(key, 0))
  /\ container_distinct_count' = container_distinct_count + 1

(* It is not: the key takes the slot the first loop ended at.  With no     *)
(* empty slot on the path that slot is another key's.                      *)
InsertKey ==
  /\ keys_position < ElementCount
  /\ LET key == keys[keys_position]
     IN  /\ ~ found(key)
         /\ key_container' = [key_container EXCEPT ![idx_zero(key)] = key]
         /\ Increment(idx_zero(key))
  /\ container_distinct_count' = container_distinct_count + 1

ElemNext == CountKey \/ InsertKey

-----------------------------------------------------------------------------
(* Properties.                                                             *)

(* Whatever the table's size and the hashes, even when keys overwrite each *)
(* other: no count is lost, and no more keys are in the table than were    *)
(* reported as new.                                                        *)
CountsConserved ==
  /\ total_count = keys_position
  /\ key_count <= container_distinct_count

(* The table has a slot for every key of the column.                       *)
Room == Cardinality({keys[p] : p \in DOMAIN keys}) <= container_size

EH == INSTANCE Histogram WITH pending <- keys_position .. ElementCount - 1,
                             hist <- TableHist

(* In a table with room every step counts one element under its own key,   *)
(* as the abstract histogram does.  This needs hashes not so near 2^32     *)
(* that the T-typed offset wraps: then the builder walks the same path as  *)
(* the look-ups.                                                           *)
ElemRefinesHistogram ==
  /\ Room => EH!Init
  /\ [][Room => [EH!Next]_(EH!vars)]_elemVars

(* The comparison of test_vectorized_elem_build and test_scalar_elem_build *)
(* (if( vec_count != stl_count ) ... WRONG): after the build the look-up   *)
(* returns the number of a key's occurrences in the column.  During it the *)
(* two look-ups agree, and the keys reported as new are those found.       *)
ElemBuildCorrect ==
  Room =>
    /\ LookupsAgree
    /\ container_distinct_count = key_count
    /\ keys_position = ElementCount =>
         \A k \in Key : probe_count_vectorized(k) = EH!Occurrences(k)
=============================================================================
