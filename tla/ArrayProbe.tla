----------------------------- MODULE ArrayProbe -----------------------------
(***************************************************************************)
(* probe() of an array of keys (hash_set.h), in a table that               *)
(* build_scalar_elem has built.  Nothing in the repository calls it.       *)
(***************************************************************************)
EXTENDS ElemBuild, Sequences

CONSTANT ProbeKeys   \* the arrays of keys that are looked up

ASSUME ProbeAssumption == ProbeKeys \subseteq Seq(Key)

VARIABLES
  probe_keys,
  probe_key_position,
  result_position,
  probe_result,        \* index -> key, for the elements written
  probe_result_count   \* index -> its count

results == <<probe_key_position, result_position, probe_result, probe_result_count>>
probeVars == <<elemVars, probe_keys, results>>

Built == keys_position = ElementCount

ProbeInit ==
  /\ ElemInit
  /\ probe_keys \in ProbeKeys
  /\ probe_key_position = 0 /\ result_position = 0
  /\ probe_result = <<>> /\ probe_result_count = <<>>

Build == ElemNext /\ UNCHANGED <<probe_keys, results>>

key == probe_keys[probe_key_position + 1]

Store(array, value) ==
  [n \in DOMAIN array \cup {result_position} |->
     IF n = result_position THEN value ELSE array[n]]

\* Mutant: the count is read from the slot the key hashes to.
ProbeHit_CountAtHash(o) ==
  /\ FirstStop(key, o, {key})
  /\ probe_result' = Store(probe_result, key)
  /\ probe_result_count' =
       Store(probe_result_count, key_count_container[ProbeSlot(key, 0)])
  /\ result_position' = result_position + 2

\* result_position is advanced where the count is stored, and once more.
ProbeHit(o) ==
  /\ FirstStop(key, o, {key})
  /\ probe_result' = Store(probe_result, key)
  /\ probe_result_count' =
       Store(probe_result_count, key_count_container[ProbeSlot(key, o)])
  /\ result_position' = result_position + 2

ProbeMiss ==
  /\ \A o \in Offset : key_container[ProbeSlot(key, o)] # key
  /\ UNCHANGED <<result_position, probe_result, probe_result_count>>

Probe ==
  /\ Built /\ probe_key_position < Len(probe_keys)
  /\ (\E o \in Offset : ProbeHit(o)) \/ ProbeMiss
  /\ probe_key_position' = probe_key_position + 1
  /\ UNCHANGED <<elemVars, probe_keys>>

Returned ==
  Built /\ probe_key_position = Len(probe_keys) /\ UNCHANGED probeVars

ProbeNext == Build \/ Probe \/ Returned

ProbeSpec == ProbeInit /\ [][ProbeNext]_probeVars

-----------------------------------------------------------------------------
(* The n-th key and those before it that are in the column.                *)
HitsAmong(n) == {m \in 1 .. n : EH!Occurrences(probe_keys[m]) > 0}

(* Where the result for the m-th key belongs: two elements for every hit   *)
(* before it.                                                              *)
ResultOf(m) == 2 * Cardinality(HitsAmong(m - 1))

(* The results are the keys of the column among those looked up so far, in *)
(* the order they were asked for and with their occurrences, in every      *)
(* second element of the arrays: the caller needs room for two elements    *)
(* per key, and the number returned is twice the number of keys found.     *)
ResultsInOrder ==
  LET hits == HitsAmong(probe_key_position)
  IN  Room =>
        /\ result_position = 2 * Cardinality(hits)
        /\ DOMAIN probe_result = {ResultOf(m) : m \in hits}
        /\ \A m \in hits :
             /\ probe_result[ResultOf(m)] = probe_keys[m]
             /\ probe_result_count[ResultOf(m)] = EH!Occurrences(probe_keys[m])
=============================================================================
