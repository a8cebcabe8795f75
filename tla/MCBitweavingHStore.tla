------------------------- MODULE MCBitweavingHStore -------------------------
(***************************************************************************)
(* The BitWeaving/H store for TLC.                                         *)
(***************************************************************************)
EXTENDS BitweavingHStore

-----------------------------------------------------------------------------
(* The sequential part.  The first word of the column is any word; the      *)
(* others, which format does not treat, have a code in all bits or a        *)
(* delimiter bit in the middle.                                            *)

\* The words and their sums are those of the machine.
ASSUME AddIsAddition ==
  \A x \in T, y \in SUBSET (0 .. 2) \union {code_bits_mask, delimeter_bits_mask, Bit} :
    Number(Add(x, y)) = (Number(x) + Number(y)) % 2^WordBits

MCWords == {max_value, first_bit_mask \union {CodeSize}}

MCColumns ==
  {[j \in Index |-> IF j = 0 THEN first ELSE rest] : first \in T, rest \in MCWords}

-----------------------------------------------------------------------------
(* The parallel part.  The words are multiples of a power of two, and all   *)
(* different, so that a result at the wrong position shows.                *)

HighBits == WordBits - 2 .. WordBits - 1

MCValue == SUBSET HighBits

MCDistinct == {c \in [Index -> MCValue] : \A j, k \in Index : Number(c[j]) < Number(c[k]) <=> j < k}

MCPredicate == {{WordBits - 1}}

\* Memory that is read as a context: a record with words of the column, whose
\* results lie partly behind the array.
MCStray ==
  {[base_addr |-> 0, count |-> 2, result |-> b, offset |-> data_count - 1,
    predicate |-> {WordBits - 1}] : b \in Buffer}

\* Memory of zeros.
MCEmptyRecord ==
  {[base_addr |-> 0, count |-> 0, result |-> b, offset |-> 0, predicate |-> p] :
     b \in Buffer, p \in Predicate}

-----------------------------------------------------------------------------
\* Each part is explored with a few initial states of the other.
MCInit ==
  /\ part \in Parts
  /\ data \in IF part = "sequential" THEN MCColumns ELSE MCDistinct
  /\ HStoreInit

MCSpec ==
  /\ MCInit
  /\ [][HStoreNext]_hStoreVars
  /\ WF_hStoreVars(part = "parallel" /\ CallerStep /\ UNCHANGED <<part, result, last>>)
  /\ \A t \in Thread :
       WF_hStoreVars(part = "parallel" /\ ThreadStep(t) /\ UNCHANGED <<part, result, last>>)
=============================================================================
