--------------------------- MODULE BitweavingStore ---------------------------
(***************************************************************************)
(* The sequential store (bitweaving_h_store.h): format and the six         *)
(* comparisons over the words of a column.                                 *)
(***************************************************************************)
EXTENDS BitweavingWord, BitweavingColumn

CONSTANTS
  VectorElemCount,   \* the words format treats at a time
  NoResult           \* nothing has been compared yet

\* format writes the first VectorElemCount words.
ASSUME VectorAssumption ==
  /\ data_count \in Nat \ {0}
  /\ VectorElemCount \in 1 .. data_count

VARIABLES
  result,  \* what the last comparison wrote
  last     \* its operation and predicate

storeVars == <<data, result, last>>

Operation == {"neq", "eq", "lt", "leq", "gt", "geq"}

\* The words written by the loop of an operation.
Compare(op, x, p) ==
  CASE op = "neq" -> cmp_neq(x, p)
    [] op = "eq"  -> cmp_eq(x, p)
    [] op = "lt"  -> cmp_lt(x, p)
    [] op = "leq" -> cmp_leq(x, p)
    [] op = "gt"  -> cmp_gt(x, p)
    [] op = "geq" -> cmp_geq(x, p)

\* What an operation decides about a code.
Holds(op, code, pred) ==
  LET f == Number(code)
      p == Number(pred)
  IN  CASE op = "neq" -> f # p
        [] op = "eq"  -> f = p
        [] op = "lt"  -> f < p
        [] op = "leq" -> f <= p
        [] op = "gt"  -> f > p
        [] op = "geq" -> f >= p

\* Any words will do: the experiment fills the column with random ones.
StoreInit ==
  /\ data \in [Index -> T]
  /\ result = NoResult
  /\ last = NoResult

\* Mutant: the code bits are inverted instead of the delimiter bits.
format_Codes ==
  /\ data' = [j \in Index |->
                IF j < VectorElemCount /\ (1 + (data_count - 1) \div VectorElemCount) % 2 = 1
                THEN Xor(data[j], code_bits_mask)
                ELSE data[j]]
  /\ UNCHANGED <<result, last>>

\* The delimiter bits are inverted, once for every block of the column, but
\* always those of the first block: the inner loop does not add i to j.
format ==
  /\ data' = [j \in Index |->
                IF j < VectorElemCount /\ (1 + (data_count - 1) \div VectorElemCount) % 2 = 1
                THEN Xor(data[j], delimeter_bits_mask)
                ELSE data[j]]
  /\ UNCHANGED <<result, last>>

\* A comparison with the code pred, through create_predicate.
cmp(op, pred) ==
  /\ result' = [j \in Index |-> Compare(op, data[j], create_predicate(pred))]
  /\ last' = [op |-> op, pred |-> pred, of |-> data]
  /\ UNCHANGED data

StoreNext == format \/ \E op \in Operation, pred \in SUBSET max_value : cmp(op, pred)

StoreSpec == StoreInit /\ [][StoreNext]_storeVars

-----------------------------------------------------------------------------

ClearUpTo(x, c) == \A d \in 0 .. c : ~ Delimiter(x, d)

(* A comparison sets the delimiter bit of exactly the codes it holds for.  *)
(* No carry of one code may reach the next one.  A delimiter bit set in    *)
(* the column spoils its own code and may spoil the ones above, but none   *)
(* below.                                                                  *)
ComparisonsExact ==
  last # NoResult =>
    \A j \in Index, c \in Code :
      ClearUpTo(last.of[j], c) =>
        (Delimiter(result[j], c)
           <=> Holds(last.op, CodeOf(last.of[j], c), last.pred))

(* Whatever is called, the codes of the column stay what they were.        *)
CodesKept ==
  [][\A j \in Index, c \in Code : CodeOf(data'[j], c) = CodeOf(data[j], c)]_storeVars
=============================================================================
