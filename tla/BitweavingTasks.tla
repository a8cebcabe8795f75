-------------------------- MODULE BitweavingTasks --------------------------
(***************************************************************************)
(* The BitWeaving/H comparisons of the memory benchmark (tasks.h): what    *)
(* BitWeaving_H_EQ ... BitWeaving_H_GEQ compute from a word.  They have    *)
(* the masks and formulas of the store (BitweavingWord), a predicate that  *)
(* is taken from WRITE_VAL64, and their operands in one word: the code     *)
(* bits of the result are not masked out.                                  *)
(***************************************************************************)
EXTENDS BitweavingWord

CONSTANT WriteVal   \* WRITE_VAL64

BwNames == {"bw_h_eq", "bw_h_neq", "bw_h_lt", "bw_h_leq", "bw_h_gt", "bw_h_geq"}

\* The constructor of BitWeaving_H.
predicate == create_predicate(WriteVal \intersect max_value)

BitWeaving_H_EQ(x) == Complement(Add(Xor(x, predicate), code_bits_mask))

BitWeaving_H_NEQ(x) == Add(Xor(x, predicate), code_bits_mask)

BitWeaving_H_LT(x) == Add(predicate, Xor(x, code_bits_mask))

BitWeaving_H_LEQ(x) == Add(Add(predicate, Xor(x, code_bits_mask)), first_bit_mask)

BitWeaving_H_GT(x) == Add(x, Xor(predicate, code_bits_mask))

BitWeaving_H_GEQ(x) == Add(Add(x, Xor(predicate, code_bits_mask)), first_bit_mask)

Comparison(k, x) ==
  CASE k = "bw_h_eq" -> BitWeaving_H_EQ(x)
    [] k = "bw_h_neq" -> BitWeaving_H_NEQ(x)
    [] k = "bw_h_lt" -> BitWeaving_H_LT(x)
    [] k = "bw_h_leq" -> BitWeaving_H_LEQ(x)
    [] k = "bw_h_gt" -> BitWeaving_H_GT(x)
    [] k = "bw_h_geq" -> BitWeaving_H_GEQ(x)
=============================================================================
