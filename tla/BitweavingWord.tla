--------------------------- MODULE BitweavingWord ---------------------------
(***************************************************************************)
(* The words of the BitWeaving/H store (bitweaving_h_store.h).  A word of   *)
(* type T holds code_count codes of CodeSize bits, the first one lowest,   *)
(* each with a delimiter bit above it.  A comparison is a few word         *)
(* operations whose carries leave its truth value in the delimiter bits.   *)
(*                                                                         *)
(* A word is the set of its bits that are set.  "^" is then the symmetric  *)
(* difference, and "+" sets the bits where an odd number of the operands   *)
(* and the carry is set; the carry out of the last bit is lost.            *)
(***************************************************************************)
EXTENDS Integers

CONSTANTS
  CodeSize,   \* bits of a code
  WordBits    \* sizeof(T) * 8

\* The static_asserts of the class.
ASSUME CodeSizeAssumption ==
  /\ CodeSize \in Nat \ {0} /\ WordBits \in Nat \ {0}
  /\ CodeSize < WordBits
  /\ WordBits % (CodeSize + 1) = 0

Bit == 0 .. WordBits - 1

T == SUBSET Bit

code_count == WordBits \div (CodeSize + 1)

Code == 0 .. code_count - 1

CodeBit == 0 .. CodeSize - 1

-----------------------------------------------------------------------------
(* The operations of the processor on words.                               *)

Xor(x, y) == (x \ y) \union (y \ x)

Complement(x) == Bit \ x

\* Bit b receives a carry: one of the bits below it generates one, and those
\* in between hand it on.
Carried(x, y, b) ==
  \E g \in 0 .. b - 1 :
    g \in x /\ g \in y /\ \A h \in g + 1 .. b - 1 : h \in x \/ h \in y

Add(x, y) == Xor(Xor(x, y), {b \in Bit : Carried(x, y, b)})

\* The number a word stands for, read from its highest bit.
Number(w) ==
  LET read[n \in 0 .. WordBits] ==
        IF n = 0 THEN 0
        ELSE 2 * read[n - 1] + (IF WordBits - n \in w THEN 1 ELSE 0)
  IN  read[WordBits]

-----------------------------------------------------------------------------
(* The masks.                                                              *)

\* The bits p at the place of each code.
Spread(p) == {b \in Bit : b % (CodeSize + 1) \in p}

delimeter_bits_mask == Spread({CodeSize})
code_bits_mask == Complement(delimeter_bits_mask)
first_bit_mask == Spread({0})
max_value == CodeBit

\* pred is at most max_value, the function asserts.
create_predicate(pred) == Spread(pred)

-----------------------------------------------------------------------------
(* The comparisons.                                                        *)

cmp_neq(x, pred) == Add(Xor(x, pred), code_bits_mask)

cmp_eq(x, pred) == Complement(Add(Xor(x, pred), code_bits_mask))

cmp_lt(x, pred) == Add(pred, Xor(x, code_bits_mask))

\* Mutant: the comparison is strict.
cmp_leq_Strict(x, pred) == Add(pred, Xor(x, code_bits_mask))

cmp_leq(x, pred) == Add(Add(pred, Xor(x, code_bits_mask)), first_bit_mask)

cmp_gt(x, pred) == Add(x, Xor(pred, code_bits_mask))

cmp_geq(x, pred) == Add(Add(x, Xor(pred, code_bits_mask)), first_bit_mask)

\* The body of the parallel inequality, which is not that of cmp_neq.
cmp_neq_seq_par(x, pred) == Add(x, pred)

-----------------------------------------------------------------------------

\* The bit of a word that is bit j of its code c, or c's delimiter bit.
At(c, j) == c * (CodeSize + 1) + j

CodeOf(x, c) == {j \in CodeBit : At(c, j) \in x}

Delimiter(x, c) == At(c, CodeSize) \in x
=============================================================================
