-------------------------- MODULE BitweavingColumn --------------------------
(* The column of a BitWeaving/H store: its words, and their number.        *)
EXTENDS Integers

CONSTANT data_count

VARIABLE data

Index == 0 .. data_count - 1
=============================================================================
