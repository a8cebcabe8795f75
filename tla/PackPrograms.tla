---------------------------- MODULE PackPrograms ----------------------------
(***************************************************************************)
(* The 96 specialisations of vertical_bitpacking<T>::pack<bw>, for T of 32 *)
(* and of 64 bits, in the file bitpacking_generator.cpp wrote.             *)
(*                                                                         *)
(* A specialisation is straight-line code: it takes the vectors of a chunk *)
(* in order, shifts each to its place in result_vector, and stores the     *)
(* vector of words when it is full.  Packer(b, c) has b equal batches; a   *)
(* batch stores Len(c) vectors of words.  The r-th starts with the vector  *)
(* whose c[r] low bits the word before already took (the code's ">> c[r]", *)
(* the end of store_result_remainder), or, if c[r] is 0, with a vector     *)
(* that is loaded unshifted; every further vector is placed bw bits higher *)
(* (the code's "<<") as long as its first bit falls into the word.         *)
(***************************************************************************)
EXTENDS Naturals, Sequences

(* One specialisation.                                                     *)
Packer(batches, carry) == [batches |-> batches, carry |-> carry]

-----------------------------------------------------------------------------
(* vertical_bitpacking<uint32_t>::pack<bw>.                                *)

pack32_1 == Packer(2, <<0>>)

pack32_2 == Packer(4, <<0>>)

pack32_3 == Packer(2, <<0, 2, 1>>)

pack32_4 == Packer(8, <<0>>)

pack32_5 == Packer(2, <<0, 2, 4, 1, 3>>)

pack32_6 == Packer(4, <<0, 2, 4>>)

pack32_7 == Packer(2, <<0, 4, 1, 5, 2, 6, 3>>)

pack32_8 == Packer(16, <<0>>)

pack32_9 == Packer(2, <<0, 5, 1, 6, 2, 7, 3, 8, 4>>)

pack32_10 == Packer(4, <<0, 2, 4, 6, 8>>)

pack32_11 == Packer(2, <<0, 10, 9, 8, 7, 6, 5, 4, 3, 2, 1>>)

pack32_12 == Packer(8, <<0, 8, 4>>)

pack32_13 == Packer(2, <<0, 6, 12, 5, 11, 4, 10, 3, 9, 2, 8, 1, 7>>)

pack32_14 == Packer(4, <<0, 4, 8, 12, 2, 6, 10>>)

pack32_15 == Packer(2, <<0, 2, 4, 6, 8, 10, 12, 14, 1, 3, 5, 7, 9, 11, 13>>)

pack32_16 == Packer(32, <<0>>)

pack32_17 == Packer(2, <<0, 15, 13, 11, 9, 7, 5, 3, 1, 16, 14, 12, 10, 8, 6,
    4, 2>>)

pack32_18 == Packer(4, <<0, 14, 10, 6, 2, 16, 12, 8, 4>>)

pack32_19 == Packer(2, <<0, 13, 7, 1, 14, 8, 2, 15, 9, 3, 16, 10, 4, 17, 11,
    5, 18, 12, 6>>)

pack32_20 == Packer(8, <<0, 12, 4, 16, 8>>)

pack32_21 == Packer(2, <<0, 11, 1, 12, 2, 13, 3, 14, 4, 15, 5, 16, 6, 17, 7,
    18, 8, 19, 9, 20, 10>>)

pack32_22 == Packer(4, <<0, 10, 20, 8, 18, 6, 16, 4, 14, 2, 12>>)

pack32_23 == Packer(2, <<0, 9, 18, 4, 13, 22, 8, 17, 3, 12, 21, 7, 16, 2, 11,
    20, 6, 15, 1, 10, 19, 5, 14>>)

pack32_24 == Packer(16, <<0, 8, 16>>)

pack32_25 == Packer(2, <<0, 7, 14, 21, 3, 10, 17, 24, 6, 13, 20, 2, 9, 16, 23,
    5, 12, 19, 1, 8, 15, 22, 4, 11, 18>>)

pack32_26 == Packer(4, <<0, 6, 12, 18, 24, 4, 10, 16, 22, 2, 8, 14, 20>>)

pack32_27 == Packer(2, <<0, 5, 10, 15, 20, 25, 3, 8, 13, 18, 23, 1, 6, 11, 16,
    21, 26, 4, 9, 14, 19, 24, 2, 7, 12, 17, 22>>)

pack32_28 == Packer(8, <<0, 4, 8, 12, 16, 20, 24>>)

pack32_29 == Packer(2, <<0, 3, 6, 9, 12, 15, 18, 21, 24, 27, 1, 4, 7, 10, 13,
    16, 19, 22, 25, 28, 2, 5, 8, 11, 14, 17, 20, 23, 26>>)

pack32_30 == Packer(4, <<0, 2, 4, 6, 8, 10, 12, 14, 16, 18, 20, 22, 24, 26,
    28>>)

pack32_31 == Packer(2, <<0, 1, 2, 3, 4, 5, 6, 7, 8, 9, 10, 11, 12, 13, 14, 15,
    16, 17, 18, 19, 20, 21, 22, 23, 24, 25, 26, 27, 28, 29, 30>>)

pack32_32 == Packer(64, <<0>>)

(* The switch of vertical_bitpacking<uint32_t>::compress_impl; it has no   *)
(* case for 0 bits.                                                        *)
compress_impl32 == <<pack32_1, pack32_2, pack32_3, pack32_4, pack32_5,
    pack32_6, pack32_7, pack32_8, pack32_9, pack32_10, pack32_11, pack32_12,
    pack32_13, pack32_14, pack32_15, pack32_16, pack32_17, pack32_18,
    pack32_19, pack32_20, pack32_21, pack32_22, pack32_23, pack32_24,
    pack32_25, pack32_26, pack32_27, pack32_28, pack32_29, pack32_30,
    pack32_31, pack32_32>>

-----------------------------------------------------------------------------
(* vertical_bitpacking<uint64_t>::pack<bw>.                                *)

pack64_1 == Packer(1, <<0>>)

pack64_2 == Packer(2, <<0>>)

pack64_3 == Packer(1, <<0, 1, 2>>)

pack64_4 == Packer(4, <<0>>)

pack64_5 == Packer(1, <<0, 4, 3, 2, 1>>)

pack64_6 == Packer(2, <<0, 4, 2>>)

pack64_7 == Packer(1, <<0, 1, 2, 3, 4, 5, 6>>)

pack64_8 == Packer(8, <<0>>)

pack64_9 == Packer(1, <<0, 1, 2, 3, 4, 5, 6, 7, 8>>)

pack64_10 == Packer(2, <<0, 4, 8, 2, 6>>)

pack64_11 == Packer(1, <<0, 9, 7, 5, 3, 1, 10, 8, 6, 4, 2>>)

pack64_12 == Packer(4, <<0, 4, 8>>)

pack64_13 == Packer(1, <<0, 12, 11, 10, 9, 8, 7, 6, 5, 4, 3, 2, 1>>)

pack64_14 == Packer(2, <<0, 8, 2, 10, 4, 12, 6>>)

pack64_15 == Packer(1, <<0, 4, 8, 12, 1, 5, 9, 13, 2, 6, 10, 14, 3, 7, 11>>)

pack64_16 == Packer(16, <<0>>)

pack64_17 == Packer(1, <<0, 13, 9, 5, 1, 14, 10, 6, 2, 15, 11, 7, 3, 16, 12,
    8, 4>>)

pack64_18 == Packer(2, <<0, 10, 2, 12, 4, 14, 6, 16, 8>>)

pack64_19 == Packer(1, <<0, 7, 14, 2, 9, 16, 4, 11, 18, 6, 13, 1, 8, 15, 3,
    10, 17, 5, 12>>)

pack64_20 == Packer(4, <<0, 4, 8, 12, 16>>)

pack64_21 == Packer(1, <<0, 1, 2, 3, 4, 5, 6, 7, 8, 9, 10, 11, 12, 13, 14, 15,
    16, 17, 18, 19, 20>>)

pack64_22 == Packer(2, <<0, 20, 18, 16, 14, 12, 10, 8, 6, 4, 2>>)

pack64_23 == Packer(1, <<0, 18, 13, 8, 3, 21, 16, 11, 6, 1, 19, 14, 9, 4, 22,
    17, 12, 7, 2, 20, 15, 10, 5>>)

pack64_24 == Packer(8, <<0, 16, 8>>)

pack64_25 == Packer(1, <<0, 14, 3, 17, 6, 20, 9, 23, 12, 1, 15, 4, 18, 7, 21,
    10, 24, 13, 2, 16, 5, 19, 8, 22, 11>>)

pack64_26 == Packer(2, <<0, 12, 24, 10, 22, 8, 20, 6, 18, 4, 16, 2, 14>>)

pack64_27 == Packer(1, <<0, 10, 20, 3, 13, 23, 6, 16, 26, 9, 19, 2, 12, 22, 5,
    15, 25, 8, 18, 1, 11, 21, 4, 14, 24, 7, 17>>)

pack64_28 == Packer(4, <<0, 8, 16, 24, 4, 12, 20>>)

pack64_29 == Packer(1, <<0, 6, 12, 18, 24, 1, 7, 13, 19, 25, 2, 8, 14, 20, 26,
    3, 9, 15, 21, 27, 4, 10, 16, 22, 28, 5, 11, 17, 23>>)

pack64_30 == Packer(2, <<0, 4, 8, 12, 16, 20, 24, 28, 2, 6, 10, 14, 18, 22,
    26>>)

pack64_31 == Packer(1, <<0, 2, 4, 6, 8, 10, 12, 14, 16, 18, 20, 22, 24, 26,
    28, 30, 1, 3, 5, 7, 9, 11, 13, 15, 17, 19, 21, 23, 25, 27, 29>>)

pack64_32 == Packer(32, <<0>>)

pack64_33 == Packer(1, <<0, 31, 29, 27, 25, 23, 21, 19, 17, 15, 13, 11, 9, 7,
    5, 3, 1, 32, 30, 28, 26, 24, 22, 20, 18, 16, 14, 12, 10, 8, 6, 4, 2>>)

pack64_34 == Packer(2, <<0, 30, 26, 22, 18, 14, 10, 6, 2, 32, 28, 24, 20, 16,
    12, 8, 4>>)

pack64_35 == Packer(1, <<0, 29, 23, 17, 11, 5, 34, 28, 22, 16, 10, 4, 33, 27,
    21, 15, 9, 3, 32, 26, 20, 14, 8, 2, 31, 25, 19, 13, 7, 1, 30, 24, 18, 12,
    6>>)

pack64_36 == Packer(4, <<0, 28, 20, 12, 4, 32, 24, 16, 8>>)

pack64_37 == Packer(1, <<0, 27, 17, 7, 34, 24, 14, 4, 31, 21, 11, 1, 28, 18,
    8, 35, 25, 15, 5, 32, 22, 12, 2, 29, 19, 9, 36, 26, 16, 6, 33, 23, 13, 3,
    30, 20, 10>>)

pack64_38 == Packer(2, <<0, 26, 14, 2, 28, 16, 4, 30, 18, 6, 32, 20, 8, 34,
    22, 10, 36, 24, 12>>)

pack64_39 == Packer(1, <<0, 25, 11, 36, 22, 8, 33, 19, 5, 30, 16, 2, 27, 13,
    38, 24, 10, 35, 21, 7, 32, 18, 4, 29, 15, 1, 26, 12, 37, 23, 9, 34, 20, 6,
    31, 17, 3, 28, 14>>)

pack64_40 == Packer(8, <<0, 24, 8, 32, 16>>)

pack64_41 == Packer(1, <<0, 23, 5, 28, 10, 33, 15, 38, 20, 2, 25, 7, 30, 12,
    35, 17, 40, 22, 4, 27, 9, 32, 14, 37, 19, 1, 24, 6, 29, 11, 34, 16, 39,
    21, 3, 26, 8, 31, 13, 36, 18>>)

pack64_42 == Packer(2, <<0, 22, 2, 24, 4, 26, 6, 28, 8, 30, 10, 32, 12, 34,
    14, 36, 16, 38, 18, 40, 20>>)

pack64_43 == Packer(1, <<0, 21, 42, 20, 41, 19, 40, 18, 39, 17, 38, 16, 37,
    15, 36, 14, 35, 13, 34, 12, 33, 11, 32, 10, 31, 9, 30, 8, 29, 7, 28, 6,
    27, 5, 26, 4, 25, 3, 24, 2, 23, 1, 22>>)

pack64_44 == Packer(4, <<0, 20, 40, 16, 36, 12, 32, 8, 28, 4, 24>>)

pack64_45 == Packer(1, <<0, 19, 38, 12, 31, 5, 24, 43, 17, 36, 10, 29, 3, 22,
    41, 15, 34, 8, 27, 1, 20, 39, 13, 32, 6, 25, 44, 18, 37, 11, 30, 4, 23,
    42, 16, 35, 9, 28, 2, 21, 40, 14, 33, 7, 26>>)

pack64_46 == Packer(2, <<0, 18, 36, 8, 26, 44, 16, 34, 6, 24, 42, 14, 32, 4,
    22, 40, 12, 30, 2, 20, 38, 10, 28>>)

pack64_47 == Packer(1, <<0, 17, 34, 4, 21, 38, 8, 25, 42, 12, 29, 46, 16, 33,
    3, 20, 37, 7, 24, 41, 11, 28, 45, 15, 32, 2, 19, 36, 6, 23, 40, 10, 27,
    44, 14, 31, 1, 18, 35, 5, 22, 39, 9, 26, 43, 13, 30>>)

pack64_48 == Packer(16, <<0, 16, 32>>)

pack64_49 == Packer(1, <<0, 15, 30, 45, 11, 26, 41, 7, 22, 37, 3, 18, 33, 48,
    14, 29, 44, 10, 25, 40, 6, 21, 36, 2, 17, 32, 47, 13, 28, 43, 9, 24, 39,
    5, 20, 35, 1, 16, 31, 46, 12, 27, 42, 8, 23, 38, 4, 19, 34>>)

pack64_50 == Packer(2, <<0, 14, 28, 42, 6, 20, 34, 48, 12, 26, 40, 4, 18, 32,
    46, 10, 24, 38, 2, 16, 30, 44, 8, 22, 36>>)

pack64_51 == Packer(1, <<0, 13, 26, 39, 1, 14, 27, 40, 2, 15, 28, 41, 3, 16,
    29, 42, 4, 17, 30, 43, 5, 18, 31, 44, 6, 19, 32, 45, 7, 20, 33, 46, 8, 21,
    34, 47, 9, 22, 35, 48, 10, 23, 36, 49, 11, 24, 37, 50, 12, 25, 38>>)

pack64_52 == Packer(4, <<0, 12, 24, 36, 48, 8, 20, 32, 44, 4, 16, 28, 40>>)

pack64_53 == Packer(1, <<0, 11, 22, 33, 44, 2, 13, 24, 35, 46, 4, 15, 26, 37,
    48, 6, 17, 28, 39, 50, 8, 19, 30, 41, 52, 10, 21, 32, 43, 1, 12, 23, 34,
    45, 3, 14, 25, 36, 47, 5, 16, 27, 38, 49, 7, 18, 29, 40, 51, 9, 20, 31,
    42>>)

pack64_54 == Packer(2, <<0, 10, 20, 30, 40, 50, 6, 16, 26, 36, 46, 2, 12, 22,
    32, 42, 52, 8, 18, 28, 38, 48, 4, 14, 24, 34, 44>>)

pack64_55 == Packer(1, <<0, 9, 18, 27, 36, 45, 54, 8, 17, 26, 35, 44, 53, 7,
    16, 25, 34, 43, 52, 6, 15, 24, 33, 42, 51, 5, 14, 23, 32, 41, 50, 4, 13,
    22, 31, 40, 49, 3, 12, 21, 30, 39, 48, 2, 11, 20, 29, 38, 47, 1, 10, 19,
    28, 37, 46>>)

pack64_56 == Packer(8, <<0, 8, 16, 24, 32, 40, 48>>)

pack64_57 == Packer(1, <<0, 7, 14, 21, 28, 35, 42, 49, 56, 6, 13, 20, 27, 34,
    41, 48, 55, 5, 12, 19, 26, 33, 40, 47, 54, 4, 11, 18, 25, 32, 39, 46, 53,
    3, 10, 17, 24, 31, 38, 45, 52, 2, 9, 16, 23, 30, 37, 44, 51, 1, 8, 15, 22,
    29, 36, 43, 50>>)

pack64_58 == Packer(2, <<0, 6, 12, 18, 24, 30, 36, 42, 48, 54, 2, 8, 14, 20,
    26, 32, 38, 44, 50, 56, 4, 10, 16, 22, 28, 34, 40, 46, 52>>)

pack64_59 == Packer(1, <<0, 5, 10, 15, 20, 25, 30, 35, 40, 45, 50, 55, 1, 6,
    11, 16, 21, 26, 31, 36, 41, 46, 51, 56, 2, 7, 12, 17, 22, 27, 32, 37, 42,
    47, 52, 57, 3, 8, 13, 18, 23, 28, 33, 38, 43, 48, 53, 58, 4, 9, 14, 19,
    24, 29, 34, 39, 44, 49, 54>>)

pack64_60 == Packer(4, <<0, 4, 8, 12, 16, 20, 24, 28, 32, 36, 40, 44, 48, 52,
    56>>)

pack64_61 == Packer(1, <<0, 3, 6, 9, 12, 15, 18, 21, 24, 27, 30, 33, 36, 39,
    42, 45, 48, 51, 54, 57, 60, 2, 5, 8, 11, 14, 17, 20, 23, 26, 29, 32, 35,
    38, 41, 44, 47, 50, 53, 56, 59, 1, 4, 7, 10, 13, 16, 19, 22, 25, 28, 31,
    34, 37, 40, 43, 46, 49, 52, 55, 58>>)

pack64_62 == Packer(2, <<0, 2, 4, 6, 8, 10, 12, 14, 16, 18, 20, 22, 24, 26,
    28, 30, 32, 34, 36, 38, 40, 42, 44, 46, 48, 50, 52, 54, 56, 58, 60>>)

pack64_63 == Packer(1, <<0, 1, 2, 3, 4, 5, 6, 7, 8, 9, 10, 11, 12, 13, 14, 15,
    16, 17, 18, 19, 20, 21, 22, 23, 24, 25, 26, 27, 28, 29, 30, 31, 32, 33,
    34, 35, 36, 37, 38, 39, 40, 41, 42, 43, 44, 45, 46, 47, 48, 49, 50, 51,
    52, 53, 54, 55, 56, 57, 58, 59, 60, 61, 62>>)

pack64_64 == Packer(64, <<0>>)

(* The switch of vertical_bitpacking<uint64_t>::compress_impl.             *)
compress_impl64 == <<pack64_1, pack64_2, pack64_3, pack64_4, pack64_5,
    pack64_6, pack64_7, pack64_8, pack64_9, pack64_10, pack64_11, pack64_12,
    pack64_13, pack64_14, pack64_15, pack64_16, pack64_17, pack64_18,
    pack64_19, pack64_20, pack64_21, pack64_22, pack64_23, pack64_24,
    pack64_25, pack64_26, pack64_27, pack64_28, pack64_29, pack64_30,
    pack64_31, pack64_32, pack64_33, pack64_34, pack64_35, pack64_36,
    pack64_37, pack64_38, pack64_39, pack64_40, pack64_41, pack64_42,
    pack64_43, pack64_44, pack64_45, pack64_46, pack64_47, pack64_48,
    pack64_49, pack64_50, pack64_51, pack64_52, pack64_53, pack64_54,
    pack64_55, pack64_56, pack64_57, pack64_58, pack64_59, pack64_60,
    pack64_61, pack64_62, pack64_63, pack64_64>>

=============================================================================
