---------------------------- MODULE MCBatchBuild ----------------------------
(***************************************************************************)
(* BatchBuild on a small instance: four keys of which two share a hash,    *)
(* one has the hash just below and one hashes to the slot behind the end   *)
(* of the table, so that probe paths collide, overlap and go round.        *)
(***************************************************************************)
EXTENDS BatchBuild

MCKey == 1 .. 4

MCHash == [k \in MCKey |-> CASE k \in {1, 2} -> 3
                             [] k = 3 -> 6
                             [] k = 4 -> 500]
=============================================================================
