----------------------------- MODULE MCElemBuild -----------------------------
(***************************************************************************)
(* The element-wise build and the array probe of its table on small        *)
(* instances, one hash function for each question: MCHashManyKeys keeps    *)
(* away from the end of the hash range, MCHashNearWord does not.           *)
(***************************************************************************)
EXTENDS ArrayProbe

MCKey == 1 .. 4

MCHashNearWord == [k \in MCKey |-> CASE k \in {1, 2} -> Word - 1
                                     [] k = 3 -> 6
                                     [] k = 4 -> 500]

(* More keys than slots.                                                   *)
MCManyKeys == 1 .. 5

(* Modulo four slots 1 and 2 collide, and so do 3 and 4.                   *)
MCHashManyKeys == [k \in MCManyKeys |-> CASE k \in {1, 2} -> 3
                                          [] k \in {3, 4} -> 6
                                          [] k = 5 -> 500]

(* A key twice, the keys of a collision in either order.                   *)
MCProbeKeys == {<<2, 1, 3>>, <<4, 5, 4>>}

NoProbes == {<<>>}
=============================================================================
