------------------------------ MODULE MCHashMap ------------------------------
(***************************************************************************)
(* Instances of HashMap for TLC.  With ShrinkFloor 1 four keys and eight   *)
(* slots are enough to enlarge 0 -> 1 -> 2 -> 4 -> 8, to fill a table of   *)
(* four, and to shrink 8 -> 4.  Three keys share a home in the table of    *)
(* four and two in the table of eight, at its last slot, so that probes    *)
(* collide and wrap around.                                                *)
(***************************************************************************)
EXTENDS HashMap, TLC

CONSTANTS k1, k2, k3, k4

MCKeys == {k1, k2, k3, k4}

MCHash == (k1 :> 7) @@ (k2 :> 7) @@ (k3 :> 0) @@ (k4 :> 3)
=============================================================================
