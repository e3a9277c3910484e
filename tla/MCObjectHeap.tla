----------------------------- MODULE MCObjectHeap -----------------------------
(***************************************************************************)
(* Instances of ObjectHeap for TLC.                                        *)
(***************************************************************************)
EXTENDS ObjectHeap, TLC

CONSTANTS o1, o2, o3, o4

\* Objects outside Foreign, Packages and Types are interchangeable.
MCSymmetry == Permutations(Objects \ (Foreign \cup Packages \cup Types))
=============================================================================
