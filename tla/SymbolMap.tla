------------------------------ MODULE SymbolMap ------------------------------
(***************************************************************************)
(* What the object manager relies on in each of its symbol tables          *)
(* (rdx_hashmap.hpp): a partial map from keys to values.  Storing a pair   *)
(* is requested and then either happens or fails as a whole; a garbage     *)
(* collection may remove entries at any time, also during a request.       *)
(***************************************************************************)
CONSTANTS Keys, Values, NoKey, NoValue

VARIABLES
  map,       \* a function whose domain is the set of keys present
  request,   \* the pair to be stored, if any
  outcome    \* how the last request ended

vars == <<map, request, outcome>>

NoRequest == [k |-> NoKey, v |-> NoValue]

Init ==
  /\ map = [k \in {} |-> NoValue]
  /\ request = NoRequest
  /\ outcome = "none"

Request(k, v) ==
  /\ request = NoRequest
  /\ request' = [k |-> k, v |-> v]
  /\ outcome' = "none"
  /\ UNCHANGED map

\* No room for one more entry was to be had: the request is not taken.
Refuse ==
  /\ request = NoRequest
  /\ outcome' = "failed"
  /\ UNCHANGED <<map, request>>

Store ==
  /\ request # NoRequest
  /\ map' = [k \in DOMAIN map \cup {request.k} |->
               IF k = request.k THEN request.v ELSE map[k]]
  /\ request' = NoRequest
  /\ outcome' = "stored"

Fail ==
  /\ request # NoRequest
  /\ request' = NoRequest
  /\ outcome' = "failed"
  /\ UNCHANGED map

Remove(k) ==
  /\ k \in DOMAIN map
  /\ map' = [x \in DOMAIN map \ {k} |-> map[x]]
  /\ UNCHANGED <<request, outcome>>

Next ==
  \/ \E k \in Keys, v \in Values : Request(k, v)
  \/ Refuse
  \/ Store
  \/ Fail
  \/ \E k \in Keys : Remove(k)

Spec == Init /\ [][Next]_vars
=============================================================================
