---------------------------- MODULE HashMapProofs ----------------------------
(***************************************************************************)
(* Proofs about HashMap (rdx_hashmap.hpp) for every set of keys, every     *)
(* hash function, every table size and every ShrinkFloor.                  *)
(*                                                                         *)
(* The inductive invariant Inv says, besides what is to be proved: the     *)
(* entries of a table that is not being rehashed are all settled and       *)
(* reachable from their homes; during a rehash the settled entries already *)
(* are reachable in the new size, over settled entries only, and nothing   *)
(* below the cursor is loose; and an Insert under way has room.            *)
(***************************************************************************)
EXTENDS HashMap, FiniteSetTheorems, TLAPS

DataSlots == {i \in Slots : IsData(i)}

DataOK ==
  \A i \in Slots : IsData(i) =>
    /\ i < numEntries
    /\ entries[i].k \in Keys
    /\ entries[i].hash = Hash[entries[i].k]

Settled == pc # "rehash" => \A i \in Slots : entries[i].elementType # "Loose"

Reachable ==
  pc # "rehash" =>
    \A i \in Slots : \A j \in Indices(numEntries) :
      IsFilled(i) /\ Before(j, i, entries[i].hash, numEntries)
        => entries[j].elementType # "Empty"

RehashSizes ==
  pc = "rehash" =>
    /\ newCount > 0
    /\ \/ oldCount < newCount /\ numEntries = newCount
       \/ newCount < oldCount /\ numEntries = oldCount
    /\ cursor <= oldCount
    /\ load * 100 < LoadFactor * newCount

RehashEntries ==
  pc = "rehash" =>
    \A i \in Slots :
      /\ entries[i].elementType = "Loose" => cursor <= i /\ i < oldCount
      /\ i < numEntries => entries[i].elementType # "Deleted"
      /\ IsFilled(i) =>
           /\ i < newCount
           /\ \A j \in Indices(newCount) :
                Before(j, i, entries[i].hash, newCount) => IsFilled(j)

Inserting ==
  \/ pc \in {"place", "construct"}
  \/ pc \in {"sweep", "balance"} /\ caller = "construct"
  \/ pc = "rehash" /\ (oldCount < newCount \/ caller = "construct")

Constructing ==
  \/ pc = "construct"
  \/ pc \in {"sweep", "balance"} /\ caller = "construct"
  \/ pc = "rehash" /\ newCount < oldCount /\ caller = "construct"

PendingOK ==
  Inserting =>
    /\ pending.k \in Keys
    /\ pending.v \in Values
    /\ pc # "rehash" => load * 100 < LoadFactor * numEntries

PendingAbsent ==
  Constructing =>
    /\ \A i \in Slots : IsData(i) => entries[i].k # pending.k
    /\ pc # "construct" => Allocates
    /\ pc = "construct" /\ ~Allocates =>
         pending.index \in Indices(numEntries) /\ InsertableAt(pending.k, pending.index)

\* The inductive invariant.
Inv ==
  /\ TypeOK
  /\ UniqueKeys
  /\ LoadIsExact
  /\ DataOK
  /\ Settled
  /\ Reachable
  /\ RehashSizes
  /\ RehashEntries
  /\ load <= numEntries
  /\ PendingOK
  /\ PendingAbsent

-----------------------------------------------------------------------------
(***************************************************************************)
(* Numbers and probes.                                                     *)
(***************************************************************************)

\* A non-empty set of naturals has a least element: the initial segments up to
\* its members are well-founded by strict inclusion.
LEMMA LeastNatural ==
  ASSUME NEW T \in SUBSET Nat, T # {}
  PROVE  \E m \in T : \A n \in T : m <= n
<1> DEFINE Seg(x) == 0..(x - 1)
           Segs == {Seg(x) : x \in T}
           R == StrictSubsetOrdering(Nat)
<1>1. IsWellFoundedOn(R, FiniteSubsetsOf(Nat))
  BY FS_StrictSubsetOrderingWellFounded
<1>2. Segs \subseteq FiniteSubsetsOf(Nat)
  <2> SUFFICES ASSUME NEW x \in T PROVE Seg(x) \in FiniteSubsetsOf(Nat)
    OBVIOUS
  <2>1. IsFiniteSet(Seg(x))
    BY FS_Interval
  <2>2. Seg(x) \subseteq Nat
    OBVIOUS
  <2> QED BY <2>1, <2>2 DEF FiniteSubsetsOf
<1>3. Segs # {}
  OBVIOUS
<1>4. PICK s \in Segs : \A t \in Segs : <<t, s>> \notin R
  <2> HIDE DEF Segs, R
  <2> QED BY <1>1, <1>2, <1>3, WFMin
<1>5. PICK m \in T : s = Seg(m)
  OBVIOUS
<1>6. ASSUME NEW n \in T, n < m PROVE FALSE
  <2>1. Seg(n) \subseteq Seg(m) /\ Seg(n) # Seg(m)
    <3>1. n \in Seg(m) /\ n \notin Seg(n)
      BY <1>6
    <3> QED BY <3>1, <1>6
  <2>2. Seg(n) \in SUBSET Nat /\ Seg(m) \in SUBSET Nat
    OBVIOUS
  <2>3. <<Seg(n), Seg(m)>> \in R
    BY <2>1, <2>2 DEF StrictSubsetOrdering
  <2> QED BY <2>3, <1>4, <1>5
<1> QED BY <1>6

\* The home of a hash lies inside the table.
LEMMA HomeType ==
  ASSUME NEW h \in Nat, NEW n \in Nat, n > 0
  PROVE  rdxHashValueIndex(h, n) \in Indices(n)
BY DEF rdxHashValueIndex, Indices

\* Before is a strict total order of the slots of a table.
LEMMA BeforeOrders ==
  ASSUME NEW h \in Nat, NEW n \in Nat, NEW i \in Indices(n), NEW j \in Indices(n)
  PROVE  /\ ~Before(i, i, h, n)
         /\ i # j => Before(i, j, h, n) \/ Before(j, i, h, n)
<1>1. n > 0
  BY DEF Indices
<1>2. rdxHashValueIndex(h, n) \in Indices(n)
  BY <1>1, HomeType
<1> QED BY <1>2 DEF Before, Distance, Indices

\* Of a non-empty set of slots, one comes first in the probe for h.
LEMMA FirstOfProbe ==
  ASSUME NEW h \in Nat, NEW n \in Nat, NEW T \in SUBSET Indices(n), T # {}
  PROVE  \E i \in T : \A j \in T : ~Before(j, i, h, n)
<1> DEFINE D(i) == Distance(rdxHashValueIndex(h, n), i, n)
           Ds == {D(i) : i \in T}
<1>1. n > 0
  <2>1. PICK x \in T : TRUE
    OBVIOUS
  <2>2. x \in Indices(n)
    OBVIOUS
  <2> QED BY <2>2 DEF Indices
<1>2. rdxHashValueIndex(h, n) \in Indices(n)
  BY <1>1, HomeType
<1>3. \A i \in T : D(i) \in Nat
  BY <1>2 DEF Distance, Indices
<1>4. Ds \in SUBSET Nat /\ Ds # {}
  BY <1>3
<1>5. PICK m \in Ds : \A d \in Ds : m <= d
  <2> HIDE DEF Ds
  <2> QED BY <1>4, LeastNatural
<1>6. PICK i \in T : m = D(i)
  OBVIOUS
<1>7. \A j \in T : D(i) <= D(j)
  BY <1>5, <1>6
<1>8. ASSUME NEW j \in T PROVE ~Before(j, i, h, n)
  <2>1. D(i) <= D(j) /\ D(i) \in Nat /\ D(j) \in Nat
    BY <1>3, <1>7
  <2> QED BY <2>1 DEF Before
<1> QED BY <1>8

-----------------------------------------------------------------------------
(***************************************************************************)
(* The entries as a finite set.                                            *)
(***************************************************************************)

\* The slots that hold data are a finite set.
LEMMA DataSlotsFinite ==
  /\ IsFiniteSet(DataSlots)
  /\ Cardinality(DataSlots) \in Nat
<1>1. IsFiniteSet(Slots)
  BY ConstantsAssumption, FS_Interval DEF Slots
<1>2. DataSlots \in SUBSET Slots
  BY DEF DataSlots
<1>3. IsFiniteSet(DataSlots)
  BY <1>1, <1>2, FS_Subset
<1> QED BY <1>3, FS_CardinalityType

\* A table with more slots than entries has a slot without an entry.
LEMMA FreeSlot ==
  ASSUME TypeOK, LoadIsExact, load < numEntries
  PROVE  \E i \in Indices(numEntries) : ~IsFilled(i)
<1>1. SUFFICES ASSUME \A i \in Indices(numEntries) : IsFilled(i)
               PROVE FALSE
  OBVIOUS
<1>2. Indices(numEntries) \in SUBSET DataSlots
  BY <1>1, ConstantsAssumption DEF TypeOK, Indices, Slots, DataSlots, IsFilled, IsData
<1>3. Cardinality(Indices(numEntries)) <= Cardinality(DataSlots)
  BY <1>2, DataSlotsFinite, FS_Subset
<1>4. Cardinality(Indices(numEntries)) = numEntries
  <2>1. numEntries \in Nat
    BY DEF TypeOK
  <2>2. Cardinality(0..(numEntries - 1)) = IF 0 > numEntries - 1 THEN 0 ELSE numEntries - 1 - 0 + 1
    BY <2>1, FS_Interval
  <2> QED BY <2>1, <2>2 DEF Indices
<1>5. load = Cardinality(DataSlots)
  BY DEF LoadIsExact, DataSlots
<1> QED BY <1>3, <1>4, <1>5, DataSlotsFinite DEF TypeOK

\* Then the probe of every key meets a slot to insert it at.
LEMMA InsertableExists ==
  ASSUME TypeOK, LoadIsExact, load < numEntries, NEW k \in Keys
  PROVE  \E i \in Indices(numEntries) : InsertableAt(k, i)
<1> DEFINE T == {i \in Indices(numEntries) : ~IsFilled(i)}
<1>1. T \in SUBSET Indices(numEntries) /\ T # {}
  BY FreeSlot
<1>2. Hash[k] \in Nat /\ numEntries \in Nat
  BY ConstantsAssumption DEF TypeOK
<1>3. PICK i \in T : \A j \in T : ~Before(j, i, Hash[k], numEntries)
  <2> HIDE DEF T
  <2> QED BY <1>1, <1>2, FirstOfProbe
<1>4. InsertableAt(k, i)
  BY <1>3 DEF InsertableAt
<1> QED BY <1>4

\* What a lookup returns for a key that is not there.
LEMMA LookupOfAbsent ==
  ASSUME TypeOK, LoadIsExact, load < numEntries, NEW k \in Keys,
         \A i \in Slots : IsData(i) => entries[i].k # k
  PROVE  /\ ~Found(k)
         /\ FindElementIndex(k) \in Indices(numEntries)
         /\ InsertableAt(k, FindElementIndex(k))
<1>1. Indices(numEntries) \subseteq Slots
  BY ConstantsAssumption DEF TypeOK, Indices, Slots
<1>2. ~Found(k)
  BY <1>1 DEF Found, HitAt, Matches
<1>3. \E i \in Indices(numEntries) : InsertableAt(k, i)
  BY InsertableExists
<1>4. FindElementIndex(k) = CHOOSE i \in Indices(numEntries) : InsertableAt(k, i)
  BY <1>2, <1>3 DEF FindElementIndex
<1> QED BY <1>2, <1>3, <1>4

\* A lookup always returns a slot of the array, and one that finds its key
\* returns the slot of that key.
LEMMA LookupType ==
  ASSUME TypeOK, NEW k
  PROVE  /\ FindElementIndex(k) \in Slots
         /\ Found(k) => /\ FindElementIndex(k) \in Indices(numEntries)
                        /\ HitAt(k, FindElementIndex(k))
<1>1. Indices(numEntries) \subseteq Slots /\ 0 \in Slots
  BY ConstantsAssumption DEF TypeOK, Indices, Slots
<1> QED BY <1>1 DEF FindElementIndex, Found

\* In a table that can be searched, a key that is there is found.
LEMMA PresentIsFound ==
  ASSUME Inv, pc # "rehash", NEW i \in Slots, IsData(i)
  PROVE  /\ i \in Indices(numEntries)
         /\ HitAt(entries[i].k, i)
<1>1. i \in Indices(numEntries)
  BY DEF Inv, DataOK, Slots, Indices, TypeOK
<1>2. IsFilled(i)
  BY DEF Inv, Settled, IsData, IsFilled
<1>3. Matches(entries[i].k, i)
  BY DEF Inv, DataOK, Matches
<1>4. entries[i].hash \in Nat /\ entries[i].hash = Hash[entries[i].k] /\ numEntries \in Nat
  BY DEF Inv, DataOK, TypeOK, Entry
<1>5. Indices(numEntries) \subseteq Slots
  BY ConstantsAssumption DEF Inv, TypeOK, Indices, Slots
<1>6. ASSUME NEW j \in Indices(numEntries),
             Before(j, i, Hash[entries[i].k], numEntries)
      PROVE  ~Matches(entries[i].k, j) /\ entries[j].elementType # "Empty"
  <2>1. j # i
    BY <1>1, <1>4, <1>6, BeforeOrders
  <2>2. ~Matches(entries[i].k, j)
    BY <2>1, <1>5 DEF Inv, UniqueKeys, Matches
  <2>3. entries[j].elementType # "Empty"
    BY <1>2, <1>4, <1>6 DEF Inv, Reachable
  <2> QED BY <2>2, <2>3
<1> QED BY <1>1, <1>3, <1>6 DEF HitAt

-----------------------------------------------------------------------------
(***************************************************************************)
(* Every action preserves the inductive invariant.                         *)
(***************************************************************************)

\* A table that was never used, without an array, satisfies the invariant.
LEMMA InitInv == Init => Inv
<1> SUFFICES ASSUME Init PROVE Inv
  OBVIOUS
<1>1. \A i \in Slots : ~IsData(i) /\ entries[i] = InitializedElement
  BY DEF Init, IsData, InitializedElement
<1>2. TypeOK
  BY ConstantsAssumption
  DEF Init, TypeOK, Entry, InitializedElement, NoPending, HashElementType, Slots
<1>3. LoadIsExact
  <2>1. {i \in Slots : IsData(i)} = {}
    BY <1>1
  <2> QED BY <2>1, FS_EmptySet DEF LoadIsExact, Init
<1>4. UniqueKeys /\ DataOK
  BY <1>1 DEF UniqueKeys, DataOK
<1>5. Settled /\ Reachable
  BY <1>1 DEF Settled, Reachable, Init, InitializedElement, IsData, IsFilled
<1>6. RehashSizes /\ RehashEntries /\ load <= numEntries /\ PendingOK /\ PendingAbsent
  BY DEF Init, RehashSizes, RehashEntries, PendingOK, PendingAbsent, Inserting, Constructing
<1> QED BY <1>2, <1>3, <1>4, <1>5, <1>6 DEF Inv

\* Loosening the entries of the lower slots and, if the table grows, clearing
\* those above them leaves the data where and what it is.
LEMMA LoosenedData ==
  ASSUME Inv, pc # "rehash", NEW m \in Nat, numEntries <= m,
         entries' = [i \in Slots |-> IF i < numEntries THEN Loosened(entries[i])
                                    ELSE IF i < m THEN InitializedElement
                                    ELSE entries[i]]
  PROVE  /\ entries' \in [Slots -> Entry]
         /\ DataSlots' = DataSlots
         /\ \A i \in Slots :
              /\ IsData(i)' <=> IsData(i)
              /\ ~IsFilled(i)'
              /\ IsData(i) => /\ entries'[i].k = entries[i].k
                              /\ entries'[i].hash = entries[i].hash
                              /\ entries'[i].elementType = "Loose"
              /\ i < m => entries'[i].elementType # "Deleted"
<1>1. \A i \in Slots : entries[i] \in Entry
  BY DEF Inv, TypeOK
<1>2. InitializedElement \in Entry
  BY DEF InitializedElement, Entry, HashElementType
<1>3. ASSUME NEW i \in Slots
      PROVE  /\ Loosened(entries[i]) \in Entry
             /\ Loosened(entries[i]).k = entries[i].k
             /\ Loosened(entries[i]).hash = entries[i].hash
             /\ Loosened(entries[i]).elementType =
                  IF IsData(i) THEN "Loose" ELSE "Empty"
  BY <1>1 DEF Loosened, Entry, IsData, HashElementType
<1>4. \A i \in Slots : IsData(i) => i < numEntries
  BY DEF Inv, DataOK
<1>5. \A i \in Slots : i \in Int /\ numEntries \in Int /\ m \in Int
  BY ConstantsAssumption DEF Slots, Inv, TypeOK
<1>6. entries' \in [Slots -> Entry]
  BY <1>1, <1>2, <1>3
<1>7. ASSUME NEW i \in Slots
      PROVE  /\ IsData(i)' <=> IsData(i)
             /\ ~IsFilled(i)'
             /\ IsData(i) => /\ entries'[i].k = entries[i].k
                             /\ entries'[i].hash = entries[i].hash
                             /\ entries'[i].elementType = "Loose"
             /\ i < m => entries'[i].elementType # "Deleted"
  <2>1. CASE i < numEntries
    <3>1. entries'[i] = Loosened(entries[i])
      BY <2>1
    <3> QED BY <3>1, <1>3 DEF IsData, IsFilled
  <2>2. CASE ~(i < numEntries) /\ i < m
    <3>1. entries'[i] = InitializedElement
      BY <2>2
    <3>2. ~IsData(i)
      BY <2>2, <1>4
    <3> QED BY <3>1, <3>2 DEF IsData, IsFilled, InitializedElement
  <2>3. CASE ~(i < numEntries) /\ ~(i < m)
    <3>1. entries'[i] = entries[i]
      BY <2>3
    <3>2. ~IsData(i)
      BY <2>3, <1>4
    <3> QED BY <2>3, <3>1, <3>2 DEF IsData, IsFilled
  <2> QED BY <2>1, <2>2, <2>3
<1>8. DataSlots' = DataSlots
  BY <1>7 DEF DataSlots
<1> QED BY <1>6, <1>7, <1>8

\* Starting a rehash keeps the data; all of it is loose.
LEMMA StartRehashInv ==
  ASSUME Inv, pc # "rehash",
         NEW m \in Nat, m \in 1..MaxEntries, m # numEntries,
         load * 100 < LoadFactor * m,
         entries' = [i \in Slots |-> IF i < numEntries THEN Loosened(entries[i])
                                    ELSE IF i < m THEN InitializedElement
                                    ELSE entries[i]],
         numEntries' = IF m > numEntries THEN m ELSE numEntries,
         StartRehash(numEntries, m),
         load' = load, caller' = caller,
         outcome' \in {"none", "stored", "failed"},
         pending' \in [k : Keys \cup {NoKey}, v : Values \cup {NoValue}, index : Slots],
         PendingOK', PendingAbsent'
  PROVE  Inv'
<1>1. /\ entries' \in [Slots -> Entry]
      /\ DataSlots' = DataSlots
      /\ \A i \in Slots :
           /\ IsData(i)' <=> IsData(i)
           /\ ~IsFilled(i)'
           /\ IsData(i) => /\ entries'[i].k = entries[i].k
                           /\ entries'[i].hash = entries[i].hash
                           /\ entries'[i].elementType = "Loose"
           /\ i < numEntries' => entries'[i].elementType # "Deleted"
  <2>1. CASE m > numEntries
    <3>1. numEntries \in Nat /\ m \in Nat
      BY DEF Inv, TypeOK
    <3>2. numEntries <= m /\ numEntries' = m
      BY <2>1, <3>1
    <3> QED BY <3>2, LoosenedData
  <2>2. CASE ~(m > numEntries)
    <3>1. numEntries \in Nat /\ m \in Nat
      BY DEF Inv, TypeOK
    <3>2. \A i \in Slots : i \in Int
      BY ConstantsAssumption DEF Slots
    <3>3. entries' = [i \in Slots |-> IF i < numEntries THEN Loosened(entries[i])
                                     ELSE IF i < numEntries THEN InitializedElement
                                     ELSE entries[i]]
      BY <2>2, <3>1, <3>2
    <3>4. numEntries' = numEntries
      BY <2>2
    <3> QED BY <3>1, <3>3, <3>4, LoosenedData
  <2> QED BY <2>1, <2>2
<1>2. /\ numEntries \in Nat /\ numEntries <= MaxEntries /\ load \in Nat
      /\ load <= numEntries /\ MaxEntries \in Nat /\ m <= MaxEntries
      /\ numEntries' \in Nat /\ numEntries' <= MaxEntries /\ numEntries <= numEntries'
  BY ConstantsAssumption DEF Inv, TypeOK
<1>3. pc' = "rehash" /\ cursor' = 0 /\ oldCount' = numEntries /\ newCount' = m
  BY DEF StartRehash
<1>4. TypeOK'
  BY <1>1, <1>2, <1>3 DEF Inv, TypeOK
<1>5. UniqueKeys'
  BY <1>1 DEF Inv, UniqueKeys
<1>6. LoadIsExact'
  BY <1>1 DEF Inv, LoadIsExact, DataSlots
<1>7. DataOK'
  <2> SUFFICES ASSUME NEW i \in Slots, IsData(i)'
               PROVE  /\ i < numEntries'
                      /\ entries'[i].k \in Keys
                      /\ entries'[i].hash = Hash[entries'[i].k]
    BY DEF DataOK
  <2>1. IsData(i)
    BY <1>1
  <2>2. i < numEntries /\ entries[i].k \in Keys /\ entries[i].hash = Hash[entries[i].k]
    BY <2>1 DEF Inv, DataOK
  <2>3. i \in Int
    BY ConstantsAssumption DEF Slots
  <2> QED BY <1>1, <1>2, <2>1, <2>2, <2>3
<1>8. Settled' /\ Reachable'
  BY <1>3 DEF Settled, Reachable
<1>9. RehashSizes'
  BY <1>2, <1>3 DEF RehashSizes
<1>10. RehashEntries'
  <2> SUFFICES ASSUME NEW i \in Slots
               PROVE  /\ entries'[i].elementType = "Loose" => 0 <= i /\ i < numEntries
                      /\ i < numEntries' => entries'[i].elementType # "Deleted"
                      /\ ~IsFilled(i)'
    BY <1>3 DEF RehashEntries
  <2>1. entries'[i].elementType = "Loose" => IsData(i)
    BY <1>1 DEF IsData
  <2>2. IsData(i) => i < numEntries
    BY DEF Inv, DataOK
  <2>3. 0 <= i
    BY ConstantsAssumption DEF Slots
  <2> QED BY <1>1, <2>1, <2>2, <2>3
<1>11. load' <= numEntries'
  BY <1>2
<1> QED BY <1>4, <1>5, <1>6, <1>7, <1>8, <1>9, <1>10, <1>11 DEF Inv

\* An Insert starts: the table is enlarged when the load factor is reached.
LEMMA BeginInsertInv ==
  ASSUME Inv, NEW k \in Keys, NEW v \in Values, BeginInsert(k, v)
  PROVE  Inv'
<1>1. /\ numEntries \in Nat /\ numEntries <= MaxEntries /\ load \in Nat
      /\ load <= numEntries /\ MaxEntries \in Nat
  BY ConstantsAssumption DEF Inv, TypeOK
<1>2. pending' = [k |-> k, v |-> v, index |-> 0] /\ 0 \in Slots /\ pc = "idle"
  BY ConstantsAssumption DEF BeginInsert, Slots
<1>3. pending' \in [k : Keys \cup {NoKey}, v : Values \cup {NoValue}, index : Slots]
  BY <1>2
<1>4. CASE NeedsEnlarge
  <2>1. EnlargedCount \in 1..MaxEntries /\ EnlargedCount > numEntries
    BY <1>1, <1>4 DEF BeginInsert, EnlargedCount
  <2>2. load * 100 < LoadFactor * EnlargedCount
    BY <1>1 DEF EnlargedCount, LoadFactor
  <2>3. pc' = "rehash" /\ oldCount' < newCount'
    BY <1>1, <1>4, <2>1 DEF BeginInsert, StartRehash
  <2>4. PendingOK'
    BY <1>2, <2>3 DEF PendingOK
  <2>5. PendingAbsent'
    <3>1. oldCount' \in Int /\ newCount' \in Int
      BY <1>1, <1>4, <2>1 DEF BeginInsert, StartRehash
    <3> QED BY <2>3, <3>1 DEF PendingAbsent, Constructing
  <2>6. EnlargedCount \in Nat /\ EnlargedCount # numEntries
    BY <1>1, <2>1
  <2>7. numEntries' = IF EnlargedCount > numEntries THEN EnlargedCount ELSE numEntries
    BY <1>4, <2>1 DEF BeginInsert
  <2> QED BY <1>2, <1>3, <1>4, <2>1, <2>2, <2>4, <2>5, <2>6, <2>7, StartRehashInv
             DEF BeginInsert
<1>5. CASE ~NeedsEnlarge
  <2>1. load * 100 < LoadFactor * numEntries
    BY <1>1, <1>5 DEF NeedsEnlarge, LoadFactor
  <2>2. /\ pc' = "place" /\ outcome' = "none"
        /\ UNCHANGED <<entries, numEntries, load, caller, oldCount, newCount, cursor>>
    BY <1>5 DEF BeginInsert
  <2>3. TypeOK'
    BY <1>3, <2>2 DEF Inv, TypeOK
  <2>4. UniqueKeys' /\ LoadIsExact' /\ DataOK'
    BY <2>2 DEF Inv, UniqueKeys, LoadIsExact, DataOK, IsData
  <2>5. Settled' /\ Reachable'
    BY <1>2, <2>2 DEF Inv, Settled, Reachable, IsFilled
  <2>6. RehashSizes' /\ RehashEntries' /\ (load <= numEntries)'
    BY <1>1, <2>2 DEF RehashSizes, RehashEntries
  <2>7. PendingOK'
    BY <1>2, <2>1, <2>2 DEF PendingOK
  <2>8. PendingAbsent'
    BY <2>2 DEF PendingAbsent, Constructing
  <2> QED BY <2>3, <2>4, <2>5, <2>6, <2>7, <2>8 DEF Inv
<1> QED BY <1>4, <1>5

\* Steps that leave the table itself alone, outside a rehash.
LEMMA TableUnchanged ==
  ASSUME Inv, pc # "rehash", pc' # "rehash",
         UNCHANGED <<entries, numEntries, load>>
  PROVE  /\ UniqueKeys' /\ LoadIsExact' /\ DataOK' /\ Settled' /\ Reachable'
         /\ RehashSizes' /\ RehashEntries' /\ (load <= numEntries)'
<1>1. UniqueKeys' /\ LoadIsExact' /\ DataOK'
  BY DEF Inv, UniqueKeys, LoadIsExact, DataOK, IsData
<1>2. Settled' /\ Reachable'
  BY DEF Inv, Settled, Reachable, IsFilled
<1>3. RehashSizes' /\ RehashEntries' /\ (load <= numEntries)'
  BY DEF Inv, RehashSizes, RehashEntries
<1> QED BY <1>1, <1>2, <1>3

\* An Insert whose EnlargeEntryArray fails has changed nothing.
LEMMA EnlargeFailsInv == Inv /\ EnlargeFails => Inv'
<1> SUFFICES ASSUME Inv, EnlargeFails PROVE Inv'
  OBVIOUS
<1>1. TypeOK'
  BY DEF Inv, TypeOK, EnlargeFails
<1>2. PendingOK' /\ PendingAbsent'
  BY DEF EnlargeFails, PendingOK, PendingAbsent, Inserting, Constructing
<1> QED BY <1>1, <1>2, TableUnchanged DEF EnlargeFails, Inv

\* An Insert whose ConstructKey fails leaves the table as it was.
LEMMA ConstructKeyFailsInv == Inv /\ ConstructKeyFails => Inv'
<1> SUFFICES ASSUME Inv, ConstructKeyFails PROVE Inv'
  OBVIOUS
<1>1. TypeOK'
  BY ConstantsAssumption DEF Inv, TypeOK, ConstructKeyFails, NoPending, Slots
<1>2. PendingOK' /\ PendingAbsent'
  BY DEF ConstructKeyFails, PendingOK, PendingAbsent, Inserting, Constructing
<1> QED BY <1>1, <1>2, TableUnchanged DEF ConstructKeyFails, Inv

\* A collection starts its walk, between operations or inside ConstructKey.
LEMMA BeginSweepInv == Inv /\ BeginSweep => Inv'
<1> SUFFICES ASSUME Inv, BeginSweep PROVE Inv'
  OBVIOUS
<1>1. TypeOK'
  BY ConstantsAssumption DEF Inv, TypeOK, BeginSweep
<1>2. PendingOK'
  BY DEF Inv, BeginSweep, PendingOK, Inserting
<1>3. PendingAbsent'
  BY DEF Inv, BeginSweep, PendingAbsent, Constructing, IsData
<1> QED BY <1>1, <1>2, <1>3, TableUnchanged DEF BeginSweep, Inv

\* The collector has finished its walk and calls Balance.
LEMMA EndSweepInv == Inv /\ EndSweep => Inv'
<1> SUFFICES ASSUME Inv, EndSweep PROVE Inv'
  OBVIOUS
<1>1. TypeOK'
  BY ConstantsAssumption DEF Inv, TypeOK, EndSweep
<1>2. PendingOK'
  BY DEF Inv, EndSweep, PendingOK, Inserting
<1>3. PendingAbsent'
  BY DEF Inv, EndSweep, PendingAbsent, Constructing, IsData
<1> QED BY <1>1, <1>2, <1>3, TableUnchanged DEF EndSweep, Inv

\* Insert's lookup: a value is replaced, or a slot is chosen.
LEMMA PlaceInv == Inv /\ Place => Inv'
<1> SUFFICES ASSUME Inv, Place PROVE Inv'
  OBVIOUS
<1> DEFINE i == FindElementIndex(pending.k)
<1>1. pending.k \in Keys /\ pending.v \in Values /\ load * 100 < LoadFactor * numEntries
  BY DEF Inv, Place, PendingOK, Inserting
<1>2. i \in Slots
  BY LookupType DEF Inv
<1>3. CASE Found(pending.k)
  <2>1. /\ entries' = [entries EXCEPT ![i].v = pending.v]
        /\ pc' = "idle" /\ pending' = NoPending /\ outcome' = "stored"
        /\ UNCHANGED <<numEntries, load, caller, oldCount, newCount, cursor>>
    BY <1>3 DEF Place
  <2>2. \A j \in Slots : /\ entries'[j].elementType = entries[j].elementType
                         /\ entries'[j].k = entries[j].k
                         /\ entries'[j].hash = entries[j].hash
    BY <1>2, <2>1 DEF Inv, TypeOK, Entry
  <2>3. entries' \in [Slots -> Entry]
    BY <1>1, <1>2, <2>1 DEF Inv, TypeOK, Entry
  <2>4. TypeOK'
    BY <2>1, <2>3, ConstantsAssumption DEF Inv, TypeOK, NoPending, Slots
  <2>5. \A j \in Slots : IsData(j)' <=> IsData(j)
    BY <2>2 DEF IsData
  <2>6. UniqueKeys' /\ DataOK'
    BY <2>1, <2>2, <2>5 DEF Inv, UniqueKeys, DataOK
  <2>7. LoadIsExact'
    <3>1. {j \in Slots : IsData(j)}' = {j \in Slots : IsData(j)}
      BY <2>5
    <3> QED BY <2>1, <3>1 DEF Inv, LoadIsExact
  <2>8. Indices(numEntries) \subseteq Slots
    BY ConstantsAssumption DEF Inv, TypeOK, Indices, Slots
  <2>9. Settled' /\ Reachable'
    BY <2>1, <2>2, <2>8 DEF Inv, Place, Settled, Reachable, IsFilled
  <2>10. RehashSizes' /\ RehashEntries' /\ (load <= numEntries)' /\ PendingOK' /\ PendingAbsent'
    BY <2>1 DEF Inv, RehashSizes, RehashEntries, PendingOK, PendingAbsent, Inserting, Constructing
  <2> QED BY <2>4, <2>6, <2>7, <2>9, <2>10 DEF Inv
<1>4. CASE ~Found(pending.k)
  <2>1. /\ pc' = "construct" /\ pending' = [pending EXCEPT !.index = i]
        /\ UNCHANGED <<entries, numEntries, load, caller, oldCount, newCount, cursor, outcome>>
    BY <1>4 DEF Place
  <2>2. pending'.k = pending.k /\ pending'.v = pending.v /\ pending'.index = i
    BY <2>1 DEF Inv, TypeOK
  <2>3. TypeOK'
    BY <1>2, <2>1 DEF Inv, TypeOK
  <2>4. PendingOK'
    BY <1>1, <2>1, <2>2 DEF PendingOK
  <2>5. ASSUME NEW j \in Slots, IsData(j) PROVE entries[j].k # pending.k
    <3>1. pc # "rehash"
      BY DEF Place
    <3>2. j \in Indices(numEntries) /\ HitAt(entries[j].k, j)
      BY <2>5, <3>1, PresentIsFound
    <3> QED BY <1>4, <3>2 DEF Found
  <2>6. load < numEntries
    BY <1>1 DEF LoadFactor, Inv, TypeOK
  <2>7. i \in Indices(numEntries) /\ InsertableAt(pending.k, i)
    BY <1>1, <2>5, <2>6, LookupOfAbsent DEF Inv
  <2>8. PendingAbsent'
    BY <2>1, <2>2, <2>5, <2>7 DEF PendingAbsent, IsData, InsertableAt, IsFilled
  <2> QED BY <2>1, <2>3, <2>4, <2>8, TableUnchanged DEF Place, Inv
<1> QED BY <1>3, <1>4

\* Insert fills the slot it found, the second time round for the string table.
LEMMA FillEntryInv == Inv /\ FillEntry => Inv'
<1> SUFFICES ASSUME Inv, FillEntry PROVE Inv'
  OBVIOUS
<1> DEFINE d == InsertionIndex
           k == pending.k
<1>1. /\ k \in Keys /\ pending.v \in Values /\ load * 100 < LoadFactor * numEntries
      /\ \A i \in Slots : IsData(i) => entries[i].k # k
      /\ ~Allocates => pending.index \in Indices(numEntries) /\ InsertableAt(k, pending.index)
  BY DEF Inv, FillEntry, PendingOK, Inserting, PendingAbsent, Constructing
<1>2. load < numEntries /\ load \in Nat /\ numEntries \in Nat /\ numEntries <= MaxEntries
  BY <1>1 DEF LoadFactor, Inv, TypeOK
<1>3. d \in Indices(numEntries) /\ InsertableAt(k, d)
  <2>1. CASE Allocates
    BY <1>1, <1>2, <2>1, LookupOfAbsent DEF Inv, InsertionIndex
  <2>2. CASE ~Allocates
    BY <1>1, <2>2 DEF InsertionIndex
  <2> QED BY <2>1, <2>2
<1>4. Indices(numEntries) \subseteq Slots /\ d \in Slots /\ d < numEntries /\ d \in Nat
  BY <1>2, <1>3, ConstantsAssumption DEF Indices, Slots
<1>5. ~IsData(d)
  BY <1>3, <1>4 DEF Inv, FillEntry, Settled, InsertableAt, IsData, IsFilled
<1>6. /\ entries' = [entries EXCEPT ![d] = [elementType |-> "Filled", hash |-> Hash[k],
                                         k |-> k, v |-> pending.v]]
      /\ load' = load + 1 /\ pc' = "idle" /\ pending' = NoPending /\ outcome' = "stored"
      /\ UNCHANGED <<numEntries, caller, oldCount, newCount, cursor>>
  BY DEF FillEntry
<1> HIDE DEF d, k
<1>7. Hash[k] \in Nat
  BY <1>1, ConstantsAssumption
<1>8. /\ entries'[d].elementType = "Filled" /\ entries'[d].hash = Hash[k]
      /\ entries'[d].k = k
      /\ \A i \in Slots : i # d => entries'[i] = entries[i]
  BY <1>4, <1>6 DEF Inv, TypeOK
<1>9. entries' \in [Slots -> Entry]
  BY <1>1, <1>4, <1>6, <1>7 DEF Inv, TypeOK, Entry, HashElementType
<1>10. TypeOK'
  BY <1>2, <1>6, <1>9, ConstantsAssumption DEF Inv, TypeOK, NoPending, Slots
<1>11. \A i \in Slots : IsData(i)' <=> (IsData(i) \/ i = d)
  BY <1>8 DEF IsData
<1>12. UniqueKeys'
  BY <1>1, <1>8, <1>11 DEF Inv, UniqueKeys
<1>13. LoadIsExact'
  <2>1. DataSlots' = DataSlots \cup {d}
    BY <1>4, <1>11 DEF DataSlots
  <2>2. d \notin DataSlots
    BY <1>5 DEF DataSlots
  <2>3. Cardinality(DataSlots \cup {d}) = Cardinality(DataSlots) + 1
    BY <2>2, DataSlotsFinite, FS_AddElement
  <2> QED BY <1>6, <2>1, <2>3 DEF Inv, LoadIsExact, DataSlots
<1>14. DataOK'
  BY <1>1, <1>4, <1>6, <1>8, <1>11 DEF Inv, DataOK
<1>15. Settled'
  BY <1>8 DEF Inv, FillEntry, Settled
<1>16. Reachable'
  <2> SUFFICES ASSUME NEW i \in Slots, NEW j \in Indices(numEntries),
                      IsFilled(i)', Before(j, i, entries'[i].hash, numEntries)
               PROVE  entries'[j].elementType # "Empty"
    BY <1>6 DEF Reachable, Before
  <2>1. CASE j = d
    BY <1>8, <2>1
  <2>2. CASE j # d /\ i = d
    BY <1>3, <1>4, <1>8, <2>2 DEF InsertableAt, IsFilled
  <2>3. CASE j # d /\ i # d
    BY <1>4, <1>8, <2>3 DEF Inv, FillEntry, Reachable, IsFilled
  <2> QED BY <2>1, <2>2, <2>3
<1>17. RehashSizes' /\ RehashEntries' /\ PendingOK' /\ PendingAbsent'
  BY <1>6 DEF RehashSizes, RehashEntries, PendingOK, PendingAbsent, Inserting, Constructing
<1>18. (load <= numEntries)'
  BY <1>2, <1>6
<1> QED BY <1>10, <1>12, <1>13, <1>14, <1>15, <1>16, <1>17, <1>18 DEF Inv

\* Taking an entry out of a table that is not being rehashed keeps the table
\* in order, and keeps the key of an Insert under way out of it.
LEMMA RemoveEntryKeepsTable ==
  ASSUME Inv, pc # "rehash", pc' # "rehash", NEW i \in Slots, RemoveEntry(i),
         UNCHANGED numEntries
  PROVE  /\ entries' \in [Slots -> Entry]
         /\ load' \in 0..MaxEntries /\ load' <= load
         /\ \A j \in Slots : IsData(j)' => IsData(j) /\ entries'[j] = entries[j]
         /\ UniqueKeys' /\ LoadIsExact' /\ DataOK' /\ Settled' /\ Reachable'
         /\ RehashSizes' /\ RehashEntries' /\ (load <= numEntries)'
<1>1. CASE ~IsFilled(i)
  <2>1. UNCHANGED <<entries, load>>
    BY <1>1 DEF RemoveEntry
  <2>2. entries' \in [Slots -> Entry] /\ load' \in 0..MaxEntries /\ load' <= load
    BY <2>1 DEF Inv, TypeOK
  <2> QED BY <2>1, <2>2, TableUnchanged DEF IsData
<1>2. CASE IsFilled(i)
  <2>1. entries' = [entries EXCEPT ![i] = DestroyedEntry] /\ load' = load - 1
    BY <1>2 DEF RemoveEntry
  <2>2. DestroyedEntry \in Entry /\ DestroyedEntry.elementType = "Deleted"
    BY DEF DestroyedEntry, InitializedElement, Entry, HashElementType
  <2>3. entries'[i] = DestroyedEntry /\ \A j \in Slots : j # i => entries'[j] = entries[j]
    BY <2>1 DEF Inv, TypeOK
  <2>4. entries' \in [Slots -> Entry]
    BY <2>1, <2>2 DEF Inv, TypeOK
  <2>5. \A j \in Slots : IsData(j)' <=> IsData(j) /\ j # i
    BY <2>2, <2>3 DEF IsData
  <2>6. DataSlots' = DataSlots \ {i} /\ i \in DataSlots
    BY <1>2, <2>5 DEF DataSlots, IsData, IsFilled
  <2>7. /\ Cardinality(DataSlots \ {i}) = Cardinality(DataSlots) - 1
        /\ Cardinality(DataSlots \ {i}) \in Nat
    BY <2>6, DataSlotsFinite, FS_RemoveElement, FS_CardinalityType
  <2>8. load = Cardinality(DataSlots) /\ load \in 0..MaxEntries /\ numEntries \in Nat
    BY DEF Inv, LoadIsExact, DataSlots, TypeOK
  <2>9. LoadIsExact'
    BY <2>1, <2>6, <2>7, <2>8 DEF LoadIsExact, DataSlots
  <2>10. load' \in 0..MaxEntries /\ load' <= load /\ (load <= numEntries)'
    BY <2>1, <2>7, <2>8, ConstantsAssumption DEF Inv
  <2>11. UniqueKeys' /\ DataOK' /\ Settled'
    BY <2>2, <2>3, <2>5 DEF Inv, UniqueKeys, DataOK, Settled
  <2>12. Indices(numEntries) \subseteq Slots
    BY ConstantsAssumption DEF Inv, TypeOK, Indices, Slots
  <2>13. Reachable'
    BY <2>2, <2>3, <2>12 DEF Inv, Reachable, IsFilled
  <2>14. RehashSizes' /\ RehashEntries'
    BY DEF RehashSizes, RehashEntries
  <2>15. \A j \in Slots : IsData(j)' => IsData(j) /\ entries'[j] = entries[j]
    BY <2>3, <2>5
  <2> QED BY <2>4, <2>9, <2>10, <2>11, <2>13, <2>14, <2>15
<1> QED BY <1>1, <1>2

\* RemoveEntry of a key that LoadObject looked up.
LEMMA RemoveKeyInv == ASSUME Inv, NEW k \in Keys, RemoveKey(k) PROVE Inv'
<1> DEFINE i == FindElementIndex(k)
<1>1. i \in Slots
  BY LookupType DEF Inv
<1>2. /\ RemoveEntry(i) /\ pc = "idle" /\ pc' = "balance" /\ caller' = "idle"
      /\ UNCHANGED <<numEntries, pending, oldCount, newCount, cursor, outcome>>
  BY DEF RemoveKey
<1> HIDE DEF i
<1>3. /\ entries' \in [Slots -> Entry] /\ load' \in 0..MaxEntries
      /\ UniqueKeys' /\ LoadIsExact' /\ DataOK' /\ Settled' /\ Reachable'
      /\ RehashSizes' /\ RehashEntries' /\ (load <= numEntries)'
  BY <1>1, <1>2, RemoveEntryKeepsTable
<1>4. TypeOK'
  BY <1>2, <1>3 DEF Inv, TypeOK
<1>5. PendingOK' /\ PendingAbsent'
  BY <1>2 DEF PendingOK, PendingAbsent, Inserting, Constructing
<1> QED BY <1>3, <1>4, <1>5 DEF Inv

\* A table with room for some entries has room for fewer.
LEMMA SmallerLoadFits ==
  ASSUME NEW small \in Nat, NEW large \in Nat, NEW size \in Nat,
         small <= large, large * 100 < LoadFactor * size
  PROVE  small * 100 < LoadFactor * size
BY DEF LoadFactor

\* The collector removes the next dead entry.
LEMMA SweepEntryInv == ASSUME Inv, NEW i \in Slots, SweepEntry(i) PROVE Inv'
<1>1. /\ RemoveEntry(i) /\ pc = "sweep" /\ cursor' = i + 1 /\ i < numEntries
      /\ UNCHANGED <<numEntries, pc, caller, pending, oldCount, newCount, outcome>>
  BY DEF SweepEntry, Inv, TypeOK
<1>2. /\ entries' \in [Slots -> Entry] /\ load' \in 0..MaxEntries /\ load' <= load
      /\ \A j \in Slots : IsData(j)' => IsData(j) /\ entries'[j] = entries[j]
      /\ UniqueKeys' /\ LoadIsExact' /\ DataOK' /\ Settled' /\ Reachable'
      /\ RehashSizes' /\ RehashEntries' /\ (load <= numEntries)'
  BY <1>1, RemoveEntryKeepsTable
<1>3. cursor' \in 0..MaxEntries
  BY <1>1, ConstantsAssumption DEF Slots, Inv, TypeOK
<1>4. TypeOK'
  BY <1>1, <1>2, <1>3 DEF Inv, TypeOK
<1>5. PendingOK'
  <2>1. Inserting' => Inserting
    BY <1>1 DEF Inserting
  <2>2. load \in Nat /\ load' \in Nat
    BY <1>2, ConstantsAssumption DEF Inv, TypeOK
  <2>3. numEntries \in Nat /\ numEntries' = numEntries /\ load' <= load
    BY <1>1, <1>2, ConstantsAssumption DEF Inv, TypeOK
  <2>4. load * 100 < LoadFactor * numEntries => load' * 100 < LoadFactor * numEntries'
    BY <2>2, <2>3, SmallerLoadFits
  <2> QED BY <1>1, <2>1, <2>4 DEF Inv, PendingOK
<1>6. PendingAbsent'
  BY <1>1, <1>2 DEF Inv, PendingAbsent, Constructing
<1> QED BY <1>2, <1>4, <1>5, <1>6 DEF Inv

\* Balance leaves the table alone or starts the rehash into its lower half; the
\* entries fit there with room for the key of the Insert that waits.
LEMMA BalanceInv == Inv /\ Balance => Inv'
<1> SUFFICES ASSUME Inv, Balance PROVE Inv'
  OBVIOUS
<1>1. /\ numEntries \in Nat /\ numEntries <= MaxEntries /\ load \in Nat
      /\ load <= numEntries /\ MaxEntries \in Nat /\ ShrinkFloor \in Nat
  BY ConstantsAssumption DEF Inv, TypeOK
<1>2. /\ pc = "balance"
      /\ UNCHANGED <<numEntries, load, caller, pending, outcome>>
  BY DEF Balance
<1>3. CASE load > ShrinkFloor /\ load < ShrinkThreshold
  <2> DEFINE m == numEntries \div 2
  <2>1. m \in Nat /\ m \in 1..MaxEntries /\ m < numEntries
    BY <1>1, <1>3 DEF ShrinkThreshold, LoadFactor
  <2>2. load * 100 < LoadFactor * m
    BY <1>1, <1>3 DEF ShrinkThreshold, LoadFactor
  <2>3. StartRehash(numEntries, m)
    BY <1>3 DEF Balance
  <2>4. entries' = [i \in Slots |-> IF i < numEntries THEN Loosened(entries[i])
                                   ELSE entries[i]]
    BY <1>3 DEF Balance
  <2> HIDE DEF m
  <2>5. \A i \in Slots : i \in Int
    BY ConstantsAssumption DEF Slots
  <2>6. entries' = [i \in Slots |-> IF i < numEntries THEN Loosened(entries[i])
                                   ELSE IF i < m THEN InitializedElement
                                   ELSE entries[i]]
    BY <1>1, <2>1, <2>4, <2>5
  <2>7. numEntries' = IF m > numEntries THEN m ELSE numEntries
    BY <1>1, <1>2, <2>1
  <2>8. /\ pending' \in [k : Keys \cup {NoKey}, v : Values \cup {NoValue}, index : Slots]
        /\ outcome' \in {"none", "stored", "failed"}
    BY <1>2 DEF Inv, TypeOK
  <2>9. pc' = "rehash" /\ oldCount' = numEntries /\ newCount' = m
    BY <2>3 DEF StartRehash
  <2>10. ~(oldCount' < newCount')
    BY <1>1, <2>1, <2>9
  <2>11. PendingOK'
    BY <1>2, <2>9, <2>10 DEF Inv, PendingOK, Inserting
  <2>12. \A i \in Slots : IsData(i)' => IsData(i) /\ entries'[i].k = entries[i].k
    <3>1. numEntries <= numEntries
      BY <1>1
    <3>2. entries' = [i \in Slots |-> IF i < numEntries THEN Loosened(entries[i])
                                     ELSE IF i < numEntries THEN InitializedElement
                                     ELSE entries[i]]
      BY <2>4
    <3> QED BY <1>1, <1>2, <3>1, <3>2, LoosenedData
  <2>13. PendingAbsent'
    BY <1>2, <2>9, <2>12 DEF Inv, PendingAbsent, Constructing
  <2> QED BY <1>2, <2>1, <2>2, <2>3, <2>6, <2>7, <2>8, <2>11, <2>13, StartRehashInv
<1>4. CASE ~(load > ShrinkFloor /\ load < ShrinkThreshold)
  <2>1. pc' = caller /\ UNCHANGED <<entries, oldCount, newCount, cursor>>
    BY <1>4 DEF Balance
  <2>2. pc' \in {"idle", "construct"}
    BY <2>1 DEF Inv, TypeOK
  <2>3. TypeOK'
    BY <1>2, <2>1, <2>2 DEF Inv, TypeOK
  <2>4. PendingOK'
    BY <1>2, <2>1, <2>2 DEF Inv, PendingOK, Inserting
  <2>5. PendingAbsent'
    BY <1>2, <2>1, <2>2 DEF Inv, PendingAbsent, Constructing, IsData
  <2> QED BY <1>2, <2>1, <2>2, <2>3, <2>4, <2>5, TableUnchanged DEF Inv
<1> QED BY <1>3, <1>4

\* Rehash goes past a slot that holds nothing loose.
LEMMA AdvanceCursorInv == Inv /\ AdvanceCursor => Inv'
<1> SUFFICES ASSUME Inv, AdvanceCursor PROVE Inv'
  OBVIOUS
<1>1. /\ pc = "rehash" /\ cursor < oldCount /\ entries[cursor].elementType # "Loose"
      /\ cursor' = cursor + 1
      /\ UNCHANGED <<entries, numEntries, load, pc, caller, pending, oldCount,
                     newCount, outcome>>
  BY DEF AdvanceCursor
<1>2. cursor \in Nat /\ oldCount \in Nat /\ oldCount <= MaxEntries /\ MaxEntries \in Nat
  BY ConstantsAssumption DEF Inv, TypeOK
<1>3. TypeOK'
  BY <1>1, <1>2 DEF Inv, TypeOK
<1>4. UniqueKeys' /\ LoadIsExact' /\ DataOK' /\ Settled' /\ Reachable'
  BY <1>1 DEF Inv, UniqueKeys, LoadIsExact, DataOK, IsData, Settled, Reachable
<1>5. RehashSizes' /\ (load <= numEntries)'
  BY <1>1, <1>2 DEF Inv, RehashSizes
<1>6. RehashEntries'
  <2> SUFFICES ASSUME NEW i \in Slots, entries[i].elementType = "Loose"
               PROVE  cursor + 1 <= i
    BY <1>1 DEF Inv, RehashEntries, IsFilled
  <2>1. cursor <= i /\ i # cursor
    BY <1>1 DEF Inv, RehashEntries
  <2>2. i \in Int
    BY <1>2 DEF Slots
  <2> QED BY <1>2, <2>1, <2>2
<1>7. PendingOK' /\ PendingAbsent'
  BY <1>1 DEF Inv, PendingOK, PendingAbsent, Inserting, Constructing, IsData
<1> QED BY <1>3, <1>4, <1>5, <1>6, <1>7 DEF Inv

\* A finished rehash leaves nothing loose, and all of it below the new size.
LEMMA FinishRehashInv == Inv /\ FinishRehash => Inv'
<1> SUFFICES ASSUME Inv, FinishRehash PROVE Inv'
  OBVIOUS
<1>1. /\ pc = "rehash" /\ cursor = oldCount
      /\ pc' = IF newCount < oldCount THEN caller ELSE "place"
      /\ numEntries' = newCount /\ oldCount' = 0 /\ newCount' = 0 /\ cursor' = 0
      /\ UNCHANGED <<entries, load, caller, pending, outcome>>
  BY DEF FinishRehash
<1>2. /\ newCount \in Nat /\ oldCount \in Nat /\ newCount <= MaxEntries
      /\ MaxEntries \in Nat /\ load \in Nat /\ numEntries \in Nat
  BY ConstantsAssumption DEF Inv, TypeOK
<1>3. /\ newCount > 0 /\ load * 100 < LoadFactor * newCount
      /\ oldCount < newCount \/ newCount < oldCount
  BY <1>1 DEF Inv, RehashSizes
<1>4. pc' \in {"place", "idle", "construct"} /\ pc' # "rehash"
  BY <1>1 DEF Inv, TypeOK
<1>5. \A i \in Slots : entries[i].elementType # "Loose"
  <2> SUFFICES ASSUME NEW i \in Slots, entries[i].elementType = "Loose" PROVE FALSE
    OBVIOUS
  <2>1. oldCount <= i /\ i < oldCount /\ i \in Int
    BY <1>1, <1>2 DEF Inv, RehashEntries, Slots
  <2> QED BY <1>2, <2>1
<1>6. \A i \in Slots : IsData(i) => IsFilled(i)
  BY <1>5 DEF IsData, IsFilled
<1>7. TypeOK'
  BY <1>1, <1>2, <1>4 DEF Inv, TypeOK
<1>8. UniqueKeys' /\ LoadIsExact' /\ Settled'
  BY <1>1, <1>5 DEF Inv, UniqueKeys, LoadIsExact, IsData, Settled
<1>9. DataOK'
  BY <1>1, <1>6 DEF Inv, DataOK, RehashEntries, IsData
<1>10. Reachable'
  BY <1>1 DEF Inv, Reachable, RehashEntries, IsFilled, Before
<1>11. RehashSizes' /\ RehashEntries'
  BY <1>4 DEF RehashSizes, RehashEntries
<1>12. (load <= numEntries)'
  BY <1>1, <1>2, <1>3 DEF LoadFactor
<1>13. PendingOK'
  <2> SUFFICES ASSUME Inserting'
               PROVE  /\ pending.k \in Keys /\ pending.v \in Values
                      /\ load * 100 < LoadFactor * newCount
    BY <1>1 DEF PendingOK
  <2>1. Inserting
    <3>1. CASE newCount < oldCount
      BY <1>1, <3>1 DEF Inv, TypeOK, Inserting
    <3>2. CASE oldCount < newCount
      BY <1>1, <3>2 DEF Inserting
    <3> QED BY <1>3, <3>1, <3>2
  <2> QED BY <1>3, <2>1 DEF Inv, PendingOK
<1>14. PendingAbsent'
  <2>1. CASE pc' = "construct"
    <3>1. newCount < oldCount /\ caller = "construct"
      BY <1>1, <2>1
    <3> QED BY <1>1, <2>1, <3>1 DEF Inv, PendingAbsent, Constructing, IsData
  <2>2. CASE pc' # "construct"
    BY <1>4, <2>2 DEF PendingAbsent, Constructing
  <2> QED BY <2>1, <2>2
<1> QED BY <1>7, <1>8, <1>9, <1>10, <1>11, <1>12, <1>13, <1>14 DEF Inv

\* Moving the loose entry under the cursor: it settles at the first slot of
\* its new probe that is not settled, and what was there takes its place.
LEMMA SettleEntryInv == Inv /\ SettleEntry => Inv'
<1> SUFFICES ASSUME Inv, SettleEntry PROVE Inv'
  OBVIOUS
<1> DEFINE c == cursor
<1>1. /\ pc = "rehash" /\ c < oldCount /\ entries[c].elementType = "Loose"
      /\ UNCHANGED <<numEntries, load, pc, caller, pending, oldCount, newCount,
                     cursor, outcome>>
  BY DEF SettleEntry
<1>2. PICK d \in Indices(newCount) :
        /\ IsDestination(d)
        /\ entries' = [entries EXCEPT ![c] = entries[d],
                                      ![d] = [entries[c] EXCEPT !.elementType = "Filled"]]
  BY DEF SettleEntry
<1>3. /\ c \in Slots /\ d \in Slots /\ c < numEntries /\ d < numEntries /\ d < newCount
  BY <1>1, ConstantsAssumption DEF Inv, TypeOK, RehashSizes, Indices, Slots
<1>4. entries \in [Slots -> Entry] /\ entries[c] \in Entry /\ entries[d] \in Entry
  BY <1>3 DEF Inv, TypeOK
<1>5. entries[d].elementType \in {"Empty", "Loose"}
  BY <1>1, <1>2, <1>3, <1>4
     DEF Inv, RehashEntries, IsDestination, IsFilled, Entry, HashElementType
<1>6. /\ entries' \in [Slots -> Entry]
      /\ entries'[d].elementType = "Filled" /\ entries'[d].hash = entries[c].hash
      /\ entries'[d].k = entries[c].k
      /\ c # d => entries'[c] = entries[d]
      /\ \A i \in Slots \ {c, d} : entries'[i] = entries[i]
  BY <1>2, <1>3, <1>4 DEF Entry, HashElementType
<1> DEFINE source(i) == IF i = d THEN c ELSE IF i = c THEN d ELSE i
<1>7. \A i \in Slots : IsData(i)' =>
        /\ source(i) \in Slots /\ IsData(source(i))
        /\ entries'[i].k = entries[source(i)].k
        /\ entries'[i].hash = entries[source(i)].hash
  BY <1>1, <1>3, <1>6 DEF IsData
<1>8. \A i \in Slots : IsFilled(i) => IsFilled(i)'
  BY <1>1, <1>5, <1>6 DEF IsFilled
<1>9. TypeOK'
  BY <1>1, <1>6 DEF Inv, TypeOK
<1>10. UniqueKeys'
  BY <1>7 DEF Inv, UniqueKeys
<1>11. LoadIsExact'
  <2>1. CASE c = d \/ IsData(d)
    <3>1. \A i \in Slots : IsData(i)' <=> IsData(i)
      BY <1>1, <1>6, <2>1 DEF IsData
    <3>2. DataSlots' = DataSlots
      BY <3>1 DEF DataSlots
    <3> QED BY <1>1, <3>2 DEF Inv, LoadIsExact, DataSlots
  <2>2. CASE c # d /\ ~IsData(d)
    <3>1. \A i \in Slots : IsData(i)' <=> (i = d \/ (IsData(i) /\ i # c))
      BY <1>1, <1>6, <2>2 DEF IsData
    <3>2. DataSlots' = (DataSlots \ {c}) \cup {d}
      BY <1>3, <3>1 DEF DataSlots
    <3>3. c \in DataSlots /\ d \notin DataSlots
      BY <1>1, <1>3, <2>2 DEF DataSlots, IsData
    <3>4. /\ IsFiniteSet(DataSlots \ {c})
          /\ Cardinality(DataSlots \ {c}) = Cardinality(DataSlots) - 1
      BY <3>3, DataSlotsFinite, FS_RemoveElement
    <3>5. Cardinality((DataSlots \ {c}) \cup {d}) = Cardinality(DataSlots \ {c}) + 1
      BY <3>3, <3>4, FS_AddElement
    <3>6. Cardinality(DataSlots) \in Nat
      BY DataSlotsFinite, FS_CardinalityType
    <3>7. Cardinality(DataSlots') = Cardinality(DataSlots)
      BY <3>2, <3>4, <3>5, <3>6
    <3> QED BY <1>1, <3>7 DEF Inv, LoadIsExact, DataSlots
  <2> QED BY <2>1, <2>2
<1>12. DataOK'
  <2> SUFFICES ASSUME NEW i \in Slots, IsData(i)'
               PROVE  i < numEntries /\ entries'[i].k \in Keys
                      /\ entries'[i].hash = Hash[entries'[i].k]
    BY <1>1 DEF DataOK
  <2>1. i < numEntries
    BY <1>3, <1>6 DEF Inv, DataOK, IsData
  <2> QED BY <1>7, <2>1 DEF Inv, DataOK
<1>13. Settled' /\ Reachable' /\ RehashSizes' /\ (load <= numEntries)'
  BY <1>1 DEF Inv, Settled, Reachable, RehashSizes
<1>14. RehashEntries'
  <2> SUFFICES ASSUME NEW i \in Slots
               PROVE  /\ entries'[i].elementType = "Loose" => c <= i /\ i < oldCount
                      /\ i < numEntries => entries'[i].elementType # "Deleted"
                      /\ IsFilled(i)' =>
                           /\ i < newCount
                           /\ \A j \in Indices(newCount) :
                                Before(j, i, entries'[i].hash, newCount) => IsFilled(j)'
    BY <1>1 DEF RehashEntries, Before
  <2>1. \A j \in Indices(newCount) : j \in Slots
    BY ConstantsAssumption DEF Inv, TypeOK, Indices, Slots
  <2>2. CASE i = d
    BY <1>2, <1>3, <1>6, <1>8, <2>1, <2>2 DEF IsDestination
  <2>3. CASE i # d /\ i = c
    <3>1. c <= c
      BY DEF Inv, TypeOK
    <3> QED BY <1>1, <1>5, <1>6, <2>3, <3>1 DEF IsFilled
  <2>4. CASE i # d /\ i # c
    <3>1. entries'[i] = entries[i] /\ (IsFilled(i)' <=> IsFilled(i))
      BY <1>6, <2>4 DEF IsFilled
    <3> QED BY <1>1, <1>8, <2>1, <3>1 DEF Inv, RehashEntries
  <2> QED BY <2>2, <2>3, <2>4
<1>15. PendingOK'
  BY <1>1 DEF Inv, PendingOK, Inserting
<1>16. PendingAbsent'
  BY <1>1, <1>7 DEF Inv, PendingAbsent, Constructing
<1> QED BY <1>9, <1>10, <1>11, <1>12, <1>13, <1>14, <1>15, <1>16 DEF Inv

\* Nothing changes: the invariant still holds.
LEMMA StutterInv == Inv /\ UNCHANGED vars => Inv'
BY DEF vars, Inv, TypeOK, UniqueKeys, LoadIsExact, IsData, DataOK, Settled, Reachable,
       IsFilled, Before, RehashSizes, RehashEntries, PendingOK, Inserting,
       PendingAbsent, Constructing, InsertableAt

\* Every operation of the table, every step of a rehash and every step of a
\* collection's sweep preserves the invariant.
LEMMA StepInv == Inv /\ [Next]_vars => Inv'
<1> SUFFICES ASSUME Inv, [Next]_vars PROVE Inv'
  OBVIOUS
<1>1. ASSUME NEW k \in Keys, NEW v \in Values, BeginInsert(k, v) PROVE Inv'
  BY <1>1, BeginInsertInv
<1>2. CASE EnlargeFails BY <1>2, EnlargeFailsInv
<1>3. CASE Place BY <1>3, PlaceInv
<1>4. CASE ConstructKeyFails BY <1>4, ConstructKeyFailsInv
<1>5. CASE FillEntry BY <1>5, FillEntryInv
<1>6. ASSUME NEW k \in Keys, RemoveKey(k) PROVE Inv'
  BY <1>6, RemoveKeyInv
<1>7. CASE BeginSweep BY <1>7, BeginSweepInv
<1>8. ASSUME NEW i \in Slots, SweepEntry(i) PROVE Inv'
  BY <1>8, SweepEntryInv
<1>9. CASE EndSweep BY <1>9, EndSweepInv
<1>10. CASE Balance BY <1>10, BalanceInv
<1>11. CASE SettleEntry BY <1>11, SettleEntryInv
<1>12. CASE AdvanceCursor BY <1>12, AdvanceCursorInv
<1>13. CASE FinishRehash BY <1>13, FinishRehashInv
<1>14. CASE UNCHANGED vars BY <1>14, StutterInv
<1> QED BY <1>1, <1>2, <1>3, <1>4, <1>5, <1>6, <1>7, <1>8, <1>9, <1>10, <1>11,
           <1>12, <1>13, <1>14 DEF Next

\* The invariant makes the slot about to be filled a free one of the table.
LEMMA InvInsertionSlot == Inv => InsertionSlotIsFree
<1> SUFFICES ASSUME Inv, pc = "construct"
             PROVE  InsertionIndex \in Indices(numEntries) /\ ~IsData(InsertionIndex)
  BY DEF InsertionSlotIsFree
<1>1. /\ pending.k \in Keys /\ load * 100 < LoadFactor * numEntries
      /\ \A i \in Slots : IsData(i) => entries[i].k # pending.k
      /\ ~Allocates => /\ pending.index \in Indices(numEntries)
                       /\ InsertableAt(pending.k, pending.index)
  BY DEF Inv, PendingOK, Inserting, PendingAbsent, Constructing
<1>2. load < numEntries /\ numEntries \in Nat /\ numEntries <= MaxEntries
  BY <1>1, ConstantsAssumption DEF LoadFactor, Inv, TypeOK
<1>3. /\ InsertionIndex \in Indices(numEntries)
      /\ InsertableAt(pending.k, InsertionIndex)
  BY <1>1, <1>2, LookupOfAbsent DEF Inv, InsertionIndex
<1>4. InsertionIndex \in Slots
  BY <1>2, <1>3, ConstantsAssumption DEF Indices, Slots
<1> QED BY <1>3, <1>4 DEF Inv, Settled, InsertableAt, IsData, IsFilled

-----------------------------------------------------------------------------
(***************************************************************************)
(* Theorems.                                                               *)
(***************************************************************************)

\* The inductive invariant holds in every reachable state of the table.
THEOREM Invariance == Spec => []Inv
<1>1. Init => Inv
  BY InitInv
<1>2. Inv /\ [Next]_vars => Inv'
  BY StepInv
<1> QED BY <1>1, <1>2, PTL DEF Spec

\* The table stays inside its array: every index the operations hand on is one
\* of a slot.
THEOREM TypeCorrect == Spec => []TypeOK
<1>1. Inv => TypeOK
  BY DEF Inv
<1> QED BY <1>1, Invariance, PTL

\* No key is ever in the table twice (FindElementIndex, Insert, Rehash).
THEOREM KeysUnique == Spec => []UniqueKeys
<1>1. Inv => UniqueKeys
  BY DEF Inv
<1> QED BY <1>1, Invariance, PTL

\* load counts the entries exactly, through tombstones, rehashes and sweeps.
THEOREM LoadExact == Spec => []LoadIsExact
<1>1. Inv => LoadIsExact
  BY DEF Inv
<1> QED BY <1>1, Invariance, PTL

\* Outside a rehash, a search finds every entry that is in the table.
THEOREM EntriesFound == Spec => []EveryEntryFound
<1>1. Inv => EveryEntryFound
  <2> SUFFICES ASSUME Inv, pc # "rehash", NEW i \in Slots, IsData(i)
               PROVE  i \in Indices(numEntries) /\ HitAt(entries[i].k, i)
    BY DEF EveryEntryFound
  <2>1. i \in Indices(numEntries)
    BY DEF Inv, TypeOK, DataOK, Indices, Slots
  <2> QED BY <2>1, PresentIsFound
<1> QED BY <1>1, Invariance, PTL

\* An Insert never fills a slot that is taken or outside the table, whatever a
\* collection inside ConstructKey did to the table meanwhile.
THEOREM InsertionSafe == Spec => []InsertionSlotIsFree
BY InvInsertionSlot, Invariance, PTL

-----------------------------------------------------------------------------
(***************************************************************************)
(* HashMap implements SymbolMap: for every set of keys, hash function and  *)
(* size, each step of the table is one step of a partial map with atomic   *)
(* stores, or none.                                                        *)
(***************************************************************************)

(***************************************************************************)
(* The map that an array of entries stands for.                            *)
(***************************************************************************)

DataOf(es) == {i \in Slots : es[i].elementType \in {"Filled", "Loose"}}

Unique(es) == \A i, j \in DataOf(es) : es[i].k = es[j].k => i = j

MapOf(es) ==
  [k \in {es[i].k : i \in {j \in Slots : es[j].elementType \in {"Filled", "Loose"}}} |->
     es[CHOOSE i \in Slots :
          es[i].elementType \in {"Filled", "Loose"} /\ es[i].k = k].v]

\* Two entries of two arrays hold the same.
SamePair(a, i, b, j) == a[i].k = b[j].k /\ a[i].v = b[j].v

LEMMA MapOfFacts ==
  ASSUME NEW es, Unique(es)
  PROVE  /\ \A k : k \in DOMAIN MapOf(es) <=> \E i \in DataOf(es) : es[i].k = k
         /\ \A i \in DataOf(es) : MapOf(es)[es[i].k] = es[i].v
         /\ MapOf(es) = [k \in DOMAIN MapOf(es) |-> MapOf(es)[k]]
<1>1. /\ \A k : k \in DOMAIN MapOf(es) <=> \E i \in DataOf(es) : es[i].k = k
      /\ MapOf(es) = [k \in DOMAIN MapOf(es) |-> MapOf(es)[k]]
  BY DEF MapOf, DataOf
<1>2. ASSUME NEW i \in DataOf(es)
      PROVE  MapOf(es)[es[i].k] = es[i].v
  <2> DEFINE s == CHOOSE j \in Slots :
                  es[j].elementType \in {"Filled", "Loose"} /\ es[j].k = es[i].k
  <2>1. i \in Slots /\ es[i].elementType \in {"Filled", "Loose"}
    BY DEF DataOf
  <2>2. s \in DataOf(es) /\ es[s].k = es[i].k
    BY <2>1 DEF DataOf
  <2>3. s = i
    BY <2>2 DEF Unique
  <2>4. MapOf(es)[es[i].k] = es[s].v
    BY <2>1 DEF MapOf
  <2> QED
    BY <2>3, <2>4
<1> QED
  BY <1>1, <1>2

\* Moving entries around changes no map.
LEMMA SameMap ==
  ASSUME NEW a, NEW b, Unique(a), Unique(b),
         \A i \in DataOf(a) : \E j \in DataOf(b) : SamePair(a, i, b, j),
         \A j \in DataOf(b) : \E i \in DataOf(a) : SamePair(a, i, b, j)
  PROVE  MapOf(b) = MapOf(a)
<1>0. /\ \A x : x \in DOMAIN MapOf(a) <=> \E i \in DataOf(a) : a[i].k = x
      /\ \A x : x \in DOMAIN MapOf(b) <=> \E i \in DataOf(b) : b[i].k = x
  BY MapOfFacts
<1>1. DOMAIN MapOf(b) = DOMAIN MapOf(a)
  BY <1>0 DEF SamePair
<1>2. ASSUME NEW k \in DOMAIN MapOf(a)
      PROVE  MapOf(b)[k] = MapOf(a)[k]
  <2>1. PICK i \in DataOf(a) : a[i].k = k
    BY <1>0
  <2>2. PICK j \in DataOf(b) : SamePair(a, i, b, j)
    OBVIOUS
  <2>3. MapOf(a)[a[i].k] = a[i].v /\ MapOf(b)[b[j].k] = b[j].v
    BY MapOfFacts
  <2> QED
    BY <2>1, <2>2, <2>3 DEF SamePair
<1> DEFINE f == MapOf(a)
           g == MapOf(b)
<1>3. f = [k \in DOMAIN f |-> f[k]] /\ g = [k \in DOMAIN g |-> g[k]]
  BY MapOfFacts
<1> HIDE DEF f, g
<1>4. DOMAIN g = DOMAIN f /\ \A k \in DOMAIN f : g[k] = f[k]
  BY <1>1, <1>2 DEF f, g
<1>5. g = f
  BY <1>3, <1>4
<1> QED
  BY <1>5 DEF f, g

\* The map f with one pair more, or with another value for k.
WithPair(f, k, v) == [x \in DOMAIN f \cup {k} |-> IF x = k THEN v ELSE f[x]]

\* An array with one entry more, or with another value for a key.
LEMMA StoredMap ==
  ASSUME NEW a, NEW b, Unique(a), Unique(b), NEW k, NEW v,
         \A i \in DataOf(a) : a[i].k # k => \E j \in DataOf(b) : SamePair(a, i, b, j),
         \A j \in DataOf(b) : b[j].k # k => \E i \in DataOf(a) : SamePair(a, i, b, j),
         \E j \in DataOf(b) : b[j].k = k /\ b[j].v = v
  PROVE  MapOf(b) = WithPair(MapOf(a), k, v)
<1>0. /\ \A x : x \in DOMAIN MapOf(a) <=> \E i \in DataOf(a) : a[i].k = x
      /\ \A x : x \in DOMAIN MapOf(b) <=> \E i \in DataOf(b) : b[i].k = x
  BY MapOfFacts
<1>1. DOMAIN MapOf(b) = DOMAIN MapOf(a) \cup {k}
  BY <1>0, ZenonT(40) DEF SamePair
<1>2. ASSUME NEW x \in DOMAIN MapOf(a) \cup {k}
      PROVE  MapOf(b)[x] = IF x = k THEN v ELSE MapOf(a)[x]
  <2>1. CASE x = k
    BY <2>1, MapOfFacts
  <2>2. CASE x # k
    <3>1. PICK i \in DataOf(a) : a[i].k = x
      BY <1>0, <2>2
    <3>2. PICK j \in DataOf(b) : SamePair(a, i, b, j)
      BY <2>2, <3>1
    <3>3. MapOf(a)[a[i].k] = a[i].v /\ MapOf(b)[b[j].k] = b[j].v
      BY MapOfFacts
    <3> QED
      BY <2>2, <3>1, <3>2, <3>3 DEF SamePair
  <2> QED
    BY <2>1, <2>2
<1> DEFINE f == MapOf(a)
           g == MapOf(b)
<1>3. g = [x \in DOMAIN g |-> g[x]]
  BY MapOfFacts
<1> HIDE DEF f, g
<1>4. DOMAIN g = DOMAIN f \cup {k}
      /\ \A x \in DOMAIN f \cup {k} : g[x] = IF x = k THEN v ELSE f[x]
  BY <1>1, <1>2 DEF f, g
<1>5. g = [x \in DOMAIN f \cup {k} |-> IF x = k THEN v ELSE f[x]]
  BY <1>3, <1>4
<1> QED
  BY <1>5 DEF f, g, WithPair

\* An array with one entry less.
LEMMA RemovedMap ==
  ASSUME NEW a, NEW b, Unique(a), Unique(b), NEW k,
         \E i \in DataOf(a) : a[i].k = k,
         \A i \in DataOf(a) : a[i].k # k => \E j \in DataOf(b) : SamePair(a, i, b, j),
         \A j \in DataOf(b) : b[j].k # k /\ \E i \in DataOf(a) : SamePair(a, i, b, j)
  PROVE  /\ k \in DOMAIN MapOf(a)
         /\ MapOf(b) = [x \in DOMAIN MapOf(a) \ {k} |-> MapOf(a)[x]]
<1>0. /\ \A x : x \in DOMAIN MapOf(a) <=> \E i \in DataOf(a) : a[i].k = x
      /\ \A x : x \in DOMAIN MapOf(b) <=> \E i \in DataOf(b) : b[i].k = x
  BY MapOfFacts
<1>1. k \in DOMAIN MapOf(a) /\ DOMAIN MapOf(b) = DOMAIN MapOf(a) \ {k}
  <2>1. ASSUME NEW x \in DOMAIN MapOf(b)
        PROVE  x \in DOMAIN MapOf(a) /\ x # k
    <3>1. PICK j \in DataOf(b) : b[j].k = x
      BY <1>0
    <3>2. PICK i \in DataOf(a) : SamePair(a, i, b, j)
      OBVIOUS
    <3> QED
      BY <1>0, <3>1, <3>2 DEF SamePair
  <2>2. ASSUME NEW x \in DOMAIN MapOf(a), x # k
        PROVE  x \in DOMAIN MapOf(b)
    <3>1. PICK i \in DataOf(a) : a[i].k = x
      BY <1>0
    <3>2. PICK j \in DataOf(b) : SamePair(a, i, b, j)
      BY <2>2, <3>1
    <3> QED
      BY <1>0, <3>1, <3>2 DEF SamePair
  <2> QED
    BY <1>0, <2>1, <2>2
<1>2. ASSUME NEW x \in DOMAIN MapOf(a) \ {k}
      PROVE  MapOf(b)[x] = MapOf(a)[x]
  <2>1. PICK i \in DataOf(a) : a[i].k = x
    BY <1>0
  <2>2. PICK j \in DataOf(b) : SamePair(a, i, b, j)
    BY <2>1
  <2>3. MapOf(a)[a[i].k] = a[i].v /\ MapOf(b)[b[j].k] = b[j].v
    BY MapOfFacts
  <2> QED
    BY <2>1, <2>2, <2>3 DEF SamePair
<1> DEFINE f == MapOf(a)
           g == MapOf(b)
<1>3. g = [x \in DOMAIN g |-> g[x]]
  BY MapOfFacts
<1> HIDE DEF f, g
<1>4. DOMAIN g = DOMAIN f \ {k} /\ \A x \in DOMAIN f \ {k} : g[x] = f[x]
  BY <1>1, <1>2 DEF f, g
<1>5. g = [x \in DOMAIN f \ {k} |-> f[x]]
  BY <1>3, <1>4
<1> QED
  BY <1>1, <1>5 DEF f, g

-----------------------------------------------------------------------------
(***************************************************************************)
(* A request is under way exactly while an Insert is.                      *)
(***************************************************************************)

RequestInv == ~Inserting => pending = NoPending

LEMMA InitRequest == Init => RequestInv
  BY DEF Init, RequestInv

LEMMA StepRequest ==
  ASSUME Inv, RequestInv, [Next]_vars
  PROVE  RequestInv'
<1>1. numEntries \in Nat /\ pc \in {"idle", "place", "construct", "sweep", "balance", "rehash"}
      /\ caller \in {"idle", "construct"} /\ oldCount \in Nat /\ newCount \in Nat
  BY DEF Inv, TypeOK
<1>2. ASSUME NEW k \in Keys, NEW v \in Values, BeginInsert(k, v) PROVE RequestInv'
  <2>1. EnlargedCount \in Nat /\ numEntries < EnlargedCount
    BY <1>1 DEF EnlargedCount
  <2>2. Inserting'
    BY <1>2, <2>1 DEF BeginInsert, StartRehash, Inserting
  <2> QED
    BY <2>2 DEF RequestInv
<1>3. CASE EnlargeFails \/ UNCHANGED vars
  BY <1>3 DEF EnlargeFails, vars, RequestInv, Inserting
<1>4. CASE Place
  BY <1>4 DEF Place, RequestInv, Inserting
<1>5. CASE ConstructKeyFails \/ FillEntry
  BY <1>5 DEF ConstructKeyFails, FillEntry, RequestInv, Inserting
<1>6. ASSUME NEW k \in Keys, RemoveKey(k) PROVE RequestInv'
  BY <1>6 DEF RemoveKey, RequestInv, Inserting
<1>7. CASE BeginSweep
  BY <1>7 DEF BeginSweep, RequestInv, Inserting
<1>8. ASSUME NEW i \in Slots, SweepEntry(i) PROVE RequestInv'
  BY <1>8 DEF SweepEntry, RequestInv, Inserting
<1>9. CASE EndSweep
  BY <1>9 DEF EndSweep, RequestInv, Inserting
<1>10. CASE Balance
  BY <1>1, <1>10 DEF Balance, StartRehash, RequestInv, Inserting
<1>11. CASE SettleEntry
  BY <1>11 DEF SettleEntry, RequestInv, Inserting
<1>12. CASE AdvanceCursor
  BY <1>12 DEF AdvanceCursor, RequestInv, Inserting
<1>13. CASE FinishRehash
  BY <1>1, <1>13 DEF FinishRehash, RequestInv, Inserting
<1> QED
  BY <1>2, <1>3, <1>4, <1>5, <1>6, <1>7, <1>8, <1>9, <1>10, <1>11, <1>12, <1>13 DEF Next

-----------------------------------------------------------------------------
(***************************************************************************)
(* Every step of the table is one of the map.                              *)
(***************************************************************************)

LEMMA MappingIs ==
  /\ Mapping = MapOf(entries) /\ Mapping' = MapOf(entries')
  /\ \A i \in Slots : IsData(i) <=> i \in DataOf(entries)
  /\ \A i \in Slots : IsData(i)' <=> i \in DataOf(entries')
  /\ UniqueKeys <=> Unique(entries)
  /\ UniqueKeys' <=> Unique(entries')
<1>1. /\ \A i \in Slots : IsData(i) <=> i \in DataOf(entries)
      /\ \A i \in Slots : IsData(i)' <=> i \in DataOf(entries')
      /\ DataOf(entries) \subseteq Slots /\ DataOf(entries') \subseteq Slots
  BY DEF IsData, DataOf
<1>2. Mapping = MapOf(entries)
  BY DEF Mapping, MapOf, PresentKeys, SlotOf, IsData
<1>3. Mapping' = MapOf(entries')
  BY DEF Mapping, MapOf, PresentKeys, SlotOf, IsData
<1>4. UniqueKeys <=> Unique(entries)
  BY <1>1 DEF UniqueKeys, Unique
<1>5. UniqueKeys' <=> Unique(entries')
  BY <1>1 DEF UniqueKeys, Unique
<1> QED
  BY <1>1, <1>2, <1>3, <1>4, <1>5

\* The slots with data, by both of their names.
LEMMA DataOfIs ==
  /\ DataOf(entries) \subseteq Slots
  /\ DataOf(entries') \subseteq Slots
  /\ \A i \in Slots : IsData(i) <=> i \in DataOf(entries)
  /\ \A i \in Slots : IsData(i)' <=> i \in DataOf(entries')
  BY DEF IsData, DataOf

\* Entries that move, change their state or are swapped, but keep their pairs,
\* leave the map as it is.
LEMMA MappingKept ==
  ASSUME UniqueKeys, UniqueKeys',
         \A i \in Slots : IsData(i) =>
           \E j \in Slots : IsData(j)' /\ SamePair(entries, i, entries', j),
         \A j \in Slots : IsData(j)' =>
           \E i \in Slots : IsData(i) /\ SamePair(entries, i, entries', j)
  PROVE  Mapping' = Mapping
<1>1. DataOf(entries) \subseteq Slots /\ DataOf(entries') \subseteq Slots
  BY DEF DataOf
<1>2. \A i \in DataOf(entries) : \E j \in DataOf(entries') : SamePair(entries, i, entries', j)
  BY <1>1, MappingIs
<1>3. \A j \in DataOf(entries') : \E i \in DataOf(entries) : SamePair(entries, i, entries', j)
  BY <1>1, MappingIs
<1> QED
  BY <1>2, <1>3, MappingIs, SameMap

\* Loosening entries, and clearing slots above the table, keeps the map.
LEMMA LoosenedMapping ==
  ASSUME Inv, Inv', pc # "rehash", NEW m \in Nat, numEntries <= m,
         entries' = [i \in Slots |-> IF i < numEntries THEN Loosened(entries[i])
                                    ELSE IF i < m THEN InitializedElement
                                    ELSE entries[i]]
  PROVE  Mapping' = Mapping
<1>1. \A i \in Slots : (IsData(i)' <=> IsData(i))
                        /\ (IsData(i) => entries'[i].k = entries[i].k)
  BY LoosenedData
<1>2. ASSUME NEW i \in Slots, IsData(i)
      PROVE  entries'[i].v = entries[i].v
  <2>1. entries[i] \in Entry /\ i < numEntries
    BY <1>2 DEF Inv, TypeOK, DataOK
  <2>2. entries'[i] = Loosened(entries[i])
    BY <2>1
  <2> QED
    BY <2>1, <2>2 DEF Loosened, Entry
<1>3. UniqueKeys /\ UniqueKeys'
  BY DEF Inv
<1> QED
  BY <1>1, <1>2, <1>3, MappingKept DEF SamePair

\* Clearing the slot i removes its key.
LEMMA MappingRemoved ==
  ASSUME UniqueKeys, UniqueKeys', NEW i \in Slots, IsData(i), ~IsData(i)',
         \A j \in Slots : j # i => entries'[j] = entries[j]
  PROVE  /\ entries[i].k \in DOMAIN Mapping
         /\ Mapping' = [x \in DOMAIN Mapping \ {entries[i].k} |-> Mapping[x]]
<1>1. i \in DataOf(entries) /\ i \notin DataOf(entries')
  BY DataOfIs
<1>2. \A j \in Slots : j # i => (j \in DataOf(entries') <=> j \in DataOf(entries))
  BY DEF DataOf
<1>3. DataOf(entries) \subseteq Slots /\ DataOf(entries') \subseteq Slots
  BY DataOfIs
<1>4. Unique(entries) /\ Unique(entries')
  BY MappingIs
<1>5. \A a \in DataOf(entries) : entries[a].k # entries[i].k =>
        \E b \in DataOf(entries') : SamePair(entries, a, entries', b)
  BY <1>2, <1>3 DEF SamePair
<1>6. ASSUME NEW b \in DataOf(entries')
      PROVE  /\ entries'[b].k # entries[i].k
             /\ \E a \in DataOf(entries) : SamePair(entries, a, entries', b)
  <2>1. b \in Slots /\ b # i /\ b \in DataOf(entries) /\ entries'[b] = entries[b]
    BY <1>1, <1>2, <1>3
  <2> QED
    BY <1>1, <1>4, <2>1 DEF SamePair, Unique
<1>7. /\ entries[i].k \in DOMAIN MapOf(entries)
      /\ MapOf(entries') =
           [x \in DOMAIN MapOf(entries) \ {entries[i].k} |-> MapOf(entries)[x]]
  BY <1>1, <1>4, <1>5, <1>6, RemovedMap
<1> QED
  BY <1>7, MappingIs

\* Writing a pair to the slot of its key, or to one without data if the key
\* is not there, stores the pair.
LEMMA MappingStored ==
  ASSUME UniqueKeys, UniqueKeys', NEW i \in Slots, NEW k, NEW v, IsData(i)',
         entries'[i].k = k, entries'[i].v = v,
         IsData(i) => entries[i].k = k,
         \A j \in Slots : j # i => entries'[j] = entries[j]
  PROVE  Mapping' = WithPair(Mapping, k, v)
<1>1. i \in DataOf(entries') /\ (i \in DataOf(entries) => entries[i].k = k)
  BY DataOfIs
<1>2. \A j \in Slots : j # i => (j \in DataOf(entries') <=> j \in DataOf(entries))
  BY DEF DataOf
<1>3. DataOf(entries) \subseteq Slots /\ DataOf(entries') \subseteq Slots
  BY DataOfIs
<1>4. Unique(entries) /\ Unique(entries')
  BY MappingIs
<1>5. \A a \in DataOf(entries) : entries[a].k # k =>
        \E b \in DataOf(entries') : SamePair(entries, a, entries', b)
  BY <1>1, <1>2, <1>3 DEF SamePair
<1>6. \A b \in DataOf(entries') : entries'[b].k # k =>
        \E a \in DataOf(entries) : SamePair(entries, a, entries', b)
  BY <1>1, <1>2, <1>3 DEF SamePair
<1>7. \E b \in DataOf(entries') : entries'[b].k = k /\ entries'[b].v = v
  BY <1>1
<1>8. MapOf(entries') = WithPair(MapOf(entries), k, v)
  BY <1>4, <1>5, <1>6, <1>7, StoredMap
<1> QED
  BY <1>8, MappingIs

MapStep == [AbstractMap!Next]_(AbstractMap!vars)

\* While an Insert is under way its pair is that of a request.
LEMMA RequestUnderWay ==
  ASSUME Inv, Inserting
  PROVE  /\ pending.k \in Keys /\ pending.v \in Values
         /\ PendingPair # AbstractMap!NoRequest
<1>1. pending.k \in Keys /\ pending.v \in Values
  BY DEF Inv, PendingOK
<1> QED
  BY <1>1, ConstantsAssumption DEF PendingPair, AbstractMap!NoRequest

\* An Insert starts: the array may grow and all entries may be loosened.
LEMMA BeginInsertMaps ==
  ASSUME Inv, Inv', RequestInv, NEW k \in Keys, NEW v \in Values, BeginInsert(k, v)
  PROVE  MapStep
<1>1. pc = "idle" /\ pending' = [k |-> k, v |-> v, index |-> 0] /\ outcome' = "none"
  BY DEF BeginInsert
<1>2. PendingPair = AbstractMap!NoRequest
  BY <1>1 DEF RequestInv, Inserting, NoPending, PendingPair, AbstractMap!NoRequest
<1>3. PendingPair' = [k |-> k, v |-> v]
  BY <1>1 DEF PendingPair
<1>4. Mapping' = Mapping
  <2>1. CASE NeedsEnlarge
    <3>1. numEntries \in Nat
      BY DEF Inv, TypeOK
    <3>2. EnlargedCount \in Nat /\ numEntries <= EnlargedCount
      BY <3>1 DEF EnlargedCount
    <3>3. entries' = [i \in Slots |-> IF i < numEntries THEN Loosened(entries[i])
                                     ELSE IF i < EnlargedCount THEN InitializedElement
                                     ELSE entries[i]]
      BY <2>1 DEF BeginInsert
    <3> QED
      BY <1>1, <3>2, <3>3, LoosenedMapping
  <2>2. CASE ~NeedsEnlarge
    BY <2>2 DEF BeginInsert, Mapping, PresentKeys, SlotOf, IsData
  <2> QED
    BY <2>1, <2>2
<1>5. AbstractMap!Request(k, v)
  BY <1>1, <1>2, <1>3, <1>4 DEF AbstractMap!Request
<1> QED
  BY <1>5 DEF MapStep, AbstractMap!Next

\* An Insert that cannot enlarge the array is refused.
LEMMA EnlargeFailsMaps ==
  ASSUME RequestInv, EnlargeFails
  PROVE  MapStep
<1>1. AbstractMap!Refuse
  BY DEF EnlargeFails, RequestInv, Inserting, NoPending, PendingPair, Mapping, PresentKeys,
         SlotOf, IsData, AbstractMap!Refuse, AbstractMap!NoRequest
<1> QED
  BY <1>1 DEF MapStep, AbstractMap!Next

\* A key that is there gets its new value at once; otherwise only the slot to
\* fill is chosen.
LEMMA PlaceMaps ==
  ASSUME Inv, Inv', Place
  PROVE  MapStep
<1> DEFINE i == FindElementIndex(pending.k)
<1>1. pc = "place" /\ PendingPair # AbstractMap!NoRequest
  BY RequestUnderWay DEF Place, Inserting
<1>2. CASE Found(pending.k)
  <2>1. i \in Slots /\ IsData(i) /\ entries[i].k = pending.k
    BY <1>2, LookupType DEF Inv, HitAt, Matches
  <2>2. /\ entries' = [entries EXCEPT ![i].v = pending.v]
        /\ pending' = NoPending /\ outcome' = "stored"
    BY <1>2 DEF Place
  <2> HIDE DEF i
  <2>3. entries \in [Slots -> Entry]
    BY DEF Inv, TypeOK
  <2>4. /\ \A j \in Slots : j # i => entries'[j] = entries[j]
        /\ entries'[i].k = pending.k /\ entries'[i].v = pending.v
        /\ entries'[i].elementType = entries[i].elementType
    BY <2>1, <2>2, <2>3 DEF Entry
  <2>5. Mapping' = WithPair(Mapping, pending.k, pending.v)
    BY <2>1, <2>4, MappingStored DEF Inv, IsData
  <2>6. AbstractMap!Store
    BY <1>1, <2>2, <2>5
    DEF AbstractMap!Store, WithPair, PendingPair, NoPending, AbstractMap!NoRequest
  <2> QED
    BY <2>6 DEF MapStep, AbstractMap!Next
<1>3. CASE ~Found(pending.k)
  <2>1. pending' = [pending EXCEPT !.index = i] /\ UNCHANGED <<entries, outcome>>
    BY <1>3 DEF Place
  <2>2. PendingPair' = PendingPair
    BY <2>1 DEF PendingPair, Inv, TypeOK
  <2>3. Mapping' = Mapping
    BY <2>1 DEF Mapping, PresentKeys, SlotOf, IsData
  <2> QED
    BY <2>1, <2>2, <2>3 DEF MapStep, AbstractMap!vars
<1> QED
  BY <1>2, <1>3

\* An Insert whose key could not be made changes nothing.
LEMMA ConstructKeyFailsMaps ==
  ASSUME Inv, ConstructKeyFails
  PROVE  MapStep
<1>1. PendingPair # AbstractMap!NoRequest
  BY RequestUnderWay DEF ConstructKeyFails, Inserting
<1>2. AbstractMap!Fail
  BY <1>1 DEF ConstructKeyFails, NoPending, PendingPair, Mapping, PresentKeys, SlotOf, IsData,
              AbstractMap!Fail, AbstractMap!NoRequest
<1> QED
  BY <1>2 DEF MapStep, AbstractMap!Next

\* The slot filled was free, so nothing but the new pair is stored.
LEMMA FillEntryMaps ==
  ASSUME Inv, Inv', FillEntry
  PROVE  MapStep
<1> DEFINE i == InsertionIndex
<1>1. pc = "construct" /\ PendingPair # AbstractMap!NoRequest
  BY RequestUnderWay DEF FillEntry, Inserting
<1>2. i \in Indices(numEntries) /\ ~IsData(i)
  BY <1>1, InvInsertionSlot DEF InsertionSlotIsFree
<1>3. /\ entries' = [entries EXCEPT ![i] =
                       [elementType |-> "Filled", hash |-> Hash[pending.k],
                        k |-> pending.k, v |-> pending.v]]
      /\ pending' = NoPending /\ outcome' = "stored"
  BY DEF FillEntry
<1> HIDE DEF i
<1>4. i \in Slots /\ entries \in [Slots -> Entry]
  BY <1>2, ConstantsAssumption DEF Inv, TypeOK, Indices, Slots
<1>5. /\ \A j \in Slots : j # i => entries'[j] = entries[j]
      /\ entries'[i].k = pending.k /\ entries'[i].v = pending.v
      /\ entries'[i].elementType = "Filled"
  BY <1>3, <1>4
<1>6. Mapping' = WithPair(Mapping, pending.k, pending.v)
  BY <1>2, <1>4, <1>5, MappingStored DEF Inv, IsData
<1>7. AbstractMap!Store
  BY <1>1, <1>3, <1>6
  DEF AbstractMap!Store, WithPair, PendingPair, NoPending, AbstractMap!NoRequest
<1> QED
  BY <1>7 DEF MapStep, AbstractMap!Next

\* Clearing a settled entry removes its key, whoever does it.
LEMMA RemoveEntryMaps ==
  ASSUME Inv, Inv', NEW i \in Slots, IsFilled(i), RemoveEntry(i), UNCHANGED <<pending, outcome>>
  PROVE  MapStep
<1>1. entries' = [entries EXCEPT ![i] = DestroyedEntry] /\ entries \in [Slots -> Entry]
  BY DEF RemoveEntry, Inv, TypeOK
<1>2. /\ \A j \in Slots : j # i => entries'[j] = entries[j]
      /\ entries'[i] = DestroyedEntry
  BY <1>1
<1>3. IsData(i) /\ ~IsData(i)' /\ i < numEntries /\ entries[i].k \in Keys
  BY <1>2 DEF IsData, IsFilled, DestroyedEntry, InitializedElement, Inv, DataOK
<1>4. /\ entries[i].k \in DOMAIN Mapping
      /\ Mapping' = [x \in DOMAIN Mapping \ {entries[i].k} |-> Mapping[x]]
  BY <1>2, <1>3, MappingRemoved DEF Inv
<1>5. AbstractMap!Remove(entries[i].k)
  BY <1>4 DEF AbstractMap!Remove, PendingPair
<1> QED
  BY <1>3, <1>5 DEF MapStep, AbstractMap!Next

\* RemoveKey clears the slot where the lookup of its key ends.
LEMMA RemoveKeyMaps ==
  ASSUME Inv, Inv', NEW k \in Keys, RemoveKey(k)
  PROVE  MapStep
<1>1. pc = "idle" /\ k \in PresentKeys /\ RemoveEntry(FindElementIndex(k))
      /\ UNCHANGED <<pending, outcome>>
  BY DEF RemoveKey
<1>2. PICK i \in Slots : IsData(i) /\ entries[i].k = k
  BY <1>1 DEF PresentKeys
<1>3. i \in Indices(numEntries) /\ HitAt(k, i)
  BY <1>1, <1>2, PresentIsFound
<1>4. Found(k)
  BY <1>3 DEF Found
<1>5. FindElementIndex(k) \in Slots /\ IsData(FindElementIndex(k))
  BY <1>4, LookupType DEF Inv, HitAt, Matches
<1>6. IsFilled(FindElementIndex(k))
  BY <1>1, <1>5 DEF Inv, Settled, IsData, IsFilled
<1> QED
  BY <1>1, <1>5, <1>6, RemoveEntryMaps

\* Moving a loose entry swaps two slots.
LEMMA SettleEntryMaps ==
  ASSUME Inv, Inv', SettleEntry
  PROVE  MapStep
<1>1. /\ pc = "rehash" /\ cursor < oldCount /\ entries[cursor].elementType = "Loose"
      /\ UNCHANGED <<pending, outcome>>
  BY DEF SettleEntry
<1>2. PICK d \in Indices(newCount) :
        entries' = [entries EXCEPT ![cursor] = entries[d],
                                   ![d] = [entries[cursor] EXCEPT !.elementType = "Filled"]]
  BY DEF SettleEntry
<1>3. cursor \in Slots /\ d \in Slots /\ entries \in [Slots -> Entry]
  BY <1>1, ConstantsAssumption DEF Inv, TypeOK, RehashSizes, Indices, Slots
<1>4. PICK c \in Slots : c = cursor
  BY <1>3
<1>5. /\ entries'[d].elementType = "Filled"
      /\ entries'[d].k = entries[c].k /\ entries'[d].v = entries[c].v
      /\ c # d => entries'[c] = entries[d]
      /\ \A i \in Slots : i # c /\ i # d => entries'[i] = entries[i]
  BY <1>2, <1>3, <1>4 DEF Entry
<1>6. /\ IsData(c) /\ IsData(d)'
      /\ \A i \in Slots : i # c /\ i # d => (IsData(i)' <=> IsData(i))
      /\ c # d => (IsData(c)' <=> IsData(d))
  BY <1>1, <1>4, <1>5 DEF IsData
<1>7. ASSUME NEW i \in Slots, IsData(i)
      PROVE  \E j \in Slots : IsData(j)' /\ SamePair(entries, i, entries', j)
  <2>1. CASE i = c
    BY <1>3, <1>5, <1>6, <2>1 DEF SamePair
  <2>2. CASE i # c /\ i = d
    BY <1>5, <1>6, <1>7, <2>2 DEF SamePair
  <2>3. CASE i # c /\ i # d
    BY <1>5, <1>6, <1>7, <2>3 DEF SamePair
  <2> QED
    BY <2>1, <2>2, <2>3
<1>8. ASSUME NEW j \in Slots, IsData(j)'
      PROVE  \E i \in Slots : IsData(i) /\ SamePair(entries, i, entries', j)
  <2>1. CASE j = d
    BY <1>5, <1>6, <2>1 DEF SamePair
  <2>2. CASE j # d /\ j = c
    BY <1>3, <1>5, <1>6, <1>8, <2>2 DEF SamePair
  <2>3. CASE j # c /\ j # d
    BY <1>5, <1>6, <1>8, <2>3 DEF SamePair
  <2> QED
    BY <2>1, <2>2, <2>3
<1>9. Mapping' = Mapping
  BY <1>7, <1>8, MappingKept DEF Inv
<1> QED
  BY <1>1, <1>9 DEF MapStep, AbstractMap!vars, PendingPair

\* A Balance moves no entry by itself.
LEMMA BalanceMaps ==
  ASSUME Inv, Inv', Balance
  PROVE  MapStep
<1>1. pc = "balance" /\ UNCHANGED <<pending, outcome>>
  BY DEF Balance
<1>2. Mapping' = Mapping
  <2>1. CASE load > ShrinkFloor /\ load < ShrinkThreshold
    <3>1. entries' = [i \in Slots |-> IF i < numEntries THEN Loosened(entries[i])
                                     ELSE entries[i]]
      BY <2>1 DEF Balance
    <3>2. entries' = [i \in Slots |-> IF i < numEntries THEN Loosened(entries[i])
                                     ELSE IF i < numEntries THEN InitializedElement
                                     ELSE entries[i]]
      BY <3>1
    <3>3. numEntries \in Nat /\ numEntries <= numEntries
      BY DEF Inv, TypeOK
    <3> QED
      BY <1>1, <3>2, <3>3, LoosenedMapping
  <2>2. CASE ~(load > ShrinkFloor /\ load < ShrinkThreshold)
    <3>1. UNCHANGED entries
      BY <2>2 DEF Balance
    <3> QED
      BY <3>1 DEF Mapping, PresentKeys, SlotOf, IsData
  <2> QED
    BY <2>1, <2>2
<1> QED
  BY <1>1, <1>2 DEF MapStep, AbstractMap!vars, PendingPair

\* Every step of the table is one of the map, or none.
LEMMA StepMaps ==
  ASSUME Inv, Inv', RequestInv, [Next]_vars
  PROVE  MapStep
<1>1. ASSUME NEW k \in Keys, NEW v \in Values, BeginInsert(k, v) PROVE MapStep
  BY <1>1, BeginInsertMaps
<1>2. CASE EnlargeFails
  BY <1>2, EnlargeFailsMaps
<1>3. CASE Place
  BY <1>3, PlaceMaps
<1>4. CASE ConstructKeyFails
  BY <1>4, ConstructKeyFailsMaps
<1>5. CASE FillEntry
  BY <1>5, FillEntryMaps
<1>6. ASSUME NEW k \in Keys, RemoveKey(k) PROVE MapStep
  BY <1>6, RemoveKeyMaps
<1>7. ASSUME NEW i \in Slots, SweepEntry(i) PROVE MapStep
  <2>1. IsFilled(i) /\ RemoveEntry(i) /\ UNCHANGED <<pending, outcome>>
    BY <1>7 DEF SweepEntry
  <2> QED
    BY <2>1, RemoveEntryMaps
<1>8. CASE Balance
  BY <1>8, BalanceMaps
<1>9. CASE SettleEntry
  BY <1>9, SettleEntryMaps
<1>10. CASE BeginSweep \/ EndSweep \/ AdvanceCursor \/ FinishRehash \/ UNCHANGED vars
  <2>1. UNCHANGED <<entries, pending, outcome>>
    BY <1>10 DEF BeginSweep, EndSweep, AdvanceCursor, FinishRehash, vars
  <2> QED
    BY <2>1 DEF MapStep, AbstractMap!vars, PendingPair, Mapping, PresentKeys, SlotOf, IsData
<1> QED
  BY <1>1, <1>2, <1>3, <1>4, <1>5, <1>6, <1>7, <1>8, <1>9, <1>10 DEF Next

\* The empty table is the empty map.
LEMMA InitMaps == Init => AbstractMap!Init
<1> SUFFICES ASSUME Init PROVE AbstractMap!Init
  OBVIOUS
<1>1. \A i \in Slots : ~IsData(i)
  BY DEF Init, IsData, InitializedElement
<1>2. PresentKeys = {}
  BY <1>1 DEF PresentKeys
<1>3. Mapping = [k \in {} |-> NoValue]
  BY <1>2 DEF Mapping
<1>4. PendingPair = AbstractMap!NoRequest /\ outcome = "none"
  BY DEF Init, PendingPair, NoPending, AbstractMap!NoRequest
<1> QED
  BY <1>3, <1>4 DEF AbstractMap!Init

-----------------------------------------------------------------------------
\* The table implements the map (Insert, RemoveEntry, Balance, Rehash,
\* FindElementIndex): an Insert stores its pair at one instant or leaves the map
\* alone, rehashes and shrinking are invisible, and only a removal, by the
\* program or by a collection, takes a key away.
THEOREM Implements == Spec => ImplementsMap
<1>1. Init => Inv /\ RequestInv /\ AbstractMap!Init
  BY InitInv, InitRequest, InitMaps
<1>2. Inv /\ RequestInv /\ [Next]_vars => Inv' /\ RequestInv'
  BY StepInv, StepRequest
<1>3. Inv /\ Inv' /\ RequestInv /\ [Next]_vars => [AbstractMap!Next]_(AbstractMap!vars)
  BY StepMaps DEF MapStep
<1> QED
  BY <1>1, <1>2, <1>3, PTL DEF Spec, ImplementsMap, AbstractMap!Spec
=============================================================================
