------------------------------- MODULE HashMap -------------------------------
(***************************************************************************)
(* The open-addressing hash table rdxCHashMap (rdx_hashmap.hpp) that backs *)
(* every symbol table of the object manager: the string table, the table   *)
(* of array types, the global symbol table and the package table.          *)
(*                                                                         *)
(* A slot is Empty (ends a probe), Deleted (a tombstone a probe walks      *)
(* over), Filled, or, only while the table is being rehashed in place,     *)
(* Loose (data that still has to be moved to its new position).            *)
(*                                                                         *)
(* The operations are cut where the code can be interrupted: Insert calls  *)
(* ConstructKey between choosing a slot and filling it, ConstructKey may   *)
(* allocate, an allocation may collect garbage, and the collector removes  *)
(* dead entries from this very table and may shrink it.  Rehash moves one  *)
(* entry per step.                                                         *)
(***************************************************************************)
EXTENDS Integers, FiniteSets

CONSTANTS
  Keys,         \* the keys in use
  Values,       \* the values in use
  NoKey,        \* the zero-filled key of a slot without data
  NoValue,      \* the zero-filled value of a slot without data
  Hash,         \* Hash[k]: HashCKey of key k
  Allocates,    \* TRUE: ConstructKey allocates (string table); FALSE: it copies
  ShrinkFloor,  \* Balance leaves a table with this load or less alone (8)
  MaxEntries    \* the largest array the allocator can provide

ASSUME ConstantsAssumption ==
  /\ NoKey \notin Keys
  /\ NoValue \notin Values
  /\ Hash \in [Keys -> Nat]
  /\ Allocates \in BOOLEAN
  /\ ShrinkFloor \in Nat
  /\ MaxEntries \in Nat \ {0}

VARIABLES
  entries,      \* m_native.untracedEntries
  numEntries,   \* m_native.numEntries
  load,         \* the table's own count of its entries
  pc,           \* what the code is doing to the table
  caller,       \* where it goes on after a Balance: idle or construct
  pending,      \* arguments and slot of the Insert in progress
  oldCount,     \* arguments of the Rehash in progress
  newCount,
  cursor,       \* its loop index, and the index of the collector's sweep
  outcome       \* how the last Insert ended

vars == <<entries, numEntries, load, pc, caller, pending, oldCount, newCount,
          cursor, outcome>>

Slots == 0..(MaxEntries - 1)

HashElementType == {"Empty", "Deleted", "Filled", "Loose"}

Entry == [elementType : HashElementType,
          hash        : Nat,
          k           : Keys \cup {NoKey},
          v           : Values \cup {NoValue}]

\* InitializeElement: a zero-filled entry; zero is HMT_ElementTypeEmpty.
InitializedElement ==
  [elementType |-> "Empty", hash |-> 0, k |-> NoKey, v |-> NoValue]

NoPending == [k |-> NoKey, v |-> NoValue, index |-> 0]

LoadFactor == 80

-----------------------------------------------------------------------------
(***************************************************************************)
(* Probing.                                                                *)
(***************************************************************************)

IsData(i)   == entries[i].elementType \in {"Filled", "Loose"}
IsFilled(i) == entries[i].elementType = "Filled"

Indices(n) == 0..(n - 1)

rdxHashValueIndex(h, n) == h % n

\* The number of steps a probe of a table of n slots takes from home to i.
Distance(home, i, n) == IF i >= home THEN i - home ELSE i + n - home

\* A probe for hash h in a table of n slots looks at j before it looks at i.
Before(j, i, h, n) ==
  Distance(rdxHashValueIndex(h, n), j, n) < Distance(rdxHashValueIndex(h, n), i, n)

Matches(k, i) == IsData(i) /\ entries[i].hash = Hash[k] /\ entries[i].k = k

\* Faulty variant: a probe that a tombstone stops.
HitAtStoppedByTombstone(k, i) ==
  /\ Matches(k, i)
  /\ \A j \in Indices(numEntries) :
       Before(j, i, Hash[k], numEntries) =>
         ~Matches(k, j) /\ entries[j].elementType \notin {"Empty", "Deleted"}

\* The probe for k ends at i: a match, with no match and no empty slot before.
HitAt(k, i) ==
  /\ Matches(k, i)
  /\ \A j \in Indices(numEntries) :
       Before(j, i, Hash[k], numEntries) =>
         ~Matches(k, j) /\ entries[j].elementType # "Empty"

Found(k) == \E i \in Indices(numEntries) : HitAt(k, i)

\* The first slot of the probe that does not hold a settled entry.
InsertableAt(k, i) ==
  /\ ~IsFilled(i)
  /\ \A j \in Indices(numEntries) : Before(j, i, Hash[k], numEntries) => IsFilled(j)

\* Faulty variant: the insertable slot is taken after the index has moved on.
FindElementIndexMovedOn(k) ==
  IF Found(k) THEN CHOOSE i \in Indices(numEntries) : HitAt(k, i)
  ELSE IF \E i \in Indices(numEntries) : InsertableAt(k, i)
       THEN (CHOOSE i \in Indices(numEntries) : InsertableAt(k, i)) + 1
       ELSE 0

\* FindElementIndex: the slot of k, or the one to insert it at; 0 if none is.
FindElementIndex(k) ==
  IF Found(k) THEN CHOOSE i \in Indices(numEntries) : HitAt(k, i)
  ELSE IF \E i \in Indices(numEntries) : InsertableAt(k, i)
       THEN CHOOSE i \in Indices(numEntries) : InsertableAt(k, i)
       ELSE 0

PresentKeys == {entries[i].k : i \in {j \in Slots : IsData(j)}}

-----------------------------------------------------------------------------
(***************************************************************************)
(* Rehash: a first loop turns tombstones into empty slots and loosens all  *)
(* entries, a second one moves each loose entry to the first slot of its   *)
(* new probe that holds no settled entry, swapping out what is there.      *)
(***************************************************************************)

Loosened(e) ==
  IF e.elementType = "Deleted" THEN [e EXCEPT !.elementType = "Empty"]
  ELSE IF e.elementType = "Filled" THEN [e EXCEPT !.elementType = "Loose"]
  ELSE e

StartRehash(from, to) ==
  /\ oldCount' = from
  /\ newCount' = to
  /\ cursor' = 0
  /\ pc' = "rehash"

\* Faulty variant: any slot that is not Filled, not the first one of the probe.
IsAnyDestination(i) == ~IsFilled(i)

\* Faulty variant: the moved entry is not marked as settled.
SettleEntryStillLoose ==
  /\ pc = "rehash"
  /\ cursor < oldCount
  /\ entries[cursor].elementType = "Loose"
  /\ \E d \in Indices(newCount) :
       entries' = [entries EXCEPT ![cursor] = entries[d], ![d] = entries[cursor]]
  /\ UNCHANGED <<numEntries, load, pc, caller, pending, oldCount, newCount,
                 cursor, outcome>>

\* i is the first slot of the new probe of the entry at the cursor that is
\* not Filled.
IsDestination(i) ==
  /\ ~IsFilled(i)
  /\ \A j \in Indices(newCount) :
       Before(j, i, entries[cursor].hash, newCount) => IsFilled(j)

SettleEntry ==
  /\ pc = "rehash"
  /\ cursor < oldCount
  /\ entries[cursor].elementType = "Loose"
  /\ \E d \in Indices(newCount) :
       /\ IsDestination(d)
       /\ entries' = [entries EXCEPT
                        ![cursor] = entries[d],
                        ![d] = [entries[cursor] EXCEPT !.elementType = "Filled"]]
  /\ UNCHANGED <<numEntries, load, pc, caller, pending, oldCount, newCount,
                 cursor, outcome>>

AdvanceCursor ==
  /\ pc = "rehash"
  /\ cursor < oldCount
  /\ entries[cursor].elementType # "Loose"
  /\ cursor' = cursor + 1
  /\ UNCHANGED <<entries, numEntries, load, pc, caller, pending, oldCount,
                 newCount, outcome>>

\* Insert goes on to look for a slot; Balance publishes the smaller size.
FinishRehash ==
  /\ pc = "rehash"
  /\ cursor = oldCount
  /\ pc' = IF newCount < oldCount THEN caller ELSE "place"
  /\ numEntries' = newCount
  /\ oldCount' = 0
  /\ newCount' = 0
  /\ cursor' = 0
  /\ UNCHANGED <<entries, load, caller, pending, outcome>>

-----------------------------------------------------------------------------
(***************************************************************************)
(* Insert.                                                                 *)
(***************************************************************************)

NeedsEnlarge == load * 100 >= LoadFactor * numEntries

EnlargedCount == IF numEntries = 0 THEN 1 ELSE numEntries * 2

\* EnlargeEntryArray clears the new slots, and Rehash starts.
BeginInsert(k, v) ==
  /\ pc = "idle"
  /\ pending' = [k |-> k, v |-> v, index |-> 0]
  /\ outcome' = "none"
  /\ IF NeedsEnlarge
     THEN /\ EnlargedCount <= MaxEntries
          /\ entries' = [i \in Slots |->
                           IF i < numEntries THEN Loosened(entries[i])
                           ELSE IF i < EnlargedCount THEN InitializedElement
                           ELSE entries[i]]
          /\ numEntries' = EnlargedCount
          /\ StartRehash(numEntries, EnlargedCount)
     ELSE /\ pc' = "place"
          /\ UNCHANGED <<entries, numEntries, oldCount, newCount, cursor>>
  /\ UNCHANGED <<load, caller>>

\* EnlargeEntryArray throws RDX_ERROR_ALLOCATION_FAILED: nothing has changed.
EnlargeFails ==
  /\ pc = "idle"
  /\ NeedsEnlarge
  /\ outcome' = "failed"
  /\ UNCHANGED <<entries, numEntries, load, pc, caller, pending, oldCount,
                 newCount, cursor>>

\* A key that is there gets the new value; for another one ConstructKey is
\* called with the slot chosen.
Place ==
  /\ pc = "place"
  /\ LET i == FindElementIndex(pending.k)
     IN IF Found(pending.k)
        THEN /\ entries' = [entries EXCEPT ![i].v = pending.v]
             /\ pc' = "idle"
             /\ pending' = NoPending
             /\ outcome' = "stored"
        ELSE /\ pc' = "construct"
             /\ pending' = [pending EXCEPT !.index = i]
             /\ UNCHANGED <<entries, outcome>>
  /\ UNCHANGED <<numEntries, load, caller, oldCount, newCount, cursor>>

\* ConstructKey could not allocate the key.
ConstructKeyFails ==
  /\ pc = "construct"
  /\ Allocates
  /\ pc' = "idle"
  /\ pending' = NoPending
  /\ outcome' = "failed"
  /\ UNCHANGED <<entries, numEntries, load, caller, oldCount, newCount, cursor>>

\* Faulty variant: the recheck is forgotten.
InsertionIndexWithoutRecheck == pending.index

\* The index to fill: looked up again if ConstructKey asked for a recheck.
InsertionIndex == IF Allocates THEN FindElementIndex(pending.k) ELSE pending.index

FillEntry ==
  /\ pc = "construct"
  /\ entries' = [entries EXCEPT ![InsertionIndex] =
                   [elementType |-> "Filled", hash |-> Hash[pending.k],
                    k |-> pending.k, v |-> pending.v]]
  /\ load' = load + 1
  /\ pc' = "idle"
  /\ pending' = NoPending
  /\ outcome' = "stored"
  /\ UNCHANGED <<numEntries, caller, oldCount, newCount, cursor>>

-----------------------------------------------------------------------------
(***************************************************************************)
(* Removal and Balance.                                                    *)
(***************************************************************************)

\* DestroyEntry: whatever RemoveEntry chose, the slot ends up Deleted.
DestroyedEntry == [InitializedElement EXCEPT !.elementType = "Deleted"]

\* Faulty variant: the load is not counted down.
RemoveEntryKeepsLoad(i) ==
  IF IsFilled(i)
  THEN entries' = [entries EXCEPT ![i] = DestroyedEntry] /\ UNCHANGED load
  ELSE UNCHANGED <<entries, load>>

\* RemoveEntry does nothing to a slot that is not Filled.
RemoveEntry(i) ==
  IF IsFilled(i)
  THEN /\ entries' = [entries EXCEPT ![i] = DestroyedEntry]
       /\ load' = load - 1
  ELSE UNCHANGED <<entries, load>>

\* LoadObject takes the package it has just loaded out of the package table:
\* RemoveEntry of the index found, then Balance.
RemoveKey(k) ==
  /\ pc = "idle"
  /\ k \in PresentKeys
  /\ RemoveEntry(FindElementIndex(k))
  /\ pc' = "balance"
  /\ caller' = "idle"
  /\ UNCHANGED <<numEntries, pending, oldCount, newCount, cursor, outcome>>

\* A collection walks over the table.  It comes between two operations of the
\* table, or out of the allocation in ConstructKey.
BeginSweep ==
  /\ pc \in {"idle", "construct"}
  /\ pc = "construct" => Allocates
  /\ numEntries > 0
  /\ pc' = "sweep"
  /\ caller' = pc
  /\ cursor' = 0
  /\ UNCHANGED <<entries, numEntries, load, pending, oldCount, newCount, outcome>>

\* The next dead entry of the walk is at i.
SweepEntry(i) ==
  /\ pc = "sweep"
  /\ i \in cursor..(numEntries - 1)
  /\ IsFilled(i)
  /\ RemoveEntry(i)
  /\ cursor' = i + 1
  /\ UNCHANGED <<numEntries, pc, caller, pending, oldCount, newCount, outcome>>

EndSweep ==
  /\ pc = "sweep"
  /\ pc' = "balance"
  /\ cursor' = 0
  /\ UNCHANGED <<entries, numEntries, load, caller, pending, oldCount, newCount,
                 outcome>>

ShrinkThreshold == (numEntries * LoadFactor) \div 200

\* A sparse table is rehashed into its lower half.  The Realloc that follows
\* may fail without consequence.
Balance ==
  /\ pc = "balance"
  /\ IF load > ShrinkFloor /\ load < ShrinkThreshold
     THEN /\ entries' = [i \in Slots |->
                           IF i < numEntries THEN Loosened(entries[i]) ELSE entries[i]]
          /\ StartRehash(numEntries, numEntries \div 2)
     ELSE /\ pc' = caller
          /\ UNCHANGED <<entries, oldCount, newCount, cursor>>
  /\ UNCHANGED <<numEntries, load, caller, pending, outcome>>

-----------------------------------------------------------------------------
Init ==
  /\ entries = [i \in Slots |-> InitializedElement]
  /\ numEntries = 0
  /\ load = 0
  /\ pc = "idle"
  /\ caller = "idle"
  /\ pending = NoPending
  /\ oldCount = 0
  /\ newCount = 0
  /\ cursor = 0
  /\ outcome = "none"

RehashStep == SettleEntry \/ AdvanceCursor \/ FinishRehash

Next ==
  \/ \E k \in Keys, v \in Values : BeginInsert(k, v)
  \/ EnlargeFails
  \/ Place
  \/ ConstructKeyFails
  \/ FillEntry
  \/ \E k \in Keys : RemoveKey(k)
  \/ BeginSweep
  \/ \E i \in Slots : SweepEntry(i)
  \/ EndSweep
  \/ Balance
  \/ SettleEntry
  \/ AdvanceCursor
  \/ FinishRehash

Spec == Init /\ [][Next]_vars

\* A call that has entered Rehash runs: the table is used by one thread.
FairSpec == Spec /\ WF_vars(RehashStep)

-----------------------------------------------------------------------------
(***************************************************************************)
(* Properties.                                                             *)
(***************************************************************************)

\* Every variable has its type: the table never outgrows its array, and an
\* index handed on between steps lies inside it.
TypeOK ==
  /\ entries \in [Slots -> Entry]
  /\ numEntries \in 0..MaxEntries
  /\ load \in 0..MaxEntries
  /\ pc \in {"idle", "place", "construct", "sweep", "balance", "rehash"}
  /\ caller \in {"idle", "construct"}
  /\ pending \in [k : Keys \cup {NoKey}, v : Values \cup {NoValue}, index : Slots]
  /\ oldCount \in 0..MaxEntries
  /\ newCount \in 0..MaxEntries
  /\ cursor \in 0..MaxEntries
  /\ outcome \in {"none", "stored", "failed"}

\* No key is in the table twice, not even while entries are being moved, after
\* a tombstone on its probe was reused, or when a collection ran inside the
\* Insert that added it.
UniqueKeys ==
  \A i, j \in Slots :
    IsData(i) /\ IsData(j) /\ entries[i].k = entries[j].k => i = j

\* load, which decides about enlarging and shrinking, is the number of entries
\* at every step: no path of Insert, RemoveEntry or Rehash loses or double
\* counts one.
LoadIsExact == load = Cardinality({i \in Slots : IsData(i)})

\* Whenever the table can be searched, the probe for the key of an entry ends
\* at that entry: no removal, insertion or rehash leaves an empty slot between
\* an entry and its home, and none leaves an entry above numEntries.
EveryEntryFound ==
  pc # "rehash" =>
    \A i \in Slots : IsData(i) =>
      /\ i \in Indices(numEntries)
      /\ HitAt(entries[i].k, i)

\* When an Insert is about to fill a slot, the slot it will fill is inside the
\* table and holds nothing, although a collection may have emptied, reordered
\* and shrunk the table since the slot was first chosen.
InsertionSlotIsFree ==
  pc = "construct" =>
    /\ InsertionIndex \in Indices(numEntries)
    /\ ~IsData(InsertionIndex)

\* Rehash terminates: a loose entry always finds a destination, and moving
\* entries around does not go on for ever.
RehashTerminates == (pc = "rehash") ~> (pc # "rehash")

\* The table as the map it stands for.
SlotOf(k) == CHOOSE i \in Slots : IsData(i) /\ entries[i].k = k

Mapping == [k \in PresentKeys |-> entries[SlotOf(k)].v]

\* The pair of the Insert under way, if there is one.
PendingPair == [k |-> pending.k, v |-> pending.v]

AbstractMap == INSTANCE SymbolMap WITH map <- Mapping, request <- PendingPair

\* The table implements a map from keys to values with atomic operations: an
\* Insert that succeeds stores exactly its pair, one that fails changes
\* nothing, and only a removal removes.
ImplementsMap == AbstractMap!Spec
=============================================================================
