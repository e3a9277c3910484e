------------------------------ MODULE ObjectHeap ------------------------------
(***************************************************************************)
(* The heap of the object manager and its mark-and-sweep collector         *)
(* (rdx_objectmanager.cpp).                                                *)
(*                                                                         *)
(* Native code keeps objects alive with counted references (rdxCRef);      *)
(* objects refer to each other with traced references; the string table,   *)
(* the table of array types, the global symbol table and the package table *)
(* hold weak references, which a collection has to drop in time.           *)
(*                                                                         *)
(* The collector stops the world, but it starts inside any allocation:     *)
(* every operation below that creates an object may lose, between two of   *)
(* its own steps, whatever it does not hold.  An address that was freed is *)
(* used again, so a reference the collector forgot would come to refer to  *)
(* another object.                                                         *)
(***************************************************************************)
EXTENDS Integers, FiniteSets

CONSTANTS
  Objects,       \* the addresses objects can have; one has room for one object
  Null,          \* the null reference
  Foreign,       \* the addresses whose plain objects belong to another package
                 \* than the one that is saved
  Contents,      \* the contents strings can have
  Types,         \* the objects used as element types of array types
  Packages,      \* the addresses that a package object can have
  Symbols,       \* the names of the global symbol table
  PackageNames,  \* the names of the package table
  MaxCounted,    \* bound on the counted references to an object
  MaxEdges       \* bound on the traced references between plain objects

ASSUME HeapAssumption ==
  /\ IsFiniteSet(Objects)
  /\ Null \notin Objects
  /\ Null \notin Contents
  /\ Foreign \subseteq Objects
  /\ Types \subseteq Objects
  /\ Packages \subseteq Objects
  /\ Symbols \cap PackageNames = {}
  /\ MaxCounted \in Nat
  /\ MaxEdges \in Nat

VARIABLES
  live,          \* the live list, m_liveRoot
  counted,       \* numExternalReferences
  refs,          \* the traced references that are saved with an object
  unserialized,  \* those that are not: the package of its serialization tag
  kind,          \* what the object is
  content,       \* the content of a string, once it is initialized
  flags,         \* objectFlags, the ones the collector uses
  scanLink,      \* the list that the object's scan link puts it on
  gcActive,      \* m_garbageCollector.IsActive()
  serializer,    \* whom the graph is for: the collector or a FileWriteSerializer
  strings,       \* m_stringTable
  aots,          \* m_aotTable
  named,         \* m_gst and m_packages
  pc,            \* what the object manager is doing
  after,         \* where it goes on after a collection
  collected,     \* this allocation has already collected garbage
  call,          \* the operation on whose behalf an object is created
  created        \* the object created last, or the one to be saved

heapVars  == <<live, counted, refs, unserialized, kind, content>>
graphVars == <<flags, scanLink, gcActive, serializer>>
tableVars == <<strings, aots, named>>
callVars  == <<after, collected, call, created>>

vars == <<heapVars, graphVars, tableVars, pc, callVars>>

Kinds == {"none", "object", "string", "chars", "array"}

Flags == {"GCMarkOnAssign", "GraphScanned", "GraphMarked", "External"}

Names == Symbols \cup PackageNames

\* The key of a string table entry is the string's array of characters.
NoEntry == [k |-> Null, v |-> Null]

NoCall == [op |-> "none", arg |-> Null, str |-> Null]

Roots == {o \in live : counted[o] > 0}

AllRefs(o) == refs[o] \cup unserialized[o]

\* What can be reached from the objects of S.
Reach(S, edges) ==
  {o \in Objects :
     \A closed \in SUBSET Objects :
       S \subseteq closed /\ (\A x \in closed : edges[x] \subseteq closed) => o \in closed}

Reachable == Reach(Roots, [o \in Objects |-> AllRefs(o)])

-----------------------------------------------------------------------------
(***************************************************************************)
(* Graphing, on behalf of the collector or of a package being saved.       *)
(***************************************************************************)

\* FileWriteSerializer leaves out the objects of other packages; strings,
\* arrays of characters and array types belong to no package.
TryIncludeObject(ser, o) ==
  ser = "gc" \/ o \notin Foreign \/ kind[o] # "object"

\* Faulty variant: an object a save has left out stays External.
MarkedKeepingExternal(f, S, ser) ==
  [o \in Objects |->
     IF o \in S
     THEN f[o] \cup {"GraphMarked"}
               \cup (IF TryIncludeObject(ser, o) THEN {} ELSE {"External"})
     ELSE f[o]]

\* The flags after MarkGraphObject of each object of S.
Marked(f, S, ser) ==
  [o \in Objects |->
     IF o \in S
     THEN (f[o] \ {"External"}) \cup {"GraphMarked"}
            \cup (IF TryIncludeObject(ser, o) THEN {} ELSE {"External"})
     ELSE f[o]]

\* Faulty variant: only the collector starts from a clean graph.
ClearedForCollector(ser) ==
  [o \in Objects |->
     IF ser = "gc" /\ o \in live
     THEN (flags[o] \ {"GraphMarked", "GraphScanned"}) \cup {"GCMarkOnAssign"}
     ELSE flags[o]]

\* Faulty variant: the marks of the last graph are left in place.
ClearedNever(ser) ==
  [o \in Objects |->
     IF o \in live /\ ser = "gc" THEN flags[o] \cup {"GCMarkOnAssign"} ELSE flags[o]]

Cleared(ser) ==
  [o \in Objects |->
     IF o \in live
     THEN (flags[o] \ {"GraphMarked", "GraphScanned"})
            \cup (IF ser = "gc" THEN {"GCMarkOnAssign"} ELSE {})
     ELSE flags[o]]

\* StartGraphing, and GraphIncludeObject of the objects to start from.
StartGraphing(ser, start) ==
  /\ flags' = Marked(Cleared(ser), start, ser)
  /\ scanLink' = [o \in Objects |-> IF o \in start THEN "marked"
                                    ELSE IF o \in live THEN "unmarked" ELSE "none"]
  /\ serializer' = ser
  /\ gcActive' = (gcActive \/ ser = "gc")
  /\ pc' = "graph"

\* What VisitObjectReferences visits.
Visited(o) ==
  IF "External" \in flags[o] THEN {}
  ELSE IF serializer = "gc" THEN AllRefs(o)
  ELSE refs[o]

\* One round of ContinueGraph: the references of an object on the marked list
\* are marked, and it goes to the scanned list.
ScanObject(o) ==
  /\ pc = "graph"
  /\ scanLink[o] = "marked"
  /\ LET new == {r \in Visited(o) : "GraphMarked" \notin flags[r]}
     IN /\ flags' = Marked([flags EXCEPT ![o] = @ \cup {"GraphScanned"}], new, serializer)
        /\ scanLink' = [r \in Objects |-> IF r = o THEN "scanned"
                                          ELSE IF r \in new THEN "marked"
                                          ELSE scanLink[r]]
  /\ UNCHANGED <<heapVars, gcActive, serializer, tableVars, pc, callVars>>

EndGraph ==
  /\ pc = "graph"
  /\ \A o \in Objects : scanLink[o] # "marked"
  /\ pc' = IF serializer = "gc" THEN "strings" ELSE "write"
  /\ UNCHANGED <<heapVars, graphVars, tableVars, callVars>>

-----------------------------------------------------------------------------
(***************************************************************************)
(* DestroyUnmarkedObjects: the tables are swept one after the other, then  *)
(* the unmarked objects are released.                                      *)
(***************************************************************************)

IsMarked(o) == "GraphMarked" \in flags[o]

\* Faulty variant: strings native code does not hold are dropped.
SweepStringsCounted ==
  /\ pc = "strings"
  /\ strings' = [c \in Contents |->
       IF strings[c].v # Null /\ counted[strings[c].v] = 0 THEN NoEntry ELSE strings[c]]
  /\ pc' = "aots"
  /\ UNCHANGED <<heapVars, graphVars, aots, named, callVars>>

SweepStrings ==
  /\ pc = "strings"
  /\ strings' = [c \in Contents |->
       IF strings[c].v # Null /\ ~IsMarked(strings[c].v) THEN NoEntry ELSE strings[c]]
  /\ pc' = "aots"
  /\ UNCHANGED <<heapVars, graphVars, aots, named, callVars>>

SweepArrayTypes ==
  /\ pc = "aots"
  /\ aots' = [t \in Types |->
       IF aots[t] # Null /\ ~IsMarked(aots[t]) THEN Null ELSE aots[t]]
  /\ pc' = "symbols"
  /\ UNCHANGED <<heapVars, graphVars, strings, named, callVars>>

SweptNames(table) ==
  [n \in Names |->
     IF n \in table /\ named[n] # Null /\ ~IsMarked(named[n]) THEN Null ELSE named[n]]

SweepSymbols ==
  /\ pc = "symbols"
  /\ named' = SweptNames(Symbols)
  /\ pc' = "packages"
  /\ UNCHANGED <<heapVars, graphVars, strings, aots, callVars>>

\* Faulty variant: the package table is not swept.
SweepPackagesNot ==
  /\ pc = "packages"
  /\ pc' = "release"
  /\ UNCHANGED <<heapVars, graphVars, tableVars, callVars>>

SweepPackages ==
  /\ pc = "packages"
  /\ named' = SweptNames(PackageNames)
  /\ pc' = "release"
  /\ UNCHANGED <<heapVars, graphVars, strings, aots, callVars>>

Condemned == {o \in Objects : scanLink[o] = "unmarked"}

ReleaseCondemned ==
  /\ pc = "release"
  /\ live' = live \ Condemned
  /\ refs' = [o \in Objects |-> IF o \in Condemned THEN {} ELSE refs[o]]
  /\ unserialized' = [o \in Objects |-> IF o \in Condemned THEN {} ELSE unserialized[o]]
  /\ kind' = [o \in Objects |-> IF o \in Condemned THEN "none" ELSE kind[o]]
  /\ content' = [o \in Objects |-> IF o \in Condemned THEN Null ELSE content[o]]
  /\ flags' = [o \in Objects |-> IF o \in Condemned THEN {} ELSE flags[o]]
  /\ scanLink' = [o \in Objects |-> IF o \in Condemned THEN "none" ELSE scanLink[o]]
  /\ pc' = after
  /\ after' = "idle"
  /\ UNCHANGED <<counted, gcActive, serializer, tableVars, collected, call, created>>

CollectGarbage(next) == StartGraphing("gc", Roots) /\ after' = next

-----------------------------------------------------------------------------
(***************************************************************************)
(* CreateObjectContainer.                                                  *)
(***************************************************************************)

\* It collects garbage first when the allocation counter says so.  The
\* frequency is set by the host, so that any allocation may be the one.
StartCreate ==
  \/ /\ collected' = FALSE
     /\ pc' = "allocate"
     /\ UNCHANGED <<graphVars, after>>
  \/ /\ collected' = TRUE
     /\ CollectGarbage("allocate")

\* Faulty variant: the caller is given a weak reference to the new object.
AllocateUncounted(o) ==
  /\ pc = "allocate"
  /\ o \notin live
  /\ live' = live \cup {o}
  /\ kind' = [kind EXCEPT ![o] = call.op]
  /\ flags' = [flags EXCEPT ![o] = {}]
  /\ scanLink' = [scanLink EXCEPT ![o] = IF gcActive THEN "marked" ELSE "none"]
  /\ created' = o
  /\ pc' = "created"
  /\ UNCHANGED <<counted, refs, unserialized, content, gcActive, serializer, tableVars,
                 after, collected, call>>

\* The object is linked to the live list and, once a collection has been
\* started, also to the marked list, without being flagged as marked.
Allocate(o) ==
  /\ pc = "allocate"
  /\ o \notin live
  /\ live' = live \cup {o}
  /\ counted' = [counted EXCEPT ![o] = 1]
  /\ kind' = [kind EXCEPT ![o] = call.op]
  /\ flags' = [flags EXCEPT ![o] = {}]
  /\ scanLink' = [scanLink EXCEPT ![o] = IF gcActive THEN "marked" ELSE "none"]
  /\ created' = o
  /\ pc' = "created"
  /\ UNCHANGED <<refs, unserialized, content, gcActive, serializer, tableVars,
                 after, collected, call>>

\* Faulty variant: the second collection is not remembered.
CollectAndRetryForgotten ==
  /\ pc = "allocate"
  /\ live = Objects
  /\ CollectGarbage("allocate")
  /\ UNCHANGED <<heapVars, tableVars, collected, call, created>>

\* The allocation failed: collect garbage, unless that was done, and retry.
CollectAndRetry ==
  /\ pc = "allocate"
  /\ live = Objects
  /\ ~collected
  /\ collected' = TRUE
  /\ CollectGarbage("allocate")
  /\ UNCHANGED <<heapVars, tableVars, call, created>>

\* Faulty variant: the allocation fails without a collection.
AllocationFailsAtOnce ==
  /\ pc = "allocate"
  /\ live = Objects
  /\ pc' = "failed"
  /\ UNCHANGED <<heapVars, graphVars, tableVars, callVars>>

\* RDX_ERROR_ALLOCATION_FAILED.
AllocationFails ==
  /\ pc = "allocate"
  /\ live = Objects
  /\ collected
  /\ pc' = "failed"
  /\ UNCHANGED <<heapVars, graphVars, tableVars, callVars>>

-----------------------------------------------------------------------------
(***************************************************************************)
(* Reference counting and the write barrier.                               *)
(***************************************************************************)

\* ExternalGCMarkObject acts on objects flagged GCMarkOnAssign ...
ExternalGCMarkObject(o) ==
  IF "GCMarkOnAssign" \in flags[o]
  THEN /\ flags' = Marked([flags EXCEPT ![o] = @ \ {"GCMarkOnAssign"}], {o}, "gc")
       /\ scanLink' = [scanLink EXCEPT ![o] = "marked"]
  ELSE UNCHANGED <<flags, scanLink>>

\* ... and AssignRef calls it for objects that are not.
Barrier(o) ==
  IF "GCMarkOnAssign" \notin flags[o]
  THEN ExternalGCMarkObject(o)
  ELSE UNCHANGED <<flags, scanLink>>

IncRef(o) ==
  /\ counted[o] < MaxCounted
  /\ counted' = [counted EXCEPT ![o] = @ + 1]
  /\ Barrier(o)

-----------------------------------------------------------------------------
(***************************************************************************)
(* The operations of native code on the heap.                              *)
(***************************************************************************)

Idle == pc = "idle"

\* A counted reference is copied, or read from a field of a held object.
LoadRef(x, o) ==
  /\ Idle
  /\ counted[x] > 0
  /\ o \in AllRefs(x) \cup {x}
  /\ IncRef(o)
  /\ UNCHANGED <<live, refs, unserialized, kind, content, gcActive, serializer,
                 tableVars, pc, callVars>>

DropRef(o) ==
  /\ Idle
  /\ counted[o] > 0
  /\ counted' = [counted EXCEPT ![o] = @ - 1]
  /\ UNCHANGED <<live, refs, unserialized, kind, content, graphVars, tableVars,
                 pc, callVars>>

\* FirstLiveObject and NextLiveObject hand out any object of the live list,
\* also one that nothing refers to any more.
NextLiveObject(o) ==
  /\ Idle
  /\ o \in live
  /\ IncRef(o)
  /\ UNCHANGED <<live, refs, unserialized, kind, content, gcActive, serializer,
                 tableVars, pc, callVars>>

Edges == {e \in Objects \X Objects : kind[e[1]] = "object" /\ e[2] \in AllRefs(e[1])}

\* A held object is stored in a field of another held one.
AssignRef(x, o) ==
  /\ Idle
  /\ counted[x] > 0 /\ counted[o] > 0
  /\ kind[x] = "object"
  /\ Cardinality(Edges) < MaxEdges
  /\ \/ refs' = [refs EXCEPT ![x] = @ \cup {o}] /\ UNCHANGED unserialized
     \/ unserialized' = [unserialized EXCEPT ![x] = @ \cup {o}] /\ UNCHANGED refs
  /\ Barrier(o)
  /\ UNCHANGED <<live, counted, kind, content, gcActive, serializer, tableVars,
                 pc, callVars>>

ClearRef(x, o) ==
  /\ Idle
  /\ counted[x] > 0
  /\ kind[x] = "object"
  /\ \/ o \in refs[x] /\ refs' = [refs EXCEPT ![x] = @ \ {o}] /\ UNCHANGED unserialized
     \/ /\ o \in unserialized[x]
        /\ unserialized' = [unserialized EXCEPT ![x] = @ \ {o}]
        /\ UNCHANGED refs
  /\ UNCHANGED <<live, counted, kind, content, graphVars, tableVars, pc, callVars>>

\* AddGlobalSymbol, and RegisterPackage of a package.
Register(n, o) ==
  /\ Idle
  /\ counted[o] > 0
  /\ n \in PackageNames => o \in Packages /\ kind[o] = "object"
  /\ named' = [named EXCEPT ![n] = o]
  /\ UNCHANGED <<heapVars, graphVars, strings, aots, pc, callVars>>

\* LookupSymbolSimple turns the weak reference into a counted one.
Lookup(n) ==
  /\ Idle
  /\ named[n] # Null
  /\ IncRef(named[n])
  /\ UNCHANGED <<live, refs, unserialized, kind, content, gcActive, serializer,
                 tableVars, pc, callVars>>

CreateObject ==
  /\ Idle
  /\ call' = [NoCall EXCEPT !.op = "object"]
  /\ StartCreate
  /\ UNCHANGED <<heapVars, tableVars, created>>

\* CreateStringFromCS of a string that is in the table.
FindString(c) ==
  /\ Idle
  /\ strings[c].v # Null
  /\ IncRef(strings[c].v)
  /\ UNCHANGED <<live, refs, unserialized, kind, content, gcActive, serializer,
                 tableVars, pc, callVars>>

CreateString(c) ==
  /\ Idle
  /\ strings[c].v = Null
  /\ call' = [op |-> "string", arg |-> c, str |-> Null]
  /\ StartCreate
  /\ UNCHANGED <<heapVars, tableVars, created>>

FindArrayType(t) ==
  /\ Idle
  /\ counted[t] > 0
  /\ aots[t] # Null
  /\ IncRef(aots[t])
  /\ UNCHANGED <<live, refs, unserialized, kind, content, gcActive, serializer,
                 tableVars, pc, callVars>>

CreateArrayType(t) ==
  /\ Idle
  /\ counted[t] > 0
  /\ kind[t] = "object"
  /\ aots[t] = Null
  /\ call' = [op |-> "array", arg |-> t, str |-> Null]
  /\ StartCreate
  /\ UNCHANGED <<heapVars, tableVars, created>>

-----------------------------------------------------------------------------
(***************************************************************************)
(* What the operations do with the object created for them.                *)
(***************************************************************************)

EndCall == pc' = "idle" /\ call' = NoCall /\ created' = Null

ReturnObject ==
  /\ pc = "created"
  /\ call.op = "object"
  /\ EndCall
  /\ UNCHANGED <<heapVars, graphVars, tableVars, after, collected>>

\* The string is there; Insert calls ConstructKey, which creates its array of
\* characters.
ConstructKey ==
  /\ pc = "created"
  /\ call.op = "string"
  /\ call' = [call EXCEPT !.op = "chars", !.str = created]
  /\ StartCreate
  /\ UNCHANGED <<heapVars, tableVars, created>>

\* Insert cannot enlarge the table.
InsertFails ==
  /\ pc = "created"
  /\ call.op \in {"string", "array"}
  /\ call' = [call EXCEPT !.str = created]
  /\ pc' = "failed"
  /\ UNCHANGED <<heapVars, graphVars, tableVars, after, collected, created>>

\* Faulty variant: the string does not keep its array of characters.
FillStringWithoutContents ==
  /\ pc = "created"
  /\ call.op = "chars"
  /\ strings' = [strings EXCEPT ![call.arg] = [k |-> created, v |-> call.str]]
  /\ content' = [content EXCEPT ![call.str] = call.arg]
  /\ counted' = [counted EXCEPT ![created] = @ - 1]
  /\ EndCall
  /\ UNCHANGED <<live, refs, unserialized, kind, graphVars, aots, named, after, collected>>

\* Insert fills the entry, Initialize makes the string refer to the array, and
\* the candidate string lets go of it.
FillString ==
  /\ pc = "created"
  /\ call.op = "chars"
  /\ strings' = [strings EXCEPT ![call.arg] = [k |-> created, v |-> call.str]]
  /\ content' = [content EXCEPT ![call.str] = call.arg]
  /\ refs' = [refs EXCEPT ![call.str] = @ \cup {created}]
  /\ counted' = [counted EXCEPT ![created] = @ - 1]
  /\ EndCall
  /\ UNCHANGED <<live, unserialized, kind, graphVars, aots, named, after, collected>>

FillArrayType ==
  /\ pc = "created"
  /\ call.op = "array"
  /\ aots' = [aots EXCEPT ![call.arg] = created]
  /\ refs' = [refs EXCEPT ![created] = @ \cup {call.arg}]
  /\ EndCall
  /\ UNCHANGED <<live, counted, unserialized, kind, content, graphVars, strings,
                 named, after, collected>>

\* Faulty variant: the string is let go of twice.
CreateFailsTwice ==
  /\ pc = "failed"
  /\ counted' = [o \in Objects |-> IF o = call.str THEN counted[o] - 2 ELSE counted[o]]
  /\ EndCall
  /\ UNCHANGED <<live, refs, unserialized, kind, content, graphVars, tableVars,
                 after, collected>>

\* The exception leaves the operation, which lets go of the string it holds.
CreateFails ==
  /\ pc = "failed"
  /\ counted' = [o \in Objects |-> IF o = call.str THEN counted[o] - 1 ELSE counted[o]]
  /\ EndCall
  /\ UNCHANGED <<live, refs, unserialized, kind, content, graphVars, tableVars,
                 after, collected>>

-----------------------------------------------------------------------------
(***************************************************************************)
(* Saving and shutting down.                                               *)
(***************************************************************************)

\* SaveObject refuses an object of a package; it collects garbage, then saves
\* what the object refers to.
SaveObject(o) ==
  /\ Idle
  /\ counted[o] > 0
  /\ TryIncludeObject("save", o)
  /\ created' = o
  /\ CollectGarbage("save")
  /\ UNCHANGED <<heapVars, tableVars, collected, call>>

SavePackageFile ==
  /\ pc = "save"
  /\ StartGraphing("save", {created})
  /\ created' = Null
  /\ UNCHANGED <<heapVars, tableVars, after, collected, call>>

\* SavePackage starts from the objects the package lists.
SavePackage(n) ==
  /\ Idle
  /\ named[n] # Null
  /\ StartGraphing("save", refs[named[n]])
  /\ UNCHANGED <<heapVars, tableVars, callVars>>

WriteObjects ==
  /\ pc = "write"
  /\ pc' = "idle"
  /\ UNCHANGED <<heapVars, graphVars, tableVars, callVars>>

\* Shutdown condemns everything that is live.
Shutdown ==
  /\ Idle
  /\ flags' = [o \in Objects |->
       flags[o] \ {"GCMarkOnAssign", "GraphScanned", "GraphMarked"}]
  /\ scanLink' = [o \in Objects |-> IF o \in live THEN "unmarked" ELSE "none"]
  /\ pc' = "strings"
  /\ after' = "down"
  /\ UNCHANGED <<heapVars, gcActive, serializer, tableVars, collected, call, created>>

-----------------------------------------------------------------------------
Init ==
  /\ live = {}
  /\ counted = [o \in Objects |-> 0]
  /\ refs = [o \in Objects |-> {}]
  /\ unserialized = [o \in Objects |-> {}]
  /\ kind = [o \in Objects |-> "none"]
  /\ content = [o \in Objects |-> Null]
  /\ flags = [o \in Objects |-> {}]
  /\ scanLink = [o \in Objects |-> "none"]
  /\ gcActive = FALSE
  /\ serializer = "gc"
  /\ strings = [c \in Contents |-> NoEntry]
  /\ aots = [t \in Types |-> Null]
  /\ named = [n \in Names |-> Null]
  /\ pc = "idle"
  /\ after = "idle"
  /\ collected = FALSE
  /\ call = NoCall
  /\ created = Null

\* The steps of operations under way.
SystemStep ==
  \/ \E o \in Objects : ScanObject(o)
  \/ EndGraph
  \/ SweepStrings
  \/ SweepArrayTypes
  \/ SweepSymbols
  \/ SweepPackages
  \/ ReleaseCondemned
  \/ \E o \in Objects : Allocate(o)
  \/ CollectAndRetry
  \/ AllocationFails
  \/ ReturnObject
  \/ ConstructKey
  \/ InsertFails
  \/ FillString
  \/ FillArrayType
  \/ CreateFails
  \/ SavePackageFile
  \/ WriteObjects

\* The operations that native code starts.
ClientStep ==
  \/ \E x, o \in Objects : LoadRef(x, o) \/ AssignRef(x, o) \/ ClearRef(x, o)
  \/ \E o \in Objects : DropRef(o) \/ NextLiveObject(o) \/ SaveObject(o)
  \/ \E n \in Names : Lookup(n) \/ \E o \in Objects : Register(n, o)
  \/ \E n \in PackageNames : SavePackage(n)
  \/ CreateObject
  \/ \E c \in Contents : FindString(c) \/ CreateString(c)
  \/ \E t \in Types : FindArrayType(t) \/ CreateArrayType(t)
  \/ Shutdown

Next == SystemStep \/ ClientStep

Spec == Init /\ [][Next]_vars

\* An operation that was called runs: one thread is in the object manager.
FairSpec == Spec /\ WF_vars(SystemStep)

-----------------------------------------------------------------------------
(***************************************************************************)
(* Properties.                                                             *)
(***************************************************************************)

ShuttingDown == pc = "down" \/ after = "down"

\* Every variable has its type; in particular no reference count underflows.
TypeOK ==
  /\ live \subseteq Objects
  /\ counted \in [Objects -> 0..(MaxCounted + 1)]
  /\ refs \in [Objects -> SUBSET Objects]
  /\ unserialized \in [Objects -> SUBSET Objects]
  /\ kind \in [Objects -> Kinds]
  /\ content \in [Objects -> Contents \cup {Null}]
  /\ flags \in [Objects -> SUBSET Flags]
  /\ scanLink \in [Objects -> {"none", "unmarked", "marked", "scanned"}]
  /\ gcActive \in BOOLEAN
  /\ serializer \in {"gc", "save"}
  /\ strings \in [Contents -> [k : Objects \cup {Null}, v : Objects \cup {Null}]]
  /\ aots \in [Types -> Objects \cup {Null}]
  /\ named \in [Names -> Objects \cup {Null}]
  /\ pc \in {"idle", "graph", "strings", "aots", "symbols", "packages", "release",
             "allocate", "created", "failed", "save", "write", "down"}
  /\ after \in {"idle", "allocate", "save", "down"}
  /\ collected \in BOOLEAN
  /\ call \in [op : Kinds, arg : Contents \cup Types \cup {Null}, str : Objects \cup {Null}]
  /\ created \in Objects \cup {Null}

\* Until Shutdown, no counted reference and no traced reference of a live
\* object refers to an object that was released, whatever the collections
\* inside allocations, saves in between and reused addresses.
ReferencesAlive ==
  ~ShuttingDown =>
    \A o \in Objects :
      /\ counted[o] > 0 => o \in live
      /\ AllRefs(o) \subseteq live
      /\ o \notin live => AllRefs(o) = {}

\* Whenever native code can look something up, the weak references in all
\* tables refer to live objects, and so do the keys: the array of characters
\* of a string and the element type of an array type.
TablesAlive ==
  pc = "idle" =>
    /\ \A c \in Contents : strings[c].v # Null =>
         /\ strings[c].v \in live
         /\ strings[c].k \in refs[strings[c].v]
    /\ \A t \in Types : aots[t] # Null => aots[t] \in live /\ t \in refs[aots[t]]
    /\ \A n \in Names : named[n] # Null => named[n] \in live

\* Strings and array types are compared by reference: the table knows every
\* live string with contents and every live array type, so that there are
\* never two of the same, not even when the old one is about to be collected.
InternedOnce ==
  pc \in {"idle", "allocate", "created", "graph"} /\ ~ShuttingDown =>
    \A o \in live :
      /\ content[o] # Null => strings[content[o]].v = o
      /\ kind[o] = "array" => \A t \in refs[o] : aots[t] = o

\* A collection releases exactly what cannot be reached from counted
\* references: it keeps all that is needed and leaks nothing.
CollectsGarbage ==
  [][pc = "release" /\ after # "down" => live' = Reachable]_vars

\* Creating an object fails only if the memory is full of objects in use.
FailsOnlyWhenFull == [][pc = "allocate" /\ pc' = "failed" => Reachable = Objects]_vars

\* The graph that SavePackageFile writes is closed: every object that the
\* objects written refer to is in the table of symbols of the file, as an
\* object written or as an import.
SaveIsClosed ==
  pc = "write" =>
    \A o \in Objects : scanLink[o] = "scanned" /\ "External" \notin flags[o] =>
      \A r \in refs[o] : scanLink[r] = "scanned"

\* Every operation that native code calls returns; a collection ends.
CallsReturn == ~Idle ~> (pc \in {"idle", "down"})

\* The comment on graphs and reference counts: "If an assignment is made to a
\* traced reference, and the object being assigned is not marked, a locking GC
\* add call is made."
AssignmentMarks ==
  [][\A x, o \in Objects :
       pc = "idle" /\ gcActive /\ o \in refs'[x] \ refs[x] /\ ~IsMarked(o)
         => IsMarked(o)']_vars
=============================================================================
