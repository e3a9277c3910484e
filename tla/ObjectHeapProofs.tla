--------------------------- MODULE ObjectHeapProofs ---------------------------
(***************************************************************************)
(* Proofs about ObjectHeap, for every set of addresses and every bound.    *)
(*                                                                         *)
(* A collection runs over many steps, between two steps of an operation.   *)
(* The inductive invariant IInv says what holds at each of them: what the  *)
(* operation under way relies on (CallInv), what is alive (AliveInv), how  *)
(* the lists and the flags of the collector agree (ListInv), the           *)
(* tri-colour invariant and its converse (MarkInv), which tables were      *)
(* already swept (TableInv), what interning guarantees meanwhile           *)
(* (InternInv), and that a collection leaves only what is in use           *)
(* (FullInv).                                                              *)
(***************************************************************************)
EXTENDS ObjectHeap, TLAPS

Sweeping == pc \in {"strings", "aots", "symbols", "packages", "release"}

Collecting ==
  \/ pc = "graph" /\ serializer = "gc"
  \/ Sweeping /\ after # "down"

\* Where the control can be.
PhaseInv ==
  /\ Sweeping => after # "idle" /\ (after # "down" => serializer = "gc")
  /\ pc = "graph" => (after = "idle" <=> serializer = "save") /\ after # "down"
  /\ ~Sweeping /\ pc # "graph" => after = "idle"
  /\ pc = "write" => serializer = "save"

\* An operation that creates objects is under way.
Creating == pc \in {"allocate", "created", "failed"} \/ after = "allocate"

\* What the operation under way relies on.
CallInv ==
  /\ ~Creating => call = NoCall
  /\ pc \in {"idle", "write"} \/ (pc = "graph" /\ serializer = "save") => created = Null
  /\ call.op \in {"string", "chars"} => call.arg \in Contents /\ strings[call.arg].v = Null
  /\ call.op = "array" =>
       /\ call.arg \in Types /\ aots[call.arg] = Null
       /\ counted[call.arg] > 0
  /\ call.op = "chars" /\ pc # "failed" =>
       /\ call.str # Null /\ kind[call.str] = "string" /\ content[call.str] = Null
  /\ call.str # Null => counted[call.str] > 0
  /\ pc = "created" =>
       /\ created # Null /\ counted[created] > 0
       /\ kind[created] = call.op /\ content[created] = Null /\ refs[created] = {}
       /\ created # call.str
  /\ pc = "save" \/ after = "save" =>
       /\ created # Null /\ counted[created] > 0

\* No reference dangles, and a free address is clean.
AliveInv ==
  /\ ~ShuttingDown => \A o \in Objects : (counted[o] > 0 => o \in live) /\ AllRefs(o) \subseteq live
  /\ \A o \in Objects \ live :
       /\ AllRefs(o) = {} /\ kind[o] = "none" /\ content[o] = Null
       /\ flags[o] = {} /\ scanLink[o] = "none"

\* The lists and the flags of a graph agree.
ListInv ==
  /\ pc \in {"graph", "write"} \/ Sweeping =>
       \A o \in live : /\ scanLink[o] # "none"
                       /\ IsMarked(o) <=> scanLink[o] # "unmarked"
  /\ pc = "write" \/ Sweeping => \A o \in Objects : scanLink[o] # "marked"

\* Scanned objects refer to marked ones; the collector marks what is
\* reachable, beginning with the roots, and nothing else.
MarkInv ==
  /\ Collecting =>
       \A o \in Objects :
         /\ o \in Roots => IsMarked(o)
         /\ IsMarked(o) => "External" \notin flags[o] /\ o \in Reachable
         /\ scanLink[o] = "scanned" => \A r \in AllRefs(o) : IsMarked(r)
  /\ pc \in {"graph", "write"} /\ serializer = "save" =>
       \A o \in Objects : scanLink[o] = "scanned" /\ "External" \notin flags[o] =>
         \A r \in refs[o] : IsMarked(r)

\* The entries of the tables, and the tables swept so far.
TableInv ==
  ~ShuttingDown =>
    /\ \A c \in Contents : strings[c].v # Null =>
         /\ strings[c].v \in live /\ kind[strings[c].v] = "string"
         /\ strings[c].k \in refs[strings[c].v]
         /\ pc \in {"aots", "symbols", "packages", "release"} => IsMarked(strings[c].v)
    /\ \A t \in Types : aots[t] # Null =>
         /\ aots[t] \in live /\ kind[aots[t]] = "array" /\ t \in refs[aots[t]]
         /\ pc \in {"symbols", "packages", "release"} => IsMarked(aots[t])
    /\ \A n \in Names : named[n] # Null =>
         /\ named[n] \in live
         /\ n \in Symbols /\ pc \in {"packages", "release"} => IsMarked(named[n])
         /\ n \in PackageNames /\ pc = "release" => IsMarked(named[n])

\* Strings and array types that their table has dropped are condemned.
InternInv ==
  ~ShuttingDown =>
    \A o \in live :
      /\ content[o] # Null =>
           \/ strings[content[o]].v = o
           \/ pc \in {"aots", "symbols", "packages", "release"} /\ ~IsMarked(o)
      /\ kind[o] = "array" => \A t \in refs[o] :
           /\ t \in Types
           /\ \/ aots[t] = o
              \/ pc \in {"symbols", "packages", "release"} /\ ~IsMarked(o)

\* A collection has left only what is in use.
FullInv == pc = "allocate" /\ collected => live = Reachable

IInv == TypeOK /\ PhaseInv /\ CallInv /\ AliveInv /\ ListInv /\ MarkInv /\ TableInv /\ InternInv /\ FullInv

-----------------------------------------------------------------------------
(***************************************************************************)
(* The operators.                                                          *)
(***************************************************************************)

\* Reach(S, edges) is the least set that contains S and is closed under edges.
LEMMA ReachIsLeast ==
  ASSUME NEW S \in SUBSET Objects, NEW edges \in [Objects -> SUBSET Objects]
  PROVE  /\ S \subseteq Reach(S, edges)
         /\ Reach(S, edges) \subseteq Objects
         /\ \A x \in Reach(S, edges) : edges[x] \subseteq Reach(S, edges)
         /\ \A T \in SUBSET Objects :
              S \subseteq T /\ (\A x \in T : edges[x] \subseteq T) => Reach(S, edges) \subseteq T
BY DEF Reach

\* What this says of the objects that native code can reach.
LEMMA ReachableIsLeast ==
  ASSUME TypeOK
  PROVE  /\ Roots \subseteq Reachable
         /\ \A x \in Reachable : AllRefs(x) \subseteq Reachable
         /\ \A T \in SUBSET Objects :
              Roots \subseteq T /\ (\A x \in T : AllRefs(x) \subseteq T) => Reachable \subseteq T
<1> DEFINE edges == [o \in Objects |-> AllRefs(o)]
<1>1. Roots \in SUBSET Objects
  BY DEF TypeOK, Roots
<1>2. edges \in [Objects -> SUBSET Objects]
  BY DEF TypeOK, AllRefs
<1>3. \A x \in Objects : edges[x] = AllRefs(x)
  OBVIOUS
<1>4. Reachable = Reach(Roots, edges)
  BY DEF Reachable
<1> HIDE DEF edges
<1>5. QED
  BY <1>1, <1>2, <1>3, <1>4, ReachIsLeast

\* The same of the state after a step.
LEMMA ReachableIsLeastNext ==
  ASSUME TypeOK'
  PROVE  /\ Roots' \subseteq Reachable'
         /\ \A x \in Reachable' : AllRefs(x)' \subseteq Reachable'
         /\ \A T \in SUBSET Objects :
              Roots' \subseteq T /\ (\A x \in T : AllRefs(x)' \subseteq T) => Reachable' \subseteq T
<1> DEFINE edges == [o \in Objects |-> AllRefs(o)']
<1>1. Roots' \in SUBSET Objects
  BY DEF TypeOK, Roots
<1>2. edges \in [Objects -> SUBSET Objects]
  BY DEF TypeOK, AllRefs
<1>3. \A x \in Objects : edges[x] = AllRefs(x)'
  OBVIOUS
<1>4. Reachable' = Reach(Roots', edges)
  BY DEF Reachable, Reach, AllRefs
<1> HIDE DEF edges
<1>5. QED
  BY <1>1, <1>2, <1>3, <1>4, ReachIsLeast

\* While no step touches the heap, the same objects can be reached.
LEMMA ReachableUnchanged ==
  ASSUME UNCHANGED heapVars
  PROVE  Reachable' = Reachable /\ Roots' = Roots
BY DEF heapVars, Reachable, Roots, AllRefs, Reach

\* The barrier does nothing: it calls ExternalGCMarkObject for the objects
\* on which ExternalGCMarkObject does not act.
LEMMA BarrierNeverMarks ==
  ASSUME NEW o, Barrier(o)
  PROVE  UNCHANGED <<flags, scanLink>>
BY DEF Barrier, ExternalGCMarkObject

-----------------------------------------------------------------------------
(***************************************************************************)
(* The operations that run while no collection can.                        *)
(***************************************************************************)

\* Native code obtains another counted reference to a live object.
LEMMA GainPreserves ==
  ASSUME IInv, Idle, NEW o \in live, IncRef(o),
         UNCHANGED <<live, refs, unserialized, kind, content, gcActive, serializer,
                     tableVars, pc, callVars>>
  PROVE  IInv'
<1>1. UNCHANGED <<flags, scanLink>>
  BY BarrierNeverMarks DEF IncRef
<1>2. pc' = "idle" /\ ~Creating /\ ~Creating'
  BY DEF IInv, PhaseInv, Idle, Creating, Sweeping, callVars
<1>3. TypeOK'
  BY <1>1, HeapAssumption DEF IInv, TypeOK, IncRef, tableVars, callVars
<1>4. PhaseInv'
  BY <1>1, <1>2 DEF IInv, PhaseInv, Sweeping, callVars
<1>5. CallInv'
  BY <1>1, <1>2 DEF IInv, CallInv, PhaseInv, Sweeping, NoCall, callVars, Idle
<1>6. AliveInv'
  BY <1>1 DEF IInv, TypeOK, AliveInv, IncRef, AllRefs, ShuttingDown, callVars
<1>7. TableInv'
  BY <1>1, <1>2 DEF IInv, TableInv, ShuttingDown, tableVars, callVars, IsMarked
<1>8. InternInv'
  BY <1>1, <1>2 DEF IInv, InternInv, ShuttingDown, tableVars, callVars, IsMarked
<1>9. QED
  BY <1>2, <1>3, <1>4, <1>5, <1>6, <1>7, <1>8
     DEF IInv, ListInv, MarkInv, FullInv, Sweeping, Collecting

\* Native code lets go of a reference.
LEMMA DropRefPreserves ==
  ASSUME IInv, NEW o \in Objects, DropRef(o)
  PROVE  IInv'
<1>1. pc = "idle" /\ pc' = "idle" /\ ~Creating /\ ~Creating'
  BY DEF IInv, PhaseInv, DropRef, Idle, Creating, Sweeping, callVars
<1>2. TypeOK'
  BY HeapAssumption DEF IInv, TypeOK, DropRef, graphVars, tableVars, callVars
<1>3. PhaseInv'
  BY <1>1 DEF IInv, PhaseInv, Sweeping, DropRef, callVars
<1>4. CallInv'
  BY <1>1 DEF IInv, CallInv, PhaseInv, Sweeping, NoCall, DropRef, callVars
<1>5. AliveInv'
  BY DEF IInv, TypeOK, AliveInv, DropRef, AllRefs, ShuttingDown, graphVars, callVars
<1>6. TableInv'
  BY <1>1 DEF IInv, TableInv, ShuttingDown, DropRef, tableVars, graphVars, callVars, IsMarked
<1>7. InternInv'
  BY <1>1 DEF IInv, InternInv, ShuttingDown, DropRef, tableVars, graphVars, callVars, IsMarked
<1>8. QED
  BY <1>1, <1>2, <1>3, <1>4, <1>5, <1>6, <1>7
     DEF IInv, ListInv, MarkInv, FullInv, Sweeping, Collecting

\* A field of a plain object changes; strings and array types keep theirs.
LEMMA FieldPreserves ==
  ASSUME IInv, Idle, NEW x \in Objects, kind[x] = "object", x \in live,
         NEW r \in SUBSET live, NEW u \in SUBSET live,
         refs' = [refs EXCEPT ![x] = r],
         unserialized' = [unserialized EXCEPT ![x] = u],
         UNCHANGED <<live, counted, kind, content, graphVars, tableVars, pc, callVars>>
  PROVE  IInv'
<1>1. pc = "idle" /\ pc' = "idle" /\ ~Creating /\ ~Creating'
  BY DEF IInv, PhaseInv, Idle, Creating, Sweeping, callVars
<1>2. \A y \in Objects : kind[y] \in {"string", "array"} => refs'[y] = refs[y]
  BY DEF IInv, TypeOK
<1>3. TypeOK'
  BY HeapAssumption DEF IInv, TypeOK, graphVars, tableVars, callVars
<1>4. PhaseInv'
  BY <1>1 DEF IInv, PhaseInv, Sweeping, callVars
<1>5. CallInv'
  BY <1>1 DEF IInv, CallInv, PhaseInv, Sweeping, NoCall, callVars
<1>6. AliveInv'
  BY DEF IInv, TypeOK, AliveInv, AllRefs, ShuttingDown, graphVars, callVars
<1>7. TableInv'
  BY <1>1, <1>2 DEF IInv, TypeOK, TableInv, ShuttingDown, tableVars, graphVars, callVars, IsMarked
<1>8. InternInv'
  BY <1>1, <1>2 DEF IInv, TypeOK, InternInv, ShuttingDown, tableVars, graphVars, callVars, IsMarked
<1>9. QED
  BY <1>1, <1>3, <1>4, <1>5, <1>6, <1>7, <1>8
     DEF IInv, ListInv, MarkInv, FullInv, Sweeping, Collecting

\* A held object is stored in a field of another held one.
LEMMA AssignRefPreserves ==
  ASSUME IInv, NEW x \in Objects, NEW o \in Objects, AssignRef(x, o)
  PROVE  IInv'
<1>1. Idle /\ kind[x] = "object" /\ x \in live /\ o \in live /\ AllRefs(x) \subseteq live
  BY DEF IInv, AliveInv, PhaseInv, AssignRef, ShuttingDown, Idle, Sweeping
<1>2. UNCHANGED <<live, counted, kind, content, graphVars, tableVars, pc, callVars>>
  BY BarrierNeverMarks DEF AssignRef, graphVars
<1>3. CASE refs' = [refs EXCEPT ![x] = @ \cup {o}] /\ UNCHANGED unserialized
  <2>1. unserialized' = [unserialized EXCEPT ![x] = unserialized[x]]
    BY <1>3 DEF IInv, TypeOK
  <2>2. refs[x] \cup {o} \in SUBSET live /\ unserialized[x] \in SUBSET live
    BY <1>1 DEF AllRefs
  <2>3. QED
    BY <1>1, <1>2, <1>3, <2>1, <2>2, FieldPreserves
<1>4. CASE unserialized' = [unserialized EXCEPT ![x] = @ \cup {o}] /\ UNCHANGED refs
  <2>1. refs' = [refs EXCEPT ![x] = refs[x]]
    BY <1>4 DEF IInv, TypeOK
  <2>2. refs[x] \in SUBSET live /\ unserialized[x] \cup {o} \in SUBSET live
    BY <1>1 DEF AllRefs
  <2>3. QED
    BY <1>1, <1>2, <1>4, <2>1, <2>2, FieldPreserves
<1>5. QED
  BY <1>3, <1>4 DEF AssignRef

\* A field is cleared.
LEMMA ClearRefPreserves ==
  ASSUME IInv, NEW x \in Objects, NEW o \in Objects, ClearRef(x, o)
  PROVE  IInv'
<1>1. Idle /\ kind[x] = "object" /\ x \in live /\ AllRefs(x) \subseteq live
  BY DEF IInv, AliveInv, PhaseInv, ClearRef, ShuttingDown, Idle, Sweeping
<1>2. UNCHANGED <<live, counted, kind, content, graphVars, tableVars, pc, callVars>>
  BY DEF ClearRef
<1>3. CASE refs' = [refs EXCEPT ![x] = @ \ {o}] /\ UNCHANGED unserialized
  <2>1. unserialized' = [unserialized EXCEPT ![x] = unserialized[x]]
    BY <1>3 DEF IInv, TypeOK
  <2>2. refs[x] \ {o} \in SUBSET live /\ unserialized[x] \in SUBSET live
    BY <1>1 DEF AllRefs
  <2>3. QED
    BY <1>1, <1>2, <1>3, <2>1, <2>2, FieldPreserves
<1>4. CASE unserialized' = [unserialized EXCEPT ![x] = @ \ {o}] /\ UNCHANGED refs
  <2>1. refs' = [refs EXCEPT ![x] = refs[x]]
    BY <1>4 DEF IInv, TypeOK
  <2>2. refs[x] \in SUBSET live /\ unserialized[x] \ {o} \in SUBSET live
    BY <1>1 DEF AllRefs
  <2>3. QED
    BY <1>1, <1>2, <1>4, <2>1, <2>2, FieldPreserves
<1>5. QED
  BY <1>3, <1>4 DEF ClearRef

\* A held object gets a name.
LEMMA RegisterPreserves ==
  ASSUME IInv, NEW n \in Names, NEW o \in Objects, Register(n, o)
  PROVE  IInv'
<1>1. pc = "idle" /\ pc' = "idle" /\ ~Creating /\ ~Creating'
  BY DEF IInv, PhaseInv, Register, Idle, Creating, Sweeping, callVars
<1>2. o \in live
  BY <1>1 DEF IInv, AliveInv, PhaseInv, Register, ShuttingDown, Sweeping
<1>3. TypeOK'
  BY HeapAssumption DEF IInv, TypeOK, Register, heapVars, graphVars, callVars
<1>4. PhaseInv'
  BY <1>1 DEF IInv, PhaseInv, Sweeping, Register, callVars
<1>5. CallInv'
  BY <1>1 DEF IInv, CallInv, PhaseInv, Sweeping, NoCall, Register, callVars
<1>6. AliveInv'
  BY DEF IInv, TypeOK, AliveInv, Register, AllRefs, ShuttingDown, heapVars, graphVars, callVars
<1>7. TableInv'
  BY <1>1, <1>2 DEF IInv, TypeOK, TableInv, ShuttingDown, Register, heapVars, graphVars, callVars, IsMarked
<1>8. InternInv'
  BY <1>1 DEF IInv, InternInv, ShuttingDown, Register, heapVars, graphVars, callVars, IsMarked
<1>9. QED
  BY <1>1, <1>3, <1>4, <1>5, <1>6, <1>7, <1>8
     DEF IInv, ListInv, MarkInv, FullInv, Sweeping, Collecting

-----------------------------------------------------------------------------
(***************************************************************************)
(* The steps of a graph and of a collection.                               *)
(***************************************************************************)

\* A graph starts, for the collector or for a save, from live objects.
LEMMA StartGraphingFacts ==
  ASSUME TypeOK, AliveInv, UNCHANGED heapVars,
         NEW ser \in {"gc", "save"}, NEW start \in SUBSET live, StartGraphing(ser, start)
  PROVE  /\ flags' \in [Objects -> SUBSET Flags]
         /\ scanLink' \in [Objects -> {"none", "unmarked", "marked", "scanned"}]
         /\ gcActive' \in BOOLEAN
         /\ \A o \in Objects : IsMarked(o)' <=> o \in start
         /\ \A o \in Objects : scanLink'[o] = IF o \in start THEN "marked"
                                              ELSE IF o \in live THEN "unmarked" ELSE "none"
         /\ \A o \in Objects \ live : flags'[o] = {}
         /\ ser = "gc" => \A o \in start : "External" \notin flags'[o]
BY DEF TypeOK, AliveInv, heapVars, StartGraphing, Marked, Cleared, IsMarked, Flags, TryIncludeObject

\* When the heap and the tables stay as they are, it is up to the phase and
\* the call whether the rest of the invariant holds.
LEMMA StartPreserves ==
  ASSUME IInv, pc \in {"idle", "allocate", "created", "save"},
         UNCHANGED <<heapVars, tableVars>>,
         NEW ser \in {"gc", "save"}, NEW start \in SUBSET live, StartGraphing(ser, start),
         ser = "gc" => start = Roots,
         TypeOK' => CallInv', ser = "save" <=> after' = "idle", after' # "down",
         after' \in {"idle", "allocate", "save"}, collected' \in BOOLEAN,
         call' \in [op : Kinds, arg : Contents \cup Types \cup {Null}, str : Objects \cup {Null}],
         created' \in Objects \cup {Null}
  PROVE  IInv'
<1>1. /\ pc' = "graph" /\ serializer' = ser
      /\ ~ShuttingDown /\ ~ShuttingDown' /\ ~Sweeping'
  BY DEF IInv, PhaseInv, StartGraphing, ShuttingDown, Sweeping
<1>2. TypeOK /\ AliveInv /\ UNCHANGED heapVars
  BY DEF IInv
<1> HIDE DEF IInv
<1>3. TypeOK'
  BY <1>1, <1>2, StartGraphingFacts DEF TypeOK, heapVars, tableVars
<1>4. PhaseInv'
  BY <1>1 DEF PhaseInv, Sweeping
<1>5. AliveInv'
  BY <1>1, <1>2, StartGraphingFacts DEF AliveInv, ShuttingDown, heapVars, AllRefs
<1>6. ListInv'
  BY <1>1, <1>2, StartGraphingFacts DEF ListInv, Sweeping, TypeOK, heapVars
<1>7. MarkInv'
  <2>1. Roots' = Roots /\ Reachable' = Reachable
    BY <1>2, ReachableUnchanged
  <2>2. Roots \subseteq Reachable
    BY <1>2, ReachableIsLeast
  <2>3. QED
    BY <1>1, <1>2, <2>1, <2>2, StartGraphingFacts DEF MarkInv, Collecting, Sweeping
<1>8. TableInv'
  BY <1>1 DEF IInv, TableInv, heapVars, tableVars
<1>9. InternInv'
  <2>1. \A o \in live :
          /\ content[o] # Null => strings[content[o]].v = o
          /\ kind[o] = "array" => \A t \in refs[o] : t \in Types /\ aots[t] = o
    BY <1>1 DEF IInv, InternInv
  <2>2. QED
    BY <1>1, <2>1 DEF InternInv, heapVars, tableVars
<1>10. QED
  BY <1>1, <1>3, <1>4, <1>5, <1>6, <1>7, <1>8, <1>9 DEF IInv, FullInv

\* An allocation starts, with or without a collection.
LEMMA StartCreatePreserves ==
  ASSUME IInv, pc \in {"idle", "created"}, StartCreate, UNCHANGED <<heapVars, tableVars, created>>,
         call' \in [op : Kinds, arg : Contents \cup Types \cup {Null}, str : Objects \cup {Null}],
         call'.op \in {"string", "chars"} => call'.arg \in Contents /\ strings[call'.arg].v = Null,
         call'.op = "array" =>
           call'.arg \in Types /\ aots[call'.arg] = Null /\ counted[call'.arg] > 0,
         call'.op = "chars" =>
           call'.str # Null /\ kind[call'.str] = "string" /\ content[call'.str] = Null,
         call'.str # Null => counted[call'.str] > 0
  PROVE  IInv'
<1>1. TypeOK /\ Roots \in SUBSET live /\ UNCHANGED <<live, counted, refs, kind, content, strings, aots, created>>
  BY DEF IInv, Roots, heapVars, tableVars
<1>2. CASE collected' = TRUE /\ CollectGarbage("allocate")
  <2>1. /\ pc' = "graph" /\ after' = "allocate" /\ serializer' = "gc"
          /\ StartGraphing("gc", Roots)
    BY <1>2 DEF CollectGarbage, StartGraphing
  <2>2. CallInv'
    BY <1>1, <2>1 DEF CallInv, Creating
  <2>3. QED
    BY <1>1, <1>2, <2>1, <2>2, StartPreserves DEF TypeOK
<1>3. CASE collected' = FALSE /\ pc' = "allocate" /\ UNCHANGED <<graphVars, after>>
  <2>1. ~ShuttingDown /\ ~ShuttingDown' /\ ~Sweeping /\ ~Sweeping' /\ after = "idle"
    BY <1>3 DEF IInv, PhaseInv, ShuttingDown, Sweeping
  <2>2. TypeOK'
    BY <1>1, <1>3 DEF TypeOK, heapVars, graphVars, tableVars
  <2>3. PhaseInv'
    BY <1>3, <2>1 DEF PhaseInv, Sweeping
  <2>4. CallInv'
    BY <1>1, <1>3, <2>1 DEF CallInv, Creating
  <2>5. AliveInv'
    BY <1>1, <1>3, <2>1 DEF IInv, AliveInv, AllRefs, heapVars, graphVars
  <2>6. TableInv'
    BY <1>1, <1>3, <2>1 DEF IInv, TableInv, IsMarked, tableVars
  <2>7. InternInv'
    BY <1>1, <1>3, <2>1 DEF IInv, InternInv, Sweeping
  <2>8. QED
    BY <1>3, <2>1, <2>2, <2>3, <2>4, <2>5, <2>6, <2>7
       DEF IInv, ListInv, MarkInv, FullInv, Collecting
<1>4. QED
  BY <1>2, <1>3 DEF StartCreate

\* A plain object is asked for.
LEMMA CreateObjectPreserves ==
  ASSUME IInv, CreateObject
  PROVE  IInv'
<1>1. call' = [op |-> "object", arg |-> Null, str |-> Null]
  BY DEF IInv, PhaseInv, CallInv, CreateObject, Creating, Idle, NoCall, Sweeping
<1>2. /\ call' \in [op : Kinds, arg : Contents \cup Types \cup {Null}, str : Objects \cup {Null}]
      /\ call'.op = "object" /\ call'.str = Null
  BY <1>1 DEF Kinds
<1>3. pc = "idle" /\ StartCreate /\ UNCHANGED <<heapVars, tableVars, created>>
  BY DEF CreateObject, Idle
<1>4. QED
  BY <1>2, <1>3, StartCreatePreserves

\* A string is asked for that is not in the table.
LEMMA CreateStringPreserves ==
  ASSUME IInv, NEW c \in Contents, CreateString(c)
  PROVE  IInv'
BY StartCreatePreserves DEF CreateString, Idle, Kinds

\* An array type is asked for that is not in the table.
LEMMA CreateArrayTypePreserves ==
  ASSUME IInv, NEW t \in Types, CreateArrayType(t)
  PROVE  IInv'
BY StartCreatePreserves DEF CreateArrayType, Idle, Kinds

\* The string is held while its array of characters is created.
LEMMA ConstructKeyPreserves ==
  ASSUME IInv, ConstructKey
  PROVE  IInv'
<1>1. call' = [op |-> "chars", arg |-> call.arg, str |-> created]
  BY DEF IInv, TypeOK, ConstructKey
<1>2. /\ call.arg \in Contents /\ strings[call.arg].v = Null
      /\ created \in Objects /\ created # Null /\ counted[created] > 0
      /\ kind[created] = "string" /\ content[created] = Null
  BY DEF IInv, TypeOK, CallInv, ConstructKey
<1>3. QED
  BY <1>1, <1>2, StartCreatePreserves DEF ConstructKey, Kinds

\* The memory is full: a collection starts before the allocation fails.
LEMMA CollectAndRetryPreserves ==
  ASSUME IInv, CollectAndRetry
  PROVE  IInv'
<1>1. /\ TypeOK /\ Roots \in SUBSET live
      /\ UNCHANGED <<live, counted, refs, kind, content, strings, aots, call, created>>
      /\ pc' = "graph" /\ after' = "allocate" /\ serializer' = "gc" /\ StartGraphing("gc", Roots)
      /\ pc = "allocate"
  BY DEF IInv, Roots, heapVars, tableVars, CollectAndRetry, CollectGarbage, StartGraphing
<1>2. CallInv'
  BY <1>1 DEF IInv, CallInv, Creating
<1>3. QED
  BY <1>1, <1>2, StartPreserves DEF CollectAndRetry, TypeOK

\* A collection starts before an object is saved; the object is held.
LEMMA SaveObjectPreserves ==
  ASSUME IInv, NEW o \in Objects, SaveObject(o)
  PROVE  IInv'
<1>1. /\ TypeOK /\ Roots \in SUBSET live /\ o # Null
      /\ UNCHANGED <<live, counted, refs, kind, content, strings, aots, call>>
      /\ pc' = "graph" /\ after' = "save" /\ serializer' = "gc" /\ StartGraphing("gc", Roots)
      /\ pc = "idle" /\ created' = o /\ counted[o] > 0
  BY HeapAssumption
     DEF IInv, Roots, heapVars, tableVars, SaveObject, CollectGarbage, StartGraphing, Idle
<1>2. call = NoCall
  BY <1>1 DEF IInv, CallInv, PhaseInv, Creating, Sweeping
<1>3. CallInv'
  BY <1>1, <1>2 DEF CallInv, Creating, NoCall
<1>4. QED
  BY <1>1, <1>3, StartPreserves DEF SaveObject, TypeOK

\* The graph of a saved object starts from that object.
LEMMA SavePackageFilePreserves ==
  ASSUME IInv, SavePackageFile
  PROVE  IInv'
<1>1. /\ TypeOK /\ created \in live
      /\ UNCHANGED <<live, counted, refs, kind, content, strings, aots, call>>
      /\ pc' = "graph" /\ after = "idle" /\ after' = "idle" /\ StartGraphing("save", {created})
      /\ pc = "save" /\ created' = Null
  BY DEF IInv, TypeOK, PhaseInv, CallInv, AliveInv, ShuttingDown, heapVars, tableVars,
         SavePackageFile, StartGraphing, Sweeping
<1>2. call = NoCall
  BY <1>1 DEF IInv, CallInv, Creating
<1>3. CallInv'
  BY <1>1, <1>2 DEF CallInv, Creating, NoCall
<1>4. QED
  BY <1>1, <1>3, StartPreserves DEF SavePackageFile, TypeOK

\* The graph of a saved package starts from the objects it lists.
LEMMA SavePackagePreserves ==
  ASSUME IInv, NEW n \in PackageNames, SavePackage(n)
  PROVE  IInv'
<1>1. /\ TypeOK /\ pc = "idle" /\ after = "idle"
      /\ UNCHANGED <<live, counted, refs, kind, content, strings, aots, call, after, created>>
      /\ pc' = "graph" /\ StartGraphing("save", refs[named[n]])
  BY DEF IInv, PhaseInv, heapVars, tableVars, callVars, SavePackage, StartGraphing, Idle, Sweeping
<1>2. refs[named[n]] \subseteq live
  <2>1. named[n] \in Objects /\ ~ShuttingDown
    BY <1>1 DEF TypeOK, SavePackage, Names, ShuttingDown
  <2>2. QED
    BY <2>1 DEF IInv, AliveInv, AllRefs
<1>3. call = NoCall /\ created = Null
  BY <1>1 DEF IInv, CallInv, Creating
<1>4. CallInv'
  BY <1>1, <1>3 DEF CallInv, Creating, NoCall
<1>5. QED
  BY <1>1, <1>2, <1>4, StartPreserves DEF SavePackage, callVars, TypeOK

\* An object is scanned.  What it refers to is alive, and so it is on a list.
LEMMA ScanObjectFacts ==
  ASSUME IInv, NEW o \in Objects, ScanObject(o)
  PROVE  /\ o \in live /\ IsMarked(o) /\ Visited(o) \subseteq live
         /\ \A r \in Objects \ (Visited(o) \cup {o}) : flags'[r] = flags[r]
         /\ \A r \in Objects : IsMarked(r)' <=> IsMarked(r) \/ r \in Visited(o)
         /\ \A r \in Objects : IsMarked(r) => ("External" \in flags'[r] <=> "External" \in flags[r])
         /\ serializer = "gc" => \A r \in Visited(o) : IsMarked(r) \/ "External" \notin flags'[r]
         /\ flags' \in [Objects -> SUBSET Flags]
         /\ scanLink' \in [Objects -> {"none", "unmarked", "marked", "scanned"}]
         /\ \A r \in Objects :
              scanLink'[r] = IF r = o THEN "scanned"
                             ELSE IF r \in Visited(o) /\ ~IsMarked(r) THEN "marked"
                             ELSE scanLink[r]
<1>1. ~ShuttingDown /\ pc = "graph" /\ scanLink[o] = "marked"
  BY DEF IInv, PhaseInv, ShuttingDown, ScanObject, Sweeping
<1>2. o \in live /\ IsMarked(o)
  BY <1>1 DEF IInv, AliveInv, ListInv
<1>3. Visited(o) \subseteq live /\ live \subseteq Objects
  BY <1>1 DEF IInv, AliveInv, Visited, AllRefs, TypeOK
<1> DEFINE new == {r \in Visited(o) : "GraphMarked" \notin flags[r]}
           scanned == [flags EXCEPT ![o] = @ \cup {"GraphScanned"}]
<1>4. flags' = Marked(scanned, new, serializer)
  BY DEF ScanObject
<1>5. scanLink' = [r \in Objects |-> IF r = o THEN "scanned"
                                     ELSE IF r \in new THEN "marked" ELSE scanLink[r]]
  BY DEF ScanObject
<1>6. scanned \in [Objects -> SUBSET Flags]
  BY DEF IInv, TypeOK, Flags
<1>7. \A r \in Objects : scanned[r] = IF r = o THEN flags[r] \cup {"GraphScanned"} ELSE flags[r]
  BY DEF IInv, TypeOK
<1> HIDE DEF scanned
<1>8. \A r \in Objects :
        flags'[r] = IF r \in new
                    THEN (scanned[r] \ {"External"}) \cup {"GraphMarked"}
                           \cup (IF TryIncludeObject(serializer, r) THEN {} ELSE {"External"})
                    ELSE scanned[r]
  BY <1>4 DEF Marked
<1>9. flags' \in [Objects -> SUBSET Flags]
  BY <1>4, <1>6 DEF Marked, Flags
<1>10. \A r \in Objects : r \in new <=> r \in Visited(o) /\ ~IsMarked(r)
  BY DEF IsMarked
<1> HIDE DEF new
<1>11. \A r \in Objects : IsMarked(r)' <=> IsMarked(r) \/ r \in Visited(o)
  BY <1>7, <1>8, <1>10 DEF IsMarked
<1>12. \A r \in Objects : IsMarked(r) => ("External" \in flags'[r] <=> "External" \in flags[r])
  BY <1>7, <1>8, <1>10
<1>13. serializer = "gc" => \A r \in Visited(o) : IsMarked(r) \/ "External" \notin flags'[r]
  BY <1>3, <1>8, <1>10 DEF TryIncludeObject
<1>14. \A r \in Objects \ (Visited(o) \cup {o}) : flags'[r] = flags[r]
  BY <1>7, <1>8, <1>10
<1>15. scanLink' \in [Objects -> {"none", "unmarked", "marked", "scanned"}]
  BY <1>5 DEF IInv, TypeOK
<1>16. QED
  BY <1>2, <1>3, <1>5, <1>9, <1>10, <1>11, <1>12, <1>13, <1>14, <1>15

\* Scanning keeps the tri-colour invariant of the collector and of a save.
LEMMA ScanObjectPreserves ==
  ASSUME IInv, NEW o \in Objects, ScanObject(o)
  PROVE  IInv'
<1> DEFINE facts ==
     /\ o \in live /\ IsMarked(o) /\ Visited(o) \subseteq live
     /\ \A r \in Objects \ (Visited(o) \cup {o}) : flags'[r] = flags[r]
     /\ \A r \in Objects : IsMarked(r)' <=> IsMarked(r) \/ r \in Visited(o)
     /\ \A r \in Objects : IsMarked(r) => ("External" \in flags'[r] <=> "External" \in flags[r])
     /\ serializer = "gc" => \A r \in Visited(o) : IsMarked(r) \/ "External" \notin flags'[r]
     /\ \A r \in Objects :
          scanLink'[r] = IF r = o THEN "scanned"
                         ELSE IF r \in Visited(o) /\ ~IsMarked(r) THEN "marked"
                         ELSE scanLink[r]
<1>1. facts
  BY ScanObjectFacts
<1>2. /\ pc = "graph" /\ pc' = "graph" /\ live \subseteq Objects
      /\ UNCHANGED <<heapVars, gcActive, serializer, tableVars, callVars>>
      /\ UNCHANGED <<live, counted, refs, unserialized, kind, content, strings, aots, named,
                     after, collected, call, created>>
      /\ ~ShuttingDown /\ ~ShuttingDown' /\ ~Sweeping /\ ~Sweeping'
  BY DEF IInv, TypeOK, PhaseInv, ShuttingDown, ScanObject, Sweeping, heapVars, tableVars, callVars
<1>3. TypeOK'
  BY <1>2, ScanObjectFacts DEF IInv, TypeOK
<1>4. PhaseInv'
  BY <1>2 DEF IInv, PhaseInv, Sweeping
<1>5. CallInv'
  BY <1>2 DEF IInv, CallInv, Creating
<1>6. AliveInv'
  BY <1>1, <1>2 DEF IInv, AliveInv, AllRefs
<1>7. ListInv'
  <2>1. \A r \in live : scanLink[r] # "none" /\ (IsMarked(r) <=> scanLink[r] # "unmarked")
    BY <1>2 DEF IInv, ListInv
  <2>2. \A r \in live : scanLink'[r] # "none" /\ (IsMarked(r)' <=> scanLink'[r] # "unmarked")
    BY <1>1, <1>2, <2>1
  <2>3. QED
    BY <1>2, <2>2 DEF ListInv
<1>8. MarkInv'
  <2>1. Roots' = Roots /\ Reachable' = Reachable
    BY <1>2, ReachableUnchanged
  <2>2. \A r \in Objects : IsMarked(r) => IsMarked(r)'
    BY <1>1
  <2>3. \A r \in Objects : scanLink'[r] = "scanned" /\ r # o => scanLink[r] = "scanned" /\ IsMarked(r)
    <3>1. \A r \in Objects : scanLink[r] = "scanned" => IsMarked(r)
      BY <1>2 DEF IInv, AliveInv, ListInv
    <3>2. QED
      BY <1>1, <3>1
  <2>4. CASE serializer = "gc"
    <3>1. \A r \in Objects : /\ r \in Roots => IsMarked(r)
                             /\ IsMarked(r) => "External" \notin flags[r] /\ r \in Reachable
                             /\ scanLink[r] = "scanned" => \A x \in AllRefs(r) : IsMarked(x)
      BY <1>2, <2>4 DEF IInv, MarkInv, Collecting
    <3>2. Visited(o) = AllRefs(o) /\ Visited(o) \subseteq Reachable
      BY <1>1, <2>4, <3>1, ReachableIsLeast DEF Visited, IInv
    <3>3. \A r \in Objects : AllRefs(r)' = AllRefs(r) /\ AllRefs(r) \subseteq Objects
      BY <1>2 DEF AllRefs, IInv, TypeOK
    <3>4. \A r \in Objects : r \in Roots => IsMarked(r)'
      BY <2>2, <3>1
    <3>5. \A r \in Objects : IsMarked(r)' => "External" \notin flags'[r] /\ r \in Reachable
      BY <1>1, <2>4, <3>1, <3>2
    <3>6. \A r \in Objects : scanLink'[r] = "scanned" => \A x \in AllRefs(r) : IsMarked(x)'
      BY <1>1, <2>2, <2>3, <3>1, <3>2, <3>3
    <3>7. QED
      BY <1>2, <2>1, <2>4, <3>3, <3>4, <3>5, <3>6 DEF MarkInv
  <2>5. CASE serializer = "save"
    <3>1. \A r \in Objects : scanLink[r] = "scanned" /\ "External" \notin flags[r] =>
            \A x \in refs[r] : IsMarked(x)
      BY <1>2, <2>5 DEF IInv, MarkInv
    <3>2. "External" \notin flags[o] => Visited(o) = refs[o]
      BY <2>5 DEF Visited
    <3>3. \A r \in Objects : refs[r] \subseteq Objects
      BY DEF IInv, TypeOK
    <3>4. \A r \in Objects : scanLink'[r] = "scanned" /\ "External" \notin flags'[r] =>
            \A x \in refs[r] : IsMarked(x)'
      <4> TAKE r \in Objects
      <4> HAVE scanLink'[r] = "scanned" /\ "External" \notin flags'[r]
      <4>1. "External" \notin flags[r]
        BY <1>1, <2>3
      <4>2. QED
        BY <1>1, <2>2, <2>3, <3>1, <3>2, <3>3, <4>1
    <3>5. QED
      BY <1>2, <2>5, <3>4 DEF MarkInv, Collecting, Sweeping
  <2>6. QED
    BY <2>4, <2>5 DEF IInv, TypeOK
<1>9. TableInv'
  BY <1>2 DEF IInv, TableInv
<1>10. InternInv'
  BY <1>2 DEF IInv, InternInv
<1>11. QED
  BY <1>2, <1>3, <1>4, <1>5, <1>6, <1>7, <1>8, <1>9, <1>10 DEF IInv, FullInv

\* Once nothing is left to scan, every object is scanned or condemned.
LEMMA EndGraphPreserves ==
  ASSUME IInv, EndGraph
  PROVE  IInv'
<1>1. /\ pc = "graph" /\ \A o \in Objects : scanLink[o] # "marked"
      /\ pc' = IF serializer = "gc" THEN "strings" ELSE "write"
      /\ UNCHANGED <<heapVars, graphVars, tableVars, callVars>>
      /\ UNCHANGED <<live, counted, refs, unserialized, kind, content, flags, scanLink, serializer,
                     strings, aots, named, after, collected, call, created>>
      /\ ~ShuttingDown /\ ~ShuttingDown' /\ serializer \in {"gc", "save"}
  BY DEF IInv, TypeOK, PhaseInv, EndGraph, heapVars, graphVars, tableVars, callVars, ShuttingDown, Sweeping
<1>2. TypeOK'
  BY <1>1 DEF IInv, TypeOK, graphVars
<1>3. PhaseInv'
  BY <1>1 DEF IInv, PhaseInv, Sweeping
<1>4. CallInv'
  BY <1>1 DEF IInv, CallInv, Creating
<1>5. AliveInv'
  BY <1>1 DEF IInv, AliveInv, AllRefs
<1>6. ListInv'
  BY <1>1 DEF IInv, ListInv, Sweeping, IsMarked, TypeOK
<1>7. MarkInv'
  <2>1. Roots' = Roots /\ Reachable' = Reachable
    BY <1>1, ReachableUnchanged
  <2>2. \A o \in Objects : AllRefs(o)' = AllRefs(o) /\ (IsMarked(o)' <=> IsMarked(o))
    BY <1>1 DEF AllRefs, IsMarked
  <2>3. \A o \in Objects : AllRefs(o) \subseteq Objects /\ refs[o] \subseteq Objects
    BY DEF IInv, TypeOK, AllRefs
  <2>4. Collecting' => Collecting
    BY <1>1 DEF Collecting, Sweeping
  <2>5. QED
    BY <1>1, <2>1, <2>2, <2>3, <2>4 DEF IInv, MarkInv
<1>8. TableInv'
  BY <1>1 DEF IInv, TableInv
<1>9. InternInv'
  BY <1>1 DEF IInv, InternInv
<1>10. QED
  BY <1>1, <1>2, <1>3, <1>4, <1>5, <1>6, <1>7, <1>8, <1>9 DEF IInv, FullInv

\* Between the parts of a sweep, and of the marks and lists, nothing changes
\* but the tables.
LEMMA SweepPreserves ==
  ASSUME IInv, Sweeping, Sweeping', UNCHANGED <<heapVars, graphVars, callVars>>,
         TypeOK', TableInv', InternInv',
         \A c \in Contents : strings[c].v = Null => strings'[c].v = Null,
         \A t \in Types : aots[t] = Null => aots'[t] = Null
  PROVE  IInv'
<1>1. /\ UNCHANGED <<live, counted, refs, unserialized, kind, content, flags, scanLink, serializer,
                     after, collected, call, created>>
      /\ pc \notin {"graph", "idle", "created", "save", "allocate", "failed", "write", "down"}
      /\ pc' \notin {"graph", "idle", "created", "save", "allocate", "failed", "write", "down"}
  BY DEF heapVars, graphVars, callVars, Sweeping
<1>2. PhaseInv'
  BY <1>1 DEF IInv, PhaseInv, Sweeping
<1>3. CallInv'
  BY <1>1 DEF IInv, CallInv, Creating
<1>4. AliveInv'
  BY <1>1 DEF IInv, AliveInv, AllRefs, ShuttingDown
<1>5. ListInv'
  BY <1>1 DEF IInv, ListInv, IsMarked
<1>6. MarkInv'
  <2>1. Roots' = Roots /\ Reachable' = Reachable
    BY ReachableUnchanged
  <2>2. \A o \in Objects : AllRefs(o)' = AllRefs(o) /\ (IsMarked(o)' <=> IsMarked(o))
    BY <1>1 DEF AllRefs, IsMarked
  <2>3. \A o \in Objects : AllRefs(o) \subseteq Objects
    BY DEF IInv, TypeOK, AllRefs
  <2>4. Collecting' => Collecting
    BY <1>1 DEF Collecting
  <2>5. QED
    BY <1>1, <2>1, <2>2, <2>3, <2>4 DEF IInv, MarkInv
<1>7. QED
  BY <1>1, <1>2, <1>3, <1>4, <1>5, <1>6 DEF IInv, FullInv

\* The string table drops the condemned strings.
LEMMA SweepStringsPreserves ==
  ASSUME IInv, SweepStrings
  PROVE  IInv'
<1>1. /\ pc = "strings" /\ pc' = "aots" /\ Sweeping /\ Sweeping'
      /\ UNCHANGED <<heapVars, graphVars, callVars, aots, named>>
      /\ UNCHANGED <<live, counted, refs, unserialized, kind, content, flags, scanLink, gcActive,
                     serializer, after, collected, call, created>>
  BY DEF SweepStrings, Sweeping, heapVars, graphVars, callVars
<1>2. \A c \in Contents : strings'[c] = IF strings[c].v # Null /\ ~IsMarked(strings[c].v)
                                        THEN NoEntry ELSE strings[c]
  BY DEF SweepStrings
<1>3. TypeOK'
  BY <1>1, HeapAssumption DEF IInv, TypeOK, SweepStrings, NoEntry
<1>4. TableInv'
  <2>1. \A o : IsMarked(o)' <=> IsMarked(o)
    BY <1>1 DEF IsMarked
  <2>2. QED
    BY <1>1, <1>2, <2>1 DEF IInv, TableInv, ShuttingDown, NoEntry
<1>5. InternInv'
  <2>1. \A o \in live : content[o] # Null =>
          content[o] \in Contents /\ (~ShuttingDown => strings[content[o]].v = o)
    BY <1>1 DEF IInv, TypeOK, InternInv
  <2>2. \A o \in live : content[o] # Null /\ ~ShuttingDown => strings'[content[o]].v = o \/ ~IsMarked(o)
    BY <1>2, <2>1
  <2>3. QED
    BY <1>1, <2>2 DEF IInv, InternInv, ShuttingDown, IsMarked
<1>6. QED
  BY <1>1, <1>2, <1>3, <1>4, <1>5, SweepPreserves DEF NoEntry

\* The table of array types drops the condemned ones.
LEMMA SweepArrayTypesPreserves ==
  ASSUME IInv, SweepArrayTypes
  PROVE  IInv'
<1>1. /\ pc = "aots" /\ pc' = "symbols" /\ Sweeping /\ Sweeping'
      /\ UNCHANGED <<heapVars, graphVars, callVars, strings, named>>
      /\ UNCHANGED <<live, counted, refs, unserialized, kind, content, flags, scanLink, gcActive,
                     serializer, after, collected, call, created>>
  BY DEF SweepArrayTypes, Sweeping, heapVars, graphVars, callVars
<1>2. \A t \in Types : aots'[t] = IF aots[t] # Null /\ ~IsMarked(aots[t]) THEN Null ELSE aots[t]
  BY DEF SweepArrayTypes
<1>3. TypeOK'
  BY <1>1, HeapAssumption DEF IInv, TypeOK, SweepArrayTypes
<1>4. \A o : IsMarked(o)' <=> IsMarked(o)
  BY <1>1 DEF IsMarked
<1>5. TableInv'
  BY <1>1, <1>2, <1>4 DEF IInv, TableInv, ShuttingDown
<1>6. InternInv'
  <2>1. \A o \in live : kind[o] = "array" => \A t \in refs[o] :
          ~ShuttingDown => t \in Types /\ aots[t] = o
    BY <1>1 DEF IInv, InternInv
  <2>2. \A o \in live : kind[o] = "array" => \A t \in refs[o] :
          ~ShuttingDown => t \in Types /\ (aots'[t] = o \/ ~IsMarked(o))
    BY <1>2, <2>1
  <2>3. QED
    BY <1>1, <1>4, <2>2 DEF IInv, InternInv, ShuttingDown
<1>7. QED
  BY <1>1, <1>2, <1>3, <1>5, <1>6, SweepPreserves

\* One of the two tables of names is swept.
LEMMA SweepNamesPreserves ==
  ASSUME IInv,
         NEW table \in SUBSET Names, named' = SweptNames(table),
         UNCHANGED <<heapVars, graphVars, strings, aots, callVars>>,
         \/ table = Symbols /\ pc = "symbols" /\ pc' = "packages"
         \/ table = PackageNames /\ pc = "packages" /\ pc' = "release"
  PROVE  IInv'
<1>1. /\ Sweeping /\ Sweeping'
      /\ UNCHANGED <<heapVars, graphVars, callVars>>
      /\ UNCHANGED <<live, counted, refs, unserialized, kind, content, flags, scanLink, gcActive,
                     serializer, strings, aots, after, collected, call, created>>
  BY DEF Sweeping, heapVars, graphVars, callVars
<1>2. \A n \in Names : named'[n] = IF n \in table /\ named[n] # Null /\ ~IsMarked(named[n])
                                   THEN Null ELSE named[n]
  BY DEF SweptNames
<1>3. TypeOK'
  BY <1>1, HeapAssumption DEF IInv, TypeOK, SweptNames
<1>4. \A o : IsMarked(o)' <=> IsMarked(o)
  BY <1>1 DEF IsMarked
<1>5. TableInv'
  BY <1>1, <1>2, <1>4 DEF IInv, TableInv, ShuttingDown
<1>6. InternInv'
  BY <1>1, <1>4 DEF IInv, InternInv, ShuttingDown
<1>7. QED
  BY <1>1, <1>3, <1>5, <1>6, SweepPreserves

\* The global symbol table drops the condemned objects.
LEMMA SweepSymbolsPreserves ==
  ASSUME IInv, SweepSymbols
  PROVE  IInv'
BY SweepNamesPreserves DEF SweepSymbols, Names

\* The package table drops the condemned packages.
LEMMA SweepPackagesPreserves ==
  ASSUME IInv, SweepPackages
  PROVE  IInv'
BY SweepNamesPreserves DEF SweepPackages, Names

\* A collection leaves what is reachable, and what is left is reachable still.
LEMMA ReleaseLeavesReachable ==
  ASSUME IInv, ReleaseCondemned, after # "down"
  PROVE  /\ live' = Reachable /\ live' = Reachable'
         /\ \A o \in Objects : o \in live' <=> IsMarked(o)
<1>1. /\ pc = "release" /\ Sweeping /\ Collecting /\ ~ShuttingDown
      /\ live \subseteq Objects /\ live' = live \ Condemned
      /\ UNCHANGED counted
  BY DEF IInv, TypeOK, PhaseInv, ReleaseCondemned, Sweeping, Collecting, ShuttingDown
<1>2. \A o \in Objects : o \in live' <=> IsMarked(o)
  BY <1>1 DEF IInv, ListInv, AliveInv, Condemned, IsMarked
<1>3. \A o \in Objects : IsMarked(o) => o \in Reachable
  BY <1>1 DEF IInv, MarkInv
<1>4. Roots \subseteq live'
  BY <1>1, <1>2 DEF IInv, MarkInv, Roots
<1>5. \A x \in live' : AllRefs(x) \subseteq live'
  <2>1. \A x \in live' : IsMarked(x) /\ scanLink[x] = "scanned"
    BY <1>1, <1>2 DEF IInv, ListInv, TypeOK
  <2>2. \A x \in Objects : AllRefs(x) \subseteq Objects
    BY DEF IInv, TypeOK, AllRefs
  <2>3. \A x \in live' : \A r \in AllRefs(x) : IsMarked(r)
    BY <1>1, <2>1 DEF IInv, MarkInv
  <2>4. QED
    BY <1>1, <1>2, <2>2, <2>3
<1>6. live' \in SUBSET Objects
  BY <1>1
<1>7. Reachable \subseteq live'
  BY <1>4, <1>5, <1>6, ReachableIsLeast DEF IInv
<1>8. live' = Reachable
  BY <1>1, <1>2, <1>3, <1>7
<1>9. Roots' = Roots
  BY <1>1, <1>4, <1>8 DEF Roots
<1>10. \A x \in Objects : AllRefs(x)' = IF x \in live' THEN AllRefs(x) ELSE {}
  <2>1. \A x \in Objects : AllRefs(x)' = IF x \in Condemned THEN {} ELSE AllRefs(x)
    BY DEF ReleaseCondemned, AllRefs
  <2>2. \A x \in Objects \ live : AllRefs(x) = {}
    BY DEF IInv, AliveInv
  <2>3. QED
    BY <1>1, <2>1, <2>2
<1>11. TypeOK'
  BY HeapAssumption DEF IInv, TypeOK, Kinds, ReleaseCondemned, tableVars
<1>12. Reachable' \subseteq live'
  <2>1. \A T \in SUBSET Objects :
          Roots' \subseteq T /\ (\A x \in T : AllRefs(x)' \subseteq T) => Reachable' \subseteq T
    BY <1>11, ReachableIsLeastNext
  <2>2. Roots' \subseteq live' /\ \A x \in live' : AllRefs(x)' \subseteq live'
    BY <1>4, <1>5, <1>6, <1>9, <1>10
  <2>3. QED
    BY <1>6, <2>1, <2>2
<1>13. Reachable \subseteq Reachable'
  <2>1. Roots' \subseteq Reachable' /\ \A x \in Reachable' : AllRefs(x)' \subseteq Reachable'
    BY <1>11, ReachableIsLeastNext
  <2>2. Reachable' \in SUBSET Objects
    BY <1>6, <1>12
  <2>3. \A x \in Reachable' : AllRefs(x) \subseteq Reachable'
    BY <1>10, <1>12, <2>1, <2>2
  <2>4. QED
    BY <1>9, <2>1, <2>2, <2>3, ReachableIsLeast DEF IInv
<1>14. QED
  BY <1>2, <1>8, <1>12, <1>13

\* What is released is referred to by nothing that stays.
LEMMA ReleaseCondemnedPreserves ==
  ASSUME IInv, ReleaseCondemned
  PROVE  IInv'
<1>1. /\ pc = "release" /\ pc' = after /\ after' = "idle" /\ Sweeping
      /\ after \in {"allocate", "save", "down"} /\ live \subseteq Objects
      /\ UNCHANGED <<counted, gcActive, serializer, strings, aots, named, collected, call, created>>
      /\ (ShuttingDown <=> after = "down") /\ (ShuttingDown' <=> after = "down")
      /\ live' = live \ Condemned
  BY DEF IInv, TypeOK, PhaseInv, ReleaseCondemned, ShuttingDown, Sweeping, tableVars
<1>2. \A o \in Objects :
        IF o \in Condemned
        THEN /\ refs'[o] = {} /\ unserialized'[o] = {} /\ kind'[o] = "none" /\ content'[o] = Null
             /\ flags'[o] = {} /\ scanLink'[o] = "none"
        ELSE /\ refs'[o] = refs[o] /\ unserialized'[o] = unserialized[o] /\ kind'[o] = kind[o]
             /\ content'[o] = content[o] /\ flags'[o] = flags[o] /\ scanLink'[o] = scanLink[o]
  BY DEF ReleaseCondemned
<1>3. after # "down" =>
        \A o \in Objects : /\ o \in live' <=> IsMarked(o)
                           /\ o \in live' => o \notin Condemned
  BY <1>1, ReleaseLeavesReachable
<1>4. TypeOK'
  BY <1>1, HeapAssumption DEF IInv, TypeOK, Kinds, ReleaseCondemned
<1>5. PhaseInv'
  BY <1>1 DEF PhaseInv, Sweeping
<1>6. after # "down" => \A o \in Objects : counted[o] > 0 => o \in live'
  BY <1>1, <1>3 DEF IInv, AliveInv, MarkInv, Collecting, Roots
<1>7. CallInv'
  <2>1. Creating' => Creating
    BY <1>1 DEF Creating
  <2>2. CASE after = "down"
    BY <1>1, <2>1, <2>2 DEF IInv, CallInv, Creating, NoCall
  <2>3. CASE after # "down"
    <3>1. call.str # Null => /\ counted[call.str] > 0 /\ kind'[call.str] = kind[call.str]
                             /\ content'[call.str] = content[call.str]
      BY <1>2, <1>3, <1>6, <2>3 DEF IInv, CallInv, TypeOK
    <3>2. QED
      BY <1>1, <2>1, <2>3, <3>1 DEF IInv, CallInv, Creating
  <2>4. QED
    BY <2>2, <2>3
<1>8. AliveInv'
  <2>1. \A o \in Objects \ live' : /\ AllRefs(o)' = {} /\ kind'[o] = "none" /\ content'[o] = Null
                                   /\ flags'[o] = {} /\ scanLink'[o] = "none"
    BY <1>1, <1>2 DEF IInv, AliveInv, AllRefs
  <2>2. after # "down" => \A o \in Objects : AllRefs(o)' \subseteq live'
    <3>1. ASSUME after # "down", NEW o \in live' PROVE AllRefs(o)' \subseteq live'
      <4>1. AllRefs(o)' = AllRefs(o)
        BY <1>1, <1>2, <1>3, <3>1 DEF AllRefs
      <4>2. AllRefs(o)' \subseteq Reachable'
        BY <1>4, <3>1, ReachableIsLeastNext, ReleaseLeavesReachable
      <4>3. QED
        BY <3>1, <4>2, ReleaseLeavesReachable
    <3>2. QED
      BY <2>1, <3>1
  <2>3. QED
    BY <1>1, <1>6, <2>1, <2>2 DEF AliveInv
<1>9. TableInv'
  <2>1. CASE after = "down"
    BY <1>1, <2>1 DEF TableInv
  <2>2. CASE after # "down"
    <3>1. \A o \in Objects : IsMarked(o) => o \in live' /\ kind'[o] = kind[o] /\ refs'[o] = refs[o]
      BY <1>2, <1>3, <2>2
    <3>2. \A c \in Contents : strings[c].v # Null =>
            /\ strings[c].v \in live' /\ kind'[strings[c].v] = "string"
            /\ strings[c].k \in refs'[strings[c].v]
      BY <1>1, <2>2, <3>1 DEF IInv, TableInv
    <3>3. \A t \in Types : aots[t] # Null =>
            /\ aots[t] \in live' /\ kind'[aots[t]] = "array" /\ t \in refs'[aots[t]]
      BY <1>1, <2>2, <3>1 DEF IInv, TableInv
    <3>4. \A n \in Names : named[n] # Null => named[n] \in live'
      BY <1>1, <2>2, <3>1 DEF IInv, TableInv, Names
    <3>5. QED
      BY <1>1, <2>2, <3>2, <3>3, <3>4 DEF TableInv
  <2>3. QED
    BY <2>1, <2>2
<1>10. InternInv'
  BY <1>1, <1>2, <1>3 DEF IInv, TypeOK, InternInv
<1>11. FullInv'
  BY <1>1, ReleaseLeavesReachable DEF FullInv
<1>12. QED
  BY <1>1, <1>4, <1>5, <1>7, <1>8, <1>9, <1>10, <1>11
     DEF IInv, ListInv, MarkInv, Sweeping, Collecting

-----------------------------------------------------------------------------
(***************************************************************************)
(* The steps of operations that create objects.                            *)
(***************************************************************************)

\* A free address is taken.
LEMMA AllocatePreserves ==
  ASSUME IInv, NEW o \in Objects, Allocate(o)
  PROVE  IInv'
<1>1. /\ pc = "allocate" /\ pc' = "created" /\ after = "idle" /\ o \notin live
      /\ live' = live \cup {o} /\ created' = o
      /\ UNCHANGED <<refs, unserialized, content, gcActive, serializer, strings, aots, named,
                     after, collected, call>>
      /\ ~ShuttingDown /\ ~ShuttingDown' /\ o # Null /\ live \subseteq Objects
  BY HeapAssumption DEF IInv, TypeOK, PhaseInv, Allocate, tableVars, ShuttingDown, Sweeping
<1>2. /\ counted' = [counted EXCEPT ![o] = 1]
      /\ kind' = [kind EXCEPT ![o] = call.op]
      /\ flags' = [flags EXCEPT ![o] = {}]
      /\ scanLink' = [scanLink EXCEPT ![o] = IF gcActive THEN "marked" ELSE "none"]
  BY DEF Allocate
<1>3. \A x \in Objects : x # o => /\ counted'[x] = counted[x] /\ kind'[x] = kind[x]
                                  /\ flags'[x] = flags[x] /\ scanLink'[x] = scanLink[x]
  BY <1>2 DEF IInv, TypeOK
<1>4. /\ counted'[o] = 1 /\ kind'[o] = call.op
      /\ AllRefs(o) = {} /\ refs[o] = {} /\ content[o] = Null
  BY <1>1, <1>2 DEF IInv, TypeOK, AliveInv, AllRefs
<1>5. call.str # Null => call.str \in live
  BY <1>1 DEF IInv, TypeOK, CallInv, AliveInv
<1>6. TypeOK'
  BY <1>1, <1>2, HeapAssumption DEF IInv, TypeOK
<1>7. PhaseInv'
  BY <1>1 DEF PhaseInv, Sweeping
<1>8. CallInv'
  BY <1>1, <1>3, <1>4, <1>5, HeapAssumption DEF IInv, TypeOK, CallInv, Creating
<1>9. AliveInv'
  BY <1>1, <1>3, <1>4 DEF IInv, AliveInv, AllRefs
<1>10. TableInv'
  BY <1>1, <1>3 DEF IInv, TableInv, IsMarked
<1>11. InternInv'
  BY <1>1, <1>3, <1>4 DEF IInv, InternInv, IsMarked
<1>12. QED
  BY <1>1, <1>6, <1>7, <1>8, <1>9, <1>10, <1>11
     DEF IInv, ListInv, MarkInv, FullInv, Sweeping, Collecting

\* The allocation gives up.
LEMMA AllocationFailsPreserves ==
  ASSUME IInv, AllocationFails
  PROVE  IInv'
<1>1. /\ pc = "allocate" /\ pc' = "failed" /\ after = "idle"
      /\ UNCHANGED <<live, counted, refs, unserialized, kind, content, flags, scanLink, gcActive,
                     serializer, strings, aots, named, after, collected, call, created>>
      /\ ~ShuttingDown /\ ~ShuttingDown'
  BY DEF IInv, PhaseInv, AllocationFails, heapVars, graphVars, tableVars, callVars,
         ShuttingDown, Sweeping
<1>2. TypeOK'
  BY <1>1 DEF IInv, TypeOK
<1>3. PhaseInv'
  BY <1>1 DEF PhaseInv, Sweeping
<1>4. CallInv'
  BY <1>1 DEF IInv, CallInv, Creating
<1>5. AliveInv'
  BY <1>1 DEF IInv, AliveInv, AllRefs
<1>6. TableInv'
  BY <1>1 DEF IInv, TableInv, IsMarked
<1>7. InternInv'
  BY <1>1 DEF IInv, InternInv, IsMarked
<1>8. QED
  BY <1>1, <1>2, <1>3, <1>4, <1>5, <1>6, <1>7
     DEF IInv, ListInv, MarkInv, FullInv, Sweeping, Collecting

\* A plain object is handed to its creator.
LEMMA ReturnObjectPreserves ==
  ASSUME IInv, ReturnObject
  PROVE  IInv'
<1>1. /\ pc = "created" /\ pc' = "idle" /\ after = "idle" /\ call' = NoCall /\ created' = Null
      /\ UNCHANGED <<live, counted, refs, unserialized, kind, content, flags, scanLink, gcActive,
                     serializer, strings, aots, named, after, collected>>
      /\ ~ShuttingDown /\ ~ShuttingDown'
  BY DEF IInv, PhaseInv, ReturnObject, EndCall, heapVars, graphVars, tableVars,
         ShuttingDown, Sweeping
<1>2. TypeOK'
  BY <1>1 DEF IInv, TypeOK, NoCall, Kinds
<1>3. PhaseInv'
  BY <1>1 DEF PhaseInv, Sweeping
<1>4. CallInv'
  BY <1>1 DEF CallInv, Creating, NoCall
<1>5. AliveInv'
  BY <1>1 DEF IInv, AliveInv, AllRefs
<1>6. TableInv'
  BY <1>1 DEF IInv, TableInv, IsMarked
<1>7. InternInv'
  BY <1>1 DEF IInv, InternInv, IsMarked
<1>8. QED
  BY <1>1, <1>2, <1>3, <1>4, <1>5, <1>6, <1>7
     DEF IInv, ListInv, MarkInv, FullInv, Sweeping, Collecting

\* The table cannot take the object; the operation still holds it.
LEMMA InsertFailsPreserves ==
  ASSUME IInv, InsertFails
  PROVE  IInv'
<1>1. /\ pc = "created" /\ pc' = "failed" /\ after = "idle"
      /\ call.op \in {"string", "array"} /\ call' = [call EXCEPT !.str = created]
      /\ UNCHANGED <<live, counted, refs, unserialized, kind, content, flags, scanLink, gcActive,
                     serializer, strings, aots, named, after, collected, created>>
      /\ ~ShuttingDown /\ ~ShuttingDown'
  BY DEF IInv, PhaseInv, InsertFails, heapVars, graphVars, tableVars, ShuttingDown, Sweeping
<1>2. /\ call' = [op |-> call.op, arg |-> call.arg, str |-> created]
      /\ created \in Objects /\ counted[created] > 0
  BY <1>1 DEF IInv, TypeOK, CallInv
<1>3. TypeOK'
  BY <1>1, <1>2 DEF IInv, TypeOK
<1>4. PhaseInv'
  BY <1>1 DEF PhaseInv, Sweeping
<1>5. CallInv'
  BY <1>1, <1>2 DEF IInv, CallInv, Creating
<1>6. AliveInv'
  BY <1>1 DEF IInv, AliveInv, AllRefs
<1>7. TableInv'
  BY <1>1 DEF IInv, TableInv, IsMarked
<1>8. InternInv'
  BY <1>1 DEF IInv, InternInv, IsMarked
<1>9. QED
  BY <1>1, <1>3, <1>4, <1>5, <1>6, <1>7, <1>8
     DEF IInv, ListInv, MarkInv, FullInv, Sweeping, Collecting

\* The string enters the table with its array of characters.
LEMMA FillStringPreserves ==
  ASSUME IInv, FillString
  PROVE  IInv'
<1> DEFINE c == call.arg
           str == call.str
<1>1. /\ pc = "created" /\ pc' = "idle" /\ after = "idle" /\ call' = NoCall /\ created' = Null
      /\ UNCHANGED <<live, unserialized, kind, flags, scanLink, gcActive, serializer, aots, named,
                     after, collected>>
      /\ ~ShuttingDown /\ ~ShuttingDown'
  BY DEF IInv, PhaseInv, FillString, EndCall, graphVars, ShuttingDown, Sweeping
<1>2. /\ c \in Contents /\ strings[c].v = Null
      /\ str \in Objects /\ str # Null /\ kind[str] = "string" /\ content[str] = Null
      /\ counted[str] > 0 /\ str \in live
      /\ created \in Objects /\ created # Null /\ counted[created] > 0 /\ created \in live
      /\ created # str /\ kind[created] = "chars"
  BY <1>1 DEF IInv, TypeOK, CallInv, AliveInv, FillString
<1>3. /\ strings' = [strings EXCEPT ![c] = [k |-> created, v |-> str]]
      /\ content' = [content EXCEPT ![str] = c]
      /\ refs' = [refs EXCEPT ![str] = @ \cup {created}]
      /\ counted' = [counted EXCEPT ![created] = @ - 1]
  BY DEF FillString
<1> HIDE DEF c, str
<1>4. \A x \in Objects : /\ x # str => refs'[x] = refs[x] /\ content'[x] = content[x]
                         /\ counted'[x] > 0 => counted[x] > 0
  BY <1>2, <1>3 DEF IInv, TypeOK
<1>5. refs'[str] = refs[str] \cup {created} /\ content'[str] = c
  BY <1>2, <1>3 DEF IInv, TypeOK
<1>6. \A d \in Contents : IF d = c THEN strings'[d] = [k |-> created, v |-> str]
                          ELSE strings'[d] = strings[d]
  BY <1>2, <1>3 DEF IInv, TypeOK
<1>7. TypeOK'
  BY <1>1, <1>2, <1>3, HeapAssumption DEF IInv, TypeOK, NoCall, Kinds
<1>8. PhaseInv'
  BY <1>1 DEF PhaseInv, Sweeping
<1>9. CallInv'
  BY <1>1 DEF CallInv, Creating, NoCall
<1>10. AliveInv'
  BY <1>1, <1>2, <1>4, <1>5 DEF IInv, AliveInv, AllRefs
<1>11. TableInv'
  <2>1. \A d \in Contents : strings'[d].v # Null =>
          /\ strings'[d].v \in live /\ kind[strings'[d].v] = "string"
          /\ strings'[d].k \in refs'[strings'[d].v]
    BY <1>1, <1>2, <1>4, <1>5, <1>6, SMTT(30) DEF IInv, TypeOK, TableInv
  <2>2. \A t \in Types : aots[t] # Null =>
          /\ aots[t] \in live /\ kind[aots[t]] = "array" /\ t \in refs'[aots[t]]
    BY <1>1, <1>2, <1>4 DEF IInv, TypeOK, TableInv
  <2>3. QED
    BY <1>1, <2>1, <2>2 DEF IInv, TableInv, IsMarked
<1>12. InternInv'
  <2>1. \A x \in live : content[x] # Null => strings[content[x]].v = x /\ content[x] \in Contents
    BY <1>1 DEF IInv, TypeOK, InternInv
  <2>2. \A x \in live : content'[x] # Null => strings'[content'[x]].v = x
    <3>1. \A x \in live : x \in Objects /\ x # Null
      BY HeapAssumption DEF IInv, TypeOK
    <3>2. ASSUME NEW x \in live, x # str, content'[x] # Null PROVE strings'[content'[x]].v = x
      <4>1. content'[x] = content[x] /\ content[x] # c
        BY <1>2, <1>4, <2>1, <3>1, <3>2
      <4>2. QED
        BY <1>6, <2>1, <3>2, <4>1
    <3>3. QED
      BY <1>2, <1>5, <1>6, <3>1, <3>2
  <2>3. \A x \in live : kind[x] = "array" => \A t \in refs'[x] : t \in Types /\ aots[t] = x
    BY <1>1, <1>2, <1>4 DEF IInv, TypeOK, InternInv
  <2>4. QED
    BY <1>1, <2>2, <2>3 DEF InternInv
<1>13. QED
  BY <1>1, <1>7, <1>8, <1>9, <1>10, <1>11, <1>12
     DEF IInv, ListInv, MarkInv, FullInv, Sweeping, Collecting

\* The array type enters the table with its element type.
LEMMA FillArrayTypePreserves ==
  ASSUME IInv, FillArrayType
  PROVE  IInv'
<1> DEFINE t == call.arg
<1>1. /\ pc = "created" /\ pc' = "idle" /\ after = "idle" /\ call' = NoCall /\ created' = Null
      /\ UNCHANGED <<live, counted, unserialized, kind, content, flags, scanLink, gcActive,
                     serializer, strings, named, after, collected>>
      /\ ~ShuttingDown /\ ~ShuttingDown'
  BY DEF IInv, PhaseInv, FillArrayType, EndCall, graphVars, ShuttingDown, Sweeping
<1>2. /\ t \in Types /\ t \in Objects /\ aots[t] = Null /\ t \in live
      /\ created \in Objects /\ created # Null /\ created \in live
      /\ kind[created] = "array" /\ refs[created] = {}
  BY <1>1, HeapAssumption DEF IInv, TypeOK, CallInv, AliveInv, FillArrayType
<1>3. /\ aots' = [aots EXCEPT ![t] = created]
      /\ refs' = [refs EXCEPT ![created] = @ \cup {t}]
  BY DEF FillArrayType
<1> HIDE DEF t
<1>4. \A x \in Objects : refs'[x] = IF x = created THEN {t} ELSE refs[x]
  BY <1>2, <1>3 DEF IInv, TypeOK
<1>5. \A u \in Types : aots'[u] = IF u = t THEN created ELSE aots[u]
  BY <1>2, <1>3 DEF IInv, TypeOK
<1>6. TypeOK'
  BY <1>1, <1>2, <1>3, HeapAssumption DEF IInv, TypeOK, NoCall, Kinds
<1>7. PhaseInv'
  BY <1>1 DEF PhaseInv, Sweeping
<1>8. CallInv'
  BY <1>1 DEF CallInv, Creating, NoCall
<1>9. AliveInv'
  BY <1>1, <1>2, <1>4 DEF IInv, AliveInv, AllRefs
<1>10. TableInv'
  <2>1. \A c \in Contents : strings[c].v # Null =>
          /\ strings[c].v \in live /\ kind[strings[c].v] = "string"
          /\ strings[c].k \in refs'[strings[c].v]
    BY <1>1, <1>2, <1>4 DEF IInv, TypeOK, TableInv
  <2>2. \A u \in Types : aots'[u] # Null =>
          /\ aots'[u] \in live /\ kind[aots'[u]] = "array" /\ u \in refs'[aots'[u]]
    BY <1>1, <1>2, <1>4, <1>5 DEF IInv, TypeOK, TableInv
  <2>3. QED
    BY <1>1, <2>1, <2>2 DEF IInv, TableInv, IsMarked
<1>11. InternInv'
  <2>1. \A x \in live : kind[x] = "array" => \A u \in refs[x] : u \in Types /\ aots[u] = x
    BY <1>1 DEF IInv, InternInv
  <2>2. \A x \in live : kind[x] = "array" => \A u \in refs'[x] : u \in Types /\ aots'[u] = x
    BY <1>2, <1>4, <1>5, <2>1, HeapAssumption DEF IInv, TypeOK
  <2>3. QED
    BY <1>1, <2>2 DEF IInv, InternInv
<1>12. QED
  BY <1>1, <1>6, <1>7, <1>8, <1>9, <1>10, <1>11
     DEF IInv, ListInv, MarkInv, FullInv, Sweeping, Collecting

\* The reference that the operation holds is let go of, once.
LEMMA CreateFailsPreserves ==
  ASSUME IInv, CreateFails
  PROVE  IInv'
<1>1. /\ pc = "failed" /\ pc' = "idle" /\ after = "idle" /\ call' = NoCall /\ created' = Null
      /\ UNCHANGED <<live, refs, unserialized, kind, content, flags, scanLink, gcActive,
                     serializer, strings, aots, named, after, collected>>
      /\ ~ShuttingDown /\ ~ShuttingDown'
  BY DEF IInv, PhaseInv, CreateFails, EndCall, graphVars, tableVars, ShuttingDown, Sweeping
<1>2. \A x \in Objects : x = call.str => counted[x] > 0
  BY HeapAssumption DEF IInv, CallInv
<1>3. counted' = [x \in Objects |-> IF x = call.str THEN counted[x] - 1 ELSE counted[x]]
  BY DEF CreateFails
<1>4. counted' \in [Objects -> 0..(MaxCounted + 1)]
  BY <1>2, <1>3, HeapAssumption DEF IInv, TypeOK
<1>5. \A x \in Objects : counted'[x] > 0 => counted[x] > 0
  BY <1>2, <1>3 DEF IInv, TypeOK
<1>6. TypeOK'
  BY <1>1, <1>4 DEF IInv, TypeOK, NoCall, Kinds
<1>7. PhaseInv'
  BY <1>1 DEF PhaseInv, Sweeping
<1>8. CallInv'
  BY <1>1 DEF CallInv, Creating, NoCall
<1>9. AliveInv'
  BY <1>1, <1>5 DEF IInv, AliveInv, AllRefs
<1>10. TableInv'
  BY <1>1 DEF IInv, TableInv, IsMarked
<1>11. InternInv'
  BY <1>1 DEF IInv, InternInv, IsMarked
<1>12. QED
  BY <1>1, <1>6, <1>7, <1>8, <1>9, <1>10, <1>11
     DEF IInv, ListInv, MarkInv, FullInv, Sweeping, Collecting

\* Writing a graph changes nothing.
LEMMA WriteObjectsPreserves ==
  ASSUME IInv, WriteObjects
  PROVE  IInv'
<1>1. /\ pc = "write" /\ pc' = "idle" /\ after = "idle" /\ call = NoCall /\ created' = created
      /\ UNCHANGED <<live, counted, refs, unserialized, kind, content, flags, scanLink, gcActive,
                     serializer, strings, aots, named, after, collected, call>>
      /\ ~ShuttingDown /\ ~ShuttingDown'
  BY DEF IInv, PhaseInv, CallInv, Creating, WriteObjects, heapVars, graphVars, tableVars, callVars,
         ShuttingDown, Sweeping
<1>2. TypeOK'
  BY <1>1 DEF IInv, TypeOK
<1>3. PhaseInv'
  BY <1>1 DEF PhaseInv, Sweeping
<1>4. CallInv'
  BY <1>1 DEF IInv, CallInv, Creating, NoCall
<1>5. AliveInv'
  BY <1>1 DEF IInv, AliveInv, AllRefs
<1>6. TableInv'
  BY <1>1 DEF IInv, TableInv, IsMarked
<1>7. InternInv'
  BY <1>1 DEF IInv, InternInv, IsMarked
<1>8. QED
  BY <1>1, <1>2, <1>3, <1>4, <1>5, <1>6, <1>7
     DEF IInv, ListInv, MarkInv, FullInv, Sweeping, Collecting

\* Shutdown condemns everything, and promises nothing about references.
LEMMA ShutdownPreserves ==
  ASSUME IInv, Shutdown
  PROVE  IInv'
<1>1. /\ pc = "idle" /\ pc' = "strings" /\ after' = "down" /\ call = NoCall /\ ShuttingDown'
      /\ UNCHANGED <<live, counted, refs, unserialized, kind, content, gcActive,
                     serializer, strings, aots, named, collected, call, created>>
  BY DEF IInv, PhaseInv, CallInv, Creating, Shutdown, heapVars, tableVars, Idle, ShuttingDown, Sweeping
<1>2. /\ flags' = [o \in Objects |-> flags[o] \ {"GCMarkOnAssign", "GraphScanned", "GraphMarked"}]
      /\ scanLink' = [o \in Objects |-> IF o \in live THEN "unmarked" ELSE "none"]
  BY DEF Shutdown
<1>3. TypeOK'
  BY <1>1, <1>2 DEF IInv, TypeOK, Flags
<1>4. PhaseInv'
  BY <1>1 DEF PhaseInv, Sweeping
<1>5. CallInv'
  BY <1>1 DEF CallInv, Creating, NoCall
<1>6. AliveInv'
  BY <1>1, <1>2 DEF IInv, AliveInv, AllRefs
<1>7. ListInv'
  BY <1>1, <1>2 DEF IInv, TypeOK, ListInv, IsMarked
<1>8. TableInv' /\ InternInv'
  BY <1>1 DEF TableInv, InternInv
<1>9. QED
  BY <1>1, <1>3, <1>4, <1>5, <1>6, <1>7, <1>8 DEF IInv, MarkInv, FullInv, Collecting

-----------------------------------------------------------------------------
(***************************************************************************)
(* The invariant holds.                                                    *)
(***************************************************************************)

\* A new object manager satisfies the invariant.
LEMMA InitEstablishes == Init => IInv
<1> SUFFICES ASSUME Init PROVE IInv
  OBVIOUS
<1>1. TypeOK
  <2>1. /\ counted \in [Objects -> 0..(MaxCounted + 1)]
        /\ kind \in [Objects -> Kinds]
        /\ call \in [op : Kinds, arg : Contents \cup Types \cup {Null}, str : Objects \cup {Null}]
        /\ strings \in [Contents -> [k : Objects \cup {Null}, v : Objects \cup {Null}]]
    BY HeapAssumption DEF Init, NoEntry, NoCall, Kinds
  <2>2. /\ flags \in [Objects -> SUBSET Flags]
        /\ refs \in [Objects -> SUBSET Objects]
        /\ unserialized \in [Objects -> SUBSET Objects]
    BY DEF Init
  <2>3. QED
    BY <2>1, <2>2 DEF Init, TypeOK
<1>2. PhaseInv /\ CallInv
  BY DEF Init, PhaseInv, CallInv, Sweeping, Creating, NoCall
<1>3. AliveInv /\ TableInv /\ InternInv
  BY DEF Init, AliveInv, TableInv, InternInv, AllRefs, NoEntry
<1>4. QED
  BY <1>1, <1>2, <1>3 DEF Init, IInv, ListInv, MarkInv, FullInv, Sweeping, Collecting

\* At rest, what native code can look up is alive.
LEMMA IdleAlive ==
  ASSUME IInv, Idle
  PROVE  /\ \A o \in Objects : (counted[o] > 0 => o \in live) /\ AllRefs(o) \subseteq live
         /\ \A c \in Contents : strings[c].v # Null => strings[c].v \in live
         /\ \A t \in Types : aots[t] # Null => aots[t] \in live
         /\ \A n \in Names : named[n] # Null => named[n] \in live
<1>1. ~ShuttingDown
  BY DEF IInv, PhaseInv, ShuttingDown, Idle, Sweeping
<1>2. QED
  BY <1>1 DEF IInv, AliveInv, TableInv

\* Every operation that native code can start preserves the invariant.
LEMMA ClientStepPreserves ==
  ASSUME IInv, ClientStep
  PROVE  IInv'
<1>1. ASSUME NEW x \in Objects, NEW o \in Objects, LoadRef(x, o) PROVE IInv'
  BY <1>1, IdleAlive, GainPreserves DEF LoadRef, IInv, TypeOK
<1>2. ASSUME NEW x \in Objects, NEW o \in Objects, AssignRef(x, o) PROVE IInv'
  BY <1>2, AssignRefPreserves
<1>3. ASSUME NEW x \in Objects, NEW o \in Objects, ClearRef(x, o) PROVE IInv'
  BY <1>3, ClearRefPreserves
<1>4. ASSUME NEW o \in Objects, DropRef(o) PROVE IInv'
  BY <1>4, DropRefPreserves
<1>5. ASSUME NEW o \in Objects, NextLiveObject(o) PROVE IInv'
  BY <1>5, GainPreserves DEF NextLiveObject
<1>6. ASSUME NEW o \in Objects, SaveObject(o) PROVE IInv'
  BY <1>6, SaveObjectPreserves
<1>7. ASSUME NEW n \in Names, Lookup(n) PROVE IInv'
  BY <1>7, IdleAlive, GainPreserves DEF Lookup
<1>8. ASSUME NEW n \in Names, NEW o \in Objects, Register(n, o) PROVE IInv'
  BY <1>8, RegisterPreserves
<1>9. ASSUME NEW n \in PackageNames, SavePackage(n) PROVE IInv'
  BY <1>9, SavePackagePreserves
<1>10. ASSUME NEW c \in Contents, FindString(c) PROVE IInv'
  BY <1>10, IdleAlive, GainPreserves DEF FindString
<1>11. ASSUME NEW c \in Contents, CreateString(c) PROVE IInv'
  BY <1>11, CreateStringPreserves
<1>12. ASSUME NEW t \in Types, FindArrayType(t) PROVE IInv'
  BY <1>12, IdleAlive, GainPreserves DEF FindArrayType
<1>13. ASSUME NEW t \in Types, CreateArrayType(t) PROVE IInv'
  BY <1>13, CreateArrayTypePreserves
<1>14. QED
  BY <1>1, <1>2, <1>3, <1>4, <1>5, <1>6, <1>7, <1>8, <1>9, <1>10, <1>11, <1>12, <1>13,
     CreateObjectPreserves, ShutdownPreserves DEF ClientStep

\* Every step of an operation under way preserves the invariant.
LEMMA SystemStepPreserves ==
  ASSUME IInv, SystemStep
  PROVE  IInv'
BY ScanObjectPreserves, EndGraphPreserves, SweepStringsPreserves, SweepArrayTypesPreserves,
   SweepSymbolsPreserves, SweepPackagesPreserves, ReleaseCondemnedPreserves, AllocatePreserves,
   CollectAndRetryPreserves, AllocationFailsPreserves, ReturnObjectPreserves,
   ConstructKeyPreserves, InsertFailsPreserves, FillStringPreserves, FillArrayTypePreserves,
   CreateFailsPreserves, SavePackageFilePreserves, WriteObjectsPreserves
   DEF SystemStep

\* Doing nothing preserves the invariant.
LEMMA StutterPreserves ==
  ASSUME IInv, UNCHANGED vars
  PROVE  IInv'
<1>1. UNCHANGED <<live, counted, refs, unserialized, kind, content, flags, scanLink, gcActive,
                  serializer, strings, aots, named, pc, after, collected, call, created>>
  BY DEF vars, heapVars, graphVars, tableVars, callVars
<1>2. Reachable' = Reachable /\ Roots' = Roots
  BY ReachableUnchanged DEF vars
<1>3. TypeOK' /\ PhaseInv' /\ CallInv' /\ AliveInv'
  BY <1>1 DEF IInv, TypeOK, PhaseInv, CallInv, AliveInv, AllRefs, ShuttingDown, Sweeping, Creating
<1>4. ListInv' /\ TableInv' /\ InternInv' /\ FullInv'
  BY <1>1, <1>2 DEF IInv, ListInv, TableInv, InternInv, FullInv, ShuttingDown, Sweeping, IsMarked
<1>5. MarkInv'
  <2>1. \A o : AllRefs(o)' = AllRefs(o) /\ (IsMarked(o)' <=> IsMarked(o))
    BY <1>1 DEF AllRefs, IsMarked
  <2>2. Collecting' <=> Collecting
    BY <1>1 DEF Collecting, Sweeping
  <2>3. QED
    BY <1>1, <1>2, <2>1, <2>2 DEF IInv, MarkInv
<1>6. QED
  BY <1>3, <1>4, <1>5 DEF IInv

\* The inductive invariant holds in every state of every behavior.
THEOREM Invariance == Spec => []IInv
<1>1. IInv /\ [Next]_vars => IInv'
  BY ClientStepPreserves, SystemStepPreserves, StutterPreserves DEF Next
<1>2. QED
  BY InitEstablishes, <1>1, PTL DEF Spec

-----------------------------------------------------------------------------
(***************************************************************************)
(* What follows from it.                                                   *)
(***************************************************************************)

\* Every variable has its type; no reference count underflows.
THEOREM TypeCorrect == Spec => []TypeOK
<1>1. IInv => TypeOK
  BY DEF IInv
<1>2. QED
  BY Invariance, <1>1, PTL

\* Until Shutdown, no reference, counted or traced, refers to an object that
\* was released.
THEOREM NoDanglingReferences == Spec => []ReferencesAlive
<1>1. IInv => ReferencesAlive
  BY DEF IInv, TypeOK, AliveInv, ReferencesAlive
<1>2. QED
  BY Invariance, <1>1, PTL

\* Whenever native code can look something up, the tables refer to live objects.
THEOREM NoDanglingEntries == Spec => []TablesAlive
<1>1. IInv => TablesAlive
  BY DEF IInv, PhaseInv, TableInv, TablesAlive, ShuttingDown, Sweeping
<1>2. QED
  BY Invariance, <1>1, PTL

\* No two live strings have the same content, and no two live array types the
\* same element type.
THEOREM InterningExact == Spec => []InternedOnce
<1>1. IInv => InternedOnce
  BY DEF IInv, InternInv, InternedOnce
<1>2. QED
  BY Invariance, <1>1, PTL

\* A saved graph is closed under the references that are saved.
THEOREM SavedGraphClosed == Spec => []SaveIsClosed
<1>1. ASSUME IInv, pc = "write", NEW o \in Objects, scanLink[o] = "scanned",
             "External" \notin flags[o], NEW r \in refs[o]
      PROVE  scanLink[r] = "scanned"
  <2>1. r \in live /\ r \in Objects
    BY <1>1 DEF IInv, TypeOK, PhaseInv, AliveInv, AllRefs, ShuttingDown, Sweeping
  <2>2. IsMarked(r)
    BY <1>1 DEF IInv, PhaseInv, MarkInv
  <2>3. QED
    BY <1>1, <2>1, <2>2 DEF IInv, TypeOK, ListInv
<1>2. IInv => SaveIsClosed
  BY <1>1 DEF SaveIsClosed
<1>3. QED
  BY Invariance, <1>2, PTL

\* A collection releases exactly what cannot be reached from counted references.
THEOREM CollectionExact == Spec => CollectsGarbage
<1>1. ASSUME IInv, [Next]_vars, pc = "release", after # "down", ~UNCHANGED vars
      PROVE  live' = Reachable
  <2>1. ReleaseCondemned
    BY <1>1 DEF Next, SystemStep, ClientStep, ScanObject, EndGraph, SweepStrings, SweepArrayTypes,
       SweepSymbols, SweepPackages, Allocate, CollectAndRetry, AllocationFails, ReturnObject,
       ConstructKey, InsertFails, FillString, FillArrayType, CreateFails, SavePackageFile,
       WriteObjects, LoadRef, AssignRef, ClearRef, DropRef, NextLiveObject, SaveObject, Lookup,
       Register, SavePackage, CreateObject, FindString, CreateString, FindArrayType,
       CreateArrayType, Shutdown, Idle
  <2>2. QED
    BY <1>1, <2>1, ReleaseLeavesReachable
<1>2. IInv /\ [Next]_vars => [pc = "release" /\ after # "down" => live' = Reachable]_vars
  BY <1>1
<1>3. QED
  BY Invariance, <1>2, PTL DEF Spec, CollectsGarbage

\* Creating an object fails only if everything in memory is in use.
THEOREM FailureMeansFull == Spec => FailsOnlyWhenFull
<1>1. ASSUME IInv, [Next]_vars, pc = "allocate", pc' = "failed"
      PROVE  Reachable = Objects
  <2>1. AllocationFails
    BY <1>1 DEF Next, SystemStep, ClientStep, ScanObject, EndGraph, SweepStrings, SweepArrayTypes,
       SweepSymbols, SweepPackages, ReleaseCondemned, Allocate, CollectAndRetry, ReturnObject,
       ConstructKey, InsertFails, FillString, FillArrayType, CreateFails, SavePackageFile,
       WriteObjects, LoadRef, AssignRef, ClearRef, DropRef, NextLiveObject, SaveObject, Lookup,
       Register, SavePackage, CreateObject, FindString, CreateString, FindArrayType,
       CreateArrayType, Shutdown, Idle, CollectGarbage, StartGraphing, vars
  <2>2. QED
    BY <1>1, <2>1 DEF AllocationFails, IInv, FullInv
<1>2. IInv /\ [Next]_vars => [pc = "allocate" /\ pc' = "failed" => Reachable = Objects]_vars
  BY <1>1
<1>3. QED
  BY Invariance, <1>2, PTL DEF Spec, FailsOnlyWhenFull
=============================================================================
