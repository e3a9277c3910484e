----------------------------- MODULE PackageLoad -----------------------------
(***************************************************************************)
(* Loading packages (rdx_objectmanager.cpp, rdx_serialize.cpp).            *)
(*                                                                         *)
(* A package file lists the symbols it defines, the symbols it imports and *)
(* the array types it uses.  LoadPackage reads the list of a package and   *)
(* of every package it imports from, then works through all of them        *)
(* together: it creates the objects whose types are known, round after     *)
(* round, reads the critical ones (types and what they consist of), lays   *)
(* the types out, creates and reads the rest, and validates the types.     *)
(*                                                                         *)
(* Every one of these steps allocates, so it may fail for want of memory,  *)
(* and it may collect garbage, which drops packages and symbols that       *)
(* nothing refers to from the weak tables m_packages and m_gst.            *)
(***************************************************************************)
EXTENDS Integers, Sequences, FiniteSets

CONSTANTS
  Packages,     \* the addresses package objects can have
  BuiltIn,      \* where the built-in objects are
  NumBuiltIns,  \* how many there are
  Null,         \* the null reference; no name, in a file
  Domains,      \* the domains packages have
  CoreDomain,   \* the domain of the built-in objects
  Runtime,      \* the domain of files written by SaveObject
  DomainOf,     \* the domain of each global name
  Duplicables,  \* the names that several packages may define
  Files,        \* the file of each domain, see below
  MaxLocals,    \* bound on the symbols that a file defines
  MaxHeld,      \* bound on the references that native code holds
  Critical,     \* the types flagged GCOF_Critical
  CriticalBorder  \* the types flagged GCOF_CriticalBorder

Names == DOMAIN DomainOf

(***************************************************************************)
(* A file is a record of                                                   *)
(*   locals   the symbols it defines: each has a name (Null if it is       *)
(*            anonymous), the reference to its type, the references it     *)
(*            contains (fields), and, if it is a type, which of its fields *)
(*            have to be laid out before it (layout), whether its          *)
(*            instances start as zeros (zeroFill), are values (value), the *)
(*            number of the local symbol that is its default (default, or  *)
(*            0) and whether ValidateStructure accepts it (valid).  The    *)
(*            property list of a type is a symbol of its own in a real     *)
(*            file; what it refers to counts among the fields here;        *)
(*   imports  the names it imports;                                        *)
(*   arrays   the references to the element types of its array types.      *)
(* A reference is <<"local", k>>, <<"import", k>> or <<"array", k>>.       *)
(* The file of the core domain begins with the built-in objects, which are *)
(* there before any package is loaded.                                     *)
(***************************************************************************)
Local(d, k) == Files[d].locals[k]

\* An object is known by the package that defines it and its number there.
Objects == (Packages \cup {BuiltIn}) \X (1..MaxLocals)

BuiltIns == {BuiltIn} \X (1..NumBuiltIns)

ArrayType(element) == <<"array", element>>

IsArrayType(t) == t[1] = "array"

TypeType == <<BuiltIn, 1>>

ASSUME PackageAssumption ==
  /\ IsFiniteSet(Packages) /\ BuiltIn \notin Packages
  /\ "array" \notin Packages \cup {BuiltIn}
  /\ Null \notin Packages \cup Objects \cup Names \cup Domains \cup Critical
  /\ MaxLocals \in Nat /\ MaxHeld \in Nat
  /\ CoreDomain \in DOMAIN Files /\ DOMAIN Files \subseteq Domains
  /\ Duplicables \subseteq Names

\* ref is a reference that the file of the domain d can contain.
IsReference(ref, d) ==
  \/ ref[1] = "local" /\ ref[2] \in DOMAIN Files[d].locals
  \/ ref[1] = "import" /\ ref[2] \in DOMAIN Files[d].imports
  \/ ref[1] = "array" /\ ref[2] \in DOMAIN Files[d].arrays

\* A file names no symbol twice, and gives a symbol a name of its own domain
\* unless other files may define it too.
ASSUME FileAssumption ==
  /\ NumBuiltIns \in Nat \ {0} /\ 1..NumBuiltIns \subseteq DOMAIN Files[CoreDomain].locals
  /\ \A d \in DOMAIN Files :
       /\ DOMAIN Files[d].locals \subseteq 1..MaxLocals
       /\ \A i \in DOMAIN Files[d].imports : Files[d].imports[i] \in Names
       /\ \A k \in DOMAIN Files[d].locals :
            LET name == Local(d, k).name
            IN /\ IsReference(Local(d, k).type, d)
               /\ name \in Names \cup {Null}
               /\ name \notin Duplicables \cup {Null} =>
                    /\ DomainOf[name] = d
                    /\ \A j \in DOMAIN Files[d].locals : Local(d, j).name = name => j = k

\* The built-in objects are types that only the core file defines; the critical
\* types are some of them and arrays of them (InitializeBuiltInTypes).
ASSUME BuiltInAssumption ==
  /\ \A k \in 1..NumBuiltIns : /\ Local(CoreDomain, k).name \notin Duplicables \cup {Null}
                               /\ Local(CoreDomain, k).type = <<"local", 1>>
  /\ Critical \subseteq BuiltIns \cup {ArrayType(o) : o \in BuiltIns}

VARIABLES
  pkg,       \* the package objects
  obj,       \* the objects that packages define
  packages,  \* m_packages
  gst,       \* m_gst
  held,      \* what native code holds counted references to
  unloaded,  \* m_unloadedPackages
  phase,     \* where LoadPackage is
  cursor,    \* how far the loop over all symbols of all unloaded packages is
  round,     \* what that loop has found out
  request,   \* what LoadPackage was called for
  result,    \* the package it will return
  outcome    \* how the last call ended

vars == <<pkg, obj, packages, gst, held, unloaded, phase, cursor, round, request,
          result, outcome>>

NoPackage == [domain |-> Null, pending |-> FALSE, first |-> Null,
              locals |-> <<>>, imports |-> <<>>, arrays |-> <<>>]

NoObject == [of |-> Null, type |-> Null, unread |-> FALSE, fields |-> <<>>,
             package |-> Null, stage |-> "none"]

NoRequest == [op |-> "none", domain |-> Null, name |-> Null, disturbed |-> FALSE]

\* Before the first slot of a loop.
Beginning == <<0, 0>>

NoRound == [more |-> FALSE, defer |-> FALSE, any |-> FALSE]

Live(o) == obj[o].of # Null

SymbolOf(o) == Local(obj[o].of, o[2])

-----------------------------------------------------------------------------
(***************************************************************************)
(* Garbage collection, see ObjectHeap.                                     *)
(***************************************************************************)

Elements(s) == {s[i] : i \in DOMAIN s}

References(x) ==
  (IF x \in Packages
   THEN {pkg[x].first} \cup {s.type : s \in Elements(pkg[x].locals)}
          \cup {s.object : s \in Elements(pkg[x].locals)}
          \cup Elements(pkg[x].imports) \cup Elements(pkg[x].arrays)
   ELSE IF IsArrayType(x) THEN {x[2]}
   ELSE {obj[x].type, obj[x].package} \cup Elements(obj[x].fields)) \ {Null}

Roots == BuiltIns \cup held \cup Elements(unloaded) \cup ({result} \ {Null})

Reached[n \in Nat] ==
  IF n = 0 THEN Roots ELSE UNION {{x} \cup References(x) : x \in Reached[n - 1]}

Marked == Reached[Cardinality(Packages) * (MaxLocals + 1)]

\* The collector has marked the roots and worked off all that it has marked.
MarkingEnds(marked) == Roots \subseteq marked /\ \A x \in marked : References(x) \subseteq marked

Swept(ref, marked) == IF ref \in marked THEN ref ELSE Null

Sweep(marked) ==
  /\ pkg' = [p \in Packages |-> IF p \in marked THEN pkg[p] ELSE NoPackage]
  /\ obj' = [o \in Objects |-> IF o \in marked THEN obj[o] ELSE NoObject]
  /\ packages' = [d \in Domains |-> Swept(packages[d], marked)]

\* Faulty variant: the table of symbols is not swept.
SweepSymbolsNot(marked) == gst' = gst

SweepSymbols(marked) == gst' = [n \in Names |-> Swept(gst[n], marked)]

\* A collection inside an allocation, which releases the objects that are not
\* marked and sweeps the tables.
CollectGarbage ==
  /\ phase \notin {"import critical", "import"}
  /\ \E marked \in {Marked} : MarkingEnds(marked) /\ Sweep(marked) /\ SweepSymbols(marked)
  /\ request' = [request EXCEPT !.disturbed =
       @ \/ (phase # "idle" /\ (packages' # packages \/ gst' # gst))]
  /\ UNCHANGED <<held, unloaded, phase, cursor, round, result, outcome>>

-----------------------------------------------------------------------------
(***************************************************************************)
(* How a call of LoadPackage, LookupSymbol or LoadObject starts and ends.  *)
(***************************************************************************)

Idle == phase = "idle"

Start(op, d, n) ==
  /\ Idle
  /\ Cardinality(held) < MaxHeld
  /\ request' = [op |-> op, domain |-> d, name |-> n, disturbed |-> FALSE]
  /\ phase' = "open"
  /\ outcome' = "none"
  /\ UNCHANGED <<pkg, obj, packages, gst, held, unloaded, cursor, round, result>>

LoadPackage(d) == d # Runtime /\ Start("load", d, Null)

LoadObject == Start("object", Runtime, Null)

\* LookupSymbol of a name that is not in the table loads its package.
LookupSymbol(n) ==
  IF gst[n] # Null
  THEN /\ Idle
       /\ Cardinality(held) < MaxHeld
       /\ held' = held \cup {gst[n]}
       /\ outcome' = "none"
       /\ UNCHANGED <<pkg, obj, packages, gst, unloaded, phase, cursor, round, request, result>>
  ELSE DomainOf[n] \in Domains /\ Start("lookup", DomainOf[n], n)

DropRef(x) ==
  /\ Idle
  /\ x \in held
  /\ held' = held \ {x}
  /\ outcome' = "none"
  /\ UNCHANGED <<pkg, obj, packages, gst, unloaded, phase, cursor, round, request, result>>

End(how) ==
  /\ phase' = "idle"
  /\ outcome' = how
  /\ cursor' = Beginning
  /\ round' = NoRound
  /\ request' = NoRequest
  /\ result' = Null

\* Faulty variant: the list of unloaded packages is not evicted.
ThrowKeepingList(error) ==
  /\ End(error)
  /\ UNCHANGED <<pkg, obj, packages, gst, held, unloaded>>

\* An exception leaves LoadPackage, which evicts its lists.
Throw(error) ==
  /\ End(error)
  /\ unloaded' = <<>>
  /\ UNCHANGED <<pkg, obj, packages, gst, held>>

AllocationFails == phase \notin {"idle", "import critical", "import"} /\ Throw("memory")

EnterPhase(next) == phase' = next /\ cursor' = Beginning /\ round' = NoRound

-----------------------------------------------------------------------------
(***************************************************************************)
(* LoadSinglePackage: read the list of symbols of a package.               *)
(***************************************************************************)

NewLocal == [type |-> Null, object |-> Null, checked |-> FALSE, duplicate |-> FALSE]

Nulls(s) == [i \in DOMAIN s |-> Null]

NewPackage(d) ==
  [NoPackage EXCEPT !.domain = d,
                    !.pending = TRUE,
                    !.locals = [k \in DOMAIN Files[d].locals |-> NewLocal],
                    !.imports = Nulls(Files[d].imports),
                    !.arrays = Nulls(Files[d].arrays)]

Unused(p) == pkg[p] = NoPackage /\ \A k \in 1..MaxLocals : obj[<<p, k>>] = NoObject

DeserializePackage(d, p) ==
  /\ packages[d] = Null
  /\ d \in DOMAIN Files
  /\ Unused(p)
  /\ pkg' = [pkg EXCEPT ![p] = NewPackage(d)]
  /\ packages' = [packages EXCEPT ![d] = p]
  /\ unloaded' = Append(unloaded, p)

\* The loops over all symbols, or all imports, of all unloaded packages.  The
\* cursor is where the loop was last.
LocalSlots ==
  UNION {{<<i, k>> : k \in DOMAIN pkg[unloaded[i]].locals} : i \in DOMAIN unloaded}

ImportSlots ==
  UNION {{<<i, k>> : k \in DOMAIN pkg[unloaded[i]].imports} : i \in DOMAIN unloaded}

Before(a, b) == a[1] < b[1] \/ (a[1] = b[1] /\ a[2] < b[2])

IsNext(c, slots) ==
  /\ c \in slots
  /\ Before(cursor, c)
  /\ \A b \in slots : Before(cursor, b) => b = c \/ Before(c, b)

LoopEnds(slots) == \A c \in slots : ~Before(cursor, c)

ImportOf(c) == Files[pkg[unloaded[c[1]]].domain].imports[c[2]]

\* The package that LoadPackage itself was called for: the list of its
\* symbols is read unless it is in the table.
OpenPackage(p) ==
  /\ phase = "open"
  /\ \/ p = packages[request.domain] /\ UNCHANGED <<pkg, packages, unloaded>>
     \/ DeserializePackage(request.domain, p)
  /\ result' = p
  /\ EnterPhase("dependencies")
  /\ UNCHANGED <<obj, gst, held, request, outcome>>

\* The package that the next import comes from.
OpenDependency(c, p) ==
  /\ phase = "dependencies"
  /\ IsNext(c, ImportSlots)
  /\ LET d == DomainOf[ImportOf(c)]
     IN \/ p = packages[d] /\ UNCHANGED <<pkg, packages, unloaded>>
        \/ DeserializePackage(d, p)
  /\ cursor' = c
  /\ UNCHANGED <<obj, gst, held, phase, round, request, result, outcome>>

DependenciesOpen ==
  /\ phase = "dependencies"
  /\ LoopEnds(ImportSlots)
  /\ EnterPhase("create critical")
  /\ UNCHANGED <<pkg, obj, packages, gst, held, unloaded, request, result, outcome>>

\* The domain whose package is to be opened next.
Opening(d) ==
  \/ phase = "open" /\ d = request.domain
  \/ /\ phase = "dependencies"
     /\ \E c \in ImportSlots : IsNext(c, ImportSlots) /\ d = DomainOf[ImportOf(c)]

FileMissing(d) ==
  /\ Opening(d)
  /\ packages[d] = Null
  /\ d \notin DOMAIN Files
  /\ Throw("corrupted")

\* There is no memory for the package.
PackageAllocationFails(d) ==
  /\ Opening(d)
  /\ packages[d] = Null /\ d \in DOMAIN Files
  /\ \A p \in Packages : ~Unused(p)
  /\ Throw("memory")

\* Memory runs out when the package is in the table and not yet on the list.
AddUnloadedPackageFails(d, p) ==
  /\ Opening(d)
  /\ packages[d] = Null /\ d \in DOMAIN Files /\ Unused(p)
  /\ pkg' = [pkg EXCEPT ![p] = NewPackage(d)]
  /\ packages' = [packages EXCEPT ![d] = p]
  /\ unloaded' = <<>>
  /\ End("memory")
  /\ UNCHANGED <<obj, gst, held>>

-----------------------------------------------------------------------------
(***************************************************************************)
(* CreateInitialObjects: resolve the types of symbols, recognise those     *)
(* that exist already, and create the objects of the others.               *)
(***************************************************************************)

\* ConvertToReference.
Resolve(p, ref) ==
  CASE ref[1] = "local"  -> pkg[p].locals[ref[2]].object
    [] ref[1] = "import" -> pkg[p].imports[ref[2]]
    [] ref[1] = "array"  -> pkg[p].arrays[ref[2]]

IsType(x) == IF IsArrayType(x) THEN TRUE ELSE obj[x].type = TypeType

\* The type is not flagged GCOF_Unloaded.
TypeIsRead(t) == IsArrayType(t) \/ ~obj[t].unread

CriticalOnly == phase \in {"create critical", "create arrays"}

\* What the next symbol of the loop is: its place, its definition in the file
\* and what is known of it.
Here(c) ==
  LET p == unloaded[c[1]]
  IN [p |-> p, k |-> c[2], file |-> Local(pkg[p].domain, c[2]), is |-> pkg[p].locals[c[2]]]

TypeHere(h) == IF h.is.type # Null THEN h.is.type ELSE Resolve(h.p, h.file.type)

\* Faulty variant: only objects of other packages are recognised.
DuplicateHereElsewhere(h) ==
  /\ h.is.object = Null
  /\ ~h.is.checked
  /\ h.file.name # Null
  /\ gst[h.file.name] # Null
  /\ packages[DomainOf[h.file.name]] \notin {Null, h.p}

DuplicateHere(h) ==
  /\ h.is.object = Null
  /\ ~h.is.checked
  /\ h.file.name # Null
  /\ gst[h.file.name] # Null

\* GCOF_Duplicable, or a name of the domain of duplicable objects.
MayDuplicate(h) == h.file.name \in Duplicables \/ gst[h.file.name] \in BuiltIns

TypeReady(h) == TypeHere(h) # Null /\ TypeIsRead(TypeHere(h))

CreatesHere(h) ==
  /\ h.is.object = Null
  /\ ~DuplicateHere(h)
  /\ TypeReady(h)
  /\ ~CriticalOnly \/ TypeHere(h) \in Critical \cup CriticalBorder

\* The elements of an array of this type have a size.
HasElementSize(t) ==
  t[2] \in Objects /\ SymbolOf(t[2]).value => obj[t[2]].stage # "none"

\* Faulty variant: symbols that cannot be created are left out.
ErrorHereLenient(h) ==
  IF h.is.type = Null /\ TypeHere(h) # Null /\ ~IsType(TypeHere(h)) THEN "corrupted"
  ELSE IF DuplicateHere(h) /\ ~MayDuplicate(h) THEN "collision"
  ELSE "none"

ErrorHere(h) ==
  IF h.is.type = Null /\ TypeHere(h) # Null /\ ~IsType(TypeHere(h)) THEN "corrupted"
  ELSE IF TypeHere(h) = Null /\ ~CriticalOnly THEN "unresolved"
  ELSE IF DuplicateHere(h) /\ ~MayDuplicate(h) THEN "collision"
  ELSE IF h.is.object = Null /\ ~CriticalOnly /\ (DuplicateHere(h) \/ ~TypeReady(h))
       THEN "corrupted"
  ELSE IF CreatesHere(h) /\ IsArrayType(TypeHere(h)) /\ ~HasElementSize(TypeHere(h))
       THEN "corrupted"
  ELSE "none"

InitialObject(h) ==
  [NoObject EXCEPT !.of = pkg[h.p].domain, !.type = TypeHere(h), !.unread = TRUE]

CreateInitialObject(c) ==
  /\ phase \in {"create critical", "create arrays", "create"}
  /\ IsNext(c, LocalSlots)
  /\ LET h == Here(c)
         o == <<h.p, h.k>>
         object == IF DuplicateHere(h) THEN gst[h.file.name]
                   ELSE IF CreatesHere(h) THEN o ELSE h.is.object
     IN /\ ErrorHere(h) = "none"
        /\ pkg' = [pkg EXCEPT ![h.p].locals[h.k] =
             [type |-> TypeHere(h), object |-> object,
              checked |-> h.is.checked \/ h.is.object = Null,
              duplicate |-> h.is.duplicate \/ DuplicateHere(h)]]
        /\ obj' = IF CreatesHere(h) THEN [obj EXCEPT ![o] = InitialObject(h)] ELSE obj
        /\ round' = [round EXCEPT !.more =
             @ \/ TypeHere(h) # h.is.type \/ object # h.is.object]
  /\ cursor' = c
  /\ UNCHANGED <<packages, gst, held, unloaded, phase, request, result, outcome>>

CreateInitialObjectFails(c) ==
  /\ phase \in {"create critical", "create arrays", "create"}
  /\ IsNext(c, LocalSlots)
  /\ ErrorHere(Here(c)) # "none"
  /\ Throw(ErrorHere(Here(c)))

ObjectsCreated ==
  /\ LoopEnds(LocalSlots)
  /\ \/ /\ phase = "create critical"
        /\ phase' = "import critical"
        /\ cursor' = Beginning
        /\ UNCHANGED round
     \/ phase = "create arrays" /\ EnterPhase("read critical")
     \/ phase = "create" /\ EnterPhase("import")
  /\ UNCHANGED <<pkg, obj, packages, gst, held, unloaded, request, result, outcome>>

-----------------------------------------------------------------------------
(***************************************************************************)
(* ResolveImports and GeneratePackageArrayDefs.                            *)
(***************************************************************************)

\* The symbols of unloaded packages that ImportPackageObject finds.
Exports(n) ==
  {c \in LocalSlots : /\ pkg[unloaded[c[1]]].domain = DomainOf[n]
                      /\ Local(DomainOf[n], c[2]).name = n}

Found(n) == gst[n] # Null \/ Exports(n) # {}

\* Faulty variant: packages that are being loaded are not looked into.
ImportPackageObjectRead(n) == gst[n]

\* The object found may be Null: the symbol is known, but not yet created.
ImportPackageObject(n) ==
  IF gst[n] # Null THEN gst[n]
  ELSE IF Exports(n) = {} THEN Null
  ELSE LET c == CHOOSE c \in Exports(n) : \A b \in Exports(n) : b = c \/ Before(c, b)
       IN pkg[unloaded[c[1]]].locals[c[2]].object

Resolved(p) ==
  [i \in DOMAIN pkg[p].imports |->
     IF pkg[p].imports[i] # Null THEN pkg[p].imports[i]
     ELSE ImportPackageObject(Files[pkg[p].domain].imports[i])]

AllResolved ==
  \A c \in ImportSlots : pkg[unloaded[c[1]]].imports[c[2]] # Null \/ Found(ImportOf(c))

ResolveImports ==
  /\ phase \in {"import critical", "import"}
  /\ phase = "import" => AllResolved
  /\ pkg' = [p \in Packages |-> IF p \in Elements(unloaded)
                                THEN [pkg[p] EXCEPT !.imports = Resolved(p)] ELSE pkg[p]]
  /\ EnterPhase(IF phase = "import" THEN "read"
                ELSE IF round.more THEN "create critical" ELSE "arrays")
  /\ UNCHANGED <<obj, packages, gst, held, unloaded, request, result, outcome>>

ImportsUnresolved == phase = "import" /\ ~AllResolved /\ Throw("unresolved")

ArraySlots ==
  UNION {{<<i, k>> : k \in DOMAIN pkg[unloaded[i]].arrays} : i \in DOMAIN unloaded}

ElementRef(c) == Files[pkg[unloaded[c[1]]].domain].arrays[c[2]]

ElementType(c) == Resolve(unloaded[c[1]], ElementRef(c))

\* An array type whose element type is known; those whose element type is an
\* array type of the list wait for it.
GenerateArrayDef(c) ==
  /\ phase = "arrays"
  /\ c \in ArraySlots
  /\ LET p == unloaded[c[1]]
     IN /\ pkg[p].arrays[c[2]] = Null
        /\ ElementType(c) # Null
        /\ IsType(ElementType(c))
        /\ pkg' = [pkg EXCEPT ![p].arrays[c[2]] = ArrayType(ElementType(c))]
  /\ UNCHANGED <<obj, packages, gst, held, unloaded, phase, cursor, round, request,
                 result, outcome>>

ArrayDefFails ==
  /\ phase = "arrays"
  /\ \/ /\ \E c \in ArraySlots : ElementRef(c)[1] # "array" /\ ElementType(c) = Null
        /\ Throw("unresolved")
     \/ /\ \E c \in ArraySlots : \/ ElementType(c) # Null /\ ~IsType(ElementType(c))
                                 \/ ElementRef(c) = <<"array", c[2]>>
        /\ Throw("corrupted")

ArrayDefsGenerated ==
  /\ phase = "arrays"
  /\ \A c \in ArraySlots : pkg[unloaded[c[1]]].arrays[c[2]] # Null
  /\ EnterPhase("create arrays")
  /\ UNCHANGED <<pkg, obj, packages, gst, held, unloaded, request, result, outcome>>

-----------------------------------------------------------------------------
(***************************************************************************)
(* LoadSymbolsOfCriticality and HardenStructures.                          *)
(***************************************************************************)

ReadingCritical == phase = "read critical"

IsStructuredType(o) == obj[o].type = TypeType

LayoutOf(o) == {obj[o].fields[f] : f \in SymbolOf(o).layout}

\* rdxCanDeserializeObject.
CanDeserialize(t) ==
  IF IsArrayType(t)
  THEN t[2] \in Objects /\ SymbolOf(t[2]).value => obj[t[2]].stage = "final"
  ELSE obj[t].stage = "final"

IsCritical(p, k) == pkg[p].locals[k].type \in Critical

\* The symbol has been created here and is not the duplicate of another.
IsOwn(s) == s.type # Null /\ s.object # Null /\ ~s.duplicate

Reading(c) ==
  /\ phase \in {"read critical", "read"}
  /\ IsNext(c, LocalSlots)
  /\ cursor' = c
  /\ UNCHANGED <<packages, held, unloaded, phase, request, result, outcome>>

ToBeRead(p, k) ==
  LET s == pkg[p].locals[k]
  IN IsOwn(s) /\ obj[s.object].unread /\ IsCritical(p, k) = ReadingCritical

\* rdxDeserializeObject fills the object in, AddGlobalSymbol makes it known.
\* A reference to what is not known yet is read as Null.
DeserializeObject(c) ==
  LET p == unloaded[c[1]]
      s == pkg[p].locals[c[2]]
      file == Local(pkg[p].domain, c[2])
  IN /\ Reading(c)
     /\ ToBeRead(p, c[2])
     /\ CanDeserialize(s.type)
     /\ obj' = [obj EXCEPT ![s.object] =
          [@ EXCEPT !.fields = [f \in DOMAIN file.fields |-> Resolve(p, file.fields[f])],
                    !.package = IF IsArrayType(s.type) \/ pkg[p].domain = Runtime
                                THEN Null ELSE p,
                    !.unread = FALSE]]
     /\ gst' = IF file.name = Null THEN gst ELSE [gst EXCEPT ![file.name] = s.object]
     /\ round' = [round EXCEPT !.any = TRUE]
     /\ UNCHANGED pkg

DeferObject(c) ==
  LET p == unloaded[c[1]]
  IN /\ Reading(c)
     /\ ToBeRead(p, c[2])
     /\ ~CanDeserialize(pkg[p].locals[c[2]].type)
     /\ round' = [round EXCEPT !.defer = TRUE]
     /\ UNCHANGED <<pkg, obj, gst>>

\* A type has been read, and what its instances start from is to be found.
ToBeDefaulted(p, k) ==
  LET s == pkg[p].locals[k]
  IN /\ IsOwn(s)
     /\ ~obj[s.object].unread
     /\ ~ReadingCritical
     /\ IsStructuredType(s.object)
     /\ obj[s.object].stage # "final"

\* Faulty variant: it is enough that the type is laid out.
DependenciesLaidOut(o) == obj[o].stage = "laid out"

DependenciesFinal(o) == \A t \in LayoutOf(o) \ {Null} : obj[t].stage = "final"

\* What the instances of a type contain has final defaults.
DefaultPossible(o) ==
  obj[o].stage = "dependencies" \/ (obj[o].stage = "laid out" /\ DependenciesFinal(o))

\* A default that has been read is refused, since no object is flagged as cloaked.
DefaultRefused(p, o) ==
  LET default == SymbolOf(o).default
  IN /\ DefaultPossible(o)
     /\ default # 0
     /\ ~obj[pkg[p].locals[default].object].unread

\* ResolveStructureDefault.
ResolveDefault(c) ==
  LET p == unloaded[c[1]]
      o == pkg[p].locals[c[2]].object
      default == SymbolOf(o).default
      goes == DefaultPossible(o)
  IN /\ Reading(c)
     /\ ToBeDefaulted(p, c[2])
     /\ ~DefaultRefused(p, o)
     /\ obj' = IF goes
               THEN [obj EXCEPT ![o].stage = IF default = 0 THEN "final" ELSE "dependencies"]
               ELSE obj
     /\ round' = [round EXCEPT !.defer = TRUE, !.any = @ \/ goes]
     /\ UNCHANGED <<pkg, gst>>

DefaultFails(c) ==
  LET p == unloaded[c[1]]
  IN /\ phase = "read"
     /\ IsNext(c, LocalSlots)
     /\ ToBeDefaulted(p, c[2])
     /\ DefaultRefused(p, pkg[p].locals[c[2]].object)
     /\ Throw("corrupted")

PassOver(c) ==
  LET p == unloaded[c[1]]
  IN /\ Reading(c)
     /\ ~ToBeRead(p, c[2])
     /\ ~ToBeDefaulted(p, c[2])
     /\ UNCHANGED <<pkg, obj, gst, round>>

\* Faulty variant: what was put off is never tried again.
ObjectsReadOnce ==
  /\ phase \in {"read critical", "read"}
  /\ LoopEnds(LocalSlots)
  /\ EnterPhase(IF ReadingCritical THEN "harden" ELSE "validate")
  /\ UNCHANGED <<pkg, obj, packages, gst, held, unloaded, request, result, outcome>>

\* Faulty variant: what was put off is tried again even if that does not help.
ObjectsReadAgain ==
  /\ phase \in {"read critical", "read"}
  /\ LoopEnds(LocalSlots)
  /\ EnterPhase(IF round.defer THEN phase ELSE IF ReadingCritical THEN "harden" ELSE "validate")
  /\ UNCHANGED <<pkg, obj, packages, gst, held, unloaded, request, result, outcome>>

\* Symbols that were put off are tried again, as long as that helps.
ObjectsRead ==
  /\ phase \in {"read critical", "read"}
  /\ LoopEnds(LocalSlots)
  /\ \/ /\ round.defer /\ round.any
        /\ EnterPhase(phase)
     \/ /\ ~round.defer
        /\ EnterPhase(IF ReadingCritical THEN "harden" ELSE "validate")
  /\ UNCHANGED <<pkg, obj, packages, gst, held, unloaded, request, result, outcome>>

\* Faulty variant: without a second pass over what was put off.
UnresolvableDependencyAtOnce ==
  /\ phase \in {"read critical", "read"}
  /\ LoopEnds(LocalSlots)
  /\ round.defer
  /\ Throw("corrupted")

UnresolvableDependency ==
  /\ phase \in {"read critical", "read"}
  /\ LoopEnds(LocalSlots)
  /\ round.defer /\ ~round.any
  /\ Throw("corrupted")

OwnTypes ==
  {o \in Objects : \E c \in LocalSlots :
     LET s == pkg[unloaded[c[1]]].locals[c[2]]
     IN s.object = o /\ ~s.duplicate /\ IsStructuredType(o)}

NewTypes == {o \in OwnTypes : obj[o].stage = "none"}

LaidOut[n \in Nat] ==
  IF n = 0 THEN {}
  ELSE {o \in NewTypes : \A t \in LayoutOf(o) :
          t # Null /\ (obj[t].stage # "none" \/ t \in LaidOut[n - 1])}

\* Types that consist of zeros need no default.
StageOnceLaidOut(o) ==
  IF SymbolOf(o).zeroFill /\ SymbolOf(o).default = 0 THEN "final" ELSE "laid out"

HardenStructures ==
  /\ phase = "harden"
  /\ LaidOut[Cardinality(Objects)] = NewTypes
  /\ obj' = [o \in Objects |->
       IF o \in NewTypes THEN [obj[o] EXCEPT !.stage = StageOnceLaidOut(o)] ELSE obj[o]]
  /\ EnterPhase("create")
  /\ UNCHANGED <<pkg, packages, gst, held, unloaded, request, result, outcome>>

\* ResolveStructure allocates; memory runs out when only some types, S, are laid out.
HardenStructuresInterrupted(S) ==
  /\ phase = "harden"
  /\ S \subseteq LaidOut[Cardinality(Objects)]
  /\ \A o \in S : \A t \in LayoutOf(o) : obj[t].stage # "none" \/ t \in S
  /\ obj' = [o \in Objects |->
       IF o \in S THEN [obj[o] EXCEPT !.stage = StageOnceLaidOut(o)] ELSE obj[o]]
  /\ unloaded' = <<>>
  /\ End("memory")
  /\ UNCHANGED <<pkg, packages, gst, held>>

HardenStructuresFails ==
  /\ phase = "harden"
  /\ LaidOut[Cardinality(Objects)] # NewTypes
  /\ Throw("corrupted")

-----------------------------------------------------------------------------
(***************************************************************************)
(* ValidateStructures and FinishPackageLoad.                               *)
(***************************************************************************)

\* Faulty variant: types that contain no other are passed over.
ValidateStructuresWithLayout ==
  /\ phase = "validate"
  /\ \A o \in OwnTypes : SymbolOf(o).layout # {} => SymbolOf(o).valid
  /\ EnterPhase("finish")
  /\ UNCHANGED <<pkg, obj, packages, gst, held, unloaded, request, result, outcome>>

ValidateStructures ==
  /\ phase = "validate"
  /\ \A o \in OwnTypes : SymbolOf(o).valid
  /\ EnterPhase("finish")
  /\ UNCHANGED <<pkg, obj, packages, gst, held, unloaded, request, result, outcome>>

ValidateStructuresFails ==
  /\ phase = "validate"
  /\ \E o \in OwnTypes : ~SymbolOf(o).valid
  /\ Throw("corrupted")

\* What a package still refers to once it is loaded.
Finished(p) ==
  [pkg[p] EXCEPT
     !.pending = FALSE,
     !.first = IF pkg[p].domain = Runtime /\ pkg[p].locals # <<>>
               THEN pkg[p].locals[1].object ELSE @,
     !.locals = [k \in DOMAIN pkg[p].locals |->
        IF Local(pkg[p].domain, k).name = Null
        THEN [pkg[p].locals[k] EXCEPT !.object = Null, !.type = Null]
        ELSE pkg[p].locals[k]],
     !.imports = Nulls(@)]

FinishedPackages ==
  [p \in Packages |-> IF p \in Elements(unloaded) THEN Finished(p) ELSE pkg[p]]

\* What LoadPackage, LookupSymbol and LoadObject return.
FinishPackageLoad ==
  /\ phase = "finish"
  /\ \/ /\ request.op = "load"
        /\ pkg' = FinishedPackages
        /\ held' = held \cup {result}
        /\ UNCHANGED packages
        /\ End("ok")
     \/ /\ request.op = "lookup"
        /\ pkg' = FinishedPackages
        /\ held' = held \cup ({gst[request.name]} \ {Null})
        /\ UNCHANGED packages
        /\ End("ok")
     \/ /\ request.op = "object"
        /\ packages' = [packages EXCEPT ![Runtime] = Null]
        /\ pkg' = [FinishedPackages EXCEPT ![result].first = Null]
        /\ held' = held \cup ({FinishedPackages[result].first} \ {Null})
        /\ End(IF pkg[result].locals = <<>> THEN "corrupted"
               ELSE IF FinishedPackages[result].first = Null THEN "nothing" ELSE "ok")
  /\ unloaded' = <<>>
  /\ UNCHANGED <<obj, gst>>

-----------------------------------------------------------------------------
BuiltInObject == [NoObject EXCEPT !.of = CoreDomain, !.type = TypeType, !.stage = "final"]

Init ==
  /\ pkg = [p \in Packages |-> NoPackage]
  /\ obj = [o \in Objects |-> IF o \in BuiltIns THEN BuiltInObject ELSE NoObject]
  /\ packages = [d \in Domains |-> Null]
  /\ gst = [n \in Names |->
       IF \E k \in 1..NumBuiltIns : Local(CoreDomain, k).name = n
       THEN <<BuiltIn, CHOOSE k \in 1..NumBuiltIns : Local(CoreDomain, k).name = n>>
       ELSE Null]
  /\ held = {}
  /\ unloaded = <<>>
  /\ phase = "idle"
  /\ cursor = Beginning
  /\ round = NoRound
  /\ request = NoRequest
  /\ result = Null
  /\ outcome = "none"

\* The loops of a load under way.
LoadStep ==
  \/ \E p \in Packages : OpenPackage(p)
  \/ \E c \in ImportSlots, p \in Packages : OpenDependency(c, p)
  \/ DependenciesOpen
  \/ \E d \in Domains : FileMissing(d) \/ PackageAllocationFails(d)
  \/ \E c \in LocalSlots : CreateInitialObject(c) \/ CreateInitialObjectFails(c)
  \/ ObjectsCreated
  \/ ResolveImports
  \/ ImportsUnresolved
  \/ \E c \in ArraySlots : GenerateArrayDef(c)
  \/ ArrayDefFails
  \/ ArrayDefsGenerated
  \/ \E c \in LocalSlots :
       \/ DeserializeObject(c)
       \/ DeferObject(c)
       \/ ResolveDefault(c)
       \/ DefaultFails(c)
       \/ PassOver(c)
  \/ ObjectsRead
  \/ UnresolvableDependency
  \/ HardenStructures
  \/ HardenStructuresFails
  \/ ValidateStructures
  \/ ValidateStructuresFails
  \/ FinishPackageLoad

ClientStep ==
  \/ \E d \in Domains : LoadPackage(d)
  \/ \E n \in Names : LookupSymbol(n)
  \/ Runtime \in Domains /\ LoadObject
  \/ \E x \in held : DropRef(x)

Next ==
  \/ LoadStep
  \/ ClientStep
  \/ CollectGarbage
  \/ AllocationFails
  \/ \E d \in Domains, p \in Packages : AddUnloadedPackageFails(d, p)
  \/ phase = "harden" /\ \E S \in SUBSET NewTypes : HardenStructuresInterrupted(S)

Spec == Init /\ [][Next]_vars

\* A load that was started runs: one thread is in the object manager.
FairSpec == Spec /\ WF_vars(LoadStep)

-----------------------------------------------------------------------------
(***************************************************************************)
(* Properties.                                                             *)
(***************************************************************************)

Refs == Packages \cup Objects

Types == Objects \cup {ArrayType(o) : o \in Objects}
               \cup {ArrayType(ArrayType(o)) : o \in Objects}

Phases == {"idle", "open", "dependencies", "create critical", "import critical", "arrays",
           "create arrays", "read critical", "harden", "create", "import", "read",
           "validate", "finish"}

\* The state has its shape, no call leaves its lists behind, and the tables
\* hold live objects only.
TypeOK ==
  /\ \A p \in Packages :
       LET x == pkg[p]
       IN /\ x.domain \in Domains \cup {Null}
          /\ x.pending \in BOOLEAN
          /\ x.first \in Objects \cup {Null}
          /\ Elements(x.locals) \subseteq
               [type : Types \cup {Null}, object : Objects \cup {Null},
                checked : BOOLEAN, duplicate : BOOLEAN]
          /\ Elements(x.imports) \subseteq Objects \cup {Null}
          /\ Elements(x.arrays) \subseteq Types \cup {Null}
  /\ \A o \in Objects :
       LET x == obj[o]
       IN /\ x.of \in Domains \cup {Null}
          /\ x.type \in Types \cup {Null}
          /\ x.unread \in BOOLEAN
          /\ Elements(x.fields) \subseteq Types \cup {Null}
          /\ x.package \in Packages \cup {Null}
          /\ x.stage \in {"none", "laid out", "dependencies", "final"}
  /\ packages \in [Domains -> Packages \cup {Null}]
  /\ \A d \in Domains : packages[d] # Null => pkg[packages[d]].domain = d
  /\ gst \in [Names -> Objects \cup {Null}]
  /\ held \subseteq Refs
  /\ unloaded \in Seq(Packages)
  /\ phase \in Phases
  /\ phase = "idle" => unloaded = <<>> /\ cursor = Beginning /\ result = Null
  /\ result \in Packages \cup {Null}

\* A package that is there and is not flagged GCOF_UnloadedPackage.
Loaded(p) == pkg[p].domain # Null /\ ~pkg[p].pending

IsRead(x) == IsArrayType(x) \/ (Live(x) /\ ~obj[x].unread)

NameOf(o) == SymbolOf(o).name

\* A loaded package is complete, however it came to be loaded: each symbol it
\* names has been created, has been read and is the one that the table of
\* global symbols gives for the name.  It is what LoadPackage promises its
\* callers after any sequence of earlier loads, failures and collections.
PackagesComplete ==
  \A p \in Packages : Loaded(p) =>
    \A k \in DOMAIN pkg[p].locals :
      LET s == pkg[p].locals[k]
          name == Local(pkg[p].domain, k).name
      IN name # Null => /\ s.object # Null /\ s.type # Null
                        /\ IsRead(s.object)
                        /\ obj[s.object].type = s.type
                        /\ gst[name] = s.object

\* x is what the file of package p means by ref.
IsSymbol(x, p, ref) ==
  CASE ref[1] = "local" ->
         LET name == Local(pkg[p].domain, ref[2]).name
         IN IF name = Null THEN x = <<p, ref[2]>> ELSE NameOf(x) = name
    [] ref[1] = "import" -> NameOf(x) = Files[pkg[p].domain].imports[ref[2]]
    [] OTHER -> FALSE

IsMeant(x, p, ref) ==
  IF ref[1] # "array" THEN ~IsArrayType(x) /\ IsSymbol(x, p, ref)
  ELSE LET element == Files[pkg[p].domain].arrays[ref[2]]
       IN /\ IsArrayType(x)
          /\ IF element[1] = "array" THEN IsArrayType(x[2]) ELSE IsSymbol(x[2], p, element)

\* What an object of a loaded package refers to is what the file says, and it
\* has been read: no reference was read as null because its target was not
\* known yet, and none leads to another object of that address.
ReferencesAsFiled ==
  \A o \in Packages \X (1..MaxLocals) : Live(o) /\ ~obj[o].unread /\ Loaded(o[1]) =>
    \A f \in DOMAIN obj[o].fields :
      LET x == obj[o].fields[f]
      IN x # Null /\ IsMeant(x, o[1], SymbolOf(o).fields[f]) /\ IsRead(x)

\* Never two live objects of the same name, even when a package is collected,
\* an object of it is not, and the package is loaded again.
OneObjectPerName ==
  \A o, q \in Objects :
    /\ Live(o) /\ ~obj[o].unread /\ Live(q) /\ ~obj[q].unread
    /\ NameOf(o) = NameOf(q) /\ NameOf(o) \notin Duplicables \cup {Null}
    => o = q

\* LookupSymbol finds objects that have been read, under their own name.
GlobalsRead ==
  \A n \in Names : gst[n] # Null =>
    Live(gst[n]) /\ ~obj[gst[n]].unread /\ NameOf(gst[n]) = n

\* The "should never happen" of LoadSymbolsOfCriticality: once the last round
\* of CreateInitialObjects is over, every symbol has a type and an object.
EverySymbolCreated ==
  phase \in {"import", "read", "validate", "finish"} =>
    \A c \in LocalSlots :
      LET s == pkg[unloaded[c[1]]].locals[c[2]] IN s.type # Null /\ s.object # Null

\* "Assign it to the GST if it's the first instance": a live entry of the table
\* of global symbols is never replaced by another object.
GlobalsKept ==
  [][\A n \in Names : gst[n] # Null => gst'[n] \in {gst[n], Null}]_vars

\* The same of the names that a single file defines: an object that is read
\* never takes the place of another.
UnsharedKept ==
  [][\A n \in Names \ Duplicables : gst[n] # Null => gst'[n] \in {gst[n], Null}]_vars

\* A package that an earlier load has left behind half loaded.
LeftOver == \E d \in Domains \ {Runtime} :
  packages[d] # Null /\ pkg[packages[d]].pending /\ packages[d] \notin Elements(unloaded)

\* An object that has outlived the package that is now being loaded again.
Orphaned == \E i \in DOMAIN unloaded : \E n \in Names :
  /\ gst[n] \notin BuiltIns \cup {Null}
  /\ DomainOf[n] = pkg[unloaded[i]].domain
  /\ gst[n][1] # unloaded[i]

ContentErrors == {"corrupted", "unresolved", "collision"}

\* A load of well-formed files that is refused for what they contain has one
\* of the causes known: the leftovers of a failed load, an object that has
\* outlived its package, or a collection that dropped a table entry during
\* the load.
FailureHasACause ==
  [][Idle' /\ ~Idle /\ outcome' \in ContentErrors =>
       request.disturbed \/ LeftOver \/ Orphaned]_vars

\* The types of a loaded package can be used: they were found valid, they are
\* laid out, and they and all they contain have their defaults.
LoadedTypesUsable ==
  \A p \in Packages : Loaded(p) =>
    \A o \in Objects : Live(o) /\ o[1] = p /\ IsStructuredType(o) /\ ~obj[o].unread =>
      /\ SymbolOf(o).valid
      /\ obj[o].stage = "final"
      /\ \A t \in LayoutOf(o) : t # Null /\ obj[t].stage = "final"

\* A load that was started returns: no loop of it waits for a symbol that
\* will not come.
LoadReturns == phase # "idle" ~> phase = "idle"

(***************************************************************************)
(* Claims of the comments that the code does not keep.                     *)
(***************************************************************************)

\* "All types should be resolved at this point": when the array types are
\* generated, the rounds before have created the types they are arrays of.
TypesResolvedBeforeArrays ==
  phase = "arrays" =>
    \A c \in ArraySlots : ElementRef(c)[1] # "array" => ElementType(c) # Null

\* "It will fully load one package and dependencies": the package that
\* LoadPackage returns is loaded.
ReturnedPackagesLoaded == \A p \in held \cap Packages : Loaded(p)
=============================================================================
